-------------------------- MODULE MC_SandboxMerge --------------------------
(***************************************************************************)
(* Model of SandboxMerge: one package name, two identities, two values,    *)
(* two flags, and small sets of documents.  MCDocuments mixes the shapes   *)
(* real override files take: partial scopes that omit lists, a new and a   *)
(* known "individual" name, a "permission" scope with a flags-point and a  *)
(* repeated "src-path", switches.  The other sets are for the runs that    *)
(* check one claim of the spec each.                                       *)
(***************************************************************************)
EXTENDS SandboxMerge

CONSTANTS k1, k2, v1, v2, f1, f2, n1

MCKeys  == {k1, k2}
MCVals  == {v1, v2}
MCFlags == {f1, f2}
MCNames == {n1}

E(k, v, f) == [key |-> k, val |-> v, flags |-> f]
FP(k, r, m) == [key |-> k, root |-> r, mounts |-> m]
Sc(r, m, l, fp, ns) == [root |-> r, mounts |-> m, links |-> l, fps |-> fp, ns |-> ns]

e1 == E(k1, v1, <<f1>>)
e2 == E(k1, v2, <<f2>>)
e3 == E(k2, v1, <<>>)

(* A document with only a common section, only an individual map, or only *)
(* a permission map.                                                       *)
CommonDoc(sw, b, r) ==
    [common |-> <<[switch |-> sw, base |-> b, res |-> r]>>,
     individual |-> Absent, permission |-> Absent]
IndividualDoc(m) == [common |-> Absent, individual |-> <<m>>, permission |-> Absent]
PermissionDoc(m) == [common |-> Absent, individual |-> Absent, permission |-> <<m>>]

MCDocuments ==
    { CommonDoc(Absent, <<Sc(v1, <<e1>>, Absent, Absent, Absent)>>, Absent),
      CommonDoc("OFF", Absent, <<Sc(Absent, <<e2, e3>>, <<e3>>, Absent, Absent)>>),
      CommonDoc("", <<Sc(Absent, Absent, Absent, <<FP(k1, v2, Absent)>>, Absent)>>, Absent),
      IndividualDoc(n1 :> <<Sc(v2, <<e1>>, Absent, Absent, Absent)>>),
      IndividualDoc(n1 :> <<Sc(Absent, <<e2>>, <<e1>>, Absent, Absent)>>),
      PermissionDoc(n1 :> <<Sc(v1, <<e1, e2>>, <<>>, <<FP(k1, Absent, <<e3>>)>>, Absent)>>),
      PermissionDoc(n1 :> <<Sc(Null, <<e3>>, Absent, Absent, Absent)>>) }

(* Well-formed documents: every list present, every entry with flags. *)
MCDocsFlagsPoint ==
    { CommonDoc("ON", <<Sc(v1, <<>>, <<>>, <<FP(k1, Absent, <<e1>>)>>, <<>>)>>, Absent),
      CommonDoc("ON", <<Sc(v2, <<e2>>, <<>>, <<FP(k2, v1, <<e3>>)>>, <<>>)>>, Absent) }

(* Well-formed documents without flags-points. *)
MCDocsIdempotent ==
    { IndividualDoc(n1 :> <<Sc(v1, <<e1, e2>>, <<>>, <<>>, <<>>)>>),
      CommonDoc("ON", <<Sc(v1, <<e1>>, <<e3>>, <<>>, <<>>)>>, Absent) }

(* A document that adds a namespace flag to "app-base". *)
MCDocsNs ==
    { CommonDoc(Absent, <<Sc(Absent, Absent, Absent, Absent, <<f1>>)>>, Absent) }

(* Names inserted as is with a gap, then written into by a later document: *)
(* a scope without "mount-paths" (line 133), and an empty list (line 122). *)
(* Set Documents to one of these in MC_SandboxMerge_FlagsPoint.cfg to see  *)
(* NoMergeError fail at those lines instead of line 97.                    *)
MCDocsMissingList ==
    { IndividualDoc(n1 :> <<Sc(v1, Absent, Absent, Absent, Absent)>>),
      IndividualDoc(n1 :> <<Sc(Absent, <<e1>>, Absent, Absent, Absent)>>) }

MCDocsEmptyName ==
    { IndividualDoc(n1 :> <<>>),
      IndividualDoc(n1 :> <<Sc(v1, <<e1>>, <<>>, <<>>, <<>>)>>) }

MCMaxDocs == 4
=============================================================================
