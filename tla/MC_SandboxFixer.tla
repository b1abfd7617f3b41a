-------------------------- MODULE MC_SandboxFixer --------------------------
(***************************************************************************)
(* Model of SandboxFixer: up to one extra file besides the source file,    *)
(* three invocations, and three documents: two that merge and one whose    *)
(* "mount-paths" repeats a "src-path" first without and then with          *)
(* "sandbox-flags", so that merging it raises.                             *)
(***************************************************************************)
EXTENDS SandboxFixer

CONSTANTS k1, k2, v1, v2, f1, f2, n1

MCKeys  == {k1, k2}
MCVals  == {v1, v2}
MCFlags == {f1, f2}
MCNames == {n1}

E(k, v, f) == [key |-> k, val |-> v, flags |-> f]
Sc(r, m) == [root |-> r, mounts |-> m, links |-> <<>>, fps |-> <<>>, ns |-> <<>>]

BaseDoc(s) ==
    [common |-> <<[switch |-> Absent, base |-> <<s>>, res |-> Absent]>>,
     individual |-> Absent, permission |-> Absent]
IndividualDoc(s) == [common |-> Absent, individual |-> <<n1 :> <<s>> >>, permission |-> Absent]

MCDocuments ==
    { BaseDoc(Sc(v1, <<E(k1, v1, <<f1>>)>>)),
      IndividualDoc(Sc(v2, <<E(k2, v2, <<>>)>>)),
      BaseDoc(Sc(Absent, <<E(k2, v1, Absent), E(k2, Absent, <<f2>>)>>)) }

MCMaxExtra == 1
MCMaxRuns  == 3
=============================================================================
