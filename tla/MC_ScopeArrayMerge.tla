------------------------- MODULE MC_ScopeArrayMerge -------------------------
(***************************************************************************)
(* Model of ScopeArrayMerge: two identities plus the missing identity, two *)
(* values, two flags.  The entries are chosen so that one incoming list    *)
(* can repeat an identity, overwrite or keep a value, and add, repeat or   *)
(* omit "sandbox-flags".                                                   *)
(***************************************************************************)
EXTENDS ScopeArrayMerge

CONSTANTS k1, k2, v1, v2, f1, f2

MCKeys  == {k1, k2}
MCVals  == {v1, v2}
MCFlags == {f1, f2}

E(k, v, f) == [key |-> k, val |-> v, flags |-> f]

(* Entries a document may carry, one per line of behaviour. *)
MCEntries ==
    { E(k1, v1, <<f1>>),       \* new identity with flags
      E(k1, v2, <<f2, f2, f1>>), \* same identity, new value, a new flag twice
      E(k1, Absent, <<>>),     \* same identity, nothing to copy
      E(k2, v1, Absent),       \* identity without "sandbox-flags"
      E(k2, Absent, <<f2>>),   \* flags into an entry that may lack them
      E(Absent, v2, Null) }    \* entry without identity field, null flags

(* Lists of one or two entries. *)
MCIncomingLists ==
    {<<e>> : e \in MCEntries} \cup {<<e1, e2>> : e1, e2 \in MCEntries}

(* The template's empty list, and lists inserted verbatim by a document:   *)
(* a repeated identity, and an entry with repeated and with null flags.    *)
MCInitLists ==
    { <<>>,
      <<E(k1, v1, <<f1, f1>>), E(k1, v2, <<>>)>>,
      <<E(k2, v2, Null), E(Absent, v1, <<f2>>)>> }

MCMaxCalls == 3

(* For the refinement: initial lists with a repeated flag, with null flags *)
(* and no identity, and with a repeated identity; and no incoming entry    *)
(* without "sandbox-flags" (merging flags into one raises).                *)
MCRefineInitLists ==
    { <<>>,
      <<E(k1, v1, <<f1, f1>>)>>,
      <<E(k2, v2, Null), E(Absent, v1, <<f2>>)>>,
      <<E(k1, v1, <<f1>>), E(k1, v2, <<>>)>> }

MCRefineIncomingLists ==
    LET es == MCEntries \ {E(k2, v1, Absent)}
    IN  {<<e>> : e \in es} \cup {<<e1, e2>> : e1, e2 \in es}
=============================================================================
