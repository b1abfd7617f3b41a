--------------------------- MODULE KeyedManifest ---------------------------
(***************************************************************************)
(* What an identity-keyed list of the manifest promises (spec sections 3,  *)
(* 4.3 and 8), with no list scan in it: the identities in order of first  *)
(* appearance, each once, and for each identity its copied field and its   *)
(* "sandbox-flags".  One step merges one incoming list.                    *)
(***************************************************************************)
EXTENDS MergeOps, FiniteSets

CONSTANT Incoming   \* the incoming lists a merge may carry

VARIABLES
    order,    \* the identities, each once, in order of first appearance
    fields,   \* identity -> [val, flags]
    merged    \* the incoming lists merged so far, in order

mvars == <<order, fields, merged>>

Fields(e) == [val |-> e.val, flags |-> e.flags]

(* Position of the first element of s that is x (0 if none). *)
PosIn(s, x) == SelectInSeq(s, LAMBDA y : y = x)

InKeys(new) == {new[i].key : i \in 1..Len(new)}

(* The identities new introduces, in the order they first appear in it. *)
Introduced(new) ==
    SetToSortSeq(InKeys(new) \ ToSet(order),
                 LAMBDA a, b : PosIn([i \in 1..Len(new) |-> new[i].key], a)
                               < PosIn([i \in 1..Len(new) |-> new[i].key], b))

(* The fields identity k ends a merge of new with: it starts from its      *)
(* current fields, or from its first entry in new when it is new; the last *)
(* later entry with a non-null value sets the value; the flags of the      *)
(* later entries not yet present are appended once each, in order of       *)
(* first appearance.  A null or missing flags list is left as it is.       *)
Merged(new, k) ==
    LET ws    == SelectSeq(new, LAMBDA e : e.key = k)
        known == k \in ToSet(order)
        base  == IF known THEN fields[k] ELSE Fields(Head(ws))
        later == IF known THEN ws ELSE Tail(ws)
        vals  == SelectSeq(later, LAMBDA e : ~IsNone(e.val))
        fl    == FlattenSeq([i \in 1..Len(later) |->
                              IF IsNone(later[i].flags) THEN <<>> ELSE later[i].flags])
        added == SetToSortSeq(ToSet(fl) \ ToSet(base.flags),
                              LAMBDA a, b : PosIn(fl, a) < PosIn(fl, b))
    IN  [val   |-> IF vals = <<>> THEN base.val ELSE Last(vals).val,
         flags |-> IF IsNone(base.flags) THEN base.flags ELSE base.flags \o added]

Init ==
    /\ order \in Seq(KeyVal)
    /\ IsInjective(order)
    /\ DOMAIN fields = ToSet(order)
    /\ merged = <<>>

MergeIncoming(new) ==
    /\ merged' = Append(merged, new)
    /\ order' = order \o Introduced(new)
    /\ fields' = [k \in ToSet(order') |->
                    IF k \in InKeys(new) THEN Merged(new, k) ELSE fields[k]]

Next == \E new \in Incoming : MergeIncoming(new)

Spec == Init /\ [][Next]_mvars

=============================================================================
