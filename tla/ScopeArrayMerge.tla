--------------------------- MODULE ScopeArrayMerge ---------------------------
(***************************************************************************)
(* One identity-keyed list of a scope ("mount-paths" or "symbol-links")    *)
(* as successive documents merge into it: each document that carries a     *)
(* non-empty list of that name calls _merge_scope_array(origin, item)      *)
(* once (appdata_sandbox_fixer.py lines 130-133 and 94-97).                *)
(*                                                                         *)
(* The list starts either as the template's empty list (line 28) or as a   *)
(* list an earlier document inserted verbatim under a new "individual" or  *)
(* "permission" key (line 138), which may hold anything a document holds:  *)
(* repeated identities, entries without "sandbox-flags", null flags.       *)
(*                                                                         *)
(* origin becomes Error when a call raises: the tool stops there.          *)
(***************************************************************************)
EXTENDS MergeOps, FiniteSets

CONSTANTS
    InitLists,      \* lists origin may hold before the first merge
    IncomingLists,  \* non-empty lists a document may carry
    MaxCalls        \* bound on the number of documents merged

ASSUME /\ InitLists \subseteq Seq(Entry)
       /\ IncomingLists \subseteq Seq(Entry) \ {<<>>}
       /\ MaxCalls \in Nat

VARIABLES
    origin,    \* the list being merged into, or Error
    origin0,   \* history: the list before the first merge
    history    \* history: the incoming lists merged so far, in order

vars == <<origin, origin0, history>>

Init ==
    /\ origin \in InitLists
    /\ origin0 = origin
    /\ history = <<>>

(* One document's merge of its list: the loop of lines 77-86, called from  *)
(* line 133 only when the incoming list is non-empty.                      *)
MergeDocumentList(new) ==
    /\ origin # Error
    /\ Len(history) < MaxCalls
    /\ origin' = MergeScopeArray(origin, new)
    /\ history' = Append(history, new)
    /\ UNCHANGED origin0

Next == \E new \in IncomingLists : MergeDocumentList(new)

Spec == Init /\ [][Next]_vars

-----------------------------------------------------------------------------
(***************************************************************************)
(* Reference definitions: what the merged list should be, stated over the  *)
(* initial list and the incoming entries rather than by replaying the loop.*)
(***************************************************************************)

Writes == FlattenSeq(history)

KeySeq(s) == [i \in 1..Len(s) |-> s[i].key]

KeysOf(s) == {s[i].key : i \in 1..Len(s)}

FirstIdx(s, k) == SelectInSeq(s, LAMBDA e : e.key = k)

(* Positions in Writes that introduce a key seen neither in origin0 nor    *)
(* earlier in Writes, in order.                                            *)
NewKeyPositions ==
    {j \in 1..Len(Writes) :
        /\ Writes[j].key \notin KeysOf(origin0)
        /\ \A j2 \in 1..(j - 1) : Writes[j2].key # Writes[j].key}

NewKeys ==
    LET js == SetToSortSeq(NewKeyPositions, <)
    IN  [i \in 1..Len(js) |-> Writes[js[i]].key]

(* The entries of Writes with key k that merge into an existing entry:     *)
(* all of them when k was in origin0, all but the first otherwise.         *)
LaterWrites(k) ==
    LET js == {j \in 1..Len(Writes) : Writes[j].key = k}
        base == IF k \in KeysOf(origin0) THEN {} ELSE {Min(js)}
    IN  SetToSortSeq(js \ base, <)

(* The entry the first occurrence of k started from. *)
BaseEntry(k) ==
    IF k \in KeysOf(origin0) THEN origin0[FirstIdx(origin0, k)]
    ELSE Writes[Min({j \in 1..Len(Writes) : Writes[j].key = k})]

ExpectedVal(k) ==
    LET ws == {j \in 1..Len(Writes) : Writes[j].key = k /\ ~IsNone(Writes[j].val)}
    IN  IF ws # {} THEN Writes[Max(ws)].val ELSE BaseEntry(k).val

(* The flags of the later writes of k that the merge reads (non-empty      *)
(* lists), concatenated in order.                                          *)
LaterFlags(k) ==
    LET lw == LaterWrites(k)
        fs == [i \in 1..Len(lw) |->
                 LET f == Writes[lw[i]].flags
                 IN  IF IsNone(f) THEN <<>> ELSE f]
    IN  FlattenSeq(fs)

FirstPos(s, x) == SelectInSeq(s, LAMBDA y : y = x)

(* F is F0 followed by every flag of later not in F0, once each, in the    *)
(* order of its first appearance in later.                                 *)
IsOrderedUnion(F, F0, later) ==
    /\ IsPrefix(F0, F)
    /\ LET T == SubSeq(F, Len(F0) + 1, Len(F))
       IN  /\ ToSet(T) = ToSet(later) \ ToSet(F0)
           /\ Len(T) = Cardinality(ToSet(T))
           /\ \A i, j \in 1..Len(T) :
                 i < j => FirstPos(later, T[i]) < FirstPos(later, T[j])

-----------------------------------------------------------------------------
TypeOK ==
    /\ origin \in Seq(Entry) \cup {Error}
    /\ origin0 \in InitLists
    /\ history \in Seq(IncomingLists)
    /\ Len(history) <= MaxCalls

(* Layout: the merged list is the initial list, every entry in place (a    *)
(* repeated identity in it included), followed by one entry per identity   *)
(* first seen in the incoming lists, in order of first appearance.  So the *)
(* merge never creates a second entry for an identity, also when one       *)
(* incoming list repeats an identity (_merge_scope_array scans the list it *)
(* is appending to).                                                       *)
KeyLayout ==
    origin # Error => KeySeq(origin) = KeySeq(origin0) \o NewKeys

(* Only the first entry of an identity is ever updated (the scan breaks at *)
(* the first match): every later duplicate still equals its initial entry. *)
UpdatesHitFirstOccurrence ==
    origin # Error =>
        \A i \in 1..Len(origin0) :
            i # FirstIdx(origin, origin[i].key) => origin[i] = origin0[i]

(* Last writer wins: the copied scalar field of an identity's entry is the *)
(* value of the last incoming entry that sets it (non-None), and keeps its *)
(* first value when none does.                                             *)
LastWriterWins ==
    origin # Error =>
        \A k \in KeysOf(origin) : origin[FirstIdx(origin, k)].val = ExpectedVal(k)

(* "sandbox-flags" of an identity's entry is its first list followed by    *)
(* every flag merged into it later, once, in order of first appearance.    *)
(* A null list stays null (_merge_list returns on None); a missing one     *)
(* can only stay missing, since merging into it raises.                    *)
FlagsOrderedUnion ==
    origin # Error =>
        \A k \in KeysOf(origin) :
            LET F  == origin[FirstIdx(origin, k)].flags
                F0 == BaseEntry(k).flags
            IN  IF IsNone(F0) THEN F = F0
                ELSE IsOrderedUnion(F, F0, LaterFlags(k))

(* Idempotence: merging the list just merged a second time changes nothing. *)
Idempotent ==
    [][history' # <<>> /\ origin' # Error =>
          MergeScopeArray(origin', Last(history')) = origin']_vars

(***************************************************************************)
(* Refinement: seen as its identities in order and the fields of the first *)
(* entry of each, the list behaves as the abstract KeyedManifest.  Later  *)
(* duplicates of an identity (from a verbatim insert) are invisible to the *)
(* view.  This needs merges that do not raise.                             *)
(***************************************************************************)
FirstKeys(s) == SetToSortSeq(KeysOf(s), LAMBDA a, b : FirstIdx(s, a) < FirstIdx(s, b))

Manifest == INSTANCE KeyedManifest WITH
    Incoming <- IncomingLists,
    order    <- FirstKeys(origin),
    merged   <- history,
    fields   <- [k \in KeysOf(origin) |->
                   [val   |-> origin[FirstIdx(origin, k)].val,
                    flags |-> origin[FirstIdx(origin, k)].flags]]

(* Each merge of an incoming list is one step of the abstract manifest:    *)
(* new identities are appended once, in order of first appearance, and     *)
(* every identity's value and flags are merged as spec 4.3 and 8 say.      *)
ImplementsKeyedManifest == Manifest!Spec

(* No merge raises: "sandbox-flags" is merged by union (spec section 3).   *)
NoMergeError == origin # Error

=============================================================================
