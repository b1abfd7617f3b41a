------------------------------ MODULE MergeOps ------------------------------
(***************************************************************************)
(* The merge helpers of src/etc/sandbox/appdata_sandbox_fixer.py as pure   *)
(* operators.  The Python helpers mutate their first argument in place and *)
(* raise on a missing key or on iterating None; here each one returns the  *)
(* updated value, or Error when the Python call raises.  A raise aborts    *)
(* the whole tool, so the partial mutation done before it is never seen.   *)
(*                                                                         *)
(* Data abstraction.  A list entry of "mount-paths" or "symbol-links" is a *)
(* record [key, val, flags]:                                               *)
(*   key   the value of its identity field ("src-path", "target-name" or,  *)
(*         for a flags-point, "flags"); Absent when the field is missing   *)
(*         (dict.get gives None, and None == None, so such entries match); *)
(*   val   stands for each of the five copied fields "sandbox-root",       *)
(*         "sandbox-path", "check-action-status", "fs-type", "link-name",  *)
(*         which _handle_same_array treats identically; Absent = None;     *)
(*   flags the "sandbox-flags" list: a sequence, Absent when the key is    *)
(*         missing (data2[field] raises KeyError) or Null when it is JSON  *)
(*         null (data2[field] is None and _merge_list returns).            *)
(***************************************************************************)
EXTENDS Integers, Sequences, SequencesExt

CONSTANTS
    Keys,      \* identity values ("src-path", "target-name", "flags")
    Vals,      \* values of the copied scalar fields
    Flags,     \* elements of "sandbox-flags" lists
    Absent,    \* a field missing from its JSON object
    Null,      \* a field present with the JSON value null
    Error      \* the Python call raised (KeyError, TypeError, IndexError)

ASSUME {Absent, Null, Error} \cap (Keys \cup Vals \cup Flags) = {}

KeyVal  == Keys \cup {Absent}
ValVal  == Vals \cup {Absent}
FlagVal == Seq(Flags) \cup {Absent, Null}

Entry == [key : KeyVal, val : ValVal, flags : FlagVal]

(* A field that dict.get returns as None. *)
IsNone(x) == x \in {Absent, Null}

(* o[i] := r, where the computation of r may have raised. *)
Put(o, i, r) == IF r = Error THEN Error ELSE [o EXCEPT ![i] = r]

-----------------------------------------------------------------------------
(***************************************************************************)
(* Mutations used to show that the properties can fail (see PROJECT.json). *)
(* Each is a plausible slip in the helper it replaces.                     *)
(***************************************************************************)

\* _merge_list appending every incoming flag, without the "not in" test.
MergeListNoDedup(origin, new) ==
    IF origin = Null THEN origin ELSE origin \o new

\* _merge_list testing membership against origin as it was before the call.
MergeListStaleOrigin(origin, new) ==
    IF origin = Null THEN origin
    ELSE origin \o SelectSeq(new, LAMBDA f : ~Contains(origin, f))

\* _merge_list appending the incoming list as one element (append for extend).
MergeListAppendWhole(origin, new) ==
    IF origin = Null THEN origin ELSE Append(origin, new)

-----------------------------------------------------------------------------
(* _merge_list (lines 52-57): append each flag of new not already in       *)
(* origin; origin None means return without change.  The membership test   *)
(* sees the flags appended earlier in the same call.  The caller only      *)
(* passes a non-empty new, so the "new is None" return is never taken.     *)
MergeList(origin, new) ==
    IF origin = Null THEN origin
    ELSE FoldLeft(LAMBDA o, f : IF Contains(o, f) THEN o ELSE Append(o, f),
                  origin, new)

\* _handle_same_array copying a field even when the incoming one is None.
HandleSameArrayNoNoneCheck(data1, data2) ==
    LET item   == data1.flags
        copied == [data2 EXCEPT !.val = data1.val]
    IN  IF IsNone(item) \/ item = <<>> THEN copied
        ELSE IF data2.flags = Absent THEN Error
        ELSE [copied EXCEPT !.flags = MergeList(@, item)]

(* _is_same_data (lines 59-63) with the single identity field every caller *)
(* passes: missing on both sides compares equal (None == None).            *)
IsSameData(data1, data2) == data1.key = data2.key

(* _handle_same_array (lines 67-75): copy the non-None scalar fields of    *)
(* the incoming entry data1 onto the matched entry data2, then merge a     *)
(* non-empty incoming "sandbox-flags" into data2["sandbox-flags"], which   *)
(* raises KeyError when data2 has no such key.                             *)
HandleSameArray(data1, data2) ==
    LET item   == data1.flags
        copied == [data2 EXCEPT !.val = IF IsNone(data1.val) THEN @ ELSE data1.val]
    IN  IF IsNone(item) \/ item = <<>> THEN copied
        ELSE IF data2.flags = Absent THEN Error
        ELSE [copied EXCEPT !.flags = MergeList(@, item)]

(* One pass of the scan loop of _merge_scope_array (lines 79-86) and      *)
(* _merge_scope_flags_point (lines 104-112), given i, the index of the     *)
(* first entry of o with data1's identity (0 for none): append data1, or   *)
(* store handled, the result of handling data1 into o[i].                  *)
MergeAt(o, data1, i, handled) == IF i = 0 THEN Append(o, data1) ELSE Put(o, i, handled)

\* _merge_scope_array scanning the list as it was when the call began.
MergeScopeArrayStaleScan(origin, new) ==
    IF IsNone(origin) THEN Error
    ELSE LET Step(o, data1) ==
               IF o = Error THEN Error
               ELSE LET i == SelectInSeq(origin, LAMBDA d2 : IsSameData(data1, d2))
                    IN  MergeAt(o, data1, i, HandleSameArray(data1, o[i]))
         IN  FoldLeft(Step, origin, new)

\* _merge_scope_array updating the last matching entry instead of the first.
MergeScopeArrayLastMatch(origin, new) ==
    IF IsNone(origin) THEN Error
    ELSE LET Step(o, data1) ==
               IF o = Error THEN Error
               ELSE LET i == SelectLastInSeq(o, LAMBDA d2 : IsSameData(data1, d2))
                    IN  MergeAt(o, data1, i, HandleSameArray(data1, o[i]))
         IN  FoldLeft(Step, origin, new)

(* _merge_scope_array (lines 77-86): for each incoming entry, in order,    *)
(* update the first entry of origin with the same identity (found = True;  *)
(* break) or append it.  The scan runs over origin as it grows, so an      *)
(* entry appended earlier in the same call can be matched.  Iterating an   *)
(* origin that is None raises TypeError.                                   *)
MergeScopeArray(origin, new) ==
    IF IsNone(origin) THEN Error
    ELSE LET Step(o, data1) ==
               IF o = Error THEN Error
               ELSE LET i == SelectInSeq(o, LAMBDA d2 : IsSameData(data1, d2))
                    IN  MergeAt(o, data1, i, HandleSameArray(data1, o[i]))
         IN  FoldLeft(Step, origin, new)

-----------------------------------------------------------------------------
(***************************************************************************)
(* Scopes.  A scope (an element of "app-base", "app-resources", or of the  *)
(* list an "individual"/"permission" name maps to) is a record             *)
(*   root    "sandbox-root"; it also stands for "sandbox-switch" and       *)
(*           "gids", which lines 120-122 overwrite the same way;           *)
(*   mounts  "mount-paths", a list of Entry (identity "src-path");         *)
(*   links   "symbol-links", a list of Entry (identity "target-name");     *)
(*   fps     "flags-point", a list of FlagsPoint (identity "flags");       *)
(*   ns      "sandbox-ns-flags", a list of flags.                          *)
(* A list field may be Absent or Null.  The one-element list that wraps a  *)
(* scope is a sequence of at most one scope (the code reads only [0]).     *)
(***************************************************************************)
CONSTANT RootDefault   \* "/mnt/sandbox/<currentUserId>/<PackageName>"

ListOf(S) == Seq(S) \cup {Absent, Null}

FlagsPoint == [key : KeyVal, root : ValVal, mounts : ListOf(Entry)]

Scope == [root : ValVal \cup {Null, RootDefault}, mounts : ListOf(Entry),
          links : ListOf(Entry), fps : ListOf(FlagsPoint),
          ns : ListOf(Flags)]

(* A list the code treats as present: not None and len > 0. *)
NonEmpty(x) == ~IsNone(x) /\ x # <<>>

(* The new value of a field o for which the incoming value is item: the   *)
(* merge of item into o (merged, which is Error when the merge raises)     *)
(* when item is non-empty (the "if item and len(item) > 0" tests), else o  *)
(* unchanged.  The fields a handler merges are disjoint, so each is        *)
(* computed from its old value and the handler raises when any of them     *)
(* does.                                                                   *)
MergeField(o, item, merged) == IF NonEmpty(item) THEN merged ELSE o

(* _handle_same_data (lines 88-97): copy a non-None "sandbox-root" of the  *)
(* incoming flags-point data1 onto the matched data2; then, for a          *)
(* non-empty incoming "mount-paths", call _merge_scope_array on            *)
(* data2[field], where field is still "sandbox-root" from the first loop.  *)
(* That value is a string, None or missing, and the call raises on each    *)
(* (AttributeError on str.get or str.append, TypeError, KeyError).         *)
HandleSameData(data1, data2) ==
    IF NonEmpty(data1.mounts) THEN Error
    ELSE [data2 EXCEPT !.root = IF IsNone(data1.root) THEN @ ELSE data1.root]

(* _merge_scope_flags_point (lines 99-112): _merge_scope_array's loop over *)
(* the "flags" identity, with _handle_same_data on a match.                *)
MergeScopeFlagsPoint(origin, new) ==
    IF IsNone(origin) THEN Error
    ELSE LET Step(o, data1) ==
               IF o = Error THEN Error
               ELSE LET i == SelectInSeq(o, LAMBDA d2 : IsSameData(data1, d2))
                    IN  MergeAt(o, data1, i, HandleSameData(data1, o[i]))
         IN  FoldLeft(Step, origin, new)

(* Whether merging scope n touches origin[0] (each access raises when the  *)
(* wrapping list origin is empty).                                         *)
Touches(n) ==
    ~IsNone(n.root) \/ NonEmpty(n.fps) \/ NonEmpty(n.mounts) \/ NonEmpty(n.links)

(* origin[0] with its scalars and three lists set, unless a list merge    *)
(* raised.                                                                 *)
ScopeWith(origin, root, fps, mounts, links) ==
    IF fps = Error \/ mounts = Error \/ links = Error THEN Error
    ELSE [origin EXCEPT ![1] = [@ EXCEPT !.root = root, !.fps = fps,
                                          !.mounts = mounts, !.links = links]]

\* _merge_scope_app overwriting "sandbox-root" even with None.
MergeScopeAppNoNoneCheck(origin, new) ==
    IF new = <<>> \/ (origin = <<>> /\ Touches(new[1])) THEN Error
    ELSE IF origin = <<>> THEN origin
    ELSE LET n  == new[1]
             o  == origin[1]
         IN  ScopeWith(origin, n.root,
                       MergeField(o.fps, n.fps, MergeScopeFlagsPoint(o.fps, n.fps)),
                       MergeField(o.mounts, n.mounts, MergeScopeArray(o.mounts, n.mounts)),
                       MergeField(o.links, n.links, MergeScopeArray(o.links, n.links)))

(* _merge_scope_app (lines 114-133): both arguments are the one-element    *)
(* lists wrapping a scope; new[0] raises IndexError when new is empty.     *)
(* Overwrite the non-None scalars, merge a non-empty "flags-point" into    *)
(* origin[0]["flags-point"] (KeyError when missing), then "mount-paths"    *)
(* and "symbol-links" into origin[0].get(name) (TypeError when None).      *)
(* "sandbox-ns-flags" is not merged.                                       *)
MergeScopeApp(origin, new) ==
    IF new = <<>> \/ (origin = <<>> /\ Touches(new[1])) THEN Error
    ELSE IF origin = <<>> THEN origin
    ELSE LET n  == new[1]
             o  == origin[1]
         IN  ScopeWith(origin, IF IsNone(n.root) THEN o.root ELSE n.root,
                       MergeField(o.fps, n.fps, MergeScopeFlagsPoint(o.fps, n.fps)),
                       MergeField(o.mounts, n.mounts, MergeScopeArray(o.mounts, n.mounts)),
                       MergeField(o.links, n.links, MergeScopeArray(o.links, n.links)))

(* origin with each name of merged set to its value, unless one raised. *)
NamesWith(origin, merged) ==
    IF \E k \in DOMAIN merged : merged[k] = Error THEN Error
    ELSE [k \in DOMAIN origin \cup DOMAIN merged |->
             IF k \in DOMAIN merged THEN merged[k] ELSE origin[k]]

\* _merge_scope_individual assigning every incoming name, merged or not.
MergeScopeIndividualOverwrite(origin, new) ==
    [k \in DOMAIN origin \cup DOMAIN new |->
        IF k \in DOMAIN new THEN new[k] ELSE origin[k]]

(* _merge_scope_individual (lines 135-140): a name not yet in origin is    *)
(* inserted with its value as is; a known one is merged by _merge_scope_app.*)
MergeScopeIndividual(origin, new) ==
    NamesWith(origin, [k \in DOMAIN new |->
                          IF k \in DOMAIN origin THEN MergeScopeApp(origin[k], new[k])
                          ELSE new[k]])

(* _merge_scope_permission (lines 143-148): the same code as above. *)
MergeScopePermission(origin, new) == MergeScopeIndividual(origin, new)

(* origin with its switch and two scope lists set, unless a merge raised. *)
CommonWith(origin, switch, base, res) ==
    IF base = Error \/ res = Error THEN Error
    ELSE [origin EXCEPT !.switch = switch, !.base = base, !.res = res]

MergeScopeCommon(origin, new) ==
    CommonWith(origin,
               IF new.switch \in {Absent, Null, ""} THEN origin.switch ELSE new.switch,
               MergeField(origin.base, new.base, MergeScopeApp(origin.base, new.base)),
               MergeField(origin.res, new.res, MergeScopeApp(origin.res, new.res)))

(* APP_SANDBOX_DEFAULT (lines 28-48) after json.loads. *)
TemplateScope(ns) ==
    [root |-> RootDefault, mounts |-> <<>>, links |-> <<>>, fps |-> <<>>, ns |-> ns]

Template ==
    [common     |-> <<[switch |-> "ON",
                       base   |-> <<TemplateScope(<<>>)>>,
                       res    |-> <<TemplateScope(Absent)>>]>>,
     individual |-> <<<<>>>>,
     permission |-> <<<<>>>>]

(* Parsed documents: "common" a list of one object, "individual" and      *)
(* "permission" lists of one object from names to wrapped scopes.         *)
CONSTANT Names   \* "individual" package names and "permission" names

Common == [switch : {"ON", "OFF", "", Absent, Null},
           base : Seq(Scope) \cup {Absent}, res : Seq(Scope) \cup {Absent}]

(* A JSON object from names to wrapped scopes. *)
IsNameMap(m) ==
    /\ DOMAIN m \subseteq Names
    /\ \A k \in DOMAIN m : m[k] \in Seq(Scope)

IsDocument(d) ==
    /\ DOMAIN d = {"common", "individual", "permission"}
    /\ d.common \in Seq(Common) \cup {Absent}
    /\ d.individual = Absent \/ \A i \in DOMAIN d.individual : IsNameMap(d.individual[i])
    /\ d.permission = Absent \/ \A i \in DOMAIN d.permission : IsNameMap(d.permission[i])

(* The result with its three sections set, unless a merge raised. *)
DocumentWith(c, i, p) ==
    IF c = Error \/ i = Error \/ p = Error THEN Error
    ELSE [common |-> c, individual |-> i, permission |-> p]

(* The body of the loop of fix_sandbox_config_file (lines 214-229): each   *)
(* non-empty section of the document data merges its element [0] into     *)
(* element [0] of the same section of the result.                          *)
MergeDocument(originJson, data) ==
    LET c == originJson.common
        i == originJson.individual
        p == originJson.permission
    IN  DocumentWith(
          MergeField(c, data.common, Put(c, 1, MergeScopeCommon(c[1], data.common[1]))),
          MergeField(i, data.individual,
                     Put(i, 1, MergeScopeIndividual(i[1], data.individual[1]))),
          MergeField(p, data.permission,
                     Put(p, 1, MergeScopePermission(p[1], data.permission[1]))))

(* Lines 212-229: merge every document into the parsed template; the      *)
(* first merge that raises ends the loop.                                  *)
MergeAll(ds) ==
    FoldLeft(LAMBDA o, d : IF o = Error THEN Error ELSE MergeDocument(o, d), Template, ds)

=============================================================================
