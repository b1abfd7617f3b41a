---------------------------- MODULE SandboxMerge ----------------------------
(***************************************************************************)
(* The merge loop of fix_sandbox_config_file (appdata_sandbox_fixer.py     *)
(* lines 212-229): the result starts as the parsed default template and    *)
(* each parsed document, in order, is merged into it by MergeDocument.     *)
(* originJson becomes Error when a merge raises; the tool then exits       *)
(* without writing anything, so no step follows.                           *)
(***************************************************************************)
EXTENDS MergeOps, FiniteSets

CONSTANTS
    Documents,   \* parsed documents a run may merge
    MaxDocs      \* bound on the number of documents merged

ASSUME /\ \A d \in Documents : IsDocument(d)
       /\ MaxDocs \in Nat

VARIABLES
    originJson,   \* the result being built, or Error
    docs          \* history: the documents merged so far, in order

vars == <<originJson, docs>>

Init ==
    /\ originJson = Template
    /\ docs = <<>>

(* One iteration of the loop: merge document data into the result. *)
Merge(data) ==
    /\ originJson # Error
    /\ Len(docs) < MaxDocs
    /\ originJson' = MergeDocument(originJson, data)
    /\ docs' = Append(docs, data)

Next == \E data \in Documents : Merge(data)

Spec == Init /\ [][Next]_vars

-----------------------------------------------------------------------------
(***************************************************************************)
(* Views of a document or result as scopes addressed by path.              *)
(***************************************************************************)

Paths == {<<"common", "base">>, <<"common", "res">>}
         \cup {<<sec, n>> : sec \in {"individual", "permission"}, n \in Names}

(* The scope a wrapping list holds, or Absent. *)
Wrapped(w) == IF NonEmpty(w) THEN w[1] ELSE Absent

(* The scope at path p of a document or result j, or Absent. *)
ScopeAt(j, p) ==
    IF ~NonEmpty(j[p[1]]) THEN Absent
    ELSE IF p[1] = "common" THEN Wrapped(j.common[1][p[2]])
    ELSE LET m == j[p[1]][1]
         IN  IF p[2] \in DOMAIN m THEN Wrapped(m[p[2]]) ELSE Absent

KeysOf(s) == {s[i].key : i \in 1..Len(s)}

ListFields == {"mounts", "links", "fps"}

(* Indices of the merged documents that give a scope at p. *)
Naming(p) == {i \in 1..Len(docs) : ScopeAt(docs[i], p) # Absent}

ExpectedRoot(p) ==
    LET set == {i \in Naming(p) : ~IsNone(ScopeAt(docs[i], p).root)}
    IN  IF set # {} THEN ScopeAt(docs[Max(set)], p).root
        ELSE IF p[1] = "common" THEN RootDefault
        ELSE ScopeAt(docs[Min(Naming(p))], p).root

-----------------------------------------------------------------------------
TypeOK ==
    /\ originJson = Error \/ IsDocument(originJson)
    /\ docs \in Seq(Documents)
    /\ Len(docs) <= MaxDocs

(* No entry is lost: every identity that a merged document lists under     *)
(* "mount-paths", "symbol-links" or "flags-point" of a scope is in that    *)
(* list of the same scope of the result, whether the scope was inserted as *)
(* is (a new "individual"/"permission" name) or merged into.               *)
NoEntryLost ==
    originJson # Error =>
        \A d \in ToSet(docs), p \in Paths, f \in ListFields :
            LET ds == ScopeAt(d, p)
                rs == ScopeAt(originJson, p)
            IN  ds # Absent /\ NonEmpty(ds[f]) =>
                    /\ rs # Absent
                    /\ ~IsNone(rs[f])
                    /\ KeysOf(ds[f]) \subseteq KeysOf(rs[f])

(* Scope scalars: a scope's "sandbox-root" (and so "sandbox-switch" and    *)
(* "gids") is the last non-None value a merged document gives it; with     *)
(* none, the template's root for the common scopes and the first          *)
(* document's value for an inserted name.                                  *)
ScopeRootLastWriter ==
    originJson # Error =>
        \A p \in Paths :
            ScopeAt(originJson, p) # Absent =>
                ScopeAt(originJson, p).root = ExpectedRoot(p)

(* Merging parsed documents never raises (spec 7: the only failures are   *)
(* I/O and parse errors).  Checked with documents whose entries all carry  *)
(* "sandbox-flags": a matched flags-point deep-merges its "mount-paths"    *)
(* (spec 4.2), and a scope inserted as is under a new name, whatever list  *)
(* it omits, is merged into by a later document (spec 4.4).                *)
NoMergeError == originJson # Error

(* Idempotence (spec 4.2, 8): merging the document just merged a second    *)
(* time leaves the result as it is.                                        *)
DocumentMergeIdempotent ==
    [][docs' # <<>> /\ originJson' # Error =>
          MergeDocument(originJson', Last(docs')) = originJson']_vars

(* "sandbox-ns-flags" is a merged list (spec 3): every flag a merged       *)
(* document gives a common scope is in that scope of the result.           *)
NsFlagsMerged ==
    originJson # Error =>
        \A d \in ToSet(docs), p \in {<<"common", "base">>, <<"common", "res">>} :
            LET ds == ScopeAt(d, p)
                rs == ScopeAt(originJson, p)
            IN  ds # Absent /\ NonEmpty(ds.ns) =>
                    ~IsNone(rs.ns) /\ ToSet(ds.ns) \subseteq ToSet(rs.ns)

(* "top-sandbox-switch" across documents: the result holds the switch of  *)
(* the last merged document whose "common" gives a truthy one, or the      *)
(* template's when none does.  _merge_scope_common (line 153) skips an     *)
(* empty or null switch, so a later "" never wipes an earlier "OFF", and a *)
(* merge that skipped "common" entirely leaves it alone.                   *)
ExpectedSwitch ==
    LET set == {i \in 1..Len(docs) :
                  NonEmpty(docs[i].common)
                  /\ docs[i].common[1].switch \notin {Absent, Null, ""}}
    IN  IF set = {} THEN Template.common[1].switch
        ELSE docs[Max(set)].common[1].switch

=============================================================================
