---------------------------- MODULE Substitution ----------------------------
(***************************************************************************)
(* __substitude_contents (appdata_sandbox_fixer.py lines 182-190): read    *)
(* one input file, then for each --patterns argument "key:value", in the   *)
(* order given, replace every "{key}" of the text by "value", then parse   *)
(* the text as JSON.                                                       *)
(*                                                                         *)
(* A text or a pattern is a sequence of one-character strings over a small *)
(* alphabet.  A file's text stands for the body of a JSON string literal;  *)
(* json.loads returns its characters unless it holds an unescaped quote    *)
(* (Quote), which makes it invalid.                                        *)
(***************************************************************************)
EXTENDS Integers, Sequences, SequencesExt

CONSTANTS
    Texts,          \* contents the input file may hold
    PatternLists,   \* values of options.patterns (sequences of patterns)
    Quote,          \* the one character that makes a text invalid JSON
    ParseError      \* json.loads raised

ASSUME PatternLists \subseteq Seq(Seq(STRING))

VARIABLES
    pc,         \* where the call is
    text,       \* the file's contents (fixed for the call)
    patterns,   \* options.patterns (fixed for the call)
    contents,   \* the text being substituted
    todo,       \* the patterns not yet applied
    result      \* the parsed document, or ParseError

vars == <<pc, text, patterns, contents, todo, result>>

-----------------------------------------------------------------------------
(* str.split(sep) (line 188): the pieces between the separators, one more  *)
(* than there are separators; "a::b".split(":") = ["a", "", "b"].          *)
RECURSIVE Split(_, _)
Split(s, sep) ==
    LET i == SelectInSeq(s, LAMBDA c : c = sep)
    IN  IF i = 0 THEN <<s>>
        ELSE <<SubSeq(s, 1, i - 1)>> \o Split(SubSeq(s, i + 1, Len(s)), sep)

\* str.replace(old, new, 1): only the first occurrence.
StrReplaceFirst(t, old, new) ==
    LET i == SelectInSeq([j \in 1..Len(t) |-> IsPrefix(old, SubSeq(t, j, Len(t)))],
                         LAMBDA b : b)
    IN  IF i = 0 THEN t ELSE SubSeq(t, 1, i - 1) \o new \o SubSeq(t, i + Len(old), Len(t))

(* str.replace(old, new) for a non-empty old (line 189): scan left to      *)
(* right, replacing each occurrence and resuming after it, so occurrences  *)
(* do not overlap and the inserted text is not rescanned.                  *)
RECURSIVE StrReplace(_, _, _)
StrReplace(t, old, new) ==
    IF Len(t) < Len(old) THEN t
    ELSE IF IsPrefix(old, t)
         THEN new \o StrReplace(SubSeq(t, Len(old) + 1, Len(t)), old, new)
         ELSE <<Head(t)>> \o StrReplace(Tail(t), old, new)

(* "{%s}" % key *)
Token(key) == <<"{">> \o key \o <<"}">>

(* json.loads of a text (lines 186, 190). *)
Loads(t) == IF Contains(t, Quote) THEN ParseError ELSE t

-----------------------------------------------------------------------------
Init ==
    /\ text \in Texts
    /\ patterns \in PatternLists
    /\ pc = "open"
    /\ contents = <<>>
    /\ todo = patterns
    /\ result = <<>>

(* with open(source_file) ... f.read() (lines 183-184): the open or read   *)
(* raises, or the text is read; without patterns it goes straight to       *)
(* json.loads (lines 185-186).                                             *)
Open ==
    /\ pc = "open"
    /\ \/ /\ pc' = "ioerror"
          /\ UNCHANGED contents
       \/ /\ contents' = text
          /\ pc' = IF patterns = <<>> THEN "parse" ELSE "subst"
    /\ UNCHANGED <<text, patterns, todo, result>>

\* The loop skipping a pattern without ':' instead of raising.
ApplyPatternSkipMalformed ==
    /\ pc = "subst"
    /\ LET parts == Split(Head(todo), ":")
       IN  contents' = IF Len(parts) < 2 THEN contents
                       ELSE StrReplace(contents, Token(parts[1]), parts[2])
    /\ todo' = Tail(todo)
    /\ pc' = IF Tail(todo) = <<>> THEN "parse" ELSE "subst"
    /\ UNCHANGED <<text, patterns, result>>

(* One iteration of the loop (lines 187-189): parts[1] raises IndexError   *)
(* for a pattern without ':'; otherwise every "{parts[0]}" is replaced by  *)
(* parts[1], which ends at the second ':' if there is one.                 *)
ApplyPattern ==
    /\ pc = "subst"
    /\ LET parts == Split(Head(todo), ":")
       IN  \/ /\ Len(parts) < 2
              /\ pc' = "indexerror"
              /\ UNCHANGED <<contents, todo>>
           \/ /\ Len(parts) >= 2
              /\ contents' = StrReplace(contents, Token(parts[1]), parts[2])
              /\ todo' = Tail(todo)
              /\ pc' = IF Tail(todo) = <<>> THEN "parse" ELSE "subst"
    /\ UNCHANGED <<text, patterns, result>>

(* return json.loads(contents) (line 190 or 186). *)
Parse ==
    /\ pc = "parse"
    /\ result' = Loads(contents)
    /\ pc' = IF result' = ParseError THEN "parseerror" ELSE "done"
    /\ UNCHANGED <<text, patterns, contents, todo>>

Next == Open \/ ApplyPattern \/ Parse

Spec == Init /\ [][Next]_vars

-----------------------------------------------------------------------------
(* The contract of spec section 4.1: a pattern is split at its first ':'   *)
(* into key and value; each pattern, in order, replaces every "{key}" by   *)
(* the value; a pattern without ':' is an error.                           *)
Colon(p) == SelectInSeq(p, LAMBDA c : c = ":")
SpecKey(p) == SubSeq(p, 1, Colon(p) - 1)
SpecValue(p) == SubSeq(p, Colon(p) + 1, Len(p))
Malformed(ps) == \E i \in 1..Len(ps) : Colon(ps[i]) = 0

(* "Every occurrence replaced", stated apart from the left-to-right scan:  *)
(* cut t at the first occurrence of old, again and again, and join the     *)
(* pieces with new.                                                        *)
RECURSIVE Pieces(_, _)
Pieces(t, old) ==
    LET at == {j \in 1..Len(t) : IsPrefix(old, SubSeq(t, j, Len(t)))}
        j  == Min(at)
    IN  IF at = {} THEN <<t>>
        ELSE <<SubSeq(t, 1, j - 1)>> \o Pieces(SubSeq(t, j + Len(old), Len(t)), old)
SpecReplace(t, old, new) ==
    LET ps == Pieces(t, old)
    IN  FoldLeft(LAMBDA acc, piece : acc \o new \o piece, Head(ps), Tail(ps))

SpecSubstitute(t, ps) ==
    FoldLeft(LAMBDA s, p : SpecReplace(s, Token(SpecKey(p)), SpecValue(p)), t, ps)

(* A call that returns a document returned the spec's substitution of the  *)
(* file's text: every pattern applied once, in command-line order, each    *)
(* "{key}" replaced by the whole value (spec 4.1, scenario C).             *)
SubstitutionMatchesSpec ==
    pc = "done" => result = SpecSubstitute(text, patterns)

=============================================================================
