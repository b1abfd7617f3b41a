---------------------------- MODULE SandboxFixer ----------------------------
(***************************************************************************)
(* One build's invocations of appdata_sandbox_fixer.py and the output file *)
(* they leave behind (main, lines 237-241; fix_sandbox_config_file, lines  *)
(* 209-235).  A run reads and parses every input file (the --source-file,  *)
(* then each --extra_sandbox_cfg), merges the documents into the template, *)
(* then opens the output with O_WRONLY|O_CREAT|O_TRUNC and writes the      *)
(* JSON text, then writes the depfile.  Any exception ends the run; the    *)
(* process may also be killed between steps.  The build may run the tool   *)
(* again on the file the last run left.                                    *)
(*                                                                         *)
(* Each input file's read is abstracted to its outcome: an I/O error, a    *)
(* parse error, a document whose JSON value is falsy ({}), or a document.  *)
(***************************************************************************)
EXTENDS MergeOps, FiniteSets

CONSTANTS
    Documents,   \* non-empty parsed documents an input file may hold
    EmptyDoc,    \* a file whose JSON value is falsy, skipped by "if contents"
    IOError,     \* open or read of the file raises
    ParseError,  \* json.loads of the substituted text raises
    MaxExtra,    \* bound on the number of --extra_sandbox_cfg files
    MaxRuns      \* bound on the number of invocations

ReadOutcome == {IOError, ParseError, EmptyDoc} \cup Documents

(* The outcomes of the input files of one run: the source file and up to   *)
(* MaxExtra extra files.                                                   *)
ReadSeqs == UNION {[1..n -> ReadOutcome] : n \in 1..(MaxExtra + 1)}

ASSUME /\ \A d \in Documents : IsDocument(d)
       /\ MaxExtra \in Nat /\ MaxRuns \in Nat \ {0}

VARIABLES
    pc,           \* where the current run is
    reads,        \* history: the outcome of each input file of this run
    badPattern,   \* a --patterns argument without ':' in this run
    originJson,   \* the merged result, or Error
    out,          \* the output file
    outAtStart,   \* history: the output file when this run started
    runs          \* invocations so far

vars == <<pc, reads, badPattern, originJson, out, outAtStart, runs>>

(* The output file: missing, holding a whole manifest, or truncated or     *)
(* partly written; and its permission bits: "owner_group" for the 0o660    *)
(* (less the umask) os.open gives a file it creates, "wider" for a file    *)
(* some other writer created first.                                        *)
Modes         == {"none", "owner_group", "wider"}
NoFile        == [state |-> "none", content |-> Null, mode |-> "none"]
Incomplete(m) == [state |-> "incomplete", content |-> Null, mode |-> m]
Full(c, m)    == [state |-> "full", content |-> c, mode |-> m]

(* The output a build may start from: none, or a manifest an earlier       *)
(* build step or a developer left with default (wider) permissions.        *)
InitialOutputs == {NoFile, Full(Template, "wider")}

(* __substitude_contents (lines 182-190): the file is opened and read      *)
(* first; then, with patterns given, pattern.split(":")[1] raises          *)
(* IndexError for a pattern without ':'; then json.loads may fail.         *)
SubstitudeFails(r, bad) == r = IOError \/ bad \/ r = ParseError

(* _get_json_list (lines 192-207): decode each file in order, keeping the  *)
(* truthy documents; any failure propagates out of the run.                *)
GetJsonList(rs, bad) ==
    IF \E i \in 1..Len(rs) : SubstitudeFails(rs[i], bad) THEN Error
    ELSE SelectSeq(rs, LAMBDA r : r # EmptyDoc)

(* The result of lines 211-229 for the documents ds _get_json_list returned. *)
Loaded(ds) == IF ds = Error THEN Error ELSE MergeAll(ds)

Init ==
    /\ pc = "idle"
    /\ reads = <<>>
    /\ badPattern = FALSE
    /\ originJson = Template
    /\ out \in InitialOutputs
    /\ outAtStart = out
    /\ runs = 1

\* The output opened (and truncated) before the input files are read.
LoadAndMergeTruncateFirst ==
    /\ pc = "idle"
    /\ \E rs \in ReadSeqs, bad \in BOOLEAN :
          /\ reads' = rs
          /\ badPattern' = bad
          /\ originJson' = Loaded(GetJsonList(rs, bad))
          /\ pc' = IF originJson' = Error THEN "failed" ELSE "merged"
    /\ out' = Incomplete(IF out.state = "none" THEN "owner_group" ELSE out.mode)
    /\ UNCHANGED <<outAtStart, runs>>

(* main up to the end of the merge loop (lines 238-240, 209-229). *)
LoadAndMerge ==
    /\ pc = "idle"
    /\ \E rs \in ReadSeqs, bad \in BOOLEAN :
          /\ reads' = rs
          /\ badPattern' = bad
          /\ originJson' = Loaded(GetJsonList(rs, bad))
          /\ pc' = IF originJson' = Error THEN "failed" ELSE "merged"
    /\ UNCHANGED <<out, outAtStart, runs>>

(* os.open(output, O_WRONLY|O_CREAT|O_TRUNC, 0o660) (lines 232-234):       *)
(* creates or truncates the file, or raises and the run ends.  The mode    *)
(* argument applies only when the file is created; a truncated file keeps  *)
(* its permission bits.                                                    *)
OpenOutput ==
    /\ pc = "merged"
    /\ \/ /\ out' = Incomplete(IF out.state = "none" THEN "owner_group" ELSE out.mode)
          /\ pc' = "opened"
       \/ /\ pc' = "failed"
          /\ UNCHANGED out
    /\ UNCHANGED <<reads, badPattern, originJson, outAtStart, runs>>

\* Line 235 dumping the list of parsed documents instead of the result.
WriteOutputDataList ==
    /\ pc = "opened"
    /\ \/ /\ out' = Full(SelectSeq(reads, LAMBDA r : r # EmptyDoc), out.mode)
          /\ pc' = "written"
       \/ /\ out' = Incomplete(out.mode)
          /\ pc' = "failed"
    /\ UNCHANGED <<reads, badPattern, originJson, outAtStart, runs>>

(* f.write(json.dumps(...)) and close (line 235): the whole text lands, or *)
(* the write raises (no space, I/O error) after part of it.                *)
WriteOutput ==
    /\ pc = "opened"
    /\ \/ /\ out' = Full(originJson, out.mode)
          /\ pc' = "written"
       \/ /\ out' = Incomplete(out.mode)
          /\ pc' = "failed"
    /\ UNCHANGED <<reads, badPattern, originJson, outAtStart, runs>>

(* build_utils.write_depfile (line 241), after which main returns. *)
WriteDepfile ==
    /\ pc = "written"
    /\ pc' = "done"
    /\ UNCHANGED <<reads, badPattern, originJson, out, outAtStart, runs>>

(* The process is killed between two steps. *)
Crash ==
    /\ pc \in {"merged", "opened", "written"}
    /\ pc' = "failed"
    /\ UNCHANGED <<reads, badPattern, originJson, out, outAtStart, runs>>

(* The build runs the tool again on whatever output the last run left. *)
Rerun ==
    /\ pc \in {"done", "failed"}
    /\ runs < MaxRuns
    /\ pc' = "idle"
    /\ runs' = runs + 1
    /\ outAtStart' = out
    /\ reads' = <<>>
    /\ badPattern' = FALSE
    /\ originJson' = Template
    /\ UNCHANGED out

Next == LoadAndMerge \/ OpenOutput \/ WriteOutput \/ WriteDepfile \/ Crash \/ Rerun

Spec == Init /\ [][Next]_vars

-----------------------------------------------------------------------------
Stopped == pc \in {"idle", "done", "failed"}

TypeOK ==
    /\ pc \in {"idle", "merged", "opened", "written", "done", "failed"}
    /\ reads \in Seq(ReadOutcome) /\ Len(reads) <= MaxExtra + 1
    /\ badPattern \in BOOLEAN
    /\ originJson = Error \/ IsDocument(originJson)
    /\ \A f \in {out, outAtStart} :
          /\ f.state \in {"none", "incomplete", "full"}
          /\ f.state = "full" => IsDocument(f.content)
          /\ f.mode \in Modes
          /\ f.mode = "none" <=> f.state = "none"
    /\ runs \in 1..MaxRuns

(* Fail fast (spec 4.4, 7): a run whose input files fail to read, parse or *)
(* merge leaves the output file exactly as it found it, because the file   *)
(* is opened only after every document is merged.                          *)
InputFailureKeepsOutput ==
    reads # <<>> /\ Loaded(GetJsonList(reads, badPattern)) = Error => out = outAtStart

(* No partial output (spec 4.4 "written atomically", 7 "no partial or      *)
(* corrupt output is ever written"): whenever no run is in progress the    *)
(* output file is missing or holds a whole manifest.                       *)
NoPartialOutput == Stopped => out.state \in {"none", "full"}

(* The output's permissions (spec 4.4 "owner/group read-write permissions  *)
(* only", 5 "restrictive permission mask applied atomically at creation"): *)
(* after a run completes, whatever file it started from, the output is     *)
(* readable and writable by owner and group only.                          *)
OutputOwnerGroupOnly == pc = "done" => out.mode = "owner_group"

=============================================================================
