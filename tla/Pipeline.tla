------------------------------ MODULE Pipeline ------------------------------
(***************************************************************************)
(* One invocation of appdata_sandbox_fixer.py from its command line to the *)
(* merged document (main, lines 237-240): parse_args turns the argument    *)
(* list into options; _get_json_list calls __substitude_contents on the    *)
(* source file and then on each --extra_sandbox_cfg, with the same         *)
(* --patterns, keeping the truthy documents; fix_sandbox_config_file folds *)
(* them into the template.  Each __substitude_contents call is the         *)
(* Substitution component, instantiated on this module's variables and    *)
(* run step by step.  Writing the output is SandboxFixer's part.           *)
(*                                                                         *)
(* json.loads of a text is Substitution's Loads (invalid when it holds     *)
(* Quote) followed by DocOf, the document the valid text denotes.          *)
(***************************************************************************)
EXTENDS MergeOps

CONSTANTS
    Argvs,       \* argument lists: sequences of [opt, val], one option each
    Content,     \* input path -> the file's text
    DocOf(_),    \* a valid JSON text -> its document, or EmptyDoc
    EmptyDoc,    \* a document whose value is falsy ({}), skipped
    Quote,       \* see Substitution
    ParseError   \* see Substitution

VARIABLES
    pc,          \* where the invocation is
    argv,        \* the argument list (fixed)
    options,     \* the parsed options
    files,       \* the input files not yet loaded
    dataList,    \* data_list of _get_json_list
    originJson,  \* the merged result, or Error
    ioFailed,    \* history: the failing call failed on open or read
    spc, stext, spats, scontents, stodo, sresult   \* the current call

subVars == <<spc, stext, spats, scontents, stodo, sresult>>
vars == <<pc, argv, options, files, dataList, originJson, ioFailed, subVars>>

-----------------------------------------------------------------------------
(* The values of one option, in command-line order. *)
Values(args, o) ==
    LET s == SelectSeq(args, LAMBDA a : a.opt = o)
    IN  [i \in 1..Len(s) |-> s[i].val]

(* parse_args (lines 168-180), the arguments holding no @FileArg for       *)
(* expand_file_args to expand: --source-file is stored (the last one       *)
(* given wins), --patterns and --extra_sandbox_cfg are appended; an option *)
(* never given is None (Absent).                                           *)
Options(args) ==
    LET src == Values(args, "--source-file")
        pat == Values(args, "--patterns")
        ext == Values(args, "--extra_sandbox_cfg")
    IN  [source_file        |-> IF src = <<>> THEN Absent ELSE Last(src),
         patterns           |-> IF pat = <<>> THEN Absent ELSE pat,
         extra_sandbox_cfgs |-> IF ext = <<>> THEN Absent ELSE ext]

(* The files _get_json_list decodes, in order (lines 194-206): the source  *)
(* file, then the extra files unless there are none.                       *)
InputFiles(o) ==
    <<o.source_file>> \o (IF o.extra_sandbox_cfgs = Absent THEN <<>> ELSE o.extra_sandbox_cfgs)

(* "if not options.patterns" (line 185): None and [] both skip the loop. *)
PatternsOf(o) == IF o.patterns = Absent THEN <<>> ELSE o.patterns

Sub == INSTANCE Substitution WITH
    Texts        <- {Content[f] : f \in DOMAIN Content},
    PatternLists <- {PatternsOf(Options(a)) : a \in Argvs},
    pc <- spc, text <- stext, patterns <- spats,
    contents <- scontents, todo <- stodo, result <- sresult

-----------------------------------------------------------------------------
Init ==
    /\ argv \in Argvs
    /\ pc = "start"
    /\ options = Absent
    /\ files = <<>>
    /\ dataList = <<>>
    /\ originJson = Template
    /\ ioFailed = FALSE
    /\ spc = "idle" /\ stext = <<>> /\ spats = <<>>
    /\ scontents = <<>> /\ stodo = <<>> /\ sresult = <<>>

(* main (line 238), and _get_json_list choosing its files (192-202). *)
ParseArgs ==
    /\ pc = "start"
    /\ options' = Options(argv)
    /\ files' = InputFiles(options')
    /\ pc' = "load"
    /\ UNCHANGED <<argv, dataList, originJson, ioFailed, subVars>>

(* __substitude_contents(options, f) is called on the next file (lines    *)
(* 196 and 203).                                                           *)
StartFile ==
    /\ pc = "load"
    /\ files # <<>>
    /\ spc' = "open"
    /\ stext' = Content[Head(files)]
    /\ spats' = PatternsOf(options)
    /\ stodo' = PatternsOf(options)
    /\ scontents' = <<>>
    /\ sresult' = <<>>
    /\ files' = Tail(files)
    /\ pc' = "subst"
    /\ UNCHANGED <<argv, options, dataList, originJson, ioFailed>>

(* One step of that call. *)
Substitute ==
    /\ pc = "subst"
    /\ Sub!Next
    /\ UNCHANGED <<pc, argv, options, files, dataList, originJson, ioFailed>>

(* The call returned: "if contents: data_list.append(contents)" (lines    *)
(* 197-198, 204-205); after the last file the merge loop starts.           *)
FileLoaded ==
    /\ pc = "subst"
    /\ spc = "done"
    /\ dataList' = IF DocOf(sresult) = EmptyDoc THEN dataList
                   ELSE Append(dataList, DocOf(sresult))
    /\ pc' = IF files = <<>> THEN "loaded" ELSE "load"
    /\ UNCHANGED <<argv, options, files, originJson, ioFailed, subVars>>

(* The call raised (IOError, IndexError, ValueError): the exception leaves *)
(* main and the invocation fails.                                          *)
FileFailed ==
    /\ pc = "subst"
    /\ spc \in {"ioerror", "indexerror", "parseerror"}
    /\ ioFailed' = (spc = "ioerror")
    /\ pc' = "failed"
    /\ UNCHANGED <<argv, options, files, dataList, originJson, subVars>>

(* The merge loop of fix_sandbox_config_file (lines 211-229). *)
MergeFiles ==
    /\ pc = "loaded"
    /\ originJson' = MergeAll(dataList)
    /\ pc' = IF originJson' = Error THEN "failed" ELSE "merged"
    /\ UNCHANGED <<argv, options, files, dataList, ioFailed, subVars>>

Next == ParseArgs \/ StartFile \/ Substitute \/ FileLoaded \/ FileFailed \/ MergeFiles

Spec == Init /\ [][Next]_vars

-----------------------------------------------------------------------------
(* The command-line contract of spec section 6, read from the argument     *)
(* list apart from optparse: the source file, then the extra files in the  *)
(* order listed; the patterns in the order listed, applied to every input  *)
(* document's text (4.1); falsy documents contribute nothing.              *)
SpecFiles    == <<Head(Values(argv, "--source-file"))>> \o Values(argv, "--extra_sandbox_cfg")
SpecPatterns == Values(argv, "--patterns")
SpecText(f)  == Sub!SpecSubstitute(Content[f], SpecPatterns)
SpecDocs ==
    SelectSeq([i \in 1..Len(SpecFiles) |-> DocOf(SpecText(SpecFiles[i]))],
              LAMBDA d : d # EmptyDoc)

(* The errors the spec lets end an invocation (4.1, 7): a file that cannot *)
(* be read, a malformed pattern, a substituted text that is not JSON, and  *)
(* (spec 7 notwithstanding) a merge the code cannot do.                    *)
SpecFails ==
    \/ ioFailed
    \/ Sub!Malformed(SpecPatterns)
    \/ \E i \in 1..Len(SpecFiles) : Contains(SpecText(SpecFiles[i]), Quote)
    \/ MergeAll(SpecDocs) = Error

(* End to end (spec 4.1, 4.4, 6): an invocation that gets to the end of    *)
(* the merge holds the fold, into the template, of the spec's substitution *)
(* of every input file, source first, extras in command-line order.  It    *)
(* takes parse_args, every __substitude_contents call, the skip of falsy   *)
(* documents and the merge loop together to keep it.                       *)
ResultFollowsCommandLine == pc = "merged" => originJson = MergeAll(SpecDocs)

(* Fail fast, and only then: an invocation fails exactly when the spec     *)
(* says one of its inputs is in error, whichever file the code meets the   *)
(* error in.                                                               *)
FailsExactlyOnSpecError == pc \in {"merged", "failed"} => (pc = "failed" <=> SpecFails)

=============================================================================
