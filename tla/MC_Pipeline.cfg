CONSTANTS
    k1 = k1
    v1 = v1
    v2 = v2
    f1 = f1
    src = src
    x1 = x1
    x2 = x2
    PE = PE
    EmptyD = EmptyD
    Absent = Absent
    Null = Null
    Error = Error
    RootDefault = RootDefault
    Keys = {k1}
    Vals = {v1, v2}
    Flags = {f1}
    Names = {}
    Argvs <- MCArgvs
    Content <- MCContent
    DocOf <- MCDocOf
    EmptyDoc <- EmptyD
    Quote = "q"
    ParseError <- PE
SPECIFICATION Spec
CHECK_DEADLOCK FALSE
INVARIANTS
    ResultFollowsCommandLine
    FailsExactlyOnSpecError
