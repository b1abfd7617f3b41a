CONSTANTS
    k1 = k1
    k2 = k2
    v1 = v1
    v2 = v2
    f1 = f1
    f2 = f2
    Absent = Absent
    Null = Null
    Error = Error
    RootDefault = RootDefault
    Names = {}
    Keys <- MCKeys
    Vals <- MCVals
    Flags <- MCFlags
    InitLists <- MCRefineInitLists
    IncomingLists <- MCRefineIncomingLists
    MaxCalls <- MCMaxCalls
SPECIFICATION Spec
CHECK_DEADLOCK FALSE
PROPERTY ImplementsKeyedManifest
