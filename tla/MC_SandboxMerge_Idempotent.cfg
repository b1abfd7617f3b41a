CONSTANTS
    k1 = k1
    k2 = k2
    v1 = v1
    v2 = v2
    f1 = f1
    f2 = f2
    n1 = n1
    Absent = Absent
    Null = Null
    Error = Error
    RootDefault = RootDefault
    Keys <- MCKeys
    Vals <- MCVals
    Flags <- MCFlags
    Names <- MCNames
    Documents <- MCDocsIdempotent
    MaxDocs <- MCMaxDocs
SPECIFICATION Spec
CHECK_DEADLOCK FALSE
PROPERTY DocumentMergeIdempotent
