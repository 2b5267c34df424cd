SPECIFICATION MCSpec
CONSTANTS
    ReqLen = 3
    RespLen = 3
    PipeCap = 2
    Timeout = 2
    Styles <- AllStyles
    Codes = {0, 127}
    Faults = TRUE
    NPlugins = 2
    MaxEntries = 2
    Names <- MCNames
    Points <- MCPoints
    Texts <- MCTexts
    Responses <- MCResponses
    UnsafeName = UnsafeName
    NoName = NoName
    NoPoint = NoPoint
    file1 = file1
    file2 = file2
    marker = marker
    plain = plain
    insert1 = insert1
    insert2 = insert2
    DiskFiles = {bop1, bop2}
    Watched = {bop1, bop2}
    Root = root
    RingCap = 2
    PollMax = 1
    MaxChanged = 1
    MaxEdits = 2
INVARIANT OneBudget
