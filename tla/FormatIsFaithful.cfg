SPECIFICATION FormatSpec
CONSTANTS
    MaxTypeDepth = 3
    MaxFrames = 3
    MaxFixed = 9
    MaxIndex = 255
    WordBits = 30
    Numeral <- MCNumeral
    PathRank <- MCRank
    SourceTexts <- Altered
CHECK_DEADLOCK FALSE
INVARIANT FormatIsFaithful
