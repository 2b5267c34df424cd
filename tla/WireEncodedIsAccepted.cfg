SPECIFICATION ExchangeSpec
CONSTANTS
    NoData = NoData
    Defs <- ValidDefs
    OldDefs <- NoOldDefs
    Samples <- ValidSamples
    MaxDepth = 8
    MaxItems = 4
    Bytes = {0}
CHECK_DEADLOCK FALSE
INVARIANT EncodedIsAccepted
