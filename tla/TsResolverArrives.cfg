SPECIFICATION FairSpec
CONSTANTS
    Ids = {i1}
    Waiters = {w1, w2}
    Signals = {}
    MaxCompletedResults = 1
    NoSet = NoSet
PROPERTY ResultArrives
CHECK_DEADLOCK FALSE
