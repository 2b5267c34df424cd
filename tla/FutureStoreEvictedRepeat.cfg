SPECIFICATION MCSpec
CONSTANTS
    Ids = {f1, f2}
    Asked = {f1, f2}
    Few = {f1, f2}
    Last = f2
    Owners = {Alice}
    Alice = Alice
    MixedFutures = 0
    Keys = {}
    NoKey = NoKey
    NoId = NoId
    MaxPending = 2
    MaxCompleted = 1
    BufferCapacity = 1
    MaxSubscribers = 1
SYMMETRY FutureSymmetry
INVARIANT WildcardNoRepeat
