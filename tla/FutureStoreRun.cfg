SPECIFICATION MCSpec
CONSTANTS
    Ids = {f1, f2, f3, f4, f5}
    Asked = {f1, f2, f3}
    Few = {f1, f2, f3}
    Last = f5
    Owners = {Alice, Bob}
    Alice = Alice
    MixedFutures = 2
    Keys = {k1}
    NoKey = NoKey
    NoId = NoId
    MaxPending = 2
    MaxCompleted = 3
    BufferCapacity = 1
    MaxSubscribers = 1
SYMMETRY FutureSymmetry
INVARIANT HandedOnlyWhatIsDue
INVARIANT FilteredExactlyOnce
INVARIANT NoStrandedWaiter
INVARIANT StoreBookkeeping
