SPECIFICATION MCSpec
CONSTANTS
    Sends = {s1, s2}
    Receives = {r1, r2}
    DuplexCalls = {s1, r1}
    NoCall = NoCall
    Elements = 2
    Consumers = {c1, c2}
    MaxCalls = 4
    MaxBatchSize = 3
    CallIds <- SmallCallIds
    Ids = {i1, i2}
    Waiters = {w1, w2}
    Signals = {w1, w2}
    MaxCompletedResults = 1
    NoSet = NoSet
    AnId = i1
    AnOwner = o1
    Owners = {o1, o2}
    Keys = {k1}
    NoKey = NoKey
    NoId = NoId
    Subs = {s1}
    MaxPending = 2
    MaxCompleted = 1
    BufferCapacity = 1
CHECK_DEADLOCK FALSE
INVARIANT NobodyWaitsInVain
INVARIANT Rendezvous
INVARIANT CancelOnItsWay
INVARIANT DemandAnswered
INVARIANT FailurePropagates
INVARIANT TsDependenciesFirst
INVARIANT TsRunsWhatCanRun
INVARIANT SwiftBatchesArePortable
INVARIANT EntriesAreWaiting
INVARIANT StorageBookkeeping
INVARIANT ResolveDelivers
PROPERTY EndOfResponsesReleasesAll
PROPERTY OutcomesAreFinal
PROPERTY BatchEnds
PROPERTY OwedIsYielded
