SPECIFICATION Spec
CONSTANTS
    Ids = {f1, f2}
    Waiters = {w1, w2, w3}
    MaxCompleted = 1
SYMMETRY ResolverSymmetry
CHECK_DEADLOCK FALSE
INVARIANT ResumedExactlyOnce
INVARIANT WaitersAreServed
INVARIANT NobodyWaitsForCached
INVARIANT CancellationNotLost
