SPECIFICATION RoutersSpec
CONSTANTS
    MaxCalls = 2
    MaxBatchSize = 2
    CallIds <- SmallCallIds
CHECK_DEADLOCK FALSE
INVARIANT TsRejectsAsDocumented
