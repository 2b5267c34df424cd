SPECIFICATION SetsSpec
CONSTANTS
    Keys = {1, 2, 3, 4, 5, 6, 7, 8, 9}
    Values = {1}
    Hash <- Together
    GroupSize = 8
    InitialCapacity = 8
    LoadFactor = 7
    MaxCapacity = 16
CONSTRAINT InOrder
INVARIANT EveryInsertSucceeds
