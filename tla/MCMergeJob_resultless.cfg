\* A fetch of a table with a row names no result.
SPECIFICATION Spec
CONSTANTS
    k1 = k1
    k2 = k2
    Keys = {k1, k2}
    NoKey = NoKey
    MaxExisting = 2
    MaxBatch = 2
    MaxFaults = 1
    MaxOthers = 0
INVARIANTS InsertOnlyNeverUpdates
CHECK_DEADLOCK FALSE
