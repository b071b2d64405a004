\* A file without repeated keys, two attempts cut short or fetches without rows, a second writer.
SPECIFICATION Spec
CONSTANTS
    k1 = k1
    k2 = k2
    Keys = {k1, k2}
    NoKey = NoKey
    MaxExisting = 2
    MaxBatch = 2
    MaxFaults = 2
    MaxOthers = 1
INVARIANTS MergeConverges InsertOnlyKeepsExisting RetriesNeverDuplicate TombstonesNeverLand OthersRowsAreAccountedFor
PROPERTIES ImplementsMergeContract JobSettles
CHECK_DEADLOCK FALSE
