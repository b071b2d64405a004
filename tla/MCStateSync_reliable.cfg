\* Runs that do not overlap and always complete.
SPECIFICATION Spec
CONSTANTS
    Pipelines = {p1, p2}
    MaxStateFiles = 1
    Overlap = FALSE
    MayAbandon = FALSE
    MaxLoads = 5
    MaxCopies = 2
INVARIANT RestoresNewestCompleted
PROPERTIES ImplementsStateStore RetentionBound
CHECK_DEADLOCK FALSE
