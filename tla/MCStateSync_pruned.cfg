\* A trim drops the newest completed state row.
SPECIFICATION Spec
CONSTANTS
    Pipelines = {p1, p2}
    MaxStateFiles = 1
    Overlap = FALSE
    MayAbandon = TRUE
    MaxLoads = 5
    MaxCopies = 1
PROPERTY PrunedRowIsNeverTheOneRead
CHECK_DEADLOCK FALSE
