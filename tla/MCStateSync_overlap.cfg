\* Runs that overlap; packages may be abandoned.
SPECIFICATION Spec
CONSTANTS
    Pipelines = {p1, p2}
    MaxStateFiles = 2
    Overlap = TRUE
    MayAbandon = TRUE
    MaxLoads = 4
    MaxCopies = 2
SYMMETRY Symmetry
INVARIANTS TypeOK MissingOnlyIfOutnumbered
PROPERTY OnlyOutnumberedRowsAreTrimmed
CHECK_DEADLOCK FALSE
