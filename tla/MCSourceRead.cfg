\* Every way the server can answer, for results of up to three rows.
SPECIFICATION Spec
CONSTANTS
    Absent = Absent
    MaxRows = 3
    BatchRows = 2
    MaxPolls = 3
    MaxBatches = 3
INVARIANTS TypeOK NeverShort RowlessOnlyIfNoResult EmptyResultsKeepTheirShape
PROPERTY ReadEnds
CHECK_DEADLOCK FALSE
