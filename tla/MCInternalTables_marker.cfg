\* A row is stored; then a failure is worded like a missing table.
SPECIFICATION Spec
CONSTANTS
    r1 = r1
    r2 = r2
    h1 = h1
    h2 = h2
    Runs = {r1}
    Hashes = {h1, h2}
    MaxStarts = 2
    MaxFaults = 1
PROPERTIES FailuresSurface
CHECK_DEADLOCK FALSE
