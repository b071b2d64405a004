\* An append table and a replace table, both with a layout; two faults.
SPECIFICATION Spec
CONSTANTS
    events = events
    totals = totals
    Tables = {events, totals}
    Layout = {events, totals}
    Replace = {totals}
    Files = {1, 2}
    MaxPackages = 2
    MaxFaults = 2
INVARIANTS TypeOK CompletedPackagesAreWhole ReplacedTablesHoldOneLoad RefusedOnlyIfUnseeded
PROPERTIES OnlyALaterReplaceErases LoadStepsEnd
CHECK_DEADLOCK FALSE
