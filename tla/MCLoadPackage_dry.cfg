\* Nothing is interrupted: a table whose resource yields nothing at first.
SPECIFICATION Spec
CONSTANTS
    events = events
    totals = totals
    Tables = {events, totals}
    Layout = {events, totals}
    Replace = {totals}
    Files = {1, 2}
    MaxPackages = 2
    MaxFaults = 0
INVARIANT LayoutTablesAreSeeded
CHECK_DEADLOCK FALSE
