\* One interruption between the declaration of a table and its seed.
SPECIFICATION Spec
CONSTANTS
    events = events
    totals = totals
    Tables = {events, totals}
    Layout = {events, totals}
    Replace = {totals}
    Files = {1, 2}
    MaxPackages = 2
    MaxFaults = 2
INVARIANT LayoutTablesAreSeeded
CHECK_DEADLOCK FALSE
