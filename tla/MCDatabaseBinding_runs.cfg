\* Runs with a database_id and without, over drops, failures and restarts.
SPECIFICATION Spec
CONSTANTS
    orders = orders
    items = items
    events = events
    Tables = {orders, items, events}
    MaxDatabases = 2
SYMMETRY Symmetry
INVARIANTS TypeOK CatalogIsTheDatabases NewTablesAreEmpty PinnedJobsFindTheirTables
PROPERTY PinnedRunsStayPut
