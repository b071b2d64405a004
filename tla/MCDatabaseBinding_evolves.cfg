\* A schema that grows after the run made its database.
SPECIFICATION Spec
CONSTANTS
    orders = orders
    items = items
    events = events
    Tables = {orders, items, events}
    MaxDatabases = 2
SYMMETRY Symmetry
INVARIANT JobTablesAreDeclared
