\* The same, for the layouts of tables that a load job creates.
SPECIFICATION Spec
CONSTANTS
    ColumnOrder <- Columns
    PartitionLists <- Partitions
    SortLists <- Sorts
    NoColumn = ""
    Direction = "asc"
    Nulls = "last"
PROPERTY DeclaredLayoutsAreApplied
CHECK_DEADLOCK FALSE
