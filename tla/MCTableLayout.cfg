\* Two columns, entries of every form, good and bad.
SPECIFICATION Spec
CONSTANTS
    ColumnOrder <- Columns
    PartitionLists <- Partitions
    SortLists <- Sorts
    NoColumn = ""
    Direction = "asc"
    Nulls = "last"
INVARIANT WarnsForCause
PROPERTY CreatedAsWanted
CHECK_DEADLOCK FALSE
