---------------------------- MODULE TableLayout -----------------------------
(***************************************************************************)
(* The storage layout of one table: from column hints, hotdata_adapter or  *)
(* a schema edited by hand, through verify_schema, to the table that is    *)
(* created with it, once, and to the comparison every later load makes.    *)
(***************************************************************************)
EXTENDS Integers, Sequences, SequencesExt

CONSTANTS ColumnOrder,     \* the table's columns in the schema's order
          NoColumn,        \* an entry without a column name
          PartitionLists,  \* bound: partition entries a user may write
          SortLists,       \* bound: sort entries a user may write
          Direction,       \* the server's default direction
          Nulls            \* the server's default null placement

Transforms == {"identity", "year", "month", "day", "hour"}

ASSUME LayoutAssumption ==
    /\ NoColumn \notin ToSet(ColumnOrder)
    /\ Direction \in {"asc", "desc"} /\ Nulls \in {"first", "last"}
    /\ <<>> \in PartitionLists /\ <<>> \in SortLists
    /\ ColumnOrder \in Seq(ToSet(ColumnOrder))
    /\ \A list \in PartitionLists : list \in Seq(ToSet(list))
    /\ \A list \in SortLists : list \in Seq(ToSet(list))
    /\ \A list \in PartitionLists : \A entry \in ToSet(list) :
          entry.transform \in Transforms \union {"unset", "unknown"}

VARIABLES partitionFlags, \* schema: columns with the `partition` hint
          sortFlags,      \* schema: columns with the `sort` hint
          partitionHint,  \* schema: x-hotdata-partition, <<>> without
          sortHint,       \* schema: x-hotdata-sort, <<>> without
          exists,         \* server: is the table there, in the database the process addresses?
          stored,         \* server: its layout
          outcome,        \* what the process in hand last did about the table
          wanted,         \* history: the keys last given to the adapter or by hand
          unread          \* history: could the last load not read the layout?

schema == <<partitionFlags, sortFlags, partitionHint, sortHint>>
table  == <<exists, stored>>
vars   == <<schema, table, outcome, wanted, unread>>

NoKeys == [partition |-> <<>>, sort |-> <<>>]

(* layout.py.  An entry is a bare name, a pair or tuple, a mapping (or a key *)
(* object, which holds the same), or something else.                        *)

\* Where _partition_key raises LayoutError.
BadPartitionEntry(entry) ==
    \/ entry.form = "other"
    \/ entry.form # "name" /\ (entry.column = NoColumn \/ entry.transform = "unknown")
    \/ entry.form = "pair" /\ entry.transform = "unset"

PartitionKey(entry) ==
    [column    |-> entry.column,
     transform |-> IF entry.form = "name" \/ entry.transform = "unset"
                   THEN "identity" ELSE entry.transform]

\* Where _sort_key raises LayoutError.
BadSortEntry(entry) ==
    \/ entry.form = "other"
    \/ entry.form # "name" /\ (\/ entry.column = NoColumn
                              \/ "unknown" \in {entry.direction, entry.nulls})

SortKey(entry) ==
    [column    |-> entry.column,
     direction |-> IF entry.form = "name" THEN "unset" ELSE entry.direction,
     nulls     |-> IF entry.form = "name" THEN "unset" ELSE entry.nulls]

PartitionKeys(entries) == [i \in DOMAIN entries |-> PartitionKey(entries[i])]
SortKeys(entries)      == [i \in DOMAIN entries |-> SortKey(entries[i])]

Rejected(partition, sort) ==
    \/ \E entry \in ToSet(partition) : BadPartitionEntry(entry)
    \/ \E entry \in ToSet(sort) : BadSortEntry(entry)

\* What hotdata_adapter leaves in the schema: plain mappings.
PartitionDicts(keys) ==
    [i \in DOMAIN keys |-> [form |-> "mapping", column |-> keys[i].column,
                            transform |-> keys[i].transform]]

\* Mutant: the direction is left out.
SortDictsFaultyShort(keys) ==
    [i \in DOMAIN keys |-> [form |-> "mapping", column |-> keys[i].column,
                            direction |-> "unset", nulls |-> keys[i].nulls]]

SortDicts(keys) ==
    [i \in DOMAIN keys |-> [form |-> "mapping", column |-> keys[i].column,
                            direction |-> keys[i].direction, nulls |-> keys[i].nulls]]

\* The columns with a hint, in the schema's order.
Flagged(flags) ==
    LET chosen[n \in 0..Len(ColumnOrder)] ==
            IF n = 0 THEN <<>>
            ELSE IF ColumnOrder[n] \in flags THEN Append(chosen[n - 1], ColumnOrder[n])
            ELSE chosen[n - 1]
    IN  chosen[Len(ColumnOrder)]

PartitionOfFlags == PartitionKeys([i \in DOMAIN Flagged(partitionFlags) |->
                        [form |-> "name", column |-> Flagged(partitionFlags)[i]]])

SortOfFlags == SortKeys([i \in DOMAIN Flagged(sortFlags) |->
                        [form |-> "name", column |-> Flagged(sortFlags)[i]]])

\* resolve_partition_by and resolve_sorted_by: the adapter's hint first.
Declared ==
    [partition |-> IF partitionHint # <<>> THEN PartitionKeys(partitionHint) ELSE PartitionOfFlags,
     sort      |-> IF sortHint # <<>> THEN SortKeys(sortHint) ELSE SortOfFlags]

\* missing_layout_columns.
MissingColumns ==
    ({key.column : key \in ToSet(Declared.partition)} \union
     {key.column : key \in ToSet(Declared.sort)}) \ ToSet(ColumnOrder)

\* declares_layout.
DeclaresLayout == Declared.partition # <<>> \/ Declared.sort # <<>>

(* The server fills in what a sort key leaves open when it creates a table. *)
Established(layout) ==
    [partition |-> layout.partition,
     sort      |-> [i \in DOMAIN layout.sort |->
         [column    |-> layout.sort[i].column,
          direction |-> IF layout.sort[i].direction = "unset"
                        THEN Direction ELSE layout.sort[i].direction,
          nulls     |-> IF layout.sort[i].nulls = "unset"
                        THEN Nulls ELSE layout.sort[i].nulls]]]
-----------------------------------------------------------------------------
Init ==
    /\ partitionFlags = {} /\ sortFlags = {}
    /\ partitionHint = <<>> /\ sortHint = <<>>
    /\ exists = FALSE /\ stored = NoKeys /\ outcome = "none"
    /\ wanted = NoKeys /\ unread = FALSE

Edited == outcome' = "none" /\ unread' = FALSE /\ UNCHANGED table

\* The resource's column hints change.
HintColumns ==
    /\ partitionFlags' \in SUBSET ToSet(ColumnOrder)
    /\ sortFlags' \in SUBSET ToSet(ColumnOrder)
    /\ Edited
    /\ UNCHANGED <<partitionHint, sortHint, wanted>>

\* hotdata_adapter.  What is omitted (<<>>) keeps its hint; a bad entry of either
\* list raises before anything is stored.
Adapt(partition, sort) ==
    /\ ~Rejected(partition, sort)
    /\ partitionHint' = IF partition # <<>> THEN PartitionDicts(PartitionKeys(partition))
                        ELSE partitionHint
    /\ sortHint' = IF sort # <<>> THEN SortDicts(SortKeys(sort)) ELSE sortHint
    /\ wanted' = [partition |-> IF partition # <<>> THEN PartitionKeys(partition)
                                ELSE wanted.partition,
                  sort      |-> IF sort # <<>> THEN SortKeys(sort) ELSE wanted.sort]
    /\ Edited
    /\ UNCHANGED <<partitionFlags, sortFlags>>

\* An exported schema is edited by hand: its hints hold what the user writes.
EditSchema(partition, sort) ==
    /\ partitionHint' = partition /\ sortHint' = sort
    /\ wanted' = [partition |-> PartitionKeys(partition), sort |-> SortKeys(sort)]
    /\ Edited
    /\ UNCHANGED <<partitionFlags, sortFlags>>

\* verify_schema, and initialize_storage's own parse of the hints: terminal.
VerifyFails == Rejected(partitionHint, sortHint) \/ MissingColumns # {}

RefuseLayout ==
    /\ VerifyFails
    /\ outcome' = "refused" /\ unread' = FALSE
    /\ UNCHANGED <<schema, table, wanted>>

\* initialize_storage declares the table with its layout, in a database it creates
\* or in one that lacks the table.
CreateTable ==
    /\ ~VerifyFails /\ ~exists
    /\ exists' = TRUE /\ stored' = Established(Declared)
    /\ outcome' = "created" /\ unread' = FALSE
    /\ UNCHANGED <<schema, wanted>>

\* The process dies with jobs left.  The run has no database_id, so the process that
\* resumes the package knows nothing of the database its storage was initialized in.
ResumeElsewhere ==
    /\ outcome \in {"created", "bare", "warned", "silent"}
    /\ exists' = FALSE /\ stored' = NoKeys
    /\ outcome' = "resumed" /\ unread' = FALSE
    /\ UNCHANGED <<schema, wanted>>

\* It goes on with the load jobs, and a job's own ensure_managed_database creates a
\* database with the job's table: the call names the table and its keys, no layout.
CreateByJob ==
    /\ outcome = "resumed"
    /\ exists' = TRUE /\ stored' = NoKeys
    /\ outcome' = "bare" /\ unread' = FALSE
    /\ UNCHANGED <<schema, wanted>>

\* Mutant: what the declaration leaves open is compared all the same.
LayoutMatchesFaultyUnset ==
    /\ stored.partition = Declared.partition
    /\ stored.sort = Declared.sort

\* _layout_already_matches, over a layout that could be read.
LayoutMatches ==
    /\ stored.partition = Declared.partition
    /\ DOMAIN stored.sort = DOMAIN Declared.sort
    /\ \A i \in DOMAIN Declared.sort :
          LET got == stored.sort[i]  want == Declared.sort[i]
          IN  /\ got.column = want.column
              /\ want.direction # "unset" => got.direction = want.direction
              /\ want.nulls # "unset" => got.nulls = want.nulls

\* _reconcile_tables on a table that exists: compare, and warn if need be.
CompareLayout ==
    /\ ~VerifyFails /\ exists
    /\ unread' \in (IF DeclaresLayout THEN BOOLEAN ELSE {FALSE})
    /\ outcome' = IF DeclaresLayout /\ (unread' \/ ~LayoutMatches) THEN "warned" ELSE "silent"
    /\ UNCHANGED <<schema, table, wanted>>

\* The layout cannot be read because the framework's call has another shape than
\* this code expects (AttributeError, TypeError): raised, where others only warn.
CompareRaises ==
    /\ ~VerifyFails /\ exists /\ DeclaresLayout
    /\ outcome' = "raised" /\ unread' = TRUE
    /\ UNCHANGED <<schema, table, wanted>>

Next ==
    \/ HintColumns
    \/ \E partition \in PartitionLists, sort \in SortLists :
          Adapt(partition, sort) \/ EditSchema(partition, sort)
    \/ RefuseLayout \/ CreateTable \/ CompareLayout \/ CompareRaises
    \/ ResumeElsewhere \/ CreateByJob

Spec == Init /\ [][Next]_vars
-----------------------------------------------------------------------------
(* Properties.                                                             *)

Keys(layout) == {key.column : key \in ToSet(layout.partition) \union ToSet(layout.sort)}

\* What initialize_storage's one creation of a table gives it: the keys the user
\* wrote, in that order and with every transform, direction and null placement
\* written, through the stored hints and back; only what was never given to the
\* adapter comes from the column hints.  None names a column the table lacks or a
\* transform the server does not know.  (What a job's creation gives is
\* DeclaredLayoutsAreApplied's subject.)
CreatedAsWanted ==
    [][~exists /\ exists' /\ outcome' = "created" =>
          /\ wanted.partition # <<>> => stored'.partition = wanted.partition
          /\ wanted.sort # <<>> => stored'.sort = Established(wanted).sort
          /\ wanted.partition = <<>> =>
                {key.column : key \in ToSet(stored'.partition)} = partitionFlags
          /\ wanted.sort = <<>> => {key.column : key \in ToSet(stored'.sort)} = sortFlags
          /\ Keys(stored') \subseteq ToSet(ColumnOrder)
          /\ \A key \in ToSet(stored'.partition) : key.transform \in Transforms]_vars

\* layout.py:8-9: "declaring is the only chance, and a silently dropped hint is the
\* failure mode worth engineering against"; README.md:263-264: the hints declare the
\* keys "when the table is created".  Whoever creates the table, it gets the layout
\* its schema declares.
DeclaredLayoutsAreApplied ==
    [][~exists /\ exists' => stored' = Established(Declared)]_vars

\* README.md:302: silent when the table already has what is declared, and a warning
\* only when the two differ.  A load that warns found a layout the declaration would
\* not have produced (or could not read it): loading again what created the table
\* never warns.  One that is silent found every key, direction and placement that is
\* declared in so many words.
WarnsForCause ==
    /\ outcome = "warned" => unread \/ stored # Established(Declared)
    /\ outcome = "silent" /\ DeclaresLayout =>
          /\ stored.partition = Declared.partition
          /\ DOMAIN stored.sort = DOMAIN Declared.sort
          /\ \A i \in DOMAIN stored.sort :
                \A field \in {"column", "direction", "nulls"} :
                    Declared.sort[i][field] \in {"unset", stored.sort[i][field]}
=============================================================================
