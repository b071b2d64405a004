------------------------------- MODULE Combine -------------------------------
(***************************************************************************)
(* The row operations of merge.py, as functions on tables.  A table is a   *)
(* sequence of rows; a row is reduced to what the merge looks at: its      *)
(* _dlt_id, its primary key (NoKey when null) and its hard-delete flag.    *)
(* The id stands for the rest of the row, so which version of a key        *)
(* survives is visible as the id that survives.                            *)
(***************************************************************************)
EXTENDS Integers, Sequences, SequencesExt, FiniteSetsExt

CONSTANTS Keys,   \* primary key values
          NoKey   \* a null in the key column

ASSUME NoKeyAssumption == NoKey \notin Keys

Row == [id : Nat, key : Keys \union {NoKey}, del : BOOLEAN]

\* row_key: the value rows are matched on, by primary key or by _dlt_id.
RowKey(row, byKey) == IF byKey THEN row.key ELSE row.id

KeysOf(table, byKey) == {RowKey(row, byKey) : row \in ToSet(table)}

\* row_key raises ValueError on a null key.
HasNullKey(table, byKey) == byKey /\ NoKey \in KeysOf(table, byKey)

\* table.filter: the rows that are in S, in their order.  (SelectSeq, written as the
\* recursive function it is, which proofs can expand.)
Select(table, S) ==
    LET chosen[n \in 0..Len(table)] ==
            IF n = 0 THEN <<>>
            ELSE IF table[n] \in S THEN Append(chosen[n - 1], table[n])
            ELSE chosen[n - 1]
    IN  chosen[Len(table)]

\* split_hard_delete.
Live(table)    == Select(table, {row \in Row : ~row.del})
Flagged(table) == Select(table, {row \in Row : row.del})

\* merge_rows: a row takes the place of the last one with its key, or is appended.
MergeRow(merged, row, byKey) ==
    LET at == {i \in DOMAIN merged : RowKey(merged[i], byKey) = RowKey(row, byKey)}
    IN  IF at = {} THEN Append(merged, row) ELSE [merged EXCEPT ![Max(at)] = row]

MergeRows(existing, incoming, byKey) ==
    LET merged[n \in 0..Len(incoming)] ==
            IF n = 0 THEN existing ELSE MergeRow(merged[n - 1], incoming[n], byKey)
    IN  merged[Len(incoming)]

WithoutKeys(table, keys, byKey) ==
    Select(table, {row \in Row : RowKey(row, byKey) \notin keys})

\* combine_tables("merge"), with or without a hard-delete column.
CombineMerge(existing, incoming, byKey, hardDelete) ==
    IF hardDelete
    THEN WithoutKeys(MergeRows(existing, Live(incoming), byKey),
                     KeysOf(Flagged(incoming), byKey), byKey)
    ELSE MergeRows(existing, incoming, byKey)

\* The rows insert-only may insert.
Candidates(incoming, hardDelete) == IF hardDelete THEN Live(incoming) ELSE incoming

\* Mutant: rows that are there already are inserted again.
CombineInsertOnlyFaultyUnfiltered(existing, incoming, byKey, hardDelete) ==
    existing \o Candidates(incoming, hardDelete)

\* combine_tables("insert-only").
CombineInsertOnly(existing, incoming, byKey, hardDelete) ==
    existing \o
        WithoutKeys(Candidates(incoming, hardDelete), KeysOf(existing, byKey), byKey)

\* Mutant: the first batch of a table keeps its flagged rows.
CombineTablesFaultyFirst(disposition, existing, incoming, byKey, hardDelete) ==
    CASE existing = <<>> -> incoming
      [] existing # <<>> /\ disposition = "merge" ->
            CombineMerge(existing, incoming, byKey, hardDelete)
      [] OTHER -> CombineInsertOnly(existing, incoming, byKey, hardDelete)

\* combine_tables, for the two dispositions a merge table has.  Nothing to combine
\* with: the batch is the table.
CombineTables(disposition, existing, incoming, byKey, hardDelete) ==
    CASE existing = <<>> ->
            IF hardDelete THEN Live(incoming) ELSE incoming
      [] existing # <<>> /\ disposition = "merge" ->
            CombineMerge(existing, incoming, byKey, hardDelete)
      [] OTHER -> CombineInsertOnly(existing, incoming, byKey, hardDelete)

\* Where combine_tables raises instead: a null key among the rows it looks at.
CannotCombine(disposition, existing, incoming, byKey, hardDelete) ==
    /\ existing # <<>>
    /\ \/ HasNullKey(existing, byKey)
       \/ HasNullKey(IF disposition = "insert-only"
                     THEN Candidates(incoming, hardDelete) ELSE incoming, byKey)
=============================================================================
