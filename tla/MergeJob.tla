------------------------------ MODULE MergeJob -------------------------------
(***************************************************************************)
(* HotdataLoadJob.run on a merge table: one file applied by the server's   *)
(* keyed modes, or by fetching the table, combining on the client and      *)
(* replacing it.  Each request may be the last of an attempt: the job then *)
(* runs again from the start, over whatever the attempt left behind.       *)
(* Another run may load a row into the same table at any moment.  The      *)
(* fetch may come back without the table's rows (hotdata_client.py:470).   *)
(***************************************************************************)
EXTENDS Combine

CONSTANTS MaxExisting,   \* bound: rows in the table at first
          MaxBatch,      \* bound: rows in the file
          MaxFaults,     \* bound: attempts cut short, and fetches without their rows
          MaxOthers      \* bound: rows another run loads into the table

ASSUME BoundAssumption ==
    MaxExisting \in Nat /\ MaxBatch \in Nat /\ MaxFaults \in Nat /\ MaxOthers \in Nat

VARIABLES table,        \* server: the rows
          synced,       \* server: was the table ever loaded?
          keyDeclared,  \* server: does the table accept the keyed modes?
          batch,        \* the file's rows
          strategy,     \* resolve_merge_strategy: "upsert" or "insert-only"
          primaryKey,   \* is a primary_key declared?
          hardDelete,   \* does the batch have the hard-delete column?
          phase,        \* where the attempt is
          fetched,      \* _combine_and_replace: the rows read
          unread,       \* history: the rows it missed, for want of a result
          faults,       \* bounded: attempts cut short so far
          before,       \* history: the table before the job
          others,       \* history: the rows another run loaded
          raced,        \* history: those that landed between a fetch and its replace
          erased        \* history: the rows a replace took away unread

setting == <<keyDeclared, batch, strategy, primaryKey, hardDelete, before>>
read    == <<fetched, unread>>
history == <<others, raced, erased>>
vars    == <<table, synced, setting, phase, read, faults, history>>

UniqueKeys(rows) ==
    \A i, j \in DOMAIN rows : i # j /\ rows[i].key = rows[j].key => rows[i].key = NoKey

\* Tables and files with ids first, first + 1, ... and the given keys and flags.
Numbered(first, keys, dels) ==
    [i \in DOMAIN keys |-> [id |-> first + i, key |-> keys[i], del |-> dels[i]]]

Tables == UNION {{Numbered(0, keys, [i \in 1..n |-> FALSE]) :
                     keys \in [1..n -> Keys \union {NoKey}]} : n \in 0..MaxExisting}

Files == UNION {{Numbered(MaxExisting, keys, dels) :
                     keys \in [1..n -> Keys \union {NoKey}], dels \in [1..n -> BOOLEAN]} : n \in 1..MaxBatch}

\* Does the job use the server's keyed modes?
Native == primaryKey /\ strategy # "insert-only"

\* The file's rows that are written, and those whose keys are removed.
Upserts == IF hardDelete THEN Live(batch) ELSE batch
Deletes == IF hardDelete THEN Flagged(batch) ELSE <<>>

\* Does it fetch and combine after all?  A file of deletes only does, and a table
\* created before keys were declared refuses the keyed modes.
Combines == ~Native \/ Upserts = <<>> \/ ~keyDeclared

\* What the server makes of a null key in a keyed load is not modelled.
Init ==
    /\ table \in Tables /\ UniqueKeys(table) /\ before = table
    /\ synced \in BOOLEAN /\ (table # <<>> => synced)
    /\ batch \in Files /\ UniqueKeys(batch)
    /\ strategy \in {"upsert", "insert-only"}
    /\ primaryKey \in BOOLEAN /\ hardDelete \in BOOLEAN
    /\ keyDeclared \in BOOLEAN /\ (keyDeclared => primaryKey)
    /\ ~hardDelete => Flagged(batch) = <<>>
    /\ NoKey \in KeysOf(batch, TRUE) => ~Native
    /\ phase = "start" /\ fetched = <<>> /\ unread = {} /\ faults = 0
    /\ others = <<>> /\ raced = {} /\ erased = {}

\* The server's upsert: matching rows make way for the file's newest per key.
ServerUpsert(rows, incoming) ==
    MergeRows(WithoutKeys(rows, KeysOf(incoming, TRUE), TRUE), incoming, TRUE)

\* Mutant: the flagged rows of the file are forgotten.
UpsertFaultyNoDelete ==
    /\ phase = "start" /\ ~Combines
    /\ table' = ServerUpsert(table, Upserts)
    /\ synced' = TRUE
    /\ phase' = "done"
    /\ UNCHANGED <<setting, read, faults, history>>

\* The native upsert.
Upsert ==
    /\ phase = "start" /\ ~Combines
    /\ table' = ServerUpsert(table, Upserts)
    /\ synced' = TRUE
    /\ phase' = IF Deletes # <<>> THEN "delete" ELSE "done"
    /\ UNCHANGED <<setting, read, faults, history>>

\* The native delete, a load of its own.
Delete ==
    /\ phase = "delete"
    /\ table' = WithoutKeys(table, KeysOf(Deletes, TRUE), TRUE)
    /\ phase' = "done"
    /\ UNCHANGED <<synced, setting, read, faults, history>>

\* Mutant: the table is read once, when the job is created.
FetchFaultyStale ==
    /\ phase = "start" /\ Combines
    /\ fetched' = before /\ unread' = {}
    /\ phase' = "replace"
    /\ UNCHANGED <<table, synced, setting, faults, history>>

\* _combine_and_replace: read the table.
Fetch ==
    /\ phase = "start" /\ Combines
    /\ fetched' = IF synced THEN table ELSE <<>>
    /\ unread' = {}
    /\ phase' = "replace"
    /\ UNCHANGED <<table, synced, setting, faults, history>>

\* ... and the query names no result: fetch_table returns None, an empty table to
\* combine_tables.
FetchNamesNoResult ==
    /\ phase = "start" /\ Combines /\ synced
    /\ faults < MaxFaults /\ faults' = faults + 1
    /\ fetched' = <<>> /\ unread' = ToSet(table)
    /\ phase' = "replace"
    /\ UNCHANGED <<table, synced, setting, history>>

\* Mutant: insert-only is taken for a merge.
DispositionFaultyMerge == "merge"

Disposition == IF strategy = "insert-only" THEN "insert-only" ELSE "merge"

Refused == CannotCombine(Disposition, fetched, batch, primaryKey, hardDelete)

Combined == CombineTables(Disposition, fetched, batch, primaryKey, hardDelete)

\* Mutant: the replace empties the table first, and the attempt may end there.
ReplaceTableFaultyEmptied ==
    /\ phase = "replace" /\ ~Refused
    /\ \/ table' = Combined /\ phase' = "done" /\ UNCHANGED faults
       \/ table' = <<>> /\ phase' = "start" /\ faults < MaxFaults /\ faults' = faults + 1
    /\ synced' = TRUE /\ fetched' = <<>> /\ unread' = {}
    /\ UNCHANGED <<setting, history>>

\* ... combine, and replace the table with the result.
ReplaceTable ==
    /\ phase = "replace" /\ ~Refused
    /\ table' = Combined
    /\ erased' = erased \union unread
    /\ synced' = TRUE /\ phase' = "done" /\ fetched' = <<>> /\ unread' = {}
    /\ UNCHANGED <<setting, faults, others, raced>>

\* Mutant: the ValueError reaches dlt as a failure to try again.
RejectFaultyTransient ==
    /\ phase = "replace" /\ Refused
    /\ phase' = "start" /\ fetched' = <<>> /\ unread' = {}
    /\ UNCHANGED <<table, synced, setting, faults, history>>

\* ... or the combine raises ValueError, which is terminal.
Reject ==
    /\ phase = "replace" /\ Refused
    /\ phase' = "failed" /\ fetched' = <<>> /\ unread' = {}
    /\ UNCHANGED <<table, synced, setting, faults, history>>

\* A request fails with HotdataTerminalError: the job fails for good, between its
\* two loads included.
Terminate ==
    /\ phase \in {"start", "delete", "replace"}
    /\ phase' = "failed" /\ fetched' = <<>> /\ unread' = {}
    /\ UNCHANGED <<table, synced, setting, faults, history>>

\* A request fails, or its reply is lost, or the process dies: dlt runs the job
\* again.  (After the last request it had committed all the same.)
Retry ==
    /\ phase \in {"start", "delete", "replace", "done"} /\ faults < MaxFaults
    /\ faults' = faults + 1
    /\ phase' = "start" /\ fetched' = <<>> /\ unread' = {}
    /\ UNCHANGED <<table, synced, setting, history>>

\* What a job of the same kind makes of the table when it loads one live row.
LoadedByOthers(row) ==
    IF Native /\ keyDeclared THEN ServerUpsert(table, <<row>>)
    ELSE CombineTables(Disposition, table, <<row>>, primaryKey, hardDelete)

\* A job of another run loads a row; its own window is not modelled.
OtherLoads(key) ==
    LET row == [id |-> MaxExisting + MaxBatch + Len(others) + 1, key |-> key, del |-> FALSE]
    IN  /\ Len(others) < MaxOthers
        /\ Native => key # NoKey
        /\ (Native /\ keyDeclared) \/ ~CannotCombine(Disposition, table, <<row>>, primaryKey, hardDelete)
        /\ table' = LoadedByOthers(row) /\ row \in ToSet(table')
        /\ synced' = TRUE
        /\ others' = Append(others, row)
        /\ raced' = IF phase = "replace" THEN raced \union {row} ELSE raced
        /\ UNCHANGED <<setting, phase, read, faults, erased>>

Step == Upsert \/ Delete \/ Fetch \/ ReplaceTable \/ Reject
Next == Step \/ FetchNamesNoResult \/ Terminate \/ Retry \/ \E key \in Keys \union {NoKey} : OtherLoads(key)
Spec == Init /\ [][Next]_vars /\ WF_vars(Step)
-----------------------------------------------------------------------------
(* Properties.                                                             *)

TypeOK ==
    /\ table \in Seq(Row) /\ batch \in Seq(Row) /\ fetched \in Seq(Row)
    /\ phase \in {"start", "delete", "replace", "done", "failed"}
    /\ synced \in BOOLEAN /\ (table # <<>> => synced)
    /\ faults \in 0..MaxFaults

\* The rows with a key.
Hits(rows, key) == Select(rows, {row \in Row : row.key = key})

\* What a merge means.  Without a primary key the file's rows follow what is there.
\* insert-only adds rows of keys the table lacks.  A keyed merge removes a flagged key
\* and gives a key the file writes the file's last row for it.
Merged(key) ==
    CASE ~primaryKey -> Hits(before, key) \o Hits(Upserts, key)
      [] primaryKey /\ ~Native ->
            IF Hits(before, key) # <<>> THEN Hits(before, key) ELSE Hits(Upserts, key)
      [] OTHER ->
            CASE Hits(Deletes, key) # <<>> -> <<>>
              [] Hits(Deletes, key) = <<>> /\ Hits(Upserts, key) # <<>> ->
                    <<Last(Hits(Upserts, key))>>
              [] OTHER -> Hits(before, key)

\* A merge ends with exactly the merged table, whichever way it was applied
\* and whatever earlier attempts left behind (upsert without delete, replace
\* whose reply was lost), for every key another run kept its hands off.  If a
\* replace took rows away unread, it ends with exactly the file's rows instead.
MergeConverges ==
    phase = "done" =>
        \A key \in (Keys \union {NoKey}) \ KeysOf(others, TRUE) :
            Hits(table, key) = IF erased = {} THEN Merged(key) ELSE Hits(Upserts, key)

\* insert-only never changes or drops a row that was there, over any retries and
\* beside any other run, as long as its fetches return the table's rows.
InsertOnlyKeepsExisting == strategy = "insert-only" /\ erased = {} => IsPrefix(before, table)

\* README.md:243: it "never updates existing rows".  (It does: a row that was not
\* fetched makes way for the file's.)
InsertOnlyNeverUpdates == strategy = "insert-only" => IsPrefix(before, table)

\* No attempt adds a row that an earlier attempt added already.
RetriesNeverDuplicate ==
    \A i, j \in DOMAIN table : i # j => table[i].id # table[j].id

\* job_client.py:410: a row flagged for deletion never lands as live data.
TombstonesNeverLand == hardDelete => \A i \in DOMAIN table : ~table[i].del

\* The keyed modes lose nothing another run loads, nor does an attempt that reads
\* the table after it: such a row is missing only if the file, or a later load of
\* that run, has its key, if it landed between the fetch and the replace of a
\* combine, or if the fetch came back without the table's rows.
OthersRowsAreAccountedFor ==
    \A i \in DOMAIN others :
        \/ others[i] \in ToSet(table)
        \/ others[i] \in raced
        \/ others[i] \in erased
        \/ primaryKey /\ others[i].key \in KeysOf(batch, TRUE)
        \/ primaryKey /\ \E j \in DOMAIN others : j > i /\ others[j].key = others[i].key

\* The table seen key by key, as the contract sees it.
KeyState == [key \in Keys \union {NoKey} |->
                CASE key \in KeysOf(others, TRUE) -> "shared"
                  [] /\ key \notin KeysOf(others, TRUE) /\ erased = {}
                     /\ Hits(table, key) = Merged(key) -> "merged"
                  [] /\ key \notin KeysOf(others, TRUE) /\ erased # {}
                     /\ Hits(table, key) = Hits(Upserts, key) -> "file"
                  [] OTHER -> "first"]

Contract == INSTANCE MergeContract
    WITH Keys <- Keys \union {NoKey}, state <- KeyState, done <- (phase = "done")

\* Every way to apply the file implements the contract: no step takes a key back to
\* what it was before, no job reports success while a key is left, and a table whose
\* rows were not fetched becomes the file's as a whole (the retries and fallbacks of
\* HotdataLoadJob.run).
ImplementsMergeContract == Contract!Spec

\* Every job ends, applied or rejected, once faults stop.
JobSettles == <>[](phase \in {"done", "failed"})
=============================================================================
