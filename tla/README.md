# A TLA+ model of the Hotdata destination for dlt

This directory models the parts of `src/hotdata_dlt_destination` whose
correctness depends on the order of events: which rows the destination's own
bookkeeping keeps, what a load package leaves in its tables when its calls are
cut short, how a merge file is applied, what a source read hands over, which
database a run addresses, when a failing query may pass for an empty table, how
consumers share one SQL client, and how a declared layout reaches the table it is
for. TLC checks the models on small instances; TLAPS proves the most important
properties for all values of the constants.

Paths below are relative to `src/hotdata_dlt_destination/` unless they start
with `docs/` or name the README of the repository.

## 1. Inventory

### How the parts interact

dlt drives everything. Its loader takes a *load package* (files of rows per
table, on disk), makes a `HotdataJobClient` and calls, in this order,
`initialize_storage` (bare), `update_stored_schema`, `initialize_storage` again
with `truncate_tables` if the package replaces tables, one `HotdataLoadJob.run`
per file, and `complete_load`. When a call raises or the process dies, the load
step ends; if the user runs the pipeline again, dlt takes the package up from what
it recorded on disk. A transient error in a job has dlt repeat the job in the same
process, a terminal one aborts the package. On a machine without local state dlt first asks `get_stored_state`.

Every call opens a `HotdataClient` of its own. What the clients of a run share is
the configuration object, on which the resolved database is cached. Requests are
retried by the framework's `_request_with_retry`; a request whose reply is lost
may have taken effect.

| component | state | operations | what makes it hard |
|---|---|---|---|
| pipeline state and its trim (`job_client.py`) | `_dlt_pipeline_state`, `_dlt_loads`; in the process, the rows the trim read | state-file job, `complete_load`, `_prune_pipeline_state`, `get_stored_state` | the trim is two reads and a rewrite, without a lock; several pipelines share the table; loads that never complete leave rows |
| storage and load packages (`job_client.py`, `hotdata_client.py`) | the database's tables, their rows, layouts; `newly_declared` | `initialize_storage`, `update_stored_schema`, append and replace jobs, `complete_load` | `initialize_storage` runs several times per package and empties tables; any prefix of it may have happened |
| merge jobs (`job_client.py`, `merge.py`) | one table, one file | native upsert and delete; fetch, combine, replace | two loads that are not atomic; a read-modify-write repeated over its own result; a fetch that comes back without the table's rows; keys that repeat or are null |
| source reads (`source_client.py`, `sources.py`) | one read: response, waits, expected and received rows | `read_arrow`, `read_rows`, `read_arrow_batches` | half a dozen response shapes; the stream is consumed while it may still fail; an empty read downstream truncates a table |
| database resolution (`hotdata_client.py`) | run cache (record, created?, catalog), the server's databases and tables | `ensure_managed_database`, `drop_managed_database`, `catalog` | cached facts over drops, failed deletions and restarts; ids cannot be recreated |
| schema versions (`job_client.py`) | `_dlt_version` | `_write_schema_to_storage`, `get_stored_schema*` | look up, then append; the reply of either may be lost; two runs of one schema |
| internal queries (`job_client.py`, `errors.py`) | none between calls | `_query_internal_rows`, `_is_missing_storage`, `_awaiting_first_load`, `classify` | a failing query is judged by a second request; only some failures mean "nothing stored yet" |
| dataset SQL client (`sql_client.py`) | one connection per job client; each cursor's position | open, close, `catalog_name`, `execute_query`, `fetch*` | contexts nest or overlap on one connection; names are built before the query |
| layouts (`layout.py`, `hotdata_client.py`) | hints in the dlt schema; the table's stored layout | `hotdata_adapter`, `resolve_*`, `verify_schema`, creation, comparison | fixed when the table is created; written and read back through the schema |
| contracts, configuration (`contracts.py`, `configuration.py`, `config.py`, `factory.py`) | none | normalisation and precedence | pure functions |
| ibis patch, parquet, CLI, demos, scripts | none | I/O | nothing to model |

### What makes each part correct

* **State**: a restore answers with the newest completed state, which never moves
  back; the trim drops only rows that enough newer rows of the same pipeline
  outnumber; the table stays bounded.
* **Packages**: every file of a completed package is in its table until a later
  package replaces the table; nothing else ever erases rows; a table with a
  layout is seeded before it is appended to, if it had complete columns when it was
  declared and its declaring call was not cut short; a load step nobody interrupts
  ends.
* **Merges**: a merge ends in one table whichever path was taken and whatever
  earlier attempts left, and no retry takes back what an attempt has merged;
  insert-only changes nothing that was there; all this as long as a fetch returns
  the rows the table has (section 4), and otherwise the table becomes the file's as
  a whole and stays so. Tombstones never land; repeated attempts never duplicate; of
  another run's rows only those are lost that land between a fetch and its replace,
  or that the fetch did not return.
* **Reads**: a read that ends normally is whole; "no result" is never the answer
  to a query that has one; columns arrive even without rows; every read ends.
* **Binding**: a job finds its table declared; a table reported as new is empty;
  a pinned run never moves to another database; reads use the right catalog.
* **Internal tables**: "nothing stored" is only said when nothing is, but for two
  kinds of answer (section 4); a schema is stored once unless two runs looked at the
  same time or a lookup had such an answer; a completed load names a
  stored schema; outside `initialize_storage` a failure dlt could try again ends no
  process; no run waits for data only it would load.
* **SQL reads**: rows come in order, each once; an exception names what went wrong;
  every connection is closed.
* **Layouts**: a table `initialize_storage` creates gets what the user wrote (one a
  load job creates does not, section 4); later loads warn only of a difference, and of
  every difference in what was declared.

`PROJECT.json` lists the hazards one by one, each at the line where it bites, with
the properties that watch it, or why none does yet.

## 2. Modules

| module | models | extends |
|---|---|---|
| `StateStore` | abstract: one stored state per pipeline, which only moves forward | |
| `StateSync` | bookkeeping tables, restore query, `complete_load`, trim | refines `StateStore` |
| `LoadPackage` | `initialize_storage` to `complete_load` for append and replace tables | |
| `Combine` | the functions of `merge.py` on sequences of rows | |
| `MergeContract` | abstract: each key of a table is merged once and for good, or the whole table becomes the file's | |
| `MergeJob` | `HotdataLoadJob.run` for one merge file, with another run at the table | `Combine`; refines `MergeContract` |
| `SourceRead` | one read of `HotdataSourceClient` | |
| `DatabaseBinding` | run cache, `ensure_managed_database`, drop | |
| `InternalTables` | schema versions, the restore and schema lookups, the judgement of failing queries, by several runs | |
| `SqlReads` | the shared SQL client: contexts, names, queries, cursors | |
| `TableLayout` | one table's layout from hint to creation to comparison | |
| `StateSync_proofs`, `LoadPackage_proofs`, `MergeJob_proofs`, `SourceRead_proofs`, `DatabaseBinding_proofs`, `InternalTables_proofs`, `SqlReads_proofs`, `TableLayout_proofs` | the proofs | their module, `TLAPS` |
| `MC...` | instances for TLC | their module |

Definitions whose name contains `Faulty` are plausible mistakes (a dropped guard,
an off-by-one, a swapped order). None is part of a specification: each stands
before the definition it is a mistake of, and putting it in that definition's
place makes TLC report one of the properties.

### StateSync

A state row is `[pipe, load, copy]`. Load ids are numbers in order of time (the
code's are timestamps in text). A row's `_dlt_id` is the same in every upload of
a file, so the rows a repeated job lands share an id, and `KeepIds`, which
chooses by id, is a set of loads; `copy` tells the physical rows apart. One
process per pipeline goes `idle -> jobs -> complete -> index -> rows -> rewrite
-> done -> idle`. Each arrow is one request, so another pipeline can act between
any two. `LandState` may repeat (lost reply), `CompleteLoad` may repeat,
`TrimFails` is the `except` branch that only logs, `Resume` is a crash before dlt
records the package as loaded, `Abandon` a package that is given up.
`landed`, `disturbed` and `overwritten` are history, which no action's guard
reads: all rows that ever landed, the trims someone else has written past, and
the rows such trims took out of the table. That a query may name no result is
modelled in `InternalTables`, for the restore; a trim whose reads find nothing
writes nothing and ends as `TrimFails` does.

`Overlap` and `MayAbandon` are constants, since what can be promised depends on
them. Without `Overlap` a pipeline starts a package only when no other has one.

### LoadPackage

`package` numbers the packages, `jobsOf` the (table, file) pairs of each. `schema` is
the dlt schema's tables, which `initialize_storage` declares one and all, those of
resources that yielded nothing (`dry` in `StartPackage`) included; `complete` are
those with a complete column, without which `_truncate_table` has nothing to write a
file of and the table is passed over. `columnless` and `orphaned` are history: layout
tables declared before they had such a column, or by a call that was cut short before
their seed. The
phases of `initialize_storage` are `list` (bind and list tables), `declare` (one
`add_managed_table` each), `empty` (one zero-row replace each, for truncated and
seeded tables alike: they share the loop in the code). `Interrupt` ends the load step
anywhere, and the package is `paused` if its jobs had begun, or else `stopped`.
`Resume` is another process, which goes on with the jobs or starts the
initialization over, with an empty `newly_declared`; it may come or not. `RunJob`
appends; with the reply lost the job is run again under a new upload, so its row
appears twice with different `upload`. `established` is the server's rule that
the first load into a table with a layout must be a replace: it is external, and
taken from the comment at `job_client.py:509-514`. The database is pinned; who
makes it is `DatabaseBinding`'s subject.

### Combine and MergeJob

A row is `[id, key, del]`: `_dlt_id`, primary key (`NoKey` when null) and the
hard-delete flag. All other columns follow the id, so *which version* of a row
survived shows as its id. Tables are sequences, because `merge_rows` depends on
order. The code's filters (`Select`) and the loop of `merge_rows` (`MergeRows`) are
recursive functions over the places of a table, whose definitions the provers can
expand; `SelectSeq` and the folds they cannot. `MergeJob` starts from every table, file and setting within its bounds.
`Fetch` and `ReplaceTable` are two steps. `FetchNamesNoResult` is the fetch of a table
that was loaded whose query names no result: `fetch_table` returns `None`, an empty
table to `combine_tables`. What it missed is `unread`, and `erased` once a replace has
taken it away (history). `Terminate` ends the job anywhere
(between the two native loads included), `Retry` sends it back to the start.
The server's upsert is external: the file's last row per key replaces what had
that key. What the server does with a null key in a keyed load is unknown, so
such files appear only where the combine handles them. `OtherLoads` is a job of
another run on the same table, atomic and at any moment; `raced` is history: the
rows that landed between this job's fetch and its replace. Files do not repeat a
key (section 4 says what happens if they do).

`Merged(key)` says what the merge means for one key, from the table the job began
with and the file alone: without a primary key the file's rows follow those that
are there, insert-only adds rows only of keys the table lacks, and a keyed merge
removes a flagged key and gives a key the file writes the last row the file has for
it. `MergeContract` sees a table key by key through this (`KeyState`): `first` until
a key has its merged rows, then `merged`, and `shared` once another run has loaded
it, after which nothing is promised of it. Success may be reported only when no key
is `first`. A replace of a table whose rows were not fetched is the contract's
`Overwrite`: every key is the `file`'s then, and remains so.

### SourceRead

One read by one of three methods of a statement that does or does not have a
result (`isSelect`) of `total` rows. `Query` chooses any response: synchronous
with or without a result id, with or without `truncated` and `total_row_count`,
and with any number of rows in its body; asynchronous; or unknown. The count a
server states, where it states one, is true: the code has nothing else to go by.
Everything else may be wrong: the fetched table may have any number of rows, the
stream any batches, and either may break. `Poll` is one turn of the wait loop;
`MaxPolls` stands for the 300 s deadline. `Close` is the consumer abandoning the
generator, which never reaches the completeness check. Type materialisation is
left out: no property is about types.

### DatabaseBinding

Databases are numbered as they are made; `databaseId` is the configured one, 0 if
none, and may change when a process restarts (`_create` logs the id for that).
Each call of `ensure_managed_database` goes `idle -> bound -> declaring ->
ensured` or `raised`; the caller is a probe (`is_storage_initialized`),
`initialize_storage`, or a load job, and a job is called only once the storage was
initialized for the current schema, as dlt does. `Create` may make two databases
(the first reply was lost). `Drop` has an alternative in which the request fails
or its reply is lost, which leaves the cache as it was. `Restart` may happen
anywhere. The layout comparison is
`TableLayout`'s subject.

### InternalTables

Each run goes `idle -> state -> schema -> extract -> init -> lookup -> append ->
jobs -> complete -> idle`: the restore query, the query of the newest schema,
dlt's extraction, `initialize_storage`, the two halves of
`_write_schema_to_storage`, the package's jobs, `complete_load`. `state`, `schema`
and `lookup` are reads through `_query_internal_rows`. A read answers at once
(`QueryAnswers`), answers "nothing" because a table is not declared
(`TableIsMissing`, which the message tells), or fails: for a table without data
(`TableIsUnloaded`) or for any other reason (`QueryFails`). A failure waits in
`pending` until the second request, the listing, judges it (`Judge`) or itself
fails (`ListingFails`): other runs act in between. Two answers of the meaning
"nothing" have no empty table behind them (`Misleading`): `QueryFailsAsIfMissing` is a
failure that has nothing to do with a missing table and whose wording holds one of
the markers, `QueryNamesNoResult` a response without a result id, of which
`execute_sql` makes an empty table. `answer` tells them apart, and a version row
written after one is marked `misled`. `Surface` is the dlt exception: a transient one has dlt repeat the
step from `resume`, what is on disk, any other ends the process. The user's tables
and the trim are other modules' subjects, so a state row here is just a load id.
`answer`, `basis`, `unloaded` and `failures` are history.

### SqlReads

Consumers share the one `HotdataSqlClient` of a job client. `Open` and `Close` are
`__enter__` and `__exit__`: opening replaces the client there is and closing closes
whatever client there is, so contexts that overlap can close each other's.
`CatalogName` builds a table name, with the connection or before it; a query then
has no target, finds no table, fails, or answers with a table of any size up to
`MaxRows`. Fetches move the cursor's `pos`. Exceptions are those
`_make_database_exception` makes. Whether a `database_id` is configured, exists
and was created with a catalog of its own, and whether the table exists, are
chosen at the start.

### TableLayout

One table and the schema that describes it. An entry of `partition` or `sort` is a
record of its form (bare name, pair, mapping, something else) and its fields, with
`"unset"` for what is left out and `"unknown"` for a value the code rejects.
`Adapt` is `hotdata_adapter`, which normalises entries into mappings; `EditSchema`
writes any entries into the schema, as an edited export does; `HintColumns` sets the
column hints, and `Flagged` (a recursive function over the columns) reads them back
in the order of the columns. `RefuseLayout`, `CreateTable` and `CompareLayout` are what
`initialize_storage` makes of it, `CompareRaises` the comparison that cannot read the
layout for an `AttributeError` or `TypeError`, which is raised again. `ResumeElsewhere`
is a process without `database_id` that takes up a package whose jobs had begun: it
does not know the database its storage was initialized in, so the next job's
`ensure_managed_database` makes one (`CreateByJob`), naming the table and its keys and
no layout. What the server fills in where a sort key leaves something open is
external and a constant. `wanted` is history: the keys the user wrote last.

## 3. Runs

| run | question | bounds |
|---|---|---|
| `state_overlap` | With overlap, crashes and abandoned packages: does an undisturbed trim drop only outnumbered rows, and is nothing else ever missing? | 2 pipelines, keep 2, 4 loads, 2 copies |
| `state_reliable` | Without overlap or abandoned packages: is the restore the newest completed state, does it refine `StateStore`, does the table stay bounded? | keep 1, 5 loads, 2 copies |
| `state_pruned` | (violation) rows of loads that never completed | keep 1, 5 loads |
| `package_faults` | Are loads whole, replace tables single, rows erased only by a later replace, refusals explained, load steps finite? | 2 tables with layouts (one append, one replace), with or without data and complete columns, 2 files, 2 packages, 2 faults |
| `package_seed` | (violation) a layout table left unseeded | same |
| `merge_retries` | Do merges converge and refine `MergeContract`, are retries harmless, and which rows of another run are lost? | tables and files of up to 2 rows over 2 keys and null, 2 retries or fetches without rows, 1 row of another run |
| `source_read` | Is a complete read whole, shaped, and finite? | up to 3 rows, 3 batches, slices of 2, 3 polls |
| `binding_runs` | Runs with an id and without: right catalog, new tables empty, tables declared, one database when pinned? | 3 tables, 2 databases |
| `binding_evolves` | (violation) tables of a later package of the run that made the database | same |
| `internal_tables` | Is "nothing stored" true, are schemas stored once and before they are named, what ends a process, does every run end? | 2 runs, 2 hashes, 3 process starts, 2 faults |
| `sql_reads` | Rows in order, truthful exceptions, closed connections? | 2 consumers, 3 rows, 3 connections, 1 failing request |
| `table_layout` | Is a table `initialize_storage` creates as wanted, and does a later load warn for cause? | 2 columns; 8 partition and 7 sort lists, good and bad |

Why the bounds are enough. *State*: with `keep = 1` a trim
fires from two rows on, so five loads allow several trims in one behaviour;
`keep = 2` shows the boundary of `pipeline_rows[:keep]` (a difference of one
changes the answer), and two copies the difference between counting rows and
counting ids: four loads land up to eight rows, enough for one pipeline's trim
to be due while the other writes. *Packages*:
two files are the least for which a truncate can destroy a sibling, two packages
the least for a replace to follow a replace, two faults the least for a repeated
call to be interrupted (and a second package the least for a table to have its first
rows after it was declared). *Merges*: two keys and two rows give every relation of a
file to a table: match, no match, flagged, null; one row of another run can land
before the fetch, in the window, or after. *Reads*: three rows in
slices of two give a full piece, a part and an empty batch. *Binding*: three
tables allow one that exists, one that is declared now and one that comes later;
two databases allow a lost creation, or a
run that creates one beside the old. *Internal tables*: two runs are the least for
a lookup to go stale, two hashes tell "this schema" from "a schema", the third
start resumes or repeats a load beside the other run, and two faults allow a query
and the listing after it to fail (1.5 million states). *SQL reads*: two consumers
overlap, three rows leave a full fetch, a part and a rest, the third connection
reopens after an overlap. *Layouts*: two columns and lists of up to two entries give
order, and an entry of every form and of every kind of mistake. `CHECK_DEADLOCK FALSE`
stands where a behaviour really ends (bounded loads, a finished job or read);
`DatabaseBinding` never stops and is checked for deadlock. Symmetry is used only
over pipelines and tables, where no liveness is checked.

### Fairness

`LoadPackage`, `MergeJob` and `SourceRead` assume `WF_vars(Step)`: dlt's loader
calls the next operation as long as there is one, a started call runs on, and a
consumer that has not closed the generator keeps taking from it. Faults, retries,
`Interrupt`, `Resume`, `GiveUp`, `Terminate`, `Fail`, `Close`, `FetchNamesNoResult` and
`QueryNamesNoResult` are not in `Step`: they may happen and need not. In particular
nothing has an interrupted package taken up again, and `LoadStepsEnd` speaks of a
process that has it in hand. A job that failed for a transient reason is another
matter: dlt repeats it in the same process. Faults are bounded, which is why "ends once faults stop" is what is
shown; dlt's own retry limits are not modelled. `InternalTables` assumes it of each run by itself (`WF_vars(Step(r))`): a
process that has started runs on until it ends, whatever the others do; that it
starts, or starts again, is not assumed. `StateSync`, `DatabaseBinding`,
`SqlReads` and `TableLayout` promise nothing that must happen eventually and assume
no fairness.

## 4. What disagrees

The code does something other than its own words say in eight places that were met
while modelling. Three have a run and a finding in `PROJECT.json`:

1. `state_pruned`. The trim ranks state rows whether or not their loads
   completed. When `max_state_files` rows of loads that were given up are newer,
   the newest *completed* row is dropped and the next restore finds nothing. The
   comment before the call says a pruned row is never the one a reader would have
   resolved to. (The rows count, not the loads: a state file that landed twice
   counts twice.)
2. `package_seed`. An interruption after `add_managed_table` and before the seed
   leaves a layout table unseeded for good: the next call no longer finds it new.
   The repository's README says (307-308) that such a table's first load is a
   replace, "seeded automatically when the table is created".
3. `binding_evolves`. After a run has created its database, tables a later
   package of the run brings are not declared.

Five have a configuration of their own beside the runs, `tlc -config X.cfg`, whose
one property TLC refutes. The passing runs contain the same steps, and their
properties say what holds all the same:

4. `MCLoadPackage_dry.cfg` (`LayoutTablesAreSeeded`, without any fault).
   `initialize_storage` declares every table of the schema, those of resources that
   yielded nothing included, and passes over the seed of a table without a complete
   column (`job_client.py:555-558`). When its first rows come the table is not new any
   more, and every append to it is refused. The same words of the README.
   `RefusedOnlyIfUnseeded` shows that this and the interruption are the two ways to a
   refused table and that there is no third.
5. `MCMergeJob_resultless.cfg` (`InsertOnlyNeverUpdates`). `fetch_table` returns `None`
   when its query names no result, loaded table or not (`hotdata_client.py:469-471`);
   `source_client.py:268-270` says of such a response that it may well have rows.
   `combine_tables` takes it for an empty table, and the replace leaves the file's rows
   alone. README:243 says of insert-only: "never updates existing rows".
   `ImplementsMergeContract` and `MergeConverges` show that the table is then exactly
   the file's, for all keys at once, and stays so over retries.
6. `MCInternalTables_marker.cfg` (`FailuresSurface`). `_is_missing_storage` looks for
   `UNDEFINED_RELATION_MARKERS` in the message of any failure and of its causes, so
   that a failure about something else reads as "nothing stored".
   `job_client.py:168-171`: "Every other failure must surface".
7. `MCInternalTables_resultless.cfg` (`ResultsAreRead`). `execute_sql` has an empty
   table for a response without a result id (`hotdata_client.py:446-447`), so stored
   rows read as none. `job_client.py:749-751` wants "nothing stored yet" told apart
   from a query gone wrong. `NothingStoredIsTrue` and `RepeatedVersionsOverlap` show
   that no answer but these two misleads a restore or the schema guard.
8. `MCTableLayout_jobs.cfg` (`DeclaredLayoutsAreApplied`). A load job's own
   `ensure_managed_database` (`job_client.py:362-370`) passes keys and no layout. In a
   run without `database_id` that is resumed with jobs left, it makes the database, and
   the table in it without the layout that is declared, and without a warning.
   `layout.py:8-9` calls "a silently dropped hint" "the failure mode worth engineering
   against".

Some behaviour is worth knowing though nothing in the repository promises
otherwise, so no run is spent on it:

* insert-only compares a file with the table and not with itself: a key repeated in
  one file is inserted twice. When a combine meets an empty table, a file with a
  live and a flagged row of one key leaves the live one; all other paths delete it.
* After `drop_storage` on a configured `database_id`, `initialize_storage` refuses
  instead of recreating: an id cannot be made again.
* A configured id of a database that does not exist surfaces from the SQL client as
  an undefined relation, since the chain of causes holds "not found".
* A partition entry given as a pair with `None` is rejected, while a mapping with
  `None` means identity.
* SQL contexts that overlap close each other's connection; the properties of
  `SqlReads` hold for all other orders.

## 5. What is proved

All theorems hold for every value of the constants allowed by the modules'
assumptions (`ConfigAssumption`, `BoundAssumption`, `ReadAssumption`,
`BindingAssumption`, `TablesAssumption`, `HashAssumption`, `LayoutAssumption`,
`NoKeyAssumption`). Extra hypotheses are in the statements. Every invariant, action
property and refinement of a passing run is stated by a theorem.

| theorem | says | under |
|---|---|---|
| `StateSync_proofs!TypeCorrect` | `TypeOK` | |
| `StateSync_proofs!UndisturbedTrim` | `OnlyOutnumberedRowsAreTrimmed` | |
| `StateSync_proofs!Retention` | `MissingOnlyIfOutnumbered` | |
| `StateSync_proofs!RestoreIsNewest` | `RestoresNewestCompleted` | `~Overlap`, `~MayAbandon` |
| `StateSync_proofs!Refinement` | `ImplementsStateStore` | `~Overlap`, `~MayAbandon` |
| `StateSync_proofs!TableIsBounded` | `RetentionBound` | finitely many pipelines |
| `LoadPackage_proofs!TypeCorrect`, `PackagesAreWhole`, `ReplacesAreSingle`, `RefusalsAreUnseeded`, `ErasuresAreReplaces` | the safety properties of `package_faults` | |
| `MergeJob_proofs!MergesConverge` | `MergeConverges` | |
| `MergeJob_proofs!KeepsTheContract` | `ImplementsMergeContract` | |
| `MergeJob_proofs!InsertOnlyKeeps`, `RetriesAreHarmless`, `TombstonesStayOut`, `OthersRowsAccounted`, `TypeCorrect` | the other safety properties of `merge_retries`, and the types | |
| `SourceRead_proofs!TypeCorrect`, `ReadsAreWhole`, `RowlessMeansNoResult`, `ShapesAreKept` | the run's four invariants | |
| `DatabaseBinding_proofs!TypeCorrect`, `SeedsEmptyNothing`, `CatalogIsRight`, `JobsFindTheirTables`, `PinnedRunsNeverMove` | the five properties of `binding_runs` | |
| `InternalTables_proofs!TypeCorrect`, `OneRowPerSchema`, `CompletedSchemasAreStored`, `EmptyAnswersAreTrue`, `EndsHaveCauses` | the safety properties of `internal_tables` | |
| `SqlReads_proofs!TypeCorrect`, `RowsInOrder`, `FailuresAreTruthful`, `ContextsCloseTheirClients` | the types, and the three properties of `sql_reads` | |
| `TableLayout_proofs!WarningsAreJustified`, `TablesAreCreatedAsWanted` | the two properties of `table_layout` | |

**StateSync.** The argument is about *outnumbering*. `NewerMonotone` says a
larger table has at least as many newer rows; `LeftOutIsOutnumbered` that a row
`KeepIds` leaves out has `max_state_files` newer ones. The inductive
invariant behind `UndisturbedTrim` and `Retention` (`TrimInvariant`) is that the
rows an undisturbed trim holds are those its first read chose from the table that
is still there. A landed row that is neither in the table nor taken by an
overtaken trim was then outnumbered when it went, and stays so since `landed`
only grows. Serial runs leave no trim disturbed (`RunsAreSerial`). For the restore, `LoadsInOrder` says
that without overlap or abandonment a pipeline's loads complete in the order of
their ids and at most the current one is pending; `NewestKept` that the newest
landed row of each pipeline is always in the table (the trim keeps at least one
row per pipeline, and nothing newer can be pending while it runs). Together they
make the query's answer the newest completed load (`StoredIsNewest`), and the
only step that changes it is the `CompleteLoad` of one pipeline, which moves it
forward: the refinement of `StateStore`. `TableIsBounded` counts: of the loads
`KeepIds` keeps for one pipeline the oldest has all the others after it, so there
are `max_state_files` at most (`KeptPerPipeline`), and over all pipelines the
product (`KeepIdsBounded`, by induction on their number). The induction principle
the library states takes a predicate as its parameter, which the installed provers
cannot instantiate; `LeastNumber`, a least member for every set of naturals, is
derived from its theorem on well-founded relations instead, and a least
counterexample does the rest.

**LoadPackage.** The three invariants hold because of where a package is, which
the inductive invariant spells out. `InHand`: a package in hand has no row in
`_dlt_loads`, its jobs are untouched until the storage is initialized, and every
file that is no longer a job has its row in its table. `RowsAreOld`: until the jobs
run all rows are of earlier packages, and only declared tables have rows.
`Reconciled`: what a call found missing it declares table by table, the tables it
calls new are empty, and what it has truncated is empty. `Seeding`: a declared
layout table without its layout is still on the list of the call that declared it,
or that call was interrupted, or it had no complete column to be seeded with. Only `EmptyTable` removes rows and only `RunJob` adds
any (`RowsChange`), and what is emptied held nothing or is replaced by the package
in hand (`EmptiedIsReplaced`); that package is newer than every completed one.

**MergeJob.** Two things are needed: what the functions of `merge.py` compute for
tables of any length, and what a job may leave behind.

For the first, `SelectUnfolds` and `MergeUnfolds` turn the recursive functions into
one equation per place (`Recursion` shows that a function with such equations exists,
by the least counterexample of `LeastNumber`), and what they compute follows place by
place: `SelectRows`, `SelectSame`, `SelectSelect` and `SelectConcat` for the filters,
`MergeResult` and `MergeKeepsOthers` for the loop. On them rest the facts about
whole combines. A table is `Sound` if its ids are distinct, no key but null
occurs twice when there is a primary key, and no row is flagged when there is a
hard-delete column; `CombineSound` and
`UpsertSound` keep that. `Hits` are the rows of one key, in order: a combine leaves
the keys the file does not have alone (`HitsCombine`, `HitsUpsert`); a table in which
a key has its first or its merged rows gets the merged ones, keyed (`CombineKeyed`)
and by insertion (`CombineInserts`). Without a primary key `merge_rows` matches rows
by id, so that a row that matches replaces itself and the others are added, as
insert-only does (`MergeById`, `CombineById`).

For the second, `MergeConverges` is not inductive: it says nothing before the end.
`KeysOK` does. Every key no other run has loaded is, at every moment and whichever
attempt was cut short where, in its first or in its merged state, or has the file's
rows once a replace took rows away unread; what was read for a
replace has the rows the table has, unless `unread` says that it was not read; between the two native loads all keys but the
deleted ones are merged, and at the end all are. The rest of the invariant is what
this stands on: ids number the rows of the table, the file and the other runs
(`SettingOK`), so that an id tells a row; table and read rows are `Sound`
(`TablesOK`); insert-only leaves the first rows where they were (`InsertOnlyOK`);
rows of other runs are accounted for (`OthersOK`). One lemma per action keeps it. For
an unread table, `CombineFirst` says that a combine with nothing makes the file's
rows, and `CombineRepeats` that a combine with the file's rows leaves them: hence a
retry after such a replace changes nothing. For
the refinement, `MergedStays` adds that a merged key stays merged whatever the job
does next, so that every step of an attempt is a `Merge` of the keys it changes, or
the `Overwrite` (`StepMerges`), a retry after success a `Repeat`, and another run's load a `Share`
(`OthersShare`).

The theorems share the limits of `Init`: files and tables without repeated keys, and
no null key in a native load.

**SourceRead.** `NeverShort` is not inductive: while a stream runs, the invariant
has to say that the rows delivered and the rows of the piece in hand add up to
those received (`Streamed`), that the expected count is the true one once it was
read (`Counted`), that a response's columns and count tell the truth about the
statement (`Answered`), and that nothing was handed over before the stream or the
end (`Untouched`). `Settled` says what the four outcomes then mean. Slicing is covered for every
batch size and every limit, negative ones included.

**DatabaseBinding.** None of the five properties is inductive. `Bound`: a pinned
run's cache holds the pinned database or none, never marked as created, which
keeps `Create` and `Reuse` out, so that every call goes through the
reconciliation; without an id what is cached was created. `Fresh`: databases yet
to be made are empty and answer to `default`. `Reconciled` follows a call table
by table, and `Named` ties the cached catalog to the cached record. Runs without
an id have no theorem about declared tables, because there the property fails
(section 4, item 3).

**InternalTables.** Each run has parts of its own (`Own`): a run that is under way
has a load id (`Numbered`); from the lookup on the internal tables are declared
(`Prepared`), from the jobs on its schema is stored (`SchemaStored`); a run about
to append saw no row of its hash among the first `basis` ones, unless its answer was
one of the `Misleading` two (`LookedUp`); and a failure that waits to be judged
was counted, or is that of a table without data (`Pending`). A step keeps the parts
of its own run (`OwnKept`) and, since the server's tables only grow, those of all
others (`OwnOfOthers`). That no failure reads as empty rests on the server's rule
that a table without data holds nothing to be found (`NothingStored`).

**SqlReads.** `Exclusive`: as long as no context opened inside another, at most one
consumer is in its context, the client is that context's, and no other is open.
`Named`: a name that is not the database's was built without a connection.
`Overrides`: only a configured database has a catalog of its own. With these each
exception is raised for one of its causes (`CausesKept`). `HandContinues` says what
a fetch appends.

**TableLayout.** The verdict of a load stands until the declaration or the table
changes (`VerdictsAreFresh`), and a layout created from the declaration at hand
always matches it (`CreationMatches`). That what `initialize_storage` gives it is also what the user wanted takes
the invariant `HintsOK`: the hints in the schema hold the keys the user wrote last,
entry by entry, because normalising an entry changes its form and never its key
(`Normalised`); an edited schema is itself what the user wrote (`EditSchemaOK`).
`FlaggedColumns` says what the walk over the columns collects, and `CreateOK` puts
the two together for the step of `initialize_storage` that creates the table.

**Model-checked only.** Liveness (`LoadStepsEnd`, `JobSettles`, `ReadEnds`,
`RunsSettle`) is out of the prover's reach. The refinements are proved for the steps,
without fairness: the abstract specifications have none. The library's induction
theorems take a predicate as their parameter, which the installed provers cannot
instantiate; wherever a proof needs induction it looks at the least counterexample
(`LeastNumber`) instead.

## 6. Not modelled, and what comes next

Left out for good: name normalisation, parquet and Arrow type conversion, the ibis
patch, the CLI, demos and scripts: they keep no state and meet no concurrency.

Left for later:

1. Which of several stored schemas `get_stored_schema` takes for the newest, when a
   schema returned to an earlier version (its row is the old one).
2. A composition of `DatabaseBinding` and `LoadPackage`: packages of a run that
   creates its database, over restarts.
3. Configuration precedence (`config.py`, `factory.py`) as functions checked
   against a reference definition.
4. `iter_arrow` and `iter_df`, which ignore the cursor's position, and
   `has_dataset`.
5. What a keyed merge makes of a file that repeats a key (the last row wins), which
   needs `MergeResult` for such files, and of a null key in a native load, which needs
   the server's word.
6. The fetch and replace of the other run as two steps of their own, so that two
   windows overlap.
