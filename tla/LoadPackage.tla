----------------------------- MODULE LoadPackage -----------------------------
(***************************************************************************)
(* One pipeline loading packages into one pinned instant database:         *)
(* initialize_storage (called bare and, when the package replaces tables,  *)
(* again with truncate_tables), the load jobs, and complete_load.  Any     *)
(* call may fail or the process die between two requests; a later process  *)
(* may then take the package up again from what dlt recorded on disk.      *)
(***************************************************************************)
EXTENDS Integers, FiniteSets

CONSTANTS Tables,       \* user tables
          Layout,       \* those that declare a partition or sort layout
          Replace,      \* those whose write disposition is replace (the rest append)
          Files,        \* a table's rows may be split over several parquet files
          MaxPackages,  \* bound: packages
          MaxFaults     \* bound: interrupted calls and lost replies

ASSUME TablesAssumption == Layout \subseteq Tables /\ Replace \subseteq Tables
ASSUME BoundAssumption == MaxPackages \in Nat /\ MaxFaults \in Nat

VARIABLES declared,     \* server: tables the database has
          established,  \* server: layout tables whose first load was a replace
          rows,         \* server: contents of each table
          completed,    \* server: packages with a row in _dlt_loads
          package,      \* the package in hand (packages are numbered)
          jobsOf,       \* dlt: the files of each package
          jobs,         \* dlt: those of the package in hand not yet loaded
          schema,       \* tables in the dlt schema, with data or without; it only grows
          complete,     \* those with a complete column (one that has a data type)
          phase,        \* where the load step is
          truncating,   \* is this the call with truncate_tables?
          newly,        \* HotdataClient.newly_declared
          todo,         \* what the current loop has left
          faults        \* bounded: faults so far

\* History, read by properties only.
VARIABLES refused,      \* tables a load was refused for
          orphaned,     \* layout tables declared by a call cut short before their seed
          columnless    \* layout tables declared before they had a complete column

server  == <<declared, established, rows, completed>>
onDisk  == <<package, jobsOf, jobs, schema, complete>>
call    == <<truncating, newly, todo>>
history == <<refused, orphaned, columnless>>
vars    == <<server, onDisk, phase, call, faults, history>>

Job == Tables \X Files
JobTables(js) == {j[1] : j \in js}

\* A row stands for what one upload of a file put into the table.
Row == [package : Nat, file : Files, upload : Nat]

Initializing == {"list", "declare", "empty", "version"}
BeforeJobs   == {"stopped"} \union Initializing  \* the storage is not initialized yet
Running      == {"jobs"} \union Initializing     \* a process has the package in hand
Phase        == {"idle", "jobs", "paused"} \union BeforeJobs

\* dlt's truncate_tables: the replace tables that have jobs in this package.
TruncateTables == Replace \intersect JobTables(jobsOf[package])

\* The first load into a table with a layout must be a replace.
MayAppend(t) == t \in Layout => t \in established
-----------------------------------------------------------------------------
Init ==
    /\ declared = {} /\ established = {} /\ completed = {}
    /\ rows = [t \in Tables |-> {}]
    /\ package = 0 /\ jobs = {} /\ schema = {} /\ complete = {}
    /\ jobsOf = [k \in 1..MaxPackages |-> {}]
    /\ phase = "idle" /\ truncating = FALSE /\ newly = {} /\ todo = {}
    /\ faults = 0 /\ refused = {} /\ orphaned = {} /\ columnless = {}

\* dlt extracts and normalizes a package and starts the load step.  Its schema also
\* gains the tables of resources that yielded nothing, whose columns are complete only
\* if the resource says so; a table with data has complete columns.
StartPackage ==
    /\ phase = "idle" /\ package < MaxPackages
    /\ package' = package + 1
    /\ \E js \in SUBSET Job \ {{}}, dry \in SUBSET Tables :
          /\ jobs' = js
          /\ jobsOf' = [jobsOf EXCEPT ![package + 1] = js]
          /\ schema' = schema \union JobTables(js) \union dry
          /\ \E typed \in SUBSET dry : complete' = complete \union JobTables(js) \union typed
    /\ phase' = "list"
    /\ UNCHANGED <<server, call, faults, history>>

\* ensure_managed_database binds the database and lists what it has.
ListTables ==
    /\ phase = "list"
    /\ newly' = schema \ declared
    /\ todo' = newly'
    /\ phase' = "declare"
    /\ UNCHANGED <<server, onDisk, truncating, faults, history>>

\* Mutant: a table that could not be added counts as added.
DeclareTableFaultySwallowed ==
    /\ phase = "declare"
    /\ \E t \in todo :
          /\ declared' \in {declared, declared \union {t}}
          /\ todo' = todo \ {t}
    /\ UNCHANGED <<established, rows, completed, onDisk, phase, truncating, newly,
                   faults, history>>

\* _reconcile_tables adds the missing tables, each with its layout.
DeclareTable ==
    /\ phase = "declare"
    /\ \E t \in todo :
          /\ declared' = declared \union {t}
          /\ todo' = todo \ {t}
    /\ UNCHANGED <<established, rows, completed, onDisk, phase, truncating, newly,
                   faults, history>>

\* Which tables initialize_storage is to empty by a zero-row replace load: the ones it
\* was asked to truncate and, as a seed, the new ones that declare a layout.
Truncated == IF truncating THEN TruncateTables ELSE {}

\* Mutants: no table is seeded; every layout table is, new or not.
SeededFaultyNone == {}
SeededFaultyAll  == (schema \ Truncated) \intersect Layout

Seeded == (newly \ Truncated) \intersect Layout

\* Without a complete column there is nothing to write a zero-row file of: such a
\* table is passed over, a new one too.
TablesDeclared ==
    /\ phase = "declare" /\ todo = {}
    /\ todo' = (Truncated \union Seeded) \intersect complete
    /\ columnless' = columnless \union (Seeded \ complete)
    /\ phase' = "empty"
    /\ UNCHANGED <<server, onDisk, truncating, newly, faults, refused, orphaned>>

\* _truncate_table.
EmptyTable(t) ==
    /\ phase = "empty" /\ t \in todo
    /\ rows' = [rows EXCEPT ![t] = {}]
    /\ established' = established \union ({t} \intersect Layout)
    /\ todo' = todo \ {t}
    /\ UNCHANGED <<declared, completed, onDisk, phase, truncating, newly, faults, history>>

\* The bare call is followed by update_stored_schema, the other by the jobs.
StorageInitialized ==
    /\ phase = "empty" /\ todo = {}
    /\ phase' = IF truncating THEN "jobs" ELSE "version"
    /\ newly' = {}
    /\ UNCHANGED <<server, onDisk, truncating, todo, faults, history>>

\* Mutants: the replace tables are not emptied; the storage is initialized again
\* for ever.
UpdateStoredSchemaFaultyNoTruncate ==
    /\ phase = "version"
    /\ phase' = "jobs"
    /\ UNCHANGED <<server, onDisk, call, faults, history>>

UpdateStoredSchemaFaultyLoop ==
    /\ phase = "version"
    /\ phase' = "list"
    /\ UNCHANGED <<server, onDisk, call, faults, history>>

\* update_stored_schema; then initialize_storage again if anything is truncated.
UpdateStoredSchema ==
    /\ phase = "version"
    /\ truncating' = (TruncateTables # {})
    /\ phase' = IF TruncateTables # {} THEN "list" ELSE "jobs"
    /\ UNCHANGED <<server, onDisk, newly, todo, faults, history>>

\* A request fails for good, or the process dies: the load step ends with the package
\* in hand.
Interrupt ==
    /\ phase \in Running /\ faults < MaxFaults
    /\ faults' = faults + 1
    /\ phase' = IF phase = "jobs" THEN "paused" ELSE "stopped"
    /\ truncating' = FALSE /\ newly' = {} /\ todo' = {}
    /\ orphaned' = orphaned \union (((newly \intersect declared) \intersect Layout) \ established)
    /\ UNCHANGED <<server, onDisk, refused, columnless>>

\* Another run of the pipeline takes the package up.  Unless the jobs had begun, dlt has
\* not recorded the schema update as applied and the storage is initialized again.
Resume ==
    /\ phase \in {"stopped", "paused"}
    /\ phase' = IF phase = "paused" THEN "jobs" ELSE "list"
    /\ UNCHANGED <<server, onDisk, call, faults, history>>

\* Mutant: a file of a replace table is loaded with mode="replace".
RunJobFaultyReplace(j) ==
    /\ phase = "jobs" /\ j \in jobs /\ MayAppend(j[1])
    /\ jobs' = jobs \ {j}
    /\ rows' = [rows EXCEPT ![j[1]] =
                   {[package |-> package, file |-> j[2], upload |-> faults]}]
    /\ UNCHANGED <<declared, established, completed, package, jobsOf, schema, complete,
                   phase, call, faults, history>>

\* (The job's own ensure_managed_database finds every table declared by then.)
\* HotdataLoadJob.run on an append or replace table: one load with mode="append".
\* If the reply is lost for good dlt runs the job again, under a new upload id.
RunJob(j) ==
    /\ phase = "jobs" /\ j \in jobs /\ MayAppend(j[1])
    /\ \E lost \in BOOLEAN :
          /\ lost => faults < MaxFaults
          /\ faults' = IF lost THEN faults + 1 ELSE faults
          /\ jobs' = IF lost THEN jobs ELSE jobs \ {j}
    /\ rows' = [rows EXCEPT ![j[1]] =
                   @ \union {[package |-> package, file |-> j[2], upload |-> faults]}]
    /\ UNCHANGED <<declared, established, completed, package, jobsOf, schema, complete,
                   phase, call, history>>

\* The server refuses the load; the terminal error aborts the package.
RefuseJob(j) ==
    /\ phase = "jobs" /\ j \in jobs /\ ~MayAppend(j[1])
    /\ refused' = refused \union {j[1]}
    /\ jobs' = {} /\ phase' = "idle" /\ truncating' = FALSE
    /\ UNCHANGED <<server, package, jobsOf, schema, complete, newly, todo, faults,
                   orphaned, columnless>>

\* A job fails terminally for a reason of its own, or the workspace is lost: the
\* package is given up with what it has loaded so far left in the tables.
GiveUp ==
    /\ phase \in {"jobs", "stopped", "paused"} /\ faults < MaxFaults
    /\ faults' = faults + 1
    /\ jobs' = {} /\ phase' = "idle" /\ truncating' = FALSE
    /\ UNCHANGED <<server, package, jobsOf, schema, complete, newly, todo, history>>

\* All jobs are done: complete_load appends the package's row to _dlt_loads.
CompleteLoad ==
    /\ phase = "jobs" /\ jobs = {}
    /\ completed' = completed \union {package}
    /\ phase' = "idle" /\ truncating' = FALSE
    /\ UNCHANGED <<declared, established, rows, onDisk, newly, todo, faults, history>>

Step ==
    \/ ListTables \/ DeclareTable \/ TablesDeclared
    \/ \E t \in Tables : EmptyTable(t)
    \/ StorageInitialized \/ UpdateStoredSchema
    \/ \E j \in Job : RunJob(j) \/ RefuseJob(j)
    \/ CompleteLoad

Next == StartPackage \/ Step \/ Interrupt \/ Resume \/ GiveUp

Spec == Init /\ [][Next]_vars /\ WF_vars(Step)
-----------------------------------------------------------------------------
(* Properties.                                                             *)

TypeOK ==
    /\ declared \subseteq Tables /\ established \subseteq declared \intersect Layout
    /\ rows \in [Tables -> SUBSET Row] /\ completed \subseteq 1..package
    /\ package \in 0..MaxPackages
    /\ jobsOf \in [1..MaxPackages -> SUBSET Job] /\ jobs \subseteq Job
    /\ schema \subseteq Tables /\ complete \subseteq schema /\ phase \in Phase
    /\ truncating \in BOOLEAN /\ newly \subseteq Tables /\ todo \subseteq Tables
    /\ faults \in 0..MaxFaults
    /\ refused \subseteq Tables /\ orphaned \subseteq Tables /\ columnless \subseteq Tables

\* Every file of a completed package is in its table, until a later package
\* replaces the table: no interruption, repeated call or sibling file loses it.
CompletedPackagesAreWhole ==
    \A k \in completed : \A j \in jobsOf[k] :
        \/ \E r \in rows[j[1]] : r.package = k /\ r.file = j[2]
        \/ j[1] \in Replace /\ \E l \in k + 1..package : j[1] \in JobTables(jobsOf[l])

\* Once a package's jobs run, a table it replaces holds nothing older, whatever process
\* runs them.
ReplacedTablesHoldOneLoad ==
    phase \in {"jobs", "paused"} =>
        \A t \in TruncateTables : \A r \in rows[t] : r.package = package

\* Rows leave a table only when a later package replaces it: neither the seed of
\* new tables nor a repeated initialize_storage erases what was loaded.
OnlyALaterReplaceErases ==
    [][\A t \in Tables : \A r \in rows[t] \ rows'[t] :
          t \in TruncateTables /\ r.package < package]_vars

\* There are two ways to a table that refuses its loads for want of a layout, and no
\* third: the initialize_storage that declared it was cut short before seeding it, or
\* it was declared when it had no complete column and so was never to be seeded.
RefusedOnlyIfUnseeded == refused \subseteq orphaned \union columnless

\* A process that is not interrupted comes to the end of its package, completed or given
\* up: no call of the load step waits for another or is made for ever.  (That another
\* process takes an interrupted package up is for the user to do.)
LoadStepsEnd == phase \in Running ~> phase \notin Running

\* README.md:307: "A layout-declaring table's first load is a replace, seeded
\* automatically when the table is created": no load is refused for want of it.
LayoutTablesAreSeeded == refused = {}
=============================================================================
