--------------------------- MODULE InternalTables ---------------------------
(***************************************************************************)
(* Runs that share one database read and write its internal tables:        *)
(* _dlt_version, _dlt_pipeline_state and _dlt_loads.  A read is a query,   *)
(* and where the query fails a second look at the listing that decides     *)
(* whether the failure means "nothing stored yet" (_query_internal_rows).  *)
(* The state row's own rules are those of StateSync; the user's tables are *)
(* those of LoadPackage.                                                   *)
(***************************************************************************)
EXTENDS Integers, Sequences

CONSTANTS Runs,       \* working directories: each runs one load at a time
          Hashes,     \* schema version hashes
          MaxStarts,  \* bound: how often a process is started
          MaxFaults   \* bound: failures and crashes

ASSUME HashAssumption == Hashes # {}
ASSUME BoundAssumption == MaxStarts \in Nat /\ MaxFaults \in Nat

VARIABLES declared,    \* server: the internal tables that are declared
          versions,    \* server: the rows of _dlt_version in landing order
          states,      \* server: the loads with a row in _dlt_pipeline_state
          completions, \* server: the rows of _dlt_loads
          phase,       \* per run: the call it is in
          resume,      \* per run, on disk: where dlt takes the load up again
          load,        \* per run, on disk: the load's id
          hash,        \* per run, on disk: the hash of the extracted schema
          pending,     \* per run: the query's failure, before it is judged
          starts,      \* bounded: processes started
          faults,      \* bounded: failures and crashes
          answer,      \* history, per run: what its last read answered
          basis,       \* history, per run: how many version rows the lookup saw
          unloaded,    \* history, per run: the tables that made a query fail
          failures     \* history, per run: what failed since its start

server  == <<declared, versions, states, completions>>
onDisk  == <<resume, load, hash>>
history == <<answer, basis, unloaded, failures>>
vars    == <<server, phase, onDisk, pending, starts, faults, history>>

Internal == {"_dlt_loads", "_dlt_pipeline_state", "_dlt_version"}

\* What _reconcile_tables has declared when it fails: it goes by name.
Prefixes == {{}, {"_dlt_loads"}, {"_dlt_loads", "_dlt_pipeline_state"}, Internal}

Kind == {"transient", "terminal"}

\* What reaches the caller as no rows without an empty table behind it: a failure, for
\* its wording alone, and a response that names no result.
Misleading == {"misread", "resultless"}

Answers == {"rows", "nothing"} \union Misleading

\* A read's phase, with the tables it names.
TablesOf == [state  |-> {"_dlt_pipeline_state", "_dlt_loads"},
             schema |-> {"_dlt_version"},
             lookup |-> {"_dlt_version"}]

Reading(r) == phase[r] \in DOMAIN TablesOf

Init ==
    /\ declared = {} /\ versions = <<>> /\ states = {} /\ completions = {}
    /\ phase    = [r \in Runs |-> "idle"]
    /\ resume   = [r \in Runs |-> "state"]
    /\ load     = [r \in Runs |-> 0]
    /\ hash     = [r \in Runs |-> CHOOSE h \in Hashes : TRUE]
    /\ pending  = [r \in Runs |-> "none"]
    /\ starts = 0 /\ faults = 0
    /\ answer   = [r \in Runs |-> "rows"]
    /\ basis    = [r \in Runs |-> 0]
    /\ unloaded = [r \in Runs |-> {}]
    /\ failures = [r \in Runs |-> {}]

(* The server. *)

Holds(t) ==
    \/ t = "_dlt_version" /\ versions # <<>>
    \/ t = "_dlt_pipeline_state" /\ states # {}
    \/ t = "_dlt_loads" /\ completions # {}

\* Tables without data: declared and never loaded, or not declared at all.
Unsynced == {t \in Internal : ~Holds(t)}

\* Is there a row for the read r is in?
Stored(r) ==
    \/ phase[r] = "state" /\ \E l \in states : \E c \in completions : c.load = l
    \/ phase[r] = "schema" /\ versions # <<>>
    \/ phase[r] = "lookup" /\ \E i \in DOMAIN versions : versions[i].hash = hash[r]

(* A run. *)

\* A failure happens, within the bound.
Fault(r, kind) ==
    /\ faults < MaxFaults
    /\ faults' = faults + 1
    /\ failures' = [failures EXCEPT ![r] = @ \union {kind}]

\* The exception dlt sees: a transient one has the step tried again, any other
\* ends the process.
Surface(r, kind) ==
    /\ phase' = [phase EXCEPT ![r] = IF kind = "transient" THEN resume[r] ELSE "idle"]
    /\ pending' = [pending EXCEPT ![r] = "none"]
    /\ answer' = [answer EXCEPT ![r] = "rows"]
    /\ basis' = [basis EXCEPT ![r] = 0]
    /\ unloaded' = [unloaded EXCEPT ![r] = {}]

\* A process starts, with a new load or with the one it finds on disk.
Start(r) ==
    /\ phase[r] = "idle" /\ starts < MaxStarts
    /\ starts' = starts + 1
    /\ phase' = [phase EXCEPT ![r] = resume[r]]
    /\ load' = IF resume[r] = "state" THEN [load EXCEPT ![r] = starts + 1] ELSE load
    /\ failures' = [failures EXCEPT ![r] = {}]
    /\ UNCHANGED <<server, resume, hash, pending, faults, answer, basis, unloaded>>

\* Mutant: the schema is written without being looked up.
AfterFaultyAlways(read, nothing) ==
    [state |-> "schema", schema |-> "extract", lookup |-> "append"][read]

\* What follows a read.  _write_schema_to_storage writes only what is not there.
After(read, nothing) ==
    [state |-> "schema", schema |-> "extract", lookup |-> IF nothing THEN "append" ELSE "jobs"][read]

Answer(r, found) ==
    /\ phase' = [phase EXCEPT ![r] = After(phase[r], found # "rows")]
    /\ resume' = IF phase'[r] = "jobs" THEN [resume EXCEPT ![r] = "jobs"] ELSE resume
    /\ pending' = [pending EXCEPT ![r] = "none"]
    /\ answer' = [answer EXCEPT ![r] = found]
    /\ basis' = [basis EXCEPT ![r] = IF phase'[r] = "append" THEN Len(versions) ELSE 0]
    /\ unloaded' = [unloaded EXCEPT ![r] = {}]
    /\ UNCHANGED <<server, load, hash, starts>>

\* The query runs: every table it names holds data.
QueryAnswers(r) ==
    /\ Reading(r) /\ pending[r] = "none" /\ TablesOf[phase[r]] \intersect Unsynced = {}
    /\ Answer(r, IF Stored(r) THEN "rows" ELSE "nothing")
    /\ UNCHANGED <<faults, failures>>

\* ... and its response names no result: execute_sql makes an empty table of it.
QueryNamesNoResult(r) ==
    /\ Reading(r) /\ pending[r] = "none" /\ TablesOf[phase[r]] \intersect Unsynced = {}
    /\ faults < MaxFaults /\ faults' = faults + 1
    /\ Answer(r, "resultless")
    /\ UNCHANGED failures

\* A table is not declared: the message says so (_is_missing_storage).
TableIsMissing(r) ==
    /\ Reading(r) /\ pending[r] = "none" /\ ~(TablesOf[phase[r]] \subseteq declared)
    /\ Answer(r, "nothing")
    /\ UNCHANGED <<faults, failures>>

\* A table is declared but was never loaded: the server reports it in other words.
TableIsUnloaded(r) ==
    /\ Reading(r) /\ pending[r] = "none" /\ TablesOf[phase[r]] \subseteq declared
    /\ TablesOf[phase[r]] \intersect Unsynced # {}
    /\ pending' = [pending EXCEPT ![r] = "terminal"]
    /\ unloaded' = [unloaded EXCEPT ![r] = TablesOf[phase[r]] \intersect Unsynced]
    /\ UNCHANGED <<server, phase, onDisk, starts, faults, answer, basis, failures>>

\* The query fails for another reason.
QueryFails(r, kind) ==
    /\ Reading(r) /\ pending[r] = "none"
    /\ Fault(r, kind)
    /\ pending' = [pending EXCEPT ![r] = kind]
    /\ unloaded' = [unloaded EXCEPT ![r] = {}]
    /\ UNCHANGED <<server, phase, onDisk, starts, answer, basis>>

\* ... whose message, or that of one of its causes, happens to hold a marker.
QueryFailsAsIfMissing(r) ==
    /\ Reading(r) /\ pending[r] = "none"
    /\ Fault(r, "terminal")
    /\ Answer(r, "misread")

\* Mutant: a read is empty only if all its tables are without data.
AwaitingFirstLoadFaultyAll(tables) == tables \subseteq Unsynced

\* _awaiting_first_load: is one of the tables without data, or not listed?
AwaitingFirstLoad(tables) == tables \intersect Unsynced # {}

\* Mutant: a run waits for the first load of a table instead of reading it as empty.
JudgeFaultyWaits(r) ==
    /\ Reading(r) /\ pending[r] # "none"
    /\ IF AwaitingFirstLoad(TablesOf[phase[r]])
       THEN pending' = [pending EXCEPT ![r] = "none"] /\ UNCHANGED <<phase, answer, basis, unloaded>>
       ELSE Surface(r, pending[r])
    /\ UNCHANGED <<server, onDisk, starts, faults, failures>>

\* The failed query is judged by the listing of the tables.
Judge(r) ==
    /\ Reading(r) /\ pending[r] # "none"
    /\ IF AwaitingFirstLoad(TablesOf[phase[r]])
       THEN Answer(r, "nothing")
       ELSE Surface(r, pending[r]) /\ UNCHANGED <<server, onDisk, starts>>
    /\ UNCHANGED <<faults, failures>>

\* Mutant: when the listing fails too the table is taken to be empty.
ListingFailsFaultyEmpty(r) ==
    /\ Reading(r) /\ pending[r] # "none"
    /\ Fault(r, "listing")
    /\ Answer(r, "nothing")

\* The listing fails: the query's own failure is raised.
ListingFails(r) ==
    /\ Reading(r) /\ pending[r] # "none"
    /\ Fault(r, "listing")
    /\ Surface(r, pending[r])
    /\ UNCHANGED <<server, onDisk, starts>>

\* dlt extracts and normalizes a package.
Extract(r) ==
    /\ phase[r] = "extract"
    /\ \E h \in Hashes : hash' = [hash EXCEPT ![r] = h]
    /\ phase' = [phase EXCEPT ![r] = "init"]
    /\ resume' = [resume EXCEPT ![r] = "init"]
    /\ answer' = [answer EXCEPT ![r] = "rows"]
    /\ UNCHANGED <<server, load, pending, starts, faults, basis, unloaded, failures>>

\* Mutant: only the user's tables are declared.
InitializeFaultyUserOnly(r) ==
    /\ phase[r] = "init"
    /\ phase' = [phase EXCEPT ![r] = "lookup"]
    /\ UNCHANGED <<server, onDisk, pending, starts, faults, history>>

\* initialize_storage, as far as the internal tables go.
Initialize(r) ==
    /\ phase[r] = "init"
    /\ declared' = Internal
    /\ phase' = [phase EXCEPT ![r] = "lookup"]
    /\ UNCHANGED <<versions, states, completions, onDisk, pending, starts, faults, history>>

\* It fails with some of the tables declared.  Only HotdataTerminalError is given
\* a dlt exception here: a transient failure ends the process as well.
InitializeFails(r, kind) ==
    /\ phase[r] = "init"
    /\ Fault(r, kind)
    /\ \E some \in Prefixes : declared' = declared \union some
    /\ Surface(r, "terminal")
    /\ UNCHANGED <<versions, states, completions, onDisk, starts>>

\* _write_schema_to_storage appends the row it did not find.
VersionRow(r) == [hash |-> hash[r], basis |-> basis[r], misled |-> answer[r] \in Misleading]

AppendVersion(r) ==
    /\ phase[r] = "append"
    /\ versions' = Append(versions, VersionRow(r))
    /\ phase' = [phase EXCEPT ![r] = "jobs"]
    /\ resume' = [resume EXCEPT ![r] = "jobs"]
    /\ UNCHANGED <<declared, states, completions, load, hash, pending, starts, faults, history>>

\* Mutant: the failure to write is dropped.
AppendFailsFaultyDropped(r, kind) ==
    /\ phase[r] = "append"
    /\ Fault(r, kind)
    /\ phase' = [phase EXCEPT ![r] = "jobs"]
    /\ resume' = [resume EXCEPT ![r] = "jobs"]
    /\ UNCHANGED <<server, load, hash, pending, starts, answer, basis, unloaded>>

\* The append fails, or its reply is lost.
AppendFails(r, kind) ==
    /\ phase[r] = "append"
    /\ Fault(r, kind)
    /\ \/ versions' = versions
       \/ kind = "transient" /\ versions' = Append(versions, VersionRow(r))
    /\ Surface(r, kind)
    /\ UNCHANGED <<declared, states, completions, onDisk, starts>>

\* The package's jobs load its rows, a state row among them if the state changed.
RunJobs(r) ==
    /\ phase[r] = "jobs"
    /\ states' \in {states, states \union {load[r]}}
    /\ phase' = [phase EXCEPT ![r] = "complete"]
    /\ resume' = [resume EXCEPT ![r] = "complete"]
    /\ answer' = [answer EXCEPT ![r] = "rows"]
    /\ basis' = [basis EXCEPT ![r] = 0]
    /\ UNCHANGED <<declared, versions, completions, load, hash, pending, starts, faults, unloaded, failures>>

Completion(r) == [load |-> load[r], hash |-> hash[r]]

\* complete_load.
CompleteLoad(r) ==
    /\ phase[r] = "complete"
    /\ completions' = completions \union {Completion(r)}
    /\ phase' = [phase EXCEPT ![r] = "idle"]
    /\ resume' = [resume EXCEPT ![r] = "state"]
    /\ failures' = [failures EXCEPT ![r] = {}]
    /\ UNCHANGED <<declared, versions, states, load, hash, pending, starts, faults, answer, basis, unloaded>>

CompleteFails(r, kind) ==
    /\ phase[r] = "complete"
    /\ Fault(r, kind)
    /\ \/ completions' = completions
       \/ kind = "transient" /\ completions' = completions \union {Completion(r)}
    /\ Surface(r, kind)
    /\ UNCHANGED <<declared, versions, states, onDisk, starts>>

\* The process dies.
Crash(r) ==
    /\ phase[r] # "idle"
    /\ Fault(r, "crash")
    /\ Surface(r, "terminal")
    /\ UNCHANGED <<server, onDisk, starts>>

Step(r) ==
    \/ QueryAnswers(r) \/ TableIsMissing(r) \/ TableIsUnloaded(r) \/ Judge(r)
    \/ Extract(r) \/ Initialize(r) \/ AppendVersion(r) \/ RunJobs(r) \/ CompleteLoad(r)

Failure(r) ==
    \/ QueryNamesNoResult(r) \/ QueryFailsAsIfMissing(r) \/ ListingFails(r) \/ Crash(r)
    \/ \E kind \in Kind :
          QueryFails(r, kind) \/ InitializeFails(r, kind) \/ AppendFails(r, kind) \/ CompleteFails(r, kind)

Next == \E r \in Runs : Start(r) \/ Step(r) \/ Failure(r)

Spec == Init /\ [][Next]_vars /\ \A r \in Runs : WF_vars(Step(r))
-----------------------------------------------------------------------------
(* Properties.                                                             *)

TypeOK ==
    /\ declared \subseteq Internal
    /\ versions \in Seq([hash : Hashes, basis : Nat, misled : BOOLEAN])
    /\ states \subseteq 1..starts
    /\ completions \subseteq [load : 1..starts, hash : Hashes]
    /\ phase \in [Runs -> {"idle", "state", "schema", "extract", "init", "lookup",
                           "append", "jobs", "complete"}]
    /\ resume \in [Runs -> {"state", "init", "jobs", "complete"}]
    /\ load \in [Runs -> 0..starts] /\ hash \in [Runs -> Hashes]
    /\ pending \in [Runs -> Kind \union {"none"}]
    /\ starts \in 0..MaxStarts /\ faults \in 0..MaxFaults
    /\ answer \in [Runs -> Answers]
    /\ basis \in [Runs -> 0..Len(versions)]
    /\ unloaded \in [Runs -> SUBSET Internal]
    /\ failures \in [Runs -> SUBSET (Kind \union {"listing", "crash"})]
    /\ \A t \in Internal : Holds(t) => t \in declared

\* job_client.py:799: one row per distinct schema.  A second row of a hash is the
\* work of a run whose lookup was answered before the first row landed, or was misled
\* in one of the two ways FailuresSurface and ResultsAreRead name: no other failure,
\* no retry, lost reply or resumed load writes one.
RepeatedVersionsOverlap ==
    \A j \in DOMAIN versions : \A i \in 1..j - 1 :
        versions[i].hash = versions[j].hash =>
            versions[j].basis < i \/ versions[j].misled

\* A load that counts as complete names a schema that is stored.
CompletedLoadsNameStoredSchemas ==
    \A c \in completions : \E i \in DOMAIN versions : versions[i].hash = c.hash

\* A read in which r finds no row, by one of the answers of that meaning.
FindsNothing(r, found) == Reading(r) /\ answer'[r] = found /\ phase'[r] # phase[r]

\* job_client.py:749: "nothing stored" is told apart from a failure.  Where a message
\* that names a missing table comes from a missing table, and a query that ran named
\* its result, a read finds nothing only when nothing is stored, whatever failed
\* (the query or the listing after it) and whoever else loaded meanwhile.
NothingStoredIsTrue == [][\A r \in Runs : FindsNothing(r, "nothing") => ~Stored(r)]_vars

\* job_client.py:168: every other failure must surface.  (It does not: the words of
\* UNDEFINED_RELATION_MARKERS are looked for in any message and in its causes'.)
FailuresSurface == [][\A r \in Runs : FindsNothing(r, "misread") => ~Stored(r)]_vars

\* job_client.py:749: and so must an answer that was not read.  (It does not:
\* execute_sql has an empty table for a response without a result id.)
ResultsAreRead == [][\A r \in Runs : FindsNothing(r, "resultless") => ~Stored(r)]_vars

\* job_client.py:771: dlt carries on after a transient failure.  A process ends
\* early only for a terminal failure, a crash, a failing initialize_storage, or
\* because a query found a table without data and then the listing failed or the
\* table had just been loaded by another run.
ProcessesEndForCause ==
    [][\A r \in Runs :
          phase[r] \notin {"idle", "complete"} /\ phase'[r] = "idle" =>
              \/ {"terminal", "crash"} \intersect failures'[r] # {}
              \/ phase[r] = "init" /\ failures'[r] # {}
              \/ /\ unloaded[r] # {}
                 /\ "listing" \in failures'[r] \/ unloaded[r] \intersect Unsynced = {}]_vars

\* Every process comes to an end, once failures stop: no read waits for data that
\* only the waiting run would load.
RunsSettle == \A r \in Runs : <>[](phase[r] = "idle")
=============================================================================
