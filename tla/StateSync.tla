------------------------------ MODULE StateSync ------------------------------
(***************************************************************************)
(* The destination's bookkeeping of pipeline state: the two internal       *)
(* tables _dlt_pipeline_state and _dlt_loads, the restore query            *)
(* (get_stored_state), and complete_load with the trim that follows it     *)
(* (_prune_pipeline_state), which reads the table twice and then rewrites  *)
(* it.  Several pipelines share one dataset.  A pipeline process may crash *)
(* and resume its package, give a package up after its state row landed,   *)
(* or have a commit whose reply is lost.                                   *)
(* A restore that reads nothing where there is a row is InternalTables'    *)
(* matter; a trim whose reads find nothing ends as one that fails.         *)
(***************************************************************************)
EXTENDS Integers, FiniteSets

CONSTANTS Pipelines,      \* pipelines sharing the dataset
          MaxStateFiles,  \* configuration.max_state_files; below 1 trimming is off
          Overlap,        \* may two pipelines run at the same time?
          MayAbandon,     \* may a package be given up before complete_load?
          MaxLoads,       \* bound: load packages created
          MaxCopies       \* bound: times one state file is loaded

ASSUME ConfigAssumption ==
    /\ MaxStateFiles \in Nat
    /\ Overlap \in BOOLEAN
    /\ MayAbandon \in BOOLEAN

ASSUME BoundAssumption == MaxLoads \in Nat /\ MaxCopies \in Nat

VARIABLES stateRows,  \* rows of _dlt_pipeline_state
          loads,      \* load ids with a status-0 row in _dlt_loads
          clock,      \* the newest load id given out (ids are ordered by time)
          phase,      \* where each pipeline's process is in its package
          current,    \* the load id of the package in hand, 0 when idle
          tries,      \* times the package's state file was loaded
          index,      \* _prune_pipeline_state: the narrow first read
          kept        \* _prune_pipeline_state: the rows about to be written back

\* History, read by properties only.
VARIABLES landed,      \* every state row that was ever appended
          disturbed,   \* trims whose table someone else wrote since their first read
          overwritten  \* rows that such a trim's rewrite took out of the table

server == <<stateRows, loads>>
locals == <<phase, current, tries, index, kept>>
history == <<landed, disturbed, overwritten>>
vars   == <<server, clock, locals, history>>

LoadIds == Nat \ {0}

\* One physical row.  Its _dlt_id is a function of the package's file, so the
\* copies of one load's row share it; copy tells the physical rows apart.
Row == [pipe : Pipelines, load : LoadIds, copy : Nat]

Trimming  == {"index", "rows", "rewrite"}
Phase     == {"idle", "jobs", "complete", "done"} \union Trimming
-----------------------------------------------------------------------------
(* What the two reads of the trim compute.  (The definitions marked as     *)
(* mutants are plausible mistakes: they take the place of the definition   *)
(* that follows them to show that a property notices.)                     *)

Newer(tbl, r) == {s \in tbl : s.pipe = r.pipe /\ s.load > r.load}

\* Mutants: rows ranked over all pipelines; oldest first; one row too few.
KeepIdsFaultyUngrouped(tbl) ==
    {r.load : r \in {s \in tbl :
        Cardinality({x \in tbl : x.load > s.load}) < MaxStateFiles}}

KeepIdsFaultyOrder(tbl) ==
    {r.load : r \in {s \in tbl :
        Cardinality({x \in tbl : x.pipe = s.pipe /\ x.load < s.load}) < MaxStateFiles}}

KeepIdsFaultyOffByOne(tbl) ==
    {r.load : r \in {s \in tbl : Cardinality(Newer(tbl, s)) + 1 < MaxStateFiles}}

\* keep_ids: per pipeline the ids among the newest MaxStateFiles rows.
KeepIds(tbl) ==
    {r.load : r \in {s \in tbl : Cardinality(Newer(tbl, s)) < MaxStateFiles}}

KeptRows(ids, tbl) == {r \in tbl : r.load \in ids}

Dropped(tbl) == Cardinality(tbl) - Cardinality(KeepIds(tbl))

\* Mutant: the trim waits for one more row.
WorthTrimmingFaultyBoundary(tbl) ==
    /\ Cardinality(tbl) > MaxStateFiles
    /\ Dropped(tbl) > MaxStateFiles

WorthTrimming(tbl) ==
    /\ Cardinality(tbl) > MaxStateFiles
    /\ Dropped(tbl) >= MaxStateFiles

WorthRewriting(ids, tbl) ==
    /\ KeptRows(ids, tbl) # {}
    /\ KeptRows(ids, tbl) # tbl

(* get_stored_state: the newest state row whose load completed.  0: none.  *)
Usable(p) == {r \in stateRows : r.pipe = p /\ r.load \in loads}

GetStoredState(p) ==
    IF Usable(p) = {} THEN 0
    ELSE (CHOOSE r \in Usable(p) : \A s \in Usable(p) : s.load =< r.load).load
-----------------------------------------------------------------------------
Init ==
    /\ stateRows = {} /\ loads = {} /\ clock = 0
    /\ phase   = [p \in Pipelines |-> "idle"]
    /\ current = [p \in Pipelines |-> 0]
    /\ tries   = [p \in Pipelines |-> 0]
    /\ index   = [p \in Pipelines |-> {}]
    /\ kept    = [p \in Pipelines |-> {}]
    /\ landed = {} /\ disturbed = {} /\ overwritten = {}

\* p's process drops what the package held and goes to phase next.
Forget(p, next) ==
    /\ phase' = [phase EXCEPT ![p] = next]
    /\ index' = [index EXCEPT ![p] = {}]
    /\ kept'  = [kept EXCEPT ![p] = {}]

\* The trims a write of p's overtakes.
Overtaken(p) == {q \in Pipelines \ {p} : phase[q] \in {"rows", "rewrite"}}

\* Mutant: a package takes the id of the one before it.
StartLoadFaultyId(p) ==
    /\ phase[p] = "idle" /\ clock < MaxLoads
    /\ Overlap \/ \A q \in Pipelines : phase[q] = "idle"
    /\ clock' = clock + 1
    /\ current' = [current EXCEPT ![p] = clock]
    /\ tries' = [tries EXCEPT ![p] = 0]
    /\ \E next \in {"jobs", "complete"} : phase' = [phase EXCEPT ![p] = next]
    /\ UNCHANGED <<server, index, kept, history>>

\* dlt creates a package; it carries a state row only if the state changed.
StartLoad(p) ==
    /\ phase[p] = "idle" /\ clock < MaxLoads
    /\ Overlap \/ \A q \in Pipelines : phase[q] = "idle"
    /\ clock' = clock + 1
    /\ current' = [current EXCEPT ![p] = clock + 1]
    /\ tries' = [tries EXCEPT ![p] = 0]
    /\ \E next \in {"jobs", "complete"} : phase' = [phase EXCEPT ![p] = next]
    /\ UNCHANGED <<server, index, kept, history>>

\* The package's append job on _dlt_pipeline_state commits.  When its reply is
\* lost for good, or the process dies, dlt runs the job again with a new upload.
LandState(p) ==
    /\ phase[p] = "jobs" /\ tries[p] < MaxCopies
    /\ LET row == [pipe |-> p, load |-> current[p], copy |-> tries[p]]
       IN  /\ stateRows' = stateRows \union {row}
           /\ landed' = landed \union {row}
    /\ tries' = [tries EXCEPT ![p] = @ + 1]
    /\ \E next \in {"jobs", "complete"} : phase' = [phase EXCEPT ![p] = next]
    /\ disturbed' = disturbed \union Overtaken(p)
    /\ UNCHANGED <<loads, clock, current, index, kept, overwritten>>

\* complete_load, up to the call of the trim.  A lost reply raises the
\* transient error and dlt calls complete_load again.
CompleteLoad(p) ==
    /\ phase[p] = "complete"
    /\ loads' = loads \union {current[p]}
    /\ \E next \in {"complete", IF MaxStateFiles < 1 THEN "done" ELSE "index"} :
          phase' = [phase EXCEPT ![p] = next]
    /\ UNCHANGED <<stateRows, clock, current, tries, index, kept, history>>

\* The narrow read, and the decision it is for.
ReadIndex(p) ==
    /\ phase[p] = "index"
    /\ IF WorthTrimming(stateRows)
       THEN /\ index' = [index EXCEPT ![p] = stateRows]
            /\ phase' = [phase EXCEPT ![p] = "rows"]
            /\ UNCHANGED kept
       ELSE Forget(p, "done")
    /\ UNCHANGED <<server, clock, current, tries, history>>

\* The full read, filtered by the ids the first read chose.
ReadRows(p) ==
    /\ phase[p] = "rows"
    /\ IF WorthRewriting(KeepIds(index[p]), stateRows)
       THEN /\ kept' = [kept EXCEPT ![p] = KeptRows(KeepIds(index[p]), stateRows)]
            /\ phase' = [phase EXCEPT ![p] = "rewrite"]
            /\ UNCHANGED <<index, disturbed>>
       ELSE Forget(p, "done") /\ disturbed' = disturbed \ {p}
    /\ UNCHANGED <<server, clock, current, tries, landed, overwritten>>

\* The replace load.
Rewrite(p) ==
    /\ phase[p] = "rewrite"
    /\ stateRows' = kept[p]
    /\ Forget(p, "done")
    /\ overwritten' = IF p \in disturbed THEN overwritten \union (stateRows \ kept[p])
                                        ELSE overwritten
    /\ disturbed' = (disturbed \ {p}) \union Overtaken(p)
    /\ UNCHANGED <<loads, clock, current, tries, landed>>

\* A read or the rewrite fails: logged, and the load is complete all the same.
TrimFails(p) ==
    /\ phase[p] \in Trimming
    /\ Forget(p, "done")
    /\ disturbed' = disturbed \ {p}
    /\ UNCHANGED <<server, clock, current, tries, landed, overwritten>>

\* The process dies before dlt records locally that the package is loaded; the
\* package is resumed and complete_load called again.
Resume(p) ==
    /\ phase[p] \in Trimming \union {"done"}
    /\ Forget(p, "complete")
    /\ disturbed' = disturbed \ {p}
    /\ UNCHANGED <<server, clock, current, tries, landed, overwritten>>

\* dlt records locally that the package is loaded.
Commit(p) ==
    /\ phase[p] = "done"
    /\ Forget(p, "idle")
    /\ current' = [current EXCEPT ![p] = 0]
    /\ tries' = [tries EXCEPT ![p] = 0]
    /\ UNCHANGED <<server, clock, history>>

\* Another job of the package fails terminally, or the worker's directory is
\* lost with it: complete_load is never called (again) for this load id.
Abandon(p) ==
    /\ MayAbandon /\ phase[p] # "idle"
    /\ Forget(p, "idle")
    /\ current' = [current EXCEPT ![p] = 0]
    /\ tries' = [tries EXCEPT ![p] = 0]
    /\ disturbed' = disturbed \ {p}
    /\ UNCHANGED <<server, clock, landed, overwritten>>

Next == \E p \in Pipelines :
    \/ StartLoad(p) \/ LandState(p) \/ CompleteLoad(p)
    \/ ReadIndex(p) \/ ReadRows(p) \/ Rewrite(p) \/ TrimFails(p)
    \/ Resume(p) \/ Commit(p) \/ Abandon(p)

Spec == Init /\ [][Next]_vars
-----------------------------------------------------------------------------
(* Properties.                                                             *)

TypeOK ==
    /\ stateRows \subseteq landed /\ landed \subseteq Row
    /\ IsFiniteSet(landed)
    /\ loads \subseteq LoadIds /\ clock \in Nat
    /\ phase \in [Pipelines -> Phase]
    /\ current \in [Pipelines -> Nat]
    /\ tries \in [Pipelines -> Nat]
    /\ index \in [Pipelines -> SUBSET landed]
    /\ kept \in [Pipelines -> SUBSET landed]
    /\ disturbed \subseteq Pipelines /\ overwritten \subseteq landed
    /\ \A p \in Pipelines : phase[p] # "idle" => current[p] \in LoadIds

\* A trim that nobody wrote past loses a state row only when at least
\* max_state_files newer rows of the same pipeline outnumber it: the retention
\* _prune_pipeline_state's docstring states, whichever pipeline trims.
OnlyOutnumberedRowsAreTrimmed ==
    [][\A p \in Pipelines : Rewrite(p) /\ p \notin disturbed =>
          \A r \in stateRows : \/ r \in stateRows'
                              \/ Cardinality(Newer(stateRows, r)) >= MaxStateFiles]_vars

\* Over the whole life of the table, with runs that overlap and packages given up: a
\* state row is missing only once max_state_files newer ROWS of its pipeline have
\* landed -- unless an overtaken trim's rewrite took the row.  Rows, not loads: what
\* is counted is pipeline_rows[:keep], where the copies of a repeated state file
\* count one by one and completion counts for nothing.  It says that nothing else
\* is lost, and not that the row a restore needs is kept (a single failed load
\* whose file landed max_state_files times outnumbers it).
MissingOnlyIfOutnumbered ==
    \A r \in landed \ (stateRows \union overwritten) :
        Cardinality(Newer(landed, r)) >= MaxStateFiles

\* The loads of p that completed and carried a state row.
CompletedWithState(p) ==
    {r.load : r \in {s \in landed : s.pipe = p /\ s.load \in loads}}

\* Runs that neither overlap nor abandon a package: the restore query answers
\* with the newest completed state of the pipeline, never an older one.
RestoresNewestCompleted ==
    \A p \in Pipelines :
        \A l \in CompletedWithState(p) : l =< GetStoredState(p)

\* The trim keeps the table within its amortised bound when it is not disturbed
\* and does not fail: fewer than max_state_files rows' worth of slack.
RetentionBound ==
    [][\A p \in Pipelines :
          /\ ReadIndex(p) \/ ReadRows(p) \/ Rewrite(p)
          /\ p \notin disturbed /\ phase'[p] = "done"
          => Cardinality({r.load : r \in stateRows'})
                < MaxStateFiles * (Cardinality(Pipelines) + 1)]_vars

\* job_client.py:652: "so a pruned state row is never the one a concurrent
\* reader would have resolved to".
PrunedRowIsNeverTheOneRead ==
    [][\A p, q \in Pipelines : Rewrite(q) => GetStoredState(p)' = GetStoredState(p)]_vars

\* The restore query seen as the store a pipeline is promised.
Promised == INSTANCE StateStore
    WITH stored <- [p \in Pipelines |-> GetStoredState(p)]

\* Runs that neither overlap nor abandon a package implement StateStore: no
\* step of theirs moves any pipeline's stored state back, and none moves two.
ImplementsStateStore == Promised!Spec
=============================================================================
