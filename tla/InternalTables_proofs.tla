------------------------ MODULE InternalTables_proofs ------------------------
(***************************************************************************)
(* Theorems about InternalTables, for any number of runs, schema versions, *)
(* processes and failures.                                                 *)
(***************************************************************************)
EXTENDS InternalTables, SequenceTheorems, TLAPS

\* A run that has left the idle phase, or a load that waits on disk, has an id.
Numbered == \A r \in Runs : phase[r] # "idle" \/ resume[r] # "state" => load[r] # 0

\* From the lookup on the internal tables are declared.
Prepared ==
    \A r \in Runs :
        phase[r] \in {"lookup", "append", "jobs", "complete"} \/ resume[r] \in {"jobs", "complete"} =>
            declared = Internal

\* Is there a row for hash h?
HasVersion(h) == \E i \in DOMAIN versions : versions[i].hash = h

\* From the jobs on the schema of the load is stored.
SchemaStored ==
    \A r \in Runs :
        phase[r] \in {"jobs", "complete"} \/ resume[r] \in {"jobs", "complete"} => HasVersion(hash[r])

\* A run about to append saw no row of its hash, unless it was misled.
LookedUp ==
    \A r \in Runs :
        phase[r] = "append" /\ answer[r] \notin Misleading =>
            \A i \in 1..basis[r] : versions[i].hash # hash[r]

\* A failure waits to be judged only in a read, and was either counted or is a
\* table without data.
Pending ==
    \A r \in Runs :
        pending[r] # "none" =>
            /\ Reading(r)
            /\ \/ pending[r] \in failures[r]
               \/ unloaded[r] # {} /\ unloaded[r] \subseteq TablesOf[phase[r]]

Parts == Numbered /\ Prepared /\ SchemaStored /\ LookedUp /\ Pending

IInv == TypeOK /\ Parts /\ RepeatedVersionsOverlap /\ CompletedLoadsNameStoredSchemas

Version == [hash : Hashes, basis : Nat, misled : BOOLEAN]

LEMMA Phases ==
    /\ DOMAIN TablesOf = {"state", "schema", "lookup"}
    /\ TablesOf["state"] = {"_dlt_pipeline_state", "_dlt_loads"}
    /\ TablesOf["schema"] = {"_dlt_version"}
    /\ TablesOf["lookup"] = {"_dlt_version"}
    /\ \A nothing : After("state", nothing) = "schema" /\ After("schema", nothing) = "extract"
    /\ After("lookup", TRUE) = "append" /\ After("lookup", FALSE) = "jobs"
  BY DEF TablesOf, After

\* Nothing is stored where a table is not declared or holds no data.
LEMMA NothingStored ==
    ASSUME TypeOK, NEW r \in Runs, Reading(r),
           ~(TablesOf[phase[r]] \subseteq declared) \/ TablesOf[phase[r]] \intersect Unsynced # {}
    PROVE  ~Stored(r)
<1>1. PICK t \in TablesOf[phase[r]] : ~Holds(t)
  BY Phases DEF Reading, Unsynced, TypeOK, Internal
<1> QED
  BY <1>1, Phases DEF Reading, Stored, Holds

\* What an answered read changes.
LEMMA Answered ==
    ASSUME TypeOK, NEW r \in Runs, NEW found \in Answers, Reading(r), Answer(r, found)
    PROVE  /\ phase'[r] \in {"schema", "extract", "append", "jobs"}
           /\ phase'[r] = "append" => phase[r] = "lookup" /\ found # "rows" /\ basis'[r] = Len(versions)
           /\ phase'[r] = "jobs" => phase[r] = "lookup" /\ found = "rows"
           /\ resume'[r] = IF phase'[r] = "jobs" THEN "jobs" ELSE resume[r]
           /\ answer'[r] = found /\ pending'[r] = "none"
           /\ UNCHANGED <<server, load, hash, starts>>
           /\ \A q \in Runs \ {r} :
                 UNCHANGED <<phase[q], resume[q], answer[q], pending[q], basis[q], unloaded[q]>>
           /\ basis'[r] \in 0..Len(versions)
<1>1. phase[r] \in {"state", "schema", "lookup"}
  BY Phases DEF Reading
<1>2. phase'[r] = After(phase[r], found # "rows")
  BY DEF Answer, TypeOK
<1>3. /\ phase'[r] \in {"schema", "extract", "append", "jobs"}
      /\ phase'[r] = "append" => phase[r] = "lookup" /\ found # "rows"
      /\ phase'[r] = "jobs" => phase[r] = "lookup" /\ found = "rows"
  BY <1>1, <1>2 DEF After
<1>4. Len(versions) \in Nat
  BY DEF TypeOK
<1> QED
  BY <1>3, <1>4 DEF Answer, TypeOK

\* A step of r leaves the other runs alone.
Others(r) ==
    \A q \in Runs \ {r} :
        UNCHANGED <<phase[q], resume[q], load[q], hash[q], pending[q], answer[q], basis[q],
                    unloaded[q], failures[q]>>

LEMMA StepsAreOfOneRun ==
    ASSUME TypeOK, NEW r \in Runs, Start(r) \/ Step(r) \/ Failure(r)
    PROVE  Others(r)
<1> USE DEF TypeOK, Others, server, onDisk, history, Surface, Fault
<1>1. CASE Start(r) BY <1>1 DEF Start
<1>2. CASE QueryAnswers(r) BY <1>2 DEF QueryAnswers, Answer
<1>3. CASE TableIsMissing(r) BY <1>3 DEF TableIsMissing, Answer
<1>4. CASE TableIsUnloaded(r) BY <1>4 DEF TableIsUnloaded
<1>5. CASE Judge(r) BY <1>5 DEF Judge, Answer
<1>6. CASE Extract(r) BY <1>6 DEF Extract
<1>7. CASE Initialize(r) BY <1>7 DEF Initialize
<1>8. CASE AppendVersion(r) BY <1>8 DEF AppendVersion
<1>9. CASE RunJobs(r) BY <1>9 DEF RunJobs
<1>10. CASE CompleteLoad(r) BY <1>10 DEF CompleteLoad
<1>11. CASE QueryNamesNoResult(r) \/ QueryFailsAsIfMissing(r)
  BY <1>11 DEF QueryNamesNoResult, QueryFailsAsIfMissing, Answer
<1>12. CASE ListingFails(r) BY <1>12 DEF ListingFails
<1>13. CASE Crash(r) BY <1>13 DEF Crash
<1>14. ASSUME NEW kind \in Kind, QueryFails(r, kind) PROVE Others(r) BY <1>14 DEF QueryFails
<1>15. ASSUME NEW kind \in Kind, InitializeFails(r, kind) PROVE Others(r) BY <1>15 DEF InitializeFails
<1>16. ASSUME NEW kind \in Kind, AppendFails(r, kind) PROVE Others(r) BY <1>16 DEF AppendFails
<1>17. ASSUME NEW kind \in Kind, CompleteFails(r, kind) PROVE Others(r) BY <1>17 DEF CompleteFails
<1> QED
  BY <1>1, <1>2, <1>3, <1>4, <1>5, <1>6, <1>7, <1>8, <1>9, <1>10, <1>11, <1>12, <1>13, <1>14,
     <1>15, <1>16, <1>17 DEF Step, Failure

\* What one step does to the server's tables.
LEMMA ServerGrows ==
    ASSUME IInv, NEW r \in Runs, Start(r) \/ Step(r) \/ Failure(r)
    PROVE  /\ declared \subseteq declared' /\ declared' \subseteq Internal
           /\ \/ versions' = versions
              \/ versions' = Append(versions, VersionRow(r)) /\ phase[r] = "append"
           /\ states' \in {states, states \union {load[r]}}
           /\ states' # states => phase[r] = "jobs"
           /\ completions' \in {completions, completions \union {Completion(r)}}
           /\ completions' # completions => phase[r] = "complete"
           /\ starts' \in {starts, starts + 1} /\ starts' <= MaxStarts
           /\ faults' \in {faults, faults + 1} /\ faults' <= MaxFaults
<1> USE DEF server, onDisk, history, Surface, Fault
<1>0. /\ declared \subseteq Internal /\ starts \in 0..MaxStarts /\ faults \in 0..MaxFaults
      /\ MaxStarts \in Nat /\ MaxFaults \in Nat
  BY BoundAssumption DEF IInv, TypeOK
<1>1. CASE Start(r) BY <1>0, <1>1 DEF Start
<1>2. CASE QueryAnswers(r) BY <1>0, <1>2 DEF QueryAnswers, Answer
<1>3. CASE TableIsMissing(r) BY <1>0, <1>3 DEF TableIsMissing, Answer
<1>4. CASE TableIsUnloaded(r) BY <1>0, <1>4 DEF TableIsUnloaded
<1>5. CASE Judge(r) BY <1>0, <1>5 DEF Judge, Answer
<1>6. CASE Extract(r) BY <1>0, <1>6 DEF Extract
<1>7. CASE Initialize(r) BY <1>0, <1>7 DEF Initialize
<1>8. CASE AppendVersion(r) BY <1>0, <1>8 DEF AppendVersion
<1>9. CASE RunJobs(r) BY <1>0, <1>9 DEF RunJobs
<1>10. CASE CompleteLoad(r) BY <1>0, <1>10 DEF CompleteLoad
<1>11. CASE QueryNamesNoResult(r) \/ QueryFailsAsIfMissing(r)
  BY <1>0, <1>11 DEF QueryNamesNoResult, QueryFailsAsIfMissing, Answer
<1>12. CASE ListingFails(r) BY <1>0, <1>12 DEF ListingFails
<1>13. CASE Crash(r) BY <1>0, <1>13 DEF Crash
<1> DEFINE Grown == /\ declared \subseteq declared' /\ declared' \subseteq Internal
                    /\ \/ versions' = versions
                       \/ versions' = Append(versions, VersionRow(r)) /\ phase[r] = "append"
                    /\ states' = states
                    /\ completions' \in {completions, completions \union {Completion(r)}}
                    /\ completions' # completions => phase[r] = "complete"
                    /\ starts' = starts
                    /\ faults' = faults + 1 /\ faults' <= MaxFaults
<1>14. ASSUME NEW kind \in Kind, QueryFails(r, kind) PROVE Grown
  BY <1>0, <1>14 DEF QueryFails
<1>15. ASSUME NEW kind \in Kind, InitializeFails(r, kind) PROVE Grown
  <2>1. PICK some \in Prefixes : declared' = declared \union some
    BY <1>15 DEF InitializeFails
  <2>2. some \subseteq Internal
    BY DEF Prefixes, Internal
  <2> QED
    BY <1>0, <1>15, <2>1, <2>2 DEF InitializeFails
<1>16. ASSUME NEW kind \in Kind, AppendFails(r, kind) PROVE Grown
  BY <1>0, <1>16 DEF AppendFails
<1>17. ASSUME NEW kind \in Kind, CompleteFails(r, kind) PROVE Grown
  BY <1>0, <1>17 DEF CompleteFails
<1> QED
  BY <1>0, <1>1, <1>2, <1>3, <1>4, <1>5, <1>6, <1>7, <1>8, <1>9, <1>10, <1>11, <1>12, <1>13, <1>14,
     <1>15, <1>16, <1>17 DEF Step, Failure

\* The versions only grow, by a row for the schema of the run that appends.
LEMMA VersionsGrow ==
    ASSUME IInv, NEW r \in Runs, Start(r) \/ Step(r) \/ Failure(r)
    PROVE  /\ versions' \in Seq(Version)
           /\ Len(versions) \in Nat /\ Len(versions') \in Nat
           /\ Len(versions) <= Len(versions')
           /\ \A i \in 1..Len(versions) : versions'[i] = versions[i]
           /\ Len(versions') # Len(versions) =>
                 /\ phase[r] = "append" /\ Len(versions') = Len(versions) + 1
                 /\ versions'[Len(versions')] = VersionRow(r)
<1>1. versions \in Seq(Version) /\ basis[r] \in 0..Len(versions) /\ hash[r] \in Hashes
  BY DEF IInv, TypeOK, Version
<1>2. VersionRow(r) \in Version
  BY <1>1 DEF VersionRow, Version
<1> HIDE DEF Version
<1>3. CASE versions' = versions
  BY <1>1, <1>3
<1>4. CASE versions' = Append(versions, VersionRow(r)) /\ phase[r] = "append"
  <2>1. /\ versions' \in Seq(Version) /\ Len(versions') = Len(versions) + 1
        /\ \A i \in 1..Len(versions) : versions'[i] = versions[i]
        /\ versions'[Len(versions) + 1] = VersionRow(r)
    BY <1>1, <1>2, <1>4, AppendProperties
  <2> QED
    BY <1>1, <1>4, <2>1
<1> QED
  BY <1>3, <1>4, ServerGrows

\* A run's part of the types: what its own variables hold.
LocalTypes(r) ==
    /\ phase[r] \in {"idle", "state", "schema", "extract", "init", "lookup",
                     "append", "jobs", "complete"}
    /\ resume[r] \in {"state", "init", "jobs", "complete"}
    /\ load[r] \in 0..starts /\ hash[r] \in Hashes
    /\ pending[r] \in Kind \union {"none"}
    /\ answer[r] \in Answers
    /\ basis[r] \in 0..Len(versions)
    /\ unloaded[r] \subseteq Internal
    /\ failures[r] \subseteq Kind \union {"listing", "crash"}

\* A step of r keeps r's own types.
LEMMA LocalTypesKept ==
    ASSUME IInv, NEW r \in Runs, Start(r) \/ Step(r) \/ Failure(r)
    PROVE  LocalTypes(r)'
<1>0. LocalTypes(r)
  BY DEF IInv, TypeOK, LocalTypes
<1>1. Len(versions) \in Nat /\ Len(versions') \in Nat /\ Len(versions) <= Len(versions') /\ starts \in Nat
  BY VersionsGrow DEF IInv, TypeOK
<1>2. starts' \in {starts, starts + 1}
  BY ServerGrows
<1>3. DOMAIN phase = Runs /\ DOMAIN resume = Runs /\ DOMAIN load = Runs /\ DOMAIN hash = Runs /\ DOMAIN pending = Runs
      /\ DOMAIN answer = Runs /\ DOMAIN basis = Runs /\ DOMAIN unloaded = Runs /\ DOMAIN failures = Runs
  BY DEF IInv, TypeOK
<1> USE DEF server, onDisk, history
<1>4. ASSUME Reading(r), NEW found \in Answers, Answer(r, found),
             failures'[r] \in {failures[r], failures[r] \union {"terminal"}}
      PROVE  LocalTypes(r)'
  <2>1. TypeOK
    BY DEF IInv
  <2>2. unloaded'[r] = {}
    BY <1>3, <1>4 DEF Answer
  <2> QED
    BY <1>0, <1>1, <1>4, <2>1, <2>2, Answered DEF LocalTypes, Kind
<1>5. ASSUME NEW kind \in Kind, Surface(r, kind), UNCHANGED <<onDisk, starts>>,
             \E more \in Kind \union {"listing", "crash"} : failures'[r] = failures[r] \union {more}
      PROVE  LocalTypes(r)'
  BY <1>0, <1>1, <1>3, <1>5 DEF Surface, LocalTypes, Answers, Misleading
<1>6. CASE Start(r) BY <1>0, <1>1, <1>3, <1>6 DEF Start, LocalTypes
<1>7. CASE QueryAnswers(r) BY <1>4, <1>7 DEF QueryAnswers, Answers, Misleading
<1>8. CASE TableIsMissing(r) BY <1>4, <1>8 DEF TableIsMissing, Answers, Misleading
<1>9. CASE TableIsUnloaded(r) BY <1>0, <1>1, <1>3, <1>9 DEF TableIsUnloaded, LocalTypes, Kind, Unsynced
<1>10. CASE Judge(r)
  <2>1. CASE Answer(r, "nothing") BY <1>4, <1>10, <2>1 DEF Judge, Answers, Misleading
  <2>2. CASE Surface(r, pending[r]) /\ UNCHANGED <<server, onDisk, starts>>
    BY <1>0, <1>1, <1>3, <1>10, <2>2 DEF Judge, Surface, LocalTypes, Answers, Misleading
  <2> QED BY <1>10, <2>1, <2>2 DEF Judge
<1>11. CASE Extract(r) BY <1>0, <1>1, <1>3, <1>11 DEF Extract, LocalTypes, Answers, Misleading
<1>12. CASE Initialize(r) BY <1>0, <1>1, <1>3, <1>12 DEF Initialize, LocalTypes
<1>13. CASE AppendVersion(r) BY <1>0, <1>1, <1>3, <1>13 DEF AppendVersion, LocalTypes
<1>14. CASE RunJobs(r) BY <1>0, <1>1, <1>3, <1>14 DEF RunJobs, LocalTypes, Answers, Misleading
<1>15. CASE CompleteLoad(r) BY <1>0, <1>1, <1>3, <1>15 DEF CompleteLoad, LocalTypes
<1>16. CASE QueryNamesNoResult(r) \/ QueryFailsAsIfMissing(r)
  BY <1>3, <1>4, <1>16 DEF QueryNamesNoResult, QueryFailsAsIfMissing, Fault, Answers, Misleading
<1>17. CASE ListingFails(r)
  <2>1. pending[r] \in Kind BY <1>0, <1>17 DEF ListingFails, LocalTypes
  <2>2. failures'[r] = failures[r] \union {"listing"} BY <1>3, <1>17 DEF ListingFails, Fault
  <2> QED BY <1>5, <1>17, <2>1, <2>2 DEF ListingFails
<1>18. CASE Crash(r)
  <2>1. failures'[r] = failures[r] \union {"crash"} BY <1>3, <1>18 DEF Crash, Fault
  <2> QED BY <1>5, <1>18, <2>1 DEF Crash, Kind
<1>19. ASSUME NEW kind \in Kind, QueryFails(r, kind) PROVE LocalTypes(r)'
  BY <1>0, <1>1, <1>3, <1>19 DEF QueryFails, Fault, LocalTypes
<1>20. ASSUME NEW kind \in Kind, InitializeFails(r, kind) \/ AppendFails(r, kind) \/ CompleteFails(r, kind)
       PROVE  LocalTypes(r)'
  <2>1. failures'[r] = failures[r] \union {kind}
    BY <1>3, <1>20 DEF InitializeFails, AppendFails, CompleteFails, Fault
  <2>2. Surface(r, "terminal") \/ Surface(r, kind)
    BY <1>20 DEF InitializeFails, AppendFails, CompleteFails
  <2>3. UNCHANGED <<onDisk, starts>>
    BY <1>20 DEF InitializeFails, AppendFails, CompleteFails
  <2> QED BY <1>5, <2>1, <2>2, <2>3 DEF Kind
<1> QED
  BY <1>6, <1>7, <1>8, <1>9, <1>10, <1>11, <1>12, <1>13, <1>14, <1>15, <1>16, <1>17, <1>18,
     <1>19, <1>20 DEF Step, Failure

\* What is kept per run is a function on the runs.
PerRun ==
    /\ phase = [q \in Runs |-> phase[q]] /\ resume = [q \in Runs |-> resume[q]]
    /\ load = [q \in Runs |-> load[q]] /\ hash = [q \in Runs |-> hash[q]]
    /\ pending = [q \in Runs |-> pending[q]] /\ answer = [q \in Runs |-> answer[q]]
    /\ basis = [q \in Runs |-> basis[q]] /\ unloaded = [q \in Runs |-> unloaded[q]]
    /\ failures = [q \in Runs |-> failures[q]]

LEMMA PerRunKept ==
    ASSUME TypeOK, NEW r \in Runs, Start(r) \/ Step(r) \/ Failure(r)
    PROVE  PerRun'
<1> USE DEF PerRun, server, onDisk, history, Surface, Fault
<1>0. PerRun
  BY DEF TypeOK
<1>1. CASE Start(r) BY <1>0, <1>1 DEF Start
<1>2. CASE QueryAnswers(r) BY <1>0, <1>2 DEF QueryAnswers, Answer
<1>3. CASE TableIsMissing(r) BY <1>0, <1>3 DEF TableIsMissing, Answer
<1>4. CASE TableIsUnloaded(r) BY <1>0, <1>4 DEF TableIsUnloaded
<1>5. CASE Judge(r) BY <1>0, <1>5 DEF Judge, Answer
<1>6. CASE Extract(r) BY <1>0, <1>6 DEF Extract
<1>7. CASE Initialize(r) BY <1>0, <1>7 DEF Initialize
<1>8. CASE AppendVersion(r) BY <1>0, <1>8 DEF AppendVersion
<1>9. CASE RunJobs(r) BY <1>0, <1>9 DEF RunJobs
<1>10. CASE CompleteLoad(r) BY <1>0, <1>10 DEF CompleteLoad
<1>11. CASE QueryNamesNoResult(r) \/ QueryFailsAsIfMissing(r)
  BY <1>0, <1>11 DEF QueryNamesNoResult, QueryFailsAsIfMissing, Answer
<1>12. CASE ListingFails(r) BY <1>0, <1>12 DEF ListingFails
<1>13. CASE Crash(r) BY <1>0, <1>13 DEF Crash
<1>14. ASSUME NEW kind \in Kind, QueryFails(r, kind) PROVE PerRun' BY <1>0, <1>14 DEF QueryFails
<1>15. ASSUME NEW kind \in Kind, InitializeFails(r, kind) PROVE PerRun' BY <1>0, <1>15 DEF InitializeFails
<1>16. ASSUME NEW kind \in Kind, AppendFails(r, kind) PROVE PerRun' BY <1>0, <1>16 DEF AppendFails
<1>17. ASSUME NEW kind \in Kind, CompleteFails(r, kind) PROVE PerRun' BY <1>0, <1>17 DEF CompleteFails
<1> QED
  BY <1>1, <1>2, <1>3, <1>4, <1>5, <1>6, <1>7, <1>8, <1>9, <1>10, <1>11, <1>12, <1>13, <1>14,
     <1>15, <1>16, <1>17 DEF Step, Failure

\* Every step of a run keeps the types.
LEMMA TypesKept ==
    ASSUME IInv, NEW r \in Runs, Start(r) \/ Step(r) \/ Failure(r)
    PROVE  TypeOK'
<1>1. TypeOK
  BY DEF IInv
<1>2. \A q \in Runs : LocalTypes(q)'
  <2>1. ASSUME NEW q \in Runs \ {r} PROVE LocalTypes(q)'
    <3>1. LocalTypes(q) /\ UNCHANGED <<phase[q], resume[q], load[q], hash[q], pending[q], answer[q],
                                      basis[q], unloaded[q], failures[q]>>
      BY <1>1, StepsAreOfOneRun DEF Others, TypeOK, LocalTypes
    <3>2. starts \in Nat /\ starts' \in {starts, starts + 1}
      BY <1>1, ServerGrows DEF TypeOK
    <3> QED
      BY <3>1, <3>2, VersionsGrow DEF LocalTypes
  <2> QED
    BY <2>1, LocalTypesKept
<1>3. /\ phase' \in [Runs -> {"idle", "state", "schema", "extract", "init", "lookup",
                              "append", "jobs", "complete"}]
      /\ resume' \in [Runs -> {"state", "init", "jobs", "complete"}]
      /\ load' \in [Runs -> 0..starts'] /\ hash' \in [Runs -> Hashes]
      /\ pending' \in [Runs -> Kind \union {"none"}]
      /\ answer' \in [Runs -> Answers]
      /\ basis' \in [Runs -> 0..Len(versions')]
      /\ unloaded' \in [Runs -> SUBSET Internal]
      /\ failures' \in [Runs -> SUBSET (Kind \union {"listing", "crash"})]
  BY <1>1, <1>2, PerRunKept DEF PerRun, LocalTypes
<1>4. /\ starts' \in 0..MaxStarts /\ faults' \in 0..MaxFaults
      /\ starts \in Nat /\ starts' \in Nat /\ starts <= starts'
  <2>1. starts \in 0..MaxStarts /\ faults \in 0..MaxFaults
    BY <1>1 DEF TypeOK
  <2>2. /\ starts' \in {starts, starts + 1} /\ starts' <= MaxStarts
        /\ faults' \in {faults, faults + 1} /\ faults' <= MaxFaults
    BY ServerGrows
  <2> QED
    BY <2>1, <2>2, BoundAssumption
<1>5. versions' \in Seq([hash : Hashes, basis : Nat, misled : BOOLEAN])
  BY VersionsGrow DEF Version
<1>6. phase[r] \in {"jobs", "complete"} => load[r] \in 1..starts
  BY DEF IInv, Parts, Numbered, TypeOK
<1>7. states' \subseteq 1..starts'
  <2>1. states \subseteq 1..starts
    BY <1>1 DEF TypeOK
  <2>2. states' = states \/ (states' = states \union {load[r]} /\ phase[r] = "jobs")
    BY ServerGrows
  <2>3. 1..starts \subseteq 1..starts'
    BY <1>4
  <2> QED
    BY <1>6, <2>1, <2>2, <2>3
<1>8. completions' \subseteq [load : 1..starts', hash : Hashes]
  <2>1. phase[r] = "complete" => Completion(r) \in [load : 1..starts', hash : Hashes]
    <3>1. hash[r] \in Hashes
      BY <1>1 DEF TypeOK
    <3> QED
      BY <1>4, <1>6, <3>1 DEF Completion
  <2>2. completions \subseteq [load : 1..starts', hash : Hashes]
    <3>1. completions \subseteq [load : 1..starts, hash : Hashes]
      BY <1>1 DEF TypeOK
    <3>2. 1..starts \subseteq 1..starts'
      BY <1>4
    <3> QED
      BY <3>1, <3>2
  <2>3. completions' = completions \/ (completions' = completions \union {Completion(r)} /\ phase[r] = "complete")
    BY ServerGrows
  <2> QED
    BY <2>1, <2>2, <2>3
<1>9. \A t \in Internal : Holds(t)' => t \in declared'
  <2>1. CASE UNCHANGED <<versions, states, completions>>
    BY <1>1, <2>1, ServerGrows DEF TypeOK, Holds
  <2>2. CASE phase[r] \in {"append", "jobs", "complete"}
    BY <2>2, ServerGrows DEF IInv, Parts, Prepared
  <2> QED
    BY <2>1, <2>2, ServerGrows
<1>10. declared' \subseteq Internal
  BY ServerGrows
<1> QED
  BY <1>3, <1>4, <1>5, <1>7, <1>8, <1>9, <1>10 DEF TypeOK

\* A row that is stored stays stored.
LEMMA VersionsStay ==
    ASSUME IInv, NEW r \in Runs, Start(r) \/ Step(r) \/ Failure(r), NEW h, HasVersion(h)
    PROVE  HasVersion(h)'
<1>1. versions \in Seq(Version) /\ versions' \in Seq(Version)
  BY VersionsGrow DEF IInv, TypeOK, Version
<1>2. PICK i \in 1..Len(versions) : versions[i].hash = h
  BY <1>1 DEF HasVersion
<1>3. i \in 1..Len(versions') /\ versions'[i].hash = h
  BY <1>2, VersionsGrow
<1> QED
  BY <1>1, <1>3 DEF HasVersion

\* What an appending run leaves behind.
LEMMA AppendStores ==
    ASSUME IInv, NEW r \in Runs, AppendVersion(r)
    PROVE  HasVersion(hash[r])'
<1>1. versions \in Seq(Version) /\ VersionRow(r) \in Version
  BY DEF IInv, TypeOK, Version, VersionRow
<1> HIDE DEF Version
<1>2. /\ versions' = Append(versions, VersionRow(r)) /\ VersionRow(r).hash = hash[r] /\ hash' = hash
  BY DEF AppendVersion, VersionRow
<1>3. /\ versions' \in Seq(Version) /\ Len(versions') = Len(versions) + 1
      /\ versions'[Len(versions) + 1] = VersionRow(r) /\ Len(versions) \in Nat
  BY <1>1, <1>2, AppendProperties
<1>4. Len(versions) + 1 \in DOMAIN versions'
  BY <1>3
<1> QED
  BY <1>2, <1>3, <1>4 DEF HasVersion

\* The parts of the invariant that concern run r, of which each run has its own.
Own(r) ==
    /\ phase[r] # "idle" \/ resume[r] # "state" => load[r] # 0
    /\ phase[r] \in {"lookup", "append", "jobs", "complete"} \/ resume[r] \in {"jobs", "complete"} =>
           declared = Internal
    /\ phase[r] \in {"jobs", "complete"} \/ resume[r] \in {"jobs", "complete"} => HasVersion(hash[r])
    /\ phase[r] = "append" /\ answer[r] \notin Misleading =>
           \A i \in 1..basis[r] : versions[i].hash # hash[r]
    /\ pending[r] # "none" =>
           /\ Reading(r)
           /\ \/ pending[r] \in failures[r]
              \/ unloaded[r] # {} /\ unloaded[r] \subseteq TablesOf[phase[r]]

LEMMA PartsOfRuns == Parts <=> \A r \in Runs : Own(r)
  BY DEF Parts, Numbered, Prepared, SchemaStored, LookedUp, Pending, Own

\* A step of r keeps the parts of another run.
LEMMA OwnOfOthers ==
    ASSUME IInv, NEW r \in Runs, Start(r) \/ Step(r) \/ Failure(r), NEW q \in Runs \ {r}
    PROVE  Own(q)'
<1>1. Own(q) /\ basis[q] \in 0..Len(versions)
  BY PartsOfRuns DEF IInv, TypeOK
<1>2. UNCHANGED <<phase[q], resume[q], load[q], hash[q], pending[q], answer[q], basis[q],
                  unloaded[q], failures[q]>>
  BY StepsAreOfOneRun DEF Others, IInv
<1>3. declared \subseteq declared' /\ declared' \subseteq Internal
  BY ServerGrows
<1>4. HasVersion(hash[q]) => HasVersion(hash[q])'
  BY <1>2, VersionsStay DEF HasVersion
<1>5. \A i \in 1..basis[q] : versions'[i] = versions[i]
  BY <1>1, VersionsGrow
<1> QED
  BY <1>1, <1>2, <1>3, <1>4, <1>5 DEF Own, Reading

\* A read that is answered keeps the parts of its run, if the answer is true.
LEMMA OwnOfAnswered ==
    ASSUME IInv, NEW r \in Runs, Reading(r), NEW found \in Answers, Answer(r, found),
           found = "rows" => Stored(r), found = "nothing" => ~Stored(r)
    PROVE  Own(r)'
<1>1. Own(r) /\ TypeOK
  BY PartsOfRuns DEF IInv
<1>2. /\ phase'[r] \in {"schema", "extract", "append", "jobs"}
      /\ phase'[r] = "append" => phase[r] = "lookup" /\ found # "rows" /\ basis'[r] = Len(versions)
      /\ phase'[r] = "jobs" => phase[r] = "lookup" /\ found = "rows"
      /\ resume'[r] = IF phase'[r] = "jobs" THEN "jobs" ELSE resume[r]
      /\ answer'[r] = found /\ pending'[r] = "none"
      /\ UNCHANGED <<server, load, hash, starts>>
  BY <1>1, Answered
<1>3. phase[r] \in {"state", "schema", "lookup"}
  BY Phases DEF Reading
<1>4. UNCHANGED <<declared, versions, load, hash>>
  BY <1>2 DEF server
<1>5. phase[r] = "lookup" => (Stored(r) <=> HasVersion(hash[r]))
  BY DEF Stored, HasVersion
<1>6. HasVersion(hash[r]) => HasVersion(hash[r])'
  BY <1>4 DEF HasVersion
<1>7. phase'[r] = "append" /\ answer'[r] \notin Misleading => \A i \in 1..basis'[r] : versions'[i].hash # hash'[r]
  <2>1. phase'[r] = "append" /\ answer'[r] \notin Misleading => ~HasVersion(hash[r]) /\ basis'[r] = Len(versions)
    BY <1>2, <1>5 DEF Answers, Misleading
  <2>2. DOMAIN versions = 1..Len(versions)
    BY <1>1 DEF TypeOK
  <2> QED
    BY <1>4, <2>1, <2>2 DEF HasVersion
<1> QED
  BY <1>1, <1>2, <1>3, <1>4, <1>5, <1>6, <1>7 DEF Own

\* A step of r keeps the parts of r.
LEMMA OwnKept ==
    ASSUME IInv, NEW r \in Runs, Start(r) \/ Step(r) \/ Failure(r)
    PROVE  Own(r)'
<1>0. Own(r) /\ TypeOK
  BY PartsOfRuns DEF IInv
<1>1. DOMAIN phase = Runs /\ DOMAIN resume = Runs /\ DOMAIN load = Runs /\ DOMAIN hash = Runs /\ DOMAIN pending = Runs
      /\ DOMAIN answer = Runs /\ DOMAIN basis = Runs /\ DOMAIN unloaded = Runs /\ DOMAIN failures = Runs
      /\ resume[r] \in {"state", "init", "jobs", "complete"}
  BY <1>0 DEF TypeOK
<1>2. declared = Internal => declared' = Internal
  BY ServerGrows
<1>3. HasVersion(hash[r]) /\ hash'[r] = hash[r] => HasVersion(hash[r])'
  BY VersionsStay DEF HasVersion
<1>4. HasVersion(hash[r]) /\ UNCHANGED <<versions, hash>> => HasVersion(hash[r])'
  BY DEF HasVersion
<1> USE DEF server, onDisk, history
<1>5. ASSUME NEW kind, Surface(r, kind), UNCHANGED onDisk, phase[r] # "idle" PROVE Own(r)'
  BY <1>0, <1>1, <1>2, <1>3, <1>5 DEF Surface, Own
<1>6. CASE Start(r)
  <2>1. starts + 1 # 0
    BY <1>0 DEF TypeOK
  <2>2. pending[r] = "none"
    BY <1>0, <1>6, Phases DEF Own, Start, Reading
  <2> QED
    BY <1>0, <1>1, <1>2, <1>3, <1>6, <2>1, <2>2 DEF Start, Own
<1>7. CASE QueryAnswers(r)
  BY <1>7, OwnOfAnswered DEF QueryAnswers, Answers, Misleading
<1>8. CASE TableIsMissing(r)
  BY <1>0, <1>8, OwnOfAnswered, NothingStored DEF TableIsMissing, Answers, Misleading
<1>9. CASE TableIsUnloaded(r)
  BY <1>0, <1>1, <1>3, <1>9 DEF TableIsUnloaded, Own, Reading
<1>10. CASE Judge(r)
  <2>1. CASE AwaitingFirstLoad(TablesOf[phase[r]]) /\ Answer(r, "nothing")
    <3>1. ~Stored(r)
      BY <1>0, <1>10, <2>1, NothingStored DEF Judge, AwaitingFirstLoad
    <3> QED
      BY <1>10, <2>1, <3>1, OwnOfAnswered DEF Judge, Answers, Misleading
  <2>2. CASE Surface(r, pending[r]) /\ UNCHANGED <<server, onDisk, starts>>
    BY <1>5, <1>10, <2>2, Phases DEF Judge, Reading
  <2> QED
    BY <1>10, <2>1, <2>2 DEF Judge
<1>11. CASE Extract(r)
  BY <1>0, <1>1, <1>11, Phases DEF Extract, Own, Reading
<1>12. CASE Initialize(r)
  BY <1>0, <1>1, <1>3, <1>12, Phases DEF Initialize, Own, Reading
<1>13. CASE AppendVersion(r)
  BY <1>0, <1>1, <1>2, <1>13, AppendStores, Phases DEF AppendVersion, Own, Reading
<1>14. CASE RunJobs(r)
  BY <1>0, <1>1, <1>2, <1>3, <1>14, Phases DEF RunJobs, Own, Reading
<1>15. CASE CompleteLoad(r)
  BY <1>0, <1>1, <1>2, <1>15, Phases DEF CompleteLoad, Own, Reading
<1>16. CASE QueryNamesNoResult(r) \/ QueryFailsAsIfMissing(r)
  BY <1>16, OwnOfAnswered DEF QueryNamesNoResult, QueryFailsAsIfMissing, Answers, Misleading
<1>17. CASE ListingFails(r)
  BY <1>5, <1>17, Phases DEF ListingFails, Reading
<1>18. CASE Crash(r)
  BY <1>5, <1>18 DEF Crash
<1>19. ASSUME NEW kind \in Kind, QueryFails(r, kind) PROVE Own(r)'
  BY <1>0, <1>1, <1>3, <1>19 DEF QueryFails, Fault, Own, Reading
<1>20. ASSUME NEW kind \in Kind, InitializeFails(r, kind) \/ AppendFails(r, kind) \/ CompleteFails(r, kind)
       PROVE  Own(r)'
  BY <1>5, <1>20 DEF InitializeFails, AppendFails, CompleteFails
<1> QED
  BY <1>6, <1>7, <1>8, <1>9, <1>10, <1>11, <1>12, <1>13, <1>14, <1>15, <1>16, <1>17, <1>18,
     <1>19, <1>20 DEF Step, Failure

\* A second row of a hash is written only past the rows its run looked at.
LEMMA OverlapKept ==
    ASSUME IInv, NEW r \in Runs, Start(r) \/ Step(r) \/ Failure(r)
    PROVE  RepeatedVersionsOverlap'
<1> SUFFICES ASSUME NEW j \in 1..Len(versions'), NEW i \in 1..j - 1, versions'[i].hash = versions'[j].hash
             PROVE  versions'[j].basis < i \/ versions'[j].misled
  <2>1. versions' \in Seq(Version)
    BY VersionsGrow
  <2>2. DOMAIN versions' = 1..Len(versions')
    BY <2>1
  <2> QED
    BY <2>2 DEF RepeatedVersionsOverlap
<1>1. /\ Len(versions) \in Nat /\ Len(versions') \in Nat
      /\ \A k \in 1..Len(versions) : versions'[k] = versions[k]
      /\ j > Len(versions) =>
            /\ phase[r] = "append" /\ j = Len(versions) + 1
            /\ versions'[j] = VersionRow(r)
  BY VersionsGrow
<1>2. CASE j <= Len(versions)
  <2>1. versions'[i] = versions[i] /\ versions'[j] = versions[j] /\ j \in 1..Len(versions)
    BY <1>1, <1>2
  <2>2. DOMAIN versions = 1..Len(versions)
    BY DEF IInv, TypeOK
  <2> QED
    BY <2>1, <2>2 DEF IInv, RepeatedVersionsOverlap
<1>3. CASE j > Len(versions)
  <2>1. /\ phase[r] = "append" /\ versions'[i] = versions[i] /\ i \in 1..Len(versions)
        /\ versions'[j] = VersionRow(r)
    BY <1>1, <1>3
  <2>2. answer[r] \in Misleading \/ \A k \in 1..basis[r] : versions[k].hash # hash[r]
    BY <2>1 DEF IInv, Parts, LookedUp
  <2>3. basis[r] \in Nat
    BY DEF IInv, TypeOK
  <2>4. /\ versions'[j].hash = hash[r] /\ versions'[j].basis = basis[r]
        /\ versions'[j].misled = (answer[r] \in Misleading)
    BY <2>1 DEF VersionRow
  <2>5. versions[i].hash = hash[r]
    BY <2>1, <2>4
  <2>6. answer[r] \in Misleading \/ basis[r] < i
    BY <2>1, <2>2, <2>3, <2>5
  <2> QED
    BY <2>4, <2>6
<1> QED
  BY <1>1, <1>2, <1>3

\* A load completes with a schema that was stored before its jobs.
LEMMA CompletedKept ==
    ASSUME IInv, NEW r \in Runs, Start(r) \/ Step(r) \/ Failure(r)
    PROVE  CompletedLoadsNameStoredSchemas'
<1>1. ASSUME NEW c \in completions' PROVE HasVersion(c.hash)
  <2>1. CASE c \in completions
    BY <2>1 DEF IInv, CompletedLoadsNameStoredSchemas, HasVersion
  <2>2. CASE c = Completion(r) /\ phase[r] = "complete"
    BY <2>2 DEF IInv, Parts, SchemaStored, Completion
  <2> QED
    BY <1>1, <2>1, <2>2, ServerGrows
<1>2. ASSUME NEW c \in completions' PROVE \E i \in DOMAIN versions' : versions'[i].hash = c.hash
  BY <1>1, <1>2, VersionsStay DEF HasVersion
<1> QED
  BY <1>2 DEF CompletedLoadsNameStoredSchemas

\* The invariant holds at first.
LEMMA InitInvariant == Init => IInv
<1> SUFFICES ASSUME Init PROVE IInv
  OBVIOUS
<1>1. versions = <<>> /\ Len(versions) = 0 /\ DOMAIN versions = {}
  BY DEF Init
<1>2. TypeOK
  <2>1. versions \in Seq([hash : Hashes, basis : Nat, misled : BOOLEAN])
    BY <1>1
  <2>2. basis \in [Runs -> 0..Len(versions)]
    BY <1>1 DEF Init
  <2>3. starts \in 0..MaxStarts /\ faults \in 0..MaxFaults /\ load \in [Runs -> 0..starts]
    BY BoundAssumption DEF Init
  <2>4. hash \in [Runs -> Hashes]
    BY HashAssumption DEF Init
  <2> QED
    BY <1>1, <2>1, <2>2, <2>3, <2>4 DEF Init, TypeOK, Answers, Misleading, Holds
<1> QED
  BY <1>1, <1>2
  DEF Init, IInv, Parts, Numbered, Prepared, SchemaStored, LookedUp, Pending,
      RepeatedVersionsOverlap, CompletedLoadsNameStoredSchemas

\* Every step keeps the invariant.
LEMMA StepInvariant == IInv /\ [Next]_vars => IInv'
<1>1. ASSUME IInv, NEW r \in Runs, Start(r) \/ Step(r) \/ Failure(r) PROVE IInv'
  <2>1. \A q \in Runs : Own(q)'
    BY <1>1, OwnKept, OwnOfOthers
  <2>2. Parts'
    BY <2>1 DEF Parts, Numbered, Prepared, SchemaStored, LookedUp, Pending, Own
  <2> QED
    BY <1>1, <2>2, TypesKept, OverlapKept, CompletedKept DEF IInv
<1>2. ASSUME IInv, UNCHANGED vars PROVE IInv'
  BY <1>2
  DEF IInv, TypeOK, Parts, Numbered, Prepared, SchemaStored, LookedUp, Pending, HasVersion, Reading,
      RepeatedVersionsOverlap, CompletedLoadsNameStoredSchemas, Holds, vars, server, onDisk, history
<1> QED
  BY <1>1, <1>2 DEF Next

THEOREM Invariance == Spec => []IInv
  BY InitInvariant, StepInvariant, PTL DEF Spec

\* The types of the internal tables and of the runs, and that only declared
\* tables hold data.
THEOREM TypeCorrect == Spec => []TypeOK
  BY Invariance, PTL DEF IInv

\* However many runs, crashes, retries and lost replies: a schema is stored twice
\* only by runs that looked before the other's row landed, or were misled.
THEOREM OneRowPerSchema == Spec => []RepeatedVersionsOverlap
  BY Invariance, PTL DEF IInv

\* A completed load names a schema that is stored.
THEOREM CompletedSchemasAreStored == Spec => []CompletedLoadsNameStoredSchemas
  BY Invariance, PTL DEF IInv

\* A read that answers "nothing" is right.
LEMMA TrueAnswers ==
    ASSUME IInv, NEW r \in Runs, Start(r) \/ Step(r) \/ Failure(r), NEW q \in Runs,
           FindsNothing(q, "nothing")
    PROVE  ~Stored(q)
<1> USE DEF FindsNothing
<1>0. TypeOK
  BY DEF IInv
<1>1. q = r
  BY <1>0, StepsAreOfOneRun DEF Others
<1>2. /\ phase[r] \in {"state", "schema", "lookup"}
      /\ DOMAIN answer = Runs /\ DOMAIN phase = Runs
  BY <1>0, <1>1, Phases DEF Reading, TypeOK
<1>3. ASSUME NEW kind, Surface(r, kind) PROVE FALSE
  BY <1>1, <1>2, <1>3 DEF Surface
<1>4. CASE QueryAnswers(r)
  BY <1>1, <1>2, <1>4 DEF QueryAnswers, Answer
<1>5. CASE TableIsMissing(r)
  BY <1>0, <1>1, <1>5, NothingStored DEF TableIsMissing
<1>6. CASE Judge(r)
  BY <1>0, <1>1, <1>3, <1>6, NothingStored DEF Judge, AwaitingFirstLoad
<1>7. CASE QueryNamesNoResult(r) \/ QueryFailsAsIfMissing(r)
  BY <1>1, <1>2, <1>7 DEF QueryNamesNoResult, QueryFailsAsIfMissing, Answer
<1>8. CASE Start(r) \/ TableIsUnloaded(r) \/ \E kind \in Kind : QueryFails(r, kind)
  BY <1>1, <1>2, <1>8 DEF Start, TableIsUnloaded, QueryFails
<1>9. CASE ListingFails(r) \/ Crash(r)
  BY <1>3, <1>9 DEF ListingFails, Crash
<1>10. CASE \/ Extract(r) \/ Initialize(r) \/ AppendVersion(r) \/ RunJobs(r) \/ CompleteLoad(r)
            \/ \E kind \in Kind : InitializeFails(r, kind) \/ AppendFails(r, kind) \/ CompleteFails(r, kind)
  BY <1>2, <1>10
  DEF Extract, Initialize, AppendVersion, RunJobs, CompleteLoad, InitializeFails, AppendFails, CompleteFails
<1> QED
  BY <1>4, <1>5, <1>6, <1>7, <1>8, <1>9, <1>10 DEF Step, Failure

\* A read that finds nothing by a missing or never loaded table, or by a query that ran,
\* is right, whatever failed and whoever else loads meanwhile.  (The two answers that
\* are wrong, FailuresSurface and ResultsAreRead, are counterexamples of TLC's.)
THEOREM EmptyAnswersAreTrue == Spec => NothingStoredIsTrue
<1>1. IInv /\ [Next]_vars =>
          [\A r \in Runs : FindsNothing(r, "nothing") => ~Stored(r)]_vars
  <2> SUFFICES ASSUME IInv, Next, NEW q \in Runs,
                      FindsNothing(q, "nothing")
               PROVE  ~Stored(q)
    OBVIOUS
  <2>1. PICK r \in Runs : Start(r) \/ Step(r) \/ Failure(r)
    BY DEF Next
  <2> QED
    BY <2>1, TrueAnswers
<1> QED
  BY <1>1, Invariance, PTL DEF Spec, NothingStoredIsTrue

\* A judged failure that ends the process was terminal, or a table without data.
LEMMA EndsForCause ==
    ASSUME IInv, NEW r \in Runs, Start(r) \/ Step(r) \/ Failure(r), NEW q \in Runs,
           phase[q] \notin {"idle", "complete"}, phase'[q] = "idle"
    PROVE  \/ {"terminal", "crash"} \intersect failures'[q] # {}
           \/ phase[q] = "init" /\ failures'[q] # {}
           \/ /\ unloaded[q] # {}
              /\ "listing" \in failures'[q] \/ unloaded[q] \intersect Unsynced = {}
<1>0. TypeOK /\ Own(q)
  BY PartsOfRuns DEF IInv
<1>1. q = r
  BY <1>0, StepsAreOfOneRun DEF Others
<1>2. /\ DOMAIN phase = Runs /\ DOMAIN failures = Runs /\ resume[r] # "idle"
      /\ pending[r] \in {"none", "transient", "terminal"}
  BY <1>0 DEF TypeOK, Kind
<1>3. ASSUME NEW kind \in Kind, Surface(r, kind) PROVE kind = "terminal"
  BY <1>1, <1>2, <1>3 DEF Surface, Kind
<1>4. ASSUME NEW found \in Answers, Reading(r), Answer(r, found) PROVE FALSE
  BY <1>0, <1>1, <1>4, Answered
<1>5. CASE QueryAnswers(r) \/ QueryNamesNoResult(r) \/ TableIsMissing(r) \/ QueryFailsAsIfMissing(r)
  BY <1>4, <1>5 DEF QueryAnswers, QueryNamesNoResult, TableIsMissing, QueryFailsAsIfMissing, Answers, Misleading
<1>6. CASE Judge(r)
  <2>1. ~AwaitingFirstLoad(TablesOf[phase[r]]) /\ Surface(r, pending[r]) /\ UNCHANGED failures
    BY <1>4, <1>6 DEF Judge, Answers, Misleading
  <2>2. pending[r] = "terminal"
    BY <1>2, <1>3, <1>6, <2>1 DEF Judge, Kind
  <2>3. "terminal" \in failures[r] \/ (unloaded[r] # {} /\ unloaded[r] \subseteq TablesOf[phase[r]])
    BY <1>0, <1>1, <2>2 DEF Own
  <2> QED
    BY <1>1, <2>1, <2>3 DEF AwaitingFirstLoad
<1>7. CASE ListingFails(r)
  <2>1. pending[r] = "terminal"
    BY <1>2, <1>3, <1>7 DEF ListingFails, Kind
  <2>2. failures'[r] = failures[r] \union {"listing"}
    BY <1>2, <1>7 DEF ListingFails, Fault
  <2> QED
    BY <1>0, <1>1, <2>1, <2>2 DEF Own
<1>8. CASE Crash(r)
  BY <1>1, <1>2, <1>8 DEF Crash, Fault
<1>9. ASSUME NEW kind \in Kind, InitializeFails(r, kind) \/ AppendFails(r, kind)
      PROVE  phase[r] = "init" \/ kind = "terminal"
  BY <1>3, <1>9 DEF InitializeFails, AppendFails
<1>10. ASSUME NEW kind \in Kind, InitializeFails(r, kind) \/ AppendFails(r, kind)
       PROVE  kind \in failures'[r]
  BY <1>2, <1>10 DEF InitializeFails, AppendFails, Fault
<1>11. CASE \/ Start(r) \/ TableIsUnloaded(r) \/ Extract(r) \/ Initialize(r) \/ AppendVersion(r)
            \/ RunJobs(r) \/ CompleteLoad(r)
            \/ \E kind \in Kind : QueryFails(r, kind) \/ CompleteFails(r, kind)
  BY <1>1, <1>2, <1>11
  DEF Start, TableIsUnloaded, Extract, Initialize, AppendVersion, RunJobs, CompleteLoad, QueryFails,
      CompleteFails
<1> QED
  BY <1>1, <1>5, <1>6, <1>7, <1>8, <1>9, <1>10, <1>11 DEF Step, Failure

\* No process ends early for a failure dlt would have tried again, but where
\* initialize_storage lets it through.
THEOREM EndsHaveCauses == Spec => ProcessesEndForCause
<1> DEFINE Caused(r) == \/ {"terminal", "crash"} \intersect failures'[r] # {}
                        \/ phase[r] = "init" /\ failures'[r] # {}
                        \/ /\ unloaded[r] # {}
                           /\ "listing" \in failures'[r] \/ unloaded[r] \intersect Unsynced = {}
<1>1. IInv /\ [Next]_vars =>
          [\A r \in Runs : phase[r] \notin {"idle", "complete"} /\ phase'[r] = "idle" => Caused(r)]_vars
  <2> SUFFICES ASSUME IInv, Next, NEW q \in Runs,
                      phase[q] \notin {"idle", "complete"}, phase'[q] = "idle"
               PROVE  Caused(q)
    OBVIOUS
  <2>1. PICK r \in Runs : Start(r) \/ Step(r) \/ Failure(r)
    BY DEF Next
  <2> QED
    BY <2>1, EndsForCause
<1> QED
  BY <1>1, Invariance, PTL DEF Spec, ProcessesEndForCause
=============================================================================
