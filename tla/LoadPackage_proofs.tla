------------------------- MODULE LoadPackage_proofs --------------------------
(***************************************************************************)
(* Theorems about LoadPackage, for any tables, dispositions, layouts and   *)
(* files, and any number of packages and interruptions.                    *)
(***************************************************************************)
EXTENDS LoadPackage, TLAPS

\* Is the row of job j of package k in its table?
Loaded(k, j) == \E r \in rows[j[1]] : r.package = k /\ r.file = j[2]

\* A package in hand has not completed; what is left of it are jobs of its own, all
\* of them until the jobs run, and what is not left was loaded.
InHand ==
    phase # "idle" =>
        /\ package \in 1..MaxPackages /\ package \notin completed
        /\ jobs \subseteq jobsOf[package] /\ JobTables(jobsOf[package]) \subseteq complete
        /\ phase \in BeforeJobs => jobs = jobsOf[package]
        /\ \A j \in jobsOf[package] \ jobs : Loaded(package, j)

\* Rows are of packages that were started, and of earlier ones until the jobs run;
\* a table with rows is declared.
RowsAreOld ==
    \A t \in Tables :
        /\ rows[t] # {} => t \in declared
        /\ \A r \in rows[t] : /\ r.package \in 1..package
                              /\ phase \in BeforeJobs => r.package < package

\* Where a call of initialize_storage is: what it found missing is declared table by
\* table, and what it empties holds nothing or is to be replaced.
Reconciled ==
    /\ phase = "declare" => schema \ declared \subseteq todo /\ todo \subseteq newly
    /\ phase \in {"empty", "version", "jobs", "paused"} => schema \subseteq declared
    /\ phase \in {"declare", "empty"} => newly \subseteq schema /\ \A t \in newly : rows[t] = {}
    /\ phase = "empty" => /\ todo \subseteq Truncated \union Seeded
                          /\ \A t \in Truncated \ todo : rows[t] = {}

\* A declared layout table that has no layout yet is one an interruption orphaned or
\* that had no column to be seeded with, or is about to be seeded by the call that
\* declared it.
Seeding ==
    \A t \in (Layout \intersect declared) \ established :
        \/ t \in orphaned \union columnless
        \/ t \in newly /\ (phase = "declare" \/ (phase = "empty" /\ t \in todo))

IInv ==
    /\ TypeOK /\ InHand /\ RowsAreOld /\ Reconciled /\ Seeding
    /\ CompletedPackagesAreWhole /\ ReplacedTablesHoldOneLoad /\ RefusedOnlyIfUnseeded

LEMMA InitInvariant == Init => IInv
<1> SUFFICES ASSUME Init PROVE IInv
  OBVIOUS
<1>1. TypeOK
  <2>1. rows \in [Tables -> SUBSET Row] /\ jobsOf \in [1..MaxPackages -> SUBSET Job]
    BY DEF Init
  <2>2. package \in 0..MaxPackages /\ faults \in 0..MaxFaults
    BY BoundAssumption DEF Init
  <2> QED
    BY <2>1, <2>2 DEF Init, TypeOK, Phase
<1> QED
  BY <1>1
  DEF Init, IInv, InHand, RowsAreOld, Reconciled, Seeding, CompletedPackagesAreWhole,
      ReplacedTablesHoldOneLoad, RefusedOnlyIfUnseeded, BeforeJobs, Initializing

\* What a call of initialize_storage empties are tables of the schema.
LEMMA EmptiedAreOfTheSchema ==
    ASSUME IInv, phase \in {"declare", "empty"}
    PROVE  /\ Truncated \subseteq Replace \intersect JobTables(jobsOf[package])
           /\ Truncated \subseteq complete /\ Truncated \union Seeded \subseteq schema
  BY DEF IInv, TypeOK, InHand, Reconciled, Truncated, TruncateTables, Seeded

\* Every step keeps the types.
LEMMA TypesKept == IInv /\ [Next]_vars => TypeOK'
<1> SUFFICES ASSUME IInv, [Next]_vars PROVE TypeOK'
  OBVIOUS
<1>0. TypeOK /\ MaxFaults \in Nat /\ MaxPackages \in Nat /\ Layout \subseteq Tables /\ Replace \subseteq Tables
  BY BoundAssumption, TablesAssumption DEF IInv
<1> USE DEF TypeOK, Phase, Running, BeforeJobs, Initializing, server, onDisk, call, history
<1>1. CASE StartPackage
  <2>1. PICK js \in SUBSET Job, dry \in SUBSET Tables, typed \in SUBSET Tables :
              /\ jobs' = js /\ jobsOf' = [jobsOf EXCEPT ![package + 1] = js]
              /\ schema' = schema \union JobTables(js) \union dry
              /\ typed \subseteq dry /\ complete' = complete \union JobTables(js) \union typed
    BY <1>1 DEF StartPackage
  <2>2. JobTables(js) \subseteq Tables
    BY <2>1 DEF JobTables, Job
  <2> QED
    BY <1>0, <1>1, <2>1, <2>2 DEF StartPackage
<1>2. CASE ListTables BY <1>0, <1>2 DEF ListTables
<1>3. CASE DeclareTable BY <1>0, <1>3 DEF DeclareTable
<1>4. CASE TablesDeclared
  <2>1. Truncated \union Seeded \subseteq Tables
    BY <1>0, <1>4, EmptiedAreOfTheSchema DEF TablesDeclared
  <2> QED
    BY <1>0, <1>4, <2>1 DEF TablesDeclared
<1>5. ASSUME NEW t \in Tables, EmptyTable(t) PROVE TypeOK'
  <2>1. t \in declared
    BY <1>5, EmptiedAreOfTheSchema DEF IInv, Reconciled, EmptyTable
  <2> QED
    BY <1>0, <1>5, <2>1 DEF EmptyTable
<1>6. CASE StorageInitialized BY <1>0, <1>6 DEF StorageInitialized
<1>7. CASE UpdateStoredSchema BY <1>0, <1>7 DEF UpdateStoredSchema
<1>8. CASE Interrupt
  <2>1. faults' \in 0..MaxFaults
    BY <1>0, <1>8 DEF Interrupt
  <2>2. orphaned' \subseteq Tables
    BY <1>0, <1>8 DEF Interrupt
  <2>3. phase' \in Phase
    BY <1>8 DEF Interrupt
  <2> QED
    BY <1>0, <1>8, <2>1, <2>2, <2>3, Zenon DEF Interrupt
<1>14. CASE Resume BY <1>0, <1>14 DEF Resume
<1>9. ASSUME NEW j \in Job, RunJob(j) PROVE TypeOK'
  <2>1. j[1] \in Tables /\ j[2] \in Files
    BY DEF Job
  <2>2. [package |-> package, file |-> j[2], upload |-> faults] \in Row
    BY <1>0, <2>1 DEF Row
  <2> QED
    BY <1>0, <1>9, <2>1, <2>2 DEF RunJob
<1>10. ASSUME NEW j \in Job, RefuseJob(j) PROVE TypeOK'
  BY <1>0, <1>10 DEF RefuseJob, Job
<1>11. CASE GiveUp
  <2>1. faults' \in 0..MaxFaults
    BY <1>0, <1>11 DEF GiveUp
  <2> QED
    BY <1>0, <1>11, <2>1 DEF GiveUp
<1>12. CASE CompleteLoad
  <2>1. completed' \subseteq 1..package
    BY <1>0, <1>12 DEF CompleteLoad, IInv, InHand
  <2> QED
    BY <1>0, <1>12, <2>1 DEF CompleteLoad
<1>13. CASE UNCHANGED vars BY <1>0, <1>13 DEF vars
<1> QED
  BY <1>1, <1>2, <1>3, <1>4, <1>5, <1>6, <1>7, <1>8, <1>9, <1>10, <1>11, <1>12, <1>13, <1>14
  DEF Next, Step

\* Only RunJob adds a row, and only EmptyTable removes any.
LEMMA RowsChange ==
    ASSUME IInv, [Next]_vars
    PROVE  \/ rows' = rows
           \/ \E t \in Tables : EmptyTable(t)
           \/ \E j \in Job : RunJob(j)
  BY DEF Next, Step, vars, server, StartPackage, ListTables, DeclareTable, TablesDeclared,
         StorageInitialized, UpdateStoredSchema, Interrupt, Resume, RefuseJob, GiveUp, CompleteLoad

\* A table that is emptied held nothing, or is replaced by the package in hand.
LEMMA EmptiedIsReplaced ==
    ASSUME IInv, NEW t \in Tables, EmptyTable(t)
    PROVE  /\ rows[t] = {} \/ t \in TruncateTables
           /\ rows'[t] = {} /\ \A u \in Tables \ {t} : rows'[u] = rows[u]
           /\ t \in declared /\ t \in schema
<1>1. phase = "empty" /\ t \in todo /\ todo \subseteq Truncated \union Seeded
  BY DEF EmptyTable, IInv, Reconciled
<1>2. rows[t] = {} \/ t \in TruncateTables
  BY <1>1, EmptiedAreOfTheSchema DEF IInv, Reconciled, Seeded, TruncateTables
<1>3. t \in declared /\ t \in schema
  BY <1>1, EmptiedAreOfTheSchema DEF IInv, Reconciled
<1>4. rows'[t] = {} /\ \A u \in Tables \ {t} : rows'[u] = rows[u]
  BY DEF EmptyTable, IInv, TypeOK
<1> QED
  BY <1>2, <1>3, <1>4

\* What RunJob adds.
LEMMA JobAdds ==
    ASSUME IInv, NEW j \in Job, RunJob(j)
    PROVE  /\ j[1] \in Tables /\ j[1] \in schema /\ j[1] \in declared
           /\ rows'[j[1]] = rows[j[1]] \union {[package |-> package, file |-> j[2], upload |-> faults]}
           /\ \A u \in Tables \ {j[1]} : rows'[u] = rows[u]
           /\ package \in 1..MaxPackages
<1>1. j[1] \in Tables /\ DOMAIN rows = Tables
  BY DEF Job, IInv, TypeOK
<1>2. phase = "jobs" /\ j \in jobsOf[package] /\ package \in 1..MaxPackages
  BY DEF RunJob, IInv, InHand
<1>3. j[1] \in schema
  BY <1>2 DEF IInv, TypeOK, InHand, JobTables
<1> QED
  BY <1>1, <1>2, <1>3 DEF RunJob, IInv, Reconciled

\* A loaded row stays loaded while its package is in hand.
LEMMA InHandKept == IInv /\ [Next]_vars => InHand'
<1> SUFFICES ASSUME IInv, [Next]_vars PROVE InHand'
  OBVIOUS
<1> USE DEF Running, BeforeJobs, Initializing
<1>0. InHand /\ TypeOK
  BY DEF IInv
<1>1. CASE StartPackage
  <2>1. PICK js \in SUBSET Job, dry \in SUBSET Tables, typed \in SUBSET Tables :
              /\ jobs' = js /\ jobsOf' = [jobsOf EXCEPT ![package + 1] = js]
              /\ schema' = schema \union JobTables(js) \union dry
              /\ typed \subseteq dry /\ complete' = complete \union JobTables(js) \union typed
    BY <1>1 DEF StartPackage
  <2>2. package + 1 \in 1..MaxPackages /\ package + 1 \notin completed /\ package' = package + 1
    BY <1>0, <1>1, BoundAssumption DEF StartPackage, TypeOK
  <2>3. jobsOf'[package'] = js
    BY <1>0, <2>1, <2>2 DEF TypeOK
  <2>4. JobTables(jobsOf'[package']) \subseteq complete'
    BY <2>1, <2>3 DEF JobTables
  <2>5. completed' = completed /\ phase' = "list"
    BY <1>1 DEF StartPackage, server
  <2> QED
    BY <2>1, <2>2, <2>3, <2>4, <2>5 DEF InHand, JobTables
<1>2. ASSUME NEW t \in Tables, EmptyTable(t) PROVE InHand'
  <2>1. jobs = jobsOf[package] /\ phase = "empty"
    BY <1>0, <1>2 DEF InHand, EmptyTable
  <2> QED
    BY <1>0, <1>2, <2>1 DEF InHand, EmptyTable, onDisk, JobTables
<1>3. ASSUME NEW j \in Job, RunJob(j) PROVE InHand'
  <2>1. phase = "jobs" /\ phase' = "jobs" /\ UNCHANGED <<package, jobsOf, complete, completed>>
        /\ jobs' \in {jobs, jobs \ {j}}
    BY <1>3 DEF RunJob
  <2>2. ASSUME NEW i \in jobsOf[package] \ jobs' PROVE Loaded(package, i)'
    <3>1. i[1] \in Tables
      <4>1. jobsOf[package] \subseteq Job
        BY <1>0, <2>1 DEF TypeOK, InHand
      <4> QED
        BY <2>1, <2>2, <4>1 DEF Job
    <3>2. CASE i = j
      <4>1. [package |-> package, file |-> j[2], upload |-> faults] \in rows'[j[1]]
        BY <1>3, JobAdds
      <4> QED
        BY <2>1, <3>2, <4>1 DEF Loaded
    <3>3. CASE i # j
      <4>1. Loaded(package, i)
        BY <1>0, <2>1, <2>2, <3>3 DEF InHand
      <4>2. rows[i[1]] \subseteq rows'[i[1]]
        BY <1>3, <3>1, JobAdds
      <4> QED
        BY <2>1, <4>1, <4>2 DEF Loaded
    <3> QED
      BY <3>2, <3>3
  <2>3. JobTables(jobsOf'[package']) \subseteq complete'
    BY <1>0, <2>1 DEF InHand, JobTables
  <2> QED
    BY <1>0, <2>1, <2>2, <2>3 DEF InHand
<1>4. CASE phase' = "idle"
  BY <1>4 DEF InHand
<1>5. CASE /\ UNCHANGED <<rows, completed, package, jobsOf, jobs, complete>> /\ phase # "idle"
           /\ phase' \in BeforeJobs => phase \in BeforeJobs
  BY <1>0, <1>5 DEF InHand, Loaded, JobTables
<1>6. CASE UNCHANGED vars
  BY <1>0, <1>6 DEF InHand, Loaded, JobTables, vars, server, onDisk
<1>7. CASE ListTables \/ DeclareTable \/ TablesDeclared \/ StorageInitialized \/ UpdateStoredSchema
           \/ Interrupt \/ Resume
  BY <1>5, <1>7
  DEF ListTables, DeclareTable, TablesDeclared, StorageInitialized, UpdateStoredSchema, Interrupt,
      Resume, server, onDisk
<1>8. CASE GiveUp \/ CompleteLoad \/ \E j \in Job : RefuseJob(j)
  BY <1>4, <1>8 DEF GiveUp, CompleteLoad, RefuseJob
<1> QED
  BY <1>1, <1>2, <1>3, <1>6, <1>7, <1>8 DEF Next, Step

\* No row is younger than its package, and none is in a table that is not declared.
LEMMA RowsAreOldKept == IInv /\ [Next]_vars => RowsAreOld'
<1> SUFFICES ASSUME IInv, [Next]_vars PROVE RowsAreOld'
  OBVIOUS
<1> USE DEF Running, BeforeJobs, Initializing
<1>0. RowsAreOld /\ TypeOK
  BY DEF IInv
<1>1. CASE StartPackage
  <2>1. /\ package \in Nat /\ package' = package + 1
        /\ UNCHANGED <<rows, declared>>
    BY <1>0, <1>1 DEF StartPackage, server, TypeOK
  <2>2. \A t \in Tables : \A r \in rows[t] : r.package \in 1..package' /\ r.package < package'
    BY <1>0, <2>1 DEF RowsAreOld
  <2> QED
    BY <1>0, <2>1, <2>2 DEF RowsAreOld
<1>2. ASSUME NEW t \in Tables, EmptyTable(t) PROVE RowsAreOld'
  <2>1. UNCHANGED <<declared, package, phase>> /\ phase \in Initializing
    BY <1>2 DEF EmptyTable, onDisk
  <2> QED
    BY <1>0, <1>2, <2>1, EmptiedIsReplaced DEF RowsAreOld
<1>3. ASSUME NEW j \in Job, RunJob(j) PROVE RowsAreOld'
  <2>1. UNCHANGED <<declared, package, phase>> /\ phase \notin BeforeJobs
    BY <1>3 DEF RunJob
  <2>2. package \in 1..package
    BY <1>3, JobAdds
  <2> QED
    BY <1>0, <1>3, <2>1, <2>2, JobAdds DEF RowsAreOld
<1>4. CASE /\ UNCHANGED <<rows, package>> /\ declared \subseteq declared'
           /\ phase' \in BeforeJobs => phase \in BeforeJobs
  BY <1>0, <1>4 DEF RowsAreOld
<1>5. CASE UNCHANGED vars \/ ListTables \/ DeclareTable \/ TablesDeclared \/ StorageInitialized \/ UpdateStoredSchema
           \/ Interrupt \/ Resume \/ GiveUp \/ CompleteLoad \/ \E j \in Job : RefuseJob(j)
  BY <1>4, <1>5
  DEF ListTables, DeclareTable, TablesDeclared, StorageInitialized, UpdateStoredSchema, Interrupt,
      Resume, GiveUp, CompleteLoad, RefuseJob, vars, server, onDisk
<1> QED
  BY <1>1, <1>2, <1>3, <1>5 DEF Next, Step

\* A call of initialize_storage goes on where the invariant says it is.
LEMMA ReconciledKept == IInv /\ [Next]_vars => Reconciled'
<1> SUFFICES ASSUME IInv, [Next]_vars PROVE Reconciled'
  OBVIOUS
<1>0. Reconciled /\ TypeOK /\ RowsAreOld
  BY DEF IInv
<1>1. CASE phase' \in {"idle", "list", "stopped"}
  BY <1>1 DEF Reconciled
<1>2. CASE ListTables
  BY <1>0, <1>2 DEF ListTables, Reconciled, RowsAreOld, TypeOK, server, onDisk
<1>3. CASE DeclareTable
  BY <1>0, <1>3 DEF DeclareTable, Reconciled, onDisk
<1>4. CASE TablesDeclared
  <2>1. phase' = "empty" /\ UNCHANGED <<declared, rows, schema, newly>> /\ schema \subseteq declared
    BY <1>0, <1>4 DEF TablesDeclared, Reconciled, server, onDisk
  <2>2. todo' \subseteq Truncated' \union Seeded' /\ Truncated' \subseteq todo'
    <3>1. Truncated' = Truncated /\ Seeded' = Seeded
      BY <1>4 DEF TablesDeclared, Truncated, Seeded, TruncateTables, JobTables, onDisk
    <3>2. todo' = (Truncated \union Seeded) \intersect complete /\ Truncated \subseteq complete
      BY <1>4, EmptiedAreOfTheSchema DEF TablesDeclared
    <3> QED
      BY <3>1, <3>2
  <2>3. newly \subseteq schema /\ \A t \in newly : rows[t] = {}
    BY <1>0, <1>4 DEF TablesDeclared, Reconciled
  <2> QED
    BY <2>1, <2>2, <2>3 DEF Reconciled
<1>5. ASSUME NEW t \in Tables, EmptyTable(t) PROVE Reconciled'
  <2>1. /\ phase = "empty" /\ phase' = "empty" /\ todo' = todo \ {t}
        /\ UNCHANGED <<declared, schema, newly, truncating, package, jobsOf>>
    BY <1>5 DEF EmptyTable, onDisk
  <2>2. Truncated' = Truncated /\ Seeded' = Seeded
    BY <2>1 DEF Truncated, Seeded, TruncateTables, JobTables
  <2>3. schema \subseteq Tables /\ Truncated \subseteq Tables
    BY <1>0, <2>1, EmptiedAreOfTheSchema DEF TypeOK
  <2>4. \A u \in newly : rows'[u] = {}
    BY <1>0, <1>5, <2>1, <2>3, EmptiedIsReplaced DEF Reconciled
  <2>5. \A u \in Truncated \ todo' : rows'[u] = {}
    BY <1>0, <1>5, <2>1, <2>3, EmptiedIsReplaced DEF Reconciled
  <2> QED
    BY <1>0, <2>1, <2>2, <2>4, <2>5 DEF Reconciled
<1>6. CASE StorageInitialized
  BY <1>0, <1>6 DEF StorageInitialized, Reconciled, server, onDisk
<1>7. CASE UpdateStoredSchema
  BY <1>0, <1>7 DEF UpdateStoredSchema, Reconciled, server, onDisk
<1>8. ASSUME NEW j \in Job, RunJob(j) PROVE Reconciled'
  BY <1>0, <1>8 DEF RunJob, Reconciled
<1>9. CASE StartPackage \/ GiveUp \/ CompleteLoad \/ \E j \in Job : RefuseJob(j)
  BY <1>1, <1>9 DEF StartPackage, GiveUp, CompleteLoad, RefuseJob
<1>11. CASE Interrupt \/ Resume
  BY <1>0, <1>1, <1>11 DEF Interrupt, Resume, Running, Initializing, Reconciled, server, onDisk
<1>10. CASE UNCHANGED vars
  BY <1>0, <1>10 DEF Reconciled, Truncated, Seeded, TruncateTables, JobTables, vars, server, onDisk, call
<1> QED
  BY <1>2, <1>3, <1>4, <1>5, <1>6, <1>7, <1>8, <1>9, <1>10, <1>11 DEF Next, Step

\* A layout table declared without being seeded was orphaned by an interruption, or had
\* no column to be seeded with.
LEMMA SeedingKept == IInv /\ [Next]_vars => Seeding'
<1> SUFFICES ASSUME IInv, [Next]_vars PROVE Seeding'
  OBVIOUS
<1>0. Seeding /\ Reconciled
  BY DEF IInv
<1>1. CASE /\ UNCHANGED <<declared, established, orphaned, columnless>>
           /\ phase \notin {"declare", "empty"} \/ (phase = "empty" /\ todo = {})
  BY <1>0, <1>1 DEF Seeding
<1>2. CASE DeclareTable
  BY <1>0, <1>2 DEF DeclareTable, Seeding, Reconciled, history
<1>3. CASE TablesDeclared
  <2>1. phase = "declare" /\ phase' = "empty" /\ UNCHANGED <<declared, established, newly, orphaned>>
    BY <1>3 DEF TablesDeclared, server
  <2>2. /\ columnless \subseteq columnless'
        /\ newly \intersect Layout \subseteq todo' \union columnless'
    BY <1>3, EmptiedAreOfTheSchema DEF TablesDeclared, Seeded
  <2> QED
    BY <1>0, <2>1, <2>2 DEF Seeding
<1>4. ASSUME NEW t \in Tables, EmptyTable(t) PROVE Seeding'
  BY <1>0, <1>4 DEF EmptyTable, Seeding, history
<1>5. CASE Interrupt
  BY <1>0, <1>5 DEF Interrupt, Seeding, server
<1>6. CASE UNCHANGED vars
  BY <1>0, <1>6 DEF Seeding, vars, server, call, history
<1>7. CASE StartPackage \/ ListTables \/ StorageInitialized \/ UpdateStoredSchema \/ Resume \/ GiveUp
           \/ CompleteLoad \/ \E j \in Job : RunJob(j) \/ RefuseJob(j)
  BY <1>1, <1>7
  DEF StartPackage, ListTables, StorageInitialized, UpdateStoredSchema, Resume, RunJob, RefuseJob,
      GiveUp, CompleteLoad, server, history
<1> QED
  BY <1>2, <1>3, <1>4, <1>5, <1>6, <1>7 DEF Next, Step

\* A completed package's files stay in their tables or are replaced by a later one.
LEMMA WholeKept == IInv /\ [Next]_vars => CompletedPackagesAreWhole'
<1> SUFFICES ASSUME IInv, [Next]_vars,
                    NEW k \in completed', NEW j \in jobsOf'[k]
             PROVE  Loaded(k, j)' \/ (/\ j[1] \in Replace
                                      /\ \E l \in k + 1..package' : j[1] \in JobTables(jobsOf'[l]))
  BY DEF CompletedPackagesAreWhole, Loaded, JobTables
<1> DEFINE Replaced == j[1] \in Replace /\ \E l \in k + 1..package : j[1] \in JobTables(jobsOf[l])
<1>0. TypeOK /\ InHand /\ TypeOK' /\ package \in Nat /\ MaxPackages \in Nat
  BY TypesKept, BoundAssumption DEF IInv, TypeOK
<1>1. completed' = completed \/ CompleteLoad
  BY DEF Next, Step, vars, server, StartPackage, ListTables, DeclareTable, TablesDeclared, EmptyTable,
         StorageInitialized, UpdateStoredSchema, Interrupt, Resume, RunJob, RefuseJob, GiveUp
<1>2. (jobsOf' = jobsOf /\ package' = package) \/ StartPackage
  BY DEF Next, Step, vars, onDisk, ListTables, DeclareTable, TablesDeclared, EmptyTable,
         StorageInitialized, UpdateStoredSchema, Interrupt, Resume, RunJob, RefuseJob, GiveUp, CompleteLoad
<1>3. CASE CompleteLoad
  <2>1. /\ UNCHANGED <<rows, jobsOf, package>> /\ completed' = completed \union {package}
        /\ \A i \in jobsOf[package] : Loaded(package, i)
    BY <1>0, <1>3 DEF CompleteLoad, InHand, onDisk
  <2>2. CASE k = package
    BY <2>1, <2>2 DEF Loaded
  <2>3. CASE k \in completed
    <3>1. Loaded(k, j) \/ Replaced
      BY <2>1, <2>3 DEF IInv, CompletedPackagesAreWhole, Loaded
    <3> QED
      BY <2>1, <3>1 DEF Loaded, JobTables
  <2> QED
    BY <2>1, <2>2, <2>3
<1>4. CASE k \in completed /\ StartPackage
  <2>1. k \in 1..package /\ \A l \in 1..package : l \in 1..MaxPackages /\ l # package + 1
    BY <1>0, <1>4 DEF TypeOK
  <2>2. /\ rows' = rows /\ package' = package + 1
        /\ \E js : jobsOf' = [jobsOf EXCEPT ![package + 1] = js]
    BY <1>4 DEF StartPackage, server
  <2>3. \A l \in 1..package : jobsOf'[l] = jobsOf[l]
    BY <1>0, <2>1, <2>2 DEF TypeOK
  <2>4. j \in jobsOf[k]
    BY <2>1, <2>3
  <2>5. Loaded(k, j) \/ Replaced
    BY <1>4, <2>4 DEF IInv, CompletedPackagesAreWhole, Loaded
  <2>6. CASE Loaded(k, j)
    BY <2>2, <2>6 DEF Loaded
  <2>7. CASE Replaced
    <3>1. PICK l \in k + 1..package : j[1] \in JobTables(jobsOf[l])
      BY <2>7
    <3>2. l \in 1..package /\ l \in k + 1..package'
      BY <1>0, <2>1, <2>2, <3>1
    <3>3. j[1] \in JobTables(jobsOf'[l])
      BY <2>3, <3>1, <3>2
    <3> QED
      BY <2>7, <3>2, <3>3
  <2> QED
    BY <2>5, <2>6, <2>7
<1>5. CASE k \in completed /\ jobsOf' = jobsOf /\ package' = package
  <2>1. Loaded(k, j) \/ Replaced
    BY <1>5 DEF IInv, CompletedPackagesAreWhole, Loaded
  <2>2. k \in 1..package /\ j[1] \in Tables
    <3>1. k \in 1..package /\ k \in 1..MaxPackages
      BY <1>0, <1>5 DEF TypeOK
    <3>2. j \in Job
      BY <1>0, <1>5, <3>1 DEF TypeOK
    <3> QED
      BY <3>1, <3>2 DEF Job
  <2>3. CASE Replaced
    BY <1>5, <2>3 DEF JobTables
  <2>4. CASE Loaded(k, j) /\ rows' = rows
    BY <2>4 DEF Loaded
  <2>5. ASSUME Loaded(k, j), NEW i \in Job, RunJob(i) PROVE Loaded(k, j)'
    <3>1. rows[j[1]] \subseteq rows'[j[1]]
      BY <2>2, <2>5, JobAdds
    <3> QED
      BY <2>5, <3>1 DEF Loaded
  <2>6. ASSUME Loaded(k, j), NEW t \in Tables, EmptyTable(t) PROVE Loaded(k, j)' \/ Replaced
    <3>1. CASE t # j[1]
      BY <2>2, <2>6, <3>1, EmptiedIsReplaced DEF Loaded
    <3>2. CASE t = j[1]
      <4>1. t \in Replace /\ t \in JobTables(jobsOf[package])
        BY <2>6, <3>2, EmptiedIsReplaced DEF Loaded, TruncateTables
      <4>2. package \notin completed
        BY <1>0, <2>6 DEF InHand, EmptyTable
      <4>3. package \in k + 1..package
        BY <1>0, <1>5, <2>2, <4>2
      <4> QED
        BY <3>2, <4>1, <4>3
    <3> QED
      BY <3>1, <3>2
  <2> QED
    BY <1>5, <2>1, <2>3, <2>4, <2>5, <2>6, RowsChange DEF JobTables
<1> QED
  BY <1>1, <1>2, <1>3, <1>4, <1>5

\* When the jobs start, the tables to replace are empty; after that only they load.
LEMMA OneLoadKept == IInv /\ [Next]_vars => ReplacedTablesHoldOneLoad'
<1> SUFFICES ASSUME IInv, [Next]_vars, phase' \in {"jobs", "paused"},
                    NEW t \in TruncateTables', NEW r \in rows'[t]
             PROVE  r.package = package'
  BY DEF ReplacedTablesHoldOneLoad
<1>0. ReplacedTablesHoldOneLoad /\ Reconciled
  BY DEF IInv
<1>1. CASE StorageInitialized
  <2>1. phase = "empty" /\ todo = {} /\ truncating /\ UNCHANGED <<rows, package, jobsOf>>
    BY <1>1 DEF StorageInitialized, server, onDisk
  <2>2. t \in Truncated
    BY <2>1 DEF Truncated, TruncateTables, JobTables
  <2>3. rows[t] = {}
    BY <1>0, <2>1, <2>2 DEF Reconciled
  <2> QED
    BY <2>1, <2>3
<1>2. CASE UpdateStoredSchema
  BY <1>2 DEF UpdateStoredSchema, TruncateTables, JobTables, onDisk
<1>3. ASSUME NEW j \in Job, RunJob(j) PROVE r.package = package'
  <2>1. phase = "jobs" /\ UNCHANGED <<package, jobsOf>> /\ t \in TruncateTables
    BY <1>3 DEF RunJob, TruncateTables, JobTables
  <2>2. t \in Tables
    BY <2>1, TablesAssumption DEF TruncateTables, IInv, InHand, TypeOK
  <2>3. r \in rows[t] \/ r = [package |-> package, file |-> j[2], upload |-> faults]
    BY <1>3, <2>2, JobAdds
  <2> QED
    BY <1>0, <2>1, <2>3 DEF ReplacedTablesHoldOneLoad
<1>4. CASE UNCHANGED vars
  BY <1>0, <1>4 DEF ReplacedTablesHoldOneLoad, TruncateTables, JobTables, vars, server, onDisk
<1>5. CASE StartPackage \/ ListTables \/ DeclareTable \/ TablesDeclared \/ GiveUp
           \/ CompleteLoad \/ \E u \in Tables : EmptyTable(u)
  BY <1>5 DEF StartPackage, ListTables, DeclareTable, TablesDeclared, GiveUp, CompleteLoad, EmptyTable
<1>7. CASE Interrupt \/ Resume
  <2>1. phase \in {"jobs", "paused"} /\ UNCHANGED <<rows, package, jobsOf>>
    BY <1>7 DEF Interrupt, Resume, server, onDisk
  <2> QED
    BY <1>0, <2>1 DEF ReplacedTablesHoldOneLoad, TruncateTables, JobTables
<1>6. CASE \E j \in Job : RefuseJob(j)
  BY <1>6 DEF RefuseJob
<1> QED
  BY <1>1, <1>2, <1>3, <1>4, <1>5, <1>6, <1>7 DEF Next, Step

\* By the time a job runs, a table without its layout is one that was never seeded.
LEMMA RefusedKept == IInv /\ [Next]_vars => RefusedOnlyIfUnseeded'
<1> SUFFICES ASSUME IInv, [Next]_vars PROVE refused' \subseteq orphaned' \union columnless'
  BY DEF RefusedOnlyIfUnseeded
<1>0. refused \subseteq orphaned \union columnless
  BY DEF IInv, RefusedOnlyIfUnseeded
<1>1. ASSUME NEW j \in Job, RefuseJob(j)
      PROVE  refused' \subseteq orphaned' \union columnless'
  <2>1. phase = "jobs" /\ j \in jobsOf[package] /\ j[1] \in Layout \ established
    BY <1>1 DEF RefuseJob, MayAppend, IInv, InHand
  <2>2. j[1] \in declared
    BY <2>1 DEF IInv, TypeOK, InHand, Reconciled, JobTables
  <2>3. j[1] \in orphaned \union columnless
    BY <2>1, <2>2 DEF IInv, Seeding
  <2> QED
    BY <1>0, <1>1, <2>3 DEF RefuseJob
<1>2. CASE Interrupt \/ TablesDeclared
  BY <1>0, <1>2 DEF Interrupt, TablesDeclared
<1>3. CASE UNCHANGED <<refused, orphaned, columnless>>
  BY <1>0, <1>3
<1> QED
  BY <1>1, <1>2, <1>3
  DEF Next, Step, vars, history, StartPackage, ListTables, DeclareTable, EmptyTable,
      StorageInitialized, UpdateStoredSchema, Resume, RunJob, GiveUp, CompleteLoad

LEMMA StepInvariant == IInv /\ [Next]_vars => IInv'
  BY TypesKept, InHandKept, RowsAreOldKept, ReconciledKept, SeedingKept, WholeKept, OneLoadKept,
     RefusedKept
  DEF IInv

\* The invariant of LoadPackage: a call of initialize_storage, a package and its jobs
\* are where the phase says, whatever was interrupted before.
THEOREM Invariance == Spec => []IInv
<1>1. Init => IInv
  BY InitInvariant
<1>2. IInv /\ [Next]_vars => IInv'
  BY StepInvariant
<1> QED
  BY <1>1, <1>2, PTL DEF Spec

\* Type correctness of the load step.
THEOREM TypeCorrect == Spec => []TypeOK
<1>1. IInv => TypeOK
  BY DEF IInv
<1> QED
  BY <1>1, Invariance, PTL

\* Every file of a package with a row in _dlt_loads is in its table until a later
\* package replaces it, whatever initialize_storage repeats.
THEOREM PackagesAreWhole == Spec => []CompletedPackagesAreWhole
<1>1. IInv => CompletedPackagesAreWhole
  BY DEF IInv
<1> QED
  BY <1>1, Invariance, PTL

\* While a package's jobs run, a table it replaces holds that package's rows alone.
THEOREM ReplacesAreSingle == Spec => []ReplacedTablesHoldOneLoad
<1>1. IInv => ReplacedTablesHoldOneLoad
  BY DEF IInv
<1> QED
  BY <1>1, Invariance, PTL

\* A job is refused for want of a layout only on a table whose declaring
\* initialize_storage was cut short before the seed, or that was declared before it had
\* a complete column.
THEOREM RefusalsAreUnseeded == Spec => []RefusedOnlyIfUnseeded
<1>1. IInv => RefusedOnlyIfUnseeded
  BY DEF IInv
<1> QED
  BY <1>1, Invariance, PTL

\* A step erases rows only of a table the package in hand replaces, and only rows of
\* earlier packages: neither seeds nor repeated calls erase what was loaded.
THEOREM ErasuresAreReplaces == Spec => OnlyALaterReplaceErases
<1> DEFINE Erases == \A t \in Tables : \A r \in rows[t] \ rows'[t] :
                        t \in TruncateTables /\ r.package < package
<1>1. IInv /\ [Next]_vars => [Erases]_vars
  <2> SUFFICES ASSUME IInv, [Next]_vars, NEW t \in Tables, NEW r \in rows[t] \ rows'[t]
               PROVE  t \in TruncateTables /\ r.package < package
    OBVIOUS
  <2>1. PICK u \in Tables : EmptyTable(u)
    BY RowsChange, JobAdds
  <2>2. t = u
    BY <2>1, EmptiedIsReplaced
  <2>3. t \in TruncateTables
    BY <2>1, <2>2, EmptiedIsReplaced
  <2>4. phase \in Initializing
    BY <2>1 DEF EmptyTable, Initializing
  <2> QED
    BY <2>3, <2>4 DEF IInv, RowsAreOld, BeforeJobs
<1> QED
  BY <1>1, Invariance, PTL DEF Spec, OnlyALaterReplaceErases
=============================================================================
