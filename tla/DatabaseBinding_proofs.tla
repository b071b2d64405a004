------------------------ MODULE DatabaseBinding_proofs ------------------------
(***************************************************************************)
(* Theorems about DatabaseBinding, for any tables and any number of        *)
(* databases.                                                              *)
(***************************************************************************)
EXTENDS DatabaseBinding, TLAPS

\* The cache of a run with an id holds that database or none, never marked as
\* created; without an id what is cached was created, and no catalog is.
Bound ==
    /\ databaseId \in 0..made
    /\ Pinned  => cachedDb \in {0, databaseId} /\ cachedCreated = FALSE
    /\ ~Pinned => cachedCatalog = "none" /\ (cachedDb # 0 => cachedCreated)

\* Databases yet to be made are empty and have the default catalog.
Fresh ==
    /\ catalogOf \in [Databases -> Catalogs]
    /\ \A d \in Databases \ 1..made :
          declared[d] = {} /\ loaded[d] = {} /\ catalogOf[d] = "default"

\* What a call still has to add to the database, and which tables it holds new.
Reconciled ==
    /\ phase = "bound" => newly = {}
    /\ phase \in {"declaring", "ensured"} => newly \intersect loaded[cachedDb] = {}
    /\ phase = "declaring" => wanted \ todo \subseteq declared[cachedDb]
    /\ phase = "ensured" /\ Pinned => wanted \subseteq declared[cachedDb]

\* A database created without an override answers to "default".
Named ==
    cachedDb # 0 =>
        (IF cachedCatalog = "none" THEN "default" ELSE cachedCatalog) = catalogOf[cachedDb]

\* The inductive invariant.
IInv == TypeOK /\ Bound /\ Fresh /\ Reconciled /\ Named

\* It holds before the first call.
LEMMA InitInvariant == Init => IInv
<1> SUFFICES ASSUME Init PROVE IInv
  OBVIOUS
<1> USE BindingAssumption DEF Init
<1>1. TypeOK
  <2>1. made \in 0..MaxDatabases /\ alive \subseteq 1..made /\ cachedDb \in 0..made
    BY DEF TypeOK
  <2>2. /\ declared \in [Databases -> SUBSET Tables]
        /\ loaded \in [Databases -> SUBSET Tables]
        /\ \A d \in Databases : loaded[d] \subseteq declared[d]
    OBVIOUS
  <2> QED
    BY <2>1, <2>2 DEF TypeOK
<1>2. Bound
  BY DEF Bound, Pinned
<1>3. Fresh
  BY DEF Fresh, Databases, Catalogs
<1>4. Reconciled /\ Named
  BY DEF Reconciled, Named
<1> QED
  BY <1>1, <1>2, <1>3, <1>4 DEF IInv

\* Creating a database (_create) keeps it: the new one is empty.
LEMMA CreateKeeps == ASSUME IInv, Create PROVE IInv'
<1> USE BindingAssumption DEF Databases
<1>1. PICK n \in 1..2 : Make(n)
  BY DEF Create
<1>2. made \in 0..MaxDatabases /\ made' = made + n /\ made' \in 1..MaxDatabases
  BY <1>1 DEF Make, IInv, TypeOK
<1>3. /\ ~Pinned /\ ~Pinned' /\ cachedDb = 0 /\ cachedDb' = made' /\ cachedCreated' = TRUE
      /\ newly' = wanted /\ phase' = "ensured"
      /\ UNCHANGED <<catalogOf, loaded, cachedCatalog, databaseId, schema, initialized,
                     caller, wanted, todo>>
  BY DEF Create, Resolving, dlt, Pinned
<1>4. declared' \in [Databases -> SUBSET Tables]
  BY <1>1 DEF Make, IInv, TypeOK
<1>5. /\ \A d \in made + 1..made' : declared'[d] = wanted
      /\ \A d \in Databases \ (made + 1..made') : declared'[d] = declared[d]
  BY <1>1, <1>2 DEF Make
<1>6. loaded[made'] = {} /\ catalogOf[made'] = "default"
  BY <1>2 DEF IInv, Fresh
<1>7. TypeOK'
  <2>1. alive' \subseteq 1..made'
    BY <1>1, <1>2 DEF Make, IInv, TypeOK
  <2>2. \A d \in Databases : loaded[d] \subseteq declared'[d]
    BY <1>2, <1>5 DEF IInv, TypeOK, Fresh
  <2> QED
    BY <1>2, <1>3, <1>4, <2>1, <2>2 DEF IInv, TypeOK
<1>8. Bound'
  BY <1>2, <1>3 DEF IInv, Bound, Pinned
<1>9. Fresh'
  BY <1>2, <1>3, <1>5 DEF IInv, Fresh
<1>10. Reconciled' /\ Named'
  BY <1>3, <1>6 DEF IInv, Reconciled, Named, Bound
<1> QED
  BY <1>7, <1>8, <1>9, <1>10 DEF IInv

\* Adding the missing tables (_reconcile_tables) keeps it.
LEMMA AddTablesKeeps == ASSUME IInv, AddTables PROVE IInv'
<1> USE DEF IInv
<1>1. CASE todo = {}
  <2>1. /\ phase = "declaring" /\ phase' = "ensured"
        /\ UNCHANGED <<server, cache, dlt, caller, wanted, todo, newly>>
    BY <1>1 DEF AddTables, server
  <2> QED
    BY <1>1, <2>1 DEF TypeOK, Bound, Fresh, Reconciled, Named, Pinned, server, cache, dlt
<1>2. CASE todo # {}
  <2>1. PICK t \in todo :
           /\ declared' = [declared EXCEPT ![cachedDb] = @ \union {t}]
           /\ todo' = todo \ {t}
    BY <1>2 DEF AddTables
  <2>2. /\ phase = "declaring" /\ phase' = "declaring" /\ cachedDb # 0
        /\ UNCHANGED <<made, alive, catalogOf, loaded, cache, dlt, caller, wanted, newly>>
    BY <1>2 DEF AddTables, TypeOK
  <2>3. t \in Tables /\ cachedDb \in 1..made /\ cachedDb \in Databases
    BY <2>2, BindingAssumption DEF TypeOK, Databases
  <2>4. /\ declared' \in [Databases -> SUBSET Tables]
        /\ declared'[cachedDb] = declared[cachedDb] \union {t}
        /\ \A d \in Databases : declared[d] \subseteq declared'[d]
        /\ \A d \in Databases \ 1..made : declared'[d] = declared[d]
    BY <2>1, <2>3 DEF TypeOK
  <2>5. TypeOK'
    BY <2>1, <2>2, <2>4 DEF TypeOK, cache, dlt
  <2>6. Bound' /\ Named' /\ Fresh'
    BY <2>2, <2>4 DEF Bound, Named, Fresh, Pinned, cache, dlt
  <2>7. Reconciled'
    BY <2>1, <2>2, <2>4 DEF Reconciled, cache
  <2> QED
    BY <2>5, <2>6, <2>7
<1> QED
  BY <1>1, <1>2

\* A load job loads only a table that is declared.
LEMMA ReturnKeeps == ASSUME IInv, Return PROVE IInv'
<1> USE DEF IInv
<1>1. /\ phase' = "idle" /\ caller' = "none" /\ wanted' = {} /\ todo' = {} /\ newly' = {}
      /\ initialized' \in BOOLEAN
      /\ UNCHANGED <<made, alive, catalogOf, declared, databaseId, cache, schema>>
  BY DEF Return, TypeOK
<1>2. /\ loaded' \in [Databases -> SUBSET Tables]
      /\ \A d \in Databases : loaded'[d] \subseteq declared[d]
      /\ \A d \in Databases \ 1..made : loaded'[d] = loaded[d]
  <2>1. CASE loaded' = loaded
    BY <2>1 DEF TypeOK
  <2>2. CASE /\ cachedDb \in alive
             /\ loaded' = [loaded EXCEPT ![cachedDb] =
                              @ \union (wanted \intersect declared[cachedDb])]
    <3>1. cachedDb \in 1..made /\ cachedDb \in Databases
      BY <2>2, BindingAssumption DEF TypeOK, Databases
    <3> QED
      BY <2>2, <3>1 DEF TypeOK
  <2> QED
    BY <2>1, <2>2 DEF Return
<1>3. TypeOK'
  BY <1>1, <1>2 DEF TypeOK, cache
<1>4. Bound' /\ Fresh' /\ Reconciled' /\ Named'
  BY <1>1, <1>2 DEF Bound, Fresh, Reconciled, Named, Pinned, cache
<1> QED
  BY <1>3, <1>4

\* Every step keeps the invariant.
LEMMA StepInvariant == IInv /\ [Next]_vars => IInv'
<1> SUFFICES ASSUME IInv, [Next]_vars PROVE IInv'
  OBVIOUS
<1> USE DEF IInv, TypeOK, Bound, Fresh, Reconciled, Named, Pinned
<1>1. CASE GrowSchema
  BY <1>1 DEF GrowSchema, server, cache, call
<1>2. CASE Call
  BY <1>2 DEF Call, server, cache, dlt
<1>3. CASE Bind
  <2>1. databaseId \in 1..made /\ databaseId \in Databases
    BY <1>3, BindingAssumption DEF Bind, Databases
  <2>2. catalogOf[databaseId] \in Catalogs /\ catalogOf[databaseId] # "none"
    BY <2>1 DEF Catalogs
  <2> QED
    BY <1>3, <2>1, <2>2 DEF Bind, Resolving, server, dlt, call
<1>4. CASE CannotBind
  BY <1>4 DEF CannotBind, Resolving, server, cache, dlt, call
<1>5. CASE Create
  BY <1>5, CreateKeeps
<1>6. CASE Reuse
  BY <1>6 DEF Reuse, server, cache, dlt, call
<1>7. CASE Reconcile
  <2>1. cachedDb \in 1..made /\ cachedDb \in Databases
    BY <1>7, BindingAssumption DEF Reconcile, Databases
  <2> QED
    BY <1>7, <2>1 DEF Reconcile, server, cache, dlt
<1>8. CASE AddTables
  BY <1>8, AddTablesKeeps
<1>9. CASE Return
  BY <1>9, ReturnKeeps
<1>10. CASE Fail
  BY <1>10 DEF Fail, server, cache, dlt, call
<1>11. CASE Drop
  <2>1. /\ phase = "idle" /\ alive' \subseteq alive
        /\ UNCHANGED <<made, catalogOf, declared, loaded, databaseId, schema, phase, call>>
    BY <1>11 DEF Drop
  <2>2. initialized' = FALSE
    BY <1>11 DEF Drop
  <2>3. CASE cachedDb' = 0 /\ cachedCreated' = FALSE /\ cachedCatalog' = "none"
    <3>1. TypeOK'
      <4>1. made' \in 0..MaxDatabases /\ alive' \subseteq 1..made' /\ cachedDb' \in 0..made'
        BY <2>1, <2>3, BindingAssumption
      <4>2. UNCHANGED <<declared, loaded, schema, phase, caller, wanted, todo, newly>>
        BY <2>1 DEF call
      <4> QED
        BY <4>1, <4>2, <2>1, <2>2, <2>3
    <3>2. Bound' /\ Fresh'
      BY <2>1, <2>3
    <3>3. Reconciled' /\ Named'
      BY <2>1, <2>3 DEF call
    <3> QED
      BY <3>1, <3>2, <3>3
  <2>4. CASE /\ cachedCatalog' = IF cachedDb = 0 THEN catalogOf[databaseId] ELSE cachedCatalog
             /\ UNCHANGED <<cachedDb, cachedCreated>>
    <3>1. cachedDb = 0 => databaseId \in Databases
      BY <1>11, BindingAssumption DEF Drop, Databases
    <3> QED
      BY <1>11, <2>1, <2>2, <2>4, <3>1 DEF Drop, call
  <2> QED
    BY <1>11, <2>3, <2>4 DEF Drop
<1>12. CASE Restart
  <2>1. /\ cachedDb' = 0 /\ cachedCreated' = FALSE /\ cachedCatalog' = "none"
        /\ phase' = "idle" /\ caller' = "none" /\ wanted' = {} /\ todo' = {} /\ newly' = {}
        /\ databaseId' \in 0..made
        /\ UNCHANGED <<made, alive, catalogOf, declared, loaded, schema, initialized>>
    BY <1>12 DEF Restart, server
  <2>2. TypeOK'
    <3>1. made' \in 0..MaxDatabases /\ alive' \subseteq 1..made' /\ cachedDb' \in 0..made'
      BY <2>1, BindingAssumption
    <3> QED
      BY <2>1, <3>1
  <2>3. Bound' /\ Fresh'
    BY <2>1
  <2>4. Reconciled' /\ Named'
    BY <2>1
  <2> QED
    BY <2>2, <2>3, <2>4
<1>13. CASE UNCHANGED vars
  BY <1>13 DEF vars, server, cache, dlt, call
<1> QED
  BY <1>1, <1>2, <1>3, <1>4, <1>5, <1>6, <1>7, <1>8, <1>9, <1>10, <1>11, <1>12, <1>13
     DEF Next

\* The invariant holds throughout.
LEMMA Invariant == Spec => []IInv
  BY InitInvariant, StepInvariant, PTL DEF Spec
-----------------------------------------------------------------------------
\* The types of the run cache, of a call and of the server's databases.
THEOREM TypeCorrect == Spec => []TypeOK
<1>1. IInv => TypeOK
  BY DEF IInv
<1> QED
  BY <1>1, Invariant, PTL

\* With a database_id configured a load job finds its table declared, however the
\* schema grows and whatever requests fail in between (ensure_managed_database).
THEOREM JobsFindTheirTables == Spec => []PinnedJobsFindTheirTables
<1>1. IInv => PinnedJobsFindTheirTables
  BY DEF IInv, Reconciled, PinnedJobsFindTheirTables
<1> QED
  BY <1>1, Invariant, PTL

\* newly_declared never names a table that was loaded, so that the seed
\* initialize_storage makes of it empties nothing.
THEOREM SeedsEmptyNothing == Spec => []NewTablesAreEmpty
<1>1. IInv => NewTablesAreEmpty
  BY DEF IInv, Reconciled, NewTablesAreEmpty
<1> QED
  BY <1>1, Invariant, PTL

\* HotdataClient.catalog is the name of the database in the cache, however it got
\* there.
THEOREM CatalogIsRight == Spec => []CatalogIsTheDatabases
<1>1. IInv => CatalogIsTheDatabases
  BY DEF IInv, TypeOK, Named, CatalogIsTheDatabases
<1> QED
  BY <1>1, Invariant, PTL

\* With a database_id configured no call makes another database, not even after
\* drop_storage deleted the pinned one.
THEOREM PinnedRunsNeverMove == Spec => PinnedRunsStayPut
<1>1. IInv /\ [Next]_vars => (Pinned => made' = made /\ cachedDb' \in {0, databaseId})
  <2> SUFFICES ASSUME IInv, Pinned, [Next]_vars
               PROVE  made' = made /\ cachedDb' \in {0, databaseId}
    OBVIOUS
  <2>1. cachedDb \in {0, databaseId}
    BY DEF IInv, Bound
  <2> QED
    BY <2>1 DEF Next, vars, server, cache, call, dlt, GrowSchema, Call, Bind, CannotBind,
                Create, Reuse, Reconcile, AddTables, Return, Fail, Drop, Restart
<1> QED
  BY <1>1, Invariant, PTL DEF Spec, PinnedRunsStayPut
=============================================================================
