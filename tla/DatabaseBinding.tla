--------------------------- MODULE DatabaseBinding ---------------------------
(***************************************************************************)
(* Which database a run addresses and what it has declared there:          *)
(* HotdataClient's run cache (the record, whether this run created it, its *)
(* catalog), ensure_managed_database, load_managed_table and               *)
(* drop_managed_database.  Every call makes a client of its own; what      *)
(* survives a call is the cache, and what survives a process the databases *)
(* and the configured id.  A request may fail for good between any two.    *)
(***************************************************************************)
EXTENDS Integers

CONSTANTS Tables,       \* tables the pipeline may come to have
          MaxDatabases  \* bound: databases that ever exist

ASSUME BindingAssumption == MaxDatabases \in Nat \ {0}

\* Databases are numbered in the order they are created; 0 is "none".
Databases == 1..MaxDatabases

VARIABLES made,      \* server: databases created so far
          alive,     \* server: those not deleted
          catalogOf, \* server: the catalog name of each
          declared,  \* server: its tables
          loaded,    \* server: its tables that a job has loaded
          databaseId,  \* the configured database_id, 0 if none
          cachedDb, cachedCreated, cachedCatalog,  \* the run cache
          schema,    \* tables in the dlt schema
          initialized, \* dlt: was the storage initialized for this schema?
          phase,     \* "idle", "bound", "declaring", "ensured" or "raised"
          caller,    \* who called: "probe", "initialize" or "job"
          wanted,    \* ensure_managed_database: its tables argument
          todo,      \* _reconcile_tables: tables still to add
          newly      \* newly_declared

server == <<made, alive, catalogOf, declared, loaded>>
cache  == <<cachedDb, cachedCreated, cachedCatalog>>
call   == <<caller, wanted, todo, newly>>
dlt    == <<databaseId, schema, initialized>>
vars   == <<server, cache, dlt, phase, call>>

Catalogs == {"default", "override"}

Pinned == databaseId # 0

\* create_if_missing.
MayCreate == caller # "probe"

Init ==
    /\ made \in {0, 1} /\ alive = 1..made
    /\ databaseId \in 0..made
    /\ catalogOf \in [Databases -> Catalogs]
    /\ \A d \in Databases : catalogOf[d] = "override" => d \in alive
    /\ \E some \in SUBSET Tables : \E full \in SUBSET some :
          /\ declared = [d \in Databases |-> IF d \in alive THEN some ELSE {}]
          /\ loaded   = [d \in Databases |-> IF d \in alive THEN full ELSE {}]
    /\ cachedDb = 0 /\ cachedCreated = FALSE /\ cachedCatalog = "none"
    /\ schema \in SUBSET Tables \ {{}} /\ initialized = FALSE
    /\ phase = "idle" /\ caller = "none" /\ wanted = {} /\ todo = {} /\ newly = {}

\* A later package brings tables the schema did not have.
GrowSchema ==
    /\ phase = "idle"
    /\ \E t \in Tables \ schema : schema' = schema \union {t}
    /\ initialized' = FALSE
    /\ UNCHANGED <<server, databaseId, cache, phase, call>>

\* ensure_managed_database is called: by is_storage_initialized for no tables, by
\* initialize_storage for all of them, then by each load job for its own.
Call ==
    /\ phase = "idle"
    /\ \/ caller' = "probe" /\ wanted' = {}
       \/ caller' = "initialize" /\ wanted' = schema
       \/ caller' = "job" /\ initialized /\ \E t \in schema : wanted' = {t}
    /\ phase' = "bound" /\ todo' = {} /\ newly' = {}
    /\ UNCHANGED <<server, cache, dlt>>

Resolving == phase = "bound" /\ cachedDb = 0

\* Mutant: the catalog of the record is dropped.
BindFaultyCatalog ==
    /\ Resolving /\ Pinned /\ databaseId \in alive
    /\ cachedDb' = databaseId /\ cachedCreated' = FALSE
    /\ UNCHANGED <<server, cachedCatalog, dlt, phase, call>>

\* _bind_by_id, and the record is cached.
Bind ==
    /\ Resolving /\ Pinned /\ databaseId \in alive
    /\ cachedDb' = databaseId /\ cachedCreated' = FALSE /\ cachedCatalog' = catalogOf[databaseId]
    /\ UNCHANGED <<server, dlt, phase, call>>

\* The record is missing, or there is no id and nothing may be created.
CannotBind ==
    /\ Resolving
    /\ IF Pinned THEN databaseId \notin alive ELSE ~MayCreate
    /\ phase' = "raised"
    /\ UNCHANGED <<server, cache, dlt, call>>

\* The server creates n databases, all but the last for attempts whose reply was
\* lost, each with every table that is wanted.
Make(n) ==
    /\ made + n =< MaxDatabases
    /\ made' = made + n /\ alive' = alive \union made + 1..made + n
    /\ declared' = [d \in Databases |-> IF d \in made + 1..made + n THEN wanted ELSE declared[d]]

\* Mutant: a pinned database that is gone is made anew.
CreateFaultyPinned ==
    /\ Resolving /\ MayCreate /\ (Pinned => databaseId \notin alive)
    /\ \E n \in 1..2 : Make(n)
    /\ cachedDb' = made' /\ cachedCreated' = TRUE /\ newly' = wanted /\ phase' = "ensured"
    /\ UNCHANGED <<catalogOf, loaded, cachedCatalog, dlt, caller, wanted, todo>>

\* Mutant: the created record is not cached.
CreateFaultyUncached ==
    /\ Resolving /\ ~Pinned /\ MayCreate
    /\ \E n \in 1..2 : Make(n)
    /\ newly' = wanted /\ phase' = "ensured"
    /\ UNCHANGED <<catalogOf, loaded, cache, dlt, caller, wanted, todo>>

\* _create.
Create ==
    /\ Resolving /\ ~Pinned /\ MayCreate
    /\ \E n \in 1..2 : Make(n)
    /\ cachedDb' = made' /\ cachedCreated' = TRUE /\ newly' = wanted /\ phase' = "ensured"
    /\ UNCHANGED <<catalogOf, loaded, cachedCatalog, dlt, caller, wanted, todo>>

\* Mutant: the tables of a created database stay new.
ReuseFaultyNewly ==
    /\ phase = "bound" /\ cachedDb # 0 /\ cachedCreated
    /\ phase' = "ensured" /\ newly' = wanted
    /\ UNCHANGED <<server, cache, dlt, caller, wanted, todo>>

\* A cached database that this run created is taken to have every table.
Reuse ==
    /\ phase = "bound" /\ cachedDb # 0 /\ cachedCreated
    /\ phase' = "ensured"
    /\ UNCHANGED <<server, cache, dlt, call>>

\* _reconcile_tables lists what a bound database has ...
Reconcile ==
    /\ phase = "bound" /\ cachedDb \in alive /\ ~cachedCreated
    /\ todo' = wanted \ declared[cachedDb] /\ newly' = todo'
    /\ phase' = "declaring"
    /\ UNCHANGED <<server, cache, dlt, caller, wanted>>

\* Mutant: the last table is left out.
AddTablesFaultyEarly ==
    /\ phase = "declaring"
    /\ IF todo = {} \/ \E t \in todo : todo = {t}
       THEN phase' = "ensured" /\ UNCHANGED <<declared, todo>>
       ELSE \E t \in todo :
               /\ declared' = [declared EXCEPT ![cachedDb] = @ \union {t}]
               /\ todo' = todo \ {t} /\ UNCHANGED phase
    /\ UNCHANGED <<made, alive, catalogOf, loaded, cache, dlt, caller, wanted, newly>>

\* ... and adds what is missing, table by table.
AddTables ==
    /\ phase = "declaring"
    /\ IF todo = {}
       THEN phase' = "ensured" /\ UNCHANGED <<declared, todo>>
       ELSE \E t \in todo :
               /\ declared' = [declared EXCEPT ![cachedDb] = @ \union {t}]
               /\ todo' = todo \ {t} /\ UNCHANGED phase
    /\ UNCHANGED <<made, alive, catalogOf, loaded, cache, dlt, caller, wanted, newly>>

\* The caller goes on: a load job loads its table, and fails without it.
Return ==
    /\ phase \in {"ensured", "raised"}
    /\ loaded' = IF phase = "ensured" /\ caller = "job" /\ cachedDb \in alive
                 THEN [loaded EXCEPT ![cachedDb] = @ \union (wanted \intersect declared[cachedDb])]
                 ELSE loaded
    /\ phase' = "idle" /\ caller' = "none" /\ wanted' = {} /\ todo' = {} /\ newly' = {}
    /\ initialized' = (initialized \/ (phase = "ensured" /\ caller = "initialize"))
    /\ UNCHANGED <<made, alive, catalogOf, declared, databaseId, cache, schema>>

\* A request of the call fails past its retries.
Fail ==
    /\ phase \in {"bound", "declaring"}
    /\ phase' = "raised"
    /\ UNCHANGED <<server, cache, dlt, call>>

\* The database drop_managed_database deletes.
Target == IF cachedDb # 0 THEN cachedDb ELSE databaseId

\* drop_managed_database: the record is fetched if need be, the database deleted,
\* the cache emptied.  When the reply to the deletion is lost, or the request
\* fails, the caller gets an error and the cache is as it was.
Drop ==
    /\ phase = "idle" /\ (cachedDb # 0 \/ Pinned) /\ Target \in alive
    /\ \/ /\ alive' = alive \ {Target}
          /\ cachedDb' = 0 /\ cachedCreated' = FALSE /\ cachedCatalog' = "none"
       \/ /\ alive' \in {alive, alive \ {Target}}
          /\ cachedCatalog' = IF cachedDb = 0 THEN catalogOf[databaseId] ELSE cachedCatalog
          /\ UNCHANGED <<cachedDb, cachedCreated>>
    /\ initialized' = FALSE
    /\ UNCHANGED <<made, catalogOf, declared, loaded, databaseId, schema, phase, call>>

\* The process ends, or dies, and the next one starts with an empty cache, perhaps
\* with the id that _create logged pinned by then; a package whose storage was
\* initialized goes on with its jobs.
Restart ==
    /\ cachedDb' = 0 /\ cachedCreated' = FALSE /\ cachedCatalog' = "none"
    /\ phase' = "idle" /\ caller' = "none" /\ wanted' = {} /\ todo' = {} /\ newly' = {}
    /\ databaseId' \in 0..made
    /\ UNCHANGED <<server, schema, initialized>>

Next ==
    \/ GrowSchema \/ Call \/ Bind \/ CannotBind \/ Create \/ Reuse \/ Reconcile \/ AddTables
    \/ Return \/ Fail \/ Drop \/ Restart

Spec == Init /\ [][Next]_vars
-----------------------------------------------------------------------------
(* Properties.                                                             *)

TypeOK ==
    /\ made \in 0..MaxDatabases /\ alive \subseteq 1..made
    /\ declared \in [Databases -> SUBSET Tables]
    /\ loaded \in [Databases -> SUBSET Tables]
    /\ \A d \in Databases : loaded[d] \subseteq declared[d]
    /\ cachedDb \in 0..made /\ cachedCreated \in BOOLEAN
    /\ cachedCatalog \in Catalogs \union {"none"}
    /\ phase \in {"idle", "bound", "declaring", "ensured", "raised"}
    /\ caller \in {"none", "probe", "initialize", "job"}
    /\ schema \subseteq Tables /\ initialized \in BOOLEAN
    /\ wanted \subseteq schema /\ todo \subseteq wanted /\ newly \subseteq wanted
    /\ phase \in {"declaring", "ensured"} => cachedDb # 0

\* The name that qualifies a read (HotdataClient.catalog) is the one the cached
\* database answers to, over drops, restarts and failed deletions.
CatalogIsTheDatabases ==
    phase = "ensured" =>
        (IF cachedCatalog = "none" THEN "default" ELSE cachedCatalog) = catalogOf[cachedDb]

\* A table is reported as newly declared, and so seeded by a load that empties it,
\* only if nothing was ever loaded into it.
NewTablesAreEmpty == phase = "ensured" => newly \intersect loaded[cachedDb] = {}

\* A run with a database_id configured makes no other database and addresses none,
\* though its own be dropped: data never goes quietly somewhere else.
PinnedRunsStayPut ==
    [][Pinned => made' = made /\ cachedDb' \in {0, databaseId}]_vars

\* With a database_id configured a load job finds its table, over schema growth,
\* failed requests and restarts with another id.
PinnedJobsFindTheirTables ==
    phase = "ensured" /\ caller = "job" /\ Pinned => wanted \subseteq declared[cachedDb]

\* docs/architecture.md:42: ensure_managed_database "declares any missing tables in
\* place", so a load job finds its table.
JobTablesAreDeclared ==
    phase = "ensured" /\ caller = "job" => wanted \subseteq declared[cachedDb]
=============================================================================
