------------------------------ MODULE SqlReads ------------------------------
(***************************************************************************)
(* The dataset SQL client.  A job client keeps one HotdataSqlClient, so    *)
(* every consumer of a dataset goes through the one connection it holds:   *)
(* each opens and closes it as a context of its own, names its table,      *)
(* queries, and walks the result by a cursor over an Arrow table.          *)
(***************************************************************************)
EXTENDS Integers, Sequences

CONSTANTS Consumers,  \* contexts that share the client
          MaxRows,    \* bound: rows of a result
          MaxOpens,   \* bound: connections opened
          MaxFaults   \* bound: failing requests

ASSUME BoundAssumption == MaxRows \in Nat /\ MaxOpens \in Nat /\ MaxFaults \in Nat

VARIABLES configured,  \* is a database_id configured?
          exists,      \* ... of a database that exists?
          override,    \* server: was it created with a catalog override?
          tableThere,  \* server: does the table the consumers read exist?
          bound,       \* run cache: is the database resolved?
          client,      \* _client: the number of the open HotdataClient, 0 for None
          opens,       \* bounded: connections opened
          live,        \* the clients that were opened and not closed
          inside,      \* per consumer: is it in its context?
          name,        \* per consumer: the catalog its table name was built with
          size,        \* per consumer: rows of its cursor's table, -1 without cursor
          pos,         \* per consumer: its cursor's _pos
          got,         \* per consumer: the rows it fetched
          raised,      \* per consumer: the exception its read ended with
          faults,      \* bounded: failing requests
          overlapped,  \* history: did a context open inside another?
          early,       \* history, per consumer: was the name built without a connection?
          failed       \* history, per consumer: how its requests failed

setting    == <<configured, exists, override, tableThere>>
connection == <<client, opens, live, inside>>
cursor     == <<size, pos, got>>
vars       == <<setting, bound, connection, name, cursor, raised, faults, overlapped, early, failed>>

\* A failure, and the dlt exception _make_database_exception makes of it.  One
\* whose messages hold a marker of UNDEFINED_RELATION_MARKERS is "worded".
MakeDatabaseException ==
    [transient |-> "transient", terminal |-> "terminal", worded |-> "undefined"]

Kind == DOMAIN MakeDatabaseException

Init ==
    /\ configured \in BOOLEAN /\ exists \in BOOLEAN /\ override \in BOOLEAN
    /\ tableThere \in BOOLEAN /\ (override => configured /\ exists)
    /\ bound = FALSE /\ client = 0 /\ opens = 0 /\ live = {}
    /\ inside = [c \in Consumers |-> FALSE]
    /\ name   = [c \in Consumers |-> "none"]
    /\ size   = [c \in Consumers |-> -1]
    /\ pos    = [c \in Consumers |-> 0]
    /\ got    = [c \in Consumers |-> <<>>]
    /\ raised = [c \in Consumers |-> "none"]
    /\ faults = 0 /\ overlapped = FALSE
    /\ early  = [c \in Consumers |-> FALSE]
    /\ failed = [c \in Consumers |-> {}]

\* The catalog the database answers to.
Catalog == IF override THEN "own" ELSE "default"

\* _require_db: from the run cache, or by the configured id.
Resolvable == bound \/ (configured /\ exists)

Raise(c, exception) == raised' = [raised EXCEPT ![c] = exception]

RequestFails(c, kind) ==
    /\ faults < MaxFaults
    /\ faults' = faults + 1
    /\ failed' = [failed EXCEPT ![c] = @ \union {kind}]
    /\ Raise(c, MakeDatabaseException[kind])

(* The context: __enter__ opens the connection, __exit__ closes it.        *)

\* open_connection takes the place of whatever client there was.
Open(c) ==
    /\ ~inside[c] /\ opens < MaxOpens /\ raised[c] = "none"
    /\ opens' = opens + 1
    /\ client' = opens + 1
    /\ live' = live \union {opens + 1}
    /\ inside' = [inside EXCEPT ![c] = TRUE]
    /\ overlapped' = (overlapped \/ \E d \in Consumers : inside[d])
    /\ UNCHANGED <<setting, bound, name, cursor, raised, faults, early, failed>>

\* Mutant: the client is forgotten without being closed.
CloseFaultyForgotten(c) ==
    /\ inside[c]
    /\ client' = 0
    /\ inside' = [inside EXCEPT ![c] = FALSE]
    /\ UNCHANGED <<setting, bound, opens, live, name, cursor, raised, faults, overlapped, early, failed>>

\* close_connection closes the client there is, whoever opened it.
Close(c) ==
    /\ inside[c]
    /\ live' = live \ {client}
    /\ client' = 0
    /\ inside' = [inside EXCEPT ![c] = FALSE]
    /\ UNCHANGED <<setting, bound, opens, name, cursor, raised, faults, overlapped, early, failed>>

(* A read: its name, its query, its rows.                                  *)

\* Mutant: the catalog is "default" unless it is known already.
CatalogNameFaultyUnresolved(c) ==
    /\ name[c] = "none" /\ raised[c] = "none"
    /\ name' = [name EXCEPT ![c] = IF bound THEN Catalog ELSE "default"]
    /\ early' = [early EXCEPT ![c] = (client = 0)]
    /\ UNCHANGED <<setting, bound, connection, cursor, raised, faults, overlapped, failed>>

\* catalog_name: the resolved catalog; "default" without a connection or where no
\* database is resolved (KeyError).
CatalogName(c) ==
    /\ name[c] = "none" /\ raised[c] = "none"
    /\ name' = [name EXCEPT ![c] = IF client # 0 /\ Resolvable THEN Catalog ELSE "default"]
    /\ bound' = (bound \/ (client # 0 /\ Resolvable))
    /\ early' = [early EXCEPT ![c] = (client = 0)]
    /\ UNCHANGED <<setting, connection, cursor, raised, faults, overlapped, failed>>

\* ... or the exception of the request that binds the database.
CatalogNameFails(c, kind) ==
    /\ name[c] = "none" /\ raised[c] = "none"
    /\ client # 0 /\ ~bound /\ configured
    /\ RequestFails(c, kind)
    /\ UNCHANGED <<setting, bound, connection, name, cursor, overlapped, early>>

\* A consumer in its context runs its query: execute_query.
Querying(c) == inside[c] /\ name[c] # "none" /\ size[c] = -1 /\ raised[c] = "none"

\* No client (AttributeError on None), or no database (KeyError).  The 404 of a
\* configured id is among the causes of its KeyError: "not found" is a marker.
QueryHasNoTarget(c) ==
    /\ Querying(c) /\ (client = 0 \/ ~Resolvable)
    /\ Raise(c, IF client # 0 /\ configured THEN "undefined" ELSE "terminal")
    /\ UNCHANGED <<setting, bound, connection, name, cursor, faults, overlapped, early, failed>>

\* The server knows no table of that name.
QueryFindsNoTable(c) ==
    /\ Querying(c) /\ client # 0 /\ Resolvable
    /\ ~tableThere \/ name[c] # Catalog
    /\ bound' = TRUE
    /\ Raise(c, "undefined")
    /\ UNCHANGED <<setting, connection, name, cursor, faults, overlapped, early, failed>>

\* Another failure, with the database bound by then or not.
QueryFails(c, kind) ==
    /\ Querying(c) /\ client # 0 /\ Resolvable
    /\ RequestFails(c, kind)
    /\ bound' \in {bound, TRUE}
    /\ UNCHANGED <<setting, connection, name, cursor, overlapped, early>>

\* The result is fetched whole and handed out as a cursor.
QueryAnswers(c) ==
    /\ Querying(c) /\ client # 0 /\ Resolvable /\ tableThere /\ name[c] = Catalog
    /\ bound' = TRUE
    /\ \E rows \in 0..MaxRows : size' = [size EXCEPT ![c] = rows]
    /\ pos' = [pos EXCEPT ![c] = 0]
    /\ got' = [got EXCEPT ![c] = <<>>]
    /\ UNCHANGED <<setting, connection, name, raised, faults, overlapped, early, failed>>

\* The rows pos + 1 .. end go to the consumer.
Hand(c, end) ==
    /\ got' = [got EXCEPT ![c] = @ \o [i \in 1..end - pos[c] |-> pos[c] + i]]
    /\ pos' = [pos EXCEPT ![c] = end]
    /\ UNCHANGED <<setting, bound, connection, name, size, raised, faults, overlapped, early, failed>>

\* Mutant: fetchone does not advance.
FetchOneFaultyStays(c) ==
    /\ pos[c] < size[c]
    /\ got' = [got EXCEPT ![c] = Append(@, pos[c] + 1)]
    /\ Len(got[c]) < 2 * MaxRows
    /\ UNCHANGED <<setting, bound, connection, name, size, pos, raised, faults, overlapped, early, failed>>

\* At the end fetchone returns None, and the others no rows.
FetchOne(c) == pos[c] < size[c] /\ Hand(c, pos[c] + 1)

FetchMany(c, count) ==
    /\ pos[c] < size[c]
    /\ Hand(c, IF pos[c] + count < size[c] THEN pos[c] + count ELSE size[c])

\* fetchall, and fetchmany without a size.
FetchAll(c) == pos[c] < size[c] /\ Hand(c, size[c])

\* The consumer is done with the read, with its rows or its exception.
Forget(c) ==
    /\ size[c] >= 0 \/ raised[c] # "none"
    /\ name' = [name EXCEPT ![c] = "none"]
    /\ size' = [size EXCEPT ![c] = -1]
    /\ pos' = [pos EXCEPT ![c] = 0]
    /\ got' = [got EXCEPT ![c] = <<>>]
    /\ raised' = [raised EXCEPT ![c] = "none"]
    /\ early' = [early EXCEPT ![c] = FALSE]
    /\ failed' = [failed EXCEPT ![c] = {}]
    /\ UNCHANGED <<setting, bound, connection, faults, overlapped>>

\* A load of the same run creates the database (and the cache is shared).
RunCreatesDatabase ==
    /\ ~configured /\ ~bound
    /\ bound' = TRUE
    /\ UNCHANGED <<setting, connection, name, cursor, raised, faults, overlapped, early, failed>>

Next ==
    \/ \E c \in Consumers :
          \/ Open(c) \/ Close(c) \/ CatalogName(c)
          \/ QueryHasNoTarget(c) \/ QueryFindsNoTable(c) \/ QueryAnswers(c)
          \/ FetchOne(c) \/ FetchAll(c) \/ Forget(c)
          \/ \E count \in 1..MaxRows : FetchMany(c, count)
          \/ \E kind \in Kind : CatalogNameFails(c, kind) \/ QueryFails(c, kind)
    \/ RunCreatesDatabase

Spec == Init /\ [][Next]_vars
-----------------------------------------------------------------------------
(* Properties.                                                             *)

TypeOK ==
    /\ configured \in BOOLEAN /\ exists \in BOOLEAN /\ override \in BOOLEAN
    /\ tableThere \in BOOLEAN /\ bound \in BOOLEAN /\ overlapped \in BOOLEAN
    /\ opens \in Nat /\ client \in 0..opens /\ live \subseteq 1..opens
    /\ inside \in [Consumers -> BOOLEAN] /\ early \in [Consumers -> BOOLEAN]
    /\ name \in [Consumers -> {"none", "default", "own"}]
    /\ size \in [Consumers -> Nat \union {-1}] /\ pos \in [Consumers -> Nat]
    /\ got \in [Consumers -> Seq(Nat)]
    /\ raised \in [Consumers -> {"none", "undefined", "transient", "terminal"}]
    /\ faults \in Nat /\ failed \in [Consumers -> SUBSET Kind]

\* Whatever mix of fetches a consumer makes, and whoever closes the connection
\* meanwhile, it gets the rows of its result in order, none twice, none left out.
FetchesFollowTheResult ==
    \A c \in Consumers : got[c] = [i \in 1..pos[c] |-> i] /\ (pos[c] > 0 => pos[c] <= size[c])

\* sql_client.py:247: a read does not report a missing table in place of what went
\* wrong.  A read that fails is owed an explanation: DatabaseUndefinedRelation, that
\* the table or the configured database is missing, a failure's wording, or a name
\* built without a connection for a database with a catalog of its own; a terminal
\* exception, a terminal failure, contexts that overlapped, or no configured database.
ReadsFailForCause ==
    \A c \in Consumers :
        /\ raised[c] = "undefined" =>
              \/ ~tableThere \/ (configured /\ ~exists)
              \/ "worded" \in failed[c] \/ (early[c] /\ override)
        /\ raised[c] = "transient" => "transient" \in failed[c]
        /\ raised[c] = "terminal" =>
              "terminal" \in failed[c] \/ overlapped \/ ~configured

\* Unless contexts overlapped, every client is closed by the context it served.
ClientsAreClosed ==
    ~overlapped => /\ live \subseteq {client}
                   /\ (\A c \in Consumers : ~inside[c]) => live = {}
=============================================================================
