--------------------------- MODULE SqlReads_proofs ---------------------------
(***************************************************************************)
(* Theorems about SqlReads, for any number of consumers, results of every  *)
(* size and any number of connections and failures.                        *)
(***************************************************************************)
EXTENDS SqlReads, SequenceTheorems, TLAPS

\* A database with a catalog of its own is one that was configured.
Overrides == override => configured /\ exists

\* A name that is not the database's was built without a connection.
Named ==
    \A c \in Consumers : name[c] \notin {"none", Catalog} => early[c] /\ override

\* As long as no context opened inside another, at most one consumer is in its
\* context, the client is that context's, and no other is open.
Exclusive ==
    ~overlapped =>
        /\ \A c, d \in Consumers : inside[c] /\ inside[d] => c = d
        /\ client # 0 <=> \E c \in Consumers : inside[c]
        /\ live \subseteq {client}

IInv == TypeOK /\ Overrides /\ Named /\ Exclusive /\ FetchesFollowTheResult /\ ReadsFailForCause

\* The first count rows of a result.
Rows(count) == [i \in 1..count |-> i]

\* What Hand appends continues the rows a consumer has.
LEMMA HandContinues ==
    ASSUME NEW m \in Nat, NEW n \in Nat, m <= n
    PROVE  /\ Rows(m) \o [i \in 1..n - m |-> m + i] = Rows(n)
           /\ [i \in 1..n - m |-> m + i] \in Seq(Nat)
<1> DEFINE s == Rows(m)
           t == [i \in 1..n - m |-> m + i]
<1>1. s \in Seq(Nat) /\ Len(s) = m /\ \A i \in 1..m : s[i] = i
  BY DEF Rows
<1>2. t \in Seq(Nat) /\ Len(t) = n - m /\ \A i \in 1..n - m : t[i] = m + i
  OBVIOUS
<1>3. Rows(n) \in Seq(Nat) /\ Len(Rows(n)) = n /\ \A i \in 1..n : Rows(n)[i] = i
  BY DEF Rows
<1> HIDE DEF s, t
<1>4. /\ s \o t \in Seq(Nat) /\ Len(s \o t) = n
      /\ \A i \in 1..n : (s \o t)[i] = IF i <= m THEN s[i] ELSE t[i - m]
  <2>1. /\ s \o t \in Seq(Nat) /\ Len(s \o t) = m + (n - m)
        /\ \A i \in 1..m + (n - m) : (s \o t)[i] = IF i <= m THEN s[i] ELSE t[i - m]
    <3>1. /\ s \o t \in Seq(Nat) /\ Len(s \o t) = Len(s) + Len(t)
          /\ \A i \in 1..Len(s) + Len(t) : (s \o t)[i] = IF i <= Len(s) THEN s[i] ELSE t[i - Len(s)]
      BY <1>1, <1>2, ConcatProperties, Zenon
    <3> QED
      BY <3>1, <1>1, <1>2
  <2>2. m + (n - m) = n
    OBVIOUS
  <2> QED
    BY <2>1, <2>2
<1>5. \A i \in 1..n : (s \o t)[i] = Rows(n)[i]
  BY <1>1, <1>2, <1>3, <1>4
<1>6. s \o t = Rows(n)
  BY <1>3, <1>4, <1>5, SeqEqual
<1> QED
  BY <1>2, <1>6 DEF s, t

LEMMA NoRows == <<>> = Rows(0)
<1>1. Rows(0) \in Seq(Nat) /\ Len(Rows(0)) = 0
  BY DEF Rows
<1> QED
  BY <1>1, EmptySeq

\* Every fetch hands out rows up to some end within the result.
LEMMA HandsForward ==
    ASSUME TypeOK, NEW c \in Consumers,
           FetchOne(c) \/ FetchAll(c) \/ \E count \in 1..MaxRows : FetchMany(c, count)
    PROVE  \E end \in Nat : pos[c] < end /\ end <= size[c] /\ Hand(c, end)
<1>1. pos[c] \in Nat /\ size[c] \in Nat \union {-1}
  BY DEF TypeOK
<1>2. CASE FetchOne(c)
  BY <1>1, <1>2 DEF FetchOne
<1>3. CASE FetchAll(c)
  BY <1>1, <1>3 DEF FetchAll
<1>4. ASSUME NEW count \in 1..MaxRows, FetchMany(c, count)
      PROVE  \E end \in Nat : pos[c] < end /\ end <= size[c] /\ Hand(c, end)
  BY <1>1, <1>4, BoundAssumption DEF FetchMany
<1> QED
  BY <1>2, <1>3, <1>4

\* The invariant holds at first.
LEMMA InitInvariant == Init => IInv
<1> SUFFICES ASSUME Init PROVE IInv
  OBVIOUS
<1>1. TypeOK
  <2>1. size \in [Consumers -> Nat \union {-1}] /\ got \in [Consumers -> Seq(Nat)]
    BY DEF Init
  <2>2. opens \in Nat /\ client \in 0..opens /\ live \subseteq 1..opens /\ faults \in Nat
    BY DEF Init
  <2> QED
    BY <2>1, <2>2, Zenon DEF Init, TypeOK
<1>2. FetchesFollowTheResult
  <2> SUFFICES ASSUME NEW c \in Consumers
               PROVE  got[c] = Rows(pos[c]) /\ (pos[c] > 0 => pos[c] <= size[c])
    BY DEF FetchesFollowTheResult, Rows
  <2>1. got[c] = <<>> /\ pos[c] = 0
    BY DEF Init
  <2> QED
    BY <2>1, NoRows
<1> QED
  BY <1>1, <1>2 DEF Init, IInv, Overrides, Named, Exclusive, ReadsFailForCause

\* Every step keeps the types.
LEMMA TypesKept == TypeOK /\ [Next]_vars => TypeOK'
<1> SUFFICES ASSUME TypeOK, [Next]_vars PROVE TypeOK'
  OBVIOUS
<1> USE DEF TypeOK, setting, connection, cursor
<1>1. ASSUME NEW c \in Consumers, Open(c) PROVE TypeOK'
  BY <1>1 DEF Open
<1>2. ASSUME NEW c \in Consumers, Close(c) PROVE TypeOK'
  BY <1>2 DEF Close
<1>3. ASSUME NEW c \in Consumers, CatalogName(c) PROVE TypeOK'
  BY <1>3 DEF CatalogName, Catalog, Resolvable
<1>4. ASSUME NEW c \in Consumers, NEW kind \in Kind,
             CatalogNameFails(c, kind) \/ QueryFails(c, kind)
      PROVE  TypeOK'
  <2>1. RequestFails(c, kind)
        /\ bound' \in BOOLEAN /\ UNCHANGED <<setting, connection, name, cursor, overlapped, early>>
    BY <1>4 DEF CatalogNameFails, QueryFails
  <2>2. MakeDatabaseException[kind] \in {"none", "undefined", "transient", "terminal"}
    BY DEF MakeDatabaseException, Kind
  <2> QED
    BY <2>1, <2>2 DEF RequestFails, Raise
<1>5. ASSUME NEW c \in Consumers, QueryHasNoTarget(c) \/ QueryFindsNoTable(c) PROVE TypeOK'
  BY <1>5 DEF QueryHasNoTarget, QueryFindsNoTable, Raise
<1>6. ASSUME NEW c \in Consumers, QueryAnswers(c) PROVE TypeOK'
  <2>1. \A rows \in 0..MaxRows : rows \in Nat
    BY BoundAssumption
  <2>2. <<>> \in Seq(Nat)
    OBVIOUS
  <2> QED
    BY <1>6, <2>1, <2>2 DEF QueryAnswers
<1>7. ASSUME NEW c \in Consumers, NEW end \in Nat, pos[c] <= end, Hand(c, end) PROVE TypeOK'
  <2>1. [i \in 1..end - pos[c] |-> pos[c] + i] \in Seq(Nat)
    BY <1>7, HandContinues
  <2>2. got[c] \o [i \in 1..end - pos[c] |-> pos[c] + i] \in Seq(Nat)
    BY <2>1, ConcatProperties
  <2> QED
    BY <1>7, <2>2 DEF Hand
<1>8. ASSUME NEW c \in Consumers, FetchOne(c) \/ FetchAll(c) \/ \E count \in 1..MaxRows : FetchMany(c, count)
      PROVE  TypeOK'
  <2>1. PICK end \in Nat : pos[c] < end /\ end <= size[c] /\ Hand(c, end)
    <3> HIDE DEF TypeOK
    <3> QED
      BY <1>8, HandsForward
  <2>2. pos[c] <= end
    BY <2>1
  <2> QED
    BY <1>7, <2>1, <2>2
<1>9. ASSUME NEW c \in Consumers, Forget(c) PROVE TypeOK'
  <2>1. <<>> \in Seq(Nat) /\ {} \in SUBSET Kind
    OBVIOUS
  <2> QED
    BY <1>9, <2>1 DEF Forget
<1>10. CASE RunCreatesDatabase
  BY <1>10 DEF RunCreatesDatabase
<1>11. CASE UNCHANGED vars
  BY <1>11 DEF vars
<1> QED
  BY <1>1, <1>2, <1>3, <1>4, <1>5, <1>6, <1>8, <1>9, <1>10, <1>11 DEF Next

\* A step leaves the connection and its history alone, or opens or closes it.
LEMMA Connections ==
    ASSUME [Next]_vars
    PROVE  \/ UNCHANGED <<connection, overlapped>>
           \/ \E c \in Consumers : Open(c) \/ Close(c)
  BY DEF Next, vars, connection, CatalogName, CatalogNameFails, QueryHasNoTarget,
         QueryFindsNoTable, QueryFails, QueryAnswers, FetchOne, FetchMany, FetchAll, Hand,
         Forget, RunCreatesDatabase

\* Every step keeps the connections closed by the context they served.
LEMMA ExclusiveKept == TypeOK /\ Exclusive /\ [Next]_vars => Exclusive'
<1> SUFFICES ASSUME TypeOK, Exclusive, [Next]_vars, ~overlapped' PROVE Exclusive'
  BY DEF Exclusive
<1>1. CASE UNCHANGED <<connection, overlapped>>
  BY <1>1 DEF Exclusive, connection
<1>2. ASSUME NEW c \in Consumers, Open(c) PROVE Exclusive'
  <2>1. ~overlapped /\ \A d \in Consumers : ~inside[d]
    BY <1>2 DEF Open
  <2>2. live = {}
    BY <2>1 DEF Exclusive, TypeOK
  <2>3. client' = opens + 1 /\ client' # 0 /\ live' = {client'}
    BY <1>2, <2>2 DEF Open, TypeOK
  <2>4. \A d \in Consumers : inside'[d] <=> d = c
    BY <1>2, <2>1 DEF Open, TypeOK
  <2> QED
    BY <2>3, <2>4 DEF Exclusive
<1>3. ASSUME NEW c \in Consumers, Close(c) PROVE Exclusive'
  <2>1. ~overlapped /\ inside[c]
    BY <1>3 DEF Close
  <2>2. \A d \in Consumers : inside[d] => d = c
    BY <2>1 DEF Exclusive
  <2>3. \A d \in Consumers : ~inside'[d]
    BY <1>3, <2>2 DEF Close, TypeOK
  <2>4. client' = 0 /\ live' = {}
    BY <1>3, <2>1 DEF Close, Exclusive
  <2> QED
    BY <2>3, <2>4 DEF Exclusive
<1> QED
  BY <1>1, <1>2, <1>3, Connections

\* A step leaves a consumer's name alone, forgets it, or builds it.
LEMMA NamedKept == TypeOK /\ Overrides /\ Named /\ [Next]_vars => Overrides' /\ Named'
<1> SUFFICES ASSUME TypeOK, Overrides, Named, [Next]_vars PROVE Overrides' /\ Named'
  OBVIOUS
<1>1. UNCHANGED setting
  BY DEF Next, vars, Open, Close, CatalogName, CatalogNameFails, QueryHasNoTarget,
         QueryFindsNoTable, QueryFails, QueryAnswers, FetchOne, FetchMany, FetchAll, Hand,
         Forget, RunCreatesDatabase
<1>2. CASE UNCHANGED <<name, early>>
  BY <1>1, <1>2 DEF Overrides, Named, Catalog, setting
<1>3. ASSUME NEW c \in Consumers, CatalogName(c) PROVE Named'
  <2>1. name'[c] = Catalog \/ (early'[c] /\ name'[c] = "default")
    <3>1. CASE client # 0 /\ Resolvable
      BY <1>3, <3>1 DEF CatalogName, TypeOK
    <3>2. CASE client = 0
      BY <1>3, <3>2 DEF CatalogName, TypeOK
    <3>3. CASE client # 0 /\ ~Resolvable
      BY <1>3, <3>3 DEF CatalogName, TypeOK, Resolvable, Overrides, Catalog
    <3> QED
      BY <3>1, <3>2, <3>3
  <2>2. \A d \in Consumers \ {c} : name'[d] = name[d] /\ early'[d] = early[d]
    BY <1>3 DEF CatalogName, TypeOK
  <2> QED
    BY <1>1, <2>1, <2>2 DEF Named, Catalog, setting
<1>4. ASSUME NEW c \in Consumers, Forget(c) PROVE Named'
  <2>1. name'[c] = "none" /\ \A d \in Consumers \ {c} : name'[d] = name[d] /\ early'[d] = early[d]
    BY <1>4 DEF Forget, TypeOK
  <2> QED
    BY <1>1, <2>1 DEF Named, Catalog, setting
<1>5. \/ UNCHANGED <<name, early>>
      \/ \E c \in Consumers : CatalogName(c) \/ Forget(c)
  BY DEF Next, vars, Open, Close, CatalogNameFails, QueryHasNoTarget, QueryFindsNoTable,
         QueryFails, QueryAnswers, FetchOne, FetchMany, FetchAll, Hand, RunCreatesDatabase
<1> QED
  BY <1>1, <1>2, <1>3, <1>4, <1>5 DEF Overrides, setting

\* Every step hands out rows from the position on, or leaves a cursor alone.
LEMMA FetchesKept ==
    TypeOK /\ FetchesFollowTheResult /\ [Next]_vars => FetchesFollowTheResult'
<1> SUFFICES ASSUME TypeOK, FetchesFollowTheResult, [Next]_vars, NEW d \in Consumers
             PROVE  /\ got'[d] = Rows(pos'[d])
                    /\ pos'[d] > 0 => pos'[d] <= size'[d]
  BY DEF FetchesFollowTheResult, Rows
<1>0. got[d] = Rows(pos[d]) /\ (pos[d] > 0 => pos[d] <= size[d]) /\ pos[d] \in Nat
  BY DEF FetchesFollowTheResult, Rows, TypeOK
<1>1. CASE UNCHANGED <<got[d], pos[d], size[d]>>
  BY <1>0, <1>1
<1>2. CASE got'[d] = <<>> /\ pos'[d] = 0
  BY <1>2, NoRows
<1>3. ASSUME NEW end \in Nat, pos[d] < end, end <= size[d], Hand(d, end)
      PROVE  got'[d] = Rows(end) /\ pos'[d] = end /\ size'[d] = size[d]
  <2>1. got'[d] = got[d] \o [i \in 1..end - pos[d] |-> pos[d] + i]
    BY <1>3 DEF Hand, TypeOK
  <2>2. Rows(pos[d]) \o [i \in 1..end - pos[d] |-> pos[d] + i] = Rows(end)
    <3>1. pos[d] \in Nat /\ pos[d] <= end
      BY <1>0, <1>3
    <3> QED
      BY <3>1, HandContinues, Zenon
  <2> QED
    BY <1>0, <1>3, <2>1, <2>2 DEF Hand, TypeOK
<1>4. ASSUME NEW c \in Consumers, NEW end \in Nat, pos[c] < end, end <= size[c], Hand(c, end)
      PROVE  \/ UNCHANGED <<got[d], pos[d], size[d]>>
             \/ got'[d] = Rows(end) /\ pos'[d] = end /\ size'[d] = size[d] /\ end <= size[d]
  <2>1. CASE c = d
    BY <1>3, <1>4, <2>1
  <2>2. CASE c # d
    BY <1>4, <2>2 DEF Hand, TypeOK
  <2> QED
    BY <2>1, <2>2
<1>5. ASSUME NEW c \in Consumers, QueryAnswers(c) \/ Forget(c)
      PROVE  UNCHANGED <<got[d], pos[d], size[d]>> \/ (got'[d] = <<>> /\ pos'[d] = 0)
  BY <1>5 DEF QueryAnswers, Forget, TypeOK
<1>6. \/ UNCHANGED cursor
      \/ \E c \in Consumers : QueryAnswers(c) \/ Forget(c)
      \/ \E c \in Consumers :
             FetchOne(c) \/ FetchAll(c) \/ \E count \in 1..MaxRows : FetchMany(c, count)
  BY DEF Next, vars, Open, Close, CatalogName, CatalogNameFails, QueryHasNoTarget,
         QueryFindsNoTable, QueryFails, RunCreatesDatabase
<1>7. CASE UNCHANGED cursor
  BY <1>1, <1>7 DEF cursor
<1>8. CASE \E c \in Consumers : QueryAnswers(c) \/ Forget(c)
  BY <1>1, <1>2, <1>5, <1>8
<1>9. ASSUME NEW c \in Consumers,
             FetchOne(c) \/ FetchAll(c) \/ \E count \in 1..MaxRows : FetchMany(c, count)
      PROVE  /\ got'[d] = Rows(pos'[d])
             /\ pos'[d] > 0 => pos'[d] <= size'[d]
  <2>1. PICK end \in Nat : pos[c] < end /\ end <= size[c] /\ Hand(c, end)
    BY <1>9, HandsForward
  <2>2. \/ UNCHANGED <<got[d], pos[d], size[d]>>
        \/ got'[d] = Rows(end) /\ pos'[d] = end /\ size'[d] = size[d] /\ end <= size[d]
    BY <1>4, <2>1
  <2> QED
    BY <1>1, <2>2
<1> QED
  BY <1>6, <1>7, <1>8, <1>9

\* The cause of an exception stays what it was, and each exception is raised for one.
LEMMA CausesKept ==
    TypeOK /\ Overrides /\ Named /\ Exclusive /\ ReadsFailForCause /\ [Next]_vars => ReadsFailForCause'
<1> DEFINE Cause(c) ==
           /\ raised[c] = "undefined" =>
                 \/ ~tableThere \/ (configured /\ ~exists)
                 \/ "worded" \in failed[c] \/ (early[c] /\ override)
           /\ raised[c] = "transient" => "transient" \in failed[c]
           /\ raised[c] = "terminal" =>
                 "terminal" \in failed[c] \/ overlapped \/ ~configured
<1> SUFFICES ASSUME TypeOK, Overrides, Named, Exclusive, ReadsFailForCause, [Next]_vars,
                    NEW d \in Consumers
             PROVE  Cause(d)'
  BY DEF ReadsFailForCause
<1>0. /\ Cause(d)
      /\ raised[d] \in {"none", "undefined", "transient", "terminal"} /\ overlapped \in BOOLEAN
      /\ DOMAIN raised = Consumers /\ DOMAIN failed = Consumers /\ DOMAIN early = Consumers
  BY DEF ReadsFailForCause, TypeOK
<1>1. UNCHANGED setting
  BY DEF Next, vars, Open, Close, CatalogName, CatalogNameFails, QueryHasNoTarget,
         QueryFindsNoTable, QueryFails, QueryAnswers, FetchOne, FetchMany, FetchAll, Hand,
         Forget, RunCreatesDatabase
<1>2. CASE /\ UNCHANGED <<raised[d], failed[d]>> /\ (overlapped => overlapped')
           /\ raised[d] # "none" => UNCHANGED early[d]
  BY <1>0, <1>1, <1>2 DEF setting
<1>3. CASE raised'[d] = "none"
  BY <1>3
<1>4. ASSUME NEW c \in Consumers, NEW kind \in Kind, RequestFails(c, kind), UNCHANGED <<overlapped, early>>
      PROVE  Cause(d)'
  <2>1. CASE c # d
    BY <1>0, <1>2, <1>4, <2>1 DEF RequestFails, Raise
  <2>2. CASE c = d
    <3>1. raised'[d] = MakeDatabaseException[kind] /\ kind \in failed'[d]
      BY <1>0, <1>4, <2>2 DEF RequestFails, Raise
    <3>2. \/ kind = "transient" /\ MakeDatabaseException[kind] = "transient"
          \/ kind = "terminal" /\ MakeDatabaseException[kind] = "terminal"
          \/ kind = "worded" /\ MakeDatabaseException[kind] = "undefined"
      BY DEF Kind, MakeDatabaseException
    <3> QED
      BY <3>1, <3>2
  <2> QED
    BY <2>1, <2>2
<1>5. ASSUME NEW c \in Consumers, QueryHasNoTarget(c) PROVE Cause(d)'
  <2>1. CASE c # d
    BY <1>0, <1>2, <1>5, <2>1 DEF QueryHasNoTarget, Raise
  <2>2. CASE c = d /\ client # 0 /\ configured
    <3>1. raised'[d] = "undefined" /\ configured /\ ~exists
      BY <1>0, <1>5, <2>2 DEF QueryHasNoTarget, Raise, Resolvable
    <3> QED
      BY <1>1, <3>1 DEF setting
  <2>3. CASE c = d /\ ~(client # 0 /\ configured)
    <3>1. raised'[d] = "terminal" /\ UNCHANGED overlapped
      BY <1>0, <1>5, <2>3 DEF QueryHasNoTarget, Raise
    <3>2. overlapped \/ ~configured
      BY <1>5, <2>3 DEF QueryHasNoTarget, Querying, Exclusive
    <3> QED
      BY <1>1, <3>1, <3>2 DEF setting
  <2> QED
    BY <2>1, <2>2, <2>3
<1>6. ASSUME NEW c \in Consumers, QueryFindsNoTable(c) PROVE Cause(d)'
  <2>1. CASE c # d
    BY <1>0, <1>2, <1>6, <2>1 DEF QueryFindsNoTable, Raise
  <2>2. CASE c = d
    <3>1. raised'[d] = "undefined" /\ UNCHANGED early
      BY <1>0, <1>6, <2>2 DEF QueryFindsNoTable, Raise
    <3>2. ~tableThere \/ (early[d] /\ override)
      BY <1>6, <2>2 DEF QueryFindsNoTable, Querying, Named
    <3> QED
      BY <1>1, <3>1, <3>2 DEF setting
  <2> QED
    BY <2>1, <2>2
<1>7. ASSUME NEW c \in Consumers, Open(c) \/ Close(c) PROVE Cause(d)'
  BY <1>2, <1>7 DEF Open, Close
<1>8. ASSUME NEW c \in Consumers, CatalogName(c) PROVE Cause(d)'
  BY <1>0, <1>2, <1>8 DEF CatalogName
<1>9. ASSUME NEW c \in Consumers, Forget(c) PROVE Cause(d)'
  BY <1>0, <1>2, <1>3, <1>9 DEF Forget
<1>10. ASSUME NEW c \in Consumers, NEW kind \in Kind, CatalogNameFails(c, kind) \/ QueryFails(c, kind)
       PROVE  Cause(d)'
  BY <1>4, <1>10 DEF CatalogNameFails, QueryFails
<1>11. CASE UNCHANGED <<raised, failed, early, overlapped>>
  BY <1>2, <1>11
<1>12. \/ UNCHANGED <<raised, failed, early, overlapped>>
       \/ \E c \in Consumers :
              \/ QueryHasNoTarget(c) \/ QueryFindsNoTable(c) \/ Open(c) \/ Close(c)
              \/ CatalogName(c) \/ Forget(c)
              \/ \E kind \in Kind : CatalogNameFails(c, kind) \/ QueryFails(c, kind)
  BY DEF Next, vars, QueryAnswers, FetchOne, FetchMany, FetchAll, Hand, RunCreatesDatabase
<1> QED
  BY <1>5, <1>6, <1>7, <1>8, <1>9, <1>10, <1>11, <1>12

\* Every step keeps the invariant.
LEMMA StepInvariant == IInv /\ [Next]_vars => IInv'
  BY TypesKept, NamedKept, ExclusiveKept, FetchesKept, CausesKept DEF IInv

THEOREM Invariance == Spec => []IInv
  BY InitInvariant, StepInvariant, PTL DEF Spec

\* The types of the client, the connection it shares and the cursors.
THEOREM TypeCorrect == Spec => []TypeOK
  BY Invariance, PTL DEF IInv

\* A consumer gets the rows of its result in order, none twice and none left out,
\* whatever mix of fetches it makes of a result of whatever size.
THEOREM RowsInOrder == Spec => []FetchesFollowTheResult
  BY Invariance, PTL DEF IInv

\* No read reports a missing table, a transient or a terminal failure without cause.
THEOREM FailuresAreTruthful == Spec => []ReadsFailForCause
  BY Invariance, PTL DEF IInv

\* Unless contexts overlap, no client is left open.
THEOREM ContextsCloseTheirClients == Spec => []ClientsAreClosed
<1>1. IInv => ClientsAreClosed
  BY DEF IInv, Exclusive, ClientsAreClosed, TypeOK
<1> QED
  BY Invariance, <1>1, PTL
=============================================================================
