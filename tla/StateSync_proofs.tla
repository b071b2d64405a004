--------------------------- MODULE StateSync_proofs ---------------------------
(***************************************************************************)
(* Theorems about StateSync, for any set of pipelines, any retention and   *)
(* any bounds.                                                             *)
(***************************************************************************)
EXTENDS StateSync, FiniteSetTheorems, TLAPS

\* A row's rank counts finitely many rows, and fewer in a smaller table.
LEMMA NewerMonotone ==
    ASSUME NEW big, IsFiniteSet(big), NEW small \in SUBSET big, NEW r
    PROVE  /\ Cardinality(Newer(small, r)) \in Nat
           /\ Cardinality(Newer(big, r)) \in Nat
           /\ Cardinality(Newer(small, r)) =< Cardinality(Newer(big, r))
<1>1. Newer(big, r) \subseteq big /\ Newer(small, r) \subseteq Newer(big, r)
  BY DEF Newer
<1>2. IsFiniteSet(Newer(big, r)) /\ IsFiniteSet(Newer(small, r))
  BY <1>1, FS_Subset
<1> QED  BY <1>1, <1>2, FS_Subset, FS_CardinalityType

\* A row the trim leaves out is outnumbered in the table that was read.
LEMMA LeftOutIsOutnumbered ==
    ASSUME NEW tbl, IsFiniteSet(tbl), NEW r \in tbl,
           r \notin KeptRows(KeepIds(tbl), tbl)
    PROVE  Cardinality(Newer(tbl, r)) >= MaxStateFiles
<1>1. Cardinality(Newer(tbl, r)) \in Nat  BY NewerMonotone
<1>2. ~(Cardinality(Newer(tbl, r)) < MaxStateFiles)  BY DEF KeptRows, KeepIds
<1> QED  BY <1>1, <1>2, ConfigAssumption
-----------------------------------------------------------------------------
\* What TypeOK of the history says of the tables in hand.
LEMMA TablesAreFinite == TypeOK => IsFiniteSet(stateRows)
  BY FS_Subset DEF TypeOK

\* Every variable keeps its type; the table and the trims' copies of it hold
\* only rows some job appended.
THEOREM TypeCorrect == Spec => []TypeOK
<1>1. Init => TypeOK
  BY FS_EmptySet DEF Init, TypeOK, Row, Phase, Trimming
<1>2. TypeOK /\ [Next]_vars => TypeOK'
  <2> SUFFICES ASSUME TypeOK, [Next]_vars PROVE TypeOK'  OBVIOUS
  <2> USE DEF TypeOK, Phase, Trimming, LoadIds
  <2>1. ASSUME NEW p \in Pipelines, StartLoad(p) PROVE TypeOK'
    BY <2>1 DEF StartLoad, history, server
  <2>2. ASSUME NEW p \in Pipelines, LandState(p) PROVE TypeOK'
    <3> DEFINE row == [pipe |-> p, load |-> current[p], copy |-> tries[p]]
    <3>1. row \in Row /\ landed' = landed \union {row}
      BY <2>2 DEF LandState, Row
    <3>2. IsFiniteSet(landed')  BY <3>1, FS_AddElement
    <3>3. stateRows' \subseteq landed' /\ landed' \subseteq Row
      BY <2>2, <3>1 DEF LandState
    <3>4. index' \in [Pipelines -> SUBSET landed'] /\ kept' \in [Pipelines -> SUBSET landed']
      BY <2>2, <3>1 DEF LandState
    <3> QED  BY <2>2, <3>2, <3>3, <3>4 DEF LandState, Overtaken
  <2>3. ASSUME NEW p \in Pipelines, CompleteLoad(p) PROVE TypeOK'
    BY <2>3 DEF CompleteLoad, history
  <2>4. ASSUME NEW p \in Pipelines, ReadIndex(p) PROVE TypeOK'
    BY <2>4 DEF ReadIndex, history, Forget, server
  <2>5. ASSUME NEW p \in Pipelines, ReadRows(p) PROVE TypeOK'
    BY <2>5 DEF ReadRows, Forget, server, KeptRows
  <2>6. ASSUME NEW p \in Pipelines, Rewrite(p) PROVE TypeOK'
    BY <2>6 DEF Rewrite, Forget, Overtaken
  <2>7. ASSUME NEW p \in Pipelines, TrimFails(p) PROVE TypeOK'
    BY <2>7 DEF TrimFails, Forget, server
  <2>8. ASSUME NEW p \in Pipelines, Resume(p) PROVE TypeOK'
    BY <2>8 DEF Resume, Forget, server
  <2>9. ASSUME NEW p \in Pipelines, Commit(p) PROVE TypeOK'
    BY <2>9 DEF Commit, Forget, history, server
  <2>10. ASSUME NEW p \in Pipelines, Abandon(p) PROVE TypeOK'
    BY <2>10 DEF Abandon, Forget, server
  <2>11. CASE UNCHANGED vars
    BY <2>11 DEF vars, server, locals, history
  <2> QED
    BY <2>1, <2>2, <2>3, <2>4, <2>5, <2>6, <2>7, <2>8, <2>9, <2>10, <2>11 DEF Next
<1> QED  BY <1>1, <1>2, PTL DEF Spec
-----------------------------------------------------------------------------
\* While nobody else writes the table, a trim's copies of it are current.
TrimInvariant ==
    \A p \in Pipelines : p \notin disturbed =>
        /\ phase[p] \in {"rows", "rewrite"} => index[p] = stateRows
        /\ phase[p] = "rewrite" => kept[p] = KeptRows(KeepIds(stateRows), stateRows)

\* An undisturbed trim works on the table as it is now.
LEMMA TrimsAreCurrent == Spec => []TrimInvariant
<1>1. Init => TrimInvariant
  BY DEF Init, TrimInvariant
<1>2. TypeOK /\ TrimInvariant /\ [Next]_vars => TrimInvariant'
  <2> SUFFICES ASSUME TypeOK, TrimInvariant, [Next]_vars PROVE TrimInvariant'
    OBVIOUS
  <2> USE DEF TypeOK, TrimInvariant, Trimming
  <2>1. ASSUME NEW p \in Pipelines, StartLoad(p) PROVE TrimInvariant'
    BY <2>1 DEF StartLoad, history, server
  <2>2. ASSUME NEW p \in Pipelines, LandState(p) PROVE TrimInvariant'
    BY <2>2 DEF LandState, Overtaken
  <2>3. ASSUME NEW p \in Pipelines, CompleteLoad(p) PROVE TrimInvariant'
    BY <2>3 DEF CompleteLoad, history
  <2>4. ASSUME NEW p \in Pipelines, ReadIndex(p) PROVE TrimInvariant'
    BY <2>4 DEF ReadIndex, history, Forget, server
  <2>5. ASSUME NEW p \in Pipelines, ReadRows(p) PROVE TrimInvariant'
    BY <2>5 DEF ReadRows, Forget, server
  <2>6. ASSUME NEW p \in Pipelines, Rewrite(p) PROVE TrimInvariant'
    BY <2>6 DEF Rewrite, Forget, Overtaken
  <2>7. ASSUME NEW p \in Pipelines, TrimFails(p) PROVE TrimInvariant'
    BY <2>7 DEF TrimFails, Forget, server
  <2>8. ASSUME NEW p \in Pipelines, Resume(p) PROVE TrimInvariant'
    BY <2>8 DEF Resume, Forget, server
  <2>9. ASSUME NEW p \in Pipelines, Commit(p) PROVE TrimInvariant'
    BY <2>9 DEF Commit, Forget, history, server
  <2>10. ASSUME NEW p \in Pipelines, Abandon(p) PROVE TrimInvariant'
    BY <2>10 DEF Abandon, Forget, server
  <2>11. CASE UNCHANGED vars
    BY <2>11 DEF vars, server, locals, history
  <2> QED
    BY <2>1, <2>2, <2>3, <2>4, <2>5, <2>6, <2>7, <2>8, <2>9, <2>10, <2>11 DEF Next
<1> QED  BY <1>1, <1>2, TypeCorrect, PTL DEF Spec

\* A trim nobody wrote past drops only rows that max_state_files newer rows of
\* their own pipeline outnumber.
THEOREM UndisturbedTrim == Spec => OnlyOutnumberedRowsAreTrimmed
<1> DEFINE Safe(p) ==
       Rewrite(p) /\ p \notin disturbed =>
          \A r \in stateRows : \/ r \in stateRows'
                              \/ Cardinality(Newer(stateRows, r)) >= MaxStateFiles
<1>1. TypeOK /\ TrimInvariant => \A p \in Pipelines : Safe(p)
  <2> SUFFICES ASSUME TypeOK, TrimInvariant, NEW p \in Pipelines,
                      Rewrite(p), p \notin disturbed,
                      NEW r \in stateRows, r \notin stateRows'
               PROVE  Cardinality(Newer(stateRows, r)) >= MaxStateFiles
    OBVIOUS
  <2>1. r \notin KeptRows(KeepIds(stateRows), stateRows)
    BY DEF Rewrite, TrimInvariant
  <2> QED  BY <2>1, TablesAreFinite, LeftOutIsOutnumbered
<1> QED
  BY <1>1, TypeCorrect, TrimsAreCurrent, PTL DEF OnlyOutnumberedRowsAreTrimmed

\* The table changes only by appending what lands and by trimming.
LEMMA TableSteps ==
    [Next]_vars =>
        \/ \E p \in Pipelines : LandState(p)
        \/ \E p \in Pipelines : Rewrite(p)
        \/ UNCHANGED <<stateRows, landed, overwritten>>
  BY DEF Next, vars, server, history, StartLoad, CompleteLoad, ReadIndex, ReadRows,
         TrimFails, Resume, Commit, Abandon

\* A state row is missing from the table only if max_state_files newer rows of
\* its pipeline have landed, or if a trim another write had overtaken took it
\* (_prune_pipeline_state, over the whole life of the table).
THEOREM Retention == Spec => []MissingOnlyIfOutnumbered
<1>1. Init => MissingOnlyIfOutnumbered
  BY DEF Init, MissingOnlyIfOutnumbered
<1>2. TypeOK /\ TypeOK' /\ TrimInvariant /\ MissingOnlyIfOutnumbered /\ [Next]_vars
        => MissingOnlyIfOutnumbered'
  <2> SUFFICES ASSUME TypeOK, TypeOK', TrimInvariant, MissingOnlyIfOutnumbered,
                      [Next]_vars,
                      NEW r \in landed', r \notin stateRows', r \notin overwritten'
               PROVE  Cardinality(Newer(landed', r)) >= MaxStateFiles
    BY DEF MissingOnlyIfOutnumbered, Newer
  <2>1. CASE \E p \in Pipelines : LandState(p)
    <3>1. landed \subseteq landed' /\ r \in landed /\ r \notin stateRows \union overwritten
      BY <2>1 DEF LandState
    <3>2. Cardinality(Newer(landed, r)) >= MaxStateFiles
      BY <3>1 DEF MissingOnlyIfOutnumbered
    <3>3. IsFiniteSet(landed')  BY DEF TypeOK
    <3> QED  BY <3>1, <3>2, <3>3, NewerMonotone, ConfigAssumption
  <2>2. CASE \E p \in Pipelines : Rewrite(p)
    <3>1. PICK p \in Pipelines : Rewrite(p)  BY <2>2
    <3>2. landed' = landed /\ r \notin overwritten  BY <3>1 DEF Rewrite
    <3>3. CASE r \notin stateRows
      BY <3>2, <3>3 DEF MissingOnlyIfOutnumbered
    <3>4. CASE r \in stateRows
      <4>1. p \notin disturbed
        BY <3>1, <3>4 DEF Rewrite
      <4>2. r \notin KeptRows(KeepIds(stateRows), stateRows)
        BY <3>1, <4>1 DEF Rewrite, TrimInvariant
      <4>3. Cardinality(Newer(stateRows, r)) >= MaxStateFiles
        BY <3>4, <4>2, TablesAreFinite, LeftOutIsOutnumbered
      <4>4. stateRows \in SUBSET landed /\ IsFiniteSet(landed)  BY DEF TypeOK
      <4> QED  BY <3>2, <4>3, <4>4, NewerMonotone, ConfigAssumption
    <3> QED  BY <3>3, <3>4
  <2>3. CASE UNCHANGED <<stateRows, landed, overwritten>>
    BY <2>3 DEF MissingOnlyIfOutnumbered
  <2> QED  BY <2>1, <2>2, <2>3, TableSteps
<1> QED
  BY <1>1, <1>2, TypeCorrect, TrimsAreCurrent, PTL DEF Spec
-----------------------------------------------------------------------------
(* Runs that do not overlap.                                               *)

\* At most one pipeline has a package in hand, so no trim is ever overtaken.
Serial ==
    /\ \A p, q \in Pipelines : phase[p] # "idle" /\ phase[q] # "idle" => p = q
    /\ disturbed = {}

\* Without overlap one pipeline is at work at a time and no trim is disturbed.
LEMMA RunsAreSerial == ASSUME ~Overlap PROVE Spec => []Serial
<1>1. Init => Serial
  BY DEF Init, Serial
<1>2. TypeOK /\ Serial /\ [Next]_vars => Serial'
  <2> SUFFICES ASSUME TypeOK, Serial, [Next]_vars PROVE Serial'
    OBVIOUS
  <2> USE DEF TypeOK, Serial, Trimming
  <2>1. ASSUME NEW p \in Pipelines, StartLoad(p) PROVE Serial'
    BY <2>1 DEF StartLoad, history
  <2>2. ASSUME NEW p \in Pipelines, LandState(p) PROVE Serial'
    BY <2>2 DEF LandState, Overtaken
  <2>3. ASSUME NEW p \in Pipelines, CompleteLoad(p) PROVE Serial'
    BY <2>3 DEF CompleteLoad, history
  <2>4. ASSUME NEW p \in Pipelines, ReadIndex(p) PROVE Serial'
    BY <2>4 DEF ReadIndex, history, Forget
  <2>5. ASSUME NEW p \in Pipelines, ReadRows(p) PROVE Serial'
    BY <2>5 DEF ReadRows, Forget
  <2>6. ASSUME NEW p \in Pipelines, Rewrite(p) PROVE Serial'
    BY <2>6 DEF Rewrite, Forget, Overtaken
  <2>7. ASSUME NEW p \in Pipelines, TrimFails(p) PROVE Serial'
    BY <2>7 DEF TrimFails, Forget
  <2>8. ASSUME NEW p \in Pipelines, Resume(p) PROVE Serial'
    BY <2>8 DEF Resume, Forget
  <2>9. ASSUME NEW p \in Pipelines, Commit(p) PROVE Serial'
    BY <2>9 DEF Commit, Forget, history
  <2>10. ASSUME NEW p \in Pipelines, Abandon(p) PROVE Serial'
    BY <2>10 DEF Abandon, Forget
  <2>11. CASE UNCHANGED vars
    BY <2>11 DEF vars, server, locals, history
  <2> QED
    BY <2>1, <2>2, <2>3, <2>4, <2>5, <2>6, <2>7, <2>8, <2>9, <2>10, <2>11 DEF Next
<1> QED  BY <1>1, <1>2, TypeCorrect, PTL DEF Spec

-----------------------------------------------------------------------------
(* Runs that neither overlap nor abandon a package.                        *)

\* Load ids grow; a landed row's load is completed or in hand; a trim runs only
\* after its own load completed, and only with retention on.
LoadsInOrder ==
    /\ \A l \in loads : l =< clock
    /\ \A r \in landed : r.load =< clock
    /\ \A r \in landed : \/ r.load \in loads
                         \/ phase[r.pipe] \in {"jobs", "complete"} /\ r.load = current[r.pipe]
    /\ \A p \in Pipelines :
          /\ phase[p] # "idle" => current[p] = clock
          /\ phase[p] \in Trimming => MaxStateFiles >= 1
          /\ phase[p] \in Trimming \union {"done"} => current[p] \in loads
          /\ phase[p] = "jobs" => current[p] \notin loads
          /\ phase[p] # "idle" => \A r \in landed : r.load = current[p] => r.pipe = p

\* Serial runs complete their loads in the order of their ids.
LEMMA OrderOfLoads == ASSUME ~Overlap, ~MayAbandon PROVE Spec => []LoadsInOrder
<1>1. Init => LoadsInOrder
  BY DEF Init, LoadsInOrder, Trimming
<1>2. TypeOK /\ Serial /\ LoadsInOrder /\ [Next]_vars => LoadsInOrder'
  <2> SUFFICES ASSUME TypeOK, Serial, LoadsInOrder, [Next]_vars PROVE LoadsInOrder'
    OBVIOUS
  <2> USE DEF TypeOK, LoadsInOrder, Trimming, Phase, LoadIds, Row
  <2>1. ASSUME NEW p \in Pipelines, StartLoad(p) PROVE LoadsInOrder'
    BY <2>1 DEF StartLoad, history, server
  <2>2. ASSUME NEW p \in Pipelines, LandState(p) PROVE LoadsInOrder'
    <3> DEFINE row == [pipe |-> p, load |-> current[p], copy |-> tries[p]]
    <3>1. /\ landed' = landed \union {row} /\ row.pipe = p /\ row.load = clock
          /\ current' = current /\ clock' = clock /\ loads' = loads
          /\ phase[p] = "jobs" /\ phase'[p] \in {"jobs", "complete"}
          /\ \A q \in Pipelines \ {p} : phase'[q] = phase[q] /\ phase[q] = "idle"
      BY <2>2 DEF LandState, Serial
    <3> QED  BY <3>1
  <2>3. ASSUME NEW p \in Pipelines, CompleteLoad(p) PROVE LoadsInOrder'
    BY <2>3, ConfigAssumption DEF CompleteLoad, history, Serial
  <2>4. ASSUME NEW p \in Pipelines, ReadIndex(p) PROVE LoadsInOrder'
    BY <2>4 DEF ReadIndex, history, Forget, server
  <2>5. ASSUME NEW p \in Pipelines, ReadRows(p) PROVE LoadsInOrder'
    BY <2>5 DEF ReadRows, Forget, server
  <2>6. ASSUME NEW p \in Pipelines, Rewrite(p) PROVE LoadsInOrder'
    BY <2>6 DEF Rewrite, Forget
  <2>7. ASSUME NEW p \in Pipelines, TrimFails(p) PROVE LoadsInOrder'
    BY <2>7 DEF TrimFails, Forget, server
  <2>8. ASSUME NEW p \in Pipelines, Resume(p) PROVE LoadsInOrder'
    BY <2>8 DEF Resume, Forget, server
  <2>9. ASSUME NEW p \in Pipelines, Commit(p) PROVE LoadsInOrder'
    BY <2>9 DEF Commit, Forget, history, server
  <2>10. ASSUME NEW p \in Pipelines, Abandon(p) PROVE LoadsInOrder'
    BY <2>10 DEF Abandon
  <2>11. CASE UNCHANGED vars
    BY <2>11 DEF vars, server, locals, history
  <2> QED
    BY <2>1, <2>2, <2>3, <2>4, <2>5, <2>6, <2>7, <2>8, <2>9, <2>10, <2>11 DEF Next
<1> QED  BY <1>1, <1>2, TypeCorrect, RunsAreSerial, PTL DEF Spec

\* The newest landed row of every pipeline is in the table, and so is the newest
\* of those whose load completed.
NewestKept ==
    \A p \in Pipelines :
        /\ (\E r \in landed : r.pipe = p) =>
              \E s \in stateRows : /\ s.pipe = p
                                   /\ \A r \in landed : r.pipe = p => r.load =< s.load
        /\ CompletedWithState(p) # {} =>
              \E s \in Usable(p) : \A l \in CompletedWithState(p) : l =< s.load

\* The newest completed state row of a pipeline survives every trim.
LEMMA NewestRowIsKept == ASSUME ~Overlap, ~MayAbandon PROVE Spec => []NewestKept
<1>1. Init => NewestKept
  BY DEF Init, NewestKept, CompletedWithState
<1>2. TypeOK /\ TrimInvariant /\ Serial /\ LoadsInOrder /\ NewestKept /\ [Next]_vars
        => NewestKept'
  <2> SUFFICES ASSUME TypeOK, TrimInvariant, Serial, LoadsInOrder, NewestKept, [Next]_vars,
                      NEW q \in Pipelines
               PROVE  /\ (\E r \in landed' : r.pipe = q) =>
                            \E s \in stateRows' :
                                /\ s.pipe = q
                                /\ \A r \in landed' : r.pipe = q => r.load =< s.load
                      /\ CompletedWithState(q)' # {} =>
                            \E s \in Usable(q)' : \A l \in CompletedWithState(q)' : l =< s.load
    BY DEF NewestKept
  <2> USE DEF CompletedWithState, Usable
  <2>1. ASSUME NEW p \in Pipelines, LandState(p) PROVE NewestKept'
    <3> DEFINE row == [pipe |-> p, load |-> current[p], copy |-> tries[p]]
    <3>1. /\ stateRows' = stateRows \union {row} /\ landed' = landed \union {row}
          /\ loads' = loads /\ row.pipe = p /\ row.load = clock /\ clock \in Nat
          /\ clock \notin loads
      BY <2>1 DEF LandState, LoadsInOrder, TypeOK
    <3>2. \A r \in landed' : r.load =< clock
      BY <3>1 DEF LoadsInOrder
    <3>3. \A x \in Pipelines : CompletedWithState(x)' = CompletedWithState(x)
      BY <3>1
    <3>4. \A x \in Pipelines : Usable(x) \subseteq Usable(x)'
      BY <3>1
    <3> QED  BY <3>1, <3>2, <3>3, <3>4 DEF NewestKept
  <2>2. ASSUME NEW p \in Pipelines, CompleteLoad(p) PROVE NewestKept'
    <3>1. /\ stateRows' = stateRows /\ landed' = landed
          /\ loads' = loads \union {clock} /\ clock \in Nat
          /\ \A r \in landed : r.load = clock => r.pipe = p
      BY <2>2 DEF CompleteLoad, history, LoadsInOrder, TypeOK
    <3>2. CASE \E r \in landed : r.load = clock
      <4>1. PICK s \in stateRows : /\ s.pipe = p
                                   /\ \A r \in landed : r.pipe = p => r.load =< s.load
        BY <3>1, <3>2 DEF NewestKept
      <4>2. s.load = clock
        BY <3>1, <3>2, <4>1 DEF LoadsInOrder, TypeOK, Row, LoadIds
      <4>3. s \in Usable(p)' /\ \A l \in CompletedWithState(p)' : l =< s.load
        BY <3>1, <4>1, <4>2
      <4>4. \A x \in Pipelines \ {p} :
               CompletedWithState(x)' = CompletedWithState(x) /\ Usable(x)' = Usable(x)
        BY <3>1 DEF TypeOK
      <4> QED  BY <3>1, <4>3, <4>4 DEF NewestKept
    <3>3. CASE ~\E r \in landed : r.load = clock
      <4>1. \A x \in Pipelines :
               CompletedWithState(x)' = CompletedWithState(x) /\ Usable(x)' = Usable(x)
        BY <3>1, <3>3 DEF TypeOK
      <4> QED  BY <3>1, <4>1 DEF NewestKept
    <3> QED  BY <3>2, <3>3
  <2>3. ASSUME NEW p \in Pipelines, Rewrite(p) PROVE NewestKept'
    <3>1. /\ stateRows' = KeptRows(KeepIds(stateRows), stateRows)
          /\ landed' = landed /\ loads' = loads
      BY <2>3 DEF Rewrite, Serial, TrimInvariant
    <3>2. MaxStateFiles >= 1 /\ MaxStateFiles \in Nat
      BY <2>3, ConfigAssumption DEF Rewrite, LoadsInOrder, Trimming
    <3>3. \A r \in landed : r.load \in loads
      BY <2>3 DEF Rewrite, LoadsInOrder, Serial, TypeOK, Row
    <3>4. ASSUME NEW x \in Pipelines, NEW s \in stateRows, s.pipe = x,
                 \A r \in landed : r.pipe = x => r.load =< s.load
          PROVE  s \in stateRows'
      <4>1. Newer(stateRows, s) = {}
        BY <3>4 DEF Newer, TypeOK, Row, LoadIds
      <4>2. Cardinality(Newer(stateRows, s)) < MaxStateFiles
        BY <3>2, <4>1, FS_EmptySet
      <4> QED  BY <3>1, <4>2 DEF KeptRows, KeepIds
    <3>5. stateRows' \subseteq landed  BY <3>1 DEF KeptRows, TypeOK
    <3> QED  BY <3>1, <3>3, <3>4, <3>5 DEF NewestKept
  <2>4. CASE UNCHANGED <<stateRows, landed, loads>>
    BY <2>4 DEF NewestKept
  <2>5. \/ \E p \in Pipelines : LandState(p) \/ CompleteLoad(p) \/ Rewrite(p)
        \/ UNCHANGED <<stateRows, landed, loads>>
    BY DEF Next, vars, server, history, StartLoad, ReadIndex, ReadRows, TrimFails, Resume,
           Commit, Abandon
  <2> QED  BY <2>1, <2>2, <2>3, <2>4, <2>5 DEF NewestKept
<1> QED
  BY <1>1, <1>2, TypeCorrect, TrimsAreCurrent, RunsAreSerial, OrderOfLoads, PTL DEF Spec
-----------------------------------------------------------------------------
\* What the restore query answers: the newest completed state, or 0.
StoredIsNewest ==
    \A p \in Pipelines :
        /\ GetStoredState(p) \in Nat
        /\ CompletedWithState(p) = {} => GetStoredState(p) = 0
        /\ CompletedWithState(p) # {} => GetStoredState(p) \in CompletedWithState(p)
        /\ \A l \in CompletedWithState(p) : l \in Nat /\ l =< GetStoredState(p)

\* get_stored_state finds that row.
LEMMA RestoreQuery == ASSUME ~Overlap, ~MayAbandon PROVE Spec => []StoredIsNewest
<1>1. TypeOK /\ NewestKept => StoredIsNewest
  <2> SUFFICES ASSUME TypeOK, NewestKept, NEW p \in Pipelines
               PROVE  /\ GetStoredState(p) \in Nat
                      /\ CompletedWithState(p) = {} => GetStoredState(p) = 0
                      /\ CompletedWithState(p) # {} =>
                            GetStoredState(p) \in CompletedWithState(p)
                      /\ \A l \in CompletedWithState(p) : l \in Nat /\ l =< GetStoredState(p)
    BY DEF StoredIsNewest
  <2>1. CASE CompletedWithState(p) = {}
    <3>1. Usable(p) = {}
      BY <2>1 DEF CompletedWithState, Usable, TypeOK
    <3> QED  BY <2>1, <3>1 DEF GetStoredState
  <2>2. CASE CompletedWithState(p) # {}
    <3>1. PICK s \in Usable(p) : \A l \in CompletedWithState(p) : l =< s.load
      BY <2>2 DEF NewestKept
    <3>2. \A r \in Usable(p) : r.load \in CompletedWithState(p) /\ r.load \in Nat
      BY DEF Usable, CompletedWithState, TypeOK, Row, LoadIds
    <3> DEFINE best == CHOOSE r \in Usable(p) : \A x \in Usable(p) : x.load =< r.load
    <3>3. best \in Usable(p) /\ \A x \in Usable(p) : x.load =< best.load
      BY <3>1, <3>2
    <3>4. GetStoredState(p) = best.load
      BY <3>1 DEF GetStoredState
    <3>5. \A l \in CompletedWithState(p) : l \in Nat
      BY DEF CompletedWithState, TypeOK, Row, LoadIds
    <3> HIDE DEF best
    <3> QED  BY <2>2, <3>1, <3>2, <3>3, <3>4, <3>5
  <2> QED  BY <2>1, <2>2
<1> QED  BY <1>1, TypeCorrect, NewestRowIsKept, PTL

\* A restore is answered with the newest completed state of the pipeline.
THEOREM RestoreIsNewest ==
    ASSUME ~Overlap, ~MayAbandon PROVE Spec => []RestoresNewestCompleted
<1>1. StoredIsNewest => RestoresNewestCompleted
  BY DEF StoredIsNewest, RestoresNewestCompleted
<1> QED  BY <1>1, RestoreQuery, PTL

\* Only complete_load moves a pipeline's set of completed states, and only its own.
LEMMA CompletedSteps ==
    ASSUME TypeOK, LoadsInOrder, [Next]_vars
    PROVE  \/ \A q \in Pipelines : CompletedWithState(q)' = CompletedWithState(q)
           \/ \E p \in Pipelines :
                 /\ CompletedWithState(p) \subseteq CompletedWithState(p)'
                 /\ \A q \in Pipelines \ {p} :
                       CompletedWithState(q)' = CompletedWithState(q)
<1>1. ASSUME NEW p \in Pipelines, LandState(p)
      PROVE  \A q \in Pipelines : CompletedWithState(q)' = CompletedWithState(q)
  <2> DEFINE row == [pipe |-> p, load |-> current[p], copy |-> tries[p]]
  <2>1. /\ landed' = landed \union {row} /\ loads' = loads
        /\ row.load \notin loads
    BY <1>1 DEF LandState, LoadsInOrder
  <2> QED  BY <2>1 DEF CompletedWithState
<1>2. ASSUME NEW p \in Pipelines, CompleteLoad(p)
      PROVE  /\ CompletedWithState(p) \subseteq CompletedWithState(p)'
             /\ \A q \in Pipelines \ {p} : CompletedWithState(q)' = CompletedWithState(q)
  <2>1. /\ landed' = landed /\ loads' = loads \union {current[p]}
        /\ \A r \in landed : r.load = current[p] => r.pipe = p
    BY <1>2 DEF CompleteLoad, LoadsInOrder, history
  <2> QED  BY <2>1 DEF CompletedWithState
<1>3. ASSUME UNCHANGED <<landed, loads>>
      PROVE  \A q \in Pipelines : CompletedWithState(q)' = CompletedWithState(q)
  BY <1>3 DEF CompletedWithState
<1>4. \/ \E p \in Pipelines : LandState(p) \/ CompleteLoad(p)
      \/ UNCHANGED <<landed, loads>>
  BY DEF Next, vars, server, history, StartLoad, ReadIndex, ReadRows, Rewrite, TrimFails,
         Resume, Commit, Abandon
<1> QED  BY <1>1, <1>2, <1>3, <1>4

\* The bookkeeping implements the store a pipeline is promised.
THEOREM Refinement == ASSUME ~Overlap, ~MayAbandon PROVE Spec => ImplementsStateStore
<1> DEFINE stored == [p \in Pipelines |-> GetStoredState(p)]
<1>1. Init => Promised!Init
  BY DEF Init, Promised!Init, GetStoredState, Usable
<1>2. TypeOK /\ LoadsInOrder /\ StoredIsNewest /\ StoredIsNewest' /\ [Next]_vars
        => [Promised!Next]_stored
  <2> SUFFICES ASSUME TypeOK, LoadsInOrder, StoredIsNewest, StoredIsNewest', [Next]_vars,
                      ~ UNCHANGED stored
               PROVE  Promised!Next
    OBVIOUS
  <2>1. \A q \in Pipelines : CompletedWithState(q)' = CompletedWithState(q)
                              => GetStoredState(q)' = GetStoredState(q)
    BY DEF StoredIsNewest
  <2>2. PICK p \in Pipelines :
           /\ CompletedWithState(p) \subseteq CompletedWithState(p)'
           /\ \A q \in Pipelines \ {p} : CompletedWithState(q)' = CompletedWithState(q)
    BY <2>1, CompletedSteps
  <2>3. GetStoredState(p)' >= GetStoredState(p)
    BY <2>2 DEF StoredIsNewest
  <2>4. \A q \in Pipelines \ {p} : GetStoredState(q)' = GetStoredState(q)
    BY <2>1, <2>2
  <2>5. GetStoredState(p)' # GetStoredState(p)
    BY <2>4
  <2>6. GetStoredState(p)' > GetStoredState(p)
    BY <2>3, <2>5 DEF StoredIsNewest
  <2>7. stored'[p] > stored[p] /\ stored' = [stored EXCEPT ![p] = stored'[p]]
    BY <2>4, <2>6
  <2> QED  BY <2>7 DEF Promised!Next, Promised!Advance
<1> QED
  BY <1>1, <1>2, TypeCorrect, OrderOfLoads, RestoreQuery, PTL
     DEF Spec, ImplementsStateStore, Promised!Spec
-----------------------------------------------------------------------------
(* How large the trim leaves the table.                                    *)

\* A set of naturals that is not empty has a least member.  (Induction in a form
\* that names sets only.)
LEMMA LeastNumber ==
    ASSUME NEW S \in SUBSET Nat, S # {}
    PROVE  \E x \in S : \A y \in S : x =< y
<1> DEFINE Less == {pair \in Nat \X Nat : pair[1] < pair[2]}
<1>1. IsWellFoundedOn(Less, Nat)
  BY NatLessThanWellFounded DEF OpToRel
<1>2. \A x, y \in Nat : <<y, x>> \notin Less => x =< y
  OBVIOUS
<1> HIDE DEF Less
<1>3. PICK x \in S : \A y \in S : <<y, x>> \notin Less
  BY <1>1, WFMin
<1>4. \A y \in S : x =< y
  BY <1>2, <1>3
<1> QED  BY <1>4

\* Rows have no more loads than they are rows.
LEMMA LoadsOfRows ==
    ASSUME NEW T, IsFiniteSet(T)
    PROVE  LET L == {r.load : r \in T} IN
               /\ IsFiniteSet(L) /\ Cardinality(L) \in Nat /\ Cardinality(L) =< Cardinality(T)
<1> DEFINE L == {r.load : r \in T}
           f == [r \in T |-> r.load]
<1>1. f \in Surjection(T, L)
  BY DEF Surjection
<1> HIDE DEF f
<1>2. IsFiniteSet(L) /\ Cardinality(L) =< Cardinality(T)
  BY <1>1, FS_Surjection
<1> QED  BY <1>2, FS_CardinalityType

\* The loads of q the trim's first read keeps.
KeptLoads(tbl, q) ==
    {r.load : r \in {s \in tbl : s.pipe = q /\ Cardinality(Newer(tbl, s)) < MaxStateFiles}}

\* They are max_state_files at most: the oldest has the others after it.
LEMMA KeptPerPipeline ==
    ASSUME NEW tbl \in SUBSET Row, IsFiniteSet(tbl), MaxStateFiles >= 1, NEW q
    PROVE  /\ IsFiniteSet(KeptLoads(tbl, q))
           /\ Cardinality(KeptLoads(tbl, q)) \in Nat
           /\ Cardinality(KeptLoads(tbl, q)) =< MaxStateFiles
<1> DEFINE L == KeptLoads(tbl, q)
           T == {s \in tbl : s.pipe = q /\ Cardinality(Newer(tbl, s)) < MaxStateFiles}
<1>0. MaxStateFiles \in Nat
  BY ConfigAssumption
<1>1. IsFiniteSet(T)
  BY FS_Subset
<1>2. IsFiniteSet(L) /\ Cardinality(L) \in Nat
  BY <1>1, LoadsOfRows DEF KeptLoads
<1>3. CASE L = {}
  BY <1>0, <1>2, <1>3, FS_EmptySet
<1>4. CASE L # {}
  <2>1. L \in SUBSET Nat
    BY DEF KeptLoads, Row, LoadIds
  <2>2. PICK m \in L : \A l \in L : m =< l
    BY <1>4, <2>1, LeastNumber
  <2>3. PICK r \in T : r.load = m
    BY DEF KeptLoads
  <2> DEFINE N == Newer(tbl, r)
             NL == {s.load : s \in N}
  <2>4. IsFiniteSet(N) /\ Cardinality(N) \in Nat /\ Cardinality(N) < MaxStateFiles
    BY <2>3, FS_Subset, FS_CardinalityType DEF Newer
  <2>5. IsFiniteSet(NL) /\ Cardinality(NL) \in Nat /\ Cardinality(NL) =< Cardinality(N)
    BY <2>4, LoadsOfRows
  <2>6. L \ {m} \subseteq NL
    <3> SUFFICES ASSUME NEW l \in L \ {m} PROVE l \in NL
      OBVIOUS
    <3>1. PICK s \in T : s.load = l
      BY DEF KeptLoads
    <3>2. m \in Nat /\ l \in Nat /\ l > m
      BY <2>1, <2>2
    <3>3. s \in N
      BY <2>3, <3>1, <3>2 DEF Newer
    <3> QED  BY <3>1, <3>3
  <2> HIDE DEF L, NL, N
  <2>7. Cardinality(L \ {m}) = Cardinality(L) - 1
    BY <1>2, FS_RemoveElement
  <2>8. Cardinality(L \ {m}) =< Cardinality(NL)
    BY <2>5, <2>6, FS_Subset
  <2>9. Cardinality(L) =< MaxStateFiles
    BY <1>0, <1>2, <2>4, <2>5, <2>7, <2>8
  <2> QED  BY <1>2, <2>9 DEF L
<1> QED  BY <1>3, <1>4

\* Over all pipelines: by induction on how many of them there are.
LEMMA KeepIdsBounded ==
    ASSUME IsFiniteSet(Pipelines), MaxStateFiles >= 1,
           NEW tbl \in SUBSET Row, IsFiniteSet(tbl)
    PROVE  /\ Cardinality(Pipelines) \in Nat
           /\ IsFiniteSet(KeepIds(tbl)) /\ Cardinality(KeepIds(tbl)) \in Nat
           /\ Cardinality(KeepIds(tbl)) =< MaxStateFiles * Cardinality(Pipelines)
<1> DEFINE U(Q) == UNION {KeptLoads(tbl, q) : q \in Q}
           Good(Q, n) == IsFiniteSet(U(Q)) /\ Cardinality(U(Q)) =< MaxStateFiles * n
           Bad == {n \in Nat : \E Q \in SUBSET Pipelines : Cardinality(Q) = n /\ ~Good(Q, n)}
<1>0. MaxStateFiles \in Nat /\ Cardinality(Pipelines) \in Nat
  BY ConfigAssumption, FS_CardinalityType
<1>1. Bad = {}
  <2> SUFFICES ASSUME Bad # {} PROVE FALSE
    OBVIOUS
  <2>1. PICK n \in Bad : \A k \in Bad : n =< k
    BY LeastNumber
  <2>2. PICK Q \in SUBSET Pipelines : Cardinality(Q) = n /\ ~Good(Q, n)
    BY <2>1
  <2>3. n \in Nat /\ IsFiniteSet(Q)
    BY <2>1, FS_Subset
  <2>4. PICK q \in Q : TRUE
    <3>1. CASE Q = {}
      <4>1. U(Q) = {} /\ n = 0
        BY <2>2, <3>1, FS_EmptySet
      <4>2. MaxStateFiles * 0 = 0 /\ IsFiniteSet({}) /\ Cardinality({}) = 0
        BY <1>0, FS_EmptySet
      <4>3. IsFiniteSet(U(Q)) /\ Cardinality(U(Q)) = 0 /\ MaxStateFiles * n = 0
        BY <4>1, <4>2
      <4> QED  BY <2>2, <4>3
    <3> QED  BY <3>1
  <2> DEFINE R == Q \ {q}
  <2>5. R \in SUBSET Pipelines /\ Cardinality(R) = n - 1 /\ n - 1 \in Nat
    <3>1. Cardinality(R) = n - 1 /\ IsFiniteSet(R)
      BY <2>2, <2>3, FS_RemoveElement
    <3>2. Cardinality(R) \in Nat
      BY <3>1, FS_CardinalityType
    <3> QED  BY <3>1, <3>2
  <2>6. Good(R, n - 1)
    <3>1. n - 1 \notin Bad
      BY <2>1, <2>3
    <3> HIDE DEF Good
    <3> QED  BY <2>5, <3>1
  <2>7. U(Q) = U(R) \union KeptLoads(tbl, q)
    OBVIOUS
  <2> DEFINE A == U(R)
             B == KeptLoads(tbl, q)
  <2>8. IsFiniteSet(B) /\ Cardinality(B) \in Nat /\ Cardinality(B) =< MaxStateFiles
    BY KeptPerPipeline
  <2>9. IsFiniteSet(A) /\ Cardinality(A) =< MaxStateFiles * (n - 1)
    BY <2>6
  <2> HIDE DEF A, B
  <2>10. /\ IsFiniteSet(A \union B) /\ Cardinality(A) \in Nat
         /\ Cardinality(A \cap B) \in Nat
         /\ Cardinality(A \union B) = Cardinality(A) + Cardinality(B) - Cardinality(A \cap B)
    BY <2>8, <2>9, FS_Union, FS_Intersection, FS_CardinalityType
  <2>11. MaxStateFiles * (n - 1) + MaxStateFiles = MaxStateFiles * n
    BY <1>0, <2>3
  <2>12. MaxStateFiles * (n - 1) \in Nat /\ MaxStateFiles * n \in Nat
    BY <1>0, <2>3, <2>5
  <2>13. Cardinality(A \union B) =< MaxStateFiles * n
    BY <1>0, <2>8, <2>9, <2>10, <2>11, <2>12
  <2> QED  BY <2>2, <2>7, <2>10, <2>13 DEF A, B
<1>2. Good(Pipelines, Cardinality(Pipelines))
  <2> HIDE DEF Good
  <2> QED  BY <1>0, <1>1
<1>3. KeepIds(tbl) = U(Pipelines)
  <2>1. \A r \in tbl : r.pipe \in Pipelines
    BY DEF Row
  <2> QED  BY <2>1 DEF KeepIds, KeptLoads
<1> QED  BY <1>0, <1>2, <1>3, FS_CardinalityType

\* A table with rows has one that is kept: that with the fewest newer ones.
LEMMA SomeRowIsKept ==
    ASSUME NEW tbl \in SUBSET Row, IsFiniteSet(tbl), MaxStateFiles >= 1,
           KeptRows(KeepIds(tbl), tbl) = {}
    PROVE  tbl = {}
<1> SUFFICES ASSUME tbl # {} PROVE FALSE
  OBVIOUS
<1> DEFINE Ranks == {Cardinality(Newer(tbl, r)) : r \in tbl}
<1>1. \A r \in tbl : IsFiniteSet(Newer(tbl, r)) /\ Cardinality(Newer(tbl, r)) \in Nat
  BY FS_Subset, FS_CardinalityType DEF Newer
<1>2. Ranks \in SUBSET Nat /\ Ranks # {}
  BY <1>1
<1>3. PICK r \in tbl : \A s \in tbl : Cardinality(Newer(tbl, r)) =< Cardinality(Newer(tbl, s))
  <2>1. PICK rank \in Ranks : \A other \in Ranks : rank =< other
    BY <1>2, LeastNumber
  <2> QED  BY <2>1
<1>4. CASE Newer(tbl, r) = {}
  <2>1. Cardinality(Newer(tbl, r)) < MaxStateFiles
    BY <1>4, FS_EmptySet, ConfigAssumption
  <2> QED  BY <2>1 DEF KeptRows, KeepIds
<1>5. ASSUME NEW s \in Newer(tbl, r) PROVE FALSE
  <2>1. s \in tbl /\ Newer(tbl, s) \subseteq Newer(tbl, r) /\ s \notin Newer(tbl, s)
    BY <1>5 DEF Newer, Row, LoadIds
  <2>2. Cardinality(Newer(tbl, s)) =< Cardinality(Newer(tbl, r)) /\ Newer(tbl, s) # Newer(tbl, r)
    BY <1>1, <1>5, <2>1, FS_Subset
  <2>3. Cardinality(Newer(tbl, s)) # Cardinality(Newer(tbl, r))
    BY <1>1, <2>1, <2>2, FS_Subset
  <2> QED  BY <1>1, <1>3, <2>1, <2>2, <2>3
<1> QED  BY <1>4, <1>5

\* The load ids of a table that was just trimmed, or was not worth trimming.
LEMMA TrimmedIsBounded ==
    ASSUME TypeOK, TrimInvariant, IsFiniteSet(Pipelines), MaxStateFiles >= 1,
           NEW p \in Pipelines, ReadIndex(p) \/ ReadRows(p) \/ Rewrite(p),
           p \notin disturbed, phase'[p] = "done"
    PROVE  Cardinality({r.load : r \in stateRows'})
              < MaxStateFiles * (Cardinality(Pipelines) + 1)
<1> DEFINE K == MaxStateFiles
           P == Cardinality(Pipelines)
           L == {r.load : r \in stateRows'}
<1>0. /\ K \in Nat /\ K >= 1 /\ P \in Nat /\ P >= 1 /\ K * P \in Nat
      /\ K * (P + 1) = K * P + K /\ K * P >= K
  <2>1. P \in Nat /\ P >= 1
    BY FS_EmptySet, FS_CardinalityType
  <2>2. K \in Nat
    BY ConfigAssumption
  <2> QED  BY <2>1, <2>2
<1>1. stateRows \in SUBSET Row /\ IsFiniteSet(stateRows)
  BY TablesAreFinite DEF TypeOK
<1>2. /\ IsFiniteSet(KeepIds(stateRows)) /\ Cardinality(KeepIds(stateRows)) \in Nat
      /\ Cardinality(KeepIds(stateRows)) =< K * P
  BY <1>1, KeepIdsBounded
<1>3. CASE ReadIndex(p)
  <2>1. stateRows' = stateRows /\ ~WorthTrimming(stateRows)
    BY <1>3 DEF ReadIndex, server, TypeOK
  <2>2. Cardinality(stateRows) \in Nat /\ Cardinality(L) \in Nat /\ Cardinality(L) =< Cardinality(stateRows)
    BY <1>1, <2>1, LoadsOfRows, FS_CardinalityType
  <2>3. ~(Cardinality(stateRows) > K) \/ ~(Cardinality(stateRows) - Cardinality(KeepIds(stateRows)) >= K)
    BY <2>1 DEF WorthTrimming, Dropped
  <2> HIDE DEF K, P, L
  <2>4. Cardinality(L) < K * (P + 1)
    BY <1>0, <1>2, <2>2, <2>3
  <2> QED  BY <2>4 DEF K, P, L
<1>4. ASSUME L \subseteq KeepIds(stateRows) PROVE Cardinality(L) < K * (P + 1)
  <2>1. Cardinality(L) \in Nat /\ Cardinality(L) =< Cardinality(KeepIds(stateRows))
    BY <1>2, <1>4, FS_Subset, FS_CardinalityType
  <2> HIDE DEF K, P, L
  <2> QED  BY <1>0, <1>2, <2>1
<1>5. CASE ReadRows(p)
  <2>1. /\ stateRows' = stateRows /\ index[p] = stateRows
        /\ ~WorthRewriting(KeepIds(stateRows), stateRows)
    BY <1>5 DEF ReadRows, server, TrimInvariant, TypeOK
  <2>2. CASE KeptRows(KeepIds(stateRows), stateRows) = stateRows
    <3>1. L \subseteq KeepIds(stateRows)
      BY <2>1, <2>2 DEF KeptRows
    <3> QED  BY <1>4, <3>1
  <2>3. CASE KeptRows(KeepIds(stateRows), stateRows) = {}
    <3>1. stateRows = {}
      BY <1>1, <2>3, SomeRowIsKept
    <3>2. L \subseteq KeepIds(stateRows)
      BY <2>1, <3>1
    <3> QED  BY <1>4, <3>2
  <2> QED  BY <2>1, <2>2, <2>3 DEF WorthRewriting
<1>6. CASE Rewrite(p)
  <2>1. stateRows' = KeptRows(KeepIds(stateRows), stateRows)
    BY <1>6 DEF Rewrite, TrimInvariant
  <2>2. L \subseteq KeepIds(stateRows)
    BY <2>1 DEF KeptRows
  <2> QED  BY <1>4, <2>2
<1> QED  BY <1>3, <1>5, <1>6

\* A trim runs only with retention on.
TrimsAreOn == \A p \in Pipelines : phase[p] \in Trimming => MaxStateFiles >= 1

LEMMA TrimsOnlyWhenOn == Spec => []TrimsAreOn
<1>1. Init => TrimsAreOn
  BY DEF Init, TrimsAreOn, Trimming
<1>2. TypeOK /\ TrimsAreOn /\ [Next]_vars => TrimsAreOn'
  <2> SUFFICES ASSUME TypeOK, TrimsAreOn, [Next]_vars,
                      NEW q \in Pipelines, phase'[q] \in Trimming
               PROVE  MaxStateFiles >= 1
    BY DEF TrimsAreOn
  <2>1. CASE phase'[q] = phase[q]
    BY <2>1 DEF TrimsAreOn
  <2>2. ASSUME NEW p \in Pipelines, CompleteLoad(p) PROVE MaxStateFiles >= 1 \/ phase'[q] = phase[q]
    BY <2>2, ConfigAssumption DEF CompleteLoad, TypeOK, Trimming
  <2>3. ASSUME NEW p \in Pipelines, ReadIndex(p) \/ ReadRows(p) PROVE MaxStateFiles >= 1
    BY <2>3 DEF ReadIndex, ReadRows, TrimsAreOn, Trimming
  <2>4. ASSUME NEW p \in Pipelines,
               \/ StartLoad(p) \/ LandState(p) \/ Rewrite(p) \/ TrimFails(p)
               \/ Resume(p) \/ Commit(p) \/ Abandon(p)
        PROVE  phase'[q] = phase[q]
    BY <2>4 DEF StartLoad, LandState, Rewrite, TrimFails, Resume, Commit, Abandon, Forget, TypeOK, Trimming
  <2> QED
    BY <2>1, <2>2, <2>3, <2>4 DEF Next, vars, locals
<1> QED  BY <1>1, <1>2, TypeCorrect, PTL DEF Spec

\* However many pipelines share the table: a trim that nobody wrote past leaves
\* fewer than max_state_files loads per pipeline and that many more
\* (the two thresholds of _prune_pipeline_state).
THEOREM TableIsBounded == ASSUME IsFiniteSet(Pipelines) PROVE Spec => RetentionBound
<1> DEFINE Bounded == \A p \in Pipelines :
              /\ ReadIndex(p) \/ ReadRows(p) \/ Rewrite(p)
              /\ p \notin disturbed /\ phase'[p] = "done"
              => Cardinality({r.load : r \in stateRows'})
                    < MaxStateFiles * (Cardinality(Pipelines) + 1)
<1>1. TypeOK /\ TrimInvariant /\ TrimsAreOn => Bounded
  <2> SUFFICES ASSUME TypeOK, TrimInvariant, TrimsAreOn, NEW p \in Pipelines,
                      ReadIndex(p) \/ ReadRows(p) \/ Rewrite(p),
                      p \notin disturbed, phase'[p] = "done"
               PROVE  Cardinality({r.load : r \in stateRows'})
                         < MaxStateFiles * (Cardinality(Pipelines) + 1)
    OBVIOUS
  <2>1. MaxStateFiles >= 1
    BY DEF TrimsAreOn, ReadIndex, ReadRows, Rewrite, Trimming
  <2> QED  BY <2>1, TrimmedIsBounded
<1> HIDE DEF Bounded
<1>2. Spec => [][Bounded]_vars
  BY <1>1, TypeCorrect, TrimsAreCurrent, TrimsOnlyWhenOn, PTL
<1> QED  BY <1>2 DEF RetentionBound, Bounded
=============================================================================
