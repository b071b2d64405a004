-------------------------- MODULE SourceRead_proofs --------------------------
(***************************************************************************)
(* Theorems about SourceRead, for results, batches and deadlines of every  *)
(* size.                                                                   *)
(***************************************************************************)
EXTENDS SourceRead, TLAPS

InBatch == IF piece = Absent THEN 0 ELSE piece

\* Before the stream or the end nothing was received or delivered.
Untouched ==
    phase \notin {"stream", "end"} =>
        /\ delivered = 0 /\ received = 0 /\ batches = 0 /\ piece = Absent
        /\ shaped = FALSE

\* The count a fetch or a stream is held to is the true one.
Counted ==
    /\ phase = "fetch" => expected = total /\ method # "batches"
    /\ phase = "stream" => expected = total /\ method = "batches"

\* In the stream, what was delivered and what is left of the current batch is what
\* was received, and any batch that was finished was handed over.
Streamed ==
    phase = "stream" =>
        /\ delivered + InBatch = received
        /\ batches > 0 /\ piece = Absent => shaped

\* A response says what the statement was.
Answered ==
    /\ response.shape \in {"sync", "async", "other"}
    /\ response.shape = "sync" =>
           response.columns = isSelect /\ response.count \in {Absent, total}

Settled == NeverShort /\ RowlessOnlyIfNoResult /\ EmptyResultsKeepTheirShape

IInv ==
    /\ TypeOK
    /\ total \in Nat /\ isSelect \in BOOLEAN
    /\ Untouched /\ Counted /\ Streamed /\ Answered /\ Settled

\* The invariant holds when a read starts.
LEMMA InitInvariant == Init => IInv
<1> SUFFICES ASSUME Init PROVE IInv
  OBVIOUS
<1>1. TypeOK /\ total \in Nat /\ isSelect \in BOOLEAN
  <2>1. total \in Nat /\ isSelect \in BOOLEAN
    BY ReadAssumption DEF Init
  <2>2. polls \in 0..MaxPolls
    BY ReadAssumption DEF Init
  <2>3. phase \in Waiting
    BY DEF Init, Waiting
  <2>4. phase = "end" <=> outcome # "reading"
    BY DEF Init
  <2>5. piece \in Nat \union {Absent}
    BY DEF Init
  <2>6. expected \in Nat /\ received \in Nat /\ batches \in Nat /\ delivered \in Nat
    BY DEF Init
  <2>7. outcome \in  {"reading", "complete", "rowless", "raised", "closed"} /\ shaped \in BOOLEAN
    BY DEF Init
  <2> QED BY <2>1, <2>2, <2>3, <2>4, <2>5, <2>6, <2>7 DEF TypeOK
<1>2. Answered
  BY DEF Init, Answered, OtherResponse
<1> QED
  BY <1>1, <1>2
  DEF Init, IInv, Untouched, Counted, Streamed, Settled, NeverShort,
      RowlessOnlyIfNoResult, EmptyResultsKeepTheirShape

\* One turn of a wait keeps the invariant if what comes after the wait does.
LEMMA PollKeeps ==
    ASSUME IInv, phase \in {"run", "result"}, polls < MaxPolls,
           UNCHANGED <<asked, response, expected, received, batches, piece>>,
           \/ /\ phase' \in {"result", "count"} /\ UNCHANGED caller /\ polls' = 0
           \/ Raise /\ polls' \in {0, polls}
           \/ polls' = polls + 1 /\ UNCHANGED <<phase, caller>>
    PROVE  IInv'
  BY ReadAssumption
  DEF IInv, TypeOK, Waiting, Untouched, Counted, Streamed, Answered, Settled, NeverShort,
      RowlessOnlyIfNoResult, EmptyResultsKeepTheirShape, InBatch, Raise, End, asked, caller

\* Every step keeps the invariant.
LEMMA StepInvariant == IInv /\ [Next]_vars => IInv'
<1> SUFFICES ASSUME IInv, [Next]_vars PROVE IInv'
  OBVIOUS
<1> USE DEF IInv
<1> DEFINE Ended == phase' = "end" /\ UNCHANGED <<asked, wire>>
<1>0. ASSUME Ended, outcome' \in {"complete", "rowless", "raised", "closed"}, phase # "end",
             delivered' \in Nat, shaped' \in BOOLEAN,
             outcome' = "complete" =>
                 delivered' = total /\ (method # "rows" => shaped'),
             outcome' = "rowless" => ~isSelect
      PROVE  IInv'
  <2>1. TypeOK'
    BY <1>0 DEF TypeOK, Waiting, asked, wire
  <2>2. Answered'
    BY <1>0, phase # "query" \/ phase = "query" DEF Answered, asked, wire
  <2> QED
    BY <1>0, <2>1, <2>2
    DEF Untouched, Counted, Streamed, Settled, NeverShort,
        RowlessOnlyIfNoResult, EmptyResultsKeepTheirShape, asked, wire
<1>1. CASE Query
  <2>1. /\ response'.shape \in {"sync", "async", "other"}
        /\ response'.shape = "sync" =>
               response'.columns = isSelect /\ response'.count \in {Absent, total}
    <3>1. CASE \E sync \in SyncResponse : response' = sync
      BY <3>1 DEF SyncResponse
    <3>2. CASE \E async \in AsyncResponse : response' = async
      BY <3>2 DEF AsyncResponse
    <3>3. CASE response' = OtherResponse
      BY <3>3 DEF OtherResponse
    <3> QED
      BY <1>1, <3>1, <3>2, <3>3 DEF Query
  <2> QED
    BY <1>1, <2>1
    DEF Query, asked, caller, TypeOK, Waiting, Untouched, Counted, Streamed, Answered,
        Settled, NeverShort, RowlessOnlyIfNoResult, EmptyResultsKeepTheirShape
<1>2. CASE TakeBody
  <2>1. response.count \in Nat /\ response.count = total
    BY <1>2, ReadAssumption DEF TakeBody, BodyIsUsable, Answered
  <2> QED
    BY <1>0, <1>2, <2>1
    DEF TakeBody, BodyIsUsable, Return, Raise, End, TypeOK
<1>3. CASE Resolve
  <2>1. CASE response.shape = "sync" /\ response.result
    BY <1>3, <2>1
    DEF Resolve, asked, caller, wire, TypeOK, Waiting, Untouched, Counted, Streamed,
        Answered, Settled, NeverShort, RowlessOnlyIfNoResult, EmptyResultsKeepTheirShape
  <2>2. CASE response.shape = "sync" /\ ~response.result /\ DescribesAResult
    BY <1>0, <1>3, <2>2 DEF Resolve, Raise, End, TypeOK
  <2>3. CASE response.shape = "sync" /\ ~response.result /\ ~DescribesAResult
    <3>1. ~isSelect
      BY <2>3 DEF DescribesAResult, Answered
    <3> QED
      BY <1>0, <1>3, <2>3, <3>1 DEF Resolve, End, TypeOK
  <2>4. CASE response.shape = "async"
    BY <1>3, <2>4
    DEF Resolve, asked, caller, wire, TypeOK, Waiting, Untouched, Counted, Streamed,
        Answered, Settled, NeverShort, RowlessOnlyIfNoResult, EmptyResultsKeepTheirShape
  <2>5. CASE response.shape = "other"
    BY <1>0, <1>3, <2>5 DEF Resolve, Raise, End, TypeOK
  <2>6. response.shape \in {"sync", "async", "other"}
    BY DEF Answered
  <2> QED
    BY <2>1, <2>2, <2>3, <2>4, <2>5, <2>6
<1>4. CASE PollRun
  BY <1>4, PollKeeps DEF PollRun, Poll, Raise, End
<1>5. CASE PollResult
  BY <1>5, PollKeeps DEF PollResult, Poll
<1>6. CASE TimeOut
  BY <1>0, <1>6 DEF TimeOut, Raise, End, TypeOK
<1>7. CASE ReadCount
  <2> SUFFICES ASSUME NEW header \in {Absent, total},
                      IF header = Absent
                      THEN Raise /\ UNCHANGED expected
                      ELSE /\ expected' = header
                           /\ phase' = IF method = "batches" THEN "stream" ELSE "fetch"
                           /\ UNCHANGED caller
               PROVE  IInv'
    BY <1>7 DEF ReadCount
  <2>1. CASE header = Absent
    BY <1>0, <1>7, <2>1 DEF ReadCount, Raise, End, wire, TypeOK
  <2>2. CASE header # Absent
    BY <1>7, <2>2
    DEF ReadCount, asked, caller, TypeOK, Waiting, Untouched, Counted, Streamed, Answered,
        InBatch, Settled, NeverShort, RowlessOnlyIfNoResult, EmptyResultsKeepTheirShape
  <2> QED
    BY <2>1, <2>2
<1>8. CASE Fetch
  BY <1>0, <1>8 DEF Fetch, Return, Raise, End, TypeOK, Counted
<1>9. CASE TakeBatch
  BY <1>9, ReadAssumption
  DEF TakeBatch, asked, caller, TypeOK, Waiting, Untouched, Counted, Streamed, Answered,
      InBatch, Settled, NeverShort, RowlessOnlyIfNoResult, EmptyResultsKeepTheirShape
<1>10. CASE YieldPiece
  <2> DEFINE size == IF BatchRows < 1 \/ piece =< BatchRows THEN piece ELSE BatchRows
  <2>1. phase = "stream" /\ piece \in Nat /\ delivered \in Nat
    BY <1>10 DEF YieldPiece, TypeOK
  <2>2. size \in Nat /\ (size # piece => piece - size \in Nat \ {0})
    BY <2>1, ReadAssumption
  <2>3. /\ delivered' = delivered + size
        /\ piece' = IF size = piece THEN Absent ELSE piece - size
    BY <1>10 DEF YieldPiece
  <2>4. delivered' \in Nat /\ piece' \in Nat \union {Absent}
    BY <2>1, <2>2, <2>3
  <2>5. delivered' + InBatch' = received
    <3>1. delivered + piece = received
      BY <2>1, ReadAssumption DEF Streamed, InBatch
    <3> QED
      BY <2>1, <2>2, <2>3, <3>1, ReadAssumption DEF InBatch
  <2> HIDE DEF size
  <2>6. UNCHANGED <<asked, phase, response, polls, expected, received, batches, outcome>>
        /\ shaped' = TRUE
    BY <1>10 DEF YieldPiece
  <2> QED
    BY <2>1, <2>4, <2>5, <2>6
    DEF asked, TypeOK, Waiting, Untouched, Counted, Streamed, Answered, Settled,
        NeverShort, RowlessOnlyIfNoResult, EmptyResultsKeepTheirShape
<1>11. CASE YieldEmptyBatch
  BY <1>11
  DEF YieldEmptyBatch, asked, wire, TypeOK, Waiting, Untouched, Counted, Streamed, Answered,
      InBatch, Settled, NeverShort, RowlessOnlyIfNoResult, EmptyResultsKeepTheirShape
<1>12. CASE EndOfStream
  BY <1>0, <1>12 DEF EndOfStream, End, TypeOK, Counted, Streamed, InBatch
<1>13. CASE Fail
  BY <1>0, <1>13 DEF Fail, Raise, End, TypeOK, Waiting
<1>14. CASE Close
  BY <1>0, <1>14 DEF Close, End, TypeOK
<1>15. CASE UNCHANGED vars
  BY <1>15
  DEF vars, asked, wire, caller, TypeOK, Untouched, Counted, Streamed, Answered,
      InBatch, Settled, NeverShort, RowlessOnlyIfNoResult, EmptyResultsKeepTheirShape
<1> QED
  BY <1>1, <1>2, <1>3, <1>4, <1>5, <1>6, <1>7, <1>8, <1>9, <1>10, <1>11, <1>12,
     <1>13, <1>14, <1>15 DEF Next, Step

\* The types of the state.
THEOREM TypeCorrect == Spec => []TypeOK
<1>1. IInv => TypeOK
  BY DEF IInv
<1> QED
  BY <1>1, InitInvariant, StepInvariant, PTL DEF Spec

\* A read that completes delivered the whole result once (read_arrow, read_rows and
\* read_arrow_batches), whatever shapes, counts and batches the server sent.
THEOREM ReadsAreWhole == Spec => []NeverShort
<1>1. IInv => NeverShort
  BY DEF IInv, Settled
<1> QED
  BY <1>1, InitInvariant, StepInvariant, PTL DEF Spec

\* _resolve answers "no result" only for a statement that has none.
THEOREM RowlessMeansNoResult == Spec => []RowlessOnlyIfNoResult
<1>1. IInv => RowlessOnlyIfNoResult
  BY DEF IInv, Settled
<1> QED
  BY <1>1, InitInvariant, StepInvariant, PTL DEF Spec

\* A completed Arrow read, an empty one included, gave its caller the columns.
THEOREM ShapesAreKept == Spec => []EmptyResultsKeepTheirShape
<1>1. IInv => EmptyResultsKeepTheirShape
  BY DEF IInv, Settled
<1> QED
  BY <1>1, InitInvariant, StepInvariant, PTL DEF Spec
=============================================================================
