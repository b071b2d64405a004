----------------------------- MODULE SourceRead ------------------------------
(***************************************************************************)
(* One read through HotdataSourceClient: submit the query, wait for its    *)
(* run and its result, take the authoritative row count, then fetch the    *)
(* result (read_arrow, read_rows) or stream it (read_arrow_batches).  The  *)
(* server may answer in any documented shape, leave fields out, never      *)
(* become ready, and deliver too few or too many rows; the count it gives  *)
(* for a result is the true one.                                           *)
(***************************************************************************)
EXTENDS Integers

CONSTANTS Absent,     \* a field or header that is missing (or not a number)
          MaxRows,    \* bound: rows of the result
          BatchRows,  \* batch_rows: the largest piece to yield; below 1, no limit
          MaxPolls,   \* polls that fit in _POLL_TIMEOUT_SECONDS
          MaxBatches  \* bound: batches in one stream

ASSUME ReadAssumption ==
    /\ Absent \notin Nat /\ BatchRows \in Int
    /\ MaxRows \in Nat /\ MaxPolls \in Nat /\ MaxBatches \in Nat

VARIABLES method,    \* "arrow", "batches" or "rows"
          isSelect,  \* does the statement have a result set?
          total,     \* how many rows the result truly has
          response,  \* the reply to the query, once there is one
          phase,     \* where the read is
          polls,     \* polls made in the current wait
          expected,  \* the row count the read must match
          received,  \* rows taken off the stream
          batches,   \* batches taken off the stream
          piece,     \* rows of the current batch not yet yielded, or Absent
          delivered, \* rows the caller has been given
          shaped,    \* was the caller given a table or batch, so the columns?
          outcome    \* "reading", "complete", "rowless", "raised", "closed"

wire   == <<response, polls, expected, received, batches, piece>>
caller == <<delivered, shaped, outcome>>
asked  == <<method, isSelect, total>>
vars   == <<asked, phase, wire, caller>>

Waiting == {"query", "resolve", "run", "result", "count", "fetch", "stream"}

\* A synchronous response: its result id, whether it names columns, the rows in its
\* body, and the truncated and total_row_count fields.
SyncResponse ==
    [shape : {"sync"}, result : BOOLEAN, columns : {isSelect}, body : 0..total,
     truncated : {"yes", "no", "absent"}, count : {Absent, total}]
AsyncResponse == [shape : {"async"}, result : BOOLEAN]
OtherResponse == [shape |-> "other"]

Init ==
    /\ method \in {"arrow", "batches", "rows"}
    /\ isSelect \in BOOLEAN /\ total \in 0..MaxRows /\ (~isSelect => total = 0)
    /\ response = OtherResponse /\ phase = "query"
    /\ polls = 0 /\ expected = 0 /\ received = 0 /\ batches = 0 /\ piece = Absent
    /\ delivered = 0 /\ shaped = FALSE /\ outcome = "reading"

End(how) == phase' = "end" /\ outcome' = how

Raise == End("raised") /\ UNCHANGED <<delivered, shaped>>

\* The caller is given a whole table of n rows, or a list of n rows.
Return(n) ==
    End("complete") /\ delivered' = n /\ shaped' = (method # "rows" \/ n > 0)

\* _query.
Query ==
    /\ phase = "query"
    /\ \/ \E sync \in SyncResponse :
             (sync.result => isSelect) /\ response' = sync
       \/ \E async \in AsyncResponse : response' = async
       \/ response' = OtherResponse
    /\ phase' = "resolve"
    /\ UNCHANGED <<asked, polls, expected, received, batches, piece, caller>>

\* read_rows takes the body only when it says it is whole and says how many rows.
BodyIsUsable ==
    /\ method = "rows" /\ response.shape = "sync"
    /\ response.truncated = "no" /\ response.count # Absent

TakeBody ==
    /\ phase = "resolve" /\ BodyIsUsable
    /\ IF response.body = response.count THEN Return(response.body) ELSE Raise
    /\ UNCHANGED <<asked, wire>>

\* Mutant: a response without rows counts as one without a result.
DescribesAResultFaultyCount == response.body > 0

\* Columns tell, or rows.
DescribesAResult == response.columns \/ response.body > 0

\* _resolve.
Resolve ==
    /\ phase = "resolve" /\ ~BodyIsUsable
    /\ CASE response.shape = "sync" /\ response.result ->
               phase' = "result" /\ UNCHANGED caller
         [] response.shape = "sync" /\ ~response.result /\ DescribesAResult -> Raise
         [] response.shape = "sync" /\ ~response.result /\ ~DescribesAResult ->
               End("rowless") /\ UNCHANGED <<delivered, shaped>>
         [] response.shape = "async" -> phase' = "run" /\ UNCHANGED caller
         [] response.shape = "other" -> Raise
    /\ UNCHANGED <<asked, wire>>

\* Mutant: the loop never looks at the deadline.
PollFaultyUnbounded(next) ==
    /\ \/ /\ next /\ polls' = 0
       \/ /\ Raise /\ UNCHANGED polls
       \/ /\ polls' = polls + 1 /\ UNCHANGED <<phase, caller>>
    /\ UNCHANGED <<asked, response, expected, received, batches, piece>>

\* Mutant: the deadline is set again in the loop.
PollFaultyDeadlineMoves(next) ==
    /\ polls < MaxPolls
    /\ \/ /\ next /\ polls' = 0
       \/ /\ Raise /\ UNCHANGED polls
       \/ /\ polls' = (polls + 1) % MaxPolls /\ UNCHANGED <<phase, caller>>
    /\ UNCHANGED <<asked, response, expected, received, batches, piece>>

\* One turn of _poll: ready, a failure status, or any other status (wait on).
Poll(next) ==
    /\ polls < MaxPolls
    /\ \/ /\ next /\ polls' = 0
       \/ /\ Raise /\ UNCHANGED polls
       \/ /\ polls' = polls + 1 /\ UNCHANGED <<phase, caller>>
    /\ UNCHANGED <<asked, response, expected, received, batches, piece>>

\* _await_run_result_id, and what _resolve does with a run that names no result.
PollRun ==
    /\ phase = "run"
    /\ Poll(IF response.result THEN phase' = "result" /\ UNCHANGED caller ELSE Raise)

\* _await_result.
PollResult ==
    /\ phase = "result"
    /\ Poll(phase' = "count" /\ UNCHANGED caller)

TimeOut ==
    /\ phase \in {"run", "result"} /\ polls = MaxPolls
    /\ Raise
    /\ UNCHANGED <<asked, wire>>

\* _total_from_headers.
ReadCount ==
    /\ phase = "count"
    /\ \E header \in {Absent, total} :
          IF header = Absent
          THEN Raise /\ UNCHANGED expected
          ELSE /\ expected' = header
               /\ phase' = IF method = "batches" THEN "stream" ELSE "fetch"
               /\ UNCHANGED caller
    /\ UNCHANGED <<asked, response, polls, received, batches, piece>>

\* _read_ready.
Fetch ==
    /\ phase = "fetch"
    /\ \E n \in 0..MaxRows + 1 : IF n = expected THEN Return(n) ELSE Raise
    /\ UNCHANGED <<asked, wire>>

\* read_arrow_batches takes the next batch off the stream ...
TakeBatch ==
    /\ phase = "stream" /\ piece = Absent /\ batches < MaxBatches
    /\ batches = 0 => ~shaped
    /\ \E n \in 0..MaxRows + 1 - received :
          received' = received + n /\ piece' = n
    /\ batches' = batches + 1
    /\ UNCHANGED <<asked, phase, response, polls, expected, caller>>

\* ... and yields it in pieces (_sliced) ...
YieldPiece ==
    /\ phase = "stream" /\ piece # Absent
    /\ LET size == IF BatchRows < 1 \/ piece =< BatchRows THEN piece ELSE BatchRows
       IN  /\ delivered' = delivered + size
           /\ piece' = IF size = piece THEN Absent ELSE piece - size
    /\ shaped' = TRUE
    /\ UNCHANGED <<asked, phase, response, polls, expected, received, batches, outcome>>

\* ... or, when the stream ends without a batch, one without rows ...
YieldEmptyBatch ==
    /\ phase = "stream" /\ batches = 0 /\ ~shaped
    /\ shaped' = TRUE
    /\ UNCHANGED <<asked, phase, wire, delivered, outcome>>

\* Mutant: a stream without batches hands over nothing.
EndOfStreamFaultyNoShape ==
    /\ phase = "stream" /\ piece = Absent
    /\ IF received = expected THEN End("complete") ELSE End("raised")
    /\ UNCHANGED <<asked, wire, delivered, shaped>>

\* ... and checks the total once, at the end of the stream.
EndOfStream ==
    /\ phase = "stream" /\ piece = Absent
    /\ batches = 0 => shaped
    /\ IF received = expected THEN End("complete") ELSE End("raised")
    /\ UNCHANGED <<asked, wire, delivered, shaped>>

\* Mutant: a stream that breaks is retried from its start.
FailFaultyRestart ==
    /\ phase = "stream" /\ piece = Absent
    /\ received' = 0 /\ batches' = 0
    /\ UNCHANGED <<asked, phase, response, polls, expected, piece, caller>>

\* A request fails past its retries, or the stream breaks.
Fail ==
    /\ phase \in Waiting \ {"resolve"} /\ piece = Absent
    /\ Raise
    /\ UNCHANGED <<asked, wire>>

\* The caller stops consuming the generator, which is suspended at a yield.
Close ==
    /\ phase = "stream" /\ shaped /\ End("closed")
    /\ UNCHANGED <<asked, wire, delivered, shaped>>

Step ==
    \/ Query \/ TakeBody \/ Resolve \/ PollRun \/ PollResult \/ TimeOut
    \/ ReadCount \/ Fetch \/ TakeBatch \/ YieldPiece \/ YieldEmptyBatch \/ EndOfStream

Next == Step \/ Fail \/ Close

Spec == Init /\ [][Next]_vars /\ WF_vars(Step)
-----------------------------------------------------------------------------
(* Properties.                                                             *)

TypeOK ==
    /\ total \in Nat /\ polls \in 0..MaxPolls /\ expected \in Nat
    /\ phase \in Waiting \union {"end"}
    /\ received \in Nat /\ batches \in Nat /\ piece \in Nat \union {Absent}
    /\ delivered \in Nat /\ shaped \in BOOLEAN
    /\ outcome \in {"reading", "complete", "rowless", "raised", "closed"}
    /\ phase = "end" <=> outcome # "reading"

\* A read that ends normally delivered the whole result and nothing twice,
\* whatever the server answered: the body was verified against its count, or the
\* fetch or the pieces of the stream against the header.
NeverShort == outcome = "complete" => delivered = total

\* "No result" is only ever the answer to a statement without one: an empty read
\* in its place would truncate a replace table downstream.
RowlessOnlyIfNoResult == outcome = "rowless" => ~isSelect

\* A complete Arrow read hands over the columns too, those of an empty result
\* included, so that dlt creates or truncates the destination table.
EmptyResultsKeepTheirShape == outcome = "complete" /\ method # "rows" => shaped

\* Every read ends, by the deadline if the run or result never becomes ready.
ReadEnds == <>(phase = "end")
=============================================================================
