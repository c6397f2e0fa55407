----------------------------- MODULE QueryLoop -----------------------------
(***************************************************************************)
(* Bucket::QueryV1 and QueryV2 (bucket.cc 372-460): the query is posted    *)
(* once, then one read call after the other fetches the next batch of the  *)
(* server's cursor, until the callback stops it, the server has no more    *)
(* (204), or an error is returned.  A continuous query sleeps on 204 and   *)
(* polls again.  Each read call is one that keeps ReadContract, for the    *)
(* only thread QueryThread.                                                *)
(*                                                                         *)
(* The server is external: it hands every record of the query out once, in *)
(* batches, and advances its cursor when it sends a batch, so a reply that *)
(* gets lost takes its records with it.                                    *)
(***************************************************************************)
EXTENDS Integers, Sequences

CONSTANTS QueryThread,
          MaxRecords,   \* bound: records in one batch
          MaxAvailable  \* bound: records that match the query

ASSUME QueryLoopAssumption ==
  /\ MaxRecords \in Nat \ {0}
  /\ MaxAvailable \in Nat

VARIABLES
  phase, total, seen, busy, over, ret,  \* the read call in progress, see ReadContract
  continuous, \* QueryOptions::continuous
  qpc,       \* "post", "loop", "reading", "decide", "sleep" or "done"
  code,      \* error code of the latest read call: 0, 204 or -1 for any other
  result,    \* what Query returned: "none" yet, "ok" or "error"
  available, \* records on the server that match the query
  cursor,    \* records the server has handed out
  last,      \* does the batch end with the record marked last?
  refused,   \* history: the callback returned false
  log        \* history: records given to the callback

readVars == <<phase, total, seen, busy, over, ret>>
serverVars == <<available, cursor>>
vars == <<readVars, continuous, qpc, code, result, serverVars, last, refused, log>>

Read == INSTANCE ReadContract WITH Thread <- {QueryThread}

Q == QueryThread

Init == /\ Read!Init
        /\ continuous \in BOOLEAN
        /\ qpc = "post"
        /\ code = 0
        /\ result = "none"
        /\ available \in 0..MaxAvailable
        /\ cursor = 0
        /\ last = FALSE
        /\ refused = FALSE
        /\ log = <<>>

\* POST .../q answers with the id of a new query, which starts at its first
\* record; the loop uses that id from now on.
PostQuery ==
  /\ qpc = "post"
  /\ qpc' = "loop"
  /\ cursor' = 0
  /\ UNCHANGED <<continuous, readVars, code, result, available, last, refused, log>>

\* The POST fails, or its answer is no JSON object with an id.
PostFails ==
  /\ qpc = "post"
  /\ qpc' = "done"
  /\ result' = "error"
  /\ UNCHANGED <<continuous, readVars, code, serverVars, last, refused, log>>

CallRead ==
  /\ qpc = "loop"
  /\ Read!Begin(Q)
  /\ qpc' = "reading"
  /\ code' = 0
  /\ UNCHANGED <<continuous, result, serverVars, last, refused, log>>

\* The server sends the next records.  Only a query that is not continuous has
\* a last record.
NextBatch ==
  /\ qpc = "reading"
  /\ cursor < available
  /\ Read!Answer(Q)
  /\ total'[Q] > 0
  /\ cursor + total'[Q] <= available
  /\ cursor' = cursor + total'[Q]
  /\ last' = (~continuous /\ cursor' = available)
  /\ UNCHANGED <<continuous, qpc, code, result, available, refused, log>>

NoContent ==
  /\ qpc = "reading"
  /\ cursor = available
  /\ Read!ReturnError(Q)
  /\ code' = 204
  /\ qpc' = "decide"
  /\ UNCHANGED <<continuous, result, serverVars, last, refused, log>>

\* Any other error: the request or its answer is lost, the query expired.
ReadFails ==
  /\ qpc = "reading"
  /\ Read!ReturnError(Q)
  /\ code' = -1
  /\ \E c \in cursor..available : cursor' = c
  /\ qpc' = "decide"
  /\ UNCHANGED <<continuous, result, available, last, refused, log>>

GiveRecord ==
  /\ qpc = "reading"
  /\ Read!Deliver(Q)
  /\ log' = Append(log, cursor - total[Q] + seen'[Q])
  /\ UNCHANGED <<continuous, qpc, code, result, serverVars, last, refused>>

CallbackReturns ==
  /\ qpc = "reading"
  /\ Read!CallbackReturn(Q)
  /\ \E more \in BOOLEAN :
       /\ over'[Q] = (~more \/ (last /\ seen[Q] = total[Q]))
       /\ refused' = ~more
  /\ UNCHANGED <<continuous, qpc, code, result, serverVars, last, log>>

ReadReturns ==
  /\ qpc = "reading"
  /\ Read!ReturnOk(Q)
  /\ qpc' = "decide"
  /\ UNCHANGED <<continuous, code, result, serverVars, last, refused, log>>

Finish(r) == qpc' = "done" /\ result' = r

Outcome(next) ==
  /\ qpc = "decide"
  /\ next
  /\ UNCHANGED <<continuous, readVars, code, serverVars, last, refused, log>>

Again(where) == qpc' = where /\ UNCHANGED result

\* Mutants of Decide.
\* No content ends a continuous query too.
DecideContinuousEnds == Outcome(
  CASE ret[Q].stopped -> Finish("ok")
    [] ~ret[Q].stopped /\ code = 204 -> Finish("ok")
    [] ~ret[Q].stopped /\ code = -1 -> Finish("error")
    [] OTHER -> Again("loop"))

\* Any error counts as the end of the data.
DecideErrorIsEnd == Outcome(
  CASE ret[Q].stopped -> Finish("ok")
    [] ~ret[Q].stopped /\ code # 0 /\ continuous -> Again("sleep")
    [] ~ret[Q].stopped /\ code # 0 /\ ~continuous -> Finish("ok")
    [] OTHER -> Again("loop"))

\* `stopped` is ignored.
DecideIgnoringStop == Outcome(
  CASE code = 204 /\ continuous -> Again("sleep")
    [] code = 204 /\ ~continuous -> Finish("ok")
    [] code = -1 -> Finish("error")
    [] OTHER -> Again("loop"))

\* The query is posted anew for every batch.
DecideReposting == Outcome(
  CASE ret[Q].stopped -> Finish("ok")
    [] ~ret[Q].stopped /\ code = 204 /\ continuous -> Again("sleep")
    [] ~ret[Q].stopped /\ code = 204 /\ ~continuous -> Finish("ok")
    [] ~ret[Q].stopped /\ code = -1 -> Finish("error")
    [] OTHER -> Again("post"))

\* Every query polls on when there is no content.
DecidePollingOn == Outcome(
  CASE ret[Q].stopped -> Finish("ok")
    [] ~ret[Q].stopped /\ code = 204 -> Again("sleep")
    [] ~ret[Q].stopped /\ code = -1 -> Finish("error")
    [] OTHER -> Again("loop"))

\* What the loop does with {stopped, err}: `stopped` is looked at first.
Decide == Outcome(
  CASE ret[Q].stopped -> Finish("ok")
    [] ~ret[Q].stopped /\ code = 204 /\ continuous -> Again("sleep")
    [] ~ret[Q].stopped /\ code = 204 /\ ~continuous -> Finish("ok")
    [] ~ret[Q].stopped /\ code = -1 -> Finish("error")
    [] OTHER -> Again("loop"))

\* Mutant: waits for a notification that nobody sends.
WakeUpMutant == qpc = "sleep" /\ UNCHANGED vars

\* sleep_for(poll_interval)
WakeUp ==
  /\ qpc = "sleep"
  /\ qpc' = "loop"
  /\ UNCHANGED <<continuous, readVars, code, result, serverVars, last, refused, log>>

\* Another thread writes a record a continuous query will match.
RecordWritten ==
  /\ continuous
  /\ available < MaxAvailable
  /\ available' = available + 1
  /\ UNCHANGED <<continuous, readVars, qpc, code, result, cursor, last, refused, log>>

Returned == qpc = "done" /\ UNCHANGED vars

ClientStep == PostQuery \/ PostFails \/ CallRead \/ GiveRecord \/ CallbackReturns
              \/ ReadReturns \/ Decide \/ WakeUp
ServerStep == NextBatch \/ NoContent \/ ReadFails

Next == ClientStep \/ ServerStep \/ RecordWritten \/ Returned

Spec == Init /\ [][Next]_vars

\* The client runs, callbacks return, and a request is answered or fails.
LiveSpec == Spec /\ WF_vars(ClientStep) /\ WF_vars(ServerStep)

-----------------------------------------------------------------------------
(* Properties.                                                             *)

\* The callback sees the records of the query from the first on, each once and
\* in order, over however many read calls (bucket.cc 395-414).
NoRecordLostOrRepeated == \A i \in 1..Len(log) : log[i] = i

\* Query returns kOk only if its callback stopped it or has seen every record
\* there was; a lost answer is never taken for the end (bucket.cc 403-413).
OkIsComplete == result = "ok" => refused \/ Len(log) = available

\* A continuous query goes on until it is stopped or fails (bucket.cc 404-408).
ContinuousGoesOn == continuous /\ result = "ok" => refused

\* After the callback returned false it is not called again, in no later batch.
StopIsFinal == [][refused => log' = log]_vars

\* A query that is not continuous returns (bucket.cc 395-416, 439-457).
QueryReturns == ~continuous => <>(qpc = "done")

\* A record written while a continuous query runs reaches the callback, unless
\* the query ends.
WrittenIsSeen ==
  \A n \in 1..MaxAvailable : continuous /\ available >= n ~> (Len(log) >= n \/ qpc = "done")
=============================================================================
