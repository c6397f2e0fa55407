-------------------------- MODULE QueryLoopProofs --------------------------
(* Theorems about QueryLoop, for any number of records and size of batches. *)
EXTENDS QueryLoop, TLAPS

USE DEF Q

-----------------------------------------------------------------------------
(* The invariant.                                                          *)

LoopType ==
  /\ phase \in [{Q} -> {"idle", "asked", "open"}]
  /\ total \in [{Q} -> Nat] /\ seen \in [{Q} -> Nat]
  /\ busy \in [{Q} -> BOOLEAN] /\ over \in [{Q} -> BOOLEAN]
  /\ ret \in [{Q} -> [stopped : BOOLEAN, err : BOOLEAN]]
  /\ continuous \in BOOLEAN
  /\ qpc \in {"post", "loop", "reading", "decide", "sleep", "done"}
  /\ code \in {0, 204, -1}
  /\ result \in {"none", "ok", "error"}
  /\ available \in Nat /\ cursor \in Nat /\ cursor <= available
  /\ last \in BOOLEAN /\ refused \in BOOLEAN
  /\ log \in Seq(Nat)

\* The loop is in a read call exactly while it reads, and outside a call, or
\* before its answer, no batch is open.
ReadInStep ==
  /\ qpc = "reading" <=> phase[Q] # "idle"
  /\ phase[Q] # "open" => total[Q] = 0 /\ seen[Q] = 0 /\ ~busy[Q] /\ ~over[Q]
  /\ seen[Q] <= total[Q] /\ total[Q] <= cursor
  /\ busy[Q] => ~over[Q]
  /\ qpc = "reading" => code = 0

\* As long as the query may go on, the callback has seen what the server handed
\* out but for the rest of the open batch.
Caught ==
  /\ qpc \in {"post", "loop", "sleep", "reading"} => Len(log) = cursor - total[Q] + seen[Q]
  /\ qpc = "post" => cursor = 0
  /\ qpc = "decide" /\ ~ret[Q].stopped /\ code # -1 => Len(log) = cursor
  /\ qpc = "decide" /\ code = 204 /\ ~continuous => cursor = available

\* The callback has what it was to get: it refused more, or there is no more.
Complete == refused \/ (~continuous /\ Len(log) = available)

\* A read call is over because the callback refused or had the last record, and
\* the loop ends well for the same reason or because there is no content.
StopsForAReason ==
  /\ qpc \in {"post", "loop", "sleep"} => ~refused
  /\ qpc = "reading" => (refused => over[Q])
  /\ qpc = "reading" /\ over[Q] => refused \/ (~continuous /\ cursor = available /\ seen[Q] = total[Q])
  /\ phase[Q] = "open" /\ last => ~continuous /\ cursor = available
  /\ qpc = "decide" => IF ret[Q].stopped THEN Complete ELSE ~refused
  /\ qpc # "done" => result = "none"
  /\ result = "ok" => Complete

IInv == LoopType /\ ReadInStep /\ Caught /\ StopsForAReason /\ NoRecordLostOrRepeated

LEMMA InvInit == Init => IInv
<1> SUFFICES ASSUME Init PROVE IInv
  OBVIOUS
<1>1. /\ phase = [t \in {Q} |-> "idle"] /\ total = [t \in {Q} |-> 0] /\ seen = [t \in {Q} |-> 0]
      /\ busy = [t \in {Q} |-> FALSE] /\ over = [t \in {Q} |-> FALSE]
      /\ ret = [t \in {Q} |-> [stopped |-> FALSE, err |-> FALSE]]
  BY DEF Init, Read!Init
<1>2. /\ qpc = "post" /\ code = 0 /\ result = "none" /\ available \in Nat /\ cursor = 0
      /\ last = FALSE /\ refused = FALSE /\ continuous \in BOOLEAN /\ log = <<>>
  BY QueryLoopAssumption DEF Init
<1>3. LoopType
  <2>1. ret \in [{Q} -> [stopped : BOOLEAN, err : BOOLEAN]] /\ log \in Seq(Nat)
    BY <1>1, <1>2
  <2>2. phase \in [{Q} -> {"idle", "asked", "open"}] /\ total \in [{Q} -> Nat] /\ seen \in [{Q} -> Nat]
    BY <1>1
  <2>3. busy \in [{Q} -> BOOLEAN] /\ over \in [{Q} -> BOOLEAN]
    BY <1>1
  <2>4. continuous \in BOOLEAN /\ last \in BOOLEAN /\ refused \in BOOLEAN
    BY <1>2, Zenon
  <2>5. /\ qpc \in {"post", "loop", "reading", "decide", "sleep", "done"}
        /\ code \in {0, 204, -1} /\ result \in {"none", "ok", "error"}
        /\ available \in Nat /\ cursor \in Nat /\ cursor <= available
    BY <1>2
  <2> QED BY <2>1, <2>2, <2>3, <2>4, <2>5, Zenon DEF LoopType
<1>4. ReadInStep /\ Caught
  BY <1>1, <1>2 DEF ReadInStep, Caught
<1>5. StopsForAReason /\ NoRecordLostOrRepeated
  BY <1>1, <1>2 DEF StopsForAReason, NoRecordLostOrRepeated
<1> QED BY <1>3, <1>4, <1>5 DEF IInv

-----------------------------------------------------------------------------
(* Steps.                                                                  *)

\* A step that gives the callback nothing keeps what it was given in order.
LEMMA LogKept == NoRecordLostOrRepeated /\ UNCHANGED log => NoRecordLostOrRepeated'
  BY DEF NoRecordLostOrRepeated

LEMMA PostInv == ASSUME IInv, PostQuery \/ PostFails PROVE IInv'
<1>1. LoopType'
  BY DEF IInv, LoopType, PostQuery, PostFails, readVars, serverVars
<1>2. ReadInStep' /\ Caught'
  BY DEF IInv, LoopType, ReadInStep, Caught, PostQuery, PostFails, readVars, serverVars
<1>3. StopsForAReason'
  BY DEF IInv, LoopType, ReadInStep, StopsForAReason, Complete, PostQuery, PostFails, readVars, serverVars
<1> QED BY <1>1, <1>2, <1>3, LogKept DEF IInv, PostQuery, PostFails

LEMMA CallReadInv == ASSUME IInv, CallRead PROVE IInv'
<1>1. phase' = [phase EXCEPT ![Q] = "asked"] /\ UNCHANGED <<total, seen, busy, over, ret>>
  BY DEF CallRead, Read!Begin
<1>2. qpc = "loop" /\ qpc' = "reading" /\ code' = 0
  BY DEF CallRead
<1>3. UNCHANGED <<continuous, result, available, cursor, last, refused, log>>
  BY DEF CallRead, serverVars
<1>4. LoopType'
  BY <1>1, <1>2, <1>3 DEF IInv, LoopType
<1>5. ReadInStep' /\ Caught'
  BY <1>1, <1>2, <1>3 DEF IInv, LoopType, ReadInStep, Caught
<1>6. StopsForAReason'
  BY <1>1, <1>2, <1>3 DEF IInv, LoopType, ReadInStep, StopsForAReason, Complete
<1> QED BY <1>3, <1>4, <1>5, <1>6, LogKept DEF IInv

LEMMA NextBatchInv == ASSUME IInv, NextBatch PROVE IInv'
<1>1. PICK n \in 0..MaxRecords : total' = [total EXCEPT ![Q] = n]
  BY DEF NextBatch, Read!Answer
<1>2. phase[Q] = "asked" /\ phase' = [phase EXCEPT ![Q] = "open"] /\ UNCHANGED <<seen, busy, over, ret>>
  BY DEF NextBatch, Read!Answer
<1>3. n \in Nat /\ total'[Q] = n
  BY <1>1, QueryLoopAssumption DEF IInv, LoopType
<1>4. cursor + n <= available /\ cursor' = cursor + n /\ last' = (~continuous /\ cursor' = available)
  BY <1>3 DEF NextBatch
<1>5. UNCHANGED <<continuous, qpc, code, result, available, refused, log>> /\ qpc = "reading"
  BY DEF NextBatch
<1>6. LoopType'
  BY <1>1, <1>2, <1>3, <1>4, <1>5 DEF IInv, LoopType
<1>7. ReadInStep' /\ Caught'
  BY <1>2, <1>3, <1>4, <1>5 DEF IInv, LoopType, ReadInStep, Caught
<1>8. StopsForAReason'
  BY <1>2, <1>3, <1>4, <1>5 DEF IInv, LoopType, ReadInStep, StopsForAReason, Complete
<1> QED BY <1>5, <1>6, <1>7, <1>8, LogKept DEF IInv

\* A read call ends with an error before its answer.
LEMMA ReadErrorInv == ASSUME IInv, NoContent \/ ReadFails PROVE IInv'
<1>1. Read!ReturnError(Q)
  BY DEF NoContent, ReadFails
<1>2. /\ phase[Q] = "asked" /\ phase' = [phase EXCEPT ![Q] = "idle"]
      /\ ret' = [ret EXCEPT ![Q] = [stopped |-> FALSE, err |-> TRUE]]
      /\ total' = [total EXCEPT ![Q] = 0] /\ seen' = [seen EXCEPT ![Q] = 0]
      /\ over' = [over EXCEPT ![Q] = FALSE] /\ UNCHANGED busy
  BY <1>1 DEF Read!ReturnError, Read!Leave
<1>3. ret'[Q].stopped = FALSE /\ ret' \in [{Q} -> [stopped : BOOLEAN, err : BOOLEAN]]
  BY <1>2 DEF IInv, LoopType
<1>4. /\ qpc = "reading" /\ qpc' = "decide" /\ code' \in {204, -1}
      /\ cursor' \in cursor..available
      /\ code' = 204 => cursor = available /\ cursor' = cursor
      /\ UNCHANGED <<continuous, result, available, last, refused, log>>
  BY DEF NoContent, ReadFails, serverVars, IInv, LoopType
<1>5. LoopType'
  BY <1>2, <1>3, <1>4 DEF IInv, LoopType
<1>6. ReadInStep' /\ Caught'
  BY <1>2, <1>3, <1>4 DEF IInv, LoopType, ReadInStep, Caught
<1>7. StopsForAReason'
  BY <1>2, <1>3, <1>4 DEF IInv, LoopType, ReadInStep, StopsForAReason, Complete
<1> QED BY <1>4, <1>5, <1>6, <1>7, LogKept DEF IInv

\* The next record of the batch is the one after the last the callback has seen.
LEMMA GiveRecordInv == ASSUME IInv, GiveRecord PROVE IInv' /\ ~refused
<1>1. /\ phase[Q] = "open" /\ ~busy[Q] /\ ~over[Q] /\ seen[Q] < total[Q]
      /\ seen' = [seen EXCEPT ![Q] = seen[Q] + 1] /\ busy' = [busy EXCEPT ![Q] = TRUE]
      /\ UNCHANGED <<phase, total, over, ret>>
  BY DEF GiveRecord, Read!Deliver
<1>2. qpc = "reading" /\ UNCHANGED <<continuous, qpc, code, result, available, cursor, last, refused>>
  BY DEF GiveRecord, serverVars
<1>3. ~refused
  BY <1>1, <1>2 DEF IInv, StopsForAReason
<1>4. log' = Append(log, Len(log) + 1)
  BY <1>1, <1>2 DEF GiveRecord, IInv, LoopType, Caught
<1>5. log \in Seq(Nat) /\ Len(log) \in Nat
  BY DEF IInv, LoopType
<1>6. log' \in Seq(Nat) /\ Len(log') = Len(log) + 1
  BY <1>4, <1>5
<1>7. LoopType'
  BY <1>1, <1>2, <1>6 DEF IInv, LoopType
<1>8. ReadInStep' /\ Caught'
  BY <1>1, <1>2, <1>6 DEF IInv, LoopType, ReadInStep, Caught
<1>9. StopsForAReason'
  BY <1>1, <1>2, <1>6 DEF IInv, LoopType, ReadInStep, StopsForAReason, Complete
<1>10. NoRecordLostOrRepeated'
  BY <1>4, <1>5, <1>6 DEF IInv, NoRecordLostOrRepeated
<1> QED BY <1>3, <1>7, <1>8, <1>9, <1>10 DEF IInv

LEMMA CallbackReturnsInv == ASSUME IInv, CallbackReturns PROVE IInv'
<1>1. PICK b \in BOOLEAN : over' = [over EXCEPT ![Q] = b]
  BY DEF CallbackReturns, Read!CallbackReturn
<1>2. /\ phase[Q] = "open" /\ busy[Q] /\ busy' = [busy EXCEPT ![Q] = FALSE]
      /\ UNCHANGED <<phase, total, seen, ret>>
  BY DEF CallbackReturns, Read!CallbackReturn
<1>3. PICK more \in BOOLEAN : over'[Q] = (~more \/ (last /\ seen[Q] = total[Q])) /\ refused' = ~more
  BY DEF CallbackReturns
<1>4. qpc = "reading" /\ UNCHANGED <<continuous, qpc, code, result, available, cursor, last, log>>
  BY DEF CallbackReturns, serverVars
<1>5. LoopType'
  BY <1>1, <1>2, <1>3, <1>4 DEF IInv, LoopType
<1>6. ReadInStep' /\ Caught'
  BY <1>1, <1>2, <1>4 DEF IInv, LoopType, ReadInStep, Caught
<1>7. StopsForAReason'
  BY <1>2, <1>3, <1>4 DEF IInv, LoopType, ReadInStep, StopsForAReason, Complete
<1> QED BY <1>4, <1>5, <1>6, <1>7, LogKept DEF IInv

LEMMA ReadReturnsInv == ASSUME IInv, ReadReturns PROVE IInv'
<1>1. Read!ReturnOk(Q)
  BY DEF ReadReturns
<1>2. /\ phase[Q] = "open" /\ ~busy[Q] /\ (over[Q] \/ seen[Q] = total[Q])
      /\ phase' = [phase EXCEPT ![Q] = "idle"]
      /\ ret' = [ret EXCEPT ![Q] = [stopped |-> over[Q], err |-> FALSE]]
      /\ total' = [total EXCEPT ![Q] = 0] /\ seen' = [seen EXCEPT ![Q] = 0]
      /\ over' = [over EXCEPT ![Q] = FALSE] /\ UNCHANGED busy
  BY <1>1 DEF Read!ReturnOk, Read!Leave
<1>3. ret'[Q].stopped = over[Q] /\ ret' \in [{Q} -> [stopped : BOOLEAN, err : BOOLEAN]]
  BY <1>2 DEF IInv, LoopType
<1>4. /\ qpc = "reading" /\ qpc' = "decide"
      /\ UNCHANGED <<continuous, code, result, available, cursor, last, refused, log>>
  BY DEF ReadReturns, serverVars
<1>5. LoopType'
  BY <1>2, <1>3, <1>4 DEF IInv, LoopType
<1>6. ReadInStep' /\ Caught'
  BY <1>2, <1>3, <1>4 DEF IInv, LoopType, ReadInStep, Caught
<1>7. StopsForAReason'
  BY <1>2, <1>3, <1>4 DEF IInv, LoopType, ReadInStep, Caught, StopsForAReason, Complete
<1> QED BY <1>4, <1>5, <1>6, <1>7, LogKept DEF IInv

\* What the loop decides, by what the read call returned.
LEMMA DecideCases ==
  ASSUME IInv, Decide
  PROVE  /\ qpc = "decide"
         /\ UNCHANGED <<continuous, readVars, code, serverVars, last, refused, log>>
         /\ \/ ret[Q].stopped /\ Finish("ok")
            \/ ~ret[Q].stopped /\ code = 204 /\ continuous /\ Again("sleep")
            \/ ~ret[Q].stopped /\ code = 204 /\ ~continuous /\ Finish("ok")
            \/ ~ret[Q].stopped /\ code = -1 /\ Finish("error")
            \/ ~ret[Q].stopped /\ code = 0 /\ Again("loop")
  BY DEF Decide, Outcome, IInv, LoopType

LEMMA DecideInv == ASSUME IInv, Decide PROVE IInv'
<1>1. /\ qpc = "decide"
      /\ UNCHANGED <<continuous, phase, total, seen, busy, over, ret, code, available, cursor, last, refused, log>>
  BY DecideCases DEF readVars, serverVars
<1>2. \/ ret[Q].stopped /\ qpc' = "done" /\ result' = "ok"
      \/ ~ret[Q].stopped /\ code = 204 /\ ~continuous /\ qpc' = "done" /\ result' = "ok"
      \/ ~ret[Q].stopped /\ qpc' = "done" /\ result' = "error"
      \/ ~ret[Q].stopped /\ code \in {0, 204} /\ qpc' \in {"sleep", "loop"} /\ UNCHANGED result
  BY DecideCases DEF Finish, Again
<1>3. LoopType'
  BY <1>1, <1>2 DEF IInv, LoopType
<1>4. ReadInStep' /\ Caught'
  BY <1>1, <1>2 DEF IInv, LoopType, ReadInStep, Caught
<1>5. StopsForAReason'
  BY <1>1, <1>2 DEF IInv, LoopType, ReadInStep, Caught, StopsForAReason, Complete
<1> QED BY <1>1, <1>3, <1>4, <1>5, LogKept DEF IInv

LEMMA WakeUpInv == ASSUME IInv, WakeUp PROVE IInv'
<1>1. LoopType' /\ ReadInStep' /\ Caught'
  BY DEF IInv, LoopType, ReadInStep, Caught, WakeUp, readVars, serverVars
<1>2. StopsForAReason'
  BY DEF IInv, LoopType, ReadInStep, StopsForAReason, Complete, WakeUp, readVars, serverVars
<1> QED BY <1>1, <1>2, LogKept DEF IInv, WakeUp

LEMMA RecordWrittenInv == ASSUME IInv, RecordWritten PROVE IInv'
<1>1. LoopType' /\ ReadInStep' /\ Caught'
  BY DEF IInv, LoopType, ReadInStep, Caught, RecordWritten, readVars
<1>2. StopsForAReason'
  BY DEF IInv, LoopType, ReadInStep, StopsForAReason, Complete, RecordWritten, readVars
<1> QED BY <1>1, <1>2, LogKept DEF IInv, RecordWritten

LEMMA StutterInv == ASSUME IInv, UNCHANGED vars PROVE IInv'
  BY DEF IInv, LoopType, ReadInStep, Caught, StopsForAReason, Complete, NoRecordLostOrRepeated, vars, readVars, serverVars

LEMMA InvNext == IInv /\ [Next]_vars => IInv'
  BY PostInv, CallReadInv, NextBatchInv, ReadErrorInv, GiveRecordInv, CallbackReturnsInv, ReadReturnsInv,
     DecideInv, WakeUpInv, RecordWrittenInv, StutterInv DEF Next, ClientStep, ServerStep, Returned

LEMMA InvHolds == Spec => []IInv
  BY InvInit, InvNext, PTL DEF Spec

-----------------------------------------------------------------------------

\* For any number of records and any size of batches the callback sees the records
\* of the query from the first on, each once and in order (bucket.cc 395-414).
THEOREM NoRecordLostOrRepeatedCorrect == Spec => []NoRecordLostOrRepeated
  BY InvHolds, PTL DEF IInv

\* And Query returns kOk only if the callback refused more or has seen every
\* record there is (bucket.cc 403-413).
THEOREM OkIsCompleteCorrect == Spec => []OkIsComplete
<1>1. IInv => OkIsComplete
  BY DEF IInv, StopsForAReason, Complete, OkIsComplete
<1> QED BY InvHolds, <1>1, PTL

\* A continuous query ends well only if its callback stopped it (bucket.cc
\* 404-408).
THEOREM ContinuousGoesOnCorrect == Spec => []ContinuousGoesOn
<1>1. IInv => ContinuousGoesOn
  BY DEF IInv, StopsForAReason, Complete, ContinuousGoesOn
<1> QED BY InvHolds, <1>1, PTL

\* No step of the loop, in the same batch or a later one, calls a callback that
\* has returned false (bucket.cc 398-402, 445-449).
THEOREM StopIsFinalCorrect == Spec => StopIsFinal
<1>1. IInv /\ [Next]_vars => [refused => log' = log]_vars
  <2>1. ASSUME IInv, Next, refused PROVE log' = log
    <3>1. ~GiveRecord
      BY <2>1, GiveRecordInv
    <3> QED BY <2>1, <3>1 DEF Next, ClientStep, ServerStep, Returned, PostQuery, PostFails, CallRead, NextBatch,
            NoContent, ReadFails, CallbackReturns, ReadReturns, Decide, Outcome, WakeUp, RecordWritten, vars
  <2> QED BY <2>1
<1> QED BY InvHolds, <1>1, PTL DEF Spec, StopIsFinal
=============================================================================
