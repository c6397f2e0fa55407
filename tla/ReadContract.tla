---------------------------- MODULE ReadContract ----------------------------
(***************************************************************************)
(* What one ReadRecord / ReadRecordV2 call of a Bucket promises the thread *)
(* that makes it: the record callback is called for the records of the     *)
(* response one at a time and in their order, never again once it refused  *)
(* one or the last record was given, never outside the call, and a call    *)
(* that reports success has given every record or was stopped.  A call     *)
(* that reports an error has given none.                                   *)
(***************************************************************************)
EXTENDS Integers

CONSTANTS Thread,      \* the threads that may be inside a read call
          MaxRecords   \* records in one response

VARIABLES phase,    \* "idle", "asked" (no answer yet) or "open" (headers are here)
          total,    \* records in the answer to the current call
          seen,     \* index of the record the callback was last called for
          busy,     \* the callback is running
          over,     \* the callback refused a record, or was given the last one
          ret       \* what the latest finished call returned

vars == <<phase, total, seen, busy, over, ret>>

Init == /\ phase = [t \in Thread |-> "idle"]
        /\ total = [t \in Thread |-> 0]
        /\ seen  = [t \in Thread |-> 0]
        /\ busy  = [t \in Thread |-> FALSE]
        /\ over  = [t \in Thread |-> FALSE]
        /\ ret   = [t \in Thread |-> [stopped |-> FALSE, err |-> FALSE]]

Begin(t) == /\ phase[t] = "idle"
            /\ phase' = [phase EXCEPT ![t] = "asked"]
            /\ UNCHANGED <<total, seen, busy, over, ret>>

Answer(t) == /\ phase[t] = "asked"
             /\ phase' = [phase EXCEPT ![t] = "open"]
             /\ \E n \in 0..MaxRecords : total' = [total EXCEPT ![t] = n]
             /\ UNCHANGED <<seen, busy, over, ret>>

Deliver(t) == /\ phase[t] = "open"
              /\ ~busy[t]
              /\ ~over[t]
              /\ seen[t] < total[t]
              /\ seen' = [seen EXCEPT ![t] = seen[t] + 1]
              /\ busy' = [busy EXCEPT ![t] = TRUE]
              /\ UNCHANGED <<phase, total, over, ret>>

CallbackReturn(t) == /\ phase[t] = "open"
                     /\ busy[t]
                     /\ busy' = [busy EXCEPT ![t] = FALSE]
                     /\ \E b \in BOOLEAN : over' = [over EXCEPT ![t] = b]
                     /\ UNCHANGED <<phase, total, seen, ret>>

Leave(t, result) == /\ phase' = [phase EXCEPT ![t] = "idle"]
                    /\ ret'   = [ret EXCEPT ![t] = result]
                    /\ total' = [total EXCEPT ![t] = 0]
                    /\ seen'  = [seen EXCEPT ![t] = 0]
                    /\ over'  = [over EXCEPT ![t] = FALSE]
                    /\ UNCHANGED busy

ReturnOk(t) == /\ phase[t] = "open"
               /\ ~busy[t]
               /\ over[t] \/ seen[t] = total[t]
               /\ Leave(t, [stopped |-> over[t], err |-> FALSE])

ReturnError(t) == /\ phase[t] = "asked"
                  /\ Leave(t, [stopped |-> FALSE, err |-> TRUE])

Step(t) == \/ Begin(t) \/ Answer(t) \/ Deliver(t)
           \/ CallbackReturn(t) \/ ReturnOk(t) \/ ReturnError(t)

Next == \E t \in Thread : Step(t)

Spec == Init /\ [][Next]_vars
=============================================================================
