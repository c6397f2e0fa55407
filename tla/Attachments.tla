---------------------------- MODULE Attachments ----------------------------
(***************************************************************************)
(* Attachments of one entry (bucket.cc 190-309): a map from keys to JSON   *)
(* kept as the records of <entry>/$meta.  WriteAttachments adds a record   *)
(* per key, stamped with the system clock; RemoveAttachments queries the   *)
(* records of its keys and labels each of them removed; ReadAttachments    *)
(* queries all records and replays them by time.                           *)
(*                                                                         *)
(* Each call is a process of its own, whichever threads and clients make   *)
(* the calls.  A query is taken to give each record once, by time          *)
(* (QueryLoop), and a batch to reach the server as it was built            *)
(* (BatchWrite).  The server is external: it takes the records of a        *)
(* request one at a time, may reject any, rejects a second record with the *)
(* same time, and goes on with a request whose client has given up.  All   *)
(* calls read one clock, which never steps back.  The payload of a write   *)
(* is the number of the call.                                              *)
(***************************************************************************)
EXTENDS Integers, Sequences, FiniteSets, FiniteSetsExt, Functions

CONSTANTS Keys,     \* number of attachment keys
          MaxTime,  \* bound: the clock, in microseconds
          MaxCalls, \* bound: calls
          MaxOpen,  \* bound: calls in progress at once
          Foreigns  \* of BOOLEAN: has somebody written a record without a key?

ASSUME AttachmentsAssumption ==
  /\ Keys \in Nat \ {0}
  /\ MaxTime \in Nat \ {0, 1}
  /\ MaxCalls \in Nat
  /\ MaxOpen \in Nat
  /\ Foreigns \subseteq BOOLEAN

Key == 1..Keys
NoKey == 0      \* a record without a key label
Foreign == 0    \* payload of such a record
NotJson == -1   \* payload that does not parse

VARIABLES
  clock,    \* Time::clock::now()
  store,    \* records of the entry: from time to record
  calls,    \* the calls and their locals, by the time they began
  requests  \* what the server has yet to do of the batch of a call

vars == <<clock, store, calls, requests>>

Record(key, val) == [key |-> key, val |-> val, removed |-> FALSE]

Init == /\ clock = 2
        /\ \E foreign \in Foreigns : store = IF foreign THEN <<Record(NoKey, Foreign)>> ELSE <<>>
        /\ calls = <<>>
        /\ requests = <<>>

Without(f, x) == Restrict(f, DOMAIN f \ {x})

With(f, x, y) == [z \in DOMAIN f \cup {x} |-> IF z = x THEN y ELSE f[z]]

-----------------------------------------------------------------------------
(* A call begins and returns.                                              *)

\* The query of a call and the locals of its callback.
Query(cursor, until, left, map, marked) ==
  [cursor |-> cursor,  \* time of the last record the query gave
   until  |-> until,   \* the query gives at least the records up to here
   left   |-> left,    \* a record of the current batch was left unread
   map    |-> map,     \* attachments of ReadAttachments
   marked |-> marked]  \* records in remove_batch of RemoveAttachments

NoQuery(map) == Query(0, 0, FALSE, map, {})

NewQuery == Query(0, Max(DOMAIN store \cup {0}), FALSE, <<>>, {})

\* state: "request", "reading" or "selecting", then "ok", "error" or "refused".
Call(kind, keys, state, query, time, end) ==
  [kind |-> kind, keys |-> keys, state |-> state, query |-> query,
   time |-> time,  \* history: of a write, the time of its first record
   end  |-> end]   \* history: calls begun when it returned

Begin(kind, keys, state, query, time) ==
  /\ Len(calls) < MaxCalls
  /\ Cardinality({i \in 1..Len(calls) : calls[i].end = 0}) < MaxOpen
  /\ calls' = Append(calls, Call(kind, keys, state, query, time, 0))

\* The query has given a record.
Advance(i, query) ==
  calls' = [calls EXCEPT ![i] = Call(@.kind, @.keys, @.state, query, @.time, @.end)]

Return(i, state, map) ==
  calls' = [calls EXCEPT ![i] = Call(@.kind, @.keys, state, NoQuery(map), @.time, Len(calls))]

\* What the server has yet to do of a batch, and whether it rejected a record.
Request(batch, errors) == [batch |-> batch, errors |-> errors]

InState(state) == {i \in 1..Len(calls) : calls[i].state = state}

-----------------------------------------------------------------------------
(* WriteAttachments.                                                       *)

\* Mutant: the time is not advanced from key to key.
StampMutant(time, keys, key) == time

\* Keys in order, a microsecond apart.
Stamp(time, keys, key) == time + Cardinality({k \in keys : k < key})

\* Of two records with one time the first is kept (BatchWrite).
WriteBatch(time, keys, i) ==
  [t \in {Stamp(time, keys, k) : k \in keys} |->
     Record(Min({k \in keys : Stamp(time, keys, k) = t}), i)]

\* A payload that is not JSON refuses the whole call before anything is sent.
WriteInvalid ==
  /\ Len(calls) < MaxCalls
  /\ calls' = Append(calls, Call("write", Key, "refused", NoQuery(<<>>), 0, Len(calls) + 1))
  /\ UNCHANGED <<clock, store, requests>>

\* The clock need not have advanced since the last call.
WriteAttachments ==
  /\ \E keys \in SUBSET Key \ {{}}, now \in clock..MaxTime :
       /\ clock' = now
       /\ Begin("write", keys, "request", NoQuery(<<>>), now)
       /\ requests' = With(requests, Len(calls) + 1,
                           Request(WriteBatch(now, keys, Len(calls) + 1), FALSE))
  /\ UNCHANGED store

-----------------------------------------------------------------------------
(* Queries.                                                                *)

More(i) == \E t \in DOMAIN store : t > calls[i].query.cursor

\* Time of the record the query gives next.
NextTime(i) == Min({t \in DOMAIN store : t > calls[i].query.cursor})

QueryComplete(i) == \A t \in DOMAIN store : t > calls[i].query.cursor => t > calls[i].query.until

\* A request of the query fails.
QueryFails == /\ \E i \in InState("reading") \cup InState("selecting") : Return(i, "error", <<>>)
              /\ UNCHANGED <<clock, store, requests>>

-----------------------------------------------------------------------------
(* ReadAttachments.                                                        *)

ReadAttachments == /\ Begin("read", Key, "reading", NewQuery, 0)
                   /\ UNCHANGED <<clock, store, requests>>

\* ReadAll takes its bytes off the front of the batch: they are not those of the
\* record if one before it in the batch was left unread.
Payload(r, left) == IF left THEN {Foreign, NotJson} ELSE {r.val}

\* Mutant: does not look for the label "remove".
ReplayMutant(map, r, payload) == With(map, r.key, payload)

Replay(map, r, payload) == IF r.removed THEN Without(map, r.key) ELSE With(map, r.key, payload)

\* Mutant: the label is not looked for.
HasKeyMutant(r) == TRUE

HasKey(r) == r.key # NoKey

\* The callback of ReadAttachments for one record; it returns before it reads
\* one that has no key.
ReadOne ==
  /\ \E i \in InState("reading"), newBatch \in BOOLEAN :
       LET r    == store[NextTime(i)]
           q    == calls[i].query
           left == q.left /\ ~newBatch
       IN  /\ More(i)
           /\ \/ /\ ~HasKey(r)
                 /\ Advance(i, Query(NextTime(i), q.until, TRUE, q.map, {}))
              \/ /\ HasKey(r)
                 /\ \E payload \in Payload(r, left) :
                      \/ /\ payload = NotJson /\ ~r.removed
                         /\ Return(i, "error", <<>>)
                      \/ /\ payload # NotJson \/ r.removed
                         /\ Advance(i, Query(NextTime(i), q.until, left, Replay(q.map, r, payload), {}))
  /\ UNCHANGED <<clock, store, requests>>

ReadDone == /\ \E i \in InState("reading") : QueryComplete(i) /\ Return(i, "ok", calls[i].query.map)
            /\ UNCHANGED <<clock, store, requests>>

-----------------------------------------------------------------------------
(* RemoveAttachments.                                                      *)

\* No keys stand for all.
RemoveAttachments == /\ \E keys \in {{}} \cup {{k} : k \in Key} : Begin("remove", keys, "selecting", NewQuery, 0)
                     /\ UNCHANGED <<clock, store, requests>>

Selected(keys, r) == keys = {} \/ r.key \in keys

SelectOne ==
  /\ \E i \in InState("selecting") :
       LET q == calls[i].query
           found == IF Selected(calls[i].keys, store[NextTime(i)]) THEN {NextTime(i)} ELSE {}
       IN  /\ More(i)
           /\ Advance(i, Query(NextTime(i), q.until, FALSE, <<>>, q.marked \cup found))
  /\ UNCHANGED <<clock, store, requests>>

\* The records marked, with the label "remove".
RemoveBatch(marked) == [t \in marked |-> [store[t] EXCEPT !.removed = TRUE]]

\* An empty batch is not sent.
SelectDone ==
  /\ \E i \in InState("selecting") :
       LET marked == calls[i].query.marked
       IN  /\ QueryComplete(i)
           /\ \/ /\ marked = {}
                 /\ Return(i, "ok", <<>>)
                 /\ UNCHANGED requests
              \/ /\ marked # {}
                 /\ calls' = [calls EXCEPT ![i] = Call("remove", @.keys, "request", NoQuery(<<>>), 0, 0)]
                 /\ requests' = With(requests, i, Request(RemoveBatch(marked), FALSE))
  /\ UNCHANGED <<clock, store>>

-----------------------------------------------------------------------------
(* The server, and its answer to a batch.                                  *)

\* The next record of a request is stored, updated or rejected.
Process ==
  /\ \E i \in DOMAIN requests, rejected \in BOOLEAN :
       LET batch == requests[i].batch
           failed == requests[i].errors \/ rejected
       IN  \E t \in DOMAIN batch :
             /\ \A u \in DOMAIN batch : t <= u
             /\ calls[i].kind = "write" /\ t \in DOMAIN store => rejected
             /\ store' = IF rejected THEN store ELSE With(store, t, batch[t])
             /\ requests' = [requests EXCEPT
                  ![i] = Request(Without(batch, t), calls[i].state = "request" /\ failed)]
  /\ UNCHANGED <<clock, calls>>

\* Mutant: errors of single records are not looked at.
FirstBatchRecordErrorMutant(errors) == "ok"

FirstBatchRecordError(errors) == IF errors THEN "error" ELSE "ok"

Answer ==
  /\ \E i \in InState("request") :
       /\ requests[i].batch = <<>>
       /\ Return(i, FirstBatchRecordError(requests[i].errors), <<>>)
       /\ requests' = Without(requests, i)
  /\ UNCHANGED <<clock, store>>

\* The request times out, or its answer is lost.
GiveUp == /\ \E i \in InState("request") :
               /\ Return(i, "error", <<>>)
               /\ requests' = [requests EXCEPT ![i] = Request(@.batch, FALSE)]
          /\ UNCHANGED <<clock, store>>

Finished == /\ \A i \in 1..Len(calls) : calls[i].end # 0
            /\ Len(calls) = MaxCalls
            /\ UNCHANGED vars

Next == \/ WriteInvalid \/ WriteAttachments \/ QueryFails
        \/ ReadAttachments \/ ReadOne \/ ReadDone
        \/ RemoveAttachments \/ SelectOne \/ SelectDone
        \/ Process \/ Answer \/ GiveUp \/ Finished

Spec == Init /\ [][Next]_vars

-----------------------------------------------------------------------------
(* Properties.                                                             *)

\* Among the rest: only a record that is in the store is ever marked, and bytes
\* that are not an attachment's come up only if some record has no key.
TypeOK ==
  /\ clock \in 2..MaxTime
  /\ \A t \in DOMAIN store : store[t] \in [key : Key \cup {NoKey}, val : 0..Len(calls), removed : BOOLEAN]
  /\ \A i \in 1..Len(calls) :
       /\ calls[i].state \in {"request", "reading", "selecting", "ok", "error", "refused"}
       /\ calls[i].end # 0 <=> calls[i].state \in {"ok", "error", "refused"}
       /\ calls[i].query.marked \subseteq DOMAIN store
       /\ DOMAIN calls[i].query.map \subseteq Key
       /\ Foreign \in Range(calls[i].query.map) => store[1].key = NoKey
  /\ DOMAIN requests \subseteq 1..Len(calls)

\* Call i may have changed key k.
Changes(i, k) == /\ calls[i].state # "refused"
                 /\ \/ calls[i].kind = "write" /\ k \in calls[i].keys
                    \/ calls[i].kind = "remove" /\ Selected(calls[i].keys, Record(k, i))

\* Call i returned before call j began.
Precedes(i, j) == calls[i].end # 0 /\ calls[i].end < j

\* The time of the record that write i makes of key k.
KeyTime(i, k) == Stamp(calls[i].time, calls[i].keys, k)

\* The writes whose record of k is what call i leaves, there or removed.
Sources(i, k) == IF calls[i].kind = "write"
                 THEN {i}
                 ELSE {w \in 1..calls[i].end : calls[w].kind = "write" /\ Changes(w, k)}

\* A later change of k that succeeded before call r began hides i.  But what a
\* failed or unfinished write has left may reach the server after a removal that
\* did not see it, and may bear a later time than a write begun soon after it;
\* once removed, it still does.
Hidden(i, k, r) ==
  \E j \in 1..Len(calls) :
    /\ Changes(j, k)
    /\ calls[j].state = "ok"
    /\ Precedes(i, j)
    /\ Precedes(j, r)
    /\ IF calls[j].kind = "write"
       THEN \A w \in Sources(i, k) : calls[w].state # "ok" => KeyTime(w, k) < KeyTime(j, k)
       ELSE calls[i].kind = "write" => calls[i].state = "ok"

Visible(i, k, r) == Changes(i, k) /\ i <= calls[r].end /\ ~Hidden(i, k, r)

NoForeign == \A t \in DOMAIN store : store[t].key # NoKey

\* ReadAttachments returns for each key a value that was not overwritten or
\* removed before the read began, and leaves a key out only if it was removed
\* or never written: whatever overlaps, times out or arrives late (bucket.cc
\* 198-206, 234-248, 284-303).
ReadsAreRegular ==
  NoForeign =>
    \A r \in InState("ok"), k \in Key : calls[r].kind = "read" =>
      \/ /\ k \in DOMAIN calls[r].query.map
         /\ calls[calls[r].query.map[k]].kind = "write"
         /\ Visible(calls[r].query.map[k], k, r)
      \/ /\ k \notin DOMAIN calls[r].query.map
         /\ \/ \E i \in 1..Len(calls) : calls[i].kind = "remove" /\ Visible(i, k, r)
            \/ \A j \in InState("ok") : calls[j].kind = "write" /\ Changes(j, k) => ~Precedes(j, r)

\* A write that returned no error stored every one of its attachments, and a
\* write that was refused none (bucket.cc 200-214, 912-919).
WritesAreWhole ==
  \A i \in 1..Len(calls), k \in Key :
    calls[i].kind = "write" =>
      LET stored == \E t \in DOMAIN store : store[t].key = k /\ store[t].val = i
      IN  /\ calls[i].state = "ok" /\ k \in calls[i].keys => stored
          /\ calls[i].state = "refused" => ~stored
=============================================================================
