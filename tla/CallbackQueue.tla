--------------------------- MODULE CallbackQueue ---------------------------
(***************************************************************************)
(* The callback worker of a Bucket and the read calls that use it          *)
(* (bucket.cc 46-72, 629-780, 831-844).                                    *)
(*                                                                         *)
(* A thread that calls ReadRecord keeps the call's state (the deque of     *)
(* body chunks, `stopped`, the future) in its own stack frame.  When the   *)
(* response headers arrive it enqueues one task per record; the bucket's   *)
(* worker thread runs the tasks, which call the user's callback and touch  *)
(* the frame.  The caller meanwhile appends the body to the frame, and     *)
(* waits for the future of the last task.  A callback may itself read from *)
(* the bucket: that call runs on the worker, which must not wait for its   *)
(* own queue, so it calls its callbacks inline.                            *)
(*                                                                         *)
(* The bytes of a record are abstracted to the number of records that have *)
(* arrived; RecordReader models how Read cuts the body into records.       *)
(***************************************************************************)
EXTENDS Integers, Sequences

CONSTANTS Caller,      \* application threads sharing the Bucket
          Worker,      \* the thread started by the constructor
          NoThread,
          MaxRecords,  \* bound: records in one response
          MaxCalls,    \* bound: read calls of one thread
          LateErrors   \* may a GET fail after its headers were accepted?

Thread == Caller \cup {Worker}

ASSUME CallbackQueueAssumption ==
  /\ Worker \notin Caller
  /\ NoThread \notin Thread
  /\ MaxRecords \in Nat
  /\ MaxCalls \in Nat
  /\ LateErrors \in BOOLEAN

VARIABLES
  pc,        \* where each thread is in ReadRecord; "idle" outside
  call,      \* calls begun by each thread: names the frame of the current one
  head,      \* parameter `head` of the call
  resp,      \* records in the response to the call
  last,      \* is the final record of the response marked last?
  sent,      \* tasks enqueued (inline: callbacks begun) by the call
  got,       \* records of the body that are in `data`
  ended,     \* the end marker is in `data`
  stopped,   \* local `stopped` of the frame
  done,      \* index of the last task of the call whose future is ready
  ret,       \* what the latest finished call returned
  given,     \* history: the record the callback was last called for
  abandoned, \* history: calls that returned an error after enqueueing tasks
  queue,     \* task_queue_: one FIFO per producer thread
  wpc,       \* where the worker is
  task,      \* the task the worker holds
  http,      \* the thread whose request the HTTP client is serving
  stop,      \* stop_
  dtor       \* where the destructor is

frameVars  == <<pc, call, head, resp, last, sent, got, ended, stopped, ret>>
workerVars == <<wpc, task, done>>
vars == <<pc, call, head, resp, last, sent, got, ended, stopped, done, ret,
          given, abandoned, queue, wpc, task, http, stop, dtor>>

Task == [from : Thread, call : Nat, rec : Nat, last : BOOLEAN]

\* Task{}: a packaged_task without a function, for which valid() is false.
EmptyTask == [from |-> NoThread, call |-> 0, rec |-> 0, last |-> FALSE]

Init == /\ pc        = [t \in Thread |-> "idle"]
        /\ call      = [t \in Thread |-> 0]
        /\ head      = [t \in Thread |-> FALSE]
        /\ resp      = [t \in Thread |-> 0]
        /\ last      = [t \in Thread |-> FALSE]
        /\ sent      = [t \in Thread |-> 0]
        /\ got       = [t \in Thread |-> 0]
        /\ ended     = [t \in Thread |-> FALSE]
        /\ stopped   = [t \in Thread |-> FALSE]
        /\ done      = [t \in Thread |-> 0]
        /\ ret       = [t \in Thread |-> [stopped |-> FALSE, err |-> FALSE]]
        /\ given     = [t \in Thread |-> 0]
        /\ abandoned = [t \in Thread |-> {}]
        /\ queue     = [t \in Thread |-> <<>>]
        /\ wpc       = "loop"
        /\ task      = EmptyTask
        /\ http      = NoThread
        /\ stop      = FALSE
        /\ dtor      = "alive"

-----------------------------------------------------------------------------
(* The calling thread.                                                     *)

\* Mutant: reads from a callback go through the queue, as they did before 1.21.3.
IsCallbackWorkerThreadMutant(t) == FALSE

IsCallbackWorkerThread(t) == t = Worker

\* The worker is inside a user callback, for a task or for an inline call.
InCallback == wpc \in {"callback", "reading", "decide"}

\* A thread enters ReadRecord: an application thread while the bucket lives,
\* the worker from inside a callback (one level of nesting is modelled).
MayBegin(t) == IF t = Worker THEN wpc \in {"callback", "decide"} ELSE dtor = "alive"

Begin(t) ==
  /\ pc[t] = "idle"
  /\ MayBegin(t)
  /\ call[t] < MaxCalls
  /\ pc' = [pc EXCEPT ![t] = "request"]
  /\ call' = [call EXCEPT ![t] = call[t] + 1]
  /\ \E h \in BOOLEAN : head' = [head EXCEPT ![t] = h]
  /\ UNCHANGED <<resp, last, sent, got, ended, stopped, ret>>
  /\ UNCHANGED <<given, abandoned, queue, workerVars, http, stop, dtor>>

\* ReadRecord returns {stopped, err} and its frame goes away.
LeaveFrame(t, err) ==
  /\ pc' = [pc EXCEPT ![t] = "idle"]
  /\ ret' = [ret EXCEPT ![t] = [stopped |-> stopped[t], err |-> err]]
  /\ head' = [head EXCEPT ![t] = FALSE]
  /\ resp' = [resp EXCEPT ![t] = 0]
  /\ last' = [last EXCEPT ![t] = FALSE]
  /\ sent' = [sent EXCEPT ![t] = 0]
  /\ got' = [got EXCEPT ![t] = 0]
  /\ ended' = [ended EXCEPT ![t] = FALSE]
  /\ stopped' = [stopped EXCEPT ![t] = FALSE]
  /\ done' = [done EXCEPT ![t] = 0]
  /\ given' = [given EXCEPT ![t] = 0]

\* The HTTP client serves one request at a time.
Connect(t) ==
  /\ pc[t] = "request"
  /\ http = NoThread
  /\ http' = t
  /\ pc' = [pc EXCEPT ![t] = "response"]
  /\ UNCHANGED <<call, head, resp, last, sent, got, ended, stopped, ret>>
  /\ UNCHANGED <<given, abandoned, queue, workerVars, stop, dtor>>

\* No connection, or a status other than 200: the response callback is not
\* called, no task exists, and ReadRecord returns the error.
Refuse(t) ==
  /\ pc[t] = "response"
  /\ http' = NoThread
  /\ LeaveFrame(t, TRUE)
  /\ UNCHANGED <<call, abandoned, queue, wpc, task, stop, dtor>>

\* The headers of a 200 response.  GET hands them over while the body is still
\* to come; Head returns them once the request is over.  An inline call stores
\* them, any other goes on to enqueue one task per record.
Respond(t) ==
  /\ pc[t] = "response"
  /\ \E n \in 0..MaxRecords, l \in BOOLEAN :
       /\ l => n > 0
       /\ resp' = [resp EXCEPT ![t] = n]
       /\ last' = [last EXCEPT ![t] = l]
  /\ http' = IF head[t] THEN NoThread ELSE http
  /\ pc' = [pc EXCEPT ![t] = IF ~IsCallbackWorkerThread(t) THEN "enqueue"
                             ELSE IF head[t] THEN "finish" ELSE "body"]
  /\ UNCHANGED <<call, head, sent, got, ended, stopped, ret>>
  /\ UNCHANGED <<given, abandoned, queue, workerVars, stop, dtor>>

NextTask(t) == [from |-> t, call |-> call[t], rec |-> sent[t] + 1,
                last |-> last[t] /\ sent[t] + 1 = resp[t]]

Enqueue(t) ==
  /\ pc[t] = "enqueue"
  /\ sent[t] < resp[t]
  /\ queue' = [queue EXCEPT ![t] = Append(@, NextTask(t))]
  /\ sent' = [sent EXCEPT ![t] = sent[t] + 1]
  /\ UNCHANGED <<pc, call, head, resp, last, got, ended, stopped, ret>>
  /\ UNCHANGED <<given, abandoned, workerVars, http, stop, dtor>>

AllEnqueued(t) ==
  /\ pc[t] = "enqueue"
  /\ sent[t] = resp[t]
  /\ pc' = [pc EXCEPT ![t] = IF head[t] THEN "finish" ELSE "body"]
  /\ UNCHANGED <<call, head, resp, last, sent, got, ended, stopped, ret>>
  /\ UNCHANGED <<given, abandoned, queue, workerVars, http, stop, dtor>>

\* The content receiver appends to `data` while tasks may already be running.
ReceiveBody(t) ==
  /\ pc[t] = "body"
  /\ got[t] < resp[t]
  /\ got' = [got EXCEPT ![t] = got[t] + 1]
  /\ UNCHANGED <<pc, call, head, resp, last, sent, ended, stopped, ret>>
  /\ UNCHANGED <<given, abandoned, queue, workerVars, http, stop, dtor>>

\* client_->Get returns without an error.
BodyComplete(t) ==
  /\ pc[t] = "body"
  /\ got[t] = resp[t]
  /\ http' = NoThread
  /\ pc' = [pc EXCEPT ![t] = "finish"]
  /\ UNCHANGED <<call, head, resp, last, sent, got, ended, stopped, ret>>
  /\ UNCHANGED <<given, abandoned, queue, workerVars, stop, dtor>>

\* client_->Get returns an error although the headers were accepted (the body
\* broke off, the read timed out, CheckRequest rejects the API version):
\* ReadRecord skips the end marker and the wait, and its frame goes away.
FailLate(t) ==
  /\ LateErrors
  /\ pc[t] = "body"
  /\ http' = NoThread
  /\ LeaveFrame(t, TRUE)
  /\ abandoned' = [abandoned EXCEPT ![t] = @ \cup {call[t]}]
  /\ UNCHANGED <<call, queue, wpc, task, stop, dtor>>

Finish(t) ==
  /\ pc[t] = "finish"
  /\ ended' = [ended EXCEPT ![t] = ~head[t]]
  /\ pc' = [pc EXCEPT ![t] = IF IsCallbackWorkerThread(t) THEN "inline" ELSE "wait"]
  /\ UNCHANGED <<call, head, resp, last, sent, got, stopped, ret>>
  /\ UNCHANGED <<given, abandoned, queue, workerVars, http, stop, dtor>>

\* Mutant: returns although the future of the last task is not ready.
WaitMutant(t) == /\ pc[t] = "wait"
                 /\ LeaveFrame(t, FALSE)
                 /\ UNCHANGED <<call, abandoned, queue, wpc, task, http, stop, dtor>>

\* future.wait(): `future` is that of the last task; a response without records
\* leaves it invalid and nothing to wait for (sent and done are both 0).
Wait(t) == /\ pc[t] = "wait"
           /\ done[t] = sent[t]
           /\ LeaveFrame(t, FALSE)
           /\ UNCHANGED <<call, abandoned, queue, wpc, task, http, stop, dtor>>

\* RunCallbacksInline, on the worker.
InlineCallback(t) ==
  /\ pc[t] = "inline"
  /\ ~stopped[t]
  /\ sent[t] < resp[t]
  /\ sent' = [sent EXCEPT ![t] = sent[t] + 1]
  /\ given' = [given EXCEPT ![t] = sent[t] + 1]
  /\ pc' = [pc EXCEPT ![t] = "incallback"]
  /\ UNCHANGED <<call, head, resp, last, got, ended, stopped, ret>>
  /\ UNCHANGED <<abandoned, queue, workerVars, http, stop, dtor>>

InlineCallbackReturn(t) ==
  /\ pc[t] = "incallback"
  /\ \E more \in BOOLEAN :
       stopped' = [stopped EXCEPT ![t] = ~more \/ (last[t] /\ sent[t] = resp[t])]
  /\ pc' = [pc EXCEPT ![t] = "inline"]
  /\ UNCHANGED <<call, head, resp, last, sent, got, ended, ret>>
  /\ UNCHANGED <<given, abandoned, queue, workerVars, http, stop, dtor>>

InlineDone(t) == /\ pc[t] = "inline"
                 /\ stopped[t] \/ sent[t] = resp[t]
                 /\ LeaveFrame(t, FALSE)
                 /\ UNCHANGED <<call, abandoned, queue, wpc, task, http, stop, dtor>>

\* The steps of a call that has begun.
CallStep(t) ==
  \/ Connect(t) \/ Refuse(t) \/ Respond(t)
  \/ Enqueue(t) \/ AllEnqueued(t)
  \/ ReceiveBody(t) \/ BodyComplete(t) \/ FailLate(t)
  \/ Finish(t) \/ Wait(t)
  \/ InlineCallback(t) \/ InlineCallbackReturn(t) \/ InlineDone(t)

-----------------------------------------------------------------------------
(* The worker thread.                                                      *)

\* The frame a task was made for still exists.
Live(k) == k.call = call[k.from] /\ pc[k.from] # "idle"

\* while (!stop_)
CheckStop ==
  /\ wpc = "loop"
  /\ wpc' = IF stop THEN "exit" ELSE "dequeue"
  /\ UNCHANGED <<frameVars, given, abandoned, queue, task, done, http, stop, dtor>>

\* wait_dequeue: blocks on an empty queue; no order between producers.
Dequeue(t) ==
  /\ wpc = "dequeue"
  /\ queue[t] # <<>>
  /\ task' = Head(queue[t])
  /\ queue' = [queue EXCEPT ![t] = Tail(@)]
  /\ wpc' = "taken"
  /\ UNCHANGED <<frameVars, done, given, abandoned, http, stop, dtor>>

SkipInvalid ==
  /\ wpc = "taken"
  /\ task = EmptyTask
  /\ wpc' = "loop"
  /\ UNCHANGED <<frameVars, done, task, given, abandoned, queue, http, stop, dtor>>

\* The task ends and its future becomes ready.
TaskOver == /\ wpc' = "loop"
            /\ task' = EmptyTask
            /\ done' = IF Live(task) THEN [done EXCEPT ![task.from] = task.rec] ELSE done

SkipStopped ==
  /\ wpc = "taken"
  /\ task # EmptyTask
  /\ Live(task)
  /\ stopped[task.from]
  /\ TaskOver
  /\ UNCHANGED <<frameVars, given, abandoned, queue, http, stop, dtor>>

EnterCallback ==
  /\ given' = IF Live(task) THEN [given EXCEPT ![task.from] = task.rec] ELSE given
  /\ wpc' = "callback"
  /\ UNCHANGED <<frameVars, done, task, abandoned, queue, http, stop, dtor>>

\* Mutant: the task does not look at `stopped`.
RunCallbackMutant ==
  /\ wpc = "taken"
  /\ task # EmptyTask
  /\ Live(task)
  /\ EnterCallback

RunCallback ==
  /\ wpc = "taken"
  /\ task # EmptyTask
  /\ Live(task)
  /\ ~stopped[task.from]
  /\ EnterCallback

\* The callback calls record.Read, or goes on without it.
StartRead ==
  /\ wpc = "callback"
  /\ pc[Worker] = "idle"
  /\ wpc' = "reading"
  /\ UNCHANGED <<frameVars, done, task, given, abandoned, queue, http, stop, dtor>>

SkipRead ==
  /\ wpc = "callback"
  /\ pc[Worker] = "idle"
  /\ wpc' = "decide"
  /\ UNCHANGED <<frameVars, done, task, given, abandoned, queue, http, stop, dtor>>

\* Read returns once it has the record, or at the end marker; until then it
\* polls the deque.  In head mode it returns at once.
ReadReturns ==
  /\ wpc = "reading"
  /\ Live(task)
  /\ \/ head[task.from]
     \/ got[task.from] >= task.rec
     \/ ended[task.from]
  /\ wpc' = "decide"
  /\ UNCHANGED <<frameVars, done, task, given, abandoned, queue, http, stop, dtor>>

\* The callback returns, to continue or not, and the task ends.
CallbackReturn ==
  /\ wpc = "decide"
  /\ pc[Worker] = "idle"
  /\ Live(task)
  /\ \E more \in BOOLEAN :
       stopped' = [stopped EXCEPT ![task.from] = ~more \/ task.last]
  /\ TaskOver
  /\ UNCHANGED <<pc, call, head, resp, last, sent, got, ended, ret>>
  /\ UNCHANGED <<given, abandoned, queue, http, stop, dtor>>

\* A task whose frame is gone reads and writes a dead stack.  `stopped` reads
\* as anything, and the write is lost or lands in a later frame of the thread.
StaleSkip ==
  /\ wpc = "taken"
  /\ task # EmptyTask
  /\ ~Live(task)
  /\ TaskOver
  /\ UNCHANGED <<frameVars, given, abandoned, queue, http, stop, dtor>>

StaleCallback ==
  /\ wpc = "taken"
  /\ task # EmptyTask
  /\ ~Live(task)
  /\ EnterCallback

\* No fairness: Read on a deque that nobody fills any more may poll for ever.
StaleReadReturns ==
  /\ wpc = "reading"
  /\ ~Live(task)
  /\ wpc' = "decide"
  /\ UNCHANGED <<frameVars, done, task, given, abandoned, queue, http, stop, dtor>>

StaleCallbackReturn ==
  /\ wpc = "decide"
  /\ pc[Worker] = "idle"
  /\ ~Live(task)
  /\ \/ UNCHANGED stopped
     \/ /\ pc[task.from] # "idle"
        /\ \E b \in BOOLEAN : stopped' = [stopped EXCEPT ![task.from] = b]
  /\ TaskOver
  /\ UNCHANGED <<pc, call, head, resp, last, sent, got, ended, ret>>
  /\ UNCHANGED <<given, abandoned, queue, http, stop, dtor>>

\* The worker's own steps; nested calls are the CallStep of thread Worker.
WorkerStep ==
  \/ CheckStop \/ (\E t \in Thread : Dequeue(t)) \/ SkipInvalid
  \/ SkipStopped \/ RunCallback \/ StartRead \/ SkipRead \/ ReadReturns \/ CallbackReturn
  \/ StaleSkip \/ StaleCallback \/ StaleCallbackReturn

-----------------------------------------------------------------------------
(* ~Bucket, on an application thread, when no application thread is inside *)
(* a call (destroying an object in use is outside C++).                    *)

SetStop ==
  /\ dtor = "alive"
  /\ \A t \in Caller : pc[t] = "idle"
  /\ stop' = TRUE
  /\ dtor' = "wake"
  /\ UNCHANGED <<frameVars, workerVars, given, abandoned, queue, http>>

\* Mutant: the destructor relies on stop_ alone.
WakeWorkerMutant ==
  /\ dtor = "wake"
  /\ dtor' = "join"
  /\ UNCHANGED <<frameVars, workerVars, given, abandoned, queue, http, stop>>

\* task_queue_.enqueue(Task{}), whichever thread runs the destructor.
WakeWorker ==
  /\ dtor = "wake"
  /\ \E t \in Caller : queue' = [queue EXCEPT ![t] = Append(@, EmptyTask)]
  /\ dtor' = "join"
  /\ UNCHANGED <<frameVars, workerVars, given, abandoned, http, stop>>

Join ==
  /\ dtor = "join"
  /\ wpc = "exit"
  /\ dtor' = "gone"
  /\ UNCHANGED <<frameVars, workerVars, given, abandoned, queue, http, stop>>

\* Nothing is left to do once the bucket is gone.
Gone == dtor = "gone" /\ UNCHANGED vars

Next == \/ \E t \in Thread : Begin(t) \/ CallStep(t)
        \/ WorkerStep
        \/ StaleReadReturns
        \/ SetStop \/ WakeWorker \/ Join
        \/ Gone

Spec == Init /\ [][Next]_vars

\* The scheduler runs every thread; the server answers or the request times out;
\* user callbacks return.  Nobody has to start a call or destroy the bucket.
Fairness == /\ \A t \in Thread : WF_vars(CallStep(t))
            /\ WF_vars(WorkerStep)
            /\ WF_vars(WakeWorker \/ Join)

LiveSpec == Spec /\ Fairness

-----------------------------------------------------------------------------
(* Properties.                                                             *)

PC == {"idle", "request", "response", "enqueue", "body", "finish", "wait",
       "inline", "incallback"}

\* Every variable has its type; only the worker's own calls run callbacks inline
\* and they never reach the states that use the queue (bucket.cc 635, 698).
TypeOK ==
  /\ pc \in [Thread -> PC]
  /\ pc[Worker] \notin {"enqueue", "wait"}
  /\ \A t \in Caller : pc[t] \notin {"inline", "incallback"}
  /\ call \in [Thread -> Nat]
  /\ head \in [Thread -> BOOLEAN]
  /\ resp \in [Thread -> Nat]
  /\ last \in [Thread -> BOOLEAN]
  /\ sent \in [Thread -> Nat]
  /\ got \in [Thread -> Nat]
  /\ ended \in [Thread -> BOOLEAN]
  /\ stopped \in [Thread -> BOOLEAN]
  /\ done \in [Thread -> Nat]
  /\ ret \in [Thread -> [stopped : BOOLEAN, err : BOOLEAN]]
  /\ given \in [Thread -> Nat]
  /\ abandoned \in [Thread -> SUBSET Nat]
  /\ queue \in [Thread -> Seq(Task \cup {EmptyTask})]
  /\ wpc \in {"loop", "dequeue", "taken", "callback", "reading", "decide", "exit"}
  /\ task \in Task \cup {EmptyTask}
  /\ http \in Thread \cup {NoThread}
  /\ stop \in BOOLEAN
  /\ dtor \in {"alive", "wake", "join", "gone"}

\* Tasks that still refer to the frame they were made for.
Pending == {task} \cup UNION {{queue[t][i] : i \in 1..Len(queue[t])} : t \in Thread}

\* A queued or running task points into the frame of a call in progress, except
\* those left behind by a call that failed after its headers: nothing else lets
\* a frame go while the worker can reach it (bucket.cc 658-670, 700-702).
OnlyLateErrorsLeak ==
  \A k \in Pending \ {EmptyTask} : Live(k) \/ k.call \in abandoned[k.from]

\* No task outlives the ReadRecord call whose locals it captured by reference.
NoTaskOutlivesCall == \A k \in Pending \ {EmptyTask} : Live(k)

\* A task k of thread t that is queued or running: its call has begun, its frame
\* is there or was abandoned, and while the call lasts the task is one of those
\* the call has enqueued and not yet seen done.
Accounted(k, t) ==
  /\ k.from = t
  /\ k.call <= call[t]
  /\ Live(k) \/ k.call \in abandoned[t]
  /\ Live(k) => done[t] < k.rec /\ k.rec <= sent[t]

QueuedAccounted ==
  \A t \in Thread : \A i \in 1..Len(queue[t]) :
     queue[t][i] # EmptyTask => t \in Caller /\ Accounted(queue[t][i], t)

RunningAccounted ==
  task # EmptyTask => task.from \in Caller /\ Accounted(task, task.from)

\* The tasks of one call are queued, and run, in the order of its records.
QueueOrdered ==
  \A t \in Thread : \A i, j \in 1..Len(queue[t]) :
     /\ i < j
     /\ queue[t][i] # EmptyTask
     /\ queue[t][j] # EmptyTask
     /\ queue[t][i].call = queue[t][j].call
     => queue[t][i].rec < queue[t][j].rec

RunningFirst ==
  \A t \in Thread : \A i \in 1..Len(queue[t]) :
     /\ task # EmptyTask
     /\ task.from = t
     /\ queue[t][i] # EmptyTask
     /\ queue[t][i].call = task.call
     => task.rec < queue[t][i].rec

NothingSentBeforeHeaders ==
  \A t \in Thread : pc[t] \in {"idle", "request", "response"} => sent[t] = 0

DoneWasSent == \A t \in Thread : done[t] <= sent[t]

WorkerHoldsTask ==
  /\ InCallback => task # EmptyTask
  /\ wpc \in {"loop", "dequeue", "exit"} => task = EmptyTask

\* The inductive invariant behind OnlyLateErrorsLeak: every task is accounted
\* for, the tasks of one call run in the order of its records, and a thread
\* that has no headers has enqueued nothing (bucket.cc 657-670, 692-702).
TasksAccounted ==
  /\ QueuedAccounted
  /\ RunningAccounted
  /\ QueueOrdered
  /\ RunningFirst
  /\ NothingSentBeforeHeaders
  /\ DoneWasSent
  /\ WorkerHoldsTask

\* A GET has failed after its headers and left tasks behind.
FailedLate == \E t \in Thread : abandoned[t] # {}

\* Until some GET fails after its headers, a call that has begun returns, a
\* nested one included: the worker never waits for its own queue nor for a body
\* that waits for it (bucket.cc 635, 698-702).
CallsReturn == \A t \in Thread : pc[t] # "idle" ~> (pc[t] = "idle" \/ FailedLate)

\* Until then, too, destroying the bucket ends the worker: the wake-up task is
\* not lost whatever the worker was doing when stop_ was set (bucket.cc 56-61,
\* 67-70).
DestructorReturns == dtor = "wake" ~> (dtor = "gone" \/ FailedLate)

\* "wake up the worker so that it sees stop_" (bucket.cc 68): destroying the
\* bucket ends the worker, whatever happened to the calls before.
DestructorAlwaysReturns == dtor = "wake" ~> dtor = "gone"

-----------------------------------------------------------------------------
(* The promise of a read call, and how the state above maps to it.         *)

BusyWith(t) == IF t = Worker THEN pc[t] = "incallback"
               ELSE InCallback /\ task.from = t /\ task.call = call[t]

PhaseOf(t) == IF pc[t] = "idle" THEN "idle"
              ELSE IF pc[t] \in {"request", "response"} THEN "asked"
              ELSE "open"

Contract == INSTANCE ReadContract WITH
  phase <- [t \in Thread |-> PhaseOf(t)],
  total <- resp,
  seen  <- given,
  busy  <- [t \in Thread |-> BusyWith(t)],
  over  <- stopped

\* The worker, the queue and the calls implement the contract of a read call.
ContractHolds == Contract!Spec
=============================================================================
