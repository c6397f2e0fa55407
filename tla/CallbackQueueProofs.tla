------------------------ MODULE CallbackQueueProofs ------------------------
(* Theorems about CallbackQueue, for every set of callers and every bound. *)
EXTENDS CallbackQueue, TLAPS

USE DEF Thread

-----------------------------------------------------------------------------
(* Types.                                                                  *)

LEMMA EmptyTaskIsNoTask == EmptyTask \notin Task
  BY CallbackQueueAssumption DEF EmptyTask, Task

LEMMA NextTaskType ==
  ASSUME TypeOK, NEW t \in Thread
  PROVE  NextTask(t) \in Task
<1>1. (last[t] /\ sent[t] + 1 = resp[t]) \in BOOLEAN
  OBVIOUS
<1>2. sent[t] + 1 \in Nat
  BY DEF TypeOK
<1> QED BY <1>1, <1>2 DEF TypeOK, NextTask, Task

LEMMA TypeInit == Init => TypeOK
<1> SUFFICES ASSUME Init PROVE TypeOK
  OBVIOUS
<1>1. queue \in [Thread -> Seq(Task \cup {EmptyTask})]
  <2>1. <<>> \in Seq(Task \cup {EmptyTask})
    OBVIOUS
  <2> QED BY <2>1 DEF Init
<1>2. pc \in [Thread -> PC]
  BY DEF Init, PC
<1>3. abandoned \in [Thread -> SUBSET Nat]
  BY DEF Init
<1> QED BY <1>1, <1>2, <1>3, CallbackQueueAssumption DEF Init, TypeOK

\* The part of TypeOK about the program counters.
PCType == /\ pc \in [Thread -> PC]
          /\ pc[Worker] \notin {"enqueue", "wait"}
          /\ \A t \in Caller : pc[t] \notin {"inline", "incallback"}

\* What goes with the frame is reset to values of its type.
LEMMA LeaveFrameType ==
  ASSUME TypeOK, NEW t \in Thread, NEW e \in BOOLEAN, LeaveFrame(t, e)
  PROVE  /\ PCType'
         /\ head' \in [Thread -> BOOLEAN]
         /\ resp' \in [Thread -> Nat]
         /\ last' \in [Thread -> BOOLEAN]
         /\ sent' \in [Thread -> Nat]
         /\ got' \in [Thread -> Nat]
         /\ ended' \in [Thread -> BOOLEAN]
         /\ stopped' \in [Thread -> BOOLEAN]
         /\ done' \in [Thread -> Nat]
         /\ ret' \in [Thread -> [stopped : BOOLEAN, err : BOOLEAN]]
         /\ given' \in [Thread -> Nat]
  BY DEF TypeOK, LeaveFrame, PC, PCType

\* The program counter of a thread that moves on within a call.
LEMMA MoveType ==
  ASSUME TypeOK, NEW t \in Thread, NEW p \in PC, pc' = [pc EXCEPT ![t] = p],
         t = Worker => p \notin {"enqueue", "wait"},
         t \in Caller => p \notin {"inline", "incallback"}
  PROVE  PCType'
  BY CallbackQueueAssumption DEF TypeOK, PCType

LEMMA TypeCall ==
  ASSUME TypeOK, NEW t \in Thread, CallStep(t) \/ Begin(t)
  PROVE  TypeOK'
<1> USE DEF TypeOK
<1>1. CASE Begin(t)
  <2>1. call' \in [Thread -> Nat]
    BY <1>1, SMTT(30) DEF Begin
  <2>2. head' \in [Thread -> BOOLEAN]
    BY <1>1 DEF Begin
  <2>3. PCType'
    BY <1>1, MoveType DEF Begin, PC
  <2>4. UNCHANGED <<resp, last, sent, got, ended, stopped, ret, given, abandoned, queue,
                 wpc, task, done, http, stop, dtor>>
    BY <1>1 DEF Begin, workerVars
  <2> QED BY <2>1, <2>2, <2>3, <2>4 DEF PCType
<1>2. CASE Connect(t)
  <2>1. PCType'
    BY <1>2, MoveType DEF Connect, PC
  <2> QED BY <1>2, <2>1 DEF Connect, workerVars, PCType
<1>3. CASE Refuse(t)
  BY <1>3, LeaveFrameType DEF Refuse, PCType
<1>4. CASE Respond(t)
  <2>1. PICK n \in 0..MaxRecords, l \in BOOLEAN :
          /\ resp' = [resp EXCEPT ![t] = n]
          /\ last' = [last EXCEPT ![t] = l]
    BY <1>4 DEF Respond
  <2>2. n \in Nat
    BY CallbackQueueAssumption
  <2>3. resp' \in [Thread -> Nat] /\ last' \in [Thread -> BOOLEAN]
    BY <2>1, <2>2
  <2>4. PCType'
    BY <1>4, MoveType DEF Respond, IsCallbackWorkerThread, PC
  <2>5. http' \in Thread \cup {NoThread}
    BY <1>4 DEF Respond
  <2>6. UNCHANGED <<call, head, sent, got, ended, stopped, ret, given, abandoned, queue,
                 wpc, task, done, stop, dtor>>
    BY <1>4 DEF Respond, workerVars
  <2> QED BY <2>3, <2>4, <2>5, <2>6 DEF PCType
<1>5. CASE Enqueue(t)
  <2>1. Append(queue[t], NextTask(t)) \in Seq(Task \cup {EmptyTask})
    BY NextTaskType
  <2>2. queue' \in [Thread -> Seq(Task \cup {EmptyTask})]
    BY <1>5, <2>1 DEF Enqueue
  <2>3. sent' \in [Thread -> Nat]
    BY <1>5, SMTT(30) DEF Enqueue
  <2> QED BY <1>5, <2>2, <2>3 DEF Enqueue, workerVars
<1>6. CASE AllEnqueued(t)
  <2>1. PCType'
    BY <1>6, MoveType DEF AllEnqueued, PC
  <2> QED BY <1>6, <2>1 DEF AllEnqueued, workerVars, PCType
<1>7. CASE ReceiveBody(t)
  <2>1. got' \in [Thread -> Nat]
    BY <1>7, SMTT(30) DEF ReceiveBody
  <2> QED BY <1>7, <2>1 DEF ReceiveBody, workerVars
<1>8. CASE BodyComplete(t)
  <2>1. PCType'
    BY <1>8, MoveType DEF BodyComplete, PC
  <2> QED BY <1>8, <2>1 DEF BodyComplete, workerVars, PCType
<1>9. CASE FailLate(t)
  <2>1. abandoned' \in [Thread -> SUBSET Nat]
    BY <1>9 DEF FailLate
  <2> QED BY <1>9, <2>1, LeaveFrameType DEF FailLate, PCType
<1>10. CASE Finish(t)
  <2>1. ended' \in [Thread -> BOOLEAN]
    BY <1>10 DEF Finish
  <2>2. PCType'
    BY <1>10, MoveType, CallbackQueueAssumption DEF Finish, IsCallbackWorkerThread, PC
  <2>3. UNCHANGED <<call, head, resp, last, sent, got, stopped, ret, given, abandoned, queue,
                 wpc, task, done, http, stop, dtor>>
    BY <1>10 DEF Finish, workerVars
  <2> QED BY <2>1, <2>2, <2>3 DEF PCType
<1>11. CASE Wait(t)
  BY <1>11, LeaveFrameType, ZenonT(60) DEF Wait, PCType
<1>12. CASE InlineCallback(t)
  <2>0. /\ sent' = [sent EXCEPT ![t] = sent[t] + 1]
        /\ given' = [given EXCEPT ![t] = sent[t] + 1]
    BY <1>12 DEF InlineCallback
  <2>1. sent' \in [Thread -> Nat] /\ given' \in [Thread -> Nat]
    BY <2>0, SMTT(30)
  <2>2. PCType'
    BY <1>12, MoveType DEF InlineCallback, PC
  <2>3. UNCHANGED <<call, head, resp, last, got, ended, stopped, ret, abandoned, queue,
                 wpc, task, done, http, stop, dtor>>
    BY <1>12 DEF InlineCallback, workerVars
  <2> QED BY <2>1, <2>2, <2>3 DEF PCType
<1>13. CASE InlineCallbackReturn(t)
  <2>1. PICK more \in BOOLEAN :
          stopped' = [stopped EXCEPT ![t] = ~more \/ (last[t] /\ sent[t] = resp[t])]
    BY <1>13 DEF InlineCallbackReturn
  <2>2. stopped' \in [Thread -> BOOLEAN]
    BY <2>1
  <2>3. PCType'
    BY <1>13, MoveType DEF InlineCallbackReturn, PC
  <2>4. UNCHANGED <<call, head, resp, last, sent, got, ended, ret, given, abandoned, queue,
                 wpc, task, done, http, stop, dtor>>
    BY <1>13 DEF InlineCallbackReturn, workerVars
  <2> QED BY <2>2, <2>3, <2>4 DEF PCType
<1>14. CASE InlineDone(t)
  BY <1>14, LeaveFrameType, ZenonT(60) DEF InlineDone, PCType
<1> QED BY <1>1, <1>2, <1>3, <1>4, <1>5, <1>6, <1>7, <1>8, <1>9, <1>10, <1>11,
           <1>12, <1>13, <1>14 DEF CallStep

LEMMA TypeWorker ==
  ASSUME TypeOK, WorkerStep \/ StaleReadReturns
  PROVE  TypeOK'
<1> USE DEF TypeOK
<1>1. CASE CheckStop
  BY <1>1 DEF CheckStop, frameVars
<1>2. ASSUME NEW t \in Thread, Dequeue(t)
      PROVE  TypeOK'
  <2>1. queue[t] \in Seq(Task \cup {EmptyTask}) /\ queue[t] # <<>>
    BY <1>2 DEF Dequeue
  <2>2. Head(queue[t]) \in Task \cup {EmptyTask}
    BY <2>1
  <2>3. Tail(queue[t]) \in Seq(Task \cup {EmptyTask})
    BY <2>1
  <2> QED BY <1>2, <2>2, <2>3 DEF Dequeue, frameVars
<1>3. CASE SkipInvalid
  BY <1>3 DEF SkipInvalid, frameVars
<1>4. ASSUME TaskOver
      PROVE  /\ done' \in [Thread -> Nat]
             /\ task' \in Task \cup {EmptyTask}
             /\ wpc' = "loop"
  <2>1. task.rec \in Nat
    BY DEF Task, EmptyTask
  <2>2. [done EXCEPT ![task.from] = task.rec] \in [Thread -> Nat]
    BY <2>1
  <2> QED BY <1>4, <2>2 DEF TaskOver
<1>5. ASSUME EnterCallback, task # EmptyTask
      PROVE  TypeOK'
  <2>1. given' \in [Thread -> Nat]
    BY <1>5 DEF EnterCallback, Task
  <2> QED BY <1>5, <2>1 DEF EnterCallback, frameVars
<1>6. CASE SkipStopped
  BY <1>4, <1>6 DEF SkipStopped, frameVars
<1>7. CASE RunCallback
  BY <1>5, <1>7 DEF RunCallback
<1>8. CASE StartRead
  BY <1>8 DEF StartRead, frameVars
<1>9. CASE SkipRead
  BY <1>9 DEF SkipRead, frameVars
<1>10. CASE ReadReturns
  BY <1>10 DEF ReadReturns, frameVars
<1>11. CASE CallbackReturn
  <2>1. stopped' \in [Thread -> BOOLEAN]
    BY <1>11 DEF CallbackReturn
  <2> QED BY <1>4, <1>11, <2>1 DEF CallbackReturn
<1>12. CASE StaleSkip
  BY <1>4, <1>12 DEF StaleSkip, frameVars
<1>13. CASE StaleCallback
  BY <1>5, <1>13 DEF StaleCallback
<1>14. CASE StaleCallbackReturn
  <2>1. stopped' \in [Thread -> BOOLEAN]
    BY <1>14 DEF StaleCallbackReturn
  <2> QED BY <1>4, <1>14, <2>1 DEF StaleCallbackReturn
<1>15. CASE StaleReadReturns
  BY <1>15 DEF StaleReadReturns, frameVars
<1> QED BY <1>1, <1>2, <1>3, <1>6, <1>7, <1>8, <1>9, <1>10, <1>11, <1>12, <1>13,
           <1>14, <1>15 DEF WorkerStep

LEMMA TypeDestructor ==
  ASSUME TypeOK, SetStop \/ WakeWorker \/ Join
  PROVE  TypeOK'
<1> USE DEF TypeOK
<1>1. CASE SetStop
  BY <1>1 DEF SetStop, frameVars, workerVars
<1>2. CASE WakeWorker
  <2>1. PICK t \in Caller : queue' = [queue EXCEPT ![t] = Append(queue[t], EmptyTask)]
    BY <1>2 DEF WakeWorker
  <2>2. Append(queue[t], EmptyTask) \in Seq(Task \cup {EmptyTask})
    OBVIOUS
  <2>3. queue' \in [Thread -> Seq(Task \cup {EmptyTask})]
    BY <2>1, <2>2
  <2>4. UNCHANGED <<pc, call, head, resp, last, sent, got, ended, stopped, ret, given,
                    abandoned, wpc, task, done, http, stop>>
    BY <1>2 DEF WakeWorker, frameVars, workerVars
  <2>5. dtor' = "join"
    BY <1>2 DEF WakeWorker
  <2> QED BY <2>3, <2>4, <2>5
<1>3. CASE Join
  BY <1>3 DEF Join, frameVars, workerVars
<1> QED BY <1>1, <1>2, <1>3

LEMMA TypeNext == TypeOK /\ [Next]_vars => TypeOK'
<1> SUFFICES ASSUME TypeOK, [Next]_vars PROVE TypeOK'
  OBVIOUS
<1>1. CASE UNCHANGED vars
  BY <1>1 DEF TypeOK, vars
<1>2. CASE Next
  BY <1>1, <1>2, TypeCall, TypeWorker, TypeDestructor DEF Next, Gone
<1> QED BY <1>1, <1>2

\* Every reachable state is well typed, and only the worker calls back inline.
THEOREM TypeCorrect == Spec => []TypeOK
  BY TypeInit, TypeNext, PTL DEF Spec

-----------------------------------------------------------------------------
(* Every task is accounted for.                                            *)

LEMMA AccountedInit == Init => TasksAccounted
  BY CallbackQueueAssumption
  DEF Init, TasksAccounted, QueuedAccounted, RunningAccounted, QueueOrdered,
      RunningFirst, NothingSentBeforeHeaders, DoneWasSent, WorkerHoldsTask, InCallback

LEMMA QueueTypes ==
  ASSUME TypeOK, NEW t \in Thread, NEW i \in 1..Len(queue[t])
  PROVE  /\ queue[t] \in Seq(Task \cup {EmptyTask})
         /\ queue[t][i] \in Task \cup {EmptyTask}
         /\ queue[t][i] # EmptyTask => /\ queue[t][i].from \in Thread
                                       /\ queue[t][i].call \in Nat
                                       /\ queue[t][i].rec \in Nat
<1>1. queue[t] \in Seq(Task \cup {EmptyTask})
  BY DEF TypeOK
<1>2. queue[t][i] \in Task \cup {EmptyTask}
  BY <1>1
<1> QED BY <1>1, <1>2 DEF Task

\* A step of t that goes on with its call, and leaves queue and worker alone.
LEMMA AccountedMove ==
  ASSUME TypeOK, TasksAccounted, NEW t \in Thread, NEW p \in PC, NEW n \in Nat,
         pc[t] # "idle", p # "idle", sent[t] <= n,
         p \in {"request", "response"} => n = 0,
         pc' = [pc EXCEPT ![t] = p],
         sent' = [sent EXCEPT ![t] = n],
         UNCHANGED <<call, done, abandoned, queue, task, wpc>>
  PROVE  TasksAccounted'
<1>1. ASSUME NEW k, NEW u \in Thread, k.from = u, Accounted(k, u),
             k.rec \in Nat, k.call \in Nat
      PROVE  Accounted(k, u)'
  <2>1. Live(k)' <=> Live(k)
    <3>1. pc'[u] = "idle" <=> pc[u] = "idle"
      BY DEF TypeOK
    <3> QED BY <1>1, <3>1 DEF Live
  <2>2. sent[u] <= sent'[u] /\ sent[u] \in Nat /\ sent'[u] \in Nat
    <3>1. sent \in [Thread -> Nat]
      BY DEF TypeOK
    <3>2. sent'[u] = IF u = t THEN n ELSE sent[u]
      BY <3>1
    <3> QED BY <3>1, <3>2
  <2>3. k.rec <= sent[u] => k.rec <= sent'[u]
    BY <1>1, <2>2
  <2> QED BY <1>1, <2>1, <2>3 DEF Accounted
<1>2. QueuedAccounted'
  <2> SUFFICES ASSUME NEW u \in Thread, NEW i \in 1..Len(queue[u]), queue[u][i] # EmptyTask
               PROVE  u \in Caller /\ Accounted(queue[u][i], u)'
    BY DEF QueuedAccounted
  <2>1. u \in Caller /\ Accounted(queue[u][i], u)
    BY DEF TasksAccounted, QueuedAccounted
  <2> QED BY <2>1, <1>1, QueueTypes DEF Accounted
<1>3. RunningAccounted'
  <2> SUFFICES ASSUME task # EmptyTask
               PROVE  task.from \in Caller /\ Accounted(task, task.from)'
    BY DEF RunningAccounted
  <2>1. task.from \in Caller /\ Accounted(task, task.from)
    BY DEF TasksAccounted, RunningAccounted
  <2>2. task.rec \in Nat /\ task.call \in Nat /\ task.from \in Thread
    BY DEF TypeOK, Task
  <2> QED BY <2>1, <2>2, <1>1
<1>4. NothingSentBeforeHeaders'
  BY DEF TasksAccounted, NothingSentBeforeHeaders, TypeOK
<1>5. DoneWasSent'
  <2> SUFFICES ASSUME NEW u \in Thread PROVE done[u] <= sent'[u]
    BY DEF DoneWasSent
  <2>1. sent \in [Thread -> Nat] /\ done \in [Thread -> Nat]
    BY DEF TypeOK
  <2>2. sent'[u] = IF u = t THEN n ELSE sent[u]
    BY <2>1
  <2>3. done[u] <= sent[u]
    BY DEF TasksAccounted, DoneWasSent
  <2> QED BY <2>1, <2>2, <2>3
<1> QED BY <1>2, <1>3, <1>4, <1>5
        DEF TasksAccounted, QueueOrdered, RunningFirst, WorkerHoldsTask, InCallback

\* The facts about tasks that follow from TasksAccounted, ready to use.
LEMMA AccountedTask ==
  ASSUME TypeOK, TasksAccounted, task # EmptyTask
  PROVE  /\ task \in Task
         /\ task.from \in Caller
         /\ task.call \in Nat
         /\ task.rec \in Nat
         /\ Accounted(task, task.from)
  BY DEF TypeOK, TasksAccounted, RunningAccounted, Task

LEMMA AccountedQueued ==
  ASSUME TypeOK, TasksAccounted, NEW t \in Thread, NEW i \in 1..Len(queue[t]),
         queue[t][i] # EmptyTask
  PROVE  /\ t \in Caller
         /\ queue[t][i] \in Task
         /\ queue[t][i].call \in Nat
         /\ queue[t][i].rec \in Nat
         /\ Accounted(queue[t][i], t)
  BY QueueTypes DEF TasksAccounted, QueuedAccounted

\* Tasks stay accounted for when every one of them does, the queue and the
\* task of the worker being left alone.
LEMMA AccountedKeep ==
  ASSUME TypeOK, TasksAccounted, UNCHANGED <<queue, task, wpc>>,
         \A k \in Task : \A u \in Caller : Accounted(k, u) => Accounted(k, u)',
         NothingSentBeforeHeaders', DoneWasSent'
  PROVE  TasksAccounted'
<1>1. QueuedAccounted'
  BY AccountedQueued DEF QueuedAccounted
<1>2. RunningAccounted'
  BY AccountedTask DEF RunningAccounted
<1> QED BY <1>1, <1>2
        DEF TasksAccounted, QueueOrdered, RunningFirst, WorkerHoldsTask, InCallback

\* A call ends: none of its tasks is left, or the call is noted as abandoned.
LEMMA AccountedLeave ==
  ASSUME TypeOK, TypeOK', TasksAccounted, NEW t \in Thread, NEW e \in BOOLEAN,
         LeaveFrame(t, e),
         \/ UNCHANGED abandoned /\ (done[t] = sent[t] \/ t \notin Caller)
         \/ abandoned' = [abandoned EXCEPT ![t] = @ \cup {call[t]}],
         UNCHANGED <<call, queue, task, wpc>>
  PROVE  TasksAccounted'
<1>1. ASSUME NEW k \in Task, NEW u \in Caller, Accounted(k, u)
      PROVE  Accounted(k, u)'
  <2>1. CASE u = t
    <3>1. ~Live(k)'
      BY <1>1, <2>1 DEF Accounted, Live, LeaveFrame, TypeOK
    <3>2. k.call \in abandoned'[u]
      <4>1. k.call \in abandoned[u] => k.call \in abandoned'[u]
        <5>1. abandoned \in [Thread -> SUBSET Nat]
          BY DEF TypeOK
        <5>2. CASE abandoned' = [abandoned EXCEPT ![t] = @ \cup {call[t]}]
          BY <5>1, <5>2
        <5> QED BY <5>2
      <4>2. CASE Live(k) /\ t \in Caller /\ done[t] = sent[t]
        <5>1. done[t] \in Nat /\ sent[t] \in Nat /\ k.rec \in Nat
          BY DEF TypeOK, Task
        <5>2. done[t] < k.rec /\ k.rec <= sent[t]
          BY <1>1, <2>1, <4>2 DEF Accounted
        <5> QED BY <4>2, <5>1, <5>2
      <4>3. CASE Live(k) /\ abandoned' = [abandoned EXCEPT ![t] = @ \cup {call[t]}]
        BY <1>1, <2>1, <4>3 DEF Accounted, Live, TypeOK
      <4> QED BY <1>1, <2>1, <4>1, <4>2, <4>3 DEF Accounted
    <3> QED BY <1>1, <3>1, <3>2 DEF Accounted
  <2>2. CASE u # t
    <3>1. /\ pc'[u] = pc[u]
          /\ sent'[u] = sent[u]
          /\ done'[u] = done[u]
          /\ abandoned'[u] = abandoned[u]
      BY <2>2 DEF LeaveFrame, TypeOK
    <3> QED BY <1>1, <3>1 DEF Accounted, Live
  <2> QED BY <2>1, <2>2
<1>2. NothingSentBeforeHeaders'
  BY DEF TasksAccounted, NothingSentBeforeHeaders, LeaveFrame, TypeOK
<1>3. DoneWasSent'
  BY DEF TasksAccounted, DoneWasSent, LeaveFrame, TypeOK
<1> QED BY <1>1, <1>2, <1>3, AccountedKeep

LEMMA AccountedBegin ==
  ASSUME TypeOK, TasksAccounted, NEW t \in Thread, Begin(t)
  PROVE  TasksAccounted'
<1>1. ASSUME NEW k \in Task, NEW u \in Caller, Accounted(k, u)
      PROVE  Accounted(k, u)'
  <2>1. CASE u = t
    <3>1. call'[t] = call[t] + 1 /\ call[t] \in Nat /\ k.call \in Nat
      BY DEF Begin, TypeOK, Task
    <3>2. k.call <= call[t] /\ ~Live(k)
      BY <1>1, <2>1 DEF Begin, Accounted, Live
    <3>3. k.call <= call'[t] /\ k.call # call'[t]
      BY <3>1, <3>2
    <3>4. ~Live(k)'
      BY <1>1, <2>1, <3>3 DEF Accounted, Live
    <3> QED BY <1>1, <2>1, <3>2, <3>3, <3>4 DEF Accounted, Begin
  <2>2. CASE u # t
    <3>1. pc'[u] = pc[u] /\ call'[u] = call[u] /\ sent'[u] = sent[u] /\ done'[u] = done[u]
      BY <2>2 DEF Begin, TypeOK, workerVars
    <3> QED BY <1>1, <3>1 DEF Accounted, Live, Begin
  <2> QED BY <2>1, <2>2
<1>2. NothingSentBeforeHeaders'
  BY DEF TasksAccounted, NothingSentBeforeHeaders, Begin, TypeOK
<1>3. DoneWasSent'
  BY DEF TasksAccounted, DoneWasSent, Begin, workerVars
<1>4. UNCHANGED <<queue, task, wpc>>
  BY DEF Begin, workerVars
<1> QED BY <1>1, <1>2, <1>3, <1>4, AccountedKeep

LEMMA AccountedEnqueue ==
  ASSUME TypeOK, TypeOK', TasksAccounted, NEW t \in Thread, Enqueue(t)
  PROVE  TasksAccounted'
<1> DEFINE len == Len(queue[t])
<1>0. PICK new \in Task : new = NextTask(t)
  BY NextTaskType
<1>1. t \in Caller
  BY DEF Enqueue, TypeOK
<1>2. /\ new.from = t
      /\ new.call = call[t]
      /\ new.rec = sent[t] + 1
  BY <1>0 DEF NextTask
<1>3. /\ sent'[t] = sent[t] + 1
      /\ sent[t] \in Nat
      /\ done[t] \in Nat
      /\ call[t] \in Nat
      /\ done[t] <= sent[t]
  BY DEF Enqueue, TypeOK, TasksAccounted, DoneWasSent
<1>4. Accounted(new, t)'
  <2>1. new.call <= call'[t] /\ Live(new)'
    BY <1>2, <1>3 DEF Enqueue, Live
  <2>2. done'[t] < new.rec /\ new.rec <= sent'[t]
    BY <1>2, <1>3 DEF Enqueue, workerVars
  <2> QED BY <1>2, <2>1, <2>2 DEF Accounted
<1>5. ASSUME NEW k \in Task, NEW u \in Caller, Accounted(k, u)
      PROVE  Accounted(k, u)'
  <2>1. Live(k)' <=> Live(k)
    BY DEF Enqueue, Live
  <2>2. sent[u] <= sent'[u]
    <3>1. sent \in [Thread -> Nat]
      BY DEF TypeOK
    <3>2. sent'[u] = IF u = t THEN sent[u] + 1 ELSE sent[u]
      BY <3>1 DEF Enqueue
    <3> QED BY <3>1, <3>2
  <2>3. k.rec <= sent[u] => k.rec <= sent'[u]
    BY <2>2, SMTT(30) DEF TypeOK, Task
  <2> QED BY <1>5, <2>1, <2>3 DEF Accounted, Enqueue, workerVars
<1>6. queue[t] \in Seq(Task \cup {EmptyTask}) /\ len \in Nat
  <2>1. queue[t] \in Seq(Task \cup {EmptyTask})
    BY DEF TypeOK
  <2> QED BY <2>1
<1>7. /\ queue'[t] = Append(queue[t], new)
      /\ Len(queue'[t]) = len + 1
      /\ queue'[t][len + 1] = new
      /\ \A i \in 1..len : queue'[t][i] = queue[t][i]
  <2>1. queue'[t] = Append(queue[t], new)
    BY <1>0 DEF Enqueue, TypeOK
  <2> QED BY <1>6, <2>1
<1>8. \A u \in Thread \ {t} : queue'[u] = queue[u]
  BY DEF Enqueue, TypeOK
<1>9. QueuedAccounted'
  <2> SUFFICES ASSUME NEW u \in Thread, NEW i \in 1..Len(queue'[u]), queue'[u][i] # EmptyTask
               PROVE  u \in Caller /\ Accounted(queue[u][i], u)'
    BY DEF QueuedAccounted
  <2>1. CASE u = t /\ i = len + 1
    BY <1>1, <1>4, <1>7, <2>1 DEF Accounted, Live
  <2>2. CASE u # t \/ i \in 1..len
    <3>1. i \in 1..Len(queue[u]) /\ queue'[u][i] = queue[u][i]
      BY <1>7, <1>8, <2>2
    <3>2. PICK k \in Task : k = queue[u][i]
      BY <3>1, AccountedQueued
    <3>3. u \in Caller /\ Accounted(k, u)
      BY <3>1, <3>2, AccountedQueued
    <3>4. Accounted(k, u)'
      BY <1>5, <3>3
    <3> QED BY <3>1, <3>2, <3>3, <3>4 DEF Accounted, Live
  <2> QED BY <1>6, <1>7, <2>1, <2>2
<1>10. RunningAccounted'
  BY <1>5, AccountedTask DEF RunningAccounted, Enqueue, workerVars
\* A task of the same call that is still around has a smaller record.
<1>11. ASSUME NEW k \in Task, Accounted(k, t), k.call = new.call
       PROVE  k.rec < new.rec
  <2>1. Live(k)
    BY <1>2, <1>11 DEF Accounted, Live, Enqueue
  <2> QED BY <1>2, <1>3, <1>11, <2>1 DEF Accounted, Task
<1>12. QueueOrdered'
  <2> SUFFICES ASSUME NEW u \in Thread,
                      NEW i \in 1..Len(queue'[u]), NEW j \in 1..Len(queue'[u]),
                      i < j, queue'[u][i] # EmptyTask, queue'[u][j] # EmptyTask,
                      queue'[u][i].call = queue'[u][j].call
               PROVE  queue'[u][i].rec < queue'[u][j].rec
    BY DEF QueueOrdered
  <2>1. CASE u = t /\ j = len + 1
    <3>1. i \in 1..len
      BY <1>6, <2>1
    <3>2. queue'[t][i] = queue[t][i] /\ queue'[t][j] = new
      BY <1>7, <2>1, <3>1
    <3>3. queue[t][i] \in Task /\ Accounted(queue[t][i], t)
      BY <2>1, <3>1, <3>2, AccountedQueued
    <3> QED BY <1>11, <2>1, <3>2, <3>3
  <2>2. CASE u # t \/ j \in 1..len
    <3>1. /\ i \in 1..Len(queue[u]) /\ queue'[u][i] = queue[u][i]
          /\ j \in 1..Len(queue[u]) /\ queue'[u][j] = queue[u][j]
      BY <1>6, <1>7, <1>8, <2>2, SMTT(30)
    <3> QED BY <3>1 DEF TasksAccounted, QueueOrdered
  <2> QED BY <1>6, <1>7, <2>1, <2>2
<1>13. RunningFirst'
  <2> SUFFICES ASSUME NEW u \in Thread, NEW i \in 1..Len(queue'[u]),
                      task # EmptyTask, task.from = u, queue'[u][i] # EmptyTask,
                      queue'[u][i].call = task.call
               PROVE  task.rec < queue'[u][i].rec
    BY DEF RunningFirst, Enqueue, workerVars
  <2>1. CASE u = t /\ i = len + 1
    BY <1>7, <1>11, <2>1, AccountedTask
  <2>2. CASE u # t \/ i \in 1..len
    <3>1. i \in 1..Len(queue[u]) /\ queue'[u][i] = queue[u][i]
      BY <1>7, <1>8, <2>2
    <3> QED BY <3>1 DEF TasksAccounted, RunningFirst
  <2> QED BY <1>6, <1>7, <2>1, <2>2
<1>14. NothingSentBeforeHeaders'
  BY DEF TasksAccounted, NothingSentBeforeHeaders, Enqueue, TypeOK
<1>15. DoneWasSent'
  <2> SUFFICES ASSUME NEW u \in Thread PROVE done[u] <= sent'[u]
    BY DEF DoneWasSent, Enqueue, workerVars
  <2>1. CASE u = t
    BY <1>3, <2>1
  <2>2. CASE u # t
    BY <2>2 DEF TasksAccounted, DoneWasSent, Enqueue, TypeOK
  <2> QED BY <2>1, <2>2
<1> QED BY <1>9, <1>10, <1>12, <1>13, <1>14, <1>15
        DEF TasksAccounted, WorkerHoldsTask, InCallback, Enqueue, workerVars

LEMMA AccountedStay ==
  ASSUME TypeOK, TasksAccounted, NEW t \in Thread, NEW p \in PC,
         pc[t] # "idle", p # "idle",
         p \in {"request", "response"} => sent[t] = 0,
         pc' = [pc EXCEPT ![t] = p],
         UNCHANGED <<sent, call, done, abandoned, queue, task, wpc>>
  PROVE  TasksAccounted'
<1>1. sent[t] \in Nat /\ sent[t] <= sent[t]
  BY DEF TypeOK
<1>2. sent' = [sent EXCEPT ![t] = sent[t]]
  BY DEF TypeOK
<1> QED BY <1>1, <1>2, AccountedMove

LEMMA AccountedCall ==
  ASSUME TypeOK, TypeOK', TasksAccounted, NEW t \in Thread, CallStep(t) \/ Begin(t)
  PROVE  TasksAccounted'
<1>0. /\ sent[t] \in Nat /\ done[t] \in Nat /\ resp[t] \in Nat
      /\ pc \in [Thread -> PC]
  BY DEF TypeOK
<1>1. CASE Begin(t)
  BY <1>1, AccountedBegin
<1>2. CASE Connect(t)
  <2>1. sent[t] = 0
    BY <1>2 DEF Connect, TasksAccounted, NothingSentBeforeHeaders
  <2> QED BY <1>0, <1>2, <2>1, AccountedStay DEF Connect, workerVars, PC
<1>3. CASE Refuse(t)
  <2>1. sent[t] = 0 /\ done[t] = 0
    BY <1>0, <1>3 DEF Refuse, TasksAccounted, NothingSentBeforeHeaders, DoneWasSent
  <2> QED BY <1>3, <2>1, AccountedLeave DEF Refuse
<1>4. CASE Respond(t)
  <2>1. PICK p \in {"enqueue", "finish", "body"} : pc' = [pc EXCEPT ![t] = p]
    BY <1>4 DEF Respond
  <2> QED BY <1>0, <1>4, <2>1, AccountedStay DEF Respond, workerVars, PC
<1>5. CASE Enqueue(t)
  BY <1>5, AccountedEnqueue
<1>6. CASE AllEnqueued(t)
  <2>1. PICK p \in {"finish", "body"} : pc' = [pc EXCEPT ![t] = p]
    BY <1>6 DEF AllEnqueued
  <2> QED BY <1>0, <1>6, <2>1, AccountedStay DEF AllEnqueued, workerVars, PC
<1>7. CASE ReceiveBody(t)
  <2>1. pc' = [pc EXCEPT ![t] = "body"]
    BY <1>0, <1>7 DEF ReceiveBody
  <2> QED BY <1>0, <1>7, <2>1, AccountedStay DEF ReceiveBody, workerVars, PC
<1>8. CASE BodyComplete(t)
  BY <1>0, <1>8, AccountedStay DEF BodyComplete, workerVars, PC
<1>9. CASE FailLate(t)
  BY <1>9, AccountedLeave DEF FailLate
<1>10. CASE Finish(t)
  <2>1. PICK p \in {"inline", "wait"} : pc' = [pc EXCEPT ![t] = p]
    BY <1>10 DEF Finish
  <2> QED BY <1>0, <1>10, <2>1, AccountedStay DEF Finish, workerVars, PC
<1>11. CASE Wait(t)
  BY <1>11, AccountedLeave DEF Wait
<1>12. CASE InlineCallback(t)
  <2>1. sent[t] + 1 \in Nat /\ sent[t] <= sent[t] + 1
    BY <1>0
  <2> QED BY <1>0, <1>12, <2>1, AccountedMove DEF InlineCallback, workerVars, PC
<1>13. CASE InlineCallbackReturn(t)
  BY <1>0, <1>13, AccountedStay DEF InlineCallbackReturn, workerVars, PC
<1>14. CASE InlineDone(t)
  <2>1. t \notin Caller
    BY <1>14 DEF InlineDone, TypeOK
  <2> QED BY <1>14, <2>1, AccountedLeave DEF InlineDone
<1> QED BY <1>1, <1>2, <1>3, <1>4, <1>5, <1>6, <1>7, <1>8, <1>9, <1>10, <1>11,
           <1>12, <1>13, <1>14 DEF CallStep

LEMMA AccountedDequeue ==
  ASSUME TypeOK, TypeOK', TasksAccounted, NEW t \in Thread, Dequeue(t)
  PROVE  TasksAccounted'
<1> DEFINE len == Len(queue[t])
<1>1. queue[t] \in Seq(Task \cup {EmptyTask})
  BY DEF TypeOK
<1>2. /\ len \in Nat \ {0}
      /\ task' = queue[t][1]
      /\ queue'[t] = Tail(queue[t])
      /\ Len(queue'[t]) = len - 1
      /\ \A i \in 1..(len - 1) : queue'[t][i] = queue[t][i + 1]
  <2>1. task' = Head(queue[t]) /\ queue'[t] = Tail(queue[t]) /\ queue[t] # <<>>
    BY DEF Dequeue, TypeOK
  <2>2. len \in Nat \ {0}
    BY <1>1, <2>1
  <2>3. Head(queue[t]) = queue[t][1] /\ Len(Tail(queue[t])) = len - 1
    BY <1>1, <2>1
  <2>4. \A i \in 1..(len - 1) : Tail(queue[t])[i] = queue[t][i + 1]
    BY <1>1, <2>1
  <2> QED BY <2>1, <2>2, <2>3, <2>4
<1>3. \A u \in Thread \ {t} : queue'[u] = queue[u]
  BY DEF Dequeue, TypeOK
\* Whatever is queued afterwards was queued before, maybe one place further.
<1>4. ASSUME NEW u \in Thread, NEW i \in 1..Len(queue'[u])
      PROVE  IF u = t THEN i + 1 \in 1..Len(queue[u]) /\ queue'[u][i] = queue[u][i + 1]
             ELSE i \in 1..Len(queue[u]) /\ queue'[u][i] = queue[u][i]
  <2>1. CASE u = t
    <3>1. i \in 1..(len - 1)
      <4>1. Len(queue'[u]) = len - 1
        BY <1>2, <2>1
      <4> QED BY <4>1
    <3>2. i + 1 \in 1..len
      <4> HIDE DEF len
      <4> QED BY <1>2, <3>1
    <3> QED BY <1>2, <2>1, <3>1, <3>2
  <2>2. CASE u # t
    BY <1>3, <1>4, <2>2
  <2> QED BY <2>1, <2>2
<1>5. ASSUME NEW k \in Task, NEW u \in Caller, Accounted(k, u)
      PROVE  Accounted(k, u)'
  BY <1>5 DEF Accounted, Live, Dequeue, frameVars
<1>6. QueuedAccounted'
  <2> SUFFICES ASSUME NEW u \in Thread, NEW i \in 1..Len(queue'[u]), queue'[u][i] # EmptyTask
               PROVE  u \in Caller /\ Accounted(queue[u][i], u)'
    BY DEF QueuedAccounted
  <2>1. PICK k \in Task : /\ k = queue'[u][i]
                          /\ u \in Caller
                          /\ Accounted(k, u)
    BY <1>4, AccountedQueued
  <2>2. Accounted(k, u)'
    BY <1>5, <2>1
  <2> QED BY <2>1, <2>2 DEF Accounted, Live
<1>7. RunningAccounted'
  <2> SUFFICES ASSUME task' # EmptyTask
               PROVE  task'.from \in Caller /\ Accounted(task, task.from)'
    BY DEF RunningAccounted
  <2>1. PICK k \in Task : /\ k = task'
                          /\ t \in Caller
                          /\ Accounted(k, t)
    BY <1>2, AccountedQueued
  <2>2. Accounted(k, t)' /\ k.from = t
    BY <1>5, <2>1 DEF Accounted
  <2> QED BY <2>1, <2>2 DEF Accounted, Live
<1>8. QueueOrdered'
  <2> SUFFICES ASSUME NEW u \in Thread,
                      NEW i \in 1..Len(queue'[u]), NEW j \in 1..Len(queue'[u]),
                      i < j, queue'[u][i] # EmptyTask, queue'[u][j] # EmptyTask,
                      queue'[u][i].call = queue'[u][j].call
               PROVE  queue'[u][i].rec < queue'[u][j].rec
    BY DEF QueueOrdered
  <2>1. CASE u = t
    <3>1. i + 1 \in 1..Len(queue[u]) /\ j + 1 \in 1..Len(queue[u]) /\ i + 1 < j + 1
      BY <1>4, <2>1, SMTT(30)
    <3>2. queue'[u][i] = queue[u][i + 1] /\ queue'[u][j] = queue[u][j + 1]
      BY <1>4, <2>1
    <3> QED BY <3>1, <3>2 DEF TasksAccounted, QueueOrdered
  <2>2. CASE u # t
    BY <1>4, <2>2 DEF TasksAccounted, QueueOrdered
  <2> QED BY <2>1, <2>2
<1>9. RunningFirst'
  <2> SUFFICES ASSUME NEW u \in Thread, NEW i \in 1..Len(queue'[u]),
                      task' # EmptyTask, task'.from = u, queue'[u][i] # EmptyTask,
                      queue'[u][i].call = task'.call
               PROVE  task'.rec < queue'[u][i].rec
    BY DEF RunningFirst
  <2>1. u = t
    BY <1>2, AccountedQueued DEF Accounted
  <2>2. /\ 1 \in 1..Len(queue[t]) /\ i + 1 \in 1..Len(queue[t]) /\ 1 < i + 1
        /\ queue'[t][i] = queue[t][i + 1]
    BY <1>2, <1>4, <2>1
  <2> QED BY <1>2, <2>1, <2>2 DEF TasksAccounted, QueueOrdered
<1> QED BY <1>6, <1>7, <1>8, <1>9
        DEF TasksAccounted, NothingSentBeforeHeaders, DoneWasSent, WorkerHoldsTask,
            InCallback, Dequeue, frameVars

\* The future of a task becomes ready; those behind it in the queue come later.
LEMMA AccountedOver ==
  ASSUME TypeOK, TypeOK', TasksAccounted, task # EmptyTask, TaskOver,
         UNCHANGED <<pc, call, sent, abandoned, queue>>
  PROVE  TasksAccounted'
<1>1. /\ task \in Task /\ task.from \in Caller
      /\ task.rec \in Nat
      /\ Accounted(task, task.from)
  BY AccountedTask
<1>2. ASSUME NEW u \in Thread, NEW i \in 1..Len(queue[u]), queue[u][i] # EmptyTask
      PROVE  u \in Caller /\ Accounted(queue[u][i], u)'
  <2>1. PICK k \in Task : /\ k = queue[u][i]
                          /\ u \in Caller
                          /\ Accounted(k, u)
    BY <1>2, AccountedQueued
  <2>2. Live(k)' <=> Live(k)
    BY DEF Live
  <2>3. Live(k) => done'[u] < k.rec
    <3>1. CASE Live(task) /\ task.from = u
      <4>1. Live(k) => task.rec < k.rec
        BY <1>1, <1>2, <2>1, <3>1 DEF Accounted, Live, TasksAccounted, RunningFirst
      <4>2. done'[u] = task.rec
        BY <1>1, <3>1 DEF TaskOver, TypeOK
      <4> QED BY <4>1, <4>2
    <3>2. CASE ~(Live(task) /\ task.from = u)
      <4>1. done'[u] = done[u]
        BY <1>1, <3>2 DEF TaskOver, TypeOK
      <4> QED BY <2>1, <4>1 DEF Accounted
    <3> QED BY <3>1, <3>2
  <2>4. Accounted(k, u)'
    BY <2>1, <2>2, <2>3 DEF Accounted
  <2> QED BY <2>1, <2>4 DEF Accounted, Live
<1>3. DoneWasSent'
  <2> SUFFICES ASSUME NEW u \in Thread PROVE done'[u] <= sent[u]
    BY DEF DoneWasSent
  <2>1. CASE Live(task) /\ task.from = u
    BY <1>1, <2>1 DEF TaskOver, TypeOK, Accounted
  <2>2. CASE ~(Live(task) /\ task.from = u)
    BY <1>1, <2>2 DEF TaskOver, TypeOK, TasksAccounted, DoneWasSent
  <2> QED BY <2>1, <2>2
<1> QED BY <1>2, <1>3
        DEF TasksAccounted, QueuedAccounted, RunningAccounted, QueueOrdered, RunningFirst,
            NothingSentBeforeHeaders, WorkerHoldsTask, InCallback, TaskOver

LEMMA AccountedWorker ==
  ASSUME TypeOK, TypeOK', TasksAccounted, WorkerStep \/ StaleReadReturns
  PROVE  TasksAccounted'
<1>1. ASSUME UNCHANGED <<frameVars, abandoned, queue, task, done>>, WorkerHoldsTask'
      PROVE  TasksAccounted'
  <2>1. NothingSentBeforeHeaders' /\ DoneWasSent'
    BY <1>1 DEF TasksAccounted, NothingSentBeforeHeaders, DoneWasSent, frameVars
  <2>2. QueuedAccounted' /\ RunningAccounted'
    BY <1>1 DEF TasksAccounted, QueuedAccounted, RunningAccounted, Accounted, Live, frameVars
  <2> QED BY <1>1, <2>1, <2>2 DEF TasksAccounted, QueueOrdered, RunningFirst
<1>2. InCallback => task # EmptyTask
  BY DEF TasksAccounted, WorkerHoldsTask
<1>3. CASE CheckStop
  BY <1>1, <1>3 DEF CheckStop, TasksAccounted, WorkerHoldsTask, InCallback
<1>4. ASSUME NEW t \in Thread, Dequeue(t)
      PROVE  TasksAccounted'
  BY <1>4, AccountedDequeue
<1>5. CASE SkipInvalid
  BY <1>1, <1>5 DEF SkipInvalid, WorkerHoldsTask, InCallback
<1>6. CASE SkipStopped
  BY <1>6, AccountedOver DEF SkipStopped, frameVars
<1>7. CASE RunCallback
  BY <1>1, <1>7 DEF RunCallback, EnterCallback, WorkerHoldsTask, InCallback
<1>8. CASE StartRead
  BY <1>1, <1>2, <1>8 DEF StartRead, WorkerHoldsTask, InCallback
<1>9. CASE SkipRead
  BY <1>1, <1>2, <1>9 DEF SkipRead, WorkerHoldsTask, InCallback
<1>10. CASE ReadReturns
  BY <1>1, <1>2, <1>10 DEF ReadReturns, WorkerHoldsTask, InCallback
<1>11. CASE CallbackReturn
  BY <1>2, <1>11, AccountedOver DEF CallbackReturn, InCallback
<1>12. CASE StaleSkip
  BY <1>12, AccountedOver DEF StaleSkip, frameVars
<1>13. CASE StaleCallback
  BY <1>1, <1>13 DEF StaleCallback, EnterCallback, WorkerHoldsTask, InCallback
<1>14. CASE StaleCallbackReturn
  BY <1>2, <1>14, AccountedOver DEF StaleCallbackReturn, InCallback
<1>15. CASE StaleReadReturns
  BY <1>1, <1>2, <1>15 DEF StaleReadReturns, WorkerHoldsTask, InCallback
<1> QED BY <1>3, <1>4, <1>5, <1>6, <1>7, <1>8, <1>9, <1>10, <1>11, <1>12, <1>13,
           <1>14, <1>15 DEF WorkerStep

LEMMA AccountedDestructor ==
  ASSUME TypeOK, TypeOK', TasksAccounted, SetStop \/ WakeWorker \/ Join
  PROVE  TasksAccounted'
<1>1. CASE SetStop \/ Join
  BY <1>1 DEF SetStop, Join, frameVars, workerVars, TasksAccounted, QueuedAccounted,
       RunningAccounted, QueueOrdered, RunningFirst, NothingSentBeforeHeaders, DoneWasSent,
       WorkerHoldsTask, InCallback, Accounted, Live
<1>2. CASE WakeWorker
  <2>1. PICK t \in Caller : queue' = [queue EXCEPT ![t] = Append(queue[t], EmptyTask)]
    BY <1>2 DEF WakeWorker
  <2>2. UNCHANGED <<frameVars, workerVars, abandoned>>
    BY <1>2 DEF WakeWorker
  <2>3. ASSUME NEW u \in Thread, NEW i \in 1..Len(queue'[u]), queue'[u][i] # EmptyTask
        PROVE  i \in 1..Len(queue[u]) /\ queue'[u][i] = queue[u][i]
    <3>1. queue[u] \in Seq(Task \cup {EmptyTask})
      BY DEF TypeOK
    <3>2. CASE u = t
      <4>1. queue'[u] = Append(queue[u], EmptyTask)
        BY <2>1, <3>2 DEF TypeOK
      <4>2. Len(queue'[u]) = Len(queue[u]) + 1 /\ queue'[u][Len(queue[u]) + 1] = EmptyTask
        BY <3>1, <4>1
      <4>3. i \in 1..Len(queue[u])
        BY <2>3, <3>1, <4>2
      <4> QED BY <3>1, <4>1, <4>3
    <3>3. CASE u # t
      BY <2>1, <3>3 DEF TypeOK
    <3> QED BY <3>2, <3>3
  <2>4. QueuedAccounted'
    <3> SUFFICES ASSUME NEW u \in Thread, NEW i \in 1..Len(queue'[u]), queue'[u][i] # EmptyTask
                 PROVE  u \in Caller /\ Accounted(queue[u][i], u)'
      BY DEF QueuedAccounted
    <3>1. u \in Caller /\ Accounted(queue[u][i], u) /\ queue'[u][i] = queue[u][i]
      BY <2>3, AccountedQueued
    <3> QED BY <2>2, <3>1 DEF Accounted, Live, frameVars, workerVars
  <2>5. RunningAccounted'
    BY <2>2 DEF TasksAccounted, RunningAccounted, Accounted, Live, frameVars, workerVars
  <2>6. QueueOrdered'
    BY <2>3 DEF TasksAccounted, QueueOrdered
  <2>7. RunningFirst'
    BY <2>2, <2>3 DEF TasksAccounted, RunningFirst, workerVars
  <2> QED BY <2>2, <2>4, <2>5, <2>6, <2>7
          DEF TasksAccounted, NothingSentBeforeHeaders, DoneWasSent, WorkerHoldsTask,
              InCallback, frameVars, workerVars
<1> QED BY <1>1, <1>2

LEMMA AccountedNext == TypeOK /\ TasksAccounted /\ [Next]_vars => TasksAccounted'
<1> SUFFICES ASSUME TypeOK, TasksAccounted, [Next]_vars PROVE TasksAccounted'
  OBVIOUS
<1>1. TypeOK'
  BY TypeNext
<1>2. CASE UNCHANGED vars
  BY <1>2 DEF vars, TasksAccounted, QueuedAccounted, RunningAccounted, QueueOrdered,
       RunningFirst, NothingSentBeforeHeaders, DoneWasSent, WorkerHoldsTask, InCallback,
       Accounted, Live
<1>3. CASE Next
  BY <1>1, <1>2, <1>3, AccountedCall, AccountedWorker, AccountedDestructor DEF Next, Gone
<1> QED BY <1>2, <1>3

\* Every task is accounted for in every reachable state.
THEOREM AccountedCorrect == Spec => []TasksAccounted
  BY TypeInit, AccountedInit, TypeNext, AccountedNext, PTL DEF Spec

LEMMA AccountedImpliesLeak == TypeOK /\ TasksAccounted => OnlyLateErrorsLeak
<1> SUFFICES ASSUME TypeOK, TasksAccounted, NEW k \in Pending \ {EmptyTask}
             PROVE  Live(k) \/ k.call \in abandoned[k.from]
  BY DEF OnlyLateErrorsLeak
<1>1. CASE k = task
  BY <1>1, AccountedTask DEF Accounted
<1>2. CASE k # task
  <2>1. PICK t \in Thread : \E i \in 1..Len(queue[t]) : k = queue[t][i]
    BY <1>2 DEF Pending
  <2> QED BY <2>1, AccountedQueued DEF Accounted
<1> QED BY <1>1, <1>2

\* Only a GET that fails after its headers leaves a task behind that points
\* into a frame that is gone.
THEOREM OnlyLateErrorsLeakCorrect == Spec => []OnlyLateErrorsLeak
  BY TypeCorrect, AccountedCorrect, AccountedImpliesLeak, PTL

-----------------------------------------------------------------------------
(* Without late errors no task outlives its call.                          *)

NoneAbandoned == ~LateErrors => \A t \in Thread : abandoned[t] = {}

LEMMA NoneAbandonedNext == TypeOK /\ NoneAbandoned /\ [Next]_vars => NoneAbandoned'
<1> SUFFICES ASSUME TypeOK, NoneAbandoned, [Next]_vars, ~LateErrors PROVE UNCHANGED abandoned
  BY DEF NoneAbandoned
<1> QED BY DEF Next, CallStep, WorkerStep, vars, frameVars, workerVars, LeaveFrame, TaskOver,
     EnterCallback, Begin, Connect, Refuse, Respond, Enqueue, AllEnqueued, ReceiveBody,
     BodyComplete, FailLate, Finish, Wait, InlineCallback, InlineCallbackReturn, InlineDone,
     CheckStop, Dequeue, SkipInvalid, SkipStopped, RunCallback, StartRead, SkipRead,
     ReadReturns, CallbackReturn, StaleSkip, StaleCallback, StaleCallbackReturn,
     StaleReadReturns, SetStop, WakeWorker, Join, Gone

LEMMA NoneAbandonedCorrect == Spec => []NoneAbandoned
<1>1. Init => NoneAbandoned
  BY DEF Init, NoneAbandoned
<1> QED BY <1>1, TypeInit, TypeNext, NoneAbandonedNext, PTL DEF Spec

\* When a GET whose headers were accepted never fails, no task refers to the
\* locals of a ReadRecord call that has returned.
THEOREM NoTaskOutlivesCallCorrect == ~LateErrors => (Spec => []NoTaskOutlivesCall)
<1> SUFFICES ASSUME ~LateErrors PROVE Spec => []NoTaskOutlivesCall
  OBVIOUS
<1>1. TypeOK /\ TasksAccounted /\ NoneAbandoned => NoTaskOutlivesCall
  <2> SUFFICES ASSUME TypeOK, TasksAccounted, NoneAbandoned, NEW k \in Pending \ {EmptyTask}
               PROVE  Live(k)
    BY DEF NoTaskOutlivesCall
  <2>1. CASE k = task
    BY <2>1, AccountedTask DEF Accounted, NoneAbandoned
  <2>2. CASE k # task
    <3>1. PICK t \in Thread : \E i \in 1..Len(queue[t]) : k = queue[t][i]
      BY <2>2 DEF Pending
    <3> QED BY <3>1, AccountedQueued DEF Accounted, NoneAbandoned
  <2> QED BY <2>1, <2>2
<1> QED BY <1>1, TypeCorrect, AccountedCorrect, NoneAbandonedCorrect, PTL

-----------------------------------------------------------------------------
(* CallbackQueue implements ReadContract when no GET fails after its       *)
(* headers.  The invariant: the tasks of a call are taken one after the    *)
(* other.                                                                  *)

\* A call that has no headers yet has given no record, one that has all of them
\* enqueued has one task per record, and an inline call gives what it counts.
FrameInv(t) ==
  /\ pc[t] \in {"idle", "request", "response"} => ~stopped[t] /\ given[t] = 0
  /\ sent[t] <= resp[t]
  /\ t \in Caller /\ pc[t] \in {"body", "finish", "wait"} => sent[t] = resp[t]
  /\ t = Worker => given[t] = sent[t]

\* The worker holds a task of thread t.
Holds(t) == task # EmptyTask /\ task.from = t

\* Done are the tasks before the one the worker holds, and the queue has the rest;
\* the callback was called for the one it holds, or for the last one done.
Turn(t) ==
  /\ Holds(t) => task.rec = done[t] + 1
  /\ sent[t] = Len(queue[t]) + (IF Holds(t) THEN done[t] + 1 ELSE done[t])
  /\ \A i \in 1..Len(queue[t]) : queue[t][i].rec + Len(queue[t]) = sent[t] + i
  /\ Holds(t) /\ InCallback => ~stopped[t]
  /\ ~stopped[t] => given[t] = IF Holds(t) /\ InCallback THEN done[t] + 1 ELSE done[t]

\* The queue has a task without function only once the destructor has put it
\* there, and then no application thread is in a call.
DestructorInv ==
  /\ dtor # "alive" => \A t \in Caller : pc[t] = "idle"
  /\ dtor \in {"alive", "wake"} => \A t \in Thread : \A i \in 1..Len(queue[t]) : queue[t][i] # EmptyTask

InTurn == /\ \A t \in Thread : FrameInv(t)
          /\ \A t \in Caller : pc[t] # "idle" => Turn(t)
          /\ DestructorInv

LEMMA InTurnInit == Init => InTurn
  BY CallbackQueueAssumption DEF Init, InTurn, FrameInv, DestructorInv

\* Without late errors every task that is queued or held is one of a call in
\* progress, which has its headers.
LEMMA HeldIsLive ==
  ASSUME TypeOK, TasksAccounted, NoneAbandoned, ~LateErrors, task # EmptyTask
  PROVE  /\ task \in Task /\ task.from \in Caller /\ task.rec \in Nat
         /\ Live(task) /\ task.call = call[task.from]
         /\ done[task.from] < task.rec /\ task.rec <= sent[task.from]
         /\ pc[task.from] \notin {"idle", "request", "response"}
<1>1. /\ task \in Task /\ task.from \in Caller /\ task.rec \in Nat
      /\ Accounted(task, task.from)
  BY AccountedTask
<1>2. Live(task) /\ done[task.from] < task.rec /\ task.rec <= sent[task.from]
  BY <1>1 DEF Accounted, NoneAbandoned
<1>3. sent[task.from] # 0
  BY <1>1, <1>2 DEF TypeOK
<1> QED BY <1>1, <1>2, <1>3 DEF Live, TasksAccounted, NothingSentBeforeHeaders

LEMMA QueuedIsLive ==
  ASSUME TypeOK, TasksAccounted, NoneAbandoned, ~LateErrors,
         NEW t \in Thread, NEW i \in 1..Len(queue[t]), queue[t][i] # EmptyTask
  PROVE  /\ t \in Caller /\ queue[t][i].from = t /\ pc[t] # "idle"
         /\ queue[t][i].rec \in Nat /\ done[t] < queue[t][i].rec /\ queue[t][i].rec <= sent[t]
  BY AccountedQueued DEF Accounted, NoneAbandoned, Live

\* A thread of which nothing changes.
LEMMA TurnKept ==
  ASSUME NEW t \in Thread, Turn(t), UNCHANGED <<task, queue[t], sent[t], done[t], given[t], stopped[t], InCallback>>
  PROVE  Turn(t)'
  BY DEF Turn, Holds

LEMMA FrameKept ==
  ASSUME NEW t \in Thread, FrameInv(t), UNCHANGED <<pc[t], sent[t], resp[t], given[t], stopped[t]>>
  PROVE  FrameInv(t)'
  BY DEF FrameInv

-----------------------------------------------------------------------------
(* Steps of calls.                                                         *)

LEMMA TurnBegin ==
  ASSUME TypeOK, TasksAccounted, NoneAbandoned, ~LateErrors, InTurn, NEW t \in Thread, Begin(t)
  PROVE  InTurn'
<1>1. /\ pc[t] = "idle" /\ pc' = [pc EXCEPT ![t] = "request"]
      /\ UNCHANGED <<resp, sent, stopped, given, queue, wpc, task, done, dtor>>
  BY DEF Begin, workerVars
<1>2. pc'[t] = "request" /\ \A u \in Thread \ {t} : pc'[u] = pc[u]
  BY <1>1 DEF TypeOK
<1>3. ASSUME NEW u \in Thread PROVE FrameInv(u)'
  <2>1. CASE u = t
    BY <1>1, <1>2, <2>1 DEF InTurn, FrameInv
  <2>2. CASE u # t
    BY <1>1, <1>2, <2>2, FrameKept DEF InTurn
  <2> QED BY <2>1, <2>2
<1>4. ASSUME NEW u \in Caller, pc'[u] # "idle" PROVE Turn(u)'
  <2>1. CASE u = t
    <3>1. dtor = "alive"
      BY <2>1, CallbackQueueAssumption DEF Begin, MayBegin
    <3>2. \A i \in 1..Len(queue[t]) : FALSE
      BY <1>1, <3>1, QueuedIsLive DEF InTurn, DestructorInv
    <3>3. Len(queue[t]) = 0
      <4>1. queue[t] \in Seq(Task \cup {EmptyTask})
        BY DEF TypeOK
      <4>2. Len(queue[t]) \in Nat
        BY <4>1
      <4> QED BY <3>2, <4>2
    <3>4. ~Holds(t)
      BY <1>1, HeldIsLive DEF Holds
    <3>5. sent[t] = 0 /\ given[t] = 0 /\ ~stopped[t]
      BY <1>1 DEF InTurn, FrameInv, TasksAccounted, NothingSentBeforeHeaders
    <3>6. done[t] = 0
      BY <3>5 DEF TypeOK, TasksAccounted, DoneWasSent
    <3>7. Turn(t)
      BY <3>2, <3>3, <3>4, <3>5, <3>6 DEF Turn
    <3> QED BY <1>1, <2>1, <3>7, TurnKept DEF InCallback
  <2>2. CASE u # t
    BY <1>1, <1>2, <1>4, <2>2, TurnKept DEF InTurn, InCallback
  <2> QED BY <2>1, <2>2
<1>5. DestructorInv'
  <2>1. t \in Caller => dtor = "alive"
    BY CallbackQueueAssumption DEF Begin, MayBegin
  <2> QED BY <1>1, <1>2, <2>1 DEF InTurn, DestructorInv
<1> QED BY <1>3, <1>4, <1>5 DEF InTurn

\* A call goes on: what the worker sees of it stays.
LEMMA TurnMove ==
  ASSUME TypeOK, InTurn, NEW t \in Thread, NEW p, pc' = [pc EXCEPT ![t] = p], pc[t] # "idle",
         UNCHANGED <<sent, stopped, given, done, queue, task, wpc, dtor>>,
         \A u \in Thread \ {t} : resp'[u] = resp[u], FrameInv(t)'
  PROVE  InTurn'
<1>1. \A u \in Thread \ {t} : pc'[u] = pc[u]
  BY DEF TypeOK
<1>2. \A u \in Thread : FrameInv(u)'
  BY <1>1, FrameKept DEF InTurn
<1>3. ASSUME NEW u \in Caller, pc'[u] # "idle" PROVE Turn(u)'
  BY <1>1, <1>3, TurnKept DEF InTurn, InCallback
<1>4. DestructorInv'
  BY <1>1 DEF InTurn, DestructorInv
<1> QED BY <1>2, <1>3, <1>4 DEF InTurn

\* A call ends.
LEMMA TurnLeave ==
  ASSUME TypeOK, InTurn, NEW t \in Thread, NEW e, LeaveFrame(t, e), UNCHANGED <<queue, task, wpc, dtor>>
  PROVE  InTurn'
<1>1. /\ pc'[t] = "idle" /\ stopped'[t] = FALSE /\ given'[t] = 0 /\ sent'[t] = 0 /\ resp'[t] = 0
      /\ \A u \in Thread \ {t} : /\ pc'[u] = pc[u] /\ stopped'[u] = stopped[u] /\ given'[u] = given[u]
                                 /\ sent'[u] = sent[u] /\ resp'[u] = resp[u] /\ done'[u] = done[u]
  BY DEF LeaveFrame, TypeOK
<1>2. ASSUME NEW u \in Thread PROVE FrameInv(u)'
  <2>1. CASE u = t
    BY <1>1, <2>1 DEF FrameInv
  <2>2. CASE u # t
    BY <1>1, <2>2, FrameKept DEF InTurn
  <2> QED BY <2>1, <2>2
<1>3. ASSUME NEW u \in Caller, pc'[u] # "idle" PROVE Turn(u)'
  BY <1>1, <1>3, TurnKept DEF InTurn, InCallback
<1>4. DestructorInv'
  BY <1>1 DEF InTurn, DestructorInv
<1> QED BY <1>2, <1>3, <1>4 DEF InTurn

LEMMA TurnEnqueue ==
  ASSUME TypeOK, InTurn, NEW t \in Thread, Enqueue(t)
  PROVE  InTurn'
<1>1. /\ pc[t] = "enqueue" /\ sent[t] < resp[t]
      /\ queue' = [queue EXCEPT ![t] = Append(queue[t], NextTask(t))]
      /\ sent' = [sent EXCEPT ![t] = sent[t] + 1]
      /\ UNCHANGED <<pc, resp, stopped, given, wpc, task, done, dtor>>
  BY DEF Enqueue, workerVars
<1>2. t \in Caller
  BY <1>1 DEF TypeOK
<1>3. sent[t] \in Nat /\ resp[t] \in Nat /\ sent'[t] = sent[t] + 1
  BY <1>1 DEF TypeOK
<1>4. \A u \in Thread \ {t} : sent'[u] = sent[u] /\ queue'[u] = queue[u]
  BY <1>1 DEF TypeOK
<1>5. queue[t] \in Seq(Task \cup {EmptyTask}) /\ NextTask(t) \in Task
  BY NextTaskType DEF TypeOK
<1>6. /\ Len(queue[t]) \in Nat
      /\ queue'[t] = Append(queue[t], NextTask(t))
  BY <1>1, <1>5, SMTT(30) DEF TypeOK
<1>7. /\ Len(queue'[t]) = Len(queue[t]) + 1
      /\ \A i \in 1..Len(queue[t]) : queue'[t][i] = queue[t][i]
      /\ queue'[t][Len(queue[t]) + 1] = NextTask(t)
  BY <1>5, <1>6
<1>8. NextTask(t).rec = sent[t] + 1 /\ NextTask(t) # EmptyTask
  BY <1>5, EmptyTaskIsNoTask DEF NextTask
<1>9. ASSUME NEW u \in Thread PROVE FrameInv(u)'
  <2>1. CASE u = t
    BY <1>1, <1>2, <1>3, <2>1, CallbackQueueAssumption DEF InTurn, FrameInv
  <2>2. CASE u # t
    BY <1>1, <1>4, <2>2, FrameKept DEF InTurn
  <2> QED BY <2>1, <2>2
<1>10. Turn(t)'
  <2>1. Turn(t)
    BY <1>1, <1>2 DEF InTurn
  <2>2. \A i \in 1..Len(queue'[t]) : queue'[t][i].rec + Len(queue'[t]) = sent'[t] + i
    <3> SUFFICES ASSUME NEW i \in 1..Len(queue'[t]) PROVE queue'[t][i].rec + Len(queue'[t]) = sent'[t] + i
      OBVIOUS
    <3>1. CASE i \in 1..Len(queue[t])
      <4>1. queue[t][i].rec + Len(queue[t]) = sent[t] + i
        BY <2>1, <3>1 DEF Turn
      <4>2. queue[t][i].rec \in Nat
        <5>1. queue[t][i] # EmptyTask
          BY <1>1, <1>2, <3>1 DEF InTurn, DestructorInv, TypeOK
        <5> QED BY <3>1, <5>1, QueueTypes
      <4>3. queue'[t][i].rec = queue[t][i].rec /\ Len(queue[t]) \in Nat /\ i \in Nat
        BY <1>6, <1>7, <3>1
      <4> DEFINE r == queue[t][i].rec
                 r1 == queue'[t][i].rec
                 l == Len(queue[t])
                 l1 == Len(queue'[t])
                 s == sent[t]
                 s1 == sent'[t]
      <4>4. r1 = r /\ l1 = l + 1 /\ s1 = s + 1 /\ r + l = s + i /\ r \in Nat /\ l \in Nat /\ s \in Nat /\ i \in Nat
        BY <1>3, <1>7, <4>1, <4>2, <4>3
      <4> HIDE DEF r, r1, l, l1, s, s1
      <4>5. r1 + l1 = s1 + i
        BY <4>4
      <4> QED BY <4>5 DEF r1, l1, s1
    <3>2. CASE i = Len(queue[t]) + 1
      BY <1>3, <1>6, <1>7, <1>8, <3>2
    <3> QED BY <1>6, <1>7, <3>1, <3>2
  <2>3. UNCHANGED <<Holds(t), InCallback>>
    BY <1>1 DEF Holds, InCallback
  <2>4. done[t] \in Nat
    BY DEF TypeOK
  <2> QED BY <1>1, <1>3, <1>6, <1>7, <2>1, <2>2, <2>3, <2>4, SMTT(30) DEF Turn
<1>11. ASSUME NEW u \in Caller, pc'[u] # "idle" PROVE Turn(u)'
  <2>1. CASE u = t
    BY <1>10, <2>1
  <2>2. CASE u # t
    BY <1>1, <1>4, <1>11, <2>2, TurnKept DEF InTurn, InCallback
  <2> QED BY <2>1, <2>2
<1>12. DestructorInv'
  <2>1. dtor = "alive"
    BY <1>1, <1>2 DEF InTurn, DestructorInv
  <2>2. ASSUME NEW u \in Thread, NEW i \in 1..Len(queue'[u]) PROVE queue'[u][i] # EmptyTask
    <3>1. CASE u = t
      BY <1>6, <1>7, <1>8, <2>1, <2>2, <3>1, SMTT(30) DEF InTurn, DestructorInv
    <3>2. CASE u # t
      BY <1>4, <2>1, <2>2, <3>2 DEF InTurn, DestructorInv
    <3> QED BY <3>1, <3>2
  <2> QED BY <1>1, <2>1, <2>2 DEF DestructorInv
<1> QED BY <1>9, <1>11, <1>12 DEF InTurn

LEMMA TurnInline ==
  ASSUME TypeOK, InTurn, NEW t \in Thread, InlineCallback(t) \/ InlineCallbackReturn(t)
  PROVE  InTurn'
<1>1. t = Worker /\ pc[t] \in {"inline", "incallback"}
  BY DEF TypeOK, InlineCallback, InlineCallbackReturn
<1>2. /\ pc'[t] \in {"inline", "incallback"} /\ sent'[t] <= resp[t] /\ given'[t] = sent'[t]
      /\ \A u \in Thread \ {t} : /\ pc'[u] = pc[u] /\ stopped'[u] = stopped[u] /\ given'[u] = given[u]
                                 /\ sent'[u] = sent[u]
      /\ UNCHANGED <<resp, queue, task, wpc, done, dtor>>
  <2>1. CASE InlineCallback(t)
    BY <2>1 DEF InlineCallback, TypeOK, workerVars
  <2>2. CASE InlineCallbackReturn(t)
    BY <1>1, <2>2 DEF InlineCallbackReturn, TypeOK, workerVars, InTurn, FrameInv
  <2> QED BY <2>1, <2>2
<1>3. ASSUME NEW u \in Thread PROVE FrameInv(u)'
  <2>1. CASE u = t
    BY <1>1, <1>2, <2>1, CallbackQueueAssumption DEF FrameInv
  <2>2. CASE u # t
    BY <1>2, <2>2, FrameKept DEF InTurn
  <2> QED BY <2>1, <2>2
<1>4. ASSUME NEW u \in Caller, pc'[u] # "idle" PROVE Turn(u)'
  BY <1>1, <1>2, <1>4, TurnKept, CallbackQueueAssumption DEF InTurn, InCallback
<1>5. DestructorInv'
  BY <1>1, <1>2, CallbackQueueAssumption DEF InTurn, DestructorInv
<1> QED BY <1>3, <1>4, <1>5 DEF InTurn

LEMMA TurnCall ==
  ASSUME TypeOK, TasksAccounted, NoneAbandoned, ~LateErrors, InTurn, NEW t \in Thread, Begin(t) \/ CallStep(t)
  PROVE  InTurn'
<1>1. CASE Connect(t) \/ AllEnqueued(t) \/ ReceiveBody(t) \/ BodyComplete(t) \/ Finish(t)
  <2>1. UNCHANGED <<resp, sent, stopped, given, done, queue, task, wpc, dtor>>
    BY <1>1 DEF Connect, AllEnqueued, ReceiveBody, BodyComplete, Finish, workerVars
  <2>2. \/ pc[t] = "request" /\ pc' = [pc EXCEPT ![t] = "response"]
        \/ pc[t] = "enqueue" /\ sent[t] = resp[t] /\ pc' = [pc EXCEPT ![t] = IF head[t] THEN "finish" ELSE "body"]
        \/ pc[t] = "body" /\ UNCHANGED pc
        \/ pc[t] = "body" /\ pc' = [pc EXCEPT ![t] = "finish"]
        \/ pc[t] = "finish" /\ pc' = [pc EXCEPT ![t] = IF IsCallbackWorkerThread(t) THEN "inline" ELSE "wait"]
    BY <1>1 DEF Connect, AllEnqueued, ReceiveBody, BodyComplete, Finish
  <2>3. pc' = [pc EXCEPT ![t] = pc'[t]] /\ pc[t] # "idle"
    BY <2>2 DEF TypeOK
  <2>4. \/ pc[t] = "request" /\ pc'[t] = "response"
        \/ pc[t] = "enqueue" /\ sent[t] = resp[t] /\ pc'[t] \in {"finish", "body"}
        \/ pc[t] \in {"body", "finish"} /\ pc'[t] \in {"body", "finish", "wait", "inline"}
    BY <2>2 DEF TypeOK
  <2>5. FrameInv(t)'
    BY <2>1, <2>4 DEF FrameInv, InTurn
  <2> QED BY <2>1, <2>3, <2>5, TurnMove
<1>2. CASE Respond(t)
  <2>1. UNCHANGED <<sent, stopped, given, done, queue, task, wpc, dtor>>
    BY <1>2 DEF Respond, workerVars
  <2>2. PICK n \in 0..MaxRecords : resp' = [resp EXCEPT ![t] = n]
    BY <1>2 DEF Respond
  <2>3. resp'[t] = n /\ n \in Nat /\ \A u \in Thread \ {t} : resp'[u] = resp[u]
    BY <2>2, CallbackQueueAssumption DEF TypeOK
  <2>4. /\ pc[t] = "response" /\ pc' = [pc EXCEPT ![t] = pc'[t]]
        /\ pc'[t] \in {"enqueue", "finish", "body"} /\ (t \in Caller => pc'[t] = "enqueue")
    BY <1>2, CallbackQueueAssumption DEF Respond, TypeOK, IsCallbackWorkerThread
  <2>5. FrameInv(t)'
    BY <2>1, <2>3, <2>4 DEF InTurn, FrameInv, TasksAccounted, NothingSentBeforeHeaders
  <2> QED BY <2>1, <2>3, <2>4, <2>5, TurnMove
<1>3. CASE Refuse(t) \/ Wait(t) \/ InlineDone(t)
  BY <1>3, TurnLeave DEF Refuse, Wait, InlineDone
<1>4. ~FailLate(t)
  BY DEF FailLate
<1> QED BY <1>1, <1>2, <1>3, <1>4, TurnBegin, TurnEnqueue, TurnInline DEF CallStep

-----------------------------------------------------------------------------
(* Steps of the worker and of the destructor.                              *)

\* The task taken is the next one of its call.
LEMMA TurnDequeue ==
  ASSUME TypeOK, TasksAccounted, NoneAbandoned, ~LateErrors, InTurn, NEW t \in Thread, Dequeue(t)
  PROVE  InTurn'
<1>1. /\ wpc = "dequeue" /\ queue[t] # <<>> /\ task' = Head(queue[t])
      /\ queue' = [queue EXCEPT ![t] = Tail(queue[t])] /\ wpc' = "taken"
      /\ UNCHANGED <<pc, resp, sent, stopped, done, given, dtor>>
  BY DEF Dequeue, frameVars
<1>2. task = EmptyTask
  BY <1>1 DEF TasksAccounted, WorkerHoldsTask
<1>3. queue[t] \in Seq(Task \cup {EmptyTask})
  BY DEF TypeOK
<1>4. /\ Len(queue[t]) \in Nat \ {0}
      /\ task' = queue[t][1]
      /\ Len(Tail(queue[t])) = Len(queue[t]) - 1
      /\ \A i \in 1..(Len(queue[t]) - 1) : Tail(queue[t])[i] = queue[t][i + 1]
  BY <1>1, <1>3
<1>5. queue'[t] = Tail(queue[t]) /\ \A u \in Thread \ {t} : queue'[u] = queue[u]
  BY <1>1 DEF TypeOK
<1>6. task' # EmptyTask => task'.from = t
  BY <1>4, QueuedIsLive
<1>7. ASSUME NEW u \in Thread PROVE FrameInv(u)'
  BY <1>1, FrameKept DEF InTurn
<1>8. ASSUME NEW u \in Caller, pc'[u] # "idle" PROVE Turn(u)'
  <2>1. Turn(u) /\ ~Holds(u) /\ ~InCallback /\ ~InCallback'
    BY <1>1, <1>2, <1>8 DEF InTurn, Holds, InCallback
  <2>2. sent[u] \in Nat /\ done[u] \in Nat
    BY DEF TypeOK
  <2>3. CASE u = t
    <3>1. task' # EmptyTask
      BY <1>1, <1>4, <1>8, <2>3 DEF InTurn, DestructorInv, TypeOK
    <3>2. Holds(t)'
      BY <1>6, <3>1 DEF Holds
    <3>3. task'.rec \in Nat
      BY <1>4, <3>1, QueuedIsLive
    <3>4. sent[t] = Len(queue[t]) + done[t] /\ task'.rec + Len(queue[t]) = sent[t] + 1
      BY <1>4, <2>1, <2>3 DEF Turn
    <3>5. task'.rec = done[t] + 1 /\ sent[t] = Len(queue'[t]) + (done[t] + 1)
      <4> DEFINE r == task'.rec
                 d == done[t]
                 l == Len(queue[t])
                 l1 == Len(queue'[t])
                 s == sent[t]
      <4>1. l1 = l - 1 /\ s = l + d /\ r + l = s + 1 /\ r \in Nat /\ l \in Nat \ {0} /\ s \in Nat /\ d \in Nat
        BY <1>4, <1>5, <2>2, <2>3, <3>3, <3>4
      <4> HIDE DEF r, d, l, l1, s
      <4>2. r = d + 1 /\ s = l1 + (d + 1)
        BY <4>1
      <4> QED BY <4>2 DEF r, d, l1, s
    <3>6. ASSUME NEW i \in 1..Len(queue'[t]) PROVE queue'[t][i].rec + Len(queue'[t]) = sent[t] + i
      <4>1. queue'[t][i] = queue[t][i + 1] /\ i + 1 \in 1..Len(queue[t])
        BY <1>4, <1>5, <3>6
      <4>2. queue[t][i + 1].rec + Len(queue[t]) = sent[t] + (i + 1)
        BY <2>1, <2>3, <4>1 DEF Turn
      <4>3. queue[t][i + 1].rec \in Nat
        <5>1. queue[t][i + 1] # EmptyTask
          BY <1>1, <1>8, <2>3, <4>1 DEF InTurn, DestructorInv, TypeOK
        <5> QED BY <4>1, <5>1, QueueTypes
      <4> DEFINE r == queue[t][i + 1].rec
                 r1 == queue'[t][i].rec
                 l == Len(queue[t])
                 l1 == Len(queue'[t])
                 s == sent[t]
      <4>4. r1 = r /\ l1 = l - 1 /\ r + l = s + (i + 1) /\ r \in Nat /\ l \in Nat \ {0} /\ s \in Nat /\ i \in Nat
        BY <1>4, <1>5, <2>2, <2>3, <3>6, <4>1, <4>2, <4>3
      <4> HIDE DEF r, r1, l, l1, s
      <4>5. r1 + l1 = s + i
        BY <4>4
      <4> QED BY <4>5 DEF r1, l1, s
    <3>7. ~stopped[t] => given[t] = done[t]
      BY <2>1, <2>3 DEF Turn
    <3> QED BY <1>1, <2>1, <2>3, <3>2, <3>5, <3>6, <3>7 DEF Turn
  <2>4. CASE u # t
    <3>1. ~Holds(u)'
      BY <1>6, <2>4 DEF Holds
    <3> QED BY <1>1, <1>5, <2>1, <2>4, <3>1 DEF Turn
  <2> QED BY <2>3, <2>4
<1>9. DestructorInv'
  <2>1. ASSUME NEW u \in Thread, dtor \in {"alive", "wake"}, NEW i \in 1..Len(queue'[u])
        PROVE  queue'[u][i] # EmptyTask
    <3>1. CASE u = t
      <4>1. i \in 1..(Len(queue[t]) - 1)
        BY <1>4, <1>5, <2>1, <3>1
      <4>2. queue'[t][i] = queue[t][i + 1] /\ i + 1 \in 1..Len(queue[t])
        BY <1>4, <1>5, <4>1
      <4> QED BY <2>1, <3>1, <4>2 DEF InTurn, DestructorInv
    <3>2. CASE u # t
      BY <1>5, <2>1, <3>2 DEF InTurn, DestructorInv
    <3> QED BY <3>1, <3>2
  <2> QED BY <1>1, <2>1 DEF InTurn, DestructorInv
<1> QED BY <1>7, <1>8, <1>9 DEF InTurn

\* The task held is over: it was skipped because the callback had refused a record
\* before, or its callback returned.
LEMMA TurnOver ==
  ASSUME TypeOK, TasksAccounted, NoneAbandoned, ~LateErrors, InTurn, task # EmptyTask, TaskOver,
         UNCHANGED <<pc, sent, resp, given, queue, dtor>>,
         \/ UNCHANGED stopped /\ stopped[task.from]
         \/ \E b \in BOOLEAN : stopped' = [stopped EXCEPT ![task.from] = b] /\ InCallback
  PROVE  InTurn'
<1> DEFINE t == task.from
<1>1. /\ t \in Caller /\ t \in Thread /\ task.rec \in Nat /\ Live(task)
      /\ pc[t] \notin {"idle", "request", "response"} /\ t # Worker
  BY HeldIsLive, CallbackQueueAssumption
<1>2. Turn(t) /\ Holds(t)
  BY <1>1 DEF InTurn, Holds
<1>3. task' = EmptyTask /\ ~InCallback' /\ done' = [done EXCEPT ![t] = task.rec]
  BY <1>1 DEF TaskOver, InCallback
<1>4. done'[t] = done[t] + 1 /\ \A u \in Thread \ {t} : done'[u] = done[u] /\ stopped'[u] = stopped[u]
  BY <1>1, <1>2, <1>3 DEF Turn, TypeOK
<1>5. \A u \in Thread : ~Holds(u)'
  BY <1>3 DEF Holds
<1>6. ASSUME NEW u \in Thread PROVE FrameInv(u)'
  <2>1. CASE u = t
    BY <1>1, <2>1 DEF InTurn, FrameInv
  <2>2. CASE u # t
    BY <1>4, <2>2, FrameKept DEF InTurn
  <2> QED BY <2>1, <2>2
<1>7. ASSUME NEW u \in Caller, pc'[u] # "idle" PROVE Turn(u)'
  <2>1. CASE u = t
    <3>1. ~stopped'[t] => given[t] = done[t] + 1
      <4>1. CASE UNCHANGED stopped /\ stopped[t]
        BY <4>1
      <4>2. CASE InCallback
        BY <1>2, <4>2 DEF Turn
      <4> QED BY <4>1, <4>2
    <3>2. /\ sent'[t] = Len(queue'[t]) + done'[t]
          /\ \A i \in 1..Len(queue'[t]) : queue'[t][i].rec + Len(queue'[t]) = sent'[t] + i
      BY <1>2, <1>4 DEF Turn
    <3> QED BY <1>3, <1>4, <1>5, <2>1, <3>1, <3>2 DEF Turn
  <2>2. CASE u # t
    <3>1. Turn(u) /\ ~Holds(u)
      BY <1>7, <2>2 DEF InTurn, Holds
    <3> QED BY <1>3, <1>4, <1>5, <2>2, <3>1 DEF Turn
  <2> QED BY <2>1, <2>2
<1>8. DestructorInv'
  BY DEF InTurn, DestructorInv
<1> QED BY <1>6, <1>7, <1>8 DEF InTurn

LEMMA TurnRunCallback ==
  ASSUME TypeOK, TasksAccounted, NoneAbandoned, ~LateErrors, InTurn, RunCallback
  PROVE  InTurn'
<1> DEFINE t == task.from
<1>1. /\ wpc = "taken" /\ task # EmptyTask /\ ~stopped[t] /\ wpc' = "callback"
      /\ given' = [given EXCEPT ![t] = task.rec]
      /\ UNCHANGED <<pc, sent, resp, stopped, done, task, queue, dtor>>
  BY DEF RunCallback, EnterCallback, frameVars
<1>2. /\ t \in Caller /\ t \in Thread /\ task.rec \in Nat
      /\ pc[t] \notin {"idle", "request", "response"} /\ t # Worker
  BY <1>1, HeldIsLive, CallbackQueueAssumption
<1>3. given'[t] = task.rec /\ \A u \in Thread \ {t} : given'[u] = given[u]
  BY <1>1, <1>2 DEF TypeOK
<1>4. InCallback' /\ ~InCallback
  BY <1>1 DEF InCallback
<1>5. ASSUME NEW u \in Thread PROVE FrameInv(u)'
  <2>1. CASE u = t
    BY <1>1, <1>2, <2>1 DEF InTurn, FrameInv
  <2>2. CASE u # t
    BY <1>1, <1>3, <2>2, FrameKept DEF InTurn
  <2> QED BY <2>1, <2>2
<1>6. ASSUME NEW u \in Caller, pc'[u] # "idle" PROVE Turn(u)'
  <2>1. Turn(u) /\ (Holds(u)' <=> Holds(u))
    BY <1>1, <1>6 DEF InTurn, Holds
  <2>2. CASE u = t
    <3>1. Holds(t)
      BY <1>1 DEF Holds
    <3> QED BY <1>1, <1>3, <1>4, <2>1, <2>2, <3>1 DEF Turn
  <2>3. CASE u # t
    <3>1. ~Holds(u)
      BY <2>3 DEF Holds
    <3> QED BY <1>1, <1>3, <1>4, <2>1, <2>3, <3>1 DEF Turn
  <2> QED BY <2>2, <2>3
<1>7. DestructorInv'
  BY <1>1 DEF InTurn, DestructorInv
<1> QED BY <1>5, <1>6, <1>7 DEF InTurn

\* Steps of which the calls see nothing.
LEMMA TurnStay ==
  ASSUME InTurn, UNCHANGED <<pc, sent, resp, stopped, done, given, task, queue, InCallback>>,
         DestructorInv'
  PROVE  InTurn'
<1>1. \A u \in Thread : FrameInv(u)'
  BY FrameKept DEF InTurn
<1>2. ASSUME NEW u \in Caller, pc'[u] # "idle" PROVE Turn(u)'
  BY <1>2, TurnKept DEF InTurn
<1> QED BY <1>1, <1>2 DEF InTurn

LEMMA TurnWorker ==
  ASSUME TypeOK, TasksAccounted, NoneAbandoned, ~LateErrors, InTurn, WorkerStep \/ StaleReadReturns
  PROVE  InTurn'
<1>1. CASE CheckStop \/ SkipInvalid \/ StartRead \/ SkipRead \/ ReadReturns
  <2>1. UNCHANGED <<pc, sent, resp, stopped, done, given, task, queue, dtor>>
    BY <1>1 DEF CheckStop, SkipInvalid, StartRead, SkipRead, ReadReturns, frameVars
  <2>2. InCallback' <=> InCallback
    BY <1>1 DEF CheckStop, SkipInvalid, StartRead, SkipRead, ReadReturns, InCallback
  <2>3. DestructorInv'
    BY <2>1 DEF InTurn, DestructorInv
  <2> QED BY <2>1, <2>2, <2>3, TurnStay
<1>2. CASE SkipStopped
  BY <1>2, TurnOver DEF SkipStopped, frameVars
<1>3. CASE CallbackReturn
  <2>1. InCallback /\ task # EmptyTask
    BY <1>3 DEF CallbackReturn, InCallback, TasksAccounted, WorkerHoldsTask
  <2>2. PICK more \in BOOLEAN : stopped' = [stopped EXCEPT ![task.from] = ~more \/ task.last]
    BY <1>3 DEF CallbackReturn
  <2>3. (~more \/ task.last) \in BOOLEAN
    OBVIOUS
  <2> QED BY <1>3, <2>1, <2>2, <2>3, TurnOver DEF CallbackReturn
<1>4. CASE StaleSkip \/ StaleCallback \/ StaleCallbackReturn \/ StaleReadReturns
  <2>1. task # EmptyTask /\ ~Live(task)
    BY <1>4 DEF StaleSkip, StaleCallback, StaleCallbackReturn, StaleReadReturns, TasksAccounted,
         WorkerHoldsTask, InCallback
  <2> QED BY <2>1, HeldIsLive
<1> QED BY <1>1, <1>2, <1>3, <1>4, TurnDequeue, TurnRunCallback DEF WorkerStep

\* Once all application threads are out of their calls no task is queued, so what
\* the destructor enqueues comes in nobody's way.
LEMMA TurnDestructor ==
  ASSUME TypeOK, InTurn, SetStop \/ WakeWorker \/ Join \/ Gone
  PROVE  InTurn'
<1>1. CASE SetStop \/ Join \/ Gone
  <2>1. UNCHANGED <<pc, sent, resp, stopped, done, given, task, queue, wpc>>
    BY <1>1 DEF SetStop, Join, Gone, vars, frameVars, workerVars
  <2>2. DestructorInv'
    BY <1>1, <2>1 DEF SetStop, Join, Gone, vars, InTurn, DestructorInv
  <2> QED BY <2>1, <2>2, TurnStay DEF InCallback
<1>2. CASE WakeWorker
  <2>1. /\ dtor = "wake" /\ dtor' = "join"
        /\ UNCHANGED <<pc, sent, resp, stopped, done, given, task, wpc>>
    BY <1>2 DEF WakeWorker, frameVars, workerVars
  <2>2. \A u \in Caller : pc'[u] = "idle"
    BY <2>1 DEF InTurn, DestructorInv
  <2>3. \A u \in Thread : FrameInv(u)'
    BY <2>1, FrameKept DEF InTurn
  <2> QED BY <2>1, <2>2, <2>3 DEF InTurn, DestructorInv
<1> QED BY <1>1, <1>2

LEMMA InTurnNext ==
  ASSUME ~LateErrors
  PROVE  TypeOK /\ TasksAccounted /\ NoneAbandoned /\ InTurn /\ [Next]_vars => InTurn'
<1> SUFFICES ASSUME TypeOK, TasksAccounted, NoneAbandoned, InTurn, [Next]_vars PROVE InTurn'
  OBVIOUS
<1>1. CASE UNCHANGED vars
  <2>1. UNCHANGED <<pc, sent, resp, stopped, done, given, task, queue, wpc, dtor>>
    BY <1>1 DEF vars
  <2> QED BY <2>1, TurnStay DEF InTurn, DestructorInv, InCallback
<1> QED BY <1>1, TurnCall, TurnWorker, TurnDestructor DEF Next

-----------------------------------------------------------------------------
(* Steps of CallbackQueue are steps of ReadContract, or it does not notice. *)

phaseBar == [t \in Thread |-> PhaseOf(t)]
busyBar == [t \in Thread |-> BusyWith(t)]

LEMMA PhaseMoves ==
  ASSUME NEW t \in Thread, NEW v, PhaseOf(t)' = v, \A u \in Thread \ {t} : pc'[u] = pc[u]
  PROVE  phaseBar' = [phaseBar EXCEPT ![t] = v]
<1>1. \A u \in Thread \ {t} : PhaseOf(u)' = PhaseOf(u)
  BY DEF PhaseOf
<1> QED BY <1>1 DEF phaseBar

LEMMA PhaseStays ==
  ASSUME \A u \in Thread : PhaseOf(u)' = PhaseOf(u)
  PROVE  UNCHANGED phaseBar
  BY DEF phaseBar

LEMMA BusyStays ==
  ASSUME \A u \in Thread : BusyWith(u)' <=> BusyWith(u)
  PROVE  UNCHANGED busyBar
<1>1. \A u \in Thread : BusyWith(u) \in BOOLEAN /\ BusyWith(u)' \in BOOLEAN
  BY DEF BusyWith, InCallback
<1> QED BY <1>1 DEF busyBar

\* A step that changes nothing the contract speaks of.
LEMMA Unnoticed ==
  ASSUME \A u \in Thread : PhaseOf(u)' = PhaseOf(u), \A u \in Thread : BusyWith(u)' <=> BusyWith(u),
         UNCHANGED <<resp, given, stopped, ret>>
  PROVE  UNCHANGED Contract!vars
<1>1. UNCHANGED <<phaseBar, busyBar>>
  BY PhaseStays, BusyStays
<1> QED BY <1>1 DEF Contract!vars, phaseBar, busyBar

\* The worker is busy with thread t if it runs the callback of a task of its.
LEMMA BusyMeans ==
  ASSUME TypeOK, TasksAccounted, NoneAbandoned, ~LateErrors, NEW t \in Caller
  PROVE  BusyWith(t) <=> InCallback /\ Holds(t)
<1>1. InCallback => task # EmptyTask
  BY DEF TasksAccounted, WorkerHoldsTask
<1> QED BY <1>1, HeldIsLive, CallbackQueueAssumption DEF BusyWith, Holds

LEMMA BeginSimulates ==
  ASSUME TypeOK, TasksAccounted, NoneAbandoned, ~LateErrors, NEW t \in Thread, Begin(t)
  PROVE  Contract!Begin(t)
<1>1. /\ pc[t] = "idle" /\ pc' = [pc EXCEPT ![t] = "request"] /\ call' = [call EXCEPT ![t] = call[t] + 1]
      /\ UNCHANGED <<resp, stopped, ret, given, wpc, task>>
  BY DEF Begin, workerVars
<1>2. pc'[t] = "request" /\ \A u \in Thread \ {t} : pc'[u] = pc[u] /\ call'[u] = call[u]
  BY <1>1 DEF TypeOK
<1>3. phaseBar[t] = "idle" /\ phaseBar' = [phaseBar EXCEPT ![t] = "asked"]
  <2>1. PhaseOf(t)' = "asked" /\ PhaseOf(t) = "idle"
    BY <1>1, <1>2 DEF PhaseOf
  <2> QED BY <1>2, <2>1, PhaseMoves DEF phaseBar
<1>4. UNCHANGED busyBar
  <2>1. ASSUME NEW u \in Thread PROVE BusyWith(u)' <=> BusyWith(u)
    <3>1. CASE u = Worker
      BY <1>1, <1>2, <3>1 DEF BusyWith
    <3>2. CASE u # Worker /\ task = EmptyTask
      <4>1. ~InCallback /\ ~InCallback'
        BY <1>1, <3>2 DEF TasksAccounted, WorkerHoldsTask, InCallback
      <4> QED BY <3>2, <4>1 DEF BusyWith
    <3>3. CASE u # Worker /\ task # EmptyTask
      <4>1. task.from # t
        BY <1>1, <3>3, HeldIsLive
      <4> QED BY <1>1, <1>2, <3>3, <4>1 DEF BusyWith, InCallback
    <3> QED BY <3>1, <3>2, <3>3
  <2> QED BY <2>1, BusyStays
<1> QED BY <1>1, <1>3, <1>4 DEF Contract!Begin, phaseBar, busyBar

\* A call goes on without its callback.
LEMMA MoveSimulates ==
  ASSUME TypeOK, NEW t \in Thread,
         Connect(t) \/ Enqueue(t) \/ AllEnqueued(t) \/ ReceiveBody(t) \/ BodyComplete(t) \/ Finish(t)
  PROVE  UNCHANGED Contract!vars
<1>1. UNCHANGED <<resp, given, stopped, ret, call, wpc, task>>
  BY DEF Connect, Enqueue, AllEnqueued, ReceiveBody, BodyComplete, Finish, workerVars
<1>2. \/ pc[t] = "request" /\ pc' = [pc EXCEPT ![t] = "response"]
      \/ pc[t] = "enqueue" /\ pc' = [pc EXCEPT ![t] = IF head[t] THEN "finish" ELSE "body"]
      \/ pc[t] = "body" /\ pc' = [pc EXCEPT ![t] = "finish"]
      \/ pc[t] = "finish" /\ pc' = [pc EXCEPT ![t] = IF IsCallbackWorkerThread(t) THEN "inline" ELSE "wait"]
      \/ UNCHANGED pc
  BY DEF Connect, Enqueue, AllEnqueued, ReceiveBody, BodyComplete, Finish
<1>3. ASSUME NEW u \in Thread PROVE PhaseOf(u)' = PhaseOf(u) /\ (pc'[u] = "incallback" <=> pc[u] = "incallback")
  BY <1>2 DEF PhaseOf, TypeOK
<1>4. ASSUME NEW u \in Thread PROVE BusyWith(u)' <=> BusyWith(u)
  BY <1>1, <1>3 DEF BusyWith, InCallback
<1> QED BY <1>1, <1>3, <1>4, Unnoticed

LEMMA RespondSimulates ==
  ASSUME TypeOK, NEW t \in Thread, Respond(t)
  PROVE  Contract!Answer(t)
<1>1. /\ pc[t] = "response"
      /\ UNCHANGED <<given, stopped, ret, call, wpc, task>>
  BY DEF Respond, workerVars
<1>2. PICK n \in 0..MaxRecords : resp' = [resp EXCEPT ![t] = n]
  BY DEF Respond
<1>3. pc'[t] \in {"enqueue", "finish", "body"} /\ \A u \in Thread \ {t} : pc'[u] = pc[u]
  BY DEF Respond, TypeOK
<1>4. phaseBar[t] = "asked" /\ phaseBar' = [phaseBar EXCEPT ![t] = "open"]
  <2>1. PhaseOf(t)' = "open" /\ PhaseOf(t) = "asked"
    BY <1>1, <1>3 DEF PhaseOf
  <2> QED BY <1>3, <2>1, PhaseMoves DEF phaseBar
<1>5. UNCHANGED busyBar
  BY <1>1, <1>3, BusyStays DEF BusyWith, InCallback
<1> QED BY <1>1, <1>2, <1>4, <1>5 DEF Contract!Answer, phaseBar, busyBar

\* A call ends.
LEMMA LeaveSimulates ==
  ASSUME TypeOK, NEW t \in Thread, NEW e, LeaveFrame(t, e), pc[t] # "incallback", UNCHANGED <<call, wpc, task>>
  PROVE  Contract!Leave(t, [stopped |-> stopped[t], err |-> e])
<1>1. /\ resp' = [resp EXCEPT ![t] = 0] /\ given' = [given EXCEPT ![t] = 0]
      /\ stopped' = [stopped EXCEPT ![t] = FALSE]
      /\ ret' = [ret EXCEPT ![t] = [stopped |-> stopped[t], err |-> e]]
  BY DEF LeaveFrame
<1>2. pc'[t] = "idle" /\ \A u \in Thread \ {t} : pc'[u] = pc[u]
  BY DEF LeaveFrame, TypeOK
<1>3. phaseBar' = [phaseBar EXCEPT ![t] = "idle"]
  BY <1>2, PhaseMoves DEF PhaseOf
<1>4. UNCHANGED busyBar
  BY <1>2, BusyStays DEF BusyWith, InCallback
<1> QED BY <1>1, <1>3, <1>4 DEF Contract!Leave, phaseBar, busyBar

LEMMA RefuseSimulates ==
  ASSUME TypeOK, InTurn, NEW t \in Thread, Refuse(t)
  PROVE  Contract!ReturnError(t)
<1>1. pc[t] = "response" /\ LeaveFrame(t, TRUE) /\ UNCHANGED <<call, wpc, task>>
  BY DEF Refuse
<1>2. stopped[t] = FALSE
  BY <1>1 DEF InTurn, FrameInv, TypeOK
<1>3. phaseBar[t] = "asked"
  BY <1>1 DEF phaseBar, PhaseOf
<1>4. Contract!Leave(t, [stopped |-> stopped[t], err |-> TRUE])
  BY <1>1, LeaveSimulates
<1> QED BY <1>2, <1>3, <1>4 DEF Contract!ReturnError, phaseBar

\* The call waits for its last task: then none is left in the queue nor with the
\* worker, and the callback has had every record or refused one.
LEMMA ReturnSimulates ==
  ASSUME TypeOK, TasksAccounted, NoneAbandoned, ~LateErrors, InTurn, NEW t \in Thread, Wait(t) \/ InlineDone(t)
  PROVE  Contract!ReturnOk(t)
<1>1. /\ pc[t] \in {"wait", "inline"} /\ LeaveFrame(t, FALSE) /\ UNCHANGED <<call, wpc, task>>
  BY DEF Wait, InlineDone
<1>2. phaseBar[t] = "open"
  BY <1>1 DEF phaseBar, PhaseOf
<1>3. ~BusyWith(t) /\ (stopped[t] \/ given[t] = resp[t])
  <2>1. CASE Wait(t)
    <3>1. t \in Caller /\ t # Worker /\ pc[t] = "wait" /\ done[t] = sent[t]
      BY <2>1, CallbackQueueAssumption DEF Wait, TypeOK
    <3>2. Turn(t) /\ sent[t] = resp[t]
      BY <3>1 DEF InTurn, FrameInv
    <3>3. ~Holds(t)
      <4>1. sent[t] \in Nat
        BY DEF TypeOK
      <4> QED BY <3>1, <4>1, HeldIsLive DEF Holds
    <3> QED BY <3>1, <3>2, <3>3, BusyMeans DEF Turn
  <2>2. CASE InlineDone(t)
    <3>1. t = Worker /\ pc[t] = "inline" /\ (stopped[t] \/ sent[t] = resp[t])
      BY <2>2 DEF InlineDone, TypeOK
    <3>2. given[t] = sent[t]
      BY <3>1 DEF InTurn, FrameInv
    <3> QED BY <3>1, <3>2 DEF BusyWith
  <2> QED BY <1>1, <2>1, <2>2
<1>4. Contract!Leave(t, [stopped |-> stopped[t], err |-> FALSE])
  BY <1>1, LeaveSimulates
<1>5. ~busyBar[t]
  BY <1>3 DEF busyBar
<1> QED BY <1>2, <1>3, <1>4, <1>5 DEF Contract!ReturnOk, phaseBar, busyBar

\* The busy flag of one thread.
LEMMA BusyMoves ==
  ASSUME NEW t \in Thread, NEW v \in BOOLEAN, BusyWith(t)' <=> v,
         \A u \in Thread \ {t} : BusyWith(u)' <=> BusyWith(u)
  PROVE  busyBar' = [busyBar EXCEPT ![t] = v]
<1>1. \A u \in Thread : BusyWith(u) \in BOOLEAN /\ BusyWith(u)' \in BOOLEAN
  BY DEF BusyWith, InCallback
<1> QED BY <1>1 DEF busyBar

\* The callback of an inline call is called for the next record, and returns.
LEMMA InlineSimulates ==
  ASSUME TypeOK, InTurn, NEW t \in Thread
  PROVE  /\ InlineCallback(t) => Contract!Deliver(t)
         /\ InlineCallbackReturn(t) => Contract!CallbackReturn(t)
<1>1. ASSUME InlineCallback(t) PROVE Contract!Deliver(t)
  <2>1. /\ pc[t] = "inline" /\ ~stopped[t] /\ sent[t] < resp[t]
        /\ given' = [given EXCEPT ![t] = sent[t] + 1] /\ pc' = [pc EXCEPT ![t] = "incallback"]
        /\ UNCHANGED <<resp, stopped, ret, call, wpc, task>>
    BY <1>1 DEF InlineCallback, workerVars
  <2>2. t = Worker /\ pc'[t] = "incallback" /\ \A u \in Thread \ {t} : pc'[u] = pc[u]
    BY <2>1 DEF TypeOK
  <2>3. given[t] = sent[t]
    BY <2>2 DEF InTurn, FrameInv
  <2>4. ~BusyWith(t) /\ BusyWith(t)' /\ \A u \in Thread \ {t} : BusyWith(u)' <=> BusyWith(u)
    BY <2>1, <2>2 DEF BusyWith, InCallback
  <2>5. ~busyBar[t] /\ busyBar' = [busyBar EXCEPT ![t] = TRUE]
    BY <2>4, BusyMoves DEF busyBar
  <2>6. phaseBar[t] = "open" /\ UNCHANGED phaseBar
    <3>1. PhaseOf(t) = "open" /\ \A u \in Thread : PhaseOf(u)' = PhaseOf(u)
      BY <2>1, <2>2 DEF PhaseOf
    <3> QED BY <3>1, PhaseStays DEF phaseBar
  <2> QED BY <2>1, <2>3, <2>5, <2>6 DEF Contract!Deliver, phaseBar, busyBar
<1>2. ASSUME InlineCallbackReturn(t) PROVE Contract!CallbackReturn(t)
  <2>1. /\ pc[t] = "incallback" /\ pc' = [pc EXCEPT ![t] = "inline"]
        /\ UNCHANGED <<resp, given, ret, call, wpc, task>>
    BY <1>2 DEF InlineCallbackReturn, workerVars
  <2>2. t = Worker /\ pc'[t] = "inline" /\ \A u \in Thread \ {t} : pc'[u] = pc[u]
    BY <2>1 DEF TypeOK
  <2>3. \E b \in BOOLEAN : stopped' = [stopped EXCEPT ![t] = b]
    <3>1. PICK more \in BOOLEAN : stopped' = [stopped EXCEPT ![t] = ~more \/ (last[t] /\ sent[t] = resp[t])]
      BY <1>2 DEF InlineCallbackReturn
    <3>2. (~more \/ (last[t] /\ sent[t] = resp[t])) \in BOOLEAN
      OBVIOUS
    <3> QED BY <3>1, <3>2
  <2>4. BusyWith(t) /\ ~BusyWith(t)' /\ \A u \in Thread \ {t} : BusyWith(u)' <=> BusyWith(u)
    BY <2>1, <2>2 DEF BusyWith, InCallback
  <2>5. busyBar[t] /\ busyBar' = [busyBar EXCEPT ![t] = FALSE]
    BY <2>4, BusyMoves DEF busyBar
  <2>6. phaseBar[t] = "open" /\ UNCHANGED phaseBar
    <3>1. PhaseOf(t) = "open" /\ \A u \in Thread : PhaseOf(u)' = PhaseOf(u)
      BY <2>1, <2>2 DEF PhaseOf
    <3> QED BY <3>1, PhaseStays DEF phaseBar
  <2> QED BY <2>1, <2>3, <2>5, <2>6 DEF Contract!CallbackReturn, phaseBar, busyBar
<1> QED BY <1>1, <1>2

\* The worker calls the callback for the record after the last one it was called
\* for.
LEMMA RunSimulates ==
  ASSUME TypeOK, TasksAccounted, NoneAbandoned, ~LateErrors, InTurn, RunCallback, NEW t \in Thread, t = task.from
  PROVE  Contract!Deliver(t)
<1>1. /\ wpc = "taken" /\ task # EmptyTask /\ ~stopped[t] /\ wpc' = "callback"
      /\ given' = [given EXCEPT ![t] = task.rec]
      /\ UNCHANGED <<pc, call, resp, stopped, ret, task>>
  BY DEF RunCallback, EnterCallback, frameVars
<1>2. /\ t \in Caller /\ t \in Thread /\ t # Worker /\ task.rec \in Nat /\ task.call = call[t]
      /\ task.rec <= sent[t] /\ pc[t] \notin {"idle", "request", "response"}
  BY <1>1, HeldIsLive, CallbackQueueAssumption
<1>3. ~InCallback /\ InCallback'
  BY <1>1 DEF InCallback
<1>4. given[t] = done[t] /\ task.rec = done[t] + 1 /\ sent[t] <= resp[t]
  <2>1. Turn(t) /\ Holds(t) /\ FrameInv(t)
    BY <1>1, <1>2 DEF InTurn, Holds
  <2> QED BY <1>1, <1>3, <2>1 DEF Turn, FrameInv
<1>5. given[t] < resp[t] /\ task.rec = given[t] + 1
  BY <1>2, <1>4 DEF TypeOK
<1>6. ~BusyWith(t) /\ BusyWith(t)' /\ \A u \in Thread \ {t} : BusyWith(u)' <=> BusyWith(u)
  BY <1>1, <1>2, <1>3 DEF BusyWith
<1>7. ~busyBar[t] /\ busyBar' = [busyBar EXCEPT ![t] = TRUE]
  BY <1>2, <1>6, BusyMoves DEF busyBar
<1>8. phaseBar[t] = "open" /\ UNCHANGED phaseBar
  <2>1. PhaseOf(t) = "open" /\ \A u \in Thread : PhaseOf(u)' = PhaseOf(u)
    BY <1>1, <1>2 DEF PhaseOf
  <2> QED BY <1>2, <2>1, PhaseStays DEF phaseBar
<1> QED BY <1>1, <1>5, <1>7, <1>8 DEF Contract!Deliver, phaseBar, busyBar

LEMMA CallbackReturnSimulates ==
  ASSUME TypeOK, TasksAccounted, NoneAbandoned, ~LateErrors, CallbackReturn,
         NEW t \in Thread, t = task.from
  PROVE  Contract!CallbackReturn(t)
<1>1. wpc = "decide" /\ wpc' = "loop" /\ task' = EmptyTask /\ UNCHANGED <<pc, call, resp, given, ret>>
  BY DEF CallbackReturn, TaskOver
<1>2. InCallback /\ ~InCallback' /\ task # EmptyTask
  BY <1>1 DEF InCallback, TasksAccounted, WorkerHoldsTask
<1>3. /\ t \in Caller /\ t \in Thread /\ t # Worker /\ task.call = call[t]
      /\ pc[t] \notin {"idle", "request", "response"}
  BY <1>2, HeldIsLive, CallbackQueueAssumption
<1>4. BusyWith(t) /\ ~BusyWith(t)' /\ \A u \in Thread \ {t} : BusyWith(u)' <=> BusyWith(u)
  BY <1>1, <1>2, <1>3 DEF BusyWith
<1>5. busyBar[t] /\ busyBar' = [busyBar EXCEPT ![t] = FALSE]
  BY <1>3, <1>4, BusyMoves DEF busyBar
<1>6. phaseBar[t] = "open" /\ UNCHANGED phaseBar
  <2>1. PhaseOf(t) = "open" /\ \A u \in Thread : PhaseOf(u)' = PhaseOf(u)
    BY <1>1, <1>3 DEF PhaseOf
  <2> QED BY <1>3, <2>1, PhaseStays DEF phaseBar
<1>7. \E b \in BOOLEAN : stopped' = [stopped EXCEPT ![t] = b]
  <2>1. PICK more \in BOOLEAN : stopped' = [stopped EXCEPT ![t] = ~more \/ task.last]
    BY DEF CallbackReturn
  <2>2. (~more \/ task.last) \in BOOLEAN
    OBVIOUS
  <2> QED BY <2>1, <2>2
<1> QED BY <1>1, <1>5, <1>6, <1>7 DEF Contract!CallbackReturn, phaseBar, busyBar

\* The other steps of the worker, and those of the destructor.
LEMMA WorkerSimulates ==
  ASSUME TypeOK, TasksAccounted, NoneAbandoned, ~LateErrors,
         \/ CheckStop \/ (\E t \in Thread : Dequeue(t)) \/ SkipInvalid \/ SkipStopped \/ StartRead \/ SkipRead
         \/ ReadReturns \/ SetStop \/ WakeWorker \/ Join \/ Gone
  PROVE  UNCHANGED Contract!vars
<1>1. UNCHANGED <<pc, call, resp, given, stopped, ret>>
  BY DEF CheckStop, Dequeue, SkipInvalid, SkipStopped, StartRead, SkipRead, ReadReturns, SetStop, WakeWorker,
     Join, Gone, vars, frameVars
<1>2. \/ InCallback /\ InCallback' /\ UNCHANGED task
      \/ ~InCallback /\ ~InCallback'
  BY DEF CheckStop, Dequeue, SkipInvalid, SkipStopped, TaskOver, StartRead, SkipRead, ReadReturns, SetStop,
     WakeWorker, Join, Gone, vars, workerVars, InCallback
<1>3. \A u \in Thread : BusyWith(u)' <=> BusyWith(u)
  BY <1>1, <1>2 DEF BusyWith
<1>4. \A u \in Thread : PhaseOf(u)' = PhaseOf(u)
  BY <1>1 DEF PhaseOf
<1> QED BY <1>1, <1>3, <1>4, Unnoticed

LEMMA Simulates ==
  ASSUME TypeOK, TasksAccounted, NoneAbandoned, ~LateErrors, InTurn, [Next]_vars
  PROVE  [Contract!Next]_(Contract!vars)
<1>1. ASSUME NEW t \in Thread, Begin(t) \/ CallStep(t) PROVE [Contract!Next]_(Contract!vars)
  <2>1. ~FailLate(t)
    BY DEF FailLate
  <2>2. Contract!Step(t) \/ UNCHANGED Contract!vars
    BY <1>1, <2>1, BeginSimulates, MoveSimulates, RespondSimulates, RefuseSimulates, ReturnSimulates,
       InlineSimulates DEF CallStep, Contract!Step
  <2> QED BY <2>2 DEF Contract!Next
<1>2. ASSUME RunCallback \/ CallbackReturn PROVE [Contract!Next]_(Contract!vars)
  <2>1. task # EmptyTask
    BY <1>2 DEF RunCallback, CallbackReturn, TasksAccounted, WorkerHoldsTask, InCallback
  <2>2. PICK t \in Thread : t = task.from
    BY <2>1, HeldIsLive
  <2>3. Contract!Step(t)
    BY <1>2, <2>2, RunSimulates, CallbackReturnSimulates DEF Contract!Step
  <2> QED BY <2>2, <2>3 DEF Contract!Next
<1>3. ~(StaleSkip \/ StaleCallback \/ StaleCallbackReturn \/ StaleReadReturns)
  BY HeldIsLive DEF StaleSkip, StaleCallback, StaleCallbackReturn, StaleReadReturns, TasksAccounted,
     WorkerHoldsTask, InCallback
<1>4. CASE UNCHANGED vars
  <2>1. UNCHANGED <<pc, call, resp, given, stopped, ret, wpc, task>>
    BY <1>4 DEF vars
  <2> QED BY <2>1, Unnoticed DEF PhaseOf, BusyWith, InCallback
<1> QED BY <1>1, <1>2, <1>3, <1>4, WorkerSimulates DEF Next, WorkerStep

LEMMA SimulatesInit == Init => Contract!Init
<1> SUFFICES ASSUME Init PROVE Contract!Init
  OBVIOUS
<1>1. \A t \in Thread : PhaseOf(t) = "idle" /\ ~BusyWith(t) /\ BusyWith(t) \in BOOLEAN
  BY DEF Init, PhaseOf, BusyWith, InCallback
<1>2. phaseBar = [t \in Thread |-> "idle"] /\ busyBar = [t \in Thread |-> FALSE]
  BY <1>1 DEF phaseBar, busyBar
<1> QED BY <1>2 DEF Init, Contract!Init, phaseBar, busyBar

\* Bucket::ReadRecord with its worker and queue keeps the promise of a read call to
\* every thread, a callback that reads included: as long as no GET fails after its
\* headers, for any number of threads, calls and records (bucket.cc 629-780).
THEOREM ContractCorrect == ~LateErrors => (Spec => ContractHolds)
<1> SUFFICES ASSUME ~LateErrors PROVE Spec => ContractHolds
  OBVIOUS
<1> DEFINE Inv == TypeOK /\ TasksAccounted /\ NoneAbandoned /\ InTurn
<1>1. Spec => []InTurn
  BY InTurnInit, InTurnNext, TypeCorrect, AccountedCorrect, NoneAbandonedCorrect, PTL DEF Spec
<1>2. Inv /\ [Next]_vars => [Contract!Next]_(Contract!vars)
  BY Simulates
<1>3. Spec => []Inv
  BY <1>1, TypeCorrect, AccountedCorrect, NoneAbandonedCorrect, PTL
<1> QED BY SimulatesInit, <1>2, <1>3, PTL DEF Spec, ContractHolds, Contract!Spec
=============================================================================
