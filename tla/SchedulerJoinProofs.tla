---------------------------- MODULE SchedulerJoinProofs ----------------------
(***************************************************************************)
(* join() loses nothing, and the scheduler implements the task graph, for    *)
(* every number of workers, tasks and continuations.  The inductive          *)
(* invariant is strengthened by what makes the idle scheduler an empty one:  *)
(* every node of the table waits for an earlier event, so that with all      *)
(* workers idle and all messages handled there is no node left to wait.      *)
(***************************************************************************)
EXTENDS SchedulerProofs, WellFoundedInduction

\* The scheduler thread has left its loop.
Stopped == sched_pc \in {"stop", "wait", "exited"}

\* What is in the two kinds of message queues.
Messages == {scheduler_msg_queue[i] : i \in DOMAIN scheduler_msg_queue}
WorkerMessages(w) == {worker_msg_queue[w][i] : i \in DOMAIN worker_msg_queue[w]}

\* Only join() asks the scheduler thread to stop, and the client then waits for it.
SignalInv ==
  /\ halt \/ (\E msg \in Messages : msg.type = "Join") => main_pc = "joining"
  /\ Stopped => halt /\ task_queue = << >>

\* A worker that was not told to stop has not stopped, and it is told once.
StopInv ==
  /\ sched_pc \in {"dispatch", "check", "pop", "retire", "stop"} =>
       \A w \in Worker : worker_pc[w] # "off"
  /\ sched_pc \notin {"wait", "exited"} => \A w \in Worker : WorkerJoin \notin WorkerMessages(w)
  /\ sched_pc \in {"wait", "exited"} =>
       \A w \in Worker : worker_msg_queue[w] = IF worker_pc[w] = "off" THEN << >> ELSE <<WorkerJoin>>

\* A finished task is retired, or its completion is on its way.
PendingInv ==
  \A t \in finished :
    t \in retired \/ \E msg \in Messages : msg.type = "TaskCompletion" /\ msg.task = t

\* The node table has the nodes that have dependents.  A retired node is about to
\* leave it, and a continuation in it waits for a task, or for the chain that is
\* being built on it.
TableInv ==
  /\ \A n \in NodeID : dependents[n] # {} => n \in nodes
  /\ \A n \in nodes : Allocated(n)
  /\ \A n \in nodes \cap retired : \E i \in DOMAIN retiring : retiring[i] = n
  /\ \A c \in nodes \cap Continuation :
       \/ c \in retired \/ Dependencies(c) # {}
       \/ \E w \in Worker : Building(w) /\ c_dependent[w] = c

\* A deferred task waits for one continuation, and that for later tasks only.
WaitInv ==
  /\ \A t \in tasks : \E c \in Continuation : Dependencies(t) = {c}
  /\ \A w \in Worker : call[w] = "park" => Dependencies(call_task[w]) = {c_dependent[w]}
  /\ \A e \in links : e[1] \in TaskID <=> e[2] \in Continuation
  /\ \A e, f \in links : e[1] \in TaskID /\ e[2] = f[1] => f[2] < e[1]

JoinIndInv == IndInv /\ SignalInv /\ StopInv /\ PendingInv /\ TableInv /\ WaitInv

\* Leaves are first-order; the ones that need arithmetic or functions cite SMT.
USE ZenonT(60)

------------------------------------------------------------------------------
(* Messages *)

\* A message pushed to the scheduler's queue joins those that are there.
LEMMA PushedMessage ==
  ASSUME TypeOK, NEW msg \in SchedulerMessage,
         scheduler_msg_queue' = Append(scheduler_msg_queue, msg)
  PROVE  Messages' = Messages \cup {msg}
<1> DEFINE q == scheduler_msg_queue
<1>1. /\ DOMAIN q = 1 .. Len(q) /\ Len(q) \in Nat
      /\ DOMAIN q' = 1 .. Len(q) + 1
      /\ \A i \in 1 .. Len(q) + 1 : q'[i] = IF i = Len(q) + 1 THEN msg ELSE q[i]
  BY AppendElements, SMTT(30) DEF TypeOK
<1>2. \A i \in DOMAIN q' : q'[i] = msg \/ (i \in DOMAIN q /\ q'[i] = q[i])
  BY <1>1, SMTT(30)
<1>3. \A i \in DOMAIN q : i \in DOMAIN q' /\ q'[i] = q[i]
  BY <1>1, SMTT(30)
<1>4. Len(q) + 1 \in DOMAIN q' /\ q'[Len(q) + 1] = msg
  BY <1>1, SMTT(30)
<1> QED
  BY <1>2, <1>3, <1>4 DEF Messages

\* popOne() takes one message at most out of the scheduler's queue.
LEMMA PoppedMessage ==
  ASSUME TypeOK, scheduler_msg_queue # << >>,
         scheduler_msg_queue' = Tail(scheduler_msg_queue)
  PROVE  /\ Messages' \subseteq Messages
         /\ Messages \subseteq Messages' \cup {Head(scheduler_msg_queue)}
         /\ Head(scheduler_msg_queue) \in Messages
<1> DEFINE q == scheduler_msg_queue
<1>1. /\ Head(q) = q[1] /\ DOMAIN q = 1 .. Len(q) /\ Len(q) \in Nat \ {0}
      /\ DOMAIN q' = 1 .. Len(q) - 1
      /\ \A i \in 1 .. Len(q) - 1 : q'[i] = q[i + 1]
  BY TailElements DEF TypeOK
<1>2. \A i \in DOMAIN q' : i + 1 \in DOMAIN q /\ q'[i] = q[i + 1]
  BY <1>1, SMTT(30)
<1>3. \A i \in DOMAIN q : i = 1 \/ (i - 1 \in DOMAIN q' /\ q'[i - 1] = q[i])
  <2> TAKE i \in DOMAIN q
  <2>1. i # 1 => i - 1 \in 1 .. Len(q) - 1 /\ i - 1 + 1 = i
    BY <1>1, SMTT(30)
  <2> QED
    BY <1>1, <2>1
<1>4. 1 \in DOMAIN q
  BY <1>1, SMTT(30)
<1>5. Messages' \subseteq Messages
  BY <1>2 DEF Messages
<1>6. \A i \in DOMAIN q : q[i] = Head(q) \/ \E j \in DOMAIN q' : q'[j] = q[i]
  BY <1>1, <1>3
<1>7. Messages \subseteq Messages' \cup {Head(q)}
  BY <1>6 DEF Messages
<1>8. Head(q) \in Messages
  BY <1>1, <1>4 DEF Messages
<1> QED
  BY <1>5, <1>7, <1>8

\* When the scheduler thread has left its loop, nobody is in a call or runs a task.
LEMMA NoCalls ==
  ASSUME IndInv, SignalInv, Stopped
  PROVE  /\ \A thr \in Thread : call[thr] = "none"
         /\ \A w \in Worker : /\ Available(w) /\ ~Assigned(w) /\ running[w] = 0 /\ ~Returning(w)
         /\ retiring = << >>
<1> USE DEF IndInv, CoreInv
<1>1. sched_pc # "retire" /\ main_pc = "joining"
  BY DEF Stopped, SignalInv
<1>2. \A w \in Worker : /\ Available(w) /\ ~Assigned(w) /\ running[w] = 0 /\ ~Returning(w)
  BY DEF Stopped, ControlInv, WorkersConserved, Executing
<1>3. \A w \in Worker : call[w] = "none"
  BY <1>2 DEF ControlInv
<1>4. call[SchedulerThread] = "none" /\ call[MainThread] = "none" /\ retiring = << >>
  BY <1>1 DEF ControlInv, ParkedInv
<1> QED
  BY <1>2, <1>3, <1>4, Threads

------------------------------------------------------------------------------
(* The steps, one part of the invariant at a time *)

\* Every step keeps the client waiting while a stop is asked for.
LEMMA SignalStep ==
  ASSUME IndInv, SignalInv, Next
  PROVE  SignalInv'
<1> USE DEF IndInv, CoreInv
<1>1. ASSUME UNCHANGED <<halt, task_queue, scheduler_msg_queue, main_pc>>,
             sched_pc' = sched_pc \/ ~Stopped' \/ Stopped
      PROVE  SignalInv'
  BY <1>1 DEF SignalInv, Stopped, Messages
<1>2. ASSUME UNCHANGED <<halt, task_queue, main_pc>>, sched_pc' = sched_pc,
             NEW msg \in SchedulerMessage, msg.type # "Join",
             scheduler_msg_queue' = Append(scheduler_msg_queue, msg)
      PROVE  SignalInv'
  <2>1. Messages' = Messages \cup {msg}
    BY <1>2, PushedMessage
  <2>2. Stopped' <=> Stopped
    BY <1>2 DEF Stopped
  <2> QED
    BY <1>2, <2>1, <2>2 DEF SignalInv
<1>3. ASSUME NEW u \in Thread, CallStep(u) PROVE SignalInv'
  <2>1. CASE Enqueue(u)
    <3>1. ~Stopped
      BY <2>1, NoCalls DEF Enqueue
    <3>2. UNCHANGED <<halt, sched_pc, scheduler_msg_queue, main_pc>>
      BY <2>1 DEF Enqueue, sched_vars
    <3> QED
      BY <3>1, <3>2 DEF SignalInv, Stopped, Messages
  <2>2. CASE Notify(u)
    <3>1. /\ UNCHANGED <<halt, task_queue, main_pc, sched_pc>>
          /\ scheduler_msg_queue' = Append(scheduler_msg_queue, NewTaskMessage)
      BY <2>2 DEF Notify, PushNewTask, sched_vars
    <3>2. NewTaskMessage \in SchedulerMessage /\ NewTaskMessage.type # "Join"
      BY SchedulerAssumption, SMTT(30) DEF NewTaskMessage, SchedulerMessage, Worker
    <3> QED
      BY <1>2, <3>1, <3>2
  <2> QED
    BY <1>3, <2>1, <2>2 DEF CallStep
<1>4. ASSUME SchedulerStep PROVE SignalInv'
  <2>1. CASE Dispatch
    <3>1. UNCHANGED <<halt, sched_pc, scheduler_msg_queue, main_pc>> /\ sched_pc = "dispatch"
      BY <2>1 DEF Dispatch
    <3> QED
      BY <3>1 DEF SignalInv, Stopped, Messages
  <2>2. CASE DispatchEnd \/ FreeWorker \/ StopWorkers \/ JoinWorkers
    <3>1. UNCHANGED <<halt, task_queue, scheduler_msg_queue, main_pc>>
      BY <2>2 DEF DispatchEnd, FreeWorker, StopWorkers, JoinWorkers, queue_vars
    <3>2. ~Stopped' \/ Stopped
      BY <2>2 DEF DispatchEnd, FreeWorker, StopWorkers, JoinWorkers, Stopped
    <3> QED
      BY <1>1, <3>1, <3>2
  <2>3. CASE CheckHalt
    <3>1. /\ UNCHANGED <<halt, task_queue, scheduler_msg_queue, main_pc>>
          /\ sched_pc' = IF MayStop THEN "stop" ELSE "pop"
      BY <2>3 DEF CheckHalt, queue_vars
    <3> QED
      BY <3>1 DEF SignalInv, Stopped, Messages, MayStop
  <2>4. CASE PopSignal
    <3>1. /\ scheduler_msg_queue # << >> /\ scheduler_msg_queue' = Tail(scheduler_msg_queue)
          /\ halt' = (halt \/ Head(scheduler_msg_queue).type = "Join")
          /\ sched_pc' = "dispatch" /\ main_pc' = main_pc
      BY <2>4 DEF PopSignal, HaltAfter
    <3>2. /\ Messages' \subseteq Messages /\ Head(scheduler_msg_queue) \in Messages
      BY <3>1, PoppedMessage
    <3> QED
      BY <3>1, <3>2 DEF SignalInv, Stopped
  <2>5. CASE PopCompletion
    <3>1. /\ scheduler_msg_queue # << >> /\ scheduler_msg_queue' = Tail(scheduler_msg_queue)
          /\ sched_pc' = "retire" /\ UNCHANGED <<halt, main_pc>>
      BY <2>5 DEF PopCompletion
    <3>2. Messages' \subseteq Messages
      BY <3>1, PoppedMessage
    <3> QED
      BY <3>1, <3>2 DEF SignalInv, Stopped
  <2>6. CASE RetireStep(SchedulerThread)
    <3>1. UNCHANGED <<halt, task_queue, scheduler_msg_queue, main_pc, sched_pc>>
      BY <2>6 DEF RetireStep, ProcessDependent, EraseNode, queue_vars, sched_vars
    <3> QED
      BY <1>1, <3>1
  <2> QED
    BY <1>3, <1>4, <2>1, <2>2, <2>3, <2>4, <2>5, <2>6, Threads DEF SchedulerStep
<1>5. ASSUME MainStep PROVE SignalInv'
  <2>1. CASE MainAddTask
    <3>1. UNCHANGED <<halt, task_queue, scheduler_msg_queue, main_pc, sched_pc>>
      BY <2>1 DEF MainAddTask, queue_vars, sched_vars
    <3> QED
      BY <1>1, <3>1
  <2>2. CASE Start
    <3>1. UNCHANGED <<halt, task_queue, scheduler_msg_queue, main_pc>> /\ sched_pc' = "dispatch"
      BY <2>2 DEF Start, queue_vars
    <3> QED
      BY <1>1, <3>1 DEF Stopped
  <2>3. CASE Join
    <3>1. UNCHANGED <<halt, task_queue, sched_pc>> /\ main_pc' = "joining"
      BY <2>3 DEF Join, sched_vars
    <3> QED
      BY <3>1 DEF SignalInv, Stopped
  <2>4. CASE JoinReturns
    <3>1. halt' = FALSE /\ scheduler_msg_queue' = << >> /\ sched_pc' = "off"
      BY <2>4 DEF JoinReturns, Cleared
    <3>2. Messages' = {}
      BY <3>1, SMTT(30) DEF Messages
    <3> QED
      BY <3>1, <3>2 DEF SignalInv, Stopped
  <2> QED
    BY <1>3, <1>5, <2>1, <2>2, <2>3, <2>4, Threads DEF MainStep
<1>6. ASSUME NEW w \in Worker, WorkerStep(w) PROVE SignalInv'
  <2>1. CASE WorkerPopTask(w) \/ WorkerPopJoin(w) \/ ChainNext(w) \/ SpawnTask(w) \/ Park(w)
    <3>1. UNCHANGED <<halt, task_queue, scheduler_msg_queue, main_pc, sched_pc>>
      BY <2>1 DEF WorkerPopTask, WorkerPopJoin, ChainNext, SpawnTask, Park, queue_vars, sched_vars
    <3> QED
      BY <1>1, <3>1
  <2>2. CASE FinishTask(w)
    <3>1. /\ UNCHANGED <<halt, task_queue, main_pc, sched_pc>> /\ running[w] # 0
          /\ scheduler_msg_queue' = Append(scheduler_msg_queue, TaskCompletionMessage(w, running[w]))
      BY <2>2 DEF FinishTask, sched_vars
    <3>2. /\ TaskCompletionMessage(w, running[w]) \in SchedulerMessage
          /\ TaskCompletionMessage(w, running[w]).type # "Join"
      BY <3>1, <1>6 DEF TaskCompletionMessage, SchedulerMessage, TypeOK
    <3> QED
      BY <1>2, <3>1, <3>2
  <2> QED
    BY <1>3, <1>6, <2>1, <2>2, Threads DEF WorkerStep
<1> QED
  BY <1>4, <1>5, <1>6 DEF Next

\* Every step keeps the completion of a finished task on its way until the task is retired.
LEMMA PendingStep ==
  ASSUME IndInv, PendingInv, Next
  PROVE  PendingInv'
<1> USE DEF IndInv, CoreInv
<1>1. ASSUME finished' = finished, retired \subseteq retired', Messages \subseteq Messages'
      PROVE  PendingInv'
  BY <1>1 DEF PendingInv
<1>2. ASSUME UNCHANGED <<scheduler_msg_queue, finished>>, retired \subseteq retired' PROVE PendingInv'
  BY <1>1, <1>2 DEF Messages
<1>3. ASSUME NEW u \in Thread, CallStep(u) PROVE PendingInv'
  <2>1. CASE Enqueue(u)
    BY <1>2, <2>1 DEF Enqueue, history_vars
  <2>2. CASE Notify(u)
    <3>1. scheduler_msg_queue' = Append(scheduler_msg_queue, NewTaskMessage)
          /\ UNCHANGED <<finished, retired>>
      BY <2>2 DEF Notify, PushNewTask, history_vars
    <3>2. NewTaskMessage \in SchedulerMessage
      BY SchedulerAssumption, SMTT(30) DEF NewTaskMessage, SchedulerMessage, Worker
    <3> QED
      BY <1>1, <3>1, <3>2, PushedMessage
  <2> QED
    BY <1>3, <2>1, <2>2 DEF CallStep
<1>4. ASSUME SchedulerStep PROVE PendingInv'
  <2>1. CASE \/ Dispatch \/ DispatchEnd \/ CheckHalt \/ FreeWorker \/ StopWorkers \/ JoinWorkers
    <3>1. UNCHANGED <<scheduler_msg_queue, finished, retired>>
      BY <2>1 DEF Dispatch, DispatchEnd, CheckHalt, FreeWorker, StopWorkers, JoinWorkers, queue_vars,
                  history_vars
    <3> QED
      BY <1>2, <3>1
  <2>2. CASE PopSignal
    <3>1. /\ scheduler_msg_queue # << >> /\ scheduler_msg_queue' = Tail(scheduler_msg_queue)
          /\ Head(scheduler_msg_queue).type # "TaskCompletion"
          /\ UNCHANGED <<finished, retired>>
      BY <2>2 DEF PopSignal, history_vars
    <3>2. Messages \subseteq Messages' \cup {Head(scheduler_msg_queue)}
      BY <3>1, PoppedMessage
    <3> QED
      BY <3>1, <3>2 DEF PendingInv
  <2>3. CASE PopCompletion
    <3>1. /\ scheduler_msg_queue # << >> /\ scheduler_msg_queue' = Tail(scheduler_msg_queue)
          /\ retired' = retired \cup {Head(scheduler_msg_queue).task}
          /\ finished' = finished
      BY <2>3 DEF PopCompletion, StartRetiring
    <3>2. Messages \subseteq Messages' \cup {Head(scheduler_msg_queue)}
      BY <3>1, PoppedMessage
    <3> QED
      BY <3>1, <3>2 DEF PendingInv
  <2>4. CASE RetireStep(SchedulerThread)
    <3>1. UNCHANGED <<scheduler_msg_queue, finished>>
      BY <2>4 DEF RetireStep, ProcessDependent, EraseNode, queue_vars, history_vars
    <3>2. retired \subseteq retired'
      BY <2>4 DEF RetireStep, ProcessDependent, EraseNode, history_vars
    <3> QED
      BY <1>2, <3>1, <3>2
  <2> QED
    BY <1>3, <1>4, <2>1, <2>2, <2>3, <2>4, Threads DEF SchedulerStep
<1>5. ASSUME MainStep PROVE PendingInv'
  <2>1. CASE MainAddTask \/ Start
    <3>1. UNCHANGED <<scheduler_msg_queue, finished, retired>>
      BY <2>1 DEF MainAddTask, Start, queue_vars, history_vars
    <3> QED
      BY <1>2, <3>1
  <2>2. CASE Join
    <3>1. scheduler_msg_queue' = Append(scheduler_msg_queue, JoinMessage)
          /\ UNCHANGED <<finished, retired>>
      BY <2>2 DEF Join, history_vars
    <3>2. JoinMessage \in SchedulerMessage
      BY SchedulerAssumption, SMTT(30) DEF JoinMessage, SchedulerMessage, Worker
    <3> QED
      BY <1>1, <3>1, <3>2, PushedMessage
  <2>3. CASE JoinReturns
    BY <2>3 DEF JoinReturns, PendingInv
  <2> QED
    BY <1>3, <1>5, <2>1, <2>2, <2>3, Threads DEF MainStep
<1>6. ASSUME NEW w \in Worker, WorkerStep(w) PROVE PendingInv'
  <2>1. CASE WorkerPopTask(w) \/ WorkerPopJoin(w) \/ ChainNext(w) \/ SpawnTask(w) \/ Park(w)
    <3>1. UNCHANGED <<scheduler_msg_queue, finished, retired>>
      BY <2>1 DEF WorkerPopTask, WorkerPopJoin, ChainNext, SpawnTask, Park, queue_vars, history_vars
    <3> QED
      BY <1>2, <3>1
  <2>2. CASE FinishTask(w)
    <3> DEFINE msg == TaskCompletionMessage(w, running[w])
    <3>1. /\ running[w] # 0 /\ finished' = finished \cup {running[w]} /\ retired' = retired
          /\ scheduler_msg_queue' = Append(scheduler_msg_queue, msg)
      BY <2>2 DEF FinishTask
    <3>2. msg \in SchedulerMessage /\ msg.type = "TaskCompletion" /\ msg.task = running[w]
      BY <3>1, <1>6 DEF TaskCompletionMessage, SchedulerMessage, TypeOK
    <3> HIDE DEF msg
    <3>3. Messages' = Messages \cup {msg}
      BY <3>1, <3>2, PushedMessage
    <3> QED
      BY <3>1, <3>2, <3>3 DEF PendingInv
  <2> QED
    BY <1>3, <1>6, <2>1, <2>2, Threads DEF WorkerStep
<1> QED
  BY <1>4, <1>5, <1>6 DEF Next

\* Every step keeps the workers' queues free of Join, but for the one that stops them.
LEMMA StopStep ==
  ASSUME IndInv, SignalInv, StopInv, Next
  PROVE  StopInv'
<1> USE DEF IndInv, CoreInv
<1> DEFINE m == worker_msg_queue
           Loop == {"dispatch", "check", "pop", "retire", "stop"}
<1>1. ASSUME UNCHANGED <<worker_pc, worker_msg_queue>>,
             \/ sched_pc' = sched_pc
             \/ sched_pc \in Loop /\ sched_pc' \in Loop
             \/ sched_pc \in {"wait", "exited"} /\ sched_pc' \in {"wait", "exited"}
      PROVE  StopInv'
  <2>1. /\ sched_pc' \in Loop => sched_pc \in Loop
        /\ sched_pc' \in {"wait", "exited"} <=> sched_pc \in {"wait", "exited"}
    BY <1>1
  <2>2. \A w : WorkerMessages(w)' = WorkerMessages(w)
    BY <1>1 DEF WorkerMessages
  <2> QED
    BY <1>1, <2>1, <2>2 DEF StopInv
<1>2. ASSUME NEW u \in Thread, CallStep(u) PROVE StopInv'
  BY <1>1, <1>2 DEF CallStep, Enqueue, Notify, worker_vars, sched_vars
<1>3. ASSUME SchedulerStep PROVE StopInv'
  <2>1. CASE Dispatch
    <3> DEFINE v == available_workers[Len(available_workers)]
               x == Head(task_queue)
    <3>1. /\ sched_pc = "dispatch" /\ UNCHANGED <<sched_pc, worker_pc>>
          /\ available_workers # << >> /\ task_queue # << >>
          /\ m' = [m EXCEPT ![v] = Append(@, x)]
      BY <2>1 DEF Dispatch
    <3>2. v \in Worker /\ x \in TaskID
      BY <3>1, FrontElements, TailElements DEF TypeOK
    <3>3. x # WorkerJoin
      BY <3>2, SMTT(30) DEF TaskID, WorkerJoin
    <3>4. \A w \in Worker : WorkerMessages(w)' \subseteq WorkerMessages(w) \cup {x}
      <4> TAKE w \in Worker
      <4>1. CASE w = v
        <5>1. m[v] \in Seq(TaskID \cup {WorkerJoin}) /\ m'[v] = Append(m[v], x)
          BY <3>1, <3>2 DEF TypeOK
        <5>2. \A i \in DOMAIN m'[v] : m'[v][i] = x \/ (i \in DOMAIN m[v] /\ m'[v][i] = m[v][i])
          BY <5>1, <3>2, AppendElements, SMTT(30)
        <5> QED
          BY <4>1, <5>2 DEF WorkerMessages
      <4>2. CASE w # v
        BY <4>2, <3>1 DEF WorkerMessages, TypeOK
      <4> QED
        BY <4>1, <4>2
    <3> QED
      BY <3>1, <3>3, <3>4 DEF StopInv
  <2>2. CASE DispatchEnd \/ CheckHalt \/ PopSignal \/ PopCompletion \/ FreeWorker
    <3>1. UNCHANGED <<worker_pc, worker_msg_queue>>
      BY <2>2 DEF DispatchEnd, CheckHalt, PopSignal, PopCompletion, FreeWorker, worker_vars
    <3>2. sched_pc \in Loop /\ sched_pc' \in Loop
      BY <2>2 DEF DispatchEnd, CheckHalt, PopSignal, PopCompletion, FreeWorker
    <3> QED
      BY <1>1, <3>1, <3>2
  <2>3. CASE StopWorkers
    <3>1. /\ sched_pc = "stop" /\ sched_pc' = "wait" /\ UNCHANGED worker_pc
          /\ m' = [w \in Worker |-> Append(m[w], WorkerJoin)]
      BY <2>3 DEF StopWorkers
    <3>2. \A w \in Worker : m[w] = << >>
      <4> TAKE w \in Worker
      <4>1. ~Assigned(w)
        BY <3>1, NoCalls DEF Stopped
      <4>2. \A i \in DOMAIN m[w] : FALSE
        BY <3>1, <4>1 DEF Assigned, StopInv, WorkerMessages
      <4>3. m[w] \in Seq(TaskID \cup {WorkerJoin})
        BY DEF TypeOK
      <4> QED
        BY <4>2, <4>3, NoElements
    <3>3. \A w \in Worker : m'[w] = <<WorkerJoin>> /\ worker_pc'[w] # "off"
      <4>1. \A w \in Worker : m'[w] = Append(<< >>, WorkerJoin)
        BY <3>1, <3>2
      <4>2. Append(<< >>, WorkerJoin) = <<WorkerJoin>>
        BY SMTT(30)
      <4> QED
        BY <3>1, <4>1, <4>2 DEF StopInv
    <3> QED
      BY <3>1, <3>3 DEF StopInv
  <2>4. CASE JoinWorkers
    BY <1>1, <2>4 DEF JoinWorkers, worker_vars
  <2>5. CASE RetireStep(SchedulerThread)
    <3>1. UNCHANGED <<worker_pc, worker_msg_queue, sched_pc>>
      BY <2>5 DEF RetireStep, ProcessDependent, EraseNode, worker_vars, sched_vars
    <3> QED
      BY <1>1, <3>1
  <2> QED
    BY <1>2, <1>3, <2>1, <2>2, <2>3, <2>4, <2>5, Threads DEF SchedulerStep
<1>4. ASSUME MainStep PROVE StopInv'
  <2>1. CASE MainAddTask \/ Join
    <3>1. UNCHANGED <<worker_pc, worker_msg_queue, sched_pc>>
      BY <2>1 DEF MainAddTask, Join, worker_vars, sched_vars
    <3> QED
      BY <1>1, <3>1
  <2>2. CASE Start
    <3>1. /\ sched_pc = "off" /\ sched_pc' = "dispatch" /\ UNCHANGED m
          /\ \A w \in Worker : worker_pc'[w] = "idle"
      BY <2>2 DEF Start
    <3> QED
      BY <3>1 DEF StopInv, WorkerMessages
  <2>3. CASE JoinReturns
    <3>1. sched_pc = "exited" /\ sched_pc' = "off" /\ UNCHANGED m
      BY <2>3 DEF JoinReturns, worker_vars
    <3>2. \A w \in Worker : m[w] = << >>
      BY <3>1 DEF StopInv, ControlInv
    <3>3. \A w \in Worker : WorkerMessages(w)' = {}
      BY <3>1, <3>2, SMTT(30) DEF WorkerMessages
    <3> QED
      BY <3>1, <3>3 DEF StopInv
  <2> QED
    BY <1>2, <1>4, <2>1, <2>2, <2>3, Threads DEF MainStep
<1>5. ASSUME NEW v \in Worker, WorkerStep(v) PROVE StopInv'
  <2>1. CASE WorkerPopTask(v)
    <3>1. /\ m[v] # << >> /\ m' = [m EXCEPT ![v] = Tail(@)] /\ Head(m[v]) # WorkerJoin
          /\ worker_pc' = [worker_pc EXCEPT ![v] = "busy"] /\ UNCHANGED sched_pc
      BY <2>1 DEF WorkerPopTask, sched_vars
    <3>2. sched_pc \notin {"wait", "exited"}
      <4>1. m[v] # <<WorkerJoin>>
        BY <3>1, SMTT(30)
      <4> QED
        BY <3>1, <4>1, <1>5 DEF StopInv
    <3>3. \A w \in Worker : WorkerMessages(w)' \subseteq WorkerMessages(w)
      <4>1. /\ \A w \in Worker : w # v => m'[w] = m[w]
            /\ \A i \in DOMAIN m'[v] : i + 1 \in DOMAIN m[v] /\ m'[v][i] = m[v][i + 1]
        BY <3>1, <1>5, WorkerQueueAfterPop
      <4>2. \A w \in Worker : \A i \in DOMAIN m'[w] : \E j \in DOMAIN m[w] : m'[w][i] = m[w][j]
        BY <4>1
      <4> QED
        BY <4>2 DEF WorkerMessages
    <3>4. \A w \in Worker : worker_pc[w] # "off" => worker_pc'[w] # "off"
      BY <3>1 DEF TypeOK
    <3> QED
      BY <3>1, <3>2, <3>3, <3>4 DEF StopInv
  <2>2. CASE WorkerPopJoin(v)
    <3>1. /\ m[v] # << >> /\ m' = [m EXCEPT ![v] = Tail(@)] /\ Head(m[v]) = WorkerJoin
          /\ worker_pc[v] = "idle" /\ worker_pc' = [worker_pc EXCEPT ![v] = "off"]
          /\ UNCHANGED sched_pc
      BY <2>2 DEF WorkerPopJoin, sched_vars
    <3>2. WorkerJoin \in WorkerMessages(v)
      BY <3>1, <1>5, WorkerQueueAfterPop DEF WorkerMessages
    <3>3. sched_pc \in {"wait", "exited"}
      BY <3>2, <1>5 DEF StopInv
    <3>4. m[v] = <<WorkerJoin>>
      BY <3>1, <3>3, <1>5 DEF StopInv
    <3>5. m'[v] = << >> /\ worker_pc'[v] = "off"
      <4>1. m'[v] = Tail(<<WorkerJoin>>) /\ worker_pc'[v] = "off"
        BY <3>1, <3>4, <1>5 DEF TypeOK
      <4> QED
        BY <4>1, SMTT(30)
    <3>6. \A w \in Worker : w # v => m'[w] = m[w] /\ worker_pc'[w] = worker_pc[w]
      BY <3>1 DEF TypeOK
    <3> QED
      BY <3>1, <3>3, <3>5, <3>6 DEF StopInv
  <2>3. CASE FinishTask(v)
    <3>1. /\ running[v] # 0 /\ worker_pc' = [worker_pc EXCEPT ![v] = "idle"]
          /\ UNCHANGED <<sched_pc, worker_msg_queue>>
      BY <2>3 DEF FinishTask, sched_vars
    <3>2. worker_pc[v] # "off"
      BY <3>1, <1>5 DEF ControlInv
    <3>3. \A w \in Worker : worker_pc'[w] = "off" <=> worker_pc[w] = "off"
      BY <3>1, <3>2, <1>5 DEF TypeOK
    <3> QED
      BY <3>1, <3>3 DEF StopInv, WorkerMessages
  <2>4. CASE ChainNext(v) \/ SpawnTask(v) \/ Park(v)
    <3>1. UNCHANGED <<worker_pc, worker_msg_queue, sched_pc>>
      BY <2>4 DEF ChainNext, SpawnTask, Park, worker_vars, sched_vars
    <3> QED
      BY <1>1, <3>1
  <2> QED
    BY <1>2, <1>5, <2>1, <2>2, <2>3, <2>4, Threads DEF WorkerStep
<1> QED
  BY <1>3, <1>4, <1>5 DEF Next

------------------------------------------------------------------------------
(* addTask and the node table *)

\* The edges of a new task t.
LEMMA TaskEdgesElements ==
  ASSUME NEW t, t # 0, NEW dependency, NEW dependent
  PROVE  \A e : e \in TaskEdges(t, dependency, dependent) <=>
           \/ e = <<t, dependent>> /\ dependent # 0
           \/ e = <<dependency, t>> /\ dependency # 0
<1>1. \A e : e \in TaskEdges(t, dependency, dependent) <=>
        /\ e = <<t, dependent>> \/ e = <<dependency, t>>
        /\ e[1] # 0 /\ e[2] # 0
  BY DEF TaskEdges
<1>2. /\ <<t, dependent>>[1] = t /\ <<t, dependent>>[2] = dependent
      /\ <<dependency, t>>[1] = dependency /\ <<dependency, t>>[2] = t
  OBVIOUS
<1> QED
  BY <1>1, <1>2

\* addTask, whoever calls it: the new nodes wait, and only for what is new.
LEMMA AddTaskJoin ==
  ASSUME IndInv, IndInv', TableInv, WaitInv,
         NEW thr \in Worker \cup {MainThread}, NEW dependency, NEW dependent,
         AddTask(thr, dependency, dependent),
         \/ dependency = 0 /\ UNCHANGED continuation_counter
         \/ /\ thr \in Worker
            /\ dependency = continuation_counter
            /\ continuation_counter <= kContinuationMask + MaxContinuations
            /\ continuation_counter' = continuation_counter + 1,
         \/ dependent = 0
         \/ dependent \in Continuation /\ Allocated(dependent) /\ dependent \notin retired,
         IF thr = MainThread THEN main_pc = "out" ELSE running[thr] # 0,
         UNCHANGED <<retire_vars, queue_vars, sched_vars, worker_vars, main_pc, retired, finished>>,
         \A w \in Worker : w # thr => /\ c_dependent'[w] = c_dependent[w]
                                      /\ Building(w) => Building(w)',
         dependency # 0 => c_dependent'[thr] = dependency,
         thr \in Worker => dependent = c_dependent[thr]
  PROVE  TableInv' /\ WaitInv'
<1> USE DEF IndInv, CoreInv
<1> DEFINE t == task_counter
           E == TaskEdges(t, dependency, dependent)
<1>1. /\ t \in TaskID /\ ~Allocated(t)
      /\ dependency # 0 => /\ dependency \in Continuation /\ dependency \notin retired
                           /\ ~Allocated(dependency)
      /\ task_counter' = t + 1
  <2>1. t \in TaskID /\ ~Allocated(t) /\ task_counter' = t + 1
    BY SchedulerAssumption, SMTT(30) DEF AddTask, TypeOK, TaskID, Allocated
  <2>2. ASSUME dependency # 0 PROVE dependency \in Continuation /\ ~Allocated(dependency)
    <3>1. /\ dependency = continuation_counter
          /\ continuation_counter <= kContinuationMask + MaxContinuations
      BY <2>2
    <3>2. /\ continuation_counter \in Nat /\ kContinuationMask < continuation_counter
          /\ task_counter \in Nat /\ task_counter <= kContinuationMask
      BY SchedulerAssumption, SMTT(30) DEF TypeOK
    <3> QED
      BY SchedulerAssumption, <3>1, <3>2, SMTT(30) DEF Continuation, Allocated
  <2>3. \A n \in retired : Allocated(n)
    BY DEF GraphInv
  <2> QED
    BY <2>1, <2>2, <2>3
<1>2. /\ t # 0 /\ t \in NodeID /\ t \notin Continuation /\ t \in Int
      /\ dependency # 0 => dependency \in NodeID /\ dependency \notin TaskID
      /\ dependent # 0 => dependent \in NodeID /\ dependent \notin TaskID /\ dependent \in Continuation
      /\ dependent # 0 => dependent # dependency
      /\ 0 \notin NodeID
  BY <1>1, NodeIDs, SMTT(30) DEF NodeID, TaskID
<1>3. \A e : e \in E <=> \/ e = <<t, dependent>> /\ dependent # 0
                         \/ e = <<dependency, t>> /\ dependency # 0
  BY <1>2, TaskEdgesElements
<1>4. /\ nodes' = nodes \cup {n \in NodeID : \E m \in NodeID : <<n, m>> \in E \/ <<m, n>> \in E}
      /\ dependents' = [n \in NodeID |-> dependents[n] \cup {m \in NodeID : <<n, m>> \in E}]
      /\ links' = links \cup E
  BY DEF AddTask, LinkNodes
<1> HIDE DEF E
<1>4a. \A m, n \in NodeID : n \in dependents'[m] <=>
         n \in dependents[m] \/ (m = t /\ n = dependent) \/ (m = dependency /\ n = t)
  <2> TAKE m, n \in NodeID
  <2>1. n \in dependents'[m] <=> n \in dependents[m] \/ <<m, n>> \in E
    BY <1>4
  <2>2. <<m, n>> \in E <=> (m = t /\ n = dependent /\ dependent # 0)
                           \/ (m = dependency /\ n = t /\ dependency # 0)
    BY <1>3, SMTT(30)
  <2> QED
    BY <2>1, <2>2, <1>2
<1>5. UNCHANGED <<tasks, retired, retiring>>
  BY DEF queue_vars, retire_vars
<1>6. /\ \A e \in links : e[1] # t /\ e[2] # t
      /\ dependency # 0 => \A e \in links : e[1] # dependency /\ e[2] # dependency
      /\ t \notin retired
  BY <1>1, <1>2, FreshNode
<1>7. /\ call'[thr] = "park" => dependency # 0
      /\ call_task'[thr] = t
      /\ \A w \in Worker : w # thr => call'[w] = call[w] /\ call_task'[w] = call_task[w]
  <2>1. /\ thr \in Thread
        /\ call' = [call EXCEPT ![thr] = AfterLinking(dependency)]
        /\ call_task' = [call_task EXCEPT ![thr] = t]
    BY Threads DEF AddTask
  <2> QED
    BY <2>1, Threads DEF TypeOK, AfterLinking
<1>8. \A n \in nodes' : \/ n \in nodes
                        \/ n = t
                        \/ n = dependency /\ dependency # 0
                        \/ n = dependent /\ dependent # 0
  <2> SUFFICES ASSUME NEW n \in NodeID, NEW m \in NodeID, <<n, m>> \in E \/ <<m, n>> \in E
               PROVE  n = t \/ (n = dependency /\ dependency # 0) \/ (n = dependent /\ dependent # 0)
    BY <1>4
  <2>1. CASE <<n, m>> \in E
    BY <1>3, <2>1, SMTT(30)
  <2>2. CASE <<m, n>> \in E
    BY <1>3, <2>2, SMTT(30)
  <2> QED
    BY <2>1, <2>2
<1>9. TableInv'
  <2>1. \A n \in NodeID : dependents'[n] # {} => n \in nodes'
    BY <1>4 DEF TableInv, TypeOK
  <2>2. \A n \in nodes' : Allocated(n)'
    <3>1. \A n \in NodeID : Allocated(n) => Allocated(n)'
      <4>1. task_counter' = task_counter + 1 /\ task_counter \in Int
        BY <1>1, <1>2
      <4>2. /\ continuation_counter' = continuation_counter \/ continuation_counter' = continuation_counter + 1
            /\ continuation_counter \in Int
        BY SMTT(30) DEF TypeOK
      <4>3. \A n \in NodeID : n \in Int
        BY NodeIDs, SMTT(30)
      <4> QED
        BY <4>1, <4>2, <4>3, SMTT(30) DEF Allocated
    <3>2. \A n : n = t => Allocated(n)'
      BY <1>1, <1>2, SMTT(30) DEF Allocated
    <3>3. dependency # 0 => \A n : n = dependency => Allocated(n)'
      <4>1. dependency # 0 => <<dependency, t>> \in links'
        BY <1>3, <1>4
      <4>2. <<dependency, t>>[1] = dependency
        OBVIOUS
      <4> QED
        BY <4>1, <4>2 DEF GraphInv
    <3>4. dependent # 0 => Allocated(dependent)
      OBVIOUS
    <3> QED
      BY <1>2, <1>8, <3>1, <3>2, <3>3, <3>4 DEF TableInv, TypeOK
  <2>3. \A n \in nodes' \cap retired' : \E i \in DOMAIN retiring' : retiring'[i] = n
    <3>1. \A n \in nodes' \cap retired' : n \in nodes
      BY <1>1, <1>5, <1>6, <1>8
    <3> QED
      BY <3>1, <1>5 DEF TableInv
  <2>4. \A c \in nodes' \cap Continuation :
          \/ c \in retired' \/ (Dependencies(c) # {})'
          \/ \E w \in Worker : Building(w)' /\ c_dependent'[w] = c
    <3> TAKE c \in nodes' \cap Continuation
    <3>1. CASE c = dependent /\ dependent # 0
      <4>1. t \in NodeID /\ dependent \in dependents'[t]
        BY <3>1, <1>2, <1>4a
      <4> QED
        BY <3>1, <4>1 DEF Dependencies
    <3>2. CASE c = dependency /\ dependency # 0
      <4>1. thr \in Worker
        BY <3>2
      <4>2. call'[thr] = "park"
        BY <3>2, <4>1, Threads DEF AddTask, AfterLinking, TypeOK
      <4> QED
        BY <3>2, <4>1, <4>2 DEF ParkedInv
    <3>3. CASE c \in nodes /\ c # dependent
      <4>1. c \in NodeID
        BY DEF NodeID
      <4>2. Dependencies(c) # {} => (Dependencies(c) # {})'
        BY <1>4, <4>1 DEF Dependencies, TypeOK
      <4>3. \A w \in Worker : Building(w) /\ c_dependent[w] = c => w # thr
        BY <3>3
      <4> QED
        BY <3>3, <4>2, <4>3, <1>5 DEF TableInv
    <3> QED
      BY <3>1, <3>2, <3>3, <1>2, <1>8 DEF NodeID
  <2> QED
    BY <2>1, <2>2, <2>3, <2>4 DEF TableInv
<1>10. \A x \in TaskID : x < t => Dependencies(x)' = Dependencies(x)
  <2> SUFFICES ASSUME NEW x \in TaskID, x < t PROVE Dependencies(x)' = Dependencies(x)
    OBVIOUS
  <2>1. x # t /\ x \in NodeID /\ x # dependent
    BY <1>2, NodeIDs, SMTT(30) DEF NodeID, TaskID
  <2> QED
    BY <2>1, <1>4a DEF Dependencies
<1>11. \A x \in tasks' : \E c \in Continuation : Dependencies(x)' = {c}
  <2>1. \A x \in tasks : x \in TaskID /\ x < t
    BY DEF TypeOK, TasksConserved
  <2> QED
    BY <2>1, <1>5, <1>10 DEF WaitInv
<1>12. \A w \in Worker : (call[w] = "park" => Dependencies(call_task[w]) = {c_dependent[w]})'
  <2> SUFFICES ASSUME NEW w \in Worker, call'[w] = "park"
               PROVE  (Dependencies(call_task[w]) = {c_dependent[w]})'
    OBVIOUS
  <2>1. CASE w = thr
    <3>1. dependency # 0 /\ call_task'[w] = t /\ c_dependent'[w] = dependency
      BY <2>1, <1>7
    <3>2. t \in dependents'[dependency] /\ dependency \in NodeID
      BY <3>1, <1>2, <1>4a
    <3>3. (Dependencies(call_task[w]) \subseteq {c_dependent[w]})'
      BY DEF ParkedInv
    <3>4. dependency \in {m \in NodeID : call_task'[w] \in dependents'[m]}
      BY <3>1, <3>2
    <3> QED
      BY <3>1, <3>3, <3>4 DEF Dependencies
  <2>2. CASE w # thr
    <3>1. call[w] = "park" /\ call_task'[w] = call_task[w] /\ c_dependent'[w] = c_dependent[w]
      BY <2>2, <1>7
    <3>2. call_task[w] \in TaskID /\ InCall(call_task[w])
      BY <3>1, Threads DEF ControlInv, InCall
    <3>3. call_task[w] < t
      BY <3>2 DEF TasksConserved
    <3>4. \A x : x = call_task[w] => Dependencies(x)' = Dependencies(x)
      BY <3>2, <3>3, <1>10
    <3> QED
      BY <3>1, <3>4 DEF WaitInv, Dependencies
  <2> QED
    BY <2>1, <2>2
<1>13. \A e \in links' : \/ e \in links
                         \/ e[1] = t /\ e[2] = dependent /\ dependent # 0
                         \/ e[1] = dependency /\ e[2] = t /\ dependency # 0
  <2>1. /\ <<t, dependent>>[1] = t /\ <<t, dependent>>[2] = dependent
        /\ <<dependency, t>>[1] = dependency /\ <<dependency, t>>[2] = t
    OBVIOUS
  <2> QED
    BY <1>3, <1>4, <2>1
<1>14. \A e \in links' : e[1] \in TaskID <=> e[2] \in Continuation
  BY <1>1, <1>2, <1>13 DEF WaitInv
<1>15. \A e, f \in links' : e[1] \in TaskID /\ e[2] = f[1] => f[2] < e[1]
  <2> SUFFICES ASSUME NEW e \in links', NEW f \in links', e[1] \in TaskID, e[2] = f[1]
               PROVE  f[2] < e[1]
    OBVIOUS
  <2>1. e[2] \in Continuation
    BY <1>14
  <2>2. CASE e \in links
    <3>1. f \in links
      BY <2>1, <2>2, <1>2, <1>6, <1>13
    <3> QED
      BY <2>2, <3>1 DEF WaitInv
  <2>3. CASE e \notin links
    <3>1. e[1] = t /\ e[2] = dependent /\ dependent # 0
      BY <2>3, <1>2, <1>13
    <3>2. f \in links
      BY <3>1, <1>2, <1>13
    <3>3. f[2] \in TaskID /\ Allocated(f[2])
      <4>1. f[1] \in NodeID /\ f[2] \in NodeID /\ Allocated(f[2])
        BY <3>2 DEF TypeOK, GraphInv
      <4>2. f[1] \notin TaskID
        BY <2>1, NodeIDs
      <4> QED
        BY <3>2, <4>1, <4>2 DEF WaitInv, NodeID
    <3> QED
      BY SchedulerAssumption, <3>1, <3>3, SMTT(30) DEF Allocated, TaskID
  <2> QED
    BY <2>2, <2>3
<1> QED
  BY <1>9, <1>11, <1>12, <1>14, <1>15 DEF WaitInv

\* MainAddTask, SpawnTask and ChainNext.
LEMMA AddTaskStep ==
  ASSUME IndInv, IndInv', TableInv, WaitInv,
         MainAddTask \/ \E w \in Worker : SpawnTask(w) \/ ChainNext(w)
  PROVE  TableInv' /\ WaitInv'
<1> USE DEF IndInv, CoreInv
<1>1. \A w \in Worker : running[w] # 0 => running[w] \in TaskID /\ running[w] < task_counter
  <2>1. \A w \in Worker : running[w] # 0 => running[w] \in TaskID /\ IsRunning(running[w])
    BY DEF TypeOK, IsRunning
  <2> QED
    BY <2>1 DEF TasksConserved
<1>2. ASSUME NEW dependent, continuation' = [continuation EXCEPT ![task_counter] = dependent]
      PROVE  \A w \in Worker : running[w] # 0 => continuation'[running[w]] = continuation[running[w]]
  BY <1>1, <1>2, SMTT(30) DEF TypeOK, TaskID
<1>3. CASE MainAddTask
  <2>1. /\ AddTask(MainThread, 0, 0) /\ main_pc = "out"
        /\ UNCHANGED <<retire_vars, queue_vars, sched_vars, worker_vars, main_pc, retired, finished>>
        /\ UNCHANGED <<continuation_counter, c_dependent>>
    BY <1>3 DEF MainAddTask
  <2>2. \A w \in Worker : Building(w) => Building(w)'
    <3>1. running' = running /\ continuation' = [continuation EXCEPT ![task_counter] = 0]
      BY <2>1 DEF worker_vars, AddTask
    <3> QED
      BY <1>2, <2>1, <3>1 DEF Building
  <2>3. MainThread \notin Worker
    BY Threads
  <2> QED
    BY <2>1, <2>2, <2>3, AddTaskJoin
<1>4. CASE \E w \in Worker : SpawnTask(w) \/ ChainNext(w)
  <2>1. PICK v \in Worker : SpawnTask(v) \/ ChainNext(v)
    BY <1>4
  <2>2. PICK d \in {0, continuation_counter} :
          /\ AddTask(v, d, c_dependent[v]) /\ running[v] # 0
          /\ IF d = 0 THEN UNCHANGED continuation_counter
                      ELSE /\ continuation_counter <= kContinuationMask + MaxContinuations
                           /\ continuation_counter' = continuation_counter + 1
          /\ c_dependent' = [c_dependent EXCEPT ![v] = IF d = 0 THEN continuation[running[v]] ELSE d]
          /\ UNCHANGED <<retire_vars, queue_vars, sched_vars, worker_vars, main_pc, retired, finished>>
    <3>1. continuation_counter # 0
      BY SchedulerAssumption, SMTT(30) DEF TypeOK
    <3>2. CASE SpawnTask(v)
      BY <3>2 DEF SpawnTask
    <3>3. CASE ChainNext(v)
      BY <3>1, <3>3 DEF ChainNext
    <3> QED
      BY <2>1, <3>2, <3>3
  <2>3. \A w \in Worker : w # v => c_dependent'[w] = c_dependent[w]
    BY <2>2 DEF TypeOK
  <2>4. \A w \in Worker : w # v => (Building(w) => Building(w)')
    <3>1. running' = running /\ continuation' = [continuation EXCEPT ![task_counter] = c_dependent[v]]
      BY <2>2 DEF worker_vars, AddTask
    <3> QED
      BY <1>2, <2>3, <3>1 DEF Building
  <2>5. d # 0 => c_dependent'[v] = d
    BY <2>2 DEF TypeOK
  <2>6. \/ d = 0 /\ UNCHANGED continuation_counter
        \/ /\ v \in Worker
           /\ d = continuation_counter
           /\ continuation_counter <= kContinuationMask + MaxContinuations
           /\ continuation_counter' = continuation_counter + 1
    BY <2>2
  <2>7. \/ c_dependent[v] = 0
        \/ /\ c_dependent[v] \in Continuation /\ Allocated(c_dependent[v])
           /\ c_dependent[v] \notin retired
    BY <2>2, DependentWaits
  <2>8. IF v = MainThread THEN main_pc = "out" ELSE running[v] # 0
    BY <2>2, Threads
  <2> QED
    BY <2>2, <2>3, <2>4, <2>5, <2>6, <2>7, <2>8, AddTaskJoin
<1> QED
  BY <1>3, <1>4

------------------------------------------------------------------------------
(* processDependents and the node table *)

\* A dependent that is not ready keeps a dependency; one that is ready leaves
\* tasks_, or is retired next.
LEMMA ProcessDependentStep ==
  ASSUME IndInv, IndInv', TableInv, WaitInv, ProcessDependent(SchedulerThread)
  PROVE  TableInv' /\ WaitInv'
<1> USE DEF IndInv, CoreInv
<1> DEFINE node == retiring[Len(retiring)]
           thr == SchedulerThread
<1>1. UNCHANGED <<nodes, task_counter, continuation_counter, continuation, running, c_dependent, links>>
  BY DEF ProcessDependent, id_vars, worker_vars
<1>2. PICK d \in dependents[node] :
        /\ dependents' = [dependents EXCEPT ![node] = @ \ {d}]
        /\ dependency_count' = [dependency_count EXCEPT ![d] = @ - 1]
        /\ IF dependency_count[d] = 1 /\ IsTaskID(d)
           THEN /\ d \in tasks
                /\ tasks' = tasks \ {d}
                /\ call' = [call EXCEPT ![thr] = "enqueue"]
                /\ call_task' = [call_task EXCEPT ![thr] = d]
           ELSE UNCHANGED <<tasks, call, call_task>>
        /\ IF dependency_count[d] = 1 /\ ~IsTaskID(d)
           THEN /\ retiring' = Append(retiring, d)
                /\ retired' = retired \cup {d}
           ELSE UNCHANGED <<retiring, retired>>
  BY DEF ProcessDependent
<1>3. retiring \in Seq(NodeID) /\ node \in NodeID /\ node \in retired
  <2>1. retiring # << >> /\ retiring \in Seq(NodeID)
    BY DEF ProcessDependent, TypeOK
  <2> QED
    BY <2>1, FrontElements, SMTT(30) DEF GraphInv
<1>4. d \in NodeID /\ node \in Dependencies(d)
  BY <1>3 DEF TypeOK, Dependencies
<1>5. \A n \in NodeID : dependents'[n] = IF n = node THEN dependents[n] \ {d} ELSE dependents[n]
  BY <1>2, <1>3 DEF TypeOK
<1>6. \A n \in NodeID : n # d => Dependencies(n)' = Dependencies(n)
  BY <1>5 DEF Dependencies
<1>7. dependency_count[d] = 1 \/ (Dependencies(d) # {})'
  <2>1. dependency_count'[d] = dependency_count[d] - 1 /\ dependency_count[d] \in Nat
    BY <1>2, <1>4 DEF TypeOK
  <2>2. \A n \in NodeID : dependency_count'[n] = Cardinality(Dependencies(n)')
    BY DEF GraphInv
  <2>3. \A n \in NodeID : Dependencies(n)' = {} => dependency_count'[n] = 0
    BY <2>2, FS_EmptySet
  <2>4. dependency_count[d] # 1 => dependency_count'[d] # 0
    BY <2>1, SMTT(30)
  <2> QED
    BY <1>4, <2>3, <2>4 DEF Dependencies
<1>8. IsTaskID(d) <=> d \in TaskID
  BY SchedulerAssumption, <1>4, SMTT(30) DEF IsTaskID, NodeID, TaskID, Continuation
<1>9. /\ \A i \in DOMAIN retiring : i \in DOMAIN retiring' /\ retiring'[i] = retiring[i]
      /\ \A n \in retired' : n \in retired \/ \E i \in DOMAIN retiring' : retiring'[i] = n
      /\ retired \subseteq retired'
      /\ dependency_count[d] = 1 /\ ~IsTaskID(d) => d \in retired'
  <2>1. CASE dependency_count[d] = 1 /\ ~IsTaskID(d)
    <3>1. retiring' = Append(retiring, d) /\ retired' = retired \cup {d}
      BY <1>2, <2>1
    <3>2. /\ DOMAIN retiring = 1 .. Len(retiring) /\ Len(retiring) \in Nat
          /\ DOMAIN retiring' = 1 .. Len(retiring) + 1
          /\ \A i \in 1 .. Len(retiring) + 1 : retiring'[i] = IF i = Len(retiring) + 1 THEN d ELSE retiring[i]
      BY <3>1, <1>3, <1>4, AppendElements, SMTT(30)
    <3>3. Len(retiring) + 1 \in DOMAIN retiring' /\ retiring'[Len(retiring) + 1] = d
      BY <3>2, SMTT(30)
    <3>4. \A i \in DOMAIN retiring : i \in DOMAIN retiring' /\ retiring'[i] = retiring[i]
      BY <3>2, SMTT(30)
    <3> QED
      BY <3>1, <3>3, <3>4
  <2>2. CASE ~(dependency_count[d] = 1 /\ ~IsTaskID(d))
    BY <2>2, <1>2
  <2> QED
    BY <2>1, <2>2
<1>10. TableInv'
  <2>1. \A n \in NodeID : dependents'[n] # {} => n \in nodes'
    BY <1>1, <1>5 DEF TableInv
  <2>2. \A n \in nodes' : Allocated(n)'
    BY <1>1 DEF TableInv, Allocated
  <2>3. \A n \in nodes' \cap retired' : \E i \in DOMAIN retiring' : retiring'[i] = n
    BY <1>1, <1>9 DEF TableInv
  <2>4. \A c \in nodes' \cap Continuation :
          \/ c \in retired' \/ (Dependencies(c) # {})'
          \/ \E w \in Worker : Building(w)' /\ c_dependent'[w] = c
    <3> TAKE c \in nodes' \cap Continuation
    <3>1. CASE c = d
      <4>1. ~IsTaskID(d)
        BY <3>1, <1>8, NodeIDs
      <4> QED
        BY <3>1, <4>1, <1>7, <1>9 DEF Dependencies
    <3>2. CASE c # d
      <4>1. Dependencies(c)' = Dependencies(c)
        BY <3>2, <1>6 DEF NodeID
      <4>2. \A w \in Worker : Building(w)' <=> Building(w)
        BY <1>1 DEF Building
      <4> QED
        BY <4>1, <4>2, <1>1, <1>9 DEF TableInv
    <3> QED
      BY <3>1, <3>2
  <2> QED
    BY <2>1, <2>2, <2>3, <2>4 DEF TableInv
<1>11. \A x \in tasks' : \E c \in Continuation : Dependencies(x)' = {c}
  <2> TAKE x \in tasks'
  <2>1. x \in tasks /\ x \in TaskID /\ x \in NodeID
    <3>1. tasks' \subseteq tasks
      BY <1>2
    <3> QED
      BY <3>1 DEF TypeOK, NodeID
  <2>2. x # d
    <3> SUFFICES ASSUME x = d PROVE FALSE
      OBVIOUS
    <3>1. PICK c \in Continuation : Dependencies(d) = {c}
      BY <2>1 DEF WaitInv
    <3>2. dependency_count[d] = 1
      BY <1>4, <3>1, FS_Singleton DEF GraphInv
    <3> QED
      BY <2>1, <3>2, <1>2, <1>8
  <2> QED
    BY <2>1, <2>2, <1>6 DEF WaitInv
<1>12. \A w \in Worker : (call[w] = "park" => Dependencies(call_task[w]) = {c_dependent[w]})'
  <2> SUFFICES ASSUME NEW w \in Worker, call'[w] = "park"
               PROVE  (Dependencies(call_task[w]) = {c_dependent[w]})'
    OBVIOUS
  <2>1. call[w] = "park" /\ call_task'[w] = call_task[w]
    <3>1. w # thr /\ w \in Thread
      BY Threads
    <3>2. /\ call' = call \/ call' = [call EXCEPT ![thr] = "enqueue"]
          /\ call_task' = call_task \/ call_task' = [call_task EXCEPT ![thr] = d]
      BY <1>2
    <3>3. call'[w] = call[w] /\ call_task'[w] = call_task[w]
      BY <3>1, <3>2 DEF TypeOK
    <3> QED
      BY <3>3
  <2>2. call_task[w] \in NodeID
    BY <2>1, Threads DEF ControlInv, NodeID
  <2>3. Dependencies(call_task[w]) = {c_dependent[w]} /\ c_dependent[w] \notin retired
    BY <2>1 DEF WaitInv, ParkedInv, ChainInv
  <2>4. call_task[w] # d
    BY <2>3, <1>3, <1>4
  <2>5. \A x : x = call_task[w] => Dependencies(x)' = Dependencies(x)
    BY <2>2, <2>4, <1>6
  <2> QED
    BY <2>1, <2>3, <2>5, <1>1 DEF Dependencies
<1> QED
  BY <1>1, <1>10, <1>11, <1>12 DEF WaitInv

\* The node that leaves the table is the last one on the stack.
LEMMA EraseNodeStep ==
  ASSUME IndInv, TableInv, WaitInv, EraseNode(SchedulerThread)
  PROVE  TableInv' /\ WaitInv'
<1> USE DEF IndInv, CoreInv
<1> DEFINE node == retiring[Len(retiring)]
<1>1. /\ UNCHANGED <<dependents, task_counter, continuation_counter, continuation, running,
                     c_dependent, links, retired, tasks, call, call_task>>
      /\ retiring # << >> /\ retiring' = SubSeq(retiring, 1, Len(retiring) - 1)
      /\ dependents[node] = {} /\ nodes' = nodes \ {node}
  BY DEF EraseNode, id_vars, worker_vars, history_vars, queue_vars, call_vars
<1>2. \A i \in DOMAIN retiring : retiring[i] = node \/ (i \in DOMAIN retiring' /\ retiring'[i] = retiring[i])
  <2>1. /\ DOMAIN retiring = 1 .. Len(retiring) /\ Len(retiring) \in Nat \ {0}
        /\ DOMAIN retiring' = 1 .. Len(retiring) - 1
        /\ \A i \in 1 .. Len(retiring) - 1 : retiring'[i] = retiring[i]
    BY <1>1, FrontElements DEF TypeOK
  <2> QED
    BY <2>1, SMTT(30)
<1>3. /\ \A n : Dependencies(n)' = Dependencies(n)
      /\ \A n : Allocated(n)' <=> Allocated(n)
      /\ \A w : Building(w)' <=> Building(w)
  BY <1>1 DEF Dependencies, Allocated, Building
<1>4. TableInv'
  <2>1. \A n \in NodeID : dependents'[n] # {} => n \in nodes'
    BY <1>1 DEF TableInv
  <2>2. \A n \in nodes' \cap retired' : \E i \in DOMAIN retiring' : retiring'[i] = n
    BY <1>1, <1>2 DEF TableInv
  <2> QED
    BY <1>1, <1>3, <2>1, <2>2 DEF TableInv
<1>5. WaitInv'
  BY <1>1, <1>3 DEF WaitInv, Dependencies
<1> QED
  BY <1>4, <1>5

\* Every step keeps the order of the node table and what waits in it.
LEMMA TableStep ==
  ASSUME IndInv, IndInv', SignalInv, TableInv, WaitInv, Next
  PROVE  TableInv' /\ WaitInv'
<1> USE DEF IndInv, CoreInv
<1>1. ASSUME UNCHANGED <<nodes, dependents, retired, retiring, task_counter, continuation_counter>>,
             \A w \in Worker : Building(w) => Building(w)' /\ c_dependent'[w] = c_dependent[w]
      PROVE  TableInv'
  <2>1. /\ \A n : Dependencies(n)' = Dependencies(n)
        /\ \A n : Allocated(n)' <=> Allocated(n)
    BY <1>1 DEF Dependencies, Allocated
  <2> QED
    BY <1>1, <2>1 DEF TableInv
<1>2. ASSUME UNCHANGED <<tasks, dependents, call_task, links>>,
             \A w \in Worker : call'[w] = "park" => call[w] = "park" /\ c_dependent'[w] = c_dependent[w]
      PROVE  WaitInv'
  <2>1. \A n : Dependencies(n)' = Dependencies(n)
    BY <1>2 DEF Dependencies
  <2>2. \A w \in Worker : (call[w] = "park" => Dependencies(call_task[w]) = {c_dependent[w]})'
    BY <1>2 DEF WaitInv, Dependencies
  <2> QED
    BY <1>2, <2>1, <2>2 DEF WaitInv
<1>3. ASSUME UNCHANGED <<nodes, dependents, retired, retiring, task_counter, continuation_counter,
                         continuation, running, c_dependent, tasks, call, call_task, links>>
      PROVE  TableInv' /\ WaitInv'
  <2>1. \A w \in Worker : Building(w) => Building(w)' /\ c_dependent'[w] = c_dependent[w]
    BY <1>3 DEF Building
  <2> QED
    BY <1>1, <1>2, <1>3, <2>1
<1>4. ASSUME NEW u \in Thread, CallStep(u) PROVE TableInv' /\ WaitInv'
  <2>1. /\ UNCHANGED <<nodes, dependents, retired, retiring, task_counter, continuation_counter,
                       continuation, running, c_dependent, tasks, call_task, links>>
        /\ call' = [call EXCEPT ![u] = "notify"] \/ call' = [call EXCEPT ![u] = "none"]
    BY <1>4 DEF CallStep, Enqueue, Notify, graph_vars, retire_vars, id_vars, worker_vars, history_vars
  <2>2. \A w \in Worker : Building(w) => Building(w)' /\ c_dependent'[w] = c_dependent[w]
    BY <2>1 DEF Building
  <2>3. \A w \in Worker : call'[w] = "park" => call[w] = "park"
    BY <2>1, Threads DEF TypeOK
  <2> QED
    BY <1>1, <1>2, <2>1, <2>2, <2>3
<1>5. ASSUME SchedulerStep PROVE TableInv' /\ WaitInv'
  <2>1. CASE Dispatch \/ DispatchEnd \/ CheckHalt \/ PopSignal
    <3>1. UNCHANGED <<nodes, dependents, retired, retiring, task_counter, continuation_counter,
                      continuation, running, c_dependent, tasks, call, call_task, links>>
      BY <2>1 DEF Dispatch, DispatchEnd, CheckHalt, PopSignal, graph_vars, retire_vars, id_vars,
                  worker_vars, history_vars, queue_vars, call_vars
    <3> QED
      BY <1>3, <3>1
  <2>2. CASE FreeWorker \/ StopWorkers \/ JoinWorkers
    <3>1. UNCHANGED <<nodes, dependents, retired, retiring, task_counter, continuation_counter,
                      continuation, running, c_dependent, tasks, call, call_task, links>>
      BY <2>2 DEF FreeWorker, StopWorkers, JoinWorkers, graph_vars, retire_vars, id_vars,
                  worker_vars, history_vars, queue_vars, call_vars
    <3> QED
      BY <1>3, <3>1
  <2>3. CASE PopCompletion
    <3> DEFINE x == Head(scheduler_msg_queue).task
    <3>1. /\ UNCHANGED <<nodes, dependents, task_counter, continuation_counter, continuation, running,
                         c_dependent, tasks, call, call_task, links>>
          /\ retiring' = IF x \in nodes THEN <<x>> ELSE << >>
          /\ retired' = retired \cup {x}
          /\ sched_pc = "pop"
      BY <2>3 DEF PopCompletion, StartRetiring, graph_vars, id_vars, worker_vars, call_vars
    <3>2. WaitInv'
      BY <1>2, <3>1
    <3>3. \A n \in nodes : n \notin retired
      <4>1. retiring = << >>
        BY <3>1 DEF ControlInv, ParkedInv
      <4>2. \A i \in DOMAIN retiring : FALSE
        BY <4>1, SMTT(30)
      <4> QED
        BY <4>2 DEF TableInv
    <3>4. \A n \in nodes' \cap retired' : \E i \in DOMAIN retiring' : retiring'[i] = n
      <4> TAKE n \in nodes' \cap retired'
      <4>1. n = x /\ x \in nodes
        BY <3>1, <3>3
      <4>2. retiring' = <<x>>
        BY <3>1, <4>1
      <4>3. 1 \in DOMAIN retiring' /\ retiring'[1] = x
        BY <4>2, SMTT(30)
      <4> QED
        BY <4>1, <4>3
    <3>5. /\ \A n : Dependencies(n)' = Dependencies(n)
          /\ \A n : Allocated(n)' <=> Allocated(n)
          /\ \A w : Building(w)' <=> Building(w)
      BY <3>1 DEF Dependencies, Allocated, Building
    <3>6. TableInv'
      BY <3>1, <3>4, <3>5 DEF TableInv
    <3> QED
      BY <3>2, <3>6
  <2> QED
    BY <1>4, <1>5, <2>1, <2>2, <2>3, Threads, ProcessDependentStep, EraseNodeStep
    DEF SchedulerStep, RetireStep
<1>6. ASSUME MainStep PROVE TableInv' /\ WaitInv'
  <2>1. CASE Start \/ Join
    <3>1. UNCHANGED <<nodes, dependents, retired, retiring, task_counter, continuation_counter,
                      continuation, running, c_dependent, tasks, call, call_task, links>>
      BY <2>1 DEF Start, Join, graph_vars, retire_vars, id_vars, worker_vars, history_vars,
                  queue_vars, call_vars
    <3> QED
      BY <1>3, <3>1
  <2>2. CASE JoinReturns
    <3>1. /\ nodes' = {} /\ tasks' = {} /\ dependents' = NoDependents /\ links' = {}
          /\ call' = call /\ sched_pc = "exited"
      BY <2>2 DEF JoinReturns, Cleared
    <3>2. \A n \in NodeID : dependents'[n] = {}
      BY <3>1 DEF NoDependents
    <3>3. \A w \in Worker : call'[w] # "park"
      BY <3>1, Threads, NoCalls DEF Stopped
    <3> QED
      BY <3>1, <3>2, <3>3 DEF TableInv, WaitInv
  <2> QED
    BY <1>4, <1>6, <2>1, <2>2, Threads, AddTaskStep DEF MainStep
<1>7. ASSUME NEW v \in Worker, WorkerStep(v) PROVE TableInv' /\ WaitInv'
  <2>1. CASE WorkerPopJoin(v)
    <3>1. UNCHANGED <<nodes, dependents, retired, retiring, task_counter, continuation_counter,
                      continuation, running, c_dependent, tasks, call, call_task, links>>
      BY <2>1 DEF WorkerPopJoin, graph_vars, retire_vars, id_vars, history_vars, queue_vars, call_vars
    <3> QED
      BY <1>3, <3>1
  <2>2. CASE WorkerPopTask(v) \/ FinishTask(v)
    <3>1. /\ UNCHANGED <<nodes, dependents, retired, retiring, task_counter, continuation_counter,
                         continuation, tasks, call, call_task, links>>
          /\ \E y, z : /\ running' = [running EXCEPT ![v] = y]
                       /\ c_dependent' = [c_dependent EXCEPT ![v] = z]
      BY <2>2 DEF WorkerPopTask, FinishTask, graph_vars, retire_vars, id_vars, history_vars,
                  queue_vars, call_vars
    <3>2. ~Building(v) /\ call[v] = "none"
      <4>1. CASE WorkerPopTask(v)
        <5>1. running[v] = 0
          BY <4>1, <1>7 DEF WorkerPopTask, ControlInv
        <5> QED
          BY <5>1, <1>7 DEF Building, ControlInv
      <4>2. CASE FinishTask(v)
        BY <4>2 DEF FinishTask
      <4> QED
        BY <2>2, <4>1, <4>2
    <3>3. \A w \in Worker : w # v => running'[w] = running[w] /\ c_dependent'[w] = c_dependent[w]
      BY <3>1 DEF TypeOK
    <3>4. \A w \in Worker : Building(w) => Building(w)' /\ c_dependent'[w] = c_dependent[w]
      BY <3>1, <3>2, <3>3 DEF Building
    <3>5. \A w \in Worker : call'[w] = "park" => call[w] = "park" /\ c_dependent'[w] = c_dependent[w]
      BY <3>1, <3>2, <3>3
    <3> QED
      BY <1>1, <1>2, <3>1, <3>4, <3>5
  <2>3. CASE Park(v)
    <3>1. /\ UNCHANGED <<nodes, dependents, retired, retiring, task_counter, continuation_counter,
                         continuation, running, c_dependent, call_task, links>>
          /\ tasks' = tasks \cup {call_task[v]} /\ call[v] = "park"
          /\ call' = [call EXCEPT ![v] = "none"]
      BY <2>3 DEF Park, graph_vars, retire_vars, id_vars, worker_vars, history_vars
    <3>2. \A w \in Worker : Building(w) => Building(w)' /\ c_dependent'[w] = c_dependent[w]
      BY <3>1 DEF Building
    <3>3. TableInv'
      BY <1>1, <3>1, <3>2
    <3>4. \A n : Dependencies(n)' = Dependencies(n)
      BY <3>1 DEF Dependencies
    <3>5. Dependencies(call_task[v]) = {c_dependent[v]} /\ c_dependent[v] \in Continuation
      BY <1>7, <3>1 DEF WaitInv, ParkedInv, ChainInv
    <3>6. \A x \in tasks' : \E c \in Continuation : Dependencies(x)' = {c}
      BY <3>1, <3>4, <3>5 DEF WaitInv
    <3>7. \A w \in Worker : call'[w] = "park" => call[w] = "park"
      BY <3>1, Threads DEF TypeOK
    <3>8. \A w \in Worker : (call[w] = "park" => Dependencies(call_task[w]) = {c_dependent[w]})'
      BY <3>1, <3>7 DEF WaitInv, Dependencies
    <3> QED
      BY <3>1, <3>3, <3>6, <3>8 DEF WaitInv
  <2> QED
    BY <1>4, <1>7, <2>1, <2>2, <2>3, Threads, AddTaskStep DEF WorkerStep
<1> QED
  BY <1>5, <1>6, <1>7 DEF Next

------------------------------------------------------------------------------
(* The invariant *)

\* A new scheduler has no messages, no nodes and no waiting tasks.
LEMMA InitJoinInv == Init => JoinIndInv
<1> SUFFICES ASSUME Init PROVE JoinIndInv
  OBVIOUS
<1>1. IndInv
  BY InitInv
<1>2. /\ scheduler_msg_queue = << >> /\ halt = FALSE /\ sched_pc = "off" /\ nodes = {} /\ tasks = {}
      /\ dependents = NoDependents /\ worker_msg_queue = [w \in Worker |-> << >>]
      /\ call = [thr \in Thread |-> "none"] /\ links = {} /\ finished = {}
  BY DEF Init, Cleared
<1>3. Messages = {}
  BY <1>2, SMTT(30) DEF Messages
<1>4. \A w \in Worker : WorkerMessages(w) = {}
  BY <1>2, SMTT(30) DEF WorkerMessages
<1>5. SignalInv /\ PendingInv
  BY <1>2, <1>3 DEF SignalInv, PendingInv, Stopped
<1>6. StopInv
  BY <1>2, <1>4 DEF StopInv
<1>7. \A n \in NodeID : dependents[n] = {}
  BY <1>2 DEF NoDependents
<1>8. \A w \in Worker : call[w] # "park"
  BY <1>2, Threads
<1>9. TableInv /\ WaitInv
  BY <1>2, <1>7, <1>8 DEF TableInv, WaitInv
<1> QED
  BY <1>1, <1>5, <1>6, <1>9 DEF JoinIndInv

\* Every step of the scheduler keeps the strengthened invariant.
LEMMA NextJoinInv == JoinIndInv /\ [Next]_vars => JoinIndInv'
<1>1. ASSUME JoinIndInv, Next PROVE JoinIndInv'
  <2>1. IndInv /\ SignalInv /\ StopInv /\ PendingInv /\ TableInv /\ WaitInv
    BY <1>1 DEF JoinIndInv
  <2>2. IndInv'
    BY <1>1, <2>1, NextInv
  <2>3. SignalInv' /\ StopInv' /\ PendingInv' /\ TableInv' /\ WaitInv'
    BY <1>1, <2>1, <2>2, SignalStep, StopStep, PendingStep, TableStep
  <2> QED
    BY <2>2, <2>3 DEF JoinIndInv
<1>2. ASSUME JoinIndInv, UNCHANGED vars PROVE JoinIndInv'
  <2>1. IndInv'
    BY <1>2, NextInv DEF JoinIndInv
  <2>2. UNCHANGED <<nodes, dependents, retired, retiring, task_counter, continuation_counter,
                    continuation, running, c_dependent, tasks, call, call_task, links>>
    BY <1>2 DEF vars, graph_vars, retire_vars, id_vars, worker_vars, history_vars, queue_vars, call_vars
  <2>3. UNCHANGED <<scheduler_msg_queue, halt, main_pc, sched_pc, task_queue, worker_pc,
                    worker_msg_queue, finished>>
    BY <1>2 DEF vars, sched_vars, worker_vars, history_vars, queue_vars
  <2>4. /\ Messages' = Messages /\ (Stopped' <=> Stopped)
        /\ \A w : WorkerMessages(w)' = WorkerMessages(w)
        /\ \A n : Dependencies(n)' = Dependencies(n)
        /\ \A n : Allocated(n)' <=> Allocated(n)
        /\ \A w : Building(w)' <=> Building(w)
    BY <2>2, <2>3 DEF Messages, Stopped, WorkerMessages, Dependencies, Allocated, Building
  <2>5. SignalInv' /\ PendingInv'
    BY <1>2, <2>2, <2>3, <2>4 DEF JoinIndInv, SignalInv, PendingInv
  <2>6. StopInv'
    BY <1>2, <2>3, <2>4 DEF JoinIndInv, StopInv
  <2>7. TableInv'
    BY <1>2, <2>2, <2>4 DEF JoinIndInv, TableInv
  <2>8. WaitInv'
    BY <1>2, <2>2, <2>4 DEF JoinIndInv, WaitInv, Dependencies
  <2> QED
    BY <2>1, <2>5, <2>6, <2>7, <2>8 DEF JoinIndInv
<1> QED
  BY <1>1, <1>2

\* The strengthened invariant holds in every reachable state.
THEOREM JoinInvariance == Spec => []JoinIndInv
<1>1. Init => JoinIndInv
  BY InitJoinInv
<1>2. JoinIndInv /\ [Next]_vars => JoinIndInv'
  BY NextJoinInv
<1> QED
  BY <1>1, <1>2, PTL DEF Spec

------------------------------------------------------------------------------
(* join() *)

\* When the scheduler thread has left its loop, a task in the node table is a deferred one.
LEMMA StoppedNodes ==
  ASSUME JoinIndInv, Stopped
  PROVE  /\ \A k \in TaskID : k < task_counter => k \in tasks \/ k \in finished
         /\ finished \subseteq retired
         /\ \A n \in nodes : n \notin retired
         /\ \A w \in Worker : ~Building(w)
<1> USE DEF JoinIndInv, IndInv, CoreInv
<1>1. /\ \A thr \in Thread : call[thr] = "none"
      /\ \A w \in Worker : /\ Available(w) /\ ~Assigned(w) /\ running[w] = 0 /\ ~Returning(w)
      /\ retiring = << >> /\ task_queue = << >>
  BY NoCalls DEF SignalInv
<1>2. \A k \in TaskID : k < task_counter => k \in tasks \/ k \in finished
  <2> TAKE k \in TaskID
  <2>1. k # 0
    BY NodeIDs DEF NodeID
  <2>2. ~InCall(k) /\ ~IsRunning(k)
    BY <1>1, <2>1 DEF InCall, IsRunning
  <2>3. ~Queued(k)
    BY <1>1, SMTT(30) DEF Queued
  <2>4. ~Sent(k)
    BY <1>1, <2>1 DEF Sent, Assigned, WorkerJoin
  <2> QED
    BY <2>2, <2>3, <2>4 DEF TasksConserved
<1>3. finished \subseteq retired
  <2>1. \A i \in DOMAIN scheduler_msg_queue : scheduler_msg_queue[i] \in SchedulerMessage
    BY SMTT(30) DEF TypeOK
  <2>2. \A msg \in SchedulerMessage : msg.worker \in Worker
    BY SMTT(30) DEF SchedulerMessage
  <2>3. \A i \in DOMAIN scheduler_msg_queue : scheduler_msg_queue[i].type # "TaskCompletion"
    BY <1>1, <2>1, <2>2 DEF Returning, Reported
  <2>4. \A msg \in Messages : msg.type # "TaskCompletion"
    BY <2>3 DEF Messages
  <2> QED
    BY <2>4 DEF PendingInv
<1>4. \A n \in nodes : n \notin retired
  <2>1. \A i \in DOMAIN retiring : FALSE
    BY <1>1, SMTT(30)
  <2> QED
    BY <2>1 DEF TableInv
<1>5. \A w \in Worker : ~Building(w)
  BY <1>1 DEF Building
<1> QED
  BY <1>2, <1>3, <1>4, <1>5

\* No task is deferred then: the last of them would wait for a later one.
LEMMA StoppedTasks ==
  ASSUME JoinIndInv, Stopped
  PROVE  tasks = {} /\ nodes = {}
<1> USE DEF JoinIndInv, IndInv, CoreInv
<1>1. \A n \in nodes \cap TaskID : n \in tasks
  <2>1. \A n \in TaskID : Allocated(n) => n < task_counter
    BY SchedulerAssumption, SMTT(30) DEF Allocated, TaskID
  <2> QED
    BY <2>1, StoppedNodes DEF TableInv
<1>2. ASSUME NEW c \in nodes \cap Continuation
      PROVE  \E n \in tasks : <<n, c>> \in links
  <2>1. PICK n \in Dependencies(c) : TRUE
    BY StoppedNodes DEF TableInv
  <2>2. n \in NodeID /\ c \in dependents[n] /\ <<n, c>> \in links
    BY <2>1, <1>2 DEF Dependencies, GraphInv
  <2>3. <<n, c>>[1] = n /\ <<n, c>>[2] = c
    OBVIOUS
  <2>4. n \in TaskID
    BY <1>2, <2>2, <2>3 DEF WaitInv
  <2>5. n \in nodes
    BY <2>2 DEF TableInv
  <2> QED
    BY <1>1, <2>2, <2>4, <2>5
<1>3. ASSUME NEW m \in tasks PROVE \E n \in tasks : m < n
  <2>1. PICK c \in Continuation : Dependencies(m) = {c}
    BY <1>3 DEF WaitInv
  <2>2. c \in NodeID /\ m \in dependents[c] /\ <<c, m>> \in links
    BY <2>1 DEF Dependencies, GraphInv
  <2>3. c \in nodes
    BY <2>2 DEF TableInv
  <2>4. PICK n \in tasks : <<n, c>> \in links
    BY <1>2, <2>1, <2>3
  <2>5. /\ <<n, c>>[1] = n /\ <<n, c>>[2] = c /\ <<c, m>>[1] = c /\ <<c, m>>[2] = m
        /\ n \in TaskID
    BY <2>4 DEF TypeOK
  <2>6. <<c, m>>[2] < <<n, c>>[1]
    BY <2>2, <2>4, <2>5 DEF WaitInv
  <2> QED
    BY <2>4, <2>5, <2>6
<1>4. tasks = {}
  <2> SUFFICES ASSUME tasks # {} PROVE FALSE
    OBVIOUS
  <2> DEFINE Left == {kContinuationMask - k : k \in tasks}
  <2>0. \A k \in tasks : k \in TaskID
    BY DEF TypeOK
  <2>1. Left # {} /\ Left \subseteq Nat
    <3>1. \A k \in TaskID : kContinuationMask - k \in Nat
      BY SchedulerAssumption, SMTT(30) DEF TaskID
    <3>2. \A k \in tasks : kContinuationMask - k \in Nat
      BY <2>0, <3>1
    <3> QED
      BY <3>2
  <2>2. PICK x \in Left : \A y \in Left : ~(<<y, x>> \in OpToRel(<, Nat))
    <3> HIDE DEF Left
    <3> QED
      BY <2>1, NatLessThanWellFounded, WFMin
  <2>3. PICK m \in tasks : x = kContinuationMask - m
    BY <2>2
  <2>4. PICK n \in tasks : m < n
    BY <1>3, <2>3
  <2>5. kContinuationMask - n \in Left
    BY <2>4
  <2>6. kContinuationMask - n \in Nat /\ x \in Nat /\ kContinuationMask - n < x
    <3>1. /\ m \in TaskID /\ n \in TaskID /\ m < n /\ x = kContinuationMask - m
          /\ x \in Nat /\ kContinuationMask - n \in Nat
      BY <2>0, <2>1, <2>2, <2>3, <2>4, <2>5
    <3> QED
      BY SchedulerAssumption, <3>1, SMTT(30) DEF TaskID
  <2>7. <<kContinuationMask - n, x>> \in OpToRel(<, Nat)
    BY <2>6, SMTT(30) DEF OpToRel
  <2> QED
    BY <2>2, <2>5, <2>7
<1>5. nodes = {}
  <2>1. \A n \in nodes : n \in TaskID \/ n \in Continuation
    BY DEF TypeOK, NodeID
  <2> QED
    BY <1>1, <1>2, <1>4, <2>1
<1> QED
  BY <1>4, <1>5

\* join() is a barrier in every state of the invariant.
LEMMA JoinLosesNothingFollows == JoinIndInv => JoinLosesNothing
<1> SUFFICES ASSUME JoinIndInv PROVE JoinLosesNothing
  OBVIOUS
<1>1. ASSUME Stopped
      PROVE  /\ \A k \in TaskID : k < task_counter => k \in finished
             /\ nodes = {} /\ tasks = {} /\ task_queue = << >>
             /\ \A thr \in Thread : call[thr] = "none"
  <2>1. tasks = {} /\ nodes = {}
    BY <1>1, StoppedTasks
  <2>2. \A k \in TaskID : k < task_counter => k \in finished
    BY <1>1, <2>1, StoppedNodes
  <2>3. task_queue = << >> /\ \A thr \in Thread : call[thr] = "none"
    BY <1>1, NoCalls DEF JoinIndInv, SignalInv
  <2> QED
    BY <2>1, <2>2, <2>3
<1>2. ASSUME sched_pc = "exited" PROVE \A w \in Worker : worker_msg_queue[w] = << >>
  BY <1>2 DEF JoinIndInv, IndInv, CoreInv, ControlInv, StopInv
<1> QED
  BY <1>1, <1>2 DEF JoinLosesNothing, Stopped

\* Scheduler::join() returns only when every task that was added has been executed, the
\* node table and the queues are empty and nobody is inside addTask: clear() drops nothing.
THEOREM JoinLosesNothingHolds == Spec => []JoinLosesNothing
BY JoinInvariance, JoinLosesNothingFollows, PTL

------------------------------------------------------------------------------
(* The scheduler implements the task graph: every step of a thread is a step of *)
(* TaskGraph, with the variables of the graph read off the scheduler's, or none *)

\* The graph that the scheduler's variables stand for.
Added        == {t \in TaskID : t < task_counter}
StartedTasks == {t \in TaskID : Started(t)}
Passed       == retired \cap Continuation

\* Nothing has been added to an empty scheduler.
LEMMA InitRefines == Init => Graph!Init
<1> SUFFICES ASSUME Init PROVE Graph!Init
  OBVIOUS
<1>1. task_counter = 1 /\ links = {} /\ finished = {} /\ retired = {}
      /\ running = [w \in Worker |-> 0]
  BY DEF Init, Cleared
<1>2. Added = {}
  BY <1>1, SchedulerAssumption, SMTT(30) DEF Added, TaskID
<1>3. 0 \notin TaskID
  BY SchedulerAssumption, SMTT(30) DEF TaskID
<1>4. StartedTasks = {}
  BY <1>1, <1>3 DEF StartedTasks, Started
<1> QED
  BY <1>1, <1>2, <1>4 DEF Graph!Init, Added, StartedTasks

\* A step that adds, starts, ends and retires nothing leaves the graph alone.
LEMMA GraphUnchanged ==
  ASSUME UNCHANGED <<task_counter, links, retired, finished, running>>
  PROVE  UNCHANGED Graph!graph
<1>1. Added' = Added /\ StartedTasks' = StartedTasks
  BY DEF Added, StartedTasks, Started
<1> QED
  BY <1>1 DEF Graph!graph, Added, StartedTasks

\* Of what a node waited for, everything is over once the node table shows no
\* dependency but a retired one.
LEMMA ReadyNode ==
  ASSUME IndInv, NEW n \in NodeID, \A m \in Dependencies(n) : m \in retired
  PROVE  Graph!Ready(n)
<1> USE DEF IndInv, CoreInv
<1> SUFFICES ASSUME NEW e \in links, e[2] = n
             PROVE  e[1] \in finished \cup Passed
  BY DEF Graph!Ready, Graph!Over, Passed
<1>1. e[1] \in NodeID
  BY DEF TypeOK
<1>2. e[1] \in retired
  BY <1>1 DEF GraphInv, Dependencies
<1> QED
  BY <1>1, <1>2 DEF GraphInv, NodeID, Passed

\* addTask: a new task, its edges, and no edge at a continuation that was passed.
LEMMA AddTaskRefines ==
  ASSUME IndInv, NEW thr \in Thread,
         NEW dependency \in Continuation \cup {0}, dependency \notin retired,
         NEW dependent \in Continuation \cup {0}, dependent \notin retired,
         AddTask(thr, dependency, dependent),
         UNCHANGED <<retired, finished, running>>
  PROVE  Graph!Next
<1>0. PICK t : t = task_counter
  OBVIOUS
<1> USE DEF IndInv, CoreInv
<1>1. /\ t \in TaskID /\ 0 \notin Continuation /\ task_counter' = t + 1
      /\ links' = links \cup TaskEdges(t, dependency, dependent)
  <2>1. t < kContinuationMask /\ task_counter' = t + 1
        /\ links' = links \cup TaskEdges(t, dependency, dependent)
    BY <1>0 DEF AddTask, LinkNodes
  <2> QED
    BY <1>0, <2>1, SchedulerAssumption, SMTT(30) DEF TypeOK, TaskID, Continuation
<1>2. t \notin Added /\ Added' = Added \cup {t}
  BY <1>0, <1>1, SchedulerAssumption, SMTT(30) DEF Added, TypeOK, TaskID
<1>3. StartedTasks' = StartedTasks
  BY DEF StartedTasks, Started
<1> DEFINE before == {dependency} \ {0}
           after  == {dependent} \ {0}
<1>4. before \in SUBSET Continuation /\ after \in SUBSET Continuation
  OBVIOUS
<1>5. \A c \in before \cup after : ~Graph!Closed(c)
  BY <1>4, NodeIDs DEF Graph!Closed, Passed
<1>6. TaskEdges(t, dependency, dependent) =
        {<<c, t>> : c \in before} \cup {<<t, c>> : c \in after}
  <2>0. t # 0
    BY <1>1, NodeIDs DEF NodeID
  <2>1. TaskEdges(t, dependency, dependent)
          = (IF dependent # 0 THEN {<<t, dependent>>} ELSE {})
              \cup (IF dependency # 0 THEN {<<dependency, t>>} ELSE {})
    BY <2>0, SMTT(30) DEF TaskEdges
  <2>2. {<<c, t>> : c \in before} = IF dependency # 0 THEN {<<dependency, t>>} ELSE {}
    OBVIOUS
  <2>3. {<<t, c>> : c \in after} = IF dependent # 0 THEN {<<t, dependent>>} ELSE {}
    OBVIOUS
  <2> QED
    BY <2>1, <2>2, <2>3
<1>7. links' = links \cup {<<c, t>> : c \in before} \cup {<<t, c>> : c \in after}
  BY <1>1, <1>6
<1> HIDE DEF before, after
<1>8. Graph!Add(t)
  BY <1>2, <1>3, <1>4, <1>5, <1>7 DEF Graph!Add, Added, StartedTasks
<1>9. t \in TaskID
  BY <1>1
<1> QED
  BY <1>8, <1>9 DEF Graph!Next

\* popOne() hands a worker a task: the task starts, and all it waited for is over.
LEMMA WorkerPopTaskRefines ==
  ASSUME IndInv, NEW w \in Worker, WorkerPopTask(w)
  PROVE  Graph!Next
<1> DEFINE t == Head(worker_msg_queue[w])
<1> USE DEF IndInv, CoreInv
<1>1. /\ worker_msg_queue[w] \in Seq(TaskID \cup {WorkerJoin}) /\ worker_msg_queue[w] # << >>
      /\ t # WorkerJoin /\ worker_pc[w] = "idle"
      /\ running' = [running EXCEPT ![w] = t]
      /\ UNCHANGED <<task_counter, links, retired, finished>>
  BY DEF WorkerPopTask, TypeOK, id_vars, history_vars
<1>2. t \in TaskID /\ t = worker_msg_queue[w][1] /\ 1 \in DOMAIN worker_msg_queue[w]
  BY <1>1, TailElements, SMTT(30)
<1>3. Sent(t)
  BY <1>2 DEF Sent
<1>4. t < task_counter /\ ~IsRunning(t) /\ t \notin finished
  BY <1>2, <1>3 DEF TasksConserved
<1>5. Dependencies(t) = {}
  BY <1>1, <1>2 DEF ReleasedInv
<1>6. Graph!Ready(t)
  BY <1>2, <1>5, ReadyNode DEF NodeID
<1>7. running[w] = 0 /\ 0 \notin TaskID
  BY <1>1, NodeIDs DEF ControlInv, NodeID
<1>8. \A v \in Worker : running'[v] = IF v = w THEN t ELSE running[v]
  BY <1>1 DEF TypeOK
<1>9. StartedTasks' = StartedTasks \cup {t}
  BY <1>1, <1>2, <1>7, <1>8 DEF StartedTasks, Started
<1>10. Added' = Added /\ t \in Added \ StartedTasks
  BY <1>1, <1>2, <1>4 DEF Added, StartedTasks, Started, IsRunning
<1>11. Graph!Start(t)
  BY <1>1, <1>6, <1>9, <1>10 DEF Graph!Start, Added, StartedTasks
<1> QED
  BY <1>2, <1>11 DEF Graph!Next

\* execute() of a task returns: the task finishes, once.
LEMMA FinishTaskRefines ==
  ASSUME IndInv, NEW w \in Worker, FinishTask(w)
  PROVE  Graph!Next
<1> DEFINE t == running[w]
<1> USE DEF IndInv, CoreInv
<1>1. /\ t # 0 /\ running' = [running EXCEPT ![w] = 0] /\ finished' = finished \cup {t}
      /\ UNCHANGED <<task_counter, links, retired>>
  BY DEF FinishTask, id_vars
<1>2. t \in TaskID /\ 0 \notin TaskID
  BY <1>1, NodeIDs DEF TypeOK, NodeID
<1>3. t \notin finished
  BY <1>2 DEF TasksConserved, IsRunning
<1>4. \A v \in Worker : running'[v] = IF v = w THEN 0 ELSE running[v]
  BY <1>1 DEF TypeOK
<1>5. StartedTasks' = StartedTasks /\ Added' = Added
  BY <1>1, <1>2, <1>4 DEF StartedTasks, Started, Added
<1>6. t \in StartedTasks \ finished
  BY <1>2, <1>3 DEF StartedTasks, Started
<1>7. Graph!Finish(t)
  BY <1>1, <1>5, <1>6 DEF Graph!Finish, Added, StartedTasks
<1> QED
  BY <1>2, <1>7 DEF Graph!Next

\* One round of processDependentsUnsafe: when it takes the last dependency of a
\* continuation the continuation is passed, otherwise the graph stays as it is.
LEMMA ProcessDependentRefines ==
  ASSUME IndInv, ProcessDependent(SchedulerThread)
  PROVE  [Graph!Next]_(Graph!graph)
<1> DEFINE node == retiring[Len(retiring)]
<1> USE DEF IndInv, CoreInv
<1>1. PICK d \in dependents[node] :
        IF dependency_count[d] = 1 /\ ~IsTaskID(d) THEN retired' = retired \cup {d}
                                                   ELSE retired' = retired
  BY DEF ProcessDependent
<1>2. UNCHANGED <<task_counter, links, finished, running>> /\ retiring # << >>
  BY DEF ProcessDependent, id_vars, worker_vars
<1>3. node \in NodeID /\ node \in retired
  <2>1. Len(retiring) \in DOMAIN retiring
    BY <1>2, FrontElements, SMTT(30) DEF TypeOK
  <2> QED
    BY <2>1 DEF GraphInv, TypeOK
<1>4. d \in NodeID /\ node \in Dependencies(d)
  BY <1>3 DEF TypeOK, Dependencies
<1>5. CASE ~(dependency_count[d] = 1 /\ ~IsTaskID(d))
  BY <1>1, <1>2, <1>5, GraphUnchanged
<1>6. CASE dependency_count[d] = 1 /\ ~IsTaskID(d)
  <2>1. Cardinality(Dependencies(d)) = 1
    BY <1>4, <1>6 DEF GraphInv
  <2>2. \A m \in Dependencies(d) : m = node
    <3>1. IsFiniteSet(Dependencies(d))
      BY DependenciesFinite
    <3>2. PICK x : Dependencies(d) = {x}
      BY <2>1, <3>1, FS_Singleton
    <3> QED
      BY <1>4, <3>2
  <2>3. Graph!Ready(d)
    BY <1>3, <1>4, <2>2, ReadyNode
  <2>4. d \in Continuation
    BY <1>4, <1>6, SchedulerAssumption, SMTT(30) DEF NodeID, IsTaskID, TaskID, Continuation
  <2>5. d \notin retired
    BY <1>4 DEF GraphInv
  <2>6. d \notin Passed /\ Passed' = Passed \cup {d}
    BY <1>1, <1>6, <2>4, <2>5 DEF Passed
  <2>7. Added' = Added /\ StartedTasks' = StartedTasks
    BY <1>2 DEF Added, StartedTasks, Started
  <2>8. Graph!Pass(d)
    BY <1>2, <2>3, <2>6, <2>7 DEF Graph!Pass, Added, StartedTasks, Passed
  <2> QED
    BY <2>4, <2>8 DEF Graph!Next
<1> QED
  BY <1>5, <1>6

\* join() returns: clear() throws a graph away that has been executed completely.
LEMMA JoinReturnsRefines ==
  ASSUME JoinIndInv, JoinReturns
  PROVE  Graph!Next
<1> USE DEF IndInv, CoreInv, JoinIndInv
<1>1. /\ sched_pc = "exited" /\ task_counter' = 1 /\ links' = {} /\ retired' = {} /\ finished' = {}
      /\ running' = running
  BY DEF JoinReturns, Cleared, worker_vars
<1>2. \A t \in TaskID : t < task_counter => t \in finished
  BY <1>1, JoinLosesNothingFollows DEF JoinLosesNothing
<1>3. finished = Added
  BY <1>2 DEF Added, TasksConserved, TypeOK
<1>4. \A w \in Worker : running'[w] = 0
  BY <1>1, NoCalls DEF Stopped
<1>5. Added' = {} /\ 0 \notin TaskID
  BY <1>1, SchedulerAssumption, SMTT(30) DEF Added, TaskID
<1>6. StartedTasks' = {}
  BY <1>1, <1>4, <1>5 DEF StartedTasks, Started
<1>7. Graph!Reset
  BY <1>1, <1>3, <1>5, <1>6 DEF Graph!Reset, Added, StartedTasks
<1> QED
  BY <1>7 DEF Graph!Next

\* Every step of a thread is a step of the task graph, or leaves it alone.
LEMMA NextRefines == JoinIndInv /\ [Next]_vars => [Graph!Next]_(Graph!graph)
<1> SUFFICES ASSUME JoinIndInv, [Next]_vars PROVE [Graph!Next]_(Graph!graph)
  OBVIOUS
<1> USE DEF IndInv, CoreInv, JoinIndInv
<1>1. ASSUME NEW u \in Thread, CallStep(u) PROVE [Graph!Next]_(Graph!graph)
  BY <1>1, GraphUnchanged DEF CallStep, Enqueue, Notify, id_vars, worker_vars, history_vars
<1>2. ASSUME SchedulerStep PROVE [Graph!Next]_(Graph!graph)
  <2>1. CASE \/ Dispatch \/ DispatchEnd \/ CheckHalt \/ PopSignal \/ FreeWorker
             \/ StopWorkers \/ JoinWorkers
    <3>1. UNCHANGED <<task_counter, links, retired, finished, running>>
      BY <2>1 DEF Dispatch, DispatchEnd, CheckHalt, PopSignal, FreeWorker, StopWorkers,
                  JoinWorkers, id_vars, worker_vars, history_vars
    <3> QED
      BY <3>1, GraphUnchanged
  <2>2. CASE PopCompletion
    <3> DEFINE msg == Head(scheduler_msg_queue)
    <3>1. /\ scheduler_msg_queue # << >> /\ msg.type = "TaskCompletion"
          /\ retired' = retired \cup {msg.task}
          /\ UNCHANGED <<task_counter, links, finished, running>>
      BY <2>2 DEF PopCompletion, StartRetiring, id_vars, worker_vars
    <3>2. 1 \in DOMAIN scheduler_msg_queue /\ msg = scheduler_msg_queue[1]
      BY <3>1, TailElements, SMTT(30) DEF TypeOK
    <3>3. msg.task \in TaskID
      BY <3>1, <3>2 DEF ControlInv, TypeOK
    <3>4. Passed' = Passed
      BY <3>1, <3>3, NodeIDs DEF Passed
    <3>5. Added' = Added /\ StartedTasks' = StartedTasks
      BY <3>1 DEF Added, StartedTasks, Started
    <3> QED
      BY <3>1, <3>4, <3>5 DEF Graph!graph, Added, StartedTasks, Passed
  <2>3. CASE EraseNode(SchedulerThread)
    BY <2>3, GraphUnchanged DEF EraseNode, id_vars, worker_vars, history_vars
  <2> QED
    BY <1>1, <1>2, <2>1, <2>2, <2>3, ProcessDependentRefines, Threads
    DEF SchedulerStep, RetireStep
<1>3. ASSUME MainStep PROVE [Graph!Next]_(Graph!graph)
  <2>1. CASE MainAddTask
    <3>1. /\ AddTask(MainThread, 0, 0) /\ UNCHANGED <<retired, finished, running>>
      BY <2>1 DEF MainAddTask, worker_vars
    <3>2. 0 \notin retired /\ MainThread \in Thread
      BY NodeIDs, Threads DEF TypeOK
    <3> QED
      BY <3>1, <3>2, AddTaskRefines
  <2>2. CASE Start \/ Join
    BY <2>2, GraphUnchanged DEF Start, Join, id_vars, worker_vars, history_vars
  <2> QED
    BY <1>1, <1>3, <2>1, <2>2, JoinReturnsRefines, Threads DEF MainStep
<1>4. ASSUME NEW w \in Worker, WorkerStep(w) PROVE [Graph!Next]_(Graph!graph)
  <2>1. CASE ChainNext(w) \/ SpawnTask(w)
    <3>1. PICK dependency \in {0, continuation_counter} :
            /\ AddTask(w, dependency, c_dependent[w]) /\ running[w] # 0
            /\ UNCHANGED <<retired, finished, running>>
            /\ dependency # 0 => continuation_counter <= kContinuationMask + MaxContinuations
      BY <2>1 DEF ChainNext, SpawnTask, worker_vars
    <3>2. /\ c_dependent[w] \in Continuation \cup {0} /\ c_dependent[w] \notin retired
      BY <1>4, <3>1, DependentWaits, NodeIDs DEF TypeOK
    <3>3. CASE dependency = 0
      <4>1. 0 \notin retired
        BY NodeIDs DEF TypeOK
      <4> QED
        BY <1>4, <3>1, <3>2, <3>3, <4>1, AddTaskRefines, Threads
    <3>4. CASE dependency # 0
      <4>1. dependency = continuation_counter
        BY <3>4
      <4>2. dependency \in Continuation /\ ~Allocated(dependency)
        BY <3>1, <3>4, <4>1, SchedulerAssumption, SMTT(30) DEF TypeOK, Continuation, Allocated
      <4>3. dependency \notin retired
        BY <4>2, FreshNode DEF NodeID
      <4> QED
        BY <1>4, <3>1, <3>2, <4>2, <4>3, AddTaskRefines, Threads
    <3> QED
      BY <3>3, <3>4
  <2>2. CASE WorkerPopJoin(w) \/ Park(w)
    BY <2>2, GraphUnchanged DEF WorkerPopJoin, Park, id_vars, worker_vars, history_vars
  <2> QED
    BY <1>1, <1>4, <2>1, <2>2, WorkerPopTaskRefines, FinishTaskRefines, Threads DEF WorkerStep
<1>5. CASE UNCHANGED vars
  BY <1>5, GraphUnchanged DEF vars, id_vars, worker_vars, history_vars
<1> QED
  BY <1>2, <1>3, <1>4, <1>5 DEF Next

\* The scheduler implements the task graph: with any number of workers, tasks and
\* continuations, every step of a thread is a step of the graph or none.
THEOREM Refinement == Spec => ImplementsTaskGraph
BY InitRefines, NextRefines, JoinInvariance, PTL DEF Spec, ImplementsTaskGraph, Graph!Spec

==============================================================================
