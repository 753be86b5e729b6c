---------------------------- MODULE SchedulerLoopProofs ----------------------
(***************************************************************************)
(* The steps of the scheduler thread and of the workers preserve the         *)
(* invariant, those that addTask and addTaskIntoQueue take after the node    *)
(* table is unlocked, and those of start and join.                           *)
(***************************************************************************)
EXTENDS SchedulerInvariant

\* Leaves are first-order; the ones that need arithmetic or functions cite SMT.
USE ZenonT(60)

------------------------------------------------------------------------------
(* addTask and addTaskIntoQueue after the node table is unlocked *)

\* A call puts a task that waits into tasks_.
LEMMA ParkInv ==
  ASSUME CoreInv, NEW w \in Worker, Park(w)
  PROVE  CoreInv'
<1> USE DEF CoreInv
<1> DEFINE x == call_task[w]
<1>u. UNCHANGED <<nodes, dependents, dependency_count, nodes_mutex, retiring, task_queue,
                  scheduler_msg_queue, task_counter, continuation_counter, continuation,
                  available_workers, halt, sched_pc, completed_worker, worker_pc,
                  worker_msg_queue, running, c_dependent, main_pc, call_task, links, retired,
                  finished>>
  BY DEF Park, graph_vars, retire_vars, id_vars, sched_vars, worker_vars, history_vars
<1>1. /\ w \in Thread /\ x \in TaskID
      /\ call[w] = "park"
      /\ call' = [call EXCEPT ![w] = "none"]
      /\ tasks' = tasks \cup {x}
  BY SchedulerAssumption, SMTT(30) DEF Park, ControlInv, Worker, Thread
<1>2. TypeOK'
  BY <1>u, <1>1 DEF TypeOK, CallOp
<1>3. GraphInv'
  BY <1>u, GraphFrame
<1>4. \A thr \in Thread : call'[thr] = IF thr = w THEN "none" ELSE call[thr]
  BY <1>1 DEF TypeOK
<1>5. ReleasedInv'
  BY <1>u, <1>4 DEF ReleasedInv, Dependencies
<1>6. ChainInv'
  BY <1>u, ChainFrame
<1>7. ControlInv'
  <2>1. \A thr \in Thread : /\ call'[thr] \in {"enqueue", "park"} => call[thr] = call'[thr]
                            /\ call[thr] = "none" => call'[thr] = "none"
    BY <1>4
  <2>2. Worker \subseteq Thread /\ SchedulerThread \in Thread /\ MainThread \in Thread
    BY Threads
  <2> QED
    BY <1>u, <2>1, <2>2 DEF ControlInv, Available
<1>8. WorkersConserved'
  BY <1>u, WorkersFrame
<1>9. /\ \A t \in TaskID : InCall(t)' <=> InCall(t) /\ t # x
      /\ \A t \in TaskID : Queued(t)' <=> Queued(t)
      /\ \A t \in TaskID : Sent(t)' <=> Sent(t)
      /\ \A t \in TaskID : IsRunning(t)' <=> IsRunning(t)
  BY <1>u, <1>1, <1>4, SMTT(40) DEF TasksConserved, InCall, Queued, Sent, IsRunning
<1>10. TasksConserved'
  BY <1>u, <1>1, <1>4, <1>9, SMTT(30) DEF TasksConserved, InCall
<1> QED
  BY <1>2, <1>3, <1>5, <1>6, <1>7, <1>8, <1>10


\* A call pushes a ready task onto task_queue_.
LEMMA EnqueueInv ==
  ASSUME CoreInv, NEW u \in Thread, Enqueue(u)
  PROVE  CoreInv'
<1> USE DEF CoreInv
<1> DEFINE x == call_task[u]
<1>u. UNCHANGED <<nodes, dependents, dependency_count, nodes_mutex, retiring, tasks,
                  scheduler_msg_queue, task_counter, continuation_counter, continuation,
                  available_workers, halt, sched_pc, completed_worker, worker_pc,
                  worker_msg_queue, running, c_dependent, main_pc, call_task, links, retired,
                  finished>>
  BY DEF Enqueue, graph_vars, retire_vars, id_vars, sched_vars, worker_vars, history_vars
<1>1. /\ x \in TaskID
      /\ call[u] = "enqueue"
      /\ call' = [call EXCEPT ![u] = "notify"]
      /\ task_queue \in Seq(TaskID)
      /\ task_queue' = Append(task_queue, x)
      /\ Dependencies(x) = {}
  BY DEF Enqueue, ControlInv, ReleasedInv, TypeOK
<1>a. /\ task_queue' \in Seq(TaskID)
      /\ DOMAIN task_queue = 1 .. Len(task_queue) /\ Len(task_queue) \in Nat
      /\ DOMAIN task_queue' = 1 .. Len(task_queue) + 1
      /\ \A i \in 1 .. Len(task_queue) + 1 :
           task_queue'[i] = IF i = Len(task_queue) + 1 THEN x ELSE task_queue[i]
  BY <1>1, AppendElements, SMTT(30)
<1>2. TypeOK'
  BY <1>u, <1>1, <1>a DEF TypeOK, CallOp
<1>3. GraphInv'
  BY <1>u, GraphFrame
<1>4. \A thr \in Thread : call'[thr] = IF thr = u THEN "notify" ELSE call[thr]
  BY <1>1 DEF TypeOK
<1>5. ReleasedInv'
  BY <1>u, <1>1, <1>a, <1>4, SMTT(40) DEF ReleasedInv, Dependencies
<1>6. ChainInv'
  BY <1>u, ChainFrame
<1>7. ControlInv'
  <2>1. \A thr \in Thread : call'[thr] \in {"enqueue", "park"} => call'[thr] = call[thr]
    BY <1>4
  <2>2. \A thr \in Thread : call[thr] = "none" => call'[thr] = "none"
    BY <1>1, <1>4
  <2> QED
    BY <1>u, <2>1, <2>2, Threads DEF ControlInv, Available
<1>8. WorkersConserved'
  BY <1>u, WorkersFrame
<1>9. /\ \A t \in TaskID : InCall(t)' <=> InCall(t) /\ t # x
      /\ \A t \in TaskID : Sent(t)' <=> Sent(t)
      /\ \A t \in TaskID : IsRunning(t)' <=> IsRunning(t)
      /\ InCall(x)
  BY <1>u, <1>1, <1>4, SMTT(30) DEF TasksConserved, InCall, Sent, IsRunning
<1>10. \A t \in TaskID : Queued(t)' <=> Queued(t) \/ t = x
  BY <1>a, SMTT(40) DEF Queued
<1>11. TasksConserved'
  <2>1. ~Queued(x) /\ x \notin tasks /\ ~Sent(x) /\ ~IsRunning(x) /\ x \notin finished
    BY <1>1, <1>9 DEF TasksConserved
  <2>2. \A i, j \in DOMAIN task_queue' : task_queue'[i] = task_queue'[j] => i = j
    <3>1. \A i \in DOMAIN task_queue : task_queue[i] # x /\ task_queue[i] \in TaskID
      BY <2>1, <1>1, SMTT(30) DEF Queued
    <3> QED
      BY <1>a, <3>1, SMTT(30) DEF TasksConserved
  <2> QED
    BY <1>u, <1>1, <1>4, <1>9, <1>10, <2>1, <2>2, SMTT(30) DEF TasksConserved, InCall
<1> QED
  BY <1>2, <1>3, <1>5, <1>6, <1>7, <1>8, <1>11

\* A call sends NewTask to the scheduler thread.
LEMMA NotifyInv ==
  ASSUME CoreInv, NEW u \in Thread, Notify(u)
  PROVE  CoreInv'
<1> USE DEF CoreInv
<1>u. UNCHANGED <<nodes, dependents, dependency_count, nodes_mutex, retiring, tasks, task_queue,
                  task_counter, continuation_counter, continuation, available_workers, halt,
                  sched_pc, completed_worker, worker_pc, worker_msg_queue, running, c_dependent,
                  main_pc, call_task, links, retired, finished>>
  BY DEF Notify, graph_vars, retire_vars, id_vars, sched_vars, worker_vars, history_vars
<1>1. /\ call[u] = "notify"
      /\ call' = [call EXCEPT ![u] = "none"]
      /\ scheduler_msg_queue \in Seq(SchedulerMessage)
      /\ scheduler_msg_queue' = Append(scheduler_msg_queue, NewTaskMessage)
      /\ NewTaskMessage \in SchedulerMessage
  BY SchedulerAssumption, SMTT(40) DEF Notify, PushNewTask, TypeOK, NewTaskMessage, SchedulerMessage, Worker
<1>a. /\ scheduler_msg_queue' \in Seq(SchedulerMessage)
      /\ DOMAIN scheduler_msg_queue = 1 .. Len(scheduler_msg_queue)
      /\ Len(scheduler_msg_queue) \in Nat
      /\ DOMAIN scheduler_msg_queue' = 1 .. Len(scheduler_msg_queue) + 1
      /\ \A i \in 1 .. Len(scheduler_msg_queue) + 1 :
           scheduler_msg_queue'[i] = IF i = Len(scheduler_msg_queue) + 1
                                     THEN NewTaskMessage ELSE scheduler_msg_queue[i]
  BY <1>1, AppendElements, SMTT(30)
<1>2. TypeOK'
  BY <1>u, <1>1, <1>a DEF TypeOK, CallOp
<1>3. GraphInv'
  BY <1>u, GraphFrame
<1>4. \A thr \in Thread : call'[thr] = IF thr = u THEN "none" ELSE call[thr]
  BY <1>1 DEF TypeOK
<1>5. ReleasedInv'
  BY <1>u, <1>4 DEF ReleasedInv, Dependencies
<1>6. ChainInv'
  BY <1>u, ChainFrame
<1>7. ControlInv'
  <2>1. \A i \in DOMAIN scheduler_msg_queue' :
          scheduler_msg_queue'[i].type = "TaskCompletion" =>
            scheduler_msg_queue'[i].task \in finished
    BY <1>a, SMTT(40) DEF ControlInv, NewTaskMessage
  <2>2. \A thr \in Thread : /\ call'[thr] \in {"enqueue", "park"} => call[thr] = call'[thr]
                            /\ call[thr] = "none" => call'[thr] = "none"
    BY <1>4
  <2>3. Worker \subseteq Thread /\ SchedulerThread \in Thread /\ MainThread \in Thread
    BY Threads
  <2> QED
    BY <1>u, <2>1, <2>2, <2>3 DEF ControlInv, Available
<1>8. WorkersConserved'
  <2>1. \A w \in Worker : \A i \in DOMAIN scheduler_msg_queue' :
          Reported(w, i)' <=> i \in DOMAIN scheduler_msg_queue /\ Reported(w, i)
    BY <1>a, SMTT(30) DEF Reported, NewTaskMessage
  <2> QED
    BY <1>u, <1>a, <2>1, SMTT(30)
       DEF WorkersConserved, Available, Assigned, Executing, Returning, Completing
<1>9. \A t \in TaskID : InCall(t)' <=> InCall(t)
  BY <1>1, <1>4 DEF Notify, InCall
<1>10. TasksConserved'
  BY <1>u, <1>1, <1>4, <1>9, SMTT(30) DEF TasksConserved, Queued, Sent, IsRunning
<1> QED
  BY <1>2, <1>3, <1>5, <1>6, <1>7, <1>8, <1>10

------------------------------------------------------------------------------
(* The scheduler thread *)

\* The dispatch loop ends.
LEMMA DispatchEndInv ==
  ASSUME CoreInv, DispatchEnd
  PROVE  CoreInv'
<1> USE DEF CoreInv
<1>u. UNCHANGED <<nodes, dependents, dependency_count, nodes_mutex, retiring, tasks, task_queue,
                  scheduler_msg_queue, task_counter, continuation_counter, continuation,
                  available_workers, halt, completed_worker, worker_pc, worker_msg_queue,
                  running, c_dependent, main_pc, call, call_task, links, retired, finished>>
  BY DEF DispatchEnd, graph_vars, retire_vars, queue_vars, id_vars, worker_vars, call_vars,
         history_vars
<1>a. sched_pc = "dispatch" /\ sched_pc' = "check"
  BY DEF DispatchEnd
<1>1. TypeOK'
  BY <1>u, <1>a DEF TypeOK
<1>2. GraphInv' /\ ReleasedInv' /\ ChainInv'
  BY <1>u, GraphFrame, ReleasedFrame, ChainFrame
<1>3. ControlInv'
  BY <1>u, <1>a DEF ControlInv, Available
<1>4. WorkersConserved' /\ TasksConserved'
  BY <1>u, <1>a, WorkersFrame, TasksFrame
<1> QED
  BY <1>1, <1>2, <1>3, <1>4

\* The scheduler thread joined its workers and returns from execute().
LEMMA JoinWorkersInv ==
  ASSUME CoreInv, JoinWorkers
  PROVE  CoreInv'
<1> USE DEF CoreInv
<1>u. UNCHANGED <<nodes, dependents, dependency_count, nodes_mutex, retiring, tasks, task_queue,
                  scheduler_msg_queue, task_counter, continuation_counter, continuation,
                  available_workers, halt, completed_worker, worker_pc, worker_msg_queue,
                  running, c_dependent, main_pc, call, call_task, links, retired, finished>>
  BY DEF JoinWorkers, graph_vars, retire_vars, queue_vars, id_vars, worker_vars, call_vars,
         history_vars
<1>a. sched_pc = "wait" /\ sched_pc' = "exited" /\ \A w \in Worker : worker_pc[w] = "off"
  BY DEF JoinWorkers
<1>1. TypeOK'
  BY <1>u, <1>a DEF TypeOK
<1>2. GraphInv' /\ ReleasedInv' /\ ChainInv'
  BY <1>u, GraphFrame, ReleasedFrame, ChainFrame
<1>3. ControlInv'
  BY <1>u, <1>a DEF ControlInv, Available
<1>4. WorkersConserved' /\ TasksConserved'
  BY <1>u, <1>a, WorkersFrame, TasksFrame
<1> QED
  BY <1>1, <1>2, <1>3, <1>4

\* popOne() on the scheduler's message queue takes the first report only.
LEMMA ReportsAfterPop ==
  ASSUME TypeOK, WorkersConserved, scheduler_msg_queue # << >>,
         scheduler_msg_queue' = Tail(scheduler_msg_queue)
  PROVE  /\ scheduler_msg_queue' \in Seq(SchedulerMessage)
         /\ Head(scheduler_msg_queue) = scheduler_msg_queue[1]
         /\ Head(scheduler_msg_queue) \in SchedulerMessage
         /\ 1 \in DOMAIN scheduler_msg_queue
         /\ \A i \in DOMAIN scheduler_msg_queue' : \E j \in DOMAIN scheduler_msg_queue :
              scheduler_msg_queue'[i] = scheduler_msg_queue[j]
         /\ \A w \in Worker : Returning(w)' <=> Returning(w) /\ ~Reported(w, 1)
         /\ \A w \in Worker : \A i, j \in DOMAIN scheduler_msg_queue' :
              Reported(w, i)' /\ Reported(w, j)' => i = j
<1> DEFINE q == scheduler_msg_queue
<1>1. /\ q' \in Seq(SchedulerMessage) /\ Head(q) = q[1] /\ Head(q) \in SchedulerMessage
      /\ DOMAIN q = 1 .. Len(q) /\ Len(q) \in Nat \ {0}
      /\ DOMAIN q' = 1 .. Len(q) - 1
      /\ \A i \in 1 .. Len(q) - 1 : q'[i] = q[i + 1]
  BY TailElements DEF TypeOK
<1>2. \A w \in Worker : \A i \in DOMAIN q' : Reported(w, i)' <=> Reported(w, i + 1)
  BY <1>1 DEF Reported
<1>3. \A i \in DOMAIN q' : i + 1 \in DOMAIN q /\ i + 1 # 1 /\ i \in Int
  BY <1>1, SMTT(30)
<1>4. \A w \in Worker : Returning(w)' <=> Returning(w) /\ ~Reported(w, 1)
  <2> TAKE w \in Worker
  <2>1. ASSUME Returning(w), ~Reported(w, 1) PROVE Returning(w)'
    <3> PICK i \in DOMAIN q : Reported(w, i)
      BY <2>1 DEF Returning
    <3> i # 1 /\ i - 1 \in DOMAIN q' /\ i - 1 + 1 = i
      BY <2>1, <1>1, SMTT(30)
    <3> Reported(w, i - 1)'
      BY <1>2
    <3> QED
      BY DEF Returning
  <2>2. ASSUME Returning(w)' PROVE Returning(w) /\ ~Reported(w, 1)
    <3> PICK i \in DOMAIN q' : Reported(w, i)'
      BY <2>2 DEF Returning
    <3> i + 1 \in DOMAIN q /\ i + 1 # 1 /\ Reported(w, i + 1) /\ 1 \in DOMAIN q
      BY <1>1, <1>2, <1>3, SMTT(30)
    <3> QED
      BY DEF Returning, WorkersConserved
  <2> QED
    BY <2>1, <2>2
<1>5. \A w \in Worker : \A i, j \in DOMAIN q' : Reported(w, i)' /\ Reported(w, j)' => i = j
  <2> TAKE w \in Worker
  <2> TAKE i, j \in DOMAIN q'
  <2> Reported(w, i + 1) /\ Reported(w, j + 1) => i + 1 = j + 1
    BY <1>3 DEF WorkersConserved
  <2> QED
    BY <1>2, <1>3, SMTT(30)
<1> QED
  BY <1>1, <1>3, <1>4, <1>5, SMTT(30)

\* The scheduler thread pops a Join or a NewTask message.
LEMMA PopSignalInv ==
  ASSUME CoreInv, PopSignal
  PROVE  CoreInv'
<1> USE DEF CoreInv
<1>u. UNCHANGED <<nodes, dependents, dependency_count, nodes_mutex, retiring, tasks, task_queue,
                  task_counter, continuation_counter, continuation, available_workers,
                  completed_worker, worker_pc, worker_msg_queue, running, c_dependent, main_pc,
                  call, call_task, links, retired, finished>>
  BY DEF PopSignal, graph_vars, retire_vars, id_vars, worker_vars, call_vars, history_vars
<1>1. /\ scheduler_msg_queue # << >>
      /\ scheduler_msg_queue' = Tail(scheduler_msg_queue)
      /\ Head(scheduler_msg_queue).type # "TaskCompletion"
      /\ sched_pc = "pop" /\ sched_pc' = "dispatch"
      /\ halt' = HaltAfter(Head(scheduler_msg_queue))
  BY DEF PopSignal
<1>a. scheduler_msg_queue' \in Seq(SchedulerMessage)
  BY <1>1, ReportsAfterPop
<1>b. halt' \in BOOLEAN
  BY <1>1 DEF HaltAfter, TypeOK
<1>2. TypeOK'
  BY <1>u, <1>1, <1>a, <1>b DEF TypeOK
<1>3. GraphInv' /\ ReleasedInv' /\ ChainInv'
  BY <1>u, GraphFrame, ReleasedFrame, ChainFrame
<1>4. ControlInv'
  <2>1. \A i \in DOMAIN scheduler_msg_queue' :
          scheduler_msg_queue'[i].type = "TaskCompletion" =>
            scheduler_msg_queue'[i].task \in finished
    BY <1>1, ReportsAfterPop DEF ControlInv
  <2> QED
    BY <1>u, <1>1, <2>1 DEF ControlInv, Available
<1>5. WorkersConserved'
  <2>1. \A w \in Worker : ~Reported(w, 1)
    BY <1>1, ReportsAfterPop DEF Reported
  <2> QED
    BY <1>u, <1>1, <2>1, ReportsAfterPop, SMTT(30)
       DEF WorkersConserved, Available, Assigned, Executing, Completing
<1>6. TasksConserved'
  BY <1>u, TasksFrame
<1> QED
  BY <1>2, <1>3, <1>4, <1>5, <1>6

\* The scheduler thread pops a completion and takes the node mutex.
LEMMA PopCompletionInv ==
  ASSUME CoreInv, PopCompletion
  PROVE  CoreInv'
<1> USE DEF CoreInv
<1> DEFINE q == scheduler_msg_queue
           x == Head(q).task
           v == Head(q).worker
<1>u. UNCHANGED <<nodes, dependents, dependency_count, tasks, task_queue, task_counter,
                  continuation_counter, continuation, available_workers, halt, worker_pc,
                  worker_msg_queue, running, c_dependent, main_pc, call, call_task, links,
                  finished>>
  BY DEF PopCompletion, graph_vars, id_vars, worker_vars, call_vars
<1>1. /\ q # << >> /\ q' = Tail(q)
      /\ Head(q).type = "TaskCompletion"
      /\ sched_pc = "pop" /\ sched_pc' = "retire"
      /\ retired' = retired \cup {x}
      /\ retiring' = << >> \/ retiring' = <<x>>
      /\ nodes_mutex' = SchedulerThread
      /\ completed_worker' = v
  BY DEF PopCompletion, StartRetiring
<1>2. v \in Worker /\ x \in finished /\ x \in TaskID /\ x \in NodeID
  <2>1. v \in Worker
    BY <1>1, ReportsAfterPop DEF SchedulerMessage
  <2>2. x \in finished
    BY <1>1, ReportsAfterPop DEF ControlInv
  <2> QED
    BY <2>1, <2>2 DEF TypeOK, NodeID
<1>3. x < task_counter /\ Dependencies(x) = {}
  BY <1>2 DEF TasksConserved, ReleasedInv
<1>4. TypeOK'
  <2>1. retired' \in SUBSET NodeID
    BY <1>1, <1>2 DEF TypeOK
  <2>2. nodes_mutex' \in Thread \cup {NoThread}
    BY SchedulerAssumption, <1>1, SMTT(30) DEF Thread, SchedulerThread
  <2>3. retiring' \in Seq(NodeID)
    <3>1. << >> \in Seq(NodeID) /\ <<x>> \in Seq(NodeID)
      BY <1>2, SMTT(40)
    <3> QED
      BY <1>1, <3>1
  <2> QED
    BY <1>u, <1>1, <1>2, <2>1, <2>2, <2>3, ReportsAfterPop DEF TypeOK
<1>5. GraphInv'
  <2>1. \A i \in DOMAIN retiring' : retiring'[i] \in retired'
    BY <1>1, SMTT(30)
  <2>2. \A n \in retired' : Allocated(n) /\ Dependencies(n) = {}
    BY <1>1, <1>3 DEF GraphInv, Allocated
  <2>3. \A t \in retired' \cap TaskID : t \in finished
    BY <1>1, <1>2 DEF GraphInv
  <2>4. \A e \in links : e[1] \in retired' \/ e[2] \in dependents[e[1]]
    BY <1>1 DEF GraphInv
  <2>5. /\ \A n : Allocated(n)' <=> Allocated(n)
        /\ \A n : Dependencies(n)' = Dependencies(n)
    BY <1>u DEF Allocated, Dependencies
  <2> QED
    BY <1>u, <2>1, <2>2, <2>3, <2>4, <2>5 DEF GraphInv
<1>6. ReleasedInv'
  BY <1>u, ReleasedFrame
<1>7. ChainInv'
  <2>1. x \notin Continuation
    BY <1>2, NodeIDs
  <2> QED
    BY <1>u, <1>1, <2>1 DEF ChainInv, Building, Allocated, Dependencies
<1>8. ControlInv'
  <2>1. \A i \in DOMAIN q' : q'[i].type = "TaskCompletion" => q'[i].task \in finished
    BY <1>1, ReportsAfterPop DEF ControlInv
  <2> QED
    BY <1>u, <1>1, <2>1, Threads DEF ControlInv, Available
<1>9. WorkersConserved'
  <2>1. \A w \in Worker : Reported(w, 1) <=> w = v
    BY <1>1, <1>2, ReportsAfterPop DEF Reported
  <2>2. Returning(v)
    BY <1>1, <2>1, <1>2, ReportsAfterPop DEF Returning
  <2>3. \A w \in Worker : Completing(w)' <=> w = v
    BY <1>1 DEF Completing
  <2>4. \A w \in Worker : ~Completing(w)
    BY <1>1 DEF Completing
  <2>5. \A w \in Worker : /\ Available(w)' <=> Available(w)
                          /\ Assigned(w)' <=> Assigned(w)
                          /\ Executing(w)' <=> Executing(w)
    BY <1>u DEF Available, Assigned, Executing
  <2>6. \A w \in Worker : Returning(w)' <=> Returning(w) /\ w # v
    BY <1>1, <2>1, ReportsAfterPop
  <2>7. \A w \in Worker : \A i, j \in DOMAIN q' : Reported(w, i)' /\ Reported(w, j)' => i = j
    BY <1>1, ReportsAfterPop
  <2>8. UNCHANGED <<available_workers, worker_msg_queue>>
    BY <1>u
  <2> QED
    BY <1>2, <2>2, <2>3, <2>4, <2>5, <2>6, <2>7, <2>8 DEF WorkersConserved
<1>10. TasksConserved'
  BY <1>u, TasksFrame
<1> QED
  BY <1>4, <1>5, <1>6, <1>7, <1>8, <1>9, <1>10

\* processDependentsUnsafe() is done: the worker goes back on the stack.
LEMMA FreeWorkerInv ==
  ASSUME CoreInv, FreeWorker
  PROVE  CoreInv'
<1> USE DEF CoreInv
<1> DEFINE a == available_workers
           v == completed_worker
<1>u. UNCHANGED <<nodes, dependents, dependency_count, retiring, tasks, task_queue,
                  scheduler_msg_queue, task_counter, continuation_counter, continuation, halt,
                  completed_worker, worker_pc, worker_msg_queue, running, c_dependent, main_pc,
                  call, call_task, links, retired, finished>>
  BY DEF FreeWorker, graph_vars, queue_vars, id_vars, worker_vars, call_vars, history_vars
<1>1. /\ a \in Seq(Worker) /\ v \in Worker
      /\ a' = Append(a, v)
      /\ sched_pc = "retire" /\ sched_pc' = "dispatch"
      /\ retiring = << >> /\ retiring' = << >>
      /\ call[SchedulerThread] = "none"
      /\ nodes_mutex' = NoThread
  BY DEF FreeWorker, TypeOK
<1>2. /\ a' \in Seq(Worker)
      /\ DOMAIN a = 1 .. Len(a) /\ Len(a) \in Nat
      /\ DOMAIN a' = 1 .. Len(a) + 1
      /\ \A i \in 1 .. Len(a) + 1 : a'[i] = IF i = Len(a) + 1 THEN v ELSE a[i]
  BY <1>1, AppendElements, SMTT(30)
<1>3. TypeOK'
  BY <1>u, <1>1, <1>2 DEF TypeOK
<1>4. GraphInv' /\ ReleasedInv' /\ ChainInv'
  BY <1>u, GraphFrame, ReleasedFrame, ChainFrame
<1>5. ControlInv'
  BY <1>u, <1>1, Threads DEF ControlInv
<1>6. WorkersConserved'
  <2>1. Completing(v) /\ \A w \in Worker : Completing(w) => w = v
    BY <1>1 DEF Completing
  <2>2. \A w \in Worker : Available(w)' <=> Available(w) \/ w = v
    BY <1>1, <1>2, SMTT(30) DEF Available
  <2>3. ~Available(v)
    BY <1>1, <2>1 DEF WorkersConserved
  <2>4. \A w \in Worker : \A i, j \in DOMAIN a' : a'[i] = w /\ a'[j] = w => i = j
    BY <1>1, <1>2, <2>3, SMTT(30) DEF WorkersConserved, Available
  <2>5. \A w \in Worker : ~Completing(w)'
    BY <1>1 DEF Completing
  <2>6. \A w \in Worker : /\ Assigned(w)' <=> Assigned(w)
                          /\ Executing(w)' <=> Executing(w)
                          /\ Returning(w)' <=> Returning(w)
                          /\ \A i \in DOMAIN scheduler_msg_queue : Reported(w, i)' <=> Reported(w, i)
    BY <1>u DEF Assigned, Executing, Returning, Reported
  <2>7. UNCHANGED <<scheduler_msg_queue, worker_msg_queue>>
    BY <1>u
  <2> QED
    BY <1>1, <2>1, <2>2, <2>3, <2>4, <2>5, <2>6, <2>7, SMTT(30) DEF WorkersConserved
<1>7. TasksConserved'
  BY <1>u, TasksFrame
<1> QED
  BY <1>3, <1>4, <1>5, <1>6, <1>7

\* One round of the dispatch loop: a task moves from the queue to a worker.
LEMMA DispatchInv ==
  ASSUME CoreInv, Dispatch
  PROVE  CoreInv'
<1> USE DEF CoreInv
<1> DEFINE a == available_workers
           q == task_queue
           v == a[Len(a)]
           x == Head(q)
           m == worker_msg_queue
<1>u. UNCHANGED <<nodes, dependents, dependency_count, nodes_mutex, retiring, tasks,
                  scheduler_msg_queue, task_counter, continuation_counter, continuation, halt,
                  sched_pc, completed_worker, worker_pc, running, c_dependent, main_pc, call,
                  call_task, links, retired, finished>>
  BY DEF Dispatch, graph_vars, retire_vars, id_vars, call_vars, history_vars
<1>1. /\ a \in Seq(Worker) /\ a # << >> /\ a' = SubSeq(a, 1, Len(a) - 1)
      /\ q \in Seq(TaskID) /\ q # << >> /\ q' = Tail(q)
      /\ m \in [Worker -> Seq(TaskID \cup {WorkerJoin})]
      /\ m' = [m EXCEPT ![v] = Append(@, x)]
  BY DEF Dispatch, PopWorker, PopTask, TypeOK
<1>2. /\ a' \in Seq(Worker) /\ v \in Worker
      /\ DOMAIN a = 1 .. Len(a) /\ Len(a) \in Nat \ {0}
      /\ DOMAIN a' = 1 .. Len(a) - 1
      /\ \A i \in 1 .. Len(a) - 1 : a'[i] = a[i]
  BY <1>1, FrontElements
<1>3. /\ q' \in Seq(TaskID) /\ x \in TaskID /\ x = q[1]
      /\ DOMAIN q = 1 .. Len(q) /\ Len(q) \in Nat \ {0}
      /\ DOMAIN q' = 1 .. Len(q) - 1
      /\ \A i \in 1 .. Len(q) - 1 : q'[i] = q[i + 1]
  BY <1>1, TailElements
<1>4. /\ m'[v] = Append(m[v], x)
      /\ m'[v] \in Seq(TaskID \cup {WorkerJoin})
      /\ \A w \in Worker \ {v} : m'[w] = m[w]
      /\ DOMAIN m[v] = 1 .. Len(m[v]) /\ Len(m[v]) \in Nat
      /\ DOMAIN m'[v] = 1 .. Len(m[v]) + 1
      /\ \A i \in 1 .. Len(m[v]) + 1 : m'[v][i] = IF i = Len(m[v]) + 1 THEN x ELSE m[v][i]
      /\ x # WorkerJoin
  <2>1. m'[v] = Append(m[v], x) /\ m[v] \in Seq(TaskID \cup {WorkerJoin})
    BY <1>1, <1>2
  <2>2. \A w \in Worker \ {v} : m'[w] = m[w]
    BY <1>1, <1>2
  <2>3. x \in TaskID \cup {WorkerJoin} /\ x # WorkerJoin
    BY <1>3, SMTT(30) DEF WorkerJoin, TaskID
  <2>4. /\ Append(m[v], x) \in Seq(TaskID \cup {WorkerJoin})
        /\ DOMAIN m[v] = 1 .. Len(m[v]) /\ Len(m[v]) \in Nat
        /\ DOMAIN Append(m[v], x) = 1 .. Len(m[v]) + 1
        /\ \A i \in 1 .. Len(m[v]) + 1 :
             Append(m[v], x)[i] = IF i = Len(m[v]) + 1 THEN x ELSE m[v][i]
    BY <2>1, <2>3, AppendElements, SMTT(30)
  <2> QED
    BY <2>1, <2>2, <2>3, <2>4
<1>5. TypeOK'
  <2>1. m' \in [Worker -> Seq(TaskID \cup {WorkerJoin})]
    BY <1>1, <1>4
  <2> QED
    BY <1>u, <1>2, <1>3, <2>1 DEF TypeOK
<1>6. GraphInv' /\ ChainInv'
  BY <1>u, GraphFrame, ChainFrame
<1>7. ReleasedInv'
  <2>1. Dependencies(x) = {}
    BY <1>3, SMTT(30) DEF ReleasedInv
  <2>2. \A w \in Worker : \A i \in DOMAIN m'[w] :
          m'[w][i] # WorkerJoin => Dependencies(m'[w][i]) = {}
    <3> TAKE w \in Worker
    <3> TAKE i \in DOMAIN m'[w]
    <3>1. CASE w = v
      <4>1. m'[v][i] = x \/ (i \in DOMAIN m[v] /\ m'[v][i] = m[v][i])
        BY <3>1, <1>4, SMTT(30)
      <4> QED
        BY <3>1, <4>1, <2>1, <1>2 DEF ReleasedInv
    <3>2. CASE w # v
      BY <3>2, <1>4 DEF ReleasedInv
    <3> QED
      BY <3>1, <3>2
  <2>3. \A i \in DOMAIN q' : Dependencies(q'[i]) = {}
    BY <1>3, SMTT(30) DEF ReleasedInv
  <2> QED
    BY <1>u, <2>2, <2>3 DEF ReleasedInv, Dependencies
<1>8. ControlInv'
  <2>1. sched_pc = "dispatch"
    BY DEF Dispatch
  <2> QED
    BY <1>u, <2>1 DEF ControlInv
<1>9. WorkersConserved'
  <2>1. \A w \in Worker : Available(w)' <=> Available(w) /\ w # v
    <3>1. \A i \in DOMAIN a : a[i] = v => i = Len(a)
      BY <1>2, SMTT(40) DEF WorkersConserved
    <3> QED
      BY <1>2, <3>1, SMTT(40) DEF Available
  <2>2. \A w \in Worker : Assigned(w)' <=> Assigned(w) \/ w = v
    BY <1>2, <1>4, SMTT(30) DEF Assigned
  <2>3. Available(v)
    BY <1>2, SMTT(30) DEF Available
  <2>4. ~Assigned(v)
    BY <1>2, <2>3 DEF WorkersConserved
  <2>5. \A w \in Worker : \A i, j \in DOMAIN m'[w] :
           m'[w][i] # WorkerJoin /\ m'[w][j] # WorkerJoin => i = j
    <3> TAKE w \in Worker
    <3>1. CASE w = v
      <4>1. \A i \in DOMAIN m[v] : m[v][i] = WorkerJoin
        BY <2>4, <1>2 DEF Assigned
      <4> QED
        BY <3>1, <4>1, <1>4, SMTT(40)
    <3>2. CASE w # v
      BY <3>2, <1>4, SMTT(40) DEF WorkersConserved
    <3> QED
      BY <3>1, <3>2
  <2>6. \A w \in Worker : \A i, j \in DOMAIN a' : a'[i] = w /\ a'[j] = w => i = j
    BY <1>2, SMTT(30) DEF WorkersConserved
  <2>7. \A w \in Worker : /\ Executing(w)' <=> Executing(w)
                          /\ Returning(w)' <=> Returning(w)
                          /\ Completing(w)' <=> Completing(w)
                          /\ \A i \in DOMAIN scheduler_msg_queue : Reported(w, i)' <=> Reported(w, i)
    BY <1>u DEF Executing, Returning, Completing, Reported
  <2>8. scheduler_msg_queue' = scheduler_msg_queue
    BY <1>u
  <2>9. ~Executing(v) /\ ~Returning(v) /\ ~Completing(v)
    BY <1>2, <2>3 DEF WorkersConserved
  <2> QED
    <3> SUFFICES ASSUME NEW w \in Worker
                 PROVE  /\ (Available(w) \/ Assigned(w) \/ Executing(w) \/ Returning(w) \/ Completing(w))'
                        /\ (Available(w) => ~(Assigned(w) \/ Executing(w) \/ Returning(w) \/ Completing(w)))'
                        /\ (Assigned(w) => ~(Executing(w) \/ Returning(w) \/ Completing(w)))'
                        /\ (Executing(w) => ~(Returning(w) \/ Completing(w)))'
                        /\ (Returning(w) => ~Completing(w))'
                        /\ \A i, j \in DOMAIN scheduler_msg_queue : (Reported(w, i) /\ Reported(w, j))' => i = j
      BY <2>5, <2>6, <2>8 DEF WorkersConserved
    <3>1. /\ Available(w) \/ Assigned(w) \/ Executing(w) \/ Returning(w) \/ Completing(w)
          /\ Available(w) => ~(Assigned(w) \/ Executing(w) \/ Returning(w) \/ Completing(w))
          /\ Assigned(w) => ~(Executing(w) \/ Returning(w) \/ Completing(w))
          /\ Executing(w) => ~(Returning(w) \/ Completing(w))
          /\ Returning(w) => ~Completing(w)
          /\ \A i, j \in DOMAIN scheduler_msg_queue : Reported(w, i) /\ Reported(w, j) => i = j
      BY DEF WorkersConserved
    <3> QED
      BY <3>1, <2>1, <2>2, <2>3, <2>7, <2>9, SMTT(30)
<1>10. TasksConserved'
  <2>1. \A t \in TaskID : Queued(t)' <=> Queued(t) /\ t # x
    <3> TAKE t \in TaskID
    <3>1. \A i \in DOMAIN q : q[i] = x => i = 1
      BY <1>3, SMTT(30) DEF TasksConserved
    <3>2. ASSUME Queued(t), t # x PROVE Queued(t)'
      <4> PICK i \in DOMAIN q : q[i] = t
        BY <3>2 DEF Queued
      <4> i - 1 \in DOMAIN q' /\ q'[i - 1] = t
        BY <1>3, <3>2, SMTT(30)
      <4> QED
        BY DEF Queued
    <3>3. ASSUME Queued(t)' PROVE Queued(t) /\ t # x
      BY <3>3, <3>1, <1>3, SMTT(30) DEF Queued
    <3> QED
      BY <3>2, <3>3
  <2>2. \A t \in TaskID : Sent(t)' <=> Sent(t) \/ t = x
    <3>1. \A t \in TaskID : Sent(t) => Sent(t)'
      <4> TAKE t \in TaskID
      <4> SUFFICES ASSUME NEW w \in Worker, NEW i \in DOMAIN m[w], m[w][i] = t
                   PROVE  i \in DOMAIN m'[w] /\ m'[w][i] = t
        BY DEF Sent
      <4>1. CASE w = v
        BY <4>1, <1>4, SMTT(30)
      <4>2. CASE w # v
        BY <4>2, <1>4
      <4> QED
        BY <4>1, <4>2
    <3>2. \A t \in TaskID : t = x => Sent(t)'
      <4> Len(m[v]) + 1 \in DOMAIN m'[v] /\ m'[v][Len(m[v]) + 1] = x
        BY <1>4, SMTT(30)
      <4> QED
        BY <1>2 DEF Sent
    <3>3. \A t \in TaskID : Sent(t)' => Sent(t) \/ t = x
      <4> TAKE t \in TaskID
      <4> SUFFICES ASSUME NEW w \in Worker, NEW i \in DOMAIN m'[w], m'[w][i] = t, t # x
                   PROVE  i \in DOMAIN m[w] /\ m[w][i] = t
        BY DEF Sent
      <4>1. CASE w = v
        BY <4>1, <1>4, SMTT(30)
      <4>2. CASE w # v
        BY <4>2, <1>4
      <4> QED
        BY <4>1, <4>2
    <3> QED
      BY <3>1, <3>2, <3>3
  <2>3. Queued(x)
    BY <1>3, SMTT(30) DEF Queued
  <2>4. ~Sent(x) /\ ~InCall(x) /\ ~IsRunning(x) /\ x \notin tasks /\ x \notin finished
    BY <1>3, <2>3 DEF TasksConserved
  <2>5. \A t \in TaskID : InCall(t)' <=> InCall(t)
    BY <1>u DEF InCall
  <2>6. \A t \in TaskID : IsRunning(t)' <=> IsRunning(t)
    BY DEF Dispatch, IsRunning
  <2>7. \A t \in TaskID : \A i, j \in DOMAIN q' : q'[i] = t /\ q'[j] = t => i = j
    <3> TAKE t \in TaskID
    <3> TAKE i, j \in DOMAIN q'
    <3> i \in Int /\ j \in Int /\ i + 1 \in DOMAIN q /\ j + 1 \in DOMAIN q
      BY <1>3, SMTT(30)
    <3> q[i + 1] = t /\ q[j + 1] = t => i + 1 = j + 1
      BY DEF TasksConserved
    <3> QED
      BY <1>3, SMTT(30)
  <2>8. \A t \in TaskID : \A u, w \in Worker :
          \A i \in DOMAIN m'[u], j \in DOMAIN m'[w] : m'[u][i] = t /\ m'[w][j] = t => u = w
    <3>1. \A u \in Worker : \A i \in DOMAIN m[u] : m[u][i] # x
      BY <2>4 DEF Sent
    <3>2. \A u \in Worker : \A i \in DOMAIN m'[u] :
            IF m'[u][i] = x THEN u = v ELSE i \in DOMAIN m[u] /\ m[u][i] = m'[u][i]
      <4> TAKE u \in Worker
      <4>1. CASE u = v
        BY <4>1, <1>4, SMTT(30)
      <4>2. CASE u # v
        BY <4>2, <3>1, <1>4
      <4> QED
        BY <4>1, <4>2
    <3> QED
      BY <3>2, SMTT(30) DEF TasksConserved
  <2>9. UNCHANGED <<task_counter, call, call_task, tasks, running, finished>>
    BY <1>u
  <2> QED
    BY <2>1, <2>2, <2>3, <2>4, <2>5, <2>6, <2>7, <2>8, <2>9, SMTT(30) DEF TasksConserved
<1> QED
  BY <1>5, <1>6, <1>7, <1>8, <1>9, <1>10

\* The scheduler thread sends Join to every worker.
LEMMA StopWorkersInv ==
  ASSUME CoreInv, StopWorkers
  PROVE  CoreInv'
<1> USE DEF CoreInv
<1> DEFINE m == worker_msg_queue
<1>u. UNCHANGED <<nodes, dependents, dependency_count, nodes_mutex, retiring, tasks, task_queue,
                  scheduler_msg_queue, task_counter, continuation_counter, continuation,
                  available_workers, halt, completed_worker, worker_pc, running, c_dependent,
                  main_pc, call, call_task, links, retired, finished>>
  BY DEF StopWorkers, graph_vars, retire_vars, queue_vars, id_vars, call_vars, history_vars
<1>1. /\ m \in [Worker -> Seq(TaskID \cup {WorkerJoin})]
      /\ m' = [w \in Worker |-> Append(m[w], WorkerJoin)]
      /\ sched_pc = "stop" /\ sched_pc' = "wait"
  BY DEF StopWorkers, TypeOK
<1>2. \A w \in Worker :
        /\ m'[w] \in Seq(TaskID \cup {WorkerJoin})
        /\ DOMAIN m[w] = 1 .. Len(m[w]) /\ Len(m[w]) \in Nat
        /\ DOMAIN m'[w] = 1 .. Len(m[w]) + 1
        /\ \A i \in 1 .. Len(m[w]) + 1 : m'[w][i] = IF i = Len(m[w]) + 1 THEN WorkerJoin ELSE m[w][i]
  <2> TAKE w \in Worker
  <2>1. m[w] \in Seq(TaskID \cup {WorkerJoin}) /\ m'[w] = Append(m[w], WorkerJoin)
    BY <1>1
  <2> QED
    BY <2>1, AppendElements, SMTT(30)
<1>3. \A w \in Worker : \A i \in DOMAIN m'[w] :
        m'[w][i] # WorkerJoin => i \in DOMAIN m[w] /\ m'[w][i] = m[w][i]
  BY <1>2, SMTT(30)
<1>4. \A w \in Worker : \A i \in DOMAIN m[w] : i \in DOMAIN m'[w] /\ m'[w][i] = m[w][i]
  BY <1>2, SMTT(40)
<1>5. TypeOK'
  <2>1. m' \in [Worker -> Seq(TaskID \cup {WorkerJoin})]
    BY <1>1, <1>2
  <2> QED
    BY <1>u, <1>1, <2>1 DEF TypeOK
<1>6. GraphInv' /\ ChainInv'
  BY <1>u, GraphFrame, ChainFrame
<1>7. ReleasedInv'
  <2>1. \A w \in Worker : \A i \in DOMAIN m'[w] :
          m'[w][i] # WorkerJoin => Dependencies(m'[w][i]) = {}
    BY <1>3 DEF ReleasedInv
  <2> QED
    BY <1>u, <2>1 DEF ReleasedInv, Dependencies
<1>8. ControlInv'
  BY <1>u, <1>1 DEF ControlInv, Available
<1>9. WorkersConserved'
  <2>1. \A w \in Worker : Assigned(w)' <=> Assigned(w)
    BY <1>3, <1>4 DEF Assigned
  <2>2. \A w \in Worker : \A i, j \in DOMAIN m'[w] :
           m'[w][i] # WorkerJoin /\ m'[w][j] # WorkerJoin => i = j
    BY <1>3 DEF WorkersConserved
  <2>3. \A w \in Worker : /\ Available(w)' <=> Available(w)
                          /\ Executing(w)' <=> Executing(w)
                          /\ Returning(w)' <=> Returning(w)
                          /\ Completing(w)' <=> Completing(w)
                          /\ \A i \in DOMAIN scheduler_msg_queue : Reported(w, i)' <=> Reported(w, i)
    BY <1>u, <1>1 DEF Available, Executing, Returning, Completing, Reported
  <2>4. UNCHANGED <<available_workers, scheduler_msg_queue>>
    BY <1>u
  <2> QED
    BY <2>1, <2>2, <2>3, <2>4 DEF WorkersConserved
<1>10. TasksConserved'
  <2>1. \A t \in TaskID : t # WorkerJoin
    BY SMTT(30) DEF TaskID, WorkerJoin
  <2>2. \A t \in TaskID : Sent(t)' <=> Sent(t)
    BY <2>1, <1>3, <1>4 DEF Sent
  <2>3. \A t \in TaskID : \A u, w \in Worker :
          \A i \in DOMAIN m'[u], j \in DOMAIN m'[w] : m'[u][i] = t /\ m'[w][j] = t => u = w
    BY <2>1, <1>3, SMTT(30) DEF TasksConserved
  <2>4. UNCHANGED <<task_counter, call, call_task, tasks, task_queue, running, finished>>
    BY <1>u
  <2> QED
    BY <2>2, <2>3, <2>4 DEF TasksConserved, InCall, Queued, IsRunning
<1> QED
  BY <1>5, <1>6, <1>7, <1>8, <1>9, <1>10

------------------------------------------------------------------------------
(* The workers *)

\* popOne() on a worker's message queue.
LEMMA WorkerQueueAfterPop ==
  ASSUME TypeOK, NEW v \in Worker, worker_msg_queue[v] # << >>,
         worker_msg_queue' = [worker_msg_queue EXCEPT ![v] = Tail(@)]
  PROVE  /\ worker_msg_queue' \in [Worker -> Seq(TaskID \cup {WorkerJoin})]
         /\ Head(worker_msg_queue[v]) = worker_msg_queue[v][1]
         /\ Head(worker_msg_queue[v]) \in TaskID \cup {WorkerJoin}
         /\ 1 \in DOMAIN worker_msg_queue[v]
         /\ \A w \in Worker : w # v => worker_msg_queue'[w] = worker_msg_queue[w]
         /\ \A i \in DOMAIN worker_msg_queue'[v] :
              /\ i \in Int /\ i + 1 \in DOMAIN worker_msg_queue[v] /\ i + 1 # 1
              /\ worker_msg_queue'[v][i] = worker_msg_queue[v][i + 1]
         /\ \A i \in DOMAIN worker_msg_queue[v] : i # 1 =>
              /\ i - 1 \in DOMAIN worker_msg_queue'[v]
              /\ worker_msg_queue'[v][i - 1] = worker_msg_queue[v][i]
<1> DEFINE m == worker_msg_queue
<1>1. m[v] \in Seq(TaskID \cup {WorkerJoin}) /\ m'[v] = Tail(m[v])
  BY DEF TypeOK
<1>2. /\ m'[v] \in Seq(TaskID \cup {WorkerJoin})
      /\ Head(m[v]) = m[v][1] /\ Head(m[v]) \in TaskID \cup {WorkerJoin}
      /\ DOMAIN m[v] = 1 .. Len(m[v]) /\ Len(m[v]) \in Nat \ {0}
      /\ DOMAIN m'[v] = 1 .. Len(m[v]) - 1
      /\ \A i \in 1 .. Len(m[v]) - 1 : m'[v][i] = m[v][i + 1]
  <2>1. /\ Tail(m[v]) \in Seq(TaskID \cup {WorkerJoin})
        /\ Head(m[v]) = m[v][1] /\ Head(m[v]) \in TaskID \cup {WorkerJoin}
        /\ DOMAIN m[v] = 1 .. Len(m[v]) /\ Len(m[v]) \in Nat \ {0}
        /\ DOMAIN Tail(m[v]) = 1 .. Len(m[v]) - 1
        /\ \A i \in 1 .. Len(m[v]) - 1 : Tail(m[v])[i] = m[v][i + 1]
    BY <1>1, TailElements
  <2> QED
    BY <1>1, <2>1
<1>3. \A w \in Worker : w # v => m'[w] = m[w]
  BY DEF TypeOK
<1>4. m' \in [Worker -> Seq(TaskID \cup {WorkerJoin})]
  BY <1>2 DEF TypeOK
<1>5. \A i \in DOMAIN m[v] : i # 1 => i - 1 \in DOMAIN m'[v] /\ m'[v][i - 1] = m[v][i]
  <2> TAKE i \in DOMAIN m[v]
  <2> HAVE i # 1
  <2>1. i - 1 \in 1 .. Len(m[v]) - 1 /\ i - 1 + 1 = i
    BY <1>2, SMTT(40)
  <2>2. m'[v][i - 1] = m[v][i - 1 + 1]
    BY <2>1, <1>2
  <2> QED
    BY <1>2, <2>1, <2>2
<1> QED
  BY <1>2, <1>3, <1>4, <1>5, SMTT(30)

\* A worker pops a task and starts it.
LEMMA WorkerPopTaskInv ==
  ASSUME CoreInv, NEW v \in Worker, WorkerPopTask(v)
  PROVE  CoreInv'
<1> USE DEF CoreInv
<1> DEFINE m == worker_msg_queue
           x == Head(m[v])
<1>u. UNCHANGED <<nodes, dependents, dependency_count, nodes_mutex, retiring, tasks, task_queue,
                  scheduler_msg_queue, task_counter, continuation_counter, continuation,
                  available_workers, halt, sched_pc, completed_worker, main_pc, call, call_task,
                  links, retired, finished>>
  BY DEF WorkerPopTask, graph_vars, retire_vars, queue_vars, id_vars, sched_vars, call_vars,
         history_vars
<1>1. /\ m[v] # << >> /\ m' = [m EXCEPT ![v] = Tail(@)] /\ x # WorkerJoin
      /\ worker_pc[v] = "idle" /\ worker_pc' = [worker_pc EXCEPT ![v] = "busy"]
      /\ running' = [running EXCEPT ![v] = x]
      /\ c_dependent' = [c_dependent EXCEPT ![v] = continuation[x]]
  BY DEF WorkerPopTask
<1>2. x \in TaskID /\ x # 0 /\ x = m[v][1] /\ 1 \in DOMAIN m[v]
  BY <1>1, WorkerQueueAfterPop DEF WorkerJoin
<1>a. /\ \A w \in Worker : w # v => m'[w] = m[w]
      /\ \A i \in DOMAIN m'[v] : i + 1 \in DOMAIN m[v] /\ i + 1 # 1 /\ m'[v][i] = m[v][i + 1]
      /\ \A i \in DOMAIN m[v] : i # 1 => i - 1 \in DOMAIN m'[v] /\ m'[v][i - 1] = m[v][i]
  BY <1>1, WorkerQueueAfterPop
<1>3. /\ running[v] = 0 /\ running'[v] = x
      /\ c_dependent'[v] = continuation[x]
      /\ worker_pc'[v] = "busy"
      /\ \A w \in Worker : w # v => /\ running'[w] = running[w]
                                    /\ c_dependent'[w] = c_dependent[w]
                                    /\ worker_pc'[w] = worker_pc[w]
  BY <1>1 DEF TypeOK, ControlInv
<1>4. TypeOK'
  <2>1. m' \in [Worker -> Seq(TaskID \cup {WorkerJoin})]
    BY <1>1, WorkerQueueAfterPop
  <2>2. /\ running' \in [Worker -> TaskID \cup {0}]
        /\ c_dependent' \in [Worker -> NodeID \cup {0}]
        /\ worker_pc' \in [Worker -> {"off", "idle", "busy"}]
    BY <1>1, <1>2 DEF TypeOK
  <2> QED
    BY <1>u, <2>1, <2>2 DEF TypeOK
<1>5. GraphInv'
  BY <1>u, GraphFrame
<1>6. ReleasedInv'
  <2>1. Dependencies(x) = {}
    BY <1>1, <1>2 DEF ReleasedInv
  <2>2. \A w \in Worker : \A i \in DOMAIN m'[w] :
          m'[w][i] # WorkerJoin => Dependencies(m'[w][i]) = {}
    <3> TAKE w \in Worker
    <3> TAKE i \in DOMAIN m'[w]
    <3>1. CASE w = v
      BY <3>1, <1>a DEF ReleasedInv
    <3>2. CASE w # v
      BY <3>2, <1>a DEF ReleasedInv
    <3> QED
      BY <3>1, <3>2
  <2>3. \A w \in Worker : running'[w] # 0 => Dependencies(running'[w]) = {}
    BY <2>1, <1>3 DEF ReleasedInv
  <2> QED
    BY <1>u, <2>2, <2>3 DEF ReleasedInv, Dependencies
<1>7. ChainInv'
  <2>1. \A w \in Worker : Building(w)' <=> Building(w)
    BY <1>u, <1>2, <1>3 DEF Building
  <2>2. \A w \in Worker : Building(w) => w # v
    BY <1>3 DEF Building
  <2>3. UNCHANGED <<dependents, continuation, links, retired, task_counter,
                    continuation_counter>>
    BY <1>u
  <2> QED
    BY <2>1, <2>2, <2>3, <1>3 DEF ChainInv, Allocated, Dependencies
<1>8. ControlInv'
  <2>1. \A w \in Worker : worker_pc'[w] # "busy" => running'[w] = 0
    BY <1>3 DEF ControlInv
  <2>2. sched_pc \notin {"off", "exited"}
    BY <1>1 DEF ControlInv
  <2>3. \A w \in Worker : running'[w] = 0 => call[w] = "none"
    BY <1>2, <1>3 DEF ControlInv
  <2>4. \A w \in Worker : running[w] # 0 => running'[w] # 0
    BY <1>2, <1>3
  <2> QED
    BY <1>u, <2>1, <2>2, <2>3, <2>4 DEF ControlInv, Available
<1>9. WorkersConserved'
  <2>1. Assigned(v)
    BY <1>1, <1>2 DEF Assigned
  <2>2. \A i \in DOMAIN m[v] : m[v][i] # WorkerJoin => i = 1
    BY <1>1, <1>2 DEF WorkersConserved
  <2>3. \A i \in DOMAIN m'[v] : m'[v][i] = WorkerJoin
    BY <2>2, <1>a
  <2>4. \A w \in Worker : Assigned(w)' <=> Assigned(w) /\ w # v
    BY <2>3, <1>a DEF Assigned
  <2>5. \A w \in Worker : Executing(w)' <=> Executing(w) \/ w = v
    BY <1>2, <1>3 DEF Executing
  <2>6. \A w \in Worker : \A i, j \in DOMAIN m'[w] :
           m'[w][i] # WorkerJoin /\ m'[w][j] # WorkerJoin => i = j
    BY <2>3, <1>a, SMTT(30) DEF WorkersConserved
  <2>7. \A w \in Worker : /\ Available(w)' <=> Available(w)
                          /\ Returning(w)' <=> Returning(w)
                          /\ Completing(w)' <=> Completing(w)
                          /\ \A i \in DOMAIN scheduler_msg_queue : Reported(w, i)' <=> Reported(w, i)
    BY <1>u DEF Available, Returning, Reported, Completing
  <2>8. UNCHANGED <<scheduler_msg_queue, available_workers>>
    BY <1>u
  <2> QED
    BY <2>1, <2>4, <2>5, <2>6, <2>7, <2>8 DEF WorkersConserved
<1>10. TasksConserved'
  <2>1. Sent(x)
    BY <1>2 DEF Sent
  <2>2. \A w \in Worker : \A i \in DOMAIN m[w] : m[w][i] = x => w = v /\ i = 1
    <3> TAKE w \in Worker
    <3> TAKE i \in DOMAIN m[w]
    <3>1. m[w][i] = x => w = v
      BY <1>2 DEF TasksConserved
    <3>2. m[v][i] = x /\ i \in DOMAIN m[v] => i = 1
      BY <1>1, <1>2 DEF WorkersConserved
    <3> QED
      BY <3>1, <3>2
  <2>3. \A w \in Worker : \A i \in DOMAIN m'[w] :
          m'[w][i] # x /\ \E j \in DOMAIN m[w] : m[w][j] = m'[w][i]
    <3> TAKE w \in Worker
    <3> TAKE i \in DOMAIN m'[w]
    <3>1. CASE w = v
      BY <3>1, <2>2, <1>a, SMTT(30)
    <3>2. CASE w # v
      BY <3>2, <2>2, <1>a
    <3> QED
      BY <3>1, <3>2
  <2>4. \A w \in Worker : \A i \in DOMAIN m[w] :
          m[w][i] = x \/ \E j \in DOMAIN m'[w] : m'[w][j] = m[w][i]
    BY <1>2, <1>a
  <2>5. \A t \in TaskID : Sent(t)' <=> Sent(t) /\ t # x
    <3>1. \A t \in TaskID : Sent(t)' => Sent(t) /\ t # x
      BY <2>3, SMTT(30) DEF Sent
    <3>2. \A t \in TaskID : Sent(t) /\ t # x => Sent(t)'
      BY <2>4, SMTT(30) DEF Sent
    <3> QED
      BY <3>1, <3>2
  <2>6. \A t \in TaskID : IsRunning(t)' <=> IsRunning(t) \/ t = x
    <3>1. \A t \in TaskID : t # 0
      BY SMTT(30) DEF TaskID
    <3> QED
      BY <1>3, <3>1 DEF IsRunning
  <2>7. \A t \in TaskID : \A u, w \in Worker :
          /\ running'[u] = t /\ running'[w] = t => u = w
          /\ \A i \in DOMAIN m'[u], j \in DOMAIN m'[w] : m'[u][i] = t /\ m'[w][j] = t => u = w
    <3>1. \A w \in Worker : running[w] # x
      BY <1>2, <2>1 DEF TasksConserved, IsRunning
    <3>2. \A t \in TaskID : \A u, w \in Worker : running'[u] = t /\ running'[w] = t => u = w
      <4>1. running'[v] = x /\ \A w \in Worker : w # v => running'[w] = running[w]
        BY <1>3
      <4>2. \A t \in TaskID : \A u, w \in Worker : running[u] = t /\ running[w] = t => u = w
        BY DEF TasksConserved
      <4>3. ASSUME NEW t \in TaskID, NEW u \in Worker, NEW w \in Worker,
                   running'[u] = t, running'[w] = t, u # w
            PROVE  FALSE
        <5>1. CASE u = v
          BY <3>1, <4>1, <4>3, <5>1
        <5>2. CASE w = v
          BY <3>1, <4>1, <4>3, <5>2
        <5>3. CASE u # v /\ w # v
          BY <4>1, <4>2, <4>3, <5>3
        <5> QED
          BY <5>1, <5>2, <5>3
      <4> QED
        BY <4>3
    <3>3. \A t \in TaskID : \A u, w \in Worker :
            \A i \in DOMAIN m'[u], j \in DOMAIN m'[w] : m'[u][i] = t /\ m'[w][j] = t => u = w
      BY <2>3, SMTT(30) DEF TasksConserved
    <3> QED
      BY <3>2, <3>3
  <2>8. UNCHANGED <<task_counter, call, call_task, tasks, task_queue, finished>>
    BY <1>u
  <2> QED
    BY <1>2, <2>1, <2>5, <2>6, <2>7, <2>8, SMTT(30) DEF TasksConserved, InCall, Queued
<1> QED
  BY <1>4, <1>5, <1>6, <1>7, <1>8, <1>9, <1>10

\* A worker pops Join and returns.
LEMMA WorkerPopJoinInv ==
  ASSUME CoreInv, NEW v \in Worker, WorkerPopJoin(v)
  PROVE  CoreInv'
<1> USE DEF CoreInv
<1> DEFINE m == worker_msg_queue
<1>u. UNCHANGED <<nodes, dependents, dependency_count, nodes_mutex, retiring, tasks, task_queue,
                  scheduler_msg_queue, task_counter, continuation_counter, continuation,
                  available_workers, halt, sched_pc, completed_worker, running, c_dependent,
                  main_pc, call, call_task, links, retired, finished>>
  BY DEF WorkerPopJoin, graph_vars, retire_vars, queue_vars, id_vars, sched_vars, call_vars,
         history_vars
<1>1. /\ m[v] # << >> /\ m' = [m EXCEPT ![v] = Tail(@)] /\ Head(m[v]) = WorkerJoin
      /\ worker_pc[v] = "idle" /\ worker_pc' = [worker_pc EXCEPT ![v] = "off"]
  BY DEF WorkerPopJoin
<1>2. /\ \A w \in Worker : w # v => m'[w] = m[w]
      /\ \A i \in DOMAIN m'[v] : i + 1 \in DOMAIN m[v] /\ i \in Int /\ m'[v][i] = m[v][i + 1]
      /\ \A i \in DOMAIN m[v] : i # 1 => i - 1 \in DOMAIN m'[v] /\ m'[v][i - 1] = m[v][i]
      /\ m[v][1] = WorkerJoin
  BY <1>1, WorkerQueueAfterPop
<1>3. TypeOK'
  <2>1. m' \in [Worker -> Seq(TaskID \cup {WorkerJoin})]
    BY <1>1, WorkerQueueAfterPop
  <2>2. worker_pc' \in [Worker -> {"off", "idle", "busy"}]
    BY <1>1 DEF TypeOK
  <2> QED
    BY <1>u, <2>1, <2>2 DEF TypeOK
<1>4. GraphInv' /\ ChainInv'
  BY <1>u, GraphFrame, ChainFrame
<1>5. \A w \in Worker : \A i \in DOMAIN m'[w] : \E j \in DOMAIN m[w] : m[w][j] = m'[w][i]
  BY <1>2
<1>6. \A w \in Worker : \A i \in DOMAIN m[w] : m[w][i] # WorkerJoin =>
        \E j \in DOMAIN m'[w] : m'[w][j] = m[w][i]
  BY <1>2
<1>7. ReleasedInv'
  <2>1. \A w \in Worker : \A i \in DOMAIN m'[w] :
          m'[w][i] # WorkerJoin => Dependencies(m'[w][i]) = {}
    BY <1>5 DEF ReleasedInv
  <2> QED
    BY <1>u, <2>1 DEF ReleasedInv, Dependencies
<1>8. ControlInv'
  <2>1. \A w \in Worker : worker_pc'[w] # "busy" => running[w] = 0
    BY <1>1 DEF TypeOK, ControlInv
  <2>2. \A w \in Worker : worker_pc[w] = "off" => worker_pc'[w] = "off"
    BY <1>1 DEF TypeOK
  <2> QED
    BY <1>u, <2>1, <2>2 DEF ControlInv, Available
<1>9. WorkersConserved'
  <2>1. \A w \in Worker : Assigned(w)' <=> Assigned(w)
    BY <1>5, <1>6, SMTT(30) DEF Assigned
  <2>2. \A w \in Worker : \A i, j \in DOMAIN m'[w] :
           m'[w][i] # WorkerJoin /\ m'[w][j] # WorkerJoin => i = j
    <3> TAKE w \in Worker
    <3> TAKE i, j \in DOMAIN m'[w]
    <3>1. CASE w = v
      <4>1. i \in Int /\ j \in Int
        BY <3>1, <1>2
      <4>2. m[v][i + 1] # WorkerJoin /\ m[v][j + 1] # WorkerJoin => i + 1 = j + 1
        BY <3>1, <1>2 DEF WorkersConserved
      <4> QED
        BY <3>1, <4>1, <4>2, <1>2, SMTT(30)
    <3>2. CASE w # v
      <4>1. m'[w] = m[w]
        BY <3>2, <1>2
      <4> QED
        BY <4>1 DEF WorkersConserved
    <3> QED
      BY <3>1, <3>2
  <2> QED
    BY <1>u, <2>1, <2>2
       DEF WorkersConserved, Available, Executing, Returning, Reported, Completing
<1>10. TasksConserved'
  <2>1. \A t \in TaskID : t # WorkerJoin
    BY SMTT(30) DEF TaskID, WorkerJoin
  <2>2. \A t \in TaskID : Sent(t)' <=> Sent(t)
    BY <2>1, <1>5, <1>6, SMTT(30) DEF Sent
  <2>3. \A t \in TaskID : \A u, w \in Worker :
          \A i \in DOMAIN m'[u], j \in DOMAIN m'[w] : m'[u][i] = t /\ m'[w][j] = t => u = w
    BY <1>5, SMTT(30) DEF TasksConserved
  <2>4. UNCHANGED <<task_counter, call, call_task, tasks, task_queue, running, finished>>
    BY <1>u
  <2> QED
    BY <2>2, <2>3, <2>4 DEF TasksConserved, InCall, Queued, IsRunning
<1> QED
  BY <1>3, <1>4, <1>7, <1>8, <1>9, <1>10

\* A message appended to the scheduler's queue is the only new report.
LEMMA ReportsAfterPush ==
  ASSUME TypeOK, WorkersConserved, NEW msg \in SchedulerMessage,
         scheduler_msg_queue' = Append(scheduler_msg_queue, msg),
         msg.type = "TaskCompletion" => ~Returning(msg.worker)
  PROVE  /\ scheduler_msg_queue' \in Seq(SchedulerMessage)
         /\ \A i \in DOMAIN scheduler_msg_queue' :
              \/ scheduler_msg_queue'[i] = msg
              \/ i \in DOMAIN scheduler_msg_queue /\ scheduler_msg_queue'[i] = scheduler_msg_queue[i]
         /\ \A w \in Worker : Returning(w)' <=>
              Returning(w) \/ (msg.type = "TaskCompletion" /\ msg.worker = w)
         /\ \A w \in Worker : \A i, j \in DOMAIN scheduler_msg_queue' :
              Reported(w, i)' /\ Reported(w, j)' => i = j
<1> DEFINE q == scheduler_msg_queue
<1>1. /\ q' \in Seq(SchedulerMessage)
      /\ DOMAIN q = 1 .. Len(q) /\ Len(q) \in Nat
      /\ DOMAIN q' = 1 .. Len(q) + 1
      /\ \A i \in 1 .. Len(q) + 1 : q'[i] = IF i = Len(q) + 1 THEN msg ELSE q[i]
  BY AppendElements, SMTT(30) DEF TypeOK
<1>2. \A w \in Worker : \A i \in DOMAIN q' : Reported(w, i)' <=>
        IF i = Len(q) + 1 THEN msg.type = "TaskCompletion" /\ msg.worker = w
                          ELSE i \in DOMAIN q /\ Reported(w, i)
  BY <1>1, SMTT(30) DEF Reported
<1>3. \A w \in Worker : Returning(w)' <=>
         Returning(w) \/ (msg.type = "TaskCompletion" /\ msg.worker = w)
  <2>1. /\ Len(q) + 1 \in DOMAIN q'
        /\ \A i \in DOMAIN q : i \in DOMAIN q' /\ i # Len(q) + 1
    BY <1>1, SMTT(30)
  <2> QED
    BY <1>2, <2>1 DEF Returning
<1>4. \A w \in Worker : \A i, j \in DOMAIN q' : Reported(w, i)' /\ Reported(w, j)' => i = j
  BY <1>1, <1>2, SMTT(30) DEF Returning, WorkersConserved
<1> QED
  BY <1>1, <1>3, <1>4, SMTT(30)

\* A worker that holds no lock of the graph reports the end of its task.
LEMMA FinishTaskInv ==
  ASSUME CoreInv, NEW v \in Worker, FinishTask(v), nodes_mutex # v
  PROVE  CoreInv'
<1> USE DEF CoreInv
<1> DEFINE x == running[v]
           msg == TaskCompletionMessage(v, x)
<1>u. UNCHANGED <<nodes, dependents, dependency_count, nodes_mutex, retiring, tasks, task_queue,
                  task_counter, continuation_counter, continuation, available_workers, halt,
                  sched_pc, completed_worker, worker_msg_queue, main_pc, call, call_task, links,
                  retired>>
  BY DEF FinishTask, graph_vars, retire_vars, id_vars, sched_vars, call_vars
<1>1. /\ x # 0 /\ x \in TaskID /\ call[v] = "none" /\ ~Building(v)
      /\ finished' = finished \cup {x}
      /\ running' = [running EXCEPT ![v] = 0]
      /\ c_dependent' = [c_dependent EXCEPT ![v] = 0]
      /\ worker_pc' = [worker_pc EXCEPT ![v] = "idle"]
  BY DEF FinishTask, TypeOK
<1>2. /\ running'[v] = 0 /\ worker_pc'[v] = "idle"
      /\ \A w \in Worker : w # v => /\ running'[w] = running[w]
                                    /\ c_dependent'[w] = c_dependent[w]
                                    /\ worker_pc'[w] = worker_pc[w]
  BY <1>1 DEF TypeOK
<1>3. Executing(v) /\ ~Returning(v)
  BY <1>1 DEF Executing, WorkersConserved
<1>4. /\ msg \in SchedulerMessage
      /\ msg.type = "TaskCompletion" /\ msg.worker = v /\ msg.task = x
      /\ scheduler_msg_queue' = Append(scheduler_msg_queue, msg)
  BY <1>1 DEF FinishTask, TaskCompletionMessage, SchedulerMessage
<1>5. TypeOK'
  <2>1. /\ running' \in [Worker -> TaskID \cup {0}]
        /\ c_dependent' \in [Worker -> NodeID \cup {0}]
        /\ worker_pc' \in [Worker -> {"off", "idle", "busy"}]
        /\ finished' \in SUBSET TaskID
    BY <1>1 DEF TypeOK
  <2>2. scheduler_msg_queue' \in Seq(SchedulerMessage)
    BY <1>3, <1>4, ReportsAfterPush
  <2> QED
    BY <1>u, <2>1, <2>2 DEF TypeOK
<1>6. GraphInv'
  <2>1. UNCHANGED <<dependents, dependency_count, links, retired, retiring, task_counter,
                    continuation_counter>>
    BY <1>u
  <2>2. \A t \in retired \cap TaskID : t \in finished'
    BY <1>1 DEF GraphInv
  <2>3. \A n : Dependencies(n)' = Dependencies(n)
    BY <2>1 DEF Dependencies
  <2> QED
    BY <2>1, <2>2, <2>3 DEF GraphInv, Allocated
<1>7. ReleasedInv'
  <2>1. \A w \in Worker : running'[w] # 0 => Dependencies(running'[w]) = {}
    BY <1>2 DEF ReleasedInv
  <2>2. \A t \in finished' : Dependencies(t) = {}
    BY <1>1 DEF ReleasedInv
  <2> QED
    BY <1>u, <2>1, <2>2 DEF ReleasedInv, Dependencies
<1>8. ChainInv'
  <2>1. \A w \in Worker : Building(w)' <=> Building(w)
    BY <1>u, <1>1, <1>2 DEF Building
  <2>2. \A w \in Worker : Building(w) => w # v
    BY <1>1
  <2>3. UNCHANGED <<dependents, continuation, links, retired, task_counter,
                    continuation_counter>>
    BY <1>u
  <2> QED
    BY <2>1, <2>2, <2>3, <1>2 DEF ChainInv, Allocated, Dependencies
<1>9. ControlInv'
  <2>1. \A i \in DOMAIN scheduler_msg_queue' :
          scheduler_msg_queue'[i].type = "TaskCompletion" =>
            scheduler_msg_queue'[i].task \in finished'
    BY <1>1, <1>3, <1>4, ReportsAfterPush DEF ControlInv
  <2> QED
    BY <1>u, <1>1, <1>2, <2>1 DEF ControlInv, Available
<1>10. WorkersConserved'
  <2>1. \A w \in Worker : Executing(w)' <=> Executing(w) /\ w # v
    BY <1>2 DEF Executing
  <2>2. /\ \A w \in Worker : Returning(w)' <=> Returning(w) \/ w = v
        /\ \A w \in Worker : \A i, j \in DOMAIN scheduler_msg_queue' :
              Reported(w, i)' /\ Reported(w, j)' => i = j
    BY <1>3, <1>4, ReportsAfterPush
  <2>3. \A w \in Worker : /\ Available(w)' <=> Available(w)
                          /\ Assigned(w)' <=> Assigned(w)
                          /\ Completing(w)' <=> Completing(w)
    BY <1>u DEF Available, Assigned, Completing
  <2>4. UNCHANGED <<available_workers, worker_msg_queue>>
    BY <1>u
  <2> QED
    BY <1>3, <2>1, <2>2, <2>3, <2>4 DEF WorkersConserved
<1>11. TasksConserved'
  <2>1. IsRunning(x)
    BY DEF IsRunning
  <2>2. \A w \in Worker : running[w] = x => w = v
    BY <1>1 DEF TasksConserved
  <2>3. \A t \in TaskID : t # 0
    BY SMTT(30) DEF TaskID
  <2>4. \A t \in TaskID : IsRunning(t)' <=> IsRunning(t) /\ t # x
    BY <1>2, <2>2, <2>3 DEF IsRunning
  <2>5. \A t \in TaskID : \A u, w \in Worker : running'[u] = t /\ running'[w] = t => u = w
    <3>1. \A t \in TaskID : \A w \in Worker : running'[w] = t => running[w] = t
      BY <1>2, <2>3
    <3> QED
      BY <3>1 DEF TasksConserved
  <2>6. UNCHANGED <<task_counter, call, call_task, tasks, task_queue, worker_msg_queue>>
    BY <1>u
  <2> QED
    <3>1. \A t \in TaskID : /\ InCall(t)' <=> InCall(t)
                            /\ Queued(t)' <=> Queued(t)
                            /\ Sent(t)' <=> Sent(t)
      BY <2>6 DEF InCall, Queued, Sent
    <3>2. ~InCall(x) /\ x \notin tasks /\ ~Queued(x) /\ ~Sent(x) /\ x < task_counter
      BY <1>1, <2>1 DEF TasksConserved
    <3>3. \A t \in TaskID :
            /\ (t < task_counter <=>
                   \/ InCall(t) \/ t \in tasks \/ Queued(t) \/ Sent(t) \/ IsRunning(t)
                   \/ t \in finished)'
            /\ (InCall(t) => ~(t \in tasks \/ Queued(t) \/ Sent(t) \/ IsRunning(t) \/ t \in finished))'
            /\ (t \in tasks => ~(Queued(t) \/ Sent(t) \/ IsRunning(t) \/ t \in finished))'
            /\ (Queued(t) => ~(Sent(t) \/ IsRunning(t) \/ t \in finished))'
            /\ (Sent(t) => ~(IsRunning(t) \/ t \in finished))'
            /\ (IsRunning(t) => t \notin finished)'
      BY <1>1, <2>4, <2>6, <3>1, <3>2 DEF TasksConserved
    <3>4. \A t \in TaskID :
            /\ \A u, w \in Thread :
                 ((/\ call[u] \in {"enqueue", "park"} /\ call_task[u] = t
                   /\ call[w] \in {"enqueue", "park"} /\ call_task[w] = t) => u = w)'
            /\ \A i, j \in DOMAIN task_queue' : (task_queue[i] = t /\ task_queue[j] = t => i = j)'
            /\ \A u, w \in Worker :
                 \A i \in DOMAIN worker_msg_queue'[u], j \in DOMAIN worker_msg_queue'[w] :
                   (worker_msg_queue[u][i] = t /\ worker_msg_queue[w][j] = t => u = w)'
      BY <2>6 DEF TasksConserved
    <3> QED
      BY <2>5, <3>3, <3>4 DEF TasksConserved
<1> QED
  BY <1>5, <1>6, <1>7, <1>8, <1>9, <1>10, <1>11

------------------------------------------------------------------------------
(* The client thread: start and join *)

\* start() launches the threads.
LEMMA StartInv ==
  ASSUME CoreInv, Start
  PROVE  CoreInv'
<1> USE DEF CoreInv
<1>u. UNCHANGED <<nodes, dependents, dependency_count, nodes_mutex, retiring, tasks, task_queue,
                  scheduler_msg_queue, task_counter, continuation_counter, continuation,
                  available_workers, halt, completed_worker, worker_msg_queue, running,
                  c_dependent, main_pc, call, call_task, links, retired, finished>>
  BY DEF Start, graph_vars, retire_vars, queue_vars, id_vars, call_vars, history_vars
<1>a. /\ sched_pc = "off" /\ sched_pc' = "dispatch"
      /\ worker_pc' = [w \in Worker |-> "idle"]
  BY DEF Start
<1>1. TypeOK'
  <2>1. worker_pc' \in [Worker -> {"off", "idle", "busy"}]
    BY <1>a
  <2> QED
    BY <1>u, <1>a, <2>1 DEF TypeOK
<1>2. GraphInv' /\ ReleasedInv' /\ ChainInv'
  BY <1>u, GraphFrame, ReleasedFrame, ChainFrame
<1>3. \A w \in Worker : running[w] = 0
  BY <1>a DEF ControlInv
<1>4. ControlInv'
  BY <1>u, <1>a, <1>3 DEF ControlInv
<1>5. WorkersConserved' /\ TasksConserved'
  BY <1>u, <1>a, WorkersFrame, TasksFrame
<1> QED
  BY <1>1, <1>2, <1>4, <1>5

\* join() sends Join to the scheduler thread.
LEMMA JoinInv ==
  ASSUME CoreInv, Join
  PROVE  CoreInv'
<1> USE DEF CoreInv
<1>u. UNCHANGED <<nodes, dependents, dependency_count, nodes_mutex, retiring, tasks, task_queue,
                  task_counter, continuation_counter, continuation, available_workers, halt,
                  sched_pc, completed_worker, worker_pc, worker_msg_queue, running, c_dependent,
                  call, call_task, links, retired, finished>>
  BY DEF Join, graph_vars, retire_vars, id_vars, sched_vars, worker_vars, call_vars, history_vars
<1>1. /\ JoinMessage \in SchedulerMessage /\ JoinMessage.type # "TaskCompletion"
      /\ scheduler_msg_queue' = Append(scheduler_msg_queue, JoinMessage)
  BY SchedulerAssumption, SMTT(30) DEF Join, JoinMessage, SchedulerMessage, Worker
<1>a. call[MainThread] = "none" /\ main_pc' = "joining"
  BY DEF Join
<1>2. TypeOK'
  <2>1. scheduler_msg_queue' \in Seq(SchedulerMessage)
    BY <1>1, ReportsAfterPush
  <2> QED
    BY <1>u, <1>a, <2>1 DEF TypeOK
<1>3. GraphInv' /\ ReleasedInv' /\ ChainInv'
  BY <1>u, GraphFrame, ReleasedFrame, ChainFrame
<1>4. ControlInv'
  <2>1. \A i \in DOMAIN scheduler_msg_queue' :
          scheduler_msg_queue'[i].type = "TaskCompletion" =>
            scheduler_msg_queue'[i].task \in finished
    BY <1>1, ReportsAfterPush DEF ControlInv
  <2> QED
    BY <1>u, <1>a, <2>1 DEF ControlInv, Available
<1>5. WorkersConserved'
  <2>1. \A w \in Worker :
          /\ Returning(w)' <=> Returning(w)
          /\ \A i, j \in DOMAIN scheduler_msg_queue' : Reported(w, i)' /\ Reported(w, j)' => i = j
    BY <1>1, ReportsAfterPush
  <2>2. \A w \in Worker : /\ Available(w)' <=> Available(w)
                          /\ Assigned(w)' <=> Assigned(w)
                          /\ Executing(w)' <=> Executing(w)
                          /\ Completing(w)' <=> Completing(w)
    BY <1>u DEF Available, Assigned, Executing, Completing
  <2> QED
    BY <1>u, <2>1, <2>2 DEF WorkersConserved
<1>6. TasksConserved'
  BY <1>u, TasksFrame
<1> QED
  BY <1>2, <1>3, <1>4, <1>5, <1>6

==============================================================================
