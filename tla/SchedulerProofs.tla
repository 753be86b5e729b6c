------------------------------ MODULE SchedulerProofs ------------------------
(***************************************************************************)
(* Safety of the scheduler for every number of workers, tasks and            *)
(* continuations.                                                            *)
(***************************************************************************)
EXTENDS SchedulerLoopProofs, SchedulerGraphProofs

------------------------------------------------------------------------------
(* The scheduler thread stops *)

\* num_workers distinct entries on the stack are all the workers.
LEMMA AllAvailable ==
  ASSUME TypeOK, WorkersConserved, Len(available_workers) = num_workers
  PROVE  \A w \in Worker : Available(w)
<1>1. /\ available_workers \in [1 .. num_workers -> Worker]
      /\ DOMAIN available_workers = 1 .. num_workers
  BY DEF TypeOK
<1>2. available_workers \in Injection(1 .. num_workers, Worker)
  BY <1>1 DEF Injection, IsInjective, WorkersConserved
<1>3. /\ IsFiniteSet(Worker)
      /\ Cardinality(Worker) = num_workers
      /\ Cardinality(1 .. num_workers) = num_workers
  BY FS_Interval DEF Worker
<1>4. available_workers \in Surjection(1 .. num_workers, Worker)
  BY <1>2, <1>3, FS_Injection
<1> QED
  BY <1>1, <1>4 DEF Surjection, Available

\* The scheduler thread decides whether to stop.
LEMMA CheckHaltInv ==
  ASSUME CoreInv, CheckHalt
  PROVE  CoreInv'
<1> USE DEF CoreInv
<1>u. UNCHANGED <<nodes, dependents, dependency_count, nodes_mutex, retiring, tasks, task_queue,
                  scheduler_msg_queue, task_counter, continuation_counter, continuation,
                  available_workers, halt, completed_worker, worker_pc, worker_msg_queue,
                  running, c_dependent, main_pc, call, call_task, links, retired, finished>>
  BY DEF CheckHalt, graph_vars, retire_vars, queue_vars, id_vars, worker_vars, call_vars,
         history_vars
<1>a. sched_pc = "check" /\ sched_pc' \in {"stop", "pop"}
  BY Zenon DEF CheckHalt
<1>1. TypeOK'
  BY <1>u, <1>a, Zenon DEF TypeOK
<1>2. GraphInv' /\ ReleasedInv' /\ ChainInv'
  BY <1>u, GraphFrame, ReleasedFrame, ChainFrame
<1>3. sched_pc' = "stop" => \A w \in Worker : Available(w)
  BY AllAvailable DEF CheckHalt, MayStop
<1>4. ControlInv'
  BY <1>u, <1>a, <1>3, Zenon DEF ControlInv, Available
<1>5. WorkersConserved' /\ TasksConserved'
  BY <1>u, <1>a, WorkersFrame, TasksFrame, Zenon
<1> QED
  BY <1>1, <1>2, <1>4, <1>5

------------------------------------------------------------------------------
(* join() returns *)

\* join() returns and clear() resets the scheduler.
LEMMA JoinReturnsInv ==
  ASSUME CoreInv, JoinReturns
  PROVE  CoreInv'
<1> USE DEF CoreInv
<1>1. /\ Worker # {} /\ 0 \in Worker /\ Worker \subseteq Thread
      /\ \A w \in Worker : w + 1 \in 1 .. num_workers
      /\ Thread = Worker \cup {SchedulerThread, MainThread}
  BY SchedulerAssumption DEF Worker, Thread, SchedulerThread, MainThread
<1>2. /\ \A w \in Worker : /\ running[w] = 0 /\ worker_pc[w] = "off"
                           /\ \A i \in DOMAIN worker_msg_queue[w] :
                                worker_msg_queue[w][i] = WorkerJoin
      /\ \A u \in Thread : call[u] = "none"
      /\ nodes_mutex = NoThread /\ retiring = << >>
  <2>1. \A w \in Worker : Available(w) /\ worker_pc[w] = "off"
    BY DEF JoinReturns, ControlInv
  <2>2. \A w \in Worker : /\ running[w] = 0
                          /\ \A i \in DOMAIN worker_msg_queue[w] :
                               worker_msg_queue[w][i] = WorkerJoin
    BY <2>1 DEF WorkersConserved, Assigned, Executing
  <2>3. nodes_mutex = NoThread
    BY <1>1, <2>2, Threads DEF JoinReturns, ControlInv, TypeOK
  <2> QED
    BY <1>1, <2>1, <2>2, <2>3 DEF JoinReturns, ControlInv
<1>3. /\ available_workers' = [i \in 1 .. num_workers |-> i - 1]
      /\ task_queue' = << >> /\ tasks' = {} /\ nodes' = {} /\ scheduler_msg_queue' = << >>
      /\ task_counter' = 1 /\ continuation_counter' = kContinuationMask + 1 /\ halt' = FALSE
      /\ dependents' = [n \in NodeID |-> {}] /\ dependency_count' = [n \in NodeID |-> 0]
      /\ continuation' = [t \in TaskID |-> 0]
      /\ links' = {} /\ retired' = {} /\ finished' = {}
      /\ completed_worker' = 0 /\ sched_pc' = "off" /\ main_pc' = "out"
      /\ call_task' = [thr \in Thread |-> 0]
      /\ UNCHANGED <<nodes_mutex, retiring, worker_pc, worker_msg_queue, running, c_dependent, call>>
  BY DEF JoinReturns, Cleared, NoDependents, NoDependency, retire_vars, worker_vars
<1>4. available_workers' \in Seq(Worker)
  BY SchedulerAssumption, <1>1, <1>3 DEF Worker
<1>5. TypeOK'
  <2>1. /\ task_counter' \in 1 .. kContinuationMask
        /\ continuation_counter' \in
             kContinuationMask + 1 .. kContinuationMask + MaxContinuations + 1
    BY SchedulerAssumption, <1>3
  <2>2. /\ call_task' \in [Thread -> TaskID \cup {0}]
        /\ dependents' \in [NodeID -> SUBSET NodeID]
        /\ dependency_count' \in [NodeID -> Nat]
        /\ continuation' \in [TaskID -> NodeID \cup {0}]
    BY <1>3
  <2>3. links' \in SUBSET (NodeID \X NodeID)
    BY <1>3
  <2>4. /\ task_queue' \in Seq(TaskID) /\ scheduler_msg_queue' \in Seq(SchedulerMessage)
        /\ completed_worker' \in Worker
    BY <1>1, <1>3
  <2> QED
    BY <1>3, <1>4, <2>1, <2>2, <2>3, <2>4 DEF TypeOK
<1>6. GraphInv'
  <2>1. \A n \in NodeID : Dependencies(n)' = {}
    BY <1>3 DEF Dependencies
  <2>2. \A n \in NodeID : dependency_count'[n] = Cardinality(Dependencies(n)')
    BY <1>3, <2>1, FS_EmptySet
  <2>3. \A m \in NodeID : dependents'[m] = {}
    BY <1>3
  <2> QED
    BY <1>2, <1>3, <2>2, <2>3 DEF GraphInv
<1>7. ReleasedInv'
  BY <1>2, <1>3 DEF ReleasedInv
<1>8. ChainInv'
  <2>1. \A w \in Worker : ~Building(w)'
    BY <1>2, <1>3 DEF Building
  <2>2. \A t \in TaskID : continuation'[t] = 0
    BY <1>3
  <2> QED
    BY <2>1, <2>2 DEF ChainInv
<1>9. ControlInv'
  BY <1>1, <1>2, <1>3, Threads DEF ControlInv
<1>10. WorkersConserved'
  <2>1. \A w \in Worker : Available(w)'
    <3> TAKE w \in Worker
    <3>1. w + 1 \in DOMAIN available_workers' /\ available_workers'[w + 1] = w
      BY <1>1, <1>3 DEF Worker
    <3> QED
      BY <3>1 DEF Available
  <2>2. \A w \in Worker : ~Assigned(w)' /\ ~Executing(w)' /\ ~Returning(w)' /\ ~Completing(w)'
    BY <1>2, <1>3 DEF Assigned, Executing, Returning, Completing
  <2>3. \A w \in Worker : \A i, j \in DOMAIN available_workers' :
          available_workers'[i] = w /\ available_workers'[j] = w => i = j
    BY <1>3
  <2> QED
    BY <1>2, <1>3, <2>1, <2>2, <2>3 DEF WorkersConserved
<1>11. TasksConserved'
  <2>1. \A t \in TaskID : /\ ~InCall(t)' /\ ~Queued(t)' /\ ~IsRunning(t)' /\ ~(t < task_counter')
                          /\ t # 0
    BY <1>2, <1>3 DEF InCall, Queued, IsRunning, TaskID
  <2>2. \A t \in TaskID : ~Sent(t)'
    BY <1>2, <1>3, <2>1 DEF Sent, WorkerJoin
  <2> QED
    BY <1>2, <1>3, <2>1, <2>2 DEF TasksConserved, WorkerJoin
<1> QED
  BY <1>5, <1>6, <1>7, <1>8, <1>9, <1>10, <1>11

------------------------------------------------------------------------------
(* Steps of the scheduler, whatever tasks are made of *)

\* Every step of the scheduler thread preserves the core of the invariant.
LEMMA SchedulerStepCore == CoreInv /\ SchedulerStep => CoreInv'
BY Threads, DispatchInv, DispatchEndInv, CheckHaltInv, PopSignalInv, PopCompletionInv,
   FreeWorkerInv, StopWorkersInv, JoinWorkersInv, EnqueueInv, NotifyInv, ProcessDependentInv,
   EraseNodeInv
   DEF SchedulerStep, CallStep, RetireStep

\* So does a step in which nothing happens.
LEMMA StutterCore == CoreInv /\ UNCHANGED vars => CoreInv'
<1> SUFFICES ASSUME CoreInv, UNCHANGED vars PROVE CoreInv'
  OBVIOUS
<1>1. UNCHANGED <<graph_vars, retire_vars, queue_vars, id_vars, sched_vars, worker_vars,
                  c_dependent, main_pc, call_vars, history_vars>>
  BY DEF vars
<1>2. UNCHANGED <<nodes, dependents, dependency_count, nodes_mutex, retiring, tasks, task_queue,
                  scheduler_msg_queue, task_counter, continuation_counter, continuation,
                  available_workers, halt, sched_pc, completed_worker, worker_pc,
                  worker_msg_queue, running, c_dependent, main_pc, call, call_task, links,
                  retired, finished>>
  BY <1>1 DEF graph_vars, retire_vars, queue_vars, id_vars, sched_vars, worker_vars, call_vars,
              history_vars
<1>3. TypeOK'
  BY <1>2 DEF CoreInv, TypeOK
<1>4. GraphInv' /\ ReleasedInv' /\ ChainInv' /\ WorkersConserved' /\ TasksConserved'
  BY <1>1, <1>2, GraphFrame, ReleasedFrame, ChainFrame, WorkersFrame, TasksFrame DEF CoreInv
<1>5. ControlInv'
  BY <1>2 DEF CoreInv, ControlInv, Available
<1> QED
  BY <1>3, <1>4, <1>5 DEF CoreInv

------------------------------------------------------------------------------
(* Tasks that spawn tasks and chains *)

\* A step that adds no task keeps what is known of parked tasks.
LEMMA ParkedFrame ==
  ASSUME ParkedInv,
         nodes_mutex' \in {NoThread, SchedulerThread},
         \A w \in Worker : call'[w] = "park" =>
           /\ call[w] = "park" /\ call_task'[w] = call_task[w]
           /\ running'[w] = running[w] /\ c_dependent'[w] = c_dependent[w],
         UNCHANGED continuation,
         \A m \in NodeID : dependents'[m] \subseteq dependents[m]
  PROVE  ParkedInv'
BY DEF ParkedInv, Building, Dependencies

\* The scheduler thread adds no task.
LEMMA ParkedScheduler == IndInv /\ SchedulerStep => ParkedInv'
<1> SUFFICES ASSUME IndInv, SchedulerStep PROVE ParkedInv'
  OBVIOUS
<1>1. call \in [Thread -> CallOp] /\ ParkedInv /\ SchedulerThread \notin Worker
  BY Threads DEF IndInv, CoreInv, TypeOK
<1>2. ASSUME Dispatch \/ DispatchEnd \/ CheckHalt \/ PopSignal \/ StopWorkers \/ JoinWorkers
      PROVE  ParkedInv'
  <2>1. UNCHANGED <<dependents, nodes_mutex, continuation, running, c_dependent, call, call_task>>
    BY <1>2 DEF Dispatch, DispatchEnd, CheckHalt, PopSignal, StopWorkers, JoinWorkers,
                graph_vars, retire_vars, id_vars, worker_vars, call_vars
  <2> QED
    BY <2>1, <1>1, ParkedFrame DEF ParkedInv
<1>3. ASSUME PopCompletion \/ FreeWorker PROVE ParkedInv'
  <2>1. UNCHANGED <<dependents, continuation, running, c_dependent, call, call_task>>
    BY <1>3 DEF PopCompletion, FreeWorker, graph_vars, id_vars, worker_vars, call_vars
  <2>2. nodes_mutex' \in {NoThread, SchedulerThread}
    BY <1>3 DEF PopCompletion, FreeWorker, StartRetiring
  <2> QED
    BY <2>1, <2>2, <1>1, ParkedFrame
<1>4. ASSUME Enqueue(SchedulerThread) \/ Notify(SchedulerThread) PROVE ParkedInv'
  <2>1. /\ UNCHANGED <<dependents, nodes_mutex, continuation, running, c_dependent, call_task>>
        /\ \A w \in Worker : call'[w] = call[w]
    BY <1>4, <1>1, Threads
       DEF Enqueue, Notify, graph_vars, retire_vars, id_vars, worker_vars
  <2> QED
    BY <2>1, <1>1, ParkedFrame DEF ParkedInv
<1>5. ASSUME ProcessDependent(SchedulerThread) PROVE ParkedInv'
  <2>1. UNCHANGED <<nodes_mutex, continuation, running, c_dependent>>
    BY <1>5 DEF ProcessDependent, id_vars, worker_vars
  <2>2. PICK node, d : /\ dependents' = [dependents EXCEPT ![node] = @ \ {d}]
                       /\ \/ UNCHANGED <<call, call_task>>
                          \/ /\ call' = [call EXCEPT ![SchedulerThread] = "enqueue"]
                             /\ call_task' = [call_task EXCEPT ![SchedulerThread] = d]
    BY <1>5 DEF ProcessDependent
  <2>3. \A w \in Worker : call'[w] = call[w] /\ call_task'[w] = call_task[w]
    BY <2>2, Threads DEF IndInv, CoreInv, TypeOK
  <2>4. \A m \in NodeID : dependents'[m] \subseteq dependents[m]
    BY <2>2 DEF IndInv, CoreInv, TypeOK
  <2> QED
    BY <2>1, <2>3, <2>4, <1>1, ParkedFrame DEF ParkedInv
<1>6. ASSUME EraseNode(SchedulerThread) PROVE ParkedInv'
  <2>1. UNCHANGED <<dependents, nodes_mutex, continuation, running, c_dependent, call, call_task>>
    BY <1>6 DEF EraseNode, id_vars, worker_vars, call_vars
  <2> QED
    BY <2>1, <1>1, ParkedFrame DEF ParkedInv
<1> QED
  BY <1>2, <1>3, <1>4, <1>5, <1>6 DEF SchedulerStep, CallStep, RetireStep

\* addTask leaves the tasks that other workers are about to park as they are.
LEMMA ParkedOther ==
  ASSUME IndInv, NEW thr \in Thread,
         NEW dependency \in Continuation \cup {0}, NEW dependent \in Continuation \cup {0},
         AddTask(thr, dependency, dependent), UNCHANGED running,
         NEW v \in Worker, v # thr, c_dependent'[v] = c_dependent[v], call'[v] = "park"
  PROVE  (Building(v) /\ Dependencies(call_task[v]) \subseteq {c_dependent[v]})'
<1> USE DEF IndInv, CoreInv
<1> DEFINE t == task_counter
           k == call_task[v]
<1>1. call[v] = "park" /\ call_task'[v] = k
  BY Threads DEF AddTask, TypeOK
<1>2. /\ Building(v) /\ Dependencies(k) \subseteq {c_dependent[v]}
  BY <1>1 DEF ParkedInv
<1>3. t \in TaskID /\ 0 \notin NodeID /\ TaskID \subseteq NodeID /\ Continuation \subseteq NodeID
  BY SchedulerAssumption, NodeIDs, SMTT(30) DEF AddTask, TypeOK, TaskID, NodeID, Continuation
<1>4. \A r \in TaskID : r < t => r # t
  BY SMTT(30) DEF TaskID
<1>5. k \in TaskID /\ k # t /\ k # dependent
  <2>1. k \in TaskID /\ InCall(k)
    BY <1>1, Threads DEF ControlInv, InCall
  <2> QED
    BY <2>1, <1>3, <1>4, NodeIDs DEF TasksConserved
<1>6. running[v] \in TaskID /\ running[v] # t
  <2>1. running[v] \in TaskID /\ IsRunning(running[v])
    BY <1>2 DEF Building, TypeOK, IsRunning
  <2> QED
    BY <2>1, <1>4 DEF TasksConserved
<1>7. continuation'[running[v]] = continuation[running[v]]
  BY <1>6 DEF AddTask, TypeOK
<1>8. \A m \in NodeID : k \in dependents'[m] => k \in dependents[m]
  <2>1. \A m \in NodeID : k \in dependents'[m] =>
          k \in dependents[m] \/ <<m, k>> \in TaskEdges(t, dependency, dependent)
    BY DEF AddTask, LinkNodes
  <2>2. \A m : <<m, k>> \notin TaskEdges(t, dependency, dependent)
    BY <1>5 DEF TaskEdges
  <2> QED
    BY <2>1, <2>2
<1> QED
  BY <1>1, <1>2, <1>7, <1>8 DEF Building, Dependencies

\* A task that is to be parked waits for the continuation that its chain has
\* just allocated.
LEMMA ParkedChain ==
  ASSUME IndInv, NEW w \in Worker, ChainNext(w)
  PROVE  (Building(w) /\ Dependencies(call_task[w]) \subseteq {c_dependent[w]})'
<1> USE DEF IndInv, CoreInv
<1> DEFINE t == task_counter
           d == continuation_counter
           r == running[w]
<1>1. /\ AddTask(w, d, c_dependent[w]) /\ r # 0 /\ UNCHANGED running
      /\ c_dependent' = [c_dependent EXCEPT ![w] = d]
      /\ d <= kContinuationMask + MaxContinuations
  BY DEF ChainNext, worker_vars
<1>2. call_task'[w] = t /\ c_dependent'[w] = d
  BY <1>1, Threads DEF AddTask, TypeOK
<1>3. /\ d \in Continuation /\ d \in NodeID /\ ~Allocated(d) /\ d # 0
      /\ t \in TaskID /\ t \in NodeID /\ ~Allocated(t)
  BY SchedulerAssumption, <1>1, SMTT(30) DEF AddTask, TypeOK, Continuation, NodeID, TaskID, Allocated
<1>4. /\ c_dependent[w] = 0 \/ (c_dependent[w] \in Continuation /\ Allocated(c_dependent[w]))
  BY <1>1, DependentWaits
<1>5. r \in TaskID /\ r < t
  <2>1. r \in TaskID /\ IsRunning(r)
    BY <1>1 DEF TypeOK, IsRunning
  <2> QED
    BY <2>1 DEF TasksConserved
<1>6. continuation'[r] = continuation[r]
  <2>1. r # t
    BY <1>3, <1>5, SMTT(30) DEF TaskID
  <2> QED
    BY <2>1, <1>1, <1>5 DEF AddTask, TypeOK
<1>7. continuation[r] # d
  <2> SUFFICES ASSUME continuation[r] = d PROVE FALSE
    OBVIOUS
  <2>1. <<r, d>> \in links
    BY <1>3, <1>5 DEF ChainInv
  <2> QED
    BY <2>1, <1>3 DEF GraphInv
<1>8. \A m \in NodeID : t \in dependents'[m] => m = d
  <2>1. t # c_dependent[w]
    <3>1. t # 0
      BY <1>3, NodeIDs
    <3> QED
      BY <3>1, <1>3, <1>4
  <2>2. \A m \in NodeID : t \notin dependents[m]
    BY <1>3, FreshNode
  <2>3. \A m \in NodeID : t \in dependents'[m] =>
          t \in dependents[m] \/ <<m, t>> \in TaskEdges(t, d, c_dependent[w])
    BY <1>1 DEF AddTask, LinkNodes
  <2>4. \A m : <<m, t>> \in TaskEdges(t, d, c_dependent[w]) => m = d
    BY <2>1 DEF TaskEdges
  <2> QED
    BY <2>2, <2>3, <2>4
<1> QED
  BY <1>1, <1>2, <1>6, <1>7, <1>8 DEF Building, Dependencies

\* Every step of a worker or of the client keeps what is known of parked tasks.
LEMMA ParkedWorker == ASSUME IndInv, NEW w \in Worker, WorkerStep(w) PROVE ParkedInv'
<1> USE DEF IndInv, CoreInv
<1>1. /\ call \in [Thread -> CallOp] /\ ParkedInv /\ w \in Thread
      /\ running \in [Worker -> TaskID \cup {0}]
      /\ c_dependent \in [Worker -> NodeID \cup {0}]
  BY Threads DEF TypeOK
<1>2. ASSUME WorkerPopTask(w) \/ FinishTask(w) PROVE ParkedInv'
  <2>1. /\ UNCHANGED <<dependents, nodes_mutex, continuation, call, call_task>>
        /\ \A v \in Worker : v # w => running'[v] = running[v] /\ c_dependent'[v] = c_dependent[v]
    BY <1>2, <1>1 DEF WorkerPopTask, FinishTask, graph_vars, retire_vars, id_vars, call_vars
  <2>2. call[w] = "none"
    BY <1>2 DEF WorkerPopTask, FinishTask, ControlInv
  <2> QED
    BY <2>1, <2>2, <1>1, ParkedFrame DEF ParkedInv
<1>3. ASSUME WorkerPopJoin(w) PROVE ParkedInv'
  <2>1. UNCHANGED <<dependents, nodes_mutex, continuation, running, c_dependent, call, call_task>>
    BY <1>3 DEF WorkerPopJoin, graph_vars, retire_vars, id_vars, call_vars
  <2> QED
    BY <2>1, <1>1, ParkedFrame DEF ParkedInv
<1>4. ASSUME Park(w) \/ Enqueue(w) \/ Notify(w) PROVE ParkedInv'
  <2>1. /\ UNCHANGED <<dependents, nodes_mutex, continuation, running, c_dependent, call_task>>
        /\ \A v \in Worker : v # w => call'[v] = call[v]
        /\ call'[w] # "park"
    BY <1>4, <1>1, Threads
       DEF Park, Enqueue, Notify, graph_vars, retire_vars, id_vars, worker_vars
  <2> QED
    BY <2>1, <1>1, ParkedFrame DEF ParkedInv
<1>5. ASSUME ChainNext(w) \/ SpawnTask(w) PROVE ParkedInv'
  <2>1. PICK d \in {0, continuation_counter} :
          /\ AddTask(w, d, c_dependent[w]) /\ running[w] # 0
          /\ d # 0 => ChainNext(w) /\ continuation_counter <= kContinuationMask + MaxContinuations
    BY <1>5 DEF ChainNext, SpawnTask
  <2>2. /\ UNCHANGED <<nodes_mutex, running>>
        /\ \A v \in Worker : v # w => c_dependent'[v] = c_dependent[v]
    BY <1>5, <1>1 DEF ChainNext, SpawnTask, retire_vars, worker_vars
  <2>3. /\ d \in Continuation \cup {0} /\ c_dependent[w] \in Continuation \cup {0}
    BY <2>1, DependentWaits, SchedulerAssumption, SMTT(30) DEF TypeOK, Continuation
  <2>4. call'[w] = "park" => d # 0
    BY <2>1, <1>1 DEF AddTask, AfterLinking
  <2> QED
    BY <2>1, <2>2, <2>3, <2>4, <1>1, ParkedOther, ParkedChain DEF ParkedInv
<1> QED
  BY <1>2, <1>3, <1>4, <1>5 DEF WorkerStep, CallStep

\* The client parks no task.
LEMMA ParkedMain == IndInv /\ MainStep => ParkedInv'
<1> SUFFICES ASSUME IndInv, MainStep PROVE ParkedInv'
  OBVIOUS
<1> USE DEF IndInv, CoreInv
<1>1. call \in [Thread -> CallOp] /\ ParkedInv /\ MainThread \in Thread /\ MainThread \notin Worker
  BY Threads DEF TypeOK
<1>2. ASSUME MainAddTask PROVE ParkedInv'
  <2>1. AddTask(MainThread, 0, 0) /\ UNCHANGED <<nodes_mutex, running, c_dependent>>
    BY <1>2 DEF MainAddTask, retire_vars, worker_vars
  <2> QED
    BY <2>1, <1>1, ParkedOther DEF ParkedInv
<1>3. ASSUME Start \/ Join PROVE ParkedInv'
  <2>1. UNCHANGED <<dependents, nodes_mutex, continuation, running, c_dependent, call, call_task>>
    BY <1>3 DEF Start, Join, graph_vars, retire_vars, id_vars, worker_vars, call_vars
  <2> QED
    BY <2>1, <1>1, ParkedFrame DEF ParkedInv
<1>4. ASSUME JoinReturns PROVE ParkedInv'
  <2>1. UNCHANGED <<nodes_mutex, call>>
    BY <1>4 DEF JoinReturns, retire_vars
  <2>2. \A w \in Worker : call[w] = "none"
    <3>1. \A w \in Worker : Available(w)
      BY <1>4 DEF JoinReturns, ControlInv
    <3> QED
      BY <3>1 DEF ControlInv, WorkersConserved, Executing
  <2> QED
    BY <2>1, <2>2 DEF ParkedInv
<1>5. ASSUME Enqueue(MainThread) \/ Notify(MainThread) PROVE ParkedInv'
  <2>1. /\ UNCHANGED <<dependents, nodes_mutex, continuation, running, c_dependent, call_task>>
        /\ \A w \in Worker : call'[w] = call[w]
    BY <1>5, <1>1, Threads
       DEF Enqueue, Notify, graph_vars, retire_vars, id_vars, worker_vars
  <2> QED
    BY <2>1, <1>1, ParkedFrame DEF ParkedInv
<1> QED
  BY <1>2, <1>3, <1>4, <1>5 DEF MainStep, CallStep

------------------------------------------------------------------------------
(* The theorems *)

\* The constructor establishes the inductive invariant.
LEMMA InitInv == Init => IndInv
<1> SUFFICES ASSUME Init PROVE ParkedInv
  BY InitCore DEF IndInv
<1> QED
  BY Threads DEF Init, ParkedInv

\* Every step of a thread preserves the inductive invariant.
LEMMA NextInv == IndInv /\ [Next]_vars => IndInv'
<1> SUFFICES ASSUME IndInv, [Next]_vars PROVE CoreInv' /\ ParkedInv'
  BY DEF IndInv
<1> USE DEF IndInv
<1>1. ASSUME SchedulerStep PROVE CoreInv' /\ ParkedInv'
  BY <1>1, SchedulerStepCore, ParkedScheduler
<1>2. ASSUME MainStep PROVE CoreInv' /\ ParkedInv'
  BY <1>2, Threads, MainAddTaskInv, StartInv, JoinInv, JoinReturnsInv, EnqueueInv, NotifyInv,
     ParkedMain
     DEF MainStep, CallStep
<1>3. ASSUME NEW w \in Worker, WorkerStep(w) PROVE CoreInv' /\ ParkedInv'
  <2>1. w \in Thread /\ nodes_mutex # w
    BY Threads DEF ParkedInv
  <2> QED
    BY <1>3, <2>1, WorkerPopTaskInv, WorkerPopJoinInv, WorkerAddTaskInv, FinishTaskInv, ParkInv,
       EnqueueInv, NotifyInv, ParkedWorker
       DEF WorkerStep, CallStep
<1>4. ASSUME UNCHANGED vars PROVE CoreInv' /\ ParkedInv'
  <2>1. UNCHANGED <<dependents, nodes_mutex, continuation, running, c_dependent, call, call_task>>
    BY <1>4 DEF vars, graph_vars, retire_vars, id_vars, worker_vars, call_vars
  <2> QED
    BY <1>4, <2>1, StutterCore, ParkedFrame DEF ParkedInv
<1> QED
  BY <1>1, <1>2, <1>3, <1>4 DEF Next

\* The inductive invariant holds in every reachable state.
THEOREM Invariance == Spec => []IndInv
BY InitInv, NextInv, PTL DEF Spec

\* Of every edge in the node table the dependency is over before the dependent starts.
LEMMA DependenciesFirstFollows == CoreInv => DependenciesFirst
<1> SUFFICES ASSUME CoreInv, NEW e \in links,
                    IF IsTaskID(e[2]) THEN Started(e[2]) ELSE e[2] \in retired
             PROVE  e[1] \in retired /\ (IsTaskID(e[1]) => e[1] \in finished)
  BY DEF DependenciesFirst
<1> USE DEF CoreInv
<1>1. e[1] \in NodeID /\ e[2] \in NodeID
  BY DEF TypeOK
<1>2. Dependencies(e[2]) = {}
  <2>1. CASE IsTaskID(e[2])
    <3>1. 0 \notin NodeID
      BY NodeIDs
    <3> QED
      BY <1>1, <2>1, <3>1 DEF Started, ReleasedInv
  <2>2. CASE ~IsTaskID(e[2])
    BY <2>2 DEF GraphInv
  <2> QED
    BY <2>1, <2>2
<1>3. e[1] \in retired
  BY <1>1, <1>2 DEF GraphInv, Dependencies
<1>4. IsTaskID(e[1]) => e[1] \in TaskID
  BY SchedulerAssumption, <1>1 DEF IsTaskID, NodeID, TaskID, Continuation
<1> QED
  BY <1>3, <1>4 DEF GraphInv

\* The task a release is about is in tasks_, not still in addTask.
LEMMA ReleaseFindsTaskFollows == IndInv => ReleaseFindsTask
<1> DEFINE node == retiring[Len(retiring)]
<1> SUFFICES ASSUME IndInv, retiring # << >>, NEW d \in dependents[node], IsTaskID(d)
             PROVE  d \in tasks
  BY DEF ReleaseFindsTask
<1> USE DEF IndInv, CoreInv
<1>1. node \in NodeID /\ node \in retired
  BY FrontElements DEF TypeOK, GraphInv
<1>2. d \in NodeID /\ node \in Dependencies(d) /\ Allocated(d)
  <2>1. d \in NodeID
    BY <1>1 DEF TypeOK
  <2>2. <<node, d>> \in links
    BY <1>1 DEF GraphInv
  <2> QED
    BY <1>1, <2>1, <2>2 DEF GraphInv, Dependencies
<1>3. d \in TaskID /\ d < task_counter
  BY SchedulerAssumption, <1>2 DEF IsTaskID, NodeID, TaskID, Continuation, Allocated
<1>4. ~Queued(d) /\ ~Sent(d) /\ ~IsRunning(d) /\ d \notin finished
  <2>1. d # 0 /\ d # WorkerJoin
    BY <1>3 DEF TaskID, WorkerJoin
  <2> QED
    BY <1>2, <2>1 DEF ReleasedInv, Queued, Sent, IsRunning
<1>5. ~InCall(d)
  <2> SUFFICES ASSUME NEW u \in Thread, call[u] \in {"enqueue", "park"}, call_task[u] = d
               PROVE  FALSE
    BY DEF InCall
  <2>1. CASE call[u] = "enqueue"
    BY <1>2, <2>1 DEF ReleasedInv
  <2>2. CASE call[u] = "park"
    <3>1. u \in Worker
      BY <2>2 DEF ControlInv
    <3> QED
      BY <1>1, <1>2, <2>2, <3>1 DEF ParkedInv, ChainInv
  <2> QED
    BY <2>1, <2>2
<1> QED
  BY <1>3, <1>4, <1>5 DEF TasksConserved

\* The state stays well typed: in particular no dependency count is decremented
\* below zero, which in the code would wrap an unsigned counter.
THEOREM TypeCorrect == Spec => []TypeOK
BY Invariance, PTL DEF IndInv, CoreInv

\* A task starts, and a continuation is passed, only after everything it waits for.
THEOREM DependenciesFirstHolds == Spec => []DependenciesFirst
BY Invariance, DependenciesFirstFollows, PTL DEF IndInv

\* Every worker is in exactly one of the places processTaskQueue, Worker::execute
\* and the completion handler keep it in.
THEOREM WorkersConservedHolds == Spec => []WorkersConserved
BY Invariance, PTL DEF IndInv, CoreInv

\* Every added task has exactly one owner, and runs at most once.
THEOREM TasksConservedHolds == Spec => []TasksConserved
BY Invariance, PTL DEF IndInv, CoreInv

\* The DCHECK of releaseTaskByID never fails, in spite of the window in addTask
\* between the node table and tasks_.
THEOREM ReleaseFindsTaskHolds == Spec => []ReleaseFindsTask
BY Invariance, ReleaseFindsTaskFollows, PTL

==============================================================================
