------------------------------ MODULE Scheduler ------------------------------
(***************************************************************************)
(* The task scheduler of src/scheduler: one scheduler thread, num_workers  *)
(* worker threads and one client thread (MainThread) that calls addTask,   *)
(* start and join.  Tasks and continuations are the nodes of a dependency  *)
(* graph; a task is queued when its last dependency is retired.            *)
(*                                                                         *)
(* A step is one critical section of the code (nodes_mutex_, tasks_mutex_, *)
(* queue_mutex_ or the mutex of a message queue) together with the thread- *)
(* local code around it.                                                   *)
(***************************************************************************)
EXTENDS Integers, Sequences, FiniteSets

CONSTANTS
  num_workers,        \* number of Worker threads
  kContinuationMask,  \* task ids lie below it, continuations above it
  MaxContinuations    \* bound on the continuations of one start .. join epoch

ASSUME SchedulerAssumption ==
  /\ num_workers \in Nat \ {0}
  /\ kContinuationMask \in Nat \ {0}
  /\ MaxContinuations \in Nat

Worker          == 0 .. num_workers - 1
SchedulerThread == num_workers
MainThread      == num_workers + 1
Thread          == 0 .. num_workers + 1
NoThread        == num_workers + 2

\* scheduler_typedefs.h.  The mask is 2^63 there; here it also bounds the
\* number of tasks of an epoch.
kInvalidNodeID == 0
TaskID         == 1 .. kContinuationMask - 1
Continuation   == kContinuationMask + 1 .. kContinuationMask + MaxContinuations
NodeID         == TaskID \cup Continuation
IsTaskID(id)   == id < kContinuationMask

\* scheduler_message.h and worker_message.h.  A worker message is the id of
\* the task it carries, or WorkerJoin.
WorkerJoin == 0
SchedulerMessage ==
  [type : {"Join", "NewTask", "TaskCompletion"}, worker : Worker, task : TaskID \cup {0}]
JoinMessage    == [type |-> "Join", worker |-> 0, task |-> 0]
NewTaskMessage == [type |-> "NewTask", worker |-> 0, task |-> 0]
TaskCompletionMessage(w, t) == [type |-> "TaskCompletion", worker |-> w, task |-> t]

VARIABLES
  \* Scheduler: the node table (its keys, and the two fields of a Node), the
  \* holder of nodes_mutex_ and the recursion stack of processDependentsUnsafe.
  nodes, dependents, dependency_count, nodes_mutex, retiring,
  \* Scheduler: deferred tasks, ready tasks, messages, idle workers, counters.
  tasks, task_queue, scheduler_msg_queue, available_workers, halt,
  task_counter, continuation_counter,
  \* Task::continuation_, by task id.
  continuation,
  \* Where the scheduler thread is in execute(), and the worker whose
  \* completion message it is handling.
  sched_pc, completed_worker,
  \* Worker threads: where they are, their message queue, the task they run
  \* and CreateTaskChain's local c_dependent.
  worker_pc, worker_msg_queue, running, c_dependent,
  \* The client thread.
  main_pc,
  \* The part of an addTask or addTaskIntoQueue call a thread still has to do.
  call, call_task,
  \* History: every edge ever added, the nodes whose dependents are or were
  \* processed, the tasks whose execute() returned.
  links, retired, finished

graph_vars   == <<nodes, dependents, dependency_count>>
retire_vars  == <<nodes_mutex, retiring>>
queue_vars   == <<tasks, task_queue, scheduler_msg_queue>>
id_vars      == <<task_counter, continuation_counter, continuation>>
sched_vars   == <<available_workers, halt, sched_pc, completed_worker>>
worker_vars  == <<worker_pc, worker_msg_queue, running>>
call_vars    == <<call, call_task>>
history_vars == <<links, retired, finished>>

vars == <<graph_vars, retire_vars, queue_vars, id_vars, sched_vars, worker_vars,
          c_dependent, main_pc, call_vars, history_vars>>

------------------------------------------------------------------------------
(* The node table *)

\* Node: the nodes that have d among their dependents.
Dependencies(d) == {n \in NodeID : d \in dependents[n]}

\* Mutants: incDependency() is forgotten; the count is kept as a flag.
NewDependencies_uncounted(m, E) == {}
NewDependencies_flag(m, E) ==
  IF Dependencies(m) = {} THEN {n \in NodeID : <<n, m>> \in E} ELSE {}

\* The dependencies addDependent adds to node m: those of E not in the table
\* yet (addLinkUnsafe; addTask's own edge starts at a new node).
NewDependencies(m, E) == {n \in NodeID : <<n, m>> \in E} \ Dependencies(m)

\* nodes_[dependency].addDependent(dependent) and nodes_[dependent].incDependency()
\* for the edges <<dependency, dependent>> of E.
LinkNodes(E) ==
  /\ nodes' = nodes \cup {n \in NodeID : \E m \in NodeID : <<n, m>> \in E \/ <<m, n>> \in E}
  /\ dependents' = [n \in NodeID |-> dependents[n] \cup {m \in NodeID : <<n, m>> \in E}]
  /\ dependency_count' = [m \in NodeID |-> dependency_count[m] +
                            Cardinality(NewDependencies(m, E))]
  /\ links' = links \cup E

------------------------------------------------------------------------------
(* Scheduler::addTask *)

\* The edges addTask puts into the node table; 0 stands for "none".
TaskEdges(task, dependency, dependent) ==
  {e \in {<<task, dependent>>, <<dependency, task>>} : e[1] # 0 /\ e[2] # 0}

\* Mutant: a deferred task is queued at once.
AfterLinking_eager(dependency) == "enqueue"

\* addTask after the critical section: queue the task, or keep it in tasks_.
AfterLinking(dependency) == IF dependency = 0 THEN "enqueue" ELSE "park"

\* allocateTaskID(), task->setup() and the critical section on nodes_mutex_.
\* What follows it (the queue, or tasks_) is a later step of the thread.
AddTask(thr, dependency, dependent) ==
  /\ call[thr] = "none"
  /\ nodes_mutex = NoThread
  /\ task_counter < kContinuationMask
  /\ task_counter' = task_counter + 1
  /\ continuation' = [continuation EXCEPT ![task_counter] = dependent]
  /\ LinkNodes(TaskEdges(task_counter, dependency, dependent))
  /\ call' = [call EXCEPT ![thr] = AfterLinking(dependency)]
  /\ call_task' = [call_task EXCEPT ![thr] = task_counter]

\* tasks_.emplace(id, task): after nodes_mutex_ has been released.
Park(thr) ==
  /\ call[thr] = "park"
  /\ tasks' = tasks \cup {call_task[thr]}
  /\ call' = [call EXCEPT ![thr] = "none"]
  /\ UNCHANGED <<graph_vars, retire_vars, task_queue, scheduler_msg_queue, id_vars,
                 sched_vars, worker_vars, c_dependent, main_pc, call_task, history_vars>>

\* addTaskIntoQueue: task_queue_.emplace_back under queue_mutex_ ...
Enqueue(thr) ==
  /\ call[thr] = "enqueue"
  /\ task_queue' = Append(task_queue, call_task[thr])
  /\ call' = [call EXCEPT ![thr] = "notify"]
  /\ UNCHANGED <<graph_vars, retire_vars, tasks, scheduler_msg_queue, id_vars,
                 sched_vars, worker_vars, c_dependent, main_pc, call_task, history_vars>>

\* Mutant: nobody wakes the scheduler thread up.
PushNewTask_silent(queue) == queue

\* ... then the message that wakes the scheduler thread up.
PushNewTask(queue) == Append(queue, NewTaskMessage)

Notify(thr) ==
  /\ call[thr] = "notify"
  /\ scheduler_msg_queue' = PushNewTask(scheduler_msg_queue)
  /\ call' = [call EXCEPT ![thr] = "none"]
  /\ UNCHANGED <<graph_vars, retire_vars, tasks, task_queue, id_vars,
                 sched_vars, worker_vars, c_dependent, main_pc, call_task, history_vars>>

------------------------------------------------------------------------------
(* Scheduler::processDependents.  retiring is the recursion stack: its last  *)
(* element is the node whose dependents are being visited.  Its visited      *)
(* dependents are removed from the node at once and not with the node; the   *)
(* thread holds nodes_mutex_, so nobody else sees the difference.            *)

\* Lock nodes_mutex_ and start on node; nothing to do for one without a Node.
StartRetiring(thr, node) ==
  /\ nodes_mutex = NoThread
  /\ nodes_mutex' = thr
  /\ retiring' = IF node \in nodes THEN <<node>> ELSE << >>
  /\ retired' = retired \cup {node}

\* One round of the loop over getDependents(), an unordered set: decDependency
\* and, at zero, release the task or recurse into the continuation.
ProcessDependent(thr) ==
  /\ nodes_mutex = thr
  /\ call[thr] = "none"
  /\ retiring # << >>
  /\ LET node == retiring[Len(retiring)]
     IN  \E d \in dependents[node] :
           LET ready == dependency_count[d] = 1
           IN  /\ dependents' = [dependents EXCEPT ![node] = @ \ {d}]
               /\ dependency_count' = [dependency_count EXCEPT ![d] = @ - 1]
               /\ IF ready /\ IsTaskID(d)
                  THEN /\ d \in tasks           \* DCHECK of releaseTaskByID
                       /\ tasks' = tasks \ {d}
                       /\ call' = [call EXCEPT ![thr] = "enqueue"]
                       /\ call_task' = [call_task EXCEPT ![thr] = d]
                  ELSE UNCHANGED <<tasks, call, call_task>>
               /\ IF ready /\ ~IsTaskID(d)
                  THEN /\ retiring' = Append(retiring, d)
                       /\ retired' = retired \cup {d}
                  ELSE UNCHANGED <<retiring, retired>>
  /\ UNCHANGED <<nodes, nodes_mutex, task_queue, scheduler_msg_queue, id_vars, sched_vars,
                 worker_vars, c_dependent, main_pc, links, finished>>

\* The loop is over: nodes_.erase(node) and return to the caller's loop.
EraseNode(thr) ==
  /\ nodes_mutex = thr
  /\ call[thr] = "none"
  /\ retiring # << >>
  /\ LET node == retiring[Len(retiring)]
     IN  /\ dependents[node] = {}
         /\ nodes' = nodes \ {node}
         /\ dependency_count' = [dependency_count EXCEPT ![node] = 0]
  /\ retiring' = SubSeq(retiring, 1, Len(retiring) - 1)
  /\ UNCHANGED <<dependents, nodes_mutex, queue_vars, id_vars, sched_vars, worker_vars,
                 c_dependent, main_pc, call_vars, history_vars>>

------------------------------------------------------------------------------
(* Scheduler::execute, the scheduler thread *)

\* Mutants: the worker stays available; the task stays queued.
PopWorker_keep(stack) == stack
PopTask_keep(queue)   == queue

\* available_workers_.pop() and task_queue_.pop_front().
PopWorker(stack) == SubSeq(stack, 1, Len(stack) - 1)
PopTask(queue)   == Tail(queue)

\* processTaskQueue: the task at the front of the queue goes to the worker on
\* top of the stack.
Dispatch ==
  /\ sched_pc = "dispatch"
  /\ available_workers # << >> /\ task_queue # << >>
  /\ LET w == available_workers[Len(available_workers)]
     IN  worker_msg_queue' =
           [worker_msg_queue EXCEPT ![w] = Append(@, Head(task_queue))]
  /\ available_workers' = PopWorker(available_workers)
  /\ task_queue' = PopTask(task_queue)
  /\ UNCHANGED <<graph_vars, retire_vars, tasks, scheduler_msg_queue, id_vars, halt, sched_pc,
                 completed_worker, worker_pc, running, c_dependent, main_pc, call_vars,
                 history_vars>>

DispatchEnd ==
  /\ sched_pc = "dispatch"
  /\ available_workers = << >> \/ task_queue = << >>
  /\ sched_pc' = "check"
  /\ UNCHANGED <<graph_vars, retire_vars, queue_vars, id_vars, available_workers, halt,
                 completed_worker, worker_vars, c_dependent, main_pc, call_vars, history_vars>>

\* Mutant: does not wait for the workers.
MayStop_early == halt /\ task_queue = << >>

\* if (halt_ && available_workers_.size() == num_workers_ && task_queue_.empty()) break;
MayStop ==
  halt /\ Len(available_workers) = num_workers /\ task_queue = << >>

CheckHalt ==
  /\ sched_pc = "check"
  /\ sched_pc' = IF MayStop THEN "stop" ELSE "pop"
  /\ UNCHANGED <<graph_vars, retire_vars, queue_vars, id_vars, available_workers, halt,
                 completed_worker, worker_vars, c_dependent, main_pc, call_vars, history_vars>>

\* Mutant: a later NewTask message takes the Join back.
HaltAfter_last(msg) == msg.type = "Join"

\* halt_ after a Join or NewTask message
HaltAfter(msg) == halt \/ msg.type = "Join"

PopSignal ==
  /\ sched_pc = "pop"
  /\ scheduler_msg_queue # << >>
  /\ Head(scheduler_msg_queue).type # "TaskCompletion"
  /\ scheduler_msg_queue' = Tail(scheduler_msg_queue)
  /\ halt' = HaltAfter(Head(scheduler_msg_queue))
  /\ sched_pc' = "dispatch"
  /\ UNCHANGED <<graph_vars, retire_vars, tasks, task_queue, id_vars, available_workers,
                 completed_worker, worker_vars, c_dependent, main_pc, call_vars, history_vars>>

\* kTaskCompletion: processDependents(task_id) ...
PopCompletion ==
  /\ sched_pc = "pop"
  /\ scheduler_msg_queue # << >>
  /\ LET msg == Head(scheduler_msg_queue)
     IN  /\ msg.type = "TaskCompletion"
         /\ StartRetiring(SchedulerThread, msg.task)
         /\ completed_worker' = msg.worker
  /\ scheduler_msg_queue' = Tail(scheduler_msg_queue)
  /\ sched_pc' = "retire"
  /\ UNCHANGED <<graph_vars, tasks, task_queue, id_vars, available_workers, halt,
                 worker_vars, c_dependent, main_pc, call_vars, links, finished>>

\* ... and then available_workers_.push(worker_id).
FreeWorker ==
  /\ sched_pc = "retire"
  /\ nodes_mutex = SchedulerThread
  /\ call[SchedulerThread] = "none"
  /\ retiring = << >>
  /\ nodes_mutex' = NoThread
  /\ available_workers' = Append(available_workers, completed_worker)
  /\ sched_pc' = "dispatch"
  /\ UNCHANGED <<graph_vars, retiring, queue_vars, id_vars, halt, completed_worker,
                 worker_vars, c_dependent, main_pc, call_vars, history_vars>>

\* After the loop: a Join message to every worker ...
StopWorkers ==
  /\ sched_pc = "stop"
  /\ worker_msg_queue' = [w \in Worker |-> Append(worker_msg_queue[w], WorkerJoin)]
  /\ sched_pc' = "wait"
  /\ UNCHANGED <<graph_vars, retire_vars, queue_vars, id_vars, available_workers, halt,
                 completed_worker, worker_pc, running, c_dependent, main_pc, call_vars,
                 history_vars>>

\* ... and Worker::join() on each.
JoinWorkers ==
  /\ sched_pc = "wait"
  /\ \A w \in Worker : worker_pc[w] = "off"
  /\ sched_pc' = "exited"
  /\ UNCHANGED <<graph_vars, retire_vars, queue_vars, id_vars, available_workers, halt,
                 completed_worker, worker_vars, c_dependent, main_pc, call_vars, history_vars>>

------------------------------------------------------------------------------
(* Worker::execute, and what a task may call while it runs *)

\* A CreateTaskChain lambda is between two rounds of its loop.
Building(w) == running[w] # 0 /\ c_dependent[w] # continuation[running[w]]

\* BOUND: k task ids are left, besides one for each chain that another worker
\* still has to close.
Room(thr, k) ==
  task_counter + k + Cardinality({w \in Worker \ {thr} : Building(w)}) <= kContinuationMask

\* popOne() returned a WorkerTaskMessage.
WorkerPopTask(w) ==
  /\ worker_pc[w] = "idle"
  /\ worker_msg_queue[w] # << >>
  /\ Head(worker_msg_queue[w]) # WorkerJoin
  /\ worker_msg_queue' = [worker_msg_queue EXCEPT ![w] = Tail(@)]
  /\ worker_pc' = [worker_pc EXCEPT ![w] = "busy"]
  /\ running' = [running EXCEPT ![w] = Head(worker_msg_queue[w])]
  /\ c_dependent' = [c_dependent EXCEPT ![w] = continuation[Head(worker_msg_queue[w])]]
  /\ UNCHANGED <<graph_vars, retire_vars, queue_vars, id_vars, sched_vars, main_pc,
                 call_vars, history_vars>>

\* popOne() returned a WorkerJoinMessage.
WorkerPopJoin(w) ==
  /\ worker_pc[w] = "idle"
  /\ worker_msg_queue[w] # << >>
  /\ Head(worker_msg_queue[w]) = WorkerJoin
  /\ worker_msg_queue' = [worker_msg_queue EXCEPT ![w] = Tail(@)]
  /\ worker_pc' = [worker_pc EXCEPT ![w] = "off"]
  /\ UNCHANGED <<graph_vars, retire_vars, queue_vars, id_vars, sched_vars, running,
                 c_dependent, main_pc, call_vars, history_vars>>

\* CreateTaskChain, a round that is not the last one: the task waits for a new
\* continuation, which the next round makes the dependent of its predecessor.
ChainNext(w) ==
  /\ running[w] # 0
  /\ Room(w, 2)
  /\ continuation_counter <= kContinuationMask + MaxContinuations
  /\ continuation_counter' = continuation_counter + 1
  /\ AddTask(w, continuation_counter, c_dependent[w])
  /\ c_dependent' = [c_dependent EXCEPT ![w] = continuation_counter]
  /\ UNCHANGED <<retire_vars, queue_vars, sched_vars, worker_vars, main_pc, retired, finished>>

\* CreateTaskChain, the last round; and, when no chain is being built,
\* Task::spawnTask and spawnLambdaTask: addTask(task, 0, getContinuation()).
SpawnTask(w) ==
  /\ running[w] # 0
  /\ Room(w, 1)
  /\ AddTask(w, 0, c_dependent[w])
  /\ c_dependent' = [c_dependent EXCEPT ![w] = continuation[running[w]]]
  /\ UNCHANGED <<retire_vars, queue_vars, continuation_counter, sched_vars, worker_vars,
                 main_pc, retired, finished>>

\* task->execute() returns and the worker reports it.
FinishTask(w) ==
  /\ running[w] # 0
  /\ call[w] = "none"
  /\ ~Building(w)
  /\ scheduler_msg_queue' = Append(scheduler_msg_queue, TaskCompletionMessage(w, running[w]))
  /\ finished' = finished \cup {running[w]}
  /\ running' = [running EXCEPT ![w] = 0]
  /\ c_dependent' = [c_dependent EXCEPT ![w] = 0]
  /\ worker_pc' = [worker_pc EXCEPT ![w] = "idle"]
  /\ UNCHANGED <<graph_vars, retire_vars, tasks, task_queue, id_vars, sched_vars,
                 worker_msg_queue, main_pc, call_vars, links, retired>>

------------------------------------------------------------------------------
(* The client thread *)

\* Scheduler::clear, shared by the constructor and join().
Cleared(aw, q, ts, ns, smq, tc, cc, h) ==
  /\ aw = [i \in 1 .. num_workers |-> i - 1]
  /\ q = << >>
  /\ ts = {}
  /\ ns = {}
  /\ smq = << >>
  /\ tc = 1
  /\ cc = kContinuationMask + 1
  /\ h = FALSE

NoDependents == [n \in NodeID |-> {}]
NoDependency == [n \in NodeID |-> 0]

Init ==
  /\ Cleared(available_workers, task_queue, tasks, nodes, scheduler_msg_queue,
             task_counter, continuation_counter, halt)
  /\ dependents = NoDependents /\ dependency_count = NoDependency
  /\ nodes_mutex = NoThread /\ retiring = << >>
  /\ continuation = [t \in TaskID |-> 0]
  /\ sched_pc = "off" /\ completed_worker = 0
  /\ worker_pc = [w \in Worker |-> "off"]
  /\ worker_msg_queue = [w \in Worker |-> << >>]
  /\ running = [w \in Worker |-> 0]
  /\ c_dependent = [w \in Worker |-> 0]
  /\ main_pc = "out"
  /\ call = [thr \in Thread |-> "none"] /\ call_task = [thr \in Thread |-> 0]
  /\ links = {} /\ retired = {} /\ finished = {}

\* addTask(task): before start(), or while the scheduler is active.
MainAddTask ==
  /\ main_pc = "out"
  /\ Room(MainThread, 1)
  /\ AddTask(MainThread, 0, 0)
  /\ UNCHANGED <<retire_vars, queue_vars, continuation_counter, sched_vars, worker_vars,
                 c_dependent, main_pc, retired, finished>>

\* start(); its DCHECK, and HustleDB::init, call it only on an inactive scheduler.
Start ==
  /\ main_pc = "out" /\ call[MainThread] = "none"
  /\ sched_pc = "off"
  /\ worker_pc' = [w \in Worker |-> "idle"]
  /\ sched_pc' = "dispatch"
  /\ UNCHANGED <<graph_vars, retire_vars, queue_vars, id_vars, available_workers, halt,
                 completed_worker, worker_msg_queue, running, c_dependent, main_pc, call_vars,
                 history_vars>>

\* join() up to thread_->join() ...
Join ==
  /\ main_pc = "out" /\ call[MainThread] = "none"
  /\ sched_pc # "off"
  /\ scheduler_msg_queue' = Append(scheduler_msg_queue, JoinMessage)
  /\ main_pc' = "joining"
  /\ UNCHANGED <<graph_vars, retire_vars, tasks, task_queue, id_vars, sched_vars, worker_vars,
                 c_dependent, call_vars, history_vars>>

\* ... and after it: thread_.reset() and clear().
JoinReturns ==
  /\ main_pc = "joining"
  /\ sched_pc = "exited"
  /\ main_pc' = "out"
  /\ sched_pc' = "off"
  /\ Cleared(available_workers', task_queue', tasks', nodes', scheduler_msg_queue',
             task_counter', continuation_counter', halt')
  /\ dependents' = NoDependents /\ dependency_count' = NoDependency
  /\ continuation' = [t \in TaskID |-> 0]
  /\ links' = {} /\ retired' = {} /\ finished' = {}
  /\ completed_worker' = 0
  /\ call_task' = [thr \in Thread |-> 0]
  /\ UNCHANGED <<retire_vars, worker_vars, c_dependent, call>>

------------------------------------------------------------------------------
CallStep(thr) == Enqueue(thr) \/ Notify(thr)

RetireStep(thr) == ProcessDependent(thr) \/ EraseNode(thr)

SchedulerStep ==
  \/ Dispatch \/ DispatchEnd \/ CheckHalt \/ PopSignal \/ PopCompletion \/ FreeWorker
  \/ StopWorkers \/ JoinWorkers
  \/ CallStep(SchedulerThread) \/ RetireStep(SchedulerThread)

WorkerStep(w) ==
  \/ WorkerPopTask(w) \/ WorkerPopJoin(w)
  \/ ChainNext(w) \/ SpawnTask(w) \/ FinishTask(w)
  \/ Park(w) \/ CallStep(w)

MainStep == MainAddTask \/ Start \/ Join \/ JoinReturns \/ CallStep(MainThread)

Next == SchedulerStep \/ MainStep \/ \E w \in Worker : WorkerStep(w)

Spec == Init /\ [][Next]_vars


------------------------------------------------------------------------------
(* Properties *)

CallOp == {"none", "enqueue", "notify", "park"}

\* The type invariant.
TypeOK ==
  /\ nodes \in SUBSET NodeID
  /\ dependents \in [NodeID -> SUBSET NodeID]
  /\ dependency_count \in [NodeID -> Nat]
  /\ nodes_mutex \in Thread \cup {NoThread}
  /\ retiring \in Seq(NodeID)
  /\ tasks \in SUBSET TaskID
  /\ task_queue \in Seq(TaskID)
  /\ scheduler_msg_queue \in Seq(SchedulerMessage)
  /\ available_workers \in Seq(Worker)
  /\ halt \in BOOLEAN
  /\ task_counter \in 1 .. kContinuationMask
  /\ continuation_counter \in
       kContinuationMask + 1 .. kContinuationMask + MaxContinuations + 1
  /\ continuation \in [TaskID -> NodeID \cup {0}]
  /\ sched_pc \in {"off", "dispatch", "check", "pop", "retire", "stop", "wait", "exited"}
  /\ completed_worker \in Worker
  /\ worker_pc \in [Worker -> {"off", "idle", "busy"}]
  /\ worker_msg_queue \in [Worker -> Seq(TaskID \cup {WorkerJoin})]
  /\ running \in [Worker -> TaskID \cup {0}]
  /\ c_dependent \in [Worker -> NodeID \cup {0}]
  /\ main_pc \in {"out", "joining"}
  /\ call \in [Thread -> CallOp]
  /\ call_task \in [Thread -> TaskID \cup {0}]
  /\ links \in SUBSET (NodeID \X NodeID)
  /\ retired \in SUBSET NodeID
  /\ finished \in SUBSET TaskID

Started(t) == t \in finished \/ \E w \in Worker : running[w] = t

\* What a task waits for is over when it starts: of every edge addTask or
\* addLink ever put into the node table, the dependency is retired (and has
\* returned, if it is a task) before the dependent task runs or the dependent
\* continuation is passed.  Chains and spawned tasks use the continuation of
\* their parent, so a chain's next task runs after the previous one and all
\* that it spawned.
DependenciesFirst ==
  \A e \in links :
    (IF IsTaskID(e[2]) THEN Started(e[2]) ELSE e[2] \in retired)
      => e[1] \in retired /\ (IsTaskID(e[1]) => e[1] \in finished)

\* The places the scheduler keeps a worker in.
Available(w)  == \E i \in DOMAIN available_workers : available_workers[i] = w
Assigned(w)   == \E i \in DOMAIN worker_msg_queue[w] : worker_msg_queue[w][i] # WorkerJoin
Executing(w)  == running[w] # 0
Reported(w, i) == /\ scheduler_msg_queue[i].type = "TaskCompletion"
                  /\ scheduler_msg_queue[i].worker = w
Returning(w)  == \E i \in DOMAIN scheduler_msg_queue : Reported(w, i)
Completing(w) == sched_pc = "retire" /\ completed_worker = w

\* A worker is never leaked and never given a second task: it is on the stack
\* of available workers, or has one task on its way to it, or runs one, or has
\* one completion on its way back, or that completion is being handled.
WorkersConserved ==
  \A w \in Worker :
    /\ Available(w) \/ Assigned(w) \/ Executing(w) \/ Returning(w) \/ Completing(w)
    /\ Available(w)  => ~(Assigned(w) \/ Executing(w) \/ Returning(w) \/ Completing(w))
    /\ Assigned(w)   => ~(Executing(w) \/ Returning(w) \/ Completing(w))
    /\ Executing(w)  => ~(Returning(w) \/ Completing(w))
    /\ Returning(w)  => ~Completing(w)
    /\ \A i, j \in DOMAIN available_workers :
         available_workers[i] = w /\ available_workers[j] = w => i = j
    /\ \A i, j \in DOMAIN worker_msg_queue[w] :
         worker_msg_queue[w][i] # WorkerJoin /\ worker_msg_queue[w][j] # WorkerJoin => i = j
    /\ \A i, j \in DOMAIN scheduler_msg_queue : Reported(w, i) /\ Reported(w, j) => i = j

\* The places a task may be in.
InCall(t)    == \E thr \in Thread : call[thr] \in {"enqueue", "park"} /\ call_task[thr] = t
Queued(t)    == \E i \in DOMAIN task_queue : task_queue[i] = t
Sent(t)      == \E w \in Worker : \E i \in DOMAIN worker_msg_queue[w] : worker_msg_queue[w][i] = t
IsRunning(t) == \E w \in Worker : running[w] = t

\* unique_ptr<Task> moves between the caller, tasks_, task_queue_, a worker
\* message and the worker: an added task has one owner at a time, so it is
\* executed at most once and never dropped before join().
TasksConserved ==
  \A t \in TaskID :
    /\ t < task_counter <=>
         \/ InCall(t) \/ t \in tasks \/ Queued(t) \/ Sent(t) \/ IsRunning(t) \/ t \in finished
    /\ InCall(t)    => ~(t \in tasks \/ Queued(t) \/ Sent(t) \/ IsRunning(t) \/ t \in finished)
    /\ t \in tasks  => ~(Queued(t) \/ Sent(t) \/ IsRunning(t) \/ t \in finished)
    /\ Queued(t)    => ~(Sent(t) \/ IsRunning(t) \/ t \in finished)
    /\ Sent(t)      => ~(IsRunning(t) \/ t \in finished)
    /\ IsRunning(t) => t \notin finished
    /\ \A u, v \in Thread :
         (/\ call[u] \in {"enqueue", "park"} /\ call_task[u] = t
          /\ call[v] \in {"enqueue", "park"} /\ call_task[v] = t) => u = v
    /\ \A i, j \in DOMAIN task_queue : task_queue[i] = t /\ task_queue[j] = t => i = j
    /\ \A v, w \in Worker :
         /\ running[v] = t /\ running[w] = t => v = w
         /\ \A i \in DOMAIN worker_msg_queue[v], j \in DOMAIN worker_msg_queue[w] :
              worker_msg_queue[v][i] = t /\ worker_msg_queue[w][j] = t => v = w

\* releaseTaskByID finds the task: addTask makes a deferred task reachable in
\* nodes_ before it puts it into tasks_, and nothing retires its dependency in
\* between.
ReleaseFindsTask ==
  retiring # << >> =>
    \A d \in dependents[retiring[Len(retiring)]] :
      dependency_count[d] = 1 /\ IsTaskID(d) => d \in tasks

\* join() is a barrier: the scheduler thread leaves its loop only when every
\* added task has returned and no node is left, so that clear() drops nothing,
\* and no worker message is left for the next start().
JoinLosesNothing ==
  /\ sched_pc \in {"stop", "wait", "exited"} =>
       /\ \A t \in TaskID : t < task_counter => t \in finished
       /\ nodes = {} /\ tasks = {} /\ task_queue = << >>
       /\ \A thr \in Thread : call[thr] = "none"
  /\ sched_pc = "exited" => \A w \in Worker : worker_msg_queue[w] = << >>

Graph == INSTANCE TaskGraph WITH
  Task     <- TaskID,
  added    <- {t \in TaskID : t < task_counter},
  edges    <- links,
  started  <- {t \in TaskID : Started(t)},
  finished <- finished,
  passed   <- retired \cap Continuation

\* The scheduler implements the task graph: every step of a thread is one step
\* of it or none.  In particular no addTask hangs a task on a continuation
\* that was already passed, and clear() drops no unfinished task.
ImplementsTaskGraph == Graph!Spec

------------------------------------------------------------------------------
(* Liveness.  Each thread keeps running: popOne() waits on a condition       *)
(* variable the pushes signal, the mutexes are held for bounded times, and   *)
(* the bodies of tasks end (the bounds make chains and spawns finite).  The  *)
(* client need not add tasks, start or join, but finishes what it began.     *)

Fairness ==
  /\ WF_vars(SchedulerStep)
  /\ \A w \in Worker : WF_vars(WorkerStep(w))
  /\ WF_vars(CallStep(MainThread))
  /\ WF_vars(JoinReturns)

FairSpec == Spec /\ Fairness

\* Every task that was added while the scheduler runs, or before it was
\* started, is executed: no wakeup of the scheduler thread is lost and no
\* worker idles beside a queued task for ever.
EveryTaskRuns ==
  \A t \in TaskID : (t < task_counter /\ sched_pc # "off") ~> (t \in finished)

\* join() returns.
JoinTerminates == (main_pc = "joining") ~> (main_pc = "out")

==============================================================================
