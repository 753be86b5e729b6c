---------------------------- MODULE ExecutionPlan ----------------------------
(***************************************************************************)
(* A query on the scheduler: execute() of resolver/cresolver.cc, run by the *)
(* client thread, and ExecutionPlan::execute(), run by a worker.            *)
(*                                                                          *)
(* The client adds a task chain of two tasks and waits on a lock.  The      *)
(* first ("first") spawns a task ("spawner") that spawns the plan; the      *)
(* second ("second") materializes the result and releases the lock.  The    *)
(* plan adds one task for each operator, hangs them on the continuation     *)
(* c_enter, links them as dependents_ says, adds the exit task and fires    *)
(* c_enter.  Operators add tasks of their own ("batch") while they run.     *)
(***************************************************************************)
EXTENDS Scheduler

CONSTANT NumOperators     \* operators of the plan, numbered as addOperator does

ASSUME PlanAssumption == NumOperators \in Nat \ {0}

Operator == 0 .. NumOperators - 1
NoOperator == NumOperators

Role == {"none", "chain", "first", "second", "spawner", "plan", "operator", "batch", "exit"}

VARIABLES
  plan_links,    \* ExecutionPlan::dependents_, as pairs <<producer, consumer>>
  role,          \* what the code of a task is
  op_of,         \* the operator a task works for
  calls,         \* how many calls the code of the running task has made
  \* Locals of ExecutionPlan::execute().  A continuation is 0 until it is
  \* allocated.
  c_enter, c_exit, c_operators, task_ids,
  op_linked,     \* operators whose continuation is linked to c_exit
  links_left,    \* what is left of the loop over dependents_
  plan_fire,     \* "before", "during" or "after" scheduler->fire(c_enter)
  sync_lock      \* the client's SynchronizationLock: "held" while it waits

plan_vars  == <<c_enter, c_exit, c_operators, task_ids, op_linked, links_left, plan_fire>>
body_vars  == <<role, op_of>>
query_vars == <<plan_links, body_vars, calls, plan_vars, sync_lock>>

all_vars == <<vars, query_vars>>

\* createLink takes any pair of operators.  createPlan links a select to a join
\* with a smaller id and one hash join to the next, with a larger id, so that the
\* order in which operators were added says nothing; but it builds no cycle.
Acyclic(edges) ==
  \E rank \in [Operator -> Operator] : \A e \in edges : rank[e[1]] < rank[e[2]]

PlanInit ==
  /\ Init
  /\ plan_links \in {edges \in SUBSET (Operator \X Operator) : Acyclic(edges)}
  /\ role = [t \in TaskID |-> "none"]
  /\ op_of = [t \in TaskID |-> NoOperator]
  /\ calls = [w \in Worker |-> 0]
  /\ c_enter = 0 /\ c_exit = 0
  /\ c_operators = [o \in Operator |-> 0] /\ task_ids = [o \in Operator |-> 0]
  /\ op_linked = {} /\ links_left = plan_links /\ plan_fire = "before"
  /\ sync_lock = "free"

\* BOUND: the plans that TLC explores.  Like the ones createPlan builds they are
\* connected, which takes at least this many links.
Connected == Cardinality(plan_links) >= NumOperators - 1

------------------------------------------------------------------------------
(* The client: execute() *)

\* addTask(CreateTaskChain(..)) and sync_lock.wait(); one query per behaviour.
Query ==
  /\ sched_pc # "off"
  /\ sync_lock = "free" /\ task_counter = 1
  /\ MainAddTask
  /\ role' = [role EXCEPT ![task_counter] = "chain"]
  /\ sync_lock' = "held"
  /\ UNCHANGED <<plan_links, op_of, calls, plan_vars>>

\* The rest of addTask; then the client waits for the lock.  HustleDB::init
\* comes before a query, HustleDB::destroy after it.
ClientStep ==
  \/ CallStep(MainThread) /\ UNCHANGED query_vars
  \/ Start /\ UNCHANGED query_vars
  \/ sync_lock = "released" /\ Join /\ UNCHANGED query_vars

------------------------------------------------------------------------------
(* Task bodies *)

Runs(w, r) == running[w] # 0 /\ role[running[w]] = r

\* A new task of this role, for this operator.
Becomes(r, o) ==
  /\ role' = [role EXCEPT ![task_counter] = r]
  /\ op_of' = [op_of EXCEPT ![task_counter] = o]

PopTaskStep(w) ==
  /\ WorkerPopTask(w)
  /\ calls' = [calls EXCEPT ![w] = 0]
  /\ UNCHANGED <<plan_links, body_vars, plan_vars, sync_lock>>

\* CreateTaskChain of two tasks: the second one is added first.
ChainStep(w) ==
  /\ Runs(w, "chain")
  /\ \/ calls[w] = 0 /\ ChainNext(w) /\ Becomes("second", NoOperator)
     \/ calls[w] = 1 /\ SpawnTask(w) /\ Becomes("first", NoOperator)
  /\ calls' = [calls EXCEPT ![w] = @ + 1]
  /\ UNCHANGED <<plan_links, plan_vars, sync_lock>>

\* spawnLambdaTask of the first task, and spawnTask(plan.get()).
SpawnStep(w) ==
  /\ calls[w] = 0
  /\ SpawnTask(w)
  /\ \/ Runs(w, "first") /\ Becomes("spawner", NoOperator)
     \/ Runs(w, "spawner") /\ Becomes("plan", NoOperator)
  /\ calls' = [calls EXCEPT ![w] = 1]
  /\ UNCHANGED <<plan_links, plan_vars, sync_lock>>

\* An operator, or a task it added, adds chains and tasks as it likes.
OperatorStep(w) ==
  /\ Runs(w, "operator") \/ Runs(w, "batch")
  /\ ChainNext(w) \/ SpawnTask(w)
  /\ Becomes("batch", op_of[running[w]])
  /\ UNCHANGED <<plan_links, calls, plan_vars, sync_lock>>

\* What the body must have done when it returns.
BodyDone(w) ==
  LET r == role[running[w]]
  IN  /\ r = "chain" => calls[w] = 2
      /\ r \in {"first", "spawner"} => calls[w] = 1
      /\ r = "plan" => plan_fire = "after"

\* sync_lock.release() at the end of the second task.
FinishStep(w) ==
  /\ running[w] # 0 /\ BodyDone(w)
  /\ FinishTask(w)
  /\ sync_lock' = IF Runs(w, "second") THEN "released" ELSE sync_lock
  /\ UNCHANGED <<plan_links, body_vars, calls, plan_vars>>

------------------------------------------------------------------------------
(* ExecutionPlan::execute() *)

PlanFrame == UNCHANGED <<queue_vars, sched_vars, worker_vars, c_dependent, main_pc, finished,
                         plan_links, sync_lock>>

\* BOUND: k continuations are left.
ContinuationsLeft(k) ==
  continuation_counter + k <= kContinuationMask + MaxContinuations + 1

PlanEnter(w) ==
  /\ Runs(w, "plan")
  /\ c_enter = 0
  /\ ContinuationsLeft(2)
  /\ c_enter' = continuation_counter
  /\ c_exit' = continuation_counter + 1
  /\ continuation_counter' = continuation_counter + 2
  /\ UNCHANGED <<graph_vars, retire_vars, task_counter, continuation, call_vars, links, retired,
                 body_vars, calls, c_operators, task_ids, op_linked, links_left, plan_fire>>
  /\ PlanFrame

HasNext(w) == calls[w] < NumOperators

\* addTask(op->createTask(), c_enter, op_cont) for the next operator ...
PlanAddOperator(w) ==
  /\ Runs(w, "plan")
  /\ c_enter # 0
  /\ HasNext(w) /\ Cardinality(op_linked) = calls[w]
  /\ ContinuationsLeft(1)
  /\ continuation_counter' = continuation_counter + 1
  /\ AddTask(w, c_enter, continuation_counter)
  /\ Becomes("operator", calls[w])
  /\ c_operators' = [c_operators EXCEPT ![calls[w]] = continuation_counter]
  /\ task_ids' = [task_ids EXCEPT ![calls[w]] = task_counter]
  /\ calls' = [calls EXCEPT ![w] = @ + 1]
  /\ UNCHANGED <<retire_vars, retired, c_enter, c_exit, op_linked, links_left, plan_fire>>
  /\ PlanFrame

\* addLink: LinkNodes under nodes_mutex_.
AddLink(w, link) ==
  /\ call[w] = "none"
  /\ nodes_mutex = NoThread
  /\ LinkNodes({link})
  /\ UNCHANGED <<retire_vars, id_vars, call_vars, retired>>

\* Mutant: the arguments of addLink are swapped.
ExitLink_swapped(o) == <<c_exit, c_operators[o]>>

ExitLink(o) == <<c_operators[o], c_exit>>

\* ... and addLink(op_cont, c_exit).
PlanLinkExit(w) ==
  /\ Runs(w, "plan")
  /\ \E o \in 0 .. calls[w] - 1 :
       /\ o \in Operator \ op_linked
       /\ AddLink(w, ExitLink(o))
       /\ op_linked' = op_linked \cup {o}
  /\ UNCHANGED <<body_vars, calls, c_enter, c_exit, c_operators, task_ids, links_left, plan_fire>>
  /\ PlanFrame

\* Mutant: the consumer waits for the producer's task and not for what it adds.
Produced_task(o) == task_ids[o]

\* What a consumer of operator o waits for: the continuation of o.
Produced(o) == c_operators[o]

\* One round of the loop over dependents_, an unordered map of unordered sets.
PlanLink(w) ==
  /\ Runs(w, "plan")
  /\ op_linked = Operator
  /\ \E e \in links_left :
       /\ AddLink(w, <<Produced(e[1]), task_ids[e[2]]>>)
       /\ links_left' = links_left \ {e}
  /\ UNCHANGED <<body_vars, calls, c_enter, c_exit, c_operators, task_ids, op_linked, plan_fire>>
  /\ PlanFrame

\* Mutant: the exit task is nobody's dependency.
ExitDependent_none(w) == 0

\* The exit task continues the plan's own continuation.
ExitDependent(w) == continuation[running[w]]

PlanAddExit(w) ==
  /\ Runs(w, "plan")
  /\ op_linked = Operator /\ links_left = {} /\ calls[w] = NumOperators
  /\ AddTask(w, c_exit, ExitDependent(w))
  /\ Becomes("exit", NoOperator)
  /\ calls' = [calls EXCEPT ![w] = @ + 1]
  /\ UNCHANGED <<retire_vars, retired, continuation_counter, plan_vars>>
  /\ PlanFrame

MayFire(w) == calls[w] = NumOperators + 1
Fired == c_enter

\* scheduler->fire(c_enter): processDependents on the worker's own thread ...
PlanFire(w) ==
  /\ Runs(w, "plan")
  /\ plan_fire = "before" /\ MayFire(w) /\ call[w] = "none"
  /\ StartRetiring(w, Fired)
  /\ plan_fire' = "during"
  /\ UNCHANGED <<graph_vars, id_vars, call_vars, links, body_vars, calls, c_enter, c_exit,
                 c_operators, task_ids, op_linked, links_left>>
  /\ PlanFrame

\* ... its loops ...
PlanRetire(w) ==
  /\ Runs(w, "plan")
  /\ RetireStep(w)
  /\ UNCHANGED query_vars

\* ... and its end.
PlanFireEnd(w) ==
  /\ Runs(w, "plan")
  /\ plan_fire = "during"
  /\ nodes_mutex = w /\ retiring = << >> /\ call[w] = "none"
  /\ nodes_mutex' = NoThread
  /\ plan_fire' = "after"
  /\ UNCHANGED <<graph_vars, retiring, id_vars, call_vars, links, retired, body_vars, calls,
                 c_enter, c_exit, c_operators, task_ids, op_linked, links_left>>
  /\ PlanFrame

PlanStep(w) ==
  \/ PlanEnter(w) \/ PlanAddOperator(w) \/ PlanLinkExit(w) \/ PlanLink(w) \/ PlanAddExit(w)
  \/ PlanFire(w) \/ PlanRetire(w) \/ PlanFireEnd(w)

------------------------------------------------------------------------------
QueryWorkerStep(w) ==
  \/ PopTaskStep(w) \/ ChainStep(w) \/ SpawnStep(w) \/ OperatorStep(w) \/ FinishStep(w)
  \/ PlanStep(w)
  \/ (WorkerPopJoin(w) \/ Park(w) \/ CallStep(w)) /\ UNCHANGED query_vars

QueryNext ==
  \/ SchedulerStep /\ UNCHANGED query_vars
  \/ Query \/ ClientStep
  \/ JoinReturns /\ UNCHANGED query_vars
  \/ \E w \in Worker : QueryWorkerStep(w)

QuerySpec == PlanInit /\ [][QueryNext]_all_vars

------------------------------------------------------------------------------
(* Properties *)

Works(o) == {t \in TaskID : t < task_counter /\ op_of[t] = o}

\* "No inter-operator pipelining": no task of a consumer runs before every task
\* of its producers, the ones they added while they ran included, has returned.
ProducersFirst ==
  \A e \in plan_links : \A t \in Works(e[2]) :
    Started(t) => Works(e[1]) # {} /\ Works(e[1]) \subseteq finished

\* The result is materialized, and the client's lock released, after every
\* operator with all its tasks and the exit task.
ResultComplete ==
  \A t \in TaskID : t < task_counter /\ role[t] = "second" /\ Started(t) =>
    /\ \A o \in Operator : Works(o) # {} /\ Works(o) \subseteq finished
    /\ \E u \in finished : role[u] = "exit"

------------------------------------------------------------------------------
(* Liveness: the threads are fair and the client, once it began, goes on.     *)

QueryFairness ==
  /\ WF_all_vars(SchedulerStep /\ UNCHANGED query_vars)
  /\ \A w \in Worker : WF_all_vars(QueryWorkerStep(w))
  /\ WF_all_vars(CallStep(MainThread) /\ UNCHANGED query_vars)

FairQuerySpec == QuerySpec /\ QueryFairness

\* sync_lock.wait() returns: the query's tasks reach the second task of the
\* chain whatever the operators add.
QueryReturns == (sync_lock = "held") ~> (sync_lock = "released")

==============================================================================
