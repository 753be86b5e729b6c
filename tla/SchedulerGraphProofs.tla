---------------------------- MODULE SchedulerGraphProofs ---------------------
(***************************************************************************)
(* The steps that change the node table preserve the invariant: retiring a   *)
(* node and its dependents, and adding a task.                               *)
(***************************************************************************)
EXTENDS SchedulerInvariant, FiniteSetTheorems

\* Leaves are first-order; the ones that need arithmetic or functions cite SMT.
USE ZenonT(60)

------------------------------------------------------------------------------
(* Finiteness *)

\* Node ids are finitely many.
LEMMA NodeIDFinite == IsFiniteSet(NodeID)
<1>1. IsFiniteSet(TaskID)
  BY FS_Interval, SchedulerAssumption, SMTT(30) DEF TaskID
<1>2. IsFiniteSet(Continuation)
  BY FS_Interval, SchedulerAssumption, SMTT(30) DEF Continuation
<1> QED
  BY <1>1, <1>2, FS_Union DEF NodeID

\* The dependencies of a node are finitely many, so the counts are numbers.
LEMMA DependenciesFinite ==
  ASSUME NEW n
  PROVE  /\ IsFiniteSet(Dependencies(n))
         /\ Cardinality(Dependencies(n)) \in Nat
         /\ Cardinality(Dependencies(n)) = 0 <=> Dependencies(n) = {}
<1>1. Dependencies(n) \in SUBSET NodeID
  BY DEF Dependencies
<1>2. IsFiniteSet(Dependencies(n))
  BY <1>1, NodeIDFinite, FS_Subset
<1> QED
  BY <1>2, FS_CardinalityType, FS_EmptySet

------------------------------------------------------------------------------
(* The initial states *)

\* The constructor establishes the invariant.
LEMMA InitCore == Init => CoreInv
<1> SUFFICES ASSUME Init PROVE CoreInv
  OBVIOUS
<1>1. /\ Worker # {} /\ 0 \in Worker /\ Worker \subseteq Thread
      /\ \A w \in Worker : w + 1 \in 1 .. num_workers
  BY SchedulerAssumption, SMTT(30) DEF Worker, Thread
<1>2. available_workers \in Seq(Worker)
  BY SchedulerAssumption, <1>1, SMTT(30) DEF Init, Cleared, Worker
<1>3. TypeOK
  <2>1. /\ task_counter \in 1 .. kContinuationMask
        /\ continuation_counter \in
             kContinuationMask + 1 .. kContinuationMask + MaxContinuations + 1
    BY SchedulerAssumption, SMTT(30) DEF Init, Cleared
  <2>2. /\ call \in [Thread -> CallOp] /\ call_task \in [Thread -> TaskID \cup {0}]
        /\ dependents \in [NodeID -> SUBSET NodeID]
        /\ dependency_count \in [NodeID -> Nat]
    BY DEF Init, NoDependents, NoDependency, CallOp
  <2>3. /\ worker_pc \in [Worker -> {"off", "idle", "busy"}]
        /\ worker_msg_queue \in [Worker -> Seq(TaskID \cup {WorkerJoin})]
        /\ running \in [Worker -> TaskID \cup {0}]
        /\ c_dependent \in [Worker -> NodeID \cup {0}]
        /\ continuation \in [TaskID -> NodeID \cup {0}]
    BY SMTT(30) DEF Init
  <2>4. /\ nodes = {} /\ tasks = {} /\ links = {} /\ retired = {} /\ finished = {}
        /\ retiring = << >> /\ task_queue = << >> /\ scheduler_msg_queue = << >>
        /\ halt = FALSE /\ nodes_mutex = NoThread /\ sched_pc = "off" /\ main_pc = "out"
        /\ completed_worker = 0
    BY DEF Init, Cleared
  <2>5. links \in SUBSET (NodeID \X NodeID)
    BY <2>4
  <2>6. /\ retiring \in Seq(NodeID) /\ task_queue \in Seq(TaskID)
        /\ scheduler_msg_queue \in Seq(SchedulerMessage)
    BY <2>4, SMTT(30)
  <2>7. nodes_mutex \in Thread \cup {NoThread} /\ completed_worker \in Worker
    BY <2>4, <1>1
  <2> QED
    BY <1>2, <2>1, <2>2, <2>3, <2>4, <2>5, <2>6, <2>7 DEF TypeOK
<1>4. \A n \in NodeID : Dependencies(n) = {}
  BY DEF Init, Dependencies, NoDependents
<1>5. GraphInv
  BY SchedulerAssumption, <1>4, FS_EmptySet, SMTT(30) DEF Init, GraphInv, NoDependents, NoDependency
<1>6. ReleasedInv
  BY SMTT(30) DEF Init, Cleared, ReleasedInv
<1>7. ChainInv
  <2>1. \A t \in TaskID : continuation[t] = 0
    BY DEF Init
  <2>2. \A w \in Worker : ~Building(w)
    BY DEF Init, Building
  <2> QED
    BY <2>1, <2>2 DEF ChainInv
<1>8. ControlInv
  BY <1>1, Threads, SMTT(30) DEF Init, Cleared, ControlInv
<1>9. WorkersConserved
  BY <1>1, SMTT(30) DEF Init, Cleared, WorkersConserved, Available, Assigned, Executing, Reported,
              Returning, Completing, Worker
<1>10. TasksConserved
  BY SMTT(30) DEF Init, Cleared, TasksConserved, InCall, Queued, Sent, IsRunning, TaskID
<1> QED
  BY <1>3, <1>5, <1>6, <1>7, <1>8, <1>9, <1>10 DEF CoreInv

------------------------------------------------------------------------------
(* processDependents *)

\* The last step of processDependentsUnsafe(node): the node leaves the table.
LEMMA EraseNodeInv ==
  ASSUME CoreInv, NEW thr \in Thread, EraseNode(thr)
  PROVE  CoreInv'
<1> USE DEF CoreInv
<1> DEFINE node == retiring[Len(retiring)]
<1>u. UNCHANGED <<dependents, nodes_mutex, tasks, task_queue, scheduler_msg_queue, task_counter,
                  continuation_counter, continuation, available_workers, halt, sched_pc,
                  completed_worker, worker_pc, worker_msg_queue, running, c_dependent, main_pc,
                  call, call_task, links, retired, finished>>
  BY DEF EraseNode, queue_vars, id_vars, sched_vars, worker_vars, call_vars, history_vars
<1>1. /\ retiring \in Seq(NodeID) /\ retiring # << >>
      /\ retiring' = SubSeq(retiring, 1, Len(retiring) - 1)
      /\ dependency_count' = [dependency_count EXCEPT ![node] = 0]
      /\ nodes' \in SUBSET NodeID
  BY DEF EraseNode, TypeOK
<1>2. /\ retiring' \in Seq(NodeID) /\ node \in NodeID /\ node \in retired
      /\ DOMAIN retiring' \subseteq DOMAIN retiring
      /\ \A i \in DOMAIN retiring' : retiring'[i] = retiring[i]
  BY <1>1, FrontElements, SMTT(30) DEF GraphInv
<1>3. dependency_count' = dependency_count
  <2>1. dependency_count[node] = 0
    BY <1>2, FS_EmptySet DEF GraphInv
  <2> QED
    BY <1>1, <2>1 DEF TypeOK
<1>4. TypeOK'
  BY <1>u, <1>1, <1>2, <1>3 DEF TypeOK
<1>5. GraphInv'
  <2>1. UNCHANGED <<dependents, dependency_count, links, retired, finished, task_counter,
                    continuation_counter>>
    BY <1>u, <1>3
  <2>2. \A i \in DOMAIN retiring' : retiring'[i] \in retired
    BY <1>2 DEF GraphInv
  <2>3. \A n : Dependencies(n)' = Dependencies(n)
    BY <2>1 DEF Dependencies
  <2> QED
    BY <2>1, <2>2, <2>3 DEF GraphInv, Allocated
<1>6. ReleasedInv' /\ ChainInv'
  BY <1>u, ReleasedFrame, ChainFrame
<1>7. ControlInv'
  <2>1. nodes_mutex # NoThread
    BY Threads DEF EraseNode
  <2> QED
    BY <1>u, <2>1 DEF ControlInv, Available
<1>8. WorkersConserved' /\ TasksConserved'
  BY <1>u, WorkersFrame, TasksFrame
<1> QED
  BY <1>4, <1>5, <1>6, <1>7, <1>8

\* One round of the loop of processDependentsUnsafe(): a dependent loses a dependency.
LEMMA ProcessDependentInv ==
  ASSUME CoreInv, NEW thr \in Thread, ProcessDependent(thr)
  PROVE  CoreInv'
<1> USE DEF CoreInv
<1> DEFINE node == retiring[Len(retiring)]
<1>u. UNCHANGED <<nodes, nodes_mutex, task_queue, scheduler_msg_queue, task_counter,
                  continuation_counter, continuation, available_workers, halt, sched_pc,
                  completed_worker, worker_pc, worker_msg_queue, running, c_dependent, main_pc,
                  links, finished>>
  BY DEF ProcessDependent, id_vars, sched_vars, worker_vars
<1>1. PICK d \in dependents[node] :
        /\ dependents' = [dependents EXCEPT ![node] = @ \ {d}]
        /\ dependency_count' = [dependency_count EXCEPT ![d] = @ - 1]
        /\ IF dependency_count[d] = 1 /\ IsTaskID(d)
           THEN /\ d \in tasks
                /\ tasks' = tasks \ {d}
                /\ call' = [call EXCEPT ![thr] = "enqueue"]
                /\ call_task' = [call_task EXCEPT ![thr] = d]
           ELSE UNCHANGED <<tasks, call, call_task>>
        /\ IF dependency_count[d] = 1 /\ ~IsTaskID(d)
           THEN /\ retiring' = Append(retiring, d)
                /\ retired' = retired \cup {d}
           ELSE UNCHANGED <<retiring, retired>>
  BY DEF ProcessDependent
<1>2. /\ retiring \in Seq(NodeID) /\ node \in NodeID /\ node \in retired
      /\ call[thr] = "none" /\ nodes_mutex = thr /\ thr # MainThread /\ thr # NoThread
      /\ thr = SchedulerThread => sched_pc = "retire"
      /\ thr \in Worker => running[thr] # 0
  <2>1. /\ retiring # << >> /\ retiring \in Seq(NodeID) /\ call[thr] = "none"
        /\ nodes_mutex = thr
    BY DEF ProcessDependent, TypeOK
  <2>2. node \in NodeID /\ node \in retired
    BY <2>1, FrontElements, SMTT(30) DEF GraphInv
  <2> QED
    BY <2>1, <2>2, Threads DEF ControlInv
<1>3. /\ d \in NodeID /\ node \in Dependencies(d) /\ d \notin retired /\ Allocated(d)
  <2>1. d \in NodeID /\ node \in Dependencies(d)
    BY <1>2 DEF TypeOK, Dependencies
  <2>2. <<node, d>> \in links
    BY <1>2 DEF GraphInv
  <2> QED
    BY <2>1, <2>2 DEF GraphInv
<1>4. UNCHANGED <<nodes, nodes_mutex, task_queue, scheduler_msg_queue, task_counter,
                  continuation_counter, continuation, available_workers, halt, sched_pc,
                  completed_worker, worker_pc, worker_msg_queue, running, c_dependent, main_pc,
                  links, finished>>
  BY <1>u
<1>5. /\ \A n \in NodeID : dependents'[n] = IF n = node THEN dependents[n] \ {d} ELSE dependents[n]
      /\ \A n \in NodeID : dependents'[n] \subseteq dependents[n]
      /\ dependents' \in [NodeID -> SUBSET NodeID]
  BY <1>1, <1>2 DEF TypeOK
<1>6. /\ Dependencies(d)' = Dependencies(d) \ {node}
      /\ \A n \in NodeID : n # d => Dependencies(n)' = Dependencies(n)
      /\ \A n \in NodeID : Dependencies(n)' \subseteq Dependencies(n)
  BY <1>2, <1>3, <1>5 DEF Dependencies
<1>7. /\ dependency_count'[d] = Cardinality(Dependencies(d)')
      /\ dependency_count'[d] = dependency_count[d] - 1
      /\ dependency_count'[d] \in Nat
      /\ dependency_count[d] = 1 => Dependencies(d)' = {}
      /\ \A n \in NodeID : n # d => dependency_count'[n] = dependency_count[n]
  <2>1. /\ dependency_count'[d] = dependency_count[d] - 1
        /\ \A n \in NodeID : n # d => dependency_count'[n] = dependency_count[n]
    BY <1>1, <1>3 DEF TypeOK
  <2>2. dependency_count[d] = Cardinality(Dependencies(d))
    BY <1>3 DEF GraphInv
  <2>3. /\ IsFiniteSet(Dependencies(d) \ {node})
        /\ Cardinality(Dependencies(d) \ {node}) = Cardinality(Dependencies(d)) - 1
    BY <1>3, DependenciesFinite, FS_RemoveElement
  <2>4. Cardinality(Dependencies(d) \ {node}) \in Nat
    BY <2>3, FS_CardinalityType
  <2>5. Cardinality(Dependencies(d) \ {node}) = 0 => Dependencies(d) \ {node} = {}
    BY <2>3, FS_EmptySet
  <2>6. Cardinality(Dependencies(d)) \in Nat
    BY DependenciesFinite
  <2> QED
    BY <2>1, <2>2, <2>3, <2>4, <2>5, <2>6, <1>6, SMTT(40)
<1>8. /\ retired' \in SUBSET NodeID
      /\ retiring' \in Seq(NodeID)
      /\ \A i \in DOMAIN retiring' : retiring'[i] \in retired'
      /\ retired \subseteq retired'
      /\ \A n \in retired' \ retired : n = d /\ dependency_count[d] = 1 /\ ~IsTaskID(d)
  <2>1. CASE dependency_count[d] = 1 /\ ~IsTaskID(d)
    <3>1. retiring' = Append(retiring, d) /\ retired' = retired \cup {d}
      BY <2>1, <1>1
    <3>2. /\ retiring' \in Seq(NodeID)
          /\ \A i \in DOMAIN retiring' : retiring'[i] = d \/ \E j \in DOMAIN retiring : retiring'[i] = retiring[j]
      BY <3>1, <1>2, <1>3, AppendElements, SMTT(40)
    <3>3. \A j \in DOMAIN retiring : retiring[j] \in retired
      BY DEF GraphInv
    <3> QED
      BY <3>1, <3>2, <3>3, <2>1, <1>3 DEF TypeOK
  <2>2. CASE ~(dependency_count[d] = 1 /\ ~IsTaskID(d))
    BY <2>2, <1>1, <1>2, SMTT(40) DEF TypeOK, GraphInv
  <2> QED
    BY <2>1, <2>2
<1>9. IsTaskID(d) <=> d \in TaskID
  BY SchedulerAssumption, <1>3, SMTT(30) DEF IsTaskID, NodeID, TaskID, Continuation
<1>10. TypeOK'
  <2>1. dependency_count' \in [NodeID -> Nat]
    BY <1>1, <1>7, <1>3 DEF TypeOK
  <2>2. tasks' \in SUBSET TaskID /\ call' \in [Thread -> CallOp]
        /\ call_task' \in [Thread -> TaskID \cup {0}]
    <3>1. CASE dependency_count[d] = 1 /\ IsTaskID(d)
      <4>1. /\ tasks' = tasks \ {d}
            /\ call' = [call EXCEPT ![thr] = "enqueue"]
            /\ call_task' = [call_task EXCEPT ![thr] = d]
        BY <3>1, <1>1
      <4> QED
        BY <3>1, <4>1, <1>9 DEF TypeOK, CallOp
    <3>2. CASE ~(dependency_count[d] = 1 /\ IsTaskID(d))
      BY <3>2, <1>1 DEF TypeOK
    <3> QED
      BY <3>1, <3>2
  <2> QED
    BY <1>4, <1>5, <1>8, <2>1, <2>2 DEF TypeOK
<1>11. GraphInv'
  <2>1. \A n \in NodeID : dependency_count'[n] = Cardinality(Dependencies(n)')
    BY <1>6, <1>7 DEF GraphInv
  <2>2. \A e \in links : e[1] \in retired' \/ e[2] \in dependents'[e[1]]
    <3> TAKE e \in links
    <3>1. e[1] \in NodeID
      BY DEF TypeOK
    <3> QED
      BY <3>1, <1>2, <1>5, <1>8 DEF GraphInv
  <2>3. \A m \in NodeID : \A n \in dependents'[m] : <<m, n>> \in links
    BY <1>5 DEF GraphInv
  <2>4. \A n \in retired' : Allocated(n) /\ Dependencies(n)' = {}
    <3> TAKE n \in retired'
    <3>1. CASE n \in retired
      BY <3>1, <1>6 DEF GraphInv, TypeOK
    <3>2. CASE n \notin retired
      BY <3>2, <1>3, <1>7, <1>8, SMTT(40)
    <3> QED
      BY <3>1, <3>2
  <2>5. \A t \in retired' \cap TaskID : t \in finished
    BY <1>8, <1>9, SMTT(30) DEF GraphInv
  <2> QED
    BY <1>4, <1>8, <2>1, <2>2, <2>3, <2>4, <2>5 DEF GraphInv, Allocated
<1>12. ReleasedInv'
  <2>1. \A n : (\A m \in NodeID : n \notin dependents[m]) => \A m \in NodeID : n \notin dependents'[m]
    BY <1>5
  <2>2. dependency_count[d] = 1 => \A m \in NodeID : d \notin dependents'[m]
    BY <1>7 DEF Dependencies
  <2>3. \A u \in Thread : call'[u] = "enqueue" =>
          \/ call[u] = "enqueue" /\ call_task'[u] = call_task[u]
          \/ dependency_count[d] = 1 /\ call_task'[u] = d
    BY <1>1 DEF TypeOK
  <2>4. \A u \in Thread : (call[u] = "enqueue" => Dependencies(call_task[u]) = {})'
    BY <2>1, <2>2, <2>3, SMTT(30) DEF ReleasedInv, Dependencies
  <2>5. /\ \A i \in DOMAIN task_queue : (Dependencies(task_queue[i]) = {})'
        /\ \A w \in Worker : \A i \in DOMAIN worker_msg_queue[w] :
             (worker_msg_queue[w][i] # WorkerJoin => Dependencies(worker_msg_queue[w][i]) = {})'
        /\ \A w \in Worker : (running[w] # 0 => Dependencies(running[w]) = {})'
        /\ \A t \in finished : (Dependencies(t) = {})'
    BY <1>4, <2>1 DEF ReleasedInv, Dependencies
  <2> QED
    BY <1>4, <2>4, <2>5 DEF ReleasedInv, Dependencies
<1>13. ChainInv'
  <2>1. \A w \in Worker : Building(w)' <=> Building(w)
    BY <1>4 DEF Building
  <2>2. \A w \in Worker : Building(w) =>
          /\ c_dependent[w] \notin retired'
          /\ \A m \in NodeID : c_dependent[w] \notin dependents'[m]
    <3> TAKE w \in Worker
    <3> HAVE Building(w)
    <3>1. /\ c_dependent[w] \notin retired
          /\ \A m \in NodeID : c_dependent[w] \notin dependents[m]
      BY DEF ChainInv, Dependencies
    <3>2. c_dependent[w] # d
      BY <3>1, <1>2
    <3> QED
      BY <3>1, <3>2, <1>5, <1>8
  <2>5. \A w \in Worker : (Building(w) => /\ c_dependent[w] \in Continuation
                                          /\ Allocated(c_dependent[w])
                                          /\ c_dependent[w] \notin retired
                                          /\ Dependencies(c_dependent[w]) = {})'
    BY <2>1, <2>2, <1>4 DEF ChainInv, Dependencies, Allocated
  <2>6. /\ \A t \in TaskID : continuation'[t] \in Continuation \cup {0}
        /\ \A t \in TaskID : t < task_counter' /\ continuation'[t] # 0 =>
             <<t, continuation'[t]>> \in links'
        /\ \A v, w \in Worker :
             Building(v) /\ Building(w) /\ c_dependent'[v] = c_dependent'[w] => v = w
    BY <1>4 DEF ChainInv
  <2> QED
    BY <2>1, <2>5, <2>6 DEF ChainInv
<1>14. ControlInv'
  <2>1. CASE dependency_count[d] = 1 /\ IsTaskID(d)
    <3>1. /\ call'[thr] = "enqueue" /\ call_task'[thr] = d
          /\ \A u \in Thread : u # thr => call'[u] = call[u] /\ call_task'[u] = call_task[u]
      <4>1. /\ call' = [call EXCEPT ![thr] = "enqueue"]
            /\ call_task' = [call_task EXCEPT ![thr] = d]
        BY <2>1, <1>1
      <4> QED
        BY <4>1, <1>2 DEF TypeOK
    <3>2. \A u \in Thread : call'[u] = "park" => call[u] = "park"
      BY <3>1
    <3>3. \A u \in Thread : call'[u] \in {"enqueue", "park"} => call_task'[u] \in TaskID
      BY <3>1, <1>9, <2>1 DEF ControlInv
    <3>4. /\ \A w \in Worker : running[w] = 0 => call'[w] = "none"
          /\ sched_pc # "retire" => call'[SchedulerThread] = "none"
          /\ main_pc = "joining" => call'[MainThread] = "none"
      BY <3>1, <1>2, Threads DEF ControlInv
    <3> QED
      BY <3>2, <3>3, <3>4, <1>2, <1>4 DEF ControlInv, Available
  <2>2. CASE ~(dependency_count[d] = 1 /\ IsTaskID(d))
    <3>1. UNCHANGED <<call, call_task>>
      BY <2>2, <1>1
    <3> QED
      BY <3>1, <1>2, <1>4 DEF ControlInv, Available
  <2> QED
    BY <2>1, <2>2
<1>15. WorkersConserved'
  BY <1>u, <1>4, WorkersFrame
<1>16. TasksConserved'
  <2>1. CASE dependency_count[d] = 1 /\ IsTaskID(d)
    <3>1. /\ call'[thr] = "enqueue" /\ call_task'[thr] = d
          /\ \A u \in Thread : u # thr => call'[u] = call[u] /\ call_task'[u] = call_task[u]
          /\ d \in tasks /\ tasks' = tasks \ {d}
      BY <2>1, <1>1, <1>2 DEF TypeOK
    <3>2. \A t \in TaskID : InCall(t)' <=> InCall(t) \/ t = d
      BY <3>1, <1>2 DEF InCall
    <3>3. ~InCall(d)
      BY <3>1, <2>1, <1>9 DEF TasksConserved
    <3>4. \A t \in TaskID : \A u, v \in Thread :
            (/\ call'[u] \in {"enqueue", "park"} /\ call_task'[u] = t
             /\ call'[v] \in {"enqueue", "park"} /\ call_task'[v] = t) => u = v
      BY <3>1, <3>3, <1>2, SMTT(30) DEF TasksConserved, InCall
    <3>5. \A t \in TaskID : /\ Queued(t)' <=> Queued(t)
                            /\ Sent(t)' <=> Sent(t)
                            /\ IsRunning(t)' <=> IsRunning(t)
      BY <1>4 DEF Queued, Sent, IsRunning
    <3> QED
      BY <3>1, <3>2, <3>3, <3>4, <3>5, <1>4, <1>9, <2>1, SMTT(40) DEF TasksConserved
  <2>2. CASE ~(dependency_count[d] = 1 /\ IsTaskID(d))
    BY <1>u, <2>2, <1>1, <1>4, TasksFrame
  <2> QED
    BY <2>1, <2>2
<1> QED
  BY <1>10, <1>11, <1>12, <1>13, <1>14, <1>15, <1>16

------------------------------------------------------------------------------
(* addTask *)

\* Nothing in the scheduler names an id that has not been allocated.
LEMMA FreshNode ==
  ASSUME CoreInv, NEW n \in NodeID, ~Allocated(n)
  PROVE  /\ dependents[n] = {}
         /\ \A m \in NodeID : n \notin dependents[m]
         /\ n \notin retired
         /\ \A e \in links : e[1] # n /\ e[2] # n
<1> USE DEF CoreInv
<1>1. n \notin retired /\ \A e \in links : e[1] # n /\ e[2] # n
  BY DEF GraphInv
<1>2. \A m, k \in NodeID : k \in dependents[m] => m # n /\ k # n
  BY <1>1 DEF GraphInv
<1> QED
  BY <1>1, <1>2 DEF TypeOK

\* LinkNodes keeps the counts: a node's count grows by its new dependencies.
LEMMA LinkNodesCounts ==
  ASSUME TypeOK, GraphInv, NEW E \in SUBSET (NodeID \X NodeID), LinkNodes(E)
  PROVE  /\ nodes' \in SUBSET NodeID
         /\ dependents' \in [NodeID -> SUBSET NodeID]
         /\ dependency_count' \in [NodeID -> Nat]
         /\ links' \in SUBSET (NodeID \X NodeID) /\ links' = links \cup E
         /\ \A m, n \in NodeID : n \in dependents'[m] <=> n \in dependents[m] \/ <<m, n>> \in E
         /\ \A n \in NodeID : dependency_count'[n] = Cardinality(Dependencies(n)')
<1>1. /\ dependents' \in [NodeID -> SUBSET NodeID]
      /\ \A m, n \in NodeID : n \in dependents'[m] <=> n \in dependents[m] \/ <<m, n>> \in E
  BY DEF TypeOK, LinkNodes
<1>2. \A n \in NodeID : /\ dependency_count'[n] = Cardinality(Dependencies(n)')
                        /\ dependency_count'[n] \in Nat
  <2> TAKE n \in NodeID
  <2> DEFINE A == Dependencies(n)
             B == NewDependencies(n, E)
  <2>1. Dependencies(n)' = A \cup B /\ A \cap B = {}
    BY <1>1 DEF Dependencies, NewDependencies
  <2>2. IsFiniteSet(A) /\ Cardinality(A) \in Nat /\ dependency_count[n] = Cardinality(A)
    BY DependenciesFinite DEF GraphInv
  <2>3. IsFiniteSet(B) /\ Cardinality(B) \in Nat
    <3>1. B \subseteq NodeID
      BY DEF NewDependencies
    <3> QED
      BY <3>1, NodeIDFinite, FS_Subset, FS_CardinalityType
  <2>4. Cardinality(A \cup B) = Cardinality(A) + Cardinality(B) - Cardinality(A \cap B)
    BY <2>2, <2>3, FS_Union
  <2>5. Cardinality(A \cap B) = 0
    BY <2>1, FS_EmptySet
  <2>6. dependency_count'[n] = dependency_count[n] + Cardinality(B)
    BY DEF LinkNodes
  <2> HIDE DEF A, B
  <2> QED
    BY <2>1, <2>2, <2>3, <2>4, <2>5, <2>6, SMTT(40)
<1>3. dependency_count' \in [NodeID -> Nat]
  BY <1>2 DEF LinkNodes
<1> QED
  BY <1>1, <1>2, <1>3 DEF LinkNodes, TypeOK

\* What addTask does, whoever calls it: all of the invariant but ChainInv,
\* which depends on the caller.
LEMMA AddTaskInv ==
  ASSUME CoreInv,
         NEW thr \in Worker \cup {MainThread}, NEW dependency, NEW dependent,
         AddTask(thr, dependency, dependent),
         /\ continuation_counter' \in {continuation_counter, continuation_counter + 1}
         /\ continuation_counter' <= kContinuationMask + MaxContinuations + 1,
         \/ dependency = 0
         \/ thr \in Worker /\ dependency \in Continuation /\ dependency < continuation_counter',
         \/ dependent = 0
         \/ /\ dependent \in Continuation /\ dependent < continuation_counter'
            /\ dependent \notin retired,
         IF thr = MainThread THEN main_pc = "out" ELSE running[thr] # 0,
         c_dependent' \in [Worker -> NodeID \cup {0}],
         UNCHANGED <<retire_vars, queue_vars, sched_vars, worker_vars, main_pc, retired, finished>>
  PROVE  /\ TypeOK' /\ GraphInv' /\ ReleasedInv' /\ ControlInv' /\ WorkersConserved'
         /\ TasksConserved'
         /\ task_counter \in TaskID /\ ~Allocated(task_counter)
         /\ \A n \in NodeID : Allocated(n) => Allocated(n)'
         /\ task_counter' = task_counter + 1
         /\ continuation' = [continuation EXCEPT ![task_counter] = dependent]
         /\ dependent # 0 => <<task_counter, dependent>> \in links'
         /\ links \subseteq links'
         /\ \A m, n \in NodeID : n \in dependents'[m] <=>
              \/ n \in dependents[m]
              \/ m = task_counter /\ n = dependent
              \/ m = dependency /\ n = task_counter
<1> USE DEF CoreInv
<1> DEFINE t == task_counter
           E == TaskEdges(t, dependency, dependent)
<1>1. /\ t \in TaskID /\ t \in NodeID /\ t \in Nat /\ ~Allocated(t) /\ t # 0
      /\ task_counter' = t + 1
  BY SchedulerAssumption, SMTT(30) DEF AddTask, TypeOK, TaskID, NodeID, Allocated
<1>2. /\ dependency # 0 => dependency \in NodeID /\ dependency \notin TaskID
      /\ dependent # 0 => dependent \in NodeID /\ dependent \notin TaskID
      /\ continuation_counter' \in
           kContinuationMask + 1 .. kContinuationMask + MaxContinuations + 1
      /\ continuation_counter <= continuation_counter' /\ 0 \notin NodeID
  <2>1. /\ continuation_counter' \in
             kContinuationMask + 1 .. kContinuationMask + MaxContinuations + 1
        /\ continuation_counter <= continuation_counter' /\ 0 \notin NodeID
    BY SchedulerAssumption, NodeIDs, SMTT(40) DEF TypeOK
  <2>2. Continuation \subseteq NodeID /\ \A n \in Continuation : n \notin TaskID
    BY NodeIDs DEF NodeID
  <2> QED
    BY <2>1, <2>2
<1>3. /\ E \in SUBSET (NodeID \X NodeID)
      /\ \A m, n : <<m, n>> \in E <=> \/ m = t /\ n = dependent /\ dependent # 0
                                      \/ m = dependency /\ n = t /\ dependency # 0
      /\ \A e \in E : \/ e = <<t, dependent>> /\ dependent # 0
                      \/ e = <<dependency, t>> /\ dependency # 0
  <2>1. \A e : e \in E <=> \/ e = <<t, dependent>> /\ dependent # 0
                           \/ e = <<dependency, t>> /\ dependency # 0
    <3>1. \A e : e \in E <=> /\ e = <<t, dependent>> \/ e = <<dependency, t>>
                             /\ e[1] # 0 /\ e[2] # 0
      BY DEF TaskEdges
    <3>2. /\ <<t, dependent>>[1] = t /\ <<t, dependent>>[2] = dependent
          /\ <<dependency, t>>[1] = dependency /\ <<dependency, t>>[2] = t
      OBVIOUS
    <3> HIDE DEF E
    <3> QED
      BY <3>1, <3>2, <1>1
  <2> HIDE DEF E
  <2>2. E \in SUBSET (NodeID \X NodeID)
    <3>1. dependent # 0 => <<t, dependent>> \in NodeID \X NodeID
      BY <1>1, <1>2
    <3>2. dependency # 0 => <<dependency, t>> \in NodeID \X NodeID
      BY <1>1, <1>2
    <3> QED
      BY <2>1, <3>1, <3>2
  <2>3. \A m, n : /\ <<m, n>> = <<t, dependent>> <=> m = t /\ n = dependent
                  /\ <<m, n>> = <<dependency, t>> <=> m = dependency /\ n = t
    OBVIOUS
  <2> QED
    BY <2>1, <2>2, <2>3, SMTT(30)
<1>4. LinkNodes(E)
  BY DEF AddTask
<1> HIDE DEF E
<1>5. /\ nodes' \in SUBSET NodeID
      /\ dependents' \in [NodeID -> SUBSET NodeID]
      /\ dependency_count' \in [NodeID -> Nat]
      /\ links' \in SUBSET (NodeID \X NodeID) /\ links' = links \cup E
      /\ \A m, n \in NodeID : n \in dependents'[m] <=> n \in dependents[m] \/ <<m, n>> \in E
      /\ \A n \in NodeID : dependency_count'[n] = Cardinality(Dependencies(n)')
  BY <1>3, <1>4, LinkNodesCounts
<1>6. \A m, n \in NodeID : n \in dependents'[m] <=>
        \/ n \in dependents[m]
        \/ m = t /\ n = dependent
        \/ m = dependency /\ n = t
  <2> TAKE m, n \in NodeID
  <2>1. n \in dependents'[m] <=> n \in dependents[m] \/ <<m, n>> \in E
    BY <1>5
  <2>2. m # 0 /\ n # 0
    BY <1>2
  <2> QED
    BY <1>3, <2>1, <2>2
<1>7. /\ \A m \in NodeID : t \notin dependents[m]
      /\ t \notin retired
  BY <1>1, FreshNode
<1>9. /\ call \in [Thread -> CallOp] /\ thr \in Thread /\ thr # SchedulerThread
      /\ call[thr] = "none"
      /\ call' = [call EXCEPT ![thr] = AfterLinking(dependency)]
      /\ call_task' = [call_task EXCEPT ![thr] = t]
  BY SchedulerAssumption, SMTT(30) DEF AddTask, TypeOK, Thread, Worker, MainThread, SchedulerThread
<1>10. /\ call'[thr] = AfterLinking(dependency) /\ call_task'[thr] = t
       /\ \A u \in Thread : u # thr => call'[u] = call[u] /\ call_task'[u] = call_task[u]
       /\ call' \in [Thread -> CallOp] /\ call_task' \in [Thread -> TaskID \cup {0}]
       /\ AfterLinking(dependency) = IF dependency = 0 THEN "enqueue" ELSE "park"
  BY <1>1, <1>9 DEF TypeOK, AfterLinking, CallOp
<1>11. UNCHANGED <<nodes_mutex, retiring, tasks, task_queue, scheduler_msg_queue,
                   available_workers, halt, sched_pc, completed_worker, worker_pc,
                   worker_msg_queue, running, main_pc, retired, finished>>
  BY DEF retire_vars, queue_vars, sched_vars, worker_vars
<1>12. TypeOK'
  <2>1. continuation' \in [TaskID -> NodeID \cup {0}]
    BY <1>2 DEF AddTask, TypeOK
  <2>2. task_counter' \in 1 .. kContinuationMask
    BY SchedulerAssumption, SMTT(30) DEF AddTask, TypeOK
  <2> QED
    BY <1>2, <1>5, <1>10, <1>11, <2>1, <2>2 DEF TypeOK
<1>8. \A n \in NodeID : Allocated(n) => Allocated(n)'
  BY <1>1, <1>2, NodeIDs, SMTT(30) DEF Allocated, TypeOK
<1>13. GraphInv'
  <2>1. \A n \in NodeID : Allocated(n) => Allocated(n)'
    BY <1>8
  <2>2. \A n : n = t => Allocated(n)'
    BY <1>1, SMTT(30) DEF Allocated
  <2>3. \A n : n = dependency /\ n # 0 => Allocated(n)'
    BY SchedulerAssumption, SMTT(30) DEF Allocated, Continuation
  <2>4. \A n : n = dependent /\ n # 0 => Allocated(n)'
    BY SchedulerAssumption, SMTT(30) DEF Allocated, Continuation
  <2>5. \A e \in links' : \/ e \in links
                          \/ e = <<t, dependent>> /\ dependent # 0
                          \/ e = <<dependency, t>> /\ dependency # 0
    <3>1. \A e \in links' : e \in links \/ e \in E
      BY <1>5
    <3> QED
      BY <3>1, <1>3
  <2>6. \A e \in links' : Allocated(e[1])' /\ Allocated(e[2])'
    <3> TAKE e \in links'
    <3>1. CASE e \in links
      BY <3>1, <2>1 DEF GraphInv, TypeOK
    <3>2. CASE e = <<t, dependent>> /\ dependent # 0
      BY <3>2, <1>1, <2>4, SMTT(30) DEF Allocated
    <3>3. CASE e = <<dependency, t>> /\ dependency # 0
      BY <3>3, <1>1, <2>3, SMTT(30) DEF Allocated
    <3> QED
      BY <3>1, <3>2, <3>3, <2>5
  <2>7. \A e \in links' : e[1] \in retired \/ e[2] \in dependents'[e[1]]
    <3> TAKE e \in links'
    <3>1. CASE e \in links
      <4>1. e[1] \in NodeID /\ e[2] \in NodeID
        BY <3>1 DEF TypeOK
      <4> QED
        BY <3>1, <4>1, <1>6 DEF GraphInv
    <3>2. CASE e = <<t, dependent>> /\ dependent # 0
      BY <3>2, <1>1, <1>2, <1>6
    <3>3. CASE e = <<dependency, t>> /\ dependency # 0
      BY <3>3, <1>1, <1>2, <1>6
    <3> QED
      BY <3>1, <3>2, <3>3, <2>5
  <2>8. \A m \in NodeID : \A n \in dependents'[m] : <<m, n>> \in links'
    <3> TAKE m \in NodeID
    <3> TAKE n \in dependents'[m]
    <3>1. n \in NodeID
      BY <1>5
    <3>2. n \in dependents[m] \/ <<m, n>> \in E
      BY <3>1, <1>5
    <3> QED
      BY <3>2, <1>5 DEF GraphInv
  <2>9. \A n \in retired : Allocated(n)' /\ Dependencies(n)' = {}
    <3> TAKE n \in retired
    <3>1. n \in NodeID /\ n # t /\ n # dependent /\ Allocated(n) /\ Dependencies(n) = {}
      <4>1. n \in NodeID
        BY DEF TypeOK
      <4> QED
        BY <4>1, <1>7, <1>2 DEF GraphInv
    <3>2. Dependencies(n)' = {}
      BY <3>1, <1>6 DEF Dependencies
    <3> QED
      BY <3>1, <3>2, <2>1
  <2>10. /\ \A k \in retired' \cap TaskID : k \in finished'
         /\ \A i \in DOMAIN retiring' : retiring'[i] \in retired'
    BY <1>11 DEF GraphInv
  <2> QED
    BY <1>5, <1>11, <2>6, <2>7, <2>8, <2>9, <2>10 DEF GraphInv
<1>14. ReleasedInv'
  <2>1. \A n \in TaskID : n < t /\ (\A m \in NodeID : n \notin dependents[m]) =>
          \A m \in NodeID : n \notin dependents'[m]
    <3>1. TaskID \subseteq NodeID
      BY DEF NodeID
    <3>2. \A n \in TaskID : n < t => n # t /\ n # dependent
      BY <3>1, <1>1, <1>2, SMTT(30)
    <3> QED
      BY <3>1, <3>2, <1>6
  <2>2. dependency = 0 => \A m \in NodeID : t \notin dependents'[m]
    <3>1. 0 \notin NodeID
      BY NodeIDs
    <3> QED
      BY <3>1, <1>1, <1>2, <1>6, <1>7
  <2>3. \A u \in Thread : (call[u] = "enqueue" => Dependencies(call_task[u]) = {})'
    <3> TAKE u \in Thread
    <3>1. CASE u = thr
      BY <3>1, <1>10, <2>2 DEF Dependencies
    <3>2. CASE u # thr
      <4>1. call[u] = "enqueue" => call_task[u] \in TaskID /\ call_task[u] < t
        <5>1. call[u] = "enqueue" => call_task[u] \in TaskID /\ InCall(call_task[u])
          BY DEF ControlInv, InCall
        <5> QED
          BY <5>1 DEF TasksConserved
      <4> QED
        BY <3>2, <4>1, <1>10, <2>1 DEF ReleasedInv, Dependencies
    <3> QED
      BY <3>1, <3>2
  <2>4. \A i \in DOMAIN task_queue : (Dependencies(task_queue[i]) = {})'
    <3>1. \A i \in DOMAIN task_queue : task_queue[i] \in TaskID /\ task_queue[i] < t
      <4>1. \A i \in DOMAIN task_queue : task_queue[i] \in TaskID /\ Queued(task_queue[i])
        BY SMTT(30) DEF TypeOK, Queued
      <4> QED
        BY <4>1 DEF TasksConserved
    <3> QED
      BY <3>1, <1>11, <2>1 DEF ReleasedInv, Dependencies
  <2>5. \A w \in Worker : \A i \in DOMAIN worker_msg_queue[w] :
          (worker_msg_queue[w][i] # WorkerJoin => Dependencies(worker_msg_queue[w][i]) = {})'
    <3>1. \A w \in Worker : \A i \in DOMAIN worker_msg_queue[w] :
            worker_msg_queue[w][i] # WorkerJoin =>
              worker_msg_queue[w][i] \in TaskID /\ worker_msg_queue[w][i] < t
      <4>1. \A w \in Worker : \A i \in DOMAIN worker_msg_queue[w] :
              worker_msg_queue[w][i] # WorkerJoin =>
                worker_msg_queue[w][i] \in TaskID /\ Sent(worker_msg_queue[w][i])
        BY SMTT(30) DEF TypeOK, Sent
      <4> QED
        BY <4>1 DEF TasksConserved
    <3> QED
      BY <3>1, <1>11, <2>1 DEF ReleasedInv, Dependencies
  <2>6. \A w \in Worker : (running[w] # 0 => Dependencies(running[w]) = {})'
    <3>1. \A w \in Worker : running[w] # 0 => running[w] \in TaskID /\ running[w] < t
      <4>1. \A w \in Worker : running[w] # 0 => running[w] \in TaskID /\ IsRunning(running[w])
        BY DEF TypeOK, IsRunning
      <4> QED
        BY <4>1 DEF TasksConserved
    <3> QED
      BY <3>1, <1>11, <2>1 DEF ReleasedInv, Dependencies
  <2>7. \A k \in finished : (Dependencies(k) = {})'
    <3>1. \A k \in finished : k \in TaskID /\ k < t
      BY DEF TypeOK, TasksConserved
    <3> QED
      BY <3>1, <2>1 DEF ReleasedInv, Dependencies
  <2> QED
    BY <1>11, <2>3, <2>4, <2>5, <2>6, <2>7 DEF ReleasedInv, Dependencies
<1>15. ControlInv'
  <2>1. /\ MainThread \in Thread /\ SchedulerThread \in Thread /\ Worker \subseteq Thread
        /\ MainThread \notin Worker
    BY SchedulerAssumption, SMTT(30) DEF MainThread, SchedulerThread, Thread, Worker
  <2>2. /\ \A u \in Thread : call'[u] \in {"enqueue", "park"} => call_task'[u] \in TaskID
        /\ \A u \in Thread \ Worker : call'[u] # "park"
    BY <1>1, <1>9, <1>10 DEF ControlInv
  <2>3. /\ \A w \in Worker : running[w] = 0 => call'[w] = "none"
        /\ main_pc = "joining" => call'[MainThread] = "none"
    BY <1>9, <1>10, <2>1 DEF ControlInv
  <2>4. call'[SchedulerThread] = call[SchedulerThread]
    BY <1>9, <1>10, <2>1
  <2> QED
    BY <1>11, <2>2, <2>3, <2>4 DEF ControlInv, Available
<1>16. WorkersConserved'
  BY <1>11, WorkersFrame
<1>17. TasksConserved'
  <2>1. \A k \in TaskID : InCall(k)' <=> InCall(k) \/ k = t
    BY <1>9, <1>10 DEF InCall
  <2>2. \A k \in TaskID : /\ Queued(k)' <=> Queued(k)
                          /\ Sent(k)' <=> Sent(k)
                          /\ IsRunning(k)' <=> IsRunning(k)
    BY <1>11 DEF Queued, Sent, IsRunning
  <2>3. ~(InCall(t) \/ t \in tasks \/ Queued(t) \/ Sent(t) \/ IsRunning(t) \/ t \in finished)
    <3>1. t \in TaskID /\ ~(t < task_counter)
      BY <1>1, SMTT(30)
    <3> QED
      BY <3>1 DEF TasksConserved
  <2>4. \A k \in TaskID : \A u, v \in Thread :
          (/\ call'[u] \in {"enqueue", "park"} /\ call_task'[u] = k
           /\ call'[v] \in {"enqueue", "park"} /\ call_task'[v] = k) => u = v
    BY <2>3, <1>9, <1>10, SMTT(40) DEF TasksConserved, InCall
  <2>5. \A k \in TaskID : k < task_counter' <=> k < t \/ k = t
    BY <1>1, SMTT(30) DEF TaskID
  <2> QED
    BY <1>11, <2>1, <2>2, <2>3, <2>4, <2>5, SMTT(40) DEF TasksConserved
<1> QED
  BY <1>1, <1>2, <1>3, <1>5, <1>6, <1>8, <1>12, <1>13, <1>14, <1>15, <1>16, <1>17 DEF AddTask

\* The dependent a running task names, its own continuation or that of the
\* chain it builds, is still waiting, and no other worker's chain hangs from it.
LEMMA DependentWaits ==
  ASSUME CoreInv, NEW w \in Worker, running[w] # 0
  PROVE  /\ \/ c_dependent[w] = 0
            \/ /\ c_dependent[w] \in Continuation /\ Allocated(c_dependent[w])
               /\ c_dependent[w] \notin retired
         /\ \A v \in Worker : v # w /\ Building(v) => c_dependent[v] # c_dependent[w]
<1> USE DEF CoreInv
<1> DEFINE r == running[w]
           c == c_dependent[w]
<1>1. CASE Building(w)
  BY <1>1 DEF ChainInv
<1>2. CASE ~Building(w)
  <2>1. c = continuation[r] /\ r \in TaskID /\ c \in Continuation \cup {0} /\ 0 \notin Continuation
    BY SchedulerAssumption, <1>2, SMTT(30) DEF Building, TypeOK, ChainInv, Continuation
  <2>2. r < task_counter /\ r \notin finished
    <3>1. IsRunning(r)
      BY DEF IsRunning
    <3> QED
      BY <3>1, <2>1 DEF TasksConserved
  <2>3. CASE c = 0
    BY <2>1, <2>3 DEF ChainInv
  <2>4. CASE c # 0
    <3>1. <<r, c>> \in links
      BY <2>1, <2>2, <2>4 DEF ChainInv
    <3>2. r \notin retired
      BY <2>1, <2>2 DEF GraphInv
    <3>3. c \in dependents[r] /\ Allocated(c)
      BY <3>1, <3>2 DEF GraphInv
    <3>4. r \in Dependencies(c)
      BY <3>3, <2>1 DEF Dependencies, NodeID
    <3>5. c \notin retired
      BY <3>4 DEF GraphInv
    <3>6. \A v \in Worker : Building(v) => c_dependent[v] # c
      BY <3>4 DEF ChainInv
    <3> QED
      BY <2>1, <2>4, <3>3, <3>5, <3>6
  <2> QED
    BY <2>3, <2>4
<1> QED
  BY <1>1, <1>2

\* addTask by a caller that builds no chain with it: no chain that a worker
\* builds hangs from the dependent.
LEMMA PlainAddTaskInv ==
  ASSUME CoreInv,
         NEW thr \in Worker \cup {MainThread}, NEW dependency, NEW dependent,
         AddTask(thr, dependency, dependent),
         /\ continuation_counter' \in {continuation_counter, continuation_counter + 1}
         /\ continuation_counter' <= kContinuationMask + MaxContinuations + 1,
         \/ dependency = 0
         \/ thr \in Worker /\ dependency \in Continuation /\ dependency < continuation_counter',
         \/ dependent = 0
         \/ /\ dependent \in Continuation /\ dependent < continuation_counter'
            /\ dependent \notin retired,
         \A v \in Worker : Building(v) => c_dependent[v] # dependent,
         IF thr = MainThread THEN main_pc = "out" ELSE running[thr] # 0,
         UNCHANGED c_dependent,
         UNCHANGED <<retire_vars, queue_vars, sched_vars, worker_vars, main_pc, retired, finished>>
  PROVE  CoreInv'
<1> USE DEF CoreInv
<1>2. c_dependent' \in [Worker -> NodeID \cup {0}]
  BY DEF TypeOK
<1>3. /\ TypeOK' /\ GraphInv' /\ ReleasedInv' /\ ControlInv' /\ WorkersConserved' /\ TasksConserved'
      /\ task_counter \in TaskID
      /\ \A n \in NodeID : Allocated(n) => Allocated(n)'
      /\ task_counter' = task_counter + 1
      /\ continuation' = [continuation EXCEPT ![task_counter] = dependent]
      /\ dependent # 0 => <<task_counter, dependent>> \in links'
      /\ links \subseteq links'
      /\ \A m, n \in NodeID : n \in dependents'[m] <=>
           \/ n \in dependents[m]
           \/ m = task_counter /\ n = dependent
           \/ m = dependency /\ n = task_counter
  BY <1>2, AddTaskInv
<1>4. UNCHANGED <<running, retired>>
  BY DEF worker_vars
<1>5. \A n \in Continuation : n # dependent /\ (\A m \in NodeID : n \notin dependents[m]) =>
        \A m \in NodeID : n \notin dependents'[m]
  <2>1. \A n \in Continuation : n \in NodeID /\ n # task_counter
    BY <1>3, NodeIDs DEF NodeID
  <2> QED
    BY <2>1, <1>3
<1>6. \A w \in Worker : running[w] # 0 =>
        running[w] # task_counter /\ continuation'[running[w]] = continuation[running[w]]
  <2>1. \A w \in Worker : running[w] # 0 => running[w] \in TaskID /\ IsRunning(running[w])
    BY DEF TypeOK, IsRunning
  <2>2. \A w \in Worker : running[w] # 0 => running[w] \in TaskID /\ running[w] < task_counter
    BY <2>1 DEF TasksConserved
  <2> QED
    BY <1>3, <2>2, SMTT(30) DEF TypeOK, TaskID
<1>7. \A w \in Worker : Building(w)' <=> Building(w)
  BY <1>4, <1>6 DEF Building
<1>8. \A w \in Worker : (Building(w) => /\ c_dependent[w] \in Continuation
                                        /\ Allocated(c_dependent[w])
                                        /\ c_dependent[w] \notin retired
                                        /\ Dependencies(c_dependent[w]) = {})'
  <2> TAKE w \in Worker
  <2> DEFINE c == c_dependent[w]
  <2>1. SUFFICES ASSUME Building(w)
                 PROVE  /\ c \in Continuation /\ c \notin retired'
                        /\ \A n : n = c => Allocated(n)'
                        /\ \A m \in NodeID : c \notin dependents'[m]
    BY <1>7 DEF Allocated, Dependencies
  <2>2. /\ c \in Continuation /\ c \in NodeID /\ Allocated(c) /\ c \notin retired
        /\ c # dependent /\ \A m \in NodeID : c \notin dependents[m]
    BY <2>1 DEF ChainInv, Dependencies, NodeID
  <2> QED
    BY <2>2, <1>3, <1>4, <1>5
<1>10. /\ \A t \in TaskID : continuation'[t] \in Continuation \cup {0}
       /\ \A t \in TaskID : t < task_counter' /\ continuation'[t] # 0 =>
            <<t, continuation'[t]>> \in links'
  <2>1. \A t \in TaskID : continuation'[t] = IF t = task_counter THEN dependent ELSE continuation[t]
    BY <1>3 DEF TypeOK
  <2>2. \A t \in TaskID : t < task_counter' => t = task_counter \/ t < task_counter
    BY <1>3, SMTT(30) DEF TaskID
  <2>3. dependent \in Continuation \cup {0}
    OBVIOUS
  <2> QED
    BY <2>1, <2>2, <2>3, <1>3 DEF ChainInv
<1>11. ChainInv'
  BY <1>7, <1>8, <1>10 DEF ChainInv
<1> QED
  BY <1>3, <1>11

\* MainAddTask.
LEMMA MainAddTaskInv ==
  ASSUME CoreInv, MainAddTask
  PROVE  CoreInv'
<1>1. /\ AddTask(MainThread, 0, 0) /\ main_pc = "out" /\ UNCHANGED c_dependent
      /\ UNCHANGED <<retire_vars, queue_vars, sched_vars, worker_vars, main_pc, retired, finished>>
      /\ UNCHANGED continuation_counter
  BY DEF MainAddTask
<1>2. continuation_counter <= kContinuationMask + MaxContinuations + 1
  BY SchedulerAssumption, SMTT(30) DEF CoreInv, TypeOK
<1>3. \A v \in Worker : Building(v) => c_dependent[v] # 0
  BY NodeIDs DEF CoreInv, ChainInv, NodeID
<1> QED
  BY <1>1, <1>2, <1>3, PlainAddTaskInv

\* SpawnTask(w) and ChainNext(w).
LEMMA WorkerAddTaskInv ==
  ASSUME CoreInv, NEW w \in Worker, SpawnTask(w) \/ ChainNext(w)
  PROVE  CoreInv'
<1> USE DEF CoreInv
<1> DEFINE t == task_counter
<1>1. PICK d \in {0, continuation_counter} :
        /\ AddTask(w, d, c_dependent[w]) /\ running[w] # 0
        /\ IF d = 0 THEN UNCHANGED continuation_counter
                    ELSE /\ continuation_counter <= kContinuationMask + MaxContinuations
                         /\ continuation_counter' = continuation_counter + 1
        /\ c_dependent' = [c_dependent EXCEPT ![w] = IF d = 0 THEN continuation[running[w]] ELSE d]
        /\ UNCHANGED <<retire_vars, queue_vars, sched_vars, worker_vars, main_pc, retired, finished>>
  <2>1. continuation_counter # 0
    BY SchedulerAssumption, SMTT(30) DEF TypeOK
  <2>2. CASE SpawnTask(w)
    BY <2>2 DEF SpawnTask
  <2>3. CASE ChainNext(w)
    BY <2>1, <2>3 DEF ChainNext
  <2> QED
    BY <2>2, <2>3
<1>2. /\ \/ c_dependent[w] = 0
         \/ /\ c_dependent[w] \in Continuation /\ Allocated(c_dependent[w])
            /\ c_dependent[w] \notin retired
      /\ \A v \in Worker : v # w /\ Building(v) => c_dependent[v] # c_dependent[w]
      /\ w # MainThread
  BY SchedulerAssumption, <1>1, DependentWaits, SMTT(30) DEF Worker, MainThread
<1>3. c_dependent' \in [Worker -> NodeID \cup {0}]
  <2>1. d # 0 => d \in NodeID
    BY <1>1, SMTT(30) DEF TypeOK, NodeID, Continuation
  <2>2. continuation[running[w]] \in NodeID \cup {0}
    BY <1>1 DEF TypeOK
  <2> QED
    BY <1>1, <2>1, <2>2 DEF TypeOK
<1>4. /\ TypeOK' /\ GraphInv' /\ ReleasedInv' /\ ControlInv' /\ WorkersConserved' /\ TasksConserved'
      /\ t \in TaskID
      /\ \A n \in NodeID : Allocated(n) => Allocated(n)'
      /\ task_counter' = t + 1
      /\ continuation' = [continuation EXCEPT ![t] = c_dependent[w]]
      /\ c_dependent[w] # 0 => <<t, c_dependent[w]>> \in links'
      /\ links \subseteq links'
      /\ \A m, n \in NodeID : n \in dependents'[m] <=>
           \/ n \in dependents[m]
           \/ m = t /\ n = c_dependent[w]
           \/ m = d /\ n = t
  <2>1. /\ continuation_counter' \in {continuation_counter, continuation_counter + 1}
        /\ continuation_counter' <= kContinuationMask + MaxContinuations + 1
    BY SchedulerAssumption, <1>1, SMTT(30) DEF TypeOK
  <2>2. w \in Worker \cup {MainThread}
    OBVIOUS
  <2>3. IF w = MainThread THEN main_pc = "out" ELSE running[w] # 0
    BY <1>1, <1>2
  <2>4. d = 0 \/ (w \in Worker /\ d \in Continuation /\ d < continuation_counter')
    BY <1>1, SMTT(30) DEF TypeOK, Continuation
  <2>5. \/ c_dependent[w] = 0
        \/ /\ c_dependent[w] \in Continuation /\ c_dependent[w] < continuation_counter'
           /\ c_dependent[w] \notin retired
    BY SchedulerAssumption, <1>2, <2>1, SMTT(30) DEF TypeOK, Allocated, Continuation
  <2> QED
    BY <1>1, <1>3, <2>1, <2>2, <2>3, <2>4, <2>5, AddTaskInv
<1>n. d # 0 => /\ d \in Continuation /\ d \notin retired /\ ~Allocated(d)
               /\ d < continuation_counter' /\ \A m \in NodeID : d \notin dependents'[m]
  <2> HAVE d # 0
  <2>1. d \in Continuation /\ ~Allocated(d) /\ d < continuation_counter'
    BY SchedulerAssumption, <1>1, SMTT(30) DEF TypeOK, Continuation, Allocated
  <2>2. d \in NodeID /\ d # t /\ d # c_dependent[w]
    BY <1>2, <1>4, <2>1, NodeIDs DEF NodeID
  <2>3. d \notin retired /\ \A m \in NodeID : d \notin dependents[m]
    BY <2>1, <2>2, FreshNode
  <2> QED
    BY <2>1, <2>2, <2>3, <1>4
<1>5. UNCHANGED <<running, retired>>
  BY <1>1 DEF worker_vars
<1>6. \A v \in Worker : running[v] # 0 =>
        running[v] # t /\ continuation'[running[v]] = continuation[running[v]]
  <2>1. \A v \in Worker : running[v] # 0 => running[v] \in TaskID /\ IsRunning(running[v])
    BY DEF TypeOK, IsRunning
  <2>2. \A v \in Worker : running[v] # 0 => running[v] \in TaskID /\ running[v] < t
    BY <2>1 DEF TasksConserved
  <2> QED
    BY <1>4, <2>2, SMTT(30) DEF TypeOK, TaskID
<1>7. /\ \A v \in Worker : v # w => /\ Building(v)' <=> Building(v)
                                    /\ c_dependent'[v] = c_dependent[v]
      /\ c_dependent'[w] = IF d = 0 THEN continuation[running[w]] ELSE d
      /\ Building(w)' => d # 0
  BY <1>1, <1>5, <1>6 DEF Building, TypeOK
<1>8. \A v \in Worker : Building(v) =>
        Allocated(c_dependent[v]) /\ c_dependent[v] \in Continuation /\ c_dependent[v] # d
  BY SchedulerAssumption, <1>n, SMTT(30) DEF ChainInv, Continuation
<1>9. \A n \in Continuation : Allocated(n) => Allocated(n)'
  BY <1>4 DEF NodeID
<1>10. \A v \in Worker : (Building(v) => /\ c_dependent[v] \in Continuation
                                         /\ Allocated(c_dependent[v])
                                         /\ c_dependent[v] \notin retired
                                         /\ Dependencies(c_dependent[v]) = {})'
  <2> TAKE v \in Worker
  <2>1. CASE v = w
    <3>1. Building(w)' => d # 0 /\ c_dependent'[w] = d
      BY <1>7
    <3>2. d # 0 => d \in Continuation /\ d \notin retired' /\ \A m \in NodeID : d \notin dependents'[m]
      BY <1>n, <1>5
    <3>3. \A n : n = d /\ d # 0 => Allocated(n)'
      BY SchedulerAssumption, <1>n, SMTT(30) DEF Allocated, Continuation
    <3> QED
      BY <2>1, <3>1, <3>2, <3>3 DEF Allocated, Dependencies
  <2>2. CASE v # w
    <3> DEFINE c == c_dependent[v]
    <3>1. SUFFICES ASSUME Building(v)
                   PROVE  /\ c \in Continuation /\ c \notin retired'
                          /\ \A n : n = c => Allocated(n)'
                          /\ \A m \in NodeID : c \notin dependents'[m]
      BY <2>2, <1>7 DEF Allocated, Dependencies
    <3>2. c \in Continuation /\ c # c_dependent[w] /\ c # t /\ c \in NodeID /\ c \notin retired
      BY <3>1, <2>2, <1>2, <1>4, NodeIDs DEF ChainInv, NodeID
    <3>3. \A m \in NodeID : c \notin dependents[m]
      BY <3>1 DEF ChainInv, Dependencies
    <3>4. \A m \in NodeID : c \notin dependents'[m]
      BY <3>2, <3>3, <1>4
    <3> QED
      BY <3>1, <3>2, <3>4, <1>5, <1>8, <1>9
  <2> QED
    BY <2>1, <2>2
<1>12. /\ \A k \in TaskID : continuation'[k] \in Continuation \cup {0}
       /\ \A k \in TaskID : k < task_counter' /\ continuation'[k] # 0 =>
            <<k, continuation'[k]>> \in links'
  <2>1. \A k \in TaskID : continuation'[k] = IF k = t THEN c_dependent[w] ELSE continuation[k]
    BY <1>4 DEF TypeOK
  <2>2. \A k \in TaskID : k < task_counter' => k = t \/ k < t
    BY <1>4, SMTT(30) DEF TaskID
  <2> QED
    BY <2>1, <2>2, <1>2, <1>4 DEF ChainInv
<1>13. \A u, v \in Worker :
         Building(u)' /\ Building(v)' /\ c_dependent'[u] = c_dependent'[v] => u = v
  BY <1>7, <1>8 DEF ChainInv
<1>14. ChainInv'
  BY <1>10, <1>12, <1>13 DEF ChainInv
<1> QED
  BY <1>4, <1>14

------------------------------------------------------------------------------
(* What ExecutionPlan::execute asks of the scheduler *)

\* allocateContinuation changes nothing that is there.
LEMMA AllocateCore ==
  ASSUME CoreInv,
         continuation_counter' \in Nat, continuation_counter <= continuation_counter',
         continuation_counter' <= kContinuationMask + MaxContinuations + 1,
         UNCHANGED <<graph_vars, retire_vars, queue_vars, task_counter, continuation, sched_vars,
                     worker_vars, c_dependent, main_pc, call_vars, history_vars>>
  PROVE  CoreInv'
<1> USE DEF CoreInv
<1>1. UNCHANGED <<nodes, dependents, dependency_count, nodes_mutex, retiring, tasks, task_queue,
                  scheduler_msg_queue, task_counter, continuation, available_workers, halt,
                  sched_pc, completed_worker, worker_pc, worker_msg_queue, running, c_dependent,
                  main_pc, call, call_task, links, retired, finished>>
  BY DEF graph_vars, retire_vars, queue_vars, sched_vars, worker_vars, call_vars, history_vars
<1>2. continuation_counter' \in
        kContinuationMask + 1 .. kContinuationMask + MaxContinuations + 1
  BY SchedulerAssumption, SMTT(30) DEF TypeOK
<1>3. TypeOK'
  BY <1>1, <1>2 DEF TypeOK
<1>4. \A n \in NodeID : Allocated(n) => Allocated(n)'
  BY <1>1, NodeIDs, SMTT(30) DEF Allocated, TypeOK
<1>5. \A n : Dependencies(n)' = Dependencies(n)
  BY <1>1 DEF Dependencies
<1>6. GraphInv'
  <2>1. \A e \in links : Allocated(e[1])' /\ Allocated(e[2])'
    BY <1>4 DEF TypeOK, GraphInv
  <2>2. \A n \in retired : Allocated(n)'
    BY <1>4 DEF TypeOK, GraphInv
  <2> QED
    BY <1>1, <1>5, <2>1, <2>2 DEF GraphInv
<1>7. ReleasedInv'
  BY <1>1, ReleasedFrame
<1>8. ChainInv'
  <2>1. \A w \in Worker : Building(w)' <=> Building(w)
    BY <1>1 DEF Building
  <2>2. \A w \in Worker : Building(w) => Allocated(c_dependent[w])'
    <3>1. \A w \in Worker : Building(w) => Allocated(c_dependent[w]) /\ c_dependent[w] \in NodeID
      BY DEF ChainInv, NodeID
    <3>2. \A n : n \in NodeID /\ Allocated(n) => Allocated(n)'
      BY <1>4
    <3> QED
      BY <1>1, <3>1, <3>2 DEF Allocated
  <2> QED
    BY <1>1, <1>5, <2>1, <2>2 DEF ChainInv
<1>9. ControlInv'
  BY <1>1 DEF ControlInv, Available
<1>10. WorkersConserved' /\ TasksConserved'
  BY <1>1, WorkersFrame, TasksFrame
<1> QED
  BY <1>3, <1>6, <1>7, <1>8, <1>9, <1>10

\* addLink makes a node that is still waiting, or that nobody builds on, wait for
\* one more.
LEMMA AddLinkCore ==
  ASSUME CoreInv, NEW m \in NodeID, NEW n \in NodeID, Allocated(m), Allocated(n),
         \/ Dependencies(n) # {}
         \/ /\ n \in Continuation /\ n \notin retired
            /\ \A v \in Worker : Building(v) => c_dependent[v] # n,
         LinkNodes({<<m, n>>}),
         UNCHANGED <<retire_vars, queue_vars, id_vars, sched_vars, worker_vars, c_dependent,
                     main_pc, call_vars, retired, finished>>
  PROVE  CoreInv'
<1> USE DEF CoreInv
<1>1. UNCHANGED <<nodes_mutex, retiring, tasks, task_queue, scheduler_msg_queue, task_counter,
                  continuation_counter, continuation, available_workers, halt, sched_pc,
                  completed_worker, worker_pc, worker_msg_queue, running, c_dependent, main_pc,
                  call, call_task, retired, finished>>
  BY DEF retire_vars, queue_vars, id_vars, sched_vars, worker_vars, call_vars
<1>2. /\ nodes' \in SUBSET NodeID
      /\ dependents' \in [NodeID -> SUBSET NodeID]
      /\ dependency_count' \in [NodeID -> Nat]
      /\ links' \in SUBSET (NodeID \X NodeID) /\ links' = links \cup {<<m, n>>}
      /\ \A i, j \in NodeID : j \in dependents'[i] <=> j \in dependents[i] \/ <<i, j>> \in {<<m, n>>}
      /\ \A j \in NodeID : dependency_count'[j] = Cardinality(Dependencies(j)')
  <2>1. {<<m, n>>} \in SUBSET (NodeID \X NodeID)
    BY SMTT(30)
  <2> QED
    BY <2>1, LinkNodesCounts
<1>3. \A i, j \in NodeID : j \in dependents'[i] <=> j \in dependents[i] \/ (i = m /\ j = n)
  BY <1>2
<1>4. \A j : j # n /\ (\A i \in NodeID : j \notin dependents[i]) =>
        \A i \in NodeID : j \notin dependents'[i]
  BY <1>2, <1>3
<1>5. \A j : Allocated(j)' <=> Allocated(j)
  BY <1>1 DEF Allocated
<1>6. n \notin retired
  BY DEF GraphInv
<1>7. TypeOK'
  BY <1>1, <1>2 DEF TypeOK
<1>8. GraphInv'
  <2>1. \A e \in links' : Allocated(e[1]) /\ Allocated(e[2])
    <3> TAKE e \in links'
    <3>1. CASE e \in links
      BY <3>1 DEF GraphInv
    <3>2. CASE e = <<m, n>>
      <4>1. e[1] = m /\ e[2] = n
        BY <3>2
      <4> QED
        BY <4>1
    <3> QED
      BY <3>1, <3>2, <1>2
  <2>2. \A e \in links' : e[1] \in retired \/ e[2] \in dependents'[e[1]]
    <3> TAKE e \in links'
    <3>1. e[1] \in NodeID /\ e[2] \in NodeID
      BY <1>2
    <3>2. CASE e \in links
      BY <3>1, <3>2, <1>3 DEF GraphInv
    <3>3. CASE e = <<m, n>>
      BY <3>3, <1>3
    <3> QED
      BY <3>2, <3>3, <1>2
  <2>3. \A i \in NodeID : \A j \in dependents'[i] : <<i, j>> \in links'
    <3> TAKE i \in NodeID
    <3> TAKE j \in dependents'[i]
    <3>1. j \in NodeID
      BY <1>2
    <3> QED
      BY <3>1, <1>2 DEF GraphInv
  <2>4. \A j \in retired : Dependencies(j)' = {}
    BY <1>4, <1>6 DEF GraphInv, Dependencies
  <2> QED
    BY <1>1, <1>2, <1>5, <2>1, <2>2, <2>3, <2>4 DEF GraphInv
<1>9. ReleasedInv'
  <2>1. \A j \in TaskID : Dependencies(j) = {} => Dependencies(j)' = {}
    <3>1. \A j \in TaskID : Dependencies(j) = {} => j # n
      BY NodeIDs
    <3> QED
      BY <3>1, <1>4 DEF Dependencies
  <2>2. \A u \in Thread : call[u] = "enqueue" => call_task[u] \in TaskID
    BY DEF ControlInv
  <2>3. \A i \in DOMAIN task_queue : task_queue[i] \in TaskID
    BY SMTT(30) DEF TypeOK
  <2>4. \A w \in Worker : \A i \in DOMAIN worker_msg_queue[w] :
          worker_msg_queue[w][i] # WorkerJoin => worker_msg_queue[w][i] \in TaskID
    BY SMTT(30) DEF TypeOK
  <2>5. /\ \A w \in Worker : running[w] # 0 => running[w] \in TaskID
        /\ \A t \in finished : t \in TaskID
    BY DEF TypeOK
  <2>6. \A u \in Thread : (call[u] = "enqueue" => Dependencies(call_task[u]) = {})'
    BY <1>1, <2>1, <2>2 DEF ReleasedInv, Dependencies
  <2>7. \A i \in DOMAIN task_queue : (Dependencies(task_queue[i]) = {})'
    BY <1>1, <2>1, <2>3 DEF ReleasedInv, Dependencies
  <2>8. \A w \in Worker : \A i \in DOMAIN worker_msg_queue[w] :
          (worker_msg_queue[w][i] # WorkerJoin => Dependencies(worker_msg_queue[w][i]) = {})'
    BY <1>1, <2>1, <2>4 DEF ReleasedInv, Dependencies
  <2>9. /\ \A w \in Worker : (running[w] # 0 => Dependencies(running[w]) = {})'
        /\ \A t \in finished : (Dependencies(t) = {})'
    BY <1>1, <2>1, <2>5 DEF ReleasedInv, Dependencies
  <2> QED
    BY <1>1, <2>6, <2>7, <2>8, <2>9 DEF ReleasedInv, Dependencies
<1>10. ChainInv'
  <2>1. \A w \in Worker : Building(w)' <=> Building(w)
    BY <1>1 DEF Building
  <2>2. \A w \in Worker : Building(w) => \A i \in NodeID : c_dependent[w] \notin dependents'[i]
    <3> TAKE w \in Worker
    <3> HAVE Building(w)
    <3>1. Dependencies(c_dependent[w]) = {}
      BY DEF ChainInv
    <3>2. c_dependent[w] # n
      BY <3>1
    <3> QED
      BY <3>1, <3>2, <1>4 DEF Dependencies
  <2>3. \A w \in Worker : Building(w) => Dependencies(c_dependent[w])' = {}
    BY <1>1, <2>2 DEF Dependencies
  <2>4. /\ \A t \in TaskID : (continuation[t] \in Continuation \cup {0})'
        /\ \A t \in TaskID :
             (t < task_counter /\ continuation[t] # 0 => <<t, continuation[t]>> \in links)'
    BY <1>1, <1>2 DEF ChainInv
  <2>5. \A w \in Worker : Building(w)' =>
          /\ (c_dependent[w] \in Continuation)' /\ Allocated(c_dependent[w])'
          /\ (c_dependent[w] \notin retired)' /\ (Dependencies(c_dependent[w]) = {})'
    <3> TAKE w \in Worker
    <3> HAVE Building(w)'
    <3>1. /\ c_dependent[w] \in Continuation /\ Allocated(c_dependent[w])
          /\ c_dependent[w] \notin retired
      BY <2>1 DEF ChainInv
    <3>2. Allocated(c_dependent[w])'
      BY <1>1, <3>1 DEF Allocated
    <3> QED
      BY <1>1, <2>1, <2>3, <3>1, <3>2
  <2>6. \A v, w \in Worker :
          Building(v)' /\ Building(w)' /\ (c_dependent[v] = c_dependent[w])' => v = w
    BY <1>1, <2>1 DEF ChainInv
  <2> QED
    BY <2>4, <2>5, <2>6 DEF ChainInv
<1>11. ControlInv'
  BY <1>1 DEF ControlInv, Available
<1>12. WorkersConserved' /\ TasksConserved'
  BY <1>1, WorkersFrame, TasksFrame
<1> QED
  BY <1>7, <1>8, <1>9, <1>10, <1>11, <1>12

\* fire passes a continuation that waits for nothing and that nobody builds on.
LEMMA FireCore ==
  ASSUME CoreInv, NEW w \in Worker, NEW c \in Continuation, running[w] # 0, Allocated(c),
         Dependencies(c) = {}, \A v \in Worker : Building(v) => c_dependent[v] # c,
         StartRetiring(w, c),
         UNCHANGED <<graph_vars, queue_vars, id_vars, sched_vars, worker_vars, c_dependent,
                     main_pc, call_vars, links, finished>>
  PROVE  CoreInv'
<1> USE DEF CoreInv
<1>1. UNCHANGED <<nodes, dependents, dependency_count, tasks, task_queue, scheduler_msg_queue,
                  task_counter, continuation_counter, continuation, available_workers, halt,
                  sched_pc, completed_worker, worker_pc, worker_msg_queue, running, c_dependent,
                  main_pc, call, call_task, links, finished>>
  BY DEF graph_vars, queue_vars, id_vars, sched_vars, worker_vars, call_vars
<1>2. /\ nodes_mutex = NoThread /\ nodes_mutex' = w /\ retired' = retired \cup {c}
      /\ retiring' = IF c \in nodes THEN <<c>> ELSE << >>
  BY DEF StartRetiring
<1>3. /\ c \in NodeID /\ c \notin TaskID
      /\ w \in Thread /\ w # SchedulerThread /\ w # MainThread /\ w # NoThread
  BY Threads, NodeIDs DEF NodeID
<1>4. retiring' \in Seq(NodeID) /\ \A i \in DOMAIN retiring' : retiring'[i] = c
  BY <1>2, <1>3, SMTT(30)
<1>5. TypeOK'
  BY <1>1, <1>2, <1>3, <1>4 DEF TypeOK
<1>6. /\ \A n : Dependencies(n)' = Dependencies(n)
      /\ \A n : Allocated(n)' <=> Allocated(n)
      /\ \A v : Building(v)' <=> Building(v)
  BY <1>1 DEF Dependencies, Allocated, Building
<1>7. GraphInv'
  BY <1>1, <1>2, <1>3, <1>4, <1>6 DEF GraphInv
<1>8. ReleasedInv'
  BY <1>1, ReleasedFrame
<1>9. ChainInv'
  BY <1>1, <1>2, <1>6 DEF ChainInv
<1>10. ControlInv'
  <2>1. sched_pc # "retire"
    BY <1>2, Threads DEF ControlInv
  <2>2. /\ (nodes_mutex = SchedulerThread <=> sched_pc = "retire")'
        /\ (nodes_mutex # NoThread)' /\ (nodes_mutex # MainThread)'
        /\ (nodes_mutex \in Worker => running[nodes_mutex] # 0)'
    BY <1>1, <1>2, <1>3, <2>1
  <2>3. \A v : Available(v)' <=> Available(v)
    BY <1>1 DEF Available
  <2>4. /\ \A thr \in Thread : (call[thr] \in {"enqueue", "park"} => call_task[thr] \in TaskID)'
        /\ \A thr \in Thread \ Worker : (call[thr] # "park")'
        /\ \A v \in Worker : (worker_pc[v] # "busy" => running[v] = 0)'
        /\ \A v \in Worker : (running[v] = 0 => call[v] = "none")'
        /\ (sched_pc # "retire" => call[SchedulerThread] = "none")'
    BY <1>1 DEF ControlInv
  <2>5. /\ (main_pc = "joining" => call[MainThread] = "none")'
        /\ (sched_pc \in {"stop", "wait", "exited"} => \A v \in Worker : Available(v))'
        /\ (sched_pc \in {"off", "exited"} => \A v \in Worker : worker_pc[v] = "off")'
    BY <1>1, <2>3 DEF ControlInv
  <2>6. \A i \in DOMAIN scheduler_msg_queue' :
          (scheduler_msg_queue[i].type = "TaskCompletion" =>
             scheduler_msg_queue[i].task \in finished)'
    BY <1>1 DEF ControlInv
  <2> QED
    BY <2>2, <2>4, <2>5, <2>6 DEF ControlInv
<1>11. WorkersConserved' /\ TasksConserved'
  BY <1>1, WorkersFrame, TasksFrame
<1> QED
  BY <1>5, <1>7, <1>8, <1>9, <1>10, <1>11

\* The end of fire: nodes_mutex_ is released.
LEMMA FireEndCore ==
  ASSUME CoreInv, NEW w \in Worker, nodes_mutex = w, retiring = << >>, nodes_mutex' = NoThread,
         UNCHANGED <<graph_vars, retiring, queue_vars, id_vars, sched_vars, worker_vars,
                     c_dependent, main_pc, call_vars, history_vars>>
  PROVE  CoreInv'
<1> USE DEF CoreInv
<1>1. UNCHANGED <<nodes, dependents, dependency_count, retiring, tasks, task_queue,
                  scheduler_msg_queue, task_counter, continuation_counter, continuation,
                  available_workers, halt, sched_pc, completed_worker, worker_pc,
                  worker_msg_queue, running, c_dependent, main_pc, call, call_task, links,
                  retired, finished>>
  BY DEF graph_vars, queue_vars, id_vars, sched_vars, worker_vars, call_vars, history_vars
<1>2. TypeOK'
  BY <1>1 DEF TypeOK
<1>3. GraphInv' /\ ReleasedInv' /\ ChainInv'
  BY <1>1, GraphFrame, ReleasedFrame, ChainFrame
<1>4. ControlInv'
  BY <1>1, Threads DEF ControlInv, Available
<1>5. WorkersConserved' /\ TasksConserved'
  BY <1>1, WorkersFrame, TasksFrame
<1> QED
  BY <1>2, <1>3, <1>4, <1>5

==============================================================================
