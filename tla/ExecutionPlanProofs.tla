-------------------------- MODULE ExecutionPlanProofs ------------------------
(***************************************************************************)
(* A query on the scheduler, for every number of workers and operators and   *)
(* every plan: the operators' tasks run in the order of the plan, and the    *)
(* result is materialized after all of them.                                 *)
(***************************************************************************)
EXTENDS ExecutionPlanInvariant

\* Leaves are first-order; the ones that need arithmetic or functions cite SMT.
USE ZenonT(60)

------------------------------------------------------------------------------
(* Steps of the operators *)

\* An operator, or a task it added, adds a task.
LEMMA OperatorQuery ==
  ASSUME CoreInv, PlanTypes, QueryInv, NEW w \in Worker, OperatorStep(w)
  PROVE  PlanTypes' /\ QueryInv'
<1> USE DEF CoreInv, QueryInv
<1> DEFINE r == running[w]
           t == task_counter
           o == op_of[r]
<1>1. /\ r # 0 /\ plan_fire # "before" /\ o \in Operator /\ (ChainNext(w) \/ SpawnTask(w))
      /\ role' = [role EXCEPT ![t] = "batch"] /\ op_of' = [op_of EXCEPT ![t] = o]
  BY RunsRole DEF OperatorStep, Runs, Becomes
<1>2. UNCHANGED <<running, finished, retired, nodes_mutex, main_pc, plan_links, calls, c_enter, c_exit,
                  c_operators, task_ids, op_linked, links_left, plan_fire, sync_lock>>
  BY <1>1 DEF OperatorStep, ChainNext, SpawnTask, worker_vars, retire_vars, plan_vars
<1>3. /\ r \in TaskID /\ r < t /\ Started(r) /\ \A v \in Worker : running[v] = r => v = w
      /\ c_dependent[w] \in Continuation \cup {0}
  BY <1>1, RunningTask, DependentType
<1>4. PICK dependency \in Continuation \cup {0} :
        /\ AddTask(w, dependency, c_dependent[w])
        /\ continuation_counter' \in Nat /\ continuation_counter <= continuation_counter'
        /\ c_dependent' = [c_dependent EXCEPT ![w] = IF dependency = 0 THEN continuation[r]
                                                                       ELSE dependency]
  <2>1. CASE ChainNext(w)
    <3>1. /\ continuation_counter \in Continuation /\ continuation_counter # 0
          /\ continuation_counter' \in Nat /\ continuation_counter <= continuation_counter'
      BY SchedulerAssumption, <2>1, SMTT(30) DEF ChainNext, Continuation, TypeOK
    <3>2. /\ AddTask(w, continuation_counter, c_dependent[w])
          /\ c_dependent' = [c_dependent EXCEPT ![w] = continuation_counter]
      BY <2>1 DEF ChainNext
    <3> QED
      BY <3>1, <3>2
  <2>2. CASE SpawnTask(w)
    <3>1. continuation_counter' \in Nat /\ continuation_counter <= continuation_counter'
      BY SchedulerAssumption, <2>2, SMTT(30) DEF SpawnTask, TypeOK
    <3>2. /\ AddTask(w, 0, c_dependent[w])
          /\ c_dependent' = [c_dependent EXCEPT ![w] = continuation[r]]
      BY <2>2 DEF SpawnTask
    <3> QED
      BY <3>1, <3>2
  <2> QED
    BY <1>1, <2>1, <2>2
<1>5. /\ t \in TaskID /\ task_counter' = t + 1 /\ t \in Nat
      /\ continuation'[t] = c_dependent[w]
      /\ \A x \in TaskID : x # t => continuation'[x] = continuation[x]
      /\ links \subseteq links'
      /\ dependency # 0 => <<dependency, t>> \in links'
      /\ \A v \in Worker : running[v] # 0 => running[v] \in TaskID /\ running[v] # t
  <2>1. w \in Thread
    BY Threads
  <2> QED
    BY <1>3, <1>4, <2>1, AddTaskEffect
<1>6. /\ c_dependent'[w] = IF dependency = 0 THEN continuation[r] ELSE dependency
      /\ \A v \in Worker : v # w => c_dependent'[v] = c_dependent[v]
  BY <1>4 DEF TypeOK
<1>7. ExitTask < t
  BY <1>1, SMTT(30) DEF StageInv
<1>8. PlanTypes'
  <2>1. role' \in [TaskID -> Role] /\ op_of' \in [TaskID -> Operator \cup {NoOperator}]
    BY <1>1, <1>5 DEF Role, PlanTypes
  <2> QED
    BY <1>2, <2>1 DEF PlanTypes
<1>9. /\ op_of'[t] = o /\ \A x \in TaskID : x # t => op_of'[x] = op_of[x]
  BY <1>1, <1>5 DEF PlanTypes
<1>10. RoleInv'
  <2>1. /\ RoleOf(t) = "batch" /\ t # ChainTask /\ ~(t < OperatorTask(0)) /\ t # ExitTask
        /\ \A p \in Operator : t # OperatorTask(p)
    BY PlanAssumption, <1>5, <1>7, SMTT(30) DEF RoleOf, ChainTask, SecondTask, FirstTask, SpawnerTask, PlanTask, ExitTask,
                           OperatorTask, Operator
  <2> QED
    BY <1>1, <1>5, <2>1, RoleAdd
<1>11. r \notin {ChainTask, FirstTask, SpawnerTask, PlanTask}
  <2>1. NoOperator \notin Operator
    BY SMTT(30) DEF NoOperator, Operator
  <2>2. \A x \in {ChainTask, FirstTask, SpawnerTask, PlanTask} : x < OperatorTask(0)
    BY SMTT(30) DEF ChainTask, FirstTask, SpawnerTask, PlanTask, OperatorTask
  <2> QED
    BY <1>1, <1>3, <2>1, <2>2 DEF RoleInv
<1>12. StageInv'
  <2>1. calls' \in [Worker -> Nat] /\ \A v \in Worker : v # w => calls'[v] = calls[v]
    BY <1>2 DEF PlanTypes
  <2> QED
    BY <1>1, <1>2, <1>5, <1>11, <2>1, StageAdd
<1>13. LinksInv'
  <2>1. w \in Thread
    BY Threads
  <2>2. /\ t # ChainTask /\ t # SecondTask /\ \A p \in Operator : t # OperatorTask(p)
        /\ t \notin {FirstTask, SpawnerTask, PlanTask, ExitTask} /\ t # ExitTask
    BY PlanAssumption, <1>7, SMTT(30) DEF ChainTask, SecondTask, FirstTask, SpawnerTask, PlanTask, ExitTask, OperatorTask,
                     Operator
  <2> QED
    BY <1>2, <1>3, <1>4, <2>1, <2>2, LinksAdd
<1>14. BeforeInv'
  <2>1. \A v \in Worker : running[v] = ChainTask /\ calls[v] = 1 =>
          c_dependent'[v] = ChainContinuation
    BY <1>6, <1>11 DEF BeforeInv
  <2> QED
    BY <1>1, <1>2, <2>1 DEF BeforeInv
<1>15. ASSUME NEW c, NEW p, Guards(c, p) PROVE Guards(c, p)'
  <2>1. CASE c = c_operators[p]
    BY <2>1, <1>2 DEF Guards
  <2>2. CASE \E u \in TaskID : u < t /\ op_of[u] = p /\ <<c, u>> \in links
    <3>1. PICK u \in TaskID : u < t /\ op_of[u] = p /\ <<c, u>> \in links
      BY <2>2
    <3>2. u < task_counter' /\ u # t
      BY <1>5, <3>1, SMTT(30) DEF TaskID
    <3> QED
      BY <3>1, <3>2, <1>5, <1>9 DEF Guards
  <2> QED
    BY <1>15, <2>1, <2>2 DEF Guards
<1>16. BatchInv'
  <2>1. ASSUME NEW x \in TaskID, x < task_counter', ExitTask < x
        PROVE  /\ Started(OperatorTask(op_of'[x]))
               /\ \/ continuation'[x] = c_operators[op_of'[x]]
                  \/ \E u \in TaskID : u < x /\ op_of'[u] = op_of'[x]
                                       /\ <<continuation'[x], u>> \in links'
    <3>1. CASE x = t
      <4>1. Started(OperatorTask(o))
        BY <1>1, <1>3, OwnStarted
      <4>2. Guards(c_dependent[w], o)
        BY <1>1 DEF BatchInv
      <4>3. CASE c_dependent[w] = c_operators[o]
        BY <3>1, <4>1, <4>3, <1>5, <1>9
      <4>4. CASE \E u \in TaskID : u < t /\ op_of[u] = o /\ <<c_dependent[w], u>> \in links
        <5>1. PICK u \in TaskID : u < t /\ op_of[u] = o /\ <<c_dependent[w], u>> \in links
          BY <4>4
        <5>2. u # t
          BY <1>5, <5>1, SMTT(30)
        <5> QED
          BY <3>1, <4>1, <5>1, <5>2, <1>5, <1>9
      <4> QED
        BY <4>2, <4>3, <4>4 DEF Guards
    <3>2. CASE x # t
      <4>1. x < t /\ \A u \in TaskID : u < x => u # t
        BY <1>5, <2>1, <3>2, SMTT(30) DEF TaskID
      <4>2. /\ Started(OperatorTask(op_of[x]))
            /\ \/ continuation[x] = c_operators[op_of[x]]
               \/ \E u \in TaskID : u < x /\ op_of[u] = op_of[x] /\ <<continuation[x], u>> \in links
        BY <2>1, <4>1 DEF BatchInv
      <4>3. op_of'[x] = op_of[x] /\ continuation'[x] = continuation[x]
        BY <3>2, <1>5, <1>9
      <4>4. CASE continuation[x] = c_operators[op_of[x]]
        BY <4>2, <4>3, <4>4
      <4>5. CASE \E u \in TaskID : u < x /\ op_of[u] = op_of[x] /\ <<continuation[x], u>> \in links
        <5>1. PICK u \in TaskID : u < x /\ op_of[u] = op_of[x] /\ <<continuation[x], u>> \in links
          BY <4>5
        <5>2. op_of'[u] = op_of[u]
          BY <4>1, <5>1, <1>9
        <5> QED
          BY <4>2, <4>3, <5>1, <5>2, <1>5
      <4> QED
        BY <4>2, <4>4, <4>5
    <3> QED
      BY <3>1, <3>2
  <2>2. ASSUME NEW v \in Worker, running[v] # 0, op_of'[running[v]] \in Operator
        PROVE  Guards(c_dependent[v], op_of[running[v]])'
    <3>1. op_of'[running[v]] = op_of[running[v]]
      BY <2>2, <1>5, <1>9
    <3>2. CASE v # w
      <4>1. Guards(c_dependent[v], op_of[running[v]])
        BY <2>2, <3>1 DEF BatchInv
      <4>2. c_dependent'[v] = c_dependent[v] /\ running'[v] = running[v]
        BY <3>2, <1>2, <1>6
      <4>3. \A c, p : Guards(c, p) => Guards(c, p)'
        BY <1>15
      <4> QED
        BY SchedulerAssumption, <3>1, <4>1, <4>2, <4>3 DEF Guards
    <3>3. CASE v = w /\ dependency = 0
      <4>1. Guards(continuation[r], o)
        BY <1>1, <1>3, OwnGuard
      <4>2. c_dependent'[w] = continuation[r] /\ running'[w] = r /\ op_of'[r] = o
        BY <3>1, <3>3, <1>2, <1>6
      <4>3. PICK c, p : c = continuation[r] /\ p = o
        OBVIOUS
      <4>4. Guards(c, p)'
        BY <1>15, <4>1, <4>3
      <4>5. c_dependent'[v] = c /\ op_of'[running'[v]] = p
        BY <3>3, <4>2, <4>3
      <4> QED
        BY <4>4, <4>5 DEF Guards
    <3>4. CASE v = w /\ dependency # 0
      <4>1. t < task_counter' /\ op_of'[t] = o /\ <<dependency, t>> \in links'
        BY <3>4, <1>5, <1>9, SMTT(30)
      <4>2. c_dependent'[w] = dependency /\ running'[w] = r /\ op_of'[r] = o
        BY <3>1, <3>4, <1>2, <1>6
      <4> QED
        BY <3>4, <4>1, <4>2, <1>5 DEF Guards
    <3> QED
      BY <3>2, <3>3, <3>4
  <2>3. \A x : Started(x)' <=> Started(x)
    BY <1>2 DEF Started
  <2> QED
    BY <1>2, <2>1, <2>2, <2>3 DEF BatchInv
<1> QED
  BY <1>8, <1>10, <1>12, <1>13, <1>14, <1>16

------------------------------------------------------------------------------
(* Steps of the plan *)

\* Where the plan is before it fires c_enter: nobody builds a chain.
LEMMA PlanBefore ==
  ASSUME CoreInv, PlanTypes, QueryInv, NEW w \in Worker, Runs(w, "plan")
  PROVE  /\ running[w] = PlanTask /\ running[w] # 0 /\ Started(PlanTask) /\ PlanTask \notin finished
         /\ \A v \in Worker : running[v] = PlanTask => v = w
         /\ plan_fire = "before" =>
              /\ task_counter = OperatorTask(calls[w])
              /\ \A v \in Worker : ~Building(v)
         /\ plan_fire # "before" => calls[w] = NumOperators + 1
         /\ task_counter > PlanTask /\ w \in Thread
<1> USE DEF QueryInv
<1>1. running[w] = PlanTask /\ running[w] # 0
  BY RunsRole DEF Runs
<1>2. /\ Started(PlanTask) /\ PlanTask \notin finished /\ PlanTask < task_counter
      /\ \A v \in Worker : running[v] = PlanTask => v = w
  BY <1>1, RunningTask
<1>3. /\ plan_fire = "before" => task_counter = OperatorTask(calls[w])
      /\ plan_fire # "before" => calls[w] = NumOperators + 1
  BY <1>1 DEF StageInv
<1>4. task_counter > PlanTask /\ w \in Thread
  <2>1. w \in Thread
    BY Threads
  <2> QED
    BY <1>2, <2>1, SMTT(30) DEF PlanTask, CoreInv, TypeOK
<1>5. plan_fire = "before" => \A v \in Worker : ~Building(v)
  <2> SUFFICES ASSUME plan_fire = "before", NEW v \in Worker, Building(v) PROVE FALSE
    OBVIOUS
  <2>1. running[v] = ChainTask /\ calls[v] = 1
    BY DEF BeforeInv
  <2>2. task_counter = 3
    BY <2>1, SMTT(30) DEF StageInv, SecondTask
  <2> QED
    BY <1>4, <2>2, SMTT(30) DEF PlanTask
<1> QED
  BY <1>1, <1>2, <1>3, <1>4, <1>5

\* The plan allocates c_enter and c_exit.
LEMMA EnterQuery ==
  ASSUME CoreInv, PlanTypes, QueryInv, NEW w \in Worker, PlanEnter(w)
  PROVE  CoreInv' /\ PlanTypes' /\ QueryInv'
<1> USE DEF CoreInv, QueryInv
<1> DEFINE cc == continuation_counter
<1>1. /\ Runs(w, "plan") /\ c_enter = 0 /\ c_enter' = cc /\ c_exit' = cc + 1
      /\ continuation_counter' = cc + 2 /\ cc + 2 <= kContinuationMask + MaxContinuations + 1
      /\ UNCHANGED <<graph_vars, retire_vars, queue_vars, task_counter, continuation, sched_vars,
                     worker_vars, c_dependent, main_pc, call_vars, links, retired, finished>>
      /\ UNCHANGED <<plan_links, role, op_of, calls, c_operators, task_ids, op_linked, links_left,
                     plan_fire, sync_lock>>
  BY DEF PlanEnter, PlanFrame, ContinuationsLeft, body_vars
<1>2. UNCHANGED <<running, nodes_mutex>>
  BY <1>1 DEF worker_vars, retire_vars
<1>3. CoreInv'
  <2>1. continuation_counter' \in Nat /\ cc <= continuation_counter'
        /\ continuation_counter' <= kContinuationMask + MaxContinuations + 1
    BY SchedulerAssumption, <1>1, SMTT(30) DEF TypeOK
  <2>2. UNCHANGED history_vars
    BY <1>1 DEF history_vars
  <2> QED
    BY <1>1, <2>1, <2>2, AllocateCore
<1>4. /\ cc \in Continuation /\ cc + 1 \in Continuation /\ cc # cc + 1 /\ cc # 0 /\ cc + 1 # 0
      /\ ~Allocated(cc) /\ ~Allocated(cc + 1)
      /\ kContinuationMask < cc /\ cc < cc + 2 /\ kContinuationMask < cc + 1 /\ cc + 1 < cc + 2
  BY SchedulerAssumption, <1>1, SMTT(30) DEF TypeOK, Continuation, Allocated
<1>5. /\ cc \notin retired /\ cc + 1 \notin retired
      /\ \A e \in links : e[2] # cc /\ e[2] # cc + 1
  BY <1>4, FreshNode DEF NodeID
<1>6. plan_fire = "before"
  BY <1>1 DEF StageInv
<1>7. task_counter = 6 /\ running[w] = PlanTask /\ Started(PlanTask)
  <2>1. /\ task_counter = OperatorTask(calls[w]) /\ running[w] = PlanTask /\ Started(PlanTask)
        /\ calls[w] \in Nat
    BY <1>1, <1>6, PlanBefore DEF PlanTypes
  <2>2. ~(task_counter > OperatorTask(0))
    BY <1>1 DEF StageInv
  <2>3. task_counter = 6
    BY <2>1, <2>2, SMTT(30) DEF OperatorTask
  <2> QED
    BY <2>1, <2>3
<1>8. PlanTypes'
  BY <1>1, <1>4 DEF PlanTypes
<1>9. RoleInv'
  BY <1>1 DEF RoleInv
<1>10. \A t : Started(t)' <=> Started(t)
  BY <1>1, <1>2 DEF Started
<1>11. StageInv'
  <2>1. task_counter > SecondTask
    BY <1>7, SMTT(30) DEF SecondTask
  <2>2. ~(task_counter <= SecondTask)
    BY <1>7, SMTT(30) DEF SecondTask
  <2> QED
    BY <1>1, <1>2, <1>4, <1>7, <1>10, <2>2 DEF StageInv
<1>12. LinksInv'
  <2>1. /\ \A o \in Operator : ~(OperatorTask(o) < task_counter)
        /\ ~(ExitTask < task_counter) /\ 0 \in Operator
    BY PlanAssumption, <1>7, SMTT(30) DEF OperatorTask, Operator, ExitTask
  <2>2. op_linked = {} /\ plan_links \ links_left = {}
    BY <2>1 DEF LinksInv, PlanTypes
  <2>3. Allocated(c_enter)' /\ Allocated(c_exit)'
    BY <1>1, <1>4 DEF Allocated
  <2> QED
    BY <1>1, <1>4, <2>1, <2>2, <2>3 DEF LinksInv
<1>13. BeforeInv'
  <2>1. \A v \in Worker : Building(v)' <=> Building(v)
    BY <1>1, <1>2 DEF Building
  <2> QED
    BY <1>1, <1>2, <1>5, <2>1 DEF BeforeInv
<1>14. BatchInv'
  <2>1. task_counter' \in Nat /\ task_counter' <= ExitTask + 1
    BY PlanAssumption, <1>1, <1>7, SMTT(30) DEF ExitTask
  <2> QED
    BY <1>1, <1>2, <1>6, <2>1, BatchBefore
<1> QED
  BY <1>3, <1>8, <1>9, <1>11, <1>12, <1>13, <1>14

\* The plan adds the task of the next operator.
LEMMA AddOperatorQuery ==
  ASSUME CoreInv, PlanTypes, QueryInv, NEW w \in Worker, PlanAddOperator(w)
  PROVE  CoreInv' /\ PlanTypes' /\ QueryInv'
<1> USE DEF CoreInv, QueryInv
<1>0. PICK cc : cc = continuation_counter
  OBVIOUS
<1> DEFINE t == task_counter
           o == calls[w]
<1>1. /\ Runs(w, "plan") /\ c_enter # 0 /\ calls[w] < NumOperators
      /\ cc + 1 <= kContinuationMask + MaxContinuations + 1
      /\ continuation_counter' = cc + 1 /\ AddTask(w, c_enter, cc)
      /\ role' = [role EXCEPT ![t] = "operator"] /\ op_of' = [op_of EXCEPT ![t] = o]
      /\ c_operators' = [c_operators EXCEPT ![o] = cc]
      /\ task_ids' = [task_ids EXCEPT ![o] = t]
      /\ calls' = [calls EXCEPT ![w] = @ + 1]
      /\ UNCHANGED <<retire_vars, queue_vars, sched_vars, worker_vars, c_dependent, main_pc,
                     retired, finished>>
      /\ UNCHANGED <<plan_links, c_enter, c_exit, op_linked, links_left, plan_fire, sync_lock>>
  BY <1>0 DEF PlanAddOperator, PlanFrame, ContinuationsLeft, HasNext, Becomes
<1>2. UNCHANGED <<running, nodes_mutex>>
  BY <1>1 DEF worker_vars, retire_vars
<1>3. o \in Nat /\ o \in Operator
  <2>1. calls[w] \in Nat /\ calls[w] < NumOperators
    BY <1>1 DEF PlanTypes
  <2> QED
    BY PlanAssumption, <2>1, SMTT(30) DEF Operator
<1>4. plan_fire = "before"
  BY PlanAssumption, <1>1, <1>3, PlanBefore, SMTT(30)
<1>5. /\ running[w] = PlanTask /\ running[w] # 0 /\ t = OperatorTask(o) /\ w \in Thread
      /\ \A v \in Worker : ~Building(v)
      /\ \A v \in Worker : running[v] = PlanTask => v = w
  BY <1>1, <1>4, PlanBefore
<1>6. /\ cc \in Continuation /\ cc # 0 /\ ~Allocated(cc) /\ cc < cc + 1
      /\ continuation_counter' \in Nat /\ cc <= continuation_counter' /\ kContinuationMask < cc
  <2>1. /\ cc \in kContinuationMask + 1 .. kContinuationMask + MaxContinuations + 1
        /\ task_counter \in 1 .. kContinuationMask
    BY <1>0 DEF TypeOK
  <2>2. continuation_counter' = cc + 1 /\ cc + 1 <= kContinuationMask + MaxContinuations + 1
    BY <1>1
  <2>3. cc # 0 /\ cc \in Nat /\ cc < cc + 1 /\ kContinuationMask < cc /\ ~(cc < task_counter)
    BY SchedulerAssumption, <2>1, SMTT(30)
  <2>4. cc \in Continuation /\ cc + 1 \in Nat /\ cc <= cc + 1 /\ ~(cc < cc)
    BY SchedulerAssumption, <2>1, <2>2, SMTT(30) DEF Continuation
  <2> QED
    BY <1>0, <2>2, <2>3, <2>4 DEF Allocated
<1>7. cc \notin retired /\ \A e \in links : e[1] # cc /\ e[2] # cc
  BY <1>6, FreshNode DEF NodeID
<1>8. /\ c_enter \in Continuation /\ c_exit \in Continuation /\ c_exit # 0
      /\ Allocated(c_enter) /\ Allocated(c_exit)
  BY <1>1 DEF LinksInv, PlanTypes
<1>9. cc # c_enter /\ cc # c_exit
  BY <1>6, <1>8
<1>10. CoreInv'
  <2>1. c_enter < continuation_counter'
    <3>1. /\ cc \in kContinuationMask + 1 .. kContinuationMask + MaxContinuations + 1
          /\ task_counter \in 1 .. kContinuationMask /\ continuation_counter' = cc + 1
      BY <1>0, <1>1 DEF TypeOK
    <3>2. c_enter \in Continuation /\ (c_enter < task_counter \/ c_enter < cc)
      BY <1>0, <1>8 DEF Allocated
    <3> QED
      BY SchedulerAssumption, <3>1, <3>2, SMTT(30) DEF Continuation
  <2>2. w # MainThread
    BY Threads
  <2> QED
    BY <1>0, <1>1, <1>5, <1>6, <1>7, <1>8, <2>1, <2>2, PlainAddTaskInv
<1>11. /\ t \in TaskID /\ task_counter' = t + 1 /\ t \in Nat
       /\ continuation'[t] = cc
       /\ \A x \in TaskID : x # t => continuation'[x] = continuation[x]
       /\ links \subseteq links'
       /\ \A e \in links' : e \in links \/ e = <<t, cc>> \/ e = <<c_enter, t>>
       /\ \A v \in Worker : running[v] # 0 => running[v] \in TaskID /\ running[v] # t
  BY <1>1, <1>5, <1>6, <1>8, AddTaskEffect
<1>12. /\ c_operators'[o] = cc /\ task_ids'[o] = t /\ calls'[w] = o + 1 /\ calls' \in [Worker -> Nat]
       /\ \A p \in Operator : p # o => c_operators'[p] = c_operators[p] /\ task_ids'[p] = task_ids[p]
       /\ \A v \in Worker : v # w => calls'[v] = calls[v]
  <2>1. o + 1 \in Nat
    BY <1>3, SMTT(30)
  <2> QED
    BY <1>1, <1>3, <2>1 DEF PlanTypes
<1>13. \A p \in Operator : OperatorTask(p) < t => p # o
  BY <1>3, <1>5, SMTT(30) DEF OperatorTask, Operator
<1>14. PlanTypes'
  <2>1. role' \in [TaskID -> Role] /\ op_of' \in [TaskID -> Operator \cup {NoOperator}]
    BY <1>1, <1>3, <1>11 DEF Role, PlanTypes
  <2>2. /\ c_operators' \in [Operator -> Continuation \cup {0}]
        /\ task_ids' \in [Operator -> TaskID \cup {0}]
    BY <1>1, <1>3, <1>6, <1>11 DEF PlanTypes
  <2> QED
    BY <1>1, <1>12, <2>1, <2>2 DEF PlanTypes
<1>15. /\ RoleOf(t) = "operator" /\ t # ChainTask /\ ~(t < OperatorTask(0)) /\ t # ExitTask
       /\ ~(ExitTask < t) /\ \A p \in Operator : t = OperatorTask(p) => o = p
       /\ t \notin {SecondTask, FirstTask, SpawnerTask, PlanTask, ExitTask}
  BY PlanAssumption, <1>1, <1>3, <1>5, SMTT(30) DEF RoleOf, ChainTask, SecondTask, FirstTask, SpawnerTask, PlanTask,
     ExitTask, OperatorTask, Operator
<1>16. RoleInv'
  BY <1>1, <1>11, <1>15, RoleAdd
<1>17. StageInv'
  <2>1. calls[w] <= NumOperators
    BY PlanAssumption, <1>1, <1>3, SMTT(30)
  <2> QED
    BY <1>1, <1>2, <1>4, <1>5, <1>11, <1>12, <2>1, StageAdd
<1>18. LinksInv'
  <2>1. \A p \in Operator : t = OperatorTask(p) =>
          /\ task_ids'[p] = t /\ c_operators'[p] = cc /\ cc # 0 /\ Allocated(cc)'
    <3>1. kContinuationMask < cc /\ cc < continuation_counter'
      BY <1>1, <1>6
    <3> QED
      BY <1>6, <1>12, <1>15, <3>1 DEF Allocated
  <2> QED
    BY <1>0, <1>1, <1>5, <1>6, <1>8, <1>12, <1>13, <1>15, <2>1, LinksAdd
<1>19. BeforeInv'
  <2>1. \A v \in Worker : ~Building(v)'
    BY <1>1, <1>2, <1>5, <1>11 DEF Building
  <2>2. \A v \in Worker : running[v] # ChainTask \/ calls'[v] = calls[v]
    <3>1. PlanTask # ChainTask
      BY SMTT(30) DEF PlanTask, ChainTask
    <3> QED
      BY <1>5, <1>12, <3>1
  <2>3. ASSUME NEW e \in links'
        PROVE  /\ e[2] # c_enter
               /\ e[2] = c_exit => \E p \in Operator : OperatorTask(p) < task_counter'
                                                       /\ e[1] = c_operators'[p]
    <3>1. CASE e = <<t, cc>> \/ e = <<c_enter, t>>
      <4>1. t # c_enter /\ t # c_exit
        BY <1>8, <1>11, NodeIDs
      <4>2. <<t, cc>>[2] = cc /\ <<c_enter, t>>[2] = t
        BY SMTT(30)
      <4> QED
        BY <3>1, <4>1, <4>2, <1>9
    <3>2. CASE e \in links
      <4>1. e[2] # c_enter
        BY <3>2, <1>1, <1>4 DEF BeforeInv
      <4>2. ASSUME e[2] = c_exit
            PROVE  \E p \in Operator : OperatorTask(p) < task_counter' /\ e[1] = c_operators'[p]
        <5>1. PICK p \in Operator : OperatorTask(p) < t /\ e[1] = c_operators[p]
          BY <3>2, <4>2, <1>1, <1>4 DEF BeforeInv
        <5>2. OperatorTask(p) < task_counter'
          BY <5>1, <1>11, SMTT(30) DEF OperatorTask, Operator
        <5> QED
          BY <5>1, <5>2, <1>12, <1>13
      <4> QED
        BY <4>1, <4>2
    <3> QED
      BY <3>1, <3>2, <1>11
  <2> QED
    BY <1>1, <1>2, <1>4, <2>1, <2>2, <2>3 DEF BeforeInv
<1>20. BatchInv'
  <2>1. task_counter' \in Nat /\ task_counter' <= ExitTask + 1
    BY PlanAssumption, <1>1, <1>3, <1>5, <1>11, SMTT(30) DEF ExitTask, OperatorTask
  <2>2. \A v \in Worker : running[v] # 0 => op_of'[running[v]] = op_of[running[v]]
    BY <1>1, <1>11 DEF PlanTypes
  <2> QED
    BY <1>2, <1>4, <2>1, <2>2, BatchBefore
<1> QED
  BY <1>10, <1>14, <1>16, <1>17, <1>18, <1>19, <1>20

\* The plan adds the exit task, which continues what the plan was to continue.
LEMMA AddExitQuery ==
  ASSUME CoreInv, PlanTypes, QueryInv, NEW w \in Worker, PlanAddExit(w)
  PROVE  CoreInv' /\ PlanTypes' /\ QueryInv'
<1> USE DEF CoreInv, QueryInv
<1> DEFINE t == task_counter
           c == continuation[running[w]]
<1>1. /\ Runs(w, "plan") /\ op_linked = Operator /\ links_left = {} /\ calls[w] = NumOperators
      /\ AddTask(w, c_exit, c) /\ UNCHANGED continuation_counter
      /\ role' = [role EXCEPT ![t] = "exit"] /\ op_of' = [op_of EXCEPT ![t] = NoOperator]
      /\ calls' = [calls EXCEPT ![w] = @ + 1]
      /\ UNCHANGED <<retire_vars, queue_vars, sched_vars, worker_vars, c_dependent, main_pc,
                     retired, finished>>
      /\ UNCHANGED <<plan_links, c_enter, c_exit, c_operators, task_ids, op_linked, links_left,
                     plan_fire, sync_lock>>
  BY DEF PlanAddExit, PlanFrame, ExitDependent, Becomes, plan_vars
<1>2. UNCHANGED <<running, nodes_mutex>>
  BY <1>1 DEF worker_vars, retire_vars
<1>3. plan_fire = "before"
  BY PlanAssumption, <1>1, PlanBefore, SMTT(30)
<1>4. /\ running[w] = PlanTask /\ running[w] # 0 /\ t = OperatorTask(NumOperators) /\ w \in Thread
      /\ \A v \in Worker : ~Building(v)
      /\ \A v \in Worker : running[v] = PlanTask => v = w
  BY <1>1, <1>3, PlanBefore
<1>5. t = ExitTask /\ PlanTask < t /\ t > OperatorTask(0)
  BY PlanAssumption, <1>4, SMTT(30) DEF OperatorTask, ExitTask, PlanTask
<1>6. c = ChainContinuation /\ c_enter # 0
  BY <1>4, <1>5 DEF LinksInv, StageInv
<1>7. /\ c_enter \in Continuation /\ c_exit \in Continuation /\ c_exit # 0
      /\ Allocated(c_enter) /\ Allocated(c_exit)
  BY <1>6 DEF LinksInv, PlanTypes
<1>8. c \in Continuation /\ Allocated(c) /\ c \notin retired /\ c # 0
  <2>1. c # 0
    BY SchedulerAssumption, <1>6, SMTT(30) DEF ChainContinuation
  <2> QED
    BY <1>4, <2>1, OwnContinuation
<1>9. c # c_enter /\ c # c_exit
  <2>1. PlanTask \in TaskID /\ <<PlanTask, c>> \in links
    BY <1>4, <1>5, <1>8, RunningTask DEF ChainInv
  <2>2. \A p \in Operator : c_operators[p] # PlanTask
    <3>1. \A p \in Operator : c_operators[p] \in Continuation \cup {0}
      BY DEF PlanTypes
    <3>2. PlanTask # 0 /\ PlanTask \notin Continuation
      BY <2>1, NodeIDs, SMTT(30) DEF PlanTask
    <3> QED
      BY <3>1, <3>2
  <2> QED
    BY <2>1, <2>2, <1>3, <1>6 DEF BeforeInv
<1>10. CoreInv'
  <2>1. /\ c_exit < continuation_counter' /\ c < continuation_counter'
        /\ continuation_counter' <= kContinuationMask + MaxContinuations + 1
    <3>1. /\ continuation_counter \in kContinuationMask + 1 .. kContinuationMask + MaxContinuations + 1
          /\ task_counter \in 1 .. kContinuationMask
      BY DEF TypeOK
    <3>2. /\ continuation_counter' = continuation_counter
          /\ c \in Continuation /\ c_exit \in Continuation
          /\ c < task_counter \/ c < continuation_counter
          /\ c_exit < task_counter \/ c_exit < continuation_counter
      BY <1>1, <1>7, <1>8 DEF Allocated
    <3> QED
      BY SchedulerAssumption, <3>1, <3>2, SMTT(30) DEF Continuation
  <2>2. w # MainThread
    BY Threads
  <2> QED
    BY <1>1, <1>4, <1>7, <1>8, <2>1, <2>2, PlainAddTaskInv
<1>11. /\ t \in TaskID /\ task_counter' = t + 1 /\ t \in Nat
       /\ continuation'[t] = c
       /\ \A x \in TaskID : x # t => continuation'[x] = continuation[x]
       /\ \A e \in links' : e \in links \/ e = <<t, c>> \/ e = <<c_exit, t>>
       /\ \A v \in Worker : running[v] # 0 => running[v] \in TaskID /\ running[v] # t
  BY <1>1, <1>4, <1>7, <1>8, AddTaskEffect
<1>12. /\ calls'[w] = calls[w] + 1 /\ calls' \in [Worker -> Nat]
       /\ \A v \in Worker : v # w => calls'[v] = calls[v]
  <2>1. calls[w] + 1 \in Nat
    BY PlanAssumption, SchedulerAssumption, <1>1, SMTT(30)
  <2> QED
    BY <1>1, <2>1 DEF PlanTypes
<1>13. PlanTypes'
  <2>1. role' \in [TaskID -> Role] /\ op_of' \in [TaskID -> Operator \cup {NoOperator}]
    BY <1>1, <1>11 DEF Role, PlanTypes
  <2> QED
    BY <1>1, <1>12, <2>1 DEF PlanTypes
<1>14. /\ RoleOf(t) = "exit" /\ t # ChainTask /\ ~(ExitTask < t)
       /\ \A p \in Operator : t # OperatorTask(p)
       /\ t # SecondTask
  BY PlanAssumption, <1>5, SMTT(30) DEF RoleOf, ChainTask, SecondTask, FirstTask, SpawnerTask, PlanTask, ExitTask,
     OperatorTask, Operator
<1>15. RoleInv'
  BY <1>1, <1>11, <1>14, RoleAdd
<1>16. StageInv'
  <2>1. calls[w] <= NumOperators
    <3>1. calls[w] = NumOperators /\ NumOperators \in Nat
      BY PlanAssumption, <1>1
    <3> QED
      BY <3>1, SMTT(30)
  <2> QED
    BY <1>1, <1>2, <1>3, <1>4, <1>6, <1>11, <1>12, <2>1, StageAdd
<1>17. LinksInv'
  <2>1. continuation_counter' \in Nat /\ continuation_counter <= continuation_counter'
    BY SchedulerAssumption, <1>1, SMTT(30) DEF TypeOK
  <2> QED
    BY <1>1, <1>4, <1>6, <1>7, <1>8, <1>14, <2>1, LinksAdd
<1>18. BeforeInv'
  <2>1. \A v \in Worker : ~Building(v)'
    BY <1>1, <1>2, <1>4, <1>11 DEF Building
  <2>2. \A v \in Worker : running[v] # ChainTask \/ calls'[v] = calls[v]
    <3>1. PlanTask # ChainTask
      BY SMTT(30) DEF PlanTask, ChainTask
    <3> QED
      BY <1>4, <1>12, <3>1
  <2>3. ASSUME NEW e \in links'
        PROVE  /\ e[2] # c_enter
               /\ e[2] = c_exit => \E p \in Operator : OperatorTask(p) < task_counter'
                                                       /\ e[1] = c_operators[p]
    <3>1. CASE e = <<t, c>> \/ e = <<c_exit, t>>
      <4>1. t # c_enter /\ t # c_exit
        BY <1>7, <1>11, NodeIDs
      <4>2. <<t, c>>[2] = c /\ <<c_exit, t>>[2] = t
        BY SMTT(30)
      <4> QED
        BY <3>1, <4>1, <4>2, <1>9
    <3>2. CASE e \in links
      <4>1. \A p \in Operator : OperatorTask(p) < t => OperatorTask(p) < task_counter'
        BY <1>11, SMTT(30) DEF OperatorTask, Operator
      <4> QED
        BY <3>2, <4>1, <1>3, <1>6 DEF BeforeInv
    <3> QED
      BY <3>1, <3>2, <1>11
  <2> QED
    BY <1>1, <1>2, <1>3, <1>6, <2>1, <2>2, <2>3 DEF BeforeInv
<1>19. BatchInv'
  <2>1. task_counter' \in Nat /\ task_counter' <= ExitTask + 1
    BY <1>5, <1>11, SMTT(30)
  <2>2. \A v \in Worker : running[v] # 0 => op_of'[running[v]] = op_of[running[v]]
    BY <1>1, <1>11 DEF PlanTypes
  <2> QED
    BY <1>2, <1>3, <2>1, <2>2, BatchBefore
<1> QED
  BY <1>10, <1>13, <1>15, <1>16, <1>17, <1>18, <1>19

\* The plan links the continuation of an operator to c_exit.
LEMMA LinkExitQuery ==
  ASSUME CoreInv, PlanTypes, QueryInv, NEW w \in Worker, PlanLinkExit(w)
  PROVE  CoreInv' /\ PlanTypes' /\ QueryInv'
<1> USE DEF CoreInv, QueryInv
<1>1. PICK o \in Operator \ op_linked :
        /\ o \in 0 .. calls[w] - 1
        /\ LinkNodes({<<c_operators[o], c_exit>>})
        /\ op_linked' = op_linked \cup {o}
  BY DEF PlanLinkExit, AddLink, ExitLink
<1>2. /\ Runs(w, "plan")
      /\ UNCHANGED <<retire_vars, queue_vars, id_vars, sched_vars, worker_vars, c_dependent,
                     main_pc, call_vars, retired, finished>>
      /\ UNCHANGED <<plan_links, role, op_of, calls, c_enter, c_exit, c_operators, task_ids,
                     links_left, plan_fire, sync_lock>>
  BY DEF PlanLinkExit, AddLink, PlanFrame, body_vars
<1>3. UNCHANGED <<running, nodes_mutex, task_counter, continuation_counter, continuation>>
  BY <1>2 DEF worker_vars, retire_vars, id_vars
<1>4. plan_fire = "before"
  <2>1. ~(ExitTask < task_counter)
    BY <1>1 DEF LinksInv
  <2> QED
    BY <2>1, SMTT(30) DEF StageInv, TypeOK, ExitTask
<1>5. /\ task_counter = OperatorTask(calls[w]) /\ \A v \in Worker : ~Building(v)
  BY <1>2, <1>4, PlanBefore
<1>6. OperatorTask(o) < task_counter /\ task_counter > OperatorTask(0)
      /\ task_counter \in Nat /\ task_counter <= ExitTask + 1
  <2>1. o \in Operator /\ o \in 0 .. calls[w] - 1 /\ calls[w] \in Nat
    BY <1>1 DEF PlanTypes
  <2>2. task_counter \in Nat /\ task_counter <= ExitTask + 1
    <3>1. task_counter <= ExitTask + 1
      BY <1>4 DEF StageInv
    <3>2. task_counter \in Nat
      BY SMTT(30) DEF TypeOK
    <3> QED
      BY <3>1, <3>2
  <2>3. OperatorTask(o) < task_counter /\ task_counter > OperatorTask(0)
    BY <1>5, <2>1, SMTT(30) DEF OperatorTask, Operator
  <2> QED
    BY <2>2, <2>3
<1>7. /\ c_enter # 0 /\ c_exit # 0 /\ c_exit # c_enter /\ c_exit \in Continuation
      /\ Allocated(c_exit) /\ c_exit \notin retired
  BY <1>4, <1>6 DEF StageInv, LinksInv, BeforeInv, PlanTypes
<1>8. c_operators[o] \in Continuation /\ Allocated(c_operators[o])
  BY <1>6 DEF LinksInv, PlanTypes
<1>9. CoreInv'
  BY <1>1, <1>2, <1>5, <1>7, <1>8, AddLinkCore DEF NodeID
<1>10. links' = links \cup {<<c_operators[o], c_exit>>}
  BY <1>1 DEF LinkNodes
<1>11. /\ \A t : Started(t)' <=> Started(t)
       /\ \A v : Building(v)' <=> Building(v)
       /\ \A n : Allocated(n)' <=> Allocated(n)
  BY <1>2, <1>3 DEF Started, Building, Allocated
<1>12. PlanTypes'
  BY <1>1, <1>2 DEF PlanTypes
<1>13. RoleInv'
  BY <1>2, <1>3 DEF RoleInv
<1>14. StageInv'
  BY <1>2, <1>3, <1>11 DEF StageInv
<1>15. LinksInv'
  <2>1. ~(ExitTask < task_counter) /\ plan_links \ links_left = {}
    BY <1>1 DEF LinksInv
  <2>2. \A p \in op_linked' : OperatorTask(p) < task_counter /\ <<c_operators[p], c_exit>> \in links'
    BY <1>1, <1>6, <1>10 DEF LinksInv
  <2>3. links \subseteq links'
    BY <1>10
  <2> QED
    BY <1>2, <1>3, <1>11, <2>1, <2>2, <2>3 DEF LinksInv
<1>16. BeforeInv'
  <2>1. \A e \in links' :
          /\ e[2] # c_enter
          /\ e[2] = c_exit =>
               \E p \in Operator : OperatorTask(p) < task_counter /\ e[1] = c_operators[p]
    <3> TAKE e \in links'
    <3>1. CASE e \in links
      BY <3>1, <1>4, <1>7 DEF BeforeInv
    <3>2. CASE e = <<c_operators[o], c_exit>>
      BY <3>2, <1>1, <1>6, <1>7
    <3> QED
      BY <3>1, <3>2, <1>10
  <2> QED
    BY <1>2, <1>3, <1>11, <2>1 DEF BeforeInv
<1>17. BatchInv'
  BY <1>2, <1>3, <1>4, <1>6, BatchBefore
<1> QED
  BY <1>9, <1>12, <1>13, <1>14, <1>15, <1>16, <1>17

\* The plan makes a consumer's task wait for its producer's continuation.
LEMMA LinkQuery ==
  ASSUME CoreInv, PlanTypes, QueryInv, NEW w \in Worker, PlanLink(w)
  PROVE  CoreInv' /\ PlanTypes' /\ QueryInv'
<1> USE DEF CoreInv, QueryInv
<1>1. PICK d \in links_left :
        /\ LinkNodes({<<c_operators[d[1]], task_ids[d[2]]>>})
        /\ links_left' = links_left \ {d}
  BY DEF PlanLink, AddLink, Produced
<1>2. /\ Runs(w, "plan") /\ op_linked = Operator
      /\ UNCHANGED <<retire_vars, queue_vars, id_vars, sched_vars, worker_vars, c_dependent,
                     main_pc, call_vars, retired, finished>>
      /\ UNCHANGED <<plan_links, role, op_of, calls, c_enter, c_exit, c_operators, task_ids,
                     op_linked, plan_fire, sync_lock>>
  BY DEF PlanLink, AddLink, PlanFrame, body_vars
<1>3. UNCHANGED <<running, nodes_mutex, task_counter, continuation_counter, continuation>>
  BY <1>2 DEF worker_vars, retire_vars, id_vars
<1>4. plan_fire = "before"
  <2>1. ~(ExitTask < task_counter)
    BY <1>1 DEF LinksInv
  <2> QED
    BY <2>1, SMTT(30) DEF StageInv, TypeOK, ExitTask
<1> DEFINE p == d[1]
           q == d[2]
           m == c_operators[p]
           n == OperatorTask(q)
<1>5. p \in Operator /\ q \in Operator
  BY <1>1 DEF PlanTypes
<1>6. /\ OperatorTask(p) < task_counter /\ n < task_counter
      /\ task_ids[q] = n /\ m # 0 /\ Allocated(m) /\ <<c_enter, n>> \in links
  BY <1>2, <1>5 DEF LinksInv
<1>7. /\ m \in Continuation /\ n \in TaskID /\ Allocated(n)
      /\ task_counter > OperatorTask(0) /\ task_counter \in Nat /\ task_counter <= ExitTask + 1
  <2>1. m \in Continuation
    BY <1>5, <1>6 DEF PlanTypes
  <2>2. n \in TaskID /\ task_counter > OperatorTask(0) /\ task_counter \in Nat
        /\ task_counter <= ExitTask + 1
    <3>1. n \in Nat /\ n # 0
      BY <1>5, OperatorIds
    <3>2. n \in TaskID
      BY <1>6, <3>1, BelowCounter
    <3>3. task_counter \in 1 .. kContinuationMask /\ q \in 0 .. NumOperators - 1
      BY <1>5 DEF TypeOK, Operator
    <3>4. task_counter > OperatorTask(0) /\ task_counter \in Nat
      BY <1>6, <3>3, SMTT(30) DEF OperatorTask
    <3> QED
      BY <1>4, <3>2, <3>4 DEF StageInv
  <2> QED
    BY <2>1, <2>2, <1>6 DEF Allocated
<1>8. /\ c_enter # 0 /\ c_enter \in Continuation /\ c_exit \in Continuation
      /\ c_enter \notin retired
  BY <1>4, <1>7 DEF StageInv, LinksInv, BeforeInv, PlanTypes
<1>9. Dependencies(n) # {}
  <2>1. n \in dependents[c_enter]
    BY <1>6, <1>8 DEF GraphInv
  <2> QED
    BY <1>8, <2>1 DEF Dependencies, NodeID
<1>10. LinkNodes({<<m, n>>})
  BY <1>1, <1>6
<1>11. CoreInv'
  BY <1>2, <1>6, <1>7, <1>9, <1>10, AddLinkCore DEF NodeID
<1>12. links' = links \cup {<<m, n>>}
  BY <1>10 DEF LinkNodes
<1>13. /\ \A t : Started(t)' <=> Started(t)
       /\ \A v : Building(v)' <=> Building(v)
       /\ \A k : Allocated(k)' <=> Allocated(k)
  BY <1>2, <1>3 DEF Started, Building, Allocated
<1>14. PlanTypes'
  BY <1>1, <1>2 DEF PlanTypes
<1>15. RoleInv'
  BY <1>2, <1>3 DEF RoleInv
<1>16. StageInv'
  BY <1>2, <1>3, <1>13 DEF StageInv
<1>17. LinksInv'
  <2>1. ~(ExitTask < task_counter)
    BY <1>1 DEF LinksInv
  <2>2. links \subseteq links' /\ <<m, n>> \in links'
    BY <1>12
  <2>3. \A e \in plan_links \ links_left' :
          op_linked = Operator /\ <<c_operators[e[1]], OperatorTask(e[2])>> \in links'
    <3> TAKE e \in plan_links \ links_left'
    <3>1. CASE e = d
      BY <3>1, <2>2, <1>2
    <3>2. CASE e # d
      BY <3>2, <2>2, <1>1, <1>2 DEF LinksInv
    <3> QED
      BY <3>1, <3>2
  <2> QED
    BY <1>2, <1>3, <1>13, <2>1, <2>2, <2>3 DEF LinksInv
<1>18. BeforeInv'
  <2>1. \A e \in links' :
          /\ e[2] # c_enter
          /\ e[2] = c_exit =>
               \E o \in Operator : OperatorTask(o) < task_counter /\ e[1] = c_operators[o]
    <3> TAKE e \in links'
    <3>1. CASE e \in links
      BY <3>1, <1>4, <1>8 DEF BeforeInv
    <3>2. CASE e = <<m, n>>
      <4>1. n # c_enter /\ n # c_exit
        BY <1>7, <1>8, NodeIDs
      <4> QED
        BY <3>2, <4>1
    <3> QED
      BY <3>1, <3>2, <1>12
  <2> QED
    BY <1>2, <1>3, <1>13, <2>1 DEF BeforeInv
<1>19. BatchInv'
  BY <1>2, <1>3, <1>4, <1>7, BatchBefore
<1> QED
  BY <1>11, <1>14, <1>15, <1>16, <1>17, <1>18, <1>19

\* The plan fires c_enter.
LEMMA FireQuery ==
  ASSUME CoreInv, PlanTypes, QueryInv, NEW w \in Worker, PlanFire(w)
  PROVE  CoreInv' /\ PlanTypes' /\ QueryInv'
<1> USE DEF CoreInv, QueryInv
<1>1. /\ Runs(w, "plan") /\ plan_fire = "before" /\ calls[w] = NumOperators + 1
      /\ StartRetiring(w, c_enter) /\ nodes_mutex' = w /\ plan_fire' = "during"
      /\ UNCHANGED <<graph_vars, queue_vars, id_vars, sched_vars, worker_vars, c_dependent,
                     main_pc, call_vars, links, finished>>
      /\ UNCHANGED <<plan_links, role, op_of, calls, c_enter, c_exit, c_operators, task_ids,
                     op_linked, links_left, sync_lock>>
  BY DEF PlanFire, PlanFrame, MayFire, Fired, StartRetiring, body_vars
<1>2. UNCHANGED <<running, task_counter, continuation_counter, continuation>>
  BY <1>1 DEF worker_vars, id_vars
<1>3. /\ running[w] = PlanTask /\ running[w] # 0 /\ PlanTask \notin finished
      /\ task_counter = OperatorTask(NumOperators + 1) /\ \A v \in Worker : ~Building(v)
      /\ \A v \in Worker : running[v] = PlanTask => v = w
  BY <1>1, PlanBefore
<1>4. task_counter > ExitTask /\ task_counter > OperatorTask(0)
  BY PlanAssumption, <1>3, SMTT(30) DEF OperatorTask, ExitTask
<1>5. c_enter # 0 /\ c_enter \in Continuation /\ Allocated(c_enter)
  BY <1>4 DEF StageInv, LinksInv, PlanTypes
<1>6. Dependencies(c_enter) = {}
  <2> SUFFICES ASSUME NEW m \in Dependencies(c_enter) PROVE FALSE
    OBVIOUS
  <2>1. <<m, c_enter>> \in links
    BY DEF Dependencies, GraphInv
  <2>2. <<m, c_enter>>[2] = c_enter
    BY SMTT(30)
  <2> QED
    BY <1>1, <1>5, <2>1, <2>2 DEF BeforeInv
<1>7. CoreInv'
  BY <1>1, <1>3, <1>5, <1>6, FireCore
<1>8. /\ \A t : Started(t)' <=> Started(t)
      /\ \A n : Allocated(n)' <=> Allocated(n)
      /\ \A c, o : Guards(c, o)' <=> Guards(c, o)
  BY <1>1, <1>2 DEF Started, Allocated, Guards
<1>9. PlanTypes'
  BY <1>1 DEF PlanTypes
<1>10. RoleInv'
  BY <1>1, <1>2 DEF RoleInv
<1>11. StageInv'
  <2>1. \A v \in Worker : running[v] = PlanTask => calls[v] = NumOperators + 1
    BY <1>1, <1>3
  <2>2. \A v \in Worker :
          /\ running[v] = ChainTask =>
               \/ calls[v] < 2 /\ task_counter = SecondTask + calls[v]
               \/ calls[v] = 2 /\ task_counter > FirstTask
          /\ running[v] = FirstTask =>
               \/ calls[v] = 0 /\ task_counter = SpawnerTask
               \/ calls[v] = 1 /\ task_counter > SpawnerTask
          /\ running[v] = SpawnerTask =>
               \/ calls[v] = 0 /\ task_counter = PlanTask
               \/ calls[v] = 1 /\ task_counter > PlanTask
    BY DEF StageInv
  <2> QED
    BY <1>1, <1>2, <1>3, <1>4, <1>5, <1>8, <2>1, <2>2 DEF StageInv
<1>12. LinksInv'
  BY <1>1, <1>2, <1>8 DEF LinksInv
<1>13. BeforeInv'
  BY <1>1, <1>2 DEF BeforeInv
<1>14. BatchInv'
  BY <1>1, <1>2, <1>8 DEF BatchInv
<1> QED
  BY <1>7, <1>9, <1>10, <1>11, <1>12, <1>13, <1>14

\* fire(c_enter) returns.
LEMMA FireEndQuery ==
  ASSUME CoreInv, PlanTypes, QueryInv, NEW w \in Worker, PlanFireEnd(w)
  PROVE  CoreInv' /\ PlanTypes' /\ QueryInv'
<1> USE DEF CoreInv, QueryInv
<1>1. /\ Runs(w, "plan") /\ plan_fire = "during" /\ nodes_mutex = w /\ retiring = << >>
      /\ nodes_mutex' = NoThread /\ plan_fire' = "after"
      /\ UNCHANGED <<graph_vars, retiring, queue_vars, id_vars, sched_vars, worker_vars,
                     c_dependent, main_pc, call_vars, links, retired, finished>>
      /\ UNCHANGED <<plan_links, role, op_of, calls, c_enter, c_exit, c_operators, task_ids,
                     op_linked, links_left, sync_lock>>
  BY DEF PlanFireEnd, PlanFrame, body_vars
<1>2. UNCHANGED <<running, task_counter, continuation_counter, continuation>>
  BY <1>1 DEF worker_vars, id_vars
<1>3. CoreInv'
  <2>1. UNCHANGED history_vars
    BY <1>1 DEF history_vars
  <2> QED
    BY <1>1, <2>1, FireEndCore
<1>4. /\ \A t : Started(t)' <=> Started(t)
      /\ \A n : Allocated(n)' <=> Allocated(n)
      /\ \A c, o : Guards(c, o)' <=> Guards(c, o)
  BY <1>1, <1>2 DEF Started, Allocated, Guards
<1>5. NoThread \notin Worker
  BY Threads
<1>6. PlanTypes'
  BY <1>1 DEF PlanTypes
<1>7. RoleInv'
  BY <1>1, <1>2 DEF RoleInv
<1>8. StageInv'
  BY <1>1, <1>2, <1>4, <1>5 DEF StageInv
<1>9. LinksInv'
  BY <1>1, <1>2, <1>4 DEF LinksInv
<1>10. BeforeInv'
  BY <1>1, <1>2 DEF BeforeInv
<1>11. BatchInv'
  BY <1>1, <1>2, <1>4 DEF BatchInv
<1> QED
  BY <1>3, <1>6, <1>7, <1>8, <1>9, <1>10, <1>11

------------------------------------------------------------------------------
(* The invariant *)

\* At first there is no query.
LEMMA PlanInitInv == PlanInit => PlanInv
<1> SUFFICES ASSUME PlanInit PROVE PlanInv
  OBVIOUS
<1>1. CoreInv
  BY InitCore DEF PlanInit
<1>2. /\ task_counter = 1 /\ continuation_counter = ChainContinuation /\ main_pc = "out"
      /\ links = {} /\ retired = {} /\ finished = {} /\ nodes_mutex = NoThread
      /\ running = [w \in Worker |-> 0]
  BY DEF PlanInit, Init, Cleared, ChainContinuation
<1>3. /\ plan_links \in SUBSET (Operator \X Operator)
      /\ role = [t \in TaskID |-> "none"] /\ op_of = [t \in TaskID |-> NoOperator]
      /\ calls = [w \in Worker |-> 0] /\ c_enter = 0 /\ c_exit = 0
      /\ c_operators = [o \in Operator |-> 0] /\ task_ids = [o \in Operator |-> 0]
      /\ op_linked = {} /\ links_left = plan_links /\ plan_fire = "before" /\ sync_lock = "free"
  BY DEF PlanInit
<1>4. PlanTypes
  <2>1. calls \in [Worker -> Nat]
    BY <1>3, SMTT(30)
  <2> QED
    BY <1>3, <2>1 DEF PlanTypes, Role
<1>5. /\ \A t \in TaskID : ~(t < task_counter)
      /\ ~(ExitTask < task_counter) /\ \A o \in Operator : ~(OperatorTask(o) < task_counter)
      /\ \A t \in {ChainTask, FirstTask, SpawnerTask, PlanTask, ExitTask} : ~(t < task_counter)
      /\ \A t \in {SecondTask, SpawnerTask, PlanTask, OperatorTask(0), ExitTask + 1} :
           task_counter <= t /\ ~(task_counter > t)
  BY PlanAssumption, SchedulerAssumption, <1>2, SMTT(30) DEF TaskID, ExitTask, OperatorTask, Operator, ChainTask, SecondTask, FirstTask,
     SpawnerTask, PlanTask
<1>6. \A w \in Worker : /\ running[w] \notin {ChainTask, FirstTask, SpawnerTask, PlanTask}
                        /\ running[w] = 0
  BY <1>2, SMTT(30) DEF ChainTask, FirstTask, SpawnerTask, PlanTask
<1>7. RoleInv
  BY <1>3, <1>5 DEF RoleInv
<1>8. StageInv
  <2>1. NoThread \notin Worker
    BY Threads
  <2> QED
    BY <1>2, <1>3, <1>5, <1>6, <2>1 DEF StageInv
<1>9. LinksInv
  BY <1>3, <1>5 DEF LinksInv
<1>10. BeforeInv
  BY <1>3, <1>6 DEF BeforeInv, Building
<1>11. BatchInv
  BY <1>5, <1>6 DEF BatchInv
<1> QED
  BY <1>1, <1>4, <1>7, <1>8, <1>9, <1>10, <1>11 DEF PlanInv, QueryInv

\* Steps that leave the query alone.
LEMMA QuietCore ==
  ASSUME CoreInv, PlanTypes, UNCHANGED query_vars,
         \/ SchedulerStep
         \/ \E thr \in Thread : CallStep(thr)
         \/ Start
         \/ Join
         \/ \E w \in Worker : WorkerPopJoin(w) \/ Park(w)
         \/ \E w \in Worker : RetireStep(w)
         \/ UNCHANGED vars
  PROVE  CoreInv' /\ PlanTypes'
<1>1. PlanTypes'
  BY DEF PlanTypes, query_vars, body_vars, plan_vars
<1>2. CoreInv'
  BY Threads, SchedulerStepCore, EnqueueInv, NotifyInv, StartInv, JoinInv, WorkerPopJoinInv, ParkInv,
     ProcessDependentInv, EraseNodeInv, StutterCore DEF CallStep, RetireStep
<1> QED
  BY <1>1, <1>2

\* A step of a query that is not over.
LEMMA QueryNextInv ==
  ASSUME CoreInv, PlanTypes, QueryInv, QueryNext \/ UNCHANGED all_vars
  PROVE  PlanInv'
<1>1. SUFFICES ASSUME TRUE PROVE CoreInv' /\ PlanTypes' /\ (Over \/ QueryInv)'
  BY DEF PlanInv
<1>2. ASSUME SchedulerStep /\ UNCHANGED query_vars
      PROVE  CoreInv' /\ PlanTypes' /\ QueryInv'
  BY <1>2, QuietCore, QuietInv
<1>3. ASSUME Query PROVE CoreInv' /\ PlanTypes' /\ QueryInv'
  BY <1>3, QueryAdd, MainAddTaskInv DEF Query
<1>4. ASSUME ClientStep PROVE CoreInv' /\ PlanTypes' /\ QueryInv'
  <2>1. MainThread \in Thread
    BY Threads
  <2>2. CASE CallStep(MainThread) /\ UNCHANGED query_vars
    BY <2>1, <2>2, QuietCore, QuietInv
  <2>3. CASE Start /\ UNCHANGED query_vars
    BY <2>3, QuietCore, QuietInv
  <2>4. CASE sync_lock = "released" /\ Join /\ UNCHANGED query_vars
    BY <2>4, QuietCore, QuietInv
  <2> QED
    BY <1>4, <2>2, <2>3, <2>4 DEF ClientStep
<1>5. ASSUME JoinReturns /\ UNCHANGED query_vars PROVE CoreInv' /\ PlanTypes' /\ Over'
  <2>1. CoreInv'
    BY <1>5, JoinReturnsInv
  <2>2. PlanTypes'
    BY <1>5 DEF PlanTypes, query_vars, body_vars, plan_vars
  <2>3. sync_lock = "released" /\ UNCHANGED sync_lock
    BY <1>5 DEF QueryInv, StageInv, JoinReturns, query_vars
  <2>4. task_counter' = 1
    BY <1>5 DEF JoinReturns, Cleared
  <2> QED
    BY <2>1, <2>2, <2>3, <2>4 DEF Over
<1>6. ASSUME NEW w \in Worker, QueryWorkerStep(w) PROVE CoreInv' /\ PlanTypes' /\ QueryInv'
  <2>1. CASE PopTaskStep(w)
    BY <2>1, PopTaskQuery, WorkerPopTaskInv DEF PopTaskStep
  <2>2. CASE ChainStep(w)
    BY <2>2, ChainQuery, WorkerAddTaskInv DEF ChainStep
  <2>3. CASE SpawnStep(w)
    BY <2>3, SpawnQuery, WorkerAddTaskInv DEF SpawnStep
  <2>4. CASE OperatorStep(w)
    BY <2>4, OperatorQuery, WorkerAddTaskInv DEF OperatorStep
  <2>5. CASE FinishStep(w)
    BY <2>5, FinishQuery, FinishTaskInv DEF FinishStep
  <2>6. CASE PlanRetire(w)
    BY <2>6, QuietCore, QuietInv DEF PlanRetire
  <2>7. CASE PlanStep(w) /\ ~PlanRetire(w)
    BY <2>7, EnterQuery, AddOperatorQuery, LinkExitQuery, LinkQuery, AddExitQuery, FireQuery,
       FireEndQuery DEF PlanStep
  <2>8. CASE (WorkerPopJoin(w) \/ Park(w) \/ CallStep(w)) /\ UNCHANGED query_vars
    <3>1. w \in Thread
      BY Threads
    <3> QED
      BY <2>8, <3>1, QuietCore, QuietInv
  <2> QED
    BY <1>6, <2>1, <2>2, <2>3, <2>4, <2>5, <2>6, <2>7, <2>8 DEF QueryWorkerStep
<1>7. ASSUME UNCHANGED all_vars PROVE CoreInv' /\ PlanTypes' /\ QueryInv'
  BY <1>7, QuietCore, QuietInv DEF all_vars
<1> QED
  BY <1>2, <1>3, <1>4, <1>5, <1>6, <1>7 DEF QueryNext

\* A step after the query, and the scheduler with it, is over.
LEMMA OverNextInv ==
  ASSUME CoreInv, PlanTypes, Over, QueryNext \/ UNCHANGED all_vars
  PROVE  PlanInv'
<1> DEFINE quiet == \/ SchedulerStep
                    \/ \E thr \in Thread : CallStep(thr)
                    \/ Start
                    \/ Join
                    \/ \E w \in Worker : WorkerPopJoin(w) \/ Park(w)
                    \/ UNCHANGED vars
<1>1. \A w \in Worker : running[w] = 0
  BY OverIdle
<1>2. \/ quiet /\ UNCHANGED query_vars
      \/ JoinReturns /\ UNCHANGED query_vars
      \/ \E w \in Worker : PopTaskStep(w)
  <2>1. ~Query
    BY DEF Query, Over
  <2>2. ClientStep => quiet /\ UNCHANGED query_vars
    BY Threads DEF ClientStep
  <2>3. ASSUME NEW w \in Worker, QueryWorkerStep(w)
        PROVE  PopTaskStep(w) \/ (quiet /\ UNCHANGED query_vars)
    <3>1. \A r : ~Runs(w, r)
      BY <1>1 DEF Runs
    <3>2. ~(ChainStep(w) \/ SpawnStep(w) \/ OperatorStep(w) \/ FinishStep(w))
      BY <1>1, <3>1 DEF ChainStep, SpawnStep, OperatorStep, FinishStep
    <3>3. ~PlanStep(w)
      BY <3>1 DEF PlanStep, PlanEnter, PlanAddOperator, PlanLinkExit, PlanLink, PlanAddExit,
         PlanFire, PlanRetire, PlanFireEnd
    <3> QED
      BY <2>3, <3>2, <3>3, Threads DEF QueryWorkerStep
  <2> QED
    BY <2>1, <2>2, <2>3 DEF QueryNext, all_vars
<1>3. CASE quiet /\ UNCHANGED query_vars
  <2>1. CoreInv' /\ PlanTypes'
    BY <1>3, QuietCore
  <2>2. UNCHANGED task_counter
    BY <1>3 DEF SchedulerStep, CallStep, RetireStep, Dispatch, DispatchEnd, CheckHalt, PopSignal,
       PopCompletion, FreeWorker, StopWorkers, JoinWorkers, Enqueue, Notify, ProcessDependent,
       EraseNode, Start, Join, WorkerPopJoin, Park, id_vars, vars
  <2>3. UNCHANGED sync_lock
    BY <1>3 DEF query_vars
  <2> QED
    BY <2>1, <2>2, <2>3 DEF PlanInv, Over
<1>4. CASE JoinReturns /\ UNCHANGED query_vars
  <2>1. CoreInv'
    BY <1>4, JoinReturnsInv
  <2>2. PlanTypes' /\ UNCHANGED sync_lock
    BY <1>4 DEF PlanTypes, query_vars, body_vars, plan_vars
  <2>3. task_counter' = 1
    BY <1>4 DEF JoinReturns, Cleared
  <2> QED
    BY <2>1, <2>2, <2>3 DEF PlanInv, Over
<1>5. CASE \E w \in Worker : PopTaskStep(w)
  <2>1. PICK w \in Worker : PopTaskStep(w)
    BY <1>5
  <2>2. CoreInv'
    BY <2>1, WorkerPopTaskInv DEF PopTaskStep
  <2>3. UNCHANGED <<task_counter, sync_lock>>
    BY <2>1 DEF PopTaskStep, WorkerPopTask, id_vars
  <2>4. PlanTypes'
    <3>1. calls' \in [Worker -> Nat]
      <4>1. 0 \in Nat
        BY SMTT(30)
      <4> QED
        BY <2>1, <4>1 DEF PopTaskStep, PlanTypes
    <3> QED
      BY <2>1, <3>1 DEF PopTaskStep, PlanTypes, body_vars, plan_vars
  <2> QED
    BY <2>2, <2>3, <2>4 DEF PlanInv, Over
<1> QED
  BY <1>2, <1>3, <1>4, <1>5

\* The invariant of a query on the scheduler, for every plan.
THEOREM PlanInvariance == QuerySpec => []PlanInv
<1>1. PlanInv /\ [QueryNext]_all_vars => PlanInv'
  BY QueryNextInv, OverNextInv DEF PlanInv
<1> QED
  BY <1>1, PlanInitInv, PTL DEF QuerySpec

------------------------------------------------------------------------------
(* The theorems *)

\* ExecutionPlan: no task of a consumer runs before every task of its producers has
\* returned, for every plan and whatever the operators add.
THEOREM ProducersFirstHolds == QuerySpec => []ProducersFirst
BY PlanInvariance, ProducersFirstFollows, PTL

\* The second task of the chain materializes the result, and releases the client's
\* lock, after every operator with all its tasks and the exit task.
THEOREM ResultCompleteHolds == QuerySpec => []ResultComplete
BY PlanInvariance, ResultCompleteFollows, PTL

\* The plan builds its graph while it runs and fires c_enter from a worker; still no
\* task starts before what it waits for, no worker is lost, and every task has one
\* owner and runs at most once.
THEOREM QueryKeepsScheduler ==
  QuerySpec => [](DependenciesFirst /\ WorkersConserved /\ TasksConserved)
<1>1. PlanInv => DependenciesFirst /\ WorkersConserved /\ TasksConserved
  BY DependenciesFirstFollows DEF PlanInv, CoreInv
<1> QED
  BY <1>1, PlanInvariance, PTL

==============================================================================
