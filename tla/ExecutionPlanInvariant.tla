------------------------- MODULE ExecutionPlanInvariant ----------------------
(***************************************************************************)
(* A query on the scheduler: the invariant that connects the plan with the   *)
(* node table, what it says, and the steps of all tasks but the plan's own   *)
(* and those that the operators add.                                         *)
(***************************************************************************)
EXTENDS ExecutionPlan, SchedulerProofs

\* The ids that allocateTaskID gives to the tasks of a query, in the order in
\* which they are added.
ChainTask       == 1
SecondTask      == 2
FirstTask       == 3
SpawnerTask     == 4
PlanTask        == 5
OperatorTask(o) == 6 + o
ExitTask        == 6 + NumOperators

\* The continuation of the chain: what the second task waits for.
ChainContinuation == kContinuationMask + 1

RoleOf(t) ==
  IF t = ChainTask THEN "chain" ELSE IF t = SecondTask THEN "second"
  ELSE IF t = FirstTask THEN "first" ELSE IF t = SpawnerTask THEN "spawner"
  ELSE IF t = PlanTask THEN "plan" ELSE IF t < ExitTask THEN "operator"
  ELSE IF t = ExitTask THEN "exit" ELSE "batch"

\* The types of what the query adds to the scheduler's state.
PlanTypes ==
  /\ plan_links \in SUBSET (Operator \X Operator)
  /\ role \in [TaskID -> Role]
  /\ op_of \in [TaskID -> Operator \cup {NoOperator}]
  /\ calls \in [Worker -> Nat]
  /\ c_enter \in Continuation \cup {0} /\ c_exit \in Continuation \cup {0}
  /\ c_operators \in [Operator -> Continuation \cup {0}]
  /\ task_ids \in [Operator -> TaskID \cup {0}]
  /\ op_linked \in SUBSET Operator /\ links_left \in SUBSET plan_links
  /\ plan_fire \in {"before", "during", "after"}
  /\ sync_lock \in {"free", "held", "released"}

\* What the code of the tasks is.
RoleInv ==
  /\ \A t \in TaskID : t < task_counter => role[t] = RoleOf(t)
  /\ ChainTask \in TaskID => op_of[ChainTask] = NoOperator
  /\ \A t \in TaskID : t < task_counter /\ t < OperatorTask(0) => op_of[t] = NoOperator
  /\ \A o \in Operator : OperatorTask(o) < task_counter => op_of[OperatorTask(o)] = o
  /\ ExitTask < task_counter => op_of[ExitTask] = NoOperator
  /\ \A t \in TaskID : t < task_counter /\ ExitTask < t => op_of[t] \in Operator

\* How far the tasks of the query have come.
StageInv ==
  /\ ~Started(ChainTask) => task_counter <= SecondTask
  /\ ~Started(FirstTask) => task_counter <= SpawnerTask
  /\ ~Started(SpawnerTask) => task_counter <= PlanTask
  /\ ~Started(PlanTask) => task_counter <= OperatorTask(0) /\ c_enter = 0
  /\ ChainTask \in finished => task_counter > FirstTask
  /\ FirstTask \in finished => task_counter > SpawnerTask
  /\ SpawnerTask \in finished => task_counter > PlanTask
  /\ PlanTask \in finished => plan_fire = "after"
  /\ \A w \in Worker :
       /\ running[w] = ChainTask =>
            \/ calls[w] < 2 /\ task_counter = SecondTask + calls[w]
            \/ calls[w] = 2 /\ task_counter > FirstTask
       /\ running[w] = FirstTask =>
            \/ calls[w] = 0 /\ task_counter = SpawnerTask
            \/ calls[w] = 1 /\ task_counter > SpawnerTask
       /\ running[w] = SpawnerTask =>
            \/ calls[w] = 0 /\ task_counter = PlanTask
            \/ calls[w] = 1 /\ task_counter > PlanTask
       /\ running[w] = PlanTask =>
            IF plan_fire = "before" THEN task_counter = OperatorTask(calls[w])
                                    ELSE calls[w] = NumOperators + 1
  /\ plan_fire = "before" => task_counter <= ExitTask + 1
  /\ plan_fire # "before" => task_counter > ExitTask /\ c_enter # 0
  /\ task_counter > OperatorTask(0) => c_enter # 0
  /\ nodes_mutex \in Worker => running[nodes_mutex] = PlanTask /\ plan_fire = "during"
  /\ task_counter <= SecondTask => continuation_counter = ChainContinuation
  /\ main_pc = "joining" => sync_lock = "released"

\* What the node table was told.
LinksInv ==
  /\ task_counter > SecondTask => <<ChainContinuation, SecondTask>> \in links
  /\ \A t \in {FirstTask, SpawnerTask, PlanTask, ExitTask} :
       t < task_counter => continuation[t] = ChainContinuation
  /\ ChainTask < task_counter => continuation[ChainTask] = 0
  /\ c_enter # 0 => c_exit # 0 /\ c_exit # c_enter /\ Allocated(c_enter) /\ Allocated(c_exit)
  /\ \A o \in Operator : OperatorTask(o) < task_counter =>
       /\ task_ids[o] = OperatorTask(o)
       /\ c_operators[o] # 0 /\ Allocated(c_operators[o])
       /\ continuation[OperatorTask(o)] = c_operators[o]
       /\ <<c_enter, OperatorTask(o)>> \in links
  /\ \A o \in op_linked : OperatorTask(o) < task_counter /\ <<c_operators[o], c_exit>> \in links
  /\ \A e \in plan_links \ links_left :
       op_linked = Operator /\ <<c_operators[e[1]], OperatorTask(e[2])>> \in links
  /\ ExitTask < task_counter =>
       op_linked = Operator /\ links_left = {} /\ <<c_exit, ExitTask>> \in links

\* Until the plan fires c_enter, nothing below it can happen.
BeforeInv ==
  /\ plan_fire = "before" /\ c_enter # 0 =>
       /\ c_enter \notin retired /\ c_exit \notin retired
       /\ \A e \in links :
            /\ e[2] # c_enter
            /\ e[2] = c_exit =>
                 \E o \in Operator : OperatorTask(o) < task_counter /\ e[1] = c_operators[o]
  /\ plan_fire = "before" =>
       \A w \in Worker : Building(w) => running[w] = ChainTask /\ calls[w] = 1
  /\ \A w \in Worker : running[w] = ChainTask /\ calls[w] = 1 =>
       c_dependent[w] = ChainContinuation

\* c is passed only after what operator o has added so far: it is the continuation
\* of o, or a task of o waits for it.
Guards(c, o) ==
  \/ c = c_operators[o]
  \/ \E u \in TaskID : u < task_counter /\ op_of[u] = o /\ <<c, u>> \in links

\* The tasks that operators add.
BatchInv ==
  /\ \A t \in TaskID : t < task_counter /\ ExitTask < t =>
       /\ Started(OperatorTask(op_of[t]))
       /\ \/ continuation[t] = c_operators[op_of[t]]
          \/ \E u \in TaskID : u < t /\ op_of[u] = op_of[t] /\ <<continuation[t], u>> \in links
  /\ \A w \in Worker : running[w] # 0 /\ op_of[running[w]] \in Operator =>
       Guards(c_dependent[w], op_of[running[w]])

\* The query is over: join() has cleared the scheduler.
Over == sync_lock = "released" /\ task_counter = 1

\* The invariant of a query that is not over.
QueryInv == RoleInv /\ StageInv /\ LinksInv /\ BeforeInv /\ BatchInv

PlanInv == CoreInv /\ PlanTypes /\ (Over \/ QueryInv)

\* Leaves are first-order; the ones that need arithmetic or functions cite SMT.
USE ZenonT(60)

------------------------------------------------------------------------------
(* Ids *)

\* Task ids are positive numbers.
LEMMA TaskIDs == \A t \in TaskID : t # 0 /\ t \in Nat
BY SMTT(30) DEF TaskID

\* The numbers below the counter are the ids that were given away.
LEMMA BelowCounter ==
  ASSUME TypeOK, NEW t \in Nat, t # 0, t < task_counter
  PROVE  t \in TaskID
<1>1. task_counter \in 1 .. kContinuationMask
  BY DEF TypeOK
<1> QED
  BY SchedulerAssumption, <1>1, SMTT(30) DEF TaskID

\* The ids of the operators' tasks.
LEMMA OperatorIds == \A o \in Operator : OperatorTask(o) \in Nat /\ OperatorTask(o) # 0
BY PlanAssumption, SMTT(30) DEF OperatorTask, Operator

\* The ids of the other tasks.
LEMMA StageIds ==
  /\ FirstTask \in Nat /\ SpawnerTask \in Nat /\ PlanTask \in Nat /\ ExitTask \in Nat
  /\ FirstTask # 0 /\ SpawnerTask # 0 /\ PlanTask # 0 /\ ExitTask # 0
  /\ SecondTask + 0 = SecondTask /\ 0 < 2 /\ 5 # 1 /\ 5 # 3 /\ 5 # 4
BY PlanAssumption, SMTT(30) DEF SecondTask, FirstTask, SpawnerTask, PlanTask, ExitTask

------------------------------------------------------------------------------
(* What started, and what that says *)

\* Only tasks that were added are started.
LEMMA StartedTask ==
  ASSUME CoreInv, NEW t, t # 0, Started(t)
  PROVE  t \in TaskID /\ t < task_counter
<1> USE DEF CoreInv
<1>1. t \in TaskID
  BY DEF Started, TypeOK
<1>2. IsRunning(t) \/ t \in finished
  BY DEF Started, IsRunning
<1> QED
  BY <1>1, <1>2 DEF TasksConserved

\* A running task was added and has not returned.
LEMMA RunningTask ==
  ASSUME CoreInv, NEW w \in Worker, running[w] # 0
  PROVE  /\ running[w] \in TaskID /\ running[w] < task_counter
         /\ running[w] \notin finished /\ Started(running[w])
         /\ \A v \in Worker : running[v] = running[w] => v = w
<1> USE DEF CoreInv
<1>1. running[w] \in TaskID /\ IsRunning(running[w]) /\ Started(running[w])
  BY DEF Started, TypeOK, IsRunning
<1> QED
  BY <1>1 DEF TasksConserved

\* What a node waited for is over when the node is.
LEMMA EdgeOver ==
  ASSUME CoreInv, NEW m, NEW n, <<m, n>> \in links,
         \/ n \in TaskID /\ Started(n)
         \/ n \in Continuation /\ n \in retired
  PROVE  m \in retired /\ (m \in TaskID => m \in finished)
<1>1. n \in TaskID => IsTaskID(n)
  BY SchedulerAssumption, SMTT(30) DEF IsTaskID, TaskID
<1>2. n \in Continuation => ~IsTaskID(n)
  BY SchedulerAssumption, SMTT(30) DEF IsTaskID, Continuation
<1>3. m \in TaskID => IsTaskID(m)
  BY SchedulerAssumption, SMTT(30) DEF IsTaskID, TaskID
<1> QED
  BY <1>1, <1>2, <1>3, DependenciesFirstFollows DEF DependenciesFirst

\* Nobody runs a task once the query is over.
LEMMA OverIdle ==
  ASSUME CoreInv, Over
  PROVE  \A w \in Worker : running[w] = 0
<1> SUFFICES ASSUME NEW w \in Worker, running[w] # 0 PROVE FALSE
  OBVIOUS
<1>1. running[w] \in TaskID /\ running[w] < task_counter
  BY RunningTask
<1> QED
  BY <1>1, SMTT(30) DEF Over, TaskID

\* Before the plan fires c_enter, only the first five tasks run.
LEMMA BeforeRuns ==
  ASSUME CoreInv, QueryInv, plan_fire = "before", NEW w \in Worker, running[w] # 0
  PROVE  /\ running[w] \in {ChainTask, SecondTask, FirstTask, SpawnerTask, PlanTask}
         /\ op_of[running[w]] = NoOperator
<1> USE DEF QueryInv
<1> DEFINE r == running[w]
<1>0. task_counter \in Nat
  BY SchedulerAssumption, SMTT(30) DEF CoreInv, TypeOK
<1>1. r \in TaskID /\ r < task_counter /\ Started(r)
  BY RunningTask
<1>2. ASSUME NEW o \in Operator, r = OperatorTask(o) PROVE FALSE
  <2>1. <<c_enter, r>> \in links /\ c_enter # 0
    <3>1. OperatorTask(o) < task_counter
      BY <1>1, <1>2
    <3>2. task_counter > OperatorTask(0)
      BY <1>0, <3>1, PlanAssumption, SMTT(30) DEF OperatorTask, Operator
    <3> QED
      BY <1>2, <3>1, <3>2 DEF LinksInv, StageInv
  <2>2. c_enter \in retired
    BY <1>1, <2>1, EdgeOver
  <2> QED
    BY <2>1, <2>2 DEF BeforeInv
<1>3. r # ExitTask
  <2> SUFFICES ASSUME r = ExitTask PROVE FALSE
    OBVIOUS
  <2>1. <<c_exit, r>> \in links /\ c_enter # 0
    <3>1. ExitTask < task_counter
      BY <1>1
    <3>2. task_counter > OperatorTask(0)
      BY <1>0, <3>1, PlanAssumption, SMTT(30) DEF OperatorTask, ExitTask
    <3> QED
      BY <3>1, <3>2 DEF LinksInv, StageInv
  <2>2. c_exit \in retired
    BY <1>1, <2>1, EdgeOver
  <2> QED
    BY <2>1, <2>2 DEF BeforeInv
<1>4. r \in 1 .. 5
  <2>0. task_counter <= ExitTask + 1
    BY DEF StageInv
  <2>1. r <= ExitTask
    BY <1>0, <1>1, <2>0, PlanAssumption, SMTT(30) DEF ExitTask, TaskID
  <2>2. r \in Nat /\ r # 0 /\ \A o \in Operator : r # OperatorTask(o)
    BY <1>1, <1>2, SMTT(30) DEF TaskID
  <2> QED
    BY <2>1, <2>2, <1>3, PlanAssumption, SMTT(30) DEF Operator, OperatorTask, ExitTask
<1>5. r \in {ChainTask, SecondTask, FirstTask, SpawnerTask, PlanTask}
  BY <1>4, SMTT(30) DEF ChainTask, SecondTask, FirstTask, SpawnerTask, PlanTask
<1> QED
  BY <1>1, <1>4, <1>5, SMTT(30) DEF RoleInv, OperatorTask

\* The code a worker runs tells which task it is.
LEMMA RunsRole ==
  ASSUME CoreInv, QueryInv, NEW w \in Worker
  PROVE  /\ Runs(w, "chain") => running[w] = ChainTask
         /\ Runs(w, "first") => running[w] = FirstTask
         /\ Runs(w, "spawner") => running[w] = SpawnerTask
         /\ Runs(w, "plan") => running[w] = PlanTask
         /\ Runs(w, "operator") \/ Runs(w, "batch") =>
              plan_fire # "before" /\ op_of[running[w]] \in Operator
<1> USE DEF QueryInv
<1>1. SUFFICES ASSUME running[w] # 0
               PROVE  LET r == running[w] IN
                      /\ role[r] = "chain" => r = ChainTask
                      /\ role[r] = "first" => r = FirstTask
                      /\ role[r] = "spawner" => r = SpawnerTask
                      /\ role[r] = "plan" => r = PlanTask
                      /\ role[r] \in {"operator", "batch"} =>
                           plan_fire # "before" /\ op_of[r] \in Operator
  BY DEF Runs
<1> DEFINE r == running[w]
<1>2. r \in TaskID /\ r < task_counter
  BY <1>1, RunningTask
<1>3. role[r] = RoleOf(r)
  BY <1>2 DEF RoleInv
<1>4. /\ role[r] = "chain" => r = ChainTask
      /\ role[r] = "first" => r = FirstTask
      /\ role[r] = "spawner" => r = SpawnerTask
      /\ role[r] = "plan" => r = PlanTask
      /\ role[r] \in {"operator", "batch"} =>
           r \notin {ChainTask, SecondTask, FirstTask, SpawnerTask, PlanTask} /\ r # ExitTask
  BY <1>3, PlanAssumption, SMTT(30)
     DEF RoleOf, ChainTask, SecondTask, FirstTask, SpawnerTask, PlanTask, ExitTask
<1>5. ASSUME role[r] \in {"operator", "batch"} PROVE op_of[r] \in Operator
  <2>1. CASE ExitTask < r
    BY <2>1, <1>2 DEF RoleInv
  <2>2. CASE ~(ExitTask < r)
    <3>1. r - 6 \in Operator /\ r = OperatorTask(r - 6)
      BY <1>2, <1>4, <1>5, <2>2, PlanAssumption, SMTT(30)
         DEF Operator, OperatorTask, TaskID, ChainTask, SecondTask, FirstTask, SpawnerTask,
             PlanTask, ExitTask
    <3> QED
      BY <3>1, <1>2 DEF RoleInv
  <2> QED
    BY <2>1, <2>2
<1>6. role[r] \in {"operator", "batch"} => plan_fire # "before"
  BY <1>1, <1>4, BeforeRuns
<1> QED
  BY <1>4, <1>5, <1>6

\* The continuation of a running task is still waiting, and no chain hangs from it.
LEMMA OwnContinuation ==
  ASSUME CoreInv, NEW w \in Worker, running[w] # 0
  PROVE  LET c == continuation[running[w]] IN
         /\ c = 0 \/ (c \in Continuation /\ Allocated(c) /\ c \notin retired)
         /\ \A v \in Worker : Building(v) => c_dependent[v] # c
<1> USE DEF CoreInv
<1> DEFINE r == running[w]
           c == continuation[r]
<1>1. r \in TaskID /\ r < task_counter /\ r \notin finished /\ TaskID \subseteq NodeID
  BY RunningTask DEF NodeID
<1>2. c \in Continuation \cup {0} /\ 0 \notin Continuation
  BY <1>1, NodeIDs DEF ChainInv, NodeID
<1>3. CASE c = 0
  BY <1>2, <1>3 DEF ChainInv
<1>4. CASE c # 0
  <2>1. <<r, c>> \in links
    BY <1>1, <1>4 DEF ChainInv
  <2>2. r \notin retired
    BY <1>1 DEF GraphInv
  <2>3. c \in dependents[r] /\ Allocated(c)
    BY <2>1, <2>2 DEF GraphInv
  <2>4. r \in Dependencies(c)
    BY <2>3, <1>1 DEF Dependencies
  <2>5. c \notin retired
    BY <2>4 DEF GraphInv
  <2>6. \A v \in Worker : Building(v) => c_dependent[v] # c
    BY <2>4 DEF ChainInv
  <2> QED
    BY <1>2, <1>4, <2>3, <2>5, <2>6
<1> QED
  BY <1>3, <1>4

\* A task of an operator waits, as what it adds does, for something that guards
\* the operator's continuation.
LEMMA OwnGuard ==
  ASSUME CoreInv, QueryInv, PlanTypes, NEW t \in TaskID, t < task_counter, op_of[t] \in Operator
  PROVE  Guards(continuation[t], op_of[t])
<1> USE DEF QueryInv
<1>1. CASE ExitTask < t
  <2>1. \A u \in TaskID : u < t => u < task_counter
    BY SchedulerAssumption, SMTT(30) DEF CoreInv, TypeOK, TaskID
  <2> QED
    BY <1>1, <2>1 DEF BatchInv, Guards
<1>2. CASE ~(ExitTask < t)
  <2>1. t - 6 \in Operator /\ t = OperatorTask(t - 6)
    <3>1. NoOperator \notin Operator
      BY PlanAssumption, SMTT(30) DEF NoOperator, Operator
    <3>2. t # ExitTask /\ ~(t < OperatorTask(0))
      BY <3>1 DEF RoleInv
    <3> QED
      BY <1>2, <3>2, PlanAssumption, SMTT(30) DEF Operator, OperatorTask, TaskID, ExitTask
  <2>2. op_of[t] = t - 6 /\ continuation[t] = c_operators[t - 6]
    BY <2>1 DEF RoleInv, LinksInv
  <2> QED
    BY <2>2 DEF Guards
<1> QED
  BY <1>1, <1>2

\* The operator of a task that was added has been started.
LEMMA OwnStarted ==
  ASSUME QueryInv, PlanTypes, NEW t \in TaskID, t < task_counter, op_of[t] \in Operator,
         Started(t)
  PROVE  Started(OperatorTask(op_of[t]))
<1> USE DEF QueryInv
<1>1. CASE ExitTask < t
  BY <1>1 DEF BatchInv
<1>2. CASE ~(ExitTask < t)
  <2>1. t - 6 \in Operator /\ t = OperatorTask(t - 6)
    <3>1. NoOperator \notin Operator
      BY PlanAssumption, SMTT(30) DEF NoOperator, Operator
    <3>2. t # ExitTask /\ ~(t < OperatorTask(0))
      BY <3>1 DEF RoleInv
    <3> QED
      BY <1>2, <3>2, PlanAssumption, SMTT(30) DEF Operator, OperatorTask, TaskID, ExitTask
  <2> QED
    BY <2>1 DEF RoleInv
<1> QED
  BY <1>1, <1>2

------------------------------------------------------------------------------
(* What the invariant says *)

\* A nonempty set of naturals has a least element.
LEMMA LeastElement ==
  ASSUME NEW S \in SUBSET Nat, S # {}
  PROVE  \E m \in S : \A x \in S : ~(x < m)
<1>1. PICK m \in S : \A x \in S : ~(<<x, m>> \in OpToRel(<, Nat))
  BY NatLessThanWellFounded, WFMin
<1> QED
  BY <1>1 DEF OpToRel

\* Everything an operator added is over when its continuation is passed.
LEMMA WorksOver ==
  ASSUME CoreInv, PlanTypes, QueryInv, NEW o \in Operator, OperatorTask(o) < task_counter,
         c_operators[o] \in retired
  PROVE  Works(o) # {} /\ Works(o) \subseteq finished
<1> USE DEF CoreInv, QueryInv
<1>1. Works(o) # {}
  <2>1. OperatorTask(o) \in TaskID
    BY OperatorIds, BelowCounter
  <2> QED
    BY <2>1 DEF Works, RoleInv
<1>2. ASSUME Works(o) \ finished # {} PROVE FALSE
  <2>1. Works(o) \ finished \in SUBSET Nat
    BY SMTT(30) DEF Works, TaskID
  <2>2. PICK u \in Works(o) \ finished : \A x \in Works(o) \ finished : ~(x < u)
    BY <1>2, <2>1, LeastElement
  <2> DEFINE c == continuation[u]
  <2>3. u \in TaskID /\ u < task_counter /\ op_of[u] = o /\ u \notin finished
    BY <2>2 DEF Works
  <2>4. c \in Continuation /\ c \in retired
    <3>1. c \in Continuation \cup {0}
      BY <2>3 DEF ChainInv
    <3>2. c_operators[o] # 0
      BY DEF LinksInv
    <3>3. CASE c = c_operators[o]
      BY <3>1, <3>2, <3>3
    <3>4. CASE c # c_operators[o]
      <4>1. PICK x \in TaskID : x < u /\ op_of[x] = o /\ <<c, x>> \in links
        <5>1. CASE ExitTask < u
          BY <2>3, <3>4, <5>1 DEF BatchInv
        <5>2. CASE ~(ExitTask < u)
          <6>1. NoOperator \notin Operator
            BY SMTT(30) DEF NoOperator, Operator
          <6>2. u # ExitTask /\ ~(u < OperatorTask(0))
            BY <2>3, <6>1 DEF RoleInv
          <6>3. u - 6 \in Operator /\ u = OperatorTask(u - 6)
            BY PlanAssumption, SchedulerAssumption, <2>3, <5>2, <6>2, SMTT(30) DEF Operator, OperatorTask, TaskID, ExitTask
          <6>4. u - 6 = o
            BY <2>3, <6>3 DEF RoleInv
          <6> QED
            BY <3>4, <6>3, <6>4 DEF LinksInv
        <5> QED
          BY <5>1, <5>2
      <4>2. x \in Works(o)
        <5>1. x < task_counter
          BY <2>3, <4>1, SMTT(30) DEF TaskID, TypeOK
        <5> QED
          BY <4>1, <5>1 DEF Works
      <4>3. x \in finished
        BY <2>2, <4>1, <4>2
      <4>4. c \in retired
        BY <4>1, <4>3, EdgeOver DEF Started
      <4>5. c # 0
        BY <4>1, NodeIDs DEF TypeOK
      <4> QED
        BY <3>1, <4>4, <4>5
    <3> QED
      BY <3>3, <3>4
  <2>5. <<u, c>> \in links
    <3>1. c # 0
      BY <2>4, NodeIDs DEF NodeID
    <3> QED
      BY <2>3, <3>1 DEF ChainInv
  <2> QED
    BY <2>3, <2>4, <2>5, EdgeOver
<1> QED
  BY <1>1, <1>2

\* No task of a consumer runs before its producers are done.
LEMMA ProducersFirstFollows == PlanInv => ProducersFirst
<1> SUFFICES ASSUME PlanInv, NEW e \in plan_links, NEW t \in Works(e[2]), Started(t)
             PROVE  Works(e[1]) # {} /\ Works(e[1]) \subseteq finished
  BY DEF ProducersFirst
<1> USE DEF PlanInv
<1> DEFINE p == e[1]
           q == e[2]
<1>1. /\ t \in TaskID /\ t < task_counter /\ op_of[t] = q
      /\ p \in Operator /\ q \in Operator
  BY DEF Works, PlanTypes
<1>2. QueryInv
  BY <1>1, SMTT(30) DEF Over, TaskID
<1> USE DEF QueryInv
<1>3. Started(OperatorTask(q)) /\ OperatorTask(q) \in TaskID /\ OperatorTask(q) < task_counter
  <2>1. OperatorTask(q) # 0
    BY <1>1, SMTT(30) DEF OperatorTask, Operator
  <2>2. Started(OperatorTask(q))
    BY <1>1, <1>2, OwnStarted
  <2> QED
    BY <2>1, <2>2, StartedTask
<1>4. c_enter \in retired /\ c_enter # 0
  <2>1. <<c_enter, OperatorTask(q)>> \in links
    BY <1>1, <1>2, <1>3 DEF LinksInv
  <2>2. task_counter > OperatorTask(0)
    BY <1>1, <1>3, SMTT(30) DEF OperatorTask, Operator, CoreInv, TypeOK
  <2> QED
    BY <1>2, <1>3, <2>1, <2>2, EdgeOver DEF StageInv
<1>5. plan_fire # "before"
  BY <1>2, <1>4 DEF BeforeInv
<1>6. op_linked = Operator /\ links_left = {}
  <2>1. ExitTask < task_counter
    <3>1. task_counter > ExitTask
      BY <1>2, <1>5 DEF StageInv
    <3>2. task_counter \in Nat
      BY SMTT(30) DEF CoreInv, TypeOK
    <3> QED
      BY <3>1, <3>2, SMTT(30) DEF ExitTask
  <2> QED
    BY <1>2, <2>1 DEF LinksInv
<1>7. OperatorTask(p) < task_counter /\ <<c_operators[p], OperatorTask(q)>> \in links
  BY <1>1, <1>2, <1>6 DEF LinksInv
<1>8. c_operators[p] \in retired
  BY <1>3, <1>7, EdgeOver
<1> QED
  BY <1>1, <1>2, <1>7, <1>8, WorksOver

\* The result is materialized after every operator and the exit task.
LEMMA ResultCompleteFollows == PlanInv => ResultComplete
<1> SUFFICES ASSUME PlanInv, NEW t \in TaskID, t < task_counter, role[t] = "second", Started(t)
             PROVE  /\ \A o \in Operator : Works(o) # {} /\ Works(o) \subseteq finished
                    /\ \E u \in finished : role[u] = "exit"
  BY DEF ResultComplete
<1> USE DEF PlanInv, CoreInv
<1>1. QueryInv
  BY SMTT(30) DEF Over, TaskID
<1> USE DEF QueryInv
<1>2. t = SecondTask /\ task_counter > SecondTask /\ task_counter \in Nat
  <2>1. RoleOf(t) = "second"
    BY <1>1 DEF RoleInv
  <2> QED
    BY <2>1, SMTT(30) DEF RoleOf, SecondTask, ChainTask, FirstTask, SpawnerTask, PlanTask, TypeOK
<1>3. ChainContinuation \in retired /\ ChainContinuation \in Continuation /\ ChainContinuation # 0
  <2>1. <<ChainContinuation, SecondTask>> \in links
    BY <1>1, <1>2 DEF LinksInv
  <2>2. ChainContinuation \in retired
    BY <1>2, <2>1, EdgeOver
  <2>3. ChainContinuation \in NodeID
    BY <2>1 DEF TypeOK
  <2>4. ChainContinuation \notin TaskID /\ ChainContinuation # 0
    BY SchedulerAssumption, SMTT(30) DEF ChainContinuation, TaskID
  <2> QED
    BY <2>2, <2>3, <2>4 DEF NodeID
<1>4. \A x \in {FirstTask, SpawnerTask, PlanTask, ExitTask} : x < task_counter =>
        x \in TaskID /\ x \in finished
  <2> TAKE x \in {FirstTask, SpawnerTask, PlanTask, ExitTask}
  <2> HAVE x < task_counter
  <2>1. x \in TaskID
    BY <1>2, StageIds, BelowCounter
  <2>2. continuation[x] = ChainContinuation
    BY <1>1 DEF LinksInv
  <2>3. <<x, ChainContinuation>> \in links
    BY <1>3, <2>1, <2>2 DEF ChainInv
  <2> QED
    BY <1>3, <2>1, <2>3, EdgeOver
<1>5. FirstTask < task_counter
  <2> SUFFICES ASSUME ~(FirstTask < task_counter) PROVE FALSE
    OBVIOUS
  <2>1. task_counter = 3
    BY <1>2, SMTT(30) DEF FirstTask, SecondTask
  <2>2. Started(ChainTask) /\ ChainTask \notin finished
    <3>1. ~(task_counter <= SecondTask) /\ ~(task_counter > FirstTask)
      BY <2>1, SMTT(30) DEF SecondTask, FirstTask
    <3> QED
      BY <1>1, <3>1 DEF StageInv
  <2>3. PICK w \in Worker : running[w] = ChainTask
    BY <2>2 DEF Started
  <2>4. calls[w] = 1
    <3>1. \/ calls[w] < 2 /\ task_counter = SecondTask + calls[w]
          \/ calls[w] = 2 /\ task_counter > FirstTask
      BY <1>1, <2>3 DEF StageInv
    <3>2. calls[w] \in Nat
      BY DEF PlanTypes
    <3> QED
      BY <2>1, <3>1, <3>2, SMTT(30) DEF SecondTask, FirstTask
  <2>5. c_dependent[w] = ChainContinuation
    BY <1>1, <2>3, <2>4 DEF BeforeInv
  <2>6. continuation[ChainTask] = 0 /\ ChainTask # 0
    <3>1. ChainTask < task_counter /\ ChainTask # 0
      BY <2>1, SMTT(30) DEF ChainTask
    <3> QED
      BY <1>1, <3>1 DEF LinksInv
  <2>7. Building(w)
    BY <1>3, <2>3, <2>5, <2>6 DEF Building
  <2> QED
    BY <1>3, <2>5, <2>7 DEF ChainInv
<1>6. SpawnerTask < task_counter
  <2>1. task_counter > SpawnerTask
    BY <1>1, <1>4, <1>5 DEF StageInv
  <2> QED
    BY <1>2, <2>1, SMTT(30) DEF SpawnerTask
<1>7. PlanTask < task_counter
  <2>1. task_counter > PlanTask
    BY <1>1, <1>4, <1>6 DEF StageInv
  <2> QED
    BY <1>2, <2>1, SMTT(30) DEF PlanTask
<1>8. ExitTask < task_counter
  <2>1. plan_fire = "after"
    BY <1>1, <1>4, <1>7 DEF StageInv
  <2> QED
    <3>1. task_counter > ExitTask
      BY <1>1, <2>1 DEF StageInv
    <3> QED
      BY <1>2, <3>1, SMTT(30) DEF ExitTask
<1>9. ExitTask \in TaskID /\ ExitTask \in finished
  BY <1>4, <1>8
<1>10. role[ExitTask] = "exit"
  <2>1. RoleOf(ExitTask) = "exit"
    BY PlanAssumption, SMTT(30) DEF RoleOf, ChainTask, SecondTask, FirstTask, SpawnerTask, PlanTask, ExitTask
  <2> QED
    BY <1>1, <1>8, <1>9, <2>1 DEF RoleInv
<1>11. c_exit \in retired /\ c_exit \in Continuation
  <2>1. <<c_exit, ExitTask>> \in links
    BY <1>1, <1>8 DEF LinksInv
  <2>2. c_exit \in NodeID
    BY <2>1 DEF TypeOK
  <2>3. c_exit # 0
    BY <2>2, NodeIDs
  <2> QED
    BY <1>9, <2>1, <2>3, EdgeOver DEF Started, PlanTypes
<1>12. ASSUME NEW o \in Operator PROVE Works(o) # {} /\ Works(o) \subseteq finished
  <2>1. OperatorTask(o) < task_counter /\ <<c_operators[o], c_exit>> \in links
    BY <1>1, <1>8 DEF LinksInv
  <2>2. c_operators[o] \in retired
    BY <1>11, <2>1, EdgeOver
  <2> QED
    BY <1>1, <2>1, <2>2, WorksOver
<1> QED
  BY <1>9, <1>10, <1>12

------------------------------------------------------------------------------
(* Steps that add no task *)

\* Steps that leave tasks, edges and the query alone.
LEMMA QuietFrame ==
  ASSUME QueryInv,
         UNCHANGED <<task_counter, continuation_counter, continuation, links, running,
                     c_dependent, finished>>,
         UNCHANGED query_vars,
         nodes_mutex' = nodes_mutex \/ nodes_mutex' \notin Worker,
         main_pc' = main_pc \/ sync_lock = "released",
         plan_fire = "before" /\ c_enter # 0 => c_enter \notin retired' /\ c_exit \notin retired'
  PROVE  QueryInv'
<1> USE DEF QueryInv
<1>1. UNCHANGED <<plan_links, role, op_of, calls, c_enter, c_exit, c_operators, task_ids, op_linked,
                  links_left, plan_fire, sync_lock>>
  BY DEF query_vars, body_vars, plan_vars
<1>2. /\ \A t : Started(t)' <=> Started(t)
      /\ \A w : Building(w)' <=> Building(w)
      /\ \A n : Allocated(n)' <=> Allocated(n)
      /\ \A c, o : Guards(c, o)' <=> Guards(c, o)
  BY <1>1 DEF Started, Building, Allocated, Guards
<1>3. RoleInv'
  BY <1>1 DEF RoleInv
<1>4. StageInv'
  BY <1>1, <1>2 DEF StageInv
<1>5. LinksInv'
  BY <1>1, <1>2 DEF LinksInv
<1>6. BeforeInv'
  BY <1>1, <1>2 DEF BeforeInv
<1>7. BatchInv'
  BY <1>1, <1>2 DEF BatchInv
<1> QED
  BY <1>3, <1>4, <1>5, <1>6, <1>7

\* Before the plan fires c_enter, neither c_enter nor c_exit is passed by others.
LEMMA QuietRetire ==
  ASSUME CoreInv, PlanTypes, QueryInv, NEW thr, ProcessDependent(thr) \/ PopCompletion,
         plan_fire = "before", c_enter # 0
  PROVE  c_enter \notin retired' /\ c_exit \notin retired'
<1> USE DEF CoreInv, QueryInv
<1>1. /\ c_enter \notin retired /\ c_exit \notin retired
      /\ c_enter \in Continuation /\ c_exit \in Continuation
  BY DEF BeforeInv, LinksInv, PlanTypes
<1>2. CASE PopCompletion
  <2>1. scheduler_msg_queue \in Seq(SchedulerMessage) /\ scheduler_msg_queue # << >>
    BY <1>2 DEF PopCompletion, TypeOK
  <2>2. /\ 1 \in DOMAIN scheduler_msg_queue
        /\ Head(scheduler_msg_queue) = scheduler_msg_queue[1]
    BY <2>1, SMTT(30)
  <2>3. Head(scheduler_msg_queue).task \in finished
    BY <1>2, <2>2 DEF PopCompletion, ControlInv
  <2>4. Head(scheduler_msg_queue).task \in TaskID
    BY <2>3 DEF TypeOK
  <2>5. retired' = retired \cup {Head(scheduler_msg_queue).task}
    BY <1>2 DEF PopCompletion, StartRetiring
  <2> QED
    BY <1>1, <2>4, <2>5, NodeIDs
<1>3. CASE ProcessDependent(thr)
  <2> DEFINE node == retiring[Len(retiring)]
  <2>1. PICK d \in dependents[node] : retired' \subseteq retired \cup {d}
    BY <1>3 DEF ProcessDependent
  <2>2. node \in NodeID /\ node \in retired
    <3>1. retiring \in Seq(NodeID) /\ retiring # << >>
      BY <1>3 DEF ProcessDependent, TypeOK
    <3> QED
      BY <3>1, FrontElements, SMTT(30) DEF GraphInv
  <2>3. <<node, d>> \in links
    BY <2>2 DEF GraphInv
  <2>4. d # c_enter
    BY <2>3 DEF BeforeInv
  <2>5. d # c_exit
    <3> SUFFICES ASSUME d = c_exit PROVE FALSE
      OBVIOUS
    <3>1. PICK o \in Operator : OperatorTask(o) < task_counter /\ node = c_operators[o]
      BY <2>3 DEF BeforeInv
    <3>a. OperatorTask(o) \in TaskID
      BY <3>1, OperatorIds, BelowCounter
    <3>2. /\ continuation[OperatorTask(o)] = node /\ node # 0
          /\ <<c_enter, OperatorTask(o)>> \in links /\ OperatorTask(o) \in TaskID
      BY <3>1, <3>a DEF LinksInv
    <3>3. <<OperatorTask(o), node>> \in links /\ node \in Continuation
      BY <3>1, <3>2 DEF ChainInv
    <3>4. OperatorTask(o) \in finished
      BY <2>2, <3>2, <3>3, EdgeOver
    <3>5. c_enter \in retired
      BY <3>2, <3>4, EdgeOver DEF Started
    <3> QED
      BY <1>1, <3>5
  <2> QED
    BY <1>1, <2>1, <2>4, <2>5
<1> QED
  BY <1>2, <1>3

\* Steps of the scheduler thread, and the rest of addTask, in a query.
LEMMA QuietInv ==
  ASSUME CoreInv, PlanTypes, QueryInv, UNCHANGED query_vars,
         \/ SchedulerStep
         \/ \E thr \in Thread : CallStep(thr)
         \/ Start
         \/ sync_lock = "released" /\ Join
         \/ \E w \in Worker : WorkerPopJoin(w) \/ Park(w)
         \/ \E w \in Worker : RetireStep(w)
         \/ UNCHANGED vars
  PROVE  QueryInv'
<1> DEFINE safe == plan_fire = "before" /\ c_enter # 0 =>
                     c_enter \notin retired' /\ c_exit \notin retired'
           kept == UNCHANGED <<task_counter, continuation_counter, continuation, links, running,
                               c_dependent, finished>>
<1>1. safe \/ retired' # retired
  BY DEF QueryInv, BeforeInv
<1>2. ASSUME SchedulerStep PROVE QueryInv'
  <2>1. kept /\ UNCHANGED main_pc
    BY <1>2 DEF SchedulerStep, CallStep, RetireStep, Dispatch, DispatchEnd, CheckHalt, PopSignal,
       PopCompletion, FreeWorker, StopWorkers, JoinWorkers, Enqueue, Notify, ProcessDependent,
       EraseNode, id_vars, worker_vars, history_vars
  <2>2. nodes_mutex' = nodes_mutex \/ nodes_mutex' \notin Worker
    BY <1>2, Threads DEF SchedulerStep, CallStep, RetireStep, Dispatch, DispatchEnd, CheckHalt,
       PopSignal, PopCompletion, StartRetiring, FreeWorker, StopWorkers, JoinWorkers, Enqueue,
       Notify, ProcessDependent, EraseNode, retire_vars
  <2>3. \/ retired' = retired \/ PopCompletion \/ ProcessDependent(SchedulerThread)
    BY <1>2 DEF SchedulerStep, CallStep, RetireStep, Dispatch, DispatchEnd, CheckHalt, PopSignal,
       FreeWorker, StopWorkers, JoinWorkers, Enqueue, Notify, EraseNode, history_vars
  <2>4. safe
    BY <1>1, <2>3, QuietRetire
  <2> QED
    BY <2>1, <2>2, <2>4, QuietFrame
<1>3. ASSUME NEW thr \in Thread, CallStep(thr) PROVE QueryInv'
  <2>1. kept /\ UNCHANGED <<main_pc, nodes_mutex, retired>>
    BY <1>3 DEF CallStep, Enqueue, Notify, id_vars, worker_vars, history_vars, retire_vars
  <2> QED
    BY <1>1, <2>1, QuietFrame
<1>4. ASSUME Start \/ (sync_lock = "released" /\ Join) PROVE QueryInv'
  <2>1. kept /\ UNCHANGED <<nodes_mutex, retired>>
    BY <1>4 DEF Start, Join, id_vars, worker_vars, history_vars, retire_vars
  <2>2. main_pc' = main_pc \/ sync_lock = "released"
    BY <1>4 DEF Start
  <2> QED
    BY <1>1, <2>1, <2>2, QuietFrame
<1>5. ASSUME NEW w \in Worker, WorkerPopJoin(w) \/ Park(w) PROVE QueryInv'
  <2>1. kept /\ UNCHANGED <<main_pc, nodes_mutex, retired>>
    BY <1>5 DEF WorkerPopJoin, Park, id_vars, worker_vars, history_vars, retire_vars
  <2> QED
    BY <1>1, <2>1, QuietFrame
<1>6. ASSUME NEW w \in Worker, RetireStep(w) PROVE QueryInv'
  <2>1. kept /\ UNCHANGED <<main_pc, nodes_mutex>>
    BY <1>6 DEF RetireStep, ProcessDependent, EraseNode, id_vars, worker_vars, history_vars
  <2>2. retired' = retired \/ ProcessDependent(w)
    BY <1>6 DEF RetireStep, EraseNode, history_vars
  <2>3. safe
    BY <1>1, <2>2, QuietRetire
  <2> QED
    BY <2>1, <2>3, QuietFrame
<1>7. ASSUME UNCHANGED vars PROVE QueryInv'
  <2>1. kept /\ UNCHANGED <<main_pc, nodes_mutex, retired>>
    BY <1>7 DEF vars, id_vars, worker_vars, history_vars, retire_vars
  <2> QED
    BY <1>1, <2>1, QuietFrame
<1> QED
  BY <1>2, <1>3, <1>4, <1>5, <1>6, <1>7

\* A worker starts a task of the query.
LEMMA PopTaskQuery ==
  ASSUME CoreInv, PlanTypes, QueryInv, NEW w \in Worker, PopTaskStep(w)
  PROVE  PlanTypes' /\ QueryInv'
<1> USE DEF CoreInv, QueryInv
<1> DEFINE r == Head(worker_msg_queue[w])
<1>1. /\ running' = [running EXCEPT ![w] = r]
      /\ c_dependent' = [c_dependent EXCEPT ![w] = continuation[r]]
      /\ calls' = [calls EXCEPT ![w] = 0]
      /\ r # WorkerJoin /\ worker_msg_queue[w] # << >> /\ worker_pc[w] = "idle"
      /\ UNCHANGED <<task_counter, continuation_counter, continuation, links, retired, finished,
                     nodes_mutex, main_pc, plan_links, role, op_of, c_enter, c_exit, c_operators,
                     task_ids, op_linked, links_left, plan_fire, sync_lock>>
  BY DEF PopTaskStep, WorkerPopTask, id_vars, history_vars, retire_vars, plan_vars, body_vars
<1>2. r \in TaskID /\ r < task_counter /\ r # 0 /\ ~Started(r) /\ running[w] = 0
  <2>1. worker_msg_queue[w] \in Seq(TaskID \cup {WorkerJoin})
    BY DEF TypeOK
  <2>2. r \in TaskID \cup {WorkerJoin} /\ r = worker_msg_queue[w][1] /\ 1 \in DOMAIN worker_msg_queue[w]
    BY <1>1, <2>1, SMTT(30)
  <2>3. r \in TaskID /\ Sent(r)
    BY <1>1, <2>2 DEF Sent
  <2>4. r # 0
    BY <2>3, TaskIDs
  <2>5. r < task_counter /\ ~IsRunning(r) /\ r \notin finished
    BY <2>3 DEF TasksConserved
  <2>6. running[w] = 0
    BY <1>1 DEF ControlInv
  <2> QED
    BY <2>3, <2>4, <2>5, <2>6 DEF Started, IsRunning
<1>3. /\ running'[w] = r /\ c_dependent'[w] = continuation[r] /\ calls'[w] = 0
      /\ \A v \in Worker : v # w => /\ running'[v] = running[v] /\ c_dependent'[v] = c_dependent[v]
                                    /\ calls'[v] = calls[v]
  BY <1>1 DEF TypeOK, PlanTypes
<1>4. \A t : t # 0 => (Started(t)' <=> Started(t) \/ t = r)
  BY <1>1, <1>2, <1>3 DEF Started
<1>5. \A v \in Worker : Building(v)' => v # w /\ Building(v)
  BY <1>1, <1>3 DEF Building
<1>6. PlanTypes'
  BY <1>1 DEF PlanTypes
<1>7. RoleInv'
  BY <1>1 DEF RoleInv
<1>8. StageInv'
  <2>1. /\ ~Started(ChainTask)' => task_counter <= SecondTask
        /\ ~Started(FirstTask)' => task_counter <= SpawnerTask
        /\ ~Started(SpawnerTask)' => task_counter <= PlanTask
        /\ ~Started(PlanTask)' => task_counter <= OperatorTask(0) /\ c_enter = 0
    BY <1>4, SMTT(30) DEF StageInv, ChainTask, FirstTask, SpawnerTask, PlanTask
  <2>2. /\ r = ChainTask => task_counter = SecondTask
        /\ r = FirstTask => task_counter = SpawnerTask
        /\ r = SpawnerTask => task_counter = PlanTask
        /\ r = PlanTask => task_counter = OperatorTask(0) /\ plan_fire = "before"
    BY <1>2, SMTT(30) DEF StageInv, TypeOK, ChainTask, SecondTask, FirstTask, SpawnerTask, PlanTask,
                     OperatorTask
  <2>3. /\ running'[w] = ChainTask => calls'[w] < 2 /\ task_counter = SecondTask + calls'[w]
        /\ running'[w] = FirstTask => calls'[w] = 0 /\ task_counter = SpawnerTask
        /\ running'[w] = SpawnerTask => calls'[w] = 0 /\ task_counter = PlanTask
        /\ running'[w] = PlanTask =>
             plan_fire = "before" /\ task_counter = OperatorTask(calls'[w])
    BY <1>3, <2>2, StageIds
  <2>4. nodes_mutex \in Worker => nodes_mutex # w
    BY <1>2, SMTT(30) DEF StageInv, PlanTask
  <2>5. nodes_mutex \in Worker => running'[nodes_mutex] = PlanTask /\ plan_fire = "during"
    BY <1>3, <2>4 DEF StageInv
  <2>6. \A v \in Worker :
          /\ running'[v] = ChainTask =>
               \/ calls'[v] < 2 /\ task_counter = SecondTask + calls'[v]
               \/ calls'[v] = 2 /\ task_counter > FirstTask
          /\ running'[v] = FirstTask =>
               \/ calls'[v] = 0 /\ task_counter = SpawnerTask
               \/ calls'[v] = 1 /\ task_counter > SpawnerTask
          /\ running'[v] = SpawnerTask =>
               \/ calls'[v] = 0 /\ task_counter = PlanTask
               \/ calls'[v] = 1 /\ task_counter > PlanTask
          /\ running'[v] = PlanTask =>
               IF plan_fire = "before" THEN task_counter = OperatorTask(calls'[v])
                                       ELSE calls'[v] = NumOperators + 1
    <3> TAKE v \in Worker
    <3>1. CASE v = w
      BY <3>1, <2>3
    <3>2. CASE v # w
      <4>1. running'[v] = running[v] /\ calls'[v] = calls[v]
        BY <3>2, <1>3
      <4> QED
        BY <4>1 DEF StageInv
    <3> QED
      BY <3>1, <3>2
  <2> QED
    BY <1>1, <2>1, <2>5, <2>6 DEF StageInv
<1>9. LinksInv'
  BY <1>1 DEF LinksInv, Allocated
<1>10. BeforeInv'
  <2>1. calls'[w] # 1
    BY <1>3, SMTT(30)
  <2> QED
    BY <1>1, <1>3, <1>5, <2>1 DEF BeforeInv
<1>11. BatchInv'
  <2>1. \A c, o : Guards(c, o)' <=> Guards(c, o)
    BY <1>1 DEF Guards
  <2>2. op_of[r] \in Operator => Guards(continuation[r], op_of[r])
    BY <1>2, OwnGuard
  <2>3. \A t \in TaskID : t < task_counter /\ ExitTask < t => Started(OperatorTask(op_of[t]))'
    <3> TAKE t \in TaskID
    <3> HAVE t < task_counter /\ ExitTask < t
    <3>1. PICK o \in Operator : o = op_of[t]
      BY DEF RoleInv
    <3>2. Started(OperatorTask(o)) /\ OperatorTask(o) # 0
      <4>1. OperatorTask(o) # 0
        BY PlanAssumption, SMTT(30) DEF Operator, OperatorTask
      <4> QED
        BY <3>1, <4>1 DEF BatchInv
    <3>3. Started(OperatorTask(o))'
      BY <1>4, <3>2
    <3>4. op_of'[t] = o
      BY <1>1, <3>1
    <3> QED
      BY <3>3, <3>4 DEF Started
  <2> QED
    BY <1>1, <1>3, <2>1, <2>2, <2>3 DEF BatchInv
<1> QED
  BY <1>6, <1>7, <1>8, <1>9, <1>10, <1>11

\* A task of the query returns.
LEMMA FinishQuery ==
  ASSUME CoreInv, PlanTypes, QueryInv, NEW w \in Worker, FinishStep(w)
  PROVE  PlanTypes' /\ QueryInv' /\ nodes_mutex # w
<1> USE DEF CoreInv, QueryInv
<1> DEFINE r == running[w]
<1>1. /\ running' = [running EXCEPT ![w] = 0]
      /\ c_dependent' = [c_dependent EXCEPT ![w] = 0]
      /\ finished' = finished \cup {r}
      /\ sync_lock' = "released" \/ sync_lock' = sync_lock
      /\ r # 0 /\ BodyDone(w)
      /\ UNCHANGED <<task_counter, continuation_counter, continuation, links, retired,
                     nodes_mutex, main_pc, plan_links, role, op_of, calls, c_enter, c_exit,
                     c_operators, task_ids, op_linked, links_left, plan_fire>>
  BY DEF FinishStep, FinishTask, id_vars, history_vars, retire_vars, plan_vars, body_vars
<1>2. /\ r \in TaskID /\ r < task_counter /\ role[r] = RoleOf(r)
      /\ \A v \in Worker : running[v] = r => v = w
  BY <1>1, RunningTask DEF RoleInv
<1>3. /\ running'[w] = 0 /\ c_dependent'[w] = 0
      /\ \A v \in Worker : v # w => running'[v] = running[v] /\ c_dependent'[v] = c_dependent[v]
  BY <1>1 DEF TypeOK
<1>4. \A t : t # 0 => (Started(t)' <=> Started(t))
  BY <1>1, <1>3 DEF Started
<1>5. \A v \in Worker : Building(v)' => v # w /\ Building(v)
  BY <1>1, <1>3 DEF Building
<1>6. /\ r = ChainTask => calls[w] = 2
      /\ r \in {FirstTask, SpawnerTask} => calls[w] = 1
      /\ r = PlanTask => plan_fire = "after"
  BY <1>1, <1>2, SMTT(30) DEF BodyDone, RoleOf, ChainTask, SecondTask, FirstTask, SpawnerTask, PlanTask
<1>7. nodes_mutex # w
  BY <1>6 DEF StageInv
<1>8. PlanTypes'
  BY <1>1 DEF PlanTypes
<1>9. RoleInv'
  BY <1>1 DEF RoleInv
<1>10. StageInv'
  <2>1. /\ ~Started(ChainTask)' => task_counter <= SecondTask
        /\ ~Started(FirstTask)' => task_counter <= SpawnerTask
        /\ ~Started(SpawnerTask)' => task_counter <= PlanTask
        /\ ~Started(PlanTask)' => task_counter <= OperatorTask(0) /\ c_enter = 0
    BY <1>4, SMTT(30) DEF StageInv, ChainTask, FirstTask, SpawnerTask, PlanTask
  <2>2. /\ r = ChainTask => task_counter > FirstTask
        /\ r = FirstTask => task_counter > SpawnerTask
        /\ r = SpawnerTask => task_counter > PlanTask
    BY <1>6, SMTT(30) DEF StageInv, FirstTask, SpawnerTask
  <2>3. /\ ChainTask \in finished' => task_counter > FirstTask
        /\ FirstTask \in finished' => task_counter > SpawnerTask
        /\ SpawnerTask \in finished' => task_counter > PlanTask
        /\ PlanTask \in finished' => plan_fire = "after"
    BY <1>1, <1>6, <2>2 DEF StageInv
  <2>4. running'[w] \notin {ChainTask, FirstTask, SpawnerTask, PlanTask}
    BY <1>3, SMTT(30) DEF ChainTask, FirstTask, SpawnerTask, PlanTask
  <2>5. nodes_mutex \in Worker => running'[nodes_mutex] = PlanTask /\ plan_fire = "during"
    BY <1>3, <1>7 DEF StageInv
  <2>6. \A v \in Worker :
          /\ running'[v] = ChainTask =>
               \/ calls[v] < 2 /\ task_counter = SecondTask + calls[v]
               \/ calls[v] = 2 /\ task_counter > FirstTask
          /\ running'[v] = FirstTask =>
               \/ calls[v] = 0 /\ task_counter = SpawnerTask
               \/ calls[v] = 1 /\ task_counter > SpawnerTask
          /\ running'[v] = SpawnerTask =>
               \/ calls[v] = 0 /\ task_counter = PlanTask
               \/ calls[v] = 1 /\ task_counter > PlanTask
          /\ running'[v] = PlanTask =>
               IF plan_fire = "before" THEN task_counter = OperatorTask(calls[v])
                                       ELSE calls[v] = NumOperators + 1
    BY <1>3, <2>4 DEF StageInv
  <2> QED
    BY <1>1, <2>1, <2>3, <2>5, <2>6 DEF StageInv
<1>11. LinksInv'
  BY <1>1 DEF LinksInv, Allocated
<1>12. BeforeInv'
  <2>1. running'[w] # ChainTask
    BY <1>3, SMTT(30) DEF ChainTask
  <2> QED
    BY <1>1, <1>3, <1>5, <2>1 DEF BeforeInv
<1>13. BatchInv'
  <2>1. \A c, o : Guards(c, o)' <=> Guards(c, o)
    BY <1>1 DEF Guards
  <2>2. \A t \in TaskID : t < task_counter /\ ExitTask < t => Started(OperatorTask(op_of[t]))'
    <3> TAKE t \in TaskID
    <3> HAVE t < task_counter /\ ExitTask < t
    <3>1. PICK o \in Operator : o = op_of[t]
      BY DEF RoleInv
    <3>2. Started(OperatorTask(o)) /\ OperatorTask(o) # 0
      <4>1. OperatorTask(o) # 0
        BY PlanAssumption, SMTT(30) DEF Operator, OperatorTask
      <4> QED
        BY <3>1, <4>1 DEF BatchInv
    <3>3. Started(OperatorTask(o))'
      BY <1>4, <3>2
    <3>4. op_of'[t] = o
      BY <1>1, <3>1
    <3> QED
      BY <3>3, <3>4 DEF Started
  <2> QED
    BY <1>1, <1>3, <2>1, <2>2 DEF BatchInv
<1> QED
  BY <1>7, <1>8, <1>9, <1>10, <1>11, <1>12, <1>13

------------------------------------------------------------------------------
(* Steps that add a task *)

\* What addTask changes: the new task, its continuation and its edges.
LEMMA AddTaskEffect ==
  ASSUME CoreInv, NEW thr \in Thread,
         NEW dependency \in Continuation \cup {0}, NEW dependent \in Continuation \cup {0},
         AddTask(thr, dependency, dependent)
  PROVE  /\ task_counter \in TaskID /\ task_counter' = task_counter + 1 /\ task_counter \in Nat
         /\ continuation'[task_counter] = dependent
         /\ \A x \in TaskID : x # task_counter => continuation'[x] = continuation[x]
         /\ links \subseteq links'
         /\ dependent # 0 => <<task_counter, dependent>> \in links'
         /\ dependency # 0 => <<dependency, task_counter>> \in links'
         /\ \A e \in links' : e \in links \/ e = <<task_counter, dependent>>
                              \/ e = <<dependency, task_counter>>
         /\ \A w \in Worker : running[w] # 0 => running[w] \in TaskID /\ running[w] # task_counter
<1> USE DEF CoreInv
<1>1. task_counter \in TaskID /\ task_counter' = task_counter + 1 /\ task_counter \in Nat
      /\ task_counter # 0
  BY SchedulerAssumption, SMTT(30) DEF AddTask, TypeOK, TaskID
<1>2. /\ continuation'[task_counter] = dependent
      /\ \A x \in TaskID : x # task_counter => continuation'[x] = continuation[x]
  BY <1>1 DEF AddTask, TypeOK
<1>3. links' = links \cup TaskEdges(task_counter, dependency, dependent)
  BY DEF AddTask, LinkNodes
<1>4. /\ dependent # 0 => <<task_counter, dependent>> \in TaskEdges(task_counter, dependency, dependent)
      /\ dependency # 0 => <<dependency, task_counter>> \in TaskEdges(task_counter, dependency, dependent)
      /\ \A e \in TaskEdges(task_counter, dependency, dependent) :
           e = <<task_counter, dependent>> \/ e = <<dependency, task_counter>>
  BY <1>1 DEF TaskEdges
<1>5. \A w \in Worker : running[w] # 0 => running[w] \in TaskID /\ running[w] # task_counter
  <2>1. \A x \in TaskID : x < task_counter => x # task_counter
    BY SMTT(30) DEF TaskID
  <2> QED
    BY <2>1, RunningTask
<1> QED
  BY <1>1, <1>2, <1>3, <1>4, <1>5

\* The new task has the code that its place in the query asks for.
LEMMA RoleAdd ==
  ASSUME PlanTypes, RoleInv, task_counter \in TaskID, task_counter' = task_counter + 1,
         NEW r, NEW o, r = RoleOf(task_counter),
         role' = [role EXCEPT ![task_counter] = r],
         op_of' = [op_of EXCEPT ![task_counter] = o],
         task_counter # ChainTask,
         task_counter < OperatorTask(0) \/ task_counter = ExitTask => o = NoOperator,
         \A p \in Operator : task_counter = OperatorTask(p) => o = p,
         ExitTask < task_counter => o \in Operator
  PROVE  RoleInv'
<1> USE DEF ExitTask, OperatorTask, Operator
<1>1. /\ \A t \in TaskID : t # task_counter => role'[t] = role[t] /\ op_of'[t] = op_of[t]
      /\ role'[task_counter] = r /\ op_of'[task_counter] = o
  BY DEF PlanTypes
<1>2. \A t \in TaskID : t < task_counter' <=> t < task_counter \/ t = task_counter
  BY SMTT(30) DEF TaskID
<1>3. \A t \in TaskID : t < task_counter' => role'[t] = RoleOf(t)
  BY <1>1, <1>2 DEF RoleInv
<1>4. ChainTask \in TaskID => op_of'[ChainTask] = NoOperator
  BY <1>1 DEF RoleInv
<1>5. \A t \in TaskID : t < task_counter' /\ t < OperatorTask(0) => op_of'[t] = NoOperator
  BY <1>1, <1>2 DEF RoleInv
<1>6. \A p \in Operator : OperatorTask(p) < task_counter' => op_of'[OperatorTask(p)] = p
  <2> SUFFICES ASSUME NEW p \in Operator, OperatorTask(p) < task_counter'
               PROVE  op_of'[OperatorTask(p)] = p
    OBVIOUS
  <2>1. OperatorTask(p) \in TaskID
    BY SchedulerAssumption, SMTT(30) DEF TaskID
  <2> QED
    BY <2>1, <1>1, <1>2 DEF RoleInv
<1>7. ExitTask < task_counter' => op_of'[ExitTask] = NoOperator
  <2> SUFFICES ASSUME ExitTask < task_counter' PROVE op_of'[ExitTask] = NoOperator
    OBVIOUS
  <2>1. ExitTask \in TaskID
    BY PlanAssumption, SchedulerAssumption, SMTT(30) DEF TaskID
  <2> QED
    BY <2>1, <1>1, <1>2 DEF RoleInv
<1>8. \A t \in TaskID : t < task_counter' /\ ExitTask < t => op_of'[t] \in Operator
  BY <1>1, <1>2 DEF RoleInv
<1> QED
  BY <1>3, <1>4, <1>5, <1>6, <1>7, <1>8 DEF RoleInv

\* No operator has added a task before the plan fires c_enter.
LEMMA BatchBefore ==
  ASSUME CoreInv, QueryInv, plan_fire = "before", task_counter' \in Nat,
         task_counter' <= ExitTask + 1, UNCHANGED running,
         \A w \in Worker : running[w] # 0 => op_of'[running[w]] = op_of[running[w]]
  PROVE  BatchInv'
<1>1. \A t \in TaskID : ~(t < task_counter' /\ ExitTask < t)
  BY PlanAssumption, SMTT(30) DEF TaskID, ExitTask
<1>2. \A w \in Worker : running[w] # 0 => op_of'[running[w]] \notin Operator
  <2>1. NoOperator \notin Operator
    BY PlanAssumption, SMTT(30) DEF NoOperator, Operator
  <2> QED
    BY <2>1, BeforeRuns
<1> QED
  BY <1>1, <1>2 DEF BatchInv

\* execute() adds the chain.
LEMMA QueryAdd ==
  ASSUME CoreInv, PlanTypes, QueryInv, Query
  PROVE  PlanTypes' /\ QueryInv'
<1> USE DEF CoreInv, QueryInv
<1>1. /\ AddTask(MainThread, 0, 0) /\ task_counter = 1
      /\ role' = [role EXCEPT ![task_counter] = "chain"]
      /\ sync_lock' = "held" /\ main_pc = "out"
      /\ UNCHANGED <<nodes_mutex, continuation_counter, running, finished, c_dependent, retired,
                     main_pc, plan_links, op_of, calls, c_enter, c_exit, c_operators, task_ids,
                     op_linked, links_left, plan_fire>>
  BY DEF Query, MainAddTask, retire_vars, worker_vars, plan_vars
<1>2. \A w \in Worker : running[w] = 0
  BY <1>1, RunningTask, SMTT(30) DEF TaskID
<1>3. /\ task_counter \in TaskID /\ task_counter' = 2
      /\ continuation'[task_counter] = 0 /\ links \subseteq links'
      /\ \A x \in TaskID : x # task_counter => continuation'[x] = continuation[x]
  <2>1. MainThread \in Thread /\ 0 \in Continuation \cup {0}
    BY Threads
  <2>2. /\ task_counter \in TaskID /\ task_counter' = task_counter + 1
        /\ continuation'[task_counter] = 0 /\ links \subseteq links'
        /\ \A x \in TaskID : x # task_counter => continuation'[x] = continuation[x]
    BY <1>1, <2>1, AddTaskEffect
  <2>3. task_counter' = 2
    BY <1>1, <2>2, SMTT(30)
  <2> QED
    BY <2>2, <2>3
<1>4. \A t : t # 0 => ~Started(t) /\ ~Started(t)'
  <2>1. \A t : t # 0 => ~Started(t)
    BY <1>1, StartedTask, SMTT(30) DEF TaskID
  <2> QED
    BY <1>1, <2>1 DEF Started
<1>5. plan_fire = "before" /\ c_enter = 0
  BY <1>1, <1>4, SMTT(30) DEF StageInv, ExitTask, PlanTask
<1>6. \A t \in TaskID : t < task_counter' <=> t = 1
  BY <1>3, SMTT(30) DEF TaskID
<1>7. PlanTypes'
  BY <1>1 DEF PlanTypes, Role
<1>8. RoleInv'
  <2>1. role'[1] = "chain"
    BY <1>1, <1>3 DEF PlanTypes
  <2>2. ~(ExitTask < task_counter') /\ \A o \in Operator : ~(OperatorTask(o) < task_counter')
    BY PlanAssumption, <1>3, SMTT(30) DEF ExitTask, OperatorTask, Operator
  <2>3. ~(ExitTask < 1)
    BY PlanAssumption, SMTT(30) DEF ExitTask
  <2> QED
    BY <1>1, <1>6, <2>1, <2>2, <2>3 DEF RoleInv, RoleOf, ChainTask
<1>9. StageInv'
  <2>1. \A t \in {ChainTask, FirstTask, SpawnerTask, PlanTask} : t \notin finished'
    <3>1. \A t \in {ChainTask, FirstTask, SpawnerTask, PlanTask} : t # 0
      BY SMTT(30) DEF ChainTask, FirstTask, SpawnerTask, PlanTask
    <3> QED
      BY <3>1, <1>4 DEF Started
  <2>2. \A w \in Worker : running'[w] \notin {ChainTask, FirstTask, SpawnerTask, PlanTask}
    BY <1>1, <1>2, SMTT(30) DEF ChainTask, FirstTask, SpawnerTask, PlanTask
  <2>3. nodes_mutex' \notin Worker
    BY <1>1, <1>5 DEF StageInv
  <2>4. continuation_counter = ChainContinuation
    BY <1>1, SMTT(30) DEF StageInv, SecondTask
  <2>5. /\ task_counter' <= SecondTask /\ task_counter' <= SpawnerTask
        /\ task_counter' <= PlanTask /\ task_counter' <= OperatorTask(0)
        /\ task_counter' <= ExitTask + 1
        /\ ~(task_counter' > OperatorTask(0))
    BY PlanAssumption, <1>3, SMTT(30) DEF SecondTask, SpawnerTask, PlanTask, OperatorTask, ExitTask
  <2> QED
    BY <1>1, <1>5, <2>1, <2>2, <2>3, <2>4, <2>5 DEF StageInv
<1>10. LinksInv'
  <2>1. /\ ~(task_counter' > SecondTask)
        /\ \A t \in {FirstTask, SpawnerTask, PlanTask, ExitTask} : ~(t < task_counter')
        /\ \A o \in Operator : ~(OperatorTask(o) < task_counter')
        /\ \A o \in Operator : ~(OperatorTask(o) < task_counter)
        /\ 0 \in Operator
    BY PlanAssumption, <1>1, <1>3, SMTT(30)
       DEF SecondTask, FirstTask, SpawnerTask, PlanTask, ExitTask, OperatorTask, Operator
  <2>2. op_linked = {} /\ plan_links \ links_left = {}
    BY <2>1 DEF LinksInv, PlanTypes
  <2>3. continuation'[ChainTask] = 0
    BY <1>1, <1>3 DEF ChainTask
  <2> QED
    BY <1>1, <1>5, <2>1, <2>2, <2>3 DEF LinksInv
<1>11. BeforeInv'
  <2>1. \A w \in Worker : ~Building(w)' /\ running'[w] # ChainTask
    BY <1>1, <1>2, SMTT(30) DEF Building, ChainTask
  <2> QED
    BY <1>1, <1>5, <2>1 DEF BeforeInv
<1>12. BatchInv'
  BY PlanAssumption, <1>1, <1>2, <1>3, <1>5, BatchBefore, SMTT(30) DEF ExitTask
<1> QED
  BY <1>7, <1>8, <1>9, <1>10, <1>11, <1>12

\* A worker's step that adds a task is one the order of the query allows.
LEMMA StageAdd ==
  ASSUME CoreInv, PlanTypes, QueryInv, NEW w \in Worker, running[w] # 0,
         task_counter' = task_counter + 1,
         calls' \in [Worker -> Nat], \A v \in Worker : v # w => calls'[v] = calls[v],
         \/ running[w] = ChainTask /\ calls[w] < 2 /\ calls'[w] = calls[w] + 1
         \/ running[w] \in {FirstTask, SpawnerTask} /\ calls[w] = 0 /\ calls'[w] = 1
         \/ /\ running[w] = PlanTask /\ plan_fire = "before" /\ c_enter # 0
            /\ calls[w] <= NumOperators /\ calls'[w] = calls[w] + 1
         \/ /\ running[w] \notin {ChainTask, FirstTask, SpawnerTask, PlanTask}
            /\ plan_fire # "before",
         UNCHANGED <<running, finished, nodes_mutex, main_pc, c_enter, plan_fire, sync_lock>>
  PROVE  StageInv'
<1> USE DEF ChainTask, SecondTask, FirstTask, SpawnerTask, PlanTask, OperatorTask, ExitTask
<1>0. TypeOK /\ StageInv
  BY DEF CoreInv, QueryInv
<1>1. /\ running[w] \in TaskID /\ running[w] < task_counter /\ Started(running[w])
      /\ \A v \in Worker : running[v] = running[w] => v = w
      /\ \A v \in Worker : running[v] # 0 => running[v] < task_counter
  BY RunningTask
<1>2. \A t : Started(t)' <=> Started(t)
  BY DEF Started
<1>3. task_counter \in Nat /\ running[w] \in Nat /\ running[w] # 0 /\ calls[w] \in Nat
      /\ task_counter' \in Nat
  <2>1. task_counter \in 1 .. kContinuationMask /\ running[w] \in TaskID /\ calls[w] \in Nat
    BY <1>0, <1>1 DEF TypeOK, PlanTypes
  <2> QED
    BY <2>1, SMTT(30) DEF TaskID
<1>4. \/ /\ running[w] = 1 /\ calls[w] < 2 /\ calls'[w] = calls[w] + 1
         /\ task_counter = 2 + calls[w]
      \/ running[w] = 3 /\ calls[w] = 0 /\ calls'[w] = 1 /\ task_counter = 4
      \/ running[w] = 4 /\ calls[w] = 0 /\ calls'[w] = 1 /\ task_counter = 5
      \/ /\ running[w] = 5 /\ plan_fire = "before" /\ c_enter # 0 /\ calls[w] <= NumOperators
         /\ calls'[w] = calls[w] + 1 /\ task_counter = 6 + calls[w]
      \/ /\ running[w] \notin {1, 3, 4, 5} /\ plan_fire # "before"
         /\ task_counter > 6 + NumOperators /\ c_enter # 0
  <2>1. /\ running[w] = 1 => \/ calls[w] < 2 /\ task_counter = 2 + calls[w]
                             \/ calls[w] = 2 /\ task_counter > 3
        /\ running[w] = 3 => \/ calls[w] = 0 /\ task_counter = 4
                             \/ calls[w] = 1 /\ task_counter > 4
        /\ running[w] = 4 => \/ calls[w] = 0 /\ task_counter = 5
                             \/ calls[w] = 1 /\ task_counter > 5
        /\ running[w] = 5 /\ plan_fire = "before" => task_counter = 6 + calls[w]
        /\ plan_fire # "before" => task_counter > 6 + NumOperators /\ c_enter # 0
    BY <1>0 DEF StageInv
  <2> QED
    BY <1>3, <2>1, SMTT(30)
<1>5. /\ ~Started(1) => task_counter' <= 2
      /\ ~Started(3) => task_counter' <= 4
      /\ ~Started(4) => task_counter' <= 5
      /\ ~Started(5) => task_counter' <= 6 + 0 /\ c_enter = 0
  BY PlanAssumption, <1>0, <1>1, <1>3, <1>4, SMTT(30) DEF StageInv
<1>6. /\ 1 \in finished => task_counter' > 3
      /\ 3 \in finished => task_counter' > 4
      /\ 4 \in finished => task_counter' > 5
      /\ 5 \in finished => plan_fire = "after"
  <2>1. /\ 1 \in finished => task_counter > 3
        /\ 3 \in finished => task_counter > 4
        /\ 4 \in finished => task_counter > 5
        /\ 5 \in finished => plan_fire = "after"
    BY <1>0 DEF StageInv
  <2> QED
    BY <1>3, <2>1, SMTT(30)
<1>7. /\ plan_fire = "before" => task_counter' <= 6 + NumOperators + 1
      /\ plan_fire # "before" => task_counter' > 6 + NumOperators /\ c_enter # 0
      /\ task_counter' > 6 + 0 => c_enter # 0
      /\ ~(task_counter' <= 2)
  BY PlanAssumption, <1>0, <1>3, <1>4, SMTT(30) DEF StageInv
<1>8. ASSUME NEW v \in Worker
      PROVE  /\ running[v] = 1 => \/ calls'[v] < 2 /\ task_counter' = 2 + calls'[v]
                                  \/ calls'[v] = 2 /\ task_counter' > 3
             /\ running[v] = 3 => \/ calls'[v] = 0 /\ task_counter' = 4
                                  \/ calls'[v] = 1 /\ task_counter' > 4
             /\ running[v] = 4 => \/ calls'[v] = 0 /\ task_counter' = 5
                                  \/ calls'[v] = 1 /\ task_counter' > 5
             /\ running[v] = 5 => IF plan_fire = "before" THEN task_counter' = 6 + calls'[v]
                                                          ELSE calls'[v] = NumOperators + 1
  <2>1. CASE v = w
    <3>1. running[w] = 5 /\ plan_fire # "before" => FALSE
      BY <1>4, StageIds
    <3> QED
      BY PlanAssumption, <2>1, <3>1, <1>3, <1>4, SMTT(60)
  <2>2. CASE v # w
    <3>1. calls'[v] = calls[v] /\ calls[v] \in Nat
      BY <2>2 DEF PlanTypes
    <3>2. running[v] # 0 => running[v] < task_counter /\ running[v] # running[w]
      BY <1>1, <2>2
    <3>3. /\ running[v] = 1 => \/ calls[v] < 2 /\ task_counter = 2 + calls[v]
                               \/ calls[v] = 2 /\ task_counter > 3
          /\ running[v] = 3 => \/ calls[v] = 0 /\ task_counter = 4
                               \/ calls[v] = 1 /\ task_counter > 4
          /\ running[v] = 4 => \/ calls[v] = 0 /\ task_counter = 5
                               \/ calls[v] = 1 /\ task_counter > 5
          /\ running[v] = 5 => IF plan_fire = "before" THEN task_counter = 6 + calls[v]
                                                       ELSE calls[v] = NumOperators + 1
      BY <1>0 DEF StageInv
    <3> QED
      BY PlanAssumption, <1>3, <1>4, <3>1, <3>2, <3>3, SMTT(30)
  <2> QED
    BY <2>1, <2>2
<1>9. /\ nodes_mutex \in Worker => running[nodes_mutex] = 5 /\ plan_fire = "during"
      /\ main_pc = "joining" => sync_lock = "released"
  BY <1>0 DEF StageInv
<1> QED
  BY <1>2, <1>5, <1>6, <1>7, <1>8, <1>9 DEF StageInv

\* The ids below the next value of a counter.
LEMMA BelowNext == \A n, x \in Nat : x < n + 1 <=> x < n \/ x = n
BY SMTT(30)

\* The edges of the tasks that were there stay, and the new task has the ones that
\* its place in the query asks for.
LEMMA LinksAdd ==
  ASSUME CoreInv, PlanTypes, LinksInv, NEW thr \in Thread,
         NEW dependency \in Continuation \cup {0}, NEW dependent \in Continuation \cup {0},
         AddTask(thr, dependency, dependent),
         continuation_counter' \in Nat, continuation_counter <= continuation_counter',
         UNCHANGED <<plan_links, c_enter, c_exit, op_linked, links_left>>,
         \A o \in Operator : OperatorTask(o) < task_counter =>
           task_ids'[o] = task_ids[o] /\ c_operators'[o] = c_operators[o],
         task_counter # ChainTask,
         task_counter = SecondTask => dependency = ChainContinuation,
         task_counter \in {FirstTask, SpawnerTask, PlanTask, ExitTask} =>
           dependent = ChainContinuation,
         \A o \in Operator : task_counter = OperatorTask(o) =>
           /\ task_ids'[o] = task_counter /\ c_operators'[o] = dependent /\ dependent # 0
           /\ Allocated(dependent)' /\ dependency = c_enter /\ c_enter # 0,
         task_counter = ExitTask =>
           op_linked = Operator /\ links_left = {} /\ dependency = c_exit /\ c_exit # 0
  PROVE  LinksInv'
<1> USE DEF CoreInv
<1> DEFINE t == task_counter
<1>1. /\ t \in TaskID /\ task_counter' = t + 1 /\ t \in Nat
      /\ continuation'[t] = dependent
      /\ \A x \in TaskID : x # t => continuation'[x] = continuation[x]
      /\ links \subseteq links'
      /\ dependency # 0 => <<dependency, t>> \in links'
  BY AddTaskEffect
<1>2. \A x \in Nat : x < task_counter' <=> x < t \/ x = t
  BY <1>1, BelowNext
<1>3. \A n \in Continuation : Allocated(n) => Allocated(n)'
  BY <1>1, SMTT(30) DEF Allocated, TypeOK, Continuation
<1>4. /\ {ChainTask, SecondTask, FirstTask, SpawnerTask, PlanTask, ExitTask} \subseteq Nat \ {0}
      /\ \A o \in Operator : OperatorTask(o) \in Nat \ {0}
      /\ \A x \in Nat \ {0} : x < t => x \in TaskID /\ x # t
  BY PlanAssumption, SchedulerAssumption, <1>1, SMTT(30) DEF ChainTask, SecondTask, FirstTask, SpawnerTask, PlanTask, ExitTask, OperatorTask,
                   Operator, TaskID
<1>5. task_counter' > SecondTask => <<ChainContinuation, SecondTask>> \in links'
  <2>1. ChainContinuation # 0 /\ (task_counter' > SecondTask => t > SecondTask \/ t = SecondTask)
    BY SchedulerAssumption, <1>1, SMTT(30) DEF ChainContinuation, SecondTask
  <2> QED
    BY <2>1, <1>1 DEF LinksInv
<1>6. \A x \in {FirstTask, SpawnerTask, PlanTask, ExitTask} :
        x < task_counter' => continuation'[x] = ChainContinuation
  BY <1>1, <1>2, <1>4 DEF LinksInv
<1>7. ChainTask < task_counter' => continuation'[ChainTask] = 0
  BY <1>1, <1>2, <1>4 DEF LinksInv
<1>8. c_enter # 0 => c_exit # 0 /\ c_exit # c_enter /\ Allocated(c_enter)' /\ Allocated(c_exit)'
  <2> SUFFICES ASSUME c_enter # 0
               PROVE  c_exit # 0 /\ c_exit # c_enter /\ Allocated(c_enter)' /\ Allocated(c_exit)'
    OBVIOUS
  <2>1. /\ c_enter \in Continuation /\ c_exit \in Continuation
        /\ Allocated(c_enter) /\ Allocated(c_exit) /\ c_exit # 0 /\ c_exit # c_enter
    BY DEF LinksInv, PlanTypes
  <2> HIDE DEF Allocated
  <2>2. Allocated(c_enter)' /\ Allocated(c_exit)'
    <3>1. c_enter' = c_enter /\ c_exit' = c_exit
      OBVIOUS
    <3> QED
      BY <2>1, <3>1, <1>3 DEF Allocated
  <2> QED
    BY <2>1, <2>2
<1>9. ASSUME NEW o \in Operator, OperatorTask(o) < task_counter'
      PROVE  /\ task_ids'[o] = OperatorTask(o)
             /\ c_operators'[o] # 0 /\ Allocated(c_operators[o])'
             /\ continuation'[OperatorTask(o)] = c_operators'[o]
             /\ <<c_enter, OperatorTask(o)>> \in links'
  <2>1. CASE OperatorTask(o) = t
    BY <2>1, <1>1
  <2>2. CASE OperatorTask(o) < t
    <3>1. /\ task_ids[o] = OperatorTask(o) /\ c_operators[o] # 0 /\ Allocated(c_operators[o])
          /\ continuation[OperatorTask(o)] = c_operators[o]
          /\ <<c_enter, OperatorTask(o)>> \in links /\ c_operators[o] \in Continuation
      BY <2>2 DEF LinksInv, PlanTypes
    <3>2. /\ task_ids'[o] = task_ids[o] /\ c_operators'[o] = c_operators[o]
          /\ continuation'[OperatorTask(o)] = continuation[OperatorTask(o)]
      BY <2>2, <1>1, <1>4
    <3>3. Allocated(c_operators[o])'
      BY <3>1, <3>2, <1>3 DEF Allocated
    <3> QED
      BY <3>1, <3>2, <3>3, <1>1
  <2> QED
    BY <1>2, <1>4, <1>9, <2>1, <2>2
<1>10. \A o \in op_linked : /\ OperatorTask(o) < task_counter'
                            /\ <<c_operators'[o], c_exit>> \in links'
  BY <1>1, <1>2, <1>4 DEF LinksInv, PlanTypes
<1>11. \A e \in plan_links \ links_left :
         op_linked = Operator /\ <<c_operators'[e[1]], OperatorTask(e[2])>> \in links'
  <2> TAKE e \in plan_links \ links_left
  <2>1. op_linked = Operator /\ <<c_operators[e[1]], OperatorTask(e[2])>> \in links
        /\ e[1] \in Operator
    BY DEF LinksInv, PlanTypes
  <2>2. c_operators'[e[1]] = c_operators[e[1]]
    BY <2>1 DEF LinksInv
  <2> QED
    BY <2>1, <2>2, <1>1
<1>12. ExitTask < task_counter' =>
         op_linked = Operator /\ links_left = {} /\ <<c_exit, ExitTask>> \in links'
  BY <1>1, <1>2, <1>4 DEF LinksInv
<1> QED
  BY <1>5, <1>6, <1>7, <1>8, <1>9, <1>10, <1>11, <1>12 DEF LinksInv

\* What a task may name as a dependent is a continuation, if anything.
LEMMA DependentType ==
  ASSUME CoreInv, NEW w \in Worker, running[w] # 0
  PROVE  /\ c_dependent[w] \in Continuation \cup {0}
         /\ ~Building(w) => c_dependent[w] = continuation[running[w]]
<1>1. running[w] \in TaskID
  BY RunningTask
<1> QED
  BY <1>1 DEF CoreInv, ChainInv, Building

\* The ids of the tasks that the stages of the chain add.
LEMMA EarlyIds ==
  /\ PlanTask # 0 /\ \A t \in {2, 3, 4, 5} : ~(PlanTask < t)
  /\ 1 # 2 /\ SecondTask + 1 # 4 /\ SecondTask + 1 # 5
  /\ 0 # 1 /\ 0 # 2 /\ 2 + 0 = 2 /\ 2 + 1 = 3 /\ 1 # 3 /\ 1 # 4 /\ 3 # 4
BY SMTT(30) DEF PlanTask, SecondTask

\* Two calls are made at most: what is left after each of them.
LEMMA BelowTwo == \A n \in Nat : n < 2 => n \in {0, 1}
BY SMTT(30)

\* A task of the chain's stages adds the next one: the plan does not exist yet.
LEMMA EarlyAdd ==
  ASSUME CoreInv, PlanTypes, QueryInv, NEW w \in Worker, running[w] # 0,
         running[w] \in {ChainTask, FirstTask, SpawnerTask}, calls[w] < 2,
         running[w] # ChainTask => calls[w] = 0,
         NEW dependency \in Continuation \cup {0},
         AddTask(w, dependency, c_dependent[w]),
         continuation_counter' \in Nat, continuation_counter <= continuation_counter',
         task_counter = SecondTask => dependency = ChainContinuation,
         calls' = [calls EXCEPT ![w] = @ + 1],
         Becomes(RoleOf(task_counter), NoOperator),
         NEW c, c_dependent' = [c_dependent EXCEPT ![w] = c],
         IF task_counter = SecondTask THEN c = ChainContinuation
                                      ELSE c = continuation[running[w]],
         UNCHANGED <<running, finished, retired, nodes_mutex, main_pc, plan_links, plan_vars,
                     sync_lock>>
  PROVE  PlanTypes' /\ QueryInv'
<1> USE DEF CoreInv, QueryInv
<1> DEFINE r == running[w]
           t == task_counter
<1>1. UNCHANGED <<c_enter, c_exit, c_operators, task_ids, op_linked, links_left, plan_fire>>
  BY DEF plan_vars
<1>2. /\ r \in TaskID /\ r < t /\ \A v \in Worker : running[v] = r => v = w
      /\ c_dependent[w] \in Continuation \cup {0}
      /\ ~Building(w) => c_dependent[w] = continuation[r]
  BY RunningTask, DependentType
<1>3. /\ t \in TaskID /\ task_counter' = t + 1 /\ t \in Nat
      /\ continuation'[t] = c_dependent[w]
      /\ \A x \in TaskID : x # t => continuation'[x] = continuation[x]
      /\ \A v \in Worker : running[v] # 0 => running[v] \in TaskID /\ running[v] # t
  <2>1. w \in Thread
    BY Threads
  <2> QED
    BY <1>2, <2>1, AddTaskEffect
<1>4. /\ t \in {2, 3, 4, 5}
      /\ r = ChainTask => t = 2 + calls[w]
      /\ r = FirstTask => t = 4
      /\ r = SpawnerTask => t = 5
  <2>1. /\ r = ChainTask => \/ calls[w] < 2 /\ t = SecondTask + calls[w]
                            \/ calls[w] = 2 /\ t > FirstTask
        /\ r = FirstTask => \/ calls[w] = 0 /\ t = SpawnerTask
                            \/ calls[w] = 1 /\ t > SpawnerTask
        /\ r = SpawnerTask => \/ calls[w] = 0 /\ t = PlanTask
                              \/ calls[w] = 1 /\ t > PlanTask
    BY DEF StageInv
  <2>2. calls[w] \in Nat
    BY DEF PlanTypes
  <2>3. calls[w] \in {0, 1}
    BY <2>2, BelowTwo
  <2> QED
    BY <2>1, <2>3, EarlyIds DEF ChainTask, SecondTask, FirstTask, SpawnerTask, PlanTask
<1>5. plan_fire = "before" /\ c_enter = 0
  <2>1. plan_fire = "before"
    BY PlanAssumption, <1>4, SMTT(30) DEF StageInv, ExitTask
  <2>2. ~Started(PlanTask)
    <3>1. PlanTask # 0 /\ ~(PlanTask < t)
      BY <1>4, EarlyIds
    <3> QED
      BY <3>1, StartedTask
  <2> QED
    BY <2>1, <2>2 DEF StageInv
<1>6. /\ \A v \in Worker : Building(v) => v = w
      /\ t # FirstTask => ~Building(w)
      /\ t = FirstTask => c_dependent[w] = ChainContinuation /\ r = ChainTask
  <2>1. \A v \in Worker : Building(v) => running[v] = ChainTask /\ calls[v] = 1
    BY <1>5 DEF BeforeInv
  <2>2. \A v \in Worker : Building(v) => v = w
    <3> SUFFICES ASSUME NEW v \in Worker, Building(v), v # w PROVE FALSE
      OBVIOUS
    <3>1. running[v] = ChainTask /\ calls[v] = 1
      BY <2>1
    <3>a. \/ calls[v] < 2 /\ t = SecondTask + calls[v]
          \/ calls[v] = 2 /\ t > FirstTask
      BY <3>1 DEF StageInv
    <3>2. r = ChainTask
      BY <1>4, <3>1, <3>a, EarlyIds
    <3> QED
      BY <3>1, <3>2, <1>2
  <2>3. t # FirstTask => ~Building(w)
    BY <2>1, <1>4, EarlyIds DEF FirstTask, SecondTask, ChainTask
  <2>4. t = FirstTask => r = ChainTask /\ calls[w] = 1
    BY <1>4, SMTT(30) DEF FirstTask, PlanTypes
  <2> QED
    BY <2>2, <2>3, <2>4 DEF BeforeInv
<1>7. /\ c_dependent'[w] = c /\ calls'[w] = calls[w] + 1
      /\ \A v \in Worker : v # w => c_dependent'[v] = c_dependent[v] /\ calls'[v] = calls[v]
      /\ calls' \in [Worker -> Nat]
  <2>1. calls[w] \in Nat /\ calls[w] + 1 \in Nat
    BY SMTT(30) DEF PlanTypes
  <2> QED
    BY <2>1 DEF TypeOK, PlanTypes
<1>8. PlanTypes'
  <2>1. RoleOf(t) \in Role /\ NoOperator \in Operator \cup {NoOperator}
    BY DEF RoleOf, Role
  <2>2. role' \in [TaskID -> Role] /\ op_of' \in [TaskID -> Operator \cup {NoOperator}]
    BY <1>3, <2>1 DEF Becomes, PlanTypes
  <2> QED
    BY <1>1, <1>7, <2>2 DEF PlanTypes
<1>9. RoleInv'
  <2>1. /\ role' = [role EXCEPT ![task_counter] = RoleOf(t)]
        /\ op_of' = [op_of EXCEPT ![task_counter] = NoOperator]
    BY DEF Becomes
  <2>2. t # ChainTask /\ ~(ExitTask < t) /\ \A p \in Operator : t # OperatorTask(p)
    BY PlanAssumption, <1>4, SMTT(30) DEF ChainTask, ExitTask, OperatorTask, Operator
  <2> QED
    BY <1>3, <2>1, <2>2, RoleAdd
<1>10. StageInv'
  <2>1. \/ r = ChainTask /\ calls[w] < 2 /\ calls'[w] = calls[w] + 1
        \/ r \in {FirstTask, SpawnerTask} /\ calls[w] = 0 /\ calls'[w] = 1
    BY <1>7, SMTT(30) DEF ChainTask, FirstTask, SpawnerTask
  <2> QED
    BY <1>1, <1>3, <1>7, <2>1, StageAdd
<1>11. LinksInv'
  <2>1. w \in Thread
    BY Threads
  <2>2. /\ t # ChainTask /\ \A o \in Operator : t # OperatorTask(o)
        /\ t # ExitTask
    BY PlanAssumption, <1>4, SMTT(30) DEF ChainTask, OperatorTask, Operator, ExitTask
  <2>3. t \in {FirstTask, SpawnerTask, PlanTask, ExitTask} => c_dependent[w] = ChainContinuation
    <3>1. CASE t = FirstTask
      BY <3>1, <1>6
    <3>2. CASE t \in {SpawnerTask, PlanTask}
      <4>1. r \in {FirstTask, SpawnerTask} /\ t # FirstTask
        BY <3>2, <1>4, SMTT(30) DEF ChainTask, FirstTask, SpawnerTask, PlanTask, PlanTypes
      <4>2. c_dependent[w] = continuation[r]
        BY <4>1, <1>2, <1>6
      <4> QED
        BY <4>1, <4>2, <1>2 DEF LinksInv
    <3> QED
      BY <2>2, <3>1, <3>2
  <2> QED
    BY <1>1, <1>2, <2>1, <2>2, <2>3, LinksAdd
<1>12. BeforeInv'
  <2>1. c_enter' = 0
    BY <1>1, <1>5
  <2>2. ASSUME NEW v \in Worker, Building(v)' PROVE running[v] = ChainTask /\ calls'[v] = 1
    <3>1. running[v] # 0 /\ c_dependent'[v] # continuation'[running[v]]
      BY <2>2 DEF Building
    <3>2. continuation'[running[v]] = continuation[running[v]]
      BY <1>3, <3>1
    <3>3. v = w
      <4> SUFFICES ASSUME v # w PROVE FALSE
        OBVIOUS
      <4>1. Building(v)
        BY <1>7, <3>1, <3>2 DEF Building
      <4> QED
        BY <4>1, <1>6
    <3>4. t = SecondTask
      BY <1>7, <3>1, <3>2, <3>3
    <3>5. r = ChainTask /\ calls[w] = 0
      BY <1>4, <3>4, SMTT(30) DEF SecondTask, PlanTypes
    <3> QED
      BY <1>7, <3>3, <3>5, SMTT(30)
  <2>3. ASSUME NEW v \in Worker, running[v] = ChainTask, calls'[v] = 1
        PROVE  c_dependent'[v] = ChainContinuation
    <3>1. CASE v = w
      <4>1. calls[w] = 0 /\ t = SecondTask
        BY <1>4, <1>7, <2>3, <3>1, SMTT(30) DEF SecondTask, PlanTypes
      <4> QED
        BY <1>7, <3>1, <4>1
    <3>2. CASE v # w
      BY <1>7, <2>3, <3>2 DEF BeforeInv
    <3> QED
      BY <3>1, <3>2
  <2> QED
    BY <2>1, <2>2, <2>3 DEF BeforeInv
<1>13. BatchInv'
  <2>1. task_counter' \in Nat /\ task_counter' <= ExitTask + 1
    BY PlanAssumption, <1>3, <1>4, SMTT(30) DEF ExitTask
  <2>2. \A v \in Worker : running[v] # 0 => op_of'[running[v]] = op_of[running[v]]
    BY <1>3 DEF Becomes, PlanTypes
  <2> QED
    BY <1>5, <2>1, <2>2, BatchBefore
<1> QED
  BY <1>8, <1>9, <1>10, <1>11, <1>12, <1>13

\* The chain adds its two tasks.
LEMMA ChainQuery ==
  ASSUME CoreInv, PlanTypes, QueryInv, NEW w \in Worker, ChainStep(w)
  PROVE  PlanTypes' /\ QueryInv'
<1> USE DEF CoreInv, QueryInv
<1>1. running[w] = ChainTask /\ running[w] # 0
  BY RunsRole DEF ChainStep, Runs
<1>2. /\ calls' = [calls EXCEPT ![w] = @ + 1]
      /\ UNCHANGED <<running, finished, retired, nodes_mutex, main_pc, plan_links, plan_vars,
                     sync_lock>>
  BY DEF ChainStep, ChainNext, SpawnTask, worker_vars, retire_vars
<1>3. CASE calls[w] = 0 /\ ChainNext(w) /\ Becomes("second", NoOperator)
  <2>1. task_counter = SecondTask /\ continuation_counter = ChainContinuation
    BY <1>1, <1>3, SMTT(30) DEF StageInv, SecondTask
  <2>2. /\ AddTask(w, ChainContinuation, c_dependent[w])
        /\ c_dependent' = [c_dependent EXCEPT ![w] = ChainContinuation]
    BY <1>3, <2>1 DEF ChainNext
  <2>3. /\ ChainContinuation \in Continuation \cup {0}
        /\ continuation_counter' \in Nat /\ continuation_counter <= continuation_counter'
    BY SchedulerAssumption, <1>3, <2>1, SMTT(30) DEF ChainNext, Continuation, ChainContinuation
  <2>4. RoleOf(task_counter) = "second" /\ calls[w] < 2
    BY <2>1, <1>3, SMTT(30) DEF RoleOf, SecondTask, ChainTask
  <2> QED
    BY <1>1, <1>2, <1>3, <2>1, <2>2, <2>3, <2>4, EarlyAdd
<1>4. CASE calls[w] = 1 /\ SpawnTask(w) /\ Becomes("first", NoOperator)
  <2>1. task_counter = FirstTask /\ FirstTask # SecondTask
    BY <1>1, <1>4, SMTT(30) DEF StageInv, SecondTask, FirstTask
  <2>2. /\ AddTask(w, 0, c_dependent[w])
        /\ c_dependent' = [c_dependent EXCEPT ![w] = continuation[running[w]]]
    BY <1>4, <2>1 DEF SpawnTask
  <2>3. /\ 0 \in Continuation \cup {0}
        /\ continuation_counter' \in Nat /\ continuation_counter <= continuation_counter'
    BY SchedulerAssumption, <1>4, SMTT(30) DEF SpawnTask, TypeOK
  <2>4. RoleOf(task_counter) = "first" /\ calls[w] < 2
    BY <2>1, <1>4, SMTT(30) DEF RoleOf, FirstTask, SecondTask, ChainTask
  <2> QED
    BY <1>1, <1>2, <1>4, <2>1, <2>2, <2>3, <2>4, EarlyAdd
<1> QED
  BY <1>3, <1>4 DEF ChainStep

\* The first task of the chain spawns the task that spawns the plan.
LEMMA SpawnQuery ==
  ASSUME CoreInv, PlanTypes, QueryInv, NEW w \in Worker, SpawnStep(w)
  PROVE  PlanTypes' /\ QueryInv'
<1> USE DEF CoreInv, QueryInv
<1>1. /\ SpawnTask(w) /\ calls[w] = 0 /\ running[w] # 0
      /\ \/ running[w] = FirstTask /\ Becomes("spawner", NoOperator)
         \/ running[w] = SpawnerTask /\ Becomes("plan", NoOperator)
  BY RunsRole DEF SpawnStep, Runs
<1>2. calls' = [calls EXCEPT ![w] = @ + 1]
  BY <1>1, SMTT(30) DEF SpawnStep
<1>3. UNCHANGED <<running, finished, retired, nodes_mutex, main_pc, plan_links, plan_vars,
                  sync_lock>>
  BY DEF SpawnStep, SpawnTask, worker_vars, retire_vars
<1>4. /\ AddTask(w, 0, c_dependent[w])
      /\ c_dependent' = [c_dependent EXCEPT ![w] = continuation[running[w]]]
  BY <1>1 DEF SpawnTask
<1>5. /\ 0 \in Continuation \cup {0}
      /\ continuation_counter' \in Nat /\ continuation_counter <= continuation_counter'
  BY SchedulerAssumption, <1>1, SMTT(30) DEF SpawnTask, TypeOK
<1>6. /\ running[w] = FirstTask => task_counter = 4
      /\ running[w] = SpawnerTask => task_counter = 5
  BY <1>1, SMTT(30) DEF StageInv, SpawnerTask, PlanTask
<1>7. /\ task_counter # SecondTask /\ running[w] # ChainTask /\ calls[w] < 2
      /\ RoleOf(task_counter) = IF running[w] = FirstTask THEN "spawner" ELSE "plan"
  BY <1>1, <1>6, SMTT(30) DEF RoleOf, ChainTask, SecondTask, FirstTask, SpawnerTask, PlanTask
<1>8. Becomes(RoleOf(task_counter), NoOperator)
  <2>1. FirstTask # SpawnerTask
    BY SMTT(30) DEF FirstTask, SpawnerTask
  <2> QED
    BY <1>1, <1>7, <2>1
<1> QED
  BY <1>1, <1>2, <1>3, <1>4, <1>5, <1>7, <1>8, EarlyAdd

==============================================================================
