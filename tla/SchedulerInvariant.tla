----------------------------- MODULE SchedulerInvariant ----------------------
(***************************************************************************)
(* The inductive invariant of the scheduler, for every number of workers,    *)
(* tasks and continuations, and the facts its preservation rests on.         *)
(***************************************************************************)
EXTENDS Scheduler, TLAPS

\* allocateTaskID and allocateContinuation have returned n.
Allocated(n) == n < task_counter \/ (kContinuationMask < n /\ n < continuation_counter)

\* The node table: counts, and what it remembers of the edges.
GraphInv ==
  /\ \A n \in NodeID : dependency_count[n] = Cardinality(Dependencies(n))
  /\ \A e \in links : Allocated(e[1]) /\ Allocated(e[2])
  /\ \A e \in links : e[1] \in retired \/ e[2] \in dependents[e[1]]
  /\ \A m \in NodeID : \A n \in dependents[m] : <<m, n>> \in links
  /\ \A n \in retired : Allocated(n) /\ Dependencies(n) = {}
  /\ \A t \in retired \cap TaskID : t \in finished
  /\ \A i \in DOMAIN retiring : retiring[i] \in retired

\* A task that left tasks_ has no dependency.
ReleasedInv ==
  /\ \A thr \in Thread : call[thr] = "enqueue" => Dependencies(call_task[thr]) = {}
  /\ \A i \in DOMAIN task_queue : Dependencies(task_queue[i]) = {}
  /\ \A w \in Worker : \A i \in DOMAIN worker_msg_queue[w] :
       worker_msg_queue[w][i] # WorkerJoin => Dependencies(worker_msg_queue[w][i]) = {}
  /\ \A w \in Worker : running[w] # 0 => Dependencies(running[w]) = {}
  /\ \A t \in finished : Dependencies(t) = {}

\* What running tasks may name as a dependent is not retired.
ChainInv ==
  /\ \A t \in TaskID : continuation[t] \in Continuation \cup {0}
  /\ \A t \in TaskID : t < task_counter /\ continuation[t] # 0 => <<t, continuation[t]>> \in links
  /\ \A w \in Worker : Building(w) =>
       /\ c_dependent[w] \in Continuation
       /\ Allocated(c_dependent[w])
       /\ c_dependent[w] \notin retired
       /\ Dependencies(c_dependent[w]) = {}
  /\ \A v, w \in Worker :
       Building(v) /\ Building(w) /\ c_dependent[v] = c_dependent[w] => v = w

\* Where the threads are, and who holds nodes_mutex_.
ControlInv ==
  /\ \A thr \in Thread : call[thr] \in {"enqueue", "park"} => call_task[thr] \in TaskID
  /\ \A thr \in Thread \ Worker : call[thr] # "park"
  /\ \A w \in Worker : worker_pc[w] # "busy" => running[w] = 0
  /\ \A w \in Worker : running[w] = 0 => call[w] = "none"
  /\ sched_pc # "retire" => call[SchedulerThread] = "none"
  /\ nodes_mutex = SchedulerThread <=> sched_pc = "retire"
  /\ nodes_mutex = NoThread => retiring = << >>
  /\ nodes_mutex # MainThread
  /\ nodes_mutex \in Worker => running[nodes_mutex] # 0
  /\ main_pc = "joining" => call[MainThread] = "none"
  /\ sched_pc \in {"stop", "wait", "exited"} => \A w \in Worker : Available(w)
  /\ sched_pc \in {"off", "exited"} => \A w \in Worker : worker_pc[w] = "off"
  /\ \A i \in DOMAIN scheduler_msg_queue :
       scheduler_msg_queue[i].type = "TaskCompletion" =>
         scheduler_msg_queue[i].task \in finished

\* What holds whatever tasks do to the graph: the part of the invariant that the
\* execution of a plan, which links nodes and fires a continuation itself, keeps too.
CoreInv ==
  /\ TypeOK
  /\ GraphInv
  /\ ReleasedInv
  /\ ChainInv
  /\ ControlInv
  /\ WorkersConserved
  /\ TasksConserved

\* Tasks that only spawn tasks and chains never retire a node themselves, and the
\* task they are about to park waits for a continuation that only they know.
ParkedInv ==
  /\ nodes_mutex \in {NoThread, SchedulerThread}
  /\ \A w \in Worker : call[w] = "park" =>
       Building(w) /\ Dependencies(call_task[w]) \subseteq {c_dependent[w]}

IndInv == CoreInv /\ ParkedInv

------------------------------------------------------------------------------
(* Ids *)

\* Node ids are naturals, and bit 63 tells tasks from continuations.
LEMMA NodeIDs ==
  /\ NodeID \subseteq Nat \ {0}
  /\ TaskID \cap Continuation = {}
BY SchedulerAssumption DEF NodeID, TaskID, Continuation

\* The threads are the workers and two others, and "nobody" is none of them.
LEMMA Threads ==
  /\ Worker \subseteq Thread /\ Thread = Worker \cup {SchedulerThread, MainThread}
  /\ SchedulerThread \notin Worker /\ MainThread \notin Worker /\ SchedulerThread # MainThread
  /\ NoThread \notin Thread
BY SchedulerAssumption DEF Worker, Thread, SchedulerThread, MainThread, NoThread

------------------------------------------------------------------------------
(* Steps that leave the variables of a part alone preserve it *)

\* The node table is kept by steps that do not touch it.
LEMMA GraphFrame ==
  ASSUME GraphInv,
         UNCHANGED <<dependents, dependency_count, retiring, task_counter,
                     continuation_counter, links, retired, finished>>
  PROVE  GraphInv'
<1>1. /\ \A n : Dependencies(n)' = Dependencies(n)
      /\ \A n : Allocated(n)' <=> Allocated(n)
  BY DEF Dependencies, Allocated
<1> QED
  BY <1>1, Zenon DEF GraphInv

\* So are the dependencies of released tasks,
LEMMA ReleasedFrame ==
  ASSUME ReleasedInv,
         UNCHANGED <<dependents, call, call_task, task_queue, worker_msg_queue, running,
                     finished>>
  PROVE  ReleasedInv'
BY Zenon DEF ReleasedInv, Dependencies

\* the continuations that running tasks may name,
LEMMA ChainFrame ==
  ASSUME ChainInv,
         UNCHANGED <<dependents, task_counter, continuation_counter, continuation, running,
                     c_dependent, links, retired>>
  PROVE  ChainInv'
<1>1. /\ \A n : Dependencies(n)' = Dependencies(n)
      /\ \A n : Allocated(n)' <=> Allocated(n)
      /\ \A w : Building(w)' <=> Building(w)
  BY DEF Dependencies, Allocated, Building
<1> QED
  BY <1>1, Zenon DEF ChainInv

\* the places of the workers (but for where the scheduler loop stands),
LEMMA WorkersFrame ==
  ASSUME WorkersConserved,
         UNCHANGED <<available_workers, worker_msg_queue, running, scheduler_msg_queue,
                     completed_worker>>,
         (sched_pc = "retire") <=> (sched_pc' = "retire")
  PROVE  WorkersConserved'
<1>1. \A w : /\ Available(w)' <=> Available(w)
             /\ Assigned(w)' <=> Assigned(w)
             /\ Executing(w)' <=> Executing(w)
             /\ Returning(w)' <=> Returning(w)
             /\ Completing(w)' <=> Completing(w)
             /\ \A i : Reported(w, i)' <=> Reported(w, i)
  BY Zenon DEF Available, Assigned, Executing, Returning, Reported, Completing
<1> QED
  BY <1>1, SMTT(30) DEF WorkersConserved

\* and the owners of the tasks.
LEMMA TasksFrame ==
  ASSUME TasksConserved,
         UNCHANGED <<task_counter, call, call_task, tasks, task_queue, worker_msg_queue,
                     running, finished>>
  PROVE  TasksConserved'
<1>1. \A t : /\ InCall(t)' <=> InCall(t)
             /\ Queued(t)' <=> Queued(t)
             /\ Sent(t)' <=> Sent(t)
             /\ IsRunning(t)' <=> IsRunning(t)
  BY Zenon DEF InCall, Queued, Sent, IsRunning
<1> QED
  BY <1>1, SMTT(30) DEF TasksConserved

------------------------------------------------------------------------------
(* Sequences *)

\* What Append does, element by element.
LEMMA AppendElements ==
  ASSUME NEW S, NEW s \in Seq(S), NEW e \in S
  PROVE  /\ Append(s, e) \in Seq(S)
         /\ DOMAIN s = 1 .. Len(s) /\ Len(s) \in Nat
         /\ DOMAIN Append(s, e) = 1 .. Len(s) + 1
         /\ \A i \in 1 .. Len(s) + 1 : Append(s, e)[i] = IF i = Len(s) + 1 THEN e ELSE s[i]
<1>1. Append(s, e) \in Seq(S) /\ Len(Append(s, e)) = Len(s) + 1
  OBVIOUS
<1> QED
  BY <1>1

\* What Tail does, element by element.
LEMMA TailElements ==
  ASSUME NEW S, NEW s \in Seq(S), s # << >>
  PROVE  /\ Tail(s) \in Seq(S) /\ Head(s) \in S /\ Head(s) = s[1]
         /\ DOMAIN s = 1 .. Len(s) /\ Len(s) \in Nat \ {0}
         /\ DOMAIN Tail(s) = 1 .. Len(s) - 1
         /\ \A i \in 1 .. Len(s) - 1 : Tail(s)[i] = s[i + 1]
<1>1. Tail(s) \in Seq(S) /\ Len(Tail(s)) = Len(s) - 1
  OBVIOUS
<1>2. Len(s) \in Nat \ {0}
  OBVIOUS
<1>3. Head(s) \in S /\ Head(s) = s[1]
  OBVIOUS
<1>4. DOMAIN s = 1 .. Len(s) /\ DOMAIN Tail(s) = 1 .. Len(s) - 1
  BY <1>1, <1>2
<1>5. \A i \in 1 .. Len(s) - 1 : Tail(s)[i] = s[i + 1]
  BY <1>1, <1>2
<1> QED
  BY <1>1, <1>2, <1>3, <1>4, <1>5

\* What a stack's pop does, element by element.
LEMMA FrontElements ==
  ASSUME NEW S, NEW s \in Seq(S), s # << >>
  PROVE  LET f == SubSeq(s, 1, Len(s) - 1)
         IN  /\ f \in Seq(S) /\ s[Len(s)] \in S
             /\ DOMAIN s = 1 .. Len(s) /\ Len(s) \in Nat \ {0}
             /\ DOMAIN f = 1 .. Len(s) - 1
             /\ \A i \in 1 .. Len(s) - 1 : f[i] = s[i]
<1>1. Len(s) \in Nat \ {0} /\ DOMAIN s = 1 .. Len(s)
  OBVIOUS
<1>2. \A i \in 1 .. Len(s) - 1 : s[i] \in S
  BY <1>1
<1>3. /\ SubSeq(s, 1, Len(s) - 1) \in Seq(S)
      /\ Len(SubSeq(s, 1, Len(s) - 1)) = Len(s) - 1
      /\ \A i \in 1 .. Len(s) - 1 : SubSeq(s, 1, Len(s) - 1)[i] = s[i]
  BY <1>1, <1>2
<1>4. DOMAIN SubSeq(s, 1, Len(s) - 1) = 1 .. Len(s) - 1
  BY <1>1, <1>3
<1>5. s[Len(s)] \in S
  BY <1>1
<1> QED
  BY <1>1, <1>3, <1>4, <1>5

\* A sequence without elements is empty.
LEMMA NoElements ==
  ASSUME NEW S, NEW s \in Seq(S), \A i \in DOMAIN s : FALSE
  PROVE  s = << >>
<1> SUFFICES ASSUME s # << >> PROVE FALSE
  OBVIOUS
<1>1. Len(s) \in Nat \ {0} /\ DOMAIN s = 1 .. Len(s)
  OBVIOUS
<1>2. 1 \in DOMAIN s
  BY <1>1
<1> QED
  BY <1>2

==============================================================================
