------------------------------ MODULE TaskGraph ------------------------------
(***************************************************************************)
(* What the scheduler promises to its clients, without threads, queues,    *)
(* messages or locks: a graph of tasks and continuations that grows while  *)
(* it is executed.  A task starts, once, when every node it waits for is   *)
(* over; a continuation is passed likewise; an edge is only ever added to  *)
(* a node that has not started or been passed; and the graph is thrown     *)
(* away only when every task has finished.                                 *)
(***************************************************************************)
CONSTANTS Task, Continuation

VARIABLES
  added,     \* tasks in the graph
  edges,     \* pairs <<dependency, dependent>>
  started, finished,
  passed     \* continuations nothing waits for any more

graph == <<added, edges, started, finished, passed>>

Over(n) == n \in finished \cup passed

\* No step may give these another dependency.
Closed(n) == n \in started \cup passed

Ready(n) == \A e \in edges : e[2] = n => Over(e[1])

Init ==
  /\ added = {} /\ edges = {} /\ started = {} /\ finished = {} /\ passed = {}

\* A task and its edges: it waits for nodes, and nodes wait for it.
Add(t) ==
  /\ t \notin added
  /\ added' = added \cup {t}
  /\ \E before, after \in SUBSET Continuation :
       /\ \A c \in before \cup after : ~Closed(c)
       /\ edges' = edges \cup {<<c, t>> : c \in before} \cup {<<t, c>> : c \in after}
  /\ UNCHANGED <<started, finished, passed>>

Start(t) ==
  /\ t \in added \ started
  /\ Ready(t)
  /\ started' = started \cup {t}
  /\ UNCHANGED <<added, edges, finished, passed>>

Finish(t) ==
  /\ t \in started \ finished
  /\ finished' = finished \cup {t}
  /\ UNCHANGED <<added, edges, started, passed>>

Pass(c) ==
  /\ c \notin passed
  /\ Ready(c)
  /\ passed' = passed \cup {c}
  /\ UNCHANGED <<added, edges, started, finished>>

\* An edge between nodes of the graph.
Link(c, n) ==
  /\ ~Closed(c) /\ ~Closed(n)
  /\ edges' = edges \cup {<<c, n>>}
  /\ UNCHANGED <<added, started, finished, passed>>

\* The end of an epoch.
Reset ==
  /\ finished = added
  /\ added' = {} /\ edges' = {} /\ started' = {} /\ finished' = {} /\ passed' = {}

Next ==
  \/ \E t \in Task : Add(t) \/ Start(t) \/ Finish(t)
  \/ \E c \in Continuation : Pass(c) \/ \E n \in Task \cup Continuation : Link(c, n)
  \/ Reset

Spec == Init /\ [][Next]_graph

==============================================================================
