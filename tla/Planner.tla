-------------------------------- MODULE Planner --------------------------------
(****************************************************************************)
(* From a SELECT to an execution plan: resolveSelect, createPlan and the    *)
(* greedy reordering of joins.                                              *)
(*                                                                          *)
(* An operator is named by the result it writes: the select of a table, the *)
(* i-th join, the aggregate.  A table that no operator selects from is its  *)
(* own result.                                                              *)
(****************************************************************************)
EXTENDS Resolver, DisjointSetForest

VARIABLES
  query,      \* the query
  phase,      \* "new", then how far resolveSelect got, or "reordering"
  resolver,   \* the SelectResolver
  plan,       \* the ExecutionPlan
  reorder     \* the variables of ApplyJoinReordering

vars == <<query, phase, resolver, plan, reorder>>

Result(op, table, i) == [op |-> op, table |-> table, i |-> i]
NoResult == Result("none", "", 0)
TableResult(t) == Result("table", t, 0)
JoinResult(i) == Result("join", "", i)
AggregateResult == Result("aggregate", "", 0)

NoPlan == [operators |-> << >>, dependents |-> {}, result_out |-> NoResult, result_cols |-> << >>]

\* The elements in the order of the iteration over an unordered_map.
InAnyOrder(S) == FoldSet(LAMBDA x, s : Append(s, x), << >>, S)

-----------------------------------------------------------------------------
(* build_select, build_linear_join, build_join, build_aggregate *)

\* The operator that is made for a table of FROM.
SelectKind(r, t) ==
  LET joined == t \in DOMAIN r.join_predicates
      several == Cardinality(DOMAIN r.join_predicates) > 1
  IN IF joined /\ several THEN "SelectBuildHash"
     ELSE IF r.select_predicates[t] = NoTree THEN "none"
     ELSE IF joined \/ several THEN "SelectBuildHash" ELSE "Select"

SelectResult(r, t) ==
  IF SelectKind(r, t) = "none" THEN TableResult(t) ELSE Result("select", t, 0)

Selected(r) == {t \in DOMAIN r.select_predicates : SelectKind(r, t) # "none"}

build_select(r) ==
  {[name |-> SelectResult(r, t), kind |-> SelectKind(r, t), inputs |-> <<TableResult(t)>>,
    predicates |-> << >>] : t \in Selected(r)}

LeftInput_table(r, i) == SelectResult(r, r.predicates[i].left_col.table)

\* Each join takes the previous one's result, and that of its right table.
LeftInput(r, i) ==
  IF i = 1 THEN SelectResult(r, r.predicates[i].left_col.table) ELSE JoinResult(i - 1)

build_linear_join(r) ==
  {[name |-> JoinResult(i), kind |-> "HashJoin",
    inputs |-> <<LeftInput(r, i), SelectResult(r, r.predicates[i].right_col.table)>>,
    predicates |-> <<r.predicates[i]>>] : i \in DOMAIN r.predicates}

build_join(r) ==
  LET preds == Range(r.join_predicates)
  IN {[name |-> JoinResult(1),
       kind |-> IF Cardinality(preds) > 1 /\ Selected(r) # {} THEN "FilterJoin" ELSE "MultiwayJoin",
       inputs |-> InAnyOrder({SelectResult(r, t) : t \in DOMAIN r.select_predicates}),
       predicates |-> InAnyOrder(preds)]}

NumJoins(r) == IF r.join_type = "STAR" THEN 1 ELSE Len(r.predicates)

build_aggregate(r) ==
  IF r.agg_references = << >> THEN {}
  ELSE {[name |-> AggregateResult, kind |-> "HashAggregate",
         inputs |-> <<JoinResult(NumJoins(r))>>, predicates |-> << >>]}

build_output_cols(r) ==
  [k \in DOMAIN r.project_references |->
     [r.project_references[k] EXCEPT !.table = IF r.agg_references # << >> THEN "" ELSE @]]

JoinLinks_back(r) == {<<JoinResult(i + 1), JoinResult(i)>> : i \in 1 .. NumJoins(r) - 1}

\* Join i is linked to join i + 1.
JoinLinks(r) == {<<JoinResult(i), JoinResult(i + 1)>> : i \in 1 .. NumJoins(r) - 1}

\* createLink: every select before the first join, and the last join before the
\* aggregate.
Links(r) ==
  {<<SelectResult(r, t), JoinResult(1)>> : t \in Selected(r)} \cup JoinLinks(r)
    \cup {<<JoinResult(NumJoins(r)), AggregateResult>> : k \in DOMAIN r.agg_references}

\* A chain of joins without an aggregate sets no result of its own.
ResultOut(r) ==
  IF r.agg_references # << >> THEN AggregateResult
  ELSE IF r.join_type = "STAR" THEN JoinResult(1) ELSE NoResult

\* Two aggregates, or the assertion that a plan without a join has one table.
Asserts(r) ==
  Len(r.agg_references) <= 1 /\ (ResultOut(r) = NoResult => Selected(r) = {})

createPlan(r) ==
  [operators |-> InAnyOrder(build_select(r) \cup build_aggregate(r) \cup
                   (IF r.join_type = "STAR" THEN build_join(r) ELSE build_linear_join(r))),
   dependents |-> Links(r), result_out |-> ResultOut(r), result_cols |-> build_output_cols(r)]

-----------------------------------------------------------------------------
Init(q) ==
  /\ query = q
  /\ phase = "new" /\ resolver = SelectResolver /\ plan = NoPlan /\ reorder = << >>

\* The first half of resolveSelect; what is not supported is left to SQLite.
Resolve ==
  /\ phase = "new"
  /\ \E s \in ResolveSelectTree(query) :
       /\ resolver' = s.r
       /\ phase' = IF s.ok THEN "resolved" ELSE IF s.r.aborted THEN "aborted" ELSE "sqlite"
  /\ UNCHANGED <<query, plan, reorder>>

\* The second half: a predicate of no table of the catalog gives no plan.
Plan ==
  /\ phase = "resolved"
  /\ IF DOMAIN resolver.select_predicates \subseteq DOMAIN num_rows
     THEN IF Asserts(resolver)
          THEN phase' = "planned" /\ plan' = createPlan(resolver)
          ELSE phase' = "aborted" /\ plan' = plan
     ELSE phase' = "sqlite" /\ plan' = plan
  /\ UNCHANGED <<query, resolver, reorder>>

-----------------------------------------------------------------------------
(* ReorderJoin::ApplyJoinReordering, on the predicates of a query *)

NoGroup == [operators |-> << >>, result_out |-> NoResult]

\* The predicates in a queue, every table in a set of its own.
StartReordering ==
  LET preds == ResolveJoinPredExpr(query.where, SelectResolver).predicates
  IN /\ phase = "new" /\ preds # << >>
     /\ phase' = "reordering"
     /\ reorder' = [queue |-> preds,
          forest |-> FoldLeft(LAMBDA f, p : makeSet(makeSet(f, p.left_col.table), p.right_col.table),
                              Forest, preds),
          plans |-> << >>, final |-> 0, taken |-> << >>]
     /\ UNCHANGED <<query, resolver, plan>>

est_size(p) == num_rows[p.left_col.table] * num_rows[p.right_col.table]

\* The plan of a group, or its single table.
InputResult(plans, table, grp) ==
  IF grp \in DOMAIN plans THEN plans[grp].result_out ELSE TableResult(table)

Group(plans, grp) == IF grp \in DOMAIN plans THEN plans[grp] ELSE NoGroup

\* ExecutionPlan::merge: the other plan's operators after its own.
MergePlans(p1, p2, out) == [operators |-> p1.operators \o p2.operators, result_out |-> out]

\* One round of the loop: the cheapest join, of equal ones any, joins two
\* groups; a join within a group is an error.
ReorderStep ==
  /\ phase = "reordering" /\ reorder.queue # << >>
  /\ \E i \in DOMAIN reorder.queue :
       LET pred == reorder.queue[i]
           l == pred.left_col.table
           t == pred.right_col.table
           forest == compress_path(compress_path(reorder.forest, l), t)
           lgrp == find(reorder.forest, l)
           rgrp == find(reorder.forest, t)
           out == JoinResult(Len(reorder.taken) + 1)
           join == [name |-> out, kind |-> "HashJoin", predicates |-> <<pred>>,
                    inputs |-> <<InputResult(reorder.plans, l, lgrp),
                                 InputResult(reorder.plans, t, rgrp)>>]
           right == Group(reorder.plans, rgrp)
           both == MergePlans(Group(reorder.plans, lgrp),
                              [right EXCEPT !.operators = Append(@, join)], out)
           merged == merge(forest, l, t)
           id == find(merged, l)
       IN /\ \A j \in DOMAIN reorder.queue : est_size(pred) <= est_size(reorder.queue[j])
          /\ IF lgrp = rgrp
             THEN phase' = "thrown" /\ reorder' = reorder
             ELSE /\ phase' = phase
                  /\ reorder' = [queue |-> RemoveAt(reorder.queue, i),
                                 forest |-> compress_path(merged, l),
                                 plans |-> [g \in (DOMAIN reorder.plans \ {rgrp}) \cup {lgrp, id} |->
                                    IF g \in {lgrp, id} THEN both ELSE reorder.plans[g]],
                                 final |-> id, taken |-> Append(reorder.taken, pred)]
  /\ UNCHANGED <<query, resolver, plan>>

Next == Resolve \/ Plan \/ StartReordering \/ ReorderStep

-----------------------------------------------------------------------------
(* What the query says *)

\* The terms of a left-deep conjunction, in order.
RECURSIVE Terms(_)
Terms(e) ==
  CASE e.op = "NULL" -> << >>
    [] e.op = "AND" -> Append(Terms(e.pLeft), e.pRight)
    [] OTHER -> <<e>>

IsJoin(e) == e.op = "EQ" /\ e.pLeft.op = "COLUMN" /\ e.pRight.op = "COLUMN"

IsComparison(e) ==
  e.op \in Comparison /\ e.pLeft.op = "COLUMN" /\ e.pRight.op \in {"INTEGER", "STRING"}

IsFilter(e) ==
  \/ IsComparison(e)
  \/ e.op = "BETWEEN" /\ e.pLeft.op = "COLUMN" /\ e.low.op = "INTEGER" /\ e.high.op = "INTEGER"
  \/ e.op = "OR" /\ IsComparison(e.pLeft) /\ IsComparison(e.pRight)
       /\ e.pLeft.pLeft.table = e.pRight.pLeft.table

TableOf(e) == IF e.op = "OR" THEN e.pLeft.pLeft.table ELSE e.pLeft.table

\* What a term demands of the rows of its table: the leaves and ORs it joins.
RECURSIVE Demands(_)
Demands(e) ==
  CASE e.op = "BETWEEN" -> {Leaf("GE", ColumnReference(e.pLeft), e.low.value),
                            Leaf("LE", ColumnReference(e.pLeft), e.high.value)}
    [] e.op = "OR" -> {[either |-> Demands(e.pLeft), other |-> Demands(e.pRight)]}
    [] OTHER -> {Leaf(e.op, ColumnReference(e.pLeft), e.pRight.value)}

\* What a predicate tree demands.
RECURSIVE TreeDemands(_)
TreeDemands(node) ==
  CASE node.op = "AND" -> TreeDemands(node.left) \cup TreeDemands(node.right)
    [] node.op = "OR" -> {[either |-> TreeDemands(node.left), other |-> TreeDemands(node.right)]}
    [] OTHER -> {node}

Where == Terms(query.where)

Filters(t) == {i \in DOMAIN Where : IsFilter(Where[i]) /\ TableOf(Where[i]) = t}

\* Equalities of two tables, and filters of one, where a table has one filter, or
\* a comparison more at the end, and the clause does not begin with two filters of
\* which one is an OR.
Regular ==
  /\ \A i \in DOMAIN Where :
       \/ IsJoin(Where[i]) /\ Where[i].pLeft.table # Where[i].pRight.table
       \/ IsFilter(Where[i]) /\
            \/ \A j \in Filters(TableOf(Where[i])) : i <= j
            \/ i = Len(Where) /\ i > 2 /\ IsComparison(Where[i])
  /\ Len(Where) >= 2 /\ IsFilter(Where[1]) /\ IsFilter(Where[2]) =>
       Where[1].op # "OR" /\ Where[2].op # "OR"

Joins == {i \in DOMAIN Where : IsJoin(Where[i])}

JoinTables(p) == {p.left_col.table, p.right_col.table}

-----------------------------------------------------------------------------
(* Properties *)

\* ResolvePredExpr finds for every table exactly the filters that the WHERE
\* clause has for it, whatever joins and filters of other tables are between.
FiltersExact ==
  phase \in {"resolved", "planned", "aborted"} /\ Regular =>
    /\ ~resolver.aborted
    /\ DOMAIN resolver.select_predicates = Range(query.from)
    /\ \A t \in Range(query.from) :
         LET tree == resolver.select_predicates[t]
         IN (IF tree = NoTree THEN {} ELSE TreeDemands(tree.root))
              = UNION {Demands(Where[i]) : i \in Filters(t)}

\* The tables whose rows a result of the plan is made of.
RECURSIVE Covers(_, _)
Covers(ops, result) ==
  LET writers == {i \in DOMAIN ops : ops[i].name = result}
  IN IF result.op = "table" THEN {result.table}
     ELSE UNION {UNION {Covers(ops, ops[i].inputs[k]) : k \in DOMAIN ops[i].inputs} : i \in writers}

\* A star around the left table of all predicates, or a path in which each
\* predicate begins where the previous one ended; no table twice on the right.
Shaped(r) ==
  /\ \A i, j \in DOMAIN r.predicates :
       i # j => r.predicates[i].right_col.table # r.predicates[j].right_col.table
  /\ UNION {JoinTables(r.predicates[i]) : i \in DOMAIN r.predicates} = Range(query.from)
  /\ \A i \in 2 .. Len(r.predicates) :
       r.predicates[i].left_col.table =
         IF r.join_type = "STAR" THEN r.predicates[1].left_col.table
         ELSE r.predicates[i - 1].right_col.table

\* The plan applies every join of the WHERE clause once, to inputs that have the
\* columns it compares, and its result is made of all the tables of FROM.
JoinsExact ==
  phase = "planned" /\ Shaped(resolver) /\ plan.result_out # NoResult =>
    LET ops == plan.operators
        joins == {i \in DOMAIN ops : ops[i].name.op = "join"}
    IN /\ Covers(ops, plan.result_out) = Range(query.from)
       /\ UNION {Range(ops[i].predicates) : i \in joins} = Range(resolver.predicates)
       /\ Cardinality(Joins) = Len(FlattenSeq([k \in 1 .. Len(ops) |-> ops[k].predicates]))
       /\ \A i \in joins : ops[i].kind = "HashJoin" =>
            /\ ops[i].predicates[1].left_col.table \in Covers(ops, ops[i].inputs[1])
            /\ {ops[i].predicates[1].right_col.table} = Covers(ops, ops[i].inputs[2])

\* b can be reached from a over the links.
RECURSIVE Reaches(_, _, _)
Reaches(links, a, b) == a = b \/ \E e \in links : e[1] = a /\ Reaches(links \ {e}, e[2], b)

\* Every operator is linked, through others perhaps, from the operators that write
\* its inputs, so that none reads a result before it is written; and the one that
\* writes the result of the plan comes after all of them.
ProducersLinked ==
  phase = "planned" =>
    \A i \in DOMAIN plan.operators :
      LET o == plan.operators[i]
      IN /\ \A k \in DOMAIN o.inputs :
              o.inputs[k].op # "table" => Reaches(plan.dependents, o.inputs[k], o.name)
         /\ plan.result_out # NoResult => Reaches(plan.dependents, o.name, plan.result_out)

RECURSIVE Connected(_, _)
Connected(preds, tables) ==
  LET more == tables \cup UNION {JoinTables(preds[i]) : i \in
                {j \in DOMAIN preds : JoinTables(preds[j]) \cap tables # {}}}
  IN IF more = tables THEN tables ELSE Connected(preds, more)

\* The greedy reordering: the sets of the forest are the tables that the joins
\* taken so far connect; every join has its two sides in two different inputs,
\* written by joins before it; and when the queue is empty the result of a
\* connected query is made of all its tables.  Only a cycle is refused.
ReorderExact ==
  /\ phase = "reordering" =>
       LET tables == DOMAIN reorder.forest.elements_map
           Of(t) == {u \in tables : find(reorder.forest, u) = find(reorder.forest, t)}
           ops == reorder.plans[reorder.final].operators
       IN /\ \A t \in tables : Of(t) = Connected(reorder.taken, {t})
          /\ reorder.taken # << >> =>
               /\ \A k \in DOMAIN ops :
                    LET p == ops[k].predicates[1]
                        before == SubSeq(ops, 1, k - 1)
                        side1 == Covers(before, ops[k].inputs[1])
                        side2 == Covers(before, ops[k].inputs[2])
                    IN p.left_col.table \in side1 /\ p.right_col.table \in side2
                         /\ side1 \cap side2 = {}
               /\ Covers(ops, reorder.plans[reorder.final].result_out)
                    = Of(reorder.taken[Len(reorder.taken)].left_col.table)
  /\ phase = "thrown" => \E i \in DOMAIN reorder.queue :
       LET p == reorder.queue[i]
       IN p.right_col.table \in Connected(reorder.taken, {p.left_col.table})

==============================================================================
