-------------------------------- MODULE Query ---------------------------------
(***************************************************************************)
(* The operators of a query at work.  A plan is a sequence of steps that        *)
(* create operators; a step names earlier steps by their numbers.  Operators    *)
(* run one after another (module ExecutionPlan shows that every operator runs   *)
(* after those it reads); the tasks of one link of an operator run in any order *)
(* (module Scheduler shows that the next link comes after all of them).  A query  *)
(* is lost when an exception that no one catches, a division by zero or a stray  *)
(* reference takes it out of what C++ defines.                                  *)
(***************************************************************************)
EXTENDS GroupAggregate

CONSTANT
  Queries           \* [workers, tables, where, predicates, aggregate, group_by, order_by, plan]

VARIABLES
  query,            \* the query, chosen at the start
  results,          \* the results of the operators that are done
  op,               \* the operator at work
  link,             \* the link of its chain that was started last
  todo,             \* tasks of the link that have not run
  waiting,          \* tasks that wait, on their workers, for other tasks
  lost              \* whether the query is lost

vars == <<query, results, op, link, todo, waiting, lost>>

ASSUME SizesAssumption ==
  {SliceLength, Threads, CHAR_BIT, HashBits, CellsPerValue} \subseteq Nat \ {0}

\* Operators are made from the steps of a plan.
Operator(step, res) ==
  CASE step.kind = "select" -> NewSelect(step.table, step.tree, step.hash_col)
    [] step.kind = "hash_join" -> NewHashJoin(res[step.left], res[step.right], step.predicate)
    [] step.kind = "multiway_join" ->
         NewMultiwayJoin([i \in DOMAIN step.inputs |-> res[step.inputs[i]]], step.predicates)
    [] step.kind \in {"lip", "filter_join"} ->
         NewStarJoin(step.kind, [i \in DOMAIN step.inputs |-> res[step.inputs[i]]],
                     step.predicates, step.num_chunks)
    [] step.kind = "hash_aggregate" ->
         NewHashAggregate(res[step.input], query.aggregate, query.group_by, query.order_by)
    [] step.kind = "aggregate" ->
         NewAggregate(res[step.input], query.aggregate, query.group_by, query.order_by)

\* The outcomes of a link, and of a task.
Links(k) ==
  CASE op.kind = "select" -> {SelectLink(op, k)}
    [] op.kind = "hash_join" -> {HashJoinLink(op, k)}
    [] op.kind = "multiway_join" -> {MultiwayLink(op, k)}
    [] op.kind \in {"lip", "filter_join"} -> StarJoinLinks(op, k)
    [] op.kind = "hash_aggregate" -> {HashAggregateLink(op, k)}
    [] op.kind = "aggregate" -> {AggregateLink(op, k)}

Task(t) ==
  CASE op.kind = "select" -> SelectTask(op, t)
    [] op.kind = "hash_join" -> HashJoinTask(op, t)
    [] op.kind = "multiway_join" -> MultiwayTask(op, t)
    [] op.kind \in {"lip", "filter_join"} -> StarJoinTask(op, t)
    [] op.kind = "hash_aggregate" -> HashAggregateTask(op, t)
    [] op.kind = "aggregate" -> AggregateTask(op, t)

\* The lazy tables whose columns the body of link k materializes, and task t.
LinkReads(k) ==
  LET p == op.predicates[(k - 1) \div 5 + 1]
  IN  CASE op.kind = "hash_join" /\ k = 1 ->
             {get_table(op.prev[1], op.predicate.left.table), get_table(op.prev[2], op.predicate.right.table)}
        [] op.kind = "multiway_join" /\ k % 5 = 1 /\ k < op.links ->
             {get_table(op.prev, p.left.table), get_table(op.prev, p.right.table)}
        [] op.kind \in {"hash_aggregate", "aggregate"} /\ k = 2 ->
             {get_table(op.prev, op.aggregate.table)}
        [] OTHER -> {}

TaskReads(t) ==
  CASE op.kind \in {"hash_aggregate", "aggregate"} /\ t.do \in {"group", "column"} ->
         {get_table(op.prev, op.group_by[t.g].table)}
    [] op.kind \in {"lip", "filter_join"} /\ t.do = "fk" -> {op.fact}
    [] OTHER -> {}

\* Context::apply_indices spawns one task for each slice, and blocks its worker
\* until other workers have run them: so does who materializes a joined table.
Waits(lazies) == \E lazy \in lazies : Given(lazy.indices)

\* Besides the workers that wait, n more.
FreeWorkers(n) == Cardinality(waiting) + n <= query.workers

\* Mutant: two tasks wait, one for each of the columns of a join.
Needed_both(k) == IF Waits(LinkReads(k)) THEN 3 ELSE 1

\* The workers that the body of link k needs: while it waits for slices, another.
Needed(k) == IF Waits(LinkReads(k)) THEN 2 ELSE 1

\* Tasks that throw or trap.
Fails(t) ==
  CASE op.kind = "select" -> Given(op.tree) /\ Unresolved(op.tree[1])
    [] op.kind = "filter_join" -> t.do = "build" /\ Unhashed(op, t.dim)
    [] op.kind = "hash_aggregate" -> t.do = "first" /\ Faults(op, ChunksOf(op, t))
    [] OTHER -> FALSE

\* ProbeHashTable gives its tasks a reference to a temporary of the link that
\* spawns them; whether it still names the column when they run is not defined.
Dangles(t) == op.kind = "hash_join"

LinkDone == todo = {} /\ waiting = {}

OperatorDone == LinkDone /\ link = op.links

Answered == OperatorDone /\ Len(results) + 1 = Len(query.plan)

------------------------------------------------------------------------------

Init ==
  /\ query \in Queries
  /\ results = << >>
  /\ op = Operator(query.plan[1], << >>)
  /\ link = 0
  /\ todo = {}
  /\ waiting = {}
  /\ lost = FALSE

\* The body of a link, on one worker.
StartLink ==
  /\ ~lost /\ LinkDone /\ link < op.links
  /\ FreeWorkers(Needed(link + 1))
  /\ \E next \in Links(link + 1) : op' = next.op /\ todo' = next.tasks
  /\ link' = link + 1
  /\ UNCHANGED <<query, results, waiting, lost>>

RunTask ==
  /\ ~lost /\ FreeWorkers(1)
  /\ \E t \in todo :
       /\ ~Waits(TaskReads(t)) /\ ~Fails(t)
       /\ LET next == Task(t) IN op' = next.op /\ todo' = (todo \ {t}) \cup next.tasks
  /\ UNCHANGED <<query, results, link, waiting, lost>>

\* A task spawns the slices of its column, and waits.
WaitForSlices ==
  /\ ~lost /\ FreeWorkers(1)
  /\ \E t \in todo : Waits(TaskReads(t)) /\ todo' = todo \ {t} /\ waiting' = waiting \cup {t}
  /\ UNCHANGED <<query, results, op, link, lost>>

\* Other workers have run the slices, and the task goes on.  In Aggregate it
\* holds mutex_ meanwhile; the tasks that wait for the mutex hold workers too.
Resume ==
  /\ ~lost /\ FreeWorkers(1)
  /\ \E t \in waiting :
       /\ waiting' = waiting \ {t}
       /\ LET next == Task(t) IN op' = next.op /\ todo' = todo \cup next.tasks
  /\ UNCHANGED <<query, results, link, lost>>

Lose ==
  /\ ~lost /\ FreeWorkers(1)
  /\ \E t \in todo : Fails(t) \/ Dangles(t)
  /\ lost' = TRUE
  /\ UNCHANGED <<query, results, op, link, todo, waiting>>

NextOperator ==
  /\ ~lost /\ OperatorDone /\ ~Answered
  /\ results' = Append(results, op.out)
  /\ op' = Operator(query.plan[Len(results) + 2], results')
  /\ link' = 0
  /\ UNCHANGED <<query, todo, waiting, lost>>

Next == StartLink \/ RunTask \/ WaitForSlices \/ Resume \/ Lose \/ NextOperator

\* Where Next is enabled: every task of todo and waiting needs a worker to go on.
CanStep ==
  /\ ~lost /\ ~Answered
  /\ IF LinkDone THEN link = op.links \/ FreeWorkers(Needed(link + 1)) ELSE FreeWorkers(1)

\* Workers run tasks as long as there are some: weak fairness of Next.
Fairness == []<>~CanStep \/ []<><<TRUE>>_vars

Spec == Init /\ [][Next]_vars /\ Fairness

------------------------------------------------------------------------------
(* The answers that SQL asks for, row by row *)

RECURSIVE Holds(_, _, _)
Holds(table, node, row) ==
  LET v == ValueAt(table.cols[node.col], row)
  IN  IF ~node.leaf
      THEN IF node.connective = "AND"
           THEN Holds(table, node.left, row) /\ Holds(table, node.right, row)
           ELSE Holds(table, node.left, row) \/ Holds(table, node.right, row)
      ELSE IF Given(node.value2) THEN node.value <= v /\ v <= node.value2[1]
      ELSE Compare(node.op, v, node.value)

\* A comparison with two values is one of bytes.
RECURSIVE InBytes(_, _)
InBytes(table, node) ==
  LET values == {node.value, node.value2[1]} \cup {ValueAt(table.cols[node.col], r) : r \in Rows(table.cols[node.col])}
  IN  IF ~node.leaf THEN InBytes(table, node.left) /\ InBytes(table, node.right)
      ELSE Given(node.value2) => node.value <= node.value2[1] /\ \A v \in values : UInt8(v) = v

WhereInBytes == \A n \in DOMAIN query.tables : Given(query.where[n]) => InBytes(query.tables[n], query.where[n][1])

AnyColumn(table) == table.cols[CHOOSE c \in DOMAIN table.cols : TRUE]

\* The rows of a table that the WHERE clause leaves.
RowsOf(name) ==
  LET table == query.tables[name]
  IN  {r \in Rows(AnyColumn(table)) : Given(query.where[name]) => Holds(table, query.where[name][1], r)}

Field(name, col, row) == ValueAt(query.tables[name].cols[col], row)

\* The joined rows of some tables: one row number for each of them.
JoinOf(names) ==
  {rows \in [names -> UNION {RowsOf(n) : n \in names}] :
     /\ \A n \in names : rows[n] \in RowsOf(n)
     /\ \A i \in DOMAIN query.predicates :
          LET p == query.predicates[i]
          IN  {p.left.table, p.right.table} \subseteq names =>
                Field(p.left.table, p.left.col, rows[p.left.table]) =
                Field(p.right.table, p.right.col, rows[p.right.table])}

GroupOf(rows) ==
  [g \in DOMAIN query.group_by |->
     Field(query.group_by[g].table, query.group_by[g].col, rows[query.group_by[g].table])]

\* What one joined row adds to its group: a column, or the value of a postfix
\* expression over columns.
Addend(rows) ==
  LET a == query.aggregate
      value(c) == Field(a.table, c, rows[a.table])
      push(s, e) == IF "col" \in DOMAIN e THEN Append(s, value(e.col))
                    ELSE Append(SubSeq(s, 1, Len(s) - 2), Arithmetic(e.op, s[Len(s) - 1], Last(s)))
  IN  IF a.kernel = "COUNT" THEN 1
      ELSE IF Given(a.expr) THEN Last(FoldLeft(push, << >>, a.expr[1]))
      ELSE value(a.col)

GroupsOf(joined) == {GroupOf(rows) : rows \in joined}

Total(joined, group) == Sum({rows \in joined : GroupOf(rows) = group}, Addend)

------------------------------------------------------------------------------
(* Properties *)

\* A column as the user sees it has the values of the rows, in their order.
Materialized(name, rows) ==
  \A c \in DOMAIN query.tables[name].cols :
    FlattenSeq(materialize(op.out, << [table |-> name, col |-> c] >>)[1])
      = [k \in DOMAIN rows |-> Field(name, c, rows[k])]

\* Select and SelectBuildHash pass exactly the rows that satisfy the predicate
\* tree, in whatever order the batches run, in the last byte of a bitmap too, and
\* although the minimum and maximum of a block may be older than its rows; numbers
\* are compared with two values (NOT_EQUAL) as bytes, so all of these are bytes.
SelectExact ==
  OperatorDone /\ op.kind = "select" /\ WhereInBytes =>
    Materialized(op.table.name, SetToSortSeq(RowsOf(op.table.name), <))

\* The hash table of SelectBuildHash, which its blocks fill in parallel under one
\* mutex, has every row that passes once, under its own key, and no other.
HashTableExact ==
  OperatorDone /\ op.kind = "select" /\ Given(op.hash_col) /\ WhereInBytes =>
    LET key(r) == Field(op.table.name, op.hash_col[1], r)
    IN  /\ DOMAIN op.hash_table = {key(r) : r \in RowsOf(op.table.name)}
        /\ \A v \in DOMAIN op.hash_table :
             /\ Values(op.hash_table[v]) = {r \in RowsOf(op.table.name) : key(r) = v}
             /\ IsInjective(op.hash_table[v])

\* The tables that the first join of a MultiwayJoin does not touch lose their
\* filters in it; those have one that SelectBuildHash put into a hash table.
FiltersHashed ==
  op.kind = "multiway_join" =>
    \A n \in {op.out[i].table.name : i \in DOMAIN op.out}
             \ {op.predicates[1].left.table, op.predicates[1].right.table} :
      Given(query.where[n]) => Given(get_table(op.out, n).hash_table)

\* After HashJoin, MultiwayJoin or FilterJoin the row numbers of all tables are
\* aligned: position by position they are the rows of the join, each once, and so are
\* the columns of an answer.
JoinExact ==
  /\ OperatorDone /\ op.kind \in {"hash_join", "multiway_join", "filter_join"}
  /\ FiltersHashed /\ WhereInBytes
  =>
    LET names == {op.out[i].table.name : i \in DOMAIN op.out}
        rows(n) == get_table(op.out, n).indices[1]
        positions == DOMAIN rows(CHOOSE n \in names : TRUE)
        joined == {[n \in names |-> rows(n)[k]] : k \in positions}
    IN  /\ \A n \in names : DOMAIN rows(n) = positions /\ Materialized(n, rows(n))
        /\ Cardinality(joined) = Cardinality(positions)
        /\ joined = JoinOf(names)

\* LIP loses no fact row that joins with every dimension, however its filters are
\* reordered between batches, and passes a row that does not join only if a
\* dimension came without a hash table.  (lip.cc says that it is not for a fact table
\* that has been joined before.)
LIPExact ==
  OperatorDone /\ op.kind = "lip" /\ ~Given(op.fact.indices) /\ WhereInBytes =>
    LET fact == op.fact.table.name
        kept == Last(op.out).indices[1]
        joining == {rows[fact] : rows \in JoinOf({op.out[i].table.name : i \in DOMAIN op.out})}
    IN  /\ joining \subseteq Values(kept)
        /\ IsInjective(kept)
        /\ (\A i \in DOMAIN op.dims : Given(op.dims[i].hash_table)) => Values(kept) = joining

\* The rows to aggregate are those of the WHERE clauses: not after a MultiwayJoin
\* that lost a filter, and not for an expression over a table that was not joined.
WhereApplied ==
  LET rows == JoinOf(DOMAIN query.tables)
      indices == get_table(op.prev, query.aggregate.table).indices
  IN  WhereInBytes /\
      IF Given(indices) THEN Len(indices[1]) = Cardinality(rows)
      ELSE Given(query.aggregate.expr) => ~Given(query.where[query.aggregate.table])

\* Distinct groups have distinct hashes.
KeysSeparate ==
  \A r1, r2 \in UNION {{<<i, j>> : j \in DOMAIN op.agg_col[i]} : i \in DOMAIN op.agg_col} :
    KeyOfRow(op, r1) = KeyOfRow(op, r2) =>
      \A g \in DOMAIN op.group_by :
        op.group_by_cols[g][r1[1]][r1[2]] = op.group_by_cols[g][r2[1]][r2[2]]

\* The columns that Expression::ExecuteBlock writes its results into (the left
\* operand of a result, unless it is a result too) are read nowhere else.
ReadOnce ==
  \A c \in op.written :
    /\ [table |-> query.aggregate.table, col |-> c] \notin Range(query.group_by)
    /\ Len(SelectSeq(query.aggregate.expr[1], LAMBDA e : e = [col |-> c])) = 1

\* A sum or count of HashAggregate, from the local maps of its tasks, is that of
\* the group in the joined and filtered rows, and every group is there, as long
\* as the hashes of the groups differ and an expression reads no column that it
\* has overwritten.  A mean is right if one task saw the group.
HashAggregateExact ==
  Answered /\ op.kind = "hash_aggregate" /\ KeysSeparate /\ WhereApplied /\ ReadOnce =>
    LET joined == JoinOf(DOMAIN query.tables)
        tasks(k) == {t \in DOMAIN op.local : k \in DOMAIN op.local[t].value}
    IN  /\ {op.out[i].group : i \in DOMAIN op.out} = GroupsOf(joined)
        /\ Len(op.out) = Cardinality(GroupsOf(joined))
        /\ \A i \in DOMAIN op.out :
             LET row == op.out[i]
                 total == Total(joined, row.group)
                 count == Cardinality({rows \in joined : GroupOf(rows) = row.group})
             IN  IF query.aggregate.kernel # "MEAN" THEN row.value = total
                 ELSE (\A k \in DOMAIN op.global.value : Cardinality(tasks(k)) = 1) =>
                        row.value[1] * count = total * row.value[2]

\* Aggregate finds the sum of every group with a positive sum, if the batches
\* reach all chunks and no column has more distinct values than the base of the
\* keys, and of a single group the count and the mean too; every group is emitted
\* once, with its own aggregate, whatever the order in which the tasks take the mutex.
GroupAggregateExact ==
  /\ Answered /\ op.kind = "aggregate"
  /\ WhereApplied
  /\ op.group_by # << >> => UNION {t.chunks : t \in Scans(op)} = DOMAIN op.agg_col
  /\ Cardinality(GroupIds(op)) > 1 => query.aggregate.kernel = "SUM"
  /\ \A g \in DOMAIN op.group_by : Len(op.unique_values[g]) <= TenPower
  => LET joined == JoinOf(DOMAIN query.tables)
         value(group) == IF query.aggregate.kernel = "MEAN"
                         THEN <<Total(joined, group), Cardinality(joined)>> ELSE Total(joined, group)
     IN  /\ Values(op.out) = {[group |-> group, value |-> value(group)] :
                                group \in {g \in GroupsOf(joined) : Total(joined, g) > 0}}
         /\ IsInjective(op.out)

\* The value that ORDER BY column o names in a row of the answer.
OrderValue(o, row) ==
  LET ref == query.order_by[o]
      named == SelectInSeq(query.group_by, LAMBDA g : Some(g.table) = ref.table /\ g.col = ref.col)
  IN  IF Given(ref.table) THEN row.group[named] ELSE row.value

\* The rows of an aggregate come in the order of the ORDER BY clause, when each
\* table has at most one GROUP BY column.  Aggregate sorts in ascending order only.
AnswerOrdered ==
  /\ Answered /\ op.kind \in {"hash_aggregate", "aggregate"}
  /\ \A g, h \in DOMAIN query.group_by : query.group_by[g].table = query.group_by[h].table => g = h
  /\ \A o \in DOMAIN query.order_by : query.order_by[o].desc => op.kind = "hash_aggregate"
  => \A a, b \in DOMAIN op.out :
       a < b => \A o \in DOMAIN query.order_by :
         (\A p \in 1 .. o - 1 : OrderValue(p, op.out[a]) = OrderValue(p, op.out[b])) =>
           LET x == OrderValue(o, op.out[a]) y == OrderValue(o, op.out[b])
           IN  IF query.order_by[o].desc THEN x >= y ELSE x <= y

\* What multiway_join.h says: filters are unchanged.  A table that has not been
\* joined yet still has the filter that its selection gave it.
FiltersUnchanged ==
  op.kind = "multiway_join" =>
    \A i \in DOMAIN op.prev :
      LET name == op.prev[i].table.name
      IN  name \notin op.finished /\ Given(query.where[name]) => Given(op.prev[i].filter)

\* More workers than tasks that may wait side by side: those of the GROUP BY
\* columns, or of the dimensions of a LIP or FilterJoin, or the body of a link.
EnoughWorkers ==
  /\ query.workers > 1
  /\ query.workers > Len(query.group_by)
  /\ \A i \in DOMAIN query.plan :
       query.plan[i].kind \in {"lip", "filter_join"} => query.workers > Len(query.plan[i].predicates)

\* With enough workers every query comes to an end: although links and tasks block
\* their workers until others have run the slices of a column, and Aggregate does
\* so under its mutex, somebody is always left to run them.
QueryEnds == EnoughWorkers => <>(Answered \/ lost)

==============================================================================
