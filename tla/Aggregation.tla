----------------------------- MODULE Aggregation ------------------------------
(***************************************************************************)
(* operators/aggregate/hash_aggregate.cc (the aggregate of the planner),       *)
(* operators/aggregate/aggregate.cc and operators/expression.cc.             *)
(*                                                                         *)
(* An aggregate is [kernel, table, col, expr]; expr is None, or a postfix      *)
(* expression: a sequence of columns [col] and operators [op].  Columns of the  *)
(* GROUP BY are [table, col]; of the ORDER BY [table, col, desc], where table   *)
(* is None for the aggregate itself.                                        *)
(***************************************************************************)
EXTENDS StarJoin, Bitwise

CONSTANTS
  CombineFactor,    \* 0x9e3779b9
  TenPower          \* the base of the keys of Aggregate (10)

Sum(S, f(_)) == FoldSet(LAMBDA x, n : f(x) + n, 0, S)

------------------------------------------------------------------------------
(* Expressions *)

\* Division of integers, towards zero.
Quotient(v, w) ==
  LET abs(n) == IF n < 0 THEN -n ELSE n
      q == abs(v) \div abs(w)
  IN  IF (v < 0) # (w < 0) THEN -q ELSE q

\* Division by zero ends the process (Evaluate's fault); its value is not used.
Arithmetic(op, v, w) ==
  CASE op = "PLUS" -> v + w [] op = "MINUS" -> v - w [] op = "STAR" -> v * w
    [] op = "SLASH" -> IF w = 0 THEN 0 ELSE Quotient(v, w)

\* Where ExecuteBlock writes: a new array if both operands are columns, else the
\* memory of the left operand, which is the column itself if only the right
\* operand is a result.
Target(left, right) == IF ~left.is_result /\ ~right.is_result THEN None ELSE left.place

\* What an operand of the stack reads: columns that have been written, as they are now.
Operand(state, elem) ==
  IF Given(elem.place) /\ elem.place[1] \in DOMAIN state.written
  THEN state.written[elem.place[1]] ELSE elem.chunk

\* One element of the postfix expression, on the stack of operands and the chunks
\* written so far, by the column they belong to.
EvaluateStep(state, elem, i, columns) ==
  LET stack == state.stack
      left == Operand(state, stack[Len(stack) - 1])
      right == Operand(state, Last(stack))
      result == [j \in DOMAIN left |-> Arithmetic(elem.op, left[j], right[j])]
      place == Target(stack[Len(stack) - 1], Last(stack))
  IN  IF "col" \in DOMAIN elem
      THEN [state EXCEPT !.stack = Append(@, [is_result |-> FALSE, place |-> Some(elem.col),
                                             chunk |-> columns[elem.col][i]])]
      ELSE [stack |-> Append(SubSeq(stack, 1, Len(stack) - 2),
                             [is_result |-> TRUE, place |-> place, chunk |-> result]),
            written |-> IF Given(place) THEN (place[1] :> result) @@ state.written ELSE state.written,
            fault |-> state.fault \/ (elem.op = "SLASH" /\ 0 \in Values(right))]

\* Expression::Evaluate, for chunk i: the result, the chunks written, and whether
\* a zero divided.
Evaluate(expr, i, columns) ==
  LET state == FoldLeft(LAMBDA s, elem : EvaluateStep(s, elem, i, columns),
                        [stack |-> << >>, written |-> << >>, fault |-> FALSE], expr)
  IN  [chunk |-> Operand(state, Last(state.stack)), written |-> state.written, fault |-> state.fault]

------------------------------------------------------------------------------
(* HashAggregateStrategy *)

suggestedNumTasks(num_chunks) == IF num_chunks < Threads THEN num_chunks ELSE Threads

\* Chunks of the task; an interval that may be empty.
getChunkID(task_id, num_chunks) ==
  LET M == (num_chunks + Threads - 1) \div Threads
      m == num_chunks \div Threads
      FR == num_chunks % Threads
      start == IF task_id < FR THEN M * task_id ELSE M * FR + m * (task_id - FR)
      end == IF task_id < FR THEN M * (task_id + 1) ELSE M * FR + m * (task_id + 1 - FR)
  IN  start + 1 .. (IF end > num_chunks THEN num_chunks ELSE end)

\* 0 ^ and + of HashBits bits; std::hash of an integer is the integer.
HashCombine(seed, val) ==
  seed ^^ ((val + CombineFactor + seed * 64 + seed \div 4) % 2 ^ HashBits)

------------------------------------------------------------------------------
(* HashAggregate *)

NewHashAggregate(result, aggregate, group_by, order_by) ==
  [kind |-> "hash_aggregate", links |-> 6, prev |-> result, aggregate |-> aggregate,
   group_by |-> group_by, order_by |-> order_by,
   group_by_cols |-> [g \in DOMAIN group_by |-> << >>], agg_col |-> << >>, filter |-> None,
   local |-> << >>, global |-> << >>, written |-> {}, out |-> << >>]

GroupColumn(op, g) ==
  MaterializeUnfiltered(get_table(op.prev, op.group_by[g].table), op.group_by[g].col)

\* The chunks to aggregate.  An expression keeps no filter.
AggregateColumn(op) ==
  LET lazy == get_table(op.prev, op.aggregate.table)
  IN  IF Given(op.aggregate.expr)
      THEN [op EXCEPT !.agg_col = MaterializeUnfiltered(lazy, op.aggregate.expr[1][1].col)]
      ELSE [op EXCEPT !.agg_col = MaterializeUnfiltered(lazy, op.aggregate.col),
                      !.filter = lazy.filter]

\* What a task aggregates in chunk i.
Evaluated(op, i) ==
  LET lazy == get_table(op.prev, op.aggregate.table)
      expr == op.aggregate.expr[1]
      cols == {elem.col : elem \in {x \in Range(expr) : "col" \in DOMAIN x}}
  IN  IF Given(op.aggregate.expr)
      THEN Evaluate(expr, i, [c \in cols |-> MaterializeUnfiltered(lazy, c)])
      ELSE [chunk |-> op.agg_col[i], written |-> << >>, fault |-> FALSE]

\* The GROUP BY columns after the expression has been evaluated on some chunks: a
\* lazy table keeps its columns, so an overwritten one is the GROUP BY column too.
Overwrite(op, chunks) ==
  LET written(g, i) == LET w == Evaluated(op, i).written
                       IN  IF op.group_by[g].table = op.aggregate.table /\ op.group_by[g].col \in DOMAIN w
                           THEN w[op.group_by[g].col] ELSE op.group_by_cols[g][i]
  IN  IF ~Given(op.aggregate.expr) THEN op ELSE
      [op EXCEPT !.group_by_cols = [g \in DOMAIN @ |-> [i \in DOMAIN @[g] |->
                                      IF i \in chunks THEN written(g, i) ELSE @[g][i]]],
                 !.written = @ \cup UNION {DOMAIN Evaluated(op, i).written : i \in chunks}]

KeyOfRow(op, row) ==
  FoldLeft(LAMBDA key, column : HashCombine(key, column[row[1]][row[2]]), 0, op.group_by_cols)

Kernel(op, v) == IF op.aggregate.kernel = "COUNT" THEN 1 ELSE v

NoMaps == [value |-> << >>, count |-> << >>, tuple |-> << >>]

\* A row [chunk, item] with value v, into the maps of a task.  The tuple of a key
\* is its first row.
Accumulate(op, maps, row, v) ==
  LET k == KeyOfRow(op, row)
      plus(map, n) == (k :> (IF k \in DOMAIN map THEN map[k] ELSE 0) + n) @@ map
  IN  [value |-> plus(maps.value, Kernel(op, v)), count |-> plus(maps.count, 1),
       tuple |-> maps.tuple @@ (k :> row)]

\* FirstPhaseAggregateChunk_
FirstPhaseChunk(op, i, chunk, maps) ==
  FoldLeft(LAMBDA m, j : IF Passes(op.filter, i, j) THEN Accumulate(op, m, <<i, j>>, chunk[j]) ELSE m,
           maps, [j \in DOMAIN chunk |-> j])

\* FirstPhaseAggregateChunks: the maps of task tid.  The expression is evaluated on
\* a chunk before its rows are hashed.
FirstPhase(op, tid, chunks) ==
  LET after == Overwrite(op, chunks)
      chunk == [i \in chunks |-> Evaluated(op, i).chunk]
  IN  [after EXCEPT !.local[tid] =
         FoldLeft(LAMBDA m, i : FirstPhaseChunk(after, i, chunk[i], m), NoMaps, SetToSortSeq(chunks, <))]

\* A division by zero in the chunks of a task.
Faults(op, chunks) == Given(op.aggregate.expr) /\ \E i \in chunks : Evaluated(op, i).fault

\* Mutant: the value of the last map that has the key.
MergeMaps_last(kernel, big, map) ==
  [value |-> map.value @@ big.value, count |-> big.count @@ map.count, tuple |-> big.tuple @@ map.tuple]

\* SecondPhaseAggregate, for one local map.  For MEAN, the count of a key that
\* is there already is added to its value.
MergeMaps(kernel, big, map) ==
  [value |-> [k \in DOMAIN big.value \cup DOMAIN map.value |->
                (IF k \in DOMAIN big.value THEN big.value[k] ELSE 0) +
                (IF k \in DOMAIN map.value THEN map.value[k] ELSE 0) +
                (IF kernel = "MEAN" /\ k \in DOMAIN big.value \cap DOMAIN map.value
                 THEN map.count[k] ELSE 0)],
   count |-> big.count @@ map.count,
   tuple |-> big.tuple @@ map.tuple]

\* Aggregates: integers, and fractions for MEAN.
Result(op, k) ==
  IF op.aggregate.kernel = "MEAN" THEN <<op.global.value[k], op.global.count[k]>>
  ELSE op.global.value[k]

------------------------------------------------------------------------------
(* SortResult, the same in both aggregates.  A row is [group, value].          *)

\* The group columns that the ORDER BY columns stand for: all those of their
\* tables, whatever their names.
order_to_group(op) ==
  FlattenSeq([o \in DOMAIN op.order_by |->
    SelectSeq([g \in DOMAIN op.group_by |-> g],
              LAMBDA g : op.order_by[o].table = Some(op.group_by[g].table))])

\* Mutant: the columns of the ORDER BY are those of the GROUP BY.
SortKey_same(op, o, row) ==
  IF Given(op.order_by[o].table) THEN row.group[o] ELSE row.value

SortKey(op, o, row) ==
  IF Given(op.order_by[o].table) THEN row.group[order_to_group(op)[o]] ELSE row.value

\* The stable sorts by the last ORDER BY column, the one before it, and so on.
SortResult(op, rows) ==
  LET first(a, b, o) ==
        /\ \A p \in 1 .. o - 1 : SortKey(op, p, a) = SortKey(op, p, b)
        /\ SortKey(op, o, a) # SortKey(op, o, b)
      before(a, b) ==
        \E o \in DOMAIN op.order_by :
          first(a, b, o) /\ (SortKey(op, o, a) < SortKey(op, o, b)) # op.order_by[o].desc
  IN  SortSeq(rows, before)

------------------------------------------------------------------------------

\* One row for each entry of the tuple map, sorted.
HashAggregateResult(op) ==
  LET group(r) == [g \in DOMAIN op.group_by |-> op.group_by_cols[g][r[1]][r[2]]]
  IN  SortResult(op, SetToSeq({[group |-> group(op.global.tuple[k]), value |-> Result(op, k)] :
                                 k \in DOMAIN op.global.tuple}))

HashAggregateLink(op, link) ==
  LET n == Len(op.agg_col)
  IN  CASE link = 1 -> [op |-> op, tasks |-> {[do |-> "group", g |-> g] : g \in DOMAIN op.group_by}]
        [] link = 2 -> [op |-> AggregateColumn(op), tasks |-> {}]
        [] link = 3 -> [op |-> [op EXCEPT !.local = [t \in 1 .. suggestedNumTasks(n) |-> NoMaps]],
                        tasks |-> {}]
        [] link = 4 -> [op |-> op,
                        tasks |-> {[do |-> "first", tid |-> t] :
                                     t \in {u \in DOMAIN op.local : getChunkID(u - 1, n) # {}}}]
        [] link = 5 -> [op |-> [op EXCEPT !.global =
                                  FoldLeft(LAMBDA big, map : MergeMaps(op.aggregate.kernel, big, map),
                                           NoMaps, op.local)],
                        tasks |-> {}]
        [] link = 6 -> [op |-> [op EXCEPT !.out = HashAggregateResult(op)], tasks |-> {}]

\* The chunks of a task of the first phase.
ChunksOf(op, task) == getChunkID(task.tid - 1, Len(op.agg_col))

HashAggregateTask(op, task) ==
  [op |-> IF task.do = "group"
          THEN [op EXCEPT !.group_by_cols[task.g] = GroupColumn(op, task.g)]
          ELSE FirstPhase(op, task.tid, ChunksOf(op, task)),
   tasks |-> {}]

==============================================================================
