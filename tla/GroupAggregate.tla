---------------------------- MODULE GroupAggregate ----------------------------
(***************************************************************************)
(* operators/aggregate/aggregate.cc: the aggregate that first enumerates all  *)
(* combinations of the distinct values of the GROUP BY columns, then adds each *)
(* row to its group, and last emits the groups in parallel under a mutex.      *)
(***************************************************************************)
EXTENDS Aggregation

NewAggregate(result, aggregate, group_by, order_by) ==
  [kind |-> "aggregate", links |-> 5, prev |-> result, aggregate |-> aggregate,
   group_by |-> group_by, order_by |-> order_by, group_by_index_map |-> << >>,
   group_by_cols |-> [g \in DOMAIN group_by |-> << >>],
   unique_values |-> [g \in DOMAIN group_by |-> << >>],
   unique_values_map |-> [g \in DOMAIN group_by |-> << >>],
   agg_col |-> << >>, aggregate_data |-> << >>, rows |-> << >>, out |-> << >>]

------------------------------------------------------------------------------
(* Initialize: a chain of three tasks for each GROUP BY column *)

\* InitializeGroupByColumn, under mutex_.  emplace keeps the first index that a
\* column name got.
InitializeGroupByColumn(op, g) ==
  [op EXCEPT !.group_by_index_map = @ @@ (op.group_by[g].col :> g),
             !.group_by_cols[g] = GroupColumn(op, g)]

\* arrow::compute::Unique: the values in the order of their first rows.
Unique(column) ==
  LET all == FlattenSeq(column)
  IN  FoldLeft(LAMBDA seen, v : IF v \in Values(seen) THEN seen ELSE Append(seen, v), << >>, all)

\* The index is read without mutex_, perhaps while another column is entered.  The
\* entry of this column was made by the task before it in the chain; the table of
\* std::unordered_map grows at its first entry and then holds thirteen, and a new
\* node is linked in front of the others, so the entry is found.
ComputeUniqueValues(op, g) ==
  [op EXCEPT !.unique_values[g] =
     Unique(op.group_by_cols[op.group_by_index_map[op.group_by[g].col]])]

\* Context::match: every value becomes its place among the distinct ones.
match(op, g) ==
  [op EXCEPT !.unique_values_map[g] =
     [i \in DOMAIN op.group_by_cols[g] |-> [j \in DOMAIN op.group_by_cols[g][i] |->
        SelectInSeq(op.unique_values[g], LAMBDA v : v = op.group_by_cols[g][i][j]) - 1]]]

------------------------------------------------------------------------------
(* Groups: one number below the count of distinct values for each column *)

GroupIds(op) ==
  {id \in [DOMAIN op.group_by -> 0 .. FoldLeft(LAMBDA n, u : n + Len(u), 0, op.unique_values)] :
     \A g \in DOMAIN op.group_by : id[g] < Len(op.unique_values[g])}

\* Mutant: the numbers of a group are added up.
Key_sum(id) == FoldLeft(LAMBDA key, k : key + id[k], 0, [k \in DOMAIN id |-> k])

Key(id) == FoldLeft(LAMBDA key, k : key + id[k] * TenPower ^ (k - 1), 0, [k \in DOMAIN id |-> k])

\* The order of the nested loop.
Earlier(id, other) ==
  \E k \in DOMAIN id : id[k] < other[k] /\ \A h \in 1 .. k - 1 : id[h] = other[h]

\* group_agg_index_map_[key]: the last group that was given the key.
GroupOfKey(op, key) ==
  CHOOSE id \in GroupIds(op) :
    Key(id) = key /\ ~\E other \in GroupIds(op) : Key(other) = key /\ Earlier(id, other)

\* InitializeGroupFilters: as many batches of chunks as the GROUPS need.
Scans(op) ==
  LET n == Len(op.agg_col)
      size == IF n \div Threads = 0 THEN n ELSE n \div Threads
  IN  IF op.group_by = << >> THEN {}
      ELSE {[do |-> "scan", chunks |-> {i \in b * size + 1 .. (b + 1) * size : i <= n}] :
              b \in 0 .. (Cardinality(GroupIds(op)) - 1) \div size}

\* BlockScan, for the chunks of a batch: atomic additions, whatever the kernel.
BlockScan(op, chunks) ==
  LET rows == UNION {{<<i, j>> : j \in DOMAIN op.agg_col[i]} : i \in chunks}
      group(r) == GroupOfKey(op, Key([g \in DOMAIN op.group_by |-> op.unique_values_map[g][r[1]][r[2]]]))
  IN  [op EXCEPT !.aggregate_data = [id \in DOMAIN @ |->
         @[id] + Sum({r \in rows : group(r) = id}, LAMBDA r : op.agg_col[r[1]][r[2]])]]

------------------------------------------------------------------------------
(* ComputeGroupAggregate *)

\* A mean is the fraction of sum and count.
ComputeAggregate(kernel, column) ==
  LET sum == FoldLeft(LAMBDA n, v : n + v, 0, FlattenSeq(column))
  IN  CASE kernel = "SUM" -> sum
        [] kernel = "COUNT" -> Length(column)
        [] kernel = "MEAN" -> <<sum, Length(column)>>

\* A mean is a DoubleScalar read as an Int64Scalar: the bits of the double, which
\* are positive if the double is.
Positive(kernel, value) == IF kernel = "MEAN" THEN value[1] > 0 ELSE value > 0

\* A single group gets the aggregate of the column.  A group is emitted, under
\* mutex_, if its aggregate is positive.  The bits of a mean go into a DoubleBuilder.
ComputeGroupAggregate(op, id) ==
  LET single == Cardinality(GroupIds(op)) = 1
      value == IF single THEN ComputeAggregate(op.aggregate.kernel, op.agg_col) ELSE op.aggregate_data[id]
      row == [group |-> [g \in DOMAIN id |-> op.unique_values[g][id[g] + 1]], value |-> value]
      emit == IF single THEN Positive(op.aggregate.kernel, value) ELSE value > 0
  IN  [op EXCEPT !.aggregate_data[id] = value,
                 !.rows = IF emit THEN Append(@, row) ELSE @]

\* The batches of groups, in the order of the nested loop.
GroupBatches(op) ==
  LET ids == SetToSortSeq(GroupIds(op), Earlier)
      size == IF (Len(ids) \div Threads) \div 2 = 0 THEN Len(ids) ELSE (Len(ids) \div Threads) \div 2
  IN  {[do |-> "emit", ids |-> SubSeq(ids, b * size + 1,
                                      IF (b + 1) * size < Len(ids) THEN (b + 1) * size ELSE Len(ids))] :
         b \in 0 .. (Len(ids) - 1) \div size}

\* This SortResult looks at no is_desc.
Ascending(op) == [op EXCEPT !.order_by = [o \in DOMAIN @ |-> [@[o] EXCEPT !.desc = FALSE]]]

------------------------------------------------------------------------------

AggregateLink(op, link) ==
  LET agg_col == MaterializeUnfiltered(get_table(op.prev, op.aggregate.table), op.aggregate.col)
  IN  CASE link = 1 -> [op |-> op, tasks |-> {[do |-> "column", g |-> g] : g \in DOMAIN op.group_by}]
        [] link = 2 -> [op |-> [op EXCEPT !.agg_col = agg_col], tasks |-> {}]
        [] link = 3 -> [op |-> [op EXCEPT !.aggregate_data = [id \in GroupIds(op) |-> 0]],
                        tasks |-> Scans(op)]
        [] link = 4 -> [op |-> op, tasks |-> GroupBatches(op)]
        [] link = 5 -> [op |-> [op EXCEPT !.out = SortResult(Ascending(op), op.rows)], tasks |-> {}]

AggregateTask(op, task) ==
  CASE task.do = "column" -> [op |-> InitializeGroupByColumn(op, task.g),
                              tasks |-> {[do |-> "unique", g |-> task.g]}]
    [] task.do = "unique" -> [op |-> ComputeUniqueValues(op, task.g),
                              tasks |-> {[do |-> "match", g |-> task.g]}]
    [] task.do = "match" -> [op |-> match(op, task.g), tasks |-> {}]
    [] task.do = "scan" -> [op |-> BlockScan(op, task.chunks), tasks |-> {}]
    [] task.do = "emit" -> [op |-> ComputeGroupAggregate(op, Head(task.ids)),
                            tasks |-> IF Len(task.ids) = 1 THEN {}
                                      ELSE {[task EXCEPT !.ids = Tail(@)]}]

==============================================================================
