-------------------------------- MODULE Joins ---------------------------------
(***************************************************************************)
(* operators/join/hash_join.cc and operators/join/multiway_join.cc.  Both     *)
(* build a hash table over the right column, probe it with the left column in *)
(* parallel, and rewrite the row numbers of every table joined so far.        *)
(* A predicate is [left, right], each side [table, col].                     *)
(***************************************************************************)
EXTENDS Selection

------------------------------------------------------------------------------
(* Build and probe, the same in both operators *)

BuildHashTable(column, filter) ==
  FoldLeft(Merge, << >>, [i \in DOMAIN column |-> HashChunk(column, filter, i)])

\* The build phase: a hash table made by SelectBuildHash is used as it is.
HashTableOf(lazy, column) ==
  IF Given(lazy.hash_table) THEN lazy.hash_table[1] ELSE BuildHashTable(column, lazy.filter)

\* The pairs of row numbers that chunk i yields, in their order.
ProbeChunk(column, filter, hash, i) ==
  LET offset == ComputeChunkOffsets(column)[i]
      matches(j) == IF Passes(filter, i, j) /\ column[i][j] \in DOMAIN hash
                    THEN hash[column[i][j]] ELSE << >>
  IN  FlattenSeq([j \in DOMAIN column[i] |->
        [k \in DOMAIN matches(j) |-> <<offset + j - 1, matches(j)[k]>>]])

\* ProbeHashTableBlock, for one batch of chunks.
ProbeBatch(op, batch) ==
  [op EXCEPT !.pairs = [i \in DOMAIN @ |->
     IF batch.first <= i /\ i <= batch.last
     THEN ProbeChunk(op.lcol, op.left.filter, op.hash_table, i) ELSE @[i]]]

\* std::vector::resize: what is there stays.
Resize(v, n) == [i \in 1 .. n |-> IF i \in DOMAIN v THEN v[i] ELSE << >>]

Side(pairs, k) == LET all == FlattenSeq(pairs) IN [i \in DOMAIN all |-> all[i][k]]

\* The rows of a table after a join: through the rows it had before, if any.
Rewritten(lazy, indices) ==
  LazyTable(lazy.table, None,
            Some(IF Given(lazy.indices)
                 THEN [i \in DOMAIN indices |-> lazy.indices[1][indices[i] + 1]] ELSE indices),
            lazy.hash_table)

------------------------------------------------------------------------------
(* HashJoin: two results, one predicate *)

NewHashJoin(left_result, right_result, predicate) ==
  [kind |-> "hash_join", links |-> 5, prev |-> <<left_result, right_result>>,
   predicate |-> predicate, left |-> << >>, right |-> << >>, lcol |-> << >>, rcol |-> << >>,
   hash_table |-> << >>, pairs |-> << >>, joined |-> << >>, out |-> << >>]

Initialize(op) ==
  LET left == get_table(op.prev[1], op.predicate.left.table)
      right == get_table(op.prev[2], op.predicate.right.table)
  IN  [op EXCEPT !.left = left, !.right = right,
                 !.lcol = MaterializeUnfiltered(left, op.predicate.left.col),
                 !.rcol = MaterializeUnfiltered(right, op.predicate.right.col)]

\* propogate_indices: the joined table itself comes once more, behind its
\* rewritten form, which get_table finds first.
Propagate(result, table, indices) ==
  [i \in DOMAIN result |->
     IF result[i].table # table THEN Rewritten(result[i], indices)
     ELSE LazyTable(result[i].table, None, Some(indices), result[i].hash_table)]

\* BackPropogateResult
HashJoinResult(op) ==
  <<Rewritten(op.left, op.joined[1])>> \o Propagate(op.prev[1], op.left.table, op.joined[1]) \o
  <<Rewritten(op.right, op.joined[2])>> \o Propagate(op.prev[2], op.right.table, op.joined[2])

HashJoinLink(op, link) ==
  CASE link = 1 -> [op |-> Initialize(op), tasks |-> {}]
    [] link = 2 -> [op |-> [op EXCEPT !.hash_table = HashTableOf(op.right, op.rcol)], tasks |-> {}]
    [] link = 3 -> [op |-> [op EXCEPT !.pairs = Resize(@, Len(op.lcol))],
                    tasks |-> ComputeBatchConfig(Len(op.lcol))]
    [] link = 4 -> [op |-> [op EXCEPT !.joined = <<Side(op.pairs, 1), Side(op.pairs, 2)>>], tasks |-> {}]
    [] link = 5 -> [op |-> [op EXCEPT !.out = append_result(@, HashJoinResult(op))], tasks |-> {}]

\* The column as the link saw it, if the reference that the task holds is still good
\* (Dangles in module Query).
HashJoinTask(op, batch) == [op |-> ProbeBatch(op, batch), tasks |-> {}]

------------------------------------------------------------------------------
(* MultiwayJoin: the predicates of a join graph, one after another *)

NewMultiwayJoin(results, predicates) ==
  [kind |-> "multiway_join", links |-> 5 * Len(predicates) + 1, prev |-> FlattenSeq(results),
   predicates |-> predicates, finished |-> {}, left |-> << >>, right |-> << >>,
   lcol |-> << >>, rcol |-> << >>, hash_table |-> << >>, pairs |-> << >>,
   joined |-> <<<< >>, << >>>>, out |-> << >>]

\* The tables of earlier joins follow the left side; those of later joins lose
\* their filter here.
Others(op) ==
  LET others == SelectSeq(op.prev, LAMBDA lazy : lazy.table \notin {op.left.table, op.right.table})
  IN  [i \in DOMAIN others |->
         IF others[i].table.name \in op.finished THEN Rewritten(others[i], op.joined[1])
         ELSE LazyTable(others[i].table, None, others[i].indices, others[i].hash_table)]

\* BackPropogateResult
MultiwayResult(op) ==
  <<Rewritten(op.left, op.joined[1]), Rewritten(op.right, op.joined[2])>> \o Others(op)

\* Five links for every predicate (HashJoin(join_id)), and Finish.
MultiwayLink(op, link) ==
  LET p == op.predicates[(link - 1) \div 5 + 1]
      left == get_table(op.prev, p.left.table)
      right == get_table(op.prev, p.right.table)
  IN  IF link = op.links THEN [op |-> [op EXCEPT !.out = append_result(@, op.prev)], tasks |-> {}]
      ELSE CASE (link - 1) % 5 = 0 ->
                  [op |-> [op EXCEPT !.left = left, !.right = right,
                                     !.lcol = MaterializeUnfiltered(left, p.left.col),
                                     !.rcol = MaterializeUnfiltered(right, p.right.col)],
                   tasks |-> {}]
             [] (link - 1) % 5 = 1 ->
                  [op |-> [op EXCEPT !.hash_table = HashTableOf(op.right, op.rcol)], tasks |-> {}]
             [] (link - 1) % 5 = 2 ->
                  [op |-> [op EXCEPT !.pairs = Resize(@, Len(op.lcol))],
                   tasks |-> ComputeBatchConfig(Len(op.lcol))]
             [] (link - 1) % 5 = 3 ->
                  [op |-> [op EXCEPT !.finished = @ \cup {p.left.table, p.right.table}],
                   tasks |-> {[side |-> 1], [side |-> 2]}]
             [] (link - 1) % 5 = 4 -> [op |-> [op EXCEPT !.prev = MultiwayResult(op)], tasks |-> {}]

\* A batch of the probe, or one of the two tasks of FinishProbe.
MultiwayTask(op, task) ==
  [op |-> IF "side" \in DOMAIN task
          THEN [op EXCEPT !.joined[task.side] = Side(op.pairs, task.side)]
          ELSE ProbeBatch(op, task),
   tasks |-> {}]

==============================================================================
