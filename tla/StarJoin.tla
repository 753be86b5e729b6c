------------------------------ MODULE StarJoin --------------------------------
(***************************************************************************)
(* operators/join/lip.cc and operators/fused/filter_join.cc: a fact table is  *)
(* probed, batch of chunks by batch of chunks, with one Bloom filter (and     *)
(* hash table) per dimension.  LIP keeps the fact rows that may join, and     *)
(* reorders its filters by their hit rates between batches; FilterJoin joins  *)
(* on the fly, and keeps the matching row of every dimension beside each fact *)
(* row.                                                                    *)
(***************************************************************************)
EXTENDS Joins, BloomFilter

\* LIP::LIP, FilterJoin::FilterJoin and the first part of Execute.
NewStarJoin(kind, results, predicates, num_chunks) ==
  [kind |-> kind,
   links |-> 3 + (num_chunks \div Threads + 1) * (Len(predicates) + 1),
   predicates |-> predicates,
   fact |-> get_table(FlattenSeq(results), predicates[1].left.table),
   dims |-> [i \in DOMAIN predicates |-> get_table(FlattenSeq(results), predicates[i].right.table)],
   fact_fk_cols |-> << >>, dim_pk_cols |-> << >>, dim_filters |-> [i \in DOMAIN predicates |-> << >>],
   lip_indices |-> << >>, num_chunks |-> num_chunks, out |-> << >>]

\* Initialize: one task for each dimension.
FkCol(op, i) ==
  LET fk == op.predicates[i].left.col
  IN  [op EXCEPT !.fact_fk_cols = (fk :> MaterializeUnfiltered(op.fact, fk)) @@ @]

------------------------------------------------------------------------------
(* Building *)

\* The keys that the filter of a dimension passes, with their repetitions.
Keys(pk_col, filter) == FlattenSeq(Filter(pk_col, filter))

\* First task of the chain of dimension i.  dim_pk_cols_ is shared by the chains,
\* and has one entry for each NAME of a key column.
TakeColumn(op, i) ==
  LET pk == op.predicates[i].right.col
  IN  [op EXCEPT !.dim_pk_cols = (pk :> op.dims[i].table.cols[pk]) @@ @]

\* Second task of the chain.
BuildFilter(op, i) ==
  LET keys == Keys(op.dim_pk_cols[op.predicates[i].right.col], op.dims[i].filter)
  IN  [op EXCEPT !.dim_filters[i] =
         [bloom |-> insert_all(NewBloomFilter(Len(keys)), Values(keys)),
          fk |-> << >>,
          hash_table |-> op.dims[i].hash_table,
          indices |-> [c \in 1 .. op.num_chunks |-> << >>]]]

\* FilterJoin throws when the dimension has no hash table.
Unhashed(op, i) == op.kind = "filter_join" /\ ~Given(op.dims[i].hash_table)

\* The second link: every filter finds its column.
SetUp(op) ==
  [op EXCEPT !.lip_indices = [c \in 1 .. op.num_chunks |-> << >>],
             !.dim_filters = [i \in DOMAIN @ |-> [@[i] EXCEPT !.fk = op.fact_fk_cols[op.predicates[i].left.col]]]]

------------------------------------------------------------------------------
(* Probing *)

KeyOf(filter, row) == ValueAt(filter.fk, row)

\* Whether filter j keeps a fact row.
Hit(filter, row) ==
  /\ probe(filter.bloom, KeyOf(filter, row))
  /\ Given(filter.hash_table) => KeyOf(filter, row) \in DOMAIN filter.hash_table[1]

Swap(s, k, n) == [s EXCEPT ![k] = s[n], ![n] = s[k]]

\* Mutant: the rows of the dimensions stay where they are.
SwapAll_fact(arrays, k, n) == [arrays EXCEPT ![1] = Swap(@, k, n)]

\* A row that is not kept changes places with the last one, in every array.
SwapAll(arrays, k, n) == [a \in DOMAIN arrays |-> Swap(arrays[a], k, n)]

\* The loop over positions k .. last of parallel arrays, the first of which
\* holds the fact rows: the arrays of the rows that are in keep.
RECURSIVE Partition(_, _, _, _)
Partition(arrays, k, last, keep) ==
  IF k > last THEN [a \in DOMAIN arrays |-> SubSeq(arrays[a], 1, last)]
  ELSE IF arrays[1][k] \in keep THEN Partition(arrays, k + 1, last, keep)
  ELSE Partition(SwapAll(arrays, k, last), k, last - 1, keep)

\* All rows of chunk c.
ChunkRows(column, c) ==
  [k \in DOMAIN column[c] |-> ComputeChunkOffsets(column)[c] + k - 1]

\* Filter j probes chunk c: the first one all rows, the others what is left of
\* them.  FilterJoin keeps the arrays of the filters before j aligned, and
\* appends the matches of dimension j, whose keys are unique.
ProbeFilterChunk(op, j, c) ==
  LET filter == op.dim_filters[j]
      joins == op.kind = "filter_join"
      rows == IF j = 1 THEN ChunkRows(filter.fk, c) ELSE op.lip_indices[c]
      keep == {r \in Values(rows) : Hit(filter, r)}
      before == IF joins THEN [p \in 1 .. j - 1 |-> op.dim_filters[p].indices[c]] ELSE << >>
      kept == IF j = 1 THEN <<SelectSeq(rows, LAMBDA r : r \in keep)>>
              ELSE Partition(<<rows>> \o before, 1, Len(rows), keep)
      match(k) == filter.hash_table[1][KeyOf(filter, kept[1][k])][1]
  IN  [op EXCEPT !.lip_indices[c] = kept[1],
                 !.dim_filters = [p \in DOMAIN @ |->
                    IF ~joins \/ p > j THEN @[p]
                    ELSE [@[p] EXCEPT !.indices[c] =
                            IF p = j THEN [k \in DOMAIN kept[1] |-> match(k)] ELSE kept[p + 1]]]]

\* update() and std::sort.  LIP's chunk tasks add to the counts of a filter
\* without a lock, so its filters may come out in any order; FilterJoin counts
\* nothing, all its rates are 1, and the order stays.
Sorted(op) ==
  IF op.kind = "filter_join" THEN {op}
  ELSE {[op EXCEPT !.dim_filters = [i \in DOMAIN @ |-> @[order[i]]]] :
          order \in {f \in [DOMAIN op.dims -> DOMAIN op.dims] : IsInjective(f)}}

------------------------------------------------------------------------------
(* Finish *)

\* Mutant: the rows of the first batch.
LIPResult_first(op) ==
  FoldLeft(append,
           <<LazyTable(op.fact.table, op.fact.filter,
                       Some(FlattenSeq(SubSeq(op.lip_indices, 1, Threads))), None)>>,
           op.dims)

\* LIP::finish: the fact table keeps its filter; the dimensions are unchanged.
LIPResult(op) ==
  FoldLeft(append,
           <<LazyTable(op.fact.table, op.fact.filter, Some(FlattenSeq(op.lip_indices)), None)>>,
           op.dims)

\* FilterJoin::Finish: the rows of filter i are those of dimension i.  The fact
\* table's filter is not looked at.
FilterJoinResult(op) ==
  <<LazyTable(op.fact.table, None, Some(FlattenSeq(op.lip_indices)), None)>> \o
  [i \in DOMAIN op.dims |->
     LazyTable(op.dims[i].table, None, Some(FlattenSeq(op.dim_filters[i].indices)),
               op.dims[i].hash_table)]

------------------------------------------------------------------------------
(* The chain: build; set up; for every batch, its filters in turn and the sort;  *)
(* finish.  One batch more than needed comes when the chunks divide evenly.      *)

StarJoinLinks(op, link) ==
  LET dims == Len(op.dims)
      first == ((link - 3) \div (dims + 1)) * Threads + 1
      j == ((link - 3) % (dims + 1)) + 1
      chunks == {c \in first .. first + Threads - 1 : c <= op.num_chunks}
  IN  IF link = 1
      THEN {[op |-> op, tasks |-> [do : {"fk", "column"}, dim : DOMAIN op.dims]]}
      ELSE IF link = 2
      THEN {[op |-> SetUp(op), tasks |-> {}]}
      ELSE IF link = op.links
      THEN {[op |-> [op EXCEPT !.out = append_result(@,
                       IF op.kind = "lip" THEN LIPResult(op) ELSE FilterJoinResult(op))],
             tasks |-> {}]}
      ELSE IF j = dims + 1 THEN {[op |-> sorted, tasks |-> {}] : sorted \in Sorted(op)}
      ELSE {[op |-> op, tasks |-> {[do |-> "probe", filter |-> j, chunk |-> c] : c \in chunks}]}

StarJoinTask(op, task) ==
  CASE task.do = "fk" -> [op |-> FkCol(op, task.dim), tasks |-> {}]
    [] task.do = "column" ->
         [op |-> TakeColumn(op, task.dim), tasks |-> {[do |-> "build", dim |-> task.dim]}]
    [] task.do = "build" -> [op |-> BuildFilter(op, task.dim), tasks |-> {}]
    [] task.do = "probe" -> [op |-> ProbeFilterChunk(op, task.filter, task.chunk), tasks |-> {}]

==============================================================================
