------------------------------ MODULE LazyTable -------------------------------
(***************************************************************************)
(* What query operators pass to each other: operators/utils/lazy_table.cc,   *)
(* operator_result.cc and the kernels of utils/arrow_compute_wrappers.cc.    *)
(*                                                                         *)
(* A column is a sequence of chunks, a chunk a sequence of values.  Rows are *)
(* numbered from 0 over all chunks, as in the code.  A Datum that may be     *)
(* NONE is a sequence of at most one element.                               *)
(***************************************************************************)
EXTENDS Integers, FiniteSets, SequencesExt, Functions

CONSTANTS
  SliceLength,      \* slice_length_ (30000 in the code)
  Threads,          \* std::thread::hardware_concurrency()
  CHAR_BIT          \* bits of a byte (8)

None == << >>
Some(x) == <<x>>
Given(d) == d # None

------------------------------------------------------------------------------
(* Chunked arrays *)

Length(column) == FoldLeft(LAMBDA n, chunk : n + Len(chunk), 0, column)

\* The number of rows before each chunk.
ComputeChunkOffsets(column) == [i \in DOMAIN column |-> Length(SubSeq(column, 1, i - 1))]

\* std::upper_bound(offsets, index) - 1: the chunk that holds a row.
ChunkOf(column, index) ==
  Cardinality({i \in DOMAIN column : ComputeChunkOffsets(column)[i] <= index})

ValueAt(column, index) ==
  LET i == ChunkOf(column, index)
  IN  column[i][index - ComputeChunkOffsets(column)[i] + 1]

Rows(column) == 0 .. Length(column) - 1

\* Bit j of a bitmap, whose bytes are the sets of the bits that are on.
GetBit(bitmap, j) == j % CHAR_BIT \in bitmap[j \div CHAR_BIT + 1]

\* utils::pack: the bitmap of a sequence of bytes that are zero or not.
pack(bytemap) ==
  [b \in 1 .. (Len(bytemap) + CHAR_BIT - 1) \div CHAR_BIT |->
     {k \in 0 .. CHAR_BIT - 1 :
        LET j == (b - 1) * CHAR_BIT + k + 1 IN j <= Len(bytemap) /\ bytemap[j]}]

\* Whether a filter, if there is one, passes row j of chunk i.
Passes(filter, i, j) == Given(filter) => GetBit(filter[1][i], j - 1)

\* arrow::compute::Take and Filter
Take(column, indices) == [i \in DOMAIN indices |-> ValueAt(column, indices[i])]
Filter(column, filter) ==
  [i \in DOMAIN column |->
     LET kept == SelectSeq([j \in DOMAIN column[i] |-> j], LAMBDA j : Passes(filter, i, j))
     IN  [k \in DOMAIN kept |-> column[i][kept[k]]]]

\* Slice i of the indices; the last one takes what is left, perhaps nothing.
Slice(indices, i) ==
  SubSeq(indices, i * SliceLength + 1,
         IF i = Len(indices) \div SliceLength THEN Len(indices) ELSE (i + 1) * SliceLength)

NumSlices(indices) == Len(indices) \div SliceLength + 1

\* Context::apply_indices: one task per slice, and one chunk of the result each.
apply_indices(column, indices) ==
  [i \in 1 .. NumSlices(indices) |-> Take(column, Slice(indices, i - 1))]

------------------------------------------------------------------------------
(* Lazy tables: a table of the catalog, the rows of it that are in a result    *)
(* (by a filter, or by row numbers), and the hash table over a join column.    *)

LazyTable(table, filter, indices, hash_table) ==
  [table |-> table, filter |-> filter, indices |-> indices, hash_table |-> hash_table]

\* MaterializeColumn(i): what the user sees.  A lazy table keeps the columns it has made,
\* but none is read both in this way and in the next.
MaterializeColumn(lazy, c) ==
  LET column == lazy.table.cols[c]
  IN  IF Given(lazy.filter) THEN Filter(column, lazy.filter)
      ELSE IF Given(lazy.indices) THEN <<Take(column, lazy.indices[1])>>
      ELSE column

\* MaterializeColumn(ctx, i, out): what other operators read.  The filter is
\* left to them.
MaterializeUnfiltered(lazy, c) ==
  LET column == lazy.table.cols[c]
  IN  IF Given(lazy.indices) THEN apply_indices(column, lazy.indices[1])
      ELSE column

------------------------------------------------------------------------------
(* Operator results: sequences of lazy tables *)

append(result, lazy) == <<lazy>> \o result
append_result(result, other) == result \o other

IndexOf(result, name) == SelectInSeq(result, LAMBDA lazy : lazy.table.name = name)
get_table(result, name) == result[IndexOf(result, name)]

\* The columns of the answer, for references [table, col].
materialize(result, col_refs) ==
  [i \in DOMAIN col_refs |->
     MaterializeColumn(get_table(result, col_refs[i].table), col_refs[i].col)]

------------------------------------------------------------------------------
(* How operators deal chunks 1 .. n out to tasks: [first, last] for each task *)

\* DBTable::ForEachBatch
ForEachBatch(n) ==
  LET size == IF n \div Threads = 0 THEN n ELSE n \div Threads
  IN  {[first |-> b * size + 1, last |-> IF (b + 1) * size < n THEN (b + 1) * size ELSE n] :
         b \in 0 .. (n - 1) \div size}

\* utils::ComputeBatchConfig: one batch more than needed when it divides evenly.
ComputeBatchConfig(n) ==
  LET size == IF n \div Threads = 0 THEN n ELSE n \div Threads
  IN  {[first |-> b * size + 1, last |-> IF (b + 1) * size < n THEN (b + 1) * size ELSE n] :
         b \in 0 .. n \div size}

==============================================================================
