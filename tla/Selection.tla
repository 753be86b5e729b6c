------------------------------ MODULE Selection -------------------------------
(***************************************************************************)
(* operators/select/select.cc and operators/fused/select_build_hash.cc: the   *)
(* rows of a table that a predicate tree passes, block by block in parallel,  *)
(* with the small materialized aggregates (minimum and maximum of a column of  *)
(* a block) of storage/ma_block.cc and storage/metadata_units/sma.cc.         *)
(*                                                                         *)
(* A table is [name, cols, sma]: cols maps a column to its chunks, sma a      *)
(* column to the metadata of every block, if it has some.                    *)
(***************************************************************************)
EXTENDS LazyTable

------------------------------------------------------------------------------
(* Block metadata *)

Values(chunk) == {chunk[j] : j \in DOMAIN chunk}

\* Sma::Sma, for a chunk as it was when BuildMetadata ran.
Sma(chunk) ==
  [min |-> CHOOSE v \in Values(chunk) : \A w \in Values(chunk) : v <= w,
   max |-> CHOOSE v \in Values(chunk) : \A w \in Values(chunk) : v >= w]

\* The metadata a block may have: none, or that of the rows it held when it was
\* built.  DBTable inserts and updates through Block, whose functions are not
\* virtual, so InvalidateMetadata is never reached.
GenerateMetadata(chunk) ==
  {None} \cup {Some(Sma(SubSeq(chunk, 1, n))) : n \in DOMAIN chunk}

\* comparator_switcher
Compare(op, v, w) ==
  CASE op = "EQUAL" -> v = w
    [] op = "GREATER" -> v > w
    [] op = "GREATER_EQUAL" -> v >= w
    [] op = "LESS" -> v < w
    [] op = "LESS_EQUAL" -> v <= w
    [] op = "NOT_EQUAL" -> v # w

\* BooleanScalar::data(), as a truth value: the address of the value.
data(scalar) == TRUE

Search(sma, op, value) ==
  CASE op \in {"GREATER", "GREATER_EQUAL"} -> data(Compare(op, sma.max, value))
    [] op \in {"LESS", "LESS_EQUAL"} -> data(Compare(op, sma.min, value))
    [] op = "EQUAL" -> /\ data(Compare("LESS_EQUAL", sma.max, value))
                       /\ data(Compare("LESS_EQUAL", sma.min, value))
    [] OTHER -> TRUE

SearchMetadata(sma, op, value) == Given(sma) => Search(sma[1], op, value)

------------------------------------------------------------------------------
(* Predicates: leaves [leaf, col, type, op, value, value2], or [leaf,          *)
(* connective, left, right].  A WHERE clause gives value2 to no leaf: BETWEEN   *)
(* comes as two leaves, and <> as NOT_EQUAL with one value.                    *)

\* Low byte of a value.
UInt8(v) == v % 2 ^ CHAR_BIT

\* For numbers NOT_EQUAL stands for BETWEEN, on the low bytes of all values.
Between(v, lo, hi) == UInt8(v - UInt8(lo)) <= UInt8(UInt8(hi) - UInt8(lo))

\* default_filter for strings, numeric_filter for numbers.
FilterPredicate(table, i, p) ==
  LET chunk == table.cols[p.col][i]
      passes(v) ==
        IF p.type = "string" THEN Compare(p.op, v, p.value)
        ELSE IF p.op = "NOT_EQUAL" THEN Between(v, p.value, p.value2[1])
        ELSE SearchMetadata(table.sma[p.col][i], p.op, p.value) /\ Compare(p.op, v, p.value)
  IN  pack([j \in DOMAIN chunk |-> passes(chunk[j])])

\* A leaf takes the scalar of a value2 that holds none: an exception that no one
\* catches.
RECURSIVE Unresolved(_)
Unresolved(node) ==
  IF node.leaf THEN node.type = "number" /\ node.op = "NOT_EQUAL" /\ ~Given(node.value2)
  ELSE Unresolved(node.left) \/ Unresolved(node.right)

\* Mutant: the last byte is left out.
NumBytes_whole(n) == (n - 1) \div CHAR_BIT

\* 1 + ((length - 1) / CHAR_BIT)
NumBytes(n) == 1 + (n - 1) \div CHAR_BIT

\* One connective, in place on the left filter.
Combine(connective, n, left, right) ==
  [b \in DOMAIN left |->
     IF b > NumBytes(n) \/ connective = "NONE" THEN left[b]
     ELSE IF connective = "AND" THEN left[b] \cap right[b] ELSE left[b] \cup right[b]]

RECURSIVE FilterNode(_, _, _)
FilterNode(table, i, node) ==
  IF node.leaf THEN FilterPredicate(table, i, node)
  ELSE Combine(node.connective, Len(table.cols[CHOOSE c \in DOMAIN table.cols : TRUE][i]),
               FilterNode(table, i, node.left), FilterNode(table, i, node.right))

------------------------------------------------------------------------------
(* Hash tables over a join column: key -> the rows that have it *)

\* The rows of chunk i that pass the filter, by their value, in their order.
HashChunk(column, filter, i) ==
  LET rows == SelectSeq([j \in DOMAIN column[i] |-> j], LAMBDA j : Passes(filter, i, j))
      offset == ComputeChunkOffsets(column)[i]
      key(j) == column[i][j]
      having(v) == SelectSeq(rows, LAMBDA j : key(j) = v)
  IN  [v \in {key(rows[k]) : k \in DOMAIN rows} |->
         [k \in DOMAIN having(v) |-> offset + having(v)[k] - 1]]

\* Mutant: the rows of a block replace those of the blocks before it.
Merge_replace(hash, local) == local @@ hash

\* The critical section of ExecuteBlock.
Merge(hash, local) ==
  [v \in DOMAIN hash \cup DOMAIN local |->
     (IF v \in DOMAIN hash THEN hash[v] ELSE << >>) \o
     (IF v \in DOMAIN local THEN local[v] ELSE << >>)]

------------------------------------------------------------------------------
(* The operators.  An operator is a chain of links; Link gives its state after  *)
(* the body of a link, and the tasks that the link spawns; Task the state after *)
(* one task, and the tasks that follow it.                                  *)

\* Select::Select, SelectBuildHash::SelectBuildHash; hash_col is None for Select.
NewSelect(table, tree, hash_col) ==
  [kind |-> "select", links |-> 2, table |-> table, tree |-> tree, hash_col |-> hash_col,
   filters |-> [i \in DOMAIN table.cols[CHOOSE c \in DOMAIN table.cols : TRUE] |-> << >>],
   hash_table |-> << >>, out |-> << >>]

\* Select::ExecuteBlock, SelectBuildHash::ExecuteBlock
ExecuteBlock(op, i) ==
  LET filters == IF Given(op.tree)
                 THEN [op.filters EXCEPT ![i] = FilterNode(op.table, i, op.tree[1])]
                 ELSE op.filters
      filter == IF Given(op.tree) THEN Some(filters) ELSE None
  IN  [op EXCEPT !.filters = filters,
                 !.hash_table = IF Given(op.hash_col)
                                THEN Merge(@, HashChunk(op.table.cols[op.hash_col[1]], filter, i))
                                ELSE @]

SelectLink(op, link) ==
  IF link = 1
  THEN [op |-> op, tasks |-> ForEachBatch(Len(op.filters))]
  ELSE [op |-> [op EXCEPT !.out =
                  append(@, LazyTable(op.table,
                                      IF Given(op.tree) THEN Some(op.filters) ELSE None, None,
                                      IF Given(op.hash_col) THEN Some(op.hash_table) ELSE None))],
        tasks |-> {}]

\* A batch runs its blocks one after another.
SelectTask(op, batch) ==
  [op |-> ExecuteBlock(op, batch.first),
   tasks |-> IF batch.first < batch.last THEN {[batch EXCEPT !.first = @ + 1]} ELSE {}]

==============================================================================
