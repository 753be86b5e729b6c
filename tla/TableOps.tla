------------------------------ MODULE TableOps -------------------------------
(***************************************************************************)
(* DBTable of storage/table.cc and Block of storage/block.cc, as operators  *)
(* on table values: a table is a sequence of blocks, and a block a sequence *)
(* of records of bounded total width.                                       *)
(*                                                                          *)
(* Blocks are shared_ptrs, held by blocks and by insert_pool.  object tells *)
(* the successive blocks of one id apart, so that a pointer to a replaced   *)
(* block is seen as such.                                                   *)
(***************************************************************************)
EXTENDS Integers, Sequences, SequencesExt, FiniteSets, TLC

CONSTANTS
  BlockCapacity,     \* bytes of a block
  WordWidth,         \* the numbers of a record as int64 values
  EncodedWidth       \* the same in a record of SQLite's format, where 0 and 1 have
                     \* negative widths

ASSUME TableAssumption ==
  /\ BlockCapacity \in Nat /\ WordWidth \in Nat /\ EncodedWidth \in Int
  /\ EncodedWidth <= WordWidth /\ WordWidth < BlockCapacity

\* A record: the row id SQLite gave it (the block does not store it; 0 for a
\* record inserted without one), the value of its numbers and the bytes of its
\* strings.  The numbers have four widths: t.fixed_record_width, of their own types
\* (sizeof(CType)); WordWidth; EncodedWidth; and, where Block::InsertValue stores one
\* of SQLite's, the larger of its own width and of SQLite's.
OwnWidth(t, r) == t.fixed_record_width + r.size
RecordWidth(r) == WordWidth + r.size
StoredWidth(t) == Max({t.fixed_record_width, EncodedWidth})

\* Records whose numbers take width bytes in each.
SumWidth(rows, width) == FoldLeft(LAMBDA sum, r : sum + width + r.size, 0, rows)
BytesLeft(b) == BlockCapacity - b.num_bytes

\* Block id has place as its key in blocks.  copy counts the blocks that replaced
\* one another in that place.
NewBlock(id, place, copy) ==
  [id |-> id, rows |-> << >>, num_bytes |-> 0, row_id_map |-> << >>, object |-> <<place, copy>>]

\* DBTable(name, schema, block_capacity).  blocks[i + 1] has the key i.
EmptyTable(width) ==
  [blocks |-> << >>, insert_pool |-> << >>, num_rows |-> 0, block_row_offsets |-> << >>,
   block_map |-> << >>, fixed_record_width |-> width]

GetBlock(t, id) == t.blocks[id + 1]

\* A write through a pointer to a block: whoever holds that object sees it.
Write(t, b) ==
  LET Seen(old) == IF old.object = b.object THEN b ELSE old
  IN  [t EXCEPT !.blocks = [i \in DOMAIN @ |-> Seen(@[i])],
                !.insert_pool = [id \in DOMAIN @ |-> Seen(@[id])]]

CreateBlock(t) ==
  [t EXCEPT !.blocks = Append(@, NewBlock(Len(@), Len(@), 0)),
            !.block_row_offsets = Append(@, t.num_rows)]

\* What insert_pool.begin(), an unordered map, may yield.
NoBlock == -1
Pooled(t) == IF t.insert_pool = << >> THEN {NoBlock} ELSE DOMAIN t.insert_pool

Unpool(t, id) ==
  [t EXCEPT !.insert_pool = [i \in DOMAIN @ \ {id} |-> @[i]]]

\* The table with a new block at hand.
AtNewBlock(t) == [table |-> CreateBlock(t), block |-> Last(CreateBlock(t).blocks)]

\* GetBlockForInsert: takes the block out of the pool.
GetBlockForInsert(t, id) ==
  IF id = NoBlock THEN AtNewBlock(t)
  ELSE [table |-> Unpool(t, id), block |-> t.insert_pool[id]]

\* Mutant: only the numbers are counted.
WithRoom_fixed(g, width) ==
  IF BytesLeft(g.block) < g.table.fixed_record_width THEN AtNewBlock(g.table) ELSE g

\* The same with a new block if the one at hand has no room for width bytes.
WithRoom(g, width) == IF BytesLeft(g.block) < width THEN AtNewBlock(g.table) ELSE g

\* if (block->get_bytes_left() > fixed_record_width) insert_pool[id] = block, under
\* the block's own id.
HasSpace(t, b) == BytesLeft(b) > t.fixed_record_width

Pool(t, b) ==
  IF HasSpace(t, b) THEN [t EXCEPT !.insert_pool = (b.id :> b) @@ @] ELSE t

\* Copies of rows into a block, where the numbers of each take width bytes.
Filled(b, rows, width) ==
  [b EXCEPT !.rows = @ \o rows, !.num_bytes = @ + SumWidth(rows, width)]

\* Block::InsertRecord refuses what does not fit, by the width of SQLite's format.
Fits(b, r) == EncodedWidth + r.size <= BytesLeft(b)

\* Block::InsertRecord
BlockInsertRecord(t, b, r) ==
  IF Fits(b, r) THEN Filled(b, <<r>>, StoredWidth(t)) ELSE b

\* The same for the strings of a line of a csv file: what is compared with the
\* bytes left is the width of the numbers' own types, but they are stored as int64.
BlockInsertValues(t, b, r) ==
  IF OwnWidth(t, r) <= BytesLeft(b) THEN Filled(b, <<r>>, WordWidth) ELSE b

\* Block::InsertRecords(column_data): every number as an int64.
BlockInsertRecords(b, rows) == Filled(b, rows, WordWidth)

\* Mutant: a batch counts as one row.
Counted_one(t, n) == [t EXCEPT !.num_rows = @ + 1]

NextSlice(r) == <<r>>
Counted(t, n) == [t EXCEPT !.num_rows = @ + n]

\* DBTable::InsertRecord, with the block id that the pool yields.
InsertRecord(t, r, id) ==
  LET g == WithRoom(GetBlockForInsert(t, id), RecordWidth(r))
      b == BlockInsertRecord(t, g.block, r)
  IN  [table |-> Pool(Counted(Write(g.table, b), 1), b),
       info |-> [block_id |-> b.id,
                 row_num  |-> IF Fits(g.block, r) THEN Len(g.block.rows) ELSE -1]]

\* Mutant: the row number is not kept.
Mapped_first(map, row_id, info) == (row_id :> [info EXCEPT !.row_num = 0]) @@ map

\* block_map[row_id] = info
Mapped(map, row_id, info) == (row_id :> info) @@ map

InsertRecordTable(t, r, id) ==
  LET new == InsertRecord(t, r, id)
  IN  [new.table EXCEPT !.block_map = Mapped(@, r.id, new.info)]

\* DBTable::InsertRecord(values), for a line of a csv file: no row id.  "record size
\* is incorrectly computed!"
InsertValues(t, r, id) ==
  LET g == WithRoom(GetBlockForInsert(t, id), OwnWidth(t, r))
      b == BlockInsertValues(t, g.block, r)
  IN  Pool(Counted(Write(g.table, b), 1), b)

\* One round of the loop of DBTable::InsertRecords: s is the block at hand and
\* the slice of records not yet copied into it, data_size in their own widths.
CopySlice(s) == BlockInsertRecords(s.block, s.slice)

InsertSlice(s, r) ==
  IF SumWidth(Append(s.slice, r), s.table.fixed_record_width) > BytesLeft(s.block)
  THEN AtNewBlock(Write(s.table, CopySlice(s))) @@ [slice |-> NextSlice(r)]
  ELSE [s EXCEPT !.slice = Append(@, r)]

\* DBTable::InsertRecords(column_data), the records by rows.
InsertRecords(t, rs, id) ==
  LET s == FoldLeft(InsertSlice, GetBlockForInsert(t, id) @@ [slice |-> << >>], rs)
      b == CopySlice(s)
  IN  Pool(Counted(Write(s.table, b), Len(rs)), b)

\* DBTable::InsertBlocks: a block made elsewhere is put under the next key, whatever
\* its own id, and num_rows after the block, not before it, into block_row_offsets.
InsertBlock(t, made) ==
  LET b == Filled(NewBlock(made.id, Len(t.blocks), 0), made.rows, WordWidth)
  IN  [t EXCEPT !.blocks = Append(@, b),
                !.num_rows = @ + Len(b.rows),
                !.block_row_offsets = Append(@, t.num_rows + Len(b.rows))]

\* The -1 that marks a last block with room is written behind the last offset.  The
\* vector grows by doubling, so that the allocator leaves eight bytes there: no
\* offset, and nothing else of the table, changes.
InsertBlocks(t, made) ==
  LET new == FoldLeft(InsertBlock, t, made)
  IN  IF made = << >> THEN t ELSE Pool(new, Last(new.blocks))

------------------------------------------------------------------------------
(* Files: a table is written block by block, and read back with one task for *)
(* each record batch; row ids and what was pooled are not in the file.       *)

write_to_file(t) ==
  [i \in DOMAIN t.blocks |-> [j \in DOMAIN t.blocks[i].rows |-> [t.blocks[i].rows[j] EXCEPT !.id = 0]]]

\* Block(id, record_batch, capacity): ComputeByteSize takes the numbers' own widths.
BlockOf(t, batch, i) ==
  Filled(NewBlock(i - 1, i - 1, 0), batch, t.fixed_record_width)

\* DBTable(name, record_batches, block_capacity): the last offset is overwritten
\* when the last block has room.
FromBatches(batches, width) ==
  LET Rows(i) == FoldLeft(LAMBDA n, b : n + Len(b), 0, SubSeq(batches, 1, i))
      empty == EmptyTable(width)
      last == BlockOf(empty, Last(batches), Len(batches))
  IN  Pool([empty EXCEPT
              !.blocks = [i \in DOMAIN batches |-> BlockOf(empty, batches[i], i)],
              !.num_rows = Rows(Len(batches)),
              !.block_row_offsets = [i \in 1 .. Len(batches) + 1 |->
                 IF i = Len(batches) + 1 /\ HasSpace(empty, last) THEN -1 ELSE Rows(i - 1)]],
           last)

------------------------------------------------------------------------------
(* DBTable::DeleteRecordTable *)

Lookup(map, key, default) == IF key \in DOMAIN map THEN map[key] ELSE default

\* One round of the loop of Block::InsertRecords(block_map, row_map, ..), over
\* the rows of the old block; row_map is a std::map read with operator[].
Compact(s, row) ==
  IF row = s.deleted THEN [s EXCEPT !.reduced_count = @ + 1]
  ELSE LET row_id == Lookup(s.row_map, row + s.reduced_count, 0)
           old == Lookup(s.block_map, row_id, [block_id |-> 0, row_num |-> 0])
       IN  [s EXCEPT !.block = [BlockInsertRecords(@, <<s.rows[row + 1]>>) EXCEPT
                                  !.row_id_map = (row :> row_id) @@ @],
                     !.block_map = (row_id :> [old EXCEPT !.row_num = row]) @@ @]

\* Mutant: insert_pool keeps the block as it was.
Repool_stale(t, id, b) == t.insert_pool

Repool(t, id, b) == [i \in DOMAIN t.insert_pool |-> IF i = id THEN b ELSE t.insert_pool[i]]

\* set_valid(row_num, false) leaves the records alone when row_num is not a row
\* of the block; the block is copied and num_rows drops all the same.
DeleteRecordTable(t, row_id) ==
  IF row_id \notin DOMAIN t.block_map THEN t
  ELSE LET id == t.block_map[row_id].block_id
           b  == GetBlock(t, id)
           s  == FoldLeft(Compact,
                   [deleted |-> t.block_map[row_id].row_num, reduced_count |-> 0,
                    row_map |-> b.row_id_map, rows |-> b.rows, block_map |-> t.block_map,
                    block |-> NewBlock(id, id, b.object[2] + 1)],
                   [i \in 1 .. Len(b.rows) |-> i - 1])
       IN  [t EXCEPT !.blocks[id + 1] = s.block,
                     !.block_map = s.block_map,
                     !.num_rows = @ - 1,
                     !.insert_pool = Repool(t, id, s.block)]

------------------------------------------------------------------------------
(* DBTable::UpdateRecordTable *)

\* A column of fixed width is changed in place ...
UpdateColumnValue(t, r) ==
  IF r.id \notin DOMAIN t.block_map THEN t
  ELSE LET info == t.block_map[r.id]
           b == GetBlock(t, info.block_id)
       IN  IF info.row_num \notin 0 .. Len(b.rows) - 1 THEN t
           ELSE Write(t, [b EXCEPT !.rows[info.row_num + 1].val = r.val])

\* ... and a string by deleting the record and inserting it anew.
UpdateString(t, r, id) ==
  IF r.id \notin DOMAIN t.block_map THEN t
  ELSE InsertRecordTable(DeleteRecordTable(t, r.id), r, id)

==============================================================================
