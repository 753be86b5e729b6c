------------------------------ MODULE DBTable --------------------------------
(***************************************************************************)
(* A table of storage/table.cc driven by its public operations: the ones    *)
(* that the memory log replays (by SQLite's row id) and the ones that take   *)
(* whole batches.  rows remembers what the table was told to hold.           *)
(***************************************************************************)
EXTENDS TableOps

CONSTANTS
  Workload,     \* sets of operations of AllOperations: a table meets one of them
  FixedWidths,  \* what the numbers of a table may take in their own types
  RowId,        \* row ids of SQLite, positive
  Value,        \* values of the columns of fixed width
  Size,         \* widths of the strings of a record
  MaxRows,      \* bound on the records of the table
  MaxCopies     \* bound on the blocks that deletions replace

AllOperations == {"insert", "update", "update_string", "delete", "batch", "blocks", "csv", "file",
                  "large"}   \* records that are larger than a block, among the others

ASSUME DBTableAssumption ==
  /\ Workload \subseteq SUBSET AllOperations
  /\ FixedWidths \subseteq 1 .. WordWidth
  /\ RowId \subseteq Nat \ {0} /\ IsFiniteSet(RowId)
  /\ Value \subseteq Nat /\ Size \subseteq Nat
  /\ MaxRows \in Nat /\ MaxCopies \in Nat

VARIABLES
  table,    \* the DBTable
  calls,    \* the operations that this table meets
  rows,     \* history: row id -> the record it was last given
  batched   \* history: the number of records inserted without a row id

dbtable_vars == <<table, calls, rows, batched>>

Init ==
  /\ \E width \in FixedWidths : table = EmptyTable(width)
  /\ calls \in Workload
  /\ rows = << >>
  /\ batched = 0

Room(n) == Cardinality(DOMAIN rows) + batched + n <= MaxRows

NumBlocks == Len(table.blocks)

Copies == FoldLeft(LAMBDA sum, b : sum + b.object[2], 0, table.blocks)

Sizes == {s \in Size : "large" \in calls \/ WordWidth + s <= BlockCapacity}
Record(id) == [id : {id}, val : Value, size : Sizes]
\* Records without a row id: nothing tells their values apart.
Anonymous == [id : {0}, val : {0}, size : Sizes]
Batches == UNION {[1 .. n -> Anonymous] : n \in 1 .. MaxRows}

\* SQLite inserts a row under an id that is not in use.
Insert ==
  /\ "insert" \in calls /\ Room(1)
  /\ \E i \in RowId \ DOMAIN rows : \E r \in Record(i), id \in Pooled(table) :
       /\ table' = InsertRecordTable(table, r, id)
       /\ rows' = (i :> r) @@ rows
  /\ UNCHANGED <<calls, batched>>

Update ==
  /\ "update" \in calls
  /\ \E i \in DOMAIN rows, v \in Value :
       LET r == [rows[i] EXCEPT !.val = v]
       IN  /\ table' = UpdateColumnValue(table, r)
           /\ rows' = [rows EXCEPT ![i] = r]
  /\ UNCHANGED <<calls, batched>>

UpdateStringColumn ==
  /\ "update_string" \in calls /\ Copies < MaxCopies
  /\ \E i \in DOMAIN rows, s \in Sizes : \E id \in Pooled(table) :
       LET r == [rows[i] EXCEPT !.size = s]
       IN  /\ table' = UpdateString(table, r, id)
           /\ rows' = [rows EXCEPT ![i] = r]
  /\ UNCHANGED <<calls, batched>>

Delete ==
  /\ "delete" \in calls /\ Copies < MaxCopies
  /\ \E i \in DOMAIN rows :
       /\ table' = DeleteRecordTable(table, i)
       /\ rows' = [j \in DOMAIN rows \ {i} |-> rows[j]]
  /\ UNCHANGED <<calls, batched>>

InsertBatch ==
  /\ "batch" \in calls
  /\ \E rs \in Batches, id \in Pooled(table) :
       /\ Room(Len(rs))
       /\ table' = InsertRecords(table, rs, id)
       /\ batched' = batched + Len(rs)
  /\ UNCHANGED <<calls, rows>>

\* A block made elsewhere and filled with Block::InsertRecords.  Its id is the caller's
\* choice: that of its place, or the first block's.
InsertOneBlock ==
  /\ "blocks" \in calls
  /\ \E rs \in Batches, id \in {0, NumBlocks} :
       /\ Room(Len(rs)) /\ SumWidth(rs, WordWidth) <= BlockCapacity
       /\ table' = InsertBlocks(table, <<[id |-> id, rows |-> rs]>>)
       /\ batched' = batched + Len(rs)
  /\ UNCHANGED <<calls, rows>>

\* One line of read_from_csv_file.
InsertCsv ==
  /\ "csv" \in calls /\ Room(1)
  /\ \E r \in Anonymous, id \in Pooled(table) : table' = InsertValues(table, r, id)
  /\ batched' = batched + 1
  /\ UNCHANGED <<calls, rows>>

\* write_to_file, and read_from_file in its place: the row ids are gone.
Reload ==
  /\ "file" \in calls /\ table.blocks # << >>
  /\ table' = FromBatches(write_to_file(table), table.fixed_record_width)
  /\ rows' = << >>
  /\ batched' = batched + Cardinality(DOMAIN rows)
  /\ UNCHANGED calls

Next ==
  \/ InsertCsv \/ Reload
  \/ Insert \/ Update \/ UpdateStringColumn \/ Delete \/ InsertBatch \/ InsertOneBlock

Spec == Init /\ [][Next]_dbtable_vars

------------------------------------------------------------------------------
(* Properties *)

RowsBefore(i) ==
  FoldLeft(LAMBDA sum, b : sum + Len(b.rows), 0, SubSeq(table.blocks, 1, i))

\* Premises.  Every block bears the id of its place: InsertBlocks does not see to it.
WellPlaced == \A i \in 1 .. NumBlocks : table.blocks[i].id = i - 1

\* Every record fits into an empty block.
Fitting == "large" \notin calls

\* The numbers are 64 bits wide, as all of the catalog's are.
Wide == table.fixed_record_width = WordWidth

\* Rows stay where they were put: nothing calls for a compaction.
NoCompaction == calls \cap {"delete", "update_string"} = {}

\* The pool's pointers are the table's own blocks: what is inserted through the pool
\* is never lost in a block that DeleteRecordTable has replaced, nor does a block that
\* lies under another's id bring one back.  Such a block has room for a record, unless
\* a compaction widened the records of narrow columns.
PoolIsLive ==
  \A id \in DOMAIN table.insert_pool :
    LET b == table.insert_pool[id]
    IN  /\ \E i \in 1 .. NumBlocks : table.blocks[i] = b
        /\ WellPlaced => table.blocks[id + 1] = b /\ (Wide => HasSpace(table, b))

\* "capacity Maximum number of date bytes to be stored in the Block", whatever mixture
\* of single inserts, batches, blocks, lines, deletions and files filled it.  That is
\* so of 64-bit columns; of narrower ones, whose records are let in by one width and
\* stored by another, a block never exceeds its capacity by more than the difference.
BlocksFit ==
  Fitting => \A i \in 1 .. NumBlocks :
    LET slack == Len(table.blocks[i].rows) * (WordWidth - table.fixed_record_width)
    IN  table.blocks[i].num_bytes <= BlockCapacity + slack

\* get_num_rows: "the number of rows in all blocks in the table."; a record that no
\* block takes is counted too.  And of the offsets, "The value at index i is the number
\* of records before block i. The value at index 0 is always 0", which insertions of
\* one record at a time keep.
RowsCounted ==
  NoCompaction =>
    /\ table.num_rows >= RowsBefore(NumBlocks)
    /\ Fitting =>
         /\ table.num_rows = RowsBefore(NumBlocks)
         /\ batched = 0 => \A i \in 1 .. NumBlocks : table.block_row_offsets[i] = RowsBefore(i - 1)

Contents == UNION {Range(table.blocks[i].rows) : i \in 1 .. NumBlocks}

\* The table holds, once each, the records that it was told to hold by row id,
\* with the values they were last given, and the records of the batches.
RowsHeld ==
  /\ RowsBefore(NumBlocks) = Cardinality(DOMAIN rows) + batched
  /\ {r \in Contents : r.id # 0} = Range(rows)

\* Without compactions a table of 64-bit columns holds its records, also after it was
\* written to a file and read back, and block_map leads from every row id to its own
\* record, unless blocks were inserted under others' ids.
RowsFound ==
  NoCompaction /\ Fitting /\ Wide =>
    /\ RowsHeld
    /\ WellPlaced => \A i \in DOMAIN rows :
         /\ i \in DOMAIN table.block_map
         /\ LET info == table.block_map[i]
                b == GetBlock(table, info.block_id)
            IN  info.row_num + 1 \in DOMAIN b.rows /\ b.rows[info.row_num + 1] = rows[i]

==============================================================================
