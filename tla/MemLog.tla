------------------------------- MODULE MemLog --------------------------------
(***************************************************************************)
(* How what SQLite commits reaches the column store: storage/cmemlog.cc,    *)
(* its calls in the patched sqlite3.c, and the operations of HustleDB and    *)
(* Catalog that create, drop, reopen and load.                               *)
(*                                                                           *)
(* SQLite is modelled by what those calls see of it: tables on root pages,   *)
(* rows, statements that succeed or fail, transactions.  A HustleDB has one   *)
(* connection; sqlite3_exec holds its mutex, so a statement is one step.     *)
(***************************************************************************)
EXTENDS TableOps

CONSTANTS
  Database,    \* databases of the process
  TableName,   \* table names each database may use
  RowId, Value, Size,
  Workload,    \* what a process may meet: its databases and the names of their tables, the
               \* events of AllEvents besides successful statements, and a bound on the
               \* records of the log
  MaxRecords   \* bound on the records of a column table that is loaded

\* "truncate": DELETE without WHERE; "replace": INSERT OR REPLACE of a row that is
\* there; "rekey": UPDATE of a row id; and the ways a statement fails (see Statement).
AllEvents == {"delete", "truncate", "replace", "rekey", "abort", "or rollback", "error",
              "drop", "reopen", "load", "restart"}

ASSUME MemLogAssumption ==
  /\ IsFiniteSet(Database) /\ IsFiniteSet(TableName)
  /\ RowId \subseteq Nat \ {0} /\ Value \subseteq Nat /\ Size \subseteq Nat
  /\ Workload \subseteq [databases : SUBSET Database, names : SUBSET TableName,
                          events : SUBSET AllEvents, writes : Nat]
  /\ MaxRecords \in Nat

\* Page 1 is SQLite's schema table, of which table_map knows nothing.
Page == 2 .. Cardinality(TableName) + 1

VARIABLES
  work,        \* what this process meets, of Workload
  file,        \* what each SQLite file durably holds: name -> [page, rows]
  db,          \* the same as the connection sees it, in its transaction
  autoCommit,  \* sqlite3.autoCommit of the connection
  record_list, \* HustleMemLog.record_list: page -> sequence of records
  table_map,   \* the global map of cmemlog.cc: root page -> name
  catalogs,    \* HustleDB::catalogs: name -> the DBTable
  synced,      \* history: the tables of the two stores that no divergence has met yet
  undone,      \* history: databases whose last transaction OR ROLLBACK ended, until
               \* their log is cleared
  writes       \* BOUND: records logged so far

memlog_vars ==
  <<work, file, db, autoCommit, record_list, table_map, catalogs, synced, undone, writes>>

EmptyLog == [p \in Page |-> << >>]

Init ==
  /\ work \in Workload
  /\ file = [d \in Database |-> << >>] /\ db = file
  /\ autoCommit = [d \in Database |-> TRUE]
  /\ record_list = [d \in Database |-> EmptyLog]
  /\ table_map = << >>
  /\ catalogs = [d \in Database |-> << >>]
  /\ synced = {} /\ undone = {} /\ writes = 0

Without(f, x) == [y \in DOMAIN f \ {x} |-> f[y]]

------------------------------------------------------------------------------
(* hustle_memlog_update_db *)

AnyPooled(t) == CHOOSE id \in Pooled(t) : TRUE

Apply(t, e) ==
  CASE e.mode = "insert" -> InsertRecordTable(t, e.rec, AnyPooled(t))
    [] e.mode = "update" -> UpdateColumnValue(t, e.rec)
    [] e.mode = "update_string" -> UpdateString(t, e.rec, AnyPooled(t))
    [] e.mode = "delete" -> DeleteRecordTable(t, e.rec.id)

Replay(t, records) == FoldLeft(Apply, t, records)

\* The records of page p go to the table that the map names, if the catalog
\* has it; the others are dropped.
ReplayPage(catalog, log, map, p) ==
  IF p \in DOMAIN map /\ map[p] \in DOMAIN catalog
  THEN [catalog EXCEPT ![map[p]] = Replay(@, log[p])]
  ELSE catalog

UpdateDB(catalog, log, map) ==
  FoldLeft(LAMBDA c, p : ReplayPage(c, log, map, p), catalog,
           [i \in 1 .. Cardinality(Page) |-> i + 1])

\* Mutant: sqlite3VdbeHalt forgets hustle_memlog_clear.
Cleared_not(log) == log

\* hustle_memlog_clear
Cleared(log) == EmptyLog

\* Mutant: the log is not replayed.
Committed_unreplayed(catalog, log, map) == catalog

\* The column store after a commit.
Committed(catalog, log, map) == UpdateDB(catalog, log, map)

\* History.  block_map leads from every row that the records update or delete to
\* that row, when the records are replayed in order.
Leads(t, id) ==
  /\ id \in DOMAIN t.block_map
  /\ LET info == t.block_map[id]
         rows == GetBlock(t, info.block_id).rows
     IN  info.row_num + 1 \in DOMAIN rows /\ rows[info.row_num + 1].id = id

AllFound(t, records) ==
  \A i \in DOMAIN records :
    records[i].mode = "insert" \/ Leads(Replay(t, SubSeq(records, 1, i - 1)), records[i].rec.id)

\* History.  The tables that the replay does not bring to what SQLite holds, in which
\* tables have changed as the log says: the map, which all databases share, takes a
\* page's records to another table, or block_map takes one to another row.
Astray(tables, catalog, log, map) ==
  LET Owns(n, p) == n \in DOMAIN tables /\ tables[n].page = p
      Gets(n, p) == p \in DOMAIN map /\ map[p] = n
  IN  {n \in DOMAIN catalog : \E p \in Page :
         /\ log[p] # << >>
         /\ \/ Owns(n, p) # Gets(n, p)
            \/ Gets(n, p) /\ ~AllFound(catalog[n], log[p])}

Of(d, names) == {<<d, n>> : n \in names}

\* sqlite3VdbeHalt with auto-commit on and no error: the file takes what the
\* connection holds (new), the column store the log, whoever left it there.
HaltCommit(d, new, catalog, log, map) ==
  /\ db' = [db EXCEPT ![d] = new]
  /\ file' = [file EXCEPT ![d] = new]
  /\ catalogs' = [catalogs EXCEPT ![d] = Committed(catalog, log, map)]
  /\ record_list' = [record_list EXCEPT ![d] = Cleared(log)]
  /\ undone' = undone \ {d}

\* What a read of the schema adds to table_map (sqlite3EndTable).
SchemaMap(tables) ==
  [p \in {tables[n].page : n \in DOMAIN tables} |->
     CHOOSE n \in DOMAIN tables : tables[n].page = p]

\* sqlite3RollbackAll and auto-commit on.  A changed schema is read again.
RollbackAll(d) ==
  /\ db' = [db EXCEPT ![d] = file[d]]
  /\ autoCommit' = [autoCommit EXCEPT ![d] = TRUE]
  /\ table_map' = IF DOMAIN db[d] = DOMAIN file[d] THEN table_map
                  ELSE SchemaMap(file[d]) @@ table_map

\* sqlite3VdbeHalt after a statement that failed with auto-commit on, and after an
\* error of the disk or an interrupt in a transaction, which it ends.
HaltRollback(d, log) ==
  /\ RollbackAll(d)
  /\ record_list' = [record_list EXCEPT ![d] = Cleared(log)]
  /\ undone' = undone \ {d}
  /\ UNCHANGED <<file, catalogs, synced>>

\* The same after OR ROLLBACK in a transaction, which does not clear the log.
HaltOrRollback(d, log) ==
  /\ RollbackAll(d)
  /\ record_list' = [record_list EXCEPT ![d] = log]
  /\ undone' = undone \cup {d}
  /\ synced' = synced \ Of(d, {n \in DOMAIN db[d] : log[db[d][n].page] # << >>})
  /\ UNCHANGED <<file, catalogs>>

\* The same with a transaction open, after OR ABORT with the rows as before the statement.
HaltOpen(d, new, log) ==
  /\ db' = [db EXCEPT ![d] = new]
  /\ record_list' = [record_list EXCEPT ![d] = log]
  /\ UNCHANGED <<file, autoCommit, table_map, catalogs, undone>>

------------------------------------------------------------------------------
(* Statements that change rows: OP_Insert and OP_Delete *)

Record(i) == [id : {i}, val : Value, size : Size]

\* What OP_Insert, with the flag of an update and without, and OP_Delete may do to one
\* row of these.
Inserts(rows) == [mode : {"insert"}, rec : UNION {Record(i) : i \in RowId \ DOMAIN rows}]
Updates(rows) ==
  {[mode |-> "update", rec |-> [rows[i] EXCEPT !.val = v]] : i \in DOMAIN rows, v \in Value}
  \cup {[mode |-> "update_string", rec |-> [rows[i] EXCEPT !.size = s]] :
           i \in DOMAIN rows, s \in Size}
Deletes(rows) ==
  {[mode |-> "delete", rec |-> rows[i]] : i \in IF "delete" \in work.events THEN DOMAIN rows ELSE {}}

Changed(rows, e) ==
  IF e.mode = "delete" THEN Without(rows, e.rec.id) ELSE (e.rec.id :> e.rec) @@ rows

\* The rows of a statement, in the order it visits them.
Visits(rows) ==
  {<< >>} \cup {<<e>> : e \in Inserts(rows) \cup Updates(rows) \cup Deletes(rows)}
  \cup UNION {{<<e, f>> : f \in Inserts(Changed(rows, e))} : e \in Inserts(rows)}
  \cup UNION {{<<e, f>> : f \in Deletes(Changed(rows, e))} : e \in Deletes(rows)}

\* What a statement makes of the rows, the records that OP_Insert and OP_Delete write,
\* and whether they say it.  With OR FAIL the rows are those before the failure.
Recorded(rows) ==
  {[rows |-> FoldLeft(Changed, rows, s), log |-> s, recorded |-> TRUE] : s \in Visits(rows)}

\* OP_Clear writes none.
Truncate(rows) == {[rows |-> << >>, log |-> << >>, recorded |-> rows = << >>]}

\* A row that is there is overwritten by OP_Insert alone.
Replace(rows) ==
  {[rows |-> Changed(rows, e), log |-> <<e>>, recorded |-> FALSE] :
     e \in [mode : {"insert"}, rec : UNION {Record(i) : i \in DOMAIN rows}]}

\* A row gets another id: OP_Delete, and OP_Insert as an update of the first column.
Rekey(rows) ==
  {LET r == [rows[i] EXCEPT !.id = j]
   IN  [rows |-> (j :> r) @@ Without(rows, i),
        log |-> <<[mode |-> "delete", rec |-> rows[i]], [mode |-> "update", rec |-> r]>>,
        recorded |-> FALSE] : i \in DOMAIN rows, j \in RowId \ DOMAIN rows}

Statements(rows) ==
  Recorded(rows)
  \cup (IF "truncate" \in work.events THEN Truncate(rows) ELSE {})
  \cup (IF "replace" \in work.events THEN Replace(rows) ELSE {})
  \cup (IF "rekey" \in work.events THEN Rekey(rows) ELSE {})

\* Mutant: OP_Delete is not recorded.
Logged_nodelete(log, p, s) ==
  [log EXCEPT ![p] = @ \o SelectSeq(s, LAMBDA e : e.mode # "delete")]

\* hustle_memlog_create_record and hustle_memlog_insert_record for each row
Logged(log, p, s) == [log EXCEPT ![p] = @ \o s]

\* outcome: "ok"; or, when the statement fails after what s says, "abort" (the rows of
\* the statement are undone), "or rollback" or "error" (those of the transaction).
Outcome == {"ok", "abort", "or rollback", "error"}

Statement(d, n, outcome) ==
  /\ n \in DOMAIN db[d]
  /\ outcome \in {"ok"} \cup work.events
  /\ \E s \in Statements(db[d][n].rows) :
       LET log == Logged(record_list[d], db[d][n].page, s.log)
           new == [db[d] EXCEPT ![n].rows = s.rows]
       IN  /\ writes + Len(s.log) <= work.writes
           /\ writes' = writes + Len(s.log)
           /\ \/ /\ outcome = "ok" /\ autoCommit[d]
                 /\ HaltCommit(d, new, catalogs[d], log, table_map)
                 /\ synced' = synced \ Of(d, Astray(new, catalogs[d], log, table_map)
                                          \cup {m \in {n} : ~s.recorded})
                 /\ UNCHANGED <<autoCommit, table_map>>
              \/ /\ outcome = "ok" /\ ~autoCommit[d]
                 /\ HaltOpen(d, new, log)
                 /\ synced' = synced \ Of(d, {m \in {n} : ~s.recorded})
              \/ /\ outcome = "abort" /\ ~autoCommit[d]
                 /\ HaltOpen(d, db[d], log)
                 /\ synced' = synced \ Of(d, {m \in {n} : s.log # << >>})
              \/ /\ outcome = "or rollback" /\ ~autoCommit[d]
                 /\ HaltOrRollback(d, log)
              \/ /\ outcome = "error" \/ (outcome # "ok" /\ autoCommit[d])
                 /\ HaltRollback(d, log)
  /\ UNCHANGED work

------------------------------------------------------------------------------
(* Transactions: OP_AutoCommit, which ends in sqlite3VdbeHalt *)

Begin(d) ==
  /\ d \in work.databases
  /\ autoCommit[d]
  /\ autoCommit' = [autoCommit EXCEPT ![d] = FALSE]
  /\ UNCHANGED <<work, file, db, record_list, table_map, catalogs, synced, undone, writes>>

Commit(d) ==
  /\ ~autoCommit[d]
  /\ autoCommit' = [autoCommit EXCEPT ![d] = TRUE]
  /\ HaltCommit(d, db[d], catalogs[d], record_list[d], table_map)
  /\ synced' = synced \ Of(d, Astray(db[d], catalogs[d], record_list[d], table_map))
  /\ UNCHANGED <<work, table_map, writes>>

\* COMMIT fails: sqlite3RollbackAll and clear.
CommitFails(d) ==
  /\ "error" \in work.events
  /\ ~autoCommit[d]
  /\ HaltRollback(d, record_list[d])
  /\ UNCHANGED <<work, writes>>

\* sqlite3RollbackAll, then sqlite3VdbeHalt commits what is left: the file as it
\* was, and the log as it is, which no table asks for.
Rollback(d) ==
  /\ ~autoCommit[d]
  /\ RollbackAll(d)
  /\ HaltCommit(d, file[d], catalogs[d], record_list[d], table_map)
  /\ synced' = synced \ Of(d, Astray(<< >>, catalogs[d], record_list[d], table_map))
  /\ UNCHANGED <<work, writes>>

------------------------------------------------------------------------------
(* Catalog and HustleDB *)

\* SQLite takes the first page that is free.
FreePage(tables) ==
  LET free == Page \ {tables[n].page : n \in DOMAIN tables}
  IN  CHOOSE p \in free : \A q \in free : p <= q

\* Catalog::AddTable: the catalog first, then BEGIN; CREATE TABLE ..; COMMIT;
\* in SQLite, which stops at its first error.
CreateTable(d, n) ==
  /\ d \in work.databases /\ n \in work.names
  /\ n \notin DOMAIN catalogs[d]
  /\ LET added == (n :> EmptyTable(WordWidth)) @@ catalogs[d]
     IN  \/ /\ autoCommit[d] /\ n \notin DOMAIN db[d]
            /\ LET p == FreePage(db[d])
                   new == (n :> [page |-> p, rows |-> << >>]) @@ db[d]
                   map == (p :> n) @@ table_map
               IN  /\ table_map' = map
                   /\ HaltCommit(d, new, added, record_list[d], map)
                   /\ synced' = (synced \cup {<<d, n>>}) \ Of(d, Astray(new, added, record_list[d], map))
            /\ UNCHANGED autoCommit
         \* CREATE fails after BEGIN, or BEGIN in a transaction.
         \/ /\ ~autoCommit[d] \/ n \in DOMAIN db[d]
            /\ autoCommit' = [autoCommit EXCEPT ![d] = FALSE]
            /\ catalogs' = [catalogs EXCEPT ![d] = added]
            /\ UNCHANGED <<file, db, record_list, table_map, synced, undone>>
  /\ UNCHANGED <<work, writes>>

\* The pages memlog_remove_table_mapping may find the name at first.
Found(n) ==
  {p \in DOMAIN table_map :
     table_map[p] = n /\ \A q \in DOMAIN table_map : table_map[q] = n => p <= q}

\* DROP TABLE: OP_DropTable forgets the mapping and, if there was one, the
\* catalog's table.
DropTable(d, n) ==
  /\ "drop" \in work.events
  /\ n \in DOMAIN db[d]
  /\ LET new == Without(db[d], n)
         forget == IF Found(n) = {} THEN catalogs[d] ELSE Without(catalogs[d], n)
         map == [p \in DOMAIN table_map \ Found(n) |-> table_map[p]]
     IN  /\ table_map' = map
         /\ \/ /\ autoCommit[d]
               /\ HaltCommit(d, new, forget, record_list[d], map)
               /\ synced' = synced \ Of(d, {n} \cup Astray(new, forget, record_list[d], map))
            \/ /\ ~autoCommit[d]
               /\ db' = [db EXCEPT ![d] = new]
               /\ catalogs' = [catalogs EXCEPT ![d] = forget]
               /\ synced' = synced \ Of(d, {n})
               /\ UNCHANGED <<file, record_list, undone>>
  /\ UNCHANGED <<work, autoCommit, writes>>

\* HustleDB::drop_mem_table
DropMemTable(d, n) ==
  /\ "drop" \in work.events
  /\ n \in DOMAIN catalogs[d]
  /\ catalogs' = [catalogs EXCEPT ![d] = Without(@, n)]
  /\ synced' = synced \ Of(d, {n})
  /\ UNCHANGED <<work, file, db, autoCommit, record_list, table_map, undone, writes>>

\* close_sqlite3 (hustle_memlog_free clears the map of all databases) and
\* open_sqlite3_db (its PRAGMA reads the schema).
Reopen(d) ==
  /\ db' = [db EXCEPT ![d] = file[d]]
  /\ autoCommit' = [autoCommit EXCEPT ![d] = TRUE]
  /\ record_list' = [record_list EXCEPT ![d] = EmptyLog]
  /\ table_map' = SchemaMap(file[d])
  /\ undone' = undone \ {d}
  /\ UNCHANGED file

Reinitialize(d) ==
  /\ d \in work.databases /\ "reopen" \in work.events
  /\ Reopen(d)
  /\ UNCHANGED <<work, catalogs, synced, writes>>

\* OP_TableRead.  It reads a row before it asks for the next one: of a table without
\* rows it inserts nothing or whatever the page holds where the first row would be.
Phantom == [id |-> 0, val |-> 0, size |-> 0]

Reads(rows) ==
  IF rows = << >> THEN {<< >>, <<[mode |-> "insert", rec |-> Phantom]>>}
  ELSE {[i \in 1 .. Cardinality(DOMAIN rows) |->
           [mode |-> "insert", rec |-> rows[SetToSortSeq(DOMAIN rows, <)[i]]]]}

NumRecords(t) == FoldLeft(LAMBDA sum, b : sum + Len(b.rows), 0, t.blocks)

\* HustleDB::load_tables: reopen, then OP_TableRead inserts every row of every table
\* of the catalog that SQLite has, on top of what the column table holds.
LoadTables(d) ==
  /\ "load" \in work.events
  /\ Reopen(d)
  /\ LET names == DOMAIN catalogs[d] \cap DOMAIN file[d]
         Fresh(n) == catalogs[d][n].num_rows = 0 /\ NumRecords(catalogs[d][n]) = 0
     IN  /\ names # {}
         /\ \A n \in names :
              NumRecords(catalogs[d][n]) + Cardinality(DOMAIN file[d][n].rows) <= MaxRecords
         /\ \E reads \in [names -> UNION {Reads(file[d][n].rows) : n \in names}] :
              /\ \A n \in names : reads[n] \in Reads(file[d][n].rows)
              /\ catalogs' = [catalogs EXCEPT ![d] = [n \in DOMAIN @ |->
                   IF n \in names THEN Replay(@[n], reads[n]) ELSE @[n]]]
              /\ LET full == {n \in names : file[d][n].rows # << >>}
                     read == {n \in names : reads[n] # << >>}
                 IN  synced' = (synced \ Of(d, read)) \cup Of(d, {n \in full : Fresh(n)})
  /\ UNCHANGED <<work, writes>>

\* The process ends, at any moment, and every database is opened anew.
Restart ==
  /\ "restart" \in work.events
  /\ db' = file
  /\ autoCommit' = [d \in Database |-> TRUE]
  /\ record_list' = [d \in Database |-> EmptyLog]
  /\ \E order \in {f \in [1 .. Cardinality(Database) -> Database] :
                     Range(f) = Database} :
       table_map' = FoldLeft(LAMBDA m, d : SchemaMap(file[d]) @@ m, << >>, order)
  /\ catalogs' = [d \in Database |-> << >>]
  /\ synced' = {} /\ undone' = {}
  /\ UNCHANGED <<work, file, writes>>

Next ==
  \/ \E d \in Database, n \in TableName :
       \/ \E o \in Outcome : Statement(d, n, o)
       \/ CreateTable(d, n) \/ DropTable(d, n) \/ DropMemTable(d, n)
  \/ \E d \in Database :
       \/ Begin(d) \/ Commit(d) \/ CommitFails(d) \/ Rollback(d)
       \/ Reinitialize(d) \/ LoadTables(d)
  \/ Restart

Spec == Init /\ [][Next]_memlog_vars

------------------------------------------------------------------------------
(* Properties *)

Contents(t) == UNION {Range(t.blocks[i].rows) : i \in 1 .. Len(t.blocks)}

\* The column table holds exactly these rows.
Holds(t, rows) ==
  /\ Contents(t) = Range(rows)
  /\ NumRecords(t) = Cardinality(DOMAIN rows) /\ t.num_rows = NumRecords(t)

\* A query sees what SQLite has committed, all of it and nothing else: neither the
\* changes of an open transaction nor those of a statement that failed.  That is so of
\* every table until one of the divergences that synced names has met it, whatever
\* happens to the others, and again once the table is loaded anew.
Mirror ==
  \A d \in Database, n \in TableName :
    <<d, n>> \in synced =>
      /\ n \in DOMAIN file[d] /\ n \in DOMAIN catalogs[d]
      /\ Holds(catalogs[d][n], file[d][n].rows)

\* The memory log is the difference between the two stores: replaying it would
\* bring the column table to what the connection sees, if its records find their rows.
LogIsDifference ==
  \A d \in Database, n \in TableName :
    <<d, n>> \in synced /\ n \in DOMAIN db[d] =>
      LET records == record_list[d][db[d][n].page]
      IN  AllFound(catalogs[d][n], records) =>
            Holds(Replay(catalogs[d][n], records), db[d][n].rows)

\* Outside a transaction nothing waits in the log, so that no later commit can apply
\* it, except what an OR ROLLBACK left, until hustle_memlog_clear next runs.
NothingLeftBehind ==
  \A d \in Database : autoCommit[d] /\ d \notin undone => record_list[d] = EmptyLog

\* "during commit, the records in the Memlog are updated to the arrow array": the
\* column store holds no record that SQLite has not committed.
OnlyCommitted ==
  \A d \in Database : \A n \in DOMAIN catalogs[d] \cap DOMAIN file[d] :
    Contents(catalogs[d][n]) \subseteq Range(file[d][n].rows)

==============================================================================
