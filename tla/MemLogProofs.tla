---------------------------- MODULE MemLogProofs -----------------------------
(***************************************************************************)
(* Outside a transaction the memory log is empty, unless OR ROLLBACK ended   *)
(* the last one, for any set of databases, tables, rows and events.          *)
(***************************************************************************)
EXTENDS MemLog, TLAPS

\* Every database has its flag and its log (sqlite3.autoCommit and
\* HustleMemLog.record_list of its connection).
LogTyped ==
  /\ autoCommit \in [Database -> BOOLEAN]
  /\ DOMAIN record_list = Database

LogInv == LogTyped /\ NothingLeftBehind

\* A step on one connection keeps the invariant when it empties that log, leaves the
\* connection in a transaction, or is an OR ROLLBACK.
LEMMA OneLog ==
  ASSUME LogInv, NEW d \in Database, NEW log,
         record_list' = [record_list EXCEPT ![d] = log],
         autoCommit' \in [Database -> BOOLEAN],
         log = EmptyLog \/ ~autoCommit'[d] \/ d \in undone',
         \A e \in Database \ {d} : autoCommit'[e] = autoCommit[e],
         \A e \in Database \ {d} : e \in undone => e \in undone'
  PROVE  LogInv'
<1>1. LogTyped'
  BY DEF LogInv, LogTyped
<1>2. EmptyLog' = EmptyLog
  BY DEF EmptyLog, Page
<1>3. ASSUME NEW e \in Database, autoCommit'[e], e \notin undone'
      PROVE  record_list'[e] = EmptyLog
  <2>1. CASE e = d
    BY <1>3, <2>1 DEF LogInv, LogTyped
  <2>2. CASE e # d
    BY <1>3, <2>2 DEF LogInv, LogTyped, NothingLeftBehind
  <2> QED BY <2>1, <2>2
<1>4. NothingLeftBehind'
  BY <1>2, <1>3 DEF NothingLeftBehind
<1> QED BY <1>1, <1>4 DEF LogInv

\* sqlite3VdbeHalt, where it ends in hustle_memlog_clear, empties the log of its own
\* connection and leaves the others.
LEMMA HaltClears ==
  ASSUME LogInv, NEW d \in Database, NEW log,
         record_list' = [record_list EXCEPT ![d] = Cleared(log)],
         undone' = undone \ {d},
         \/ autoCommit' = autoCommit
         \/ autoCommit' = [autoCommit EXCEPT ![d] = TRUE]
  PROVE  LogInv'
<1>1. record_list' = [record_list EXCEPT ![d] = EmptyLog]
  BY DEF Cleared
<1>2. autoCommit' \in [Database -> BOOLEAN]
  BY DEF LogInv, LogTyped
<1>3. \A e \in Database \ {d} : autoCommit'[e] = autoCommit[e]
  BY DEF LogInv, LogTyped
<1> QED BY <1>1, <1>2, <1>3, OneLog

\* A step that leaves every log alone keeps the invariant when no connection
\* enters auto-commit mode (BEGIN, a CREATE TABLE that fails, DROP TABLE in a
\* transaction).
LEMMA LogAlone ==
  ASSUME LogInv, record_list' = record_list, undone' = undone,
         autoCommit' \in [Database -> BOOLEAN],
         \A e \in Database : autoCommit'[e] => autoCommit[e]
  PROVE  LogInv'
<1>1. EmptyLog' = EmptyLog
  BY DEF EmptyLog, Page
<1>2. NothingLeftBehind'
  BY <1>1 DEF LogInv, LogTyped, NothingLeftBehind
<1> QED BY <1>2 DEF LogInv, LogTyped

\* A statement leaves its records in the log only inside a transaction, or where OR
\* ROLLBACK ends one: otherwise it ends in hustle_memlog_clear.
LEMMA StatementLog ==
  ASSUME LogInv, NEW d \in Database, NEW n \in TableName, NEW o \in Outcome,
         Statement(d, n, o)
  PROVE  LogInv'
<1>1. PICK s \in Statements(db[d][n].rows) :
        LET log == Logged(record_list[d], db[d][n].page, s.log)
            new == [db[d] EXCEPT ![n].rows = s.rows]
        IN  \/ /\ HaltCommit(d, new, catalogs[d], log, table_map)
               /\ autoCommit' = autoCommit
            \/ ~autoCommit[d] /\ HaltOpen(d, new, log)
            \/ ~autoCommit[d] /\ HaltOpen(d, db[d], log)
            \/ HaltOrRollback(d, log)
            \/ HaltRollback(d, log)
  BY DEF Statement
<1> DEFINE log == Logged(record_list[d], db[d][n].page, s.log)
<1>2. \/ /\ record_list' = [record_list EXCEPT ![d] = Cleared(log)]
         /\ undone' = undone \ {d}
         /\ \/ autoCommit' = autoCommit
            \/ autoCommit' = [autoCommit EXCEPT ![d] = TRUE]
      \/ /\ record_list' = [record_list EXCEPT ![d] = log]
         /\ undone' = undone /\ autoCommit' = autoCommit /\ ~autoCommit[d]
      \/ /\ record_list' = [record_list EXCEPT ![d] = log]
         /\ undone' = undone \cup {d}
         /\ autoCommit' = [autoCommit EXCEPT ![d] = TRUE]
  BY <1>1 DEF HaltCommit, HaltOpen, HaltOrRollback, HaltRollback, RollbackAll
<1> HIDE DEF log
<1>3. CASE /\ record_list' = [record_list EXCEPT ![d] = Cleared(log)]
           /\ undone' = undone \ {d}
           /\ \/ autoCommit' = autoCommit
              \/ autoCommit' = [autoCommit EXCEPT ![d] = TRUE]
  BY <1>3, HaltClears
<1>4. CASE /\ record_list' = [record_list EXCEPT ![d] = log]
           /\ undone' = undone /\ autoCommit' = autoCommit /\ ~autoCommit[d]
  <2>1. autoCommit' \in [Database -> BOOLEAN]
    BY <1>4 DEF LogInv, LogTyped
  <2> QED BY <1>4, <2>1, OneLog
<1>5. CASE /\ record_list' = [record_list EXCEPT ![d] = log]
           /\ undone' = undone \cup {d}
           /\ autoCommit' = [autoCommit EXCEPT ![d] = TRUE]
  <2>1. /\ autoCommit' \in [Database -> BOOLEAN]
        /\ \A e \in Database \ {d} : autoCommit'[e] = autoCommit[e]
    BY <1>5 DEF LogInv, LogTyped
  <2> QED BY <1>5, <2>1, OneLog
<1> QED BY <1>2, <1>3, <1>4, <1>5

\* COMMIT, whether it succeeds or not, and ROLLBACK end in sqlite3VdbeHalt with
\* auto-commit on.
LEMMA EndLog ==
  ASSUME LogInv, NEW d \in Database, Commit(d) \/ CommitFails(d) \/ Rollback(d)
  PROVE  LogInv'
<1>1. /\ autoCommit' = [autoCommit EXCEPT ![d] = TRUE]
      /\ record_list' = [record_list EXCEPT ![d] = Cleared(record_list[d])]
      /\ undone' = undone \ {d}
  BY DEF Commit, CommitFails, Rollback, HaltCommit, HaltRollback, RollbackAll
<1> QED BY <1>1, HaltClears

\* Closing a connection frees its log, and opening it makes an empty one.
LEMMA ReopenLog ==
  ASSUME LogInv, NEW d \in Database, Reopen(d)
  PROVE  LogInv'
<1>1. /\ autoCommit' = [autoCommit EXCEPT ![d] = TRUE]
      /\ record_list' = [record_list EXCEPT ![d] = Cleared(<< >>)]
      /\ undone' = undone \ {d}
  BY DEF Reopen, Cleared
<1> QED BY <1>1, HaltClears

\* The operations on tables write no record; in auto-commit mode CREATE TABLE and
\* DROP TABLE end in hustle_memlog_clear.
LEMMA TablesLog ==
  ASSUME LogInv, NEW d \in Database, NEW n \in TableName,
         CreateTable(d, n) \/ DropTable(d, n) \/ DropMemTable(d, n)
  PROVE  LogInv'
<1>1. \/ /\ record_list' = [record_list EXCEPT ![d] = Cleared(record_list[d])]
         /\ undone' = undone \ {d} /\ autoCommit' = autoCommit
      \/ /\ record_list' = record_list /\ undone' = undone
         /\ \/ autoCommit' = autoCommit
            \/ autoCommit' = [autoCommit EXCEPT ![d] = FALSE]
  BY DEF CreateTable, DropTable, DropMemTable, HaltCommit
<1>2. CASE /\ record_list' = [record_list EXCEPT ![d] = Cleared(record_list[d])]
           /\ undone' = undone \ {d} /\ autoCommit' = autoCommit
  BY <1>2, HaltClears
<1>3. CASE /\ record_list' = record_list /\ undone' = undone
           /\ \/ autoCommit' = autoCommit
              \/ autoCommit' = [autoCommit EXCEPT ![d] = FALSE]
  <2>1. /\ autoCommit' \in [Database -> BOOLEAN]
        /\ \A e \in Database : autoCommit'[e] => autoCommit[e]
    BY <1>3 DEF LogInv, LogTyped
  <2> QED BY <1>3, <2>1, LogAlone
<1> QED BY <1>1, <1>2, <1>3

\* A new process opens its connections with empty logs, in auto-commit mode.
LEMMA RestartLog ==
  ASSUME LogInv, Restart
  PROVE  LogInv'
<1>1. EmptyLog' = EmptyLog
  BY DEF EmptyLog, Page
<1>2. /\ autoCommit' = [d \in Database |-> TRUE]
      /\ record_list' = [d \in Database |-> EmptyLog]
  BY DEF Restart
<1> QED BY <1>1, <1>2 DEF LogInv, LogTyped, NothingLeftBehind

\* OR ROLLBACK is the only way to leave records in the log of a connection outside a
\* transaction, until hustle_memlog_clear next runs on it, whatever else fails, whichever
\* tables are created, dropped, reopened or loaded, and across restarts: otherwise no
\* commit applies what an earlier statement or transaction left.
THEOREM NothingLeftBehindHolds == Spec => []NothingLeftBehind
<1>1. Init => LogInv
  BY DEF Init, LogInv, LogTyped, NothingLeftBehind
<1>2. LogInv /\ [Next]_memlog_vars => LogInv'
  <2> SUFFICES ASSUME LogInv, [Next]_memlog_vars
               PROVE  LogInv'
    OBVIOUS
  <2>1. ASSUME NEW d \in Database, NEW n \in TableName,
               NEW o \in Outcome, Statement(d, n, o)
        PROVE  LogInv'
    BY <2>1, StatementLog
  <2>2. ASSUME NEW d \in Database, NEW n \in TableName,
               CreateTable(d, n) \/ DropTable(d, n) \/ DropMemTable(d, n)
        PROVE  LogInv'
    BY <2>2, TablesLog
  <2>3. ASSUME NEW d \in Database, Begin(d)
        PROVE  LogInv'
    <3>1. /\ record_list' = record_list /\ undone' = undone
          /\ autoCommit' = [autoCommit EXCEPT ![d] = FALSE]
      BY <2>3 DEF Begin
    <3>2. /\ autoCommit' \in [Database -> BOOLEAN]
          /\ \A e \in Database : autoCommit'[e] => autoCommit[e]
      BY <3>1 DEF LogInv, LogTyped
    <3> QED BY <3>1, <3>2, LogAlone
  <2>4. ASSUME NEW d \in Database, Commit(d) \/ CommitFails(d) \/ Rollback(d)
        PROVE  LogInv'
    BY <2>4, EndLog
  <2>5. ASSUME NEW d \in Database, Reinitialize(d) \/ LoadTables(d)
        PROVE  LogInv'
    <3>1. Reopen(d)
      BY <2>5 DEF Reinitialize, LoadTables
    <3> QED BY <3>1, ReopenLog
  <2>6. CASE Restart
    BY <2>6, RestartLog
  <2>7. CASE UNCHANGED memlog_vars
    <3>1. record_list' = record_list /\ autoCommit' = autoCommit /\ undone' = undone
      BY <2>7 DEF memlog_vars
    <3> QED BY <3>1, LogAlone DEF LogInv, LogTyped
  <2> QED BY <2>1, <2>2, <2>3, <2>4, <2>5, <2>6, <2>7 DEF Next
<1>3. LogInv => NothingLeftBehind
  BY DEF LogInv
<1> QED BY <1>1, <1>2, <1>3, PTL DEF Spec

==============================================================================
