# Hustle in TLA+

Hustle is an in-process analytical engine joined to a patched SQLite: SQLite
parses SQL and runs transactions; Hustle keeps a columnar copy of every table,
executes SELECT plans over it with its own task scheduler, and learns of
inserts, updates and deletes from hooks in SQLite's virtual machine. This
directory holds TLA+ models of its parts, the TLC runs that check them on small
instances, and TLAPS proofs about the scheduler, the execution of a plan and the
memory log for every instance.

Contents: [the system](#the-system), [scheduler](#scheduler),
[queries on the scheduler](#queries-on-the-scheduler), [storage](#storage),
[memory log](#memory-log), [operators](#operators),
[resolver and planner](#resolver-and-planner),
[containers and codecs](#containers-and-codecs), [runs](#runs),
[bounds](#bounds), [fairness](#fairness), [proofs](#proofs),
[findings](#findings), [known divergences](#known-divergences),
[not modelled](#not-modelled).

## The system

Paths are relative to `src/src`.

| part | source | modules | interacts with |
|---|---|---|---|
| scheduler, workers, queues | `scheduler/**` | `Scheduler`, `TaskGraph`, `Scheduler*Proofs`, `SchedulerInvariant` | every client |
| execution plan, `execute()` | `execution/execution_plan.cc`, `resolver/cresolver.cc` | `ExecutionPlan`, `ExecutionPlanInvariant`, `ExecutionPlanProofs` | scheduler, operators |
| tables and blocks | `storage/table.cc`, `block.cc`, `storage/utils/util.cc` | `TableOps`, `DBTable` | memory log, operators |
| memory log, catalog, `HustleDB` | `storage/cmemlog.cc`, `catalog/catalog.cc`, `api/hustle_db.cc`, hooks in `third_party/sqlite3/sqlite3.c` | `MemLog`, `MCMemLog`, `MemLogProofs` | SQLite, tables |
| lazy tables | `operators/utils/**`, `utils/arrow_compute_wrappers.cc` | `LazyTable` | all operators |
| selection, block metadata | `operators/select/**`, `operators/fused/select_build_hash.cc`, `storage/ma_block.*`, `storage/metadata_units/**` | `Selection` | joins |
| joins | `operators/join/**`, `operators/fused/filter_join.cc`, `utils/bloom_filter.h` | `Joins`, `StarJoin`, `BloomFilter` | aggregates |
| aggregates, expressions | `operators/aggregate/**`, `operators/expression.cc` | `Aggregation`, `GroupAggregate` | the answer |
| operators at work | the `execute()` of every operator | `Query`, `MCQuery` | scheduler |
| resolver, planner, join order | `resolver/**`, `optimizer/**`, `utils/disjoint_set_forest.h` | `Resolver`, `Planner`, `DisjointSetForest`, `MCPlanner` | plan, catalog |
| hash maps, B-trees | `utils/parallel_hashmap/**` | `FlatHashMap`, `BTree` | joins, storage |
| xor filters, xxHash, record format | `utils/xorfilter.h`, `utils/xxHash.h`, `storage/utils/record_utils.h` | `XorFilter`, `XxHash`, `RecordCodec` | memory log |
| the containers at work | | `Containers`, `MCContainers` | |

What makes the system hard: one scheduler thread, several workers and the client
share the node table and four queues; tasks add tasks while their parents
complete; operators write shared results from parallel tasks and rely on
continuations for every ordering; the column store follows SQLite's
transactions by replaying a log at commit; row ids are mapped to block
positions that move; the containers move elements between slots and nodes while
iterators and counts must stay right.

The modules are layered as the code is. `Scheduler` shows that tasks run in the
order of their dependencies; `ExecutionPlan`, built on it action by action, that
a query's operators run in the order of the plan; `Query` then takes operators
one after another and checks what they compute under every order of the tasks
of one link; `Planner` checks that the plans which the code builds are linked
as `ExecutionPlan` presumes. `MemLog` uses the table operators of `TableOps`,
which `DBTable` checks by themselves.

## Scheduler

`Scheduler.tla` models the threads at the grain of their critical sections.

* Variables keep the source's names: `nodes`, `dependents` and
  `dependency_count` are `nodes_`, `tasks` is the key set of `tasks_`,
  `available_workers` the stack, `worker_msg_queue[w]` the queue of worker `w`.
  `retiring` is the recursion stack of `processDependentsUnsafe`, run by the
  thread that holds `nodes_mutex`. `call[thr]` is the part of an `addTask` (or
  `addTaskIntoQueue`) call that thread `thr` still has to do after its critical
  section on the node table. `links`, `retired` and `finished` are history.
* The scheduler thread: `Dispatch`/`DispatchEnd` (`processTaskQueue`),
  `CheckHalt`, `PopSignal`, `PopCompletion`, `ProcessDependent`, `EraseNode`,
  `FreeWorker`, `StopWorkers`, `JoinWorkers`. A worker: `WorkerPopTask`,
  `FinishTask`, `WorkerPopJoin`; its task's body may at any time do
  `SpawnTask` or a round of `CreateTaskChain` (`ChainNext`, closed by
  `SpawnTask`). The client: `MainAddTask`, `Start`, `Join`, `JoinReturns`
  (which includes `clear()`), over any number of epochs.
* `TaskGraph.tla` is the promise: a graph of tasks and continuations that grows
  while it is executed. `ImplementsTaskGraph` is the refinement.

## Queries on the scheduler

`ExecutionPlan.tla` extends `Scheduler` and adds what the code of each kind of
task does: the client's `execute()` (`Query`: a chain of two tasks, then a wait
on a lock), the task that spawns the plan, and `ExecutionPlan::execute()` call
by call (`PlanEnter`, `PlanAddOperator`, `PlanLinkExit`, `PlanLink`,
`PlanAddExit`, `PlanFire`), while workers already run other tasks. The plan is
chosen at the start: any acyclic set of links (`Acyclic`), whichever of two linked
operators was added first: `createPlan` adds an aggregate before its join and a
join before its selects, but the hash joins of a linear plan in the order in
which they run. Operators add any chains and tasks.

## Storage

`TableOps.tla` gives `DBTable` and `Block` as operators on table values: blocks
of records of bounded width, the insert pool (pointers to blocks, told apart
from the blocks that replaced them by `object`), row counts and offsets,
`block_map`. `DBTable.tla` drives them: single inserts by row id or from a csv
line, batches, whole blocks, updates in place and of strings, deletions (each
copies the block), writing to a file and reading back. A record is its row id, a
value and the width of its strings. Its numbers have several widths, as in the
code: that of their own types (`fixed_record_width`, which csv lines, batches and
files go by), that of 64-bit integers (`WordWidth`, by which batches, lines and
compactions store them) and that of SQLite's format (`EncodedWidth`, by which
`Block::InsertRecord` refuses a record). Whole blocks come with an id of the
caller's choice, and `large` lets records be larger than a block.

## Memory log

`MemLog.tla` models what SQLite commits and how it reaches the column store.
SQLite itself is modelled by what its hooks see: tables on root pages,
statements and transactions. The actions are a statement with its outcome,
`BEGIN`, `COMMIT` (which may fail), `ROLLBACK`, `CREATE` and `DROP`, reopening a
database, `load_tables`, and the end of the process at any moment. `table_map` is
one map for all databases of the process, as in the code.

* `Statements` has the ones whose rows go through `OP_Insert` and `OP_Delete` and
  into the log, and the three that change rows without saying so in the log:
  DELETE without WHERE (`Truncate`, `OP_Clear`), INSERT OR REPLACE of a row that is
  there (`Replace`) and UPDATE of a row id (`Rekey`).
* A statement succeeds or fails as `sqlite3VdbeHalt` tells apart: its rows are
  undone and the transaction stays open (`abort`), OR ROLLBACK undoes the
  transaction and leaves the log (`or rollback`), or an error of the disk or an
  interrupt undoes the transaction and clears it (`error`). With auto-commit on
  all of them undo and clear. OR FAIL is a successful statement of fewer rows.
* `synced` is history: the tables of which the two stores agree as long as none
  of the divergences listed below has met them; `undone` the databases with a log
  that OR ROLLBACK left. `Mirror` and `LogIsDifference` are about the tables in
  `synced`, so that one table's divergence exempts that table only and ends when
  it is loaded anew.

## Operators

`LazyTable`, `Selection`, `Joins`, `StarJoin`, `Aggregation` and
`GroupAggregate` give every link of every operator as a function from the
operator's fields to its fields and the set of tasks it starts; columns are
sequences of chunks of integers, row numbers run over all chunks, bitmaps are
packed into bytes. `Query.tla` runs them: `StartLink`, then `RunTask` for the
tasks of the link in any order, `WaitForSlices`/`Resume` for tasks that block a
worker while other tasks run, `NextOperator`. Operators run one after another,
and one query at a time. Whoever materializes a column of a joined table calls
`apply_indices`, which blocks its worker until other workers have run the slices:
the links of HashJoin, MultiwayJoin and both aggregates (`LinkReads`), the tasks of
GROUP BY columns and of the foreign keys of LIP and FilterJoin (`TaskReads`). The
number of workers belongs to the query, and may be too small. A query is `lost`
where a task throws an exception that nobody catches, divides by zero, or uses a
reference to an object that is gone (`Lose`). The properties compare results
with a definition of the SQL answer row by row (`RowsOf`, `JoinOf`, `Total`),
which shares nothing with the operators.

## Resolver and planner

`Resolver.tla` translates `ResolveSelectTree` over SQLite's expression trees
(including its mutable cursor of the table at hand), `Planner.tla` the choice
between star and linear plans, `createPlan` with all operators, inputs and
links, and the greedy join reordering with its queue and disjoint-set forest.
`MCPlanner` enumerates WHERE clauses.

## Containers and codecs

`FlatHashMap` has control bytes, their copies behind the sentinel, probing,
tombstones, growth and rehashing in place; `BTree` nodes with parents and
positions, splitting, rebalancing, merging, iterators; `XorFilter` the
construction of a filter with its queues and retries; `XxHash` which bytes of
the input meet which lane; `RecordCodec` SQLite's varints and serial types on
words of 64 bits, as sets of bits. `Containers` drives them, one kind to a
behaviour, beside a plain map from keys to values or counts.

## Runs

| run | module | shows |
|---|---|---|
| `scheduler_safety` | `Scheduler` | no task runs early (`DependenciesFirst`), twice or never (`TasksConserved`); no worker is lost or gets two tasks (`WorkersConserved`); the window of `addTask` between the node table and `tasks_` is harmless (`ReleaseFindsTask`); `join()` is a barrier (`JoinLosesNothing`); refinement of `TaskGraph` |
| `scheduler_live` | `Scheduler` | every task runs, `join()` returns |
| `plan_safety` | `ExecutionPlan` | consumers start after all tasks of their producers (`ProducersFirst`); the result is taken after all operators (`ResultComplete`); no deadlock |
| `plan_live` | `ExecutionPlan` | the waiting client is released (`QueryReturns`) |
| `table` | `DBTable` | the insert pool holds live blocks with room (`PoolIsLive`), blocks of 64-bit columns never overflow, and others by a bounded amount (`BlocksFit`), counts and offsets (`RowsCounted`), contents and row-id map (`RowsFound`) |
| `table_stale` | `DBTable` | violation: two deletions by row id, see Findings |
| `memlog_mirror` | `MCMemLog` | the column store holds what SQLite committed (`Mirror`); the log is exactly the difference (`LogIsDifference`); nothing stays in it after a transaction, unless OR ROLLBACK left it (`NothingLeftBehind`) |
| `memlog_rollback` | `MCMemLog` | violation: ROLLBACK, see Findings |
| `query` | `MCQuery` | every operator computes what SQL asks for (`SelectExact`, `HashTableExact`, `JoinExact`, `LIPExact`, `HashAggregateExact`, `GroupAggregateExact`, `AnswerOrdered`); with more workers than tasks that may wait side by side every query ends (`QueryEnds`) |
| `query_filter` | `MCQuery` | violation: `MultiwayJoin` drops filters, see Findings |
| `containers` | `MCContainers` | maps (`MapExact`, `TableVerified`), trees (`TreeExact`, `TreeVerified`, `EraseReturnsNext`), filters (`XorExact`), hashes (`StreamExact`), records (`RecordExact`) |
| `planner` | `MCPlanner` | filters and joins of a query arrive in the plan (`FiltersExact`, `JoinsExact`), producers are linked before consumers (`ProducersLinked`), reordering connects all tables (`ReorderExact`) |

For every property there is a mutant: a variant of a modelled definition, with
a plausible bug, under which TLC finds the property violated
(`PROJECT.json`, `mutants`). The variants stand before the definitions they
change.

## Bounds

* Scheduler: two workers, four task ids and two continuations per epoch, any
  number of epochs. Then a task waits behind busy workers, two completions
  race, a chain and a spawn meet in one continuation, and a continuation
  retires while another is being built.
* Plan: every acyclic plan of three operators that is connected (constraint
  `Connected`; operators without any link wait for nothing), with one task more
  than the plan needs, so that one operator adds a task; for liveness one operator
  that builds a chain. The proofs hold for every value of these constants; where ids run out
  (`Room`, `ContinuationsLeft`) the models stop; the code's counters have 63 bits.
* Table: three records in blocks of seven bytes; numbers take two bytes as 64-bit
  integers, one or two in their own types and one in SQLite's format; strings
  take none, two, six or seven. A block holds one, two or three records, so that
  blocks fill up, leave the pool, overflow, refuse a record, and lose rows before,
  at and behind the moved ones. At most two copies of blocks. Four sets of
  operations; one table meets one of them. A full table stops, so deadlock is not
  checked.
* Memory log: one database or two, one table or two, two row ids, up to four
  records in the log: an insertion and its deletion or update in one transaction
  and in two, a failing statement between them, a page reused by another table, a
  page that is another table's in the other database. A block holds three
  records, so that a deletion moves rows. Six sets of events (`MCWorkload`); a
  process meets one of them.
* Query: six fact rows in blocks of 3, 1, 1 and 1 with two foreign keys, two
  dimensions, two threads, bytes of two bits, slices of two rows: bitmaps end in
  the middle of a byte, batches are uneven, keys repeat, dangle and collide, and
  a value of five wraps. One to three workers where their number matters, three
  elsewhere. Queries that are answered, lost or short of workers stop, so
  deadlock is not checked; `QueryEnds` says that the others do not.
* Containers: groups of four control bytes and nodes of three values; the
  maps have seven keys, which collide in both parts of the hash and fill
  capacities of 1, 3, 7 and 15; a multiset with eight copies of a key has three
  levels. Inputs of a hash have up to 70 bytes where a stripe has 4 and the
  buffer 8; words are all those with at most two ones or two zeros.
* Planner: four tables, WHERE clauses of up to four different terms of
  thirteen, in every order.

## Fairness

`FairSpec` of `Scheduler` asks of each thread that it keeps taking steps:
`popOne` blocks on a condition variable that each push signals under the same
mutex, mutexes are held for bounded times, and task bodies end. The client need
not add, start or join, but finishes what it began. `FairQuerySpec` asks the
same of the threads of a query. `Query` asks that some step is taken as long as
one can be (`CanStep` says when; weak fairness of `Next`, with the enabling
condition written out): a free worker takes a task that is ready, as
`scheduler_live` shows. Which task it takes is left open. The other modules state
no fairness; in `memlog_mirror` and `containers` the absence of deadlock is
checked.

## Proofs

`SchedulerProofs.tla` proves, for every number of workers, tasks and
continuations (`SchedulerAssumption`: at least one worker, at least one id
below the mask), that `TypeOK`, `DependenciesFirst`, `WorkersConserved`,
`TasksConserved` and `ReleaseFindsTask` hold in every reachable state. None of
them is inductive alone. The inductive invariant `IndInv`
(`SchedulerInvariant.tla`) adds

* `GraphInv`: the counts are the sizes of the sets of dependencies, an edge is
  in the table until its dependency is retired, a retired node waits for
  nothing;
* `ReleasedInv`: a task that left `tasks_` waits for nothing;
* `ChainInv`: the continuation a running task may still name is not retired;
* `ControlInv`: which thread may be where.

`CoreInv` is the part of `IndInv` that holds whatever the bodies of tasks do to
the graph; `ParkedInv` adds that a task about to be parked waits for a
continuation only its own thread knows, which is what `ReleaseFindsTask` needs.

`SchedulerJoinProofs.tla` proves `JoinLosesNothing`. Its invariant `JoinIndInv`
adds to `IndInv`: a stop is only ever asked for by `join()` (`SignalInv`), a
worker is told to stop once (`StopInv`), the completion of a finished task is
on its way until the task is retired (`PendingInv`), a continuation in the node
table waits for a task or for the chain that is being built on it (`TableInv`),
and a deferred task waits for one continuation, which waits for tasks with
larger ids only (`WaitInv`). When the scheduler thread leaves its loop, every
worker is idle and every message handled; the deferred task with the largest id
would wait for one with a larger id, so there is none, and the table is empty.

Its last part proves that the scheduler implements `TaskGraph`
(`Spec => ImplementsTaskGraph`). The graph is read off the scheduler: the tasks
with an id below `task_counter`, the history of the edges, the tasks that run
or have finished, the retired continuations. `addTask` is `Add`, a worker's
`popOne` is `Start` (it is ready by `ReleasedInv`), the end of a body `Finish`,
the last dependency of a continuation `Pass`, `clear()` in `join()` `Reset`
(everything has finished, by `JoinIndInv`); every other step leaves the graph as
it is.

`ExecutionPlanInvariant.tla` and `ExecutionPlanProofs.tla` prove `ProducersFirst` and `ResultComplete` for every
number of workers and operators, every acyclic set of links, and whatever chains and
tasks the operators add. A plan is executed while it is built, and its own
thread retires `c_enter`, so `ParkedInv` does not hold there; `CoreInv` does.
The invariant `PlanInv` adds to it what connects the plan with the node table,
until `join()` has cleared the scheduler: which task plays which part of the
query, in the order of the ids (`RoleInv`), how far the bodies have come
(`StageInv`), which edges are in the node table for what `execute()` has done
(`LinksInv`), that nothing below `c_enter` happens before it is fired
(`BeforeInv`), and that what an operator adds stands before the operator's
continuation, or before a task that the operator added earlier (`BatchInv`). If a
task of a consumer has started, the producer's continuation is retired. The
first task of the producer, in the order of ids, that is not over would stand
before that continuation or before a task that is over, so there is none.
`QueryKeepsScheduler` carries `DependenciesFirst`, `WorkersConserved` and
`TasksConserved` over to plans; they follow from `CoreInv` alone.

`MemLogProofs.tla` proves `NothingLeftBehind` for any databases, tables, rows
and events, every kind of failure included: a connection enters auto-commit mode
only in steps that end in `sqlite3VdbeHalt` or open it anew. These empty its log,
except after OR ROLLBACK, which puts the database into `undone`; it leaves `undone`
only when its log is cleared, and a log grows only in a transaction or is replayed
and cleared at once. With the typing of the two variables it is inductive.

The proofs about the scheduler are split by actor: `SchedulerLoopProofs` (the
loops of the scheduler thread and of the workers), `SchedulerGraphProofs` (the
node table). There is one lemma per action, `NextInv` combines them, and the
theorems follow with propositional temporal logic.

Only model-checked: the liveness properties (fairness and ENABLED are out of
the prover's reach), and every property of modules that compute with recursive
operators or folds over data (`Mirror` and `LogIsDifference` of the memory log,
the table, operators, planner, containers), where a proof would need induction
over the data.

## Findings

The three violation runs show where the code does something else than the
repository says of it.

* `table_stale`, `storage/table.cc:257`. `DeleteRecordTable` compacts the block
  but the rows behind the deleted one keep their `block_map` entry, because
  `Block::InsertRecords` looks them up in a map that nothing else fills. The
  next operation by row id misses its record, while `num_rows` still drops.
  `table.h` says "Delete record by row id".
* `memlog_rollback`, `storage/cmemlog.cc:178`. `ROLLBACK` turns auto-commit on
  and passes through the commit branch of `sqlite3VdbeHalt`, which replays the
  log of the rolled-back transaction. `cmemlog.h` says that the records are
  applied "during commit".
* `query_filter`, `operators/join/multiway_join.cc:538`. `BackPropogateResult`
  gives every table that is not part of the current join a `LazyTable` without
  filter. `multiway_join.h` says "Filters are unchanged."

## Known divergences

Behaviour that the models contain, and that a property therefore exempts in its
premise (or a run leaves out through a constant). Each was met while the code
was translated.

Storage
* Records of columns narrower than 64 bits are let in by the width of their own
  types, or as SQLite encodes them, and stored as 64-bit integers, so a block may
  exceed its capacity ("record size is incorrectly computed!", `table.cc:280`), and
  deletions widen what was stored. `BlocksFit` bounds the excess by the difference
  of the widths, and `RowsFound` is about 64-bit columns.
* A record larger than a block is counted even where no block takes it; batches
  and compactions store it beyond the capacity. `BlocksFit` leaves such tables
  out, and `RowsCounted` only says that the count is not too small.
* `InsertBlocks` puts a block under the next key whatever its id, but into the
  insert pool under its id, so that `block_map` may lead elsewhere (`WellPlaced`).
  It also writes a −1 behind the end of `block_row_offsets`; the vector's spare
  memory takes it.
* The row offsets of batches count a block's rows once too often, and after
  `read_from_file` the last is −1 (`RowsCounted` is about single inserts).

Memory log (each takes the table out of `synced`)
* DELETE without WHERE leaves no record in the log; INSERT OR REPLACE of a row
  that is there inserts a second record; a changed row id is recorded as a
  deletion and an update of a row that the column store does not know.
* A statement that aborts inside a transaction leaves its records in the log, and
  so does OR ROLLBACK: a later commit replays them. ROLLBACK replays the log
  itself.
* Two databases of one process share `table_map` by root page, and closing one
  clears it for all: a table of one may be looked up under the name of the other,
  or not found.
* After a compaction `block_map` is stale (`table_stale`), so that a replayed
  change misses its row.
* `load_tables` adds to what the column table holds, and for a table without rows
  it may insert what the b-tree page holds in place of a first row.

Selection, joins
* NOT_EQUAL on a number is taken as BETWEEN of two values and compares low bytes,
  whatever the column's type (`select.cc:167`). SQL's BETWEEN is resolved to GE and
  LE and never gets there; `<>` does, without a second value, and taking that value
  throws: the query is lost. The properties are stated for comparisons of bytes
  (`WhereInBytes`).
* `Search` of the metadata returns the address of a value and so excludes
  nothing; stale minima and maxima are therefore harmless.
* The probe tasks of HashJoin hold a reference to a temporary `shared_ptr` of the
  link that spawns them (`hash_join.cc:93` and `:220`), which is gone when they run
  after it; what they read is not defined, so the query may be lost. MultiwayJoin
  passes the column by value.
* FilterJoin throws for a dimension without a hash table, and ignores the filter
  of the fact table; LIP is not for a fact table that was joined before, as its
  own comment says; LIP and the joins presume tables that are not empty; a Bloom
  filter's size overflows from 43 million keys; chains of LIP write
  `dim_pk_cols_`, a shared map, without a mutex.
* With as many joined GROUP BY columns, or dimensions of a joined fact table, as
  workers, all workers wait for slices that nobody runs (`EnoughWorkers`).

Aggregates
* HashAggregate merges means of several tasks wrongly; distinct groups whose
  hashes are equal become one.
* Aggregate: columns with more than ten distinct values share keys; the scans
  follow the number of groups and not of chunks; groups whose sum is not
  positive are dropped; COUNT and MEAN of several groups are sums. The mean of a
  single group is a double whose bits pass through an integer and come out right.
* `ComputeUniqueValues` reads `group_by_index_map_` with `operator[]` and without
  the mutex (`aggregate.cc:342`) while other tasks insert into it under the mutex.
  The map has room for thirteen entries from the first on, and a new entry is
  linked in front, so a task finds its own entry: the model has one step. With
  more GROUP BY columns than that the map would be rebuilt under the reader.
* With two GROUP BY columns of one table, or an ORDER BY column behind the
  aggregate, `order_to_group` names another column or reads past its end.
* An operator of an expression writes its result over the left operand unless
  that is a result already. Over a table that was not joined this is the stored
  column, which keeps the result for later queries; and when the expression or
  the GROUP BY reads that column again, this query is wrong too (`ReadOnce`).
  Division by zero traps. An expression over a table that was not joined
  ignores its WHERE filter.

Resolver and planner
* Queries on one table are never resolved. Depending on the order of the terms
  of WHERE and on cursor numbers, a filter is lost, goes to another table, or a
  null pointer is followed; an OR of a join and a filter is taken as AND;
  comparisons of columns other than equality and BETWEEN of other than integers
  are dropped.
* `join_predicates_` has one entry per right table, so a second join is lost;
  two joins in a path are taken for a star; the start of a linear plan depends
  on the order of an `unordered_map`; a linear plan without aggregate, and two
  aggregates, fail an assertion; ORDER BY of a column that is not selected is
  ignored; reordered plans have no links.
* `SelectBuildHash` on a filtered fact table gets an empty column name.

Containers and hashes
* `xxhash3` in pieces: when `update` has taken whole buffers straight from its
  input, the digest takes its last stripe from stale bytes of the buffer
  (`TailKept` in `StreamExact`).
* `rehash(0)` of a table with tombstones, and the double free on the failure
  path of `xor_init_buffer`, are outside the model.

## Not modelled

* Bytes and types: the layout of Arrow buffers, dictionary and string columns,
  the type dispatch (`type/**`, `utils/meta/**`) and the type machinery of
  `phmap_base.h` (their control is the compiler's); what the rounds of the
  hashes compute.
* Allocation failures and exceptions of the standard library.
* Printing, logging, profiling, statistics, configuration; the JSON of the
  catalog file and the column schemas (plain records).
* Code that nothing in the program calls and that has no state of its own:
  the blocked Bloom filter, `meminfo.h`, the copy of an Arrow kernel in
  `utils/arrow_hacks`, the xor filter's wrapper.
* The programs and benchmarks (`main.cc`, `run.cc`, `benchmark/**`,
  `txbench/**`): fixed sequences of calls to the parts above.
* SQLite: modelled only by what its hooks see. Savepoints, triggers, and tables
  that SQL creates without the catalog are left out.
