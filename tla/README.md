# A TLA+ model of DB2025 (RMDB with MVCC)

DB2025 is a small relational database server in C++. Each client connection is
served by a thread of one process; rows are kept in paged heap files behind a
buffer pool, transactions run under snapshot isolation with version chains in
memory, and changes are logged before they are written. This directory models
the server from the socket to the files: the threads, the way of a statement
through analyzer, planner and executors, transactions and rows, record files,
indexes, catalogue, buffer pool and log. All paths below are relative to the repository's own `src/`
directory (`src/src/` from the directory above this one).

## 1. Inventory

| component | state | operations | talks to |
|---|---|---|---|
| server and sessions (`rmdb.cpp`, `portal.h`, `execution/execution_manager.cpp`) | the listener, one thread and one current transaction per connection, the global parse tree | accept, begin on first statement, parse, analyze, plan, run, reply, COMMIT / ABORT / ROLLBACK, commit of a single statement, abort when a statement throws | all below |
| analyzer, planner, optimizer (`analyze/`, `optimizer/`) | `Query`, `Plan` trees | resolve names, convert literals, choose indexes and the join order, move conditions and projections, EXPLAIN | catalogue |
| query executors (`execution/`) | trees of cursors | `beginTuple`, `nextTuple`, `is_end`, `Next` | record files, indexes |
| write executors (`execution/executor_{insert,update,delete}.h`) | the rids of the statement | check, read, write, link an undo log, maintain indexes | record files, transaction manager, indexes |
| transaction manager (`transaction/transaction_manager.*`) | `next_timestamp_`, `timestamp_mutex_`, `committed_txns_`, `aborted_txns_`, transaction table, `version_info_`, undo logs and write sets of the transactions | `begin`, `commit`, `abort`, `IsCommitted`, `IsCommittedBeforeReadTs`, `UpdateCommitTimestamp`, version and undo links | watermark, record files, log |
| watermark (`transaction/watermark.*`) | `current_reads_`, `watermark_`, `commit_ts_` | `AddTxn`, `RemoveTxn`, `UpdateCommitTs` | |
| record files (`record/`) | file header, page headers and bitmaps, rows with `TupleMeta`, the list of pages with room | `insert_record`, `update_record`, `delete_record`, `get_record_mvcc`, `CheckWriteWriteConflict`, scans | buffer pool, log, transaction manager |
| B+ tree (`index/`) | nodes in pages, the list of leaves | lookup, insert with split, delete with merge, scan | buffer pool |
| system manager (`system/`) | catalogue, open files and indexes, the metadata file | open and close a database, create and drop tables and indexes, row counts | everything below it |
| buffer pool and LRU replacer (`storage/buffer_pool_manager.*`, `replacer/lru_replacer.*`) | frames, `page_table_`, `free_list_`, LRU list | fetch, unpin, flush, new, delete, flush all | disk manager |
| disk manager (`storage/disk_manager.*`) | open files, `fd2pageno_`, the log file | page and log I/O, allocation | |
| log manager (`recovery/log_manager.*`) | `global_lsn_`, `persist_lsn_`, `log_buffer_` | add, flush, force | disk manager |
| recovery (`recovery/log_recovery.*`) | none of use | `analyze`, `redo`, `undo` (never called; the last two print) | |
| parser (`parser/`) | generated | text to tree | |
| lock manager (`transaction/concurrency/`) | none | every method returns true | |

What is hard here: the socket of a new connection is handed over on the
listener's stack, and the parse tree in a global; `begin` and `commit` hold
`timestamp_mutex_` and `abort` does not; a row is checked, read, written and
linked in separate accesses with nothing locked across them; a commit becomes
visible in several steps; an autocommit COMMIT ends its transaction twice; a
slot is chosen long before it is filled; a CREATE or DROP changes half a dozen
things one after the other; a caller writes into a page without the pool's
latch; a file descriptor is reused while the pool still has its pages; the log
buffer's mutex can be taken twice; and a kill of the server loses all version
chains. `PROJECT.json` lists each of these hazards at its line.

What makes the components correct:

* sessions: everybody is accepted and served in a transaction of their own,
  and that of a single statement ends whatever becomes of the statement;
* answers: a statement gives what its text means, whichever plan is chosen;
* timestamps: none is given out twice, a snapshot is decided by the order of
  timestamps alone, and it does not move while its transaction runs;
* rows: a transaction reads its snapshot and its own writes, nothing that is
  uncommitted or rolled back, and the first committer of a row wins;
* files: a row stays where it was put and every scan finds it; the catalogue,
  the directory and the metadata file agree between statements;
* indexes: each row has its entry and each entry its row, in order;
* pages: a page that is held stays where it is, a page is in one frame, and no
  write is lost by an eviction;
* log: complete, in order, and ahead of the data and of the commit.

## 2. Modules

| module | models |
|---|---|
| `ClientSession` | the listener and the client threads |
| `Sql`, `Ast`, `Analyzer`, `Planner`, `Executors`, `Query` | a statement from the parse tree to the answer, each extending the one before |
| `QueryAnswers` | what the statements of `Query` should answer |
| `Watermark` | `Watermark` as operators on a record; `RemoveTxn` in two halves (erase and compute, then store), because `abort` calls it without a lock |
| `TransactionManager` | timestamps, states, the watermark and the sets the visibility tests consult; one action per stretch of `begin`, `commit`, `abort` between two points another thread can see |
| `Mvcc` | extends it with the heap, version chains, undo logs, write sets and the row steps of INSERT, UPDATE and DELETE |
| `RmFile` | the pages of a table's file |
| `BTree` | the B+ tree of one index |
| `Catalog` | DDL, the metadata file, start and stop |
| `PageStore` | abstract: pages that clients hold and only their holders change |
| `BufferPool` | the pool, the replacer, the page files and their callers; implements `PageStore` |
| `LogManager` | the log buffer and file, the write-ahead protocol of the callers, kills and restarts |
| `TransactionManagerProofs`, `MvccProofs`, `RmFileProofs`, `BufferPoolProofs`, `LogManagerProofs`, `ClientSessionProofs`, `CatalogProofs` | theorems about the module of that name, with the invariants they need |
| `SnapshotProofs` | extends `MvccProofs` with the theorem about what reads return |
| `MC*` | constants, symmetry sets and the statements for TLC |

### ClientSession

`at[c]` is where the thread of connection `c` is in `client_handler`, `fd[c]`
the socket it copied from the listener's stack, `ctx[c]` and `txn_id[c]` its
transaction. A statement is only its kind: a query or an update, to be run or
explained, BEGIN, one of the ends, EXIT or an empty line, which the parser takes
but makes no tree of, or text that is refused by the parser or the analyzer. `SetTransaction`, `Parse` and `Analyze` (under `buffer_mutex`), `Plan`
(which copies the global tree after the mutex was released), `Explain`, `Run`,
`Conflict` and `Reply` are the stretches of the loop. `tx` is the transaction
table, with a ghost that says which objects were deleted. `Accept` and
`AcceptError` are the listener.

### Sql to QueryAnswers

A row is a sequence of integers that mean what the column's type says: an INT
itself, a FLOAT a number of 24ths, a STRING the length of a string of equal
letters. That is enough to tell apart comparing by value and by bytes
(`Reread`), truncation, conversion and the cut of a string at its column's
length. `Analyzer` gives a `Query` or an error, `Planner` a plan tree,
`Executors` a tree of iterators whose `Begin`, `Step`, `End` and `Fetch` are the
methods of the C++ classes, with their errors and crashes. `Query` takes a
session through `Ask`, analyze, plan, portal and, row by row, the answer or the
writes. Uninitialised bytes of an index key are any member of `Junk`.

A database has all records of a table in the order of their slots (`rows`), the
slots a statement sees (`live`), and for each index its entries. They are apart
because the code lets them part: DELETE marks records and leaves their entries
(`executor_delete.h:132`), UPDATE goes over all records, the deleted ones too, and
the rollback of an UPDATE (`RollBack`) puts records back and no entries. `undone`
are the tables on which that happened after something was written. A table has
at most one index (`OneIndex`); section 3 says what happens with more.

`QueryAnswers` defines the meaning of a statement independently, from the parse
tree and the tables: combinations of rows that satisfy all conditions, groups,
order and limit. Predicates name the statements for which the program is known
to differ (`SameTypes`, `NoneWithin`, `JoinsPlainly`, `LimitKept`,
`GroupsPlainly`, `NoGlobal`, `JunkUsed`, `Misfiled`; section 3 lists the
differences), and the properties leave out exactly those.

### RmFile

`hdr` and `page` are what the server has of a file, `disk` what is in it. A page
is its record count, the next page of the free list, its bitmap, its rows and
its pin count. An INSERT is `InsertChoose`, `InsertWrite`, `InsertDone`, since
the log is forced between the first two; `InsertRefused` is one that a
unique index refuses, whose row is taken out again. Several sessions do this at
once, so two of them can choose one slot; the ghost `shared` has those slots.
`RollbackDelete` is the `insert_record` with a rid that undoes a DELETE; the ghost
`spare` has the pages it makes and leaves pinned. `ScanNext` is one page of
`RmScan::next`. `WritePage` is the buffer pool, `Kill` starts again from `disk`.
A page changes in one step: that two threads which write one page at the very same
time may lose a bit of its bitmap, or one from its count, is outside of the model.

### BTree

`tree.node` are the pages with their keys, children, parent and neighbours. The
actions are whole calls of `insert_entry` and `delete_entry`, since the tree is
that of one session at a time; `SplitLeaf`, `SplitInner`, `MergeLeaf` and the
rest are the helpers. An assertion that fails sets `halted`. The repair of a node
after a deletion loses entries, so the model goes up to the first repair and
`DamageConfined` says what it costs. `CoalesceFirst` is `coalesce` for a first child:
it swaps the handles of its caller (`ix_index_handle.cpp:1014`), which then unpins and
deletes the handle that `delete_entry` unpins and deletes again, while the neighbour
stays pinned. Using a deleted handle is undefined, so `Outcomes` are a process
that is ended and one that goes on with a tree marked `misused`.

### Catalog

`db` is the catalogue in memory, `disk` the directory and the metadata file,
`fd` and `pageno` the tables of `DiskManager`, `ihs` the open indexes. A statement is
the list `todo` of the steps it has left, in the order of the code, so that a
kill can fall between any two; it holds `meta_mutex_` while the list is not
empty. An error drops the rest of the list. `CreateIndexFile` has three ends: the file
exists; the columns are too long together, which is found when the file has been made and
opened, so that it stays (`LeaveStray`, ghost `strays`); or the index is made.
Between the `close_file` of `IxManager::create_index` and the `open_file` of `open_index`
other threads, which do not need `meta_mutex_` for `accept` and `output.txt`, may take the
descriptor: `MakeIndex` opens the index by any unused one (ghost `reopened`). `Split` is
a new page of an index, which is where a wrong `fd2pageno_` shows. The names of index
files are taken to be different; the code joins table and columns by `_`, so
`t_a(b)` and `t(a,b)` have one name, and the second of them is refused
because the file exists.

### TransactionManager

A member of `Txn` is a `Transaction` object. `call[t]` is where its thread is:
`running` while the session executes statements, then one value per stretch of
`commit` (`CommitStamp`, `CommitRecord`, `CommitState`) or `abort`
(`AbortState`, `AbortErase`, `AbortRecord`). `commit` holds
`timestamp_mutex_` over the first two, which `begin` needs too. The values
ending in 2, and `reply`, are the path of an autocommit transaction whose
only statement is COMMIT or ABORT: `client_handler` commits it a second time,
which the model follows through a second commit timestamp or a commit after an
abort. `StartTs` is what the manager starts counting from. MVCC is the only
mode the server is built with; the other branch of `abort` is not modelled.

### Mvcc

`heap[rid]` is the bitmap bit, the `TupleMeta` and the row. A row is a value
with a `head` (its first two columns) and a `tail` (the others), because
`ReconstructTupleFromUndoLog` treats them differently; `Wide` says whether
there are others. `version_info` is keyed by the slot only, as in the code.
`job[t]` is where a statement is. An INSERT is `InsertChoose` (find a slot),
`InsertWrite` (fill it), `InsertLink`; an UPDATE is `UpdateStart`, `CheckRow`,
`ReadRow`, `ReadRaw`, `WriteRow`, `LinkRow`; a DELETE reads the row before it checks
it. Each is one access to shared state. `Throw` and `ReadConflict`
lead to an abort. `AbortUndo` undoes one record of the write set. `mine` and
`committed` are ghosts: what each transaction has written, and the committed
versions of each row.

The transaction of a statement that threw is deleted when its abort has returned
(`DeleteTxn`, `rmdb.cpp:217`), while `txn_map` and the version chains still
lead to it. `WalkTouches`, `ReadTouches` and `CheckTouches` say which reads come
upon such a transaction: the walk of a chain, and every
`get_transaction_by_timestamp`, which goes over all of `txn_map`. What such a read
finds is undefined: what the memory held, in which case the model goes on
with that, or anything else (`ReadFreed`), where the behaviour ends with `undefined`.

Left out: autocommit (in `TransactionManager`), indexes and unique checks
(in `Query`), tables of more than one page (in `RmFile`), DDL other than the transaction that creates the
first table, `GarbageCollection` (never called). A statement over several
rows repeats the steps of one row.

`RestartInit` is a server that is started on a database with one row: no
version chain and no transaction is known, and the row may be a tombstone.

### BufferPool

An operation holds the pool's `latch_` from start to end and is one action. A
client writes between its fetch and its unpin (`WriteData`), at any time, also
between a flush of the page and its own unpin. `unpin_page` looks the page up
under the id that is in the frame, as all callers do. Operations that return
false or `nullptr` do so before they change anything (`new_page` and `fetch_page` when
there is no victim) and are left out. A disk error is not such a return: the victim
has been taken out of its list by then, and nobody puts it back
(`FetchWriteError`, `NewWriteError`, `FetchReadError`; ghost `taken`); after a failed
read the page is mapped to a frame of zeroes besides. `dead` is a ghost: the
deleted pages. `delete_page` leaves the page mapped, its frame both in the free
list and in the LRU list; `MaxFree` bounds the free list, which can hold a frame
twice. `PoolSpec` is the pool while its files stay open, their pages can be read, and
nobody uses a page after `delete_page`. The code ensures none of this: DROP TABLE deletes
and closes (`sm_manager.cpp:340`) whatever another session is scanning. `Spec` is
the pool without these assumptions, with `ReplaceFile`, in which `drop_table` closes a
file, held pages or not, and the next file that is opened gets its descriptor.

### LogManager

A record is its run of the server and its lsn. `latch_` is held throughout every
operation, so each is a step; the step that locks it twice (`AddToFullBuffer`)
leaves the session stuck for ever. A record has a length, and the buffer is full
when the next one does not fit. `UpdateCommitTimestamp` and `UndoDelete` are the writes
into pages that have no record: commit stamps the rows with a context
without a log manager, and abort puts a deleted row back with an `insert_record` that
logs nothing. A write is therefore a record, or `Unlogged` of the record whose row it
overwrites. Pages reach their files at any time
(`EvictPage`), and the server can be killed at any step (`Restart`).
`persist_lsn_` is not initialised by the constructor: the object is one large
allocation of fresh memory, so the model starts it at 0. `capacity`, the size of
the buffer, is chosen at the start.

## 3. Runs

Deadlock checking is off where every transaction, session or statement may be
used up within the bounds; the buffer pool runs keep it on. Properties with a
name of their own for each part are conjunctions; the parts are in brackets.

| run | bounds | shows |
|---|---|---|
| `sessions` | 2 connections with 3 statements and 1, 3 transactions | `SessionInv` (`SessionTypeOK`, `RunsInOwn`, `NoThreadHoldsFreed`, `OpenOnPurpose`), `Handoff`, `AnsweredAsAsked`, and the liveness properties `Accepted`, `SingleStatementEnds` |
| `query` | 196 statements on 18 databases (3 tables of at most 3 rows, at most one index each), up to 3 of them writing, those after the first from the smaller set `Later`, 2 values of junk | `AnswerRight` (`RightRows`, `RightOrder`), `RefusedRightly` (`NamesClear`, `NothingFound`), `ExplainStable`, `CrashOnly`, `WritesRight` (`QueryTypeOK`, `UniqueKeys`, `EntriesRight`, `RowsRight`) |
| `timestamps` | 3 transactions, each explicit or autocommit | `MgrTypeOK`, `TimestampsUnique`, `WatermarkSafe`, `SnapshotVerdict`, `SnapshotFixed` |
| `rows_serial` | 1 row, 4 transactions and the one of CREATE TABLE, 2 statements each, no two calls overlap | `SnapshotRows`, `NoLostUpdate` |
| `rows_parallel` | 2 rows, 2 transactions, 2 statements each, every interleaving of accesses | `ChainsInv` (`TypeOK`, `ChainsEnd`) |
| `rows_lost_update` | a restarted server with 1 row, overlapping calls | that `NoLostUpdate` fails: the finding below |
| `record_file` | 2 writers, a scan, 3 pages of 2 slots, 3 rows, 1 rolled back DELETE, 1 kill | `HeadersTrue` (`RmTypeOK`, `RecordsCounted`, `WrittenRowsReachable`), `RowsKept`, `ScanVisitsAll`, `InsertPlaced`, `PinsReturned` |
| `btree` | 10 keys in every order, nodes of 4, 1 deletion | `TreeInv` (`TypeOK`, `TreeShape`, `LeafList`), `EntriesMatchRows` (`LookupComplete`, `StaleAreSeparators`), `ScanComplete`, `DamageConfined` (`StopsOnlyWhenFull`, `LossConfined`) |
| `ddl` | 2 tables with 2 indexes, 5 statements, 2 stops or kills, 2 splits | `CatalogInv` (`CatalogTypeOK`, `CatalogueUsable`), `DirectoryInv` (`MetaCurrent`, `NoOrphans`, `StartsAgain`), `PagesNew` |
| `pool` | 2 frames, 1 file of 3 pages, 2 clients, 2 values, failing writes; `PoolSpec` | `PinnedStable`, `PinExact`, `NoLostWrite`, `ImplementsStore` |
| `pool_files` | 2 frames, 2 pages, 2 clients, descriptors reused, failing reads and writes; `Spec` | `FramesInv` (`TypeOK`, `TableMatchesFrame`), `NoFrameLost` |
| `log` | 2 sessions, 3 records, 2 runs of the server, buffers of 5 and 9 | `LogInv` (`LogTypeOK`, `LogComplete`), `LogFirst` (`LogBeforeData`, `CommittedIsLogged`), `NeverStuck` |

Fairness. In `sessions`, weak fairness of the listener's steps and of the steps of
each thread: the operating system schedules threads, and a mutex that becomes
free is taken by somebody. Clients owe nothing: `Read`, the arrival of a
statement, is not fair, and neither is the failure of an accept. The other runs
check safety and assume nothing.

Why the bounds are enough to meet the interesting cases.

* Two connections are one that is served while the other is accepted, and two
  threads in each other's way at the parser; three statements are a BEGIN, one
  that is aborted by a conflict and one in the transaction that replaces it.
* The statements are families: every comparison operator against keys of an
  index, pairs of conditions on the first and second column of an index,
  columns and literals of different types, joins in both syntaxes, aggregates with and without GROUP BY,
  HAVING, ORDER BY and LIMIT, and the errors of the analyzer. The databases have
  empty, one-row and three-row tables, so that groups, duplicates, ties, and
  keys before, between and after those of an index occur.
* Three transactions are a reader, a writer that overlaps it, and one that moves
  the watermark between two halves of the others' calls. Four transactions of
  two statements build a chain of versions with an aborted one in it, a row
  that is written twice by one transaction, and a reader that is older than all
  of it; one row suffices since rows interact only through chains, and chains
  through slots.
* Three rows fill a page and begin another, two sessions choose one slot and one of
  them is refused; a rolled back DELETE is what bends the free list and adds the
  third page, a kill what separates the header from the pages.
* Three writing statements are a DELETE or UPDATE, an INSERT of a key that was
  deleted, and one that meets what the second has left; `Later` has those that touch
  the same keys.
* Ten keys in nodes of four reach a root of the third level and the assertion of
  `insert_pair`; one deletion reaches redistribution and the merge of leaves.
  A merge of internal nodes is not reached.
* Five statements are CREATE TABLE, two CREATE INDEX and the DROPs, with one of
  them refused.
* Two frames and three pages force evictions while the other frame is pinned.
* A log record is 2 or 3 long here. With room for the longest record of each
  session and one more the full-buffer branch is out of reach, with less it is
  reached; 9 and 5 are such capacities. The server has a buffer of 4 MiB for
  at most 8 connections and records of some hundred bytes, so it is on the safe
  side.

**Finding: lost update** (`rows_lost_update`, a run that is expected to fail).
With overlapping calls, two UPDATEs pass `CheckWriteWriteConflict` before either
writes, and both commit, although the check's comment calls it a conflict.

Other disagreements that were met on the way. The passing runs state what does
hold beside them, and name the exception where there is one. Rows and
transactions:

* `transaction/transaction_manager.cpp:633`: an inserted row is not in the write
  set, so commit does not restamp it: a transaction that began while the inserter
  ran sees the row once it commits (`InsertedMeanwhile` in `SnapshotRows`).
* `transaction/transaction_manager.h:168`: version chains are keyed by page and
  slot without the table: with two tables in `rows_serial`, a reader is given a
  row of the other one.
* `record/rm_file_handle.cpp:820`: after a restart, a tombstone's deleter is
  unknown and its chain is gone; the reader falls back on the heap row and
  ignores `is_deleted_`. The row is back (`SnapshotRows` from `RestartInit`).
* `record/rm_file_handle.cpp:862`: `ReconstructTupleFromUndoLog` restores the
  first two four-byte columns; the rest is zero (with `Wide = TRUE`,
  `SnapshotRows` fails).
* `transaction/transaction_manager.h:252`: timestamp 0 means initial data, and
  is also the first transaction's. The model gives it to CREATE TABLE; when
  the first transaction after a restart writes rows (`RestartInit` with
  `StartTs = 0`), its uncommitted rows are read.
* With overlapping calls, an inserted row is in the heap before it has a version
  link, and a reader in between takes it as it is.
* `rmdb.cpp:217`: a transaction that a conflict aborts is deleted, although
  `transaction.h:158` and the comment at `transaction_manager.cpp:187` say that the
  object must stay for its undo logs, and `txn_map` and the chains lead to it. A later
  look-up by timestamp, or a walk of the row, reads freed memory. `SnapshotRows` says
  nothing of such a read, `ChainsInv` nothing of a chain from there on: if the
  memory has been given to another transaction, the chain may even come back to itself.
* `execution/executor_update.h:199`: an UPDATE whose conditions hold of the raw contents
  of a deleted record aborts its transaction, however long ago the row was deleted; the
  comment calls it a concurrent conflict.
* `execution/executor_delete.h:132`, `transaction_manager.cpp:139`: the index entries of
  a deleted row stay, also when the DELETE commits, so the key can never be inserted
  again (`EntriesRight`).
* `transaction_manager.cpp:230`: abort restores no index. After the rollback of an
  UPDATE the index has the new keys for the old rows: a SELECT by the index misses
  the row, and rows with equal keys become possible (`undone`, `Misfiled`).
* `execution/executor_insert.h:225`: with two indexes, an INSERT that the second refuses
  leaves its entry in the first, which leads to a slot that is free and zeroed; a scan of
  that index shows a row of zeroes, since timestamp 0 is always visible (excluded
  by `OneIndex`).
* `transaction/transaction_manager.h:148`: `GetWatermark` can be below the
  lowest read timestamp, never above it.
* `rmdb.cpp:400`: the start-up scan that restores the timestamp counter ignores
  timestamps of a million and more.

Sessions:

* `rmdb.cpp:217`: the transaction that replaces one aborted by a conflict is an
  explicit one, although the statement was a single one and a comment beside it
  says otherwise (`ghost.lost` in `OpenOnPurpose`).
* `rmdb.cpp:182`: the parse tree is read after `buffer_mutex` was released, so that
  another session's EXPLAIN decides (excepted in `AnsweredAsAsked`).
* `rmdb.cpp:317`: after a failed accept the listener waits for a mutex it holds
  (excepted in `Accepted`).

Files:

* `record/rm_file_handle.cpp:109`: a slot is chosen before its log record is
  written and filled afterwards, with no latch; two INSERTs can choose the same, and one
  row is lost (`shared` in `RowsKept`). When one of the two is then refused, the
  `delete_record` of the other finds the bit reset and does not unpin (`:238`;
  `shared` in `PinsReturned`).
* `record/rm_file_handle.cpp:184`: the rollback of a DELETE makes a page that it does not
  use and never unpins (`spare`).
* `record/rm_file_handle.cpp:403`: a page that is put on the free list while it is
  its head makes a list that ends in itself (`InsertPlaced` excepts rolled
  back DELETEs and kills).
* `system/sm_manager.cpp:129`, `459`, `116`: a kill in the middle of a statement
  leaves an empty metadata file or files no catalogue knows; a refused
  CREATE INDEX leaves its index in the catalogue without a handle; after a
  restart the first split of an index overwrites page 0 (exceptions of
  `DirectoryInv`, `CatalogInv` and `PagesNew`).
* `index/ix_manager.h:70`: a CREATE INDEX whose columns are too long throws when the file
  has been made and opened; the file stays, open, and blocks that index for ever
  (`strays` in `DirectoryInv`).
* `index/ix_manager.h:123`, `141`: the index is closed and opened again, and its next page
  number stays with the descriptor; if another thread's `accept` or `output.txt`
  takes that in between, the index goes on with the number of another
  descriptor (`reopened` in `PagesNew`).
* `system/sm_manager.cpp:562`: the `drop_index` that takes `ColMeta` locks `meta_mutex_` and
  calls the one that locks it again. It has no caller: `execution_manager.cpp:71` and
  `transaction_manager.cpp:259` use the other one.
* `index/ix_index_handle.cpp:214`, `657`, `1002`: separators are looked up in the
  leaf to their left; an assertion stops the server when an internal node is
  nearly full; a merge of leaves loses the right one.
* `index/ix_index_handle.cpp:1014`: when a first child is merged, its handle is deleted
  twice and used in between (excepted in `DamageConfined`).
* `storage/buffer_pool_manager.cpp:218`: `delete_page` does not take the page
  out of the page table. After a descriptor is reused, evicting the old
  file's stale frame erases the mapping of a live page, a frame that a
  client holds is given to another page, and a frame whose mapping is gone stays
  pinned for ever (`Unmapped` in `NoFrameLost`).
* `storage/buffer_pool_manager.cpp:51`, `97`: a disk error loses the frame that was taken
  for the page (`taken` in `NoFrameLost`); after a failed read the page is mapped
  to zeroes, and the next fetch succeeds with them.
* `record/rm_file_handle.cpp:99`, `212`, `267` promise the log before the data. The
  commit timestamps (`transaction_manager.cpp:124`, `666`) and the row that the rollback of a
  DELETE puts back (`rm_file_handle.cpp:183`) have no log record, and neither have
  the pages of an index. `LogFirst` says what is left: they reach a file only after the
  record of the change they are written over.
* `recovery/log_manager.h:426`: `global_lsn_` restarts at 0 with the server, and
  the log file goes on; `persist_lsn_` starts at the number of the first record,
  which is therefore not forced (`FirstPersistLsn` in `LogBeforeData`).

Statements (what the predicates of `QueryAnswers` leave out, and more):

* A condition between two columns of one table goes to the first table of FROM,
  and one on a table that is not in FROM is ignored.
* JOIN drops from ON the comparisons with constants, with unqualified columns and
  within one table, and from WHERE those between tables; SEMI JOIN joins.
  A WHERE constant that no row satisfies makes JOIN follow a null pointer.
* LIMIT is ignored without ORDER BY or grouping, and when it is 0.
* A literal whose type is not the column's is compared by its bytes in a scan of the
  file, truncated in an index scan, and ends the server if the column is a CHAR.
* An index lookup beyond the last key ends in `IndexEntryNotFound`; key bytes that
  no condition sets are uninitialised.
* Group columns are always printed; MAX, MIN and SUM of strings keep the last;
  aggregates of two columns of one name are the same; HAVING knows only the
  select list; the ORDER BY of groups is reversed; GROUP BY a number over no
  rows ends the server.
* UPDATE with a condition between columns updates nothing; `SET a = a + 1` fails on
  a unique index when the next row has that key; rows before a failing one stay
  written, and a failed INSERT leaves `row_count` one too high.

Every property of a passing run has a mutant: a plausible bug in the code it is
about (`as` in `PROJECT.json`), under which TLC must find it violated. The
mutated operators stand beside the originals in the modules.

## 4. Theorems

`TransactionManagerProofs` proves, for any set of transactions and any start of
the counter (assuming only `NoTxn \notin Txn` and `StartTs \in Nat`):

* `TypeCorrect`, `UniqueTimestamps`, `WatermarkIsSafe`, `VerdictIsSnapshot`:
  the invariants of run `timestamps`;
* `SnapshotIsFixed`: the action property.

None of these is inductive. `MgrInv` adds that every number in use is below
`next_timestamp` (`Handed`) and belongs to one transaction (`Apart`), that the
owner of `timestamp_mutex_` is the transaction in the middle of `commit`
(`Locked`), and that the members of `current_reads_` are above the watermark
*and* above every watermark that some call is about to store (`Bounded`). The
last part is the argument for `abort`: the value it computes outside the lock
can be stale, but a transaction that begins later has a higher start timestamp,
and the store only raises the watermark.

`BufferPoolProofs` proves, for any pool, files, values and finite set of
clients, of `PoolSpec` (files stay open, pages can be read, nobody uses a deleted
page; section 2):

* `PinnedIsStable`, `PinsAreExact`, `NoWriteIsLost`;
* `PoolImplementsStore`: the pool implements `PageStore` under the mapping
  `Shown` (the frame's contents if the page is mapped, else the file's) and
  `Held`.

`PoolInv` adds that each frame's page maps to it unless the frame is unused or
its page deleted (`Owned`), that handles point to the frame of their page
(`HeldOK`), that frames in the LRU list are unpinned and there once (`Idle`),
that frames in the free list are unpinned and unused or dead (`Free`), and that
pages not yet allocated are nowhere (`Fresh`). `PinExact` needs counting the
holders of a frame, done with the cardinality facts of `FiniteSetTheorems`.
`MaxFree` is a bound of the model, so the theorems hold for pools in which
`delete_page` has been called less often than that; it is arbitrary.

Of `Spec`, without these assumptions, it proves what the pool keeps even then:
`TableIsTrue` (`FramesInv`) and `FramesAreKept` (`NoFrameLost`). `NoFrameLost` does not
count a pinned frame as kept: somebody must hold it. `FileInv` is what survives of
`PoolInv`: the types, `TableMatchesFrame`, that the LRU list has no frame twice,
that a held page was loaded, that a frame which is in no list and was not taken by a
disk error is pinned (`Somewhere`), and that a frame which `unpin_page` can find has no
more pins than holders (`Covered`), so that it is held. `NoFrameUnmapped` adds, of
`PoolSpec`, that no frame loses its mapping: that exception takes a replaced file.
What `FramesInv` does not say is that a page of a new file has the new file's contents;
that is false (section 3).

`LogManagerProofs` proves, for any finite set of sessions, any bound on records
and on runs of the server, any lengths of records and any buffer:

* `LogIsComplete`, `LogComesFirst`, `BufferNeverFull`: the invariants of run `log`.
  The last one speaks of buffers with room for the longest record of each session and one
  more.

`Inv` says that the buffer holds the last lsns given out (`BufferTail`), the file
those before and nothing else of this run (`FileHead`), that `persist_lsn_` is the
last lsn of the file once anything was written (`PersistExact`), and that what a
session is about to write, has changed or has open is in the file
(`WriteLogged`, `ChangedLogged`, `OpenFiled`). The last is why the writes without
a record keep the order: commit and abort write over changes whose records are in
the file already. `BufferNeverFull` rests on
`BufferOwned`: the records of the buffer, the very first excepted, belong to
different sessions that are about to force them, so that there are no more of them than
sessions when one is added.

`ClientSessionProofs` proves, for any sets of connections and transactions (the
model values of the free mutex and of no connection are not connections):

* `EveryThreadHasItsConnection` (`Handoff`), `SessionsAreSeparate`
  (`SessionInv`), `AnswersAreRight` (`AnsweredAsAsked`).

`Inv` adds that one thread at most is being started and the listener waits for
it (`OneStarts`), that the owner of `buffer_mutex` is the thread between parse
and analyze (`Mutex`), that transactions are numbered in the order of their
begins (`InOrder`), that what a thread has in `txn_id` and in its context is the
same living transaction, and nobody else's (`Own`, `Alive`), and that the parse
tree that a thread planned from is its own, or another session's EXPLAIN came
between (`TreeRight`).

`RmFileProofs` proves, for any finite set of sessions and any size of file and page:

* `HeadersAreTrue`, `ScansAreComplete`, `InsertsArePlaced`, `RowsAreKept`,
  `PinsAreReturned`: the invariants of run `record_file`, with any number of writers.

`Inv` adds to the page headers that a page that an INSERT has chosen is pinned
(`PinsCover`), that the first page of the free list has room as long as no DELETE was
rolled back and no kill came (`FreeHasRoom`), and that a scan has seen what is
behind it (`ScanInv`). `AllInv` adds that a slot that is not `shared` is free until the
INSERT that chose it writes it, and that INSERT's alone afterwards (`Kept`), and the
count of pins (`Pinned`). Since a shared slot is excepted, a step has to show that
what it does to one slot leaves the others alone, and that the `delete_record` that
does not unpin happens only at a shared one.

`MvccProofs` proves, for any finite set of transactions, any tables, slots, values,
number of statements and start of the counter:

* `ChainsAlwaysEnd` (of `Spec`) and `ChainsEndAfterRestart` (of `RestartSpec`):
  `ChainsInv`, with every interleaving of accesses. `ChainInv` extends `MgrInv` by
  the types of the rows, what a statement knows (`JobInv`), and that links lead
  to undo logs that exist (`Linked`). That chains end says that no non-empty set
  of undo logs leads back into itself: a new log leads to an older one and no log
  leads to it, and no log is ever changed. `ChainsStop` says it of all logs, freed or
  not, as long as freed memory holds what it held; what is promised is the part about
  transactions that were not freed. Since there are finitely many, it also
  follows that the recursive walk of a read is defined (`WalkDefined`).
* `FirstCommitterWins` (of `SerialSpec`, no two calls overlap): `NoLostUpdate`. The run
  `rows_lost_update` shows that it is false without that hypothesis.
  `SerialInv` says that the timestamp in the heap covers every committed version
  of the row (`HeapInv`): they committed no later than it, or than the commit of
  the transaction that started at it. The same is asked of every record that
  an abort may put back (`RawInv`), which is what makes a rollback safe: after an
  UPDATE, the record in the write set is the one that was there before, with the
  old timestamp. `MineInv` says that a row with uncommitted changes has the timestamp of
  its transaction, and that no other uncommitted one has written it; `StatementInv`
  that a statement which has passed `CheckWriteWriteConflict` may still rely on it.
  A check that comes upon a freed transaction and finds it changed ends the behaviour,
  so the theorem speaks of the time before.

`SnapshotProofs` proves, for any finite set of transactions, any number of slots and
of statements, of `SerialSpec`:

* `SnapshotsAreRight`: `SnapshotRows`, if there is one table and rows have no
  column after the second. Both hypotheses are about the code: without either
  the property is false (section 3), and run `rows_serial` makes them too. Of a
  read that comes upon a freed transaction (`ReadTouches`) nothing is said.

`SnapInv` extends `SerialInv`. A record is `Sound` if every reader would be given the
right row were that record in the heap: the record itself if the reader sees its
timestamp, what the chain gives otherwise. The readers are the running
transactions that have not written the row and all that will ever begin, for
a record that nobody reads today may be wrong tomorrow. `HeapSound` says this of the heap,
`RawSound` of every record that abort may put back, since abort leaves the chains as
they are. What the chain gives is not computed: `Trail` is a set of undo logs that
holds the first of the chain and, with every log the reader does not see, the next;
every log in it that the reader does see has the right row. A step has only to show that
there is such a set, and that the walk ends in it follows from
`ChainsEnd` (`WalkRight`), with no induction. `LogsOwn` says that only its own logs carry the
start timestamp of a running transaction, so that commit, which restamps these alone,
leaves none behind; `OwnRows` that the heap has what a running transaction wrote;
`StmtSound` what a statement has found out about its row. Commit is the hard step: a reader that
began before sees none of the restamped logs, before or after; of the heap it
sees only a row that was inserted, which is the exception `SnapshotRows` names; and who
begins later sees the new record itself. TLC checked `SnapInv` with three
transactions of two and of three statements on one slot, and two of three statements on two slots.

`CatalogProofs` proves, for any finite sets of tables and of indexes and any number
of statements, stops, kills and splits:

* `CatalogueIsUsable` (`CatalogInv`), `DirectoryIsRight` (`DirectoryInv`),
  `PagesAreNew` (`PagesNew`).

The properties speak of the time between two statements, `Inv` of every step in
between, which it reads off `todo`. `Ordered` is the shape of the list: the metadata
is truncated and written last, one step before that changes the catalogue, or
follows the change, and each file of a DROP is closed right before it is
destroyed. `Meant` relates the list to the catalogue, and with it `FilesRight` says
which files of a table that is being dropped are still there and still open:
those whose turn has not come. So a step of a DROP can fail only for a
table with a refused index, which is what the properties except; and nothing can fail
after the change, so that the metadata follows it (`MetaFollows`) or the
server was killed. `OpenKnown` says that only files of the catalogue and strays are
open, hence that CREATE finds its file closed; `StraysApart` that a stray stays
in the directory and never gets into the catalogue, because CREATE INDEX
refuses a file that exists. `PagesBelow` is the argument for `PagesNew`: the pages of
an index are below the number of its descriptor. That there is always a
descriptor to give is the pigeonhole principle of `FiniteSetTheorems`.

The inductive invariants were tried with TLC on the bounds of their runs before they
were proved.

Only model-checked: `BTree` and the modules of a statement (`Sql` to `QueryAnswers`), which
use recursive operators, and what a recursive definition computes for every input;
liveness (`Accepted`, `SingleStatementEnds`). The proof system reaches
neither: it has no induction over data, and no reasoning about fairness.

## 5. Not modelled

* Recovery does nothing: `recover()` is commented out, `redo` and `undo` print.
* The lock manager's methods return true.
* Lexer and parser are generated; `Ast` has the nodes they make.
* The signal handler and its `longjmp`, the start-up scan of timestamps, the
  formatting of answers, SHOW and DESC.
* Layouts of pages, log records and messages.
* Code nobody calls: `begin_read_only_snapshot`, `GarbageCollection`,
  `UpdateUndoLink`, the semi-join executor, `push_conds` and `pop_scan`,
  `maintain_parent` and `erase_leaf`, the `drop_index` that takes `ColMeta`.
* Two sessions in one B+ tree: it has no latch, and nothing would hold.
* Index entries together with the version chains of concurrent transactions: `Executors`
  has the entries and what DELETE and a rollback leave of them, for one session
  at a time and one index per table; `Mvcc` has the chains, without indexes.
* Two threads that write the same page at the same moment (`RmFile`).
* What a program does after it has read freed memory and found it changed: `Mvcc`
  and `BTree` say when that is, and promise nothing from there on.

## 6. Plan

Every safety property of the modules without recursive operators is proved. What
is left is outside of the proof system: the shape of the B+ tree under insert and
delete, and the answers of queries, would need induction over trees.
If `client_handler` keeps aborted transactions, as the comments in the transaction
manager ask, the exceptions of `SnapshotRows` and `ChainsInv` go; if `version_info_` is given the table as part of its key, or undo logs all
columns, the hypothesis of `SnapshotsAreRight` that excludes this goes.
