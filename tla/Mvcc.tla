-------------------------------- MODULE Mvcc --------------------------------
(***************************************************************************)
(* Multi-version rows: the heap of RmFileHandle                            *)
(* (src/src/record/rm_file_handle.cpp), the version chains and undo logs   *)
(* of TransactionManager, and the row steps of InsertExecutor,             *)
(* UpdateExecutor and DeleteExecutor (src/src/execution/), on top of the   *)
(* timestamps of TransactionManager.                                       *)
(*                                                                         *)
(* A statement that touches several rows does the steps below row by row,  *)
(* so a statement here touches one row.  Nothing in the code holds a lock  *)
(* across two of its accesses to the heap or to version_info_: each access *)
(* is a step of its own, and Spec interleaves them.  SerialSpec is the     *)
(* same system when no two calls of two sessions overlap.                  *)
(*                                                                         *)
(* SELECT changes nothing: what it reads is the operator get_record_mvcc,  *)
(* and properties quantify over it.  It may throw (ReadConflict).          *)
(*                                                                         *)
(* Tables have no index here, and every row is in the first page, so a Rid *)
(* is a slot number.  Transactions are explicit.                           *)
(*                                                                         *)
(* A transaction that a conflict aborts is deleted (rmdb.cpp:217), but     *)
(* txn_map and the version chains still lead to it.  What its memory holds *)
(* is then undefined: either what it held, and the model goes on with      *)
(* that, or anything else, and the behaviour ends (undefined).             *)
(***************************************************************************)
EXTENDS TransactionManager, Sequences, FiniteSets

CONSTANTS Table,      \* names of tables
          Slots,      \* number of slots of a table's page (a bound)
          MaxStmt,    \* statements a transaction may run (a bound)
          DdlTxn,     \* the transaction of the first CREATE TABLE
          Wide        \* rows have columns after the first two

ASSUME DdlTxnAssumption == DdlTxn \in Txn
ASSUME BoundsAssumption ==
    Slots \in Nat /\ MaxStmt \in Nat /\ Wide \in BOOLEAN /\ IsFiniteSet(Txn)

VARIABLES
    heap,           \* heap[rid]: bitmap bit, TupleMeta and row
    version_info,   \* version_info_, keyed by the slot and not by the table
    undo_logs,      \* undo_logs_ of each transaction
    write_set,      \* write_set_ of each transaction
    job,            \* the statement each session is executing
    stmts,          \* statements begun so far, which numbers the new values
    mine,           \* ghost: the rows a transaction has written
    committed,      \* ghost: the committed versions of a row, oldest first
    memory,         \* the Transaction object of t: "kept", "doomed" or "freed"
    undefined       \* ghost: a freed Transaction was read, and was not as it had been

rowVars == <<heap, version_info, undo_logs, write_set, job, stmts, mine, committed>>

memVars == <<memory, undefined>>

vars == <<mgrVars, rowVars, memVars>>

Slot == 1 .. Slots
Rid == Table \X Slot        \* the table is the RmFileHandle that is called

NoLink == <<>>              \* an UndoLink that is not IsValid()
Links == (Txn \X (1 .. MaxStmt)) \cup {NoLink}
NoRow == [head |-> <<"none">>, tail |-> <<>>]       \* nullptr
Conflict == [head |-> <<"abort">>, tail |-> <<>>]   \* TransactionAbortException

FreeSlot == [used |-> FALSE, ts |-> 0, is_deleted |-> FALSE, val |-> NoRow]

(***************************************************************************)
(* A row is its first two columns and the others.  Its k-th statement      *)
(* makes transaction t write a value of its own.                           *)
(***************************************************************************)
Zero == <<>>
NewHead(t) == <<t, stmts[t]>>
NewTail(t) == IF Wide THEN <<t, stmts[t]>> ELSE Zero

Idle == [at |-> "idle", op |-> "none", rid |-> <<>>, old |-> NoRow, raw |-> FreeSlot]

At(t, where) == call[t] = "running" /\ job[t].at = where

Goto(t, where) == job' = [job EXCEPT ![t].at = where]

-----------------------------------------------------------------------------
(***************************************************************************)
(* Version chains.  version_info_ maps a page and a slot, whatever the     *)
(* table, to the newest undo log.  No caller passes UpdateVersionLink a    *)
(* check, nor an empty link.                                               *)
(***************************************************************************)
UpdateVersionLink(rid, link) ==
    version_info' = [version_info EXCEPT ![rid[2]] = link]

GetVersionLink(rid) == version_info[rid[2]]

GetUndoLink(rid) == version_info[rid[2]]

\* The chain ends at a link that is not valid, or names no log of its transaction.
NoLog == [ts |-> -1, is_deleted |-> TRUE, val |-> NoRow, prev |-> NoLink]

GetUndoLogOptional(link) ==
    IF link # NoLink /\ link[2] \in DOMAIN undo_logs[link[1]]
    THEN undo_logs[link[1]][link[2]] ELSE NoLog

(***************************************************************************)
(* Reading.                                                                *)
(***************************************************************************)
\* get_record with the context of an MVCC statement: the row and its TupleMeta.
get_record(rid) == heap[rid]

\* A record whose first bytes are no timestamp of this run, up to a slack of
\* 1000, is taken for one without a TupleMeta: initial data, not deleted.
TupleMetaOf(rid) ==
    IF heap[rid].ts = 0 \/ heap[rid].ts <= next_timestamp + 1000
    THEN [ts |-> heap[rid].ts, is_deleted |-> heap[rid].is_deleted]
    ELSE [ts |-> 0, is_deleted |-> FALSE]

\* ReconstructTupleFromUndoLog restores the first two columns, and fills the
\* others with zeroes.
ReconstructTupleFromUndoLog(log) == [head |-> log.val.head, tail |-> Zero]

\* An undo log that the walk of GetVisibleVersionFromHistory stops at.
VisibleLog(t, log) ==
    \/ log.ts = 0
    \/ log.ts = start_ts[t]
    \/ log.ts < start_ts[t] /\ IsCommittedBeforeReadTs(log.ts, start_ts[t])

(***************************************************************************)
(* The walk.  When the chain ends, or there is none, the code re-reads the *)
(* heap with get_record(rid, nullptr), which strips a TupleMeta with a     *)
(* positive timestamp; what is left is then taken for initial data, and a  *)
(* timestamp 0 is taken for visible without a look at is_deleted_.  Either *)
(* way the row in the heap is returned.                                    *)
(***************************************************************************)
\* A bug: the walk does not follow prev_version_.
FirstVersionOnly(t, rid) ==
    LET log == GetUndoLogOptional(GetVersionLink(rid))
    IN  IF log = NoLog \/ ~VisibleLog(t, log) THEN get_record(rid).val
        ELSE IF log.is_deleted THEN NoRow
        ELSE ReconstructTupleFromUndoLog(log)

GetVisibleVersionFromHistory(t, rid) ==
    LET Walk[link \in Links] ==
            LET log == GetUndoLogOptional(link)
            IN  IF log = NoLog THEN get_record(rid).val
                ELSE IF ~VisibleLog(t, log) THEN Walk[log.prev]
                ELSE IF log.is_deleted THEN NoRow
                ELSE ReconstructTupleFromUndoLog(log)
    IN  Walk[GetVersionLink(rid)]

get_record_mvcc(t, rid) ==
    LET meta    == TupleMetaOf(rid)
        val     == heap[rid].val
        deleter == get_transaction_by_timestamp(meta.ts)
    IN  CASE meta.ts = 0 -> IF meta.is_deleted THEN NoRow ELSE val
          [] meta.ts # 0 /\ meta.is_deleted ->
               CASE \/ meta.ts = start_ts[t]
                    \/ IsCommittedBeforeReadTs(meta.ts, start_ts[t]) -> NoRow
                 [] OTHER ->
                      IF /\ ~is_transaction_aborted(meta.ts)
                         /\ deleter # NoTxn /\ Active(deleter)
                      THEN Conflict
                      ELSE GetVisibleVersionFromHistory(t, rid)
          [] meta.ts # 0 /\ ~meta.is_deleted ->
               IF \/ meta.ts = start_ts[t]
                  \/ /\ meta.ts < start_ts[t]
                     /\ IsCommittedBeforeReadTs(meta.ts, start_ts[t])
               THEN val
               ELSE GetVisibleVersionFromHistory(t, rid)

\* A bug: a version that committed after the transaction began is no conflict.
OnlyActiveConflicts(t, rid) ==
    LET ts    == heap[rid].ts
        owner == get_transaction_by_timestamp(ts)
    IN  ts # 0 /\ ts # start_ts[t] /\ owner # NoTxn /\ Active(owner)

CheckWriteWriteConflict(t, rid) ==
    LET ts    == heap[rid].ts
        owner == get_transaction_by_timestamp(ts)
    IN  /\ ts # 0
        /\ ts # start_ts[t]
        /\ \/ state[t] = "ABORTED"
           \/ owner \notin {NoTxn, t} /\ Active(owner)
           \/ /\ owner \in {NoTxn, t} \/ state[owner] # "ABORTED"
              /\ IF IsCommitted(ts) /\ owner # NoTxn
                 THEN commit_ts[owner] > start_ts[t]
                 ELSE ts > start_ts[t]

(***************************************************************************)
(* Reads of a Transaction that was deleted.  get_transaction_by_timestamp  *)
(* goes through txn_map, in no particular order, until it meets the        *)
(* timestamp, so it may read every Transaction that was ever begun.        *)
(***************************************************************************)
Freed == {t \in Txn : memory[t] = "freed"}

\* IsCommittedBeforeReadTs gets as far as looking the transaction up.
LooksUp(ts, read_ts) ==
    /\ Freed # {}
    /\ ts # 0 /\ ts < read_ts
    /\ ~is_transaction_aborted(ts) /\ ts \notin committed_txns

\* The walk of GetVisibleVersionFromHistory, up to where it stops.
WalkTouches(t, rid) ==
    LET Touches[link \in Links] ==
            LET log == GetUndoLogOptional(link)
            IN  /\ link # NoLink
                /\ \/ link[1] \in Freed
                   \/ /\ log # NoLog
                      /\ \/ log.ts # start_ts[t] /\ LooksUp(log.ts, start_ts[t])
                         \/ ~VisibleLog(t, log) /\ Touches[log.prev]
    IN  Touches[GetVersionLink(rid)]

\* get_record_mvcc.
ReadTouches(t, rid) ==
    LET meta == TupleMetaOf(rid)
    IN  /\ Freed # {}
        /\ meta.ts \notin {0, start_ts[t]}
        /\ \/ LooksUp(meta.ts, start_ts[t])
           \/ /\ ~IsCommittedBeforeReadTs(meta.ts, start_ts[t])
              /\ \/ meta.is_deleted /\ ~is_transaction_aborted(meta.ts)
                 \/ WalkTouches(t, rid)

\* CheckWriteWriteConflict.
CheckTouches(t, rid) ==
    Freed # {} /\ heap[rid].ts \notin {0, start_ts[t]} /\ state[t] # "ABORTED"

-----------------------------------------------------------------------------
RowInit ==
    /\ version_info = [s \in Slot |-> NoLink]
    /\ undo_logs = [t \in Txn |-> <<>>]
    /\ write_set = [t \in Txn |-> <<>>]
    /\ job   = [t \in Txn |-> Idle]
    /\ stmts = [t \in Txn |-> 0]
    /\ mine  = [t \in Txn |-> <<>>]
    /\ memory = [t \in Txn |-> "kept"]
    /\ undefined = FALSE

(***************************************************************************)
(* A new database, just after its first statement: an autocommit CREATE    *)
(* TABLE, which began at timestamp 0 and committed at 1.                   *)
(***************************************************************************)
Init ==
    /\ RowInit
    /\ heap = [rid \in Rid |-> FreeSlot]
    /\ committed = [rid \in Rid |-> <<>>]
    /\ next_timestamp  = 2
    /\ timestamp_mutex = NoTxn
    /\ last_commit_ts  = 1
    /\ running_txns    = NewWatermark(1)
    /\ committed_txns  = {1}
    /\ aborted_txns    = {}
    /\ state     = [t \in Txn |-> IF t = DdlTxn THEN "COMMITTED" ELSE "none"]
    /\ txn_mode  = [t \in Txn |-> FALSE]
    /\ start_ts  = [t \in Txn |-> IF t = DdlTxn THEN 0 ELSE INVALID_TS]
    /\ commit_ts = [t \in Txn |-> IF t = DdlTxn THEN 1 ELSE INVALID_TS]
    /\ call      = [t \in Txn |-> IF t = DdlTxn THEN "done" ELSE "new"]
    /\ raise     = [t \in Txn |-> NoChange]

(***************************************************************************)
(* A server that has just restarted: version_info_, the undo logs and the  *)
(* transaction table are gone, and a slot may hold a row, or the tombstone *)
(* of a row, that the last run committed at a timestamp below StartTs.     *)
(***************************************************************************)
OldRow == [head |-> <<"old">>, tail |-> IF Wide THEN <<"old">> ELSE Zero]

RestartInit ==
    /\ RowInit
    /\ MgrInit
    /\ heap \in [Rid -> {FreeSlot} \cup
                        [used : {TRUE}, ts : 1 .. StartTs - 1,
                         is_deleted : BOOLEAN, val : {OldRow}]]
    /\ committed = [rid \in Rid |->
           IF ~heap[rid].used THEN <<>>
           ELSE <<[start |-> -1, ts |-> -1, insert |-> TRUE,
                   val |-> IF heap[rid].is_deleted THEN NoRow ELSE heap[rid].val]>>]

(***************************************************************************)
(* Statements.  A statement that throws leaves only abort to its session.  *)
(***************************************************************************)
StartStatement(t, op, rid, first) ==
    /\ At(t, "idle")
    /\ stmts[t] < MaxStmt
    /\ stmts' = [stmts EXCEPT ![t] = @ + 1]
    /\ job' = [job EXCEPT ![t] = [Idle EXCEPT !.at = first, !.op = op, !.rid = rid]]

Throw(t) == Goto(t, "throw")

\* The function f, and f[x] is v.
Put(f, x, v) == [y \in DOMAIN f \cup {x} |-> IF y = x THEN v ELSE f[y]]

\* InsertExecutor: insert_record takes the first free slot of the page ...
InsertChoose(t, table) ==
    /\ \E s \in Slot : ~heap[<<table, s>>].used
    /\ StartStatement(t, "insert",
           <<table, Lowest({s \in Slot : ~heap[<<table, s>>].used})>>, "insert")
    /\ UNCHANGED <<mgrVars, heap, version_info, undo_logs, write_set, mine, committed>>

\* ... and fills it after it has written the log record, ...
InsertWrite(t) ==
    LET rid == job[t].rid
        val == [head |-> NewHead(t), tail |-> NewTail(t)]
    IN  /\ At(t, "insert")
        /\ heap' = [heap EXCEPT ![rid] = [used |-> TRUE, ts |-> start_ts[t],
                                          is_deleted |-> FALSE, val |-> val]]
        /\ mine' = [mine EXCEPT ![t] = Put(@, rid, val)]
        /\ Goto(t, "insertlink")
        /\ UNCHANGED <<mgrVars, version_info, undo_logs, write_set, stmts, committed>>

\* ... then the executor starts the version chain.  It adds no WriteRecord.
InsertLink(t) ==
    /\ At(t, "insertlink")
    /\ undo_logs' = [undo_logs EXCEPT ![t] =
           Append(@, [ts |-> 0, is_deleted |-> TRUE, val |-> NoRow, prev |-> NoLink])]
    /\ UpdateVersionLink(job[t].rid, <<t, Len(undo_logs'[t])>>)
    /\ job' = [job EXCEPT ![t] = Idle]
    /\ UNCHANGED <<mgrVars, heap, write_set, stmts, mine, committed>>

\* UPDATE checks for a conflict and then reads; DELETE reads and then checks.
UpdateStart(t, rid) ==
    /\ heap[rid].used
    /\ StartStatement(t, "update", rid, "check")
    /\ UNCHANGED <<mgrVars, heap, version_info, undo_logs, write_set, mine, committed>>

DeleteStart(t, rid) ==
    /\ heap[rid].used
    /\ StartStatement(t, "delete", rid, "read")
    /\ UNCHANGED <<mgrVars, heap, version_info, undo_logs, write_set, mine, committed>>

CheckRow(t) ==
    /\ At(t, "check")
    /\ IF CheckWriteWriteConflict(t, job[t].rid) THEN Throw(t)
       ELSE Goto(t, IF job[t].op = "update" THEN "read" ELSE "raw")
    /\ UNCHANGED <<mgrVars, heap, version_info, undo_logs, write_set, stmts, mine, committed>>

\* A row that is not visible ends a DELETE of it, and makes an UPDATE throw.
ReadRow(t) ==
    /\ At(t, "read")
    /\ LET old    == get_record_mvcc(t, job[t].rid)
           update == job[t].op = "update"
       IN  CASE old = Conflict -> Throw(t)
             [] old = NoRow -> IF update THEN Goto(t, "invisible")
                               ELSE job' = [job EXCEPT ![t] = Idle]
             [] OTHER -> job' = [job EXCEPT ![t].old = old,
                                            ![t].at = IF update THEN "raw" ELSE "check"]
    /\ UNCHANGED <<mgrVars, heap, version_info, undo_logs, write_set, stmts, mine, committed>>

\* The raw record is read and the undo log built from both records, in front of
\* the chain.  A DELETE notes that the row was not deleted.  The mutant links
\* the undo log to itself: the index is taken after the log is appended.
NextLink(t, rid) == <<t, Len(undo_logs[t]) + 1>>

PrevLink(t, rid) == IF job[t].op = "update" THEN GetUndoLink(rid) ELSE GetVersionLink(rid)

ReadRaw(t) ==
    LET rid == job[t].rid
        raw == get_record(rid)
    IN  /\ At(t, "raw")
        /\ undo_logs' = [undo_logs EXCEPT ![t] = Append(@,
               [ts |-> raw.ts,
                is_deleted |-> job[t].op = "update" /\ raw.is_deleted,
                val |-> job[t].old, prev |-> PrevLink(t, rid)])]
        /\ job' = [job EXCEPT ![t].raw = raw, ![t].at = "write"]
        /\ UNCHANGED <<mgrVars, heap, version_info, write_set, stmts, mine, committed>>

\* update_record.  UPDATE assigns its columns over the raw record, not over the
\* record that is visible to it; here it assigns the first two.
WriteRow(t) ==
    LET rid == job[t].rid
        raw == job[t].raw
        update == job[t].op = "update"
        val == IF update THEN [raw.val EXCEPT !.head = NewHead(t)] ELSE raw.val
    IN  /\ At(t, "write")
        /\ heap' = [heap EXCEPT ![rid].ts = start_ts[t], ![rid].is_deleted = ~update,
                                ![rid].val = val]
        /\ mine' = [mine EXCEPT ![t] = Put(@, rid, IF update THEN val ELSE NoRow)]
        /\ Goto(t, "link")
        /\ UNCHANGED <<mgrVars, version_info, undo_logs, write_set, stmts, committed>>

\* UpdateVersionLink, then the WriteRecord that keeps the raw record for abort.
LinkRow(t) ==
    /\ At(t, "link")
    /\ UpdateVersionLink(job[t].rid, <<t, Len(undo_logs[t])>>)
    /\ write_set' = [write_set EXCEPT ![t] =
                        Append(@, [rid |-> job[t].rid, raw |-> job[t].raw])]
    /\ job' = [job EXCEPT ![t] = Idle]
    /\ UNCHANGED <<mgrVars, heap, undo_logs, stmts, mine, committed>>

\* A scan that reads a row another transaction is deleting throws.
ReadConflict(t, rid) ==
    /\ At(t, "idle")
    /\ heap[rid].used
    /\ get_record_mvcc(t, rid) = Conflict
    /\ Throw(t)
    /\ UNCHANGED <<mgrVars, heap, version_info, undo_logs, write_set, stmts, mine, committed>>

Statement(t) ==
    \/ \E table \in Table : InsertChoose(t, table)
    \/ InsertWrite(t) \/ InsertLink(t)
    \/ \E rid \in Rid : UpdateStart(t, rid) \/ DeleteStart(t, rid) \/ ReadConflict(t, rid)
    \/ CheckRow(t) \/ ReadRow(t) \/ ReadRaw(t) \/ WriteRow(t) \/ LinkRow(t)

-----------------------------------------------------------------------------
(***************************************************************************)
(* The ends of a transaction.                                              *)
(***************************************************************************)
Begin(t) == begin(t, TRUE) /\ UNCHANGED rowVars

(***************************************************************************)
(* UpdateCommitTimestamp: the undo logs of t, and the rows in its write    *)
(* set, that carry its start timestamp get its commit timestamp.  A        *)
(* concurrent reader began before the commit timestamp was handed out and  *)
(* sees neither stamp, so the loop is one step with the rest of            *)
(* CommitStamp.                                                            *)
(***************************************************************************)
\* The rows in the write set of t.
Written(t) == {write_set[t][i].rid : i \in DOMAIN write_set[t]}

StampHeap(t, ts) ==
    [rid \in Rid |-> IF rid \in Written(t) /\ heap[rid].used /\ heap[rid].ts = start_ts[t]
                     THEN [heap[rid] EXCEPT !.ts = ts] ELSE heap[rid]]

StampLogs(t, ts) ==
    [undo_logs EXCEPT ![t] = [i \in DOMAIN @ |->
        IF @[i].ts = start_ts[t] THEN [@[i] EXCEPT !.ts = ts] ELSE @[i]]]

Commit(t) ==
    /\ job[t].at = "idle"
    /\ CommitStamp(t)
    /\ heap' = StampHeap(t, next_timestamp)
    /\ undo_logs' = StampLogs(t, next_timestamp)
    /\ committed' = [rid \in Rid |->
           IF rid \notin DOMAIN mine[t] THEN committed[rid]
           ELSE Append(committed[rid], [start |-> start_ts[t], ts |-> next_timestamp,
                                        insert |-> rid \notin Written(t),
                                        val |-> mine[t][rid]])]
    /\ UNCHANGED <<version_info, write_set, job, stmts, mine>>

Abort(t) ==
    /\ job[t].at \in {"idle", "throw", "invisible"}
    /\ AbortState(t)
    /\ job' = [job EXCEPT ![t] = Idle]
    /\ UNCHANGED <<heap, version_info, undo_logs, write_set, stmts, mine, committed>>

ManagerStep(t) ==
    /\ CommitRecord(t) \/ CommitState(t) \/ AbortErase(t) \/ AbortRecord(t)
    /\ UNCHANGED rowVars

RollingBack(t) == call[t] = "done" /\ state[t] = "ABORTED" /\ write_set[t] # <<>>

\* The write record that abort undoes next.
LatestWrite(t) == Len(write_set[t])

\* abort undoes the write set, one raw record at a time, with update_record or
\* insert_record(rid, buf).  It leaves the version chains alone.
AbortUndo(t) ==
    LET i == LatestWrite(t)
        w == write_set[t][i]
    IN  /\ RollingBack(t)
        /\ heap' = [heap EXCEPT ![w.rid] = [w.raw EXCEPT !.used = TRUE]]
        /\ write_set' = [write_set EXCEPT ![t] =
                            SubSeq(@, 1, i - 1)]
        /\ UNCHANGED <<mgrVars, version_info, undo_logs, job, stmts, mine, committed>>

Step(t) ==
    \/ Begin(t) \/ Statement(t)
    \/ Commit(t) \/ Abort(t) \/ ManagerStep(t) \/ AbortUndo(t)

(***************************************************************************)
(* client_handler deletes the transaction of a statement that threw, once  *)
(* abort has returned, and begins another.  A COMMIT or ABORT of the       *)
(* client deletes nothing.                                                 *)
(***************************************************************************)
Thrown(t) == job[t].at \in {"throw", "invisible"}

Run(t) ==
    /\ Step(t)
    /\ memory' = IF Thrown(t) THEN [memory EXCEPT ![t] = "doomed"] ELSE memory
    /\ UNCHANGED undefined

DeleteTxn(t) ==
    /\ memory[t] = "doomed" /\ call[t] = "done" /\ ~RollingBack(t)
    /\ memory' = [memory EXCEPT ![t] = "freed"]
    /\ UNCHANGED <<mgrVars, rowVars, undefined>>

\* A statement of t, or a SELECT, reads a freed Transaction, which holds
\* something else by now.
ReadFreed(t) ==
    /\ \/ At(t, "check") /\ CheckTouches(t, job[t].rid)
       \/ At(t, "read") /\ ReadTouches(t, job[t].rid)
       \/ \E rid \in Rid : At(t, "idle") /\ heap[rid].used /\ ReadTouches(t, rid)
    /\ undefined' = TRUE
    /\ UNCHANGED <<mgrVars, rowVars, memory>>

Session(t) == ~undefined /\ (Run(t) \/ DeleteTxn(t) \/ ReadFreed(t))

\* Sessions run in parallel.
Next == \E t \in Txn : Session(t)

\* No call into the server is open for t.
Quiet(t) ==
    /\ job[t].at = "idle"
    /\ call[t] \in {"new", "running", "done"}
    /\ ~RollingBack(t)
    /\ memory[t] # "doomed"

\* One call at a time.
SerialNext == \E t \in Txn : (\A u \in Txn \ {t} : Quiet(u)) /\ Session(t)

Spec == Init /\ [][Next]_vars
SerialSpec == Init /\ [][SerialNext]_vars
RestartSpec == RestartInit /\ [][Next]_vars

-----------------------------------------------------------------------------
(***************************************************************************)
(* Properties.                                                             *)
(***************************************************************************)
Vals == {NoRow, OldRow} \cup
        [head : (Txn \X (1 .. MaxStmt)) \cup {<<"old">>},
         tail : (Txn \X (1 .. MaxStmt)) \cup {<<"old">>, Zero}]

Cells == [used : BOOLEAN, ts : Nat, is_deleted : BOOLEAN, val : Vals]

\* The type of every variable.
TypeOK ==
    /\ MgrTypeOK
    /\ heap \in [Rid -> Cells]
    /\ version_info \in [Slot -> Links]
    /\ \A t \in Txn :
        /\ \A i \in DOMAIN undo_logs[t] : undo_logs[t][i] \in
               [ts : Nat, is_deleted : BOOLEAN, val : Vals, prev : Links]
        /\ \A i \in DOMAIN write_set[t] : write_set[t][i] \in [rid : Rid, raw : Cells]
        /\ job[t].raw \in Cells /\ job[t].old \in Vals
        /\ stmts[t] \in 0 .. MaxStmt
        /\ memory[t] \in {"kept", "doomed", "freed"}
    /\ undefined \in BOOLEAN

\* What a transaction reads that has begun and is not inside a statement.
Reads(t, rid) == heap[rid].used /\ At(t, "idle")

\* The row that snapshot isolation shows to t: its own, or else the last version
\* that committed before t began.
SnapshotRow(t, rid) ==
    LET Before == {i \in DOMAIN committed[rid] : committed[rid][i].ts < start_ts[t]}
    IN  IF rid \in DOMAIN mine[t] THEN mine[t][rid]
        ELSE IF Before = {} THEN NoRow
        ELSE committed[rid][CHOOSE i \in Before : \A j \in Before : j <= i].val

\* Between the calls of the sessions.
AllQuiet == \A t \in Txn : Quiet(t)

\* A committed row that a transaction inserted which began before t and committed
\* after.  It has no WriteRecord, so commit leaves it with the start timestamp.
InsertedMeanwhile(t, rid, row) ==
    \E i \in DOMAIN committed[rid] :
        /\ committed[rid][i].insert
        /\ committed[rid][i].start < start_ts[t] /\ start_ts[t] < committed[rid][i].ts
        /\ row \in {committed[rid][j].val : j \in DOMAIN committed[rid]}

(***************************************************************************)
(* Snapshot isolation: a row is read as the snapshot has it, or the read   *)
(* throws, however often the row has been updated, deleted, committed and  *)
(* rolled back since (get_record_mvcc and the walk of the chain).  The     *)
(* only rows read that are not in the snapshot are those inserted          *)
(* meanwhile, and these only as they were committed: nothing dirty is ever *)
(* read.  Nothing is said of a read that comes upon a freed transaction,   *)
(* which is undefined.                                                     *)
(***************************************************************************)
SnapshotRows ==
    AllQuiet => \A t \in Txn, rid \in Rid :
        Reads(t, rid) /\ ~ReadTouches(t, rid) =>
            LET row == get_record_mvcc(t, rid)
            IN  \/ row \in {SnapshotRow(t, rid), Conflict}
                \/ SnapshotRow(t, rid) = NoRow /\ InsertedMeanwhile(t, rid, row)

(***************************************************************************)
(* First committer wins: a transaction that updated or deleted a row and   *)
(* committed began after every earlier writer of the row had committed, so *)
(* that it had read what it overwrote (CheckWriteWriteConflict).           *)
(***************************************************************************)
NoLostUpdate ==
    \A rid \in Rid : \A i, j \in DOMAIN committed[rid] :
        i < j /\ ~committed[rid][j].insert =>
            committed[rid][i].ts < committed[rid][j].start

(***************************************************************************)
(* A version chain ends, or leads to a transaction that was freed.  The    *)
(* walk of GetVisibleVersionFromHistory has no other bound: with a cycle   *)
(* of undo links a reader would never return.  (No non-empty set of undo   *)
(* logs of transactions that are still there leads back into itself.)      *)
(***************************************************************************)
ChainsEnd ==
    LET Logs == UNION {{<<t, i>> : i \in DOMAIN undo_logs[t]} : t \in Txn \ Freed}
    IN  \A S \in SUBSET Logs : S # {} =>
            \E link \in S : undo_logs[link[1]][link[2]].prev \notin S

\* Both, however the accesses of the sessions interleave.
ChainsInv == TypeOK /\ ChainsEnd
=============================================================================
