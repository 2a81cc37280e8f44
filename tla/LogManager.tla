----------------------------- MODULE LogManager -----------------------------
(***************************************************************************)
(* LogManager (src/src/recovery/log_manager.cpp) and the write-ahead       *)
(* protocol of its callers, RmFileHandle::insert_record, delete_record and *)
(* update_record: add the record to the buffer, force the log, write the   *)
(* page.  commit and abort flush what is in the buffer, after writing into *)
(* pages what has no log record: the commit timestamp of a row, and a row  *)
(* that comes back.                                                        *)
(*                                                                         *)
(* In the log a record is its run of the server and its lsn; the type of a *)
(* record matters for its length, which fills the buffer.  No record is    *)
(* written for begin, commit and abort.  Every operation of                *)
(* LogManager holds latch_ throughout, so it is one step; the step that    *)
(* asks for latch_ twice never ends.  A page reaches its file when the     *)
(* buffer pool evicts it, which is at any time, or never if the server     *)
(* stops first.                                                            *)
(***************************************************************************)
EXTENDS Integers, Sequences, FiniteSets, SequencesExt

CONSTANTS Session,      \* sessions of the server
          Capacities,   \* what LOG_BUFFER_SIZE may be
          FixedLen,     \* length of a record without the row: header, Rid, table name
          ValueLen,     \* length of a row, with the size written before it
          MaxLsn,       \* records of one run (a bound)
          MaxRun,       \* runs of the server (a bound)
          Nobody        \* not a session

ASSUME LogAssumption ==
    /\ Capacities \subseteq Nat \ {0} /\ FixedLen \in Nat \ {0} /\ ValueLen \in Nat \ {0}
    /\ MaxLsn \in Nat /\ MaxRun \in Nat \ {0}
    /\ IsFiniteSet(Session) /\ Nobody \notin Session

VARIABLES
    capacity,       \* LOG_BUFFER_SIZE
    run,            \* the run of the server
    global_lsn,     \* global_lsn_
    persist_lsn,    \* persist_lsn_
    log_buffer,     \* the records in log_buffer_
    offset,         \* offset_ of log_buffer_
    latch,          \* the session that will never release latch_, or Nobody
    log,            \* the log file
    pc,             \* what each session does next
    lsn,            \* log_lsn of each session
    changed,        \* the writes that are in the pages of the buffer pool
    stored,         \* the writes that are in the files
    open,           \* the changes of each session's transaction
    committed       \* the changes of the transactions whose commit has returned

vars == <<capacity, run, global_lsn, persist_lsn, log_buffer, offset, latch, log,
          pc, lsn, changed, stored, open, committed>>

Members(s) == {s[i] : i \in DOMAIN s}

Record(s) == <<run, lsn[s]>>

\* What is written into a page: a change, which is its record, or what commit and
\* abort write over the change later, which has no record of its own.
Unlogged(r) == <<r[1], r[2], "unlogged">>

RecordOf(w) == <<w[1], w[2]>>

(***************************************************************************)
(* The constructor does not set persist_lsn_.  The LogManager is larger    *)
(* than four megabytes and allocated once, before anything is freed, so    *)
(* its memory is fresh and the value is 0.                                 *)
(***************************************************************************)
FirstPersistLsn == 0

Init ==
    /\ capacity \in Capacities
    /\ run = 1
    /\ global_lsn = 0
    /\ persist_lsn = FirstPersistLsn
    /\ log_buffer = <<>>
    /\ offset = 0
    /\ latch = Nobody
    /\ log = <<>>
    /\ pc = [s \in Session |-> "idle"]
    /\ lsn = [s \in Session |-> 0]
    /\ changed = {} /\ stored = {} /\ committed = {}
    /\ open = [s \in Session |-> {}]

-----------------------------------------------------------------------------
\* log_tot_len_ of the records: an UPDATE has the old row and the new one.
InsertLogRecord == FixedLen + ValueLen
DeleteLogRecord == FixedLen + ValueLen
UpdateLogRecord == FixedLen + 2 * ValueLen

LogRecords == {InsertLogRecord, DeleteLogRecord, UpdateLogRecord}

\* The mutant calls a buffer full that the record would just fill.
FullAtLimit(log_tot_len) == offset + log_tot_len >= capacity

is_full(log_tot_len) == offset + log_tot_len > capacity

\* The buffer goes to the end of the file.
Written == log \o log_buffer

add_log_to_buffer(s, log_tot_len) ==
    /\ pc[s] = "idle" /\ latch = Nobody /\ global_lsn < MaxLsn
    /\ ~is_full(log_tot_len)
    /\ lsn' = [lsn EXCEPT ![s] = global_lsn]
    /\ global_lsn' = global_lsn + 1
    /\ log_buffer' = Append(log_buffer, <<run, global_lsn>>)
    /\ offset' = offset + log_tot_len
    /\ pc' = [pc EXCEPT ![s] = "force"]
    /\ UNCHANGED <<capacity, run, persist_lsn, latch, log, changed, stored, open, committed>>

\* A full buffer: flush_log_to_disk locks the mutex that its caller holds.
AddToFullBuffer(s, log_tot_len) ==
    /\ pc[s] = "idle" /\ latch = Nobody /\ global_lsn < MaxLsn
    /\ is_full(log_tot_len)
    /\ latch' = s
    /\ pc' = [pc EXCEPT ![s] = "stuck"]
    /\ UNCHANGED <<capacity, run, global_lsn, persist_lsn, log_buffer, offset, log, lsn, changed,
                   stored, open, committed>>

\* The record of s is not known to be in the file.  The mutant skips a record
\* that directly follows the last one in the file.
NotNext(s) == persist_lsn < lsn[s] - 1

NotPersistent(s) == persist_lsn < lsn[s]

force_flush_log_to_disk(s) ==
    /\ pc[s] = "force" /\ latch = Nobody
    /\ IF NotPersistent(s) /\ offset > 0
       THEN log' = Written /\ persist_lsn' = global_lsn - 1 /\ log_buffer' = <<>> /\ offset' = 0
       ELSE UNCHANGED <<log, persist_lsn, log_buffer, offset>>
    /\ pc' = [pc EXCEPT ![s] = "write"]
    /\ UNCHANGED <<capacity, run, global_lsn, latch, lsn, changed, stored, open, committed>>

\* The row is written into its page.
WriteRow(s) ==
    /\ pc[s] = "write"
    /\ changed' = changed \cup {Record(s)}
    /\ open' = [open EXCEPT ![s] = @ \cup {Record(s)}]
    /\ pc' = [pc EXCEPT ![s] = "idle"]
    /\ UNCHANGED <<capacity, run, global_lsn, persist_lsn, log_buffer, offset, latch, log, lsn, stored,
                   committed>>

\* The mutant sets persist_lsn_ and forgets the file.
DropBuffer == log

FlushBuffer == Written

\* flush_log_to_disk.
flush_log_to_disk ==
    /\ latch = Nobody
    /\ IF offset > 0
       THEN log' = FlushBuffer /\ persist_lsn' = global_lsn - 1 /\ log_buffer' = <<>> /\ offset' = 0
       ELSE UNCHANGED <<log, persist_lsn, log_buffer, offset>>

(***************************************************************************)
(* commit first writes the commit timestamp into the rows of the write     *)
(* set, with a context that has no log manager (UpdateCommitTimestamp).    *)
(* That the write set lacks the rows of an INSERT only makes changed       *)
(* smaller.                                                                *)
(***************************************************************************)
UpdateCommitTimestamp(s) ==
    /\ pc[s] = "idle" /\ open[s] # {}
    /\ changed' = changed \cup {Unlogged(r) : r \in open[s]}
    /\ pc' = [pc EXCEPT ![s] = "commit"]
    /\ UNCHANGED <<capacity, run, global_lsn, persist_lsn, log_buffer, offset, latch, log, lsn, stored,
                   open, committed>>

\* Then it flushes the log, and the transaction is over.
Commit(s) ==
    /\ pc[s] = "commit"
    /\ flush_log_to_disk
    /\ pc' = [pc EXCEPT ![s] = "idle"]
    /\ committed' = committed \cup open[s]
    /\ open' = [open EXCEPT ![s] = {}]
    /\ UNCHANGED <<capacity, run, global_lsn, latch, lsn, changed, stored>>

(***************************************************************************)
(* abort takes its changes back.  An UPDATE and, outside MVCC, an INSERT   *)
(* are undone by update_record and delete_record, which are changes like   *)
(* any other; a DELETE by insert_record(rid, buf), which logs nothing.     *)
(***************************************************************************)
UndoDelete(s) ==
    /\ pc[s] = "idle"
    /\ \E r \in open[s] : changed' = changed \cup {Unlogged(r)}
    /\ UNCHANGED <<capacity, run, global_lsn, persist_lsn, log_buffer, offset, latch, log, pc, lsn,
                   stored, open, committed>>

\* Then it flushes the log.
Abort(s) ==
    /\ pc[s] = "idle" /\ open[s] # {}
    /\ flush_log_to_disk
    /\ open' = [open EXCEPT ![s] = {}]
    /\ UNCHANGED <<capacity, run, global_lsn, latch, pc, lsn, changed, stored, committed>>

\* The buffer pool writes the changed pages.  That it may write some of them only
\* makes stored smaller, and every property below holds of less.
EvictPage ==
    /\ changed \ stored # {}
    /\ stored' = stored \cup changed
    /\ UNCHANGED <<capacity, run, global_lsn, persist_lsn, log_buffer, offset, latch, log, pc, lsn,
                   changed, open, committed>>

\* The server is killed and started again.  No lsn is read back from the log.
Restart ==
    /\ run < MaxRun
    /\ run' = run + 1
    /\ global_lsn' = 0
    /\ persist_lsn' = FirstPersistLsn
    /\ log_buffer' = <<>>
    /\ offset' = 0
    /\ latch' = Nobody
    /\ pc' = [s \in Session |-> "idle"]
    /\ lsn' = [s \in Session |-> 0]
    /\ changed' = stored
    /\ open' = [s \in Session |-> {}]
    /\ UNCHANGED <<capacity, log, stored, committed>>

Next ==
    \/ \E s \in Session : \/ \E len \in LogRecords : add_log_to_buffer(s, len) \/ AddToFullBuffer(s, len)
                          \/ force_flush_log_to_disk(s) \/ WriteRow(s)
                          \/ UpdateCommitTimestamp(s) \/ Commit(s)
                          \/ UndoDelete(s) \/ Abort(s)
    \/ EvictPage
    \/ Restart

Spec == Init /\ [][Next]_vars

-----------------------------------------------------------------------------
(***************************************************************************)
(* Properties.                                                             *)
(***************************************************************************)
Records == (1 .. MaxRun) \X (0 .. MaxLsn)

Writes == Records \cup {Unlogged(r) : r \in Records}

\* The type of every variable.
LogTypeOK ==
    /\ capacity \in Capacities
    /\ run \in 1 .. MaxRun
    /\ global_lsn \in 0 .. MaxLsn /\ persist_lsn \in 0 .. MaxLsn
    /\ offset \in 0 .. capacity
    /\ log_buffer \in Seq(Records) /\ log \in Seq(Records)
    /\ latch \in Session \cup {Nobody}
    /\ pc \in [Session -> {"idle", "force", "write", "commit", "stuck"}]
    /\ lsn \in [Session -> 0 .. MaxLsn]
    /\ changed \subseteq Writes /\ stored \subseteq Writes
    /\ open \in [Session -> SUBSET Records] /\ committed \subseteq Records

\* The log, the file and after it the buffer, ends with every lsn of this run, once
\* and in order, behind the records of earlier runs: neither flush loses or repeats
\* a record (log_manager.cpp:36, 52).
LogComplete ==
    LET old == Len(Written) - global_lsn
    IN  /\ old >= 0
        /\ \A i \in 1 .. global_lsn : Written[old + i] = <<run, i - 1>>
        /\ \A i \in 1 .. old : Written[i][1] < run

\* Both: the log and its buffer are well formed and complete.
LogInv == LogTypeOK /\ LogComplete

\* What reaches a file is a change whose record is in the log, or what commit or
\* abort wrote over such a change without a record, except for the record that the
\* first value of persist_lsn_ calls persistent.
LogBeforeData ==
    \A w \in stored : RecordOf(w) \in Members(log) \/ w[2] <= FirstPersistLsn

\* A transaction whose commit has returned is in the log, whenever the server is
\* killed.
CommittedIsLogged == committed \subseteq Members(log)

\* The log comes first: the record of a change before everything that is written
\* into its row, and the records of a transaction before the end of its commit.
LogFirst == LogBeforeData /\ CommittedIsLogged

\* When the buffer has room for the longest record of each session and one more, no
\* session finds it full: none meets the second lock of latch_ (log_manager.cpp:22,
\* 34).
NeverStuck == capacity >= (Cardinality(Session) + 1) * UpdateLogRecord => latch = Nobody
=============================================================================
