------------------------- MODULE TransactionManager -------------------------
(***************************************************************************)
(* TransactionManager (src/src/transaction/transaction_manager.h and       *)
(* .cpp) in MVCC mode: timestamps, transaction states, the watermark and   *)
(* the two sets that the visibility tests consult.  The version chains and *)
(* the heap are added by Mvcc.                                             *)
(*                                                                         *)
(* A member of Txn is one Transaction object, which begins at most once.   *)
(* begin and commit hold timestamp_mutex_, abort does not; every step      *)
(* below is one stretch of code between two points where another thread    *)
(* can see, or change, what the stretch uses:                              *)
(*                                                                         *)
(*   begin(t)         all of begin                                         *)
(*   CommitStamp(t)   commit, from the lock to UpdateCommitTs and the      *)
(*                    erasing half of RemoveTxn                            *)
(*   CommitRecord(t)  the storing half of RemoveTxn, committed_txns_, and  *)
(*                    the unlock                                           *)
(*   CommitState(t)   state COMMITTED, and the rest of commit              *)
(*   AbortState(t)    abort: state ABORTED                                 *)
(*   AbortErase(t)    the erasing half of RemoveTxn                        *)
(*   AbortRecord(t)   the storing half, aborted_txns_, and the rest        *)
(***************************************************************************)
EXTENDS Watermark

CONSTANTS Txn,      \* transaction objects
          NoTxn,    \* "nullptr", and the owner of a free mutex
          StartTs   \* SmManager::get_start_timestamp() at construction

ASSUME NoTxnAssumption == NoTxn \notin Txn
ASSUME StartTsAssumption == StartTs \in Nat

INVALID_TS == -1

VARIABLES
    next_timestamp,    \* next_timestamp_
    timestamp_mutex,   \* the transaction whose thread holds timestamp_mutex_
    last_commit_ts,    \* last_commit_ts_
    running_txns,      \* running_txns_, a Watermark
    committed_txns,    \* committed_txns_, a set of commit timestamps
    aborted_txns,      \* aborted_txns_, a set of start timestamps
    state,             \* state_ of each transaction, "none" before begin
    txn_mode,          \* txn_mode_: TRUE explicit, FALSE one autocommit statement
    start_ts,          \* start_ts_
    commit_ts,         \* commit_ts_
    call,              \* where the transaction's thread is
    raise              \* local to RemoveTxn: the watermark about to be stored

mgrVars == <<next_timestamp, timestamp_mutex, last_commit_ts, running_txns,
             committed_txns, aborted_txns, state, txn_mode, start_ts,
             commit_ts, call, raise>>

(***************************************************************************)
(* call[t].  In "running" the session executes statements.  An autocommit  *)
(* transaction is its one statement: when that statement is itself COMMIT  *)
(* or ABORT, the manager is called for it, and client_handler then commits *)
(* the transaction again ("reply" is the moment between the two).          *)
(***************************************************************************)
Calls == {"new", "running", "commit", "commit2", "state", "state2",
          "abort", "abort2", "record", "record2", "reply", "done"}

Begun(t) == state[t] # "none"

\* The state DEFAULT; GROWING and SHRINKING are never assigned in MVCC mode.
Active(t) == state[t] = "DEFAULT"

(***************************************************************************)
(* Look-ups.                                                               *)
(***************************************************************************)
get_transaction_by_timestamp(ts) ==
    IF \E t \in Txn : Begun(t) /\ start_ts[t] = ts
    THEN CHOOSE t \in Txn : Begun(t) /\ start_ts[t] = ts
    ELSE NoTxn

is_transaction_aborted(ts) == ts \in aborted_txns

GetWatermark == running_txns.watermark

IsCommitted(ts) ==
    LET t == get_transaction_by_timestamp(ts)
    IN  \/ ts = 0
        \/ /\ ~is_transaction_aborted(ts)
           /\ IF t # NoTxn THEN state[t] = "COMMITTED" ELSE ts < GetWatermark

IsCommittedBeforeReadTs(ts, read_ts) ==
    LET t == get_transaction_by_timestamp(ts)
    IN  \/ ts = 0
        \/ /\ ts < read_ts
           /\ ~is_transaction_aborted(ts)
           /\ \/ ts \in committed_txns
              \/ IF t # NoTxn THEN state[t] = "COMMITTED"
                              ELSE ts <= GetWatermark

-----------------------------------------------------------------------------
MgrInit ==
    /\ next_timestamp  = StartTs
    /\ timestamp_mutex = NoTxn
    /\ last_commit_ts  = 0
    /\ running_txns    = NewWatermark(0)
    /\ committed_txns  = {}
    /\ aborted_txns    = {}
    /\ state     = [t \in Txn |-> "none"]
    /\ txn_mode  = [t \in Txn |-> FALSE]
    /\ start_ts  = [t \in Txn |-> INVALID_TS]
    /\ commit_ts = [t \in Txn |-> INVALID_TS]
    /\ call      = [t \in Txn |-> "new"]
    /\ raise     = [t \in Txn |-> NoChange]

(***************************************************************************)
(* begin.  The critical section and the insertion into txn_map are one     *)
(* step: in between, nothing is stamped with the new timestamp yet.  The   *)
(* session decides on txn_mode before the first statement runs.            *)
(***************************************************************************)
\* The timestamp begin hands out.  The mutant hands the last commit's timestamp
\* out again, as begin_read_only_snapshot (which nothing reaches) does.
ReadTsReused == IF last_commit_ts > 0 THEN last_commit_ts ELSE next_timestamp

ReadTs == next_timestamp

\* timestamp_mutex_ can be taken.  The mutant does not ask.
MutexIgnored == TRUE

MutexFree == timestamp_mutex = NoTxn

begin(t, explicit) ==
    /\ call[t] = "new"
    /\ MutexFree
    /\ state'          = [state EXCEPT ![t] = "DEFAULT"]
    /\ txn_mode'       = [txn_mode EXCEPT ![t] = explicit]
    /\ start_ts'       = [start_ts EXCEPT ![t] = ReadTs]
    /\ next_timestamp' = next_timestamp + 1
    /\ running_txns'   = AddTxn(running_txns, ReadTs)
    /\ call'           = [call EXCEPT ![t] = "running"]
    /\ UNCHANGED <<timestamp_mutex, last_commit_ts, committed_txns,
                   aborted_txns, commit_ts, raise>>

(***************************************************************************)
(* commit.  It has no test of the state: an autocommit transaction whose   *)
(* statement was COMMIT or ABORT is committed (again) from "reply".        *)
(***************************************************************************)
CommitStamp(t) ==
    /\ MutexFree
    /\ \/ call[t] \in {"running", "reply"} /\ call' = [call EXCEPT ![t] = "commit"]
       \/ /\ call[t] = "running" /\ ~txn_mode[t]
          /\ call' = [call EXCEPT ![t] = "commit2"]
    /\ timestamp_mutex' = t
    /\ next_timestamp'  = next_timestamp + 1
    /\ commit_ts'       = [commit_ts EXCEPT ![t] = next_timestamp]
    /\ last_commit_ts'  = next_timestamp
    /\ LET wm == UpdateCommitTs(running_txns, next_timestamp)
       IN  /\ running_txns' = EraseRead(wm, start_ts[t])
           /\ raise' = [raise EXCEPT ![t] = RaiseTo(wm, start_ts[t])]
    /\ UNCHANGED <<committed_txns, aborted_txns, state, txn_mode, start_ts>>

\* The timestamp commit puts into committed_txns_.  The mutant is the error a
\* comment in commit says was repaired.
RecordedStartTs(t) == start_ts[t]

RecordedTs(t) == commit_ts[t]

CommitRecord(t) ==
    /\ \/ call[t] = "commit"  /\ call' = [call EXCEPT ![t] = "state"]
       \/ call[t] = "commit2" /\ call' = [call EXCEPT ![t] = "state2"]
    /\ running_txns'    = StoreWatermark(running_txns, raise[t])
    /\ raise'           = [raise EXCEPT ![t] = NoChange]
    /\ committed_txns'  = committed_txns \cup {RecordedTs(t)}
    /\ timestamp_mutex' = NoTxn
    /\ UNCHANGED <<next_timestamp, last_commit_ts, aborted_txns, state,
                   txn_mode, start_ts, commit_ts>>

CommitState(t) ==
    /\ \/ call[t] = "state"  /\ call' = [call EXCEPT ![t] = "done"]
       \/ call[t] = "state2" /\ call' = [call EXCEPT ![t] = "reply"]
    /\ state' = [state EXCEPT ![t] = "COMMITTED"]
    /\ UNCHANGED <<next_timestamp, timestamp_mutex, last_commit_ts,
                   running_txns, committed_txns, aborted_txns, txn_mode,
                   start_ts, commit_ts, raise>>

(***************************************************************************)
(* abort, for the statements ABORT and ROLLBACK or for a statement that    *)
(* threw TransactionAbortException.  Only the former is followed by the    *)
(* autocommit ("abort2").                                                  *)
(***************************************************************************)
AbortState(t) ==
    /\ call[t] = "running"
    /\ \/ call' = [call EXCEPT ![t] = "abort"]
       \/ ~txn_mode[t] /\ call' = [call EXCEPT ![t] = "abort2"]
    /\ state' = [state EXCEPT ![t] = "ABORTED"]
    /\ UNCHANGED <<next_timestamp, timestamp_mutex, last_commit_ts,
                   running_txns, committed_txns, aborted_txns, txn_mode,
                   start_ts, commit_ts, raise>>

AbortErase(t) ==
    /\ \/ call[t] = "abort"  /\ call' = [call EXCEPT ![t] = "record"]
       \/ call[t] = "abort2" /\ call' = [call EXCEPT ![t] = "record2"]
    /\ running_txns' = EraseRead(running_txns, start_ts[t])
    /\ raise' = [raise EXCEPT ![t] = RaiseTo(running_txns, start_ts[t])]
    /\ UNCHANGED <<next_timestamp, timestamp_mutex, last_commit_ts,
                   committed_txns, aborted_txns, state, txn_mode, start_ts,
                   commit_ts>>

AbortRecord(t) ==
    /\ \/ call[t] = "record"  /\ call' = [call EXCEPT ![t] = "done"]
       \/ call[t] = "record2" /\ call' = [call EXCEPT ![t] = "reply"]
    /\ running_txns' = StoreWatermark(running_txns, raise[t])
    /\ raise'        = [raise EXCEPT ![t] = NoChange]
    /\ aborted_txns' = aborted_txns \cup {start_ts[t]}
    /\ UNCHANGED <<next_timestamp, timestamp_mutex, last_commit_ts,
                   committed_txns, state, txn_mode, start_ts, commit_ts>>

MgrNext ==
    \E t \in Txn :
        \/ \E explicit \in BOOLEAN : begin(t, explicit)
        \/ CommitStamp(t) \/ CommitRecord(t) \/ CommitState(t)
        \/ AbortState(t) \/ AbortErase(t) \/ AbortRecord(t)

MgrSpec == MgrInit /\ [][MgrNext]_mgrVars

-----------------------------------------------------------------------------
(***************************************************************************)
(* Properties.                                                             *)
(***************************************************************************)
Timestamps == Nat \cup {INVALID_TS}

\* The type of every variable.
MgrTypeOK ==
    /\ next_timestamp \in Nat
    /\ timestamp_mutex \in Txn \cup {NoTxn}
    /\ last_commit_ts \in Nat
    /\ running_txns \in [commit_ts : Nat, watermark : Nat, current_reads : SUBSET Nat]
    /\ committed_txns \in SUBSET Nat
    /\ aborted_txns \in SUBSET Nat
    /\ state \in [Txn -> {"none", "DEFAULT", "COMMITTED", "ABORTED"}]
    /\ txn_mode \in [Txn -> BOOLEAN]
    /\ start_ts \in [Txn -> Timestamps]
    /\ commit_ts \in [Txn -> Timestamps]
    /\ call \in [Txn -> Calls]
    /\ raise \in [Txn -> Timestamps]

(***************************************************************************)
(* The visibility tests look one number up in a set of start timestamps,   *)
(* in a set of commit timestamps and among the start timestamps of the     *)
(* transaction table, whichever kind the number is.  That is sound only    *)
(* because begin and commit never hand a number out twice: no two          *)
(* transactions start together, and no transaction starts at a moment at   *)
(* which another one committed.                                            *)
(***************************************************************************)
TimestampsUnique ==
    \A t, u \in Txn :
        /\ Begun(t) /\ start_ts[t] = start_ts[u] => t = u
        /\ Begun(t) => start_ts[t] \notin committed_txns
        /\ Begun(t) => start_ts[t] # commit_ts[u]
        /\ commit_ts[t] # INVALID_TS /\ commit_ts[t] = commit_ts[u] => t = u
        /\ commit_ts[t] # INVALID_TS => start_ts[t] < commit_ts[t]

(***************************************************************************)
(* The watermark never passes the start timestamp of a transaction that is *)
(* still running, although abort updates it without the lock, with a value *)
(* computed before other transactions began, committed or aborted.         *)
(* IsCommitted and IsCommittedBeforeReadTs call a version committed when   *)
(* its timestamp is below the watermark and its transaction is gone.       *)
(***************************************************************************)
WatermarkSafe ==
    \A t \in Txn : call[t] = "running" => GetWatermark <= start_ts[t]

(***************************************************************************)
(* IsCommittedBeforeReadTs decides on a commit timestamp exactly as the    *)
(* order of the timestamps does: what committed before r began is visible  *)
(* to r, at once, and nothing else ever is.                                *)
(***************************************************************************)
SnapshotVerdict ==
    \A t, r \in Txn :
        commit_ts[t] # INVALID_TS /\ Begun(r) =>
            (IsCommittedBeforeReadTs(commit_ts[t], start_ts[r])
                <=> commit_ts[t] < start_ts[r])

\* The commits that r sees.
Snapshot(r) == {c \in committed_txns : IsCommittedBeforeReadTs(c, start_ts[r])}

(***************************************************************************)
(* While a transaction runs, the set of commits that it sees is fixed:     *)
(* neither a commit nor an abort, a double end of an autocommit            *)
(* transaction or a moving watermark adds to it or takes from it.          *)
(***************************************************************************)
SnapshotFixed ==
    [][\A r \in Txn : call[r] = "running" /\ call'[r] = "running" =>
            Snapshot(r)' = Snapshot(r)]_mgrVars
=============================================================================
