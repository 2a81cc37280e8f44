---------------------- MODULE TransactionManagerProofs ----------------------
(***************************************************************************)
(* Proofs that TransactionManager keeps its timestamps apart, that its     *)
(* watermark is a lower bound of the running transactions although abort   *)
(* updates it without the lock, and that what a transaction sees of the    *)
(* commits is fixed when it begins; for any number of transactions and any *)
(* initial timestamp.                                                      *)
(*                                                                         *)
(* None of the three is inductive.  MgrInv below adds what ties the places *)
(* where a timestamp is kept to each other and to the program counters.    *)
(***************************************************************************)
EXTENDS TransactionManager, WellFoundedInduction, TLAPS

\* Every timestamp that was handed out is below the counter.
Handed ==
    /\ \A t \in Txn : Begun(t) <=> call[t] # "new"
    /\ \A t \in Txn : IF Begun(t) THEN start_ts[t] \in Nat /\ start_ts[t] < next_timestamp
                                   ELSE start_ts[t] = INVALID_TS
    /\ \A t \in Txn : commit_ts[t] # INVALID_TS =>
           Begun(t) /\ start_ts[t] < commit_ts[t] /\ commit_ts[t] < next_timestamp
    /\ \A c \in committed_txns : 0 < c /\ c < next_timestamp

\* No timestamp was handed out twice.
Apart ==
    /\ \A t, u \in Txn : Begun(t) /\ Begun(u) /\ start_ts[t] = start_ts[u] => t = u
    /\ \A t, u \in Txn : Begun(t) => start_ts[t] # commit_ts[u]
    /\ \A t, u \in Txn :
           commit_ts[t] # INVALID_TS /\ commit_ts[t] = commit_ts[u] => t = u
    /\ \A t \in Txn : Begun(t) => start_ts[t] \notin committed_txns
    /\ \A ts \in aborted_txns : \E t \in Txn : Begun(t) /\ start_ts[t] = ts

\* The thread that holds timestamp_mutex_ is inside commit, with the latest
\* timestamp of all; every other commit timestamp is in committed_txns_.
Locked ==
    /\ \A t \in Txn : timestamp_mutex = t <=> call[t] \in {"commit", "commit2"}
    /\ \A t \in Txn : timestamp_mutex = t =>
           /\ commit_ts[t] # INVALID_TS
           /\ \A r \in Txn : start_ts[r] < commit_ts[t]
    /\ \A t \in Txn : commit_ts[t] # INVALID_TS /\ timestamp_mutex # t =>
           commit_ts[t] \in committed_txns

\* A running transaction is in current_reads_, whose members are above the
\* watermark and above every watermark that some RemoveTxn is about to store.
Bounded ==
    LET reads == running_txns.current_reads
    IN  /\ \A t \in Txn : call[t] = "running" => start_ts[t] \in reads
        /\ running_txns.commit_ts <= next_timestamp
        /\ running_txns.watermark <= next_timestamp
        /\ \A s \in reads : s < next_timestamp /\ running_txns.watermark <= s
        /\ \A t \in Txn : raise[t] <= next_timestamp
        /\ \A t \in Txn : \A s \in reads : raise[t] <= s

MgrInv == MgrTypeOK /\ Handed /\ Apart /\ Locked /\ Bounded

\* A non-empty set of natural numbers has the least element that RemoveTxn takes
\* from the front of current_reads_.
LEMMA LowestIsLeast ==
    ASSUME NEW S \in SUBSET Nat, S # {}
    PROVE  Lowest(S) \in S /\ \A n \in S : Lowest(S) <= n
<1>1. \A n, m \in Nat : n < m => <<n, m>> \in OpToRel(<, Nat)
  BY Zenon DEF OpToRel
<1>2. PICK m \in S : \A n \in S : ~(<<n, m>> \in OpToRel(<, Nat))
  <2>1. S \subseteq Nat /\ S # {}
    OBVIOUS
  <2> QED BY ONLY <2>1, NatLessThanWellFounded, WFMin, Zenon
<1>3. \A n \in S : ~(n < m)
  <2> SUFFICES ASSUME NEW n \in S PROVE ~(n < m)
    OBVIOUS
  <2>1. n \in Nat /\ m \in Nat
    OBVIOUS
  <2> QED BY <1>1, <1>2, <2>1, Zenon
<1>4. \A n \in S : m <= n
  BY <1>3
<1> QED BY <1>4 DEF Lowest

\* What RemoveTxn is about to store bounds the reads that are left.
LEMMA RaiseBounds ==
    ASSUME NEW wm \in [commit_ts : Nat, watermark : Nat, current_reads : SUBSET Nat],
           NEW ts \in Nat, NEW next \in Nat,
           wm.commit_ts <= next, \A s \in wm.current_reads : s < next
    PROVE  /\ RaiseTo(wm, ts) \in Timestamps
           /\ RaiseTo(wm, ts) <= next
           /\ \A s \in wm.current_reads \ {ts} : RaiseTo(wm, ts) <= s
<1> DEFINE rest == wm.current_reads \ {ts}
<1>0. rest \in SUBSET Nat /\ \A s \in rest : s < next /\ s \in Nat
  OBVIOUS
<1>1. CASE RaiseTo(wm, ts) = NoChange
  BY <1>1, <1>0 DEF NoChange, Timestamps, INVALID_TS
<1>2. CASE rest = {} /\ RaiseTo(wm, ts) = wm.commit_ts
  BY <1>2 DEF Timestamps
<1>3. CASE rest # {} /\ RaiseTo(wm, ts) = Lowest(rest)
  <2>1. Lowest(rest) \in rest /\ \A n \in rest : Lowest(rest) <= n
    BY <1>0, <1>3, LowestIsLeast
  <2> QED BY <2>1, <1>0, <1>3 DEF Timestamps
<1> QED BY <1>1, <1>2, <1>3 DEF RaiseTo

-----------------------------------------------------------------------------
\* The constructor of TransactionManager.
LEMMA InitInv == MgrInit => MgrInv
  BY StartTsAssumption, NoTxnAssumption DEF MgrInit, MgrInv, MgrTypeOK, Handed, Apart, Locked, Bounded,
     NewWatermark, Timestamps, Calls, INVALID_TS, NoChange, Begun

\* begin hands out the counter, which is above everything kept so far.
LEMMA BeginInv ==
    ASSUME MgrInv, NEW t \in Txn, NEW explicit \in BOOLEAN, begin(t, explicit)
    PROVE  MgrInv'
<1> USE DEF INVALID_TS, NoChange, Begun
<1>1. MgrTypeOK'
  <2>1. txn_mode' \in [Txn -> BOOLEAN]
    BY Zenon DEF MgrInv, MgrTypeOK, begin
  <2>2. running_txns' \in [commit_ts : Nat, watermark : Nat, current_reads : SUBSET Nat]
    BY DEF MgrInv, MgrTypeOK, begin, ReadTs, AddTxn
  <2> QED BY <2>1, <2>2 DEF MgrInv, MgrTypeOK, Timestamps, Calls, begin, ReadTs
<1>2. Handed'
  BY DEF MgrInv, MgrTypeOK, Handed, Locked, Timestamps, begin, ReadTs, MutexFree
<1>3. Apart'
  BY DEF MgrInv, MgrTypeOK, Handed, Apart, Locked, Timestamps, begin, ReadTs, MutexFree
<1>4. Locked'
  BY NoTxnAssumption
  DEF MgrInv, MgrTypeOK, Handed, Locked, Timestamps, begin, ReadTs, MutexFree
<1>5. Bounded'
  BY DEF MgrInv, MgrTypeOK, Handed, Bounded, Timestamps, begin, ReadTs, AddTxn
<1> QED BY <1>1, <1>2, <1>3, <1>4, <1>5 DEF MgrInv

\* commit takes the lock and a timestamp that is above every start timestamp.
LEMMA CommitStampInv ==
    ASSUME MgrInv, NEW t \in Txn, CommitStamp(t)
    PROVE  MgrInv'
<1> USE DEF INVALID_TS, NoChange, Begun
<1> DEFINE wm == UpdateCommitTs(running_txns, next_timestamp)
<1>a. wm \in [commit_ts : Nat, watermark : Nat, current_reads : SUBSET Nat]
  BY DEF MgrInv, MgrTypeOK, UpdateCommitTs
<1>b. /\ wm.commit_ts = next_timestamp /\ wm.current_reads = running_txns.current_reads
      /\ \A s \in wm.current_reads : s < next_timestamp + 1 /\ wm.watermark <= s
      /\ wm.watermark <= next_timestamp
  BY DEF MgrInv, MgrTypeOK, Bounded, UpdateCommitTs
<1>c. start_ts[t] \in Nat /\ next_timestamp \in Nat
  BY DEF MgrInv, MgrTypeOK, Handed, CommitStamp
<1>d. /\ RaiseTo(wm, start_ts[t]) \in Timestamps
      /\ RaiseTo(wm, start_ts[t]) <= next_timestamp + 1
      /\ \A s \in wm.current_reads \ {start_ts[t]} : RaiseTo(wm, start_ts[t]) <= s
  BY <1>a, <1>b, <1>c, RaiseBounds
<1>e. /\ running_txns' = EraseRead(wm, start_ts[t])
      /\ raise' = [raise EXCEPT ![t] = RaiseTo(wm, start_ts[t])]
  BY DEF CommitStamp
<1> HIDE DEF wm
<1>1. MgrTypeOK'
  <2>1. running_txns' \in [commit_ts : Nat, watermark : Nat, current_reads : SUBSET Nat]
    BY <1>a, <1>e DEF EraseRead
  <2>2. raise' \in [Txn -> Timestamps]
    BY <1>d, <1>e DEF MgrInv, MgrTypeOK
  <2>3. call' \in [Txn -> Calls]
    BY DEF MgrInv, MgrTypeOK, CommitStamp, Calls
  <2> QED BY <2>1, <2>2, <2>3, <1>c DEF MgrInv, MgrTypeOK, Timestamps, CommitStamp
<1>2. Handed'
  BY DEF MgrInv, MgrTypeOK, Handed, Locked, Timestamps, CommitStamp, MutexFree
<1>3. Apart'
  BY DEF MgrInv, MgrTypeOK, Handed, Apart, Locked, Timestamps, CommitStamp, MutexFree
<1>4. Locked'
  BY NoTxnAssumption
  DEF MgrInv, MgrTypeOK, Handed, Locked, Timestamps, CommitStamp, MutexFree
<1>5. Bounded'
  <2>1. /\ running_txns'.current_reads = wm.current_reads \ {start_ts[t]}
        /\ running_txns'.commit_ts = wm.commit_ts
        /\ running_txns'.watermark = wm.watermark
    BY <1>a, <1>e DEF EraseRead
  <2>2. next_timestamp' = next_timestamp + 1 /\ start_ts' = start_ts
    BY DEF CommitStamp
  <2>3. \A u \in Txn : call'[u] = "running" => u # t /\ call[u] = "running"
    BY DEF CommitStamp, MgrInv, MgrTypeOK
  <2>4. \A u \in Txn : call'[u] = "running" => start_ts[u] # start_ts[t]
    BY <2>3 DEF MgrInv, Handed, Apart, CommitStamp
  <2>5. \A u \in Txn : raise'[u] = IF u = t THEN RaiseTo(wm, start_ts[t]) ELSE raise[u]
    BY <1>e DEF MgrInv, MgrTypeOK
  <2>6. \A u \in Txn : call'[u] = "running" => start_ts'[u] \in running_txns'.current_reads
    BY <1>b, <2>1, <2>2, <2>3, <2>4 DEF MgrInv, Bounded
  <2>7. \A s \in running_txns'.current_reads :
            s < next_timestamp' /\ running_txns'.watermark <= s
    BY <1>b, <2>1, <2>2
  <2>8. \A u \in Txn : raise'[u] <= next_timestamp'
    BY <1>c, <1>d, <2>2, <2>5 DEF MgrInv, MgrTypeOK, Bounded, Timestamps
  <2>9. \A u \in Txn : \A s \in running_txns'.current_reads : raise'[u] <= s
    BY <1>b, <1>d, <2>1, <2>5 DEF MgrInv, Bounded
  <2>10. running_txns'.commit_ts <= next_timestamp' /\ running_txns'.watermark <= next_timestamp'
    BY <1>a, <1>b, <1>c, <2>1, <2>2
  <2> QED BY <2>6, <2>7, <2>8, <2>9, <2>10 DEF Bounded
<1> QED BY <1>1, <1>2, <1>3, <1>4, <1>5 DEF MgrInv

\* commit stores a watermark decided on earlier, and publishes its timestamp.
LEMMA CommitRecordInv ==
    ASSUME MgrInv, NEW t \in Txn, CommitRecord(t)
    PROVE  MgrInv'
<1> USE DEF INVALID_TS, NoChange, Begun
<1>1. MgrTypeOK'
  BY DEF MgrInv, MgrTypeOK, Handed, Locked, Timestamps, Calls, CommitRecord, StoreWatermark, RecordedTs
<1>2. Handed'
  BY DEF MgrInv, MgrTypeOK, Handed, Locked, Timestamps, CommitRecord, RecordedTs
<1>3. Apart'
  BY DEF MgrInv, MgrTypeOK, Handed, Apart, Locked, Timestamps, CommitRecord, RecordedTs
<1>4. Locked'
  BY NoTxnAssumption
  DEF MgrInv, MgrTypeOK, Handed, Locked, Timestamps, CommitRecord, RecordedTs
<1>5. Bounded'
  BY DEF MgrInv, MgrTypeOK, Handed, Bounded, Timestamps, CommitRecord, StoreWatermark
<1> QED BY <1>1, <1>2, <1>3, <1>4, <1>5 DEF MgrInv

\* The state COMMITTED is set after the lock is released.
LEMMA CommitStateInv ==
    ASSUME MgrInv, NEW t \in Txn, CommitState(t)
    PROVE  MgrInv'
<1> USE DEF INVALID_TS, NoChange, Begun
<1>1. MgrTypeOK'
  BY DEF MgrInv, MgrTypeOK, Handed, Locked, Timestamps, Calls, CommitState
<1>2. Handed'
  BY DEF MgrInv, MgrTypeOK, Handed, Locked, Timestamps, CommitState
<1>3. Apart'
  BY DEF MgrInv, MgrTypeOK, Handed, Apart, Locked, Timestamps, CommitState
<1>4. Locked'
  BY NoTxnAssumption
  DEF MgrInv, MgrTypeOK, Handed, Locked, Timestamps, CommitState
<1>5. Bounded'
  BY DEF MgrInv, MgrTypeOK, Handed, Bounded, Timestamps, CommitState
<1> QED BY <1>1, <1>2, <1>3, <1>4, <1>5 DEF MgrInv

\* abort starts with the state.
LEMMA AbortStateInv ==
    ASSUME MgrInv, NEW t \in Txn, AbortState(t)
    PROVE  MgrInv'
<1> USE DEF INVALID_TS, NoChange, Begun
<1>1. MgrTypeOK'
  BY DEF MgrInv, MgrTypeOK, Handed, Locked, Timestamps, Calls, AbortState
<1>2. Handed'
  BY DEF MgrInv, MgrTypeOK, Handed, Locked, Timestamps, AbortState
<1>3. Apart'
  BY DEF MgrInv, MgrTypeOK, Handed, Apart, Locked, Timestamps, AbortState
<1>4. Locked'
  BY NoTxnAssumption
  DEF MgrInv, MgrTypeOK, Handed, Locked, Timestamps, AbortState
<1>5. Bounded'
  BY DEF MgrInv, MgrTypeOK, Handed, Bounded, Timestamps, AbortState
<1> QED BY <1>1, <1>2, <1>3, <1>4, <1>5 DEF MgrInv

\* abort erases its timestamp without the lock ...
LEMMA AbortEraseInv ==
    ASSUME MgrInv, NEW t \in Txn, AbortErase(t)
    PROVE  MgrInv'
<1> USE DEF INVALID_TS, NoChange, Begun
<1>a. start_ts[t] \in Nat /\ next_timestamp \in Nat
      /\ running_txns \in [commit_ts : Nat, watermark : Nat, current_reads : SUBSET Nat]
  BY DEF MgrInv, MgrTypeOK, Handed, AbortErase
<1>b. /\ RaiseTo(running_txns, start_ts[t]) \in Timestamps
      /\ RaiseTo(running_txns, start_ts[t]) <= next_timestamp
      /\ \A s \in running_txns.current_reads \ {start_ts[t]} :
            RaiseTo(running_txns, start_ts[t]) <= s
  BY <1>a, RaiseBounds DEF MgrInv, Bounded
<1>1. MgrTypeOK'
  BY <1>a, <1>b DEF MgrInv, MgrTypeOK, Handed, Timestamps, Calls, AbortErase, EraseRead
<1>2. Handed'
  BY DEF MgrInv, MgrTypeOK, Handed, Locked, Timestamps, AbortErase
<1>3. Apart'
  BY DEF MgrInv, MgrTypeOK, Handed, Apart, Locked, Timestamps, AbortErase
<1>4. Locked'
  BY NoTxnAssumption
  DEF MgrInv, MgrTypeOK, Handed, Locked, Timestamps, AbortErase
<1>5. Bounded'
  BY <1>a, <1>b DEF MgrInv, MgrTypeOK, Handed, Apart, Bounded, Timestamps, AbortErase, EraseRead
<1> QED BY <1>1, <1>2, <1>3, <1>4, <1>5 DEF MgrInv

\* ... and stores a watermark that any number of transactions may have overtaken.
LEMMA AbortRecordInv ==
    ASSUME MgrInv, NEW t \in Txn, AbortRecord(t)
    PROVE  MgrInv'
<1> USE DEF INVALID_TS, NoChange, Begun
<1>1. MgrTypeOK'
  BY DEF MgrInv, MgrTypeOK, Handed, Locked, Timestamps, Calls, AbortRecord, StoreWatermark
<1>2. Handed'
  BY DEF MgrInv, MgrTypeOK, Handed, Locked, Timestamps, AbortRecord
<1>3. Apart'
  BY DEF MgrInv, MgrTypeOK, Handed, Apart, Locked, Timestamps, AbortRecord
<1>4. Locked'
  BY NoTxnAssumption
  DEF MgrInv, MgrTypeOK, Handed, Locked, Timestamps, AbortRecord
<1>5. Bounded'
  BY DEF MgrInv, MgrTypeOK, Handed, Bounded, Timestamps, AbortRecord, StoreWatermark
<1> QED BY <1>1, <1>2, <1>3, <1>4, <1>5 DEF MgrInv

-----------------------------------------------------------------------------
\* Every step keeps MgrInv.
LEMMA StepInv == MgrInv /\ [MgrNext]_mgrVars => MgrInv'
<1> SUFFICES ASSUME MgrInv, [MgrNext]_mgrVars PROVE MgrInv'
  OBVIOUS
<1>1. ASSUME NEW t \in Txn, NEW explicit \in BOOLEAN, begin(t, explicit) PROVE MgrInv'
  BY <1>1, BeginInv
<1>2. ASSUME NEW t \in Txn, CommitStamp(t) PROVE MgrInv'
  BY <1>2, CommitStampInv
<1>3. ASSUME NEW t \in Txn, CommitRecord(t) PROVE MgrInv'
  BY <1>3, CommitRecordInv
<1>4. ASSUME NEW t \in Txn, CommitState(t) PROVE MgrInv'
  BY <1>4, CommitStateInv
<1>5. ASSUME NEW t \in Txn, AbortState(t) PROVE MgrInv'
  BY <1>5, AbortStateInv
<1>6. ASSUME NEW t \in Txn, AbortErase(t) PROVE MgrInv'
  BY <1>6, AbortEraseInv
<1>7. ASSUME NEW t \in Txn, AbortRecord(t) PROVE MgrInv'
  BY <1>7, AbortRecordInv
<1>8. CASE UNCHANGED mgrVars
  BY <1>8 DEF mgrVars, MgrInv, MgrTypeOK, Handed, Apart, Locked, Bounded, Begun
<1> QED BY <1>1, <1>2, <1>3, <1>4, <1>5, <1>6, <1>7, <1>8 DEF MgrNext

\* MgrInv holds in every reachable state of the transaction manager.
THEOREM Invariant == MgrSpec => []MgrInv
  BY InitInv, StepInv, PTL DEF MgrSpec

\* The variables of the manager keep their types, whatever its threads do.
THEOREM TypeCorrect == MgrSpec => []MgrTypeOK
<1>1. MgrInv => MgrTypeOK
  BY DEF MgrInv
<1> QED BY Invariant, <1>1, PTL

\* begin and commit hand every timestamp out once, so that the look-ups of
\* IsCommitted and IsCommittedBeforeReadTs find at most one transaction.
THEOREM UniqueTimestamps == MgrSpec => []TimestampsUnique
<1>1. MgrInv => TimestampsUnique
  BY DEF MgrInv, Handed, Apart, MgrTypeOK, Timestamps, TimestampsUnique, INVALID_TS
<1> QED BY Invariant, <1>1, PTL

\* The watermark stays at or below every running transaction, in spite of the
\* stores that abort makes without the lock.
THEOREM WatermarkIsSafe == MgrSpec => []WatermarkSafe
<1>1. MgrInv => WatermarkSafe
  BY DEF MgrInv, Bounded, WatermarkSafe, GetWatermark
<1> QED BY Invariant, <1>1, PTL

\* IsCommittedBeforeReadTs answers for a published commit timestamp, and for any
\* commit timestamp, as the order of the timestamps does.
LEMMA Verdict ==
    ASSUME MgrInv, NEW r \in Txn, Begun(r)
    PROVE  /\ \A c \in committed_txns :
                 IsCommittedBeforeReadTs(c, start_ts[r]) <=> c < start_ts[r]
           /\ \A t \in Txn : commit_ts[t] # INVALID_TS =>
                 (IsCommittedBeforeReadTs(commit_ts[t], start_ts[r])
                     <=> commit_ts[t] < start_ts[r])
<1>1. ASSUME NEW c \in committed_txns
      PROVE  IsCommittedBeforeReadTs(c, start_ts[r]) <=> c < start_ts[r]
  <2>1. c # 0 /\ c \notin aborted_txns
    BY <1>1 DEF MgrInv, Handed, Apart
  <2> QED BY <1>1, <2>1 DEF IsCommittedBeforeReadTs, is_transaction_aborted
<1>2. ASSUME NEW t \in Txn, commit_ts[t] # INVALID_TS, commit_ts[t] \notin committed_txns
      PROVE  /\ ~(commit_ts[t] < start_ts[r])
             /\ ~IsCommittedBeforeReadTs(commit_ts[t], start_ts[r])
  <2>1. timestamp_mutex = t
    BY <1>2 DEF MgrInv, Locked
  <2>2. start_ts[r] < commit_ts[t] /\ 0 < commit_ts[t]
    BY <1>2, <2>1 DEF MgrInv, Locked, Handed, MgrTypeOK, Timestamps, INVALID_TS
  <2>3. start_ts[r] \in Int /\ commit_ts[t] \in Int
    BY DEF MgrInv, MgrTypeOK, Timestamps, INVALID_TS
  <2>4. ~(commit_ts[t] < start_ts[r]) /\ commit_ts[t] # 0
    BY <2>2, <2>3
  <2> QED BY <2>4 DEF IsCommittedBeforeReadTs
<1> QED BY <1>1, <1>2

PublishedVerdict ==
    \A r \in Txn : Begun(r) => \A c \in committed_txns :
        IsCommittedBeforeReadTs(c, start_ts[r]) <=> c < start_ts[r]

\* The first half of Verdict, in the form that can be primed.
LEMMA Published == MgrInv => PublishedVerdict
  BY Verdict DEF PublishedVerdict

\* What committed before a transaction began is visible to it, and nothing else,
\* at every moment and for every number of transactions.
THEOREM VerdictIsSnapshot == MgrSpec => []SnapshotVerdict
<1>1. MgrInv => SnapshotVerdict
  BY Verdict DEF SnapshotVerdict
<1> QED BY Invariant, <1>1, PTL

\* The set of commits that a running transaction sees never changes.
THEOREM SnapshotIsFixed == MgrSpec => SnapshotFixed
<1> DEFINE Fixed == \A r \in Txn : call[r] = "running" /\ call'[r] = "running" =>
                        Snapshot(r)' = Snapshot(r)
<1>1. ASSUME MgrInv, MgrInv', [MgrNext]_mgrVars PROVE Fixed
  <2> SUFFICES ASSUME NEW r \in Txn, call[r] = "running", call'[r] = "running"
               PROVE  Snapshot(r)' = Snapshot(r)
    OBVIOUS
  <2>1. Begun(r) /\ Begun(r)'
    BY <1>1 DEF MgrInv, Handed
  <2>2. Snapshot(r) = {c \in committed_txns : c < start_ts[r]}
    BY <1>1, <2>1, Verdict DEF Snapshot
  <2>3. Snapshot(r)' = {c \in committed_txns' : c < start_ts'[r]}
    <3>1. PublishedVerdict'
      BY <1>1, Published, PTL
    <3> QED BY <2>1, <3>1 DEF PublishedVerdict, Snapshot
  <2>4. start_ts'[r] = start_ts[r]
    BY <1>1 DEF MgrNext, mgrVars, MgrInv, MgrTypeOK, begin, CommitStamp, CommitRecord,
                CommitState, AbortState, AbortErase, AbortRecord
  <2>5. \/ committed_txns' = committed_txns
        \/ \E t \in Txn : /\ timestamp_mutex = t
                          /\ committed_txns' = committed_txns \cup {commit_ts[t]}
    BY <1>1 DEF MgrNext, mgrVars, MgrInv, Locked, begin, CommitStamp, CommitRecord,
                CommitState, AbortState, AbortErase, AbortRecord, RecordedTs
  <2>6. \A t \in Txn : timestamp_mutex = t => ~(commit_ts[t] < start_ts[r])
    BY <1>1 DEF MgrInv, Locked, MgrTypeOK, Timestamps, INVALID_TS
  <2> QED BY <2>2, <2>3, <2>4, <2>5, <2>6
<1> QED BY Invariant, <1>1, PTL DEF MgrSpec, SnapshotFixed
=============================================================================
