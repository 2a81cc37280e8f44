--------------------------- MODULE SnapshotProofs ---------------------------
(***************************************************************************)
(* Proof that reads keep to their snapshot (SnapshotRows of Mvcc) when no  *)
(* two calls of two sessions overlap, for any finite set of transactions   *)
(* and any number of slots and statements.                                 *)
(*                                                                         *)
(* Two hypotheses on the constants are needed, because the code fails      *)
(* without them: rows have no columns after the first two (Wide is FALSE:  *)
(* ReconstructTupleFromUndoLog fills the others with zeroes), and there is *)
(* one table (version_info_ is keyed by the slot alone).                   *)
(*                                                                         *)
(* SnapInv adds to SerialInv what a record shows to a reader that begins   *)
(* at a timestamp.  It says so of the record in the heap and of every      *)
(* record that abort may put back there; and of all readers, the ones that *)
(* run and the ones that are still to begin.  Instead of the value of the  *)
(* walk along a chain it speaks of a set of undo logs that the walk does   *)
(* not leave (Trail), so that no recursion is needed until the end.        *)
(***************************************************************************)
EXTENDS MvccProofs

OneTable == \A a, b \in Table : a = b

\* A timestamp that stands for a transaction, or for initial data.
Known(ts) ==
    \/ ts = 0
    \/ \E u \in Txn : /\ Begun(u)
                      /\ ts = start_ts[u] \/ (commit_ts[u] # INVALID_TS /\ ts = commit_ts[u])

\* A reader that began at s sees what carries the timestamp ts, unless it is its own.
Sees(s, ts) ==
    \/ ts = 0
    \/ ts < s /\ \E u \in Txn : /\ Begun(u) /\ commit_ts[u] # INVALID_TS
                                /\ ts = start_ts[u] \/ ts = commit_ts[u]

\* The versions of the row that committed before s, the last of them, and what a
\* reader that began at s may be given.
Earlier(s, rid) == {i \in DOMAIN committed[rid] : committed[rid][i].ts < s}

LastBefore(s, rid) ==
    IF Earlier(s, rid) = {} THEN NoRow
    ELSE committed[rid][CHOOSE i \in Earlier(s, rid) : \A j \in Earlier(s, rid) : j <= i].val

Meanwhile(s, rid, row) ==
    \E i \in DOMAIN committed[rid] :
        /\ committed[rid][i].insert
        /\ committed[rid][i].start < s /\ s < committed[rid][i].ts
        /\ row \in {committed[rid][j].val : j \in DOMAIN committed[rid]}

Right(s, rid, row) ==
    row = LastBefore(s, rid) \/ (LastBefore(s, rid) = NoRow /\ Meanwhile(s, rid, row))

\* The row that a record of the heap holds, and that an undo log holds.
RowOf(rec) == IF rec.is_deleted THEN NoRow ELSE rec.val
LogRow(log) == IF log.is_deleted THEN NoRow ELSE ReconstructTupleFromUndoLog(log)

\* Only what t has written carries the start timestamp of t while t runs.
OwnOnly(rid, ts) ==
    \A r \in Txn : call[r] = "running" /\ ts = start_ts[r] => rid \in DOMAIN mine[r]

\* Who may read the row and has not written it: now, or later.
Reader(s, rid) ==
    \/ s >= next_timestamp
    \/ \E r \in Txn : call[r] = "running" /\ s = start_ts[r] /\ rid \notin DOMAIN mine[r]

LogAt(link) == undo_logs[link[1]][link[2]]

(***************************************************************************)
(* A set of undo logs that the walk of a reader does not leave before it   *)
(* finds one that it sees.                                                 *)
(***************************************************************************)
OnTrail(s, rid, D, link) ==
    /\ link # NoLink /\ Exists(link)
    /\ OwnOnly(rid, LogAt(link).ts)
    /\ IF Sees(s, LogAt(link).ts) THEN Right(s, rid, LogRow(LogAt(link)))
       ELSE LogAt(link).prev \in D

Trail(s, rid, D) ==
    version_info[rid[2]] \in D /\ \A link \in D : OnTrail(s, rid, D, link)

HasTrail(s, rid) == \E D \in SUBSET Links : Trail(s, rid, D)

\* What the reader is shown when the heap holds the record.
Shows(s, rid, rec) ==
    IF Sees(s, rec.ts) THEN Right(s, rid, RowOf(rec)) ELSE HasTrail(s, rid)

Sound(rid, rec) ==
    /\ rec.val.tail = Zero
    /\ Known(rec.ts)
    /\ OwnOnly(rid, rec.ts)
    /\ \A s \in Nat : Reader(s, rid) => Shows(s, rid, rec)

\* No write of the row waits for its version link.
Settled(rid) ==
    heap[rid].used /\ \A t \in Txn : job[t].at \in {"insertlink", "link"} => job[t].rid # rid

HeapSound ==
    \A rid \in Rid : heap[rid].val.tail = Zero /\ (Settled(rid) => Sound(rid, heap[rid]))

\* The records that abort puts back.
RawSound ==
    \A t \in Txn : Uncommitted(t) =>
        /\ \A i \in DOMAIN write_set[t] : Sound(write_set[t][i].rid, write_set[t][i].raw)
        /\ job[t].at = "link" => Sound(job[t].rid, job[t].raw)

\* A timestamp in an undo log; commit replaces the start timestamp of its
\* transaction everywhere.
LogsOwn ==
    \A t \in Txn : \A i \in DOMAIN undo_logs[t] :
        /\ Known(undo_logs[t][i].ts)
        /\ \A u \in Txn : call[u] = "running" /\ undo_logs[t][i].ts = start_ts[u] => u = t

\* What a running transaction has written is in the heap.
OwnRows ==
    \A t \in Txn : call[t] = "running" =>
        \A rid \in DOMAIN mine[t] : mine[t][rid] = RowOf(heap[rid])

\* The reader sees the record in the heap.
InView(t, rid) == heap[rid].ts = start_ts[t] \/ Sees(start_ts[t], heap[rid].ts)

\* CheckWriteWriteConflict was passed; the visible record was read; the undo log is
\* that of the record it replaces.
Current(t, rid) == InView(t, rid) \/ committed[rid] = <<>>

Fetched(t, rid, old) ==
    /\ old # NoRow
    /\ IF InView(t, rid) THEN ~heap[rid].is_deleted /\ old = heap[rid].val
       ELSE Right(start_ts[t], rid, old)

Matches(log, raw, slot) ==
    log.ts = raw.ts /\ LogRow(log) = RowOf(raw) /\ log.prev = version_info[slot]

StmtFacts(t) ==
    /\ job[t].at = "insertlink" =>
           job[t].rid \in DOMAIN mine[t] /\ job[t].rid \notin Written(t)
    /\ job[t].at = "read" /\ job[t].op = "update" => Current(t, job[t].rid)
    /\ job[t].at = "check" /\ job[t].op # "update" => Fetched(t, job[t].rid, job[t].old)
    /\ job[t].at = "raw" =>
           ~heap[job[t].rid].is_deleted /\ job[t].old = heap[job[t].rid].val
    /\ job[t].at = "write" => job[t].raw = heap[job[t].rid]
    /\ job[t].at \in {"write", "link"} =>
           Matches(undo_logs[t][Len(undo_logs[t])], job[t].raw, job[t].rid[2])

StmtSound == \A t \in Txn : StmtFacts(t)

\* What the system keeps when calls do not overlap.
SnapInv == SerialInv /\ HeapSound /\ RawSound /\ LogsOwn /\ OwnRows /\ StmtSound

-----------------------------------------------------------------------------
(***************************************************************************)
(* What is sound stays so when a step leaves alone what it depends on.     *)
(***************************************************************************)
LogsKept == \A link : Exists(link) => Exists(link)' /\ LogAt(link)' = LogAt(link)

Keeps(rid) ==
    /\ \A s, ts : Sees(s, ts)' <=> Sees(s, ts)
    /\ \A ts : Known(ts) => Known(ts)'
    /\ \A ts : Known(ts) /\ OwnOnly(rid, ts) => OwnOnly(rid, ts)'
    /\ \A s \in Nat : Reader(s, rid)' => Reader(s, rid)
    /\ committed'[rid] = committed[rid]
    /\ version_info'[rid[2]] = version_info[rid[2]]
    /\ LogsKept

LEMMA RightKept ==
    ASSUME NEW rid \in Rid, committed'[rid] = committed[rid], NEW s, NEW row
    PROVE  Right(s, rid, row)' <=> Right(s, rid, row)
<1>1. Earlier(s, rid)' = Earlier(s, rid)
  BY DEF Earlier
<1>2. LastBefore(s, rid)' = LastBefore(s, rid)
  BY <1>1 DEF LastBefore
<1>3. Meanwhile(s, rid, row)' <=> Meanwhile(s, rid, row)
  BY DEF Meanwhile
<1> QED BY <1>2, <1>3 DEF Right

\* The timestamp of a log.
LEMMA LogKnown ==
    ASSUME LogsOwn, NEW link, Exists(link)
    PROVE  Known(LogAt(link).ts)
  BY DEF LogsOwn, Exists, LogAt

LEMMA TrailKept ==
    ASSUME LogsOwn, NEW rid \in Rid, Keeps(rid), NEW s, HasTrail(s, rid)
    PROVE  HasTrail(s, rid)'
<1>1. PICK D \in SUBSET Links : Trail(s, rid, D)
  BY DEF HasTrail
<1>2. ASSUME NEW link \in D PROVE OnTrail(s, rid, D, link)'
  <2>1. OnTrail(s, rid, D, link)
    BY <1>1 DEF Trail
  <2>2. Exists(link)' /\ LogAt(link)' = LogAt(link) /\ Known(LogAt(link).ts)
    BY <2>1, LogKnown DEF OnTrail, Keeps, LogsKept
  <2>3. PICK log : log = LogAt(link)
    OBVIOUS
  <2>4. log = LogAt(link)'
    BY <2>2, <2>3
  <2>5. OwnOnly(rid, log.ts)'
    BY <2>1, <2>2, <2>3 DEF OnTrail, Keeps
  <2>6. Sees(s, log.ts)' <=> Sees(s, log.ts)
    BY DEF Keeps
  <2>7. Right(s, rid, LogRow(log))' <=> Right(s, rid, LogRow(log))
    BY RightKept DEF Keeps
  <2>8. IF Sees(s, log.ts)' THEN Right(s, rid, LogRow(log))' ELSE log.prev \in D
    BY <2>1, <2>3, <2>6, <2>7 DEF OnTrail
  <2> QED BY <2>1, <2>2, <2>4, <2>5, <2>8 DEF OnTrail
<1>3. version_info'[rid[2]] \in D
  BY <1>1 DEF Trail, Keeps
<1> QED BY <1>2, <1>3 DEF HasTrail, Trail

LEMMA SoundKept ==
    ASSUME LogsOwn, NEW rid \in Rid, Keeps(rid), NEW rec, Sound(rid, rec)
    PROVE  Sound(rid, rec)'
<1>1. Known(rec.ts)' /\ OwnOnly(rid, rec.ts)'
  BY DEF Sound, Keeps
<1>2. ASSUME NEW s \in Nat, Reader(s, rid)' PROVE Shows(s, rid, rec)'
  <2>1. Shows(s, rid, rec)
    BY <1>2 DEF Sound, Keeps
  <2>2. Sees(s, rec.ts)' <=> Sees(s, rec.ts)
    BY DEF Keeps
  <2>3. Right(s, rid, RowOf(rec))' <=> Right(s, rid, RowOf(rec))
    BY RightKept DEF Keeps
  <2> QED BY <2>1, <2>2, <2>3, TrailKept DEF Shows
<1> QED BY <1>1, <1>2 DEF Sound

\* A step inside a statement.
LEMMA StatementKeeps ==
    ASSUME UNCHANGED <<mgrVars, committed>>, NEW rid \in Rid, LogsKept,
           \A u \in Txn : DOMAIN mine[u] \subseteq DOMAIN mine'[u],
           version_info'[rid[2]] = version_info[rid[2]]
    PROVE  Keeps(rid)
<1>1. \A s, ts : Sees(s, ts)' <=> Sees(s, ts)
  BY DEF Sees, Begun, mgrVars
<1>2. \A ts : Known(ts) => Known(ts)'
  BY DEF Known, Begun, mgrVars
<1>3. \A ts : OwnOnly(rid, ts) => OwnOnly(rid, ts)'
  BY DEF OwnOnly, mgrVars
<1>4. \A s \in Nat : Reader(s, rid)' => Reader(s, rid)
  BY DEF Reader, mgrVars
<1> QED BY <1>1, <1>2, <1>3, <1>4 DEF Keeps

\* Nothing is to be said of a session that is not inside a statement.
LEMMA IdleFacts ==
    ASSUME NEW t \in Txn, job'[t].at \in {"idle", "throw", "invisible", "insert"}
    PROVE  StmtFacts(t)'
  BY DEF StmtFacts

LEMMA OthersFacts ==
    ASSUME NEW t \in Txn, OthersQuiet(t), \A u \in Txn \ {t} : job'[u] = job[u]
    PROVE  \A u \in Txn \ {t} : StmtFacts(u)'
<1> SUFFICES ASSUME NEW u \in Txn \ {t} PROVE StmtFacts(u)'
  OBVIOUS
<1>1. job'[u].at = "idle"
  BY DEF OthersQuiet, Quiet
<1> QED BY <1>1, IdleFacts

\* A record that abort may put back.
LEMMA RawTyped ==
    ASSUME SnapInv, NEW u \in Txn, NEW i \in DOMAIN write_set[u], NEW w, w = write_set[u][i]
    PROVE  w.rid \in Rid /\ w.raw \in Cells /\ w.rid \in Written(u)
<1>1. write_set[u] \in Seq(WriteRecords)
  BY DEF SnapInv, SerialInv, ChainInv, RowTypes
<1>2. write_set[u][i] \in WriteRecords
  BY <1>1
<1>3. w.rid \in Written(u)
  BY DEF Written
<1> QED BY <1>2, <1>3 DEF WriteRecords

LEMMA RawKept ==
    ASSUME SnapInv, NEW u \in Txn, Uncommitted(u), NEW i \in DOMAIN write_set[u],
           \A rid \in Rid : Keeps(rid), NEW w, w = write_set[u][i]
    PROVE  Sound(w.rid, w.raw)'
<1>1. w.rid \in Rid
  BY RawTyped
<1>2. Sound(w.rid, w.raw)
  BY DEF SnapInv, RawSound
<1> QED BY <1>1, <1>2, SoundKept DEF SnapInv

(***************************************************************************)
(* A step that takes t to another place in its statement, and may append   *)
(* an undo log that is not linked yet.                                     *)
(***************************************************************************)
LEMMA PlaceSnap ==
    ASSUME SnapInv, SerialInv', NEW t \in Txn, OthersQuiet(t),
           UNCHANGED <<mgrVars, heap, version_info, write_set, mine, committed>>,
           \A u \in Txn \ {t} : job'[u] = job[u],
           job[t].at \notin {"insertlink", "link"}, job'[t].at \notin {"insertlink", "link"},
           LogsKept, LogsOwn', StmtFacts(t)'
    PROVE  SnapInv'
<1>1. \A rid \in Rid : Keeps(rid)
  BY StatementKeeps
<1>2. \A rid \in Rid : Settled(rid)' => Settled(rid)
  BY DEF Settled
<1>3. HeapSound'
  <2> SUFFICES ASSUME NEW rid \in Rid
               PROVE  heap[rid].val.tail = Zero /\ (Settled(rid)' => Sound(rid, heap[rid])')
    BY DEF HeapSound
  <2>1. PICK c : c = heap[rid]
    OBVIOUS
  <2>2. c = heap'[rid]
    BY <2>1
  <2>3. Settled(rid)' => Sound(rid, c)'
    BY <1>1, <1>2, <2>1, SoundKept DEF SnapInv, HeapSound
  <2>4. heap[rid].val.tail = Zero
    BY DEF SnapInv, HeapSound
  <2> QED BY <2>2, <2>3, <2>4
<1>4. RawSound'
  <2> SUFFICES ASSUME NEW u \in Txn, Uncommitted(u)'
               PROVE  /\ \A i \in DOMAIN write_set'[u] : Sound(write_set[u][i].rid, write_set[u][i].raw)'
                      /\ job'[u].at # "link"
    BY DEF RawSound
  <2>1. Uncommitted(u)
    BY DEF Uncommitted, Begun, mgrVars
  <2>2. job'[u].at # "link"
    BY DEF OthersQuiet, Quiet
  <2>3. ASSUME NEW i \in DOMAIN write_set[u] PROVE Sound(write_set[u][i].rid, write_set[u][i].raw)'
    <3>1. PICK w : w = write_set[u][i]
      OBVIOUS
    <3>4. Sound(w.rid, w.raw)'
      BY <1>1, <2>1, <3>1, RawKept
    <3>5. w = write_set'[u][i]
      BY <3>1
    <3> QED BY <3>4, <3>5
  <2> QED BY <2>2, <2>3
<1>5. OwnRows'
  BY DEF SnapInv, OwnRows, mgrVars, RowOf
<1>6. StmtSound'
  BY OthersFacts DEF StmtSound
<1> QED BY <1>3, <1>4, <1>5, <1>6 DEF SnapInv

-----------------------------------------------------------------------------
(***************************************************************************)
(* What a read returns.  The visibility tests of the code agree with Sees  *)
(* on the timestamps there are, once the other sessions are quiet.         *)
(***************************************************************************)
LEMMA RunningFacts ==
    ASSUME SerialInv, NEW t \in Txn, call[t] = "running"
    PROVE  /\ MgrInv /\ Begun(t) /\ Uncommitted(t) /\ start_ts[t] \in Nat
           /\ start_ts[t] > 1 /\ start_ts[t] < next_timestamp /\ next_timestamp \in Nat
  BY RunningTs DEF SerialInv, ChainInv, Phases, MgrInv, MgrTypeOK

\* What nobody has committed is seen by nobody.
LEMMA RunningUnseen ==
    ASSUME SerialInv, NEW t \in Txn, call[t] = "running", NEW s
    PROVE  ~Sees(s, start_ts[t])
<1>1. /\ Begun(t) /\ commit_ts[t] = INVALID_TS /\ start_ts[t] # 0
      /\ \A u \in Txn : Begun(u) /\ start_ts[t] = start_ts[u] => u = t
      /\ \A u \in Txn : start_ts[t] # commit_ts[u]
  BY RunningFacts DEF Uncommitted, MgrInv, Apart
<1> QED BY <1>1 DEF Sees

LEMMA VerdictSees ==
    ASSUME SerialInv, NEW t \in Txn, OthersQuiet(t), call[t] = "running",
           NEW ts, Known(ts), ts # start_ts[t]
    PROVE  IsCommittedBeforeReadTs(ts, start_ts[t]) <=> Sees(start_ts[t], ts)
<1>1. MgrInv /\ Begun(t)
  BY RunningFacts
<1>2. CASE ts = 0
  BY <1>2 DEF IsCommittedBeforeReadTs, Sees
<1>3. ASSUME NEW u \in Txn, Begun(u), commit_ts[u] # INVALID_TS, ts = commit_ts[u]
      PROVE  IsCommittedBeforeReadTs(ts, start_ts[t]) <=> Sees(start_ts[t], ts)
  <2>1. IsCommittedBeforeReadTs(ts, start_ts[t]) <=> ts < start_ts[t]
    BY <1>1, <1>3, Verdict
  <2>2. ts # 0
    BY <1>1, <1>3 DEF MgrInv, MgrTypeOK, Timestamps, Handed, INVALID_TS
  <2> QED BY <1>3, <2>1, <2>2 DEF Sees
<1>4. ASSUME NEW u \in Txn, Begun(u), ts = start_ts[u], ts # 0
      PROVE  IsCommittedBeforeReadTs(ts, start_ts[t]) <=> Sees(start_ts[t], ts)
  <2>1. Quiet(u) /\ u # t
    BY <1>4 DEF OthersQuiet
  <2>2. get_transaction_by_timestamp(ts) = u /\ u # NoTxn
    BY <1>1, <1>4, OwnerIs, NoTxnAssumption
  <2>3. ts \notin committed_txns
    BY <1>1, <1>4 DEF MgrInv, Apart
  <2>4. \A v \in Txn : /\ Begun(v) /\ ts = start_ts[v] => v = u
                       /\ ts # commit_ts[v]
    BY <1>1, <1>4 DEF MgrInv, Apart
  <2>5. state[u] = "COMMITTED" <=> commit_ts[u] # INVALID_TS
    <3>1. call[u] \in {"running", "done"}
      BY <1>1, <1>4, <2>1 DEF Quiet, MgrInv, Handed
    <3> QED BY <1>4, <3>1 DEF SerialInv, Phases, Uncommitted
  <2>6. state[u] = "COMMITTED" => ts \notin aborted_txns
    BY <1>4 DEF SerialInv, Phases
  <2>7. Sees(start_ts[t], ts) <=> ts < start_ts[t] /\ commit_ts[u] # INVALID_TS
    BY <1>4, <2>4 DEF Sees
  <2>8. IsCommittedBeforeReadTs(ts, start_ts[t]) <=>
            ts < start_ts[t] /\ ts \notin aborted_txns /\ state[u] = "COMMITTED"
    BY <1>4, <2>2, <2>3 DEF IsCommittedBeforeReadTs, is_transaction_aborted
  <2> QED BY <2>5, <2>6, <2>7, <2>8
<1> QED BY <1>2, <1>3, <1>4 DEF Known

\* A walk along a trail ends at a log that it sees.
LEMMA WalkRight ==
    ASSUME SnapInv, NEW t \in Txn, OthersQuiet(t), call[t] = "running", NEW rid \in Rid,
           rid \notin DOMAIN mine[t], HasTrail(start_ts[t], rid)
    PROVE  Right(start_ts[t], rid, GetVisibleVersionFromHistory(t, rid))
<1> DEFINE Walk == CHOOSE f : f = [link \in Links |-> Visit(t, rid, f, link)]
<1>0. SerialInv /\ RowTypes /\ ChainsStop /\ LogsOwn
  BY DEF SnapInv, SerialInv, ChainInv
<1>1. Walk = [link \in Links |-> Visit(t, rid, Walk, link)]
  BY <1>0, WalkDefined
<1>2. GetVisibleVersionFromHistory(t, rid) = Walk[GetVersionLink(rid)]
  BY Zenon DEF GetVisibleVersionFromHistory, Visit
<1> HIDE DEF Walk
<1>3. PICK D \in SUBSET Links : Trail(start_ts[t], rid, D)
  BY DEF HasTrail
<1> DEFINE Bad == {link \in D : ~Right(start_ts[t], rid, Walk[link])}
<1>4. ASSUME NEW link \in D
      PROVE  /\ GetUndoLogOptional(link) = LogAt(link)
             /\ GetUndoLogOptional(link) # NoLog
             /\ VisibleLog(t, LogAt(link)) <=> Sees(start_ts[t], LogAt(link).ts)
  <2>1. link # NoLink /\ Exists(link) /\ OwnOnly(rid, LogAt(link).ts)
    BY <1>3 DEF Trail, OnTrail
  <2>2. GetUndoLogOptional(link) = LogAt(link)
    BY <2>1 DEF GetUndoLogOptional, Exists, LogAt
  <2>3. Known(LogAt(link).ts)
    BY <1>0, <2>1, LogKnown
  <2>4. LogAt(link).ts # start_ts[t]
    BY <2>1 DEF OwnOnly
  <2>5. IsCommittedBeforeReadTs(LogAt(link).ts, start_ts[t]) <=> Sees(start_ts[t], LogAt(link).ts)
    BY <1>0, <2>3, <2>4, VerdictSees
  <2>6. Sees(start_ts[t], LogAt(link).ts) => LogAt(link).ts = 0 \/ LogAt(link).ts < start_ts[t]
    BY DEF Sees
  <2>7. LogAt(link).ts = 0 => Sees(start_ts[t], LogAt(link).ts)
    BY DEF Sees
  <2>8. GetUndoLogOptional(link) # NoLog
    <3>1. LogAt(link) \in LogRecords
      <4>1. undo_logs[link[1]] \in Seq(LogRecords)
        BY <1>0, <2>1 DEF RowTypes, Exists
      <4> QED BY <2>1, <4>1 DEF Exists, LogAt
    <3>2. LogAt(link).ts \in Nat
      BY <3>1 DEF LogRecords
    <3> QED BY <2>2, <3>2 DEF NoLog
  <2> QED BY <2>2, <2>4, <2>5, <2>6, <2>7, <2>8 DEF VisibleLog
<1>5. ASSUME NEW link \in Bad
      PROVE  Further(t, link) /\ GetUndoLogOptional(link).prev \in Bad
  <2>1. Walk[link] = Visit(t, rid, Walk, link)
    BY <1>1
  <2>2. /\ GetUndoLogOptional(link) = LogAt(link) /\ GetUndoLogOptional(link) # NoLog
        /\ VisibleLog(t, LogAt(link)) <=> Sees(start_ts[t], LogAt(link).ts)
    BY <1>4
  <2>3. OnTrail(start_ts[t], rid, D, link)
    BY <1>3 DEF Trail
  <2>4. CASE VisibleLog(t, LogAt(link))
    <3>1. Visit(t, rid, Walk, link) = LogRow(LogAt(link))
      BY <2>2, <2>4, Zenon DEF Visit, LogRow
    <3>2. Right(start_ts[t], rid, LogRow(LogAt(link)))
      BY <2>2, <2>3, <2>4 DEF OnTrail
    <3> QED BY <2>1, <3>1, <3>2
  <2>5. CASE ~VisibleLog(t, LogAt(link))
    <3>1. Visit(t, rid, Walk, link) = Walk[LogAt(link).prev]
      BY <2>2, <2>5, Zenon DEF Visit
    <3>2. LogAt(link).prev \in D
      BY <2>2, <2>3, <2>5 DEF OnTrail
    <3>3. Further(t, link)
      BY <2>2, <2>5 DEF Further
    <3> QED BY <2>1, <2>2, <3>1, <3>2, <3>3
  <2> QED BY <2>4, <2>5
<1>6. Bad = {}
  <2> SUFFICES ASSUME Bad # {} PROVE FALSE
    OBVIOUS
  <2>1. Bad \in SUBSET Links /\ \A link \in Bad : Further(t, link)
    BY <1>5
  <2>2. PICK link \in Bad : GetUndoLogOptional(link).prev \notin Bad
    BY <1>0, <2>1, WalkLeaves
  <2> QED BY <1>5, <2>2
<1>7. GetVersionLink(rid) \in D
  BY <1>3 DEF Trail, GetVersionLink
<1> QED BY <1>2, <1>6, <1>7

(***************************************************************************)
(* A read returns the record in the heap if that is visible; otherwise it  *)
(* throws, or returns what is right for its snapshot.                      *)
(***************************************************************************)
LEMMA ReadIs ==
    ASSUME SnapInv, NEW t \in Txn, OthersQuiet(t), call[t] = "running",
           job[t].at \notin {"insertlink", "link"},
           NEW rid \in Rid, heap[rid].used, NEW row, row = get_record_mvcc(t, rid)
    PROVE  /\ Settled(rid)
           /\ InView(t, rid) => row = RowOf(heap[rid])
           /\ ~InView(t, rid) => row = Conflict \/ Right(start_ts[t], rid, row)
<1> DEFINE ts == heap[rid].ts
           deleter == get_transaction_by_timestamp(ts)
<1>0. SerialInv /\ heap[rid] \in Cells
  BY DEF SnapInv, SerialInv, ChainInv, RowTypes
<1>1. Settled(rid)
  BY DEF Settled, OthersQuiet, Quiet
<1>2. Sound(rid, heap[rid])
  BY <1>1 DEF SnapInv, HeapSound
<1>3. /\ start_ts[t] \in Nat /\ next_timestamp \in Nat /\ ts < next_timestamp /\ ts \in Nat
  BY <1>0, RunningFacts DEF SerialInv, HeapInv, Cells
<1>4. TupleMetaOf(rid) = [ts |-> ts, is_deleted |-> heap[rid].is_deleted]
  BY <1>3 DEF TupleMetaOf
<1>5. TupleMetaOf(rid).ts = ts /\ TupleMetaOf(rid).is_deleted = heap[rid].is_deleted
  BY <1>4
<1>6. ts # start_ts[t] => (IsCommittedBeforeReadTs(ts, start_ts[t]) <=> Sees(start_ts[t], ts))
  BY <1>0, <1>2, VerdictSees DEF Sound
<1>7. ts = 0 => Sees(start_ts[t], ts)
  BY DEF Sees
<1>8. Sees(start_ts[t], ts) => ts = 0 \/ ts < start_ts[t]
  BY DEF Sees
<1>9. InView(t, rid) <=> ts = start_ts[t] \/ Sees(start_ts[t], ts)
  BY DEF InView
<1>10. ~InView(t, rid) => Right(start_ts[t], rid, GetVisibleVersionFromHistory(t, rid))
  <2> SUFFICES ASSUME ~InView(t, rid)
               PROVE  Right(start_ts[t], rid, GetVisibleVersionFromHistory(t, rid))
    OBVIOUS
  <2>1. rid \notin DOMAIN mine[t]
    BY <1>0, <1>9 DEF SerialInv, MineInv
  <2>2. Reader(start_ts[t], rid)
    BY <2>1 DEF Reader
  <2>3. HasTrail(start_ts[t], rid)
    BY <1>2, <1>3, <1>9, <2>2 DEF Sound, Shows
  <2> QED BY <2>1, <2>3, WalkRight
<1>11. CASE InView(t, rid)
  <2>1. get_record_mvcc(t, rid) = RowOf(heap[rid])
    BY <1>5, <1>6, <1>7, <1>8, <1>9, <1>11, Zenon DEF get_record_mvcc, RowOf
  <2> QED BY <1>1, <1>11, <2>1
<1>12. CASE ~InView(t, rid)
  <2>1. get_record_mvcc(t, rid) \in {Conflict, GetVisibleVersionFromHistory(t, rid)}
    BY <1>5, <1>6, <1>7, <1>8, <1>9, <1>12, Zenon DEF get_record_mvcc
  <2> QED BY <1>1, <1>10, <1>12, <2>1
<1> QED BY <1>11, <1>12

-----------------------------------------------------------------------------
(***************************************************************************)
(* The steps of a statement that write no row.                             *)
(***************************************************************************)
\* A row without a conflict is one that t sees as it is, or that nobody has ever
\* committed.
LEMMA CheckCurrent ==
    ASSUME SnapInv, NEW t \in Txn, OthersQuiet(t), call[t] = "running", NEW rid \in Rid,
           Settled(rid), ~CheckWriteWriteConflict(t, rid)
    PROVE  Current(t, rid)
<1> DEFINE h == heap[rid].ts
           owner == get_transaction_by_timestamp(h)
<1>0. /\ SerialInv /\ MgrInv /\ heap[rid] \in Cells /\ h \in Nat /\ start_ts[t] \in Nat
      /\ state[t] = "DEFAULT" /\ Begun(t)
  BY RunningFacts DEF SnapInv, SerialInv, ChainInv, RowTypes, Phases, Cells
<1>1. Known(h)
  BY DEF SnapInv, HeapSound, Sound
<1>2. \A u \in Txn : commit_ts[u] \in Int /\ start_ts[u] \in Int
  BY <1>0 DEF MgrInv, MgrTypeOK, Timestamps, INVALID_TS
<1>3. CASE h = 0 \/ h = start_ts[t]
  BY <1>3 DEF Current, InView, Sees
<1>4. CASE h # 0 /\ h # start_ts[t] /\ owner = NoTxn
  <2>1. h < start_ts[t]
    BY <1>4, <1>0 DEF CheckWriteWriteConflict
  <2>2. \A u \in Txn : Begun(u) => start_ts[u] # h
    BY <1>4, OwnerNone
  <2>3. PICK u \in Txn : Begun(u) /\ commit_ts[u] # INVALID_TS /\ h = commit_ts[u]
    BY <1>1, <1>4, <2>2 DEF Known
  <2> QED BY <2>1, <2>3 DEF Current, InView, Sees
<1>5. CASE h # 0 /\ h # start_ts[t] /\ owner # NoTxn
  <2>1. PICK u \in Txn : Begun(u) /\ start_ts[u] = h
    BY <1>5 DEF get_transaction_by_timestamp
  <2>2. owner = u /\ u # t
    BY <2>1, <1>5, <1>0, OwnerIs
  <2>3. ~Active(u)
    BY <2>2, <1>5 DEF CheckWriteWriteConflict
  <2>4. Quiet(u)
    BY <2>2 DEF OthersQuiet
  <2>5. call[u] = "done"
    BY <2>1, <2>3, <2>4, <1>0 DEF Quiet, SerialInv, Phases, Active, MgrInv, Handed
  <2>6. CASE state[u] = "ABORTED"
    <3>1. Uncommitted(u) /\ ~Wrote(u, rid)
      BY <1>0, <2>2, <2>5, <2>6, QuietFacts DEF SerialInv, Phases, Wrote
    <3>2. committed[rid] = <<>>
      BY <3>1, <2>1, <1>0 DEF SerialInv, HeapInv
    <3> QED BY <3>2 DEF Current
  <2>7. CASE state[u] # "ABORTED"
    <3>1. state[u] = "COMMITTED" /\ commit_ts[u] # INVALID_TS
      BY <1>0, <2>5, <2>7, <2>1 DEF SerialInv, Phases, Uncommitted
    <3>2. h \notin aborted_txns
      BY <1>0, <3>1, <2>1 DEF SerialInv, Phases
    <3>3. IsCommitted(h)
      BY <3>1, <3>2, <2>2, <1>5 DEF IsCommitted, is_transaction_aborted
    <3>4. ~(commit_ts[u] > start_ts[t])
      BY <3>3, <3>1, <2>2, <1>5, <1>0 DEF CheckWriteWriteConflict
    <3>5. start_ts[u] < commit_ts[u]
      BY <3>1, <1>0 DEF MgrInv, Handed
    <3>6. h < start_ts[t]
      BY <3>4, <3>5, <2>1, <1>2
    <3> QED BY <3>6, <3>1, <2>1 DEF Current, InView, Sees
  <2> QED BY <2>6, <2>7
<1> QED BY <1>3, <1>4, <1>5

\* A row that was read and has no conflict is the one in the heap.
LEMMA FetchedCurrent ==
    ASSUME NEW t \in Txn, NEW rid \in Rid, NEW old, Current(t, rid), Fetched(t, rid, old)
    PROVE  ~heap[rid].is_deleted /\ old = heap[rid].val
<1>1. ASSUME committed[rid] = <<>>, Right(start_ts[t], rid, old) PROVE old = NoRow
  <2>1. Earlier(start_ts[t], rid) = {} /\ ~Meanwhile(start_ts[t], rid, old)
    BY <1>1 DEF Earlier, Meanwhile
  <2> QED BY <1>1, <2>1 DEF Right, LastBefore
<1> QED BY <1>1 DEF Fetched, Current

\* No undo log is touched.
LEMMA LogsSame ==
    ASSUME LogsOwn, UNCHANGED <<mgrVars, undo_logs>>
    PROVE  LogsKept /\ LogsOwn'
<1>1. LogsKept
  BY DEF LogsKept, Exists, LogAt
<1>2. LogsOwn'
  BY DEF LogsOwn, Known, Begun, mgrVars
<1> QED BY <1>1, <1>2

\* What was found out about a row stays true while only jobs change.
LEMMA FactsSame ==
    ASSUME UNCHANGED <<mgrVars, heap, committed>>, NEW t \in Txn, NEW rid \in Rid, NEW old
    PROVE  /\ Current(t, rid)' <=> Current(t, rid)
           /\ Fetched(t, rid, old)' <=> Fetched(t, rid, old)
<1>1. InView(t, rid)' <=> InView(t, rid)
  BY DEF InView, Sees, Begun, mgrVars
<1>2. PICK s : s = start_ts[t]
  OBVIOUS
<1>3. s = start_ts'[t]
  BY <1>2 DEF mgrVars
<1>4. Right(s, rid, old)' <=> Right(s, rid, old)
  BY RightKept
<1>5. Right(start_ts[t], rid, old)' <=> Right(start_ts[t], rid, old)
  BY <1>2, <1>3, <1>4
<1> QED BY <1>1, <1>5 DEF Current, Fetched

LEMMA SnapStart ==
    ASSUME SnapInv, SerialInv', NEW t \in Txn, OthersQuiet(t), NEW rid \in Rid,
           NEW op \in {"insert", "update", "delete"}, NEW first \in {"insert", "check", "read"},
           StartStatement(t, op, rid, first), first = "check" => op = "update",
           first = "read" => op # "update",
           UNCHANGED <<mgrVars, heap, version_info, undo_logs, write_set, mine, committed>>
    PROVE  SnapInv'
<1>1. call[t] = "running" /\ job[t].at = "idle"
  BY DEF StartStatement, At
<1>2. /\ job'[t].at = first /\ job'[t].op = op /\ job'[t].rid = rid
      /\ \A u \in Txn \ {t} : job'[u] = job[u]
  <2>1. first \in Places
    BY DEF Places
  <2> QED BY <2>1, StartMoves DEF SnapInv, SerialInv, ChainInv
<1>3. StmtFacts(t)'
  BY <1>2 DEF StmtFacts
<1>4. LogsKept /\ LogsOwn'
  BY LogsSame DEF SnapInv
<1> QED BY <1>1, <1>2, <1>3, <1>4, PlaceSnap

LEMMA SnapInsertChoose ==
    ASSUME SnapInv, SerialInv', NEW t \in Txn, OthersQuiet(t), NEW table \in Table,
           InsertChoose(t, table)
    PROVE  SnapInv'
<1> DEFINE rid == <<table, Lowest({s \in Slot : ~heap[<<table, s>>].used})>>
<1>1. rid \in Rid
  BY FreeSlotFound DEF InsertChoose
<1>2. /\ StartStatement(t, "insert", rid, "insert")
      /\ UNCHANGED <<mgrVars, heap, version_info, undo_logs, write_set, mine, committed>>
  BY DEF InsertChoose
<1> HIDE DEF rid
<1> QED BY <1>1, <1>2, SnapStart

LEMMA SnapReadConflict ==
    ASSUME SnapInv, SerialInv', NEW t \in Txn, OthersQuiet(t), NEW rid \in Rid, ReadConflict(t, rid)
    PROVE  SnapInv'
<1>1. /\ call[t] = "running" /\ job[t].at = "idle" /\ Goto(t, "throw")
      /\ UNCHANGED <<mgrVars, heap, version_info, undo_logs, write_set, mine, committed>>
  BY DEF ReadConflict, At, Throw
<1>2. Moved(t, "throw")
  BY <1>1, GotoMoves DEF SnapInv, SerialInv, ChainInv, Places
<1>3. job'[t].at = "throw" /\ (\A u \in Txn \ {t} : job'[u] = job[u])
  BY <1>2 DEF Moved
<1>4. LogsKept /\ LogsOwn' /\ StmtFacts(t)'
  BY <1>1, <1>3, LogsSame, IdleFacts DEF SnapInv
<1> QED BY <1>1, <1>3, <1>4, PlaceSnap

LEMMA SnapCheckRow ==
    ASSUME SnapInv, SerialInv', NEW t \in Txn, OthersQuiet(t), CheckRow(t)
    PROVE  SnapInv'
<1>1. /\ call[t] = "running" /\ job[t].at = "check" /\ job[t].rid \in Rid
      /\ UNCHANGED <<mgrVars, heap, version_info, undo_logs, write_set, mine, committed>>
  BY DEF CheckRow, At, SnapInv, SerialInv, ChainInv, JobInv
<1>2. PICK rid \in Rid : rid = job[t].rid
  BY <1>1
<1>3. heap[rid].used
  BY <1>1, <1>2 DEF SnapInv, SerialInv, StatementInv
<1>4. LogsKept /\ LogsOwn'
  BY <1>1, LogsSame DEF SnapInv
<1>5. CASE CheckWriteWriteConflict(t, job[t].rid)
  <2>1. Goto(t, "throw")
    BY <1>5 DEF CheckRow, Throw
  <2>2. Moved(t, "throw")
    BY <2>1, GotoMoves DEF SnapInv, SerialInv, ChainInv, Places
  <2>3. job'[t].at = "throw" /\ (\A u \in Txn \ {t} : job'[u] = job[u])
    BY <2>2 DEF Moved
  <2> QED BY <1>1, <1>4, <2>3, IdleFacts, PlaceSnap
<1>6. CASE ~CheckWriteWriteConflict(t, job[t].rid)
  <2>1. Settled(rid)
    BY <1>1, <1>3 DEF Settled, OthersQuiet, Quiet
  <2>2. Current(t, rid)
    BY <1>1, <1>2, <1>6, <2>1, CheckCurrent
  <2>3. PICK where \in {"read", "raw"} :
            Goto(t, where) /\ (where = "read" <=> job[t].op = "update")
    BY <1>6 DEF CheckRow
  <2>4. Moved(t, where) /\ job'[t].old = job[t].old
    BY <2>3, GotoMoves DEF SnapInv, SerialInv, ChainInv, Places
  <2>5. /\ job'[t].at = where /\ job'[t].rid = rid /\ job'[t].op = job[t].op
        /\ \A u \in Txn \ {t} : job'[u] = job[u]
    BY <1>2, <2>4 DEF Moved
  <2>6. Current(t, rid)'
    BY <1>1, <2>2, FactsSame
  <2>7. where = "raw" => ~heap[rid].is_deleted /\ job[t].old = heap[rid].val
    <3> SUFFICES ASSUME where = "raw" PROVE ~heap[rid].is_deleted /\ job[t].old = heap[rid].val
      OBVIOUS
    <3>1. Fetched(t, rid, job[t].old)
      BY <1>1, <1>2, <2>3 DEF SnapInv, StmtSound, StmtFacts
    <3> QED BY <2>2, <3>1, FetchedCurrent
  <2>8. Current(t, job[t].rid)'
    BY <2>5, <2>6
  <2>9. StmtFacts(t)'
    BY <1>1, <2>3, <2>4, <2>5, <2>7, <2>8 DEF StmtFacts
  <2> QED BY <1>1, <1>4, <2>5, <2>9, PlaceSnap
<1> QED BY <1>5, <1>6

LEMMA SnapReadRow ==
    ASSUME SnapInv, SerialInv', NEW t \in Txn, OthersQuiet(t), ReadRow(t)
    PROVE  SnapInv'
<1> DEFINE update == job[t].op = "update"
           where == IF update THEN "raw" ELSE "check"
<1>1. /\ call[t] = "running" /\ job[t].at = "read" /\ job[t].rid \in Rid
      /\ UNCHANGED <<mgrVars, heap, version_info, undo_logs, write_set, mine, committed>>
  BY DEF ReadRow, At, SnapInv, SerialInv, ChainInv, JobInv
<1>2. PICK rid \in Rid : rid = job[t].rid
  BY <1>1
<1>3. PICK old : old = get_record_mvcc(t, rid)
  OBVIOUS
<1>4. heap[rid].used
  BY <1>1, <1>2 DEF SnapInv, SerialInv, StatementInv
<1>5. LogsKept /\ LogsOwn'
  BY <1>1, LogsSame DEF SnapInv
<1>6. \/ Goto(t, "throw") \/ Goto(t, "invisible") \/ job' = [job EXCEPT ![t] = Idle]
      \/ /\ old \notin {Conflict, NoRow}
         /\ job' = [job EXCEPT ![t].old = old, ![t].at = where]
  BY <1>2, <1>3, Zenon DEF ReadRow, Throw
<1>7. CASE Goto(t, "throw") \/ Goto(t, "invisible") \/ job' = [job EXCEPT ![t] = Idle]
  <2>1. ASSUME Goto(t, "throw") PROVE Moved(t, "throw")
    BY <2>1, GotoMoves DEF SnapInv, SerialInv, ChainInv, Places
  <2>2. ASSUME Goto(t, "invisible") PROVE Moved(t, "invisible")
    BY <2>2, GotoMoves DEF SnapInv, SerialInv, ChainInv, Places
  <2>3. /\ job'[t].at \in {"throw", "invisible", "idle"}
        /\ \A u \in Txn \ {t} : job'[u] = job[u]
    BY <1>7, <2>1, <2>2, IdleMoves DEF SnapInv, SerialInv, ChainInv, Moved
  <2>4. StmtFacts(t)'
    BY <2>3, IdleFacts
  <2> QED BY <1>1, <1>5, <2>3, <2>4, PlaceSnap
<1>8. CASE old \notin {Conflict, NoRow} /\ job' = [job EXCEPT ![t].old = old, ![t].at = where]
  <2>1. Fetched(t, rid, old)
    <3>1. /\ InView(t, rid) => old = RowOf(heap[rid])
          /\ ~InView(t, rid) => old = Conflict \/ Right(start_ts[t], rid, old)
      BY <1>1, <1>3, <1>4, ReadIs
    <3> QED BY <1>8, <3>1 DEF Fetched, RowOf
  <2>2. where \in {"raw", "check"} /\ (where = "raw" <=> update)
    OBVIOUS
  <2> HIDE DEF where
  <2> DEFINE new == [job[t] EXCEPT !.old = old, !.at = where]
  <2>3. job \in [Txn -> Jobs] /\ job[t] \in Jobs
    BY DEF SnapInv, SerialInv, ChainInv, RowTypes
  <2>4. job' = [job EXCEPT ![t] = new]
    BY <1>8, <2>3
  <2>5. new.at = where /\ new.rid = rid /\ new.old = old /\ new.op = job[t].op
    BY <1>2, <2>3 DEF Jobs
  <2> HIDE DEF new
  <2>6. /\ job'[t].at = where /\ job'[t].rid = rid /\ job'[t].old = old /\ job'[t].op = job[t].op
        /\ \A u \in Txn \ {t} : job'[u] = job[u]
    BY <2>3, <2>4, <2>5
  <2>7. Fetched(t, rid, old)'
    BY <1>1, <2>1, FactsSame
  <2>8. Fetched(t, job[t].rid, job[t].old)'
    BY <2>6, <2>7
  <2>9. where = "raw" => ~heap[rid].is_deleted /\ old = heap[rid].val
    <3> SUFFICES ASSUME where = "raw" PROVE ~heap[rid].is_deleted /\ old = heap[rid].val
      OBVIOUS
    <3>1. Current(t, rid)
      BY <1>1, <1>2, <2>2 DEF SnapInv, StmtSound, StmtFacts
    <3> QED BY <2>1, <3>1, FetchedCurrent
  <2>10. StmtFacts(t)'
    BY <1>1, <2>2, <2>6, <2>8, <2>9 DEF StmtFacts
  <2> QED BY <1>1, <1>5, <2>2, <2>6, <2>10, PlaceSnap
<1> QED BY <1>6, <1>7, <1>8

\* A new undo log, at the end of those of t.
LEMMA AppendKept ==
    ASSUME SnapInv, NEW t \in Txn, NEW log \in LogRecords, Appended(t, log), UNCHANGED mgrVars,
           Known(log.ts), \A u \in Txn : call[u] = "running" /\ log.ts = start_ts[u] => u = t
    PROVE  /\ LogsKept /\ LogsOwn'
           /\ undo_logs'[t][Len(undo_logs'[t])] = log
           /\ Len(undo_logs'[t]) \in DOMAIN undo_logs'[t]
<1>1. /\ Len(undo_logs'[t]) = Len(undo_logs[t]) + 1 /\ Len(undo_logs[t]) \in Nat
      /\ undo_logs'[t][Len(undo_logs[t]) + 1] = log
      /\ \A i \in DOMAIN undo_logs[t] : undo_logs'[t][i] = undo_logs[t][i]
      /\ DOMAIN undo_logs[t] = 1 .. Len(undo_logs[t])
      /\ DOMAIN undo_logs'[t] = 1 .. (Len(undo_logs[t]) + 1)
      /\ \A u \in Txn \ {t} : undo_logs'[u] = undo_logs[u]
      /\ \A link : Exists(link) => Exists(link)'
  BY AppendFacts DEF SnapInv, SerialInv
<1>2. LogsKept
  <2> SUFFICES ASSUME NEW link, Exists(link) PROVE Exists(link)' /\ LogAt(link)' = LogAt(link)
    BY DEF LogsKept
  <2>1. Exists(link)'
    BY <1>1
  <2>2. LogAt(link)' = LogAt(link)
    <3>1. CASE link[1] = t
      BY <3>1, <1>1 DEF LogAt, Exists
    <3>2. CASE link[1] # t
      BY <3>2, <1>1 DEF LogAt, Exists
    <3> QED BY <3>1, <3>2
  <2> QED BY <2>1, <2>2
<1>3. LogsOwn'
  <2> SUFFICES ASSUME NEW u \in Txn, NEW i \in DOMAIN undo_logs'[u]
               PROVE  /\ Known(undo_logs[u][i].ts)'
                      /\ \A v \in Txn : call'[v] = "running" /\ undo_logs'[u][i].ts = start_ts'[v] => v = u
    BY DEF LogsOwn
  <2>1. PICK ts : ts = undo_logs'[u][i].ts
    OBVIOUS
  <2>2. Known(ts) /\ \A v \in Txn : call[v] = "running" /\ ts = start_ts[v] => v = u
    <3>1. CASE u = t /\ i = Len(undo_logs[t]) + 1
      BY <3>1, <2>1, <1>1
    <3>2. CASE i \in DOMAIN undo_logs[u] /\ undo_logs'[u][i] = undo_logs[u][i]
      BY <3>2, <2>1 DEF SnapInv, LogsOwn
    <3>3. CASE u = t /\ i # Len(undo_logs[t]) + 1
      <4>1. i \in DOMAIN undo_logs[t]
        BY <3>3, <1>1
      <4> QED BY <3>2, <3>3, <4>1, <1>1
    <3>4. CASE u # t
      BY <3>2, <3>4, <1>1
    <3> QED BY <3>1, <3>3, <3>4
  <2>3. Known(ts)'
    BY <2>2 DEF Known, Begun, mgrVars
  <2>4. \A v \in Txn : call'[v] = "running" /\ ts = start_ts'[v] => v = u
    BY <2>2 DEF mgrVars
  <2> QED BY <2>1, <2>3, <2>4
<1>4. Len(undo_logs[t]) + 1 \in DOMAIN undo_logs'[t]
  BY <1>1
<1> QED BY <1>1, <1>2, <1>3, <1>4

LEMMA SnapReadRaw ==
    ASSUME SnapInv, SerialInv', NEW t \in Txn, OthersQuiet(t), ReadRaw(t)
    PROVE  SnapInv'
<1>1. /\ call[t] = "running" /\ job[t].at = "raw" /\ job[t].rid \in Rid
      /\ UNCHANGED <<mgrVars, heap, version_info, write_set, mine, committed>>
  BY DEF ReadRaw, At, SnapInv, SerialInv, ChainInv, JobInv
<1>2. PICK rid \in Rid : rid = job[t].rid
  BY <1>1
<1>3. PICK raw : raw = heap[rid]
  OBVIOUS
<1>4. raw \in Cells /\ rid[2] \in Slot /\ raw.used
  BY <1>1, <1>2, <1>3 DEF SnapInv, SerialInv, ChainInv, RowTypes, Rid, StatementInv
<1>5. /\ ~raw.is_deleted /\ job[t].old = raw.val
  BY <1>1, <1>2, <1>3 DEF SnapInv, StmtSound, StmtFacts
<1>6. PICK link : link = version_info[rid[2]]
  OBVIOUS
<1>7. link \in Links
  BY <1>4, <1>6 DEF SnapInv, SerialInv, ChainInv, RowTypes
<1> DEFINE log == [ts |-> raw.ts, is_deleted |-> FALSE, val |-> raw.val, prev |-> link]
<1>8. Appended(t, log)
  <2>1. (job[t].op = "update" /\ raw.is_deleted) = FALSE
    BY <1>5
  <2>2. PrevLink(t, rid) = link
    BY <1>6 DEF PrevLink, GetUndoLink, GetVersionLink
  <2>3. undo_logs' = [undo_logs EXCEPT ![t] = Append(@,
               [ts |-> raw.ts, is_deleted |-> job[t].op = "update" /\ raw.is_deleted,
                val |-> job[t].old, prev |-> PrevLink(t, rid)])]
    BY <1>2, <1>3 DEF ReadRaw, get_record
  <2> QED BY <1>5, <2>1, <2>2, <2>3 DEF Appended
<1>9. log \in LogRecords
  BY <1>4, <1>7 DEF LogRecords, Cells
<1>10. /\ log.ts = raw.ts /\ log.prev = link /\ log.is_deleted = FALSE /\ log.val = raw.val
  OBVIOUS
<1> HIDE DEF log
<1>11. Settled(rid)
  BY <1>1, <1>3, <1>4 DEF Settled, OthersQuiet, Quiet
<1>12. Sound(rid, raw)
  BY <1>3, <1>11 DEF SnapInv, HeapSound
<1>13. \A u \in Txn : call[u] = "running" /\ raw.ts = start_ts[u] => u = t
  <2>1. Clear(t, rid)
    BY <1>1, <1>2 DEF SnapInv, SerialInv, StatementInv, Checked
  <2> QED BY <1>12, <2>1, RunningFacts DEF Sound, OwnOnly, Clear, SnapInv
<1>14. /\ LogsKept /\ LogsOwn'
       /\ undo_logs'[t][Len(undo_logs'[t])] = log
  BY <1>1, <1>8, <1>9, <1>10, <1>12, <1>13, AppendKept DEF Sound
<1>15. LogRow(log) = RowOf(raw)
  <2>1. raw.val.tail = Zero /\ raw.val \in Vals
    BY <1>4, <1>12 DEF Sound, Cells
  <2>2. [head |-> raw.val.head, tail |-> Zero] = raw.val
    <3>1. CASE raw.val = NoRow
      BY <3>1 DEF NoRow, Zero
    <3>2. CASE raw.val = OldRow
      BY <3>2, <2>1 DEF OldRow
    <3>3. CASE raw.val \notin {NoRow, OldRow}
      BY <3>3, <2>1 DEF Vals
    <3> QED BY <3>1, <3>2, <3>3
  <2> QED BY <1>5, <1>10, <2>2 DEF LogRow, RowOf, ReconstructTupleFromUndoLog
<1>16. /\ job'[t].at = "write" /\ job'[t].rid = rid /\ job'[t].raw = raw
       /\ \A u \in Txn \ {t} : job'[u] = job[u]
  <2> DEFINE new == [job[t] EXCEPT !.raw = raw, !.at = "write"]
  <2>1. job \in [Txn -> Jobs] /\ job[t] \in Jobs
    BY DEF SnapInv, SerialInv, ChainInv, RowTypes
  <2>2. job' = [job EXCEPT ![t].raw = raw, ![t].at = "write"]
    BY <1>2, <1>3 DEF ReadRaw, get_record
  <2>3. job' = [job EXCEPT ![t] = new]
    BY <2>1, <2>2
  <2>4. new.at = "write" /\ new.rid = rid /\ new.raw = raw
    BY <1>2, <2>1 DEF Jobs
  <2> HIDE DEF new
  <2> QED BY <2>1, <2>3, <2>4
<1>17. Matches(log, raw, rid[2])'
  BY <1>1, <1>6, <1>10, <1>15 DEF Matches
<1>18. Matches(undo_logs[t][Len(undo_logs[t])], job[t].raw, job[t].rid[2])'
  BY <1>14, <1>16, <1>17
<1>19. StmtFacts(t)'
  BY <1>1, <1>3, <1>16, <1>18 DEF StmtFacts
<1> QED BY <1>1, <1>14, <1>16, <1>19, PlaceSnap

-----------------------------------------------------------------------------
(***************************************************************************)
(* The steps that write a row.  Until the undo log is linked, what the row *)
(* shows is what the record shows that was there.                          *)
(***************************************************************************)
LEMMA PutValues ==
    ASSUME GhostTypes, NEW t \in Txn, NEW rid \in Rid, NEW v,
           mine' = [mine EXCEPT ![t] = Put(@, rid, v)]
    PROVE  /\ mine'[t][rid] = v
           /\ \A r \in DOMAIN mine[t] \ {rid} : mine'[t][r] = mine[t][r]
<1>1. mine \in [Txn -> PartialRows]
  BY DEF GhostTypes
<1>2. mine'[t] = Put(mine[t], rid, v)
  BY <1>1
<1> QED BY <1>2 DEF Put

LEMMA WriteSnap ==
    ASSUME SnapInv, SerialInv', NEW t \in Txn, call[t] = "running", OthersQuiet(t), NEW rid \in Rid,
           UNCHANGED <<mgrVars, version_info, undo_logs, write_set, committed>>,
           \A r \in Rid \ {rid} : heap'[r] = heap[r],
           heap'[rid].val.tail = Zero,
           DOMAIN mine'[t] = DOMAIN mine[t] \cup {rid},
           mine'[t][rid] = RowOf(heap'[rid]),
           \A r \in DOMAIN mine[t] \ {rid} : mine'[t][r] = mine[t][r],
           \A u \in Txn \ {t} : mine'[u] = mine[u] /\ job'[u] = job[u],
           job[t].at \notin {"insertlink", "link"}, job'[t].at \in {"insertlink", "link"},
           job'[t].rid = rid, NEW raw, job'[t].raw = raw, job'[t].at = "link" => Sound(rid, raw),
           StmtFacts(t)'
    PROVE  SnapInv'
<1>1. LogsKept /\ LogsOwn'
  BY LogsSame DEF SnapInv
<1>2. \A r \in Rid : Keeps(r)
  BY <1>1, StatementKeeps
<1>3. \A r \in Rid : Settled(r)' => r # rid /\ Settled(r)
  BY DEF Settled
<1>4. HeapSound'
  <2> SUFFICES ASSUME NEW r \in Rid
               PROVE  heap'[r].val.tail = Zero /\ (Settled(r)' => Sound(r, heap[r])')
    BY DEF HeapSound
  <2>1. CASE r = rid
    BY <1>3, <2>1
  <2>2. CASE r # rid
    <3>1. PICK c : c = heap[r]
      OBVIOUS
    <3>2. c = heap'[r]
      BY <2>2, <3>1
    <3>3. Settled(r)' => Sound(r, c)'
      BY <1>2, <1>3, <3>1, SoundKept DEF SnapInv, HeapSound
    <3>4. c.val.tail = Zero
      BY <3>1 DEF SnapInv, HeapSound
    <3> QED BY <3>2, <3>3, <3>4
  <2> QED BY <2>1, <2>2
<1>5. RawSound'
  <2> SUFFICES ASSUME NEW u \in Txn, Uncommitted(u)'
               PROVE  /\ \A i \in DOMAIN write_set'[u] : Sound(write_set[u][i].rid, write_set[u][i].raw)'
                      /\ job'[u].at = "link" => Sound(job[u].rid, job[u].raw)'
    BY DEF RawSound
  <2>1. Uncommitted(u)
    BY DEF Uncommitted, Begun, mgrVars
  <2>2. job'[u].at = "link" => Sound(job[u].rid, job[u].raw)'
    <3>1. CASE u = t
      <4>1. job'[u].at = "link" => Sound(rid, raw)'
        BY <1>2, <3>1, SoundKept DEF SnapInv
      <4> QED BY <3>1, <4>1
    <3>2. CASE u # t
      BY <3>2 DEF OthersQuiet, Quiet
    <3> QED BY <3>1, <3>2
  <2>3. ASSUME NEW i \in DOMAIN write_set[u] PROVE Sound(write_set[u][i].rid, write_set[u][i].raw)'
    <3>1. PICK w : w = write_set[u][i]
      OBVIOUS
    <3>2. Sound(w.rid, w.raw)'
      BY <1>2, <2>1, <3>1, RawKept
    <3>3. w = write_set'[u][i]
      BY <3>1
    <3> QED BY <3>2, <3>3
  <2> QED BY <2>2, <2>3
<1>6. OwnRows'
  <2> SUFFICES ASSUME NEW u \in Txn, call'[u] = "running", NEW r \in DOMAIN mine'[u]
               PROVE  mine'[u][r] = RowOf(heap'[r])
    BY DEF OwnRows, RowOf
  <2>0. DOMAIN mine'[u] \subseteq Rid
    <3>1. mine'[u] \in PartialRows
      BY DEF SerialInv, GhostTypes
    <3> QED BY <3>1 DEF PartialRows
  <2>1. CASE r = rid
    <3>1. heap'[rid].ts = start_ts'[u] /\ heap'[rid].ts = start_ts'[t]
      BY <2>1 DEF SerialInv, MineInv, mgrVars
    <3>2. Begun(u) /\ Begun(t) /\ start_ts[u] = start_ts[t] /\ MgrInv
      BY <3>1, RunningFacts DEF SnapInv, mgrVars
    <3>3. u = t
      BY <3>2 DEF MgrInv, Apart
    <3> QED BY <2>1, <3>3
  <2>2. CASE r # rid
    <3>1. r \in DOMAIN mine[u] /\ mine'[u][r] = mine[u][r] /\ heap'[r] = heap[r]
      BY <2>0, <2>2
    <3>2. call[u] = "running"
      BY DEF mgrVars
    <3> QED BY <3>1, <3>2 DEF SnapInv, OwnRows
  <2> QED BY <2>1, <2>2
<1>7. StmtSound'
  BY OthersFacts DEF StmtSound
<1> QED BY <1>1, <1>4, <1>5, <1>6, <1>7 DEF SnapInv

LEMMA SnapInsertWrite ==
    ASSUME ~Wide, SnapInv, SerialInv', NEW t \in Txn, OthersQuiet(t), InsertWrite(t)
    PROVE  SnapInv'
<1>1. /\ call[t] = "running" /\ job[t].at = "insert" /\ job[t].rid \in Rid
      /\ UNCHANGED <<mgrVars, version_info, undo_logs, write_set, committed>>
  BY DEF InsertWrite, At, SnapInv, SerialInv, ChainInv, JobInv
<1>2. PICK rid \in Rid : rid = job[t].rid
  BY <1>1
<1>3. PICK val : val = [head |-> NewHead(t), tail |-> NewTail(t)]
  OBVIOUS
<1>4. val.tail = Zero
  BY <1>3 DEF NewTail
<1>5. PICK cell : cell = [used |-> TRUE, ts |-> start_ts[t], is_deleted |-> FALSE, val |-> val]
  OBVIOUS
<1>6. cell.val = val /\ cell.is_deleted = FALSE
  BY <1>5
<1>7. /\ mine' = [mine EXCEPT ![t] = Put(@, rid, val)]
      /\ heap' = [heap EXCEPT ![rid] = cell]
  BY <1>2, <1>3, <1>5 DEF InsertWrite
<1>8. heap'[rid] = cell /\ \A r \in Rid \ {rid} : heap'[r] = heap[r]
  BY <1>7 DEF SnapInv, SerialInv, ChainInv, RowTypes
<1>9. val \in Vals
  BY <1>1, <1>3, NewRowTyped DEF SnapInv, SerialInv, ChainInv
<1>10. /\ DOMAIN mine'[t] = DOMAIN mine[t] \cup {rid}
       /\ \A u \in Txn \ {t} : mine'[u] = mine[u]
  BY <1>7, <1>9, PutFacts DEF SnapInv, SerialInv
<1>11. /\ mine'[t][rid] = val
       /\ \A r \in DOMAIN mine[t] \ {rid} : mine'[t][r] = mine[t][r]
  BY <1>7, PutValues DEF SnapInv, SerialInv
<1>12. RowOf(heap'[rid]) = val
  BY <1>6, <1>8 DEF RowOf
<1>13. Goto(t, "insertlink")
  BY DEF InsertWrite
<1>14. Moved(t, "insertlink")
  BY <1>13, GotoMoves DEF SnapInv, SerialInv, ChainInv, Places
<1>15. job'[t].at = "insertlink" /\ job'[t].rid = rid /\ \A u \in Txn \ {t} : job'[u] = job[u]
  BY <1>2, <1>14 DEF Moved
<1>16. rid \notin Written(t)
  <2>1. ~heap[rid].used
    BY <1>1, <1>2 DEF SnapInv, SerialInv, StatementInv
  <2> QED BY <2>1 DEF SnapInv, SerialInv, MineInv, Wrote
<1>17. Written(t)' = Written(t)
  BY <1>1 DEF Written
<1>18. StmtFacts(t)'
  BY <1>10, <1>15, <1>16, <1>17 DEF StmtFacts
<1>19. PICK raw : raw = job'[t].raw
  OBVIOUS
<1>20. heap'[rid].val.tail = Zero /\ mine'[t][rid] = RowOf(heap'[rid])
  BY <1>4, <1>6, <1>8, <1>11, <1>12
<1> QED BY <1>1, <1>8, <1>10, <1>11, <1>15, <1>18, <1>19, <1>20, WriteSnap

LEMMA SnapWriteRow ==
    ASSUME SnapInv, SerialInv', NEW t \in Txn, OthersQuiet(t), WriteRow(t)
    PROVE  SnapInv'
<1>1. /\ call[t] = "running" /\ job[t].at = "write" /\ job[t].rid \in Rid
      /\ UNCHANGED <<mgrVars, version_info, undo_logs, write_set, committed>>
  BY DEF WriteRow, At, SnapInv, SerialInv, ChainInv, JobInv
<1>2. PICK rid \in Rid : rid = job[t].rid
  BY <1>1
<1>3. PICK raw : raw = job[t].raw
  OBVIOUS
<1>4. raw = heap[rid] /\ heap[rid].used /\ raw \in Cells
  BY <1>1, <1>2, <1>3 DEF SnapInv, StmtSound, StmtFacts, SerialInv, StatementInv, ChainInv, RowTypes
<1>5. PICK update \in BOOLEAN : update <=> job[t].op = "update"
  OBVIOUS
<1>6. PICK val : val = IF update THEN [raw.val EXCEPT !.head = NewHead(t)] ELSE raw.val
  OBVIOUS
<1>7. PICK row : row = IF update THEN val ELSE NoRow
  OBVIOUS
<1>8. raw.val.tail = Zero
  BY <1>4 DEF SnapInv, HeapSound
<1>9. val.tail = Zero /\ val \in Vals /\ row \in Vals
  <2>1. raw.val \in Vals
    BY <1>4 DEF Cells
  <2>2. [raw.val EXCEPT !.head = NewHead(t)] \in Vals
    BY <1>1, <2>1, NewRowTyped DEF SnapInv, SerialInv, ChainInv
  <2>3. [raw.val EXCEPT !.head = NewHead(t)].tail = raw.val.tail
    <3>1. CASE raw.val = NoRow
      BY <3>1 DEF NoRow
    <3>2. CASE raw.val = OldRow
      BY <3>2 DEF OldRow
    <3>3. CASE raw.val \notin {NoRow, OldRow}
      BY <3>3, <2>1 DEF Vals
    <3> QED BY <3>1, <3>2, <3>3
  <2> QED BY <1>6, <1>7, <1>8, <2>1, <2>2, <2>3, IdleTyped
<1>10. /\ mine' = [mine EXCEPT ![t] = Put(@, rid, row)]
       /\ heap' = [heap EXCEPT ![rid].ts = start_ts[t], ![rid].is_deleted = ~update, ![rid].val = val]
  <2>1. (job[t].op = "update") = update
    BY <1>5
  <2> QED BY <1>2, <1>3, <1>6, <1>7, <2>1 DEF WriteRow
<1>11. /\ heap'[rid].val = val /\ heap'[rid].is_deleted = ~update
       /\ \A r \in Rid \ {rid} : heap'[r] = heap[r]
  <2>1. heap \in [Rid -> Cells] /\ heap[rid] \in Cells
    BY <1>1 DEF SnapInv, SerialInv, ChainInv, RowTypes
  <2>2. PICK d : d = ~update
    OBVIOUS
  <2> DEFINE cell == [heap[rid] EXCEPT !.ts = start_ts[t], !.is_deleted = d, !.val = val]
  <2>3. heap' = [heap EXCEPT ![rid] = cell]
    BY <1>10, <2>1, <2>2
  <2>4. cell.val = val /\ cell.is_deleted = d
    BY <2>1 DEF Cells
  <2> HIDE DEF cell
  <2>5. heap'[rid] = cell /\ \A r \in Rid \ {rid} : heap'[r] = heap[r]
    BY <2>1, <2>3
  <2> QED BY <2>2, <2>4, <2>5
<1>12. RowOf(heap'[rid]) = row
  BY <1>7, <1>11 DEF RowOf
<1>13. /\ DOMAIN mine'[t] = DOMAIN mine[t] \cup {rid}
       /\ \A u \in Txn \ {t} : mine'[u] = mine[u]
  BY <1>9, <1>10, PutFacts DEF SnapInv, SerialInv
<1>14. /\ mine'[t][rid] = row
       /\ \A r \in DOMAIN mine[t] \ {rid} : mine'[t][r] = mine[t][r]
  BY <1>10, PutValues DEF SnapInv, SerialInv
<1>15. Goto(t, "link")
  BY DEF WriteRow
<1>16. Moved(t, "link") /\ job'[t].raw = raw
  BY <1>3, <1>15, GotoMoves DEF SnapInv, SerialInv, ChainInv, Places
<1>17. job'[t].at = "link" /\ job'[t].rid = rid /\ \A u \in Txn \ {t} : job'[u] = job[u]
  BY <1>2, <1>16 DEF Moved
<1>18. Settled(rid)
  BY <1>1, <1>4 DEF Settled, OthersQuiet, Quiet
<1>19. Sound(rid, raw)
  BY <1>4, <1>18 DEF SnapInv, HeapSound
<1>20. PICK log : log = undo_logs[t][Len(undo_logs[t])]
  OBVIOUS
<1>21. Matches(log, raw, rid[2])
  BY <1>1, <1>2, <1>3, <1>20 DEF SnapInv, StmtSound, StmtFacts
<1>22. Matches(log, raw, rid[2])'
  BY <1>1, <1>21 DEF Matches
<1>23. log = undo_logs'[t][Len(undo_logs'[t])]
  BY <1>1, <1>20
<1>24. Matches(undo_logs[t][Len(undo_logs[t])], job[t].raw, job[t].rid[2])'
  BY <1>16, <1>17, <1>22, <1>23
<1>25. StmtFacts(t)'
  BY <1>17, <1>24 DEF StmtFacts
<1>26. heap'[rid].val.tail = Zero /\ mine'[t][rid] = RowOf(heap'[rid])
  BY <1>9, <1>11, <1>12, <1>14
<1> QED BY <1>1, <1>11, <1>13, <1>14, <1>16, <1>17, <1>19, <1>25, <1>26, WriteSnap

-----------------------------------------------------------------------------
(***************************************************************************)
(* The steps that link an undo log.                                        *)
(***************************************************************************)
\* Rows of one table with one slot are one row.
LEMMA SlotsApart ==
    ASSUME OneTable, NEW r \in Rid, NEW rid \in Rid, r # rid
    PROVE  r[2] # rid[2]
  BY DEF OneTable, Rid

\* Nothing but the head of the chain changes.
LEMMA HeadSame ==
    ASSUME UNCHANGED <<mgrVars, mine, committed>>, NEW rid \in Rid, NEW s, NEW ts, NEW row
    PROVE  /\ Known(ts)' <=> Known(ts)
           /\ Sees(s, ts)' <=> Sees(s, ts)
           /\ OwnOnly(rid, ts)' <=> OwnOnly(rid, ts)
           /\ Reader(s, rid)' <=> Reader(s, rid)
           /\ Right(s, rid, row)' <=> Right(s, rid, row)
<1>1. Known(ts)' <=> Known(ts)
  BY DEF Known, Begun, mgrVars
<1>2. Sees(s, ts)' <=> Sees(s, ts)
  BY DEF Sees, Begun, mgrVars
<1>3. OwnOnly(rid, ts)' <=> OwnOnly(rid, ts)
  BY DEF OwnOnly, mgrVars
<1>4. Reader(s, rid)' <=> Reader(s, rid)
  BY DEF Reader, mgrVars
<1> QED BY <1>1, <1>2, <1>3, <1>4, RightKept

LEMMA HeadSound ==
    ASSUME UNCHANGED <<mgrVars, mine, committed>>, NEW rid \in Rid, NEW rec,
           rec.val.tail = Zero, Known(rec.ts), OwnOnly(rid, rec.ts),
           \A s \in Nat : Reader(s, rid) /\ Sees(s, rec.ts) => Right(s, rid, RowOf(rec)),
           \A s \in Nat : Reader(s, rid) => HasTrail(s, rid)'
    PROVE  Sound(rid, rec)'
<1>1. Known(rec.ts)' /\ OwnOnly(rid, rec.ts)'
  BY HeadSame
<1>2. ASSUME NEW s \in Nat, Reader(s, rid)' PROVE Shows(s, rid, rec)'
  <2>1. Reader(s, rid)
    BY <1>2, HeadSame
  <2>2. Sees(s, rec.ts)' <=> Sees(s, rec.ts)
    BY HeadSame
  <2>3. Right(s, rid, RowOf(rec))' <=> Right(s, rid, RowOf(rec))
    BY HeadSame
  <2>4. HasTrail(s, rid)'
    BY <2>1
  <2> QED BY <2>1, <2>2, <2>3, <2>4 DEF Shows
<1> QED BY <1>1, <1>2 DEF Sound

\* The heap may hold the record of a running transaction: nobody else sees it.
LEMMA OwnRecord ==
    ASSUME SnapInv, NEW t \in Txn, call[t] = "running", NEW rid \in DOMAIN mine[t]
    PROVE  /\ heap[rid].ts = start_ts[t] /\ Known(heap[rid].ts) /\ OwnOnly(rid, heap[rid].ts)
           /\ \A s : ~Sees(s, heap[rid].ts)
<1>1. heap[rid].ts = start_ts[t]
  BY DEF SnapInv, SerialInv, MineInv
<1>2. MgrInv /\ Begun(t) /\ \A u \in Txn : call[u] = "running" => Begun(u)
  BY RunningFacts DEF SnapInv
<1>3. \A u \in Txn : call[u] = "running" /\ start_ts[t] = start_ts[u] => u = t
  BY <1>2 DEF MgrInv, Apart
<1> QED BY <1>1, <1>2, <1>3, RunningUnseen DEF Known, OwnOnly, SnapInv

LEMMA SnapInsertLink ==
    ASSUME OneTable, SnapInv, SerialInv', NEW t \in Txn, OthersQuiet(t), InsertLink(t)
    PROVE  SnapInv'
<1>1. /\ call[t] = "running" /\ job[t].at = "insertlink" /\ job[t].rid \in Rid
      /\ job' = [job EXCEPT ![t] = Idle]
      /\ UNCHANGED <<mgrVars, heap, write_set, mine, committed>>
  BY DEF InsertLink, At, SnapInv, SerialInv, ChainInv, JobInv
<1>2. PICK rid \in Rid : rid = job[t].rid
  BY <1>1
<1>3. rid \in DOMAIN mine[t] /\ rid \notin Written(t)
  BY <1>1, <1>2 DEF SnapInv, StmtSound, StmtFacts
<1>4. job'[t].at = "idle" /\ \A u \in Txn \ {t} : job'[u] = job[u]
  BY <1>1, IdleMoves DEF SnapInv, SerialInv, ChainInv
<1> DEFINE log == [ts |-> 0, is_deleted |-> TRUE, val |-> NoRow, prev |-> NoLink]
<1>5. log \in LogRecords /\ log.ts = 0 /\ LogRow(log) = NoRow
  BY IdleTyped DEF LogRecords, Links, LogRow
<1>6. Appended(t, log)
  BY DEF InsertLink, Appended
<1> HIDE DEF log
<1>7. \A u \in Txn : call[u] = "running" => start_ts[u] # 0
  BY RunningFacts DEF SnapInv
<1>8. /\ LogsKept /\ LogsOwn'
      /\ undo_logs'[t][Len(undo_logs'[t])] = log
      /\ Len(undo_logs'[t]) \in DOMAIN undo_logs'[t]
  BY <1>1, <1>5, <1>6, <1>7, AppendKept DEF Known
<1>9. PICK new : new = <<t, Len(undo_logs'[t])>>
  OBVIOUS
<1>10. version_info' = [version_info EXCEPT ![rid[2]] = new]
  BY <1>2, <1>9 DEF InsertLink, UpdateVersionLink
<1>11. rid[2] \in Slot /\ version_info \in [Slot -> Links] /\ version_info' \in [Slot -> Links]
  BY DEF Rid, SnapInv, SerialInv, ChainInv, RowTypes
<1>12. version_info'[rid[2]] = new /\ new \in Links
  BY <1>10, <1>11
<1>13. \A r \in Rid \ {rid} : version_info'[r[2]] = version_info[r[2]]
  <2> SUFFICES ASSUME NEW r \in Rid \ {rid} PROVE version_info'[r[2]] = version_info[r[2]]
    OBVIOUS
  <2>1. r[2] # rid[2] /\ r[2] \in Slot
    BY SlotsApart DEF Rid
  <2> QED BY <1>10, <1>11, <2>1
<1>14. \A r \in Rid \ {rid} : Keeps(r)
  BY <1>1, <1>8, <1>13, StatementKeeps
<1>15. committed[rid] = <<>>
  <2>1. Uncommitted(t) /\ heap[rid].ts = start_ts[t] /\ ~Wrote(t, rid)
    BY <1>1, <1>3, RunningFacts, OwnRecord DEF SnapInv, Wrote, Linking
  <2> QED BY <2>1 DEF SnapInv, SerialInv, HeapInv
<1>16. \A s \in Nat : HasTrail(s, rid)'
  <2> SUFFICES ASSUME NEW s \in Nat PROVE HasTrail(s, rid)'
    OBVIOUS
  <2>1. Right(s, rid, NoRow)
    <3>1. Earlier(s, rid) = {}
      BY <1>15 DEF Earlier
    <3> QED BY <3>1 DEF Right, LastBefore
  <2>2. Right(s, rid, NoRow)'
    BY <1>1, <2>1, RightKept
  <2>3. LogAt(new)' = log /\ Exists(new)' /\ new # NoLink
    BY <1>8, <1>9, LinkIsValid DEF LogAt, Exists
  <2>4. OwnOnly(rid, 0)' /\ Sees(s, 0)'
    BY <1>1, <1>7 DEF OwnOnly, Sees, mgrVars
  <2>5. PICK D : D = {new}
    OBVIOUS
  <2>6. Right(s, rid, LogRow(log))' /\ OwnOnly(rid, log.ts)' /\ Sees(s, log.ts)'
    BY <1>5, <2>2, <2>4
  <2>7. OnTrail(s, rid, D, new)'
    BY <2>3, <2>6 DEF OnTrail
  <2>8. Trail(s, rid, D)'
    BY <1>12, <2>5, <2>7 DEF Trail
  <2> QED BY <1>12, <2>5, <2>8 DEF HasTrail
<1>17. PICK c : c = heap[rid]
  OBVIOUS
<1>18. Sound(rid, c)'
  <2>1. c.val.tail = Zero
    BY <1>17 DEF SnapInv, HeapSound
  <2> QED BY <1>1, <1>3, <1>16, <1>17, <2>1, OwnRecord, HeadSound
<1>19. HeapSound'
  <2> SUFFICES ASSUME NEW r \in Rid
               PROVE  heap[r].val.tail = Zero /\ (Settled(r)' => Sound(r, heap[r])')
    BY <1>1 DEF HeapSound
  <2>0. heap[r].val.tail = Zero
    BY DEF SnapInv, HeapSound
  <2>1. CASE r = rid
    <3>1. c = heap'[r]
      BY <1>1, <1>17, <2>1
    <3> QED BY <1>18, <2>0, <2>1, <3>1
  <2>2. CASE r # rid
    <3>1. PICK d : d = heap[r]
      OBVIOUS
    <3>2. d = heap'[r]
      BY <1>1, <3>1
    <3>3. Settled(r)' => Settled(r)
      BY <1>1, <1>2, <1>4, <2>2 DEF Settled
    <3>4. Settled(r)' => Sound(r, d)'
      BY <1>14, <2>2, <3>1, <3>3, SoundKept DEF SnapInv, HeapSound
    <3> QED BY <2>0, <3>2, <3>4
  <2> QED BY <2>1, <2>2
<1>20. RawSound'
  <2> SUFFICES ASSUME NEW u \in Txn, Uncommitted(u)'
               PROVE  /\ \A i \in DOMAIN write_set'[u] : Sound(write_set[u][i].rid, write_set[u][i].raw)'
                      /\ job'[u].at # "link"
    BY DEF RawSound
  <2>1. Uncommitted(u)
    BY <1>1 DEF Uncommitted, Begun, mgrVars
  <2>2. job'[u].at # "link"
    BY <1>4 DEF OthersQuiet, Quiet
  <2>3. ASSUME NEW i \in DOMAIN write_set[u] PROVE Sound(write_set[u][i].rid, write_set[u][i].raw)'
    <3>1. PICK w : w = write_set[u][i]
      OBVIOUS
    <3>2. w.rid \in Rid /\ w.rid \in Written(u)
      BY <3>1, RawTyped
    <3>3. w.rid # rid
      BY <1>1, <1>3, <2>1, <3>2 DEF SnapInv, SerialInv, MineInv
    <3>4. Sound(w.rid, w.raw)
      BY <2>1, <3>1 DEF SnapInv, RawSound
    <3>5. Sound(w.rid, w.raw)'
      BY <1>14, <3>2, <3>3, <3>4, SoundKept DEF SnapInv
    <3>6. w = write_set'[u][i]
      BY <1>1, <3>1
    <3> QED BY <3>5, <3>6
  <2> QED BY <1>1, <2>2, <2>3
<1>21. OwnRows'
  BY <1>1 DEF SnapInv, OwnRows, mgrVars, RowOf
<1>22. StmtSound'
  BY <1>4, OthersFacts, IdleFacts DEF StmtSound
<1> QED BY <1>8, <1>19, <1>20, <1>21, <1>22 DEF SnapInv

\* The new undo log shows to everybody what the record showed that it is made of.
LEMMA LinkTrail ==
    ASSUME SnapInv, UNCHANGED <<mgrVars, undo_logs, mine, committed>>, NEW rid \in Rid,
           NEW raw, Sound(rid, raw), NEW new \in Links, new # NoLink, Exists(new),
           Matches(LogAt(new), raw, rid[2]), version_info'[rid[2]] = new,
           NEW s \in Nat, Reader(s, rid)
    PROVE  HasTrail(s, rid)'
<1>1. PICK log : log = LogAt(new)
  OBVIOUS
<1>2. log.ts = raw.ts /\ LogRow(log) = RowOf(raw) /\ log.prev = version_info[rid[2]]
  BY <1>1 DEF Matches
<1>3. OwnOnly(rid, log.ts) /\ Shows(s, rid, raw)
  BY <1>2 DEF Sound
<1>4. PICK D \in SUBSET Links : new \in D /\ \A link \in D : OnTrail(s, rid, D, link)
  <2>1. CASE Sees(s, raw.ts)
    <3>1. Right(s, rid, LogRow(log))
      BY <1>2, <1>3, <2>1 DEF Shows
    <3>2. OnTrail(s, rid, {new}, new)
      BY <1>1, <1>2, <1>3, <2>1, <3>1 DEF OnTrail
    <3> QED BY <3>2
  <2>2. CASE ~Sees(s, raw.ts)
    <3>1. PICK E \in SUBSET Links : Trail(s, rid, E)
      BY <1>3, <2>2 DEF Shows, HasTrail
    <3> DEFINE D == E \cup {new}
    <3>2. OnTrail(s, rid, D, new)
      BY <1>1, <1>2, <1>3, <2>2, <3>1 DEF OnTrail, Trail
    <3>3. ASSUME NEW link \in E PROVE OnTrail(s, rid, D, link)
      BY <3>1 DEF OnTrail, Trail
    <3>4. D \in SUBSET Links /\ new \in D
      OBVIOUS
    <3> QED BY <3>2, <3>3, <3>4
  <2> QED BY <2>1, <2>2
<1>5. ASSUME NEW link \in D PROVE OnTrail(s, rid, D, link)'
  <2>1. OnTrail(s, rid, D, link)
    BY <1>4
  <2>2. PICK l : l = LogAt(link)
    OBVIOUS
  <2>3. l = LogAt(link)' /\ Exists(link)'
    BY <2>1, <2>2 DEF LogAt, Exists, OnTrail
  <2>4. /\ OwnOnly(rid, l.ts)' <=> OwnOnly(rid, l.ts)
        /\ Sees(s, l.ts)' <=> Sees(s, l.ts)
    BY HeadSame
  <2>5. Right(s, rid, LogRow(l))' <=> Right(s, rid, LogRow(l))
    BY RightKept
  <2>6. OwnOnly(rid, l.ts)' /\ IF Sees(s, l.ts)' THEN Right(s, rid, LogRow(l))' ELSE l.prev \in D
    BY <2>1, <2>2, <2>4, <2>5 DEF OnTrail
  <2> QED BY <2>1, <2>3, <2>6 DEF OnTrail
<1>6. Trail(s, rid, D)'
  BY <1>4, <1>5 DEF Trail
<1> QED BY <1>6 DEF HasTrail

LEMMA SnapLinkRow ==
    ASSUME OneTable, SnapInv, SerialInv', NEW t \in Txn, OthersQuiet(t), LinkRow(t)
    PROVE  SnapInv'
<1>1. /\ call[t] = "running" /\ job[t].at = "link" /\ job[t].rid \in Rid
      /\ job' = [job EXCEPT ![t] = Idle]
      /\ UNCHANGED <<mgrVars, heap, undo_logs, mine, committed>>
  BY DEF LinkRow, At, SnapInv, SerialInv, ChainInv, JobInv
<1>2. PICK rid \in Rid : rid = job[t].rid
  BY <1>1
<1>3. PICK raw : raw = job[t].raw
  OBVIOUS
<1>4. Uncommitted(t)
  BY <1>1, RunningFacts DEF SnapInv
<1>5. Sound(rid, raw)
  BY <1>1, <1>2, <1>3, <1>4 DEF SnapInv, RawSound
<1>6. rid \in DOMAIN mine[t]
  <2>1. Wrote(t, rid)
    BY <1>1, <1>2 DEF Wrote, Linking
  <2> QED BY <2>1 DEF SnapInv, SerialInv, MineInv
<1>7. job'[t].at = "idle" /\ \A u \in Txn \ {t} : job'[u] = job[u]
  BY <1>1, IdleMoves DEF SnapInv, SerialInv, ChainInv
<1>8. LogsKept /\ LogsOwn'
  BY <1>1, LogsSame DEF SnapInv
<1>9. PICK new : new = <<t, Len(undo_logs[t])>>
  OBVIOUS
<1>10. version_info' = [version_info EXCEPT ![rid[2]] = new]
  BY <1>2, <1>9 DEF LinkRow, UpdateVersionLink
<1>11. rid[2] \in Slot /\ version_info \in [Slot -> Links] /\ version_info' \in [Slot -> Links]
  BY DEF Rid, SnapInv, SerialInv, ChainInv, RowTypes
<1>12. version_info'[rid[2]] = new /\ new \in Links
  BY <1>10, <1>11
<1>13. new # NoLink /\ Exists(new) /\ LogAt(new) = undo_logs[t][Len(undo_logs[t])]
  <2>1. undo_logs[t] \in Seq(LogRecords) /\ Len(undo_logs[t]) > 0
    BY <1>1 DEF SnapInv, SerialInv, ChainInv, JobInv, RowTypes
  <2>2. Len(undo_logs[t]) \in DOMAIN undo_logs[t]
    BY <2>1
  <2> QED BY <1>9, <2>2, LinkIsValid DEF Exists, LogAt
<1>14. Matches(LogAt(new), raw, rid[2])
  BY <1>1, <1>2, <1>3, <1>13 DEF SnapInv, StmtSound, StmtFacts
<1>15. \A r \in Rid \ {rid} : version_info'[r[2]] = version_info[r[2]]
  <2> SUFFICES ASSUME NEW r \in Rid \ {rid} PROVE version_info'[r[2]] = version_info[r[2]]
    OBVIOUS
  <2>1. r[2] # rid[2] /\ r[2] \in Slot
    BY SlotsApart DEF Rid
  <2> QED BY <1>10, <1>11, <2>1
<1>16. \A r \in Rid \ {rid} : Keeps(r)
  BY <1>1, <1>8, <1>15, StatementKeeps
<1>17. \A s \in Nat : Reader(s, rid) => HasTrail(s, rid)'
  BY <1>1, <1>5, <1>12, <1>13, <1>14, LinkTrail
<1>18. ASSUME NEW rec, Sound(rid, rec) PROVE Sound(rid, rec)'
  <2>1. \A s \in Nat : Reader(s, rid) /\ Sees(s, rec.ts) => Right(s, rid, RowOf(rec))
    BY <1>18 DEF Sound, Shows
  <2> QED BY <1>1, <1>17, <1>18, <2>1, HeadSound DEF Sound
<1>19. PICK c : c = heap[rid]
  OBVIOUS
<1>20. Sound(rid, c)'
  <2>1. c.val.tail = Zero
    BY <1>19 DEF SnapInv, HeapSound
  <2> QED BY <1>1, <1>6, <1>17, <1>19, <2>1, OwnRecord, HeadSound
<1>21. ASSUME NEW r \in Rid, NEW rec, Sound(r, rec) PROVE Sound(r, rec)'
  <2>1. CASE r = rid
    BY <1>18, <1>21, <2>1
  <2>2. CASE r # rid
    BY <1>16, <1>21, <2>2, SoundKept DEF SnapInv
  <2> QED BY <2>1, <2>2
<1>22. HeapSound'
  <2> SUFFICES ASSUME NEW r \in Rid
               PROVE  heap[r].val.tail = Zero /\ (Settled(r)' => Sound(r, heap[r])')
    BY <1>1 DEF HeapSound
  <2>0. heap[r].val.tail = Zero
    BY DEF SnapInv, HeapSound
  <2>1. CASE r = rid
    <3>1. c = heap'[r]
      BY <1>1, <1>19, <2>1
    <3> QED BY <1>20, <2>0, <2>1, <3>1
  <2>2. CASE r # rid
    <3>1. PICK d : d = heap[r]
      OBVIOUS
    <3>2. d = heap'[r]
      BY <1>1, <3>1
    <3>3. Settled(r)' => Settled(r)
      BY <1>1, <1>2, <1>7, <2>2 DEF Settled
    <3>4. Settled(r)' => Sound(r, d)'
      BY <1>21, <3>1, <3>3 DEF SnapInv, HeapSound
    <3> QED BY <2>0, <3>2, <3>4
  <2> QED BY <2>1, <2>2
<1>23. /\ DOMAIN write_set'[t] = DOMAIN write_set[t] \cup {Len(write_set[t]) + 1}
       /\ write_set'[t][Len(write_set[t]) + 1].rid = rid
       /\ write_set'[t][Len(write_set[t]) + 1].raw = raw
       /\ \A i \in DOMAIN write_set[t] : write_set'[t][i] = write_set[t][i]
       /\ \A u \in Txn \ {t} : write_set'[u] = write_set[u]
  <2> DEFINE w == [rid |-> rid, raw |-> raw]
             n == Len(write_set[t])
  <2>1. write_set \in [Txn -> Seq(WriteRecords)] /\ write_set[t] \in Seq(WriteRecords)
    BY DEF SnapInv, SerialInv, ChainInv, RowTypes
  <2>2. write_set' = [write_set EXCEPT ![t] = Append(@, w)]
    BY <1>2, <1>3 DEF LinkRow
  <2>3. w.rid = rid /\ w.raw = raw
    OBVIOUS
  <2> HIDE DEF w
  <2>4. write_set'[t] = Append(write_set[t], w) /\ \A u \in Txn \ {t} : write_set'[u] = write_set[u]
    BY <2>1, <2>2
  <2>5. /\ DOMAIN write_set[t] = 1 .. n /\ n \in Nat /\ DOMAIN write_set'[t] = 1 .. (n + 1)
        /\ write_set'[t][n + 1] = w
        /\ \A i \in 1 .. n : write_set'[t][i] = write_set[t][i]
    BY <2>1, <2>4
  <2>6. 1 .. (n + 1) = (1 .. n) \cup {n + 1}
    BY <2>5
  <2> HIDE DEF n
  <2> QED BY <2>3, <2>4, <2>5, <2>6 DEF n
<1>24. RawSound'
  <2> SUFFICES ASSUME NEW u \in Txn, Uncommitted(u)'
               PROVE  /\ \A i \in DOMAIN write_set'[u] : Sound(write_set[u][i].rid, write_set[u][i].raw)'
                      /\ job'[u].at # "link"
    BY DEF RawSound
  <2>1. Uncommitted(u)
    BY <1>1 DEF Uncommitted, Begun, mgrVars
  <2>2. job'[u].at # "link"
    BY <1>7 DEF OthersQuiet, Quiet
  <2>3. ASSUME NEW i \in DOMAIN write_set[u], write_set'[u][i] = write_set[u][i]
        PROVE  Sound(write_set[u][i].rid, write_set[u][i].raw)'
    <3>1. PICK w : w = write_set[u][i]
      OBVIOUS
    <3>2. w.rid \in Rid
      BY <3>1, RawTyped
    <3>3. Sound(w.rid, w.raw)
      BY <2>1, <3>1 DEF SnapInv, RawSound
    <3>4. Sound(w.rid, w.raw)'
      BY <1>21, <3>2, <3>3
    <3>5. w = write_set'[u][i]
      BY <2>3, <3>1
    <3> QED BY <3>4, <3>5
  <2>4. CASE u # t
    BY <1>23, <2>2, <2>3, <2>4
  <2>5. CASE u = t
    <3> SUFFICES ASSUME NEW i \in DOMAIN write_set'[t]
                 PROVE  Sound(write_set[t][i].rid, write_set[t][i].raw)'
      BY <2>2, <2>5
    <3>1. CASE i \in DOMAIN write_set[t]
      BY <1>23, <2>3, <2>5, <3>1
    <3>2. CASE i \notin DOMAIN write_set[t]
      <4>1. write_set'[t][i].rid = rid /\ write_set'[t][i].raw = raw
        BY <1>23, <3>2
      <4>2. Sound(rid, raw)'
        BY <1>5, <1>18
      <4> QED BY <4>1, <4>2
    <3> QED BY <3>1, <3>2
  <2> QED BY <2>4, <2>5
<1>25. OwnRows'
  BY <1>1 DEF SnapInv, OwnRows, mgrVars, RowOf
<1>26. StmtSound'
  BY <1>7, OthersFacts, IdleFacts DEF StmtSound
<1> QED BY <1>8, <1>22, <1>24, <1>25, <1>26 DEF SnapInv

-----------------------------------------------------------------------------
(***************************************************************************)
(* Begin, and the ends of a transaction other than commit.                 *)
(***************************************************************************)
\* Every timestamp in use was handed out.
LEMMA KnownOld ==
    ASSUME SerialInv, NEW ts, Known(ts)
    PROVE  ts \in Nat /\ ts < next_timestamp
<1>1. MgrInv /\ next_timestamp \in Nat /\ next_timestamp > 1
  BY DEF SerialInv, ChainInv, Phases, MgrInv, MgrTypeOK
<1>2. ASSUME NEW u \in Txn, Begun(u), commit_ts[u] # INVALID_TS
      PROVE  commit_ts[u] \in Nat /\ commit_ts[u] < next_timestamp
  BY <1>1, <1>2 DEF MgrInv, MgrTypeOK, Timestamps, Handed, INVALID_TS
<1>3. ASSUME NEW u \in Txn, Begun(u) PROVE start_ts[u] \in Nat /\ start_ts[u] < next_timestamp
  BY <1>1, <1>3 DEF MgrInv, Handed
<1> QED BY <1>1, <1>2, <1>3 DEF Known

LEMMA BetweenSnap ==
    ASSUME SnapInv, SerialInv', UNCHANGED <<heap, version_info, undo_logs, write_set, mine, committed>>,
           \A u \in Txn : job[u].at \notin {"insertlink", "link"} /\ job'[u].at = "idle",
           \A rid \in Rid : Keeps(rid), LogsOwn',
           \A u \in Txn : Uncommitted(u)' => Uncommitted(u) \/ write_set[u] = <<>>,
           \A u \in Txn : call'[u] = "running" => call[u] = "running" \/ mine[u] = <<>>
    PROVE  SnapInv'
<1>1. \A rid \in Rid : Settled(rid)' => Settled(rid)
  BY DEF Settled
<1>2. HeapSound'
  <2> SUFFICES ASSUME NEW rid \in Rid
               PROVE  heap[rid].val.tail = Zero /\ (Settled(rid)' => Sound(rid, heap[rid])')
    BY DEF HeapSound
  <2>1. PICK c : c = heap[rid]
    OBVIOUS
  <2>2. c = heap'[rid]
    BY <2>1
  <2>3. Settled(rid)' => Sound(rid, c)'
    BY <1>1, <2>1, SoundKept DEF SnapInv, HeapSound
  <2>4. heap[rid].val.tail = Zero
    BY DEF SnapInv, HeapSound
  <2> QED BY <2>2, <2>3, <2>4
<1>3. RawSound'
  <2> SUFFICES ASSUME NEW u \in Txn, Uncommitted(u)', NEW i \in DOMAIN write_set[u]
               PROVE  Sound(write_set[u][i].rid, write_set[u][i].raw)'
    BY DEF RawSound
  <2>1. Uncommitted(u)
    OBVIOUS
  <2>2. PICK w : w = write_set[u][i]
    OBVIOUS
  <2>3. Sound(w.rid, w.raw)'
    BY <2>1, <2>2, RawKept
  <2>4. w = write_set'[u][i]
    BY <2>2
  <2> QED BY <2>3, <2>4
<1>4. OwnRows'
  BY DEF SnapInv, OwnRows, RowOf
<1>5. StmtSound'
  BY IdleFacts DEF StmtSound
<1> QED BY <1>2, <1>3, <1>4, <1>5 DEF SnapInv

LEMMA SnapBegin ==
    ASSUME SnapInv, SerialInv', NEW t \in Txn, OthersQuiet(t), Begin(t)
    PROVE  SnapInv'
<1>1. /\ call[t] = "new" /\ begin(t, TRUE)
      /\ UNCHANGED <<heap, version_info, undo_logs, write_set, job, mine, committed>>
  BY DEF Begin, begin, rowVars
<1>2. /\ SerialInv /\ MgrInv /\ ~Begun(t) /\ commit_ts[t] = INVALID_TS
      /\ mine[t] = <<>> /\ write_set[t] = <<>> /\ job[t].at = "idle" /\ next_timestamp \in Nat
  BY <1>1 DEF SnapInv, SerialInv, ChainInv, MgrInv, MgrTypeOK, Handed, Phases
<1>3. /\ next_timestamp' = next_timestamp + 1 /\ commit_ts' = commit_ts
      /\ start_ts'[t] = next_timestamp /\ call'[t] = "running" /\ Begun(t)'
      /\ \A u \in Txn \ {t} : /\ start_ts'[u] = start_ts[u] /\ call'[u] = call[u]
                              /\ Begun(u)' <=> Begun(u)
  BY <1>1, <1>2 DEF begin, ReadTs, Begun, MgrInv, MgrTypeOK
<1>4. \A s, ts : Sees(s, ts)' <=> Sees(s, ts)
  BY <1>2, <1>3 DEF Sees
<1>5. \A ts : Known(ts) => Known(ts)'
  BY <1>2, <1>3 DEF Known
<1>6. \A rid \in Rid : \A ts : Known(ts) /\ OwnOnly(rid, ts) => OwnOnly(rid, ts)'
  <2> SUFFICES ASSUME NEW rid \in Rid, NEW ts, Known(ts), OwnOnly(rid, ts) PROVE OwnOnly(rid, ts)'
    OBVIOUS
  <2>1. ts # start_ts'[t]
    BY <1>2, <1>3, KnownOld
  <2> QED BY <1>1, <1>3, <2>1 DEF OwnOnly
<1>7. \A rid \in Rid : \A s \in Nat : Reader(s, rid)' => Reader(s, rid)
  BY <1>1, <1>2, <1>3 DEF Reader
<1>8. LogsKept
  BY <1>1 DEF LogsKept, Exists, LogAt
<1>9. \A rid \in Rid : Keeps(rid)
  BY <1>1, <1>4, <1>5, <1>6, <1>7, <1>8 DEF Keeps
<1>10. LogsOwn'
  <2> SUFFICES ASSUME NEW u \in Txn, NEW i \in DOMAIN undo_logs[u]
               PROVE  /\ Known(undo_logs[u][i].ts)'
                      /\ \A v \in Txn : call'[v] = "running" /\ undo_logs[u][i].ts = start_ts'[v] => v = u
    BY <1>1 DEF LogsOwn
  <2>1. PICK ts : ts = undo_logs[u][i].ts
    OBVIOUS
  <2>2. Known(ts) /\ \A v \in Txn : call[v] = "running" /\ ts = start_ts[v] => v = u
    BY <2>1 DEF SnapInv, LogsOwn
  <2>3. ts # start_ts'[t]
    BY <1>2, <1>3, <2>2, KnownOld
  <2>4. Known(ts)' /\ ts = undo_logs'[u][i].ts
    BY <1>1, <1>5, <2>1, <2>2
  <2> QED BY <1>3, <2>1, <2>2, <2>3, <2>4
<1>11. \A u \in Txn : job[u].at \notin {"insertlink", "link"} /\ job'[u].at = "idle"
  BY <1>1, <1>2 DEF OthersQuiet, Quiet
<1>12. \A u \in Txn : Uncommitted(u)' => Uncommitted(u) \/ write_set[u] = <<>>
  BY <1>2, <1>3 DEF Uncommitted
<1>13. \A u \in Txn : call'[u] = "running" => call[u] = "running" \/ mine[u] = <<>>
  BY <1>2, <1>3
<1> QED BY <1>1, <1>9, <1>10, <1>11, <1>12, <1>13, BetweenSnap

\* No timestamp is handed out, and nobody begins.
LEMMA EndingKeeps ==
    ASSUME SnapInv, UNCHANGED <<next_timestamp, start_ts, commit_ts, version_info, undo_logs, mine, committed>>,
           \A u \in Txn : /\ Begun(u)' <=> Begun(u)
                          /\ call'[u] = "running" => call[u] = "running"
    PROVE  (\A rid \in Rid : Keeps(rid)) /\ LogsOwn'
<1>1. \A s, ts : Sees(s, ts)' <=> Sees(s, ts)
  BY DEF Sees
<1>2. \A ts : Known(ts) => Known(ts)'
  BY DEF Known
<1>3. \A rid \in Rid : \A ts : OwnOnly(rid, ts) => OwnOnly(rid, ts)'
  BY DEF OwnOnly
<1>4. \A rid \in Rid : \A s \in Nat : Reader(s, rid)' => Reader(s, rid)
  BY DEF Reader
<1>5. LogsKept
  BY DEF LogsKept, Exists, LogAt
<1>6. \A rid \in Rid : Keeps(rid)
  BY <1>1, <1>2, <1>3, <1>4, <1>5 DEF Keeps
<1>7. LogsOwn'
  <2> SUFFICES ASSUME NEW u \in Txn, NEW i \in DOMAIN undo_logs[u]
               PROVE  /\ Known(undo_logs[u][i].ts)'
                      /\ \A v \in Txn : call'[v] = "running" /\ undo_logs[u][i].ts = start_ts[v] => v = u
    BY DEF LogsOwn
  <2>1. PICK ts : ts = undo_logs[u][i].ts
    OBVIOUS
  <2>2. Known(ts) /\ \A v \in Txn : call[v] = "running" /\ ts = start_ts[v] => v = u
    BY <2>1 DEF SnapInv, LogsOwn
  <2>3. Known(ts)' /\ ts = undo_logs'[u][i].ts
    BY <1>2, <2>1, <2>2
  <2> QED BY <2>1, <2>2, <2>3
<1> QED BY <1>6, <1>7

LEMMA SnapAbort ==
    ASSUME SnapInv, SerialInv', NEW t \in Txn, OthersQuiet(t), Abort(t)
    PROVE  SnapInv'
<1>1. /\ job[t].at \in {"idle", "throw", "invisible"} /\ AbortState(t)
      /\ job' = [job EXCEPT ![t] = Idle]
      /\ UNCHANGED <<heap, version_info, undo_logs, write_set, mine, committed>>
  BY DEF Abort
<1>2. MgrInv
  BY DEF SnapInv, SerialInv, ChainInv
<1>3. /\ UNCHANGED <<next_timestamp, start_ts, commit_ts>>
      /\ \A u \in Txn : /\ Begun(u)' <=> Begun(u)
                        /\ call'[u] = "running" => call[u] = "running"
  BY <1>1, <1>2 DEF AbortState, Begun, MgrInv, MgrTypeOK, Handed
<1>4. job'[t].at = "idle" /\ \A u \in Txn \ {t} : job'[u] = job[u]
  BY <1>1, IdleMoves DEF SnapInv, SerialInv, ChainInv
<1>5. \A u \in Txn : job[u].at \notin {"insertlink", "link"} /\ job'[u].at = "idle"
  BY <1>1, <1>4 DEF OthersQuiet, Quiet
<1>6. (\A rid \in Rid : Keeps(rid)) /\ LogsOwn'
  BY <1>1, <1>3, EndingKeeps
<1>7. \A u \in Txn : Uncommitted(u)' => Uncommitted(u)
  BY <1>3 DEF Uncommitted
<1> QED BY <1>1, <1>3, <1>5, <1>6, <1>7, BetweenSnap

LEMMA SnapManager ==
    ASSUME SnapInv, SerialInv', NEW t \in Txn, OthersQuiet(t), ManagerStep(t)
    PROVE  SnapInv'
<1>1. /\ CommitRecord(t) \/ CommitState(t) \/ AbortErase(t) \/ AbortRecord(t)
      /\ UNCHANGED <<heap, version_info, undo_logs, write_set, job, mine, committed>>
  BY DEF ManagerStep, rowVars
<1>2. MgrInv
  BY DEF SnapInv, SerialInv, ChainInv
<1>3. UNCHANGED <<next_timestamp, start_ts, commit_ts>> /\ call[t] \notin {"new", "running"}
  BY <1>1 DEF CommitRecord, CommitState, AbortErase, AbortRecord
<1>4. \A u \in Txn : /\ Begun(u)' <=> Begun(u)
                     /\ call'[u] = "running" => call[u] = "running"
  <2>1. state \in [Txn -> {"none", "DEFAULT", "COMMITTED", "ABORTED"}] /\ call \in [Txn -> Calls] /\ Begun(t)
    BY <1>2, <1>3 DEF MgrInv, MgrTypeOK, Handed
  <2>2. CASE CommitRecord(t)
    BY <2>1, <2>2 DEF CommitRecord, Begun
  <2>3. CASE CommitState(t)
    BY <2>1, <2>3 DEF CommitState, Begun
  <2>4. CASE AbortErase(t)
    BY <2>1, <2>4 DEF AbortErase, Begun
  <2>5. CASE AbortRecord(t)
    BY <2>1, <2>5 DEF AbortRecord, Begun
  <2> QED BY <1>1, <2>2, <2>3, <2>4, <2>5
<1>5. \A u \in Txn : job[u].at \notin {"insertlink", "link"} /\ job'[u].at = "idle"
  <2>1. job[t].at = "idle"
    BY <1>3 DEF SnapInv, SerialInv, Phases
  <2> QED BY <1>1, <2>1 DEF OthersQuiet, Quiet
<1>6. (\A rid \in Rid : Keeps(rid)) /\ LogsOwn'
  BY <1>1, <1>3, <1>4, EndingKeeps
<1>7. \A u \in Txn : Uncommitted(u)' => Uncommitted(u)
  BY <1>3, <1>4 DEF Uncommitted
<1> QED BY <1>1, <1>4, <1>5, <1>6, <1>7, BetweenSnap

(***************************************************************************)
(* Abort puts back the records of the write set.                           *)
(***************************************************************************)
LEMMA SoundSame ==
    ASSUME NEW rid, NEW rec, NEW put, Sound(rid, rec),
           put.ts = rec.ts, put.is_deleted = rec.is_deleted, put.val = rec.val
    PROVE  Sound(rid, put)
<1>1. RowOf(put) = RowOf(rec)
  BY DEF RowOf
<1>2. \A s : Shows(s, rid, put) <=> Shows(s, rid, rec)
  BY <1>1 DEF Shows
<1> QED BY <1>2 DEF Sound

LEMMA SnapAbortUndo ==
    ASSUME SnapInv, SerialInv', NEW t \in Txn, OthersQuiet(t), AbortUndo(t)
    PROVE  SnapInv'
<1>1. /\ call[t] = "done" /\ state[t] = "ABORTED" /\ write_set[t] # <<>>
      /\ write_set \in [Txn -> Seq(WriteRecords)] /\ write_set[t] \in Seq(WriteRecords)
      /\ heap \in [Rid -> Cells]
      /\ UNCHANGED <<mgrVars, version_info, undo_logs, job, mine, committed>>
  BY DEF AbortUndo, RollingBack, SnapInv, SerialInv, ChainInv, RowTypes
<1>2. PICK n : n = Len(write_set[t])
  OBVIOUS
<1>3. PICK w : w = write_set[t][n]
  OBVIOUS
<1>4. /\ n \in Nat \ {0} /\ w \in WriteRecords /\ DOMAIN write_set[t] = 1 .. n
  BY <1>1, <1>2, <1>3
<1>5. n \in DOMAIN write_set[t] /\ w.rid \in Rid /\ w.raw \in Cells /\ w.rid \in Written(t)
  BY <1>3, <1>4, RawTyped
<1>6. PICK raw \in Cells : raw = w.raw
  BY <1>5
<1>7. PICK rid \in Rid : rid = w.rid
  BY <1>5
<1>8. PICK cell : cell = [raw EXCEPT !.used = TRUE]
  OBVIOUS
<1>9. cell.ts = raw.ts /\ cell.is_deleted = raw.is_deleted /\ cell.val = raw.val
  BY <1>8 DEF Cells
<1>10. heap' = [heap EXCEPT ![rid] = cell] /\ write_set' = [write_set EXCEPT ![t] = SubSeq(@, 1, n - 1)]
  BY <1>2, <1>3, <1>6, <1>7, <1>8 DEF AbortUndo, LatestWrite
<1>11. heap'[rid] = cell /\ \A r \in Rid \ {rid} : heap'[r] = heap[r]
  BY <1>1, <1>10
<1>12. \A u \in Txn : \A i \in DOMAIN write_set'[u] :
          i \in DOMAIN write_set[u] /\ write_set'[u][i] = write_set[u][i]
  <2>1. write_set'[t] = SubSeq(write_set[t], 1, n - 1)
    BY <1>1, <1>10
  <2>2. \A u \in Txn \ {t} : write_set'[u] = write_set[u]
    BY <1>1, <1>10
  <2>3. DOMAIN write_set'[t] = 1 .. (n - 1) /\ \A i \in 1 .. (n - 1) : write_set'[t][i] = write_set[t][i]
    BY <1>1, <1>2, <1>4, <2>1
  <2>4. \A i \in DOMAIN write_set'[t] : i \in DOMAIN write_set[t]
    BY <1>4, <2>3
  <2> QED BY <2>2, <2>3, <2>4
<1>13. Uncommitted(t)
  BY <1>1 DEF SnapInv, SerialInv, Phases
<1>14. \A u \in Txn : job[u].at = "idle"
  <2>1. job[t].at = "idle"
    BY <1>1 DEF SnapInv, SerialInv, Phases
  <2> QED BY <2>1 DEF OthersQuiet, Quiet
<1>15. LogsKept /\ LogsOwn'
  BY <1>1, LogsSame DEF SnapInv
<1>16. \A r \in Rid : Keeps(r)
  BY <1>1, <1>15, StatementKeeps
<1>17. \A r \in Rid : \A rec : Sound(r, rec) => Sound(r, rec)'
  BY <1>16, SoundKept DEF SnapInv
<1>18. Sound(rid, cell)
  <2>1. Sound(rid, raw)
    BY <1>3, <1>5, <1>6, <1>7, <1>13 DEF SnapInv, RawSound
  <2> QED BY <1>9, <2>1, SoundSame
<1>19. HeapSound'
  <2> SUFFICES ASSUME NEW r \in Rid
               PROVE  heap'[r].val.tail = Zero /\ (Settled(r)' => Sound(r, heap[r])')
    BY DEF HeapSound
  <2>1. CASE r = rid
    <3>1. Sound(rid, cell)' /\ cell.val.tail = Zero
      BY <1>17, <1>18 DEF Sound
    <3> QED BY <1>11, <2>1, <3>1
  <2>2. CASE r # rid
    <3>1. PICK c : c = heap[r]
      OBVIOUS
    <3>2. c = heap'[r]
      BY <1>11, <2>2, <3>1
    <3>3. Settled(r)' => Settled(r)
      BY <1>1, <3>1, <3>2 DEF Settled
    <3>4. c.val.tail = Zero /\ (Settled(r)' => Sound(r, c)')
      BY <1>17, <3>1, <3>3 DEF SnapInv, HeapSound
    <3> QED BY <3>2, <3>4
  <2> QED BY <2>1, <2>2
<1>20. RawSound'
  <2> SUFFICES ASSUME NEW u \in Txn, Uncommitted(u)', NEW i \in DOMAIN write_set'[u]
               PROVE  Sound(write_set[u][i].rid, write_set[u][i].raw)'
    BY <1>1, <1>14 DEF RawSound
  <2>1. Uncommitted(u)
    BY <1>1 DEF Uncommitted, Begun, mgrVars
  <2>2. PICK v : v = write_set[u][i]
    OBVIOUS
  <2>3. v = write_set'[u][i] /\ i \in DOMAIN write_set[u]
    BY <1>12, <2>2
  <2>4. Sound(v.rid, v.raw)'
    BY <1>16, <2>1, <2>2, <2>3, RawKept
  <2> QED BY <2>3, <2>4
<1>21. OwnRows'
  <2> SUFFICES ASSUME NEW u \in Txn, call[u] = "running", NEW r \in DOMAIN mine[u]
               PROVE  heap'[r] = heap[r]
    BY <1>1 DEF SnapInv, OwnRows, mgrVars, RowOf
  <2>1. r \in Rid /\ u # t
    BY <1>1, GhostFacts DEF SnapInv
  <2>2. r \notin Written(t)
    BY <1>13, <2>1 DEF SnapInv, SerialInv, MineInv
  <2> QED BY <1>5, <1>7, <1>11, <2>1, <2>2
<1>22. StmtSound'
  BY <1>1, <1>14, IdleFacts DEF StmtSound
<1> QED BY <1>15, <1>19, <1>20, <1>21, <1>22 DEF SnapInv

-----------------------------------------------------------------------------
(***************************************************************************)
(* Commit.  Who began before it sees nothing more of t than a row that t   *)
(* inserted; who begins later sees all that t has written.                 *)
(***************************************************************************)
LEMMA CommitFacts ==
    ASSUME SnapInv, NEW t \in Txn, OthersQuiet(t), Commit(t)
    PROVE  /\ next_timestamp \in Nat /\ next_timestamp > 1 /\ next_timestamp' = next_timestamp + 1
           /\ call[t] = "running" /\ call'[t] = "commit" /\ start_ts' = start_ts
           /\ commit_ts'[t] = next_timestamp
           /\ \A u \in Txn \ {t} : commit_ts'[u] = commit_ts[u] /\ call'[u] = call[u]
           /\ Begun(t) /\ Uncommitted(t) /\ commit_ts[t] = INVALID_TS
           /\ start_ts[t] \in Nat /\ start_ts[t] < next_timestamp
           /\ \A u \in Txn : Begun(u)' <=> Begun(u)
           /\ \A u \in Txn : Begun(u) => start_ts[u] \in Nat /\ start_ts[u] < next_timestamp
           /\ \A u \in Txn : Begun(u) /\ start_ts[u] = start_ts[t] => u = t
           /\ \A u \in Txn : call[u] = "running" => Begun(u)
           /\ \A u \in Txn : job[u].at = "idle"
           /\ UNCHANGED <<version_info, write_set, job, mine>>
<1>1. SerialInv /\ MgrInv
  BY DEF SnapInv, SerialInv, ChainInv
<1>2. /\ call \in [Txn -> Calls] /\ commit_ts \in [Txn -> Timestamps]
      /\ \A u \in Txn : Begun(u) => start_ts[u] \in Nat /\ start_ts[u] < next_timestamp
  BY <1>1 DEF MgrInv, MgrTypeOK, Handed
<1>3. call[t] = "running" /\ call' = [call EXCEPT ![t] = "commit"]
  <2>1. call[t] \in {"running", "reply"} /\ call[t] # "reply" /\ (call[t] = "running" => txn_mode[t] = TRUE)
    BY <1>1 DEF SerialInv, Phases, Commit, CommitStamp
  <2> QED BY <2>1 DEF Commit, CommitStamp
<1>4. /\ next_timestamp' = next_timestamp + 1 /\ start_ts' = start_ts /\ state' = state
      /\ commit_ts' = [commit_ts EXCEPT ![t] = next_timestamp]
      /\ job[t].at = "idle" /\ UNCHANGED <<version_info, write_set, job, mine>>
  BY DEF Commit, CommitStamp
<1>5. /\ call'[t] = "commit" /\ commit_ts'[t] = next_timestamp
      /\ \A u \in Txn \ {t} : commit_ts'[u] = commit_ts[u] /\ call'[u] = call[u]
  BY <1>2, <1>3, <1>4
<1>6. \A u \in Txn : Begun(u)' <=> Begun(u)
  BY <1>4 DEF Begun
<1>7. next_timestamp \in Nat /\ next_timestamp > 1
  BY <1>1 DEF SerialInv, Phases, MgrInv, MgrTypeOK
<1>8. Begun(t) /\ Uncommitted(t) /\ commit_ts[t] = INVALID_TS
  BY <1>1, <1>3, RunningFacts DEF Uncommitted
<1>9. \A u \in Txn : call[u] = "running" => Begun(u)
  BY <1>1, RunningFacts
<1>10. \A u \in Txn : Begun(u) /\ start_ts[u] = start_ts[t] => u = t
  BY <1>1, <1>8 DEF MgrInv, Apart
<1>11. \A u \in Txn : job[u].at = "idle"
  BY <1>4 DEF OthersQuiet, Quiet
<1> QED BY <1>2, <1>3, <1>4, <1>5, <1>6, <1>7, <1>8, <1>9, <1>10, <1>11

LEMMA CommitSees ==
    ASSUME SnapInv, NEW t \in Txn, OthersQuiet(t), Commit(t), NEW s \in Nat,
           NEW n, n = next_timestamp
    PROVE  /\ \A ts : Known(ts) => (Sees(s, ts)' <=> Sees(s, ts) \/ (ts = start_ts[t] /\ ts < s))
           /\ Sees(s, n)' <=> n < s
<1>1. /\ next_timestamp \in Nat /\ next_timestamp > 1 /\ start_ts' = start_ts
      /\ commit_ts'[t] = next_timestamp /\ Begun(t) /\ commit_ts[t] = INVALID_TS
      /\ \A u \in Txn \ {t} : commit_ts'[u] = commit_ts[u]
      /\ \A u \in Txn : Begun(u)' <=> Begun(u)
  BY CommitFacts
<1>2. n # INVALID_TS /\ n # 0
  BY <1>1 DEF INVALID_TS
<1>3. ASSUME NEW ts, Known(ts)
      PROVE  Sees(s, ts)' <=> Sees(s, ts) \/ (ts = start_ts[t] /\ ts < s)
  <2>1. ts # n
    BY <1>1, <1>3, KnownOld DEF SnapInv
  <2> QED BY <1>1, <1>2, <2>1 DEF Sees
<1>4. Sees(s, n)' <=> n < s
  BY <1>1, <1>2 DEF Sees
<1> QED BY <1>3, <1>4

\* The timestamps in use, and who reads on.
LEMMA CommitKnown ==
    ASSUME SnapInv, NEW t \in Txn, OthersQuiet(t), Commit(t), NEW rid, NEW n, n = next_timestamp
    PROVE  /\ \A ts : Known(ts) => Known(ts)'
           /\ Known(n)'
           /\ \A ts : OwnOnly(rid, ts) => OwnOnly(rid, ts)'
           /\ OwnOnly(rid, n)'
           /\ \A s \in Nat : Reader(s, rid)' => n < s \/ (s < n /\ Reader(s, rid))
<1>1. /\ n \in Nat /\ n > 1 /\ next_timestamp' = n + 1 /\ start_ts' = start_ts
      /\ commit_ts'[t] = n /\ Begun(t) /\ commit_ts[t] = INVALID_TS
      /\ \A u \in Txn \ {t} : commit_ts'[u] = commit_ts[u] /\ call'[u] = call[u]
      /\ \A u \in Txn : Begun(u)' <=> Begun(u)
      /\ \A u \in Txn : Begun(u) => start_ts[u] \in Nat /\ start_ts[u] < n
      /\ \A u \in Txn : call[u] = "running" => Begun(u)
      /\ call'[t] = "commit" /\ mine' = mine
  BY CommitFacts
<1>2. n # INVALID_TS
  BY <1>1 DEF INVALID_TS
<1>3. \A ts : Known(ts) => Known(ts)'
  BY <1>1 DEF Known
<1>4. Known(n)'
  BY <1>1, <1>2 DEF Known
<1>5. \A ts : OwnOnly(rid, ts) => OwnOnly(rid, ts)'
  BY <1>1 DEF OwnOnly
<1>6. OwnOnly(rid, n)'
  BY <1>1 DEF OwnOnly
<1>7. ASSUME NEW s \in Nat, Reader(s, rid)' PROVE n < s \/ (s < n /\ Reader(s, rid))
  <2>1. CASE s >= next_timestamp'
    BY <1>1, <2>1
  <2>2. CASE \E r \in Txn : call'[r] = "running" /\ s = start_ts'[r] /\ rid \notin DOMAIN mine'[r]
    <3>1. PICK r \in Txn : call'[r] = "running" /\ s = start_ts'[r] /\ rid \notin DOMAIN mine'[r]
      BY <2>2
    <3> QED BY <1>1, <3>1 DEF Reader
  <2> QED BY <1>7, <2>1, <2>2 DEF Reader
<1> QED BY <1>3, <1>4, <1>5, <1>6, <1>7

(***************************************************************************)
(* The undo logs of t, and no others, carry its start timestamp.           *)
(***************************************************************************)
LEMMA CommitLogs ==
    ASSUME SnapInv, NEW t \in Txn, OthersQuiet(t), Commit(t), NEW u \in Txn,
           NEW i \in DOMAIN undo_logs[u]
    PROVE  /\ undo_logs'[u][i].prev = undo_logs[u][i].prev
           /\ LogRow(undo_logs'[u][i]) = LogRow(undo_logs[u][i])
           /\ undo_logs'[u][i].ts = IF undo_logs[u][i].ts = start_ts[t] THEN next_timestamp
                                    ELSE undo_logs[u][i].ts
<1>1. undo_logs \in [Txn -> Seq(LogRecords)] /\ undo_logs[u] \in Seq(LogRecords)
  BY DEF SnapInv, SerialInv, ChainInv, RowTypes
<1>2. PICK log \in LogRecords : log = undo_logs[u][i]
  BY <1>1
<1>3. PICK new : new = [log EXCEPT !.ts = next_timestamp]
  OBVIOUS
<1>4. /\ new.ts = next_timestamp /\ new.prev = log.prev
      /\ new.is_deleted = log.is_deleted /\ new.val = log.val
  BY <1>3 DEF LogRecords
<1>5. LogRow(new) = LogRow(log)
  BY <1>4 DEF LogRow, ReconstructTupleFromUndoLog
<1>6. undo_logs' = StampLogs(t, next_timestamp)
  BY DEF Commit
<1>7. CASE u = t
  <2>1. undo_logs'[t][i] = IF log.ts = start_ts[t] THEN new ELSE log
    BY <1>1, <1>2, <1>3, <1>6, <1>7 DEF StampLogs
  <2> QED BY <1>2, <1>4, <1>5, <1>7, <2>1
<1>8. CASE u # t
  <2>1. undo_logs'[u] = undo_logs[u]
    BY <1>1, <1>6, <1>8 DEF StampLogs
  <2>2. undo_logs[u][i].ts # start_ts[t]
    BY <1>8, CommitFacts DEF SnapInv, LogsOwn
  <2> QED BY <2>1, <2>2
<1> QED BY <1>7, <1>8

(***************************************************************************)
(* The rows: those t has written get a version and, if they are in its     *)
(* write set, its commit timestamp.                                        *)
(***************************************************************************)
LEMMA CommitOther ==
    ASSUME SnapInv, NEW t \in Txn, OthersQuiet(t), Commit(t), NEW rid \in Rid,
           rid \notin DOMAIN mine[t]
    PROVE  heap'[rid] = heap[rid] /\ committed'[rid] = committed[rid]
<1>1. rid \notin Written(t)
  BY DEF SnapInv, SerialInv, MineInv, Wrote
<1> QED BY <1>1 DEF Commit, StampHeap

LEMMA CommitOwn ==
    ASSUME SnapInv, NEW t \in Txn, OthersQuiet(t), Commit(t), NEW rid \in DOMAIN mine[t],
           NEW n, n = next_timestamp, NEW k, k = Len(committed[rid])
    PROVE  /\ rid \in Rid /\ heap[rid].ts = start_ts[t]
           /\ heap'[rid].used = heap[rid].used /\ heap'[rid].val = heap[rid].val
           /\ RowOf(heap'[rid]) = mine[t][rid]
           /\ heap'[rid].ts = IF rid \in Written(t) THEN n ELSE start_ts[t]
           /\ rid \notin Written(t) => committed[rid] = <<>>
           /\ k \in Nat /\ DOMAIN committed[rid] = 1 .. k /\ DOMAIN committed'[rid] = 1 .. (k + 1)
           /\ \A i \in 1 .. k : committed'[rid][i] = committed[rid][i]
           /\ committed'[rid][k + 1].start = start_ts[t] /\ committed'[rid][k + 1].ts = n
           /\ committed'[rid][k + 1].val = mine[t][rid]
           /\ committed'[rid][k + 1].insert = (rid \notin Written(t))
<1>1. call[t] = "running" /\ Uncommitted(t) /\ job[t].at = "idle"
  BY CommitFacts
<1>2. /\ rid \in Rid /\ heap[rid].ts = start_ts[t] /\ heap[rid].used
      /\ mine[t][rid] = RowOf(heap[rid])
  BY <1>1, GhostFacts DEF SnapInv, SerialInv, MineInv, OwnRows
<1>3. PICK c \in Cells : c = heap[rid]
  BY <1>2 DEF SnapInv, SerialInv, ChainInv, RowTypes
<1>4. PICK d : d = [c EXCEPT !.ts = n]
  OBVIOUS
<1>5. d.ts = n /\ d.used = c.used /\ d.is_deleted = c.is_deleted /\ d.val = c.val
  BY <1>4 DEF Cells
<1>6. heap'[rid] = IF rid \in Written(t) THEN d ELSE c
  BY <1>2, <1>3, <1>4 DEF Commit, StampHeap
<1>7. /\ heap'[rid].used = heap[rid].used /\ heap'[rid].val = heap[rid].val
      /\ heap'[rid].is_deleted = heap[rid].is_deleted
      /\ heap'[rid].ts = IF rid \in Written(t) THEN n ELSE start_ts[t]
  BY <1>2, <1>3, <1>5, <1>6
<1>8. RowOf(heap'[rid]) = mine[t][rid]
  BY <1>2, <1>7 DEF RowOf
<1>9. rid \notin Written(t) => committed[rid] = <<>>
  BY <1>1, <1>2 DEF SnapInv, SerialInv, HeapInv, Wrote, Linking
<1>10. PICK v : v = [start |-> start_ts[t], ts |-> n, insert |-> rid \notin Written(t),
                     val |-> mine[t][rid]]
  OBVIOUS
<1>11. /\ v.start = start_ts[t] /\ v.ts = n /\ v.insert = (rid \notin Written(t))
       /\ v.val = mine[t][rid]
  BY <1>10
<1>12. committed[rid] \in Seq(Versions) /\ committed'[rid] = Append(committed[rid], v)
  BY <1>2, <1>10 DEF SnapInv, SerialInv, GhostTypes, Commit
<1>13. /\ k \in Nat /\ DOMAIN committed[rid] = 1 .. k /\ DOMAIN committed'[rid] = 1 .. (k + 1)
       /\ \A i \in 1 .. k : committed'[rid][i] = committed[rid][i]
       /\ committed'[rid][k + 1] = v
  BY <1>12
<1> QED BY <1>2, <1>7, <1>8, <1>9, <1>11, <1>13

LEMMA LatestExists ==
    ASSUME NEW k \in Nat, NEW S \in SUBSET (1 .. k), S # {}
    PROVE  \E i \in S : \A j \in S : j <= i
<1> DEFINE Down == {k - i : i \in S}
<1>1. Down \in SUBSET Nat /\ Down # {}
  <2>1. \A i \in S : i \in Nat /\ i <= k /\ k - i \in Nat
    OBVIOUS
  <2>2. PICK i : i \in S
    OBVIOUS
  <2>3. k - i \in Down
    BY <2>2
  <2> QED BY <2>1, <2>3
<1>2. Lowest(Down) \in Down /\ \A d \in Down : Lowest(Down) <= d
  BY <1>1, LowestIsLeast
<1>3. PICK i \in S : Lowest(Down) = k - i
  BY <1>2
<1>4. \A j \in S : k - i <= k - j
  BY <1>2, <1>3
<1>5. \A j \in S : j \in Int
  OBVIOUS
<1> QED BY <1>3, <1>4, <1>5

\* What was right for a reader that began before is right still.
LEMMA CommitRight ==
    ASSUME SnapInv, NEW t \in Txn, OthersQuiet(t), Commit(t), NEW rid \in Rid, NEW s \in Nat,
           s < next_timestamp \/ rid \notin DOMAIN mine[t], NEW row, Right(s, rid, row)
    PROVE  Right(s, rid, row)'
<1>1. CASE rid \notin DOMAIN mine[t]
  BY <1>1, CommitOther, RightKept
<1>2. CASE rid \in DOMAIN mine[t]
  <2>1. PICK n : n = next_timestamp
    OBVIOUS
  <2>2. PICK k : k = Len(committed[rid])
    OBVIOUS
  <2>3. /\ k \in Nat /\ DOMAIN committed[rid] = 1 .. k /\ DOMAIN committed'[rid] = 1 .. (k + 1)
        /\ \A i \in 1 .. k : committed'[rid][i] = committed[rid][i]
        /\ committed'[rid][k + 1].ts = n
    BY <1>2, <2>1, <2>2, CommitOwn
  <2>4. n \in Nat /\ s < n
    BY <1>2, <2>1, CommitFacts
  <2>5. ~(n < s)
    BY <2>4
  <2>6. \A i : i \in 1 .. (k + 1) <=> i \in 1 .. k \/ i = k + 1
    BY <2>3
  <2>7. Earlier(s, rid)' = Earlier(s, rid)
    BY <2>3, <2>5, <2>6 DEF Earlier
  <2>8. Earlier(s, rid) \subseteq 1 .. k
    BY <2>3 DEF Earlier
  <2>9. LastBefore(s, rid)' = LastBefore(s, rid)
    <3>1. CASE Earlier(s, rid) = {}
      BY <2>7, <3>1 DEF LastBefore
    <3>2. CASE Earlier(s, rid) # {}
      <4> DEFINE m == CHOOSE i \in Earlier(s, rid) : \A j \in Earlier(s, rid) : j <= i
      <4>1. \E i \in Earlier(s, rid) : \A j \in Earlier(s, rid) : j <= i
        BY <2>3, <2>8, <3>2, LatestExists
      <4>2. m \in 1 .. k
        BY <2>8, <4>1
      <4>3. LastBefore(s, rid) = committed[rid][m].val
        BY <3>2 DEF LastBefore
      <4>4. LastBefore(s, rid)' = committed'[rid][m].val
        BY <2>7, <3>2, Zenon DEF LastBefore
      <4> HIDE DEF m
      <4> QED BY <2>3, <4>2, <4>3, <4>4
    <3> QED BY <3>1, <3>2
  <2>10. Meanwhile(s, rid, row) => Meanwhile(s, rid, row)'
    <3> SUFFICES ASSUME Meanwhile(s, rid, row) PROVE Meanwhile(s, rid, row)'
      OBVIOUS
    <3>1. PICK i \in 1 .. k : /\ committed[rid][i].insert /\ committed[rid][i].start < s
                              /\ s < committed[rid][i].ts
      BY <2>3 DEF Meanwhile
    <3>2. PICK j \in 1 .. k : row = committed[rid][j].val
      BY <2>3 DEF Meanwhile
    <3>3. i \in DOMAIN committed'[rid] /\ j \in DOMAIN committed'[rid]
      BY <2>3, <2>6
    <3> QED BY <2>3, <3>1, <3>2, <3>3 DEF Meanwhile
  <2> QED BY <2>9, <2>10 DEF Right
<1> QED BY <1>1, <1>2

\* A reader walks on along the trail it had: it saw no log of t, and sees none now.
LEMMA CommitTrail ==
    ASSUME SnapInv, NEW t \in Txn, OthersQuiet(t), Commit(t), NEW rid \in Rid, NEW s \in Nat,
           s < next_timestamp \/ rid \notin DOMAIN mine[t], HasTrail(s, rid)
    PROVE  HasTrail(s, rid)'
<1>1. PICK D \in SUBSET Links : Trail(s, rid, D)
  BY DEF HasTrail
<1>2. PICK n : n = next_timestamp
  OBVIOUS
<1>3. n \in Nat /\ call[t] = "running" /\ version_info' = version_info /\ SerialInv
  BY <1>2, CommitFacts DEF SnapInv
<1>4. ASSUME NEW link \in D PROVE OnTrail(s, rid, D, link)'
  <2>1. OnTrail(s, rid, D, link)
    BY <1>1 DEF Trail
  <2>2. link # NoLink /\ Exists(link) /\ Known(LogAt(link).ts)
    BY <2>1, LogKnown DEF OnTrail, SnapInv
  <2>3. PICK log : log = LogAt(link)
    OBVIOUS
  <2>4. PICK new : new = LogAt(link)'
    OBVIOUS
  <2>5. /\ new.prev = log.prev /\ LogRow(new) = LogRow(log)
        /\ new.ts = IF log.ts = start_ts[t] THEN n ELSE log.ts
    <3>1. PICK u \in Txn : u = link[1] /\ link[2] \in DOMAIN undo_logs[u]
      BY <2>2 DEF Exists
    <3>2. PICK i \in DOMAIN undo_logs[u] : i = link[2]
      BY <3>1
    <3>3. log = undo_logs[u][i] /\ new = undo_logs'[u][i]
      BY <2>3, <2>4, <3>1, <3>2 DEF LogAt
    <3> QED BY <1>2, <3>3, CommitLogs
  <2>6. Exists(link)'
    <3>1. undo_logs' = StampLogs(t, next_timestamp) /\ ChainInv
      BY <1>3 DEF Commit, SerialInv
    <3>2. \A u \in Txn : DOMAIN undo_logs'[u] = DOMAIN undo_logs[u]
      BY <1>2, <1>3, <3>1, StampLogsFacts
    <3> QED BY <2>2, <3>2 DEF Exists
  <2>7. OwnOnly(rid, log.ts) /\ IF Sees(s, log.ts) THEN Right(s, rid, LogRow(log)) ELSE log.prev \in D
    BY <2>1, <2>3 DEF OnTrail
  <2>8. CASE log.ts = start_ts[t]
    <3>1. new.ts = n /\ OwnOnly(rid, n)'
      BY <1>2, <2>5, <2>8, CommitKnown
    <3>2. rid \in DOMAIN mine[t] /\ ~(n < s)
      <4>1. rid \in DOMAIN mine[t]
        BY <1>3, <2>7, <2>8 DEF OwnOnly
      <4> QED BY <1>2, <1>3, <4>1
    <3>3. ~Sees(s, n)'
      BY <1>2, <3>2, CommitSees
    <3>4. ~Sees(s, log.ts)
      BY <1>3, <2>8, RunningUnseen
    <3>5. OwnOnly(rid, new.ts)' /\ ~Sees(s, new.ts)' /\ new.prev \in D
      BY <2>5, <2>7, <3>1, <3>3, <3>4
    <3> QED BY <2>2, <2>4, <2>6, <3>5 DEF OnTrail
  <2>9. CASE log.ts # start_ts[t]
    <3>1. new.ts = log.ts /\ OwnOnly(rid, log.ts)'
      BY <1>2, <2>5, <2>7, <2>9, CommitKnown
    <3>2. Sees(s, log.ts)' <=> Sees(s, log.ts)
      BY <1>2, <2>2, <2>3, <2>9, CommitSees
    <3>3. Right(s, rid, LogRow(log)) => Right(s, rid, LogRow(log))'
      BY CommitRight
    <3>4. /\ OwnOnly(rid, new.ts)'
          /\ IF Sees(s, new.ts)' THEN Right(s, rid, LogRow(new))' ELSE new.prev \in D
      BY <2>5, <2>7, <3>1, <3>2, <3>3
    <3> QED BY <2>2, <2>4, <2>6, <3>4 DEF OnTrail
  <2> QED BY <2>8, <2>9
<1>5. Trail(s, rid, D)'
  <2>1. version_info'[rid[2]] \in D
    BY <1>1, <1>3 DEF Trail
  <2> QED BY <1>4, <2>1 DEF Trail
<1> QED BY <1>5 DEF HasTrail

\* Who begins later is to be given the row as t leaves it.
LEMMA CommitLater ==
    ASSUME SnapInv, NEW t \in Txn, OthersQuiet(t), Commit(t), NEW rid \in DOMAIN mine[t],
           NEW s \in Nat, next_timestamp < s, NEW row, row = mine[t][rid]
    PROVE  Right(s, rid, row)'
<1>1. PICK n : n = next_timestamp
  OBVIOUS
<1>2. PICK k : k = Len(committed[rid])
  OBVIOUS
<1>3. /\ rid \in Rid /\ k \in Nat /\ DOMAIN committed'[rid] = 1 .. (k + 1)
      /\ committed'[rid][k + 1].ts = n /\ committed'[rid][k + 1].val = row
  BY <1>1, <1>2, CommitOwn
<1>4. k + 1 \in Earlier(s, rid)' /\ Earlier(s, rid)' \subseteq 1 .. (k + 1)
  BY <1>1, <1>3 DEF Earlier
<1>5. PICK E : E = Earlier(s, rid)'
  OBVIOUS
<1>6. (CHOOSE i \in E : \A j \in E : j <= i) = k + 1
  <2> DEFINE m == CHOOSE i \in E : \A j \in E : j <= i
  <2>1. k + 1 \in E /\ \A j \in E : j \in Int /\ j <= k + 1
    BY <1>3, <1>4, <1>5
  <2>2. m \in E /\ \A j \in E : j <= m
    BY <2>1
  <2> HIDE DEF m
  <2>3. m = k + 1
    BY <1>3, <2>1, <2>2
  <2> QED BY <2>3 DEF m
<1>7. LastBefore(s, rid)' = row
  BY <1>3, <1>4, <1>5, <1>6, Zenon DEF LastBefore
<1> QED BY <1>7 DEF Right

\* Who began after t, and before t commits, is shown a row that t inserted.
LEMMA CommitInserted ==
    ASSUME SnapInv, NEW t \in Txn, OthersQuiet(t), Commit(t), NEW rid \in DOMAIN mine[t],
           rid \notin Written(t), NEW s \in Nat, start_ts[t] < s, s < next_timestamp,
           NEW row, row = mine[t][rid]
    PROVE  Right(s, rid, row)'
<1>1. PICK n : n = next_timestamp
  OBVIOUS
<1>2. PICK k : k = Len(committed[rid])
  OBVIOUS
<1>3. /\ rid \in Rid /\ k \in Nat /\ DOMAIN committed'[rid] = 1 .. (k + 1) /\ committed[rid] = <<>>
      /\ committed'[rid][k + 1].ts = n /\ committed'[rid][k + 1].val = row
      /\ committed'[rid][k + 1].start = start_ts[t]
      /\ committed'[rid][k + 1].insert = (rid \notin Written(t))
  BY <1>1, <1>2, CommitOwn
<1>4. k = 0 /\ n \in Nat /\ start_ts' = start_ts
  BY <1>1, <1>2, <1>3, CommitFacts
<1>5. DOMAIN committed'[rid] = {1}
  BY <1>3, <1>4
<1>6. Earlier(s, rid)' = {}
  BY <1>1, <1>3, <1>4, <1>5 DEF Earlier
<1>7. LastBefore(s, rid)' = NoRow
  BY <1>6 DEF LastBefore
<1>8. Meanwhile(s, rid, row)'
  <2>1. committed'[rid][k + 1].insert
    BY <1>3
  <2> QED BY <1>1, <1>3, <1>4, <1>5, <2>1 DEF Meanwhile
<1> QED BY <1>7, <1>8 DEF Right

\* A record of a row that t has not written is as sound as it was.
LEMMA CommitSound ==
    ASSUME SnapInv, NEW t \in Txn, OthersQuiet(t), Commit(t), NEW rid \in Rid,
           rid \notin DOMAIN mine[t], NEW rec, Sound(rid, rec)
    PROVE  Sound(rid, rec)'
<1>1. PICK n : n = next_timestamp
  OBVIOUS
<1>2. call[t] = "running" /\ n \in Nat
  BY <1>1, CommitFacts
<1>3. rec.val.tail = Zero /\ Known(rec.ts) /\ OwnOnly(rid, rec.ts) /\ rec.ts # start_ts[t]
  BY <1>2 DEF Sound, OwnOnly
<1>4. Known(rec.ts)' /\ OwnOnly(rid, rec.ts)'
  BY <1>1, <1>3, CommitKnown
<1>5. ASSUME NEW s \in Nat, Reader(s, rid)' PROVE Shows(s, rid, rec)'
  <2>1. n < s \/ Reader(s, rid)
    BY <1>1, <1>5, CommitKnown
  <2>2. Reader(s, rid)
    BY <1>1, <1>2, <2>1 DEF Reader
  <2>3. Shows(s, rid, rec)
    BY <2>2 DEF Sound
  <2>4. Sees(s, rec.ts)' <=> Sees(s, rec.ts)
    BY <1>1, <1>3, CommitSees
  <2>5. Right(s, rid, RowOf(rec)) => Right(s, rid, RowOf(rec))'
    BY CommitRight
  <2>6. HasTrail(s, rid) => HasTrail(s, rid)'
    BY CommitTrail
  <2> QED BY <2>3, <2>4, <2>5, <2>6 DEF Shows
<1> QED BY <1>3, <1>4, <1>5 DEF Sound

\* The record of a row that t has written.
LEMMA CommitOwnSound ==
    ASSUME SnapInv, NEW t \in Txn, OthersQuiet(t), Commit(t), NEW rid \in DOMAIN mine[t],
           NEW rec, rec = heap'[rid]
    PROVE  Sound(rid, rec)'
<1>1. PICK n : n = next_timestamp
  OBVIOUS
<1>2. PICK old : old = start_ts[t]
  OBVIOUS
<1>3. PICK row : row = mine[t][rid]
  OBVIOUS
<1>4. /\ call[t] = "running" /\ n \in Nat /\ old \in Nat /\ old < n /\ Begun(t)
      /\ \A u \in Txn : job[u].at = "idle"
  BY <1>1, <1>2, CommitFacts
<1>5. PICK k : k = Len(committed[rid])
  OBVIOUS
<1>6. /\ rid \in Rid /\ heap[rid].ts = old /\ rec.val = heap[rid].val /\ RowOf(rec) = row
      /\ rec.ts = IF rid \in Written(t) THEN n ELSE old
  BY <1>1, <1>2, <1>3, <1>5, CommitOwn
<1>7. heap[rid].used /\ rec.val.tail = Zero
  BY <1>6 DEF SnapInv, HeapSound, SerialInv, MineInv
<1>8. Sound(rid, heap[rid])
  <2>1. Settled(rid)
    BY <1>4, <1>7 DEF Settled
  <2> QED BY <1>6, <2>1 DEF SnapInv, HeapSound
<1>9. Known(old) /\ OwnOnly(rid, old) /\ \A s : ~Sees(s, old)
  BY <1>4, <1>6, OwnRecord
<1>10. Known(rec.ts)' /\ OwnOnly(rid, rec.ts)'
  <2>1. Known(n)' /\ OwnOnly(rid, n)' /\ Known(old)' /\ OwnOnly(rid, old)'
    BY <1>1, <1>9, CommitKnown
  <2> QED BY <1>6, <2>1
<1>11. ASSUME NEW s \in Nat, Reader(s, rid)' PROVE Shows(s, rid, rec)'
  <2>1. /\ Sees(s, n)' <=> n < s
        /\ Sees(s, old)' <=> old < s
    BY <1>1, <1>2, <1>9, CommitSees
  <2>2. CASE n < s
    <3>1. Right(s, rid, row)'
      BY <1>1, <1>3, <2>2, CommitLater
    <3>2. Sees(s, rec.ts)'
      BY <1>4, <1>6, <2>1, <2>2
    <3> QED BY <1>6, <3>1, <3>2 DEF Shows
  <2>3. CASE ~(n < s)
    <3>1. s < n /\ Reader(s, rid)
      BY <1>1, <1>11, <2>3, CommitKnown
    <3>2. HasTrail(s, rid)
      BY <1>6, <1>8, <1>9, <3>1 DEF Sound, Shows
    <3>3. HasTrail(s, rid)'
      BY <1>1, <1>6, <3>1, <3>2, CommitTrail
    <3>4. Sees(s, rec.ts)' => rid \notin Written(t) /\ old < s
      BY <1>6, <2>1, <2>3
    <3>5. Sees(s, rec.ts)' => Right(s, rid, row)'
      BY <1>1, <1>2, <1>3, <3>1, <3>4, CommitInserted
    <3> QED BY <1>6, <3>3, <3>5 DEF Shows
  <2> QED BY <2>2, <2>3
<1> QED BY <1>7, <1>10, <1>11 DEF Sound

LEMMA SnapCommit ==
    ASSUME SnapInv, SerialInv', NEW t \in Txn, OthersQuiet(t), Commit(t)
    PROVE  SnapInv'
<1>1. PICK n : n = next_timestamp
  OBVIOUS
<1>2. /\ n \in Nat /\ call[t] = "running" /\ call'[t] = "commit" /\ start_ts' = start_ts
      /\ (\A u \in Txn \ {t} : commit_ts'[u] = commit_ts[u] /\ call'[u] = call[u])
      /\ commit_ts'[t] = n /\ Uncommitted(t)
      /\ (\A u \in Txn : Begun(u)' <=> Begun(u))
      /\ (\A u \in Txn : Begun(u) => start_ts[u] \in Nat /\ start_ts[u] < n)
      /\ (\A u \in Txn : Begun(u) /\ start_ts[u] = start_ts[t] => u = t)
      /\ (\A u \in Txn : call[u] = "running" => Begun(u))
      /\ (\A u \in Txn : job[u].at = "idle")
      /\ UNCHANGED <<version_info, write_set, job, mine>>
  BY <1>1, CommitFacts
<1>3. SerialInv /\ ChainInv /\ n # INVALID_TS
  BY <1>2 DEF SnapInv, SerialInv, INVALID_TS
<1>4. HeapSound'
  <2> SUFFICES ASSUME NEW rid \in Rid
               PROVE  heap'[rid].val.tail = Zero /\ (Settled(rid)' => Sound(rid, heap[rid])')
    BY DEF HeapSound
  <2>1. PICK c : c = heap'[rid]
    OBVIOUS
  <2>2. CASE rid \in DOMAIN mine[t]
    <3>1. Sound(rid, c)'
      BY <2>1, <2>2, CommitOwnSound
    <3>2. c.val.tail = Zero
      BY <3>1 DEF Sound
    <3> QED BY <2>1, <3>1, <3>2
  <2>3. CASE rid \notin DOMAIN mine[t]
    <3>1. c = heap[rid]
      BY <2>1, <2>3, CommitOther
    <3>2. Settled(rid)' => Settled(rid)
      BY <1>2, <2>1, <3>1 DEF Settled
    <3>3. c.val.tail = Zero /\ (Settled(rid)' => Sound(rid, c))
      BY <3>1, <3>2 DEF SnapInv, HeapSound
    <3>4. Settled(rid)' => Sound(rid, c)'
      BY <2>3, <3>3, CommitSound
    <3> QED BY <2>1, <3>3, <3>4
  <2> QED BY <2>2, <2>3
<1>5. RawSound'
  <2> SUFFICES ASSUME NEW u \in Txn, Uncommitted(u)', NEW i \in DOMAIN write_set[u]
               PROVE  Sound(write_set[u][i].rid, write_set[u][i].raw)'
    BY <1>2 DEF RawSound
  <2>1. u # t /\ Uncommitted(u)
    BY <1>2, <1>3 DEF Uncommitted
  <2>2. PICK w : w = write_set[u][i]
    OBVIOUS
  <2>3. w.rid \in Rid /\ w.rid \in Written(u)
    BY <2>2, RawTyped
  <2>4. w.rid \notin DOMAIN mine[t]
    BY <1>2, <1>3, <2>1, <2>3 DEF SerialInv, MineInv
  <2>5. Sound(w.rid, w.raw)
    BY <2>1, <2>2 DEF SnapInv, RawSound
  <2>6. Sound(w.rid, w.raw)'
    BY <2>3, <2>4, <2>5, CommitSound
  <2>7. w = write_set'[u][i]
    BY <1>2, <2>2
  <2> QED BY <2>6, <2>7
<1>6. LogsOwn'
  <2> SUFFICES ASSUME NEW u \in Txn, NEW i \in DOMAIN undo_logs'[u]
               PROVE  /\ Known(undo_logs[u][i].ts)'
                      /\ \A v \in Txn : call'[v] = "running" /\ undo_logs'[u][i].ts = start_ts[v] => v = u
    BY <1>2 DEF LogsOwn
  <2>1. i \in DOMAIN undo_logs[u]
    <3>1. undo_logs' = StampLogs(t, n)
      BY <1>1 DEF Commit
    <3> QED BY <1>2, <1>3, <3>1, StampLogsFacts
  <2>2. PICK old, new : old = undo_logs[u][i].ts /\ new = undo_logs'[u][i].ts
    OBVIOUS
  <2>3. new = IF old = start_ts[t] THEN n ELSE old
    BY <1>1, <2>1, <2>2, CommitLogs
  <2>4. Known(old) /\ \A v \in Txn : call[v] = "running" /\ old = start_ts[v] => v = u
    BY <2>1, <2>2 DEF SnapInv, LogsOwn
  <2>5. Known(n)' /\ Known(old)'
    BY <1>1, <2>4, CommitKnown
  <2>6. \A v \in Txn : call'[v] = "running" => call[v] = "running" /\ start_ts[v] \in Nat /\ start_ts[v] < n
    BY <1>2
  <2>7. Known(new)' /\ \A v \in Txn : call'[v] = "running" /\ new = start_ts[v] => v = u
    BY <1>2, <2>3, <2>4, <2>5, <2>6
  <2> QED BY <2>2, <2>7
<1>7. OwnRows'
  <2> SUFFICES ASSUME NEW u \in Txn, call'[u] = "running", NEW rid \in DOMAIN mine[u]
               PROVE  heap'[rid] = heap[rid]
    <3>1. \A u \in Txn : call'[u] = "running" => call[u] = "running"
      BY <1>2
    <3> QED BY <1>2, <3>1 DEF SnapInv, OwnRows, RowOf
  <2>1. u # t /\ call[u] = "running" /\ rid \in Rid
    BY <1>2, <1>3, GhostFacts
  <2>2. heap[rid].ts = start_ts[u]
    BY <1>3, <2>1 DEF SerialInv, MineInv
  <2>3. rid \notin DOMAIN mine[t]
    BY <1>2, <1>3, <2>1, <2>2 DEF SerialInv, MineInv
  <2> QED BY <2>1, <2>3, CommitOther
<1>8. StmtSound'
  BY <1>2, IdleFacts DEF StmtSound
<1> QED BY <1>4, <1>5, <1>6, <1>7, <1>8 DEF SnapInv

-----------------------------------------------------------------------------
(***************************************************************************)
(* Every step, and the theorem.                                            *)
(***************************************************************************)
LEMMA SnapStep ==
    ASSUME ~Wide, OneTable, SnapInv, [SerialNext]_vars
    PROVE  SnapInv'
<1>1. SerialInv'
  BY SerialStep DEF SnapInv
<1>2. ASSUME NEW t \in Txn, OthersQuiet(t), Step(t) PROVE SnapInv'
  <2>1. ASSUME NEW rid \in Rid, UpdateStart(t, rid) PROVE SnapInv'
    <3>1. /\ StartStatement(t, "update", rid, "check")
          /\ UNCHANGED <<mgrVars, heap, version_info, undo_logs, write_set, mine, committed>>
      BY <2>1 DEF UpdateStart
    <3> QED BY <1>1, <1>2, <3>1, SnapStart
  <2>2. ASSUME NEW rid \in Rid, DeleteStart(t, rid) PROVE SnapInv'
    <3>1. /\ StartStatement(t, "delete", rid, "read")
          /\ UNCHANGED <<mgrVars, heap, version_info, undo_logs, write_set, mine, committed>>
      BY <2>2 DEF DeleteStart
    <3> QED BY <1>1, <1>2, <3>1, SnapStart
  <2>3. CASE Statement(t)
    BY <1>1, <1>2, <2>1, <2>2, <2>3, SnapInsertChoose, SnapInsertWrite, SnapInsertLink,
       SnapReadConflict, SnapCheckRow, SnapReadRow, SnapReadRaw, SnapWriteRow, SnapLinkRow
       DEF Statement
  <2> QED BY <1>1, <1>2, <2>3, SnapBegin, SnapCommit, SnapAbort, SnapManager, SnapAbortUndo
             DEF Step
<1>3. CASE UNCHANGED <<mgrVars, rowVars>>
  <2>1. UNCHANGED <<mgrVars, heap, version_info, undo_logs, write_set, job, mine, committed>>
    BY <1>3 DEF rowVars
  <2>2. LogsKept /\ LogsOwn'
    BY <2>1, LogsSame DEF SnapInv
  <2>3. \A rid \in Rid : Keeps(rid)
    BY <2>1, <2>2, StatementKeeps
  <2>4. \A rid \in Rid : \A rec : Sound(rid, rec) => Sound(rid, rec)'
    BY <2>3, SoundKept DEF SnapInv
  <2>5. HeapSound'
    <3> SUFFICES ASSUME NEW rid \in Rid
                 PROVE  heap'[rid].val.tail = Zero /\ (Settled(rid)' => Sound(rid, heap[rid])')
      BY DEF HeapSound
    <3>1. PICK c : c = heap[rid]
      OBVIOUS
    <3>2. c = heap'[rid] /\ (Settled(rid)' => Settled(rid))
      BY <2>1, <3>1 DEF Settled
    <3>3. c.val.tail = Zero /\ (Settled(rid)' => Sound(rid, c)')
      BY <2>4, <3>1, <3>2 DEF SnapInv, HeapSound
    <3> QED BY <3>2, <3>3
  <2>6. RawSound'
    <3> SUFFICES ASSUME NEW u \in Txn, Uncommitted(u)'
                 PROVE  /\ \A i \in DOMAIN write_set'[u] : Sound(write_set[u][i].rid, write_set[u][i].raw)'
                        /\ job'[u].at = "link" => Sound(job[u].rid, job[u].raw)'
      BY DEF RawSound
    <3>1. Uncommitted(u)
      BY <2>1 DEF Uncommitted, Begun, mgrVars
    <3>2. ASSUME NEW i \in DOMAIN write_set'[u] PROVE Sound(write_set[u][i].rid, write_set[u][i].raw)'
      <4>1. PICK w : w = write_set[u][i]
        OBVIOUS
      <4>2. w = write_set'[u][i] /\ i \in DOMAIN write_set[u]
        BY <2>1, <4>1
      <4>3. Sound(w.rid, w.raw)'
        BY <2>3, <3>1, <4>1, <4>2, RawKept
      <4> QED BY <4>2, <4>3
    <3>3. ASSUME job'[u].at = "link" PROVE Sound(job[u].rid, job[u].raw)'
      <4>1. PICK j : j = job[u]
        OBVIOUS
      <4>2. j = job'[u] /\ j.at = "link"
        BY <2>1, <3>3, <4>1
      <4>3. j.rid \in Rid
        BY <4>1, <4>2 DEF SnapInv, SerialInv, ChainInv, JobInv
      <4>4. Sound(j.rid, j.raw)'
        BY <2>4, <3>1, <4>1, <4>2, <4>3 DEF SnapInv, RawSound
      <4> QED BY <4>2, <4>4
    <3> QED BY <3>2, <3>3
  <2>7. OwnRows'
    BY <2>1 DEF SnapInv, OwnRows, mgrVars, RowOf
  <2>8. StmtSound'
    <3> SUFFICES ASSUME NEW t \in Txn PROVE StmtFacts(t)'
      BY DEF StmtSound
    <3>1. PICK j : j = job[t]
      OBVIOUS
    <3>2. j = job'[t] /\ (j.at \notin {"idle", "throw"} => j.rid \in Rid)
      BY <2>1, <3>1 DEF SnapInv, SerialInv, ChainInv, JobInv
    <3>3. j.rid \in Rid => /\ Current(t, j.rid)' <=> Current(t, j.rid)
                           /\ Fetched(t, j.rid, j.old)' <=> Fetched(t, j.rid, j.old)
      BY <2>1, FactsSame
    <3>4. Matches(undo_logs[t][Len(undo_logs[t])], j.raw, j.rid[2])' <=>
          Matches(undo_logs[t][Len(undo_logs[t])], j.raw, j.rid[2])
      BY <2>1 DEF Matches, LogRow, RowOf, ReconstructTupleFromUndoLog
    <3>5. StmtFacts(t)
      BY DEF SnapInv, StmtSound
    <3>6. Written(t)' = Written(t)
      BY <2>1 DEF Written
    <3> QED BY <2>1, <3>1, <3>2, <3>3, <3>4, <3>5, <3>6 DEF StmtFacts
  <2> QED BY <1>1, <2>2, <2>5, <2>6, <2>7, <2>8 DEF SnapInv
<1> QED BY <1>2, <1>3, SerialStepOrSame

LEMMA SnapInit == Init => SnapInv
<1> SUFFICES ASSUME Init PROVE SnapInv
  OBVIOUS
<1>1. SerialInv
  BY SerialInit
<1>2. /\ heap = [rid \in Rid |-> FreeSlot] /\ undo_logs = [t \in Txn |-> <<>>]
      /\ write_set = [t \in Txn |-> <<>>] /\ job = [t \in Txn |-> Idle] /\ mine = [t \in Txn |-> <<>>]
  BY DEF Init, RowInit
<1>3. \A rid \in Rid : heap[rid].val.tail = Zero /\ ~heap[rid].used
  BY <1>2 DEF FreeSlot, NoRow, Zero
<1>4. HeapSound
  BY <1>3 DEF HeapSound, Settled
<1>5. \A t \in Txn : job[t].at = "idle"
  BY <1>2 DEF Idle
<1>6. RawSound
  BY <1>2, <1>5 DEF RawSound
<1>7. LogsOwn
  BY <1>2 DEF LogsOwn
<1>8. OwnRows
  BY <1>2 DEF OwnRows
<1>9. StmtSound
  BY <1>5 DEF StmtSound, StmtFacts
<1> QED BY <1>1, <1>4, <1>6, <1>7, <1>8, <1>9 DEF SnapInv

LEMMA SnapReads == SnapInv => SnapshotRows
<1> SUFFICES ASSUME SnapInv, AllQuiet, NEW t \in Txn, NEW rid \in Rid, Reads(t, rid)
             PROVE  LET row == get_record_mvcc(t, rid)
                    IN  \/ row \in {SnapshotRow(t, rid), Conflict}
                        \/ SnapshotRow(t, rid) = NoRow /\ InsertedMeanwhile(t, rid, row)
  BY DEF SnapshotRows
<1>1. PICK row : row = get_record_mvcc(t, rid)
  OBVIOUS
<1>2. call[t] = "running" /\ job[t].at = "idle" /\ heap[rid].used /\ OthersQuiet(t)
  BY DEF Reads, At, AllQuiet, OthersQuiet
<1>3. /\ Settled(rid)
      /\ InView(t, rid) => row = RowOf(heap[rid])
      /\ ~InView(t, rid) => row = Conflict \/ Right(start_ts[t], rid, row)
  BY <1>1, <1>2, ReadIs
<1>4. CASE rid \in DOMAIN mine[t]
  <2>1. mine[t][rid] = RowOf(heap[rid]) /\ heap[rid].ts = start_ts[t]
    BY <1>2, <1>4 DEF SnapInv, OwnRows, SerialInv, MineInv
  <2>2. row = mine[t][rid]
    BY <1>3, <2>1 DEF InView
  <2>3. SnapshotRow(t, rid) = mine[t][rid]
    BY <1>4 DEF SnapshotRow
  <2> QED BY <1>1, <2>2, <2>3
<1>5. CASE rid \notin DOMAIN mine[t]
  <2>1. SnapshotRow(t, rid) = LastBefore(start_ts[t], rid)
    BY <1>5 DEF SnapshotRow, LastBefore, Earlier
  <2>2. InsertedMeanwhile(t, rid, row) <=> Meanwhile(start_ts[t], rid, row)
    BY DEF InsertedMeanwhile, Meanwhile
  <2>3. row = Conflict \/ Right(start_ts[t], rid, row)
    <3>1. CASE ~InView(t, rid)
      BY <1>3, <3>1
    <3>2. CASE InView(t, rid)
      <4>1. Sound(rid, heap[rid])
        BY <1>3 DEF SnapInv, HeapSound
      <4>2. heap[rid].ts # start_ts[t]
        BY <1>2, <1>5, <4>1 DEF Sound, OwnOnly
      <4>3. Sees(start_ts[t], heap[rid].ts)
        BY <3>2, <4>2 DEF InView
      <4>4. Reader(start_ts[t], rid) /\ start_ts[t] \in Nat
        BY <1>2, <1>5, RunningFacts DEF Reader, SnapInv
      <4>5. Right(start_ts[t], rid, RowOf(heap[rid]))
        BY <4>1, <4>3, <4>4 DEF Sound, Shows
      <4> QED BY <1>3, <3>2, <4>5
    <3> QED BY <3>1, <3>2
  <2> QED BY <1>1, <2>1, <2>2, <2>3 DEF Right
<1> QED BY <1>4, <1>5

(***************************************************************************)
(* Snapshot isolation of reads, when no two calls overlap: get_record_mvcc *)
(* returns the row as it was when the reader began, or throws, or returns  *)
(* a committed row that was inserted meanwhile; however often the row was  *)
(* updated, deleted, committed and rolled back before.  It holds for any   *)
(* number of transactions, slots and statements, in a database of one      *)
(* table whose rows have no column after the second, for every read that   *)
(* comes upon no transaction that client_handler deleted after a conflict. *)
(***************************************************************************)
THEOREM SnapshotsAreRight == ~Wide /\ OneTable => (SerialSpec => []SnapshotRows)
<1> SUFFICES ASSUME ~Wide, OneTable PROVE SerialSpec => []SnapshotRows
  OBVIOUS
<1>1. SnapInv /\ [SerialNext]_vars => SnapInv'
  BY SnapStep
<1> QED BY <1>1, SnapInit, SnapReads, PTL DEF SerialSpec
=============================================================================
