-------------------------- MODULE LogManagerProofs --------------------------
(***************************************************************************)
(* The log and its buffer lose nothing, the log comes before the data and  *)
(* before the end of a commit, and a buffer with room for the sessions is  *)
(* never found full: for every number of sessions, records and runs.       *)
(***************************************************************************)
EXTENDS LogManager, FiniteSetTheorems, SequenceTheorems, TLAPS

(***************************************************************************)
(* The inductive invariant.  What is in the buffer are the records from    *)
(* First on, what is in the file are those before, behind the earlier      *)
(* runs.                                                                   *)
(***************************************************************************)
First == global_lsn - Len(log_buffer)

BufferTail ==
    /\ First >= 0
    /\ \A i \in 1 .. Len(log_buffer) : log_buffer[i] = <<run, First + i - 1>>

Old == Len(log) - First

FileHead ==
    /\ Old >= 0
    /\ \A i \in 1 .. First : log[Old + i] = <<run, i - 1>>
    /\ \A i \in 1 .. Old : log[i][1] < run

\* persist_lsn_ is the last record of the file, except before the first flush, when
\* its first value names a record that is not there.
PersistExact == persist_lsn = FirstPersistLsn \/ persist_lsn + 1 = First

OffsetOK ==
    /\ offset > 0 <=> log_buffer # <<>>
    /\ offset <= Len(log_buffer) * UpdateLogRecord

\* A session between the add and the write has a record of this run.
LsnGiven == \A s \in Session : pc[s] \in {"force", "write"} => lsn[s] < global_lsn

\* The changes of the open transactions are in the log or in the buffer.
OpenLogged ==
    \A s \in Session : \A r \in open[s] : r[1] = run /\ r[2] < global_lsn

\* A record that its session may write to the page is in the file, or is one that
\* the first value of persist_lsn_ hides.
InFile(w) == RecordOf(w) \in Members(log) \/ w[2] <= FirstPersistLsn

WriteLogged == \A s \in Session : pc[s] = "write" => InFile(Record(s))

ChangedLogged == \A w \in changed \cup stored : InFile(w)

\* So commit and abort, which write over the changes of the transaction, come after
\* the records of these changes.
OpenFiled == \A s \in Session : \A r \in open[s] : InFile(r)

\* Every record in the buffer has a session that is about to flush it, except the
\* one that the first value of persist_lsn_ hides: so the buffer stays short.
Forcing == {s \in Session : pc[s] = "force"}

BufferOwned ==
    \A n \in First .. global_lsn - 1 : n = FirstPersistLsn \/ \E s \in Forcing : lsn[s] = n

Inv ==
    /\ LogTypeOK /\ BufferTail /\ FileHead /\ PersistExact /\ OffsetOK /\ LsnGiven
    /\ OpenLogged /\ OpenFiled /\ WriteLogged /\ ChangedLogged /\ CommittedIsLogged
    /\ BufferOwned /\ NeverStuck

-----------------------------------------------------------------------------
\* A change is its own record, and so is what is written over it.
LEMMA RecordsOfWrites ==
    ASSUME NEW r \in Records
    PROVE  /\ RecordOf(r) = r /\ r \in Writes
           /\ Unlogged(r) \in Writes /\ RecordOf(Unlogged(r)) = r /\ Unlogged(r)[2] = r[2]
<1>1. r = <<r[1], r[2]>>
  BY DEF Records
<1> QED BY <1>1 DEF RecordOf, Unlogged, Writes

\* The records below First are in the file.
Filed == \A k \in Nat : k < First => <<run, k>> \in Members(log)

LEMMA FiledRecords == LogTypeOK /\ BufferTail /\ FileHead => Filed
<1> SUFFICES ASSUME LogTypeOK, BufferTail, FileHead, NEW k \in Nat, k < First
             PROVE  <<run, k>> \in Members(log)
  BY DEF Filed
<1>1. First \in Nat /\ Old \in Nat /\ Len(log) = Old + First /\ DOMAIN log = 1 .. Len(log)
  BY DEF LogTypeOK, BufferTail, FileHead, First, Old
<1>2. k + 1 \in 1 .. First /\ Old + (k + 1) \in DOMAIN log
  BY <1>1
<1>3. log[Old + (k + 1)] = <<run, (k + 1) - 1>> /\ (k + 1) - 1 = k
  BY <1>2 DEF FileHead
<1> QED BY <1>2, <1>3 DEF Members

\* A record of S at the end of a sequence of records of S.
LEMMA Concatenated ==
    ASSUME NEW S, NEW a \in Seq(S), NEW b \in Seq(S)
    PROVE  /\ a \o b \in Seq(S)
           /\ Len(a \o b) = Len(a) + Len(b)
           /\ \A i \in 1 .. Len(a) : (a \o b)[i] = a[i]
           /\ \A i \in 1 .. Len(b) : (a \o b)[Len(a) + i] = b[i]
           /\ Members(a) \subseteq Members(a \o b)
<1>1. /\ a \o b \in Seq(S) /\ Len(a \o b) = Len(a) + Len(b)
      /\ \A i \in 1 .. Len(a) + Len(b) : (a \o b)[i] = IF i <= Len(a) THEN a[i] ELSE b[i - Len(a)]
  BY ConcatProperties
<1> DEFINE c == a \o b
<1> HIDE DEF c
<1>2. /\ c \in Seq(S) /\ Len(c) = Len(a) + Len(b) /\ Len(a) \in Nat /\ Len(b) \in Nat
      /\ \A i \in 1 .. Len(a) + Len(b) : c[i] = IF i <= Len(a) THEN a[i] ELSE b[i - Len(a)]
  BY <1>1 DEF c
<1>3. \A i \in 1 .. Len(a) : c[i] = a[i]
  BY <1>2
<1>4. ASSUME NEW i \in 1 .. Len(b) PROVE c[Len(a) + i] = b[i]
  <2>1. /\ Len(a) + i \in 1 .. Len(a) + Len(b)
        /\ ~(Len(a) + i <= Len(a)) /\ (Len(a) + i) - Len(a) = i
    BY <1>2
  <2> QED BY <2>1, <1>2
<1>5. Members(a) \subseteq Members(c)
  <2>1. DOMAIN a = 1 .. Len(a) /\ DOMAIN c = 1 .. Len(c) /\ DOMAIN a \subseteq DOMAIN c
    BY <1>2
  <2> QED BY <2>1, <1>3 DEF Members
<1> QED BY <1>2, <1>3, <1>4, <1>5 DEF c

\* The log and the buffer together are complete.
LEMMA CompleteLog == LogTypeOK /\ BufferTail /\ FileHead => LogComplete
<1> SUFFICES ASSUME LogTypeOK, BufferTail, FileHead PROVE LogComplete
  OBVIOUS
<1> DEFINE old == Len(Written) - global_lsn
<1>1. /\ Len(Written) = Len(log) + Len(log_buffer)
      /\ \A i \in 1 .. Len(log) : Written[i] = log[i]
      /\ \A i \in 1 .. Len(log_buffer) : Written[Len(log) + i] = log_buffer[i]
  BY Concatenated DEF Written, LogTypeOK
<1>2. /\ Len(log) \in Nat /\ Len(log_buffer) \in Nat /\ global_lsn \in Nat
      /\ First \in Nat /\ Old \in Nat /\ old = Old
      /\ Len(log) = Old + First /\ global_lsn = First + Len(log_buffer)
  BY <1>1 DEF LogTypeOK, BufferTail, FileHead, First, Old
<1>3. ASSUME NEW i \in 1 .. global_lsn PROVE Written[old + i] = <<run, i - 1>>
  <2>1. CASE i <= First
    <3>1. i \in 1 .. First /\ old + i \in 1 .. Len(log)
      BY <2>1, <1>2
    <3> QED BY <3>1, <1>1, <1>2 DEF FileHead
  <2>2. CASE ~(i <= First)
    <3>1. i - First \in 1 .. Len(log_buffer) /\ old + i = Len(log) + (i - First)
      BY <2>2, <1>2
    <3>2. Written[old + i] = <<run, First + (i - First) - 1>>
      BY <3>1, <1>1 DEF BufferTail
    <3> QED BY <3>2, <1>2
  <2> QED BY <2>1, <2>2
<1>4. ASSUME NEW i \in 1 .. old PROVE Written[i][1] < run
  BY <1>1, <1>2 DEF FileHead
<1> QED BY <1>2, <1>3, <1>4 DEF LogComplete

-----------------------------------------------------------------------------
\* Both flushes: the buffer goes to the end of the file.
LEMMA FlushKeeps ==
    ASSUME Inv, offset > 0, log' = Written, persist_lsn' = global_lsn - 1, log_buffer' = <<>>,
           offset' = 0, UNCHANGED <<capacity, run, global_lsn>>
    PROVE  /\ log' \in Seq(Records) /\ log_buffer' \in Seq(Records)
           /\ persist_lsn' \in 0 .. MaxLsn /\ offset' \in 0 .. capacity'
           /\ First' = global_lsn /\ BufferTail' /\ FileHead' /\ PersistExact' /\ OffsetOK'
           /\ Members(log) \subseteq Members(log')
<1>1. /\ Len(log) \in Nat /\ Len(log_buffer) \in Nat /\ global_lsn \in 0 .. MaxLsn
      /\ First \in Nat /\ Old \in Nat /\ log_buffer # <<>> /\ capacity \in Nat /\ MaxLsn \in Nat
      /\ Len(log) = Old + First /\ global_lsn = First + Len(log_buffer)
  BY LogAssumption DEF Inv, LogTypeOK, BufferTail, FileHead, First, Old, OffsetOK
<1>2. Len(log_buffer) > 0 /\ Len(log_buffer') = 0
  BY <1>1 DEF Inv, LogTypeOK
<1>3. /\ log' \in Seq(Records) /\ Len(log') = Len(log) + Len(log_buffer)
      /\ Members(log) \subseteq Members(log')
  BY Concatenated DEF Written, Inv, LogTypeOK
<1>4. LogComplete
  BY CompleteLog DEF Inv
<1>5. First' = global_lsn /\ Old' = Len(Written) - global_lsn
  BY <1>1, <1>2 DEF First, Old
<1>6. FileHead'
  BY <1>4, <1>5, <1>1 DEF FileHead, LogComplete
<1>7. BufferTail' /\ PersistExact' /\ persist_lsn' \in 0 .. MaxLsn
  BY <1>1, <1>2, <1>5 DEF BufferTail, PersistExact
<1>8. OffsetOK' /\ offset' \in 0 .. capacity'
  <2>1. UpdateLogRecord \in Nat /\ 0 * UpdateLogRecord = 0
    BY LogAssumption DEF UpdateLogRecord
  <2>2. UpdateLogRecord' = UpdateLogRecord
    BY DEF UpdateLogRecord
  <2> QED BY <1>1, <1>2, <2>1, <2>2 DEF OffsetOK
<1> QED BY <1>3, <1>5, <1>6, <1>7, <1>8

\* The buffer has at most one record more than there are sessions about to flush.
LEMMA ShortBuffer == Inv => IsFiniteSet(Forcing) /\ Len(log_buffer) <= Cardinality(Forcing) + 1
<1> SUFFICES ASSUME Inv PROVE IsFiniteSet(Forcing) /\ Len(log_buffer) <= Cardinality(Forcing) + 1
  OBVIOUS
<1>1. IsFiniteSet(Forcing) /\ Cardinality(Forcing) \in Nat
  BY FS_Subset, FS_CardinalityType, LogAssumption DEF Forcing
<1> DEFINE image == {lsn[s] : s \in Forcing}
           buf == First .. global_lsn - 1
<1>2. IsFiniteSet(image) /\ Cardinality(image) <= Cardinality(Forcing) /\ Cardinality(image) \in Nat
  <2> DEFINE f == [s \in Forcing |-> lsn[s]]
  <2>1. f \in Surjection(Forcing, image)
    BY DEF Surjection
  <2> QED BY <2>1, <1>1, FS_Surjection, FS_CardinalityType
<1>3. First \in Int /\ global_lsn - 1 \in Int /\ Len(log_buffer) \in Nat /\ First >= 0
      /\ global_lsn = First + Len(log_buffer)
  BY DEF Inv, LogTypeOK, BufferTail, First
<1>4. IsFiniteSet(buf) /\ Cardinality(buf) = Len(log_buffer)
  <2>1. IsFiniteSet(buf) /\ Cardinality(buf) = IF First > global_lsn - 1 THEN 0 ELSE (global_lsn - 1) - First + 1
    BY <1>3, FS_Interval
  <2> QED BY <2>1, <1>3
<1>5. buf \subseteq image \cup {FirstPersistLsn}
  BY DEF Inv, BufferOwned
<1>6. /\ IsFiniteSet(image \cup {FirstPersistLsn})
      /\ Cardinality(image \cup {FirstPersistLsn}) <= Cardinality(image) + 1
      /\ Cardinality(image \cup {FirstPersistLsn}) \in Nat
  BY <1>2, FS_AddElement, FS_CardinalityType
<1>7. Cardinality(buf) <= Cardinality(image \cup {FirstPersistLsn})
  BY <1>5, <1>6, FS_Subset
<1> QED BY <1>1, <1>2, <1>3, <1>4, <1>6, <1>7

-----------------------------------------------------------------------------
LEMMA InitInv == Init => Inv
<1> SUFFICES ASSUME Init PROVE Inv
  OBVIOUS
<1>1. LogTypeOK
  BY LogAssumption, EmptySeq DEF Init, LogTypeOK, FirstPersistLsn, Records, Writes
<1>2. Len(log_buffer) = 0 /\ Len(log) = 0 /\ First = 0 /\ Old = 0
  <2>1. Len(log_buffer) = 0 /\ Len(log) = 0 /\ global_lsn = 0
    BY DEF Init
  <2> QED BY <2>1 DEF First, Old
<1>3. BufferTail /\ FileHead /\ PersistExact
  BY <1>2 DEF BufferTail, FileHead, PersistExact, Init
<1>4. OffsetOK
  <2>1. UpdateLogRecord \in Nat /\ 0 * UpdateLogRecord = 0
    BY LogAssumption DEF UpdateLogRecord
  <2>2. offset = 0 /\ log_buffer = <<>>
    BY DEF Init
  <2> QED BY <1>2, <2>1, <2>2 DEF OffsetOK
<1>5. BufferOwned
  BY <1>2 DEF BufferOwned, Init
<1>6. /\ LsnGiven /\ OpenLogged /\ OpenFiled /\ WriteLogged /\ ChangedLogged
      /\ CommittedIsLogged /\ NeverStuck
  BY DEF Init, LsnGiven, OpenLogged, OpenFiled, WriteLogged, ChangedLogged, CommittedIsLogged, NeverStuck
<1> QED BY <1>1, <1>3, <1>4, <1>5, <1>6 DEF Inv

\* add_log_to_buffer gives the next lsn to the record behind the last.
LEMMA AddInv ==
    ASSUME Inv, NEW s \in Session, NEW len \in LogRecords, add_log_to_buffer(s, len)
    PROVE  Inv'
<1> DEFINE r == <<run, global_lsn>>
<1>1. /\ capacity \in Nat /\ run \in 1 .. MaxRun /\ global_lsn \in Nat /\ global_lsn < MaxLsn
      /\ offset \in Nat /\ Len(log_buffer) \in Nat /\ MaxLsn \in Nat /\ First \in Nat
      /\ len \in Nat \ {0} /\ len <= UpdateLogRecord /\ UpdateLogRecord \in Nat
  BY LogAssumption DEF Inv, LogTypeOK, add_log_to_buffer, LogRecords, InsertLogRecord,
                       DeleteLogRecord, UpdateLogRecord, BufferTail, First
<1>2. r \in Records
  BY <1>1 DEF Records
<1>3. /\ log_buffer' \in Seq(Records) /\ log_buffer' # <<>>
      /\ Len(log_buffer') = Len(log_buffer) + 1
      /\ \A i \in 1 .. Len(log_buffer) : log_buffer'[i] = log_buffer[i]
      /\ log_buffer'[Len(log_buffer) + 1] = r
  <2>1. log_buffer \in Seq(Records) /\ log_buffer' = Append(log_buffer, r)
    BY DEF Inv, LogTypeOK, add_log_to_buffer
  <2> QED BY <2>1, <1>2, AppendProperties
<1>4. /\ global_lsn' = global_lsn + 1 /\ offset' = offset + len
      /\ UNCHANGED <<capacity, run, persist_lsn, latch, log, changed, stored, open, committed>>
      /\ lsn' = [lsn EXCEPT ![s] = global_lsn] /\ pc' = [pc EXCEPT ![s] = "force"]
      /\ pc[s] = "idle" /\ offset + len <= capacity
  BY <1>1 DEF add_log_to_buffer, is_full
<1>5. First' = First /\ Old' = Old
  BY <1>1, <1>3, <1>4 DEF First, Old
<1>6. LogTypeOK'
  BY <1>1, <1>3, <1>4 DEF Inv, LogTypeOK
<1>7. BufferTail'
  <2> SUFFICES ASSUME NEW i \in 1 .. Len(log_buffer) + 1
               PROVE  log_buffer'[i] = <<run, First + i - 1>>
    BY <1>1, <1>3, <1>4, <1>5 DEF BufferTail
  <2>1. CASE i \in 1 .. Len(log_buffer)
    BY <2>1, <1>3 DEF Inv, BufferTail
  <2>2. CASE i = Len(log_buffer) + 1
    <3>1. First + i - 1 = global_lsn
      BY <2>2, <1>1 DEF First
    <3> QED BY <3>1, <2>2, <1>3
  <2> QED BY <2>1, <2>2, <1>1
<1>8. FileHead' /\ PersistExact'
  BY <1>4, <1>5 DEF Inv, FileHead, PersistExact
<1>9. OffsetOK'
  <2>1. (Len(log_buffer) + 1) * UpdateLogRecord = Len(log_buffer) * UpdateLogRecord + UpdateLogRecord
        /\ Len(log_buffer) * UpdateLogRecord \in Nat
    BY <1>1
  <2>2. offset <= Len(log_buffer) * UpdateLogRecord
    BY DEF Inv, OffsetOK
  <2>3. offset' <= Len(log_buffer') * UpdateLogRecord
    BY <1>1, <1>3, <1>4, <2>1, <2>2
  <2> QED BY <1>1, <1>3, <1>4, <2>3 DEF OffsetOK, UpdateLogRecord
<1>10. LsnGiven' /\ OpenLogged'
  <2>1. LsnGiven'
    BY <1>1, <1>4 DEF Inv, LogTypeOK, LsnGiven
  <2>2. \A u \in Session : \A q \in open[u] : q[1] = run /\ q[2] \in Nat /\ q[2] < global_lsn
    <3>1. \A u \in Session : \A q \in open[u] : q \in Records /\ q[1] = run /\ q[2] < global_lsn
      BY DEF Inv, LogTypeOK, OpenLogged
    <3> QED BY <3>1, LogAssumption DEF Records
  <2>3. OpenLogged'
    BY <2>2, <1>1, <1>4 DEF OpenLogged
  <2> QED BY <2>1, <2>3
<1>11. WriteLogged'
  <2> SUFFICES ASSUME NEW u \in Session, pc'[u] = "write" PROVE InFile(Record(u))'
    BY DEF WriteLogged
  <2>1. u # s /\ pc[u] = "write" /\ lsn'[u] = lsn[u]
    BY <1>4 DEF Inv, LogTypeOK
  <2>2. InFile(Record(u))
    BY <2>1 DEF Inv, WriteLogged
  <2> QED BY <2>1, <2>2, <1>4 DEF InFile, Record, RecordOf, Members
<1>12. ChangedLogged' /\ OpenFiled' /\ CommittedIsLogged'
  BY <1>4 DEF Inv, ChangedLogged, OpenFiled, InFile, RecordOf, CommittedIsLogged, Members
<1>13. BufferOwned'
  <2> SUFFICES ASSUME NEW n \in First .. global_lsn, n # FirstPersistLsn
               PROVE  \E u \in Forcing' : lsn'[u] = n
    BY <1>1, <1>4, <1>5 DEF BufferOwned, FirstPersistLsn
  <2>1. CASE n = global_lsn
    BY <2>1, <1>4 DEF Inv, LogTypeOK, Forcing
  <2>2. CASE n # global_lsn
    <3>1. n \in First .. global_lsn - 1
      BY <2>2, <1>1
    <3>2. PICK u \in Forcing : lsn[u] = n
      BY <3>1 DEF Inv, BufferOwned
    <3> QED BY <3>2, <1>4 DEF Inv, LogTypeOK, Forcing
  <2> QED BY <2>1, <2>2
<1>14. NeverStuck'
  BY <1>4 DEF Inv, NeverStuck, UpdateLogRecord
<1> QED BY <1>6, <1>7, <1>8, <1>9, <1>10, <1>11, <1>12, <1>13, <1>14 DEF Inv

\* A session that finds the buffer full finds a buffer that is too small: the other
\* sessions have a record each in it at most, and one more is hidden.
LEMMA AddToFullInv ==
    ASSUME Inv, NEW s \in Session, NEW len \in LogRecords, AddToFullBuffer(s, len)
    PROVE  Inv'
<1> DEFINE n == Cardinality(Session)
<1>1. /\ len \in Nat /\ len <= UpdateLogRecord /\ UpdateLogRecord \in Nat /\ offset \in Nat
      /\ capacity \in Nat /\ Len(log_buffer) \in Nat /\ offset + len > capacity
      /\ pc[s] = "idle" /\ offset <= Len(log_buffer) * UpdateLogRecord
  BY LogAssumption DEF Inv, LogTypeOK, AddToFullBuffer, LogRecords, InsertLogRecord,
                       DeleteLogRecord, UpdateLogRecord, OffsetOK, is_full
<1>2. n \in Nat /\ Len(log_buffer) <= n
  <2>1. n \in Nat /\ IsFiniteSet(Session \ {s}) /\ Cardinality(Session \ {s}) = n - 1
    BY LogAssumption, FS_RemoveElement, FS_CardinalityType
  <2>2. Forcing \subseteq Session \ {s}
    BY <1>1 DEF Forcing
  <2>3. Cardinality(Forcing) <= Cardinality(Session \ {s})
    BY <2>1, <2>2, FS_Subset
  <2>4. Len(log_buffer) <= Cardinality(Forcing) + 1 /\ Cardinality(Forcing) \in Nat
    BY ShortBuffer, FS_CardinalityType
  <2> QED BY <1>1, <2>1, <2>3, <2>4
<1> HIDE DEF n
<1>3. ~(capacity >= (n + 1) * UpdateLogRecord)
  <2>1. Len(log_buffer) * UpdateLogRecord <= n * UpdateLogRecord
    BY <1>1, <1>2
  <2>2. (n + 1) * UpdateLogRecord = n * UpdateLogRecord + UpdateLogRecord /\ n * UpdateLogRecord \in Nat
        /\ Len(log_buffer) * UpdateLogRecord \in Nat
    BY <1>1, <1>2
  <2> HIDE DEF n
  <2> QED BY <1>1, <2>1, <2>2
<1>4. NeverStuck'
  BY <1>3 DEF NeverStuck, AddToFullBuffer, n, UpdateLogRecord
<1>5. LogTypeOK' /\ LsnGiven' /\ WriteLogged'
  BY DEF Inv, AddToFullBuffer, LogTypeOK, LsnGiven, WriteLogged, InFile, Record, RecordOf, Members
<1>6. Forcing' = Forcing
  BY <1>1 DEF Inv, LogTypeOK, AddToFullBuffer, Forcing
<1>7. /\ BufferTail' /\ FileHead' /\ PersistExact' /\ OffsetOK'
      /\ OpenLogged' /\ OpenFiled' /\ ChangedLogged' /\ CommittedIsLogged' /\ BufferOwned'
  BY <1>6 DEF Inv, AddToFullBuffer, BufferTail, FileHead, PersistExact, OffsetOK, First, Old,
              OpenLogged, OpenFiled, ChangedLogged, InFile, RecordOf, CommittedIsLogged, Members, BufferOwned, UpdateLogRecord
<1> QED BY <1>4, <1>5, <1>7 DEF Inv

\* force_flush_log_to_disk leaves the record of its session in the file: it flushes
\* it, or somebody else has, or the first value of persist_lsn_ hides it.
LEMMA ForceInv ==
    ASSUME Inv, NEW s \in Session, force_flush_log_to_disk(s)
    PROVE  Inv'
<1>1. /\ capacity \in Nat /\ run \in 1 .. MaxRun /\ global_lsn \in Nat /\ persist_lsn \in Nat
      /\ offset \in Nat /\ Len(log_buffer) \in Nat /\ First \in Nat
      /\ lsn[s] \in Nat /\ lsn[s] < global_lsn
  BY LogAssumption DEF Inv, LogTypeOK, force_flush_log_to_disk, BufferTail, First, LsnGiven
<1>2. /\ UNCHANGED <<capacity, run, global_lsn, latch, lsn, changed, stored, open, committed>>
      /\ pc' = [pc EXCEPT ![s] = "write"] /\ pc[s] = "force"
  BY DEF force_flush_log_to_disk
<1>3. Forcing' = Forcing \ {s}
  BY <1>2 DEF Inv, LogTypeOK, Forcing
<1> DEFINE Kept == /\ log' \in Seq(Records) /\ log_buffer' \in Seq(Records)
                   /\ persist_lsn' \in 0 .. MaxLsn /\ offset' \in 0 .. capacity'
                   /\ BufferTail' /\ FileHead' /\ PersistExact' /\ OffsetOK'
                   /\ Members(log) \subseteq Members(log')
<1>4. Kept /\ InFile(Record(s))' /\ BufferOwned'
  <2>1. CASE NotPersistent(s) /\ offset > 0
    <3>1. Kept /\ First' = global_lsn
      BY <2>1, <1>2, FlushKeeps DEF force_flush_log_to_disk
    <3>2. LogTypeOK'
      BY <3>1, <1>2 DEF Inv, LogTypeOK
    <3>3. lsn'[s] \in Nat /\ lsn'[s] < First'
      BY <3>1, <1>1, <1>2
    <3>4. (LogTypeOK /\ BufferTail /\ FileHead => Filed)'
      BY FiledRecords, PTL
    <3>5. InFile(Record(s))'
      BY <3>1, <3>2, <3>3, <3>4 DEF InFile, Record, RecordOf, Filed
    <3>6. BufferOwned'
      BY <3>1, <1>1, <1>2 DEF BufferOwned
    <3> QED BY <3>1, <3>5, <3>6
  <2>2. CASE ~(NotPersistent(s) /\ offset > 0)
    <3>1. UNCHANGED <<log, persist_lsn, log_buffer, offset>>
      BY <2>2 DEF force_flush_log_to_disk
    <3>2. First' = First /\ Old' = Old /\ UpdateLogRecord' = UpdateLogRecord
      BY <3>1, <1>2 DEF First, Old, UpdateLogRecord
    <3>3. Kept
      BY <3>1, <3>2, <1>2 DEF Inv, LogTypeOK, BufferTail, FileHead, PersistExact, OffsetOK
    <3>4. lsn[s] = FirstPersistLsn \/ lsn[s] < First
      <4>1. CASE offset = 0
        <5>1. Len(log_buffer) = 0
          BY <4>1 DEF Inv, OffsetOK
        <5> QED BY <5>1, <1>1 DEF First
      <4>2. CASE lsn[s] <= persist_lsn
        BY <4>2, <1>1 DEF Inv, PersistExact, FirstPersistLsn
      <4> QED BY <4>1, <4>2, <2>2, <1>1 DEF NotPersistent
    <3>5. InFile(Record(s))
      <4>1. CASE lsn[s] = FirstPersistLsn
        BY <4>1 DEF InFile, Record, FirstPersistLsn
      <4>2. CASE lsn[s] < First
        BY <4>2, <1>1, FiledRecords DEF Inv, InFile, Record, RecordOf, Filed
      <4> QED BY <4>1, <4>2, <3>4
    <3>6. InFile(Record(s))'
      BY <3>5, <3>1, <1>2 DEF InFile, Record, RecordOf, Members
    <3>7. BufferOwned'
      <4> SUFFICES ASSUME NEW n \in First .. global_lsn - 1, n # FirstPersistLsn
                   PROVE  \E u \in Forcing \ {s} : lsn[u] = n
        BY <1>2, <1>3, <3>2 DEF BufferOwned, FirstPersistLsn
      <4>1. PICK u \in Forcing : lsn[u] = n
        BY DEF Inv, BufferOwned
      <4>2. u # s
        BY <4>1, <3>4, <1>1
      <4> QED BY <4>1, <4>2
    <3> QED BY <3>3, <3>6, <3>7
  <2> QED BY <2>1, <2>2
<1>5. LogTypeOK'
  BY <1>2, <1>4 DEF Inv, LogTypeOK
<1>6. LsnGiven' /\ OpenLogged'
  BY <1>2 DEF Inv, LogTypeOK, LsnGiven, OpenLogged
<1>7. WriteLogged'
  <2> SUFFICES ASSUME NEW u \in Session, pc'[u] = "write" PROVE InFile(Record(u))'
    BY DEF WriteLogged
  <2>1. CASE u = s
    BY <2>1, <1>4
  <2>2. CASE u # s
    <3>1. InFile(Record(u))
      BY <2>2, <1>2 DEF Inv, LogTypeOK, WriteLogged
    <3> QED BY <3>1, <1>2, <1>4 DEF InFile, Record, RecordOf
  <2> QED BY <2>1, <2>2
<1>8. ChangedLogged' /\ OpenFiled' /\ CommittedIsLogged'
  BY <1>2, <1>4 DEF Inv, ChangedLogged, OpenFiled, InFile, RecordOf, CommittedIsLogged
<1>9. NeverStuck'
  BY <1>2 DEF Inv, NeverStuck, UpdateLogRecord
<1> QED BY <1>4, <1>5, <1>6, <1>7, <1>8, <1>9 DEF Inv

\* The row goes into its page: its record is in the file.
LEMMA WriteRowInv ==
    ASSUME Inv, NEW s \in Session, WriteRow(s)
    PROVE  Inv'
<1>1. /\ UNCHANGED <<capacity, run, global_lsn, persist_lsn, log_buffer, offset, latch, log, lsn,
                     stored, committed>>
      /\ changed' = changed \cup {Record(s)} /\ open' = [open EXCEPT ![s] = @ \cup {Record(s)}]
      /\ pc' = [pc EXCEPT ![s] = "idle"] /\ pc[s] = "write"
  BY DEF WriteRow
<1>2. Record(s) \in Records /\ Record(s)[1] = run /\ Record(s)[2] < global_lsn /\ InFile(Record(s))
  BY <1>1 DEF Inv, LogTypeOK, Record, Records, LsnGiven, WriteLogged
<1>3. LogTypeOK'
  <2>1. open' \in [Session -> SUBSET Records] /\ changed' \subseteq Writes
    BY <1>1, <1>2, RecordsOfWrites DEF Inv, LogTypeOK
  <2> QED BY <2>1, <1>1 DEF Inv, LogTypeOK
<1>4. Forcing' = Forcing
  BY <1>1 DEF Inv, LogTypeOK, Forcing
<1>5. /\ BufferTail' /\ FileHead' /\ PersistExact' /\ OffsetOK' /\ CommittedIsLogged'
      /\ BufferOwned' /\ NeverStuck'
  BY <1>1, <1>4 DEF Inv, BufferTail, FileHead, PersistExact, OffsetOK, First, Old,
                    CommittedIsLogged, Members, BufferOwned, NeverStuck, UpdateLogRecord
<1>6. LsnGiven' /\ WriteLogged'
  BY <1>1 DEF Inv, LogTypeOK, LsnGiven, WriteLogged, InFile, Record, RecordOf, Members
<1>7. OpenLogged' /\ OpenFiled'
  <2>1. \A u \in Session : open'[u] \subseteq open[u] \cup {Record(s)}
    BY <1>1 DEF Inv, LogTypeOK
  <2> QED BY <2>1, <1>1, <1>2 DEF Inv, OpenLogged, OpenFiled, InFile, RecordOf, Members
<1>8. ChangedLogged'
  BY <1>1, <1>2 DEF Inv, ChangedLogged, InFile, RecordOf, Members
<1> QED BY <1>3, <1>5, <1>6, <1>7, <1>8 DEF Inv

\* What commit and abort write without a record lies over changes of the
\* transaction, whose records are in the file.
LEMMA UnloggedInv ==
    ASSUME Inv, NEW s \in Session, NEW R \in SUBSET open[s],
           changed' = changed \cup {Unlogged(r) : r \in R},
           pc' = pc \/ (pc[s] = "idle" /\ pc' = [pc EXCEPT ![s] = "commit"]),
           UNCHANGED <<capacity, run, global_lsn, persist_lsn, log_buffer, offset, latch, log, lsn,
                       stored, open, committed>>
    PROVE  Inv'
<1>1. /\ pc' \in [Session -> {"idle", "force", "write", "commit", "stuck"}]
      /\ \A u \in Session : pc'[u] \in {"force", "write"} => pc'[u] = pc[u]
      /\ Forcing' = Forcing
  BY DEF Inv, LogTypeOK, Forcing
<1>2. \A r \in R : r \in Records /\ InFile(r)
  BY DEF Inv, LogTypeOK, OpenFiled
<1>3. \A w \in changed' : w \in changed \/ \E r \in R : w = Unlogged(r)
  OBVIOUS
<1>4. LogTypeOK'
  <2>1. changed' \subseteq Writes
    BY <1>2, <1>3, RecordsOfWrites DEF Inv, LogTypeOK
  <2> QED BY <2>1, <1>1 DEF Inv, LogTypeOK
<1>5. ChangedLogged'
  <2> SUFFICES ASSUME NEW w \in changed' \cup stored PROVE InFile(w)
    BY DEF ChangedLogged, InFile, RecordOf, Members
  <2>1. CASE w \in changed \cup stored
    BY <2>1 DEF Inv, ChangedLogged
  <2>2. ASSUME NEW r \in R, w = Unlogged(r) PROVE InFile(w)
    BY <2>2, <1>2, RecordsOfWrites DEF InFile
  <2> QED BY <2>1, <2>2, <1>3
<1>6. LsnGiven' /\ OpenLogged' /\ OpenFiled' /\ WriteLogged'
  BY <1>1 DEF Inv, LsnGiven, OpenLogged, OpenFiled, WriteLogged, InFile, Record, RecordOf, Members
<1>7. /\ BufferTail' /\ FileHead' /\ PersistExact' /\ OffsetOK' /\ CommittedIsLogged'
      /\ BufferOwned' /\ NeverStuck'
  BY <1>1 DEF Inv, BufferTail, FileHead, PersistExact, OffsetOK, First, Old, CommittedIsLogged,
              Members, BufferOwned, NeverStuck, UpdateLogRecord
<1> QED BY <1>4, <1>5, <1>6, <1>7 DEF Inv

LEMMA UpdateCommitTimestampInv == ASSUME Inv, NEW s \in Session, UpdateCommitTimestamp(s) PROVE Inv'
<1>1. open[s] \in SUBSET open[s]
  OBVIOUS
<1> QED BY <1>1, UnloggedInv DEF UpdateCommitTimestamp

LEMMA UndoDeleteInv == ASSUME Inv, NEW s \in Session, UndoDelete(s) PROVE Inv'
<1>1. PICK r \in open[s] : changed' = changed \cup {Unlogged(r)}
  BY DEF UndoDelete
<1> DEFINE R == {r}
<1>2. R \in SUBSET open[s] /\ {Unlogged(q) : q \in R} = {Unlogged(r)}
  OBVIOUS
<1> HIDE DEF R
<1> QED BY <1>1, <1>2, UnloggedInv DEF UndoDelete

\* After the flush of a commit or an abort the buffer is empty, so the records of the
\* transaction are in the file.
LEMMA EndInv ==
    ASSUME Inv, NEW s \in Session, flush_log_to_disk,
           pc' = pc \/ (pc[s] = "commit" /\ pc' = [pc EXCEPT ![s] = "idle"]),
           committed' \in {committed, committed \cup open[s]}, open' = [open EXCEPT ![s] = {}],
           UNCHANGED <<capacity, run, global_lsn, latch, lsn, changed, stored>>
    PROVE  Inv'
<1>1. /\ pc' \in [Session -> {"idle", "force", "write", "commit", "stuck"}]
      /\ \A u \in Session : pc'[u] \in {"force", "write"} => pc'[u] = pc[u]
      /\ Forcing' = Forcing
  BY DEF Inv, LogTypeOK, Forcing
<1>2. /\ capacity \in Nat /\ run \in 1 .. MaxRun /\ global_lsn \in Nat
      /\ offset \in Nat /\ Len(log_buffer) \in Nat /\ open[s] \subseteq Records
  BY LogAssumption DEF Inv, LogTypeOK
<1> DEFINE Kept == /\ log' \in Seq(Records) /\ log_buffer' \in Seq(Records)
                   /\ persist_lsn' \in 0 .. MaxLsn /\ offset' \in 0 .. capacity'
                   /\ BufferTail' /\ FileHead' /\ PersistExact' /\ OffsetOK'
                   /\ Members(log) \subseteq Members(log')
                   /\ First' = global_lsn
<1>3. Kept
  <2>1. CASE offset > 0
    BY <2>1, FlushKeeps DEF flush_log_to_disk, FlushBuffer
  <2>2. CASE ~(offset > 0)
    <3>1. UNCHANGED <<log, persist_lsn, log_buffer, offset>>
      BY <2>2 DEF flush_log_to_disk
    <3>2. First' = First /\ Old' = Old /\ UpdateLogRecord' = UpdateLogRecord
      BY <3>1 DEF First, Old, UpdateLogRecord
    <3>3. Len(log_buffer) = 0
      BY <2>2 DEF Inv, OffsetOK
    <3>4. First' = global_lsn
      BY <3>2, <3>3, <1>2 DEF First
    <3>5. BufferTail' /\ FileHead' /\ PersistExact' /\ OffsetOK'
      BY <3>1, <3>2 DEF Inv, BufferTail, FileHead, PersistExact, OffsetOK
    <3> QED BY <3>1, <3>4, <3>5 DEF Inv, LogTypeOK
  <2> QED BY <2>1, <2>2
<1>4. LogTypeOK'
  <2>1. open' \in [Session -> SUBSET Records] /\ committed' \subseteq Records
    BY <1>2 DEF Inv, LogTypeOK
  <2> QED BY <2>1, <1>1, <1>3 DEF Inv, LogTypeOK
<1>5. \A k \in Nat : k < global_lsn => <<run, k>> \in Members(log')
  <2>1. (LogTypeOK /\ BufferTail /\ FileHead => Filed)'
    BY FiledRecords, PTL
  <2> QED BY <1>3, <1>4, <2>1 DEF Filed
<1>6. open[s] \subseteq Members(log')
  <2> SUFFICES ASSUME NEW r \in open[s] PROVE r \in Members(log')
    OBVIOUS
  <2>1. r \in Records /\ r[1] = run /\ r[2] < global_lsn
    BY <1>2 DEF Inv, OpenLogged
  <2>2. r = <<run, r[2]>> /\ r[2] \in Nat
    BY <2>1 DEF Records
  <2> QED BY <2>1, <2>2, <1>5
<1>7. CommittedIsLogged' /\ ChangedLogged' /\ WriteLogged'
  BY <1>1, <1>3, <1>6 DEF Inv, CommittedIsLogged, ChangedLogged, WriteLogged, InFile, Record, RecordOf
<1>8. LsnGiven' /\ NeverStuck'
  BY <1>1 DEF Inv, LsnGiven, NeverStuck, UpdateLogRecord
<1>9. OpenLogged' /\ OpenFiled'
  <2>1. \A u \in Session : open'[u] \subseteq open[u]
    BY DEF Inv, LogTypeOK
  <2> QED BY <2>1, <1>3 DEF Inv, OpenLogged, OpenFiled, InFile, RecordOf
<1>10. BufferOwned'
  BY <1>2, <1>3 DEF BufferOwned
<1> QED BY <1>3, <1>4, <1>7, <1>8, <1>9, <1>10 DEF Inv

LEMMA CommitInv == ASSUME Inv, NEW s \in Session, Commit(s) PROVE Inv'
<1> QED BY EndInv DEF Commit

LEMMA AbortInv == ASSUME Inv, NEW s \in Session, Abort(s) PROVE Inv'
<1> QED BY EndInv DEF Abort

LEMMA EvictInv == ASSUME Inv, EvictPage PROVE Inv'
<1>1. /\ UNCHANGED <<capacity, run, global_lsn, persist_lsn, log_buffer, offset, latch, log, pc, lsn,
                     changed, open, committed>>
      /\ stored' = stored \cup changed
  BY DEF EvictPage
<1>2. LogTypeOK' /\ LsnGiven' /\ OpenLogged' /\ OpenFiled' /\ WriteLogged' /\ ChangedLogged'
  BY <1>1 DEF Inv, LogTypeOK, LsnGiven, OpenLogged, OpenFiled, WriteLogged, ChangedLogged, InFile,
              Record, RecordOf, Members
<1>3. /\ BufferTail' /\ FileHead' /\ PersistExact' /\ OffsetOK' /\ CommittedIsLogged'
      /\ BufferOwned' /\ NeverStuck'
  BY <1>1 DEF Inv, BufferTail, FileHead, PersistExact, OffsetOK, First, Old, CommittedIsLogged,
              Members, BufferOwned, Forcing, NeverStuck, UpdateLogRecord
<1> QED BY <1>2, <1>3 DEF Inv

\* After a restart every record of the file is one of an earlier run.
LEMMA RestartInv == ASSUME Inv, Restart PROVE Inv'
<1>1. /\ run' = run + 1 /\ run < MaxRun /\ global_lsn' = 0 /\ persist_lsn' = FirstPersistLsn
      /\ log_buffer' = <<>> /\ offset' = 0 /\ latch' = Nobody
      /\ pc' = [u \in Session |-> "idle"] /\ lsn' = [u \in Session |-> 0]
      /\ changed' = stored /\ open' = [u \in Session |-> {}]
      /\ UNCHANGED <<capacity, log, stored, committed>>
  BY DEF Restart
<1>2. /\ capacity \in Nat /\ run \in 1 .. MaxRun /\ MaxLsn \in Nat /\ MaxRun \in Nat
      /\ Len(log) \in Nat /\ First \in Nat /\ Old \in Nat /\ Len(log) = Old + First
  <2>1. /\ capacity \in Nat /\ run \in 1 .. MaxRun /\ MaxLsn \in Nat /\ MaxRun \in Nat
        /\ Len(log) \in Nat /\ Len(log_buffer) \in Nat /\ global_lsn \in Nat
    BY LogAssumption DEF Inv, LogTypeOK
  <2>2. First >= 0 /\ Old >= 0
    BY DEF Inv, BufferTail, FileHead
  <2> QED BY <2>1, <2>2 DEF First, Old
<1>3. Len(log_buffer') = 0 /\ First' = 0 /\ Old' = Len(log)
  <2>1. Len(log_buffer') = 0 /\ global_lsn' = 0 /\ log' = log
    BY <1>1
  <2> QED BY <2>1, <1>2 DEF First, Old
<1>4. LogTypeOK'
  BY <1>1, <1>2 DEF Inv, LogTypeOK, FirstPersistLsn
<1>5. BufferTail' /\ PersistExact' /\ BufferOwned'
  BY <1>1, <1>3 DEF BufferTail, PersistExact, BufferOwned, FirstPersistLsn
<1>6. FileHead'
  <2> SUFFICES ASSUME NEW i \in 1 .. Len(log) PROVE log[i][1] < run + 1
    BY <1>1, <1>2, <1>3 DEF FileHead
  <2>1. CASE i \in 1 .. Old
    <3>1. log[i] \in Records /\ log[i][1] < run
      BY <2>1, <1>2 DEF Inv, LogTypeOK, FileHead
    <3> QED BY <3>1, <1>2 DEF Records
  <2>2. CASE ~(i \in 1 .. Old)
    <3>1. i - Old \in 1 .. First /\ Old + (i - Old) = i
      BY <2>2, <1>2
    <3>2. log[Old + (i - Old)] = <<run, (i - Old) - 1>>
      BY <3>1 DEF Inv, FileHead
    <3> QED BY <3>1, <3>2, <1>2
  <2> QED BY <2>1, <2>2
<1>7. OffsetOK'
  <2>1. UpdateLogRecord \in Nat /\ 0 * UpdateLogRecord = 0 /\ UpdateLogRecord' = UpdateLogRecord
    BY LogAssumption DEF UpdateLogRecord
  <2> QED BY <2>1, <1>1, <1>3 DEF OffsetOK
<1>8. /\ LsnGiven' /\ OpenLogged' /\ OpenFiled' /\ WriteLogged' /\ ChangedLogged'
      /\ CommittedIsLogged' /\ NeverStuck'
  BY <1>1 DEF Inv, LsnGiven, OpenLogged, OpenFiled, WriteLogged, ChangedLogged, InFile, RecordOf, Members,
              CommittedIsLogged, NeverStuck
<1> QED BY <1>4, <1>5, <1>6, <1>7, <1>8 DEF Inv

LEMMA StepInv == Inv /\ [Next]_vars => Inv'
<1> SUFFICES ASSUME Inv, [Next]_vars PROVE Inv'
  OBVIOUS
<1>1. ASSUME NEW s \in Session, NEW len \in LogRecords, add_log_to_buffer(s, len) PROVE Inv'
  BY <1>1, AddInv
<1>2. ASSUME NEW s \in Session, NEW len \in LogRecords, AddToFullBuffer(s, len) PROVE Inv'
  BY <1>2, AddToFullInv
<1>3. ASSUME NEW s \in Session, force_flush_log_to_disk(s) PROVE Inv'
  BY <1>3, ForceInv
<1>4. ASSUME NEW s \in Session, WriteRow(s) PROVE Inv'
  BY <1>4, WriteRowInv
<1>5. ASSUME NEW s \in Session, Commit(s) PROVE Inv'
  BY <1>5, CommitInv
<1>6. CASE EvictPage
  BY <1>6, EvictInv
<1>7. CASE Restart
  BY <1>7, RestartInv
<1>8. CASE UNCHANGED vars
  <2>1. LogTypeOK' /\ LsnGiven' /\ OpenLogged' /\ OpenFiled' /\ WriteLogged' /\ ChangedLogged'
    BY <1>8 DEF vars, Inv, LogTypeOK, LsnGiven, OpenLogged, OpenFiled, WriteLogged, ChangedLogged,
                InFile, Record, RecordOf, Members
  <2>2. /\ BufferTail' /\ FileHead' /\ PersistExact' /\ OffsetOK' /\ CommittedIsLogged'
        /\ BufferOwned' /\ NeverStuck'
    BY <1>8 DEF vars, Inv, BufferTail, FileHead, PersistExact, OffsetOK, First, Old,
                CommittedIsLogged, Members, BufferOwned, Forcing, NeverStuck, UpdateLogRecord
  <2> QED BY <2>1, <2>2 DEF Inv
<1>9. ASSUME NEW s \in Session, UpdateCommitTimestamp(s) \/ UndoDelete(s) PROVE Inv'
  BY <1>9, UpdateCommitTimestampInv, UndoDeleteInv
<1>10. ASSUME NEW s \in Session, Abort(s) PROVE Inv'
  BY <1>10, AbortInv
<1> QED BY <1>1, <1>2, <1>3, <1>4, <1>5, <1>6, <1>7, <1>8, <1>9, <1>10 DEF Next

-----------------------------------------------------------------------------
\* The inductive invariant holds in every reachable state of the log manager.
THEOREM LogManagerInv == Spec => []Inv
<1> QED BY InitInv, StepInv, PTL DEF Spec

\* The two flushes and add_log_to_buffer neither lose, repeat nor reorder a record
\* (log_manager.cpp:16, 31, 46).
THEOREM LogIsComplete == Spec => []LogInv
<1>1. Inv => LogInv
  BY CompleteLog DEF Inv, LogInv
<1> QED BY <1>1, LogManagerInv, PTL

\* Write-ahead logging as far as the code has it: force_flush_log_to_disk puts the
\* record of a change into the file before the page of the change and before what
\* commit and abort write over it without a record (transaction_manager.cpp:124,
\* rm_file_handle.cpp:183), and all records of a transaction are there before its
\* commit returns.
THEOREM LogComesFirst == Spec => []LogFirst
<1>1. Inv => LogFirst
  BY DEF Inv, LogFirst, LogBeforeData, ChangedLogged, InFile
<1> QED BY <1>1, LogManagerInv, PTL

\* A buffer with room for a record of every session and one more is never full, so
\* add_log_to_buffer never reaches the flush that waits for its own latch.
THEOREM BufferNeverFull == Spec => []NeverStuck
<1>1. Inv => NeverStuck
  BY DEF Inv
<1> QED BY <1>1, LogManagerInv, PTL
=============================================================================
