----------------------------- MODULE MvccProofs -----------------------------
(***************************************************************************)
(* Proofs about the version chains of Mvcc and about its write conflicts,  *)
(* for any finite set of transactions, any tables, slots and number of     *)
(* statements.                                                             *)
(*                                                                         *)
(* The chains end however the sessions interleave, after a restart too     *)
(* (ChainsAlwaysEnd).  First committer wins when no two calls of two       *)
(* sessions overlap (FirstCommitterWins); the run rows_lost_update shows   *)
(* that it does not otherwise.                                             *)
(***************************************************************************)
EXTENDS Mvcc, TransactionManagerProofs, FiniteSetTheorems

LogRecords == [ts : Nat, is_deleted : BOOLEAN, val : Vals, prev : Links]

WriteRecords == [rid : Rid, raw : Cells]

Places == {"idle", "insert", "insertlink", "check", "read", "raw", "write", "link",
           "throw", "invisible"}

Jobs == [at : Places, op : {"none", "insert", "update", "delete"},
         rid : Rid \cup {<<>>}, old : Vals, raw : Cells]

\* The types, with the domains that TypeOK leaves out.
RowTypes ==
    /\ heap \in [Rid -> Cells]
    /\ version_info \in [Slot -> Links]
    /\ undo_logs \in [Txn -> Seq(LogRecords)]
    /\ write_set \in [Txn -> Seq(WriteRecords)]
    /\ job \in [Txn -> Jobs]
    /\ stmts \in [Txn -> 0 .. MaxStmt]

\* Where a statement has not yet appended its undo log.
Unlogged == {"insert", "insertlink", "check", "read", "raw"}

\* A statement has a row, and appends at most one undo log.
JobInv ==
    \A t \in Txn :
        /\ job[t].at \notin {"idle", "throw"} => job[t].rid \in Rid
        /\ Len(undo_logs[t]) <= stmts[t]
        /\ job[t].at \in Unlogged => Len(undo_logs[t]) < stmts[t]
        /\ job[t].at \in {"write", "link"} => Len(undo_logs[t]) > 0

Exists(link) == link[1] \in Txn /\ link[2] \in DOMAIN undo_logs[link[1]]

LogsLinked ==
    \A t \in Txn : \A i \in DOMAIN undo_logs[t] :
        undo_logs[t][i].prev # NoLink => Exists(undo_logs[t][i].prev)

\* Links lead to undo logs that exist.
Linked ==
    /\ \A s \in Slot : version_info[s] # NoLink => Exists(version_info[s])
    /\ LogsLinked

\* What the interleaved system keeps.
\* The chains end even through transactions that are freed, as long as their
\* memory holds what it held.
ChainsStop ==
    LET Logs == UNION {{<<t, i>> : i \in DOMAIN undo_logs[t]} : t \in Txn}
    IN  \A S \in SUBSET Logs : S # {} =>
            \E link \in S : undo_logs[link[1]][link[2]].prev \notin S

ChainInv == MgrInv /\ RowTypes /\ JobInv /\ Linked /\ ChainsStop

-----------------------------------------------------------------------------
\* A link that leads to a log is not the empty one.
LEMMA LinkIsValid ==
    ASSUME NEW t, NEW i PROVE <<t, i>> # NoLink
<1>1. Len(<<t, i>>) = 2 /\ Len(NoLink) = 0
  BY DEF NoLink
<1> QED BY <1>1

\* A log is in the range of its transaction's numbers, and so is a link to it.
LEMMA LinkTyped ==
    ASSUME RowTypes, JobInv, NEW t \in Txn, NEW i \in DOMAIN undo_logs[t]
    PROVE  /\ <<t, i>> \in Links
           /\ undo_logs[t][i] \in LogRecords
           /\ i \in Nat
<1>1. undo_logs[t] \in Seq(LogRecords) /\ Len(undo_logs[t]) <= stmts[t] /\ stmts[t] \in 0 .. MaxStmt
  BY DEF RowTypes, JobInv
<1>2. i \in 1 .. MaxStmt
  BY <1>1, BoundsAssumption
<1> QED BY <1>1, <1>2 DEF Links

\* The values that statements write.
LEMMA NewRowTyped ==
    ASSUME RowTypes, JobInv, NEW t \in Txn, job[t].at \in {"insert", "write"}
    PROVE  /\ [head |-> NewHead(t), tail |-> NewTail(t)] \in Vals
           /\ \A v \in Vals : [v EXCEPT !.head = NewHead(t)] \in Vals
<1> DEFINE H == Txn \X (1 .. MaxStmt)
<1>1. stmts[t] \in 1 .. MaxStmt
  <2>1. undo_logs[t] \in Seq(LogRecords) /\ stmts[t] \in 0 .. MaxStmt
    BY DEF RowTypes
  <2>2. stmts[t] # 0
    BY <2>1 DEF JobInv, Unlogged
  <2> QED BY <2>1, <2>2, BoundsAssumption
<1>2. NewHead(t) \in H
  BY <1>1 DEF NewHead
<1>3. NewTail(t) \in H \cup {<<"old">>, Zero}
  BY <1>1 DEF NewTail
<1>4. [head |-> NewHead(t), tail |-> NewTail(t)] \in Vals
  <2> HIDE DEF H
  <2> QED BY <1>2, <1>3 DEF Vals, H
<1>5. ASSUME NEW v \in Vals PROVE [v EXCEPT !.head = NewHead(t)] \in Vals
  <2>1. /\ v.tail \in H \cup {<<"old">>, Zero}
        /\ [v EXCEPT !.head = NewHead(t)] = [head |-> NewHead(t), tail |-> v.tail]
    <3>1. CASE v = NoRow
      BY <3>1 DEF NoRow, Zero
    <3>2. CASE v = OldRow
      BY <3>2 DEF OldRow
    <3> QED BY <3>1, <3>2 DEF Vals
  <2> QED BY <2>1, <1>2 DEF Vals
<1> QED BY <1>4, <1>5

-----------------------------------------------------------------------------
(***************************************************************************)
(* The walk along a chain.  One step of it, for a function f that has the  *)
(* results from the logs further on; whether it goes further.              *)
(***************************************************************************)
Visit(t, rid, f, link) ==
    LET log == GetUndoLogOptional(link)
    IN  IF log = NoLog THEN get_record(rid).val
        ELSE IF ~VisibleLog(t, log) THEN f[log.prev]
        ELSE IF log.is_deleted THEN NoRow
        ELSE ReconstructTupleFromUndoLog(log)

Further(t, link) ==
    GetUndoLogOptional(link) # NoLog /\ ~VisibleLog(t, GetUndoLogOptional(link))

\* Where the walk leads to stays in D.
Closed(t, D) ==
    D \subseteq Links /\ \A link \in D : Further(t, link) => GetUndoLogOptional(link).prev \in D

\* The walk is defined from the links in D.
WalkOn(t, rid, D) ==
    Closed(t, D) /\ \E f : f = [link \in D |-> Visit(t, rid, f, link)]

\* What GetUndoLogOptional returns: a log, unless there is none.
LEMMA LogOfLink ==
    ASSUME RowTypes, NEW link \in Links, GetUndoLogOptional(link) # NoLog
    PROVE  /\ link # NoLink /\ link[1] \in Txn /\ link[2] \in DOMAIN undo_logs[link[1]]
           /\ link = <<link[1], link[2]>>
           /\ GetUndoLogOptional(link) = undo_logs[link[1]][link[2]]
           /\ GetUndoLogOptional(link) \in LogRecords
<1>1. link # NoLink /\ link[2] \in DOMAIN undo_logs[link[1]]
  BY DEF GetUndoLogOptional
<1>2. link[1] \in Txn /\ link = <<link[1], link[2]>>
  BY <1>1 DEF Links
<1>3. GetUndoLogOptional(link) = undo_logs[link[1]][link[2]]
  BY <1>1 DEF GetUndoLogOptional
<1>4. undo_logs[link[1]] \in Seq(LogRecords)
  BY <1>2 DEF RowTypes
<1>5. undo_logs[link[1]][link[2]] \in LogRecords
  BY <1>1, <1>4
<1> QED BY <1>1, <1>2, <1>3, <1>5

\* A set of links that are all followed further has a log whose predecessor is
\* not in the set.
LEMMA WalkLeaves ==
    ASSUME RowTypes, ChainsStop, NEW t \in Txn, NEW S \in SUBSET Links, S # {},
           \A link \in S : Further(t, link)
    PROVE  \E link \in S : /\ GetUndoLogOptional(link).prev \in Links
                           /\ GetUndoLogOptional(link).prev \notin S
<1> DEFINE Logs == UNION {{<<u, i>> : i \in DOMAIN undo_logs[u]} : u \in Txn}
<1>1. ASSUME NEW link \in S PROVE link \in Logs
  <2>1. GetUndoLogOptional(link) # NoLog
    BY DEF Further
  <2>2. /\ link[1] \in Txn /\ link[2] \in DOMAIN undo_logs[link[1]]
        /\ link = <<link[1], link[2]>>
    BY <2>1, LogOfLink
  <2> QED BY <2>2
<1>2. PICK link \in S : undo_logs[link[1]][link[2]].prev \notin S
  BY <1>1 DEF ChainsStop
<1>3. GetUndoLogOptional(link) = undo_logs[link[1]][link[2]] /\ GetUndoLogOptional(link) \in LogRecords
  BY LogOfLink DEF Further
<1> QED BY <1>2, <1>3 DEF LogRecords

\* A walk that is defined from some links is defined from one more.
LEMMA WalkGrows ==
    ASSUME RowTypes, ChainsStop, NEW t \in Txn, NEW rid \in Rid,
           NEW D, WalkOn(t, rid, D), D # Links
    PROVE  \E x \in Links \ D : WalkOn(t, rid, D \cup {x})
<1>1. D \subseteq Links
  BY DEF WalkOn, Closed
<1>2. \E x \in Links \ D : Further(t, x) => GetUndoLogOptional(x).prev \in D
  <2>1. CASE \E x \in Links \ D : ~Further(t, x)
    BY <2>1
  <2>2. CASE \A x \in Links \ D : Further(t, x)
    <3>1. Links \ D # {}
      BY <1>1
    <3>2. PICK x \in Links \ D : /\ GetUndoLogOptional(x).prev \in Links
                                 /\ GetUndoLogOptional(x).prev \notin Links \ D
      BY <2>2, <3>1, WalkLeaves
    <3> QED BY <3>2
  <2> QED BY <2>1, <2>2
<1>3. PICK x \in Links \ D : Further(t, x) => GetUndoLogOptional(x).prev \in D
  BY <1>2
<1>4. PICK f : f = [link \in D |-> Visit(t, rid, f, link)]
  BY DEF WalkOn
<1> DEFINE g == [link \in D \cup {x} |-> IF link = x THEN Visit(t, rid, f, x) ELSE f[link]]
<1>5. \A link \in D : g[link] = f[link]
  BY <1>3
<1>6. g[x] = Visit(t, rid, f, x)
  OBVIOUS
<1> HIDE DEF g
<1>7. ASSUME NEW link \in D \cup {x} PROVE Visit(t, rid, g, link) = Visit(t, rid, f, link)
  <2>1. Further(t, link) => GetUndoLogOptional(link).prev \in D
    BY <1>3 DEF WalkOn, Closed
  <2>2. CASE Further(t, link)
    <3>1. g[GetUndoLogOptional(link).prev] = f[GetUndoLogOptional(link).prev]
      BY <2>1, <2>2, <1>5
    <3> QED BY <3>1, Zenon DEF Visit
  <2>3. CASE ~Further(t, link)
    BY <2>3, Zenon DEF Visit, Further
  <2> QED BY <2>2, <2>3
<1>8. ASSUME NEW link \in D \cup {x} PROVE g[link] = Visit(t, rid, g, link)
  <2>1. CASE link = x
    BY <2>1, <1>6, <1>7
  <2>2. CASE link # x
    <3>1. f[link] = Visit(t, rid, f, link)
      BY <2>2, <1>4
    <3> QED BY <3>1, <2>2, <1>5, <1>7
  <2> QED BY <2>1, <2>2
<1>9. g = [link \in D \cup {x} |-> Visit(t, rid, g, link)]
  <2>1. g = [link \in D \cup {x} |-> g[link]]
    BY DEF g
  <2> QED BY <2>1, <1>8
<1>10. Closed(t, D \cup {x})
  BY <1>3 DEF WalkOn, Closed
<1> QED BY <1>9, <1>10 DEF WalkOn

\* There are finitely many links.
LEMMA LinksFinite == IsFiniteSet(Links)
<1>1. IsFiniteSet(1 .. MaxStmt)
  BY FS_Interval, BoundsAssumption
<1>2. IsFiniteSet(Txn \X (1 .. MaxStmt))
  BY <1>1, FS_Product, BoundsAssumption
<1> QED BY <1>2, FS_AddElement DEF Links

\* The recursion of GetVisibleVersionFromHistory defines a function: with the
\* fewest links left out, none is.
LEMMA WalkDefined ==
    ASSUME RowTypes, ChainsStop, NEW t \in Txn, NEW rid \in Rid
    PROVE  \E f : f = [link \in Links |-> Visit(t, rid, f, link)]
<1> DEFINE Ds == {D \in SUBSET Links : WalkOn(t, rid, D)}
           Left == {Cardinality(Links \ D) : D \in Ds}
<1>1. WalkOn(t, rid, {})
  <2> DEFINE f == [link \in {} |-> link]
  <2>1. f = [link \in {} |-> Visit(t, rid, f, link)]
    OBVIOUS
  <2> QED BY <2>1 DEF WalkOn, Closed
<1>2. \A D \in SUBSET Links : Cardinality(Links \ D) \in Nat
  BY LinksFinite, FS_CardinalityType, FS_Difference
<1>3. Left \in SUBSET Nat /\ Left # {}
  BY <1>1, <1>2
<1>4. Lowest(Left) \in Left /\ \A n \in Left : Lowest(Left) <= n
  BY <1>3, LowestIsLeast
<1>5. PICK D \in Ds : Cardinality(Links \ D) = Lowest(Left)
  BY <1>4
<1>6. CASE D # Links
  <2>1. PICK x \in Links \ D : WalkOn(t, rid, D \cup {x})
    BY <1>5, <1>6, WalkGrows
  <2>2. D \cup {x} \in Ds /\ Links \ (D \cup {x}) = (Links \ D) \ {x}
    BY <2>1
  <2>3. Cardinality((Links \ D) \ {x}) = Cardinality(Links \ D) - 1
    <3>1. IsFiniteSet(Links \ D)
      BY LinksFinite, FS_Difference
    <3> QED BY <3>1, FS_RemoveElement
  <2>4. Cardinality(Links \ (D \cup {x})) \in Left
    BY <2>2
  <2>5. Cardinality(Links \ D) - 1 \in Left
    BY <2>2, <2>3, <2>4
  <2>6. Cardinality(Links \ D) \in Nat
    BY <1>2
  <2> HIDE DEF Left, Ds
  <2> QED BY <2>5, <2>6, <1>4, <1>5
<1>7. CASE D = Links
  BY <1>5, <1>7 DEF WalkOn
<1> QED BY <1>6, <1>7

\* The walk returns a row.
LEMMA WalkTyped ==
    ASSUME RowTypes, ChainsStop, NEW t \in Txn, NEW rid \in Rid
    PROVE  GetVisibleVersionFromHistory(t, rid) \in Vals
<1> DEFINE Walk == CHOOSE f : f = [link \in Links |-> Visit(t, rid, f, link)]
<1>1. Walk = [link \in Links |-> Visit(t, rid, Walk, link)]
  BY WalkDefined
<1>2. GetVisibleVersionFromHistory(t, rid) = Walk[GetVersionLink(rid)]
  BY Zenon DEF GetVisibleVersionFromHistory, Visit
<1> HIDE DEF Walk
<1>3. GetVersionLink(rid) \in Links
  <2>1. rid[2] \in Slot
    BY DEF Rid
  <2> QED BY <2>1 DEF RowTypes, GetVersionLink
<1>4. \A link \in Links : Walk[link] \in Vals
  <2> DEFINE S == {link \in Links : Walk[link] \notin Vals}
  <2>1. ASSUME NEW link \in S PROVE Further(t, link)
    <3> SUFFICES ASSUME ~Further(t, link) PROVE FALSE
      OBVIOUS
    <3> DEFINE log == GetUndoLogOptional(link)
    <3>1. Walk[link] = Visit(t, rid, Walk, link)
      BY <1>1
    <3>2. CASE log = NoLog
      <4>1. Visit(t, rid, Walk, link) = heap[rid].val
        BY <3>2 DEF Visit, get_record
      <4> QED BY <4>1, <3>1 DEF RowTypes, Cells
    <3>3. CASE log # NoLog
      <4>1. log \in LogRecords
        BY <3>3, LogOfLink
      <4>2. VisibleLog(t, log)
        BY <3>3 DEF Further
      <4>3. Visit(t, rid, Walk, link) \in {NoRow, ReconstructTupleFromUndoLog(log)}
        BY <4>2, <3>3, Zenon DEF Visit
      <4>4. ReconstructTupleFromUndoLog(log) \in Vals
        <5> HIDE DEF log
        <5>1. log.val \in Vals
          BY <4>1 DEF LogRecords
        <5>2. CASE log.val = NoRow
          BY <5>2 DEF Vals, NoRow, ReconstructTupleFromUndoLog, Zero
        <5>3. CASE log.val = OldRow
          BY <5>3 DEF Vals, OldRow, ReconstructTupleFromUndoLog, Zero
        <5>4. CASE log.val \notin {NoRow, OldRow}
          BY <5>1, <5>4 DEF Vals, ReconstructTupleFromUndoLog
        <5> QED BY <5>2, <5>3, <5>4
      <4>5. NoRow \in Vals
        BY DEF Vals
      <4> QED BY <4>3, <4>4, <4>5, <3>1
    <3> QED BY <3>2, <3>3
  <2>2. CASE S # {}
    <3>1. PICK link \in S : /\ GetUndoLogOptional(link).prev \in Links
                            /\ GetUndoLogOptional(link).prev \notin S
      BY <2>1, <2>2, WalkLeaves
    <3>2. Walk[GetUndoLogOptional(link).prev] \in Vals
      BY <3>1
    <3>3. Visit(t, rid, Walk, link) = Walk[GetUndoLogOptional(link).prev]
      BY <2>1, Zenon DEF Visit, Further
    <3>4. Walk[link] = Visit(t, rid, Walk, link)
      BY <1>1
    <3> QED BY <3>2, <3>3, <3>4
  <2> QED BY <2>2
<1> QED BY <1>2, <1>3, <1>4

\* What a statement reads is a row, or the read throws.
LEMMA ReadTyped ==
    ASSUME RowTypes, ChainsStop, NEW t \in Txn, NEW rid \in Rid
    PROVE  get_record_mvcc(t, rid) \in Vals \cup {Conflict}
<1>1. heap[rid].val \in Vals /\ NoRow \in Vals
  BY DEF RowTypes, Cells, Vals
<1>2. GetVisibleVersionFromHistory(t, rid) \in Vals
  BY WalkTyped
<1> QED BY <1>1, <1>2, Zenon DEF get_record_mvcc

-----------------------------------------------------------------------------
(***************************************************************************)
(* What the steps of a statement do to its job.                            *)
(***************************************************************************)
\* Only the job of t changes: it goes on at another place.
Moved(t, where) ==
    /\ job' \in [Txn -> Jobs]
    /\ job'[t].at = where /\ job'[t].op = job[t].op /\ job'[t].rid = job[t].rid
    /\ \A u \in Txn \ {t} : job'[u] = job[u]

LEMMA GotoMoves ==
    ASSUME RowTypes, NEW t \in Txn, NEW where \in Places, Goto(t, where)
    PROVE  Moved(t, where) /\ job'[t].raw = job[t].raw /\ job'[t].old = job[t].old
<1>1. job \in [Txn -> Jobs] /\ job[t] \in Jobs
  BY DEF RowTypes
<1>2. job' = [job EXCEPT ![t] = [job[t] EXCEPT !.at = where]]
  BY <1>1 DEF Goto
<1>3. [job[t] EXCEPT !.at = where] \in Jobs
  BY <1>1 DEF Jobs
<1>4. /\ job'[t] = [job[t] EXCEPT !.at = where]
      /\ \A u \in Txn \ {t} : job'[u] = job[u]
      /\ job' \in [Txn -> Jobs]
  BY <1>1, <1>2, <1>3
<1>5. /\ [job[t] EXCEPT !.at = where].at = where
      /\ [job[t] EXCEPT !.at = where].op = job[t].op
      /\ [job[t] EXCEPT !.at = where].rid = job[t].rid
      /\ [job[t] EXCEPT !.at = where].raw = job[t].raw
      /\ [job[t] EXCEPT !.at = where].old = job[t].old
  BY <1>1 DEF Jobs
<1> QED BY <1>4, <1>5 DEF Moved

LEMMA IdleTyped == Idle \in Jobs /\ FreeSlot \in Cells /\ NoRow \in Vals
<1>1. NoRow \in Vals
  BY DEF Vals
<1>2. FreeSlot \in Cells
  BY <1>1 DEF FreeSlot, Cells
<1> QED BY <1>1, <1>2 DEF Idle, Jobs, Places

\* The statement is over.
LEMMA IdleMoves ==
    ASSUME RowTypes, NEW t \in Txn, job' = [job EXCEPT ![t] = Idle]
    PROVE  /\ job' \in [Txn -> Jobs] /\ job'[t].at = "idle"
           /\ \A u \in Txn \ {t} : job'[u] = job[u]
<1>1. Idle.at = "idle"
  BY DEF Idle
<1> QED BY <1>1, IdleTyped DEF RowTypes

\* A statement begins.
LEMMA StartMoves ==
    ASSUME RowTypes, NEW t \in Txn, NEW op \in {"insert", "update", "delete"}, NEW rid \in Rid,
           NEW first \in Places, StartStatement(t, op, rid, first)
    PROVE  /\ job' \in [Txn -> Jobs]
           /\ job'[t].at = first /\ job'[t].op = op /\ job'[t].rid = rid
           /\ \A u \in Txn \ {t} : job'[u] = job[u] /\ stmts'[u] = stmts[u]
           /\ stmts' \in [Txn -> 0 .. MaxStmt] /\ stmts'[t] = stmts[t] + 1
<1> DEFINE new == [Idle EXCEPT !.at = first, !.op = op, !.rid = rid]
<1>1. /\ new \in Jobs /\ new.at = first /\ new.op = op /\ new.rid = rid
  BY IdleTyped DEF Jobs, Idle
<1>2. job' = [job EXCEPT ![t] = new] /\ job \in [Txn -> Jobs]
  BY DEF StartStatement, RowTypes
<1> HIDE DEF new
<1>3. stmts[t] < MaxStmt /\ stmts' = [stmts EXCEPT ![t] = @ + 1] /\ stmts \in [Txn -> 0 .. MaxStmt]
  BY DEF StartStatement, RowTypes
<1>4. /\ stmts' \in [Txn -> 0 .. MaxStmt] /\ stmts'[t] = stmts[t] + 1
      /\ \A u \in Txn \ {t} : stmts'[u] = stmts[u]
  BY <1>3, BoundsAssumption
<1> QED BY <1>1, <1>2, <1>4

\* The manager and the rows, when they stay as they are.
LEMMA MgrSame == MgrInv /\ UNCHANGED mgrVars => MgrInv'
  BY DEF MgrInv, MgrTypeOK, Handed, Apart, Locked, Bounded, mgrVars, Begun

LEMMA ChainsSame ==
    ASSUME ChainInv, UNCHANGED <<version_info, undo_logs>>
    PROVE  Linked' /\ ChainsStop'
<1>1. Linked'
  BY DEF ChainInv, Linked, LogsLinked, Exists
<1>2. ChainsStop'
  BY DEF ChainInv, ChainsStop
<1> QED BY <1>1, <1>2

\* A step that only moves t inside its statement.
LEMMA MoveInv ==
    ASSUME ChainInv, NEW t \in Txn, NEW where \in Places, Moved(t, where),
           job[t].at \in {"idle", "throw"} => where \in {"idle", "throw"},
           where \in Unlogged => job[t].at \in Unlogged,
           where \in {"write", "link"} => job[t].at \in {"write", "link"},
           heap' \in [Rid -> Cells],
           MgrInv', UNCHANGED <<version_info, undo_logs, write_set, stmts>>
    PROVE  ChainInv'
<1>1. RowTypes'
  BY DEF ChainInv, RowTypes, Moved
<1>2. JobInv'
  <2> SUFFICES ASSUME NEW u \in Txn
               PROVE  /\ job'[u].at \notin {"idle", "throw"} => job'[u].rid \in Rid
                      /\ Len(undo_logs[u]) <= stmts[u]
                      /\ job'[u].at \in Unlogged => Len(undo_logs[u]) < stmts[u]
                      /\ job'[u].at \in {"write", "link"} => Len(undo_logs[u]) > 0
    BY DEF JobInv
  <2>1. CASE u = t
    BY <2>1 DEF ChainInv, JobInv, Moved
  <2>2. CASE u # t
    BY <2>2 DEF ChainInv, JobInv, Moved
  <2> QED BY <2>1, <2>2
<1> QED BY <1>1, <1>2, ChainsSame DEF ChainInv

\* A statement ends, and nothing else changes but the undo logs that are linked.
LEMMA EndInv ==
    ASSUME ChainInv, NEW t \in Txn, job' = [job EXCEPT ![t] = Idle],
           MgrInv', UNCHANGED <<heap, version_info, undo_logs, write_set, stmts>>
    PROVE  ChainInv'
<1>0. /\ job' \in [Txn -> Jobs] /\ job'[t].at = "idle"
      /\ \A u \in Txn \ {t} : job'[u] = job[u]
  BY IdleMoves DEF ChainInv
<1>1. RowTypes'
  BY <1>0 DEF ChainInv, RowTypes
<1>2. JobInv'
  BY <1>0 DEF ChainInv, JobInv, Unlogged
<1> QED BY <1>1, <1>2, ChainsSame DEF ChainInv

\* A statement begins, at a place before its undo log.
LEMMA StartInv ==
    ASSUME ChainInv, NEW t \in Txn, NEW op \in {"insert", "update", "delete"}, NEW rid \in Rid,
           NEW first \in Unlogged, StartStatement(t, op, rid, first),
           UNCHANGED <<mgrVars, heap, version_info, undo_logs, write_set>>
    PROVE  ChainInv'
<1>0. /\ job' \in [Txn -> Jobs]
      /\ job'[t].at = first /\ job'[t].op = op /\ job'[t].rid = rid
      /\ \A u \in Txn \ {t} : job'[u] = job[u] /\ stmts'[u] = stmts[u]
      /\ stmts' \in [Txn -> 0 .. MaxStmt] /\ stmts'[t] = stmts[t] + 1
  BY StartMoves DEF ChainInv, Unlogged, Places
<1>1. RowTypes'
  BY <1>0 DEF ChainInv, RowTypes
<1>2. JobInv'
  <2> SUFFICES ASSUME NEW u \in Txn
               PROVE  /\ job'[u].at \notin {"idle", "throw"} => job'[u].rid \in Rid
                      /\ Len(undo_logs[u]) <= stmts'[u]
                      /\ job'[u].at \in Unlogged => Len(undo_logs[u]) < stmts'[u]
                      /\ job'[u].at \in {"write", "link"} => Len(undo_logs[u]) > 0
    BY DEF JobInv
  <2>1. CASE u = t
    <3>1. undo_logs[t] \in Seq(LogRecords) /\ stmts[t] \in Nat /\ Len(undo_logs[t]) <= stmts[t]
      BY DEF ChainInv, RowTypes, JobInv
    <3> QED BY <2>1, <3>1, <1>0 DEF Unlogged
  <2>2. CASE u # t
    BY <2>2, <1>0 DEF ChainInv, JobInv
  <2> QED BY <2>1, <2>2
<1>3. MgrInv'
  BY MgrSame DEF ChainInv
<1> QED BY <1>1, <1>2, <1>3, ChainsSame DEF ChainInv

-----------------------------------------------------------------------------
(***************************************************************************)
(* A new undo log in front of a chain, or of none.                         *)
(***************************************************************************)
Appended(t, log) == undo_logs' = [undo_logs EXCEPT ![t] = Append(@, log)]

LEMMA AppendFacts ==
    ASSUME ChainInv, NEW t \in Txn, NEW log \in LogRecords, Appended(t, log)
    PROVE  /\ undo_logs' \in [Txn -> Seq(LogRecords)]
           /\ Len(undo_logs'[t]) = Len(undo_logs[t]) + 1 /\ Len(undo_logs[t]) \in Nat
           /\ undo_logs'[t][Len(undo_logs[t]) + 1] = log
           /\ \A i \in DOMAIN undo_logs[t] : undo_logs'[t][i] = undo_logs[t][i]
           /\ DOMAIN undo_logs[t] = 1 .. Len(undo_logs[t])
           /\ DOMAIN undo_logs'[t] = 1 .. (Len(undo_logs[t]) + 1)
           /\ \A u \in Txn \ {t} : undo_logs'[u] = undo_logs[u]
           /\ \A link : Exists(link) => Exists(link)'
<1>1. undo_logs \in [Txn -> Seq(LogRecords)] /\ undo_logs[t] \in Seq(LogRecords)
  BY DEF ChainInv, RowTypes
<1>2. undo_logs'[t] = Append(undo_logs[t], log) /\ \A u \in Txn \ {t} : undo_logs'[u] = undo_logs[u]
  BY <1>1 DEF Appended
<1>3. /\ Len(undo_logs'[t]) = Len(undo_logs[t]) + 1 /\ Len(undo_logs[t]) \in Nat
      /\ undo_logs'[t][Len(undo_logs[t]) + 1] = log
      /\ \A i \in DOMAIN undo_logs[t] : undo_logs'[t][i] = undo_logs[t][i]
      /\ DOMAIN undo_logs[t] = 1 .. Len(undo_logs[t])
      /\ DOMAIN undo_logs'[t] = 1 .. (Len(undo_logs[t]) + 1)
  BY <1>1, <1>2
<1>4. undo_logs' \in [Txn -> Seq(LogRecords)]
  BY <1>1 DEF Appended
<1>5. ASSUME NEW link, link[1] \in Txn, link[2] \in DOMAIN undo_logs[link[1]]
      PROVE  link[2] \in DOMAIN undo_logs'[link[1]]
  <2>1. CASE link[1] = t
    BY <2>1, <1>3, <1>5
  <2>2. CASE link[1] # t
    BY <2>2, <1>2, <1>5
  <2> QED BY <2>1, <2>2
<1> QED BY <1>2, <1>3, <1>4, <1>5 DEF Exists

\* The chains still end: the new log leads to older ones, and none to it.
LEMMA AppendEnds ==
    ASSUME ChainInv, NEW t \in Txn, NEW log \in LogRecords, Appended(t, log),
           log.prev # NoLink => Exists(log.prev)
    PROVE  ChainsStop'
<1> DEFINE Logs == UNION {{<<u, i>> : i \in DOMAIN undo_logs[u]} : u \in Txn}
           LogsN == UNION {{<<u, i>> : i \in DOMAIN undo_logs'[u]} : u \in Txn}
           L == <<t, Len(undo_logs[t]) + 1>>
<1>0. /\ Len(undo_logs[t]) \in Nat
      /\ undo_logs'[t][Len(undo_logs[t]) + 1] = log
      /\ \A i \in DOMAIN undo_logs[t] : undo_logs'[t][i] = undo_logs[t][i]
      /\ DOMAIN undo_logs[t] = 1 .. Len(undo_logs[t])
      /\ DOMAIN undo_logs'[t] = 1 .. (Len(undo_logs[t]) + 1)
      /\ \A u \in Txn \ {t} : undo_logs'[u] = undo_logs[u]
  BY AppendFacts
<1>1. \A link \in LogsN : link \in Logs \/ link = L
  <2> SUFFICES ASSUME NEW u \in Txn, NEW i \in DOMAIN undo_logs'[u]
               PROVE  <<u, i>> \in Logs \/ <<u, i>> = L
    OBVIOUS
  <2>1. CASE u = t /\ i = Len(undo_logs[t]) + 1
    BY <2>1
  <2>2. CASE u = t /\ i # Len(undo_logs[t]) + 1
    <3>1. i \in DOMAIN undo_logs[t]
      BY <2>2, <1>0
    <3> QED BY <3>1, <2>2
  <2>3. CASE u # t
    BY <2>3, <1>0
  <2> QED BY <2>1, <2>2, <2>3
<1>2. \A link \in Logs : /\ undo_logs'[link[1]][link[2]] = undo_logs[link[1]][link[2]]
                         /\ undo_logs[link[1]][link[2]].prev # L
  <2> SUFFICES ASSUME NEW u \in Txn, NEW i \in DOMAIN undo_logs[u]
               PROVE  undo_logs'[u][i] = undo_logs[u][i] /\ undo_logs[u][i].prev # L
    OBVIOUS
  <2>1. undo_logs'[u][i] = undo_logs[u][i]
    BY <1>0
  <2>2. undo_logs[u][i].prev # NoLink => Exists(undo_logs[u][i].prev)
    BY DEF ChainInv, Linked, LogsLinked
  <2>3. ~Exists(L) /\ L # NoLink
    BY <1>0, LinkIsValid DEF Exists
  <2> QED BY <2>1, <2>2, <2>3
<1>3. undo_logs'[L[1]][L[2]] = log /\ log.prev # L
  <2>1. ~Exists(L) /\ L # NoLink
    BY <1>0, LinkIsValid DEF Exists
  <2> QED BY <2>1, <1>0
<1> SUFFICES ASSUME NEW S \in SUBSET LogsN, S # {}
             PROVE  \E link \in S : undo_logs'[link[1]][link[2]].prev \notin S
  BY DEF ChainsStop
<1> HIDE DEF L
<1>4. CASE S \subseteq {L}
  BY <1>3, <1>4
<1>5. CASE ~(S \subseteq {L})
  <2> DEFINE R == S \ {L}
  <2>1. R \in SUBSET Logs /\ R # {}
    BY <1>1, <1>5
  <2>2. PICK link \in R : undo_logs[link[1]][link[2]].prev \notin R
    BY <2>1 DEF ChainInv, ChainsStop
  <2>3. undo_logs'[link[1]][link[2]].prev \notin R /\ undo_logs'[link[1]][link[2]].prev # L
    BY <1>2, <2>1, <2>2
  <2> QED BY <2>2, <2>3
<1> QED BY <1>4, <1>5

\* The predecessors of all logs exist, the new one's too.
LEMMA AppendLinked ==
    ASSUME ChainInv, NEW t \in Txn, NEW log \in LogRecords, Appended(t, log),
           log.prev # NoLink => Exists(log.prev)
    PROVE  LogsLinked'
<1>0. /\ undo_logs'[t][Len(undo_logs[t]) + 1] = log
      /\ \A i \in DOMAIN undo_logs[t] : undo_logs'[t][i] = undo_logs[t][i]
      /\ DOMAIN undo_logs[t] = 1 .. Len(undo_logs[t]) /\ Len(undo_logs[t]) \in Nat
      /\ DOMAIN undo_logs'[t] = 1 .. (Len(undo_logs[t]) + 1)
      /\ \A u \in Txn \ {t} : undo_logs'[u] = undo_logs[u]
      /\ \A link : Exists(link) => Exists(link)'
  BY AppendFacts
<1>1. ASSUME NEW u \in Txn, NEW i \in DOMAIN undo_logs'[u], undo_logs'[u][i].prev # NoLink
      PROVE  Exists(undo_logs'[u][i].prev)
  <2>1. CASE u = t /\ i = Len(undo_logs[t]) + 1
    BY <2>1, <1>0, <1>1
  <2>2. CASE u = t /\ i # Len(undo_logs[t]) + 1
    <3>1. i \in DOMAIN undo_logs[t]
      BY <2>2, <1>0
    <3> QED BY <3>1, <2>2, <1>0, <1>1 DEF ChainInv, Linked, LogsLinked
  <2>3. CASE u # t
    BY <2>3, <1>0, <1>1 DEF ChainInv, Linked, LogsLinked
  <2> QED BY <2>1, <2>2, <2>3
<1>2. ASSUME NEW u \in Txn, NEW i \in DOMAIN undo_logs'[u], undo_logs'[u][i].prev # NoLink
      PROVE  Exists(undo_logs[u][i].prev)'
  <2> DEFINE p == undo_logs'[u][i].prev
  <2>1. Exists(p)
    BY <1>1, <1>2
  <2> HIDE DEF p
  <2>2. p[1] \in Txn /\ p[2] \in DOMAIN undo_logs'[p[1]]
    BY <2>1, <1>0 DEF Exists
  <2> QED BY <2>2 DEF Exists, p
<1> QED BY <1>2 DEF LogsLinked

-----------------------------------------------------------------------------
(***************************************************************************)
(* One lemma for each step that appends an undo log, links one, or writes  *)
(* a row.                                                                  *)
(***************************************************************************)
LEMMA InsertLinkInv ==
    ASSUME ChainInv, NEW t \in Txn, InsertLink(t)
    PROVE  ChainInv'
<1> DEFINE log == [ts |-> 0, is_deleted |-> TRUE, val |-> NoRow, prev |-> NoLink]
           n == Len(undo_logs[t]) + 1
<1>1. log \in LogRecords /\ log.prev = NoLink
  BY IdleTyped DEF LogRecords, Links
<1>2. Appended(t, log)
  BY DEF InsertLink, Appended
<1>3. job[t].at = "insertlink" /\ job[t].rid \in Rid /\ job[t].rid[2] \in Slot
  <2>1. job[t].at = "insertlink"
    BY DEF InsertLink, At
  <2>2. job[t].rid \in Rid
    BY <2>1 DEF ChainInv, JobInv
  <2> QED BY <2>1, <2>2 DEF Rid
<1> HIDE DEF log
<1>4. /\ undo_logs' \in [Txn -> Seq(LogRecords)]
      /\ Len(undo_logs'[t]) = n /\ Len(undo_logs[t]) \in Nat
      /\ DOMAIN undo_logs'[t] = 1 .. n
      /\ \A u \in Txn \ {t} : undo_logs'[u] = undo_logs[u]
      /\ \A link : Exists(link) => Exists(link)'
  BY <1>1, <1>2, AppendFacts
<1>5. ChainsStop' /\ LogsLinked'
  BY <1>1, <1>2, AppendEnds, AppendLinked
<1>6. Len(undo_logs[t]) < stmts[t] /\ stmts[t] \in 0 .. MaxStmt
  BY <1>3 DEF ChainInv, JobInv, RowTypes, Unlogged
<1>7. <<t, n>> \in Links /\ n \in DOMAIN undo_logs'[t]
  <2>1. n \in 1 .. MaxStmt
    BY <1>4, <1>6, BoundsAssumption
  <2> QED BY <2>1, <1>4 DEF Links
<1>8. version_info' = [version_info EXCEPT ![job[t].rid[2]] = <<t, n>>]
  BY <1>4 DEF InsertLink, UpdateVersionLink
<1>9. /\ job' \in [Txn -> Jobs] /\ job'[t].at = "idle"
      /\ \A u \in Txn \ {t} : job'[u] = job[u]
  BY IdleMoves DEF ChainInv, InsertLink
<1>10. UNCHANGED <<mgrVars, heap, write_set, stmts>>
  BY DEF InsertLink
<1>11. RowTypes'
  <2>1. version_info' \in [Slot -> Links]
    BY <1>3, <1>7, <1>8 DEF ChainInv, RowTypes
  <2> QED BY <2>1, <1>4, <1>9, <1>10 DEF ChainInv, RowTypes
<1>12. JobInv'
  <2> SUFFICES ASSUME NEW u \in Txn
               PROVE  /\ job'[u].at \notin {"idle", "throw"} => job'[u].rid \in Rid
                      /\ Len(undo_logs'[u]) <= stmts[u]
                      /\ job'[u].at \in Unlogged => Len(undo_logs'[u]) < stmts[u]
                      /\ job'[u].at \in {"write", "link"} => Len(undo_logs'[u]) > 0
    BY <1>10 DEF JobInv
  <2>1. CASE u = t
    BY <2>1, <1>4, <1>6, <1>9, BoundsAssumption DEF Unlogged
  <2>2. CASE u # t
    BY <2>2, <1>4, <1>9 DEF ChainInv, JobInv
  <2> QED BY <2>1, <2>2
<1>13. \A s \in Slot : version_info'[s] # NoLink => Exists(version_info[s])'
  <2> SUFFICES ASSUME NEW s \in Slot, version_info'[s] # NoLink
               PROVE  version_info'[s][1] \in Txn /\ version_info'[s][2] \in DOMAIN undo_logs'[version_info'[s][1]]
    BY DEF Exists
  <2>1. CASE s = job[t].rid[2]
    <3>1. version_info'[s] = <<t, n>>
      BY <2>1, <1>8 DEF ChainInv, RowTypes
    <3> QED BY <3>1, <1>7
  <2>2. CASE s # job[t].rid[2]
    <3>1. version_info'[s] = version_info[s] /\ Exists(version_info[s])
      BY <2>2, <1>8 DEF ChainInv, RowTypes, Linked
    <3> DEFINE p == version_info[s]
    <3>2. Exists(p)
      BY <3>1
    <3> HIDE DEF p
    <3>3. p[1] \in Txn /\ p[2] \in DOMAIN undo_logs'[p[1]]
      BY <3>2, <1>4 DEF Exists
    <3> QED BY <3>1, <3>3 DEF p
  <2> QED BY <2>1, <2>2
<1>14. MgrInv'
  BY <1>10, MgrSame DEF ChainInv
<1> QED BY <1>5, <1>11, <1>12, <1>13, <1>14 DEF ChainInv, Linked

LEMMA ReadRawInv ==
    ASSUME ChainInv, NEW t \in Txn, ReadRaw(t)
    PROVE  ChainInv'
<1> DEFINE rid == job[t].rid
           raw == heap[rid]
           log == [ts |-> raw.ts, is_deleted |-> job[t].op = "update" /\ raw.is_deleted,
                   val |-> job[t].old, prev |-> PrevLink(t, rid)]
           n == Len(undo_logs[t]) + 1
<1>1. job[t].at = "raw" /\ rid \in Rid /\ rid[2] \in Slot /\ job[t] \in Jobs
  <2>1. job[t].at = "raw" /\ job[t] \in Jobs
    BY DEF ReadRaw, At, ChainInv, RowTypes
  <2>2. rid \in Rid
    BY <2>1 DEF ChainInv, JobInv
  <2> QED BY <2>1, <2>2 DEF Rid
<1>2. raw \in Cells
  BY <1>1 DEF ChainInv, RowTypes
<1>3. PrevLink(t, rid) = version_info[rid[2]]
  BY DEF PrevLink, GetUndoLink, GetVersionLink
<1>4. log \in LogRecords /\ (log.prev # NoLink => Exists(log.prev))
  <2>1. version_info[rid[2]] \in Links /\ (version_info[rid[2]] # NoLink => Exists(version_info[rid[2]]))
    BY <1>1 DEF ChainInv, RowTypes, Linked
  <2>2. raw.ts \in Nat /\ raw.is_deleted \in BOOLEAN /\ job[t].old \in Vals
    BY <1>1, <1>2 DEF Cells, Jobs
  <2>3. (job[t].op = "update" /\ raw.is_deleted) \in BOOLEAN
    OBVIOUS
  <2> HIDE DEF raw, rid
  <2> QED BY <2>1, <2>2, <2>3, <1>3 DEF LogRecords
<1>5. Appended(t, log)
  BY DEF ReadRaw, Appended, get_record
<1> HIDE DEF log
<1>6. /\ undo_logs' \in [Txn -> Seq(LogRecords)]
      /\ Len(undo_logs'[t]) = n /\ Len(undo_logs[t]) \in Nat
      /\ \A u \in Txn \ {t} : undo_logs'[u] = undo_logs[u]
      /\ \A link : Exists(link) => Exists(link)'
  BY <1>4, <1>5, AppendFacts
<1>7. ChainsStop' /\ LogsLinked'
  BY <1>4, <1>5, AppendEnds, AppendLinked
<1>8. Len(undo_logs[t]) < stmts[t] /\ stmts[t] \in 0 .. MaxStmt
  BY <1>1 DEF ChainInv, JobInv, RowTypes, Unlogged
<1>9. /\ job' \in [Txn -> Jobs]
      /\ job'[t].at = "write" /\ job'[t].rid = rid
      /\ \A u \in Txn \ {t} : job'[u] = job[u]
  <2>1. job' = [job EXCEPT ![t] = [job[t] EXCEPT !.raw = raw, !.at = "write"]]
    <3>1. job' = [job EXCEPT ![t].raw = raw, ![t].at = "write"]
      BY DEF ReadRaw, get_record
    <3>2. job \in [Txn -> Jobs]
      BY DEF ChainInv, RowTypes
    <3> HIDE DEF raw
    <3> QED BY <3>1, <3>2
  <2> DEFINE new == [job[t] EXCEPT !.raw = raw, !.at = "write"]
  <2>2. new \in Jobs /\ new.at = "write" /\ new.rid = rid
    <3> HIDE DEF raw
    <3> QED BY <1>1, <1>2 DEF Jobs, Places
  <2> HIDE DEF new
  <2> QED BY <2>1, <2>2 DEF ChainInv, RowTypes, new
<1>10. UNCHANGED <<mgrVars, heap, version_info, write_set, stmts>>
  BY DEF ReadRaw
<1>11. RowTypes'
  BY <1>6, <1>9, <1>10 DEF ChainInv, RowTypes
<1>12. JobInv'
  <2> SUFFICES ASSUME NEW u \in Txn
               PROVE  /\ job'[u].at \notin {"idle", "throw"} => job'[u].rid \in Rid
                      /\ Len(undo_logs'[u]) <= stmts[u]
                      /\ job'[u].at \in Unlogged => Len(undo_logs'[u]) < stmts[u]
                      /\ job'[u].at \in {"write", "link"} => Len(undo_logs'[u]) > 0
    BY <1>10 DEF JobInv
  <2>1. CASE u = t
    BY <2>1, <1>1, <1>6, <1>8, <1>9, BoundsAssumption DEF Unlogged
  <2>2. CASE u # t
    BY <2>2, <1>6, <1>9 DEF ChainInv, JobInv
  <2> QED BY <2>1, <2>2
<1>13. \A s \in Slot : version_info'[s] # NoLink => Exists(version_info[s])'
  <2> SUFFICES ASSUME NEW s \in Slot, version_info[s] # NoLink
               PROVE  version_info[s][1] \in Txn /\ version_info[s][2] \in DOMAIN undo_logs'[version_info[s][1]]
    BY <1>10 DEF Exists
  <2> DEFINE p == version_info[s]
  <2>1. Exists(p)
    BY DEF ChainInv, Linked
  <2> HIDE DEF p
  <2>2. p[1] \in Txn /\ p[2] \in DOMAIN undo_logs'[p[1]]
    BY <2>1, <1>6 DEF Exists
  <2> QED BY <2>2 DEF p
<1>14. MgrInv'
  BY <1>10, MgrSame DEF ChainInv
<1> QED BY <1>7, <1>11, <1>12, <1>13, <1>14 DEF ChainInv, Linked

LEMMA LinkRowInv ==
    ASSUME ChainInv, NEW t \in Txn, LinkRow(t)
    PROVE  ChainInv'
<1> DEFINE n == Len(undo_logs[t])
           w == [rid |-> job[t].rid, raw |-> job[t].raw]
<1>1. /\ job[t].at = "link" /\ job[t].rid \in Rid /\ job[t].rid[2] \in Slot
      /\ job[t] \in Jobs
  <2>1. job[t].at = "link" /\ job[t] \in Jobs
    BY DEF LinkRow, At, ChainInv, RowTypes
  <2>2. job[t].rid \in Rid
    BY <2>1 DEF ChainInv, JobInv
  <2> QED BY <2>1, <2>2 DEF Rid
<1>2. n \in DOMAIN undo_logs[t] /\ <<t, n>> \in Links
  <2>1. undo_logs[t] \in Seq(LogRecords) /\ n > 0
    BY <1>1 DEF ChainInv, JobInv, RowTypes
  <2>2. n \in DOMAIN undo_logs[t]
    BY <2>1
  <2> QED BY <2>2, LinkTyped DEF ChainInv
<1> HIDE DEF n
<1>3. version_info' = [version_info EXCEPT ![job[t].rid[2]] = <<t, n>>]
  BY DEF LinkRow, UpdateVersionLink, n
<1>4. /\ job' \in [Txn -> Jobs] /\ job'[t].at = "idle"
      /\ \A u \in Txn \ {t} : job'[u] = job[u]
  BY IdleMoves DEF ChainInv, LinkRow
<1>5. UNCHANGED <<mgrVars, heap, undo_logs, stmts>>
  BY DEF LinkRow
<1>6. RowTypes'
  <2>1. version_info' \in [Slot -> Links]
    BY <1>1, <1>2, <1>3 DEF ChainInv, RowTypes
  <2>2. w \in WriteRecords
    BY <1>1 DEF WriteRecords, Jobs
  <2>3. write_set' \in [Txn -> Seq(WriteRecords)]
    <3> HIDE DEF w
    <3>1. write_set' = [write_set EXCEPT ![t] = Append(@, w)]
      BY DEF LinkRow, w
    <3> QED BY <2>2, <3>1 DEF ChainInv, RowTypes
  <2> QED BY <2>1, <2>3, <1>4, <1>5 DEF ChainInv, RowTypes
<1>7. JobInv'
  BY <1>4, <1>5 DEF ChainInv, JobInv, Unlogged
<1>8. Linked'
  <2>1. LogsLinked'
    BY <1>5 DEF ChainInv, Linked, LogsLinked, Exists
  <2>2. \A s \in Slot : version_info'[s] # NoLink => Exists(version_info[s])'
    <3> SUFFICES ASSUME NEW s \in Slot, version_info'[s] # NoLink
                 PROVE  version_info'[s][1] \in Txn /\ version_info'[s][2] \in DOMAIN undo_logs[version_info'[s][1]]
      BY <1>5 DEF Exists
    <3>1. CASE s = job[t].rid[2]
      <4>1. version_info'[s] = <<t, n>>
        BY <3>1, <1>3 DEF ChainInv, RowTypes
      <4> QED BY <4>1, <1>2
    <3>2. CASE s # job[t].rid[2]
      <4>1. version_info'[s] = version_info[s]
        BY <3>2, <1>3 DEF ChainInv, RowTypes
      <4> QED BY <4>1 DEF ChainInv, Linked, Exists
    <3> QED BY <3>1, <3>2
  <2> QED BY <2>1, <2>2 DEF Linked
<1>9. ChainsStop' /\ MgrInv'
  BY <1>5, MgrSame DEF ChainInv, ChainsStop
<1> QED BY <1>6, <1>7, <1>8, <1>9 DEF ChainInv

\* The start timestamp of a running transaction.
LEMMA RunningTs ==
    ASSUME MgrInv, NEW t \in Txn, call[t] = "running"
    PROVE  Begun(t) /\ start_ts[t] \in Nat /\ start_ts[t] < next_timestamp
  BY DEF MgrInv, Handed

LEMMA InsertWriteInv ==
    ASSUME ChainInv, NEW t \in Txn, InsertWrite(t)
    PROVE  ChainInv' /\ Moved(t, "insertlink")
<1> DEFINE val == [head |-> NewHead(t), tail |-> NewTail(t)]
           cell == [used |-> TRUE, ts |-> start_ts[t], is_deleted |-> FALSE, val |-> val]
<1>1. call[t] = "running" /\ job[t].at = "insert"
  BY DEF InsertWrite, At
<1>2. val \in Vals /\ start_ts[t] \in Nat
  BY <1>1, NewRowTyped, RunningTs DEF ChainInv
<1>3. cell \in Cells
  <2> HIDE DEF val
  <2> QED BY <1>2 DEF Cells
<1>4. heap' = [heap EXCEPT ![job[t].rid] = cell]
  BY DEF InsertWrite
<1> HIDE DEF cell
<1>5. heap' \in [Rid -> Cells]
  BY <1>3, <1>4 DEF ChainInv, RowTypes
<1>6. Goto(t, "insertlink") /\ UNCHANGED <<mgrVars, version_info, undo_logs, write_set, stmts>>
  BY DEF InsertWrite
<1>7. Moved(t, "insertlink")
  BY <1>6, GotoMoves DEF ChainInv, Places
<1>8. MgrInv'
  BY <1>6, MgrSame DEF ChainInv
<1>9. "insertlink" \in Places
  BY DEF Places
<1> QED BY <1>1, <1>5, <1>6, <1>7, <1>8, <1>9, MoveInv DEF Unlogged

LEMMA WriteRowInv ==
    ASSUME ChainInv, NEW t \in Txn, WriteRow(t)
    PROVE  ChainInv' /\ Moved(t, "link")
<1> DEFINE rid == job[t].rid
           raw == job[t].raw
           val == IF job[t].op = "update" THEN [raw.val EXCEPT !.head = NewHead(t)] ELSE raw.val
           del == ~(job[t].op = "update")
<1>1. call[t] = "running" /\ job[t].at = "write" /\ rid \in Rid
  BY DEF WriteRow, At, ChainInv, JobInv
<1>2. val \in Vals /\ start_ts[t] \in Nat /\ del \in BOOLEAN
  <2>1. raw.val \in Vals
    BY DEF ChainInv, RowTypes, Jobs, Cells
  <2>2. [raw.val EXCEPT !.head = NewHead(t)] \in Vals
    BY <1>1, <2>1, NewRowTyped DEF ChainInv
  <2> QED BY <1>1, <2>1, <2>2, RunningTs DEF ChainInv
<1>3. heap' = [heap EXCEPT ![rid].ts = start_ts[t], ![rid].is_deleted = del, ![rid].val = val]
  BY DEF WriteRow
<1> HIDE DEF val, del, raw, rid
<1>4. heap' \in [Rid -> Cells]
  BY <1>1, <1>2, <1>3 DEF ChainInv, RowTypes, Cells
<1>5. Goto(t, "link") /\ UNCHANGED <<mgrVars, version_info, undo_logs, write_set, stmts>>
  BY DEF WriteRow
<1>6. Moved(t, "link")
  BY <1>5, GotoMoves DEF ChainInv, Places
<1>7. MgrInv'
  BY <1>5, MgrSame DEF ChainInv
<1>8. "link" \in Places
  BY DEF Places
<1> QED BY <1>1, <1>4, <1>5, <1>6, <1>7, <1>8, MoveInv DEF Unlogged

LEMMA CheckRowInv ==
    ASSUME ChainInv, NEW t \in Txn, CheckRow(t)
    PROVE  ChainInv'
<1>1. job[t].at = "check"
  BY DEF CheckRow, At
<1>2. PICK where \in {"throw", "read", "raw"} : Goto(t, where)
  BY DEF CheckRow, Throw
<1>3. UNCHANGED <<mgrVars, heap, version_info, undo_logs, write_set, stmts>>
  BY DEF CheckRow
<1>4. where \in Places
  BY <1>2 DEF Places
<1>5. Moved(t, where)
  BY <1>2, <1>4, GotoMoves DEF ChainInv
<1>6. MgrInv' /\ heap' \in [Rid -> Cells]
  BY <1>3, MgrSame DEF ChainInv, RowTypes
<1>7. job[t].at \in Unlogged /\ where \notin {"write", "link"}
  BY <1>1, <1>2 DEF Unlogged
<1> QED BY <1>1, <1>3, <1>4, <1>5, <1>6, <1>7, MoveInv DEF Unlogged

LEMMA ReadRowInv ==
    ASSUME ChainInv, NEW t \in Txn, ReadRow(t)
    PROVE  ChainInv'
<1> DEFINE old == get_record_mvcc(t, job[t].rid)
           where == IF job[t].op = "update" THEN "raw" ELSE "check"
<1>1. job[t].at = "read" /\ job[t].rid \in Rid
  BY DEF ReadRow, At, ChainInv, JobInv
<1>2. UNCHANGED <<mgrVars, heap, version_info, undo_logs, write_set, stmts>>
  BY DEF ReadRow
<1>3. MgrInv' /\ heap' \in [Rid -> Cells]
  BY <1>2, MgrSame DEF ChainInv, RowTypes
<1>4. old \in Vals \cup {Conflict}
  BY <1>1, ReadTyped DEF ChainInv
<1>5. \/ Goto(t, "throw") \/ Goto(t, "invisible") \/ job' = [job EXCEPT ![t] = Idle]
      \/ old # Conflict /\ job' = [job EXCEPT ![t].old = old, ![t].at = where]
  <2>1. CASE old = Conflict
    BY <2>1, Zenon DEF ReadRow, Throw
  <2>2. CASE old # Conflict /\ old = NoRow
    BY <2>2, Zenon DEF ReadRow
  <2>3. CASE old # Conflict /\ old # NoRow
    BY <2>3, Zenon DEF ReadRow
  <2> QED BY <2>1, <2>2, <2>3
<1> HIDE DEF old
<1>6. ASSUME NEW w \in {"throw", "invisible", "raw", "check"}, Moved(t, w) PROVE ChainInv'
  <2>1. w \in Places
    BY DEF Places
  <2> QED BY <1>1, <1>2, <1>3, <1>6, <2>1, MoveInv DEF Unlogged
<1>7. CASE Goto(t, "throw")
  BY <1>6, <1>7, GotoMoves DEF ChainInv, Places
<1>8. CASE Goto(t, "invisible")
  BY <1>6, <1>8, GotoMoves DEF ChainInv, Places
<1>9. CASE job' = [job EXCEPT ![t] = Idle]
  BY <1>2, <1>3, <1>9, EndInv
<1>10. CASE old # Conflict /\ job' = [job EXCEPT ![t].old = old, ![t].at = where]
  <2>1. old \in Vals /\ where \in {"raw", "check"} /\ where \in Places
    BY <1>4, <1>10 DEF Places
  <2> HIDE DEF where
  <2> DEFINE new == [job[t] EXCEPT !.old = old, !.at = where]
  <2>2. job \in [Txn -> Jobs] /\ job[t] \in Jobs
    BY DEF ChainInv, RowTypes
  <2>3. job' = [job EXCEPT ![t] = new]
    BY <1>10, <2>2
  <2>4. new \in Jobs /\ new.at = where /\ new.rid = job[t].rid /\ new.op = job[t].op
    BY <2>1, <2>2 DEF Jobs
  <2> HIDE DEF new
  <2>5. Moved(t, where)
    BY <2>2, <2>3, <2>4 DEF Moved
  <2> QED BY <1>6, <2>1, <2>5
<1> QED BY <1>5, <1>7, <1>8, <1>9, <1>10

LEMMA ReadConflictInv ==
    ASSUME ChainInv, NEW t \in Txn, NEW rid \in Rid, ReadConflict(t, rid)
    PROVE  ChainInv'
<1>1. /\ job[t].at = "idle" /\ Goto(t, "throw")
      /\ UNCHANGED <<mgrVars, heap, version_info, undo_logs, write_set, stmts>>
  BY DEF ReadConflict, At, Throw
<1>2. Moved(t, "throw") /\ "throw" \in Places
  BY <1>1, GotoMoves DEF ChainInv, Places
<1>3. MgrInv' /\ heap' \in [Rid -> Cells]
  BY <1>1, MgrSame DEF ChainInv, RowTypes
<1> QED BY <1>1, <1>2, <1>3, MoveInv DEF Unlogged

\* insert_record takes a slot that is not in use.
LEMMA FreeSlotFound ==
    ASSUME NEW table \in Table, \E s \in Slot : ~heap[<<table, s>>].used
    PROVE  LET rid == <<table, Lowest({s \in Slot : ~heap[<<table, s>>].used})>>
           IN  rid \in Rid /\ ~heap[rid].used
<1> DEFINE S == {s \in Slot : ~heap[<<table, s>>].used}
<1>1. S \in SUBSET Nat /\ S # {}
  BY BoundsAssumption DEF Slot
<1>2. Lowest(S) \in S
  BY <1>1, LowestIsLeast
<1> QED BY <1>2 DEF Rid

LEMMA InsertChooseInv ==
    ASSUME ChainInv, NEW t \in Txn, NEW table \in Table, InsertChoose(t, table)
    PROVE  ChainInv'
<1> DEFINE rid == <<table, Lowest({s \in Slot : ~heap[<<table, s>>].used})>>
<1>1. rid \in Rid
  BY FreeSlotFound DEF InsertChoose
<1>2. /\ StartStatement(t, "insert", rid, "insert")
      /\ UNCHANGED <<mgrVars, heap, version_info, undo_logs, write_set>>
  BY DEF InsertChoose
<1> HIDE DEF rid
<1> QED BY <1>1, <1>2, StartInv DEF Unlogged

LEMMA StampLogsFacts ==
    ASSUME ChainInv, NEW t \in Txn, NEW ts \in Nat, undo_logs' = StampLogs(t, ts)
    PROVE  /\ undo_logs' \in [Txn -> Seq(LogRecords)]
           /\ \A u \in Txn : /\ DOMAIN undo_logs'[u] = DOMAIN undo_logs[u]
                             /\ Len(undo_logs'[u]) = Len(undo_logs[u])
                             /\ \A i \in DOMAIN undo_logs[u] :
                                    undo_logs'[u][i].prev = undo_logs[u][i].prev
<1> DEFINE New(i) == IF undo_logs[t][i].ts = start_ts[t]
                     THEN [undo_logs[t][i] EXCEPT !.ts = ts] ELSE undo_logs[t][i]
<1>1. undo_logs \in [Txn -> Seq(LogRecords)] /\ undo_logs[t] \in Seq(LogRecords)
  BY DEF ChainInv, RowTypes
<1>2. \A i \in DOMAIN undo_logs[t] : New(i) \in LogRecords /\ New(i).prev = undo_logs[t][i].prev
  <2> SUFFICES ASSUME NEW r \in LogRecords
               PROVE  [r EXCEPT !.ts = ts] \in LogRecords /\ [r EXCEPT !.ts = ts].prev = r.prev
    BY <1>1
  <2> QED BY DEF LogRecords
<1> DEFINE new == [i \in DOMAIN undo_logs[t] |-> New(i)]
<1>3. undo_logs' = [undo_logs EXCEPT ![t] = new]
  BY DEF StampLogs
<1> HIDE DEF New
<1>4. /\ new \in Seq(LogRecords) /\ DOMAIN new = DOMAIN undo_logs[t] /\ Len(new) = Len(undo_logs[t])
  <2>1. DOMAIN undo_logs[t] = 1 .. Len(undo_logs[t]) /\ Len(undo_logs[t]) \in Nat
    BY <1>1
  <2>2. new \in [1 .. Len(undo_logs[t]) -> LogRecords]
    BY <1>2, <2>1
  <2> QED BY <2>1, <2>2
<1>5. \A i \in DOMAIN undo_logs[t] : new[i].prev = undo_logs[t][i].prev
  BY <1>2
<1> HIDE DEF new
<1>6. undo_logs'[t] = new /\ \A u \in Txn \ {t} : undo_logs'[u] = undo_logs[u]
  BY <1>1, <1>3
<1>7. undo_logs' \in [Txn -> Seq(LogRecords)]
  BY <1>1, <1>3, <1>4
<1>8. ASSUME NEW u \in Txn
      PROVE  /\ DOMAIN undo_logs'[u] = DOMAIN undo_logs[u]
             /\ Len(undo_logs'[u]) = Len(undo_logs[u])
             /\ \A i \in DOMAIN undo_logs[u] : undo_logs'[u][i].prev = undo_logs[u][i].prev
  <2>1. CASE u = t
    BY <2>1, <1>4, <1>5, <1>6
  <2>2. CASE u # t
    BY <2>2, <1>6
  <2> QED BY <2>1, <2>2
<1> QED BY <1>7, <1>8

LEMMA StampHeapTyped ==
    ASSUME RowTypes, NEW t \in Txn, NEW ts \in Nat
    PROVE  StampHeap(t, ts) \in [Rid -> Cells]
<1>1. ASSUME NEW c \in Cells PROVE [c EXCEPT !.ts = ts] \in Cells
  BY DEF Cells
<1> QED BY <1>1 DEF StampHeap, RowTypes

LEMMA CommitInv ==
    ASSUME ChainInv, NEW t \in Txn, Commit(t)
    PROVE  ChainInv'
<1>1. next_timestamp \in Nat
  BY DEF ChainInv, MgrInv, MgrTypeOK
<1>2. /\ heap' = StampHeap(t, next_timestamp) /\ undo_logs' = StampLogs(t, next_timestamp)
      /\ UNCHANGED <<version_info, write_set, job, stmts>> /\ CommitStamp(t)
  BY DEF Commit
<1>3. heap' \in [Rid -> Cells]
  BY <1>1, <1>2, StampHeapTyped DEF ChainInv
<1>4. /\ undo_logs' \in [Txn -> Seq(LogRecords)]
      /\ \A u \in Txn : /\ DOMAIN undo_logs'[u] = DOMAIN undo_logs[u]
                        /\ Len(undo_logs'[u]) = Len(undo_logs[u])
                        /\ \A i \in DOMAIN undo_logs[u] :
                               undo_logs'[u][i].prev = undo_logs[u][i].prev
  BY <1>1, <1>2, StampLogsFacts
<1>5. RowTypes'
  BY <1>2, <1>3, <1>4 DEF ChainInv, RowTypes
<1>6. JobInv'
  BY <1>2, <1>4 DEF ChainInv, JobInv
<1>7. ASSUME NEW p, Exists(p) PROVE p[1] \in Txn /\ p[2] \in DOMAIN undo_logs'[p[1]]
  BY <1>4, <1>7 DEF Exists
<1>8. Linked'
  <2>1. \A s \in Slot : version_info[s] # NoLink =>
            version_info[s][1] \in Txn /\ version_info[s][2] \in DOMAIN undo_logs'[version_info[s][1]]
    BY <1>7 DEF ChainInv, Linked
  <2>2. ASSUME NEW u \in Txn, NEW i \in DOMAIN undo_logs'[u], undo_logs'[u][i].prev # NoLink
        PROVE  /\ undo_logs'[u][i].prev[1] \in Txn
               /\ undo_logs'[u][i].prev[2] \in DOMAIN undo_logs'[undo_logs'[u][i].prev[1]]
    <3>1. i \in DOMAIN undo_logs[u] /\ undo_logs'[u][i].prev = undo_logs[u][i].prev
      BY <1>4
    <3>2. Exists(undo_logs[u][i].prev)
      BY <2>2, <3>1 DEF ChainInv, Linked, LogsLinked
    <3> QED BY <3>1, <3>2, <1>7
  <2> QED BY <2>1, <2>2, <1>2 DEF Linked, LogsLinked, Exists
<1>9. ChainsStop'
  <2> DEFINE Logs == UNION {{<<u, i>> : i \in DOMAIN undo_logs[u]} : u \in Txn}
             LogsN == UNION {{<<u, i>> : i \in DOMAIN undo_logs'[u]} : u \in Txn}
  <2>1. LogsN \subseteq Logs
    BY <1>4
  <2>2. \A link \in Logs : undo_logs'[link[1]][link[2]].prev = undo_logs[link[1]][link[2]].prev
    BY <1>4
  <2> SUFFICES ASSUME NEW S \in SUBSET LogsN, S # {}
               PROVE  \E link \in S : undo_logs'[link[1]][link[2]].prev \notin S
    BY DEF ChainsStop
  <2>3. S \in SUBSET Logs
    BY <2>1
  <2>4. PICK link \in S : undo_logs[link[1]][link[2]].prev \notin S
    BY <2>3 DEF ChainInv, ChainsStop
  <2> QED BY <2>2, <2>3, <2>4
<1>10. MgrInv'
  BY <1>2, CommitStampInv DEF ChainInv
<1> QED BY <1>5, <1>6, <1>8, <1>9, <1>10 DEF ChainInv

LEMMA AbortUndoInv ==
    ASSUME ChainInv, NEW t \in Txn, AbortUndo(t)
    PROVE  ChainInv'
<1> DEFINE n == Len(write_set[t])
           w == write_set[t][n]
           cell == [w.raw EXCEPT !.used = TRUE]
<1>1. write_set[t] \in Seq(WriteRecords) /\ write_set[t] # <<>>
  BY DEF AbortUndo, RollingBack, ChainInv, RowTypes
<1>2. n \in Nat \ {0} /\ w \in WriteRecords
  BY <1>1
<1>3. /\ heap' = [heap EXCEPT ![w.rid] = cell]
      /\ write_set' = [write_set EXCEPT ![t] = SubSeq(@, 1, n - 1)]
      /\ UNCHANGED <<mgrVars, version_info, undo_logs, job, stmts>>
  BY DEF AbortUndo, LatestWrite
<1> HIDE DEF w
<1>4. cell \in Cells
  BY <1>2 DEF WriteRecords, Cells
<1> HIDE DEF cell
<1>5. heap' \in [Rid -> Cells]
  BY <1>3, <1>4 DEF ChainInv, RowTypes
<1>6. write_set' \in [Txn -> Seq(WriteRecords)]
  <2>1. SubSeq(write_set[t], 1, n - 1) \in Seq(WriteRecords)
    BY <1>1, <1>2
  <2> QED BY <2>1, <1>3 DEF ChainInv, RowTypes
<1>7. RowTypes'
  BY <1>3, <1>5, <1>6 DEF ChainInv, RowTypes
<1>8. JobInv'
  BY <1>3 DEF ChainInv, JobInv
<1>9. MgrInv'
  BY <1>3, MgrSame DEF ChainInv
<1> QED BY <1>3, <1>7, <1>8, <1>9, ChainsSame DEF ChainInv

\* A step of the manager alone.
LEMMA RowsSame ==
    ASSUME ChainInv, MgrInv', UNCHANGED rowVars
    PROVE  ChainInv'
<1>1. RowTypes' /\ JobInv'
  BY DEF ChainInv, RowTypes, JobInv, rowVars
<1> QED BY <1>1, ChainsSame DEF ChainInv, rowVars

\* A step of the code, or one that leaves manager and rows alone.
LEMMA StepOrSame ==
    ASSUME [Next]_vars
    PROVE  (\E t \in Txn : Step(t)) \/ UNCHANGED <<mgrVars, rowVars>>
<1>1. CASE UNCHANGED vars
  BY <1>1 DEF vars
<1>2. CASE Next
  BY <1>2 DEF Next, Session, Run, DeleteTxn, ReadFreed
<1> QED BY <1>1, <1>2

LEMMA ChainStep ==
    ASSUME ChainInv, [Next]_vars
    PROVE  ChainInv'
<1>1. ASSUME NEW t \in Txn, Statement(t) PROVE ChainInv'
  <2>1. ASSUME NEW rid \in Rid, UpdateStart(t, rid) PROVE ChainInv'
    BY <2>1, StartInv DEF UpdateStart, Unlogged
  <2>2. ASSUME NEW rid \in Rid, DeleteStart(t, rid) PROVE ChainInv'
    BY <2>2, StartInv DEF DeleteStart, Unlogged
  <2> QED BY <1>1, <2>1, <2>2, InsertChooseInv, InsertWriteInv, InsertLinkInv, ReadConflictInv,
             CheckRowInv, ReadRowInv, ReadRawInv, WriteRowInv, LinkRowInv DEF Statement
<1>2. ASSUME NEW t \in Txn, Begin(t) PROVE ChainInv'
  <2>1. MgrInv'
    BY <1>2, BeginInv DEF Begin, ChainInv
  <2> QED BY <1>2, <2>1, RowsSame DEF Begin
<1>3. ASSUME NEW t \in Txn, Abort(t) PROVE ChainInv'
  <2>1. MgrInv'
    BY <1>3, AbortStateInv DEF Abort, ChainInv
  <2> QED BY <1>3, <2>1, EndInv DEF Abort
<1>4. ASSUME NEW t \in Txn, ManagerStep(t) PROVE ChainInv'
  <2>1. MgrInv'
    BY <1>4, CommitRecordInv, CommitStateInv, AbortEraseInv, AbortRecordInv
    DEF ManagerStep, ChainInv
  <2> QED BY <1>4, <2>1, RowsSame DEF ManagerStep
<1>5. CASE UNCHANGED <<mgrVars, rowVars>>
  <2>1. MgrInv'
    BY <1>5, MgrSame DEF ChainInv
  <2> QED BY <1>5, <2>1, RowsSame
<1> QED BY <1>1, <1>2, <1>3, <1>4, <1>5, StepOrSame, CommitInv, AbortUndoInv DEF Step

\* A new database, and one after a restart.
LEMMA RowsInit ==
    ASSUME RowInit, MgrInv, heap \in [Rid -> Cells]
    PROVE  ChainInv
<1>1. RowTypes
  <2>1. version_info \in [Slot -> Links]
    BY DEF RowInit, Links
  <2>2. job \in [Txn -> Jobs]
    BY IdleTyped DEF RowInit
  <2>3. stmts \in [Txn -> 0 .. MaxStmt]
    BY BoundsAssumption DEF RowInit
  <2>4. undo_logs \in [Txn -> Seq(LogRecords)] /\ write_set \in [Txn -> Seq(WriteRecords)]
    BY DEF RowInit
  <2> QED BY <2>1, <2>2, <2>3, <2>4 DEF RowTypes
<1>2. JobInv
  BY DEF RowInit, JobInv, Idle, Unlogged
<1>3. Linked
  BY DEF RowInit, Linked, LogsLinked
<1>4. ChainsStop
  BY DEF RowInit, ChainsStop
<1> QED BY <1>1, <1>2, <1>3, <1>4 DEF ChainInv

LEMMA FirstInit == Init => MgrInv /\ ChainInv
<1> SUFFICES ASSUME Init PROVE MgrInv /\ ChainInv
  OBVIOUS
<1>1. MgrInv
  BY DdlTxnAssumption, NoTxnAssumption
  DEF Init, MgrInv, MgrTypeOK, Handed, Apart, Locked, Bounded, NewWatermark, Timestamps, Calls,
      INVALID_TS, NoChange, Begun
<1>2. heap \in [Rid -> Cells]
  BY IdleTyped DEF Init
<1> QED BY <1>1, <1>2, RowsInit DEF Init

LEMMA RestartedInit == RestartInit => ChainInv
<1> SUFFICES ASSUME RestartInit PROVE ChainInv
  OBVIOUS
<1>1. MgrInv
  BY InitInv DEF RestartInit
<1>2. heap \in [Rid -> Cells]
  <2>1. {FreeSlot} \cup [used : {TRUE}, ts : 1 .. StartTs - 1, is_deleted : BOOLEAN, val : {OldRow}]
            \subseteq Cells
    <3>1. OldRow \in Vals
      BY DEF Vals
    <3>2. 1 .. StartTs - 1 \subseteq Nat
      BY StartTsAssumption
    <3>3. [used : {TRUE}, ts : 1 .. StartTs - 1, is_deleted : BOOLEAN, val : {OldRow}] \subseteq Cells
      BY <3>1, <3>2 DEF Cells
    <3> QED BY <3>3, IdleTyped
  <2> QED BY <2>1 DEF RestartInit
<1> QED BY <1>1, <1>2, RowsInit DEF RestartInit

\* The memory of the transactions.
MemTypes ==
    memory \in [Txn -> {"kept", "doomed", "freed"}] /\ undefined \in BOOLEAN

LEMMA MemStep ==
    ASSUME MemTypes, [Next]_vars
    PROVE  MemTypes'
<1>1. CASE UNCHANGED vars
  BY <1>1 DEF vars, memVars, MemTypes
<1>2. ASSUME NEW t \in Txn, Run(t) PROVE MemTypes'
  BY <1>2 DEF Run, MemTypes
<1>3. ASSUME NEW t \in Txn, DeleteTxn(t) PROVE MemTypes'
  BY <1>3 DEF DeleteTxn, MemTypes
<1>4. ASSUME NEW t \in Txn, ReadFreed(t) PROVE MemTypes'
  BY <1>4 DEF ReadFreed, MemTypes
<1> QED BY <1>1, <1>2, <1>3, <1>4 DEF Next, Session

LEMMA ChainInvImplies == ChainInv /\ MemTypes => ChainsInv
<1> SUFFICES ASSUME ChainInv, MemTypes PROVE TypeOK /\ ChainsEnd
  BY DEF ChainsInv
<1>1. ChainsEnd
  <2> DEFINE AllLogs == UNION {{<<t, i>> : i \in DOMAIN undo_logs[t]} : t \in Txn}
             Logs == UNION {{<<t, i>> : i \in DOMAIN undo_logs[t]} : t \in Txn \ Freed}
  <2>1. Logs \subseteq AllLogs
    OBVIOUS
  <2>2. \A S \in SUBSET AllLogs : S # {} =>
            \E link \in S : undo_logs[link[1]][link[2]].prev \notin S
    BY DEF ChainInv, ChainsStop
  <2> HIDE DEF AllLogs
  <2>3. \A S \in SUBSET Logs : S # {} =>
            \E link \in S : undo_logs[link[1]][link[2]].prev \notin S
    <3> HIDE DEF Logs
    <3> QED BY <2>1, <2>2
  <2> QED BY <2>3 DEF ChainsEnd
<1>2. TypeOK
  <2> SUFFICES ASSUME NEW t \in Txn
               PROVE  /\ \A i \in DOMAIN undo_logs[t] : undo_logs[t][i] \in LogRecords
                      /\ \A i \in DOMAIN write_set[t] : write_set[t][i] \in WriteRecords
                      /\ job[t].raw \in Cells /\ job[t].old \in Vals
                      /\ stmts[t] \in 0 .. MaxStmt
    BY DEF ChainInv, MgrInv, RowTypes, TypeOK, LogRecords, WriteRecords, MemTypes
  <2>1. /\ undo_logs[t] \in Seq(LogRecords) /\ write_set[t] \in Seq(WriteRecords)
        /\ job[t] \in Jobs /\ stmts[t] \in 0 .. MaxStmt
    BY DEF ChainInv, RowTypes
  <2>2. \A i \in DOMAIN undo_logs[t] : undo_logs[t][i] \in LogRecords
    BY <2>1
  <2>3. \A i \in DOMAIN write_set[t] : write_set[t][i] \in WriteRecords
    BY <2>1
  <2> QED BY <2>1, <2>2, <2>3 DEF Jobs
<1> QED BY <1>1, <1>2

(***************************************************************************)
(* However the accesses of the sessions to the heap, the chains and the    *)
(* undo logs interleave, every version chain ends or leads to a            *)
(* transaction that client_handler deleted after a conflict: short of      *)
(* that, the walk of GetVisibleVersionFromHistory returns, in a new        *)
(* database and in one that was restarted.                                 *)
(***************************************************************************)
THEOREM ChainsAlwaysEnd == Spec => []ChainsInv
<1>1. Init => ChainInv
  BY FirstInit
<1>2. Init => MemTypes
  <2>1. Init => RowInit
    BY DEF Init
  <2>2. RowInit => memory = [t \in Txn |-> "kept"] /\ undefined = FALSE
    BY DEF RowInit
  <2> QED BY <2>1, <2>2 DEF MemTypes
<1>3. ChainInv /\ MemTypes /\ [Next]_vars => ChainInv' /\ MemTypes'
  BY ChainStep, MemStep
<1> QED BY <1>1, <1>2, <1>3, ChainInvImplies, PTL DEF Spec

\* The same of a server that was restarted (RestartInit).
THEOREM ChainsEndAfterRestart == RestartSpec => []ChainsInv
<1>1. RestartInit => ChainInv
  BY RestartedInit
<1>2. RestartInit => MemTypes
  <2>1. RestartInit => RowInit
    BY DEF RestartInit
  <2>2. RowInit => memory = [t \in Txn |-> "kept"] /\ undefined = FALSE
    BY DEF RowInit
  <2> QED BY <2>1, <2>2 DEF MemTypes
<1>3. ChainInv /\ MemTypes /\ [Next]_vars => ChainInv' /\ MemTypes'
  BY ChainStep, MemStep
<1> QED BY <1>1, <1>2, <1>3, ChainInvImplies, PTL DEF RestartSpec

-----------------------------------------------------------------------------
(***************************************************************************)
(* First committer wins, when one call of one session runs at a time.      *)
(*                                                                         *)
(* The timestamp in the heap is the only lock of a row.  It does its work  *)
(* because it tells, at any time, of every version that has committed: the *)
(* last one committed at that timestamp, or is the version of the          *)
(* transaction that started at it.  The invariant below says so of the     *)
(* heap and of every record that abort may put back there.                 *)
(***************************************************************************)
Versions == [start : Nat, ts : Nat, insert : BOOLEAN, val : Vals]

PartialRows == UNION {[D -> Vals] : D \in SUBSET Rid}

GhostTypes == mine \in [Txn -> PartialRows] /\ committed \in [Rid -> Seq(Versions)]

\* The transaction has a start timestamp, and no commit timestamp (yet).
Uncommitted(t) == Begun(t) /\ commit_ts[t] = INVALID_TS

\* The places that an explicit transaction can be at, and its state there.
Phases ==
    /\ next_timestamp > 1
    /\ \A t \in Txn :
        /\ call[t] \in {"new", "running", "commit", "state", "abort", "record", "done"}
        /\ call[t] = "new" => mine[t] = <<>> /\ write_set[t] = <<>>
        /\ call[t] = "running" => state[t] = "DEFAULT" /\ Uncommitted(t) /\ start_ts[t] > 1
        /\ call[t] = "running" => txn_mode[t] = TRUE
        /\ call[t] \in {"commit", "state"} => state[t] = "DEFAULT" /\ ~Uncommitted(t)
        /\ call[t] \in {"abort", "record"} => state[t] = "ABORTED" /\ Uncommitted(t)
        /\ call[t] = "done" => \/ state[t] = "COMMITTED" /\ ~Uncommitted(t)
                               \/ state[t] = "ABORTED" /\ Uncommitted(t)
        /\ call[t] # "running" => job[t].at = "idle"
        /\ Begun(t) => start_ts[t] > 1 \/ commit_ts[t] = 1
        /\ Begun(t) /\ start_ts[t] \in aborted_txns => state[t] = "ABORTED"

\* The undo log of t for the row is not linked yet, or the row is in its write set.
Linking(t, rid) == job[t].at = "link" /\ job[t].rid = rid

Wrote(t, rid) == rid \in Written(t) \/ Linking(t, rid)

\* A version that committed at c is not later than what timestamp h stands for.
NotAfter(c, h) ==
    c <= h \/ \E u \in Txn : Begun(u) /\ start_ts[u] = h /\ c <= commit_ts[u]

Covers(h, rid) == \A i \in DOMAIN committed[rid] : NotAfter(committed[rid][i].ts, h)

\* Every version of the row committed before ts.
Older(rid, ts) == \A i \in DOMAIN committed[rid] : committed[rid][i].ts < ts

\* The timestamp in the heap.  It is that of an uncommitted transaction only while
\* that has something to undo, or if nobody has ever committed the row.
HeapInv ==
    \A rid \in Rid :
        /\ heap[rid].ts < next_timestamp
        /\ committed[rid] # <<>> => heap[rid].used
        /\ \A i \in DOMAIN committed[rid] :
               1 < committed[rid][i].ts /\ committed[rid][i].ts < next_timestamp
        /\ Covers(heap[rid].ts, rid)
        /\ \A u \in Txn : Uncommitted(u) /\ heap[rid].ts = start_ts[u] =>
               committed[rid] = <<>> \/ Wrote(u, rid)

\* What a running transaction has written is its own, and not newer than it.
MineInv ==
    \A t \in Txn :
        /\ \A rid \in DOMAIN mine[t] : heap[rid].used
        /\ \A rid \in Rid : Wrote(t, rid) => rid \in DOMAIN mine[t]
        /\ call[t] = "running" => \A rid \in DOMAIN mine[t] :
               /\ heap[rid].ts = start_ts[t]
               /\ \A u \in Txn \ {t} : Uncommitted(u) => rid \notin Written(u)
               /\ Wrote(t, rid) => Older(rid, start_ts[t])

\* CheckWriteWriteConflict was passed, and nothing has been written since.
Checked(t) ==
    \/ job[t].at = "read" /\ job[t].op = "update"
    \/ job[t].at \in {"raw", "write"}

Clear(t, rid) ==
    /\ Older(rid, start_ts[t])
    /\ \A u \in Txn \ {t} : Uncommitted(u) =>
           rid \notin Written(u) /\ (call[u] = "running" => rid \notin DOMAIN mine[u])

StatementInv ==
    \A t \in Txn :
        /\ job[t].at = "insert" => ~heap[job[t].rid].used
        /\ job[t].at \in {"check", "read", "raw", "write"} => heap[job[t].rid].used
        /\ Checked(t) => Clear(t, job[t].rid)
        /\ job[t].at = "write" => job[t].raw.ts = heap[job[t].rid].ts

\* A record that abort puts back: its timestamp covers what has committed.
Restores(t, h, rid, Earlier) ==
    /\ h < next_timestamp
    /\ Covers(h, rid)
    /\ \A u \in Txn : Uncommitted(u) /\ h = start_ts[u] =>
           committed[rid] = <<>> \/ (u = t /\ rid \in Earlier)

\* The rows of the write records of t before the i-th.
Before(t, i) == {write_set[t][j].rid : j \in 1 .. i - 1}

RawInv ==
    \A t \in Txn : Uncommitted(t) =>
        /\ \A i \in DOMAIN write_set[t] :
               Restores(t, write_set[t][i].raw.ts, write_set[t][i].rid, Before(t, i))
        /\ job[t].at = "link" => Restores(t, job[t].raw.ts, job[t].rid, Written(t))

\* What the system keeps when calls do not overlap.
SerialInv ==
    /\ ChainInv /\ GhostTypes /\ Phases
    /\ HeapInv /\ MineInv /\ StatementInv /\ RawInv
    /\ NoLostUpdate

-----------------------------------------------------------------------------
\* Nobody else is inside a call.
OthersQuiet(t) == \A u \in Txn \ {t} : Quiet(u)

\* What a quiet session that has not committed may have written: nothing, if it was
\* aborted.
LEMMA QuietFacts ==
    ASSUME SerialInv, NEW t \in Txn, OthersQuiet(t), NEW u \in Txn, u # t
    PROVE  /\ job[u].at = "idle" /\ ~Checked(u) /\ (\A rid : ~Linking(u, rid))
           /\ Uncommitted(u) => call[u] = "running" \/ (write_set[u] = <<>> /\ Written(u) = {})
<1>1. Quiet(u)
  BY DEF OthersQuiet
<1>2. job[u].at = "idle" /\ ~Checked(u) /\ (\A rid : ~Linking(u, rid))
  BY <1>1 DEF Quiet, Checked, Linking
<1>3. ASSUME Uncommitted(u), call[u] # "running" PROVE write_set[u] = <<>>
  <2>1. call[u] = "new" => FALSE
    BY <1>3 DEF SerialInv, ChainInv, MgrInv, Handed, Uncommitted
  <2>2. call[u] = "done" /\ state[u] = "ABORTED"
    BY <1>1, <1>3, <2>1 DEF Quiet, SerialInv, Phases
  <2> QED BY <2>2, <1>1 DEF Quiet, RollingBack
<1>4. write_set[u] = <<>> => Written(u) = {}
  BY DEF Written
<1> QED BY <1>2, <1>3, <1>4

\* A step that only takes t to another place in its statement.
LEMMA PlaceInv ==
    ASSUME SerialInv, ChainInv', NEW t \in Txn, call[t] = "running",
           UNCHANGED <<mgrVars, heap, write_set, mine, committed>>,
           \A u \in Txn \ {t} : job'[u] = job[u],
           job[t].at # "link", job'[t].at # "link",
           job'[t].at = "insert" => ~heap[job'[t].rid].used,
           job'[t].at \in {"check", "read", "raw", "write"} => heap[job'[t].rid].used,
           Checked(t)' => Clear(t, job'[t].rid),
           job'[t].at = "write" => job'[t].raw.ts = heap[job'[t].rid].ts
    PROVE  SerialInv'
<1>1. GhostTypes' /\ NoLostUpdate'
  BY DEF SerialInv, GhostTypes, NoLostUpdate
<1>2. Phases'
  BY DEF SerialInv, Phases, mgrVars, Uncommitted, Begun
<1>3. \A u \in Txn : /\ Uncommitted(u)' <=> Uncommitted(u)
                     /\ Written(u)' = Written(u)
                     /\ start_ts'[u] = start_ts[u] /\ call'[u] = call[u]
                     /\ \A rid : /\ Linking(u, rid)' <=> Linking(u, rid)
                                 /\ Wrote(u, rid)' <=> Wrote(u, rid)
  BY DEF mgrVars, Uncommitted, Begun, Written, Linking, Wrote
<1>4. \A h, rid : Covers(h, rid)' <=> Covers(h, rid)
  BY DEF Covers, NotAfter, mgrVars, Begun
<1>5. next_timestamp' = next_timestamp
  BY DEF mgrVars
<1>6. \A ts, rid : Older(rid, ts)' <=> Older(rid, ts)
  BY DEF Older
<1>7. HeapInv'
  BY <1>3, <1>4, <1>5 DEF SerialInv, HeapInv
<1>8. MineInv'
  BY <1>3, <1>6 DEF SerialInv, MineInv
<1>9. \A u \in Txn : \A rid : Clear(u, rid)' <=> Clear(u, rid)
  BY <1>3, <1>6 DEF Clear
<1>10. StatementInv'
  <2> SUFFICES ASSUME NEW u \in Txn
               PROVE  /\ job'[u].at = "insert" => ~heap[job'[u].rid].used
                      /\ job'[u].at \in {"check", "read", "raw", "write"} => heap[job'[u].rid].used
                      /\ Checked(u)' => Clear(u, job'[u].rid)
                      /\ job'[u].at = "write" => job'[u].raw.ts = heap[job'[u].rid].ts
    BY <1>9 DEF StatementInv
  <2>1. CASE u = t
    BY <2>1
  <2>2. CASE u # t
    BY <2>2 DEF SerialInv, StatementInv, Checked
  <2> QED BY <2>1, <2>2
<1>11. RawInv'
  <2>1. \A u \in Txn : \A h, rid, E : Restores(u, h, rid, E)' <=> Restores(u, h, rid, E)
    BY <1>3, <1>4, <1>5 DEF Restores
  <2>2. \A u \in Txn : \A i : Before(u, i)' = Before(u, i)
    BY DEF Before
  <2>3. \A u \in Txn : job'[u].at = "link" => u # t /\ job'[u] = job[u]
    OBVIOUS
  <2> QED BY <1>3, <2>1, <2>2, <2>3 DEF SerialInv, RawInv
<1> QED BY <1>1, <1>2, <1>7, <1>8, <1>10, <1>11 DEF SerialInv

\* The transaction that started at ts.
LEMMA OwnerIs ==
    ASSUME MgrInv, NEW u \in Txn, Begun(u)
    PROVE  get_transaction_by_timestamp(start_ts[u]) = u
<1>1. \A v \in Txn : Begun(v) /\ start_ts[v] = start_ts[u] => v = u
  BY DEF MgrInv, Apart
<1> QED BY <1>1 DEF get_transaction_by_timestamp

LEMMA OwnerNone ==
    ASSUME NEW ts, get_transaction_by_timestamp(ts) = NoTxn
    PROVE  \A u \in Txn : Begun(u) => start_ts[u] # ts
<1> SUFFICES ASSUME NEW u \in Txn, Begun(u), start_ts[u] = ts PROVE FALSE
  OBVIOUS
<1>1. get_transaction_by_timestamp(ts) \in Txn
  BY DEF get_transaction_by_timestamp
<1> QED BY <1>1, NoTxnAssumption

(***************************************************************************)
(* The check of a write does what it is for: without a conflict, every     *)
(* version of the row committed before t began, and no other transaction   *)
(* that may still commit or roll back has written the row.                 *)
(***************************************************************************)
LEMMA CheckClears ==
    ASSUME SerialInv, NEW t \in Txn, OthersQuiet(t), call[t] = "running", NEW rid \in Rid,
           job[t].at # "link", ~CheckWriteWriteConflict(t, rid)
    PROVE  Clear(t, rid)
<1> DEFINE h == heap[rid].ts
           owner == get_transaction_by_timestamp(h)
<1>0. /\ MgrInv /\ heap[rid] \in Cells /\ h \in Nat
      /\ state[t] = "DEFAULT" /\ Begun(t) /\ Uncommitted(t) /\ start_ts[t] > 1 /\ start_ts[t] \in Nat
  BY RunningTs DEF SerialInv, ChainInv, RowTypes, Phases, Cells
<1>1. /\ Covers(h, rid)
      /\ \A i \in DOMAIN committed[rid] : committed[rid][i].ts \in Nat /\ 1 < committed[rid][i].ts
      /\ \A u \in Txn : Uncommitted(u) /\ h = start_ts[u] => committed[rid] = <<>> \/ Wrote(u, rid)
  <2>1. \A i \in DOMAIN committed[rid] : committed[rid][i] \in Versions
    <3>1. committed[rid] \in Seq(Versions)
      BY DEF SerialInv, GhostTypes
    <3> QED BY <3>1
  <2>2. \A i \in DOMAIN committed[rid] : committed[rid][i].ts \in Nat
    BY <2>1 DEF Versions
  <2> QED BY <2>2 DEF SerialInv, HeapInv
<1>2. \A u \in Txn : call[u] = "running" /\ rid \in DOMAIN mine[u] => h = start_ts[u]
  BY DEF SerialInv, MineInv
<1>a. \A u \in Txn : commit_ts[u] \in Int
  BY <1>0 DEF MgrInv, MgrTypeOK, Timestamps, INVALID_TS
<1> HIDE DEF h
<1>3. Older(rid, start_ts[t])
  <2>1. CASE h = 0
    <3>1. \A u \in Txn : Begun(u) /\ start_ts[u] = 0 => commit_ts[u] <= 1
      <4> SUFFICES ASSUME NEW u \in Txn, Begun(u), start_ts[u] = 0 PROVE commit_ts[u] <= 1
        OBVIOUS
      <4> QED BY <1>0 DEF SerialInv, Phases
    <3> QED BY <3>1, <2>1, <1>0, <1>a, <1>1 DEF Covers, NotAfter, Older
  <2>2. CASE h = start_ts[t]
    <3>1. committed[rid] = <<>> \/ Wrote(t, rid)
      BY <1>0, <1>1, <2>2
    <3>2. CASE committed[rid] = <<>>
      BY <3>2 DEF Older
    <3>3. CASE Wrote(t, rid)
      BY <3>3 DEF SerialInv, MineInv
    <3> QED BY <3>1, <3>2, <3>3
  <2>3. CASE h # 0 /\ h # start_ts[t] /\ owner = NoTxn
    <3>1. h <= start_ts[t]
      BY <2>3, <1>0 DEF CheckWriteWriteConflict, h
    <3>2. \A i \in DOMAIN committed[rid] : committed[rid][i].ts <= h
      BY <1>1, <2>3, OwnerNone DEF Covers, NotAfter
    <3> QED BY <3>1, <3>2, <2>3, <1>0, <1>1 DEF Older
  <2>4. CASE h # 0 /\ h # start_ts[t] /\ owner # NoTxn
    <3>1. PICK u \in Txn : Begun(u) /\ start_ts[u] = h
      BY <2>4 DEF get_transaction_by_timestamp
    <3>2. owner = u /\ u # t
      BY <3>1, <2>4, <1>0, OwnerIs
    <3>3. ~Active(u)
      BY <3>2, <2>4 DEF CheckWriteWriteConflict, h
    <3>4. Quiet(u)
      BY <3>2 DEF OthersQuiet
    <3>5. call[u] = "done"
      BY <3>1, <3>3, <3>4, <1>0 DEF Quiet, SerialInv, Phases, Active, MgrInv, Handed
    <3>6. CASE state[u] = "ABORTED"
      <4>1. Uncommitted(u) /\ ~Wrote(u, rid)
        BY <3>2, <3>5, <3>6, QuietFacts DEF SerialInv, Phases, Wrote
      <4>2. committed[rid] = <<>>
        BY <4>1, <3>1, <1>1
      <4> QED BY <4>2 DEF Older
    <3>7. CASE state[u] # "ABORTED"
      <4>1. state[u] = "COMMITTED" /\ commit_ts[u] # INVALID_TS
        BY <3>5, <3>7, <3>1 DEF SerialInv, Phases, Uncommitted
      <4>2. ~is_transaction_aborted(h)
        BY <4>1, <3>1 DEF SerialInv, Phases, is_transaction_aborted
      <4>3. IsCommitted(h)
        BY <4>1, <4>2, <3>2, <2>4 DEF IsCommitted
      <4>4. commit_ts[u] <= start_ts[t]
        BY <4>3, <3>2, <2>4, <3>7, <1>0, <1>a DEF CheckWriteWriteConflict, h
      <4>5. commit_ts[u] # start_ts[t] /\ start_ts[u] < commit_ts[u]
        BY <4>1, <1>0 DEF MgrInv, Apart, Handed
      <4>6. \A i \in DOMAIN committed[rid] : committed[rid][i].ts <= commit_ts[u]
        BY <4>5, <3>1, <1>0, <1>a, <1>1 DEF Covers, NotAfter, MgrInv, Apart
      <4> QED BY <4>4, <4>5, <4>6, <1>0, <1>a, <1>1 DEF Older
    <3> QED BY <3>6, <3>7
  <2> QED BY <2>1, <2>2, <2>3, <2>4
<1>4. ASSUME NEW u \in Txn \ {t}, Uncommitted(u), call[u] = "running" PROVE rid \notin DOMAIN mine[u]
  <2> SUFFICES ASSUME rid \in DOMAIN mine[u] PROVE FALSE
    OBVIOUS
  <2>1. h = start_ts[u] /\ Begun(u) /\ state[u] = "DEFAULT" /\ h > 1
    BY <1>2, <1>4 DEF SerialInv, Phases, Uncommitted
  <2>2. owner = u /\ h # start_ts[t]
    BY <2>1, <1>0, OwnerIs
  <2> QED BY <2>1, <2>2, NoTxnAssumption DEF CheckWriteWriteConflict, Active, h
<1>5. ASSUME NEW u \in Txn \ {t}, Uncommitted(u) PROVE rid \notin Written(u)
  <2>1. CASE call[u] = "running"
    BY <2>1, <1>4, <1>5 DEF SerialInv, MineInv, Wrote
  <2>2. CASE call[u] # "running"
    BY <2>2, <1>5, QuietFacts
  <2> QED BY <2>1, <2>2
<1> QED BY <1>3, <1>4, <1>5 DEF Clear

-----------------------------------------------------------------------------
(***************************************************************************)
(* The steps of a statement that write no row.                             *)
(***************************************************************************)
LEMMA SerialInsertChoose ==
    ASSUME SerialInv, ChainInv', NEW t \in Txn, NEW table \in Table, InsertChoose(t, table)
    PROVE  SerialInv'
<1> DEFINE rid == <<table, Lowest({s \in Slot : ~heap[<<table, s>>].used})>>
<1>1. rid \in Rid /\ ~heap[rid].used
  BY FreeSlotFound DEF InsertChoose
<1>2. /\ StartStatement(t, "insert", rid, "insert")
      /\ UNCHANGED <<mgrVars, heap, write_set, mine, committed>>
  BY DEF InsertChoose
<1> HIDE DEF rid
<1>3. call[t] = "running" /\ job[t].at = "idle"
  BY <1>2 DEF StartStatement, At
<1>4. /\ job'[t].at = "insert" /\ job'[t].rid = rid
      /\ \A u \in Txn \ {t} : job'[u] = job[u]
  BY <1>1, <1>2, StartMoves DEF SerialInv, ChainInv, Places
<1>5. ~Checked(t)'
  BY <1>4 DEF Checked
<1> QED BY <1>1, <1>2, <1>3, <1>4, <1>5, PlaceInv

LEMMA SerialStart ==
    ASSUME SerialInv, ChainInv', NEW t \in Txn, NEW rid \in Rid, heap[rid].used,
           \/ StartStatement(t, "update", rid, "check")
           \/ StartStatement(t, "delete", rid, "read"),
           UNCHANGED <<mgrVars, heap, write_set, mine, committed>>
    PROVE  SerialInv'
<1>1. PICK op \in {"update", "delete"}, first \in {"check", "read"} :
          StartStatement(t, op, rid, first) /\ ~(op = "update" /\ first = "read")
  OBVIOUS
<1>2. call[t] = "running" /\ job[t].at = "idle"
  BY <1>1 DEF StartStatement, At
<1>3. /\ job'[t].at = first /\ job'[t].op = op /\ job'[t].rid = rid
      /\ \A u \in Txn \ {t} : job'[u] = job[u]
  <2>1. first \in Places /\ op \in {"insert", "update", "delete"}
    BY DEF Places
  <2> QED BY <1>1, <2>1, StartMoves DEF SerialInv, ChainInv
<1>4. ~Checked(t)'
  BY <1>1, <1>3 DEF Checked
<1> QED BY <1>1, <1>2, <1>3, <1>4, PlaceInv

LEMMA SerialInsertLink ==
    ASSUME SerialInv, ChainInv', NEW t \in Txn, InsertLink(t)
    PROVE  SerialInv'
<1>1. /\ call[t] = "running" /\ job[t].at = "insertlink" /\ job' = [job EXCEPT ![t] = Idle]
      /\ UNCHANGED <<mgrVars, heap, write_set, mine, committed>>
  BY DEF InsertLink, At
<1>2. job'[t].at = "idle" /\ \A u \in Txn \ {t} : job'[u] = job[u]
  BY <1>1, IdleMoves DEF SerialInv, ChainInv
<1>3. ~Checked(t)'
  BY <1>2 DEF Checked
<1> QED BY <1>1, <1>2, <1>3, PlaceInv

LEMMA SerialCheckRow ==
    ASSUME SerialInv, ChainInv', NEW t \in Txn, OthersQuiet(t), CheckRow(t)
    PROVE  SerialInv'
<1>1. /\ call[t] = "running" /\ job[t].at = "check" /\ job[t].rid \in Rid
      /\ UNCHANGED <<mgrVars, heap, write_set, mine, committed>>
  BY DEF CheckRow, At, SerialInv, ChainInv, JobInv
<1>2. heap[job[t].rid].used
  BY <1>1 DEF SerialInv, StatementInv
<1>3. CASE CheckWriteWriteConflict(t, job[t].rid)
  <2>1. Goto(t, "throw")
    BY <1>3 DEF CheckRow, Throw
  <2>2. Moved(t, "throw")
    BY <2>1, GotoMoves DEF SerialInv, ChainInv, Places
  <2>3. job'[t].at = "throw" /\ (\A u \in Txn \ {t} : job'[u] = job[u]) /\ ~Checked(t)'
    BY <2>2 DEF Moved, Checked
  <2> QED BY <1>1, <2>3, PlaceInv
<1>4. CASE ~CheckWriteWriteConflict(t, job[t].rid)
  <2>1. Clear(t, job[t].rid)
    BY <1>1, <1>4, CheckClears
  <2>2. PICK where \in {"read", "raw"} : Goto(t, where)
    BY <1>4 DEF CheckRow
  <2>3. Moved(t, where)
    BY <2>2, GotoMoves DEF SerialInv, ChainInv, Places
  <2>4. /\ job'[t].at \in {"read", "raw"} /\ job'[t].rid = job[t].rid
        /\ \A u \in Txn \ {t} : job'[u] = job[u]
    BY <2>3 DEF Moved
  <2> QED BY <1>1, <1>2, <2>1, <2>4, PlaceInv
<1> QED BY <1>3, <1>4

LEMMA SerialReadRow ==
    ASSUME SerialInv, ChainInv', NEW t \in Txn, ReadRow(t)
    PROVE  SerialInv'
<1> DEFINE old == get_record_mvcc(t, job[t].rid)
           update == job[t].op = "update"
           where == IF update THEN "raw" ELSE "check"
<1>1. /\ call[t] = "running" /\ job[t].at = "read"
      /\ UNCHANGED <<mgrVars, heap, write_set, mine, committed>>
  BY DEF ReadRow, At
<1>2. heap[job[t].rid].used /\ (update => Clear(t, job[t].rid))
  BY <1>1 DEF SerialInv, StatementInv, Checked
<1>3. \/ Goto(t, "throw") \/ Goto(t, "invisible") \/ job' = [job EXCEPT ![t] = Idle]
      \/ job' = [job EXCEPT ![t].old = old, ![t].at = where]
  BY Zenon DEF ReadRow, Throw
<1> HIDE DEF old
<1>4. CASE Goto(t, "throw") \/ Goto(t, "invisible") \/ job' = [job EXCEPT ![t] = Idle]
  <2>1. ASSUME Goto(t, "throw") PROVE Moved(t, "throw")
    BY <2>1, GotoMoves DEF SerialInv, ChainInv, Places
  <2>2. ASSUME Goto(t, "invisible") PROVE Moved(t, "invisible")
    BY <2>2, GotoMoves DEF SerialInv, ChainInv, Places
  <2>3. /\ job'[t].at \in {"throw", "invisible", "idle"}
        /\ \A u \in Txn \ {t} : job'[u] = job[u]
    BY <1>4, <2>1, <2>2, IdleMoves DEF SerialInv, ChainInv, Moved
  <2>4. ~Checked(t)'
    BY <2>3 DEF Checked
  <2> QED BY <1>1, <2>3, <2>4, PlaceInv
<1>5. CASE job' = [job EXCEPT ![t].old = old, ![t].at = where]
  <2>1. where \in {"raw", "check"} /\ (where = "raw" => update)
    OBVIOUS
  <2> HIDE DEF where
  <2> DEFINE new == [job[t] EXCEPT !.old = old, !.at = where]
  <2>2. job \in [Txn -> Jobs] /\ job[t] \in Jobs
    BY DEF SerialInv, ChainInv, RowTypes
  <2>3. job' = [job EXCEPT ![t] = new]
    BY <1>5, <2>2
  <2>4. new.at = where /\ new.rid = job[t].rid
    BY <2>2 DEF Jobs
  <2> HIDE DEF new
  <2>5. /\ job'[t].at = where /\ job'[t].rid = job[t].rid
        /\ \A u \in Txn \ {t} : job'[u] = job[u]
    BY <2>2, <2>3, <2>4
  <2>6. Checked(t)' => update
    BY <2>1, <2>5 DEF Checked
  <2> QED BY <1>1, <1>2, <2>1, <2>5, <2>6, PlaceInv
<1> QED BY <1>3, <1>4, <1>5

LEMMA SerialReadRaw ==
    ASSUME SerialInv, ChainInv', NEW t \in Txn, ReadRaw(t)
    PROVE  SerialInv'
<1> DEFINE raw == heap[job[t].rid]
           new == [job[t] EXCEPT !.raw = raw, !.at = "write"]
<1>1. /\ call[t] = "running" /\ job[t].at = "raw"
      /\ UNCHANGED <<mgrVars, heap, write_set, mine, committed>>
  BY DEF ReadRaw, At
<1>2. raw.used /\ Clear(t, job[t].rid)
  BY <1>1 DEF SerialInv, StatementInv, Checked
<1>3. job \in [Txn -> Jobs] /\ job[t] \in Jobs
  BY DEF SerialInv, ChainInv, RowTypes
<1>4. job' = [job EXCEPT ![t].raw = raw, ![t].at = "write"]
  BY DEF ReadRaw, get_record
<1> HIDE DEF raw
<1>5. job' = [job EXCEPT ![t] = new]
  BY <1>3, <1>4
<1>6. new.at = "write" /\ new.rid = job[t].rid /\ new.raw = raw
  BY <1>3 DEF Jobs
<1> HIDE DEF new
<1>7. /\ job'[t].at = "write" /\ job'[t].rid = job[t].rid /\ job'[t].raw = raw
      /\ \A u \in Txn \ {t} : job'[u] = job[u]
  BY <1>3, <1>5, <1>6
<1>8. heap[job'[t].rid] = raw
  BY <1>7 DEF raw
<1> QED BY <1>1, <1>2, <1>7, <1>8, PlaceInv

LEMMA SerialReadConflict ==
    ASSUME SerialInv, ChainInv', NEW t \in Txn, NEW rid \in Rid, ReadConflict(t, rid)
    PROVE  SerialInv'
<1>1. /\ call[t] = "running" /\ job[t].at = "idle" /\ Goto(t, "throw")
      /\ UNCHANGED <<mgrVars, heap, write_set, mine, committed>>
  BY DEF ReadConflict, At, Throw
<1>2. Moved(t, "throw")
  BY <1>1, GotoMoves DEF SerialInv, ChainInv, Places
<1>3. job'[t].at = "throw" /\ (\A u \in Txn \ {t} : job'[u] = job[u]) /\ ~Checked(t)'
  BY <1>2 DEF Moved, Checked
<1> QED BY <1>1, <1>3, PlaceInv

-----------------------------------------------------------------------------
(***************************************************************************)
(* The steps that write a row.                                             *)
(***************************************************************************)
LEMMA PutFacts ==
    ASSUME GhostTypes, NEW t \in Txn, NEW rid \in Rid, NEW v \in Vals,
           mine' = [mine EXCEPT ![t] = Put(@, rid, v)]
    PROVE  /\ mine' \in [Txn -> PartialRows]
           /\ DOMAIN mine'[t] = DOMAIN mine[t] \cup {rid}
           /\ \A u \in Txn \ {t} : mine'[u] = mine[u]
<1>1. mine \in [Txn -> PartialRows] /\ mine[t] \in PartialRows
  BY DEF GhostTypes
<1>2. PICK D \in SUBSET Rid : mine[t] \in [D -> Vals]
  BY <1>1 DEF PartialRows
<1>3. Put(mine[t], rid, v) \in [D \cup {rid} -> Vals]
  BY <1>2 DEF Put
<1>4. Put(mine[t], rid, v) \in PartialRows
  BY <1>3 DEF PartialRows
<1>5. mine' = [mine EXCEPT ![t] = Put(mine[t], rid, v)]
  BY <1>1
<1>6. mine'[t] = Put(mine[t], rid, v)
  BY <1>1, <1>5
<1>7. mine' \in [Txn -> PartialRows] /\ \A u \in Txn \ {t} : mine'[u] = mine[u]
  BY <1>1, <1>4, <1>5
<1> QED BY <1>2, <1>3, <1>6, <1>7

\* The rows a transaction has written, and the versions of a row.
LEMMA GhostFacts ==
    ASSUME SerialInv
    PROVE  /\ \A t \in Txn : DOMAIN mine[t] \subseteq Rid
           /\ \A rid \in Rid : \A i \in DOMAIN committed[rid] :
                  committed[rid][i] \in Versions /\ committed[rid][i].ts \in Nat
<1>1. \A t \in Txn : DOMAIN mine[t] \subseteq Rid
  <2> SUFFICES ASSUME NEW t \in Txn PROVE DOMAIN mine[t] \subseteq Rid
    OBVIOUS
  <2>1. mine[t] \in PartialRows
    BY DEF SerialInv, GhostTypes
  <2> QED BY <2>1 DEF PartialRows
<1>2. ASSUME NEW rid \in Rid, NEW i \in DOMAIN committed[rid] PROVE committed[rid][i] \in Versions
  <2>1. committed[rid] \in Seq(Versions)
    BY DEF SerialInv, GhostTypes
  <2> QED BY <2>1
<1>3. \A v \in Versions : v.ts \in Nat
  BY DEF Versions
<1> QED BY <1>1, <1>2, <1>3

LEMMA WriteInv ==
    ASSUME SerialInv, ChainInv', NEW t \in Txn, call[t] = "running", OthersQuiet(t),
           NEW rid \in Rid, Clear(t, rid),
           UNCHANGED <<mgrVars, write_set, committed>>, GhostTypes',
           \A r \in Rid \ {rid} : heap'[r] = heap[r],
           heap'[rid].ts = start_ts[t], heap'[rid].used,
           DOMAIN mine'[t] = DOMAIN mine[t] \cup {rid},
           \A u \in Txn \ {t} : mine'[u] = mine[u] /\ job'[u] = job[u],
           job[t].at # "link", job'[t].rid = rid,
           \/ job'[t].at = "insertlink" /\ committed[rid] = <<>> /\ (\A u \in Txn : rid \notin DOMAIN mine[u])
           \/ job'[t].at = "link" /\ Restores(t, job'[t].raw.ts, rid, Written(t))
    PROVE  SerialInv'
<1>1. NoLostUpdate'
  BY DEF SerialInv, NoLostUpdate
<1>0. Uncommitted(t) /\ start_ts[t] \in Nat /\ start_ts[t] < next_timestamp
  BY RunningTs DEF SerialInv, ChainInv, Phases
<1>2. Phases'
  BY DEF SerialInv, Phases, mgrVars, Uncommitted, Begun
<1>3. \A u \in Txn : /\ Uncommitted(u)' <=> Uncommitted(u)
                     /\ Written(u)' = Written(u)
                     /\ start_ts'[u] = start_ts[u] /\ call'[u] = call[u]
  BY DEF mgrVars, Uncommitted, Begun, Written
<1>4. \A u \in Txn \ {t} : \A r : Wrote(u, r)' <=> Wrote(u, r)
  BY <1>3 DEF Wrote, Linking
<1>5. \A r : /\ Wrote(t, r) <=> r \in Written(t)
             /\ Wrote(t, r)' <=> r \in Written(t) \/ (job'[t].at = "link" /\ r = rid)
  BY <1>3 DEF Wrote, Linking
<1>6. \A h, r : Covers(h, r)' <=> Covers(h, r)
  BY DEF Covers, NotAfter, mgrVars, Begun
<1>7. next_timestamp' = next_timestamp
  BY DEF mgrVars
<1>8. \A ts, r : Older(r, ts)' <=> Older(r, ts)
  BY DEF Older
<1>9. \A u \in Txn : Uncommitted(u) /\ start_ts[u] = start_ts[t] => u = t
  BY <1>0 DEF SerialInv, ChainInv, MgrInv, Apart, Uncommitted
<1>10. Older(rid, start_ts[t])
       /\ \A u \in Txn \ {t} : Uncommitted(u) =>
             rid \notin Written(u) /\ (call[u] = "running" => rid \notin DOMAIN mine[u])
  BY DEF Clear
<1>11. HeapInv'
  <2> SUFFICES ASSUME NEW r \in Rid
               PROVE  /\ heap'[r].ts < next_timestamp
                      /\ committed[r] # <<>> => heap'[r].used
                      /\ \A i \in DOMAIN committed[r] :
                             1 < committed[r][i].ts /\ committed[r][i].ts < next_timestamp
                      /\ Covers(heap'[r].ts, r)
                      /\ \A u \in Txn : Uncommitted(u) /\ heap'[r].ts = start_ts[u] =>
                             committed[r] = <<>> \/ Wrote(u, r)'
    BY <1>3, <1>6, <1>7 DEF HeapInv
  <2>1. CASE r = rid
    <3>1. Covers(start_ts[t], rid)
      BY <1>0, <1>10, GhostFacts DEF Covers, NotAfter, Older
    <3>2. \A i \in DOMAIN committed[r] : 1 < committed[r][i].ts /\ committed[r][i].ts < next_timestamp
      BY DEF SerialInv, HeapInv
    <3> QED BY <2>1, <3>1, <3>2, <1>0, <1>5, <1>9
  <2>2. CASE r # rid
    <3>1. heap'[r] = heap[r] /\ \A u \in Txn : Wrote(u, r) => Wrote(u, r)'
      BY <2>2, <1>4, <1>5
    <3> QED BY <3>1 DEF SerialInv, HeapInv
  <2> QED BY <2>1, <2>2
<1>12. MineInv'
  <2>1. ASSUME NEW u \in Txn, NEW r \in DOMAIN mine'[u] PROVE heap'[r].used
    <3>1. r \in Rid /\ (r = rid \/ r \in DOMAIN mine[u])
      <4>1. CASE u = t
        BY <4>1, GhostFacts
      <4>2. CASE u # t
        BY <4>2, GhostFacts
      <4> QED BY <4>1, <4>2
    <3> QED BY <3>1 DEF SerialInv, MineInv
  <2>2. ASSUME NEW u \in Txn, NEW r \in Rid, Wrote(u, r)' PROVE r \in DOMAIN mine'[u]
    <3>1. CASE u = t
      BY <2>2, <3>1, <1>5 DEF SerialInv, MineInv
    <3>2. CASE u # t
      BY <2>2, <3>2, <1>4 DEF SerialInv, MineInv
    <3> QED BY <3>1, <3>2
  <2>3. ASSUME NEW u \in Txn, call[u] = "running", NEW r \in DOMAIN mine'[u]
        PROVE  /\ heap'[r].ts = start_ts[u]
               /\ \A v \in Txn \ {u} : Uncommitted(v) => r \notin Written(v)
               /\ Wrote(u, r)' => Older(r, start_ts[u])
    <3>1. CASE u = t /\ r = rid
      BY <3>1, <1>10
    <3>2. CASE u = t /\ r # rid
      <4>1. r \in DOMAIN mine[t] /\ r \in Rid /\ heap'[r] = heap[r] /\ (Wrote(t, r)' => Wrote(t, r))
        BY <3>2, <2>3, <1>5, GhostFacts
      <4> QED BY <3>2, <4>1, <2>3 DEF SerialInv, MineInv
    <3>3. CASE u # t
      <4>1. Uncommitted(u)
        BY <2>3 DEF SerialInv, Phases
      <4>2. r \in DOMAIN mine[u] /\ r \in Rid /\ r # rid
        BY <3>3, <2>3, <4>1, <1>10, GhostFacts
      <4>3. heap'[r] = heap[r] /\ (Wrote(u, r)' => Wrote(u, r))
        BY <3>3, <4>2, <1>4
      <4> QED BY <2>3, <4>2, <4>3 DEF SerialInv, MineInv
    <3> QED BY <3>1, <3>2, <3>3
  <2> QED BY <2>1, <2>2, <2>3, <1>3, <1>8 DEF MineInv
<1>13. StatementInv'
  <2> SUFFICES ASSUME NEW u \in Txn
               PROVE  job'[u].at \notin {"insert", "check", "read", "raw", "write"} /\ ~Checked(u)'
    BY DEF StatementInv
  <2>1. CASE u = t
    BY <2>1 DEF Checked
  <2>2. CASE u # t
    <3>1. job[u].at = "idle"
      BY <2>2, QuietFacts
    <3> QED BY <3>1, <2>2 DEF Checked
  <2> QED BY <2>1, <2>2
<1>14. RawInv'
  <2>1. \A u \in Txn : \A h, r, E : Restores(u, h, r, E)' <=> Restores(u, h, r, E)
    BY <1>3, <1>6, <1>7 DEF Restores
  <2>2. \A u \in Txn : \A i : Before(u, i)' = Before(u, i)
    BY DEF Before
  <2>3. \A u \in Txn \ {t} : job'[u] = job[u] /\ job[u].at # "link"
    BY QuietFacts
  <2>4. job'[t].at = "link" => Restores(t, job'[t].raw.ts, job'[t].rid, Written(t))
    OBVIOUS
  <2> QED BY <1>3, <2>1, <2>2, <2>3, <2>4 DEF SerialInv, RawInv
<1> QED BY <1>1, <1>2, <1>11, <1>12, <1>13, <1>14 DEF SerialInv

LEMMA SerialInsertWrite ==
    ASSUME SerialInv, ChainInv', NEW t \in Txn, OthersQuiet(t), InsertWrite(t)
    PROVE  SerialInv'
<1> DEFINE rid == job[t].rid
           val == [head |-> NewHead(t), tail |-> NewTail(t)]
<1>1. /\ call[t] = "running" /\ job[t].at = "insert" /\ rid \in Rid
      /\ UNCHANGED <<mgrVars, write_set, committed>>
  BY DEF InsertWrite, At, SerialInv, ChainInv, JobInv
<1>2. ~heap[rid].used
  BY <1>1 DEF SerialInv, StatementInv
<1>3. committed[rid] = <<>> /\ \A u \in Txn : rid \notin DOMAIN mine[u]
  BY <1>1, <1>2 DEF SerialInv, HeapInv, MineInv
<1>4. Clear(t, rid)
  <2>1. \A u \in Txn : rid \notin Written(u)
    BY <1>1, <1>3 DEF SerialInv, MineInv, Wrote
  <2> QED BY <2>1, <1>3 DEF Clear, Older
<1>5. val \in Vals
  BY <1>1, NewRowTyped DEF SerialInv, ChainInv
<1>6. /\ mine' = [mine EXCEPT ![t] = Put(@, rid, val)]
      /\ heap' = [heap EXCEPT ![rid] = [used |-> TRUE, ts |-> start_ts[t],
                                        is_deleted |-> FALSE, val |-> val]]
  BY DEF InsertWrite
<1> HIDE DEF val
<1>7. /\ mine' \in [Txn -> PartialRows]
      /\ DOMAIN mine'[t] = DOMAIN mine[t] \cup {rid}
      /\ \A u \in Txn \ {t} : mine'[u] = mine[u]
  BY <1>1, <1>5, <1>6, PutFacts DEF SerialInv
<1>8. GhostTypes'
  BY <1>1, <1>7 DEF SerialInv, GhostTypes
<1>9. /\ \A r \in Rid \ {rid} : heap'[r] = heap[r]
      /\ heap'[rid].ts = start_ts[t] /\ heap'[rid].used
  BY <1>1, <1>6 DEF SerialInv, ChainInv, RowTypes
<1>10. Moved(t, "insertlink")
  BY InsertWriteInv DEF SerialInv
<1>11. job'[t].at = "insertlink" /\ job'[t].rid = rid /\ \A u \in Txn \ {t} : job'[u] = job[u]
  BY <1>10 DEF Moved
<1> HIDE DEF rid
<1> QED BY <1>1, <1>3, <1>4, <1>7, <1>8, <1>9, <1>11, WriteInv

LEMMA SerialWriteRow ==
    ASSUME SerialInv, ChainInv', NEW t \in Txn, OthersQuiet(t), WriteRow(t)
    PROVE  SerialInv'
<1> DEFINE rid == job[t].rid
           raw == job[t].raw
           update == job[t].op = "update"
           val == IF update THEN [raw.val EXCEPT !.head = NewHead(t)] ELSE raw.val
           row == IF update THEN val ELSE NoRow
           del == ~update
<1>1. /\ call[t] = "running" /\ job[t].at = "write" /\ rid \in Rid
      /\ UNCHANGED <<mgrVars, write_set, committed>>
  BY DEF WriteRow, At, SerialInv, ChainInv, JobInv
<1>2. Clear(t, rid) /\ raw.ts = heap[rid].ts /\ heap[rid].used
  BY <1>1 DEF SerialInv, StatementInv, Checked
<1>3. row \in Vals
  <2>1. raw.val \in Vals
    BY DEF SerialInv, ChainInv, RowTypes, Jobs, Cells
  <2>2. [raw.val EXCEPT !.head = NewHead(t)] \in Vals
    BY <1>1, <2>1, NewRowTyped DEF SerialInv, ChainInv
  <2> QED BY <2>2, IdleTyped
<1>4. /\ mine' = [mine EXCEPT ![t] = Put(@, rid, row)]
      /\ heap' = [heap EXCEPT ![rid].ts = start_ts[t], ![rid].is_deleted = del, ![rid].val = val]
  BY DEF WriteRow
<1> HIDE DEF val, row, del
<1>5. /\ mine' \in [Txn -> PartialRows]
      /\ DOMAIN mine'[t] = DOMAIN mine[t] \cup {rid}
      /\ \A u \in Txn \ {t} : mine'[u] = mine[u]
  BY <1>1, <1>3, <1>4, PutFacts DEF SerialInv
<1>6. GhostTypes'
  BY <1>1, <1>5 DEF SerialInv, GhostTypes
<1>7. Restores(t, raw.ts, rid, Written(t))
  <2>1. /\ heap[rid].ts < next_timestamp /\ Covers(heap[rid].ts, rid)
        /\ \A u \in Txn : Uncommitted(u) /\ heap[rid].ts = start_ts[u] =>
               committed[rid] = <<>> \/ Wrote(u, rid)
    BY <1>1 DEF SerialInv, HeapInv
  <2>2. ASSUME NEW u \in Txn, Uncommitted(u), Wrote(u, rid) PROVE u = t /\ rid \in Written(t)
    <3>1. CASE u = t
      BY <1>1, <2>2, <3>1 DEF Wrote, Linking
    <3>2. CASE u # t
      BY <1>2, <2>2, <3>2, QuietFacts DEF Wrote, Clear
    <3> QED BY <3>1, <3>2
  <2> QED BY <1>2, <2>1, <2>2 DEF Restores
<1>8. /\ \A r \in Rid \ {rid} : heap'[r] = heap[r]
      /\ heap'[rid].ts = start_ts[t] /\ heap'[rid].used
  <2>1. heap \in [Rid -> Cells] /\ heap[rid] \in Cells
    BY <1>1 DEF SerialInv, ChainInv, RowTypes
  <2>2. heap' = [heap EXCEPT ![rid] = [heap[rid] EXCEPT !.ts = start_ts[t], !.is_deleted = del, !.val = val]]
    BY <1>4, <2>1
  <2> DEFINE cell == [heap[rid] EXCEPT !.ts = start_ts[t], !.is_deleted = del, !.val = val]
  <2>3. cell.ts = start_ts[t] /\ cell.used = heap[rid].used
    BY <2>1 DEF Cells
  <2> HIDE DEF cell
  <2>4. heap' = [heap EXCEPT ![rid] = cell]
    BY <2>2 DEF cell
  <2>5. heap'[rid] = cell /\ \A r \in Rid \ {rid} : heap'[r] = heap[r]
    BY <2>1, <2>4, <1>1
  <2> QED BY <2>3, <2>5, <1>2
<1>9. Goto(t, "link")
  BY DEF WriteRow
<1>10. Moved(t, "link") /\ job'[t].raw = job[t].raw
  BY <1>9, GotoMoves DEF SerialInv, ChainInv, Places
<1>11. /\ job'[t].at = "link" /\ job'[t].rid = rid /\ job'[t].raw = raw
       /\ \A u \in Txn \ {t} : job'[u] = job[u]
  BY <1>10 DEF Moved
<1> HIDE DEF rid, raw
<1> QED BY <1>1, <1>2, <1>5, <1>6, <1>7, <1>8, <1>11, WriteInv

-----------------------------------------------------------------------------
(***************************************************************************)
(* The write set: a record is added, and abort takes the last one.         *)
(***************************************************************************)
LEMMA SerialLinkRow ==
    ASSUME SerialInv, ChainInv', NEW t \in Txn, OthersQuiet(t), LinkRow(t)
    PROVE  SerialInv'
<1> DEFINE rid == job[t].rid
           w == [rid |-> job[t].rid, raw |-> job[t].raw]
           n == Len(write_set[t])
<1>1. /\ call[t] = "running" /\ job[t].at = "link" /\ rid \in Rid
      /\ UNCHANGED <<mgrVars, heap, mine, committed>>
  BY DEF LinkRow, At, SerialInv, ChainInv, JobInv
<1>2. job'[t].at = "idle" /\ \A u \in Txn \ {t} : job'[u] = job[u]
  BY IdleMoves DEF LinkRow, SerialInv, ChainInv
<1>3. /\ write_set' = [write_set EXCEPT ![t] = Append(@, w)]
      /\ w.rid = rid /\ w.raw = job[t].raw
  BY DEF LinkRow
<1> HIDE DEF w
<1>4. write_set \in [Txn -> Seq(WriteRecords)] /\ write_set[t] \in Seq(WriteRecords)
  BY DEF SerialInv, ChainInv, RowTypes
<1>5. /\ DOMAIN write_set[t] = 1 .. n /\ n \in Nat
      /\ DOMAIN write_set'[t] = 1 .. (n + 1)
      /\ write_set'[t][n + 1] = w
      /\ \A i \in 1 .. n : write_set'[t][i] = write_set[t][i]
      /\ \A u \in Txn \ {t} : write_set'[u] = write_set[u]
  <2>1. write_set'[t] = Append(write_set[t], w)
    BY <1>3, <1>4
  <2> QED BY <1>3, <1>4, <2>1
<1>6. \A u \in Txn : /\ Uncommitted(u)' <=> Uncommitted(u)
                     /\ start_ts'[u] = start_ts[u] /\ call'[u] = call[u]
  BY <1>1 DEF mgrVars, Uncommitted, Begun
<1>7. \A u \in Txn \ {t} : Written(u)' = Written(u)
  BY <1>5 DEF Written
<1>8. \A r : r \in Written(t)' <=> r \in Written(t) \/ r = rid
  <2>a. Written(t)' = {write_set'[t][i].rid : i \in 1 .. (n + 1)}
    BY <1>5 DEF Written
  <2>b. Written(t) = {write_set[t][i].rid : i \in 1 .. n}
    BY <1>5 DEF Written
  <2>1. \A i \in 1 .. (n + 1) : i \in 1 .. n \/ i = n + 1
    BY <1>5
  <2>2. n + 1 \in 1 .. (n + 1) /\ \A i \in 1 .. n : i \in 1 .. (n + 1)
    BY <1>5
  <2> DEFINE A == {write_set'[t][i].rid : i \in 1 .. (n + 1)}
             B == {write_set[t][i].rid : i \in 1 .. n}
  <2>3. A = B \cup {rid}
    <3> HIDE DEF rid, n
    <3> QED BY <2>1, <2>2, <1>3, <1>5 DEF rid
  <2> HIDE DEF A, B
  <2>4. Written(t)' = Written(t) \cup {rid}
    BY <2>a, <2>b, <2>3 DEF A, B
  <2> QED BY <2>4
<1>9. \A u \in Txn : \A r : Wrote(u, r)' <=> Wrote(u, r)
  <2>1. \A r : Linking(t, r) <=> r = rid
    BY <1>1 DEF Linking
  <2>2. \A r : ~Linking(t, r)'
    BY <1>2 DEF Linking
  <2>3. \A u \in Txn \ {t} : \A r : Linking(u, r)' <=> Linking(u, r)
    BY <1>2 DEF Linking
  <2> QED BY <2>1, <2>2, <2>3, <1>7, <1>8 DEF Wrote
<1>10. /\ \A h, r : Covers(h, r)' <=> Covers(h, r)
       /\ \A ts, r : Older(r, ts)' <=> Older(r, ts)
       /\ next_timestamp' = next_timestamp
  BY <1>1 DEF Covers, NotAfter, mgrVars, Begun, Older
<1>11. GhostTypes' /\ NoLostUpdate'
  BY <1>1 DEF SerialInv, GhostTypes, NoLostUpdate
<1>12. Phases'
  BY <1>1, <1>2, <1>5 DEF SerialInv, Phases, mgrVars, Uncommitted, Begun
<1>13. HeapInv'
  BY <1>1, <1>6, <1>9, <1>10 DEF SerialInv, HeapInv
<1>14. MineInv'
  <2>1. ASSUME NEW u \in Txn, call[u] = "running", NEW r \in DOMAIN mine[u],
               NEW v \in Txn \ {u}, Uncommitted(v), r \in Written(v)'
        PROVE  FALSE
    <3>1. r \notin Written(v)
      BY <2>1 DEF SerialInv, MineInv
    <3>2. v = t /\ r = rid
      BY <2>1, <3>1, <1>7, <1>8
    <3>3. rid \in DOMAIN mine[t] /\ heap[rid].ts = start_ts[t] /\ heap[rid].ts = start_ts[u]
      BY <1>1, <2>1, <3>2 DEF SerialInv, MineInv, Wrote, Linking
    <3>4. Begun(u) /\ Begun(t)
      BY <1>1, <2>1 DEF SerialInv, Phases, Uncommitted
    <3> QED BY <2>1, <3>2, <3>3, <3>4 DEF SerialInv, ChainInv, MgrInv, Apart
  <2> QED BY <2>1, <1>1, <1>6, <1>9, <1>10 DEF SerialInv, MineInv
<1>15. StatementInv'
  <2> SUFFICES ASSUME NEW u \in Txn
               PROVE  job'[u].at = "idle" /\ ~Checked(u)'
    BY DEF StatementInv
  <2>1. job'[u].at = "idle"
    BY <1>2, QuietFacts
  <2> QED BY <2>1 DEF Checked
<1>16. RawInv'
  <2>1. \A u \in Txn : \A h, r, E : Restores(u, h, r, E)' <=> Restores(u, h, r, E)
    BY <1>1, <1>6, <1>10 DEF Restores
  <2> SUFFICES ASSUME NEW u \in Txn, Uncommitted(u), NEW i \in DOMAIN write_set'[u]
               PROVE  Restores(u, write_set'[u][i].raw.ts, write_set'[u][i].rid, Before(u, i)')
    <3>1. \A u_1 \in Txn : job'[u_1].at # "link"
      BY <1>2, QuietFacts
    <3> QED BY <1>6, <2>1, <3>1 DEF RawInv
  <2>2. CASE u # t
    <3>1. Before(u, i)' = Before(u, i)
      BY <2>2, <1>5 DEF Before
    <3> QED BY <2>2, <3>1, <1>5 DEF SerialInv, RawInv
  <2>3. CASE u = t /\ i \in 1 .. n
    <3>1. Before(t, i)' = Before(t, i)
      <4>1. \A j \in 1 .. i - 1 : write_set'[t][j] = write_set[t][j]
        BY <2>3, <1>5
      <4> QED BY <4>1 DEF Before
    <3>2. i \in DOMAIN write_set[t] /\ write_set'[t][i] = write_set[t][i]
      BY <2>3, <1>5
    <3> QED BY <2>3, <3>1, <3>2 DEF SerialInv, RawInv
  <2>4. CASE u = t /\ i = n + 1
    <3>1. Before(t, i)' = Written(t)
      <4>1. \A j \in 1 .. n : write_set'[t][j] = write_set[t][j]
        BY <1>5
      <4>2. i - 1 = n
        BY <2>4, <1>5
      <4> QED BY <4>1, <4>2, <1>5 DEF Before, Written
    <3>2. write_set'[u][i] = w
      BY <2>4, <1>5
    <3> QED BY <2>4, <3>1, <3>2, <1>1, <1>3 DEF SerialInv, RawInv
  <2> QED BY <2>2, <2>3, <2>4, <1>5
<1> QED BY <1>11, <1>12, <1>13, <1>14, <1>15, <1>16 DEF SerialInv

LEMMA SerialAbortUndo ==
    ASSUME SerialInv, ChainInv', NEW t \in Txn, OthersQuiet(t), AbortUndo(t)
    PROVE  SerialInv'
<1> DEFINE n == Len(write_set[t])
           w == write_set[t][n]
           rid == w.rid
           cell == [w.raw EXCEPT !.used = TRUE]
<1>1. /\ call[t] = "done" /\ state[t] = "ABORTED" /\ write_set[t] # <<>>
      /\ write_set \in [Txn -> Seq(WriteRecords)] /\ write_set[t] \in Seq(WriteRecords)
      /\ UNCHANGED <<mgrVars, job, mine, committed>>
  BY DEF AbortUndo, RollingBack, SerialInv, ChainInv, RowTypes
<1>2. n \in Nat \ {0} /\ w \in WriteRecords /\ DOMAIN write_set[t] = 1 .. n
  BY <1>1
<1>3. /\ heap' = [heap EXCEPT ![w.rid] = cell]
      /\ write_set' = [write_set EXCEPT ![t] = SubSeq(@, 1, n - 1)]
  BY DEF AbortUndo, LatestWrite
<1>4. /\ DOMAIN write_set'[t] = 1 .. (n - 1)
      /\ \A i \in 1 .. (n - 1) : write_set'[t][i] = write_set[t][i]
      /\ \A u \in Txn \ {t} : write_set'[u] = write_set[u]
  <2>1. write_set'[t] = SubSeq(write_set[t], 1, n - 1)
    BY <1>1, <1>3
  <2>2. \A u \in Txn \ {t} : write_set'[u] = write_set[u]
    BY <1>1, <1>3
  <2> QED BY <1>1, <1>2, <2>1, <2>2
<1>5. Uncommitted(t) /\ n \in DOMAIN write_set[t]
  BY <1>1, <1>2 DEF SerialInv, Phases
<1>6. Restores(t, w.raw.ts, rid, Before(t, n))
  BY <1>5 DEF SerialInv, RawInv
<1>7. rid \in Rid /\ cell.used = TRUE /\ cell.ts = w.raw.ts
  <2> HIDE DEF w
  <2> QED BY <1>2 DEF WriteRecords, Cells
<1> HIDE DEF cell
<1>8. heap'[rid] = cell /\ \A r \in Rid \ {rid} : heap'[r] = heap[r]
  BY <1>3, <1>7 DEF SerialInv, ChainInv, RowTypes
<1> HIDE DEF w
<1>9. /\ \A u \in Txn : /\ Uncommitted(u)' <=> Uncommitted(u)
                        /\ start_ts'[u] = start_ts[u] /\ call'[u] = call[u]
      /\ \A h, r : Covers(h, r)' <=> Covers(h, r)
      /\ \A ts, r : Older(r, ts)' <=> Older(r, ts)
      /\ next_timestamp' = next_timestamp
  BY <1>1 DEF mgrVars, Uncommitted, Begun, Covers, NotAfter, Older
<1>10. /\ \A u \in Txn \ {t} : Written(u)' = Written(u)
       /\ Written(t)' = Before(t, n)
       /\ Written(t) = Before(t, n) \cup {rid}
  <2>1. \A u \in Txn \ {t} : Written(u)' = Written(u)
    BY <1>4 DEF Written
  <2>2. Written(t)' = {write_set[t][i].rid : i \in 1 .. (n - 1)}
    <3>1. Written(t)' = {write_set'[t][i].rid : i \in 1 .. (n - 1)}
      BY <1>4 DEF Written
    <3> QED BY <3>1, <1>4
  <2>3. Written(t) = {write_set[t][i].rid : i \in 1 .. n}
    BY <1>2 DEF Written
  <2>4. {write_set[t][i].rid : i \in 1 .. n} = {write_set[t][i].rid : i \in 1 .. (n - 1)} \cup {rid}
    <3>1. \A i \in 1 .. n : i \in 1 .. (n - 1) \/ i = n
      BY <1>2
    <3>2. n \in 1 .. n /\ \A i \in 1 .. (n - 1) : i \in 1 .. n
      BY <1>2
    <3> HIDE DEF n
    <3> QED BY <3>1, <3>2 DEF w
  <2> QED BY <2>1, <2>2, <2>3, <2>4 DEF Before
<1>11. \A u \in Txn : job'[u] = job[u] /\ job[u].at = "idle"
  <2> SUFFICES ASSUME NEW u \in Txn PROVE job[u].at = "idle"
    BY <1>1
  <2>1. CASE u = t
    BY <2>1, <1>1 DEF SerialInv, Phases
  <2>2. CASE u # t
    BY <2>2, QuietFacts
  <2> QED BY <2>1, <2>2
<1>12. \A u \in Txn : \A r : /\ Wrote(u, r) <=> r \in Written(u)
                             /\ Wrote(u, r)' <=> r \in Written(u)'
  BY <1>11 DEF Wrote, Linking
<1>13. GhostTypes' /\ NoLostUpdate'
  BY <1>1 DEF SerialInv, GhostTypes, NoLostUpdate
<1>14. Phases'
  <2>1. \A u \in Txn : call[u] = "new" => write_set'[u] = write_set[u]
    BY <1>1, <1>4
  <2> QED BY <1>1, <2>1 DEF SerialInv, Phases, mgrVars, Uncommitted, Begun
<1>15. HeapInv'
  <2> SUFFICES ASSUME NEW r \in Rid
               PROVE  /\ heap'[r].ts < next_timestamp
                      /\ committed[r] # <<>> => heap'[r].used
                      /\ Covers(heap'[r].ts, r)
                      /\ \A u \in Txn : Uncommitted(u) /\ heap'[r].ts = start_ts[u] =>
                             committed[r] = <<>> \/ r \in Written(u)'
    BY <1>1, <1>9, <1>12 DEF SerialInv, HeapInv
  <2>1. CASE r = rid
    BY <2>1, <1>6, <1>7, <1>8, <1>10 DEF Restores
  <2>2. CASE r # rid
    <3>1. heap'[r] = heap[r] /\ \A u \in Txn : r \in Written(u) => r \in Written(u)'
      BY <2>2, <1>8, <1>10
    <3> QED BY <3>1, <1>12 DEF SerialInv, HeapInv
  <2> QED BY <2>1, <2>2
<1>16. MineInv'
  <2>0. \A u \in Txn : Written(u)' \subseteq Written(u)
    BY <1>10
  <2>1. ASSUME NEW u \in Txn, NEW r \in DOMAIN mine[u] PROVE heap'[r].used
    <3>1. r \in Rid
      BY GhostFacts
    <3> QED BY <3>1, <1>7, <1>8 DEF SerialInv, MineInv
  <2>2. ASSUME NEW u \in Txn, call[u] = "running", NEW r \in DOMAIN mine[u] PROVE heap'[r] = heap[r]
    <3>1. r \in Rid /\ u # t
      BY <2>2, <1>1, GhostFacts
    <3>2. r \notin Written(t)
      BY <2>2, <3>1, <1>5 DEF SerialInv, MineInv
    <3> QED BY <3>1, <3>2, <1>8, <1>10
  <2>3. ASSUME NEW u \in Txn, call[u] = "running", NEW r \in DOMAIN mine[u]
        PROVE  /\ heap'[r].ts = start_ts[u]
               /\ \A v \in Txn \ {u} : Uncommitted(v) => r \notin Written(v)'
               /\ r \in Written(u)' => Older(r, start_ts[u])
    BY <2>0, <2>2, <2>3, <1>12 DEF SerialInv, MineInv
  <2>4. ASSUME NEW u \in Txn, NEW r \in Rid, r \in Written(u)' PROVE r \in DOMAIN mine[u]
    BY <2>0, <2>4, <1>12 DEF SerialInv, MineInv
  <2> QED BY <2>1, <2>3, <2>4, <1>1, <1>9, <1>12 DEF MineInv
<1>17. StatementInv'
  <2>1. \A u \in Txn : job'[u].at = "idle" /\ ~Checked(u)'
    BY <1>11 DEF Checked
  <2> QED BY <2>1 DEF StatementInv
<1>18. RawInv'
  <2>1. \A u \in Txn : \A h, r, E : Restores(u, h, r, E)' <=> Restores(u, h, r, E)
    BY <1>1, <1>9 DEF Restores
  <2> SUFFICES ASSUME NEW u \in Txn, Uncommitted(u), NEW i \in DOMAIN write_set'[u]
               PROVE  Restores(u, write_set'[u][i].raw.ts, write_set'[u][i].rid, Before(u, i)')
    <3>1. \A u_1 \in Txn : job'[u_1].at # "link"
      BY <1>11
    <3> QED BY <1>9, <2>1, <3>1 DEF RawInv
  <2>2. CASE u # t
    <3>1. Before(u, i)' = Before(u, i)
      BY <2>2, <1>4 DEF Before
    <3> QED BY <2>2, <3>1, <1>4 DEF SerialInv, RawInv
  <2>3. CASE u = t
    <3>0. i \in 1 .. (n - 1)
      BY <2>3, <1>4
    <3>1. Before(t, i)' = Before(t, i)
      <4>1. \A j \in 1 .. i - 1 : write_set'[t][j] = write_set[t][j]
        BY <3>0, <1>2, <1>4
      <4> QED BY <4>1 DEF Before
    <3>2. i \in DOMAIN write_set[t] /\ write_set'[t][i] = write_set[t][i]
      BY <3>0, <1>2, <1>4
    <3> QED BY <2>3, <3>1, <3>2 DEF SerialInv, RawInv
  <2> QED BY <2>2, <2>3
<1> QED BY <1>13, <1>14, <1>15, <1>16, <1>17, <1>18 DEF SerialInv

-----------------------------------------------------------------------------
(***************************************************************************)
(* The steps of the manager.                                               *)
(***************************************************************************)
LEMMA SerialBegin ==
    ASSUME SerialInv, ChainInv', NEW t \in Txn, Begin(t)
    PROVE  SerialInv'
<1>1. /\ call[t] = "new" /\ mine[t] = <<>> /\ write_set[t] = <<>> /\ next_timestamp \in Nat
      /\ UNCHANGED <<heap, version_info, undo_logs, write_set, job, stmts, mine, committed>>
  BY DEF Begin, begin, rowVars, SerialInv, Phases, ChainInv, MgrInv, MgrTypeOK
<1>2. /\ \A u \in Txn \ {t} : /\ start_ts'[u] = start_ts[u] /\ state'[u] = state[u]
                              /\ call'[u] = call[u] /\ txn_mode'[u] = txn_mode[u]
                              /\ (Begun(u)' <=> Begun(u)) /\ (Uncommitted(u)' <=> Uncommitted(u))
      /\ start_ts'[t] = next_timestamp /\ next_timestamp' = next_timestamp + 1
      /\ call'[t] = "running" /\ state'[t] = "DEFAULT" /\ txn_mode'[t] = TRUE
      /\ commit_ts' = commit_ts /\ aborted_txns' = aborted_txns
      /\ ~Begun(t)
  BY <1>1 DEF Begin, begin, ReadTs, SerialInv, ChainInv, MgrInv, MgrTypeOK, Handed, Begun, Uncommitted
<1>3. Begun(t)' /\ Uncommitted(t)' /\ job[t].at = "idle" /\ commit_ts[t] = INVALID_TS
  <2>1. commit_ts[t] = INVALID_TS
    BY <1>2 DEF SerialInv, ChainInv, MgrInv, Handed
  <2>2. job[t].at = "idle"
    BY <1>1 DEF SerialInv, Phases
  <2> QED BY <1>2, <2>1, <2>2 DEF Begun, Uncommitted
<1>4. \A u \in Txn : \A r : /\ Written(u)' = Written(u) /\ (Wrote(u, r)' <=> Wrote(u, r))
                            /\ Before(u, r)' = Before(u, r)
  BY <1>1 DEF Written, Wrote, Linking, Before
<1>5. Written(t) = {} /\ DOMAIN mine[t] = {} /\ \A r : ~Wrote(t, r)
  BY <1>1, <1>3 DEF Written, Wrote, Linking
<1>6. /\ \A h, r : Covers(h, r) => Covers(h, r)'
      /\ \A ts, r : Older(r, ts)' <=> Older(r, ts)
  <2>1. \A h, c : NotAfter(c, h) => NotAfter(c, h)'
    <3> SUFFICES ASSUME NEW h, NEW c, NEW u \in Txn, Begun(u), start_ts[u] = h, c <= commit_ts[u]
                 PROVE  Begun(u)' /\ start_ts'[u] = h /\ c <= commit_ts'[u]
      BY DEF NotAfter
    <3> QED BY <1>2
  <2> QED BY <1>1, <2>1 DEF Covers, Older
<1>7. GhostTypes' /\ NoLostUpdate'
  BY <1>1 DEF SerialInv, GhostTypes, NoLostUpdate
<1>8. Phases'
  <2>1. next_timestamp > 1 /\ next_timestamp' > 1
    BY <1>1, <1>2 DEF SerialInv, Phases
  <2>2. start_ts'[t] \notin aborted_txns
    <3>1. \A ts \in aborted_txns : \E u \in Txn : Begun(u) /\ start_ts[u] = ts
      BY DEF SerialInv, ChainInv, MgrInv, Apart
    <3>2. \A u \in Txn : Begun(u) => start_ts[u] \in Nat /\ start_ts[u] < next_timestamp
      BY DEF SerialInv, ChainInv, MgrInv, Handed
    <3> QED BY <3>1, <3>2, <1>1, <1>2
  <2> QED BY <2>1, <2>2, <1>1, <1>2, <1>3 DEF SerialInv, Phases
<1>9. \A r \in Rid : heap[r].ts \in Nat /\ heap[r].ts < next_timestamp
  BY DEF SerialInv, HeapInv, ChainInv, RowTypes, Cells
<1>10. HeapInv'
  <2> SUFFICES ASSUME NEW r \in Rid
               PROVE  /\ heap[r].ts < next_timestamp'
                      /\ \A i \in DOMAIN committed[r] :
                             1 < committed[r][i].ts /\ committed[r][i].ts < next_timestamp'
                      /\ Covers(heap[r].ts, r)'
                      /\ \A u \in Txn : Uncommitted(u)' /\ heap[r].ts = start_ts'[u] =>
                             committed[r] = <<>> \/ Wrote(u, r)
    BY <1>1, <1>4 DEF SerialInv, HeapInv
  <2>1. heap[r].ts < next_timestamp'
    BY <1>1, <1>2, <1>9
  <2>2. \A i \in DOMAIN committed[r] : 1 < committed[r][i].ts /\ committed[r][i].ts < next_timestamp'
    BY <1>1, <1>2, GhostFacts DEF SerialInv, HeapInv
  <2>3. Covers(heap[r].ts, r)'
    <3>0. PICK h : h = heap[r].ts
      OBVIOUS
    <3>1. Covers(h, r)
      BY <3>0 DEF SerialInv, HeapInv
    <3>2. Covers(h, r)'
      BY <1>6, <3>1
    <3> QED BY <3>0, <3>2, <1>1 DEF Covers, NotAfter
  <2>4. \A u \in Txn : Uncommitted(u)' /\ heap[r].ts = start_ts'[u] => committed[r] = <<>> \/ Wrote(u, r)
    <3> SUFFICES ASSUME NEW u \in Txn, Uncommitted(u)', heap[r].ts = start_ts'[u]
                 PROVE  committed[r] = <<>> \/ Wrote(u, r)
      OBVIOUS
    <3>1. u # t
      BY <1>1, <1>2, <1>9
    <3> QED BY <3>1, <1>2 DEF SerialInv, HeapInv
  <2> QED BY <2>1, <2>2, <2>3, <2>4
<1>11. MineInv'
  <2> SUFFICES ASSUME NEW u \in Txn, call'[u] = "running", NEW r \in DOMAIN mine[u]
               PROVE  /\ heap[r].ts = start_ts'[u]
                      /\ \A v \in Txn \ {u} : Uncommitted(v)' => r \notin Written(v)
                      /\ Wrote(u, r) => Older(r, start_ts'[u])
    BY <1>1, <1>4, <1>6 DEF SerialInv, MineInv
  <2>1. u # t
    BY <1>5
  <2> QED BY <2>1, <1>2, <1>5 DEF SerialInv, MineInv
<1>12. StatementInv'
  <2>1. ASSUME NEW u \in Txn PROVE Checked(u)' => u # t /\ Clear(u, job[u].rid)
    BY <1>1, <1>3 DEF SerialInv, StatementInv, Checked
  <2>2. ASSUME NEW u \in Txn \ {t}, NEW r, Clear(u, r) PROVE Clear(u, r)'
    BY <2>2, <1>1, <1>2, <1>4, <1>5, <1>6 DEF Clear
  <2>3. \A u \in Txn : \A r : Checked(u)' /\ r = job[u].rid => Clear(u, r)'
    BY <2>1, <2>2
  <2>4. \A u \in Txn : Checked(u)' => Clear(u, job[u].rid)'
    BY <2>3, <1>1 DEF Clear, Older, Written
  <2> QED BY <2>4, <1>1 DEF SerialInv, StatementInv
<1>13. RawInv'
  <2>1. ASSUME NEW u \in Txn, NEW h \in Nat, NEW r, NEW E, Restores(u, h, r, E)
        PROVE  Restores(u, h, r, E)'
    <3>1. h < next_timestamp' /\ h # next_timestamp
      BY <2>1, <1>1, <1>2 DEF Restores
    <3>2. \A v \in Txn : Uncommitted(v)' /\ h = start_ts'[v] => Uncommitted(v) /\ h = start_ts[v]
      BY <3>1, <1>2
    <3> QED BY <2>1, <3>1, <3>2, <1>1, <1>6 DEF Restores
  <2> SUFFICES ASSUME NEW u \in Txn, Uncommitted(u)'
               PROVE  /\ \A i \in DOMAIN write_set[u] :
                             Restores(u, write_set[u][i].raw.ts, write_set[u][i].rid, Before(u, i))'
                      /\ job[u].at = "link" => Restores(u, job[u].raw.ts, job[u].rid, Written(u))'
    BY <1>1 DEF RawInv
  <2>2. CASE u = t
    BY <2>2, <1>1, <1>3
  <2>3. CASE u # t
    <3>0. Uncommitted(u)
      BY <2>3, <1>2
    <3>1. ASSUME NEW i \in DOMAIN write_set[u]
          PROVE  Restores(u, write_set[u][i].raw.ts, write_set[u][i].rid, Before(u, i))'
      <4>0. PICK h, r, E : h = write_set[u][i].raw.ts /\ r = write_set[u][i].rid /\ E = Before(u, i)
        OBVIOUS
      <4>1. write_set[u] \in Seq(WriteRecords)
        BY DEF SerialInv, ChainInv, RowTypes
      <4>2. write_set[u][i] \in WriteRecords
        BY <4>1
      <4>3. h \in Nat /\ Restores(u, h, r, E)
        BY <4>0, <4>2, <3>0 DEF SerialInv, RawInv, WriteRecords, Cells
      <4>4. h = write_set'[u][i].raw.ts /\ r = write_set'[u][i].rid /\ E = Before(u, i)'
        BY <1>1, <1>4, <4>0
      <4>5. Restores(u, h, r, E)'
        BY <4>3, <2>1
      <4> QED BY <4>4, <4>5 DEF Restores, Covers, NotAfter
    <3>2. ASSUME job[u].at = "link" PROVE Restores(u, job[u].raw.ts, job[u].rid, Written(u))'
      <4>0. PICK h, r, E : h = job[u].raw.ts /\ r = job[u].rid /\ E = Written(u)
        OBVIOUS
      <4>1. h \in Nat /\ Restores(u, h, r, E)
        BY <4>0, <3>0, <3>2 DEF SerialInv, RawInv, ChainInv, RowTypes, Jobs, Cells
      <4>2. h = job'[u].raw.ts /\ r = job'[u].rid /\ E = Written(u)'
        BY <1>1, <1>4, <4>0
      <4>3. Restores(u, h, r, E)'
        BY <4>1, <2>1
      <4> QED BY <4>2, <4>3 DEF Restores, Covers, NotAfter
    <3> QED BY <3>1, <3>2
  <2> QED BY <2>2, <2>3
<1> QED BY <1>7, <1>8, <1>10, <1>11, <1>12, <1>13 DEF SerialInv

\* A step towards the end of t, which is outside a statement after it.
LEMMA EndingInv ==
    ASSUME SerialInv, ChainInv', Phases', NEW t \in Txn, OthersQuiet(t),
           UNCHANGED <<heap, write_set, mine, committed, next_timestamp, start_ts, commit_ts>>,
           \A u \in Txn : (Begun(u)' <=> Begun(u)) /\ (call'[u] = "running" => call[u] = "running"),
           \A u \in Txn \ {t} : job'[u] = job[u],
           job[t].at # "link", job'[t].at = "idle"
    PROVE  SerialInv'
<1>1. GhostTypes' /\ NoLostUpdate'
  BY DEF SerialInv, GhostTypes, NoLostUpdate
<1>2. \A u \in Txn : job'[u].at = "idle" /\ job[u].at # "link"
  BY QuietFacts
<1>3. \A u \in Txn : /\ Uncommitted(u)' <=> Uncommitted(u)
                     /\ Written(u)' = Written(u)
                     /\ \A rid : Wrote(u, rid)' <=> Wrote(u, rid)
  BY <1>2 DEF Uncommitted, Written, Linking, Wrote
<1>4. /\ \A h, rid : Covers(h, rid)' <=> Covers(h, rid)
      /\ \A ts, rid : Older(rid, ts)' <=> Older(rid, ts)
  BY DEF Covers, NotAfter, Older
<1>5. HeapInv'
  BY <1>3, <1>4 DEF SerialInv, HeapInv
<1>6. MineInv'
  BY <1>3, <1>4 DEF SerialInv, MineInv
<1>7. StatementInv'
  BY <1>2 DEF StatementInv, Checked
<1>8. RawInv'
  <2>1. \A u \in Txn : \A h, rid, E : Restores(u, h, rid, E)' <=> Restores(u, h, rid, E)
    BY <1>3, <1>4 DEF Restores
  <2>2. \A u \in Txn : \A i : Before(u, i)' = Before(u, i)
    BY DEF Before
  <2> QED BY <1>2, <1>3, <2>1, <2>2 DEF SerialInv, RawInv
<1> QED BY <1>1, <1>5, <1>6, <1>7, <1>8 DEF SerialInv

LEMMA SerialManager ==
    ASSUME SerialInv, ChainInv', NEW t \in Txn, OthersQuiet(t), ManagerStep(t)
    PROVE  SerialInv'
<1>0. /\ call \in [Txn -> Calls] /\ state \in [Txn -> {"none", "DEFAULT", "COMMITTED", "ABORTED"}]
      /\ aborted_txns \in SUBSET Nat
      /\ \A u \in Txn : Begun(u) <=> call[u] # "new"
      /\ \A u, v \in Txn : Begun(u) /\ Begun(v) /\ start_ts[u] = start_ts[v] => u = v
  BY DEF SerialInv, ChainInv, MgrInv, MgrTypeOK, Handed, Apart
<1>1. /\ UNCHANGED <<heap, write_set, mine, committed, job>>
      /\ UNCHANGED <<next_timestamp, start_ts, commit_ts, txn_mode>>
  BY DEF ManagerStep, rowVars, CommitRecord, CommitState, AbortErase, AbortRecord
<1>2. /\ \A u \in Txn \ {t} : call'[u] = call[u] /\ state'[u] = state[u]
      /\ \/ call[t] = "commit" /\ call'[t] = "state" /\ state'[t] = state[t] /\ aborted_txns' = aborted_txns
         \/ call[t] = "state" /\ call'[t] = "done" /\ state'[t] = "COMMITTED" /\ aborted_txns' = aborted_txns
         \/ call[t] = "abort" /\ call'[t] = "record" /\ state'[t] = state[t] /\ aborted_txns' = aborted_txns
         \/ /\ call[t] = "record" /\ call'[t] = "done" /\ state'[t] = state[t]
            /\ aborted_txns' = aborted_txns \cup {start_ts[t]}
  <2>1. call[t] \notin {"commit2", "state2", "abort2", "record2"}
    BY DEF SerialInv, Phases
  <2> QED BY <1>0, <2>1 DEF ManagerStep, CommitRecord, CommitState, AbortErase, AbortRecord
<1>3. \A u \in Txn : (Begun(u)' <=> Begun(u)) /\ (call'[u] = "running" => call[u] = "running")
  <2> SUFFICES ASSUME NEW u \in Txn
               PROVE  (state'[u] # "none" <=> state[u] # "none") /\ (call'[u] = "running" => call[u] = "running")
    BY DEF Begun
  <2>1. CASE u = t
    <3>1. state[t] # "none"
      BY <1>0, <1>2 DEF Begun
    <3> QED BY <2>1, <3>1, <1>2
  <2>2. CASE u # t
    BY <2>2, <1>2
  <2> QED BY <2>1, <2>2
<1>4. job[t].at = "idle"
  BY <1>2 DEF SerialInv, Phases
<1>5. Phases'
  <2>1. \A u \in Txn : Uncommitted(u)' <=> Uncommitted(u)
    BY <1>1, <1>3 DEF Uncommitted
  <2>2. \A u \in Txn : Begun(u) /\ start_ts[u] \in aborted_txns' => state'[u] = "ABORTED"
    <3> SUFFICES ASSUME NEW u \in Txn, Begun(u), start_ts[u] \in aborted_txns'
                 PROVE  state'[u] = "ABORTED"
      OBVIOUS
    <3>1. Begun(t)
      BY <1>0, <1>2
    <3>2. CASE u = t
      <4>1. call[t] \in {"abort", "record"} => state[t] = "ABORTED"
        BY DEF SerialInv, Phases
      <4>2. call[t] \in {"commit", "state"} => start_ts[t] \notin aborted_txns
        <5>1. call[t] \in {"commit", "state"} => state[t] = "DEFAULT"
          BY DEF SerialInv, Phases
        <5>2. start_ts[t] \in aborted_txns => state[t] = "ABORTED"
          BY <3>1 DEF SerialInv, Phases
        <5> QED BY <5>1, <5>2
      <4> QED BY <3>2, <4>1, <4>2, <1>2
    <3>3. CASE u # t
      <4>1. start_ts[u] # start_ts[t]
        BY <1>0, <3>1, <3>3
      <4>2. start_ts[u] \in aborted_txns
        BY <4>1, <1>2
      <4> QED BY <4>2, <3>3, <1>2 DEF SerialInv, Phases
    <3> QED BY <3>2, <3>3
  <2>3. ASSUME NEW u \in Txn
        PROVE  /\ call'[u] \in {"new", "running", "commit", "state", "abort", "record", "done"}
               /\ call'[u] = "new" => mine[u] = <<>> /\ write_set[u] = <<>>
               /\ call'[u] = "running" => state'[u] = "DEFAULT" /\ Uncommitted(u) /\ start_ts[u] > 1
               /\ call'[u] = "running" => txn_mode[u] = TRUE
               /\ call'[u] \in {"commit", "state"} => state'[u] = "DEFAULT" /\ ~Uncommitted(u)
               /\ call'[u] \in {"abort", "record"} => state'[u] = "ABORTED" /\ Uncommitted(u)
               /\ call'[u] = "done" => \/ state'[u] = "COMMITTED" /\ ~Uncommitted(u)
                                       \/ state'[u] = "ABORTED" /\ Uncommitted(u)
               /\ call'[u] # "running" => job[u].at = "idle"
    <3>1. CASE u = t
      BY <3>1, <1>2, <1>4 DEF SerialInv, Phases
    <3>2. CASE u # t
      BY <3>2, <1>2 DEF SerialInv, Phases
    <3> QED BY <3>1, <3>2
  <2>4. \A u \in Txn : Begun(u) => start_ts[u] > 1 \/ commit_ts[u] = 1
    BY DEF SerialInv, Phases
  <2>5. next_timestamp > 1
    BY DEF SerialInv, Phases
  <2> QED BY <2>1, <2>2, <2>3, <2>4, <2>5, <1>1, <1>3 DEF Phases
<1> QED BY <1>1, <1>3, <1>4, <1>5, EndingInv

LEMMA SerialAbort ==
    ASSUME SerialInv, ChainInv', NEW t \in Txn, OthersQuiet(t), Abort(t)
    PROVE  SerialInv'
<1>0. /\ call \in [Txn -> Calls] /\ state \in [Txn -> {"none", "DEFAULT", "COMMITTED", "ABORTED"}]
  BY DEF SerialInv, ChainInv, MgrInv, MgrTypeOK
<1>1. /\ UNCHANGED <<heap, write_set, mine, committed, aborted_txns, txn_mode>>
      /\ UNCHANGED <<next_timestamp, start_ts, commit_ts>>
      /\ job' = [job EXCEPT ![t] = Idle]
      /\ call[t] = "running" /\ job[t].at # "link"
  BY DEF Abort, AbortState
<1>2. /\ state'[t] = "ABORTED" /\ call'[t] = "abort" /\ Uncommitted(t) /\ state[t] = "DEFAULT"
      /\ \A u \in Txn \ {t} : call'[u] = call[u] /\ state'[u] = state[u]
  <2>1. txn_mode[t] = TRUE /\ Uncommitted(t) /\ state[t] = "DEFAULT"
    BY <1>1 DEF SerialInv, Phases
  <2> QED BY <1>0, <2>1 DEF Abort, AbortState
<1>3. job'[t].at = "idle" /\ \A u \in Txn \ {t} : job'[u] = job[u]
  BY <1>1, IdleMoves DEF SerialInv, ChainInv
<1>4. \A u \in Txn : (Begun(u)' <=> Begun(u)) /\ (call'[u] = "running" => call[u] = "running")
  BY <1>1, <1>2 DEF Begun
<1>5. \A u \in Txn : Uncommitted(u)' <=> Uncommitted(u)
  BY <1>1, <1>4 DEF Uncommitted
<1>6. Phases'
  BY <1>1, <1>2, <1>3, <1>4, <1>5 DEF SerialInv, Phases
<1> QED BY <1>1, <1>3, <1>4, <1>6, EndingInv

(***************************************************************************)
(* Commit: the rows of t get a new version and, if they are in its write   *)
(* set, its commit timestamp.                                              *)
(***************************************************************************)
LEMMA SerialCommit ==
    ASSUME SerialInv, ChainInv', NEW t \in Txn, OthersQuiet(t), Commit(t)
    PROVE  SerialInv'
<1> DEFINE c == next_timestamp
           New(r) == [start |-> start_ts[t], ts |-> c, insert |-> r \notin Written(t), val |-> mine[t][r]]
<1>0. /\ c \in Nat /\ c > 1
      /\ call \in [Txn -> Calls] /\ commit_ts \in [Txn -> Timestamps]
      /\ \A u \in Txn : Begun(u) => start_ts[u] \in Nat /\ start_ts[u] < c
      /\ \A u, v \in Txn : Begun(u) /\ Begun(v) /\ start_ts[u] = start_ts[v] => u = v
  BY DEF SerialInv, Phases, ChainInv, MgrInv, MgrTypeOK, Handed, Apart
<1>1. /\ job[t].at = "idle" /\ UNCHANGED <<write_set, job, mine>>
      /\ heap' = StampHeap(t, c)
      /\ committed' = [rid \in Rid |-> IF rid \notin DOMAIN mine[t] THEN committed[rid]
                                       ELSE Append(committed[rid], New(rid))]
  BY DEF Commit
<1>2. /\ call[t] = "running" /\ call'[t] = "commit" /\ next_timestamp' = c + 1
      /\ commit_ts'[t] = c /\ (\A u \in Txn \ {t} : commit_ts'[u] = commit_ts[u] /\ call'[u] = call[u])
      /\ UNCHANGED <<state, txn_mode, start_ts, aborted_txns>>
  <2>1. call[t] \in {"running", "reply"} /\ call[t] # "reply" /\ (call[t] = "running" => txn_mode[t] = TRUE)
    BY DEF SerialInv, Phases, Commit, CommitStamp
  <2> QED BY <1>0, <2>1 DEF Commit, CommitStamp
<1>3. /\ Uncommitted(t) /\ Begun(t) /\ commit_ts[t] = INVALID_TS /\ state[t] = "DEFAULT"
      /\ start_ts[t] \in Nat /\ start_ts[t] < c
  BY <1>0, <1>2 DEF SerialInv, Phases, Uncommitted
<1>4. /\ \A u \in Txn : Begun(u)' <=> Begun(u)
      /\ ~Uncommitted(t)'
      /\ \A u \in Txn \ {t} : Uncommitted(u)' <=> Uncommitted(u)
      /\ \A u \in Txn : Written(u)' = Written(u)
      /\ \A u \in Txn : \A r : (Wrote(u, r) <=> r \in Written(u)) /\ (Wrote(u, r)' <=> r \in Written(u))
      /\ \A u \in Txn : \A i : Before(u, i)' = Before(u, i)
      /\ \A u \in Txn : job[u].at = "idle" /\ job'[u] = job[u]
  <2>1. \A u \in Txn : job[u].at = "idle" /\ job'[u] = job[u]
    BY <1>1, QuietFacts
  <2>2. /\ \A u \in Txn : (Begun(u)' <=> Begun(u))
        /\ ~Uncommitted(t)'
        /\ \A u \in Txn \ {t} : Uncommitted(u)' <=> Uncommitted(u)
    BY <1>0, <1>2 DEF Begun, Uncommitted, INVALID_TS
  <2>3. \A u \in Txn : Written(u)' = Written(u) /\ \A i : Before(u, i)' = Before(u, i)
    BY <1>1 DEF Written, Before
  <2>4. \A u \in Txn : \A r : (Wrote(u, r) <=> r \in Written(u)) /\ (Wrote(u, r)' <=> r \in Written(u))
    BY <2>1, <2>3 DEF Wrote, Linking
  <2> QED BY <2>1, <2>2, <2>3, <2>4
\* The rows of t, and the others.
<1>5. \A r \in DOMAIN mine[t] : /\ r \in Rid /\ heap[r].ts = start_ts[t] /\ heap[r].used
                                /\ r \in Written(t) => Older(r, start_ts[t])
  BY <1>2, <1>4, GhostFacts DEF SerialInv, MineInv
<1>6. ASSUME NEW r \in DOMAIN mine[t]
      PROVE  /\ heap'[r].used = heap[r].used
             /\ IF r \in Written(t) THEN heap'[r].ts = c ELSE heap'[r].ts = start_ts[t]
  <2>1. r \in Rid /\ heap[r] \in Cells
    BY <1>5 DEF SerialInv, ChainInv, RowTypes
  <2>2. heap'[r] = IF r \in Written(t) THEN [heap[r] EXCEPT !.ts = c] ELSE heap[r]
    BY <1>1, <1>5, <2>1 DEF StampHeap
  <2>3. [heap[r] EXCEPT !.ts = c].ts = c /\ [heap[r] EXCEPT !.ts = c].used = heap[r].used
    BY <2>1 DEF Cells
  <2> QED BY <2>2, <2>3, <1>5
<1>7. \A r \in Rid \ DOMAIN mine[t] : heap'[r] = heap[r] /\ committed'[r] = committed[r] /\ r \notin Written(t)
  <2> SUFFICES ASSUME NEW r \in Rid, r \notin DOMAIN mine[t]
               PROVE  heap'[r] = heap[r] /\ committed'[r] = committed[r] /\ r \notin Written(t)
    OBVIOUS
  <2>1. r \notin Written(t)
    BY <1>4 DEF SerialInv, MineInv
  <2> QED BY <1>1, <2>1 DEF StampHeap
<1>8. ASSUME NEW r \in DOMAIN mine[t]
      PROVE  /\ committed'[r] \in Seq(Versions) /\ committed'[r] # <<>>
             /\ Len(committed[r]) \in Nat /\ DOMAIN committed[r] = 1 .. Len(committed[r])
             /\ DOMAIN committed'[r] = 1 .. (Len(committed[r]) + 1)
             /\ committed'[r][Len(committed[r]) + 1] = New(r)
             /\ \A i \in DOMAIN committed[r] : committed'[r][i] = committed[r][i]
  <2>1. New(r) \in Versions
    <3>1. mine[t][r] \in Vals
      <4>1. mine[t] \in PartialRows
        BY DEF SerialInv, GhostTypes
      <4> QED BY <4>1 DEF PartialRows
    <3> QED BY <3>1, <1>0, <1>3 DEF Versions
  <2>2. committed[r] \in Seq(Versions) /\ committed'[r] = Append(committed[r], New(r))
    BY <1>1, <1>5 DEF SerialInv, GhostTypes
  <2> HIDE DEF New
  <2> QED BY <2>1, <2>2
<1>8a. ASSUME NEW r \in DOMAIN mine[t], NEW i \in DOMAIN committed'[r]
       PROVE  \/ i = Len(committed[r]) + 1 /\ committed'[r][i] = New(r)
              \/ i \in DOMAIN committed[r] /\ i <= Len(committed[r]) /\ committed'[r][i] = committed[r][i]
  <2>1. PICK n : n = Len(committed[r])
    OBVIOUS
  <2>2. n \in Nat /\ DOMAIN committed[r] = 1 .. n /\ DOMAIN committed'[r] = 1 .. (n + 1)
    BY <2>1, <1>8
  <2>3. committed'[r][n + 1] = New(r) /\ \A k \in DOMAIN committed[r] : committed'[r][k] = committed[r][k]
    BY <2>1, <1>8
  <2> HIDE DEF New
  <2>4. i \in 1 .. (n + 1)
    BY <2>2
  <2>5. i = n + 1 \/ i \in 1 .. n
    BY <2>2, <2>4
  <2>6. CASE i = n + 1
    BY <2>6, <2>1, <2>3
  <2>7. CASE i \in 1 .. n
    <3>1. i <= n /\ i \in DOMAIN committed[r]
      BY <2>7, <2>2
    <3> QED BY <3>1, <2>1, <2>3
  <2> QED BY <2>5, <2>6, <2>7
<1>8b. \A r : New(r).ts = c /\ New(r).insert = (r \notin Written(t)) /\ New(r).start = start_ts[t]
  OBVIOUS
<1> HIDE DEF New
<1>9. GhostTypes'
  <2>1. \A r \in Rid : committed'[r] \in Seq(Versions)
    BY <1>7, <1>8 DEF SerialInv, GhostTypes
  <2>2. committed' \in [Rid -> Seq(Versions)]
    BY <1>1, <2>1
  <2> QED BY <2>2, <1>1 DEF SerialInv, GhostTypes
<1>10. Phases'
  <2>1. \A u \in Txn : Begun(u) => start_ts[u] > 1 \/ commit_ts'[u] = 1
    <3>1. start_ts[t] > 1
      BY <1>2 DEF SerialInv, Phases
    <3> QED BY <3>1, <1>2 DEF SerialInv, Phases
  <2>2. next_timestamp' > 1
    BY <1>0, <1>2
  <2>3. ASSUME NEW u \in Txn
        PROVE  /\ call'[u] \in {"new", "running", "commit", "state", "abort", "record", "done"}
               /\ call'[u] = "new" => mine[u] = <<>> /\ write_set[u] = <<>>
               /\ call'[u] = "running" => state[u] = "DEFAULT" /\ Uncommitted(u)' /\ start_ts[u] > 1
               /\ call'[u] = "running" => txn_mode[u] = TRUE
               /\ call'[u] \in {"commit", "state"} => state[u] = "DEFAULT" /\ ~Uncommitted(u)'
               /\ call'[u] \in {"abort", "record"} => state[u] = "ABORTED" /\ Uncommitted(u)'
               /\ call'[u] = "done" => \/ state[u] = "COMMITTED" /\ ~Uncommitted(u)'
                                       \/ state[u] = "ABORTED" /\ Uncommitted(u)'
               /\ call'[u] # "running" => job[u].at = "idle"
               /\ Begun(u) /\ start_ts[u] \in aborted_txns => state[u] = "ABORTED"
    <3>1. CASE u = t
      BY <3>1, <1>1, <1>2, <1>3, <1>4 DEF SerialInv, Phases
    <3>2. CASE u # t
      BY <3>2, <1>2, <1>4 DEF SerialInv, Phases
    <3> QED BY <3>1, <3>2
  <2> QED BY <2>1, <2>2, <2>3, <1>1, <1>2, <1>4 DEF Phases
<1>11. ASSUME NEW h, NEW r \in Rid \ DOMAIN mine[t], Covers(h, r)
       PROVE  Covers(h, r)'
  <2> SUFFICES ASSUME NEW i \in DOMAIN committed[r] PROVE NotAfter(committed[r][i].ts, h)'
    BY <1>7 DEF Covers, NotAfter
  <2> DEFINE k == committed[r][i].ts
  <2>1. k = committed'[r][i].ts /\ k \in Nat /\ k > 1 /\ k < c
    BY <1>7, GhostFacts DEF SerialInv, HeapInv
  <2>2. NotAfter(k, h)
    BY <1>11 DEF Covers
  <2> HIDE DEF k
  <2>3. k <= h \/ \E u \in Txn : Begun(u)' /\ start_ts'[u] = h /\ k <= commit_ts'[u]
    <3>1. CASE k <= h
      BY <3>1
    <3>2. CASE ~(k <= h)
      <4>1. PICK u \in Txn : Begun(u) /\ start_ts[u] = h /\ k <= commit_ts[u]
        BY <2>2, <3>2 DEF NotAfter
      <4>2. k <= commit_ts'[u]
        <5>1. CASE u = t
          BY <5>1, <4>1, <2>1, <1>2, <1>0
        <5>2. CASE u # t
          BY <5>2, <4>1, <1>2
        <5> QED BY <5>1, <5>2
      <4> QED BY <4>1, <4>2, <1>2, <1>4
    <3> QED BY <3>1, <3>2
  <2> QED BY <2>1, <2>3 DEF NotAfter, k
<1>12. HeapInv'
  <2> SUFFICES ASSUME NEW r \in Rid
               PROVE  /\ heap'[r].ts < next_timestamp'
                      /\ committed'[r] # <<>> => heap'[r].used
                      /\ \A i \in DOMAIN committed'[r] :
                             1 < committed'[r][i].ts /\ committed'[r][i].ts < next_timestamp'
                      /\ \A i \in DOMAIN committed'[r] :
                             \/ committed'[r][i].ts <= heap'[r].ts
                             \/ \E u \in Txn : /\ Begun(u)' /\ start_ts'[u] = heap'[r].ts
                                               /\ committed'[r][i].ts <= commit_ts'[u]
                      /\ \A u \in Txn : Uncommitted(u)' /\ heap'[r].ts = start_ts'[u] =>
                             committed'[r] = <<>> \/ Wrote(u, r)'
    BY DEF HeapInv, Covers, NotAfter
  <2>1. CASE r \in DOMAIN mine[t]
    <3>1. heap'[r].ts = c \/ heap'[r].ts = start_ts[t]
      BY <2>1, <1>6
    <3>2. heap'[r].ts < next_timestamp' /\ heap'[r].used
      BY <2>1, <3>1, <1>0, <1>2, <1>3, <1>5, <1>6
    <3>3. ASSUME NEW i \in DOMAIN committed'[r]
          PROVE  committed'[r][i].ts \in Nat /\ 1 < committed'[r][i].ts /\ committed'[r][i].ts <= c
      <4>1. CASE i = Len(committed[r]) + 1
        <5>1. committed'[r][i].ts = c
          BY <4>1, <2>1, <1>8, <1>8b
        <5> QED BY <5>1, <1>0
      <4>2. CASE i # Len(committed[r]) + 1
        <5>1. i \in DOMAIN committed[r] /\ committed'[r][i] = committed[r][i]
          BY <4>2, <2>1, <1>8a
        <5> QED BY <5>1, <1>0, GhostFacts DEF SerialInv, HeapInv
      <4> QED BY <4>1, <4>2
    <3>4. ASSUME NEW i \in DOMAIN committed'[r]
          PROVE  \/ committed'[r][i].ts <= heap'[r].ts
                 \/ \E u \in Txn : /\ Begun(u)' /\ start_ts'[u] = heap'[r].ts
                                   /\ committed'[r][i].ts <= commit_ts'[u]
      <4>1. CASE heap'[r].ts = c
        BY <4>1, <3>3
      <4>2. CASE heap'[r].ts = start_ts[t]
        BY <4>2, <3>3, <1>2, <1>3, <1>4
      <4> QED BY <4>1, <4>2, <3>1
    <3>5. \A u \in Txn : Uncommitted(u)' => heap'[r].ts # start_ts'[u]
      <4> SUFFICES ASSUME NEW u \in Txn, Uncommitted(u)' PROVE heap'[r].ts # start_ts[u]
        BY <1>2
      <4>1. u # t /\ Begun(u)
        BY <1>4 DEF Uncommitted
      <4>2. start_ts[u] # start_ts[t] /\ start_ts[u] < c /\ start_ts[u] \in Nat
        BY <4>1, <1>0, <1>3
      <4> QED BY <4>2, <3>1, <1>0
    <3>6. \A i \in DOMAIN committed'[r] : committed'[r][i].ts < next_timestamp'
      BY <3>3, <1>0, <1>2
    <3> QED BY <3>2, <3>3, <3>4, <3>5, <3>6
  <2>2. CASE r \notin DOMAIN mine[t]
    <3>1. heap'[r] = heap[r] /\ committed'[r] = committed[r]
      BY <2>2, <1>7
    <3>2. heap[r].ts \in Nat /\ heap[r].ts < c /\ heap[r].ts < next_timestamp'
      BY <1>0, <1>2 DEF SerialInv, HeapInv, ChainInv, RowTypes, Cells
    <3>3. PICK h : h = heap[r].ts
      OBVIOUS
    <3>4. Covers(h, r)'
      BY <2>2, <3>3, <1>11 DEF SerialInv, HeapInv
    <3>5. \A i \in DOMAIN committed[r] :
              1 < committed[r][i].ts /\ committed[r][i].ts < next_timestamp'
      BY <1>0, <1>2, GhostFacts DEF SerialInv, HeapInv
    <3>6. \A u \in Txn : Uncommitted(u)' /\ heap[r].ts = start_ts'[u] => committed[r] = <<>> \/ Wrote(u, r)'
      BY <1>2, <1>4 DEF SerialInv, HeapInv
    <3>7. committed[r] # <<>> => heap[r].used
      BY DEF SerialInv, HeapInv
    <3> QED BY <3>1, <3>2, <3>3, <3>4, <3>5, <3>6, <3>7 DEF Covers, NotAfter
  <2> QED BY <2>1, <2>2
\* No other running transaction has written a row of t.
<1>13. ASSUME NEW u \in Txn \ {t}, call[u] = "running", NEW r \in DOMAIN mine[u]
       PROVE  r \in Rid /\ r \notin DOMAIN mine[t]
  <2>1. r \in Rid /\ heap[r].ts = start_ts[u] /\ Begun(u)
    BY <1>13, GhostFacts DEF SerialInv, MineInv, Phases, Uncommitted
  <2> QED BY <2>1, <1>0, <1>3, <1>5
<1>14. MineInv'
  <2>1. ASSUME NEW u \in Txn, NEW r \in DOMAIN mine[u] PROVE heap'[r].used
    <3>1. r \in Rid /\ heap[r].used
      BY GhostFacts DEF SerialInv, MineInv
    <3> QED BY <3>1, <1>6, <1>7
  <2>2. ASSUME NEW u \in Txn, call'[u] = "running", NEW r \in DOMAIN mine[u]
        PROVE  /\ heap'[r].ts = start_ts[u]
               /\ \A v \in Txn \ {u} : Uncommitted(v)' => r \notin Written(v)
               /\ r \in Written(u) => \A i \in DOMAIN committed'[r] : committed'[r][i].ts < start_ts[u]
    <3>1. u # t /\ call[u] = "running"
      BY <2>2, <1>2
    <3>2. r \in Rid /\ heap'[r] = heap[r] /\ committed'[r] = committed[r]
      BY <3>1, <1>13, <1>7
    <3>3. \A v \in Txn \ {u} : Uncommitted(v)' => Uncommitted(v)
      BY <1>3, <1>4
    <3> QED BY <3>1, <3>2, <3>3, <1>4 DEF SerialInv, MineInv, Older
  <2>3. ASSUME NEW u \in Txn
        PROVE  /\ \A r \in DOMAIN mine'[u] : heap'[r].used
               /\ \A r \in Rid : Wrote(u, r)' => r \in DOMAIN mine'[u]
               /\ call'[u] = "running" => \A r \in DOMAIN mine'[u] :
                      /\ heap'[r].ts = start_ts'[u]
                      /\ \A v \in Txn \ {u} : Uncommitted(v)' => r \notin Written(v)'
                      /\ Wrote(u, r)' =>
                             \A i \in DOMAIN committed'[r] : committed'[r][i].ts < start_ts'[u]
    <3>1. mine' = mine /\ start_ts' = start_ts /\ \A v \in Txn : Written(v)' = Written(v)
      BY <1>1, <1>2, <1>4
    <3>2. \A r \in Rid : Wrote(u, r)' => r \in DOMAIN mine'[u]
      BY <3>1, <1>4 DEF SerialInv, MineInv
    <3>3. \A r : Wrote(u, r)' <=> r \in Written(u)
      BY <1>4
    <3> QED BY <2>1, <2>2, <3>1, <3>2, <3>3
  <2> QED BY <2>3 DEF MineInv, Older
<1>15. StatementInv'
  BY <1>4 DEF StatementInv, Checked
<1>16. RawInv'
  <2> SUFFICES ASSUME NEW u \in Txn, Uncommitted(u)', NEW i \in DOMAIN write_set[u]
               PROVE  Restores(u, write_set[u][i].raw.ts, write_set[u][i].rid, Before(u, i))'
    BY <1>1, <1>4 DEF RawInv
  <2>1. u # t /\ Uncommitted(u)
    BY <1>4
  <2>2. call[u] = "running"
    BY <2>1, QuietFacts
  <2>3. PICK h, r, E : h = write_set[u][i].raw.ts /\ r = write_set[u][i].rid /\ E = Before(u, i)
    OBVIOUS
  <2>4. write_set[u][i] \in WriteRecords
    <3>1. write_set[u] \in Seq(WriteRecords)
      BY DEF SerialInv, ChainInv, RowTypes
    <3> QED BY <3>1
  <2>5. r \in Rid /\ h \in Nat /\ r \in Written(u)
    BY <2>3, <2>4 DEF WriteRecords, Cells, Written
  <2>6. r \in DOMAIN mine[u]
    BY <2>5, <1>4 DEF SerialInv, MineInv
  <2>7. r \notin DOMAIN mine[t] /\ committed'[r] = committed[r]
    BY <2>1, <2>2, <2>5, <2>6, <1>7, <1>13
  <2>8. Restores(u, h, r, E)
    BY <2>1, <2>3 DEF SerialInv, RawInv
  <2>9. Covers(h, r)'
    BY <2>5, <2>7, <2>8, <1>11 DEF Restores
  <2>10. h < next_timestamp'
    BY <2>5, <2>8, <1>0, <1>2 DEF Restores
  <2>11. \A v \in Txn : Uncommitted(v)' /\ h = start_ts'[v] =>
            committed'[r] = <<>> \/ (v = u /\ r \in E)
    BY <2>7, <2>8, <1>2, <1>4 DEF Restores
  <2>12. Restores(u, h, r, E)'
    BY <2>9, <2>10, <2>11 DEF Restores
  <2>13. h = write_set'[u][i].raw.ts /\ r = write_set'[u][i].rid /\ E = Before(u, i)'
    BY <2>3, <1>1, <1>4
  <2> QED BY <2>12, <2>13 DEF Restores, Covers, NotAfter
<1>17. NoLostUpdate'
  <2> SUFFICES ASSUME NEW r \in Rid, NEW i \in DOMAIN committed'[r], NEW j \in DOMAIN committed'[r],
                      i < j, ~committed'[r][j].insert
               PROVE  committed'[r][i].ts < committed'[r][j].start
    BY DEF NoLostUpdate
  <2>1. CASE r \notin DOMAIN mine[t]
    BY <2>1, <1>7 DEF SerialInv, NoLostUpdate
  <2>2. CASE r \in DOMAIN mine[t] /\ j # Len(committed[r]) + 1
    <3>1. j \in DOMAIN committed[r] /\ j <= Len(committed[r]) /\ committed'[r][j] = committed[r][j]
      BY <2>2, <1>8a
    <3>2. i # Len(committed[r]) + 1
      <4>1. Len(committed[r]) \in Nat /\ DOMAIN committed'[r] = 1 .. (Len(committed[r]) + 1)
        BY <2>2, <1>8
      <4>2. i \in Int /\ j \in Int
        BY <4>1
      <4> QED BY <4>1, <4>2, <3>1
    <3>3. i \in DOMAIN committed[r] /\ committed'[r][i] = committed[r][i]
      BY <2>2, <3>2, <1>8a
    <3> QED BY <3>1, <3>3 DEF SerialInv, NoLostUpdate
  <2>3. CASE r \in DOMAIN mine[t] /\ j = Len(committed[r]) + 1
    <3>1. i \in DOMAIN committed[r]
      <4>1. Len(committed[r]) \in Nat /\ DOMAIN committed'[r] = 1 .. (Len(committed[r]) + 1)
        BY <2>3, <1>8
      <4>2. i # Len(committed[r]) + 1
        BY <2>3, <4>1
      <4> QED BY <2>3, <4>2, <1>8a
    <3>2. committed'[r][i] = committed[r][i] /\ committed'[r][j] = New(r)
      BY <2>3, <3>1, <1>8
    <3>3. New(r).insert = (r \notin Written(t)) /\ New(r).start = start_ts[t]
      BY <1>8b
    <3>4. r \in Written(t)
      BY <3>2, <3>3
    <3>5. Older(r, start_ts[t])
      BY <2>3, <3>4, <1>5
    <3> QED BY <3>1, <3>2, <3>3, <3>5 DEF Older
  <2> QED BY <2>1, <2>2, <2>3
<1> QED BY <1>9, <1>10, <1>12, <1>14, <1>15, <1>16, <1>17 DEF SerialInv

-----------------------------------------------------------------------------
\* A step of the code while the other sessions are quiet, or one that leaves
\* manager and rows alone.
LEMMA SerialStepOrSame ==
    ASSUME [SerialNext]_vars
    PROVE  \/ \E t \in Txn : OthersQuiet(t) /\ Step(t)
           \/ UNCHANGED <<mgrVars, rowVars>>
<1>1. CASE UNCHANGED vars
  BY <1>1 DEF vars
<1>2. CASE SerialNext
  BY <1>2 DEF SerialNext, OthersQuiet, Session, Run, DeleteTxn, ReadFreed
<1> QED BY <1>1, <1>2

LEMMA SerialStep ==
    ASSUME SerialInv, [SerialNext]_vars
    PROVE  SerialInv'
<1>1. ChainInv'
  <2>1. [Next]_vars
    BY DEF SerialNext, Next
  <2> QED BY <2>1, ChainStep DEF SerialInv
<1>2. ASSUME NEW t \in Txn, OthersQuiet(t), Step(t) PROVE SerialInv'
  <2>1. ASSUME NEW rid \in Rid, UpdateStart(t, rid) \/ DeleteStart(t, rid) PROVE SerialInv'
    BY <1>1, <2>1, SerialStart DEF UpdateStart, DeleteStart
  <2>2. CASE Statement(t)
    BY <1>1, <1>2, <2>1, <2>2, SerialInsertChoose, SerialInsertWrite, SerialInsertLink,
       SerialReadConflict, SerialCheckRow, SerialReadRow, SerialReadRaw, SerialWriteRow,
       SerialLinkRow DEF Statement
  <2> QED BY <1>1, <1>2, <2>2, SerialBegin, SerialCommit, SerialAbort, SerialManager,
             SerialAbortUndo DEF Step
<1>3. CASE UNCHANGED <<mgrVars, rowVars>>
  <2>1. GhostTypes' /\ Phases' /\ HeapInv' /\ MineInv' /\ NoLostUpdate'
    BY <1>3 DEF SerialInv, GhostTypes, Phases, HeapInv, MineInv, NoLostUpdate, mgrVars, rowVars,
       Uncommitted, Begun, Covers, NotAfter, Older, Wrote, Written, Linking
  <2>2. StatementInv' /\ RawInv'
    BY <1>3 DEF SerialInv, StatementInv, RawInv, mgrVars, rowVars, Uncommitted, Begun,
       Covers, NotAfter, Older, Written, Checked, Clear, Restores, Before
  <2> QED BY <1>1, <2>1, <2>2 DEF SerialInv
<1> QED BY <1>2, <1>3, SerialStepOrSame

LEMMA SerialInit == Init => SerialInv
<1> SUFFICES ASSUME Init PROVE SerialInv
  OBVIOUS
<1>1. ChainInv
  BY FirstInit
<1>2. GhostTypes
  <2>1. <<>> \in PartialRows
    <3>1. <<>> \in [{} -> Vals]
      OBVIOUS
    <3> QED BY <3>1 DEF PartialRows
  <2> QED BY <2>1 DEF Init, RowInit, GhostTypes
<1>3. Phases
  BY DdlTxnAssumption DEF Init, RowInit, Phases, Idle, Uncommitted, Begun, INVALID_TS
<1>4. \A t \in Txn : \A r : ~Wrote(t, r) /\ Written(t) = {} /\ DOMAIN mine[t] = {} /\ job[t].at = "idle"
  BY DEF Init, RowInit, Wrote, Written, Linking, Idle
<1>5. HeapInv
  BY DEF Init, HeapInv, FreeSlot, Covers
<1>6. MineInv
  BY <1>4 DEF MineInv
<1>7. StatementInv
  BY <1>4 DEF StatementInv, Checked
<1>8. RawInv
  BY <1>4 DEF RawInv, Init, RowInit
<1>9. NoLostUpdate
  BY DEF Init, NoLostUpdate
<1> QED BY <1>1, <1>2, <1>3, <1>5, <1>6, <1>7, <1>8, <1>9 DEF SerialInv

(***************************************************************************)
(* First committer wins when no two calls overlap: a transaction that      *)
(* commits an update or a deletion began after every earlier version of    *)
(* the row had committed.  CheckWriteWriteConflict sees the timestamp in   *)
(* the heap alone; that is enough, whatever was updated, deleted,          *)
(* committed and rolled back before.                                       *)
(***************************************************************************)
THEOREM FirstCommitterWins == SerialSpec => []NoLostUpdate
<1>1. SerialInv /\ [SerialNext]_vars => SerialInv'
  BY SerialStep
<1>2. SerialInv => NoLostUpdate
  BY DEF SerialInv
<1> QED BY <1>1, <1>2, SerialInit, PTL DEF SerialSpec
=============================================================================
