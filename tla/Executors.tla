----------------------------- MODULE Executors -----------------------------
(***************************************************************************)
(* The executors of a SELECT (execution/*.h), as iterators.  Portal makes  *)
(* an executor of each plan node; Begin, Step, End and Fetch are           *)
(* beginTuple, nextTuple, is_end and Next.  Fetch returns the executor     *)
(* after the call and the record, Null for a null pointer.                 *)
(*                                                                         *)
(* db.rows[t] is the sequence of the records in the file of table t and    *)
(* db.live[t] the set of those the transaction sees: a record that was     *)
(* deleted keeps its slot.  db.entries[t] has for each index of the table  *)
(* the set of its entries, [key, rid]; a deleted record keeps these too.   *)
(***************************************************************************)
EXTENDS Planner

Null == <<>>

\* The value a scan, or a filter, compares with: FLOAT columns use the converted
\* literal, the others its raw bytes, which an index scan makes anew.
RhsValue(kind, cond, type) ==
    IF kind = "IndexScan" \/ type = "FLOAT" THEN cond.rhs.v ELSE Reread(cond.raw.v, cond.raw.type, type)

\* eval_cond of the scans and the filter: TRUE, FALSE, or the error of get_col.
eval_cond(kind, cols, row, c) ==
    LET l == get_col(cols, c.lhs)
        r == IF IsVal(c.rhs) THEN l ELSE get_col(cols, c.rhs)
    IN  IF l = 0 \/ r = 0 THEN "ColumnNotFound"
        ELSE IF Holds(c.op, row[l], IF IsVal(c.rhs) THEN RhsValue(kind, c, cols[l].type)
                                    ELSE Reread(row[r], cols[r].type, cols[l].type))
        THEN "true" ELSE "false"
\* The conditions are met in order, and the first that is not true decides.
eval_conds(kind, cols, row, conds) ==
    LET at == {i \in DOMAIN conds : eval_cond(kind, cols, row, conds[i]) # "true"}
    IN  IF at = {} THEN "true" ELSE eval_cond(kind, cols, row, conds[Min(at)])

-----------------------------------------------------------------------------
(***************************************************************************)
(* The bounds of an index scan.  A key is one value per index column; Low  *)
(* and High are the least and the greatest value, and what is never set is *)
(* whatever the memory holds (junk).                                       *)
(***************************************************************************)
Low == -1000000000
High == 1000000000

\* IndexScanExecutor: the first index that starts with the chosen columns.
IndexNo(db, plan) == Min({i \in DOMAIN db.index[plan.tab] : IsPrefix(plan.icols, db.index[plan.tab][i])})
ScanIndex(db, plan) == db.index[plan.tab][IndexNo(db, plan)]

\* The first condition on a constant of each index column; a column without one,
\* or with a range, is the last looked at.
CondOn(conds, col) == SelectSeq(conds, LAMBDA c : IsVal(c.rhs) /\ c.lhs.col = col)
LookedAt(index, conds) ==
    LET ends(i) == CondOn(conds, index[i]) = <<>> \/ CondOn(conds, index[i])[1].op \in {"<", "<=", ">", ">="}
    IN  {i \in DOMAIN index : CondOn(conds, index[i]) # <<>> /\ \A j \in 1..i - 1 : ~ends(j)}
Set(index, conds, ops) ==
    {i \in LookedAt(index, conds) : CondOn(conds, index[i])[1].op \in ops}

\* Columns from the number of lower bounds on get the extreme values, in both keys.
Bounds(index, conds, junk) ==
    LET lower == Set(index, conds, {"=", ">", ">="})
        upper == Set(index, conds, {"=", "<", "<="})
        v(i) == CondOn(conds, index[i])[1].rhs.v
        filled(i) == i > Cardinality(lower)
    IN  [lower |-> lower, upper |-> upper,
         start |-> [i \in DOMAIN index |-> CASE filled(i) -> Low
                                             [] ~filled(i) /\ i \in lower -> v(i)
                                             [] OTHER -> junk],
         end |-> [i \in DOMAIN index |-> CASE filled(i) -> High
                                           [] ~filled(i) /\ i \in upper -> v(i)
                                           [] OTHER -> junk]]

KeyOf(tab, index, row) == [i \in DOMAIN index |-> row[get_col(ColsOf(tab), TabCol(tab, index[i]))]]
KeyLess(k, m) == \E i \in DOMAIN k : k[i] < m[i] /\ \A j \in 1..i - 1 : k[j] = m[j]

\* The entries of the index in the order of their keys, and of a piece of them the
\* records a scan shows: those it cannot see it passes over.
EntrySeq(db, plan) ==
    SetToSortSeq(db.entries[plan.tab][IndexNo(db, plan)], LAMBDA e, f : KeyLess(e.key, f.key))
VisibleRids(db, plan, entries) ==
    SelectSeq([i \in DOMAIN entries |-> entries[i].rid], LAMBDA rid : rid \in db.live[plan.tab])

\* Mutant: the scan starts behind its lower bound.
IndexRange_after(db, plan, junk) ==
    LET order == EntrySeq(db, plan)
        b == Bounds(ScanIndex(db, plan), plan.conds, junk)
        n == Len(order)
        from == Min({i \in 1..n : b.lower = {} \/ KeyLess(b.start, order[i].key)} \cup {n + 1})
    IN  [rids |-> VisibleRids(db, plan, SubSeq(order, from, n)),
         err |-> IF b.lower # {} /\ from = n + 1 THEN "IndexEntryNotFound" ELSE None]

\* The records in the range, in key order, and whether the scan starts behind the
\* last entry: then its first rid() throws.
IndexRange(db, plan, junk) ==
    LET order == EntrySeq(db, plan)
        b == Bounds(ScanIndex(db, plan), plan.conds, junk)
        n == Len(order)
        from == Min({i \in 1..n : b.lower = {} \/ ~KeyLess(order[i].key, b.start)} \cup {n + 1})
        to == Min({i \in 1..n : b.upper # {} /\ KeyLess(b.end, order[i].key)} \cup {n + 1})
    IN  [rids |-> VisibleRids(db, plan, SubSeq(order, from, IF to >= from THEN to - 1 ELSE n)),
         err |-> IF b.lower # {} /\ from = n + 1 THEN "IndexEntryNotFound" ELSE None]
-----------------------------------------------------------------------------
(***************************************************************************)
(* Portal::convert_plan_executor.  err is set by a constructor that throws,*)
(* and by any call that does; it is copied from child to parent.           *)
(***************************************************************************)
Missing(cols, cs) == IF \E i \in DOMAIN cs : get_col(cols, cs[i]) = 0 THEN "ColumnNotFound" ELSE None

ScanOver(db, p, range) ==
    LET alien == p.tag = "IndexScan" /\ \E c \in Range(p.conds) :
                     c.lhs.tab # p.tab /\ ~(IsCol(c.rhs) /\ c.rhs.tab = p.tab)
    IN  [op |-> "scan", tag |-> p.tag, cols |-> ColsOf(p.tab), conds |-> p.conds, rids |-> range.rids,
         rows |-> [i \in DOMAIN range.rids |-> db.rows[p.tab][range.rids[i]]], pos |-> 1,
         starterr |-> range.err, err |-> IF alien THEN "Abort" ELSE None]
ScanExec(db, p, junk) ==
    ScanOver(db, p, IF p.tag = "IndexScan" THEN IndexRange(db, p, junk)
                    ELSE [rids |-> SetToSortSeq(db.live[p.tab], <), err |-> None])

\* The type of an aggregate's column.
AggMeta(cols, agg) ==
    LET type == CASE agg.fn = "COUNT" -> "INT" [] agg.fn = "AVG" -> "FLOAT"
                  [] OTHER -> cols[get_col(cols, agg.arg)].type
        c == AggCol(agg)
    IN  [tab |-> c.tab, col |-> c.col, fn |-> c.fn, type |-> type, len |-> 4]

Projected(cols, cs) ==
    [i \in DOMAIN cs |-> [cols[get_col(cols, cs[i])] EXCEPT !.col = cs[i].col]]
Positions(cols, cs) == [i \in DOMAIN cs |-> get_col(cols, cs[i])]
AggArgs(aggs) == SelectSeq([i \in DOMAIN aggs |-> aggs[i].arg], LAMBDA c : c.col # None)
TypedArgs(aggs) == SelectSeq(aggs, LAMBDA a : a.fn \notin {"COUNT", "AVG"})

\* The executor of a plan.  No LIMIT is handed to the projection.
RECURSIVE convert_plan_executor(_, _, _)
convert_plan_executor(db, p, junk) ==
    LET sub == convert_plan_executor(db, p.sub, junk)
        left == convert_plan_executor(db, p.left, junk)
        right == convert_plan_executor(db, p.right, junk)
        made(e, err) == e @@ [err |-> IF sub.err # None THEN sub.err ELSE err]
    IN  CASE p.node = "Scan" -> ScanExec(db, p, junk)
          [] p.node = "Filter" ->
               made([op |-> "filter", sub |-> sub, cols |-> sub.cols, conds |-> p.conds], None)
          [] p.node = "Join" ->
               [op |-> "join", left |-> left, right |-> right, cols |-> left.cols \o right.cols,
                conds |-> p.conds, ltup |-> Null, tup |-> Null, isend |-> FALSE,
                err |-> FirstError(<<left.err, right.err>>)]
          [] p.node = "Project" ->
               LET err == FirstError(<<sub.err, Missing(sub.cols, p.cols)>>)
               IN  [op |-> "project", sub |-> sub, err |-> err,
                    cols |-> IF err # None THEN <<>> ELSE Projected(sub.cols, p.cols),
                    at |-> Positions(sub.cols, p.cols)]
          [] p.node = "Sort" ->
               LET size == IF Len(p.cols) # Len(p.desc) THEN "Internal" ELSE None
               IN  made([op |-> "sort", sub |-> sub, cols |-> sub.cols, at |-> Positions(sub.cols, p.cols),
                         desc |-> p.desc, limit |-> p.limit, out |-> <<>>, idx |-> 1, init |-> FALSE],
                        FirstError(<<size, Missing(sub.cols, p.cols)>>))
          [] p.node = "Agg" ->
               LET args == [i \in DOMAIN TypedArgs(p.aggs) |-> TypedArgs(p.aggs)[i].arg]
                   err == FirstError(<<sub.err, Missing(sub.cols, p.group), Missing(sub.cols, args)>>)
               IN  [op |-> "agg", sub |-> sub, err |-> err, plan |-> p, out |-> <<>>, idx |-> 1,
                    init |-> FALSE,
                    cols |-> IF err # None THEN <<>>
                             ELSE Projected(sub.cols, p.group)
                                  \o [i \in DOMAIN p.aggs |-> AggMeta(sub.cols, p.aggs[i])]]
-----------------------------------------------------------------------------
(***************************************************************************)
(* The groups of AggregationExecutor.                                      *)
(***************************************************************************)
Values(cols, rows, c) == [i \in DOMAIN rows |-> rows[i][get_col(cols, c)]]
SumOf(vs) == FoldLeft(LAMBDA x, y : x + y, 0, vs)

\* update_agg_state over the rows of a group, and the average made at the end:
\* of strings MAX, MIN and SUM keep the last; no rows give zero.
AggValue(cols, rows, agg) ==
    LET type == IF agg.arg.col = None THEN "INT" ELSE cols[get_col(cols, agg.arg)].type
        vs == Values(cols, rows, agg.arg)
    IN  CASE agg.arg.col = None -> Val("INT", Len(rows))
          [] agg.arg.col # None /\ agg.fn = "COUNT" ->
               Val("INT", Len(SelectSeq(vs, LAMBDA v : type # "STRING" \/ v # 0)))
          [] agg.arg.col # None /\ agg.fn = "AVG" ->
               Val("FLOAT", IF rows = <<>> \/ type = "STRING" THEN 0
                            ELSE Cast(SumOf(vs), type, "FLOAT") \div Len(rows))
          [] OTHER -> IF rows = <<>> THEN Val("INT", 0)
                      ELSE Val(type, CASE type = "STRING" -> Last(vs)
                                       [] type # "STRING" /\ agg.fn = "MAX" -> Max(Range(vs))
                                       [] type # "STRING" /\ agg.fn = "MIN" -> Min(Range(vs))
                                       [] OTHER -> SumOf(vs))

\* evaluate_having.  An aggregate that is not in the select list is 0, and the
\* table of its column is not looked at.
HavingValue(p, result, x) ==
    CASE IsVal(x) -> Val(x.type, x.v)
      [] IsAgg(x) ->
           LET at == {i \in DOMAIN p.aggs : p.aggs[i].fn = x.fn /\ p.aggs[i].arg.col = x.arg.col}
           IN  IF x.arg.col = None THEN Val("INT", result.count)
               ELSE IF at # {} THEN result.aggs[Min(at)]
               ELSE Val(IF x.fn = "AVG" THEN "FLOAT" ELSE "INT", 0)
      [] OTHER -> IF Grouped(x, p.group) THEN result.key[get_col(p.group, x)] ELSE Val("INT", 0)
HavingHolds(p, result, c) ==
    LET l == HavingValue(p, result, c.lhs)
        r == HavingValue(p, result, c.rhs)
    IN  IF l.type = r.type THEN Holds(c.op, l.v, r.v)
        ELSE /\ "STRING" \notin {l.type, r.type}
             /\ Holds(c.op, Cast(l.v, l.type, "FLOAT"), Cast(r.v, r.type, "FLOAT"))
evaluate_having(p, result) == \A i \in DOMAIN p.having : HavingHolds(p, result, p.having[i])

\* The ORDER BY of groups takes the direction, which is TRUE for DESC, for
\* is_asc; a column that is neither grouped nor the alias of an aggregate is skipped.
OrderValue(p, result, o) ==
    LET named == {i \in DOMAIN p.aggs : p.aggs[i].alias = o.col.col}
    IN  IF o.is_agg THEN result.aggs[Min(named)].v
        ELSE IF Grouped(o.col, p.group) THEN result.key[get_col(p.group, o.col)].v ELSE 0
Precedes(k, m, desc) ==
    \E i \in DOMAIN k : /\ \A j \in 1..i - 1 : k[j] = m[j]
                        /\ IF desc[i] THEN k[i] > m[i] ELSE k[i] < m[i]
\* s sorted by the keys of its members; equal keys keep the order they came in, as
\* they do in std::sort of up to sixteen elements.
SortedBy(s, keys, desc) ==
    LET order == SetToSortSeq(DOMAIN s, LAMBDA i, j : \/ Precedes(keys[i], keys[j], desc)
                                                      \/ keys[i] = keys[j] /\ i < j)
    IN  [i \in DOMAIN s |-> s[order[i]]]
Limited(s, limit) == IF limit > 0 /\ Len(s) > limit THEN SubSeq(s, 1, limit) ELSE s

\* compute_final_results.  Without rows there is one group, called global,
\* whose key is parsed like any other: as a string it has six letters.
GlobalKey == 6
compute_final_results(p, cols, rows) ==
    LET at == Positions(cols, p.group)
        keyof(row) == [i \in DOMAIN at |-> row[at[i]]]
        keys == IF rows = <<>> THEN {IF at = <<>> THEN <<>> ELSE <<GlobalKey>>}
                ELSE {keyof(rows[i]) : i \in DOMAIN rows}
        sorted == SetToSortSeq(keys, LAMBDA k, m : KeyLess(k, m))
        of(k) == IF rows = <<>> THEN <<>> ELSE SelectSeq(rows, LAMBDA row : keyof(row) = k)
        result(k) == [key |-> [i \in DOMAIN k |-> Val(cols[at[i]].type, k[i])], count |-> Len(of(k)),
                      aggs |-> [i \in DOMAIN p.aggs |-> AggValue(cols, of(k), p.aggs[i])]]
        kept == SelectSeq([i \in DOMAIN sorted |-> result(sorted[i])],
                          LAMBDA g : evaluate_having(p, g))
        order == [n \in DOMAIN kept |-> [i \in DOMAIN p.order |-> OrderValue(p, kept[n], p.order[i])]]
        reversed == [i \in DOMAIN p.desc |-> ~p.desc[i]]
    IN  Limited(SortedBy(kept, order, reversed), p.limit)
\* AggregationExecutor::Next: a string is cut to the length of its column.
AggRow(cols, g) ==
    [i \in DOMAIN g.key |-> IF cols[i].type = "STRING" THEN Min({g.key[i].v, cols[i].len}) ELSE g.key[i].v]
    \o [i \in DOMAIN g.aggs |-> g.aggs[i].v]
AggErr(p, cols, rows) ==
    CASE rows = <<>> -> IF p.group # <<>> /\ cols[get_col(cols, p.group[1])].type # "STRING"
                        THEN "Terminate" ELSE None
      [] OTHER -> Missing(cols, AggArgs(p.aggs))
-----------------------------------------------------------------------------
(***************************************************************************)
(* The iterators.                                                          *)
(***************************************************************************)
Got(e, rec) == [e |-> e, rec |-> rec]
With(e, sub) == [e EXCEPT !.sub = sub, !.err = sub.err]

\* A scan stops at the next row its conditions do not reject.
Seek(e, from) ==
    LET verdict(i) == eval_conds(e.tag, e.cols, e.rows[i], e.conds)
        pos == Min({i \in from..Len(e.rows) : verdict(i) # "false"} \cup {Len(e.rows) + 1})
    IN  [e EXCEPT !.pos = pos,
                  !.err = IF pos <= Len(e.rows) /\ verdict(pos) # "true" THEN verdict(pos) ELSE None]
ScanBegin(e) == IF e.starterr # None THEN [e EXCEPT !.err = e.starterr] ELSE Seek(e, 1)

\* NestedLoopJoinExecutor::satisfyConditions: a condition with a column on
\* neither side is passed over.
satisfyConditions(e, row) ==
    \A i \in DOMAIN e.conds :
        LET l == get_col(e.cols, e.conds[i].lhs)
            r == get_col(e.cols, e.conds[i].rhs)
        IN  l = 0 \/ r = 0 \/ Holds(e.conds[i].op, row[l], Reread(row[r], e.cols[r].type, e.cols[l].type))

\* The virtual methods of AbstractExecutor, called on the children of an executor.
RECURSIVE Call(_, _)
Begin(e) == Call("beginTuple", e)
Step(e) == Call("nextTuple", e)
Fetch(e) == Call("Next", e)

RECURSIVE End(_)
End(e) == CASE e.op = "scan" -> e.pos > Len(e.rows)
            [] e.op \in {"filter", "project"} -> End(e.sub)
            [] e.op = "join" -> e.isend
            [] OTHER -> e.init /\ e.idx > Len(e.out)

\* FilterExecutor::nextTuple.
RECURSIVE FilterStep(_)
FilterStep(e) ==
    LET s == Step(e.sub)
        got == Fetch(s)
        verdict == eval_conds("SeqScan", e.cols, got.rec, e.conds)
    IN  IF s.err # None \/ End(s) THEN With(e, s)
        ELSE IF got.e.err # None THEN With(e, got.e)
        ELSE IF got.rec = Null \/ verdict = "false" THEN FilterStep(With(e, got.e))
        ELSE [With(e, got.e) EXCEPT !.err = IF verdict = "true" THEN None ELSE verdict]

\* NestedLoopJoinExecutor::nextTuple.  A null record on either side is followed.
RECURSIVE NljNext(_)
NljNext(e) ==
    LET got == Fetch(e.right)
        right == Step(got.e)
        next == Step(e.left)
        left == Fetch(next)
        inner == Begin(e.right)
    IN  IF e.err # None THEN e
        ELSE IF ~End(e.right) THEN
             IF got.e.err # None \/ right.err # None
             THEN [e EXCEPT !.err = FirstError(<<got.e.err, right.err>>)]
             ELSE IF e.ltup = Null \/ got.rec = Null THEN [e EXCEPT !.err = "Segfault"]
             ELSE IF satisfyConditions(e, e.ltup \o got.rec)
                  THEN [e EXCEPT !.right = right, !.tup = e.ltup \o got.rec]
             ELSE NljNext([e EXCEPT !.right = right])
        ELSE IF next.err # None THEN [e EXCEPT !.err = next.err]
        ELSE IF End(next) THEN [e EXCEPT !.left = next, !.isend = TRUE]
        ELSE NljNext([e EXCEPT !.left = left.e, !.ltup = left.rec, !.right = inner,
                               !.err = FirstError(<<left.e.err, inner.err>>)])
\* Mutant: an empty left side is not looked for.
NljBegin_empty(e) ==
    LET left == Begin(e.left)
        got == Fetch(left)
        right == Begin(e.right)
    IN  IF left.err # None THEN [e EXCEPT !.err = left.err]
        ELSE NljNext([e EXCEPT !.left = got.e, !.ltup = got.rec, !.right = right,
                               !.err = FirstError(<<got.e.err, right.err>>)])
NljBegin(e) ==
    LET left == Begin(e.left)
        got == Fetch(left)
        right == Begin(e.right)
    IN  IF left.err # None THEN [e EXCEPT !.err = left.err]
        ELSE IF End(left) THEN [e EXCEPT !.left = left, !.isend = TRUE]
        ELSE NljNext([e EXCEPT !.left = got.e, !.ltup = got.rec, !.right = right,
                               !.err = FirstError(<<got.e.err, right.err>>)])

\* What perform_sort and compute_final_results collect: all records, or those
\* before the first null one.
RECURSIVE Drain(_, _, _)
Drain(e, rows, stop) ==
    LET got == Fetch(e)
    IN  IF e.err # None \/ End(e) THEN [err |-> e.err, rows |-> rows]
        ELSE IF got.e.err # None THEN [err |-> got.e.err, rows |-> rows]
        ELSE IF got.rec # Null THEN Drain(Step(got.e), Append(rows, got.rec), stop)
        ELSE IF stop THEN [err |-> None, rows |-> rows]
        ELSE Drain(Step(got.e), rows, stop)

perform_sort(e) ==
    LET d == Drain(Begin(e.sub), <<>>, FALSE)
        keys == [n \in DOMAIN d.rows |-> [i \in DOMAIN e.at |-> d.rows[n][e.at[i]]]]
    IN  [e EXCEPT !.init = TRUE, !.err = d.err, !.out = Limited(SortedBy(d.rows, keys, e.desc), e.limit)]
AggCompute(e) ==
    LET d == Drain(Begin(e.sub), <<>>, TRUE)
        err == IF d.err # None THEN d.err ELSE AggErr(e.plan, e.sub.cols, d.rows)
        groups == compute_final_results(e.plan, e.sub.cols, d.rows)
    IN  [e EXCEPT !.init = TRUE, !.err = err,
                  !.out = IF err # None THEN <<>> ELSE [i \in DOMAIN groups |-> AggRow(e.cols, groups[i])]]

beginTuple(e) ==
    CASE e.op = "scan" -> ScanBegin(e)
      [] e.op \in {"filter", "project"} -> With(e, Begin(e.sub))
      [] e.op = "join" -> NljBegin(e)
      [] OTHER -> [With(e, Begin(e.sub)) EXCEPT !.idx = 1, !.init = FALSE]

nextTuple(e) ==
    CASE e.op = "scan" -> IF End(e) THEN e ELSE Seek(e, e.pos + 1)
      [] e.op = "filter" -> FilterStep(e)
      [] e.op = "project" -> With(e, Step(e.sub))
      [] e.op = "join" -> NljNext(e)
      [] e.op = "sort" -> IF e.init THEN e ELSE perform_sort(e)
      [] e.op = "agg" -> IF e.init THEN e ELSE AggCompute(e)

\* Next.  The record is moved out of a join, a sort and an aggregation.
NextRecord(e) ==
    CASE e.op = "scan" -> Got(e, IF End(e) THEN Null ELSE e.rows[e.pos])
      [] e.op = "filter" ->
           LET got == Fetch(e.sub)
               verdict == eval_conds("SeqScan", e.cols, got.rec, e.conds)
               next == FilterStep(With(e, got.e))
               again == Fetch(next.sub)
           IN  IF got.e.err # None \/ got.rec = Null THEN Got(With(e, got.e), Null)
               ELSE IF verdict = "true" THEN Got(With(e, got.e), got.rec)
               ELSE IF verdict # "false" THEN Got([e EXCEPT !.err = verdict], Null)
               ELSE IF next.err # None \/ End(next) THEN Got(next, Null)
               ELSE Got(With(next, again.e), again.rec)
      [] e.op = "project" ->
           LET got == Fetch(e.sub)
           IN  IF End(e.sub) THEN Got(e, Null)
               ELSE IF got.rec = Null THEN Got(With(e, got.e), Null)
               ELSE Got(With(e, got.e), [i \in DOMAIN e.at |-> got.rec[e.at[i]]])
      [] e.op = "join" -> Got([e EXCEPT !.tup = Null], e.tup)
      [] OTHER ->
           LET s == IF e.op = "sort" /\ ~e.init THEN perform_sort(e) ELSE e
           IN  IF s.err # None \/ s.idx > Len(s.out) THEN Got(s, Null)
               ELSE Got([s EXCEPT !.idx = @ + 1], s.out[s.idx])

Call(method, e) == CASE method = "beginTuple" -> beginTuple(e)
                     [] method = "nextTuple" -> nextTuple(e)
                     [] method = "Next" -> NextRecord(e)
-----------------------------------------------------------------------------
(***************************************************************************)
(* UPDATE, DELETE and INSERT.  Their results are [db, err].                *)
(***************************************************************************)
\* UpdateExecutor scans the file itself, the deleted records too: a FLOAT column is
\* compared with the raw bytes, and a condition between columns holds of no row.
UpdateCond(cols, row, c) ==
    LET l == get_col(cols, c.lhs)
    IN  IsVal(c.rhs) /\ l # 0 /\ Holds(c.op, row[l], Reread(c.raw.v, c.raw.type, cols[l].type))
UpdateRids(db, p) ==
    SelectSeq([i \in DOMAIN db.rows[p.tab] |-> i],
              LAMBDA i : \A j \in DOMAIN p.conds : UpdateCond(ColsOf(p.tab), db.rows[p.tab][i], p.conds[j]))

\* The SET clauses, each computed from the row as it was.
SetOne(cols, old, acc, at, val) ==
    LET err == CASE val.err # None -> val.err
                 [] val.err = None /\ ~Convertible(val.type, cols[at].type) -> "IncompatibleType"
                 [] OTHER -> init_raw([val EXCEPT !.type = cols[at].type,
                                                  !.v = Cast(val.v, val.type, cols[at].type)], cols[at].len)
    IN  IF acc.err # None THEN acc
        ELSE IF at = 0 THEN [acc EXCEPT !.err = "ColumnNotFound"]
        ELSE IF err # None THEN [acc EXCEPT !.err = err]
        ELSE [acc EXCEPT !.row[at] = Cast(val.v, val.type, cols[at].type)]
\* Mutant: a clause sees what the clauses before it have set.
NewRow_running(tab, old, sets) ==
    LET cols == ColsOf(tab)
    IN  FoldLeft(LAMBDA acc, set : SetOne(cols, old, acc, get_col(cols, TabCol(tab, set.col)),
                                          evaluate_expr(set.rhs, acc.row, cols)),
                 [row |-> old, err |-> None], sets)
NewRow(tab, old, sets) ==
    LET cols == ColsOf(tab)
    IN  FoldLeft(LAMBDA acc, set : SetOne(cols, old, acc, get_col(cols, TabCol(tab, set.col)),
                                          evaluate_expr(set.rhs, old, cols)),
                 [row |-> old, err |-> None], sets)

\* IxIndexHandle: get_value, delete_entry and insert_entry on the entries of an index.
HasKey(entries, key) == \E e \in entries : e.key = key
Moved(entries, old, new, rid) ==
    IF old = new THEN entries
    ELSE {e \in entries : e.key # old} \cup {[key |-> new, rid |-> rid]}

\* One record of an UPDATE: the rows before it are already written when it fails.
\* A deleted one is taken for a conflict with a concurrent transaction.
UpdateRow(db, p, i) ==
    LET old == db.rows[p.tab][i]
        new == NewRow(p.tab, old, p.sets)
        index(n) == db.index[p.tab][n]
        key(n, row) == KeyOf(p.tab, index(n), row)
        taken == \E n \in DOMAIN db.index[p.tab] :
                    /\ key(n, new.row) # key(n, old)
                    /\ HasKey(db.entries[p.tab][n], key(n, new.row))
        err == IF i \notin db.live[p.tab] THEN "TransactionAbort"
               ELSE IF new.err # None THEN new.err
               ELSE IF taken THEN "UniqueIndexViolation" ELSE None
    IN  [db |-> IF err # None THEN db
                ELSE [db EXCEPT !.rows[p.tab][i] = new.row,
                                !.entries[p.tab] = [n \in DOMAIN @ |->
                                    Moved(@[n], key(n, old), key(n, new.row), i)]],
         err |-> err]
\* TransactionManager::abort puts the old records of the statement back, and leaves
\* the indexes as they are.
RollBack(db, old, tab) == [db EXCEPT !.rows[tab] = old.rows[tab]]

\* Portal::start collects what the scan of a DELETE finds.
RECURSIVE DrainRids(_, _)
DrainRids(e, rids) == IF e.err # None \/ End(e) THEN [err |-> e.err, rids |-> rids]
                      ELSE DrainRids(Step(e), Append(rids, e.rids[e.pos]))
FoundBy(scan) == DrainRids(IF scan.err # None THEN scan ELSE Begin(scan), <<>>)
\* DeleteExecutor marks the records, once each; the entries of the indexes stay, also
\* when the transaction commits.
DeleteRows(db, p, rids) ==
    [db EXCEPT !.live[p.tab] = @ \ Range(rids), !.count[p.tab] = @ - Cardinality(Range(rids))]

\* InsertExecutor: the constructor, and Next.  The row is in the file, and
\* counted, before the index refuses its key; the row is taken back, the count not.
InsertErr(p) == CASE p.tab \notin DOMAIN Schema -> "TableNotFound"
                  [] Len(p.values) # Len(Schema[p.tab]) -> "InvalidValueCount"
                  [] OTHER -> None
ValueErr(col, val) == IF ~Convertible(val.type, col.type) THEN "IncompatibleType"
                      ELSE init_raw([val EXCEPT !.type = col.type, !.v = Cast(val.v, val.type, col.type)], col.len)
InsertRow(db, p) ==
    LET cols == Schema[p.tab]
        row == [i \in DOMAIN cols |-> Cast(p.values[i].v, p.values[i].type, cols[i].type)]
        rid == Len(db.rows[p.tab]) + 1
        values == FirstError([i \in DOMAIN cols |-> ValueErr(cols[i], p.values[i])])
        key(n) == KeyOf(p.tab, db.index[p.tab][n], row)
        single == SelectSeq(db.index[p.tab], LAMBDA index : Len(index) = 1)
        visible == \E i \in db.live[p.tab] :
                      KeyOf(p.tab, single[1], db.rows[p.tab][i]) = KeyOf(p.tab, single[1], row)
        taken == \E n \in DOMAIN db.index[p.tab] : HasKey(db.entries[p.tab][n], key(n))
        counted == [db EXCEPT !.count[p.tab] = @ + 1]
    IN  IF values # None THEN [db |-> db, err |-> values]
        ELSE IF single # <<>> /\ visible THEN [db |-> db, err |-> "Internal"]
        ELSE IF taken THEN [db |-> counted, err |-> "UniqueIndexViolation"]
        ELSE [db |-> [counted EXCEPT !.rows[p.tab] = Append(@, row), !.live[p.tab] = @ \cup {rid},
                                     !.entries[p.tab] = [n \in DOMAIN @ |->
                                         @[n] \cup {[key |-> key(n), rid |-> rid]}]],
              err |-> None]
=============================================================================
