---------------------------- MODULE QueryAnswers ----------------------------
(***************************************************************************)
(* What the statements of Query should answer: the textbook meaning of a   *)
(* statement, written over the parse tree and the tables alone, and the    *)
(* properties that compare the program with it.  Where the program is      *)
(* known to differ, a predicate says so, and the comparison leaves out     *)
(* exactly these statements.                                               *)
(***************************************************************************)
EXTENDS Query

\* The columns a name may stand for, among the tables of the statement.
From(s) == IF s.kind = "select" THEN Range(Tables(s)) ELSE {s.tab}
AliasOf(s) == IF s.kind = "select" THEN alias_to_table(s) ELSE NoAlias
Known(s) == From(s) \subseteq DOMAIN Schema
Unaliased(c, alias) == IF c.tab \in DOMAIN alias THEN alias[c.tab] ELSE c.tab
Places(tabs) == UNION {{<<t, i>> : i \in DOMAIN Schema[t]} : t \in tabs}
NameAt(tc) == Schema[tc[1]][tc[2]].col
Preferred(exact, split) == IF exact # {} THEN exact ELSE split
MeantIn(c, places) ==
    Preferred({tc \in places : NameAt(tc) = c.col},
              {tc \in places : c.col \in DOMAIN Prefixed /\ Prefixed[c.col] = <<tc[1], NameAt(tc)>>})
Meant(s, c) == MeantIn(c, Places(IF c.tab = None THEN From(s) ELSE From(s) \cap {Unaliased(c, AliasOf(s))}))
Clear(s, c) == Cardinality(Meant(s, c)) = 1
The(s, c) == CHOOSE tc \in Meant(s, c) : TRUE
TypeAt(tc) == Schema[tc[1]][tc[2]].type
TypeOf(s, c) == TypeAt(The(s, c))

\* WHERE and ON together, and the columns the statement names.
OnOf(s) == IF s.kind = "select" THEN FoldLeft(LAMBDA acc, j : acc \o j.conds, <<>>, s.joins) ELSE <<>>
AllConds(s) == Range(s.conds) \cup Range(OnOf(s))
CondCols(cs) == {c.lhs : c \in {d \in cs : IsCol(d.lhs)}} \cup {c.rhs : c \in {d \in cs : IsCol(d.rhs)}}
NamedCols(s) ==
    CondCols(AllConds(s))
    \cup (IF s.kind # "select" THEN {}
          ELSE Range(s.cols) \cup Range(s.group) \cup CondCols(Range(s.having))
               \cup {a.arg : a \in {b \in Range(s.aggs) : b.arg.col # None}}
               \cup {TabCol(o.tab, o.col) : o \in {p \in Range(s.order) :
                                                    \A a \in Range(s.aggs) : a.alias # p.col}})

-----------------------------------------------------------------------------
\* A combination takes a row of each table; rows are told apart by position.
Combos(s, d) == {f \in [From(s) -> UNION {d.live[t] : t \in From(s)}] :
                    \A t \in From(s) : f[t] \in d.live[t]}
ValueAt(d, f, tc) == Val(TypeAt(tc), d.rows[tc[1]][f[tc[1]]][tc[2]])
At(s, d, f, x) == IF IsVal(x) THEN Val(x.type, x.v) ELSE ValueAt(d, f, The(s, x))
Compare(op, l, r) == IF l.type = r.type THEN Holds(op, l.v, r.v)
                     ELSE Holds(op, Cast(l.v, l.type, "FLOAT"), Cast(r.v, r.type, "FLOAT"))
Satisfies(s, d, f, conds) ==
    \A c \in conds : Compare(c.op, At(s, d, f, c.lhs), At(s, d, f, c.rhs))
Selected(s, d) == {f \in Combos(s, d) : Satisfies(s, d, f, AllConds(s))}

Star(s) == s.cols = <<>> /\ s.aggs = <<>>
NamesOf(cols) == [i \in DOMAIN cols |-> TabCol(cols[i].tab, cols[i].col)]
ListCols(s) == IF Star(s) THEN NamesOf(get_all_cols(Tables(s))) ELSE s.cols
RowOf(s, d, f, cs) == [i \in DOMAIN cs |-> At(s, d, f, cs[i]).v]

\* The groups, and the value of an aggregate on one; there is no NULL, so an
\* aggregate of nothing is zero.
IsGrouped(s) == s.aggs # <<>> \/ s.group # <<>>
GroupsBy(s, key) == IF s.group = <<>> THEN {DOMAIN key}
                    ELSE {{f \in DOMAIN key : key[f] = k} : k \in Range(key)}
Groups(s, d) == GroupsBy(s, [f \in Selected(s, d) |-> RowOf(s, d, f, s.group)])
Total(v) == FoldFunction(+, 0, v)
AggOf(fn, type, v) ==
    CASE fn = "AVG"   -> Val("FLOAT", IF DOMAIN v = {} THEN 0
                                      ELSE Cast(Total(v), type, "FLOAT") \div Cardinality(DOMAIN v))
      [] fn = "SUM"   -> Val(type, Total(v))
      [] fn = "MAX"   -> Val(type, IF DOMAIN v = {} THEN 0 ELSE Max(Range(v)))
      [] fn = "MIN"   -> Val(type, IF DOMAIN v = {} THEN 0 ELSE Min(Range(v)))
Agg(s, d, g, a) == IF a.fn = "COUNT" THEN Val("INT", Cardinality(g))
                   ELSE AggOf(a.fn, TypeOf(s, a.arg), [f \in g |-> At(s, d, f, a.arg).v])
GroupAt(s, d, g, x) == IF IsAgg(x) THEN Agg(s, d, g, x) ELSE At(s, d, CHOOSE f \in g : TRUE, x)
Kept(s, d) == {g \in Groups(s, d) :
                  \A c \in Range(s.having) : Compare(c.op, GroupAt(s, d, g, c.lhs), GroupAt(s, d, g, c.rhs))}
GroupRow(s, d, g) == RowOf(s, d, CHOOSE f \in g : TRUE, s.group)
                     \o [i \in DOMAIN s.aggs |-> Agg(s, d, g, s.aggs[i]).v]

\* The answer: the combinations or groups it stands for, with the row of each.
Meaning(s, d) == IF IsGrouped(s) THEN [g \in Kept(s, d) |-> GroupRow(s, d, g)]
                 ELSE [f \in Selected(s, d) |-> RowOf(s, d, f, ListCols(s))]
\* How often the answer holds a row.
Times(answer, row) == Cardinality({x \in DOMAIN answer : answer[x] = row})
Count(rows, row) == Cardinality({i \in DOMAIN rows : rows[i] = row})

-----------------------------------------------------------------------------
(***************************************************************************)
(* Where the program is known to differ.                                   *)
(***************************************************************************)
\* A literal is compared by its bytes where its type is not the column's, two
\* columns always are.
SameTypes(s) == \A c \in AllConds(s) :
                   IF IsVal(c.rhs) THEN TypeOf(s, c.lhs) = c.rhs.type
                                        \/ (IsSelect /\ TypeOf(s, c.lhs) = "FLOAT")
                   ELSE TypeOf(s, c.lhs) = TypeOf(s, c.rhs)
TabOf(s, c) == The(s, c)[1]
\* With several tables a condition within one of them goes to the first.
NoneWithin(s) == Cardinality(From(s)) > 1 =>
                    \A c \in AllConds(s) : IsCol(c.rhs) => TabOf(s, c.lhs) # TabOf(s, c.rhs)
\* JOIN keeps of ON the qualified comparisons of two tables, of WHERE those with a literal.
JoinsPlainly(s) == s.joins # <<>> =>
                      /\ \A c \in Range(OnOf(s)) : IsCol(c.rhs) /\ c.lhs.tab # None /\ c.rhs.tab # None
                      /\ \A c \in Range(s.conds) : IsVal(c.rhs)
\* LIMIT is obeyed by the sort and the aggregation only, and not when it is zero.
LimitKept(s) == s.limit = -1 \/ (s.limit > 0 /\ (s.order # <<>> \/ IsGrouped(s)))
\* Grouping prints its columns first; an aggregate is known by function and
\* column name, and HAVING knows those of the select list.
GroupsPlainly(s) ==
    IsGrouped(s) =>
        /\ s.cols = s.group
        /\ \A a \in Range(s.aggs) : a.fn # "COUNT" => TypeOf(s, a.arg) # "STRING"
        /\ \A i, j \in DOMAIN s.aggs : AggCol(s.aggs[i]) = AggCol(s.aggs[j]) => i = j
        /\ \A c \in Range(s.having) : IsAgg(c.lhs) =>
              \/ c.lhs.arg.col = None
              \/ \E a \in Range(s.aggs) : a.fn = c.lhs.fn /\ a.arg = c.lhs.arg
\* GROUP BY over no rows makes a group called global.
NoGlobal(s, d) == s.group # <<>> => Selected(s, d) # {}
\* A key of an index scan has a column that was never set.
RECURSIVE IndexScans(_)
IndexScans(p) == CASE p.node = "Scan" -> IF p.tag = "IndexScan" THEN {p} ELSE {}
                   [] p.node = "Join" -> IndexScans(p.left) \cup IndexScans(p.right)
                   [] p.node = "Insert" -> {}
                   [] OTHER -> IndexScans(p.sub)
JunkUsed(d, p) == \E scan \in IndexScans(p) :
                     LET b(junk) == Bounds(ScanIndex(d, scan), scan.conds, junk)
                     IN  \/ b(0).lower # {} /\ b(0).start # b(1).start
                         \/ b(0).upper # {} /\ b(0).end # b(1).end

\* An index of a table on which an UPDATE was rolled back has lost the entries of the
\* rows that were put back.
Misfiled(p) == \E scan \in IndexScans(p) : scan.tab \in undone
Found(d, p) == ~JunkUsed(d, p) /\ ~Misfiled(p)

AllClear(s) == Known(s) /\ \A c \in NamedCols(s) : Clear(s, c)
Straight(s) == /\ AllClear(s) /\ SameTypes(s) /\ NoneWithin(s)
               /\ s.kind = "select" => JoinsPlainly(s) /\ LimitKept(s) /\ GroupsPlainly(s)
               /\ s.kind = "update" => \A c \in AllConds(s) : IsVal(c.rhs)
-----------------------------------------------------------------------------
Phases == {"idle", "parsed", "analyzed", "planned", "ready", "running", "writing",
           "done", "error", "dead"}
\* Types; an error is recorded exactly when the statement has ended in one, every
\* row has the columns of its table, and row_count stays a count.
QueryTypeOK == /\ phase \in Phases /\ writes \in 0..MaxWrites
               /\ (err # None) <=> phase \in {"error", "dead"}
               /\ err \in Errors \cup {None}
               /\ undone \subseteq DOMAIN Schema
               /\ \A t \in DOMAIN Schema : /\ db.live[t] \subseteq DOMAIN db.rows[t]
                                           /\ db.count[t] >= Cardinality(db.live[t])
                                           /\ \A r \in Range(db.rows[t]) : Len(r) = Len(Schema[t])

Answered(s) == phase = "done" /\ s # Null /\ s.kind = "select" /\ ~s.explain

\* A SELECT that is answered is answered right, through any plan: whatever the
\* indexes and the row counts are, the rows printed are those of the statement's
\* meaning, each as often (select_from over the executors planner.cpp chose).
AsMeant(rows, limit, answer) ==
    IF limit > 0 /\ limit < Cardinality(DOMAIN answer)
    THEN /\ Len(rows) = limit
         /\ \A row \in Range(rows) : Count(rows, row) <= Times(answer, row)
    ELSE /\ Len(rows) = Cardinality(DOMAIN answer)
         /\ \A row \in Range(rows) : Count(rows, row) = Times(answer, row)
RightRows == (Answered(stmt) /\ Straight(stmt) /\ NoGlobal(stmt, db) /\ Found(db, plan))
             => AsMeant(out, stmt.limit, Meaning(stmt, db))

\* ORDER BY without grouping (SortExecutor): the rows come in the order asked
\* for, and LIMIT leaves out none that comes before one it keeps.
FirstIn(at) == IF at = {} THEN 0 ELSE Min(at)
OrderAt(s) == [i \in DOMAIN s.order |->
                  FirstIn({j \in DOMAIN ListCols(s) :
                             The(s, ListCols(s)[j]) = The(s, TabCol(s.order[i].tab, s.order[i].col))})]
InOrder(rows, at, desc, answer) ==
    LET keys(row) == [i \in DOMAIN at |-> row[at[i]]]
    IN  (at # <<>> /\ 0 \notin Range(at)) =>
            /\ \A i, j \in DOMAIN rows : i < j => ~Precedes(keys(rows[j]), keys(rows[i]), desc)
            /\ \A row \in Range(answer) : Count(rows, row) < Times(answer, row) =>
                  \A i \in DOMAIN rows : ~Precedes(keys(row), keys(rows[i]), desc)
RightOrder == (Answered(stmt) /\ Straight(stmt) /\ ~IsGrouped(stmt) /\ Found(db, plan))
              => InOrder(out, OrderAt(stmt), [i \in DOMAIN stmt.order |-> stmt.order[i].desc], Meaning(stmt, db))

\* Both: a SELECT that is answered is answered right.
AnswerRight == RightRows /\ RightOrder

\* No statement is answered whose unqualified names stand for no column, or for
\* several (Analyze::check_column; the conditions of ON are not checked).
NamesClear == (phase = "done" /\ stmt.kind # "insert") =>
    /\ Known(stmt)
    /\ \A c \in NamedCols(stmt) \ CondCols(Range(OnOf(stmt))) : c.tab = None => Clear(stmt, c)

\* EXPLAIN prints the same tree whichever of two tables is named first
\* (JoinPlan::Explain sorts what it prints).
Turned(s) == [s EXCEPT !.refs = Reverse(@)]
ExplainStable ==
    (phase = "done" /\ stmt.kind = "select" /\ stmt.explain /\ Len(stmt.refs) = 2
     /\ stmt.joins = <<>> /\ AllClear(stmt) /\ NoneWithin(stmt))
    => out = Explain(do_planner(db, do_analyze(Turned(stmt)).q), 0)

\* The rows of a table that pass its comparisons with literals.
Passing(s, d, t) == {i \in d.live[t] :
                       \A c \in AllConds(s) : (IsVal(c.rhs) /\ TabOf(s, c.lhs) = t) =>
                          Compare(c.op, At(s, d, [u \in {t} |-> i], c.lhs), At(s, d, <<>>, c.rhs))}
\* The server survives every statement but three kinds: a number compared with a
\* CHAR column, or a foreign column put to an index scan (assertions); JOIN with
\* conditions no row of a filled table passes (null record); GROUP BY a number
\* over no rows (std::stoi of "global").
CrashOnly ==
    phase = "dead" =>
        \/ err = "Abort" /\ \E c \in AllConds(stmt) : IsVal(c.rhs) /\ c.rhs.type # "STRING"
                                                      /\ TypeOf(stmt, c.lhs) = "STRING"
        \/ err = "Abort" /\ ~(AllClear(stmt) /\ NoneWithin(stmt))
        \/ err = "Segfault" /\ stmt.joins # <<>>
           /\ \E t \in From(stmt) : db.live[t] # {} /\ Passing(stmt, db, t) = {}
        \/ err = "Terminate" /\ stmt.group # <<>>
           /\ (Straight(stmt) => Selected(stmt, db) = {})

\* The lookup of an index ends in IndexEntryNotFound only where no row of the
\* table would do (IxScan::rid on an end position, thrown before the first row).
NothingFound ==
    (err = "IndexEntryNotFound" /\ AllClear(stmt) /\ SameTypes(stmt) /\ NoneWithin(stmt)
     /\ Found(db, plan))
    => \E scan \in IndexScans(plan) : Passing(stmt, db, scan.tab) = {}

\* A statement is refused or answered for a reason: what it names is clear when it is
\* answered, and nothing is there when an index says so.
RefusedRightly == NamesClear /\ NothingFound

\* No two rows of a table ever have one key of an index, whatever statements wrote
\* them and wherever they failed, until an UPDATE of the table is rolled back.
UniqueKeys == \A t \in DOMAIN Schema \ undone : \A index \in Range(db.index[t]) :
                 \A i, j \in db.live[t] :
                    KeyOf(t, index, db.rows[t][i]) = KeyOf(t, index, db.rows[t][j]) => i = j

\* An index has one entry for every record in the file, the deleted ones too, and no
\* other, until then: so no key of a deleted row is ever given away again.
EntriesRight ==
    \A t \in DOMAIN Schema \ undone : \A n \in DOMAIN db.index[t] :
       /\ db.entries[t][n] = {[key |-> KeyOf(t, db.index[t][n], db.rows[t][i]), rid |-> i] :
                                  i \in DOMAIN db.rows[t]}
       /\ Cardinality(db.entries[t][n]) = Len(db.rows[t])

\* What a statement wrote: all its rows if it is done, those before the row it failed
\* on if not, none if it was rolled back, each computed from the row as it was; DELETE
\* takes just the rows that pass.
Wanted(s, d) == {i \in d.live[s.tab] : Satisfies(s, d, [t \in {s.tab} |-> i], AllConds(s))}
SetRow(s, row) ==
    [i \in DOMAIN row |->
        LET sets == {k \in DOMAIN s.sets : s.sets[k].col = Schema[s.tab][i].col}
            val == evaluate_expr(s.sets[Max(sets)].rhs, row, ColsOf(s.tab))
        IN  IF sets = {} THEN row[i] ELSE Cast(val.v, val.type, Schema[s.tab][i].type)]
RowsRight ==
    (phase \in {"done", "error"} /\ stmt.kind \in {"update", "delete"} /\ Straight(stmt)
     /\ (phase = "done" => ~JunkUsed(was, plan) /\ (stmt.kind = "delete" => ~Misfiled(plan)))) =>
    LET before == was.rows[stmt.tab]
        after == db.rows[stmt.tab]
        wanted == Wanted(stmt, was)
    IN  IF stmt.kind = "delete"
        THEN /\ after = before
             /\ db.live[stmt.tab] = was.live[stmt.tab] \ (IF phase = "error" THEN {} ELSE wanted)
        ELSE /\ DOMAIN after = DOMAIN before /\ db.live = was.live
             /\ err = "TransactionAbort" => after = before
             /\ \E n \in 0..Len(before) :
                   /\ phase = "done" => n = Len(before)
                   /\ \A i \in DOMAIN before : after[i] = IF i \in wanted /\ i <= n THEN SetRow(stmt, before[i])
                                                          ELSE before[i]

\* What statements leave behind, done or failed: the rows they should have written,
\* unique keys, indexes that match, and row counts that are counts.
WritesRight == QueryTypeOK /\ UniqueKeys /\ EntriesRight /\ RowsRight
=============================================================================
