------------------------------ MODULE Planner ------------------------------
(***************************************************************************)
(* Planner (optimizer/planner.cpp): the plan of an analyzed statement.     *)
(*                                                                         *)
(* db.index[t] is the sequence of the indexes of table t, each the         *)
(* sequence of its column names; db.count[t] is the row count kept in the  *)
(* table's metadata, which may differ from the number of its rows.         *)
(***************************************************************************)
EXTENDS Analyzer

ScanPlan(tab, conds, icols) ==
    [node |-> "Scan", tag |-> IF icols = <<>> THEN "SeqScan" ELSE "IndexScan",
     tab |-> tab, conds |-> conds, icols |-> icols]
FilterPlan(sub, conds) == [node |-> "Filter", sub |-> sub, conds |-> conds]
JoinPlan(left, right, conds) == [node |-> "Join", left |-> left, right |-> right, conds |-> conds]
ProjectionPlan(sub, cols, star) == [node |-> "Project", sub |-> sub, cols |-> cols, star |-> star]
SortPlan(sub, cols, desc, limit) ==
    [node |-> "Sort", sub |-> sub, cols |-> cols, desc |-> desc, limit |-> limit]
AggPlan(sub, q) == [node |-> "Agg", sub |-> sub, aggs |-> q.aggs, group |-> q.group,
                    having |-> q.having, order |-> q.order, desc |-> q.desc, limit |-> q.limit]
\* A SELECT is the plan below it.
DMLPlan(tag, sub, q) == [node |-> tag, sub |-> sub, tab |-> q.tables[1], values |-> q.values,
                         conds |-> q.conds, sets |-> q.sets]

-----------------------------------------------------------------------------
\* The operators the conditions apply to a column of a table, seen from it.
OpsOn(tab, conds, col) ==
    {c.op : c \in {d \in Range(conds) : d.lhs.tab = tab /\ d.lhs.col = col}}
    \cup {Swapped(c.op) : c \in {d \in Range(conds) : /\ d.lhs.tab # tab /\ IsCol(d.rhs)
                                                      /\ d.rhs.tab = tab /\ d.rhs.col = col}}

\* get_index_cols: the longest prefix of an index whose first column has a
\* comparison and whose others have equalities; the earlier index on a tie.
Usable(tab, conds, index, i) ==
    LET ops == OpsOn(tab, conds, index[i])
    IN  IF i = 1 THEN ops \cap {"=", "<", "<=", ">", ">="} # {} ELSE "=" \in ops
Matched(tab, conds, index) ==
    Max({n \in 0..Len(index) : \A i \in 1..n : Usable(tab, conds, index, i)})
get_index_cols(db, tab, conds) ==
    FoldLeft(LAMBDA best, index : LET n == Matched(tab, conds, index)
                                  IN  IF n > Len(best) THEN SubSeq(index, 1, n) ELSE best,
             <<>>, db.index[tab])

\* pop_conds: the conditions of a table on constants, and every condition
\* between two columns of one table, whichever table that is.
OfTable(c, tab) == (c.lhs.tab = tab /\ IsVal(c.rhs)) \/ (IsCol(c.rhs) /\ c.lhs.tab = c.rhs.tab)
\* Mutant: the comparisons with <> are left out of the scan.
pop_conds_ne(conds, tab) == SelectSeq(conds, LAMBDA c : OfTable(c, tab) /\ c.op # "<>")
pop_conds(conds, tab) == SelectSeq(conds, LAMBDA c : OfTable(c, tab))
LeftConds(conds, tab) == SelectSeq(conds, LAMBDA c : ~OfTable(c, tab))

-----------------------------------------------------------------------------
\* logical_optimization: with JOIN and no *, a table keeps the columns of the
\* select list and of the ON conditions.
OnConds(q) == get_clause(FoldLeft(LAMBDA acc, j : acc \o j.conds, <<>>, q.joins), q.alias)
OnCols(q) == LET on == Range(OnConds(q))
             IN  {c.lhs : c \in on} \cup {c.rhs : c \in {d \in on : IsCol(d.rhs)}}
table_projections(q, tab) ==
    IF q.joins = <<>> \/ q.select_all THEN <<>>
    ELSE LET kept == Range(q.cols) \cup OnCols(q)
             metas == SelectSeq(ColsOf(tab), LAMBDA m : TabCol(tab, m.col) \in kept)
         IN  [i \in DOMAIN metas |-> TabCol(tab, metas[i].col)]

\* The scans of the tables, conditions taken from the list one table after the
\* other.  With JOIN the conditions are above the scan, otherwise in it, and
\* again above it unless an index is used.
ProjectedOn(plan, keep) == IF keep = <<>> THEN plan ELSE ProjectionPlan(plan, keep, FALSE)
Filtered(join, conds, scan) ==
    IF conds # <<>> /\ (join \/ scan.icols = <<>>) THEN FilterPlan(scan, conds) ELSE scan
TableScan(db, q, tab, conds) ==
    LET join == q.joins # <<>>
    IN  ProjectedOn(Filtered(join, conds, ScanPlan(tab, IF join THEN <<>> ELSE conds,
                                                   get_index_cols(db, tab, conds))),
                    table_projections(q, tab))
TableScans(db, q) ==
    FoldLeft(LAMBDA acc, tab : [conds |-> LeftConds(acc.conds, tab),
                                scans |-> Append(acc.scans, TableScan(db, q, tab, pop_conds(acc.conds, tab)))],
             [conds |-> q.conds, scans |-> <<>>], q.tables)

\* A condition between a table and one of those already joined.
Links(c, new, left) == /\ IsCol(c.rhs)
                       /\ \/ c.lhs.tab = new /\ c.rhs.tab \in left
                          \/ c.rhs.tab = new /\ c.lhs.tab \in left

\* The joins of a left-deep tree, in the order of a sequence of positions.
LeftDeep(tabs, scans, conds, order) ==
    FoldLeft(LAMBDA acc, i : [plan |-> JoinPlan(acc.plan, scans[i],
                                                SelectSeq(conds, LAMBDA c : Links(c, tabs[i], acc.left))),
                              left |-> acc.left \cup {tabs[i]}],
             [plan |-> scans[order[1]], left |-> {tabs[order[1]]}], Tail(order)).plan

\* build_join_plan: the smallest tables first unless there are just two and no
\* ON condition compares their columns.
Greedy(db, q) ==
    LET on == OnConds(q)
        counts == {db.count[t] : t \in Range(q.tables)}
    IN  \/ Len(q.tables) > 2
        \/ \E c \in Range(on) : IsCol(c.rhs)
        \/ on = <<>> /\ Max(counts) > 10 * Min(counts)
JoinOrder(db, q) ==
    LET n(i) == db.count[q.tables[i]]
    IN  IF Greedy(db, q) THEN SetToSortSeq(DOMAIN q.tables,
                                           LAMBDA i, j : n(i) < n(j) \/ (n(i) = n(j) /\ i < j))
        ELSE [i \in DOMAIN q.tables |-> i]
build_join_plan(db, q, scans) == LeftDeep(q.tables, scans, OnConds(q), JoinOrder(db, q))

\* make_one_rel: without JOIN the tables are joined as they are written; what no
\* join takes goes to the outermost.
Unlinked(tabs, conds) ==
    SelectSeq(conds, LAMBDA c : /\ IsCol(c.rhs)
                                /\ \A i \in 2..Len(tabs) : ~Links(c, tabs[i], {tabs[j] : j \in 1..i - 1}))
CommaJoin(tabs, scans, conds) ==
    [LeftDeep(tabs, scans, conds, [i \in DOMAIN tabs |-> i]) EXCEPT !.conds = @ \o Unlinked(tabs, conds)]
make_one_rel(db, q, ts) ==
    IF q.joins # <<>> THEN build_join_plan(db, q, ts.scans)
    ELSE CommaJoin(q.tables, ts.scans, ts.conds)

physical_optimization(db, q) ==
    IF Len(q.tables) > 1 THEN make_one_rel(db, q, TableScans(db, q))
    ELSE Filtered(FALSE, q.conds, ScanPlan(q.tables[1], q.conds, get_index_cols(db, q.tables[1], q.conds)))

\* The name an aggregate has in the output: its alias, count for COUNT( * ),
\* otherwise made of the function and the column name without its table.
AggCol(agg) == CASE agg.alias # None -> TabCol(None, agg.alias)
                 [] agg.alias = None /\ agg.arg.col = None -> TabCol(None, "count")
                 [] OTHER -> [TabCol(None, agg.arg.col) EXCEPT !.fn = agg.fn]

\* generate_sort_plan and generate_select_plan, over the relation of the tables.
generate_sort_plan(rel, q) ==
    LET plain == SelectSeq(q.order, LAMBDA o : ~o.is_agg)
    IN  IF q.order = <<>> THEN rel
        ELSE SortPlan(rel, [i \in DOMAIN plain |-> plain[i].col], q.desc, q.limit)
generate_select_plan(rel, q) ==
    IF q.aggs # <<>> \/ q.has_group
    THEN ProjectionPlan(AggPlan(rel, q),
                        q.group \o [i \in DOMAIN q.aggs |-> AggCol(q.aggs[i])], q.select_all)
    ELSE ProjectionPlan(generate_sort_plan(rel, q), q.cols, q.select_all)

\* do_planner.  UPDATE and DELETE scan with all conditions and no filter.
do_planner(db, q) ==
    LET scan == ScanPlan(q.tables[1], q.conds, get_index_cols(db, q.tables[1], q.conds))
    IN  CASE q.kind = "select" -> generate_select_plan(physical_optimization(db, q), q)
          [] q.kind = "insert" -> DMLPlan("Insert", <<>>, q)
          [] q.kind = "delete" -> DMLPlan("Delete", scan, q)
          [] q.kind = "update" -> DMLPlan("Update", scan, q)
-----------------------------------------------------------------------------
(***************************************************************************)
(* Plan::Explain.  A line is the depth, the kind of node and what is       *)
(* printed of it; lists that are sorted before they are printed are sets.  *)
(* A plan of an aggregate prints nothing, and hides what is below it.      *)
(***************************************************************************)
RECURSIVE ScanTables(_)
ScanTables(p) == CASE p.node = "Scan" -> <<p.tab>>
                   [] p.node \in {"Filter", "Project"} -> ScanTables(p.sub)
                   [] p.node = "Join" -> ScanTables(p.left) \o ScanTables(p.right)
                   [] OTHER -> <<>>

Priority(p) == CASE p.node = "Filter" -> 1 [] p.node = "Join" -> 2
                 [] p.node = "Project" -> 3 [] OTHER -> 4
Rank(tab) == CHOOSE i \in DOMAIN TabSeq : TabSeq[i] = tab
\* Mutant: the children are printed as they are joined.
PrintedFirst_left(p, q) == TRUE
PrintedFirst(p, q) == \/ Priority(p) < Priority(q)
                      \/ /\ Priority(p) = Priority(q)
                         /\ Rank(ScanTables(p)[1]) <= Rank(ScanTables(q)[1])

Shown(conds) == {[lhs |-> c.lhs, op |-> c.op, rhs |-> c.rhs] : c \in Range(conds)}
Line(depth, node, what) == <<[depth |-> depth, node |-> node, what |-> what]>>
RECURSIVE Explain(_, _)
Explain(p, depth) ==
    CASE p.node = "Scan"   -> Line(depth, "Scan", {p.tab})
      [] p.node = "Filter" -> Line(depth, "Filter", Shown(p.conds)) \o Explain(p.sub, depth + 1)
      [] p.node = "Join"   ->
           LET first == PrintedFirst(p.left, p.right)
           IN  Line(depth, "Join", <<Range(ScanTables(p)), Shown(p.conds)>>)
               \o Explain(IF first THEN p.left ELSE p.right, depth + 1)
               \o Explain(IF first THEN p.right ELSE p.left, depth + 1)
      [] p.node = "Project" -> Line(depth, "Project", IF p.star THEN {} ELSE Range(p.cols))
                               \o Explain(p.sub, depth + 1)
      [] p.node = "Sort"   -> Line(depth, "Sort", <<p.cols, p.desc, p.limit>>)
                              \o Explain(p.sub, depth + 2)
      [] OTHER -> <<>>
=============================================================================
