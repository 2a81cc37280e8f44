------------------------------ MODULE Analyzer ------------------------------
(***************************************************************************)
(* Analyze::do_analyze (analyze/analyze.cpp): names are resolved against   *)
(* the catalogue, literals are brought to the type of their column, and a  *)
(* Query is made for the planner.                                          *)
(*                                                                         *)
(* A column is told from a value and from an aggregate by k.               *)
(***************************************************************************)
EXTENDS Ast

IsCol(x) == x.k = "col"
IsVal(x) == x.k = "val"
IsAgg(x) == x.k = "agg"

get_all_cols(tabs) == FoldLeft(LAMBDA acc, t : acc \o ColsOf(t), <<>>, tabs)
NoTable(tabs) == IF \E i \in DOMAIN tabs : tabs[i] \notin DOMAIN Schema THEN "TableNotFound" ELSE None

\* check_column: a qualified name is taken as it is; an unqualified one must be
\* the name, or failing that the tab_col form, of exactly one column.
check_column(all, c) ==
    LET exact == {i \in DOMAIN all : all[i].col = c.col}
        split == {i \in DOMAIN all : c.col \in DOMAIN Prefixed
                                     /\ Prefixed[c.col] = <<all[i].tab, all[i].col>>}
        found == IF exact # {} THEN exact ELSE split
        d == all[Min(found)]
    IN  IF c.tab # None THEN [c |-> c, err |-> None]
        ELSE IF found = {} THEN [c |-> c, err |-> "ColumnNotFound"]
        ELSE IF Cardinality(found) > 1 THEN [c |-> c, err |-> "AmbiguousColumn"]
        ELSE [c |-> [c EXCEPT !.tab = d.tab, !.col = d.col], err |-> None]

Checked(all, cs) == [i \in DOMAIN cs |-> check_column(all, cs[i]).c]
CheckErr(all, cs) == FirstError([i \in DOMAIN cs |-> check_column(all, cs[i]).err])

NoAlias == [a \in {} |-> a]
\* get_clause: only columns outside aggregates have their alias resolved.
Resolved(x, alias) ==
    IF IsCol(x) /\ x.tab \in DOMAIN alias THEN [x EXCEPT !.tab = alias[x.tab]] ELSE x
get_clause(conds, alias) ==
    [i \in DOMAIN conds |-> [lhs |-> Resolved(conds[i].lhs, alias), op |-> conds[i].op,
                             rhs |-> Resolved(conds[i].rhs, alias), raw |-> Val("INT", 0)]]

\* The type and length a qualified column has in the catalogue.
Meta(c) == LET at == {i \in DOMAIN Schema[c.tab] : Schema[c.tab][i].col = c.col}
           IN  Schema[c.tab][Min(at)]
NoMeta(c) == CASE c.tab \notin DOMAIN Schema -> "TableNotFound"
               [] \A i \in DOMAIN Schema[c.tab] : Schema[c.tab][i].col # c.col -> "ColumnNotFound"
               [] OTHER -> None

\* check_clause on one condition, given its two sides once checked.  The raw bytes
\* are made before the literal is converted, and stay those of the literal's type.
OperandType(x) == IF IsVal(x) THEN x.type ELSE Meta(x).type
TypeErr(x, to) ==
    CASE IsVal(x) /\ init_raw(x, to.len) # None -> init_raw(x, to.len)
      [] ~IsVal(x) /\ NoMeta(x) # None -> NoMeta(x)
      [] OTHER -> IF Convertible(OperandType(x), to.type) THEN None ELSE "IncompatibleType"
CondErr(lhs, rhs, names) == IF names # None THEN names ELSE TypeErr(rhs, Meta(lhs))
CheckedCond(cond, lhs, rhs, to) ==
    IF IsVal(rhs) THEN [cond EXCEPT !.lhs = lhs, !.raw = Val(rhs.type, rhs.v),
                                    !.rhs.type = to, !.rhs.v = Cast(rhs.v, rhs.type, to)]
    ELSE [cond EXCEPT !.lhs = lhs, !.rhs = rhs]
Outcome(cond, lhs, rhs, err) ==
    [cond |-> IF err # None THEN cond ELSE CheckedCond(cond, lhs, rhs, Meta(lhs).type), err |-> err]
BothSides(cond, lhs, rhs) ==
    Outcome(cond, lhs.c, rhs.c, CondErr(lhs.c, rhs.c, FirstError(<<lhs.err, rhs.err, NoMeta(lhs.c)>>)))
CheckOne(all, cond) ==
    IF IsAgg(cond.lhs) \/ IsAgg(cond.rhs) THEN [cond |-> cond, err |-> None]
    ELSE BothSides(cond, check_column(all, cond.lhs),
                   IF IsVal(cond.rhs) THEN [c |-> cond.rhs, err |-> None]
                   ELSE check_column(all, cond.rhs))
check_clause(all, conds) == [i \in DOMAIN conds |-> CheckOne(all, conds[i]).cond]
ClauseErr(all, conds) == FirstError([i \in DOMAIN conds |-> CheckOne(all, conds[i]).err])
-----------------------------------------------------------------------------
(***************************************************************************)
(* do_analyze: the Query of a statement, and the first error met.          *)
(***************************************************************************)
Tables(stmt) ==
    FoldLeft(LAMBDA acc, j : IF j.right \in Range(acc) THEN acc ELSE Append(acc, j.right),
             [i \in DOMAIN stmt.refs |-> stmt.refs[i].tab], stmt.joins)

\* Alias -> table: the references of FROM, then those of the joins.
Named(stmt) == {<<r.alias, r.tab>> : r \in Range(stmt.refs)}
               \cup {<<j.alias, j.right>> : j \in Range(stmt.joins)}
alias_to_table(stmt) ==
    LET named == {p \in Named(stmt) : p[1] # None}
    IN  [a \in {p[1] : p \in named} |-> (CHOOSE p \in named : p[1] = a)[2]]

\* ORDER BY: the alias of an aggregate comes before a column of that name.
OrderCol(all, aggs, o) ==
    LET named == {i \in DOMAIN aggs : aggs[i].alias # None /\ aggs[i].alias = o.col}
    IN  [col |-> IF named # {} THEN TabCol(o.tab, o.col) ELSE check_column(all, TabCol(o.tab, o.col)).c,
         is_agg |-> named # {}]
OrderErr(all, aggs, o) ==
    IF OrderCol(all, aggs, o).is_agg THEN None ELSE check_column(all, TabCol(o.tab, o.col)).err

\* Columns outside aggregates must be grouped on, and WHERE has no aggregate.
Grouped(c, group) == \E i \in DOMAIN group : SameCol(group[i], c)
UngroupedHaving(x, group) == IsCol(x) /\ ~Grouped(x, group)
SemanticErr(q) ==
    IF \/ q.has_group /\ \E c \in Range(q.cols) : ~Grouped(c, q.group)
       \/ q.has_group /\ \E h \in Range(q.having) :
             UngroupedHaving(h.lhs, q.group) \/ UngroupedHaving(h.rhs, q.group)
       \/ \E c \in Range(q.conds) : IsAgg(c.lhs) \/ IsAgg(c.rhs)
    THEN "Internal" ELSE None

SelectQuery(stmt, tabs, alias, all) ==
    LET star == stmt.cols = <<>> /\ stmt.aggs = <<>>
    IN  [kind |-> "select", tables |-> tabs, joins |-> stmt.joins, alias |-> alias,
         select_all |-> star,
         cols |-> IF star THEN [i \in DOMAIN all |-> TabCol(all[i].tab, all[i].col)]
                  ELSE Checked(all, [i \in DOMAIN stmt.cols |-> Resolved(stmt.cols[i], alias)]),
         aggs |-> [i \in DOMAIN stmt.aggs |-> [stmt.aggs[i] EXCEPT !.arg =
                      IF @.col = None THEN @ ELSE check_column(all, @).c]],
         group |-> Checked(all, stmt.group), has_group |-> stmt.group # <<>>,
         having |-> check_clause(all, get_clause(stmt.having, NoAlias)),
         order |-> [i \in DOMAIN stmt.order |-> OrderCol(all, stmt.aggs, stmt.order[i])],
         desc |-> [i \in DOMAIN stmt.order |-> stmt.order[i].desc],
         limit |-> stmt.limit, conds |-> check_clause(all, get_clause(stmt.conds, alias))]
SelectErr(stmt, alias, all) ==
    FirstError(<<CheckErr(all, [i \in DOMAIN stmt.cols |-> Resolved(stmt.cols[i], alias)]),
                 CheckErr(all, SelectSeq([i \in DOMAIN stmt.aggs |-> stmt.aggs[i].arg],
                                         LAMBDA c : c.col # None)),
                 CheckErr(all, stmt.group),
                 ClauseErr(all, get_clause(stmt.having, NoAlias)),
                 FirstError([i \in DOMAIN stmt.order |-> OrderErr(all, stmt.aggs, stmt.order[i])]),
                 ClauseErr(all, get_clause(stmt.conds, alias))>>)
Analyzed(q, err) == [q |-> IF err # None THEN <<>> ELSE q, err |-> err]
Sensible(q, err) == Analyzed(q, IF err # None THEN err ELSE SemanticErr(q))
AnalyzeFrom(stmt, tabs, alias, all) ==
    Sensible(SelectQuery(stmt, tabs, alias, all),
             IF NoTable(tabs) # None THEN NoTable(tabs) ELSE SelectErr(stmt, alias, all))
AnalyzeSelect(stmt, tabs) == AnalyzeFrom(stmt, tabs, alias_to_table(stmt), get_all_cols(tabs))

\* UPDATE and DELETE check their WHERE clause only, INSERT nothing but literals.
DmlQuery(stmt, conds) == [kind |-> stmt.kind, tables |-> <<stmt.tab>>, sets |-> stmt.sets,
                          values |-> stmt.values, conds |-> check_clause(ColsOf(stmt.tab), conds)]
DmlErr(stmt, conds) == IF stmt.kind = "insert" THEN None
                       ELSE IF NoTable(<<stmt.tab>>) # None THEN NoTable(<<stmt.tab>>)
                       ELSE ClauseErr(ColsOf(stmt.tab), conds)
AnalyzeDml(stmt, conds) == Analyzed(DmlQuery(stmt, conds), DmlErr(stmt, conds))

do_analyze(stmt) == IF stmt.kind = "select" THEN AnalyzeSelect(stmt, Tables(stmt))
                    ELSE AnalyzeDml(stmt, get_clause(stmt.conds, NoAlias))
=============================================================================
