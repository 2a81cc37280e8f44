-------------------------------- MODULE Ast --------------------------------
(***************************************************************************)
(* What the parser hands to the analyzer (parser/ast.h): the nodes of a    *)
(* statement with a plan of its own.  Lists that the grammar leaves out    *)
(* are empty, names that it leaves out are None; an operand of a           *)
(* comparison is a column, a value or an aggregate, told apart by k.       *)
(***************************************************************************)
EXTENDS Sql

IntLit(v) == [k |-> "val", type |-> "INT", v |-> v]
FloatLit(v) == [k |-> "val", type |-> "FLOAT", v |-> v]
StringLit(v) == [k |-> "val", type |-> "STRING", v |-> v]

TableRef(tab, alias) == [tab |-> tab, alias |-> alias]
Col(tab, name) == TabCol(tab, name)
\* COUNT( * ) has the column None.
AggFunc(fn, col, alias) == [k |-> "agg", fn |-> fn, arg |-> col, alias |-> alias]

\* A comparison of WHERE, ON or HAVING, or the arithmetic of a SET clause.
BinaryExpr(lhs, op, rhs) == [k |-> "bin", lhs |-> lhs, op |-> op, rhs |-> rhs]
SetClause(col, val) == [col |-> col, rhs |-> val]
\* One column of ORDER BY.
OrderBy(name, desc) == [tab |-> None, col |-> name, desc |-> desc]
JoinExpr(right, conds) == [right |-> right, alias |-> None, conds |-> conds]

Dml(kind, tab, conds, sets, values) ==
    [kind |-> kind, tab |-> tab, conds |-> conds, sets |-> sets, values |-> values]
InsertStmt(tab, vals) == Dml("insert", tab, <<>>, <<>>, vals)
DeleteStmt(tab, conds) == Dml("delete", tab, conds, <<>>, <<>>)
UpdateStmt(tab, sets, conds) == Dml("update", tab, conds, sets, <<>>)

\* The constructor from table names; a LIMIT below zero is none.
SelectStmt(tabs, conds) ==
    [kind |-> "select", explain |-> FALSE, refs |-> [i \in DOMAIN tabs |-> TableRef(tabs[i], None)],
     joins |-> <<>>, cols |-> <<>>, aggs |-> <<>>, conds |-> conds, group |-> <<>>, having |-> <<>>,
     order |-> <<>>, limit |-> -1]
=============================================================================
