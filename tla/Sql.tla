-------------------------------- MODULE Sql --------------------------------
(***************************************************************************)
(* The data the stages of a statement hand to each other: columns, values, *)
(* conditions (common/common.h), and what comparing and converting values  *)
(* does.                                                                   *)
(*                                                                         *)
(* A row is a sequence of integers, one per column, whose meaning is the   *)
(* column's type: an INT is itself, a FLOAT is counted in 1/Unit, a STRING *)
(* is its length (the strings are a, aa, aaa, ...).  Error names are those *)
(* of errors.h.                                                            *)
(* "Abort" is a failed assertion, "Segfault" a null pointer followed and   *)
(* "Terminate" an exception nobody catches: each ends the server.          *)
(***************************************************************************)
EXTENDS Integers, Sequences, FiniteSets, SequencesExt, FiniteSetsExt

CONSTANTS
    Schema,     \* table -> its columns, [col, type, len]
    TabSeq,     \* the tables in the order of their names
    Prefixed    \* the names of the form tab_col -> <<tab, col>>

None == ""
Fatal == {"Abort", "Segfault", "Terminate"}
\* What a statement can end in: the exceptions of errors.h it throws, and these.
Errors == Fatal \cup {"TableNotFound", "ColumnNotFound", "AmbiguousColumn", "IncompatibleType",
                      "StringOverflow", "Internal", "InvalidValueCount", "UniqueIndexViolation",
                      "IndexEntryNotFound", "TransactionAbort"}
Unit == 24

\* A column reference; fn is set for the unnamed column of an aggregate.
TabCol(tab, col) == [k |-> "col", tab |-> tab, col |-> col, fn |-> None]
ColsOf(tab) == [i \in DOMAIN Schema[tab] |->
                   [tab |-> tab, col |-> Schema[tab][i].col, fn |-> None,
                    type |-> Schema[tab][i].type, len |-> Schema[tab][i].len]]

SameCol(c, d) == c.tab = d.tab /\ c.col = d.col /\ c.fn = d.fn
\* AbstractExecutor::get_col: the first column of that name, 0 for none.
get_col(cols, c) == LET at == {i \in DOMAIN cols : SameCol(cols[i], c)}
                    IN  IF at = {} THEN 0 ELSE Min(at)

\* The first error of a sequence of results, in the order the code meets them.
FirstError(errs) == LET at == {i \in DOMAIN errs : errs[i] # None}
                    IN  IF at = {} THEN None ELSE errs[Min(at)]

-----------------------------------------------------------------------------
Trunc(n) == IF n >= 0 THEN n \div Unit ELSE -((-n) \div Unit)

\* static_cast between INT and FLOAT; other pairs have no conversion.
Convertible(from, to) == from = to \/ {from, to} = {"INT", "FLOAT"}
Cast(v, from, to) == CASE from = to       -> v
                       [] to = "FLOAT"    -> v * Unit
                       [] OTHER           -> Trunc(v)

\* The bytes of a value of one type read as another: a small INT is a
\* denormal FLOAT, a FLOAT other than zero a huge INT.
Tiny == 1
Huge == 1000000
Reread(v, from, to) == CASE from = to \/ v = 0 -> v
                         [] to = "FLOAT"       -> Tiny
                         [] OTHER              -> Huge

\* Value::init_raw: the error it ends in for a column of length len.
init_raw(val, len) == CASE val.type = "STRING" -> IF val.v > len THEN "StringOverflow" ELSE None
                        [] OTHER               -> IF len # 4 THEN "Abort" ELSE None

Holds(op, x, y) == CASE op = "="  -> x = y
                     [] op = "<>" -> x # y
                     [] op = "<"  -> x < y
                     [] op = ">"  -> x > y
                     [] op = "<=" -> x <= y
                     [] op = ">=" -> x >= y

Swapped(op) == CASE op = "<" -> ">" [] op = ">" -> "<" [] op = "<=" -> ">=" [] op = ">=" -> "<="
                 [] OTHER -> op
-----------------------------------------------------------------------------
(***************************************************************************)
(* Analyze::evaluate_expr and evaluate_binary_expr: the value of the right *)
(* side of a SET clause on a row, [type, v, err].                     *)
(***************************************************************************)
Val(type, v) == [type |-> type, v |-> v, err |-> None]
Fails(err) == [type |-> "INT", v |-> 0, err |-> err]

Arith(op, x, y) == CASE op = "+" -> x + y [] op = "-" -> x - y

evaluate_binary_expr(op, l, r) ==
    LET int == l.type = "INT" /\ r.type = "INT"
        x == Cast(l.v, l.type, "FLOAT")
        y == Cast(r.v, r.type, "FLOAT")
    IN  CASE l.err # None -> l
          [] l.err = None /\ r.err # None -> r
          [] l.err = None /\ r.err = None /\ "STRING" \in {l.type, r.type} -> Fails("IncompatibleType")
          [] OTHER -> CASE op = "/" /\ y = 0 -> Fails("Internal")
                        [] op = "/" /\ y # 0 -> Val("FLOAT", (x * Unit) \div y)
                        [] op = "*" /\ int   -> Val("INT", l.v * r.v)
                        [] op = "*" /\ ~int  -> Val("FLOAT", (x * y) \div Unit)
                        [] OTHER -> IF int THEN Val("INT", Arith(op, l.v, r.v))
                                    ELSE Val("FLOAT", Arith(op, x, y))

RECURSIVE evaluate_expr(_, _, _)
evaluate_expr(e, row, cols) ==
    CASE e.k = "val" -> Val(e.type, e.v)
      [] e.k = "col" ->
           LET at == {i \in DOMAIN cols : e.tab \in {None, cols[i].tab} /\ cols[i].col = e.col}
           IN  IF at = {} THEN Fails("ColumnNotFound")
               ELSE Val(cols[Min(at)].type, row[Min(at)])
      [] e.k = "bin" -> evaluate_binary_expr(e.op, evaluate_expr(e.lhs, row, cols),
                                             evaluate_expr(e.rhs, row, cols))
=============================================================================
