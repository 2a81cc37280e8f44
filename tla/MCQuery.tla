------------------------------ MODULE MCQuery ------------------------------
\* Small tables, and families of statements over them.
EXTENDS QueryAnswers

MCSchema == [t1 |-> <<[col |-> "a", type |-> "INT", len |-> 4], [col |-> "b", type |-> "INT", len |-> 4],
                      [col |-> "s", type |-> "STRING", len |-> 3]>>,
             t2 |-> <<[col |-> "a", type |-> "INT", len |-> 4], [col |-> "f", type |-> "FLOAT", len |-> 4]>>,
             t3 |-> <<[col |-> "d", type |-> "INT", len |-> 4]>>]
MCTabSeq == <<"t1", "t2", "t3">>
MCPrefixed == [t2_f |-> <<"t2", "f">>]
MCJunk == {-7, 7}

Rows1 == {<<>>, <<<<1, 2, 2>>>>, <<<<3, 1, 1>>, <<1, 2, 2>>, <<2, 1, 2>>>>}
Rows2 == {<<>>, <<<<1, 36>>, <<3, 24>>>>}
Index1 == {<<>>, <<<<"a">>>>, <<<<"a", "b">>>>}
Filled(rows, index) ==
    [rows |-> rows, live |-> [t \in DOMAIN rows |-> DOMAIN rows[t]], index |-> index,
     entries |-> [t \in DOMAIN rows |-> [n \in DOMAIN index[t] |->
                     {[key |-> KeyOf(t, index[t][n], rows[t][i]), rid |-> i] : i \in DOMAIN rows[t]}]],
     count |-> [t \in DOMAIN rows |-> Len(rows[t])]]
MCDbs == {Filled([t1 |-> r1, t2 |-> r2, t3 |-> <<<<1>>>>],
                 [t1 |-> ix, t2 |-> IF r1 = <<>> THEN <<<<"f">>>> ELSE <<>>, t3 |-> <<>>]) :
             r1 \in Rows1, r2 \in Rows2, ix \in Index1}

C(name) == Col(None, name)
Q(tab, name) == Col(tab, name)
N(n) == IntLit(n)
CountStar == AggFunc("COUNT", C(None), None)
Ops == {"=", "<>", "<", ">", "<=", ">="}

T1 == SelectStmt(<<"t1">>, <<>>)
T12 == SelectStmt(<<"t1", "t2">>, <<>>)
Same == BinaryExpr(Q("t1", "a"), "=", Q("t2", "a"))
Joined == [T1 EXCEPT !.joins = <<JoinExpr("t2", <<Same>>)>>]

OneTable ==
    {SelectStmt(<<"t1">>, <<BinaryExpr(C("a"), op, N(v))>>) : op \in Ops, v \in {1, 2, 4}}
    \cup {[SelectStmt(<<"t1">>, <<BinaryExpr(C("a"), o, N(v)), BinaryExpr(C("b"), p, N(w))>>) EXCEPT !.cols = <<C("b")>>] :
             o \in {"=", ">", "<>"}, p \in {"=", "<", ">="}, v \in {1, 2}, w \in {1, 2}}
    \cup {SelectStmt(<<"t1">>, <<BinaryExpr(C("a"), "<>", N(1)), BinaryExpr(C("a"), ">", N(0)), BinaryExpr(C("b"), "=", N(1))>>),
          SelectStmt(<<"t1">>, <<BinaryExpr(C("a"), ">", C("b"))>>),
          SelectStmt(<<"t1">>, <<BinaryExpr(C("a"), "=", FloatLit(24))>>),
          SelectStmt(<<"t1">>, <<BinaryExpr(C("a"), "=", StringLit(1))>>),
          SelectStmt(<<"t1">>, <<BinaryExpr(C("s"), "=", N(1))>>),
          SelectStmt(<<"t1">>, <<BinaryExpr(C("s"), "=", StringLit(5))>>),
          SelectStmt(<<"t1">>, <<BinaryExpr(C("x"), "=", N(1))>>), SelectStmt(<<"t9">>, <<>>), T1}
    \cup {SelectStmt(<<"t1">>, <<BinaryExpr(C("s"), op, StringLit(2))>>) : op \in {"=", "<"}}
    \cup {SelectStmt(<<"t2">>, <<BinaryExpr(C(name), op, v)>>) :
             name \in {"f", "t2_f"}, op \in {"=", ">", "<="}, v \in {N(1), FloatLit(36)}}

Comma ==
    {[T12 EXCEPT !.conds = conds] :
        conds \in {<<>>, <<Same>>, <<Same, BinaryExpr(C("b"), ">", N(1))>>, <<Same, BinaryExpr(C("f"), "<>", FloatLit(36))>>,
                   <<BinaryExpr(C("b"), "<", Q("t2", "a"))>>, <<BinaryExpr(C("a"), "=", N(1))>>,
                   <<BinaryExpr(Q("t1", "a"), "=", C("b"))>>, <<Same, BinaryExpr(Q("t2", "a"), "=", Q("t2", "f"))>>,
                   <<BinaryExpr(Q("t3", "d"), "=", N(1))>>, <<Same, BinaryExpr(Q("t1", "a"), "<=", N(2))>>}}
    \cup {[SelectStmt(<<"t2", "t1">>, <<Same>>) EXCEPT !.cols = <<C("s"), C("f")>>],
          SelectStmt(<<"t1", "t2", "t3">>, <<Same, BinaryExpr(C("d"), "=", C("b"))>>),
          [T12 EXCEPT !.refs = <<TableRef("t1", "x"), TableRef("t2", "y")>>,
                      !.cols = <<Q("x", "b"), Q("y", "f")>>, !.conds = <<BinaryExpr(Q("x", "a"), "=", Q("y", "a"))>>]}

JoinStmts ==
    {[Joined EXCEPT !.cols = cols, !.conds = conds] :
        cols \in {<<>>, <<C("b"), C("f")>>},
        conds \in {<<>>, <<BinaryExpr(C("b"), ">", N(1))>>, <<BinaryExpr(C("b"), "=", N(9))>>, <<BinaryExpr(C("f"), ">", N(1))>>,
                   <<BinaryExpr(Q("t1", "a"), ">", N(1))>>}}
    \cup {[Joined EXCEPT !.joins = <<JoinExpr("t2", <<Same>>), JoinExpr("t3", <<BinaryExpr(Q("t3", "d"), "=", Q("t1", "a"))>>)>>],
          [Joined EXCEPT !.joins = <<JoinExpr("t2", <<BinaryExpr(C("b"), "=", N(1))>>)>>],
          [Joined EXCEPT !.cols = <<C("b")>>, !.order = <<OrderBy("s", FALSE)>>]}

Ordered ==
    {[T1 EXCEPT !.order = order, !.limit = n] :
        order \in {<<>>, <<OrderBy("b", FALSE)>>, <<OrderBy("b", TRUE), OrderBy("a", FALSE)>>, <<OrderBy("s", TRUE)>>},
        n \in {-1, 0, 1, 2}}
    \cup {[T12 EXCEPT !.conds = <<Same>>, !.order = <<OrderBy("f", TRUE)>>, !.limit = 1],
          [T1 EXCEPT !.conds = <<BinaryExpr(C("a"), ">", N(1))>>, !.cols = <<C("b"), C("a")>>,
                     !.order = <<OrderBy("b", FALSE), OrderBy("a", TRUE)>>]}

Grouping ==
    {[T1 EXCEPT !.aggs = aggs, !.conds = conds] :
        aggs \in {<<CountStar>>, <<AggFunc("SUM", C("a"), None), AggFunc("AVG", C("b"), None)>>,
                  <<AggFunc("MAX", C("a"), "m"), AggFunc("MIN", C("b"), None)>>, <<AggFunc("MAX", C("s"), None)>>},
        conds \in {<<>>, <<BinaryExpr(C("b"), "=", N(9))>>}}
    \cup {[T1 EXCEPT !.cols = <<C(g)>>, !.group = <<C(g)>>, !.aggs = <<CountStar, AggFunc("SUM", C("a"), "m")>>,
                     !.having = having, !.order = order] :
             g \in {"b", "s"},
             having \in {<<>>, <<BinaryExpr(CountStar, ">", N(1))>>, <<BinaryExpr(AggFunc("SUM", C("a"), None), ">=", N(3))>>,
                         <<BinaryExpr(AggFunc("AVG", C("a"), None), ">", N(1))>>, <<BinaryExpr(C("b"), ">", N(1))>>},
             order \in {<<>>, <<OrderBy("m", TRUE)>>}}
    \cup {[T12 EXCEPT !.conds = <<Same>>, !.aggs = <<AggFunc("SUM", C("f"), None), AggFunc("MAX", Q("t1", "a"), None)>>],
          [T12 EXCEPT !.conds = <<Same>>, !.aggs = <<AggFunc("MAX", Q("t2", "a"), None), AggFunc("MAX", Q("t1", "a"), None)>>],
          [Joined EXCEPT !.aggs = <<CountStar>>], [Joined EXCEPT !.aggs = <<AggFunc("SUM", C("b"), None)>>],
          [Joined EXCEPT !.aggs = <<AggFunc("AVG", C("b"), None)>>],
          [T1 EXCEPT !.cols = <<C("b")>>, !.group = <<C("s")>>],
          [T1 EXCEPT !.conds = <<BinaryExpr(CountStar, ">", N(1))>>]}

Explained ==
    {[s EXCEPT !.explain = TRUE] :
        s \in {[T12 EXCEPT !.conds = conds, !.cols = cols] :
                  conds \in {<<>>, <<Same>>, <<Same, BinaryExpr(C("b"), ">", N(1))>>,
                             <<Same, BinaryExpr(C("f"), ">", N(1))>>, <<Same, BinaryExpr(Q("t1", "a"), "=", N(1))>>},
                  cols \in {<<>>, <<C("b"), C("f")>>}}
              \cup {[Joined EXCEPT !.cols = <<C("b")>>], [Joined EXCEPT !.aggs = <<CountStar>>],
                    [T1 EXCEPT !.order = <<OrderBy("b", FALSE)>>]}}

Row(x, y, z) == <<N(x), N(y), StringLit(z)>>
Writes ==
    {InsertStmt("t1", v) : v \in {Row(1, 2, 1), Row(2, 2, 3), Row(3, 1, 1), Row(1, 1, 4),
                                           <<N(1), N(1)>>, <<N(4), N(1), N(1)>>,
                                           <<FloatLit(36), N(1), StringLit(1)>>}}
    \cup {InsertStmt(tab, <<N(1)>>) : tab \in {"t3", "t9"}}
    \cup {DeleteStmt("t1", conds) :
             conds \in {<<>>, <<BinaryExpr(C("a"), ">", N(1))>>, <<BinaryExpr(C("a"), "=", N(1)), BinaryExpr(C("b"), ">", N(0))>>,
                        <<BinaryExpr(C("b"), "=", N(1))>>, <<BinaryExpr(C("a"), ">", C("b"))>>}}
    \cup {UpdateStmt("t1", sets, conds) :
             conds \in {<<>>, <<BinaryExpr(C("b"), "=", N(1))>>},
             sets \in {<<SetClause("a", BinaryExpr(C("a"), "+", N(1)))>>, <<SetClause("a", C("b")), SetClause("b", C("a"))>>,
                       <<SetClause("b", BinaryExpr(C("b"), "/", BinaryExpr(C("a"), "-", N(1))))>>, <<SetClause("s", StringLit(4))>>,
                       <<SetClause("b", BinaryExpr(C("a"), "*", FloatLit(36)))>>, <<SetClause("x", N(1))>>}}
    \cup {UpdateStmt("t1", <<SetClause("b", N(0))>>, <<BinaryExpr(C("a"), "=", C("b"))>>),
          UpdateStmt("t1", <<SetClause("b", N(0))>>, <<BinaryExpr(C("a"), "=", FloatLit(24))>>)}

\* After a first write: what meets the rows, keys and entries it left.
MCLater ==
    {T1, Joined, [T1 EXCEPT !.aggs = <<CountStar>>]}
    \cup {SelectStmt(<<"t1">>, <<BinaryExpr(C("a"), op, N(v))>>) : op \in {"=", ">", "<="}, v \in {1, 2}}
    \cup {InsertStmt("t1", v) : v \in {Row(1, 2, 1), Row(3, 1, 1)}}
    \cup {DeleteStmt("t1", conds) :
             conds \in {<<BinaryExpr(C("a"), ">", N(1))>>, <<BinaryExpr(C("b"), "=", N(1))>>}}
    \cup {UpdateStmt("t1", <<SetClause("a", BinaryExpr(C("a"), "+", N(v)))>>, conds) :
             v \in {1, 5}, conds \in {<<>>, <<BinaryExpr(C("b"), "=", N(1))>>}}
MCStmts == OneTable \cup Comma \cup JoinStmts \cup Ordered \cup Grouping \cup Explained \cup Writes
=============================================================================
