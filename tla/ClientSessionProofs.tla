------------------------- MODULE ClientSessionProofs -------------------------
(***************************************************************************)
(* The threads of the server: every connection has its own thread, every   *)
(* statement its own transaction, and every client the answer it asked     *)
(* for, for any number of connections, statements and transactions.        *)
(***************************************************************************)
EXTENDS ClientSession, FiniteSetTheorems, TLAPS

Places == {"none", "start", "read", "set", "parse", "analyze", "refused", "plan", "portal",
           "reply", "closed"}
Trees == [explain : BOOLEAN, of : Conn \cup {NoConn}]
Transactions == [state : {"none", "active", "ended"}, mode : BOOLEAN, freed : BOOLEAN]

Types ==
    /\ listener \in [at : {"lock", "accept", "closed"}, sockfd : Conn \cup {NoConn}]
    /\ sockfd_mutex \in {"free", "locked"}
    /\ conn \in [Conn -> {"waiting", "accepted"}]
    /\ fd \in [Conn -> Conn \cup {NoConn}]
    /\ at \in [Conn -> Places]
    /\ stmt \in [Conn -> [kind : Kinds \cup {"none"}, n : Nat]]
    /\ txn_id \in [Conn -> Txn \cup {NoTxn}]
    /\ ctx \in [Conn -> Txn \cup {NoTxn}]
    /\ parse_tree \in Trees
    /\ tree \in [Conn -> Trees]
    /\ buffer_mutex \in Conn \cup {"free"}
    /\ tx \in [Txn -> Transactions]
    /\ answer \in [Conn -> {"none", "nothing", "failure", "plan", "rows", "done", "abort"}]
    /\ ghost \in [begun : SUBSET Conn, lost : SUBSET Conn, failed : BOOLEAN]

(***************************************************************************)
(* The invariant of the listener.  sockfd_mutex is taken before accept and *)
(* is kept until the thread of the accepted connection has copied sockfd.  *)
(***************************************************************************)
OneStarts ==
    /\ listener.at = "accept" => sockfd_mutex = "locked"
    /\ \A c \in Conn :
        /\ at[c] = "start" => listener = [at |-> "lock", sockfd |-> c] /\ sockfd_mutex = "locked"
        /\ conn[c] = "waiting" => at[c] = "none"

ListenerInv == OneStarts /\ Handoff

(***************************************************************************)
(* The invariant of the sessions.                                          *)
(***************************************************************************)
Mutex == \A c \in Conn : buffer_mutex = c <=> at[c] \in {"analyze", "refused"}

\* The transactions are numbered in the order in which they begin.
Numbered(n) == n \in 0 .. MaxTxn /\ {t \in Txn : tx[t].state # "none"} = 1 .. n

InOrder == \E n \in Nat : Numbered(n)

\* What a thread knows of its transaction, in txn_id and in the context, agrees, and
\* no other thread knows it.
Own ==
    /\ ctx = txn_id
    /\ \A c \in Conn : txn_id[c] # NoTxn =>
        /\ tx[txn_id[c]].state # "none" /\ ~tx[txn_id[c]].freed
        /\ \A d \in Conn \ {c} : txn_id[d] # txn_id[c]

\* Where the transaction of a session is known, and where it is active.
Alive ==
    \A c \in Conn :
        /\ at[c] \in {"none", "start"} => txn_id[c] = NoTxn
        /\ at[c] \in {"parse", "analyze", "plan", "portal", "refused", "reply"} => txn_id[c] # NoTxn
        /\ at[c] \in {"parse", "analyze", "plan", "portal"} => tx[txn_id[c]].state = "active"

\* A transaction that is explicit was begun, or follows one that was lost.
Explicit ==
    \A c \in Conn :
        txn_id[c] # NoTxn /\ tx[txn_id[c]].state = "active" /\ (tx[txn_id[c]].mode \/ at[c] = "read")
            => c \in ghost.begun \cup ghost.lost

\* The tree of a statement, from the parser to the portal, is its own, or says so.
IsFor(t, c) == t.of # NoConn /\ (t.of = c => (t.explain <=> stmt[c].kind = "explain"))

TreeRight ==
    \A c \in Conn :
        /\ at[c] \notin {"portal", "reply"} => tree[c] = NoTree
        /\ at[c] \in {"analyze", "plan"} => stmt[c].kind \notin Empty /\ IsFor(parse_tree, c)
        /\ at[c] \in {"plan", "portal"} => stmt[c].kind \notin Empty \cup {"semantics"}
        /\ at[c] = "refused" => stmt[c].kind \in Empty \cup {"semantics"}
        /\ at[c] = "portal" => IsFor(tree[c], c)

Inv ==
    Types /\ ListenerInv /\ Mutex /\ InOrder /\ Own /\ Alive /\ Explicit /\ TreeRight /\ AnsweredAsAsked

-----------------------------------------------------------------------------
\* next_txn_id_ is the number of a transaction that has not begun.
LEMMA NextIsNew ==
    ASSUME Types, NEW n \in Nat, Numbered(n)
    PROVE  NextTxn = n + 1 /\ (NextTxn \in Txn => tx[NextTxn].state = "none")
<1> DEFINE used == {t \in Txn : tx[t].state # "none"}
<1>1. used = 1 .. n
  BY DEF Numbered
<1>2. Cardinality(1 .. n) = n
  <2>1. Cardinality(1 .. n) = IF 1 > n THEN 0 ELSE n - 1 + 1
    BY FS_Interval
  <2> QED BY <2>1
<1>3. NextTxn = n + 1
  <2>1. NextTxn = 1 + Cardinality(1 .. n)
    BY <1>1, Zenon DEF NextTxn
  <2> QED BY <2>1, <1>2
<1>4. n + 1 \notin used
  BY <1>1
<1> QED BY <1>3, <1>4

\* A step that begins the next transaction, and no other, keeps the order.
LEMMA BeginKeepsOrder ==
    ASSUME Types, InOrder, NextTxn \in Txn, tx'[NextTxn].state # "none",
           \A t \in Txn \ {NextTxn} : tx'[t].state # "none" <=> tx[t].state # "none"
    PROVE  InOrder' /\ tx[NextTxn].state = "none"
<1>1. PICK n \in Nat : Numbered(n)
  BY DEF InOrder
<1>2. NextTxn = n + 1 /\ tx[NextTxn].state = "none"
  BY <1>1, NextIsNew
<1>3. n + 1 \in 0 .. MaxTxn /\ MaxTxn \in Nat
  BY <1>2, SessionBounds DEF Txn
<1>4. {t \in Txn : tx'[t].state # "none"} = {t \in Txn : tx[t].state # "none"} \cup {NextTxn}
  OBVIOUS
<1>5. (1 .. n) \cup {n + 1} = 1 .. n + 1
  OBVIOUS
<1>6. {t \in Txn : tx'[t].state # "none"} = 1 .. n + 1
  BY <1>1, <1>2, <1>4, <1>5 DEF Numbered
<1> QED BY <1>2, <1>3, <1>6 DEF InOrder, Numbered

\* A step that begins none keeps it too.
LEMMA NoneBegins ==
    ASSUME InOrder, \A t \in Txn : tx'[t].state # "none" <=> tx[t].state # "none"
    PROVE  InOrder'
<1>1. {t \in Txn : tx'[t].state # "none"} = {t \in Txn : tx[t].state # "none"}
  OBVIOUS
<1> QED BY <1>1 DEF InOrder, Numbered

-----------------------------------------------------------------------------
LEMMA InitInv == Init => Inv
<1> SUFFICES ASSUME Init PROVE Inv
  OBVIOUS
<1>1. NoTree \in Trees /\ NoTree.of = NoConn
  BY DEF NoTree, Trees
<1>2. Types
  BY <1>1 DEF Init, Types, Places, Transactions, Kinds, NoTxn
<1>3. InOrder
  <2>1. {t \in Txn : tx[t].state # "none"} = 1 .. 0
    BY DEF Init
  <2> QED BY <2>1, SessionBounds DEF InOrder, Numbered
<1>4. ListenerInv /\ Mutex
  BY SessionBounds DEF Init, ListenerInv, OneStarts, Handoff, Mutex
<1>5. Own /\ Alive /\ Explicit /\ TreeRight /\ AnsweredAsAsked
  BY DEF Init, Own, Alive, Explicit, TreeRight, AnsweredAsAsked
<1> QED BY <1>2, <1>3, <1>4, <1>5 DEF Inv

\* The listener.
LEMMA LockSocketInv == ASSUME Inv, LockSocket PROVE Inv'
<1> USE DEF Inv, LockSocket
<1>1. Types'
  BY DEF Types
<1>2. ListenerInv'
  BY DEF Types, ListenerInv, OneStarts, Handoff
<1>3. Mutex' /\ InOrder' /\ Own' /\ Alive' /\ Explicit' /\ TreeRight' /\ AnsweredAsAsked'
  BY DEF Mutex, InOrder, Numbered, Own, Alive, Explicit, TreeRight, IsFor, AnsweredAsAsked
<1> QED BY <1>1, <1>2, <1>3

LEMMA AcceptErrorInv == ASSUME Inv, AcceptError PROVE Inv'
<1> USE DEF Inv, AcceptError
<1>1. Types'
  BY DEF Types
<1>2. ListenerInv'
  BY DEF Types, ListenerInv, OneStarts, Handoff
<1>3. Explicit'
  BY DEF Types, Explicit
<1>4. Mutex' /\ InOrder' /\ Own' /\ Alive' /\ TreeRight' /\ AnsweredAsAsked'
  BY DEF Mutex, InOrder, Numbered, Own, Alive, TreeRight, IsFor, AnsweredAsAsked
<1> QED BY <1>1, <1>2, <1>3, <1>4

\* Every connection is accepted once, when it has no thread.
LEMMA AcceptInv == ASSUME Inv, NEW c \in Conn, Accept(c) PROVE Inv'
<1>1. /\ at[c] = "none" /\ at' \in {at, [at EXCEPT ![c] = "start"]}
      /\ UNCHANGED <<sockfd_mutex, fd, stmt, txn_id, ctx, parse_tree, tree, buffer_mutex, tx,
                     answer, ghost>>
  BY DEF Inv, Accept, ListenerInv, OneStarts
<1>2. Types'
  BY <1>1 DEF Inv, Types, Accept, Places
<1>3. ListenerInv'
  BY DEF Inv, Types, Accept, ListenerInv, OneStarts, Handoff
<1>4. Mutex'
  BY <1>1 DEF Inv, Types, Mutex
<1>5. InOrder' /\ Own'
  BY <1>1 DEF Inv, InOrder, Numbered, Own
<1>6. Alive' /\ Explicit'
  BY <1>1 DEF Inv, Types, Alive, Explicit
<1>7. TreeRight' /\ AnsweredAsAsked'
  BY <1>1 DEF Inv, Types, TreeRight, IsFor, AnsweredAsAsked
<1> QED BY <1>2, <1>3, <1>4, <1>5, <1>6, <1>7 DEF Inv

\* The thread copies what the listener has accepted.
LEMMA StartThreadInv == ASSUME Inv, NEW c \in Conn, StartThread(c) PROVE Inv'
<1>1. /\ at[c] = "start" /\ at' = [at EXCEPT ![c] = "read"] /\ fd' = [fd EXCEPT ![c] = c]
      /\ sockfd_mutex' = "free" /\ listener.at = "lock"
      /\ UNCHANGED <<listener, conn, stmt, txn_id, ctx, parse_tree, tree, buffer_mutex, tx,
                     answer, ghost>>
  <2>1. at[c] = "start"
    BY DEF StartThread
  <2>2. listener.at = "lock" /\ listener.sockfd = c
    BY <2>1 DEF Inv, ListenerInv, OneStarts
  <2> QED BY <2>1, <2>2 DEF StartThread
<1>2. Types'
  BY <1>1 DEF Inv, Types, Places
<1>3. ListenerInv'
  BY <1>1 DEF Inv, Types, ListenerInv, OneStarts, Handoff
<1>4. Mutex'
  BY <1>1 DEF Inv, Types, Mutex
<1>5. InOrder' /\ Own'
  BY <1>1 DEF Inv, InOrder, Numbered, Own
<1>6. Alive' /\ Explicit'
  BY <1>1 DEF Inv, Types, Alive, Explicit
<1>7. TreeRight' /\ AnsweredAsAsked'
  BY <1>1 DEF Inv, Types, TreeRight, IsFor, AnsweredAsAsked
<1> QED BY <1>2, <1>3, <1>4, <1>5, <1>6, <1>7 DEF Inv

-----------------------------------------------------------------------------
\* The steps of a thread with a statement leave the listener as it is.
LEMMA ListenerKept ==
    ASSUME Inv, NEW c \in Conn, NEW p \in Places \ {"none", "start"}, at[c] \notin {"none", "start"},
           at' = [at EXCEPT ![c] = p], UNCHANGED listenerVars
    PROVE  ListenerInv'
  BY DEF Inv, Types, listenerVars, ListenerInv, OneStarts, Handoff

\* A statement arrives, or the client is gone.
LEMMA ReadInv == ASSUME Inv, NEW c \in Conn, Read(c) PROVE Inv'
<1>1. PICK p \in {"set", "closed"} : at' = [at EXCEPT ![c] = p]
  BY DEF Read
<1>2. /\ at[c] = "read" /\ UNCHANGED <<listenerVars, txn_id, ctx, parse_tree, tree, buffer_mutex,
                                       tx, answer, ghost>>
  BY DEF Read
<1>3. stmt' \in [Conn -> [kind : Kinds \cup {"none"}, n : Nat]] /\ \A d \in Conn \ {c} : stmt'[d] = stmt[d]
  <2>1. CASE UNCHANGED stmt
    BY <2>1 DEF Inv, Types
  <2>2. ASSUME NEW k \in Kinds, stmt' = [stmt EXCEPT ![c] = [kind |-> k, n |-> @.n + 1]]
        PROVE  /\ stmt' \in [Conn -> [kind : Kinds \cup {"none"}, n : Nat]]
               /\ \A d \in Conn \ {c} : stmt'[d] = stmt[d]
    BY <2>2 DEF Inv, Types
  <2> QED BY <2>1, <2>2 DEF Read
<1>4. Types'
  BY <1>1, <1>2, <1>3 DEF Inv, Types, Places, listenerVars
<1>5. ListenerInv'
  BY <1>1, <1>2, ListenerKept DEF Places
<1>6. Mutex'
  BY <1>1, <1>2 DEF Inv, Types, Mutex
<1>7. InOrder' /\ Own'
  BY <1>2 DEF Inv, InOrder, Numbered, Own
<1>8. Alive' /\ Explicit'
  BY <1>1, <1>2 DEF Inv, Types, Alive, Explicit
<1>9. TreeRight' /\ AnsweredAsAsked'
  BY <1>1, <1>2, <1>3 DEF Inv, Types, TreeRight, IsFor, AnsweredAsAsked
<1> QED BY <1>4, <1>5, <1>6, <1>7, <1>8, <1>9 DEF Inv

\* The transaction of the last statement goes on, or one begins.
LEMMA SetTransactionInv == ASSUME Inv, NEW c \in Conn, SetTransaction(c) PROVE Inv'
<1>1. /\ at[c] = "set" /\ at' = [at EXCEPT ![c] = "parse"]
      /\ UNCHANGED <<listenerVars, stmt, parse_tree, tree, buffer_mutex, answer, ghost>>
  BY DEF SetTransaction
<1>2. ListenerInv'
  BY <1>1, ListenerKept DEF Places
<1>3. Mutex' /\ TreeRight' /\ AnsweredAsAsked'
  <2>1. Mutex'
    BY <1>1 DEF Inv, Types, Mutex
  <2>2. TreeRight' /\ AnsweredAsAsked'
    BY <1>1 DEF Inv, Types, TreeRight, IsFor, AnsweredAsAsked
  <2> QED BY <2>1, <2>2
<1>4. CASE GoesOn(txn_id[c])
  <2>1. txn_id[c] # NoTxn /\ tx[txn_id[c]].state = "active" /\ UNCHANGED <<txn_id, tx>> /\ ctx' = ctx
    BY <1>4 DEF SetTransaction, GoesOn, Inv, Types, Own
  <2>2. Types'
    BY <1>1, <2>1 DEF Inv, Types, Places, listenerVars
  <2>3. InOrder' /\ Own'
    BY <2>1 DEF Inv, InOrder, Numbered, Own
  <2>4. Alive' /\ Explicit'
    BY <1>1, <2>1 DEF Inv, Types, Alive, Explicit
  <2> QED BY <1>2, <1>3, <2>2, <2>3, <2>4 DEF Inv
<1>5. CASE ~GoesOn(txn_id[c])
  <2>1. /\ NextTxn \in Txn /\ NextTxn # NoTxn
        /\ ctx' = [ctx EXCEPT ![c] = NextTxn] /\ txn_id' = [txn_id EXCEPT ![c] = NextTxn]
        /\ tx' = [tx EXCEPT ![NextTxn] = Began(FALSE)]
    <3>1. NextTxn \in Txn
      BY <1>5 DEF SetTransaction
    <3>2. NoTxn \notin Txn
      BY DEF Txn, NoTxn
    <3> QED BY <1>5, <3>1, <3>2 DEF SetTransaction
  <2>2. Began(FALSE) \in Transactions /\ Began(FALSE).state = "active"
        /\ ~Began(FALSE).freed /\ ~Began(FALSE).mode
    BY DEF Began, Transactions
  <2> DEFINE t == NextTxn
  <2> HIDE DEF t
  <2>3. /\ t \in Txn /\ t # NoTxn /\ ctx' = [ctx EXCEPT ![c] = t] /\ txn_id' = [txn_id EXCEPT ![c] = t]
        /\ tx' \in [Txn -> Transactions] /\ tx'[t] = Began(FALSE) /\ \A u \in Txn \ {t} : tx'[u] = tx[u]
    BY <2>1, <2>2 DEF t, Inv, Types
  <2>4. InOrder' /\ tx[t].state = "none"
    BY <2>2, <2>3, BeginKeepsOrder DEF t, Inv
  <2>5. Types'
    BY <1>1, <2>3 DEF Inv, Types, Places, listenerVars
  <2>6. \A d \in Conn : txn_id[d] # t
    BY <2>3, <2>4 DEF Inv, Types, Own
  <2>7. Own'
    BY <2>2, <2>3, <2>6 DEF Inv, Types, Own
  <2>8. /\ txn_id'[c] = t
        /\ \A d \in Conn \ {c} : /\ at'[d] = at[d] /\ txn_id'[d] = txn_id[d]
                                 /\ txn_id[d] # NoTxn => tx'[txn_id[d]] = tx[txn_id[d]]
    BY <1>1, <2>3, <2>6 DEF Inv, Types
  <2>9. Alive'
    <3>1. at'[c] = "parse" /\ txn_id'[c] # NoTxn /\ tx'[txn_id'[c]].state = "active"
      BY <1>1, <2>2, <2>3, <2>8 DEF Inv, Types
    <3> QED BY <2>8, <3>1 DEF Inv, Alive
  <2>10. Explicit'
    <3>1. ~tx'[txn_id'[c]].mode /\ at'[c] # "read"
      BY <1>1, <2>2, <2>3, <2>8 DEF Inv, Types
    <3> QED BY <1>1, <2>8, <3>1 DEF Inv, Explicit
  <2> QED BY <1>2, <1>3, <2>4, <2>5, <2>7, <2>9, <2>10 DEF Inv
<1> QED BY <1>4, <1>5

\* The steps that leave the transactions alone: a session goes on to p, which is not
\* between statements, with an active transaction, or with one that it knows.
LEMMA TransactionsKept ==
    ASSUME Inv, NEW c \in Conn,
           at[c] \in {"parse", "analyze", "refused", "plan", "portal"},
           NEW p \in {"analyze", "refused", "plan", "portal", "reply"},
           at[c] = "refused" => p = "reply",
           at' = [at EXCEPT ![c] = p], UNCHANGED <<listenerVars, txn_id, ctx, tx, ghost>>
    PROVE  ListenerInv' /\ InOrder' /\ Own' /\ Alive' /\ Explicit'
<1>1. ListenerInv'
  BY ListenerKept DEF Places
<1>2. InOrder' /\ Own'
  BY DEF Inv, InOrder, Numbered, Own
<1>3. Alive'
  BY DEF Inv, Types, Alive
<1>4. Explicit'
  BY DEF Inv, Types, Explicit
<1> QED BY <1>1, <1>2, <1>3, <1>4

\* The parser is entered by one thread at a time, so the tree is its own.
LEMMA ParseInv == ASSUME Inv, NEW c \in Conn, Parse(c) PROVE Inv'
<1> DEFINE p == IF stmt[c].kind \in Empty THEN "refused" ELSE "analyze"
           mine == [explain |-> stmt[c].kind = "explain", of |-> c]
<1>1. /\ at[c] = "parse" /\ at' = [at EXCEPT ![c] = p] /\ buffer_mutex = "free" /\ buffer_mutex' = c
      /\ parse_tree' = IF stmt[c].kind = "syntax" THEN parse_tree ELSE mine
      /\ UNCHANGED <<listenerVars, stmt, txn_id, ctx, tree, tx, answer, ghost>>
  BY DEF Parse
<1>2. mine \in Trees /\ mine.of = c /\ (mine.explain <=> stmt[c].kind = "explain")
  BY DEF Trees
<1>3. p \in {"refused", "analyze"} /\ (p = "refused" <=> stmt[c].kind \in Empty)
  OBVIOUS
<1>4. "free" \notin Conn /\ NoConn \notin Conn
  BY SessionBounds
<1> HIDE DEF p, mine
<1>5. Types'
  BY <1>1, <1>2, <1>3 DEF Inv, Types, Places, listenerVars
<1>6. ListenerInv' /\ InOrder' /\ Own' /\ Alive' /\ Explicit'
  BY <1>1, <1>3, TransactionsKept
<1>7. Mutex'
  BY <1>1, <1>3, <1>4 DEF Inv, Types, Mutex
<1>8. p = "analyze" => IsFor(parse_tree, c)'
  BY <1>1, <1>2, <1>3, <1>4 DEF IsFor, Empty
<1>9. TreeRight'
  <2> SUFFICES ASSUME NEW d \in Conn
               PROVE  /\ at'[d] \notin {"portal", "reply"} => tree'[d] = NoTree
                      /\ at'[d] \in {"analyze", "plan"} => stmt'[d].kind \notin Empty /\ IsFor(parse_tree, d)'
                      /\ at'[d] \in {"plan", "portal"} => stmt'[d].kind \notin Empty \cup {"semantics"}
                      /\ at'[d] = "refused" => stmt'[d].kind \in Empty \cup {"semantics"}
                      /\ at'[d] = "portal" => IsFor(tree[d], d)'
    BY DEF TreeRight
  <2>1. CASE d = c
    BY <2>1, <1>1, <1>3, <1>8 DEF Inv, Types, TreeRight
  <2>2. CASE d # c
    <3>1. at'[d] = at[d] /\ tree' = tree /\ stmt' = stmt
      BY <2>2, <1>1 DEF Inv, Types
    <3>2. IsFor(parse_tree, d) => IsFor(parse_tree, d)'
      BY <2>2, <1>1, <1>2, <1>4 DEF IsFor
    <3> QED BY <3>1, <3>2 DEF Inv, TreeRight, IsFor
  <2> QED BY <2>1, <2>2
<1>10. AnsweredAsAsked'
  BY <1>1, <1>3 DEF Inv, Types, AnsweredAsAsked
<1> QED BY <1>5, <1>6, <1>7, <1>9, <1>10 DEF Inv

LEMMA AnalyzeInv == ASSUME Inv, NEW c \in Conn, Analyze(c) PROVE Inv'
<1> DEFINE p == IF stmt[c].kind = "semantics" THEN "refused" ELSE "plan"
<1>1. /\ at[c] = "analyze" /\ at' = [at EXCEPT ![c] = p]
      /\ buffer_mutex' = IF p = "refused" THEN buffer_mutex ELSE "free"
      /\ UNCHANGED <<listenerVars, stmt, txn_id, ctx, parse_tree, tree, tx, answer, ghost>>
  BY DEF Analyze
<1>2. p \in {"refused", "plan"} /\ (p = "refused" <=> stmt[c].kind = "semantics")
  OBVIOUS
<1>3. "free" \notin Conn
  BY SessionBounds
<1> HIDE DEF p
<1>4. Types'
  BY <1>1, <1>2 DEF Inv, Types, Places, listenerVars
<1>5. ListenerInv' /\ InOrder' /\ Own' /\ Alive' /\ Explicit'
  BY <1>1, <1>2, TransactionsKept
<1>6. Mutex'
  BY <1>1, <1>2, <1>3 DEF Inv, Types, Mutex
<1>7. TreeRight'
  BY <1>1, <1>2 DEF Inv, Types, TreeRight, IsFor
<1>8. AnsweredAsAsked'
  BY <1>1, <1>2 DEF Inv, Types, AnsweredAsAsked
<1> QED BY <1>4, <1>5, <1>6, <1>7, <1>8 DEF Inv

LEMMA RefuseInv == ASSUME Inv, NEW c \in Conn, Refuse(c) PROVE Inv'
<1>1. /\ at[c] = "refused" /\ at' = [at EXCEPT ![c] = "reply"] /\ buffer_mutex' = "free"
      /\ answer' = [answer EXCEPT ![c] = IF stmt[c].kind \in Empty THEN "nothing" ELSE "failure"]
      /\ UNCHANGED <<listenerVars, stmt, txn_id, ctx, parse_tree, tree, tx, ghost>>
  BY DEF Refuse
<1>2. "free" \notin Conn
  BY SessionBounds
<1>3. Types'
  BY <1>1 DEF Inv, Types, Places, listenerVars
<1>4. ListenerInv' /\ InOrder' /\ Own' /\ Alive' /\ Explicit'
  BY <1>1, TransactionsKept
<1>5. Mutex'
  BY <1>1, <1>2 DEF Inv, Types, Mutex
<1>6. TreeRight'
  BY <1>1 DEF Inv, Types, TreeRight, IsFor
<1>7. AnsweredAsAsked'
  BY <1>1 DEF Inv, Types, TreeRight, AnsweredAsAsked, Empty
<1> QED BY <1>3, <1>4, <1>5, <1>6, <1>7 DEF Inv

LEMMA PlanInv == ASSUME Inv, NEW c \in Conn, Plan(c) PROVE Inv'
<1>1. /\ at[c] = "plan" /\ at' = [at EXCEPT ![c] = "portal"] /\ tree' = [tree EXCEPT ![c] = parse_tree]
      /\ UNCHANGED <<listenerVars, stmt, txn_id, ctx, parse_tree, buffer_mutex, tx, answer, ghost>>
  BY DEF Plan
<1>2. Types'
  BY <1>1 DEF Inv, Types, Places, listenerVars
<1>3. ListenerInv' /\ InOrder' /\ Own' /\ Alive' /\ Explicit'
  BY <1>1, TransactionsKept
<1>4. Mutex'
  BY <1>1 DEF Inv, Types, Mutex
<1>5. TreeRight'
  BY <1>1 DEF Inv, Types, TreeRight, IsFor
<1>6. AnsweredAsAsked'
  BY <1>1 DEF Inv, Types, AnsweredAsAsked
<1> QED BY <1>2, <1>3, <1>4, <1>5, <1>6 DEF Inv

LEMMA ExplainInv == ASSUME Inv, NEW c \in Conn, Explain(c) PROVE Inv'
<1>1. /\ at[c] = "portal" /\ at' = [at EXCEPT ![c] = "reply"] /\ tree[c].explain
      /\ answer' = [answer EXCEPT ![c] = "plan"]
      /\ UNCHANGED <<listenerVars, stmt, txn_id, ctx, parse_tree, tree, buffer_mutex, tx, ghost>>
  BY DEF Explain
<1>2. Types'
  BY <1>1 DEF Inv, Types, Places, listenerVars
<1>3. ListenerInv' /\ InOrder' /\ Own' /\ Alive' /\ Explicit'
  BY <1>1, TransactionsKept
<1>4. Mutex'
  BY <1>1 DEF Inv, Types, Mutex
<1>5. TreeRight'
  BY <1>1 DEF Inv, Types, TreeRight, IsFor
<1>6. AnsweredAsAsked'
  BY <1>1 DEF Inv, Types, TreeRight, IsFor, AnsweredAsAsked
<1> QED BY <1>2, <1>3, <1>4, <1>5, <1>6 DEF Inv

-----------------------------------------------------------------------------
\* A step on the transaction of a session is not noticed by another session.
LEMMA OthersKept ==
    ASSUME Inv, NEW c \in Conn, txn_id[c] # NoTxn, UNCHANGED txn_id,
           \A u \in Txn \ {txn_id[c]} : tx'[u] = tx[u]
    PROVE  \A d \in Conn \ {c} : txn_id[d] # NoTxn => tx'[txn_id[d]] = tx[txn_id[d]]
  BY DEF Inv, Types, Own

\* The end of Portal::run: the answer is as asked.
LEMMA RunAnswers ==
    ASSUME Inv, NEW c \in Conn, Runs(c), NEW a \in {"rows", "failure", "done", "abort"},
           answer' = [answer EXCEPT ![c] = a], at' = [at EXCEPT ![c] = "reply"],
           UNCHANGED <<stmt, parse_tree, tree, buffer_mutex>>
    PROVE  Mutex' /\ TreeRight' /\ AnsweredAsAsked'
<1>1. at[c] = "portal" /\ ~tree[c].explain
  BY DEF Runs
<1>2. Mutex'
  BY <1>1 DEF Inv, Types, Mutex
<1>3. TreeRight'
  BY <1>1 DEF Inv, Types, TreeRight, IsFor
<1>4. /\ stmt[c].kind \notin Empty \cup {"semantics"} /\ tree[c].of # NoConn
      /\ tree[c].of = c => stmt[c].kind # "explain"
  BY <1>1 DEF Inv, TreeRight, IsFor
<1>5. AnsweredAsAsked'
  BY <1>1, <1>4 DEF Inv, Types, AnsweredAsAsked
<1> QED BY <1>2, <1>3, <1>5

LEMMA RunInv == ASSUME Inv, NEW c \in Conn, Run(c) PROVE Inv'
<1> DEFINE t == txn_id[c]
<1>1. PICK a \in {"rows", "failure", "done"} : answer' = [answer EXCEPT ![c] = a]
  BY DEF Run
<1>2. /\ Runs(c) /\ at[c] = "portal" /\ at' = [at EXCEPT ![c] = "reply"]
      /\ UNCHANGED <<listenerVars, stmt, txn_id, ctx, parse_tree, tree, buffer_mutex>>
  BY DEF Run, Runs
<1>3. Mutex' /\ TreeRight' /\ AnsweredAsAsked'
  BY <1>1, <1>2, RunAnswers
<1>4. ListenerInv'
  BY <1>2, ListenerKept DEF Places
<1>5. t # NoTxn /\ t \in Txn /\ ctx[c] = t /\ tx[t].state = "active"
  BY <1>2 DEF Inv, Types, Own, Alive
<1> HIDE DEF t
<1>6. CASE UNCHANGED <<tx, ghost>>
  <2>1. Types'
    BY <1>1, <1>2, <1>6 DEF Inv, Types, Places, listenerVars
  <2>2. InOrder' /\ Own' /\ Alive' /\ Explicit'
    BY <1>2, <1>6, TransactionsKept
  <2> QED BY <1>3, <1>4, <2>1, <2>2 DEF Inv
<1>7. CASE /\ tx' = [tx EXCEPT ![t].mode = TRUE] /\ ghost' = [ghost EXCEPT !.begun = @ \cup {c}]
  <2>1. /\ tx' \in [Txn -> Transactions] /\ \A u \in Txn \ {t} : tx'[u] = tx[u]
        /\ tx'[t].state = "active" /\ tx'[t].freed = tx[t].freed
    BY <1>5, <1>7 DEF Inv, Types, Transactions
  <2>2. /\ ghost' \in [begun : SUBSET Conn, lost : SUBSET Conn, failed : BOOLEAN]
        /\ ghost'.begun = ghost.begun \cup {c} /\ ghost'.lost = ghost.lost
    BY <1>7 DEF Inv, Types
  <2>3. Types'
    BY <1>1, <1>2, <2>1, <2>2 DEF Inv, Types, Places, listenerVars
  <2>4. InOrder'
    BY <1>5, <2>1, NoneBegins DEF Inv
  <2>5. \A d \in Conn \ {c} : txn_id[d] # NoTxn => tx'[txn_id[d]] = tx[txn_id[d]]
    BY <1>2, <1>5, <2>1, OthersKept DEF t
  <2>6. Own'
    BY <1>2, <1>5, <2>1, <2>5 DEF Inv, Own, t
  <2>7. Alive'
    BY <1>2, <1>5, <2>1, <2>5 DEF Inv, Types, Alive, t
  <2>8. Explicit'
    BY <1>2, <1>5, <2>2, <2>5 DEF Inv, Types, Explicit, t
  <2> QED BY <1>3, <1>4, <2>3, <2>4, <2>6, <2>7, <2>8 DEF Inv
<1>8. CASE /\ tx' = Ended(t) /\ ghost' = [ghost EXCEPT !.begun = @ \ {c}, !.lost = @ \ {c}]
  <2>1. /\ tx' \in [Txn -> Transactions] /\ \A u \in Txn \ {t} : tx'[u] = tx[u]
        /\ tx'[t].state = "ended" /\ tx'[t].freed = tx[t].freed
    BY <1>5, <1>8 DEF Inv, Types, Transactions, Ended
  <2>2. /\ ghost' \in [begun : SUBSET Conn, lost : SUBSET Conn, failed : BOOLEAN]
        /\ ghost'.begun = ghost.begun \ {c} /\ ghost'.lost = ghost.lost \ {c}
    BY <1>8 DEF Inv, Types
  <2>3. Types'
    BY <1>1, <1>2, <2>1, <2>2 DEF Inv, Types, Places, listenerVars
  <2>4. InOrder'
    BY <1>5, <2>1, NoneBegins DEF Inv
  <2>5. \A d \in Conn \ {c} : txn_id[d] # NoTxn => tx'[txn_id[d]] = tx[txn_id[d]]
    BY <1>2, <1>5, <2>1, OthersKept DEF t
  <2>6. Own'
    BY <1>2, <1>5, <2>1, <2>5 DEF Inv, Own, t
  <2>7. Alive'
    BY <1>2, <1>5, <2>1, <2>5 DEF Inv, Types, Alive, t
  <2>8. Explicit'
    BY <1>2, <1>5, <2>1, <2>2, <2>5 DEF Inv, Types, Explicit, t
  <2> QED BY <1>3, <1>4, <2>3, <2>4, <2>6, <2>7, <2>8 DEF Inv
<1> QED BY <1>5, <1>6, <1>7, <1>8 DEF Run, t

\* After a conflict the session has the transaction that takes the place of the
\* deleted one, in both of its places.
LEMMA ConflictInv == ASSUME Inv, NEW c \in Conn, Conflict(c) PROVE Inv'
<1> DEFINE o == txn_id[c]  t == NextTxn
<1>1. /\ Runs(c) /\ at[c] = "portal" /\ at' = [at EXCEPT ![c] = "reply"]
      /\ answer' = [answer EXCEPT ![c] = "abort"]
      /\ UNCHANGED <<listenerVars, stmt, parse_tree, tree, buffer_mutex>>
  BY DEF Conflict, Runs
<1>2. Mutex' /\ TreeRight' /\ AnsweredAsAsked'
  BY <1>1, RunAnswers
<1>3. ListenerInv'
  BY <1>1, ListenerKept DEF Places
<1>4. o # NoTxn /\ o \in Txn /\ ctx[c] = o /\ tx[o].state = "active" /\ t \in Txn
  BY <1>1 DEF Inv, Types, Own, Alive, Conflict
<1>5. tx[t].state = "none"
  BY <1>4, NextIsNew DEF Inv, InOrder
<1>6. o # t /\ t # NoTxn
  BY <1>4, <1>5 DEF Txn, NoTxn
<1>7. /\ ctx' = [ctx EXCEPT ![c] = t] /\ txn_id' = [txn_id EXCEPT ![c] = t]
      /\ tx' = [tx EXCEPT ![o].state = "ended", ![o].freed = TRUE, ![t] = Began(TRUE)]
      /\ ghost' = [ghost EXCEPT !.begun = @ \ {c}, !.lost = @ \cup {c}]
  BY <1>4 DEF Conflict
<1>8. /\ Began(TRUE) \in Transactions /\ Began(TRUE).state = "active" /\ ~Began(TRUE).freed
  BY DEF Began, Transactions
<1> HIDE DEF o, t
<1>9. /\ tx' \in [Txn -> Transactions] /\ \A u \in Txn \ {o, t} : tx'[u] = tx[u]
      /\ tx'[o].state = "ended" /\ tx'[t] = Began(TRUE)
  <2> DEFINE x == [tx EXCEPT ![o].state = "ended"]
             y == [x EXCEPT ![o].freed = TRUE]
  <2>1. /\ x \in [Txn -> Transactions] /\ x[o].state = "ended" /\ \A u \in Txn \ {o} : x[u] = tx[u]
    BY <1>4 DEF Inv, Types, Transactions
  <2> HIDE DEF x
  <2>2. /\ y \in [Txn -> Transactions] /\ y[o].state = "ended" /\ \A u \in Txn \ {o} : y[u] = tx[u]
    BY <2>1, <1>4 DEF Transactions
  <2>3. tx' = [y EXCEPT ![t] = Began(TRUE)]
    BY <1>7 DEF x
  <2> HIDE DEF y
  <2> QED BY <2>2, <2>3, <1>4, <1>6, <1>8
<1>10. /\ ghost' \in [begun : SUBSET Conn, lost : SUBSET Conn, failed : BOOLEAN]
       /\ ghost'.begun = ghost.begun \ {c} /\ ghost'.lost = ghost.lost \cup {c}
  BY <1>7 DEF Inv, Types
<1>11. Types'
  BY <1>1, <1>4, <1>7, <1>9, <1>10 DEF Inv, Types, Places, listenerVars
<1>12. InOrder'
  <2>1. tx'[t].state # "none" /\ \A u \in Txn \ {t} : tx'[u].state # "none" <=> tx[u].state # "none"
    BY <1>4, <1>8, <1>9
  <2> QED BY <2>1, <1>4, BeginKeepsOrder DEF Inv, t
<1>13. \A d \in Conn : txn_id[d] # t
  BY <1>5, <1>6 DEF Inv, Types, Own
<1>14. /\ txn_id'[c] = t
       /\ \A d \in Conn \ {c} : /\ at'[d] = at[d] /\ txn_id'[d] = txn_id[d]
                                /\ txn_id[d] # NoTxn => tx'[txn_id[d]] = tx[txn_id[d]]
  BY <1>1, <1>4, <1>7, <1>9, <1>13 DEF Inv, Types, Own, o
<1>15. Own'
  <2>1. tx'[txn_id'[c]].state # "none" /\ ~tx'[txn_id'[c]].freed
    BY <1>8, <1>9, <1>14
  <2>2. ctx' = txn_id'
    BY <1>7 DEF Inv, Own
  <2>3. \A d \in Conn \ {c} : txn_id'[d] # t
    BY <1>13, <1>14
  <2> QED BY <2>1, <2>2, <2>3, <1>14 DEF Inv, Own
<1>16. Alive'
  <2>1. at'[c] = "reply" /\ txn_id'[c] # NoTxn
    BY <1>1, <1>6, <1>14 DEF Inv, Types
  <2> QED BY <2>1, <1>14 DEF Inv, Alive
<1>17. Explicit'
  BY <1>10, <1>14 DEF Inv, Explicit
<1> QED BY <1>2, <1>3, <1>11, <1>12, <1>15, <1>16, <1>17 DEF Inv

\* The reply, and the commit of a single statement.
LEMMA ReplyInv == ASSUME Inv, NEW c \in Conn, Reply(c) PROVE Inv'
<1> DEFINE t == txn_id[c]
<1>1. PICK p \in {"read", "closed"} : at' = [at EXCEPT ![c] = p]
  BY DEF Reply
<1>2. /\ at[c] = "reply" /\ stmt' = [stmt EXCEPT ![c].kind = "none"]
      /\ tree' = [tree EXCEPT ![c] = NoTree] /\ answer' = [answer EXCEPT ![c] = "none"]
      /\ UNCHANGED <<listenerVars, txn_id, ctx, parse_tree, buffer_mutex, ghost>>
  BY DEF Reply, Forget
<1>3. t # NoTxn /\ t \in Txn /\ ctx[c] = t
  BY <1>2 DEF Inv, Types, Own, Alive
<1>4. /\ p = "closed" => tx' = tx
      /\ p = "read" => tx' = IF tx[t].mode THEN tx ELSE Ended(t)
  BY <1>1, <1>3 DEF Reply, Inv, Types
<1> HIDE DEF t
<1>5. /\ tx' \in [Txn -> Transactions] /\ \A u \in Txn \ {t} : tx'[u] = tx[u]
      /\ tx'[t].freed = tx[t].freed /\ tx'[t].mode = tx[t].mode
      /\ tx'[t].state # "none" <=> tx[t].state # "none"
      /\ p = "read" /\ ~tx[t].mode => tx'[t].state = "ended"
      /\ tx'[t].state = "active" => tx[t].state = "active"
  <2>1. CASE tx' = tx
    BY <2>1, <1>3, <1>4 DEF Inv, Types, Transactions, Ended
  <2>2. CASE tx' = Ended(t) /\ tx[t].state # "none"
    BY <2>2, <1>3 DEF Inv, Types, Transactions, Ended
  <2> QED BY <2>1, <2>2, <1>3, <1>4 DEF Inv, Own, t
<1>6. NoTree \in Trees /\ NoTree.of = NoConn
  BY DEF NoTree, Trees
<1>7. stmt' \in [Conn -> [kind : Kinds \cup {"none"}, n : Nat]] /\ \A d \in Conn \ {c} : stmt'[d] = stmt[d]
  BY <1>2 DEF Inv, Types
<1>8. Types'
  BY <1>1, <1>2, <1>5, <1>6, <1>7 DEF Inv, Types, Places, listenerVars
<1>9. ListenerInv'
  BY <1>1, <1>2, ListenerKept DEF Places
<1>10. Mutex'
  BY <1>1, <1>2 DEF Inv, Types, Mutex
<1>11. InOrder'
  BY <1>3, <1>5, NoneBegins DEF Inv
<1>12. \A d \in Conn \ {c} : txn_id[d] # NoTxn => tx'[txn_id[d]] = tx[txn_id[d]]
  BY <1>2, <1>3, <1>5, OthersKept DEF t
<1>13. Own'
  BY <1>2, <1>3, <1>5, <1>12 DEF Inv, Own, t
<1>14. Alive'
  BY <1>1, <1>2, <1>12 DEF Inv, Types, Alive
<1>15. Explicit'
  BY <1>1, <1>2, <1>3, <1>5, <1>12 DEF Inv, Types, Explicit, t
<1>16. TreeRight' /\ AnsweredAsAsked'
  BY <1>1, <1>2, <1>7 DEF Inv, Types, TreeRight, IsFor, AnsweredAsAsked
<1> QED BY <1>8, <1>9, <1>10, <1>11, <1>13, <1>14, <1>15, <1>16 DEF Inv

LEMMA StepInv == Inv /\ [Next]_vars => Inv'
<1> SUFFICES ASSUME Inv, [Next]_vars PROVE Inv'
  OBVIOUS
<1>1. CASE LockSocket
  BY <1>1, LockSocketInv
<1>2. CASE AcceptError
  BY <1>2, AcceptErrorInv
<1>3. ASSUME NEW c \in Conn, Accept(c) PROVE Inv'
  BY <1>3, AcceptInv
<1>4. ASSUME NEW c \in Conn, Read(c) PROVE Inv'
  BY <1>4, ReadInv
<1>5. ASSUME NEW c \in Conn, Session(c) PROVE Inv'
  BY <1>5, StartThreadInv, SetTransactionInv, ParseInv, AnalyzeInv, RefuseInv, PlanInv, ExplainInv,
     RunInv, ConflictInv, ReplyInv DEF Session
<1>6. CASE UNCHANGED vars
  <2>1. Types' /\ ListenerInv' /\ Mutex' /\ InOrder' /\ Own'
    BY <1>6 DEF vars, Inv, Types, ListenerInv, OneStarts, Handoff, Mutex, InOrder, Numbered, Own
  <2>2. Alive' /\ Explicit' /\ TreeRight' /\ AnsweredAsAsked'
    BY <1>6 DEF vars, Inv, Alive, Explicit, TreeRight, IsFor, AnsweredAsAsked
  <2> QED BY <2>1, <2>2 DEF Inv
<1> QED BY <1>1, <1>2, <1>3, <1>4, <1>5, <1>6 DEF Next, Listen

-----------------------------------------------------------------------------
\* The inductive invariant holds in every reachable state of the server.
THEOREM ServerInv == Spec => []Inv
<1> QED BY InitInv, StepInv, PTL DEF Spec

\* Each thread copies the sockfd of its own connection: the mutex that start_server
\* takes and client_handler gives back covers the time in between.
THEOREM EveryThreadHasItsConnection == Spec => []Handoff
<1>1. Inv => Handoff
  BY DEF Inv, ListenerInv
<1> QED BY <1>1, ServerInv, PTL

\* A statement runs in an active transaction of its own session, deleted transactions
\* are forgotten, and none stays open between statements without a BEGIN or a
\* conflict.
THEOREM SessionsAreSeparate == Spec => []SessionInv
<1>1. Inv => SessionTypeOK
  BY DEF Inv, Types, Mutex, SessionTypeOK
<1>2. Inv => RunsInOwn
  BY DEF Inv, Types, Own, Alive, RunsInOwn
<1>3. Inv => NoThreadHoldsFreed
  BY DEF Inv, Own, NoThreadHoldsFreed
<1>4. Inv => OpenOnPurpose
  BY DEF Inv, Explicit, OpenOnPurpose
<1> QED BY <1>1, <1>2, <1>3, <1>4, ServerInv, PTL DEF SessionInv

\* The global parse tree gives each client the answer it asked for, unless another
\* session parses before the tree is copied.
THEOREM AnswersAreRight == Spec => []AnsweredAsAsked
<1>1. Inv => AnsweredAsAsked
  BY DEF Inv
<1> QED BY <1>1, ServerInv, PTL
=============================================================================
