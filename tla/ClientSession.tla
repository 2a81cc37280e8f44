--------------------------- MODULE ClientSession ---------------------------
(***************************************************************************)
(* The server's threads (src/src/rmdb.cpp): the listener that hands every  *)
(* connection to a thread through a variable on its stack, and the threads *)
(* that take the statements of their client through SetTransaction, the    *)
(* parser with its global parse tree, the portal and the reply.  What a    *)
(* statement does to rows is in Mvcc, and how begin, commit and abort      *)
(* interleave is in TransactionManager; here each of them is one step.     *)
(***************************************************************************)
EXTENDS Integers, FiniteSets

CONSTANTS Conn,             \* connections that clients ask for, a thread for each
          MaxTxn,           \* bound: transactions of the run
          MaxStatements     \* bound: the statements of each client

NoConn == "none"

ASSUME SessionBounds ==
    MaxTxn \in Nat /\ MaxStatements \in [Conn -> Nat] /\ {NoConn, "free"} \cap Conn = {}

NoTxn == 0                  \* INVALID_TXN_ID, nullptr
Txn == 1..MaxTxn            \* next_txn_id_ counts them

VARIABLES
    listener,       \* where the accept loop is, and sockfd on its stack
    sockfd_mutex,   \* "free", or locked
    conn,           \* what has become of each connection
    fd,             \* the connection that a thread copied from the listener
    at,             \* where the thread of a connection is
    stmt,           \* its statement, and how many it has had
    txn_id,         \* its txn_id
    ctx,            \* context->txn_
    parse_tree,     \* ast::parse_tree: who parsed last, and whether to be explained
    tree,           \* context->parse_tree
    buffer_mutex,   \* "free", or the connection whose thread has it
    tx,             \* the transactions
    answer,         \* what a client was answered
    ghost           \* the clients that are in BEGIN..COMMIT, or lost a transaction

vars == <<listener, sockfd_mutex, conn, fd, at, stmt, txn_id, ctx, parse_tree, tree,
          buffer_mutex, tx, answer, ghost>>

listenerVars == <<listener, sockfd_mutex, conn, fd>>
NoTree == [explain |-> FALSE, of |-> NoConn]

\* Statements: queries and updates, to be run or explained; BEGIN; COMMIT, ABORT and
\* ROLLBACK; EXIT, whose tree is null; and text that the parser or the analyzer refuses.
Kinds == {"dml", "explain", "begin", "end", "exit", "syntax", "semantics"}
Empty == {"exit", "syntax"}     \* nothing to run, and nothing to say

Init ==
    /\ listener = [at |-> "lock", sockfd |-> NoConn]
    /\ sockfd_mutex = "free"
    /\ conn = [c \in Conn |-> "waiting"]
    /\ fd = [c \in Conn |-> NoConn]
    /\ at = [c \in Conn |-> "none"]
    /\ stmt = [c \in Conn |-> [kind |-> "none", n |-> 0]]
    /\ txn_id = [c \in Conn |-> NoTxn]
    /\ ctx = [c \in Conn |-> NoTxn]
    /\ parse_tree = NoTree
    /\ tree = [c \in Conn |-> NoTree]
    /\ buffer_mutex = "free"
    /\ tx = [t \in Txn |-> [state |-> "none", mode |-> TRUE, freed |-> FALSE]]
    /\ answer = [c \in Conn |-> "none"]
    /\ ghost = [begun |-> {}, lost |-> {}, failed |-> FALSE]

-----------------------------------------------------------------------------
(***************************************************************************)
(* start_server.  The mutex is locked before accept and unlocked by the    *)
(* thread, once it has copied sockfd.                                      *)
(***************************************************************************)
\* Mutant: the lock is not asked for.
LockSocketAnyway ==
    /\ listener.at = "lock"
    /\ sockfd_mutex' = "locked"
    /\ listener' = [listener EXCEPT !.at = "accept"]
    /\ UNCHANGED <<conn, fd, at, stmt, txn_id, ctx, parse_tree, tree, buffer_mutex, tx,
                   answer, ghost>>

LockSocket ==
    /\ listener.at = "lock"
    /\ sockfd_mutex = "free"
    /\ sockfd_mutex' = "locked"
    /\ listener' = [listener EXCEPT !.at = "accept"]
    /\ UNCHANGED <<conn, fd, at, stmt, txn_id, ctx, parse_tree, tree, buffer_mutex, tx,
                   answer, ghost>>

\* accept and pthread_create, which can fail: then the loop ends.
Accept(c) ==
    /\ listener.at = "accept"
    /\ conn[c] = "waiting"
    /\ conn' = [conn EXCEPT ![c] = "accepted"]
    /\ \/ /\ listener' = [at |-> "lock", sockfd |-> c]
          /\ at' = [at EXCEPT ![c] = "start"]
       \/ /\ listener' = [at |-> "closed", sockfd |-> c]
          /\ UNCHANGED at
    /\ UNCHANGED <<sockfd_mutex, fd, stmt, txn_id, ctx, parse_tree, tree, buffer_mutex, tx,
                   answer, ghost>>

\* accept fails: back to the lock, which the listener still holds.
AcceptError ==
    /\ listener.at = "accept"
    /\ listener' = [at |-> "lock", sockfd |-> NoConn]
    /\ ghost' = [ghost EXCEPT !.failed = TRUE]
    /\ UNCHANGED <<sockfd_mutex, conn, fd, at, stmt, txn_id, ctx, parse_tree, tree,
                   buffer_mutex, tx, answer>>

\* The mutant does not unlock.
StartThreadLocked(c) ==
    /\ at[c] = "start"
    /\ fd' = [fd EXCEPT ![c] = listener.sockfd]
    /\ at' = [at EXCEPT ![c] = "read"]
    /\ UNCHANGED <<listener, sockfd_mutex, conn, stmt, txn_id, ctx, parse_tree, tree,
                   buffer_mutex, tx, answer, ghost>>

StartThread(c) ==
    /\ at[c] = "start"
    /\ fd' = [fd EXCEPT ![c] = listener.sockfd]
    /\ sockfd_mutex' = "free"
    /\ at' = [at EXCEPT ![c] = "read"]
    /\ UNCHANGED <<listener, conn, stmt, txn_id, ctx, parse_tree, tree, buffer_mutex, tx,
                   answer, ghost>>

-----------------------------------------------------------------------------
(***************************************************************************)
(* client_handler.                                                         *)
(***************************************************************************)
NextTxn == 1 + Cardinality({t \in Txn : tx[t].state # "none"})
Began(mode) == [state |-> "active", mode |-> mode, freed |-> FALSE]
Ended(t) == [tx EXCEPT ![t].state = "ended"]

\* A statement arrives, or the client is gone.
Read(c) ==
    /\ at[c] = "read"
    /\ \/ \E k \in Kinds :
            /\ stmt[c].n < MaxStatements[c]
            /\ NextTxn \in Txn
            /\ stmt' = [stmt EXCEPT ![c] = [kind |-> k, n |-> @.n + 1]]
            /\ at' = [at EXCEPT ![c] = "set"]
       \/ at' = [at EXCEPT ![c] = "closed"] /\ UNCHANGED stmt
    /\ UNCHANGED <<listenerVars, txn_id, ctx, parse_tree, tree, buffer_mutex, tx, answer, ghost>>

\* The transaction that goes on: explicit, and neither committed nor aborted.
\* The mutant does not ask for the state.
GoesOnEnded(t) == t # NoTxn /\ tx[t].mode

GoesOn(t) == t # NoTxn /\ tx[t].state = "active" /\ tx[t].mode

\* context->parse_tree is not set yet, so no statement counts as read-only, and
\* begin_read_only_snapshot is never called.
SetTransaction(c) ==
    /\ at[c] = "set"
    /\ IF GoesOn(txn_id[c])
       THEN ctx' = [ctx EXCEPT ![c] = txn_id[c]] /\ UNCHANGED <<txn_id, tx>>
       ELSE /\ NextTxn \in Txn
            /\ ctx' = [ctx EXCEPT ![c] = NextTxn]
            /\ txn_id' = [txn_id EXCEPT ![c] = NextTxn]
            /\ tx' = [tx EXCEPT ![NextTxn] = Began(FALSE)]
    /\ at' = [at EXCEPT ![c] = "parse"]
    /\ UNCHANGED <<listenerVars, stmt, parse_tree, tree, buffer_mutex, answer, ghost>>

\* yyparse, under buffer_mutex.  A text that does not parse leaves the tree of the
\* last one, EXIT leaves none: both end here.  The mutant goes on with that tree.
ParseAnyway(c) ==
    /\ at[c] = "parse"
    /\ buffer_mutex = "free"
    /\ buffer_mutex' = c
    /\ parse_tree' = IF stmt[c].kind = "syntax" THEN parse_tree
                     ELSE [explain |-> stmt[c].kind = "explain", of |-> c]
    /\ at' = [at EXCEPT ![c] = "analyze"]
    /\ UNCHANGED <<listenerVars, stmt, txn_id, ctx, tree, tx, answer, ghost>>

Parse(c) ==
    /\ at[c] = "parse"
    /\ buffer_mutex = "free"
    /\ buffer_mutex' = c
    /\ parse_tree' = IF stmt[c].kind = "syntax" THEN parse_tree
                     ELSE [explain |-> stmt[c].kind = "explain", of |-> c]
    /\ at' = [at EXCEPT ![c] = IF stmt[c].kind \in Empty THEN "refused" ELSE "analyze"]
    /\ UNCHANGED <<listenerVars, stmt, txn_id, ctx, tree, tx, answer, ghost>>

\* do_analyze, which reads the tree: the mutex is given back, or the error does it.
Analyze(c) ==
    /\ at[c] = "analyze"
    /\ IF stmt[c].kind = "semantics"
       THEN at' = [at EXCEPT ![c] = "refused"] /\ UNCHANGED buffer_mutex
       ELSE at' = [at EXCEPT ![c] = "plan"] /\ buffer_mutex' = "free"
    /\ UNCHANGED <<listenerVars, stmt, txn_id, ctx, parse_tree, tree, tx, answer, ghost>>

\* finish_analyze is false.  Only an error has put something into data_send.
Refuse(c) ==
    /\ at[c] = "refused"
    /\ buffer_mutex' = "free"
    /\ at' = [at EXCEPT ![c] = "reply"]
    /\ answer' = [answer EXCEPT ![c] = IF stmt[c].kind \in Empty THEN "nothing" ELSE "failure"]
    /\ UNCHANGED <<listenerVars, stmt, txn_id, ctx, parse_tree, tree, tx, ghost>>

\* plan_query; then the context gets the tree of whoever has parsed last.
Plan(c) ==
    /\ at[c] = "plan"
    /\ tree' = [tree EXCEPT ![c] = parse_tree]
    /\ at' = [at EXCEPT ![c] = "portal"]
    /\ UNCHANGED <<listenerVars, stmt, txn_id, ctx, parse_tree, buffer_mutex, tx, answer, ghost>>

\* Portal::start: a tree to be explained is answered with the plan.
Explain(c) ==
    /\ at[c] = "portal"
    /\ tree[c].explain
    /\ at' = [at EXCEPT ![c] = "reply"]
    /\ answer' = [answer EXCEPT ![c] = "plan"]
    /\ UNCHANGED <<listenerVars, stmt, txn_id, ctx, parse_tree, tree, buffer_mutex, tx, ghost>>

Runs(c) == at[c] = "portal" /\ ~tree[c].explain

\* Portal::run: run_cmd_utility for transaction control; a query or an update, which
\* also ends here when it throws an RMDBError, is nothing the transaction notices.
Run(c) ==
    /\ Runs(c)
    /\ \/ /\ stmt[c].kind \in {"dml", "explain"}
          /\ \E a \in {"rows", "failure"} : answer' = [answer EXCEPT ![c] = a]
          /\ UNCHANGED <<tx, ghost>>
       \/ /\ stmt[c].kind = "begin"
          /\ tx' = [tx EXCEPT ![ctx[c]].mode = TRUE]
          /\ ghost' = [ghost EXCEPT !.begun = @ \cup {c}]
          /\ answer' = [answer EXCEPT ![c] = "done"]
       \/ /\ stmt[c].kind = "end"
          /\ tx' = Ended(txn_id[c])
          /\ ghost' = [ghost EXCEPT !.begun = @ \ {c}, !.lost = @ \ {c}]
          /\ answer' = [answer EXCEPT ![c] = "done"]
    /\ at' = [at EXCEPT ![c] = "reply"]
    /\ UNCHANGED <<listenerVars, stmt, txn_id, ctx, parse_tree, tree, buffer_mutex>>

\* TransactionAbortException: the transaction is aborted and deleted, and a new one,
\* which begin makes explicit, takes its place.
Conflict(c) ==
    /\ Runs(c) /\ stmt[c].kind \in {"dml", "explain"}
    /\ NextTxn \in Txn
    /\ tx' = [tx EXCEPT ![ctx[c]].state = "ended", ![ctx[c]].freed = TRUE,
                        ![NextTxn] = Began(TRUE)]
    /\ ctx' = [ctx EXCEPT ![c] = NextTxn]
    /\ txn_id' = [txn_id EXCEPT ![c] = NextTxn]
    /\ ghost' = [ghost EXCEPT !.begun = @ \ {c}, !.lost = @ \cup {c}]
    /\ answer' = [answer EXCEPT ![c] = "abort"]
    /\ at' = [at EXCEPT ![c] = "reply"]
    /\ UNCHANGED <<listenerVars, stmt, parse_tree, tree, buffer_mutex>>

\* The context of the statement is left behind.
Forget(c) ==
    /\ stmt' = [stmt EXCEPT ![c].kind = "none"]
    /\ tree' = [tree EXCEPT ![c] = NoTree]
    /\ answer' = [answer EXCEPT ![c] = "none"]

\* The reply, then the commit of a single statement, whatever came of it.  A reply
\* that cannot be written ends the thread.
\* The mutant commits only what was answered with rows.
ReplyToRows(c) ==
    /\ at[c] = "reply"
    /\ \/ at' = [at EXCEPT ![c] = "closed"] /\ UNCHANGED tx
       \/ /\ at' = [at EXCEPT ![c] = "read"]
          /\ tx' = IF tx[ctx[c]].mode \/ answer[c] # "rows" THEN tx
                   ELSE Ended(ctx[c])
    /\ Forget(c)
    /\ UNCHANGED <<listenerVars, txn_id, ctx, parse_tree, buffer_mutex, ghost>>

Reply(c) ==
    /\ at[c] = "reply"
    /\ \/ at' = [at EXCEPT ![c] = "closed"] /\ UNCHANGED tx
       \/ /\ at' = [at EXCEPT ![c] = "read"]
          /\ tx' = IF tx[ctx[c]].mode THEN tx ELSE Ended(ctx[c])
    /\ Forget(c)
    /\ UNCHANGED <<listenerVars, txn_id, ctx, parse_tree, buffer_mutex, ghost>>

Session(c) ==
    \/ StartThread(c) \/ SetTransaction(c) \/ Parse(c) \/ Analyze(c) \/ Refuse(c) \/ Plan(c)
    \/ Explain(c) \/ Run(c) \/ Conflict(c) \/ Reply(c)

Listen == LockSocket \/ \E c \in Conn : Accept(c)

Next ==
    \/ \E c \in Conn : Read(c) \/ Session(c)
    \/ Listen \/ AcceptError

Spec == Init /\ [][Next]_vars

\* Threads are scheduled.  Clients owe nobody a statement.
FairSpec == Spec /\ WF_vars(Listen) /\ \A c \in Conn : WF_vars(Session(c))

-----------------------------------------------------------------------------
(***************************************************************************)
(* Properties.                                                             *)
(***************************************************************************)
\* Type invariant.
SessionTypeOK ==
    /\ listener.at \in {"lock", "accept", "closed"}
    /\ sockfd_mutex \in {"free", "locked"}
    /\ conn \in [Conn -> {"waiting", "accepted"}]
    /\ buffer_mutex \in Conn \cup {"free"}
    /\ txn_id \in [Conn -> Txn \cup {NoTxn}]
    /\ ctx \in [Conn -> Txn \cup {NoTxn}]
    /\ \A c \in Conn : buffer_mutex = c <=> at[c] \in {"analyze", "refused"}

\* Every thread serves the connection it was made for, and so no connection is served
\* twice or by nobody: sockfd is not overwritten before the thread has copied it.
Handoff == \A c \in Conn : at[c] \notin {"none", "start"} => fd[c] = c

\* A statement runs in a transaction that is active, was not deleted, and is no other
\* session's.
RunsInOwn ==
    \A c \in Conn : at[c] \in {"parse", "analyze", "plan", "portal"} =>
        /\ tx[ctx[c]].state = "active" /\ ~tx[ctx[c]].freed
        /\ \A d \in Conn \ {c} : ctx[d] # ctx[c] /\ txn_id[d] # ctx[c]

\* No thread goes on with the number of a deleted transaction, which txn_map still has.
NoThreadHoldsFreed ==
    \A c \in Conn : txn_id[c] # NoTxn => ~tx[txn_id[c]].freed

\* Between statements, a session has an active transaction only after a BEGIN, or in
\* place of one that was aborted by a conflict.
OpenOnPurpose ==
    \A c \in Conn : at[c] = "read" /\ txn_id[c] # NoTxn /\ tx[txn_id[c]].state = "active"
                    => c \in ghost.begun \cup ghost.lost

\* The mutexes and the transaction of every session, whatever its statements end in:
\* buffer_mutex is with the thread that parses or analyzes, and the transaction is
\* its own, alive, and open only on purpose.
SessionInv == SessionTypeOK /\ RunsInOwn /\ NoThreadHoldsFreed /\ OpenOnPurpose

\* A client that asks for a plan gets it, nobody else does, and what has no tree or
\* none that can be analyzed is not run, unless another session has parsed a statement
\* before the tree was copied.
AnsweredAsAsked ==
    \A c \in Conn :
        at[c] = "reply" /\ tree[c].of \in {c, NoConn} =>
            /\ answer[c] = "plan" <=> stmt[c].kind = "explain"
            /\ stmt[c].kind \in Empty => answer[c] = "nothing"
            /\ stmt[c].kind = "semantics" => answer[c] = "failure"

\* A client that connects is accepted, unless an accept has failed, after which the
\* listener waits for itself, or the server stops.
Accepted ==
    \A c \in Conn : conn[c] = "waiting" ~>
                        conn[c] = "accepted" \/ ghost.failed \/ listener.at = "closed"

\* The transaction of a single statement ends, or becomes explicit, unless the client
\* does not take the reply: no statement of another session, refused or not, keeps it
\* from the parser for ever.
SingleStatementEnds ==
    \A t \in Txn : tx[t].state = "active" /\ ~tx[t].mode ~>
        tx[t].state # "active" \/ tx[t].mode \/ \E c \in Conn : ctx[c] = t /\ at[c] = "closed"
=============================================================================
