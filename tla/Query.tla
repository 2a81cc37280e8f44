------------------------------- MODULE Query -------------------------------
(***************************************************************************)
(* One session's statements from the parse tree to the answer: analyze,    *)
(* plan, start the portal, and pull the rows (rmdb.cpp client_handler,     *)
(* optimizer.h plan_query, portal.h, execution_manager.cpp).  Nothing else *)
(* runs: what sessions do to each other, and transactions of several       *)
(* statements, are in ClientSession and Mvcc.                              *)
(***************************************************************************)
EXTENDS Executors

CONSTANTS
    Stmts,      \* the statements a client sends
    Later,      \* those it sends after its first INSERT, UPDATE or DELETE
    Dbs,        \* the databases the session may start on
    Junk,       \* what uninitialised memory may hold
    MaxWrites   \* bound on the INSERT, UPDATE and DELETE statements

VARIABLES
    db,         \* rows, indexes and row counts of the tables
    was,        \* db when the statement was sent
    stmt,       \* the parse tree, Null when there is none
    q,          \* the Query made of it
    plan,       \* the plan
    exec,       \* the executor tree of a SELECT
    todo,       \* the rows an UPDATE or DELETE has still to write
    undone,     \* the tables on which an UPDATE was rolled back after it wrote
    out,        \* the rows printed, or the lines of EXPLAIN
    err,        \* the error that ended the statement
    phase,
    writes

vars == <<db, was, stmt, q, plan, exec, todo, undone, out, err, phase, writes>>
work == <<q, plan, exec, todo, out>>

\* With two indexes an INSERT that the second refuses leaves its entry in the first,
\* and the entry leads to a slot that is free again: not followed here.
ASSUME OneIndex == \A d \in Dbs : \A t \in DOMAIN d.index : Len(d.index[t]) <= 1

Blank == /\ q' = Null /\ plan' = Null /\ exec' = Null /\ todo' = <<>> /\ out' = <<>>

Init == /\ db \in Dbs /\ was = db
        /\ stmt = Null /\ q = Null /\ plan = Null /\ exec = Null
        /\ todo = <<>> /\ undone = {} /\ out = <<>> /\ err = None /\ phase = "idle" /\ writes = 0

IsSelect == stmt.kind = "select"

\* The statement ends in an error, or the server in a crash.
Fail(e) == /\ err' = e
           /\ phase' = IF e \in Fatal THEN "dead" ELSE "error"
GoOn(e, next) == IF e # None THEN Fail(e) ELSE phase' = next /\ UNCHANGED err

Ask(s) == /\ phase = "idle"
          /\ s.kind # "select" => writes < MaxWrites
          /\ writes > 0 => s \in Later
          /\ stmt' = s /\ phase' = "parsed"
          /\ writes' = IF s.kind = "select" THEN writes ELSE writes + 1
          /\ UNCHANGED <<db, was, work, err, undone>>

Analyze == /\ phase = "parsed"
           /\ \E r \in {do_analyze(stmt)} : q' = r.q /\ GoOn(r.err, "analyzed")
           /\ UNCHANGED <<db, was, stmt, plan, exec, todo, out, undone, writes>>

PlanQuery == /\ phase = "analyzed"
             /\ plan' = do_planner(db, q)
             /\ phase' = "planned"
             /\ UNCHANGED <<db, was, stmt, q, exec, todo, out, err, undone, writes>>

\* Portal::start: EXPLAIN ends here, the constructors run, DELETE collects its rows.
StartExplain == /\ phase = "planned" /\ IsSelect /\ stmt.explain
                /\ out' = Explain(plan, 0)
                /\ phase' = "done"
                /\ UNCHANGED <<db, was, stmt, q, plan, exec, todo, err, undone, writes>>

StartSelect == /\ phase = "planned" /\ IsSelect /\ ~stmt.explain
               /\ \E junk \in Junk : \E e \in {convert_plan_executor(db, plan, junk)} :
                     exec' = e /\ GoOn(e.err, "ready")
               /\ UNCHANGED <<db, was, stmt, q, plan, todo, out, undone, writes>>

StartInsert == /\ phase = "planned" /\ stmt.kind = "insert"
               /\ GoOn(InsertErr(plan), "writing")
               /\ UNCHANGED <<db, was, stmt, q, plan, exec, todo, out, undone, writes>>

StartUpdate == /\ phase = "planned" /\ stmt.kind = "update"
               /\ \E junk \in Junk : GoOn(ScanExec(db, plan.sub, junk).err, "writing")
               /\ todo' = UpdateRids(db, plan)
               /\ UNCHANGED <<db, was, stmt, q, plan, exec, out, undone, writes>>

StartDelete == /\ phase = "planned" /\ stmt.kind = "delete"
               /\ \E junk \in Junk : \E found \in {FoundBy(ScanExec(db, plan.sub, junk))} :
                     todo' = found.rids /\ GoOn(found.err, "writing")
               /\ UNCHANGED <<db, was, stmt, q, plan, exec, out, undone, writes>>

\* QlManager::select_from: begin, then print a row and step until the end.
BeginTuple == /\ phase = "ready"
              /\ exec' = Begin(exec)
              /\ GoOn(exec'.err, "running")
              /\ UNCHANGED <<db, was, stmt, q, plan, todo, out, undone, writes>>

NextRow == /\ phase = "running" /\ ~End(exec)
           /\ \E got \in {Fetch(exec)} : \E next \in {IF got.e.err # None THEN got.e ELSE Step(got.e)} :
                 /\ exec' = next
                 /\ out' = IF got.rec = Null THEN out ELSE Append(out, got.rec)
                 /\ GoOn(next.err, "running")
           /\ UNCHANGED <<db, was, stmt, q, plan, todo, undone, writes>>

Finish == /\ phase = "running" /\ End(exec)
          /\ phase' = "done"
          /\ UNCHANGED <<db, was, stmt, work, err, undone, writes>>

\* QlManager::run_dml.  Each row is written before the next is looked at.
Insert == /\ phase = "writing" /\ stmt.kind = "insert"
          /\ \E r \in {InsertRow(db, plan)} : db' = r.db /\ GoOn(r.err, "done")
          /\ UNCHANGED <<was, stmt, work, undone, writes>>

Update == /\ phase = "writing" /\ stmt.kind = "update"
          /\ IF todo = <<>> THEN phase' = "done" /\ UNCHANGED <<db, todo, undone, err>>
             ELSE \E r \in {UpdateRow(db, plan, Head(todo))} :
                     /\ IF r.err # "TransactionAbort" THEN db' = r.db /\ UNCHANGED undone
                        ELSE /\ db' = RollBack(db, was, stmt.tab)
                             /\ undone' = IF db' = db THEN undone ELSE undone \cup {stmt.tab}
                     /\ todo' = Tail(todo) /\ GoOn(r.err, "writing")
          /\ UNCHANGED <<was, stmt, q, plan, exec, out, writes>>

Delete == /\ phase = "writing" /\ stmt.kind = "delete"
          /\ db' = DeleteRows(db, plan, todo) /\ todo' = <<>>
          /\ phase' = "done"
          /\ UNCHANGED <<was, stmt, q, plan, exec, out, err, undone, writes>>

\* The answer, or the message of the error, is sent, and the statement is committed:
\* what was written stays written, unless the transaction was rolled back.
Answer == /\ phase \in {"done", "error"}
          /\ stmt' = Null /\ was' = db /\ err' = None /\ phase' = "idle"
          /\ Blank
          /\ UNCHANGED <<db, undone, writes>>

Next == \/ \E s \in Stmts : Ask(s)
        \/ Analyze \/ PlanQuery \/ StartExplain \/ StartSelect \/ StartInsert \/ StartUpdate
        \/ StartDelete \/ BeginTuple \/ NextRow \/ Finish \/ Insert \/ Update \/ Delete \/ Answer
Spec == Init /\ [][Next]_vars
=============================================================================
