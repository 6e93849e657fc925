---------------------------- MODULE SqliteHandles ----------------------------
(***************************************************************************)
(* The sqlite binding: a connection, its prepared statements and who owns  *)
(* the native handles.  The Lua userdata of the connection and of every    *)
(* statement share the connection (an Rc); the collector may drop each of  *)
(* them as soon as the script has lost it, in any order.                   *)
(***************************************************************************)
EXTENDS Naturals

CONSTANTS
    Stmts,          \* bound: the statements of one connection
    Timeout         \* the deadline of the VM, in ticks

VARIABLES
    now,            \* time since the VM was built
    db,             \* the connection
    stmt            \* statement -> its userdata and native handle

sqliteVars == <<now, db, stmt>>

\* held: the userdata exists; closed: ~db was called; native: the sqlite3
\* handle, "none" until it is opened and "closed" after close_v2; budget: its
\* busy timeout; opened: when.
NoDb   == [held |-> FALSE, closed |-> FALSE, native |-> "none", budget |-> 0,
           opened |-> 0]

\* native: the sqlite3_stmt, "null" once finalized or when the SQL was empty;
\* cursor: how its last step ended; frees: finalizations of the handle.
NoStmt == [held |-> FALSE, native |-> "none", cursor |-> "fresh", frees |-> 0]
NewStmt(native) == [held |-> TRUE, native |-> native, cursor |-> "fresh", frees |-> 0]

SqliteInit ==
    /\ db = NoDb
    /\ stmt = [s \in Stmts |-> NoStmt]

\* Deadline: expired once the time is up.
Late == now >= Timeout

\* Slip: the time already spent is not taken off.
WholeTimeout == Timeout

\* Deadline::remaining saturates.
Budget == IF Late THEN 0 ELSE Timeout - now

\* sqlite(path, mode): the busy timeout is what is left of the deadline.
SqliteNew(ok) ==
    /\ ~Late /\ db.native = "none"
    /\ db' = IF ok THEN [held |-> TRUE, closed |-> FALSE, native |-> "open",
                         budget |-> Budget, opened |-> now]
             ELSE db
    /\ UNCHANGED <<now, stmt>>

\* db << sql: an error, a statement, or the null statement of empty SQL.
\* Preparing may wait for a lock too.
DbQuery(s, native, wait) ==
    /\ ~Late /\ db.held /\ stmt[s].native = "none"
    /\ wait <= db.budget /\ (db.closed => wait = 0 /\ native = "error")
    /\ stmt' = IF native = "error" THEN stmt ELSE [stmt EXCEPT ![s] = NewStmt(native)]
    /\ now' = now + wait
    /\ UNCHANGED db

\* qry(binds): with parameters the statement is reset first, and reset
\* reports the error of the step before it once more; a bad parameter leaves
\* it reset.  The step may wait for a lock up to the busy timeout.
StmtNext(s, binds, wait, outcome) ==
    /\ ~Late /\ stmt[s].held
    /\ wait <= db.budget
    /\ LET refused == db.closed \/ stmt[s].native = "null"
           resetFails == binds # "none" /\ stmt[s].cursor = "error" IN
       /\ (refused \/ resetFails \/ binds = "bad") => wait = 0 /\ outcome = "raised"
       /\ ~(refused \/ resetFails \/ binds = "bad") => outcome # "raised"
       /\ stmt' = [stmt EXCEPT ![s].cursor =
                     IF refused THEN @ ELSE IF outcome = "raised" THEN "fresh" ELSE outcome]
    /\ now' = now + wait
    /\ UNCHANGED db

Finalize(s) == [stmt[s] EXCEPT !.native = "null",
                  !.frees = IF stmt[s].native = "live" THEN @ + 1 ELSE @]

\* ~qry finalizes the handle and nulls it; it does not look at the deadline.
StmtBnot(s) ==
    /\ stmt[s].held
    /\ stmt' = [stmt EXCEPT ![s] = Finalize(s)]
    /\ UNCHANGED <<now, db>>

\* Slip: ~db closes the native connection itself.
DbBnotCloses ==
    /\ db.held
    /\ db' = [db EXCEPT !.closed = TRUE, !.native = "closed"]
    /\ UNCHANGED <<now, stmt>>

\* ~db only marks the connection; nor does it look at the deadline.
DbBnot ==
    /\ db.held
    /\ db' = [db EXCEPT !.closed = TRUE]
    /\ UNCHANGED <<now, stmt>>

\* The connection goes with its last owner.
Released(d, ss) ==
    IF d.native = "open" /\ ~d.held /\ \A s \in Stmts : ~ss[s].held
    THEN [d EXCEPT !.native = "closed"] ELSE d

\* The collector or the end of the VM drops a statement: Drop finalizes a
\* handle that is still live, then the share of the connection goes.
DropStmt(s) ==
    /\ stmt[s].held
    /\ stmt' = [stmt EXCEPT ![s] = [Finalize(s) EXCEPT !.held = FALSE]]
    /\ db' = Released(db, stmt')
    /\ UNCHANGED now

DropDb ==
    /\ db.held
    /\ db' = Released([db EXCEPT !.held = FALSE], stmt)
    /\ UNCHANGED <<now, stmt>>

Gone == ~db.held /\ \A s \in Stmts : ~stmt[s].held
=============================================================================
