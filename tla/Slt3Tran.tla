------------------------------- MODULE Slt3Tran ------------------------------
(***************************************************************************)
(* Transactions on an SQLite connection (db/slt3/_shared_impl.cc): conn,   *)
(* tran and the part of query that starts transactions and keeps           *)
(* statements open.  A main transaction is a BEGIN, a nested one a         *)
(* savepoint, named by its tran_id_; neither is sent to SQLite before the  *)
(* first query needs it.  SQLite itself (3.6.11, vendored) is modelled by  *)
(* what these statements do to one connection.  The contents of the        *)
(* database are the numbers of the writes that are in effect.              *)
(***************************************************************************)
EXTENDS Naturals, Sequences, FiniteSets, SequencesExt, FiniteSetsExt

CONSTANTS MaxTran,    \* bound on the tran objects of one run
          Plans       \* how the connection is used

\* A plan: the kind of client ("nested", "any", see AnyClient and NestedClient),
\* use_exc_ of the connection (errors are thrown), and the bounds of the run: its
\* tran objects, writes, errors of SQLite, and the savepoints on SQLite's stack.
ASSUME Slt3Assumption ==
    /\ MaxTran \in Nat
    /\ \A p \in Plans : /\ p.client \in {"nested", "any"} /\ p.useExc \in BOOLEAN
                        /\ p.trans \in 0 .. MaxTran /\ p.writes \in Nat
                        /\ p.faults \in Nat /\ p.depth \in Nat

VARIABLES plan,
          open,       \* db_ is not null
          trans,      \* tran_id_
          alive,      \* tran objects that have not been destroyed
          parent,     \* tr_ of each, 0 for a main transaction
          started,    \* started_
          doRollback, \* do_rollback_
          doCommit,   \* do_commit_
          stmt,       \* the query of each: "none", "ready", "rows" (stepped to a row),
                      \* "lost" (it belongs to a handle that db_ does not hold any more)
          sql,        \* the connection in SQLite
          disk,       \* the contents that are committed
          writes, faults,
          cut         \* history: started objects whose transaction is not there any more

vars == <<plan, open, trans, alive, parent, started, doRollback,
          doCommit, stmt, sql, disk, writes, faults, cut>>
objects == <<trans, alive, parent, doRollback, doCommit>>

Tran == 1 .. MaxTran

Live == {t \in alive : started[t]}

\* autoCommit, isTransactionSavepoint, the savepoints with what they go back to,
\* and what the connection sees.
Idle(contents) == [auto |-> TRUE, byName |-> FALSE, stack |-> <<>>, work |-> contents]

Init ==
    /\ plan \in Plans
    /\ open = TRUE /\ trans = 0 /\ alive = {}
    /\ parent = [t \in Tran |-> 0]
    /\ started = [t \in Tran |-> FALSE]
    /\ doRollback = [t \in Tran |-> FALSE]
    /\ doCommit = [t \in Tran |-> TRUE]
    /\ stmt = [t \in Tran |-> "none"]
    /\ sql = Idle({}) /\ disk = {}
    /\ writes = 0 /\ faults = 0 /\ cut = {}

-----------------------------------------------------------------------------
\* SQLite: the latest savepoint of transaction t, 0 if there is none.
Savepoint(s, t) == Max({i \in DOMAIN s.stack : s.stack[i].name = t} \cup {0})

Reading == \E t \in Tran : stmt[t] = "rows"

\* Whether a statement succeeds: there is no BEGIN inside a transaction and no
\* COMMIT or ROLLBACK outside, and nothing is rolled back while a statement is
\* between two rows.
Accepts(what, t) ==
    CASE what = "begin"      -> sql.auto
      [] what = "savepoint"  -> TRUE
      [] what = "commit"     -> ~sql.auto
      [] what = "rollback"   -> ~sql.auto /\ ~Reading
      [] what = "release"    -> Savepoint(sql, t) # 0
      [] what = "rollbackTo" -> Savepoint(sql, t) # 0 /\ ~Reading

\* The outermost savepoint is the transaction when there was no BEGIN.
After(what, t) ==
    LET sp == Savepoint(sql, t)
        below == SubSeq(sql.stack, 1, sp - 1)
    IN  CASE what = "begin"      -> [sql EXCEPT !.auto = FALSE]
          [] what = "savepoint"  ->
                [sql EXCEPT !.auto = FALSE, !.byName = @ \/ sql.auto,
                            !.stack = Append(@, [name |-> t, was |-> sql.work])]
          [] what = "commit"     -> Idle(sql.work)
          [] what = "rollback"   -> Idle(disk)
          [] what = "release"    -> IF sp = 1 /\ sql.byName THEN Idle(sql.work)
                                    ELSE [sql EXCEPT !.stack = below]
          [] what = "rollbackTo" ->
                [sql EXCEPT !.stack = SubSeq(@, 1, sp), !.work = sql.stack[sp].was]

-----------------------------------------------------------------------------
\* tran(conn), tran(tran): nothing is sent to SQLite.
NewTran(p) ==
    /\ trans < plan.trans
    /\ trans' = trans + 1
    /\ alive' = alive \cup {trans'}
    /\ parent' = [parent EXCEPT ![trans'] = p]
    /\ UNCHANGED <<plan, open, started, doRollback, doCommit, stmt, sql, disk,
                   writes, faults, cut>>

\* commit_on_destruct() and rollback_on_destruct(), called before t is used.
OnDestruct(t, commit, rollback) ==
    /\ t = trans /\ ~started[t]
    /\ <<commit, rollback>> # <<doCommit[t], doRollback[t]>>
    /\ doCommit' = [doCommit EXCEPT ![t] = commit]
    /\ doRollback' = [doRollback EXCEPT ![t] = rollback]
    /\ UNCHANGED <<plan, open, trans, alive, parent, started, stmt, sql, disk,
                   writes, faults, cut>>

\* start(): what it sends, whether the query goes on, and the connection then.
StartStmt(t) == IF parent[t] # 0 THEN "savepoint" ELSE "begin"

Starts(t) == started[t] \/ (open /\ Accepts(StartStmt(t), t))

Begun(t) == IF ~started[t] /\ Starts(t) THEN After(StartStmt(t), t) ELSE sql

\* Mutant: started_ is set before the statement is sent.
StartEager(t) == started' = [started EXCEPT ![t] = TRUE]

\* started_ is set when exec_noret() returns, which it also does after an error
\* if errors are not thrown.
Start(t) == started' = [started EXCEPT ![t] = @ \/ Starts(t) \/ ~plan.useExc]

GoesOn(t) == Starts(t) \/ ~plan.useExc

\* query::execute() of a write: outside a transaction it is on disk at once.
Execute(t) ==
    /\ writes < plan.writes /\ Len(Begun(t).stack) <= plan.depth
    /\ Start(t)
    /\ stmt' = [stmt EXCEPT ![t] = "none"]
    /\ IF open /\ GoesOn(t)
       THEN LET s == Begun(t)
            IN  /\ writes' = writes + 1
                /\ sql' = [s EXCEPT !.work = @ \cup {writes'}]
                /\ disk' = IF s.auto THEN disk \cup {writes'} ELSE disk
       ELSE UNCHANGED <<writes, sql, disk>>
    /\ UNCHANGED <<plan, open, objects, faults, cut>>

\* A write fails (a constraint, a lock of another connection, be it one that this
\* object has lost) and SQLite undoes that statement only.
ExecuteRefused(t) ==
    /\ faults < plan.faults /\ open /\ GoesOn(t)
    /\ Len(Begun(t).stack) <= plan.depth
    /\ Start(t)
    /\ stmt' = [stmt EXCEPT ![t] = "none"]
    /\ sql' = Begun(t)
    /\ faults' = faults + 1
    /\ UNCHANGED <<plan, open, objects, disk, writes, cut>>

\* A write fails and SQLite rolls the whole transaction back (disk full, I/O
\* error, out of memory).
ExecuteFails(t) ==
    /\ faults < plan.faults /\ open /\ GoesOn(t) /\ ~Reading
    /\ Start(t)
    /\ stmt' = [stmt EXCEPT ![t] = "none"]
    /\ sql' = Idle(disk)
    /\ faults' = faults + 1
    /\ UNCHANGED <<plan, open, objects, disk, writes>>
    /\ cut' = Live'

\* query::prepare() and next(): one row, more to come.
QueryRows(t) ==
    /\ open /\ stmt[t] # "rows" /\ Len(Begun(t).stack) <= plan.depth
    /\ Start(t)
    /\ sql' = Begun(t)
    /\ stmt' = [stmt EXCEPT ![t] = IF GoesOn(t) THEN "rows" ELSE "none"]
    /\ UNCHANGED <<plan, open, objects, disk, writes, faults, cut>>

\* next() at the end, reset() ("ready"), or the end of the query object ("none").
EndRows(t, left) ==
    /\ IF left = "ready" THEN stmt[t] = "rows" ELSE stmt[t] # "none"
    /\ stmt' = [stmt EXCEPT ![t] = left]
    /\ UNCHANGED <<plan, open, objects, started, sql, disk, writes, faults, cut>>

\* exec_noret() of a statement that ends t.  Sent by an object that has lost its
\* own transaction it ends the one that another object has begun since.  A COMMIT
\* may find the database locked; the transaction then stays as it is.
Sent(what, t) ==
    /\ sql' = After(what, t)
    /\ disk' = IF sql'.auto THEN sql'.work ELSE disk
    /\ cut' = (IF t \in cut THEN Live ELSE cut) \ {t}
    /\ UNCHANGED faults

Refused(what, t) ==
    /\ IF Accepts(what, t) THEN /\ faults < plan.faults
                                /\ what \in {"commit", "release"}
                                /\ After(what, t).auto
                                /\ faults' = faults + 1
                           ELSE UNCHANGED faults
    /\ UNCHANGED <<sql, disk, cut>>

CommitStmt(t) == IF parent[t] # 0 THEN "release" ELSE "commit"

\* Mutant: a nested transaction is rolled back by rolling back everything.
RollbackStmtAll(t) == "rollback"

RollbackStmt(t) == IF parent[t] # 0 THEN "rollbackTo" ELSE "rollback"

\* Mutant: started_ is reset before the statement is sent.
EndEager(what, t) ==
    /\ started[t] /\ open
    /\ started' = [started EXCEPT ![t] = FALSE]
    /\ (Accepts(what, t) /\ Sent(what, t)) \/ Refused(what, t)
    /\ UNCHANGED <<plan, open, objects, stmt, writes>>

\* commit() and rollback() of a started transaction; they do nothing to another,
\* and fail on a closed connection.
End(what, t) ==
    /\ started[t] /\ open
    /\ \/ Accepts(what, t) /\ Sent(what, t)
                           /\ started' = [started EXCEPT ![t] = FALSE]
       \/ Refused(what, t) /\ started' = [started EXCEPT ![t] = plan.useExc]
    /\ UNCHANGED <<plan, open, objects, stmt, writes>>

\* What the destructor sends.
Ending(t) ==
    IF doRollback[t] THEN RollbackStmt(t)
    ELSE IF doCommit[t] THEN CommitStmt(t) ELSE "nothing"

\* ~tran(), after its query: whatever comes of it, exceptions are swallowed.
Destroy(t) ==
    /\ stmt[t] = "none"
    /\ alive' = alive \ {t}
    /\ started' = [started EXCEPT ![t] = FALSE]
    /\ parent' = [parent EXCEPT ![t] = 0]
    /\ doRollback' = [doRollback EXCEPT ![t] = FALSE]
    /\ doCommit' = [doCommit EXCEPT ![t] = TRUE]
    /\ IF started[t] /\ open /\ Ending(t) # "nothing"
       THEN (Accepts(Ending(t), t) /\ Sent(Ending(t), t)) \/ Refused(Ending(t), t)
       ELSE UNCHANGED <<sql, disk, faults, cut>>
    /\ UNCHANGED <<plan, open, trans, stmt, writes>>

\* db_ is zeroed or overwritten: what was open is rolled back with its handle or
\* stays in it, out of reach and uncommitted.
HandleGone ==
    /\ sql' = Idle(disk)
    /\ cut' = IF sql.auto THEN cut ELSE Live
    /\ stmt' = [t \in Tran |-> IF stmt[t] = "none" THEN "none" ELSE "lost"]
    /\ UNCHANGED <<plan, objects, started, disk, writes, faults>>

\* conn::close().  With statements left SQLite refuses, and db_ is zeroed all the
\* same.
Close == open /\ open' = FALSE /\ HandleGone

\* conn::open(), which does not ask whether a database is open.
Open == open' = TRUE /\ HandleGone

-----------------------------------------------------------------------------
\* "any": objects live and are used in any order.
AnyClient ==
    \/ \E p \in alive \cup {0} : NewTran(p)
    \/ Close \/ Open
    \/ \E t \in alive :
          \/ \E commit, rollback \in BOOLEAN : OnDestruct(t, commit, rollback)
          \/ Execute(t) \/ ExecuteRefused(t) \/ ExecuteFails(t) \/ QueryRows(t)
          \/ \E left \in {"none", "ready"} : EndRows(t, left)
          \/ End(CommitStmt(t), t) \/ End(RollbackStmt(t), t)
          \/ Destroy(t)

\* "nested": nested scopes, with the default or a rollback on destruction.  Only
\* the innermost transaction is used, one is nested in it only after it was
\* started by a query and has no rows left to read, and the COMMIT of a
\* destructor finds no lock.
Innermost(t) == t = Max(alive)

NestedClient ==
    \/ alive = {} /\ NewTran(0)
    \/ \E t \in alive :
          /\ Innermost(t)
          /\ \/ started[t] /\ ~Reading /\ NewTran(t)
             \/ OnDestruct(t, TRUE, TRUE)
             \/ Execute(t) \/ ExecuteRefused(t)
             \/ QueryRows(t) \/ EndRows(t, "none")
             \/ End(CommitStmt(t), t) \/ End(RollbackStmt(t), t)
             \/ Destroy(t) /\ UNCHANGED faults

Next ==
    \/ plan.client = "any" /\ AnyClient
    \/ plan.client = "nested" /\ NestedClient

Spec == Init /\ [][Next]_vars

-----------------------------------------------------------------------------
\* Nested scopes on a connection that throws its errors, as it does by default.
Scoped == plan.client = "nested" /\ plan.useExc

\* The started transactions, outermost first, and what they go back to.
InOrder(S) ==
    CHOOSE s \in [1 .. Cardinality(S) -> S] :
        /\ Range(s) = S
        /\ \A i, j \in DOMAIN s : i < j => s[i] < s[j]

Running == InOrder(Live)

Frame(t) == IF parent[t] = 0 THEN disk ELSE sql.stack[Savepoint(sql, t)].was

Promise == INSTANCE NestedStore WITH
    disk <- IF Scoped THEN disk ELSE {},
    now <- IF Scoped THEN sql.work ELSE {},
    frames <- IF Scoped THEN [i \in DOMAIN Running |-> Frame(Running[i])] ELSE <<>>

\* For nested scopes, tran gives nested transactions: a rollback undoes what was
\* done since the transaction began and nothing else, also when a transaction is
\* used again after its savepoint was rolled back and left on SQLite's stack, and
\* nothing is stored before the main transaction commits.
ImplementsNestedStore == Promise!ASpec

\* When nested scopes have ended, so has every transaction in SQLite: the next one
\* can begin.
NoTransactionLeftOpen ==
    Scoped /\ alive = {} => sql.auto /\ sql.work = disk

\* However the connection and its objects are used, with exceptions on: of the main
\* transactions that are started at most one has not lost its transaction (SQLite
\* rolled it back by itself, the connection was closed or opened in the middle, or
\* an object that had lost its own sent a COMMIT or ROLLBACK), and the connection
\* is in that one's BEGIN, not in a transaction that a savepoint has opened.
MainOwnsTransaction ==
    LET mains == {t \in Live \ cut : parent[t] = 0}
    IN  plan.useExc /\ mains # {} =>
            Cardinality(mains) = 1 /\ ~sql.auto /\ ~sql.byName
=============================================================================
