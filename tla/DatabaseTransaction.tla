------------------------- MODULE DatabaseTransaction -------------------------
(***************************************************************************)
(* Calls of transaction functions on a pool of database connections:       *)
(*                                                                         *)
(*   tdlTransactionFunction.cpp  begin, execute, audits, commit            *)
(*   transaction.cpp             execute() rolls back when it fails        *)
(*   programInstance.cpp         the database instructions of the VM       *)
(*   ...TransactionExecStatemachine.cpp  the state machine of one          *)
(*                               transaction, for SQLite or for PostgreSQL *)
(*   objectPool.hpp              connections are taken and given back      *)
(*                                                                         *)
(* A step is one call of the state machine, with the error handling it     *)
(* triggers in transaction.cpp.  What the database itself does with BEGIN, *)
(* COMMIT, ROLLBACK and failing statements is stated in the operators of   *)
(* section "The database".  Statements are abstracted to the call that     *)
(* executed them.                                                          *)
(***************************************************************************)
EXTENDS Naturals, FiniteSets

CONSTANTS
    Calls,         \* calls of transaction functions
    Conns,         \* connections of the database unit
    NoConn,        \* m_conn is NULL
    NoCall,        \* a call made by a client, not by an audit step
    Backend,       \* "sqlite3" or "postgresql"
    Timed,         \* the pool has an acquire timeout
    NestedAudits,  \* audit functions may be transaction functions
    ResultFilter,  \* the transaction functions declare a RESULT FILTER
    MaxStm         \* bound on the statements of a call

ASSUME NullAssumption == NoConn \notin Conns /\ NoCall \notin Calls
ASSUME BackendAssumption == Backend \in {"sqlite3", "postgresql"}
ASSUME FlagAssumption == {Timed, NestedAudits, ResultFilter} \subseteq BOOLEAN
\* The pool of a SQLite database is constructed without a timeout.
ASSUME TimedAssumption == Timed => Backend = "postgresql"
ASSUME MaxStmAssumption == MaxStm \in Nat

VARIABLES
    pc,         \* where the call is in TdlTransactionFunctionClosure::call()
    stm,        \* TransactionExecStatemachine::m_state of the call
    conn,       \* TransactionExecStatemachine::m_conn of the call
    left,       \* statements the call's program may still start
    parent,     \* the call whose audit step made this call
    outcome,    \* what the caller gets
    avail,      \* ObjectPool::m_availList
    tx,         \* the transaction the database has open on each connection
    work,       \* calls with statements in that transaction
    committed,  \* calls with durable statements
    executed    \* history: calls that have executed a statement

callVars == <<pc, stm, conn, left, parent, outcome>>
dbVars == <<avail, tx, work, committed, executed>>
vars == <<callVars, dbVars>>

PC == {"idle",
       "begin",    \* about to get a connection and to send BEGIN
       "run",      \* in the program of the transaction
       "audit",    \* in the loop over the audit functions, before COMMIT
       "inAudit",  \* the audit function is a transaction function itself
       "unwind",   \* leaving the scope of the Transaction object
       "filter",   \* in the result filter function
       "done"}
StmState == {"Init", "Transaction", "CommandReady", "Executed", "Error"}
Outcome == {"none", "ok", "failed",
            "escaped"}  \* an exception that is not a std::runtime_error
TxState == {"none", "open",
            "aborted"}  \* nothing but ROLLBACK, or nothing at all, is accepted

\* Type invariant of the calls and of the database.
TypeOK ==
    /\ pc \in [Calls -> PC]
    /\ stm \in [Calls -> StmState]
    /\ conn \in [Calls -> Conns \cup {NoConn}]
    /\ left \in [Calls -> 0 .. MaxStm]
    /\ parent \in [Calls -> Calls \cup {NoCall}]
    /\ outcome \in [Calls -> Outcome]
    /\ avail \subseteq Conns
    /\ tx \in [Conns -> TxState]
    /\ work \in [Conns -> SUBSET Calls]
    /\ committed \subseteq Calls
    /\ executed \subseteq Calls

Init ==
    /\ pc = [c \in Calls |-> "idle"]
    /\ stm = [c \in Calls |-> "Init"]
    /\ conn = [c \in Calls |-> NoConn]
    /\ left = [c \in Calls |-> MaxStm]
    /\ parent = [c \in Calls |-> NoCall]
    /\ outcome = [c \in Calls |-> "none"]
    /\ avail = Conns
    /\ tx = [k \in Conns |-> "none"]
    /\ work = [k \in Conns |-> {}]
    /\ committed = {}
    /\ executed = {}

-----------------------------------------------------------------------------
(* The database *)

SQLite == Backend = "sqlite3"

\* SQLite refuses BEGIN inside a transaction.  PostgreSQL answers it with a
\* warning, which is a success for PQexec, unless the transaction is aborted.
AcceptsBegin(k) == IF SQLite THEN tx[k] = "none" ELSE tx[k] # "aborted"

\* SQLite refuses COMMIT without a transaction.  PostgreSQL answers COMMIT of
\* an aborted transaction with success, and rolls back.
AcceptsCommit(k) == SQLite => tx[k] = "open"
Durable(k) == {c \in Calls : tx[k] = "open" /\ c \in work[k]}

\* What an error leaves of the transaction: SQLite keeps it or, for some
\* errors, rolls it back; PostgreSQL aborts it.
AfterError == IF SQLite THEN {"open", "none"} ELSE {"aborted"}

\* What a failed COMMIT leaves of it: SQLite keeps it when it is busy or a
\* deferred constraint is violated and rolls it back after other errors; for
\* PostgreSQL it has ended, or the connection is lost.
AfterFailedCommit(k) == IF SQLite THEN {tx[k], "none"} ELSE {"none", "aborted"}

\* What a failed ROLLBACK leaves of it.
AfterFailedRollback(k) == IF SQLite THEN {tx[k]} ELSE {"none", "aborted"}

\* The transaction of connection k becomes s; only an open one keeps its work.
SetTx(k, s) ==
    /\ tx' = [tx EXCEPT ![k] = s]
    /\ work' = [work EXCEPT ![k] = IF s = "open" THEN @ ELSE {}]

-----------------------------------------------------------------------------
(* The state machine of a transaction *)

\* The states in which commit() and rollback() are allowed
InTransaction == {"Transaction", "CommandReady", "Executed"}

\* Faulty variant: NULL is given back as if it were a connection.
ResetConnection_null(c) ==
    /\ avail' = avail \cup {conn[c]}
    /\ conn' = [conn EXCEPT ![c] = NoConn]

\* m_conn.reset(): the shared pointer's deleter gives the connection back.
ResetConnection(c) ==
    /\ avail' = avail \cup ({conn[c]} \ {NoConn})
    /\ conn' = [conn EXCEPT ![c] = NoConn]

\* Faulty variant: rollback() gives the connection back without ROLLBACK.
Rollback_onlyReleases(c, s) ==
    /\ stm' = [stm EXCEPT ![c] = "Init"]
    /\ ResetConnection(c)
    /\ UNCHANGED <<tx, work>>

\* rollback() in state s: done, failed, or not allowed.
Rollback(c, s) ==
    \/ /\ s \in InTransaction
       /\ SetTx(conn[c], "none")
       /\ stm' = [stm EXCEPT ![c] = "Init"]
       /\ ResetConnection(c)
    \/ /\ s \in InTransaction
       /\ \E e \in AfterFailedRollback(conn[c]) : SetTx(conn[c], e)
       /\ stm' = [stm EXCEPT ![c] = IF SQLite THEN "Init" ELSE "Error"]
       /\ UNCHANGED <<conn, avail>>
    \/ /\ s \notin InTransaction
       /\ stm' = [stm EXCEPT ![c] = "Error"]
       /\ UNCHANGED <<conn, avail, tx, work>>

\* call() leaves the scope of the Transaction object with outcome o.
Ends(c, o) ==
    /\ pc' = [pc EXCEPT ![c] = "unwind"]
    /\ outcome' = [outcome EXCEPT ![c] = o]

Fails(c) == Ends(c, "failed")

\* Transaction::execute() after its program failed in state s: it rolls back,
\* and an exception that is not a std::runtime_error is thrown again.
ExecuteFailed(c, s, o) ==
    /\ Rollback(c, s)
    /\ Ends(c, o)
    /\ UNCHANGED <<left, parent, committed, executed>>

-----------------------------------------------------------------------------
(* A call *)

\* A client calls a transaction function; its authorization may be denied, or
\* its input be invalid.
Call(c) ==
    /\ pc[c] = "idle"
    /\ \/ /\ pc' = [pc EXCEPT ![c] = "begin"]
          /\ UNCHANGED outcome
       \/ Fails(c)
    /\ UNCHANGED <<stm, conn, left, parent, dbVars>>

\* Faulty variant: the result of BEGIN is not looked at.
Begin_unchecked(c) ==
    /\ pc[c] = "begin"
    /\ \E k \in avail :
          /\ avail' = avail \ {k}
          /\ conn' = [conn EXCEPT ![c] = k]
          /\ tx' = [tx EXCEPT ![k] = "open"]
    /\ stm' = [stm EXCEPT ![c] = "Transaction"]
    /\ pc' = [pc EXCEPT ![c] = "run"]
    /\ UNCHANGED <<left, parent, outcome, work, committed, executed>>

\* begin(): a connection is taken from the pool and BEGIN is sent.
Begin(c) ==
    /\ pc[c] = "begin"
    /\ \E k \in avail :
          /\ avail' = avail \ {k}
          /\ conn' = [conn EXCEPT ![c] = k]
          /\ \/ /\ AcceptsBegin(k)
                /\ tx' = [tx EXCEPT ![k] = "open"]
                /\ stm' = [stm EXCEPT ![c] = "Transaction"]
                /\ pc' = [pc EXCEPT ![c] = "run"]
                /\ UNCHANGED outcome
             \/ /\ stm' = [stm EXCEPT ![c] = "Error"]
                /\ Fails(c)
                /\ UNCHANGED tx
    /\ UNCHANGED <<left, parent, work, committed, executed>>

\* Faulty variant: the timeout is swallowed and get() called again.
AcquireTimeout_retries(c) ==
    /\ pc[c] = "begin"
    /\ Timed
    /\ UNCHANGED vars

\* The pool throws ObjectPoolTimeout.
AcquireTimeout(c) ==
    /\ pc[c] = "begin"
    /\ Timed
    /\ Fails(c)
    /\ UNCHANGED <<stm, conn, left, parent, dbVars>>

\* Op_DBSTM_START of a statement that is accepted
StartStatement(c) ==
    /\ pc[c] = "run"
    /\ left[c] > 0
    /\ stm[c] \in {"Transaction", "Executed"}
    /\ stm' = [stm EXCEPT ![c] = "CommandReady"]
    /\ left' = [left EXCEPT ![c] = @ - 1]
    /\ UNCHANGED <<pc, conn, parent, outcome, dbVars>>

\* start() is refused after an error that went unnoticed, SQLite fails to
\* prepare the statement, or the statement's parameters cannot be parsed; the
\* last throws, in state Transaction for SQLite, and for PostgreSQL in state
\* Init, because start() has called clear().
StartFails(c) ==
    /\ pc[c] = "run"
    /\ left[c] > 0
    /\ stm[c] \in {"Transaction", "Executed", "Error"}
    /\ \/ /\ stm[c] = "Error" \/ SQLite
          /\ ExecuteFailed(c, "Error", "failed")
       \/ /\ stm[c] # "Error"
          /\ ExecuteFailed(c, IF SQLite THEN "Transaction" ELSE "Init", "failed")

\* bind() fails: a parameter out of range, or one that cannot be converted.
BindFails(c) ==
    /\ pc[c] = "run"
    /\ stm[c] = "CommandReady"
    /\ ExecuteFailed(c, "Error", "failed")

\* Op_DBSTM_EXEC of a statement that succeeds
ExecuteStatement(c) ==
    /\ pc[c] = "run"
    /\ stm[c] = "CommandReady"
    /\ stm' = [stm EXCEPT ![c] = "Executed"]
    /\ work' = [work EXCEPT ![conn[c]] = @ \cup {c}]
    /\ executed' = executed \cup {c}
    /\ UNCHANGED <<pc, conn, left, parent, outcome, avail, tx, committed>>

\* Faulty variant: the error is logged and the program goes on.
StatementFails_ignored(c) ==
    /\ pc[c] = "run"
    /\ stm[c] = "CommandReady"
    /\ stm' = [stm EXCEPT ![c] = "Executed"]
    /\ \E s \in AfterError : SetTx(conn[c], s)
    /\ UNCHANGED <<pc, conn, left, parent, outcome, avail, committed, executed>>

\* The database reports an error; rollback() is not allowed in state Error.
StatementFails(c) ==
    /\ pc[c] = "run"
    /\ stm[c] = "CommandReady"
    /\ stm' = [stm EXCEPT ![c] = "Error"]
    /\ \E s \in AfterError : SetTx(conn[c], s)
    /\ Fails(c)
    /\ UNCHANGED <<conn, left, parent, avail, committed, executed>>

\* An error while the rows are fetched: get() and next() set state Error and
\* fetchDatabaseResult() does not notice.  Only SQLite asks the database.
FetchFails(c) ==
    /\ pc[c] = "run"
    /\ stm[c] = "Executed"
    /\ stm' = [stm EXCEPT ![c] = "Error"]
    /\ \E s \in {"open"} \cup (IF SQLite THEN AfterError ELSE {}) : SetTx(conn[c], s)
    /\ UNCHANGED <<pc, conn, left, parent, outcome, avail, committed, executed>>

\* A constraint on the result is violated, Op_EXIT, or another exception of
\* the virtual machine, before, between or after the database instructions.
ProgramFails(c) ==
    /\ pc[c] = "run"
    /\ \E o \in {"failed", "escaped"} : ExecuteFailed(c, stm[c], o)

\* The last Op_RETURN; the compiler emits no statement without its execution.
ProgramReturns(c) ==
    /\ pc[c] = "run"
    /\ stm[c] # "CommandReady"
    /\ pc' = [pc EXCEPT ![c] = "audit"]
    /\ UNCHANGED <<stm, conn, left, parent, outcome, dbVars>>

-----------------------------------------------------------------------------
(* Audit and commit.  An audit function that succeeds, or fails and is not *)
(* critical, changes nothing here.                                         *)

\* Transaction::rollback() because a critical audit function failed
CriticalRollback(c) ==
    /\ Rollback(c, stm[c])
    /\ Fails(c)
    /\ UNCHANGED <<left, committed, executed>>

CriticalAuditFails(c) ==
    /\ pc[c] = "audit"
    /\ CriticalRollback(c)
    /\ UNCHANGED parent

\* The audit function throws something that is not a std::runtime_error:
\* nothing catches it before the Transaction object is destroyed.
Escapes(c) ==
    /\ Ends(c, "escaped")
    /\ UNCHANGED <<stm, conn, left, avail, tx, work, committed, executed>>

AuditEscapes(c) ==
    /\ pc[c] = "audit"
    /\ Escapes(c)
    /\ UNCHANGED parent

\* The audit function is a transaction function of the same database.
AuditCall(c, d) ==
    /\ NestedAudits
    /\ pc[c] = "audit"
    /\ pc[d] = "idle"
    /\ pc' = [pc EXCEPT ![c] = "inAudit", ![d] = "begin"]
    /\ parent' = [parent EXCEPT ![d] = c]
    /\ UNCHANGED <<stm, conn, left, outcome, dbVars>>

\* It returns to the audit loop, which looks at how it ended.
AuditReturns(c, d) ==
    /\ pc[c] = "inAudit"
    /\ parent[d] = c
    /\ pc[d] = "done"
    /\ parent' = [parent EXCEPT ![d] = NoCall]
    /\ \/ /\ outcome[d] \in {"ok", "failed"}
          /\ pc' = [pc EXCEPT ![c] = "audit"]
          /\ UNCHANGED <<stm, conn, left, outcome, dbVars>>
       \/ outcome[d] = "failed" /\ CriticalRollback(c)
       \/ outcome[d] = "escaped" /\ Escapes(c)

\* Transaction::commit(): done, failed, or not allowed after an error that
\* went unnoticed.
Commit(c) ==
    /\ pc[c] = "audit"
    /\ \/ /\ stm[c] \in InTransaction
          /\ AcceptsCommit(conn[c])
          /\ committed' = committed \cup Durable(conn[c])
          /\ SetTx(conn[c], "none")
          /\ stm' = [stm EXCEPT ![c] = "Init"]
          /\ ResetConnection(c)
          /\ pc' = [pc EXCEPT ![c] = "unwind"]
          /\ outcome' = [outcome EXCEPT ![c] = "ok"]
       \/ /\ stm[c] \in InTransaction
          /\ \E s \in AfterFailedCommit(conn[c]) : SetTx(conn[c], s)
          /\ stm' = [stm EXCEPT ![c] = "Error"]
          /\ Fails(c)
          /\ UNCHANGED <<conn, avail, committed>>
       \/ /\ stm[c] \notin InTransaction
          /\ stm' = [stm EXCEPT ![c] = "Error"]
          /\ Fails(c)
          /\ UNCHANGED <<conn, avail, tx, work, committed>>
    /\ UNCHANGED <<left, parent, executed>>

\* Faulty variant: the connection of a failed transaction is dropped.
Close_dropsConnection(c) ==
    /\ pc[c] = "unwind"
    /\ conn' = [conn EXCEPT ![c] = NoConn]
    /\ stm' = [stm EXCEPT ![c] = "Init"]
    /\ pc' = [pc EXCEPT ![c] = "done"]
    /\ UNCHANGED <<avail, left, parent, outcome, tx, work, committed, executed>>

\* The Transaction object is destroyed; a connection it still has goes back
\* to the pool in whatever state it is.
Close(c) ==
    /\ pc[c] = "unwind"
    /\ ResetConnection(c)
    /\ stm' = [stm EXCEPT ![c] = "Init"]
    /\ pc' = [pc EXCEPT ![c] = IF outcome[c] = "ok" /\ ResultFilter THEN "filter" ELSE "done"]
    /\ UNCHANGED <<left, parent, outcome, tx, work, committed, executed>>

\* The result is built after COMMIT; building it may fail.
BuildOutput(c) ==
    /\ pc[c] = "filter"
    /\ pc' = [pc EXCEPT ![c] = "done"]
    /\ \E o \in {"ok", "failed", "escaped"} : outcome' = [outcome EXCEPT ![c] = o]
    /\ UNCHANGED <<stm, conn, left, parent, dbVars>>

ProgramStep(c) ==
    \/ StartStatement(c)
    \/ StartFails(c)
    \/ BindFails(c)
    \/ ExecuteStatement(c)
    \/ StatementFails(c)
    \/ FetchFails(c)
    \/ ProgramFails(c)
    \/ ProgramReturns(c)

\* Steps of a call that has been made
CallStep(c) ==
    \/ Begin(c)
    \/ AcquireTimeout(c)
    \/ ProgramStep(c)
    \/ CriticalAuditFails(c)
    \/ AuditEscapes(c)
    \/ \E d \in Calls : AuditCall(c, d) \/ AuditReturns(c, d)
    \/ Commit(c)
    \/ Close(c)
    \/ BuildOutput(c)

Terminated == (\A c \in Calls : pc[c] = "done") /\ UNCHANGED vars

Next == Terminated \/ \E c \in Calls : Call(c) \/ CallStep(c)

Spec == Init /\ [][Next]_vars

\* A call runs on a thread of its own, and the database answers.
FairSpec == Spec /\ \A c \in Calls : WF_vars(CallStep(c))

-----------------------------------------------------------------------------
(* Properties *)

\* A connection is in the pool or with exactly one call, on every path
\* through commit, rollback, exceptions and nested audits.
ConnectionsConserved ==
    \A k \in Conns :
        /\ k \in avail <=> \A c \in Calls : conn[c] # k
        /\ \A c, d \in Calls : conn[c] = k /\ conn[d] = k => c = d

\* Success is never reported for statements that are not durable: the state
\* machine knows of every error that ended the transaction on the server
\* (commit() would accept an aborted one).
SuccessIsDurable ==
    \A c \in Calls : outcome[c] = "ok" /\ c \in executed => c \in committed

\* A call that fails leaves nothing behind (the "auto rollback" of
\* postgresUnit.cpp:328; "The logic tier builds the result data structure ...
\* before invoking the completion of the transaction in the data tier with a
\* commit or rollback", Introduction.xml:83).
FailedNotCommitted ==
    \A c \in Calls : outcome[c] \in {"failed", "escaped"} => c \notin committed

\* "If a constraint on database results is violated the whole transaction
\* fails and a rollback occurrs" (ProgramTransactions.xml:584): a connection
\* goes back to the pool inside a transaction only from state Error, after a
\* ROLLBACK that failed, or when an exception escaped.
ReturnedClean ==
    [][\A k \in Conns :
          k \notin avail /\ k \in avail' /\ tx'[k] # "none" =>
              \E c \in Calls : /\ conn[c] = k
                               /\ pc[c] = "unwind"
                               /\ stm[c] \in {"Error", "Init"} \/ outcome[c] = "escaped"]_vars

\* Every call returns: in a pool with an acquire timeout also one that an audit
\* step makes while the caller holds the last connection. Without a timeout it
\* does not ("Transactions have an object as input and return an object or an
\* error as result", Glossary.xml:50; SQLite.hpp:105).
EveryCallReturns == \A c \in Calls : pc[c] = "begin" ~> pc[c] = "done"

\* How the caller of a transaction function sees a call
Status(c) ==
    CASE pc[c] = "idle" -> "idle"
      [] pc[c] = "done" -> IF outcome[c] = "ok" THEN "ok" ELSE "failed"
      [] OTHER -> IF outcome[c] = "ok" THEN "committed" ELSE "running"

Abstract == INSTANCE AtomicCalls WITH
    status <- [c \in Calls |-> Status(c)], wrote <- executed, durable <- committed

\* Calls on a SQLite database without result filters are atomic, whatever
\* fails: a connection with a transaction left open refuses the next BEGIN.
ImplementsAtomicCalls == Abstract!Spec

=============================================================================
