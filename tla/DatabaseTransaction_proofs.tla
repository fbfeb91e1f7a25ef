--------------------- MODULE DatabaseTransaction_proofs ---------------------
(***************************************************************************)
(* Proofs about module DatabaseTransaction, for any number of calls and    *)
(* connections: connections are conserved, success is durable, and on      *)
(* SQLite, without result filters, calls are atomic.                       *)
(***************************************************************************)
EXTENDS DatabaseTransaction, TLAPS

-----------------------------------------------------------------------------
(* Types *)

\* Closing connections, setting transactions and rolling back keep the types.
LEMMA HelperTypes ==
    ASSUME TypeOK, NEW c \in Calls
    PROVE  /\ ResetConnection(c) => avail' \subseteq Conns /\ conn' \in [Calls -> Conns \cup {NoConn}]
           /\ \A k : \A s \in TxState : SetTx(k, s) =>
                 tx' \in [Conns -> TxState] /\ work' \in [Conns -> SUBSET Calls]
           /\ \A o \in Outcome : Ends(c, o) => pc' \in [Calls -> PC] /\ outcome' \in [Calls -> Outcome]
<1>1. ResetConnection(c) => avail' \subseteq Conns /\ conn' \in [Calls -> Conns \cup {NoConn}]
  BY NullAssumption DEF ResetConnection, TypeOK
<1>2. ASSUME NEW k, NEW s \in TxState, SetTx(k, s)
      PROVE  tx' \in [Conns -> TxState] /\ work' \in [Conns -> SUBSET Calls]
  BY <1>2 DEF SetTx, TypeOK
<1>3. ASSUME NEW o \in Outcome, Ends(c, o)
      PROVE  pc' \in [Calls -> PC] /\ outcome' \in [Calls -> Outcome]
  BY <1>3 DEF Ends, TypeOK, PC
<1> QED
  BY <1>1, <1>2, <1>3

LEMMA RollbackTypes ==
    ASSUME TypeOK, NEW c \in Calls, NEW s, Rollback(c, s)
    PROVE  /\ stm' \in [Calls -> StmState]
           /\ conn' \in [Calls -> Conns \cup {NoConn}]
           /\ avail' \subseteq Conns
           /\ tx' \in [Conns -> TxState]
           /\ work' \in [Conns -> SUBSET Calls]
<1>1. stm' \in [Calls -> StmState]
  BY DEF Rollback, TypeOK, StmState
<1>2. {"none", "open", "aborted"} \subseteq TxState /\ \A k \in Conns : tx[k] \in TxState
  BY DEF TxState, TypeOK
<1>3. CASE SetTx(conn[c], "none") /\ ResetConnection(c)
  BY <1>1, <1>2, <1>3, HelperTypes
<1>4. CASE UNCHANGED <<conn, avail>> /\ \E e \in AfterFailedRollback(conn[c]) : SetTx(conn[c], e)
  <2>1. PICK e \in AfterFailedRollback(conn[c]) : SetTx(conn[c], e)
    BY <1>4
  <2>2. tx' \in [Conns -> TxState] /\ work' \in [Conns -> SUBSET Calls]
    BY <2>1, <1>2 DEF AfterFailedRollback, SetTx, TypeOK
  <2> QED
    BY <1>1, <1>4, <2>2 DEF TypeOK
<1>5. CASE UNCHANGED <<conn, avail, tx, work>>
  BY <1>1, <1>5 DEF TypeOK
<1> QED
  BY <1>3, <1>4, <1>5 DEF Rollback

LEMMA ProgramTypes == ASSUME TypeOK, NEW c \in Calls, ProgramStep(c) PROVE TypeOK'
<1>0. ASSUME NEW s, NEW o \in Outcome, ExecuteFailed(c, s, o) PROVE TypeOK'
  BY <1>0, RollbackTypes, HelperTypes DEF ExecuteFailed, TypeOK
<1>1. CASE StartStatement(c)
  BY <1>1, MaxStmAssumption DEF StartStatement, TypeOK, StmState, dbVars
<1>2. CASE StartFails(c) \/ BindFails(c) \/ ProgramFails(c)
  BY <1>0, <1>2 DEF StartFails, BindFails, ProgramFails, Outcome
<1>3. CASE ExecuteStatement(c)
  BY <1>3 DEF ExecuteStatement, TypeOK, StmState
<1>4. CASE StatementFails(c) \/ FetchFails(c)
  <2>1. PICK s \in TxState : SetTx(conn[c], s)
    BY <1>4 DEF StatementFails, FetchFails, AfterError, TxState
  <2>2. tx' \in [Conns -> TxState] /\ work' \in [Conns -> SUBSET Calls]
    BY <2>1, HelperTypes
  <2>3. stm' \in [Calls -> StmState]
    BY <1>4 DEF StatementFails, FetchFails, TypeOK, StmState
  <2>4. pc' \in [Calls -> PC] /\ outcome' \in [Calls -> Outcome]
    BY <1>4, HelperTypes DEF StatementFails, FetchFails, TypeOK, Fails, Outcome
  <2> QED
    BY <1>4, <2>2, <2>3, <2>4 DEF StatementFails, FetchFails, TypeOK
<1>5. CASE ProgramReturns(c)
  BY <1>5 DEF ProgramReturns, TypeOK, PC, dbVars
<1> QED
  BY <1>1, <1>2, <1>3, <1>4, <1>5 DEF ProgramStep

LEMMA CallTypes == ASSUME TypeOK, NEW c \in Calls, Call(c) \/ CallStep(c) PROVE TypeOK'
<1>1. CASE Call(c) \/ AcquireTimeout(c)
  BY <1>1, HelperTypes DEF Call, AcquireTimeout, TypeOK, PC, dbVars, Fails, Outcome
<1>2. CASE Begin(c)
  BY <1>2 DEF Begin, Fails, Ends, TypeOK, PC, StmState, TxState, Outcome
<1>3. CASE CriticalAuditFails(c)
  BY <1>3, RollbackTypes, HelperTypes DEF CriticalAuditFails, CriticalRollback, TypeOK, Fails, Outcome
<1>4. CASE AuditEscapes(c)
  BY <1>4 DEF AuditEscapes, Escapes, Ends, TypeOK, PC, Outcome
<1>5. ASSUME NEW d \in Calls, AuditCall(c, d) PROVE TypeOK'
  BY <1>5 DEF AuditCall, TypeOK, PC, dbVars
<1>6. ASSUME NEW d \in Calls, AuditReturns(c, d) PROVE TypeOK'
  <2>1. parent' \in [Calls -> Calls \cup {NoCall}]
    BY <1>6 DEF AuditReturns, TypeOK
  <2>2. CASE CriticalRollback(c)
    BY <2>1, <2>2, RollbackTypes, HelperTypes DEF CriticalRollback, TypeOK, Fails, Outcome
  <2>3. CASE Escapes(c)
    BY <2>1, <2>3 DEF Escapes, Ends, TypeOK, PC, Outcome
  <2>4. CASE pc' = [pc EXCEPT ![c] = "audit"] /\ UNCHANGED <<stm, conn, left, outcome, dbVars>>
    BY <2>1, <2>4 DEF TypeOK, PC, dbVars
  <2> QED
    BY <1>6, <2>2, <2>3, <2>4 DEF AuditReturns
<1>7. CASE Commit(c)
  <2>1. committed' \subseteq Calls
    BY <1>7 DEF Commit, Durable, TypeOK
  <2>2. stm' \in [Calls -> StmState] /\ pc' \in [Calls -> PC] /\ outcome' \in [Calls -> Outcome]
    BY <1>7 DEF Commit, Fails, Ends, TypeOK, StmState, PC, Outcome
  <2>3. avail' \subseteq Conns /\ conn' \in [Calls -> Conns \cup {NoConn}]
    BY <1>7, HelperTypes DEF Commit, TypeOK
  <2>4. tx' \in [Conns -> TxState] /\ work' \in [Conns -> SUBSET Calls]
    <3>1. {"none", "open", "aborted"} \subseteq TxState /\ \A k \in Conns : tx[k] \in TxState
      BY DEF TxState, TypeOK
    <3>2. CASE SetTx(conn[c], "none")
      BY <3>1, <3>2, HelperTypes
    <3>3. CASE \E e \in AfterFailedCommit(conn[c]) : SetTx(conn[c], e)
      <4>1. PICK e \in AfterFailedCommit(conn[c]) : SetTx(conn[c], e)
        BY <3>3
      <4> QED
        BY <3>1, <4>1 DEF AfterFailedCommit, SetTx, TypeOK
    <3>4. CASE UNCHANGED <<tx, work>>
      BY <3>4 DEF TypeOK
    <3> QED
      BY <1>7, <3>2, <3>3, <3>4 DEF Commit
  <2> QED
    BY <1>7, <2>1, <2>2, <2>3, <2>4 DEF Commit, TypeOK
<1>8. CASE Close(c)
  BY <1>8, HelperTypes DEF Close, TypeOK, PC, StmState
<1>9. CASE BuildOutput(c)
  BY <1>9 DEF BuildOutput, TypeOK, PC, Outcome, dbVars
<1> QED
  BY <1>1, <1>2, <1>3, <1>4, <1>5, <1>6, <1>7, <1>8, <1>9, ProgramTypes DEF CallStep

LEMMA TypeStep == TypeOK /\ [Next]_vars => TypeOK'
<1> SUFFICES ASSUME TypeOK, [Next]_vars PROVE TypeOK'
  OBVIOUS
<1>1. CASE UNCHANGED vars
  BY <1>1 DEF vars, callVars, dbVars, TypeOK
<1> QED
  BY <1>1, CallTypes DEF Next, Terminated

LEMMA InitType == Init => TypeOK
BY MaxStmAssumption DEF Init, TypeOK, PC, StmState, Outcome, TxState

\* Every reachable state of the calls and of the database has the right types.
THEOREM TypeCorrect == Spec => []TypeOK
BY InitType, TypeStep, PTL DEF Spec

-----------------------------------------------------------------------------
(* The inductive invariant *)

\* What the phase of a call says about its state machine and its connection
PhaseOK ==
    \A c \in Calls :
        /\ pc[c] \in {"idle", "begin"} =>
              stm[c] = "Init" /\ conn[c] = NoConn /\ outcome[c] = "none" /\ c \notin executed
        /\ pc[c] \in {"run", "audit", "inAudit"} => conn[c] \in Conns /\ outcome[c] = "none"
        /\ pc[c] = "unwind" => stm[c] \in {"Error", "Init"} \/ outcome[c] = "escaped"
        /\ pc[c] \in {"filter", "done"} => stm[c] = "Init" /\ conn[c] = NoConn
        /\ pc[c] = "filter" => outcome[c] = "ok"
        /\ stm[c] \in InTransaction => conn[c] \in Conns /\ outcome[c] # "ok"

\* The state machine knows whether its transaction is alive on the server,
\* and what the call has executed is in that transaction.
OpenOK ==
    \A c \in Calls : stm[c] \in InTransaction =>
        /\ tx[conn[c]] = "open"
        /\ c \in executed => c \in work[conn[c]]

IInv == TypeOK /\ ConnectionsConserved /\ PhaseOK /\ OpenOK /\ SuccessIsDurable

\* Steps that move no connection, and the two ways to move one.
LEMMA ConservedStep ==
    ASSUME TypeOK, ConnectionsConserved, NEW c \in Calls,
           \/ UNCHANGED <<conn, avail>>
           \/ ResetConnection(c)
           \/ conn[c] = NoConn /\ \E k \in avail : avail' = avail \ {k} /\ conn' = [conn EXCEPT ![c] = k]
    PROVE  ConnectionsConserved'
<1>1. CASE UNCHANGED <<conn, avail>>
  BY <1>1 DEF ConnectionsConserved
<1>2. CASE ResetConnection(c)
  BY <1>2, NullAssumption DEF ResetConnection, ConnectionsConserved, TypeOK
<1>3. ASSUME conn[c] = NoConn, NEW k \in avail, avail' = avail \ {k}, conn' = [conn EXCEPT ![c] = k]
      PROVE  ConnectionsConserved'
  BY <1>3, NullAssumption DEF ConnectionsConserved, TypeOK
<1> QED
  BY <1>1, <1>2, <1>3

\* A step of call c leaves the state machines of the others and the
\* transactions on their connections alone.
Frame(c) ==
    /\ \A d \in Calls \ {c} :
          /\ stm'[d] = stm[d] /\ conn'[d] = conn[d] /\ outcome'[d] = outcome[d]
          /\ d \in executed' <=> d \in executed
          /\ pc'[d] # pc[d] => pc[d] = "idle" /\ pc'[d] = "begin"
    /\ \A k \in Conns : k # conn'[c] /\ k # conn[c] =>
          tx'[k] = tx[k] /\ work'[k] = work[k]
    /\ committed \subseteq committed'

\* What the invariant says about one call
CallOK(c) ==
    /\ pc[c] \in {"idle", "begin"} =>
          stm[c] = "Init" /\ conn[c] = NoConn /\ outcome[c] = "none" /\ c \notin executed
    /\ pc[c] \in {"run", "audit", "inAudit"} => conn[c] \in Conns /\ outcome[c] = "none"
    /\ pc[c] = "unwind" => stm[c] \in {"Error", "Init"} \/ outcome[c] = "escaped"
    /\ pc[c] \in {"filter", "done"} => stm[c] = "Init" /\ conn[c] = NoConn
    /\ pc[c] = "filter" => outcome[c] = "ok"
    /\ stm[c] \in InTransaction =>
          /\ conn[c] \in Conns /\ outcome[c] # "ok" /\ tx[conn[c]] = "open"
          /\ c \in executed => c \in work[conn[c]]
    /\ outcome[c] = "ok" /\ c \in executed => c \in committed

LEMMA CallsOK == IInv <=> TypeOK /\ ConnectionsConserved /\ \A c \in Calls : CallOK(c)
BY DEF IInv, PhaseOK, OpenOK, SuccessIsDurable, CallOK

LEMMA CallsOKNext ==
    IInv' <=> TypeOK' /\ ConnectionsConserved' /\ \A c \in Calls : CallOK(c)'
BY DEF IInv, PhaseOK, OpenOK, SuccessIsDurable, CallOK

\* The invariant holds after a step of c if it holds for c and the step is framed.
LEMMA FrameKeeps ==
    ASSUME IInv, TypeOK', ConnectionsConserved', NEW c \in Calls, Frame(c), CallOK(c)'
    PROVE  IInv'
<1> SUFFICES ASSUME NEW d \in Calls \ {c} PROVE CallOK(d)'
  BY CallsOKNext
<1>1. CallOK(d)
  BY CallsOK
<1>2. stm[d] \in InTransaction =>
         /\ conn[d] \in Conns /\ conn[d] # conn[c] /\ conn'[d] # conn'[c]
         /\ tx'[conn[d]] = tx[conn[d]] /\ work'[conn[d]] = work[conn[d]]
  BY <1>1 DEF Frame, CallOK, ConnectionsConserved, IInv
<1> QED
  BY <1>1, <1>2 DEF Frame, CallOK

-----------------------------------------------------------------------------
(* Every step of a call is framed and keeps the invariant *)

\* What a step of call c has to show
StepOK(c) == Frame(c) /\ CallOK(c)' /\ ConnectionsConserved'

\* rollback() gives back the connection of its own call or keeps it, and the
\* state machine is in no transaction afterwards.
LEMMA RollbackStep ==
    ASSUME IInv, NEW c \in Calls, conn[c] \in Conns, NEW s, Rollback(c, s)
    PROVE  /\ stm'[c] \in {"Init", "Error"}
           /\ \A d \in Calls \ {c} : stm'[d] = stm[d] /\ conn'[d] = conn[d]
           /\ \A k \in Conns \ {conn[c]} : tx'[k] = tx[k] /\ work'[k] = work[k]
           /\ ConnectionsConserved'
<1>1. stm'[c] \in {"Init", "Error"}
  BY DEF Rollback, IInv, TypeOK
<1>2. \A d \in Calls \ {c} : stm'[d] = stm[d] /\ conn'[d] = conn[d]
  BY DEF Rollback, ResetConnection, IInv, TypeOK
<1>3. ASSUME NEW e, SetTx(conn[c], e)
      PROVE  \A k \in Conns \ {conn[c]} : tx'[k] = tx[k] /\ work'[k] = work[k]
  BY <1>3 DEF SetTx, IInv, TypeOK
<1>4. \A k \in Conns \ {conn[c]} : tx'[k] = tx[k] /\ work'[k] = work[k]
  BY <1>3 DEF Rollback
<1>5. ResetConnection(c) \/ UNCHANGED <<conn, avail>>
  BY DEF Rollback
<1>6. ConnectionsConserved'
  BY <1>5, ConservedStep DEF IInv
<1> QED
  BY <1>1, <1>2, <1>4, <1>6

\* A call that rolls back and fails
LEMMA FailedStep ==
    ASSUME IInv, NEW c \in Calls, conn[c] \in Conns, NEW s, NEW o \in {"failed", "escaped"},
           Rollback(c, s), Ends(c, o), UNCHANGED <<committed, executed>>
    PROVE  StepOK(c)
<1>1. pc'[c] = "unwind" /\ outcome'[c] = o
      /\ \A d \in Calls \ {c} : pc'[d] = pc[d] /\ outcome'[d] = outcome[d]
  BY DEF Fails, Ends, IInv, TypeOK
<1>2. Frame(c)
  BY <1>1, RollbackStep DEF Frame
<1>3. CallOK(c)'
  BY <1>1, RollbackStep DEF CallOK, InTransaction
<1> QED
  BY <1>2, <1>3, RollbackStep DEF StepOK

LEMMA ProgramOK ==
    ASSUME IInv, NEW c \in Calls, ProgramStep(c)
    PROVE  StepOK(c)
<1>0. CallOK(c) /\ conn[c] \in Conns /\ outcome[c] = "none"
  BY CallsOK DEF CallOK, ProgramStep, StartStatement, StartFails, BindFails, ExecuteStatement,
       StatementFails, FetchFails, ProgramFails, ProgramReturns
<1>1. CASE StartFails(c) \/ BindFails(c) \/ ProgramFails(c)
  BY <1>0, <1>1, FailedStep DEF StartFails, BindFails, ProgramFails, ExecuteFailed
<1>2. CASE StartStatement(c) \/ ProgramReturns(c)
  <2>1. UNCHANGED <<conn, outcome, avail, tx, work, committed, executed>>
    BY <1>2 DEF StartStatement, ProgramReturns, dbVars
  <2>2. Frame(c)
    BY <1>2, <2>1 DEF Frame, StartStatement, ProgramReturns, IInv, TypeOK
  <2>3. CallOK(c)'
    BY <1>0, <1>2, <2>1 DEF CallOK, StartStatement, ProgramReturns, InTransaction, IInv, TypeOK
  <2>4. ConnectionsConserved'
    BY <2>1, ConservedStep DEF IInv
  <2> QED
    BY <2>2, <2>3, <2>4 DEF StepOK
<1>3. CASE ExecuteStatement(c)
  <2>1. Frame(c)
    BY <1>3 DEF Frame, ExecuteStatement, IInv, TypeOK
  <2>2. CallOK(c)'
    BY <1>0, <1>3 DEF CallOK, ExecuteStatement, InTransaction, IInv, TypeOK
  <2>3. ConnectionsConserved'
    BY <1>3, ConservedStep DEF ExecuteStatement, IInv
  <2> QED
    BY <2>1, <2>2, <2>3 DEF StepOK
<1>4. CASE StatementFails(c) \/ FetchFails(c)
  <2>1. PICK s : SetTx(conn[c], s)
    BY <1>4 DEF StatementFails, FetchFails
  <2>2. \A k \in Conns \ {conn[c]} : tx'[k] = tx[k] /\ work'[k] = work[k]
    BY <2>1 DEF SetTx, IInv, TypeOK
  <2>3. UNCHANGED <<conn, avail, committed, executed>>
    BY <1>4 DEF StatementFails, FetchFails
  <2>4. stm'[c] = "Error" /\ \A d \in Calls \ {c} : stm'[d] = stm[d]
    BY <1>4 DEF StatementFails, FetchFails, IInv, TypeOK
  <2>5. /\ \/ pc'[c] = "unwind" /\ outcome'[c] = "failed"
           \/ pc'[c] = "run" /\ outcome'[c] = "none"
        /\ \A d \in Calls \ {c} : pc'[d] = pc[d] /\ outcome'[d] = outcome[d]
    BY <1>0, <1>4 DEF StatementFails, FetchFails, Fails, Ends, IInv, TypeOK
  <2>6. Frame(c)
    BY <2>2, <2>3, <2>4, <2>5 DEF Frame
  <2>7. CallOK(c)'
    BY <1>0, <2>3, <2>4, <2>5 DEF CallOK, InTransaction
  <2>8. ConnectionsConserved'
    BY <2>3, ConservedStep DEF IInv
  <2> QED
    BY <2>6, <2>7, <2>8 DEF StepOK
<1> QED
  BY <1>1, <1>2, <1>3, <1>4 DEF ProgramStep

\* The steps outside of the program
LEMMA CallStepOK ==
    ASSUME IInv, NEW c \in Calls, Call(c) \/ CallStep(c)
    PROVE  StepOK(c)
<1>0. TypeOK /\ ConnectionsConserved /\ CallOK(c)
  BY CallsOK
<1>1. CASE Call(c) \/ AcquireTimeout(c)
  <2>1. UNCHANGED <<stm, conn, avail, tx, work, committed, executed>>
    BY <1>1 DEF Call, AcquireTimeout, dbVars
  <2>2. Frame(c)
    BY <1>0, <1>1, <2>1 DEF Frame, Call, AcquireTimeout, Fails, Ends, TypeOK
  <2>3. CallOK(c)'
    BY <1>0, <1>1, <2>1 DEF CallOK, Call, AcquireTimeout, Fails, Ends, TypeOK, InTransaction
  <2> QED
    BY <1>0, <2>1, <2>2, <2>3, ConservedStep DEF StepOK
<1>2. CASE Begin(c)
  <2>0. conn[c] = NoConn /\ outcome[c] = "none" /\ c \notin executed
    BY <1>0, <1>2 DEF Begin, CallOK
  <2>1. PICK k \in avail :
            /\ avail' = avail \ {k}
            /\ conn' = [conn EXCEPT ![c] = k]
            /\ \/ /\ tx' = [tx EXCEPT ![k] = "open"]
                  /\ stm' = [stm EXCEPT ![c] = "Transaction"]
                  /\ pc' = [pc EXCEPT ![c] = "run"]
                  /\ UNCHANGED outcome
               \/ /\ stm' = [stm EXCEPT ![c] = "Error"]
                  /\ Fails(c)
                  /\ UNCHANGED tx
    BY <1>2 DEF Begin
  <2>2. Frame(c)
    BY <1>0, <1>2, <2>1 DEF Frame, Begin, Fails, Ends, TypeOK
  <2>3. CallOK(c)'
    BY <1>0, <1>2, <2>0, <2>1 DEF CallOK, Begin, Fails, Ends, TypeOK, InTransaction
  <2> QED
    BY <1>0, <2>0, <2>1, <2>2, <2>3, ConservedStep DEF StepOK
<1>3. CASE CriticalAuditFails(c)
  BY <1>0, <1>3, FailedStep DEF CriticalAuditFails, CriticalRollback, CallOK, Fails
<1>4. ASSUME Escapes(c), pc[c] \in {"audit", "inAudit"} PROVE StepOK(c)
  <2>1. Frame(c)
    BY <1>0, <1>4 DEF Frame, Escapes, Ends, TypeOK
  <2>2. CallOK(c)'
    BY <1>0, <1>4 DEF CallOK, Escapes, Ends, TypeOK, InTransaction
  <2> QED
    BY <1>0, <1>4, <2>1, <2>2, ConservedStep DEF StepOK, Escapes
<1>5. ASSUME NEW d \in Calls, AuditCall(c, d) PROVE StepOK(c)
  <2>1. UNCHANGED <<stm, conn, outcome, avail, tx, work, committed, executed>>
    BY <1>5 DEF AuditCall, dbVars
  <2>2. c # d /\ pc' = [pc EXCEPT ![c] = "inAudit", ![d] = "begin"] /\ pc[d] = "idle" /\ pc[c] = "audit"
    BY <1>5 DEF AuditCall
  <2>3. Frame(c)
    BY <1>0, <2>1, <2>2 DEF Frame, TypeOK
  <2>4. CallOK(c)'
    BY <1>0, <2>1, <2>2 DEF CallOK, TypeOK, InTransaction
  <2> QED
    BY <1>0, <2>1, <2>3, <2>4, ConservedStep DEF StepOK
<1>6. ASSUME NEW d \in Calls, AuditReturns(c, d) PROVE StepOK(c)
  <2>1. CASE CriticalRollback(c)
    BY <1>0, <1>6, <2>1, FailedStep DEF AuditReturns, CriticalRollback, CallOK, Fails
  <2>2. CASE Escapes(c)
    BY <1>4, <1>6, <2>2 DEF AuditReturns
  <2>3. CASE pc' = [pc EXCEPT ![c] = "audit"] /\ UNCHANGED <<stm, conn, left, outcome, dbVars>>
    <3>1. Frame(c)
      BY <1>0, <2>3 DEF Frame, dbVars, TypeOK
    <3>2. pc[c] = "inAudit"
      BY <1>6 DEF AuditReturns
    <3>3. CallOK(c)'
      BY <1>0, <2>3, <3>2 DEF CallOK, dbVars, TypeOK, InTransaction
    <3> QED
      BY <1>0, <2>3, <3>1, <3>3, ConservedStep DEF StepOK, dbVars
  <2> QED
    BY <1>6, <2>1, <2>2, <2>3 DEF AuditReturns
<1>7. CASE Commit(c)
  <2>0. conn[c] \in Conns /\ outcome[c] = "none"
    BY <1>0, <1>7 DEF Commit, CallOK
  <2>1. \A k \in Conns \ {conn[c]} : tx'[k] = tx[k] /\ work'[k] = work[k]
    BY <1>0, <1>7 DEF Commit, SetTx, TypeOK
  <2>2. ConnectionsConserved'
    BY <1>0, <1>7, ConservedStep DEF Commit
  <2>3. Frame(c)
    BY <1>0, <1>7, <2>1 DEF Frame, Commit, Fails, Ends, ResetConnection, TypeOK
  <2>4. stm'[c] \in {"Init", "Error"} /\ pc'[c] = "unwind"
    BY <1>0, <1>7 DEF Commit, Fails, Ends, TypeOK
  <2>5. outcome'[c] = "ok" /\ c \in executed' => c \in committed'
    BY <1>0, <1>7, <2>0 DEF Commit, Fails, Ends, Durable, CallOK, TypeOK
  <2>6. CallOK(c)'
    BY <2>4, <2>5 DEF CallOK, InTransaction
  <2> QED
    BY <2>2, <2>3, <2>6 DEF StepOK
<1>8. CASE Close(c)
  <2>1. Frame(c)
    BY <1>0, <1>8 DEF Frame, Close, ResetConnection, TypeOK
  <2>2. CallOK(c)'
    BY <1>0, <1>8 DEF CallOK, Close, ResetConnection, TypeOK, InTransaction
  <2> QED
    BY <1>0, <1>8, <2>1, <2>2, ConservedStep DEF StepOK, Close
<1>9. CASE BuildOutput(c)
  <2>1. UNCHANGED <<stm, conn, avail, tx, work, committed, executed>>
    BY <1>9 DEF BuildOutput, dbVars
  <2>2. Frame(c)
    BY <1>0, <1>9, <2>1 DEF Frame, BuildOutput, TypeOK
  <2>3. CallOK(c)'
    BY <1>0, <1>9, <2>1 DEF CallOK, BuildOutput, TypeOK, InTransaction
  <2> QED
    BY <1>0, <2>1, <2>2, <2>3, ConservedStep DEF StepOK
<1> QED
  BY <1>1, <1>2, <1>3, <1>4, <1>5, <1>6, <1>7, <1>8, <1>9, ProgramOK DEF CallStep, AuditEscapes

LEMMA InvInit == Init => IInv
<1> SUFFICES ASSUME Init PROVE IInv
  OBVIOUS
<1>1. TypeOK
  BY InitType
<1>2. ConnectionsConserved
  BY NullAssumption DEF Init, ConnectionsConserved
<1>3. \A c \in Calls : CallOK(c)
  BY DEF Init, CallOK, InTransaction
<1> QED
  BY <1>1, <1>2, <1>3, CallsOK

LEMMA InvStep == IInv /\ [Next]_vars => IInv'
<1> SUFFICES ASSUME IInv, [Next]_vars PROVE IInv'
  OBVIOUS
<1>1. CASE UNCHANGED vars
  BY <1>1 DEF vars, callVars, dbVars, IInv, TypeOK, ConnectionsConserved, PhaseOK, OpenOK, SuccessIsDurable
<1>2. ASSUME NEW c \in Calls, Call(c) \/ CallStep(c) PROVE IInv'
  <2>1. TypeOK'
    BY <1>2, CallTypes DEF IInv
  <2>2. StepOK(c)
    BY <1>2, CallStepOK
  <2> QED
    BY <2>1, <2>2, FrameKeeps DEF StepOK
<1> QED
  BY <1>1, <1>2 DEF Next, Terminated

LEMMA Invariance == Spec => []IInv
BY InvInit, InvStep, PTL DEF Spec

\* A connection is in the pool or with exactly one call, whatever fails in
\* begin(), execute(), commit(), rollback() or an audit function.
THEOREM Conserved == Spec => []ConnectionsConserved
<1>1. IInv => ConnectionsConserved
  BY DEF IInv
<1> QED
  BY <1>1, Invariance, PTL

\* commit() succeeds only for a transaction that is alive on the server, so
\* a call that succeeds has made its statements durable.
THEOREM SuccessDurable == Spec => []SuccessIsDurable
<1>1. IInv => SuccessIsDurable
  BY DEF IInv
<1> QED
  BY <1>1, Invariance, PTL

\* A connection goes back to the pool when its transaction ends, or from the
\* destructor of the Transaction object.
Returns(c) == avail' = avail \cup ({conn[c]} \ {NoConn}) /\ (tx'[conn[c]] = "none" \/ pc[c] = "unwind")

LEMMA RollbackReturns ==
    ASSUME TypeOK, NEW c \in Calls, conn[c] \in Conns, NEW s, Rollback(c, s)
    PROVE  avail' \subseteq avail \/ Returns(c)
<1>1. CASE SetTx(conn[c], "none") /\ ResetConnection(c)
  BY <1>1 DEF SetTx, ResetConnection, Returns, TypeOK
<1>2. CASE avail' = avail
  BY <1>2
<1> QED
  BY <1>1, <1>2 DEF Rollback

LEMMA StepReturns ==
    ASSUME IInv, NEW c \in Calls, Call(c) \/ CallStep(c)
    PROVE  avail' \subseteq avail \/ Returns(c)
<1>1. TypeOK /\ CallOK(c)
  BY CallsOK
<1>2. ASSUME NEW s, Rollback(c, s), pc[c] \in {"run", "audit", "inAudit"}
      PROVE  avail' \subseteq avail \/ Returns(c)
  BY <1>1, <1>2, RollbackReturns DEF CallOK
<1>3. CASE Call(c) \/ AcquireTimeout(c) \/ BuildOutput(c)
  BY <1>3 DEF Call, AcquireTimeout, BuildOutput, dbVars
<1>4. CASE Begin(c)
  BY <1>4 DEF Begin
<1>5. CASE StartFails(c) \/ BindFails(c) \/ ProgramFails(c)
  BY <1>2, <1>5 DEF StartFails, BindFails, ProgramFails, ExecuteFailed
<1>6. CASE StartStatement(c) \/ ExecuteStatement(c) \/ StatementFails(c) \/ FetchFails(c) \/ ProgramReturns(c)
  BY <1>6 DEF StartStatement, ExecuteStatement, StatementFails, FetchFails, ProgramReturns, dbVars
<1>7. CASE CriticalAuditFails(c)
  BY <1>2, <1>7 DEF CriticalAuditFails, CriticalRollback
<1>8. CASE AuditEscapes(c)
  BY <1>8 DEF AuditEscapes, Escapes
<1>9. ASSUME NEW d \in Calls, AuditCall(c, d) \/ AuditReturns(c, d)
      PROVE  avail' \subseteq avail \/ Returns(c)
  BY <1>2, <1>9 DEF AuditCall, AuditReturns, CriticalRollback, Escapes, dbVars
<1>10. CASE Commit(c)
  <2>1. conn[c] \in Conns
    BY <1>1, <1>10 DEF Commit, CallOK
  <2>2. CASE SetTx(conn[c], "none") /\ ResetConnection(c)
    BY <1>1, <2>1, <2>2 DEF SetTx, ResetConnection, Returns, TypeOK
  <2>3. CASE avail' = avail
    BY <2>3
  <2> QED
    BY <1>10, <2>2, <2>3 DEF Commit
<1>11. CASE Close(c)
  BY <1>11 DEF Close, ResetConnection, Returns
<1> QED
  BY <1>3, <1>4, <1>5, <1>6, <1>7, <1>8, <1>9, <1>10, <1>11 DEF CallStep, ProgramStep

\* A connection inside a transaction goes back to the pool only from state Error,
\* after a ROLLBACK that failed, or when an exception escaped ("a rollback
\* occurrs", ProgramTransactions.xml:584), on both databases.
THEOREM ReturnsClean == Spec => ReturnedClean
<1> DEFINE A == \A k \in Conns :
                    k \notin avail /\ k \in avail' /\ tx'[k] # "none" =>
                        \E c \in Calls : /\ conn[c] = k
                                         /\ pc[c] = "unwind"
                                         /\ stm[c] \in {"Error", "Init"} \/ outcome[c] = "escaped"
<1>1. IInv /\ [Next]_vars => [A]_vars
  <2> SUFFICES ASSUME IInv, Next, vars' # vars, NEW k \in Conns, k \notin avail, k \in avail', tx'[k] # "none"
               PROVE  \E c \in Calls : /\ conn[c] = k
                                       /\ pc[c] = "unwind"
                                       /\ stm[c] \in {"Error", "Init"} \/ outcome[c] = "escaped"
    OBVIOUS
  <2>1. PICK c \in Calls : Call(c) \/ CallStep(c)
    BY DEF Next, Terminated
  <2>2. Returns(c)
    BY <2>1, StepReturns
  <2>3. conn[c] = k /\ pc[c] = "unwind"
    BY <2>2 DEF Returns
  <2>4. CallOK(c)
    BY CallsOK
  <2> QED
    BY <2>3, <2>4 DEF CallOK
<1> QED
  BY <1>1, Invariance, PTL DEF Spec, ReturnedClean

-----------------------------------------------------------------------------
(* Atomicity on SQLite *)

\* Statements are pending only in an open transaction.
DatabaseOK == \A k \in Conns : work[k] \subseteq executed /\ (work[k] # {} => tx[k] = "open")

\* Because BEGIN is refused inside a transaction, a transaction holds the
\* statements of its own call only.
OwnWorkOnly == \A c \in Calls : stm[c] \in InTransaction => work[conn[c]] \subseteq {c}

NoFilter == \A c \in Calls : pc[c] # "filter"

SInv == DatabaseOK /\ OwnWorkOnly /\ NoFilter

\* The two ways in which the transaction of a connection changes
LEMMA DatabaseStep ==
    ASSUME IInv, DatabaseOK, NEW k \in Conns, executed' = executed,
           \/ \E s : SetTx(k, s)
           \/ UNCHANGED <<tx, work>>
           \/ tx[k] = "none" /\ tx' = [tx EXCEPT ![k] = "open"] /\ UNCHANGED work
    PROVE  DatabaseOK' /\ \A l \in Conns : work'[l] \subseteq work[l]
<1>1. ASSUME NEW s, SetTx(k, s) PROVE DatabaseOK' /\ \A l \in Conns : work'[l] \subseteq work[l]
  BY <1>1 DEF SetTx, DatabaseOK, IInv, TypeOK
<1>2. CASE UNCHANGED <<tx, work>>
  BY <1>2 DEF DatabaseOK
<1>3. CASE tx[k] = "none" /\ tx' = [tx EXCEPT ![k] = "open"] /\ UNCHANGED work
  BY <1>3 DEF DatabaseOK, IInv, TypeOK
<1> QED
  BY <1>1, <1>2, <1>3

\* A framed step of c keeps OwnWorkOnly for the other calls.
LEMMA OwnWorkFrame ==
    ASSUME IInv, IInv', OwnWorkOnly, NEW c \in Calls, Frame(c),
           stm'[c] \in InTransaction => work'[conn'[c]] \subseteq {c}
    PROVE  OwnWorkOnly'
<1> SUFFICES ASSUME NEW d \in Calls \ {c}, stm'[d] \in InTransaction PROVE work'[conn'[d]] \subseteq {d}
  BY DEF OwnWorkOnly
<1>1. stm[d] \in InTransaction /\ conn'[d] = conn[d]
  BY DEF Frame
<1>2. conn[d] \in Conns /\ conn[d] # conn[c] /\ conn'[d] # conn'[c]
  BY <1>1 DEF IInv, PhaseOK, ConnectionsConserved
<1> QED
  BY <1>1, <1>2 DEF Frame, OwnWorkOnly

\* A step that rolls back, or leaves the transaction state otherwise
LEMMA LeavesTransaction ==
    ASSUME IInv, IInv', SInv, NEW c \in Calls, Frame(c), conn[c] \in Conns,
           (\E s : SetTx(conn[c], s)) \/ UNCHANGED <<tx, work>>,
           executed' = executed, stm'[c] \notin InTransaction, NoFilter'
    PROVE  SInv'
BY DatabaseStep, OwnWorkFrame DEF SInv

\* A step that leaves the database and the state machines alone
LEMMA DatabaseUntouched ==
    ASSUME SInv, UNCHANGED <<stm, conn, tx, work, executed>>, NoFilter'
    PROVE  SInv'
BY DEF SInv, DatabaseOK, OwnWorkOnly

\* What rollback() does to the database and to the state machine
LEMMA RollbackLeaves ==
    ASSUME IInv, NEW c \in Calls, NEW s, Rollback(c, s)
    PROVE  /\ (\E e : SetTx(conn[c], e)) \/ UNCHANGED <<tx, work>>
           /\ stm'[c] \notin InTransaction
<1>1. (\E e : SetTx(conn[c], e)) \/ UNCHANGED <<tx, work>>
  BY DEF Rollback
<1>2. stm'[c] \in {"Init", "Error"}
  BY DEF Rollback, IInv, TypeOK
<1> QED
  BY <1>1, <1>2 DEF InTransaction

LEMMA AtomicProgram ==
    ASSUME IInv, IInv', SInv, NEW c \in Calls, ProgramStep(c)
    PROVE  SInv'
<1>0. conn[c] \in Conns /\ Frame(c)
  <2>1. conn[c] \in Conns
    BY CallsOK DEF CallOK, ProgramStep, StartStatement, StartFails, BindFails, ExecuteStatement,
         StatementFails, FetchFails, ProgramFails, ProgramReturns
  <2> QED
    BY <2>1, ProgramOK DEF StepOK
<1>1. NoFilter'
  BY DEF ProgramStep, StartStatement, StartFails, BindFails, ExecuteStatement, StatementFails, FetchFails,
       ProgramFails, ProgramReturns, ExecuteFailed, Fails, Ends, SInv, NoFilter, IInv, TypeOK
<1>2. CASE StartFails(c) \/ BindFails(c) \/ ProgramFails(c)
  <2>1. PICK s : \E o \in {"failed", "escaped"} : ExecuteFailed(c, s, o)
    BY <1>2 DEF StartFails, BindFails, ProgramFails
  <2>2. executed' = executed
    BY <2>1 DEF ExecuteFailed
  <2>3. Rollback(c, s)
    BY <2>1 DEF ExecuteFailed
  <2> QED
    BY <1>0, <1>1, <2>2, <2>3, RollbackLeaves, LeavesTransaction
<1>3. CASE StartStatement(c)
  <2>1. UNCHANGED <<conn, tx, work, executed>> /\ stm[c] \in InTransaction
    BY <1>3 DEF StartStatement, dbVars, InTransaction
  <2>2. DatabaseOK'
    BY <2>1 DEF SInv, DatabaseOK
  <2>3. OwnWorkOnly'
    BY <1>0, <2>1, OwnWorkFrame DEF SInv, OwnWorkOnly
  <2> QED
    BY <1>1, <2>2, <2>3 DEF SInv
<1>4. CASE ExecuteStatement(c)
  <2>1. stm[c] \in InTransaction
    BY <1>4 DEF ExecuteStatement, InTransaction
  <2>2. tx[conn[c]] = "open" /\ work[conn[c]] \subseteq {c}
    BY <2>1 DEF IInv, OpenOK, SInv, OwnWorkOnly
  <2>3. DatabaseOK'
    BY <1>0, <1>4, <2>2 DEF ExecuteStatement, SInv, DatabaseOK, IInv, TypeOK
  <2>4. work'[conn'[c]] \subseteq {c}
    BY <1>0, <1>4, <2>2 DEF ExecuteStatement, IInv, TypeOK
  <2> QED
    BY <1>0, <1>1, <2>3, <2>4, OwnWorkFrame DEF SInv
<1>5. CASE StatementFails(c) \/ FetchFails(c)
  <2>1. (\E s : SetTx(conn[c], s)) /\ executed' = executed /\ stm' = [stm EXCEPT ![c] = "Error"]
    BY <1>5 DEF StatementFails, FetchFails
  <2>2. stm'[c] \notin InTransaction
    BY <2>1 DEF InTransaction, IInv, TypeOK
  <2> QED
    BY <1>0, <1>1, <2>1, <2>2, LeavesTransaction
<1>6. CASE ProgramReturns(c)
  BY <1>1, <1>6, DatabaseUntouched DEF ProgramReturns, dbVars
<1> QED
  BY <1>2, <1>3, <1>4, <1>5, <1>6 DEF ProgramStep

LEMMA AtomicCall ==
    ASSUME SQLite, ~ResultFilter, IInv, IInv', SInv, NEW c \in Calls, Call(c) \/ CallStep(c)
    PROVE  SInv'
<1>0. Frame(c) /\ CallOK(c) /\ TypeOK /\ DatabaseOK /\ OwnWorkOnly
  BY CallStepOK, CallsOK DEF StepOK, SInv
<1>1. CASE Call(c) \/ AcquireTimeout(c)
  <2>1. NoFilter'
    BY <1>1 DEF Call, AcquireTimeout, Fails, Ends, SInv, NoFilter, IInv, TypeOK
  <2> QED
    BY <1>1, <2>1, DatabaseUntouched DEF Call, AcquireTimeout, dbVars
<1>2. CASE Begin(c)
  <2>1. PICK k \in avail :
            /\ conn' = [conn EXCEPT ![c] = k]
            /\ \/ tx[k] = "none" /\ tx' = [tx EXCEPT ![k] = "open"]
               \/ stm' = [stm EXCEPT ![c] = "Error"] /\ UNCHANGED tx
    BY <1>2 DEF Begin, AcceptsBegin
  <2>2. k \in Conns /\ UNCHANGED <<work, executed>>
    BY <1>0, <1>2, <2>1 DEF Begin, TypeOK
  <2>3. DatabaseOK'
    BY <1>0, <2>1, <2>2, DatabaseStep
  <2>4. stm'[c] \in InTransaction => work'[conn'[c]] \subseteq {c}
    <3>1. CASE tx[k] = "none" /\ tx' = [tx EXCEPT ![k] = "open"]
      BY <1>0, <2>1, <2>2, <3>1 DEF DatabaseOK, TypeOK
    <3>2. CASE stm' = [stm EXCEPT ![c] = "Error"]
      BY <1>0, <3>2 DEF InTransaction, TypeOK
    <3> QED
      BY <2>1, <3>1, <3>2
  <2>5. NoFilter'
    BY <1>2 DEF Begin, Fails, Ends, SInv, NoFilter, IInv, TypeOK
  <2> QED
    BY <1>0, <2>3, <2>4, <2>5, OwnWorkFrame DEF SInv
<1>3. ASSUME CriticalRollback(c), pc[c] \in {"audit", "inAudit"} PROVE SInv'
  <2>1. NoFilter'
    BY <1>3 DEF CriticalRollback, Fails, Ends, SInv, NoFilter, IInv, TypeOK
  <2>2. Rollback(c, stm[c]) /\ executed' = executed /\ conn[c] \in Conns
    BY <1>0, <1>3 DEF CriticalRollback, CallOK
  <2> QED
    BY <1>0, <2>1, <2>2, RollbackLeaves, LeavesTransaction
<1>4. ASSUME Escapes(c) PROVE SInv'
  <2>1. NoFilter'
    BY <1>4 DEF Escapes, Ends, SInv, NoFilter, IInv, TypeOK
  <2> QED
    BY <1>4, <2>1, DatabaseUntouched DEF Escapes
<1>5. ASSUME NEW d \in Calls, AuditCall(c, d) PROVE SInv'
  <2>1. NoFilter'
    BY <1>5 DEF AuditCall, SInv, NoFilter, IInv, TypeOK
  <2> QED
    BY <1>5, <2>1, DatabaseUntouched DEF AuditCall, dbVars
<1>6. ASSUME NEW d \in Calls, AuditReturns(c, d) PROVE SInv'
  <2>1. CASE pc' = [pc EXCEPT ![c] = "audit"] /\ UNCHANGED <<stm, conn, left, outcome, dbVars>>
    <3>1. NoFilter'
      BY <2>1 DEF SInv, NoFilter, IInv, TypeOK
    <3> QED
      BY <2>1, <3>1, DatabaseUntouched DEF dbVars
  <2> QED
    BY <1>3, <1>4, <1>6, <2>1 DEF AuditReturns
<1>7. CASE Commit(c)
  <2>1. NoFilter'
    BY <1>7 DEF Commit, Fails, Ends, SInv, NoFilter, IInv, TypeOK
  <2>2. stm'[c] \in {"Init", "Error"} /\ executed' = executed
    BY <1>0, <1>7 DEF Commit, TypeOK
  <2>3. conn[c] \in Conns
    BY <1>0, <1>7 DEF Commit, CallOK
  <2>4. (\E s : SetTx(conn[c], s)) \/ UNCHANGED <<tx, work>>
    BY <1>7 DEF Commit
  <2>5. stm'[c] \notin InTransaction
    BY <2>2 DEF InTransaction
  <2> QED
    BY <1>0, <2>1, <2>2, <2>3, <2>4, <2>5, LeavesTransaction
<1>8. CASE Close(c)
  <2>1. NoFilter'
    BY <1>8 DEF Close, SInv, NoFilter, IInv, TypeOK
  <2>2. DatabaseOK'
    BY <1>0, <1>8 DEF Close, DatabaseOK
  <2>3. stm'[c] \notin InTransaction
    BY <1>0, <1>8 DEF Close, InTransaction, TypeOK
  <2> QED
    BY <1>0, <2>1, <2>2, <2>3, OwnWorkFrame DEF SInv
<1>9. CASE BuildOutput(c)
  BY <1>9 DEF BuildOutput, SInv, NoFilter
<1>10. CriticalAuditFails(c) => SInv'
  BY <1>3 DEF CriticalAuditFails
<1> QED
  BY <1>1, <1>2, <1>4, <1>5, <1>6, <1>7, <1>8, <1>9, <1>10, AtomicProgram DEF CallStep, AuditEscapes

-----------------------------------------------------------------------------
(* The refinement *)

\* The status of a call depends on its phase and its outcome only.
LEMMA StatusOf ==
    \A c \in Calls :
        /\ pc[c] = "idle" => Status(c) = "idle"
        /\ pc[c] = "done" => Status(c) = IF outcome[c] = "ok" THEN "ok" ELSE "failed"
        /\ pc[c] \notin {"idle", "done"} =>
              Status(c) = IF outcome[c] = "ok" THEN "committed" ELSE "running"
BY DEF Status

LEMMA StatusNext ==
    \A c \in Calls :
        /\ pc'[c] = "idle" => Status(c)' = "idle"
        /\ pc'[c] = "done" => Status(c)' = IF outcome'[c] = "ok" THEN "ok" ELSE "failed"
        /\ pc'[c] \notin {"idle", "done"} =>
              Status(c)' = IF outcome'[c] = "ok" THEN "committed" ELSE "running"
BY DEF Status

\* A step that changes the status of no call but c
LEMMA StatusChange ==
    ASSUME NEW c \in Calls, \A d \in Calls \ {c} : pc'[d] = pc[d] /\ outcome'[d] = outcome[d]
    PROVE  [d \in Calls |-> Status(d)]' = [[d \in Calls |-> Status(d)] EXCEPT ![c] = Status(c)']
BY DEF Status

\* A call that was running and still is, and has written nothing: a stutter
LEMMA StillRunning ==
    ASSUME NEW c \in Calls, UNCHANGED <<executed, committed>>,
           \A d \in Calls \ {c} : pc'[d] = pc[d] /\ outcome'[d] = outcome[d],
           pc[c] \notin {"idle", "done"}, outcome[c] # "ok",
           pc'[c] \notin {"idle", "done"}, outcome'[c] # "ok"
    PROVE  UNCHANGED Abstract!vars
<1>1. Status(c) = "running" /\ Status(c)' = "running"
  BY StatusOf, StatusNext
<1>2. [d \in Calls |-> Status(d)]' = [d \in Calls |-> Status(d)]
  BY <1>1, StatusChange
<1> QED
  BY <1>2 DEF Abstract!vars

LEMMA AbstractStep ==
    ASSUME SQLite, ~ResultFilter, IInv, SInv, NEW c \in Calls, Call(c) \/ CallStep(c)
    PROVE  Abstract!Next \/ UNCHANGED Abstract!vars
<1>0. TypeOK /\ CallOK(c) /\ pc[c] # "filter"
  BY CallsOK DEF SInv, NoFilter
<1>1. CASE Call(c)
  <2>1. /\ \A d \in Calls \ {c} : pc'[d] = pc[d] /\ outcome'[d] = outcome[d]
        /\ UNCHANGED <<executed, committed>>
        /\ pc[c] = "idle" /\ pc'[c] \in {"begin", "unwind"} /\ outcome'[c] # "ok"
    BY <1>0, <1>1 DEF Call, Fails, Ends, dbVars, CallOK, TypeOK
  <2>2. Status(c) = "idle" /\ Status(c)' = "running"
    BY <2>1, StatusOf, StatusNext
  <2>3. Abstract!Call(c)
    BY <2>1, <2>2, StatusChange DEF Abstract!Call
  <2> QED
    BY <2>3 DEF Abstract!Next
<1>2. CASE ExecuteStatement(c)
  <2>1. UNCHANGED <<pc, outcome, committed>> /\ executed' = executed \cup {c}
    BY <1>2 DEF ExecuteStatement
  <2>2. pc[c] = "run" /\ outcome[c] = "none"
    BY <1>0, <1>2 DEF ExecuteStatement, CallOK
  <2>3. Status(c) = "running" /\ Status(c)' = "running"
    BY <2>1, <2>2, StatusOf, StatusNext
  <2>4. [d \in Calls |-> Status(d)]' = [d \in Calls |-> Status(d)]
    BY <2>1, <2>3, StatusChange
  <2>5. Abstract!Write(c)
    BY <2>1, <2>3, <2>4 DEF Abstract!Write
  <2> QED
    BY <2>5 DEF Abstract!Next
<1>3. CASE Begin(c) \/ AcquireTimeout(c)
  <2>1. /\ \A d \in Calls \ {c} : pc'[d] = pc[d] /\ outcome'[d] = outcome[d]
        /\ UNCHANGED <<executed, committed>>
        /\ pc[c] = "begin" /\ outcome[c] = "none"
        /\ pc'[c] \in {"run", "unwind"} /\ outcome'[c] # "ok"
    BY <1>0, <1>3 DEF Begin, AcquireTimeout, Fails, Ends, dbVars, CallOK, TypeOK
  <2> QED
    BY <2>1, StillRunning
<1>4. CASE ProgramStep(c) /\ ~ExecuteStatement(c)
  <2>1. pc[c] = "run" /\ outcome[c] = "none" /\ UNCHANGED <<executed, committed>>
    BY <1>0, <1>4 DEF ProgramStep, StartStatement, StartFails, BindFails, StatementFails, FetchFails,
         ProgramFails, ProgramReturns, ExecuteFailed, dbVars, CallOK
  <2>2. \/ UNCHANGED <<pc, outcome>>
        \/ \E o \in {"failed", "escaped"} : Ends(c, o)
        \/ pc' = [pc EXCEPT ![c] = "audit"] /\ UNCHANGED outcome
    BY <1>4 DEF ProgramStep, StartStatement, StartFails, BindFails, StatementFails, FetchFails,
         ProgramFails, ProgramReturns, ExecuteFailed, Fails
  <2>3. /\ \A d \in Calls \ {c} : pc'[d] = pc[d] /\ outcome'[d] = outcome[d]
        /\ pc'[c] \in {"run", "unwind", "audit"} /\ outcome'[c] # "ok"
    BY <1>0, <2>1, <2>2 DEF Fails, Ends, TypeOK
  <2> QED
    BY <2>1, <2>3, StillRunning
<1>5. ASSUME CriticalRollback(c) \/ Escapes(c), pc[c] \in {"audit", "inAudit"}
      PROVE  UNCHANGED Abstract!vars
  <2>1. /\ \A d \in Calls \ {c} : pc'[d] = pc[d] /\ outcome'[d] = outcome[d]
        /\ UNCHANGED <<executed, committed>>
        /\ outcome[c] = "none" /\ pc'[c] = "unwind" /\ outcome'[c] # "ok"
    BY <1>0, <1>5 DEF CriticalRollback, Escapes, Fails, Ends, CallOK, TypeOK
  <2> QED
    BY <1>5, <2>1, StillRunning
<1>6. ASSUME NEW d \in Calls, AuditCall(c, d) PROVE Abstract!Next
  <2>1. /\ pc[c] = "audit" /\ pc[d] = "idle" /\ c # d /\ outcome' = outcome
        /\ pc' = [pc EXCEPT ![c] = "inAudit", ![d] = "begin"]
        /\ UNCHANGED <<executed, committed>>
    BY <1>6 DEF AuditCall, dbVars
  <2>2. outcome[c] = "none" /\ outcome[d] = "none"
    BY <2>1, CallsOK DEF CallOK
  <2>3. \A e \in Calls \ {d} : Status(e)' = Status(e)
    BY <1>0, <2>1, <2>2 DEF Status, TypeOK
  <2>4. Status(d) = "idle" /\ Status(d)' = "running"
    BY <1>0, <2>1, <2>2, StatusOf, StatusNext DEF TypeOK
  <2>5. Abstract!Call(d)
    BY <2>1, <2>3, <2>4 DEF Abstract!Call
  <2> QED
    BY <2>5 DEF Abstract!Next
<1>7. ASSUME NEW d \in Calls, AuditReturns(c, d) PROVE UNCHANGED Abstract!vars
  <2>1. pc[c] = "inAudit"
    BY <1>7 DEF AuditReturns
  <2>2. CASE pc' = [pc EXCEPT ![c] = "audit"] /\ UNCHANGED <<stm, conn, left, outcome, dbVars>>
    <3>1. /\ \A e \in Calls \ {c} : pc'[e] = pc[e] /\ outcome'[e] = outcome[e]
          /\ UNCHANGED <<executed, committed>>
          /\ pc'[c] = "audit" /\ outcome[c] # "ok" /\ outcome'[c] # "ok"
      BY <1>0, <2>1, <2>2 DEF CallOK, dbVars, TypeOK
    <3> QED
      BY <2>1, <3>1, StillRunning
  <2> QED
    BY <1>5, <1>7, <2>1, <2>2 DEF AuditReturns
<1>8. CASE Commit(c)
  <2>0. /\ \A d \in Calls \ {c} : pc'[d] = pc[d] /\ outcome'[d] = outcome[d]
        /\ pc[c] = "audit" /\ outcome[c] = "none" /\ pc'[c] = "unwind" /\ executed' = executed
    BY <1>0, <1>8 DEF Commit, Fails, Ends, CallOK, TypeOK
  <2>1. CASE committed' = committed /\ outcome'[c] # "ok"
    BY <2>0, <2>1, StillRunning
  <2>2. CASE /\ stm[c] \in InTransaction
             /\ committed' = committed \cup Durable(conn[c])
             /\ outcome'[c] = "ok"
    <3>1. Durable(conn[c]) = {c} \cap executed
      BY <1>0, <2>2 DEF Durable, CallOK, SInv, DatabaseOK, OwnWorkOnly, TypeOK
    <3>2. Status(c) = "running" /\ Status(c)' = "committed"
      BY <2>0, <2>2, StatusOf, StatusNext
    <3>3. Abstract!Commit(c)
      BY <2>0, <2>2, <3>1, <3>2, StatusChange DEF Abstract!Commit
    <3> QED
      BY <3>3 DEF Abstract!Next
  <2> QED
    BY <1>0, <1>8, <2>1, <2>2 DEF Commit, Fails, Ends, TypeOK
<1>9. CASE Close(c)
  <2>1. /\ \A d \in Calls \ {c} : pc'[d] = pc[d] /\ outcome'[d] = outcome[d]
        /\ UNCHANGED <<executed, committed>>
        /\ pc[c] = "unwind" /\ pc'[c] = "done" /\ outcome'[c] = outcome[c]
    BY <1>0, <1>9 DEF Close, TypeOK
  <2>2. \/ Status(c) = "committed" /\ Status(c)' = "ok"
        \/ Status(c) = "running" /\ Status(c)' = "failed"
    BY <2>1, StatusOf, StatusNext
  <2>3. Abstract!Return(c)
    BY <2>1, <2>2, StatusChange DEF Abstract!Return
  <2> QED
    BY <2>3 DEF Abstract!Next
<1>10. ~BuildOutput(c)
  BY <1>0 DEF BuildOutput
<1> QED
  BY <1>1, <1>2, <1>3, <1>4, <1>5, <1>6, <1>7, <1>8, <1>9, <1>10
     DEF CallStep, CriticalAuditFails, AuditEscapes

\* On SQLite and without result filters a call of a transaction function is
\* atomic: its statements become durable all at once in commit() of a call
\* that returns successfully, and a call that fails leaves nothing behind,
\* although rollback() is refused in state Error and the connection goes back
\* to the pool inside its transaction.
THEOREM Atomicity ==
    ASSUME SQLite, ~ResultFilter
    PROVE  Spec => ImplementsAtomicCalls
<1>1. Init => Abstract!Init
  BY DEF Init, Abstract!Init, Status
<1>2. Init => SInv
  BY DEF Init, SInv, DatabaseOK, OwnWorkOnly, NoFilter, InTransaction
<1>3. IInv /\ IInv' /\ SInv /\ [Next]_vars => SInv'
  <2>1. UNCHANGED vars /\ SInv => SInv'
    BY DEF vars, callVars, dbVars, SInv, DatabaseOK, OwnWorkOnly, NoFilter
  <2> QED
    BY <2>1, AtomicCall DEF Next, Terminated
<1>4. IInv /\ SInv /\ [Next]_vars => [Abstract!Next]_(Abstract!vars)
  <2>1. UNCHANGED vars => UNCHANGED Abstract!vars
    BY DEF vars, callVars, dbVars, Abstract!vars, Status
  <2> QED
    BY <2>1, AbstractStep DEF Next, Terminated
<1> QED
  BY Invariance, <1>1, <1>2, <1>3, <1>4, PTL DEF Spec, ImplementsAtomicCalls, Abstract!Spec
=============================================================================
