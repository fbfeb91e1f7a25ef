-------------------------- MODULE Connection_proofs --------------------------
(***************************************************************************)
(* Proofs about module Connection: the type invariant, the safety          *)
(* invariants of a session and that it implements module Session.          *)
(***************************************************************************)
EXTENDS Connection, TLAPS

-----------------------------------------------------------------------------
(* The inductive invariant *)

\* Between two handlers only five of the states are seen.
Settled == {"NEW_CONNECTION", "SEND_HELLO", "COMMAND_HANDLER", "TERMINATING", "FINISHED"}

StateSettled ==
    /\ state \in Settled
    /\ started <=> state # "NEW_CONNECTION"

\* Reads and writes that have been started and whose handler has not run.
ReadTokens == reads + ready["read"] + ready["readError"]
WriteTokens == writes["hello"] + writes["data"] + writes["bye"]
                   + ready["write"] + ready["writeError"]

\* Which operations can be outstanding in which state.
TokensOK ==
    /\ state = "NEW_CONNECTION" => /\ ReadTokens = 0 /\ WriteTokens = 0
                                   /\ ready["timeout"] = 0 /\ ready["signal"] = 0
    /\ state = "SEND_HELLO" => /\ ReadTokens = 0 /\ WriteTokens = 1
                               /\ writes["data"] = 0 /\ writes["bye"] = 0
    /\ state = "COMMAND_HANDLER" => /\ ReadTokens + WriteTokens = 1
                                    /\ writes["bye"] = 0
    /\ state = "TERMINATING" => ReadTokens + WriteTokens >= 1
    /\ ReadTokens <= 1
    /\ writes["hello"] + writes["data"] <= 1
    /\ writes["bye"] <= 1

\* A timeout can only strike once the first read has begun.
TimerOK == state \in {"NEW_CONNECTION", "SEND_HELLO"} => timer = "off" /\ ready["timeout"] = 0

\* While the protocol handler waits for input it reports an answer exactly when
\* the client is inside one, and never reports one otherwise.
ReportOK ==
    state \in {"NEW_CONNECTION", "SEND_HELLO", "COMMAND_HANDLER"} =>
        /\ reported => inAnswer
        /\ waits = "READ" => reported = inAnswer

\* A refused peer never gets past its farewell; the marker and the farewell
\* belong to the answer they interrupt.
FarewellOK ==
    /\ forbidden => /\ state \in {"TERMINATING", "FINISHED"}
                    /\ ReadTokens = 0
                    /\ writes["hello"] = 0 /\ writes["data"] = 0
    /\ state \in {"NEW_CONNECTION", "SEND_HELLO"} => ~marker /\ ~inAnswer
    /\ byeMarked # "none" => state \in {"TERMINATING", "FINISHED"}
    /\ ByeFramed
    /\ ReportOK
    /\ state = "NEW_CONNECTION" => ~forbidden

IInv ==
    /\ TypeOK
    /\ StateSettled
    /\ ClosedExactlyOnce
    /\ TokensOK
    /\ TimerOK
    /\ FarewellOK

-----------------------------------------------------------------------------
(* Types *)

\* Whatever operation the state machine asks for, nextOperation() leaves
\* well-typed state behind.
LEMMA NextOperationType ==
    ASSUME TypeOK, NEW s \in FSMstate, NEW t \in Timer, NEW q \in [Handler -> Nat],
           marker' \in BOOLEAN, NextOperation(s, t, q)
    PROVE  /\ state' \in FSMstate
           /\ waits' \in {"READ", "WRITE"} /\ inAnswer' \in BOOLEAN /\ reported' \in BOOLEAN
           /\ registered' \in BOOLEAN
           /\ reads' \in Nat
           /\ writes' \in [Message -> Nat]
           /\ timer' \in Timer
           /\ ready' \in [Handler -> Nat]
           /\ byeMarked' \in {"none", "plain", "marked"}
<1> USE DEF NextOperation, Send, ReadData, CloseConnection, NoOp, SendBye, CommandHandler
<1>1. /\ waits' \in {"READ", "WRITE"} /\ inAnswer' \in BOOLEAN /\ reported' \in BOOLEAN
      /\ registered' \in BOOLEAN
  BY DEF TypeOK, AsksRead, AsksWrite, AsksClose, protocolVars
<1>2. /\ state' \in FSMstate
      /\ reads' \in Nat
      /\ writes' \in [Message -> Nat]
      /\ timer' \in Timer
      /\ ready' \in [Handler -> Nat]
      /\ byeMarked' \in {"none", "plain", "marked"}
  BY DEF TypeOK, FSMstate, Message, Handler, Timer
<1> QED
  BY <1>1, <1>2

\* signalOccured() leaves a state of the state machine and a marker.
LEMMA SignalType ==
    ASSUME TypeOK, NEW sig \in NetworkSignal
    PROVE  /\ SignalState(state, sig) \in FSMstate
           /\ SignalMarker(sig) \in BOOLEAN
BY DEF TypeOK, SignalState, SignalMarker, FSMstate

\* Taking a queued handler off the queue leaves a queue, and so does posting one.
LEMMA QueueType ==
    ASSUME TypeOK, NEW h \in Handler
    PROVE  /\ ready[h] > 0 => Run(h) \in [Handler -> Nat]
           /\ Post(h) \in [Handler -> Nat]
BY DEF TypeOK, Run, Post

\* Every handler and every event of the environment preserves the types.
LEMMA TypeStep == TypeOK /\ [Next]_vars => TypeOK'
<1> SUFFICES ASSUME TypeOK, [Next]_vars PROVE TypeOK'
  OBVIOUS
<1> USE DEF fsmVars, protocolVars, ioVars, historyVars
<1>1. CASE Start
  <2>1. "FORBIDDEN" \in FSMstate /\ state \in FSMstate /\ timer \in Timer
        /\ ready \in [Handler -> Nat] /\ marker' \in BOOLEAN
    BY <1>1 DEF Start, TypeOK, FSMstate
  <2> QED
    BY <1>1, <2>1, NextOperationType DEF Start, TypeOK
<1>2. CASE HandleRead
  BY <1>2, NextOperationType, QueueType DEF HandleRead, TypeOK, Handler, Timer
<1>3. CASE HandleReadError
  BY <1>3, NextOperationType, QueueType, SignalType
     DEF HandleReadError, TypeOK, Handler, Timer, NetworkSignal
<1>4. CASE HandleWrite
  BY <1>4, NextOperationType, QueueType DEF HandleWrite, TypeOK, Handler, Timer
<1>5. CASE HandleWriteError
  BY <1>5, NextOperationType, QueueType, SignalType
     DEF HandleWriteError, TypeOK, Handler, Timer, NetworkSignal
<1>6. CASE HandleTimeout
  BY <1>6, NextOperationType, QueueType, SignalType
     DEF HandleTimeout, TypeOK, Handler, NetworkSignal
<1>7. CASE HandleSignal
  BY <1>7, NextOperationType, QueueType, SignalType
     DEF HandleSignal, TypeOK, Handler, NetworkSignal
<1>8. CASE HandleShutdown
  BY <1>8, QueueType DEF HandleShutdown, TypeOK, Handler, Timer
<1>9. CASE ReadCompletes
  BY <1>9, QueueType DEF ReadCompletes, TypeOK, Handler
<1>10. CASE WriteCompletes
  BY <1>10, QueueType DEF WriteCompletes, TypeOK, Handler
<1>11. CASE TimerExpires
  BY <1>11, QueueType DEF TimerExpires, TypeOK, Handler, Timer
<1>12. CASE Signal
  BY <1>12, QueueType DEF Signal, TypeOK, Handler
<1>13. CASE Destroyed \/ UNCHANGED vars
  BY <1>13 DEF Destroyed, vars, TypeOK
<1> QED
  BY <1>1, <1>2, <1>3, <1>4, <1>5, <1>6, <1>7, <1>8, <1>9, <1>10, <1>11, <1>12, <1>13
     DEF Next, Handle

-----------------------------------------------------------------------------
(* The inductive step.  All handlers but handleShutdown end in a call of   *)
(* nextOperation(), so most of the argument is one lemma about that call:  *)
(* handler h is taken off the queue, signalOccured() may have moved the    *)
(* state, and the timer is reset or left alone.                            *)

\* The states nextOperation() can be called in by a handler of h.
CallState(h) ==
    IF h \in {"read", "write"} THEN {state}
    ELSE {SignalState(state, sig) : sig \in NetworkSignal}

\* A call of nextOperation() from a completion handler keeps the bookkeeping
\* of CLOSE exact and the outstanding operations within their bounds.
LEMMA CallKeepsTokens ==
    ASSUME IInv, TypeOK',
           NEW h \in Handler \ {"shutdown"}, ready[h] > 0,
           NEW s \in CallState(h), NEW t \in {"off", timer},
           NextOperation(s, t, Run(h)),
           UNCHANGED <<open, started>>
    PROVE  StateSettled' /\ ClosedExactlyOnce' /\ TokensOK' /\ TimerOK'
<1> USE DEF NextOperation, Send, ReadData, CloseConnection, NoOp, SendBye,
            CommandHandler, CallState, SignalState, Run
<1>0. state \in Settled /\ s \in FSMstate /\ state # "NEW_CONNECTION" /\ started
  <2>1. state \in Settled
    BY DEF IInv, StateSettled
  <2>2. s \in FSMstate
    BY <2>1 DEF Settled, FSMstate
  <2>3. ASSUME state = "NEW_CONNECTION" PROVE FALSE
    BY <2>3 DEF IInv, TypeOK, TokensOK, ReadTokens, WriteTokens, Handler, Message
  <2>4. started
    BY <2>3 DEF IInv, StateSettled
  <2> QED
    BY <2>1, <2>2, <2>3, <2>4
<1>1. StateSettled'
  BY <1>0 DEF StateSettled, Settled, FSMstate
<1>2. ClosedExactlyOnce'
  BY <1>0 DEF IInv, TypeOK, ClosedExactlyOnce, ShutdownsPosted, Settled, Handler
<1>3. TokensOK'
  BY <1>0, SMTT(60) DEF IInv, TypeOK, TokensOK, ReadTokens, WriteTokens, Settled, Handler, Message
<1>4. TimerOK'
  BY <1>0 DEF IInv, TypeOK, TimerOK, Settled, Handler
<1> QED
  BY <1>1, <1>2, <1>3, <1>4

\* Such a call keeps refused peers out and the farewell matched to the answer it
\* interrupts.
LEMMA CallKeepsFarewell ==
    ASSUME IInv, TypeOK',
           NEW h \in Handler \ {"shutdown"}, ready[h] > 0,
           NEW sig \in NetworkSignal,
           NEW s, \/ s = state /\ marker' = marker
                  \/ s = SignalState(state, sig) /\ marker' = SignalMarker(sig),
           NEW t, NextOperation(s, t, Run(h)),
           UNCHANGED forbidden
    PROVE  FarewellOK'
<1> USE DEF NextOperation, Send, ReadData, CloseConnection, NoOp, SendBye,
            CommandHandler, SignalState, SignalMarker, Run
<1>1. state \in Settled \ {"NEW_CONNECTION"}
  <2>1. state \in Settled
    BY DEF IInv, StateSettled
  <2>2. ASSUME state = "NEW_CONNECTION" PROVE FALSE
    BY <2>2 DEF IInv, TypeOK, TokensOK, ReadTokens, WriteTokens, Handler, Message
  <2> QED
    BY <2>1, <2>2
<1>2. ASSUME forbidden'
      PROVE  /\ state' \in {"TERMINATING", "FINISHED"}
             /\ ReadTokens' = 0 /\ writes'["hello"] = 0 /\ writes'["data"] = 0
  BY <1>1, <1>2 DEF IInv, TypeOK, FarewellOK, ReadTokens, Handler, Message
<1>3. state' \notin {"NEW_CONNECTION", "SEND_HELLO"}
  BY <1>1 DEF Settled
<1>4. ASSUME byeMarked' # "none" PROVE state' \in {"TERMINATING", "FINISHED"}
  BY <1>1, <1>4 DEF IInv, FarewellOK, Settled
<1>5. ReportOK'
  BY <1>1 DEF IInv, TypeOK, FarewellOK, ReportOK, Settled, AsksRead, AsksWrite, AsksClose, protocolVars
<1>6. ByeFramed'
  BY <1>1 DEF IInv, TypeOK, FarewellOK, ReportOK, ByeFramed, Settled, AsksRead, AsksWrite, AsksClose, protocolVars
<1> QED
  BY <1>2, <1>3, <1>4, <1>5, <1>6 DEF FarewellOK

\* A sum of naturals is zero only if its parts are.
LEMMA SumZero ==
    ASSUME NEW a \in Nat, NEW b \in Nat, NEW c \in Nat, a + b + c = 0
    PROVE  a = 0 /\ b = 0 /\ c = 0
OBVIOUS

\* Before its first operation a session has nothing outstanding.
LEMMA NewIsQuiet ==
    IInv /\ state = "NEW_CONNECTION" =>
      /\ ReadTokens = 0 /\ writes["hello"] = 0 /\ writes["data"] = 0 /\ writes["bye"] = 0
      /\ ready["write"] = 0 /\ ready["writeError"] = 0 /\ ready["timeout"] = 0
<1> SUFFICES ASSUME IInv, state = "NEW_CONNECTION"
             PROVE  /\ ReadTokens = 0 /\ writes["hello"] = 0 /\ writes["data"] = 0
                    /\ writes["bye"] = 0 /\ ready["write"] = 0
                    /\ ready["writeError"] = 0 /\ ready["timeout"] = 0
  OBVIOUS
<1>1. /\ writes["hello"] \in Nat /\ writes["data"] \in Nat /\ writes["bye"] \in Nat
      /\ ready["write"] \in Nat /\ ready["writeError"] \in Nat
  BY DEF IInv, TypeOK, Handler, Message
<1>2. ReadTokens = 0 /\ WriteTokens = 0 /\ ready["timeout"] = 0
  BY DEF IInv, TokensOK
<1> DEFINE inFlight == writes["hello"] + writes["data"] + writes["bye"]
           queued == ready["write"] + ready["writeError"]
<1>3. inFlight \in Nat /\ queued \in Nat
  BY <1>1
<1>4. inFlight + queued = 0
  BY <1>1, <1>2 DEF WriteTokens
<1>5. inFlight = 0 /\ queued = 0
  <2> HIDE DEF inFlight, queued
  <2> QED
    BY <1>3, <1>4
<1>6. writes["hello"] = 0 /\ writes["data"] = 0 /\ writes["bye"] = 0
  BY <1>1, <1>5, SumZero
<1>7. ready["write"] = 0 /\ ready["writeError"] = 0
  BY <1>1, <1>5
<1> QED
  BY <1>2, <1>6, <1>7

\* The first operation of a session establishes the invariant of its new state.
LEMMA StartKeepsInv == IInv /\ Start /\ TypeOK' => IInv'
<1> SUFFICES ASSUME IInv, Start, TypeOK' PROVE IInv'
  OBVIOUS
<1> USE DEF Start, NextOperation, Send, SendBye
<1>1. state = "NEW_CONNECTION"
  BY DEF IInv, StateSettled, Settled
<1>2. /\ state' \in {"SEND_HELLO", "TERMINATING"} /\ started'
      /\ UNCHANGED <<registered, open, ready, timer, reads>>
  BY <1>1
<1>3. StateSettled' /\ ClosedExactlyOnce' /\ TimerOK'
  <2>1. StateSettled'
    BY <1>2 DEF StateSettled, Settled
  <2>2. ClosedExactlyOnce'
    BY <1>1, <1>2 DEF IInv, TypeOK, ClosedExactlyOnce, ShutdownsPosted
  <2>3. TimerOK'
    BY <1>1, <1>2 DEF IInv, TimerOK
  <2> QED
    BY <2>1, <2>2, <2>3
<1>4. /\ ReadTokens = 0 /\ writes["hello"] = 0 /\ writes["data"] = 0 /\ writes["bye"] = 0
      /\ ready["write"] = 0 /\ ready["writeError"] = 0 /\ ready["timeout"] = 0
  BY <1>1, NewIsQuiet
<1>5. \/ /\ state' = "SEND_HELLO" /\ forbidden' = FALSE
         /\ writes'["hello"] = 1 /\ writes'["data"] = 0 /\ writes'["bye"] = 0
      \/ /\ state' = "TERMINATING"
         /\ writes'["hello"] = 0 /\ writes'["data"] = 0 /\ writes'["bye"] = 1
  BY <1>1, <1>4 DEF IInv, TypeOK, Message
<1>6. ReadTokens' = 0
  BY <1>2, <1>4 DEF ReadTokens
<1>7. TokensOK'
  BY <1>2, <1>4, <1>5, <1>6 DEF TokensOK, WriteTokens
<1>8. FarewellOK'
  <2>1. forbidden' => /\ state' \in {"TERMINATING", "FINISHED"} /\ ReadTokens' = 0
                      /\ writes'["hello"] = 0 /\ writes'["data"] = 0
    BY <1>5, <1>6
  <2>2. /\ marker = FALSE /\ inAnswer = FALSE /\ reported = FALSE /\ byeMarked = "none"
        /\ UNCHANGED <<marker, waits, inAnswer, reported>>
    BY <1>1 DEF IInv, TypeOK, FarewellOK, ReportOK, protocolVars
  <2>3. byeMarked' # "none" => state' \in {"TERMINATING", "FINISHED"} /\ byeMarked' = "plain"
    BY <1>1, <2>2
  <2> QED
    BY <1>2, <2>1, <2>2, <2>3 DEF FarewellOK, ReportOK, ByeFramed
<1> QED
  BY <1>3, <1>7, <1>8 DEF IInv

\* handleShutdown and the events of the environment move operations from in
\* flight to queued and start none.
LEMMA EventKeepsInv ==
    IInv /\ TypeOK' /\ (HandleShutdown \/ ReadCompletes \/ WriteCompletes
                           \/ TimerExpires \/ Signal) => IInv'
<1> SUFFICES ASSUME IInv, TypeOK', HandleShutdown \/ ReadCompletes \/ WriteCompletes
                                      \/ TimerExpires \/ Signal
             PROVE  IInv'
  OBVIOUS
<1> USE DEF HandleShutdown, ReadCompletes, WriteCompletes, TimerExpires, Signal, Run, Post,
            fsmVars, historyVars
<1>1. UNCHANGED <<state, waits, inAnswer, reported, marker, started, registered, forbidden, byeMarked>>
  BY DEF protocolVars
<1>2. StateSettled'
  BY <1>1 DEF IInv, StateSettled
<1>3. ClosedExactlyOnce'
  BY <1>1 DEF IInv, TypeOK, ClosedExactlyOnce, ShutdownsPosted, Handler
<1>4. TokensOK'
  <2>1. CASE HandleShutdown \/ TimerExpires \/ Signal
    BY <1>1, <2>1 DEF IInv, TypeOK, TokensOK, TimerOK, StateSettled, ReadTokens, WriteTokens, Handler
  <2>2. CASE ReadCompletes
    BY <1>1, <2>2 DEF IInv, TypeOK, TokensOK, ReadTokens, WriteTokens, Handler
  <2>3. CASE WriteCompletes
    <3>1. WriteTokens' = WriteTokens /\ ReadTokens' = ReadTokens
      BY <2>3 DEF IInv, TypeOK, ReadTokens, WriteTokens, Handler, Message
    <3> QED
      BY <1>1, <2>3, <3>1 DEF IInv, TypeOK, TokensOK, Handler, Message
  <2> QED
    BY <2>1, <2>2, <2>3
<1>5. TimerOK'
  BY <1>1 DEF IInv, TypeOK, TimerOK, Handler
<1>6. ReadTokens' = ReadTokens /\ \A m \in Message : writes'[m] <= writes[m]
  BY DEF IInv, TypeOK, ReadTokens, Handler, Message
<1>7. FarewellOK'
  <2>1. ASSUME forbidden PROVE writes'["hello"] = 0 /\ writes'["data"] = 0
    BY <1>6, <2>1 DEF IInv, TypeOK, FarewellOK, Message
  <2> QED
    BY <1>1, <1>6, <2>1 DEF IInv, FarewellOK, ReportOK, ByeFramed
<1> QED
  BY <1>2, <1>3, <1>4, <1>5, <1>7 DEF IInv

\* Every step preserves the inductive invariant.
LEMMA InvStep == IInv /\ [Next]_vars => IInv'
<1> SUFFICES ASSUME IInv, [Next]_vars PROVE IInv'
  OBVIOUS
<1>0. TypeOK'
  BY TypeStep DEF IInv
<1>1. CASE Start
  BY <1>0, <1>1, StartKeepsInv
<1>2. CASE HandleShutdown \/ ReadCompletes \/ WriteCompletes \/ TimerExpires \/ Signal
  BY <1>0, <1>2, EventKeepsInv
<1>3. CASE HandleRead
  <2>1. /\ ready["read"] > 0 /\ marker' = marker
        /\ NextOperation(state, "off", Run("read")) /\ UNCHANGED <<open, started, forbidden>>
    BY <1>3 DEF HandleRead
  <2>2. "read" \in Handler \ {"shutdown"} /\ state \in CallState("read")
    BY DEF Handler, CallState
  <2>3. StateSettled' /\ ClosedExactlyOnce' /\ TokensOK' /\ TimerOK'
    BY <1>0, <2>1, <2>2, CallKeepsTokens
  <2>4. FarewellOK'
    BY <1>0, <2>1, <2>2, CallKeepsFarewell DEF NetworkSignal
  <2> QED
    BY <1>0, <2>3, <2>4 DEF IInv
<1>4. CASE HandleWrite
  <2>1. /\ ready["write"] > 0 /\ marker' = marker
        /\ NextOperation(state, "off", Run("write")) /\ UNCHANGED <<open, started, forbidden>>
    BY <1>4 DEF HandleWrite
  <2>2. "write" \in Handler \ {"shutdown"} /\ state \in CallState("write")
    BY DEF Handler, CallState
  <2>3. StateSettled' /\ ClosedExactlyOnce' /\ TokensOK' /\ TimerOK'
    BY <1>0, <2>1, <2>2, CallKeepsTokens
  <2>4. FarewellOK'
    BY <1>0, <2>1, <2>2, CallKeepsFarewell DEF NetworkSignal
  <2> QED
    BY <1>0, <2>3, <2>4 DEF IInv
<1>5. CASE HandleReadError \/ HandleWriteError \/ HandleTimeout \/ HandleSignal
  <2>1. PICK h \in {"readError", "writeError", "timeout", "signal"}, sig \in NetworkSignal,
             t \in {"off", timer} :
          /\ ready[h] > 0 /\ marker' = SignalMarker(sig)
          /\ NextOperation(SignalState(state, sig), t, Run(h))
          /\ UNCHANGED <<open, started, forbidden>>
    BY <1>5 DEF HandleReadError, HandleWriteError, HandleTimeout, HandleSignal, NetworkSignal
  <2>2. h \in Handler \ {"shutdown"} /\ SignalState(state, sig) \in CallState(h)
    BY DEF Handler, CallState
  <2>3. StateSettled' /\ ClosedExactlyOnce' /\ TokensOK' /\ TimerOK'
    BY <1>0, <2>1, <2>2, CallKeepsTokens
  <2>4. FarewellOK'
    BY <1>0, <2>1, <2>2, CallKeepsFarewell
  <2> QED
    BY <1>0, <2>3, <2>4 DEF IInv
<1>6. CASE Destroyed \/ UNCHANGED vars
  BY <1>6 DEF Destroyed, vars, fsmVars, protocolVars, ioVars, historyVars, IInv, TypeOK, StateSettled,
              ClosedExactlyOnce, ShutdownsPosted, TokensOK, TimerOK, FarewellOK,
              ReportOK, ByeFramed, ReadTokens, WriteTokens
<1> QED
  BY <1>1, <1>2, <1>3, <1>4, <1>5, <1>6 DEF Next, Handle

LEMMA InitInv == Init => IInv
<1> SUFFICES ASSUME Init PROVE IInv
  OBVIOUS
<1>1. TypeOK
  BY DEF Init, TypeOK, FSMstate, Handler, Message, Timer
<1>2. StateSettled /\ ClosedExactlyOnce /\ TokensOK /\ TimerOK
  BY DEF Init, StateSettled, Settled, ClosedExactlyOnce, ShutdownsPosted, TokensOK, TimerOK,
         ReadTokens, WriteTokens, Handler, Message
<1>3. FarewellOK
  BY DEF Init, FarewellOK, ReportOK, ByeFramed
<1> QED
  BY <1>1, <1>2, <1>3 DEF IInv

LEMMA Invariance == Spec => []IInv
BY InitInv, InvStep, PTL DEF Spec

-----------------------------------------------------------------------------
(* The theorems *)

\* Types: every variable of a session keeps its type, for any order of
\* completions, timeouts and signals.
THEOREM TypeCorrect == Spec => []TypeOK
BY Invariance, PTL DEF IInv

\* CLOSE is carried out exactly once: the slot is given back and the socket
\* closed once, however handlers are ordered.
THEOREM CloseOnce == Spec => []ClosedExactlyOnce
BY Invariance, PTL DEF IInv

\* A session that has started and not finished always has an operation in
\* flight or a handler queued that will call nextOperation() again.
THEOREM NoLostSession == Spec => []NeverQuiet
<1>1. IInv => NeverQuiet
  <2> SUFFICES ASSUME IInv, started, state # "FINISHED", ~Outstanding PROVE FALSE
    BY DEF NeverQuiet
  <2>1. ReadTokens = 0 /\ WriteTokens = 0
    BY DEF IInv, TypeOK, Outstanding, ReadTokens, WriteTokens, Handler, Message
  <2>2. state \in {"SEND_HELLO", "COMMAND_HANDLER", "TERMINATING"}
    BY DEF IInv, StateSettled, Settled
  <2> QED
    BY <2>1, <2>2 DEF IInv, TokensOK
<1> QED
  BY Invariance, <1>1, PTL

\* At most one read, one reply and one farewell are in flight, and a farewell
\* only once the session is being terminated.
THEOREM BoundedOperations == Spec => []OperationsBounded
<1>1. IInv => OperationsBounded
  BY DEF IInv, TypeOK, TokensOK, StateSettled, Settled, OperationsBounded, ReadTokens,
         WriteTokens, Handler, Message
<1> QED
  BY Invariance, <1>1, PTL

\* A refused peer is never greeted, read from or served.
THEOREM ForbiddenSafety == Spec => []ForbiddenNeverServed
<1>1. IInv => ForbiddenNeverServed
  BY DEF IInv, TypeOK, FarewellOK, ForbiddenNeverServed, ReadTokens, Handler
<1> QED
  BY Invariance, <1>1, PTL

\* A farewell is preceded by the end of data marker only inside an answer, and
\* always when it interrupts one while the server waits for input.
THEOREM FarewellFramed == Spec => []ByeFramed
<1>1. IInv => ByeFramed
  BY DEF IInv, FarewellOK
<1> QED
  BY Invariance, <1>1, PTL

\* A finished session starts nothing and stays finished, and a session being
\* terminated does not return to its commands, whichever late completion,
\* timeout or signal is handled.
THEOREM Finality == Spec => NoRevival
<1> DEFINE Lasting ==
        /\ state = "FINISHED" =>
             /\ state' = "FINISHED"
             /\ reads' <= reads
             /\ \A m \in Message : writes'[m] <= writes[m]
        /\ state = "TERMINATING" => state' \in {"TERMINATING", "FINISHED"}
<1>1. IInv /\ [Next]_vars => [Lasting]_vars
  <2> SUFFICES ASSUME IInv, Next PROVE Lasting
    OBVIOUS
  <2> USE DEF fsmVars, historyVars
  <2>1. reads \in Nat /\ \A m \in Message : writes[m] \in Nat
    BY DEF IInv, TypeOK
  <2>2. ASSUME NEW s, NEW t, NEW q, NextOperation(s, t, q),
               state \in {"FINISHED", "TERMINATING"} => s = state
        PROVE  Lasting
    BY <2>1, <2>2 DEF NextOperation, CloseConnection, NoOp, Send, ReadData, SendBye,
                      CommandHandler
  <2>3. ASSUME NEW sig \in NetworkSignal, state \in {"FINISHED", "TERMINATING"}
        PROVE  SignalState(state, sig) = state
    BY <2>3 DEF SignalState
  <2>4. CASE Start
    <3>1. state = "NEW_CONNECTION"
      BY <2>4 DEF Start, IInv, StateSettled
    <3> QED
      BY <3>1
  <2>5. CASE HandleRead \/ HandleWrite
    BY <2>2, <2>5 DEF HandleRead, HandleWrite
  <2>6. CASE HandleReadError \/ HandleWriteError \/ HandleTimeout \/ HandleSignal
    <3>1. PICK sig \in NetworkSignal : \E t, q : NextOperation(SignalState(state, sig), t, q)
      BY <2>6 DEF HandleReadError, HandleWriteError, HandleTimeout, HandleSignal, NetworkSignal
    <3> QED
      BY <2>2, <2>3, <3>1
  <2>7. CASE HandleShutdown \/ TimerExpires \/ Signal \/ Destroyed
    BY <2>1, <2>7 DEF HandleShutdown, TimerExpires, Signal, Destroyed, vars, ioVars
  <2>8. CASE ReadCompletes
    BY <2>1, <2>8 DEF ReadCompletes
  <2>9. CASE WriteCompletes
    BY <2>1, <2>9 DEF WriteCompletes, IInv, TypeOK
  <2> QED
    BY <2>4, <2>5, <2>6, <2>7, <2>8, <2>9 DEF Next, Handle
<1> QED
  BY Invariance, <1>1, PTL DEF Spec, NoRevival

\* The session implements the conversation of module Session.
THEOREM Refinement == Spec => ImplementsSession
<1>1. Init => Abstract!Init
  BY DEF Init, Abstract!Init, PhaseOf, FSMstate
<1>2. IInv /\ IInv' /\ [Next]_vars => [Abstract!Next]_(Abstract!vars)
  <2> SUFFICES ASSUME IInv, IInv', [Next]_vars PROVE [Abstract!Next]_(Abstract!vars)
    OBVIOUS
  <2> USE DEF fsmVars, historyVars
  <2>1. /\ PhaseOf["NEW_CONNECTION"] = "new" /\ PhaseOf["SEND_HELLO"] = "greeted"
        /\ PhaseOf["COMMAND_HANDLER"] = "serving" /\ PhaseOf["TERMINATING"] = "leaving"
        /\ PhaseOf["FINISHED"] = "ended"
    BY DEF PhaseOf, FSMstate
  <2>2. state \in Settled /\ state' \in Settled
    BY DEF IInv, StateSettled
  <2>3. registered = (state # "FINISHED") /\ registered' = (state' # "FINISHED")
    BY DEF IInv, TypeOK, ClosedExactlyOnce
  <2>4. PhaseOf[state]' = PhaseOf[state']
    OBVIOUS
  <2>5. CASE state' = state /\ open' = open
    BY <2>3, <2>4, <2>5 DEF Abstract!vars
  <2>6. CASE HandleShutdown
    <3>1. state = "FINISHED" /\ state' = state /\ registered' = registered
      BY <2>2, <2>6 DEF HandleShutdown, IInv, TypeOK, ClosedExactlyOnce, ShutdownsPosted, Handler
    <3>2. open = TRUE /\ open' = FALSE
      BY <2>6 DEF HandleShutdown, IInv, TypeOK, ClosedExactlyOnce, ShutdownsPosted, Handler
    <3> QED
      BY <2>1, <2>4, <3>1, <3>2 DEF Abstract!Next, Abstract!Disconnect
  <2>7. CASE open' = open /\ <<state, state'>> \in
               {<<"NEW_CONNECTION", "SEND_HELLO">>, <<"NEW_CONNECTION", "TERMINATING">>,
                <<"SEND_HELLO", "COMMAND_HANDLER">>, <<"SEND_HELLO", "TERMINATING">>,
                <<"SEND_HELLO", "FINISHED">>, <<"COMMAND_HANDLER", "TERMINATING">>,
                <<"COMMAND_HANDLER", "FINISHED">>, <<"TERMINATING", "FINISHED">>}
    BY <2>1, <2>3, <2>4, <2>7
       DEF Abstract!Next, Abstract!Advance, Abstract!Greet, Abstract!TurnAway, Abstract!Serve,
           Abstract!Leave, Abstract!End
  <2>8. CASE Start
    <3>1. state = "NEW_CONNECTION"
      BY <2>8 DEF Start, IInv, StateSettled
    <3>2. open' = open /\ state' \in {"SEND_HELLO", "TERMINATING"}
      BY <2>8, <3>1 DEF Start, NextOperation, SendBye
    <3> QED
      BY <2>7, <3>1, <3>2
  <2>9. CASE \E h \in Handler \ {"shutdown"} : \E s \in CallState(h) : \E t, q :
                /\ ready[h] > 0
                /\ NextOperation(s, t, q)
                /\ open' = open
    <3>1. PICK h \in Handler \ {"shutdown"} : \E s \in CallState(h) : \E t, q :
                /\ ready[h] > 0 /\ NextOperation(s, t, q) /\ open' = open
      BY <2>9
    <3>2. PICK s \in CallState(h) : \E t, q :
                ready[h] > 0 /\ NextOperation(s, t, q) /\ open' = open
      BY <3>1
    <3>3. state # "NEW_CONNECTION"
      <4> SUFFICES ASSUME state = "NEW_CONNECTION" PROVE FALSE
        OBVIOUS
      <4>1. reads \in Nat /\ ready["read"] \in Nat /\ ready["readError"] \in Nat
        BY DEF IInv, TypeOK, Handler
      <4>2. /\ ReadTokens = 0 /\ ready["write"] = 0 /\ ready["writeError"] = 0 /\ ready["timeout"] = 0
        BY NewIsQuiet
      <4>3. ready["read"] = 0 /\ ready["readError"] = 0
        BY <4>1, <4>2 DEF ReadTokens
      <4>4. ready["signal"] = 0
        BY DEF IInv, TokensOK
      <4>5. ready[h] > 0
        BY <3>2
      <4>6. h \in {"read", "readError", "write", "writeError", "timeout", "signal"}
        BY DEF Handler
      <4> QED BY <4>2, <4>3, <4>4, <4>5, <4>6
    <3>4. \/ s = state
          \/ s \in {"SIGNALLED", "TIMEOUT_OCCURED", "TERMINATING"} /\ state # "FINISHED"
      BY <3>2 DEF CallState, SignalState
    <3> QED
      BY <2>2, <2>5, <2>7, <3>2, <3>3, <3>4
         DEF NextOperation, SendBye, CommandHandler, Settled
  <2>10. CASE HandleRead \/ HandleWrite
    BY <2>9, <2>10 DEF HandleRead, HandleWrite, CallState, Handler
  <2>11. CASE HandleReadError \/ HandleWriteError \/ HandleTimeout \/ HandleSignal
    <3>1. \E h \in {"readError", "writeError", "timeout", "signal"}, sig \in NetworkSignal : \E t, q :
            ready[h] > 0 /\ NextOperation(SignalState(state, sig), t, q) /\ open' = open
      BY <2>11 DEF HandleReadError, HandleWriteError, HandleTimeout, HandleSignal, NetworkSignal
    <3> QED
      BY <2>9, <3>1 DEF CallState, Handler
  <2>12. CASE ReadCompletes \/ WriteCompletes \/ TimerExpires \/ Signal \/ Destroyed
             \/ UNCHANGED vars
    BY <2>5, <2>12 DEF ReadCompletes, WriteCompletes, TimerExpires, Signal, Destroyed, vars, ioVars
  <2> QED
    BY <2>6, <2>8, <2>10, <2>11, <2>12 DEF Next, Handle
<1> QED
  BY Invariance, <1>1, <1>2, PTL DEF Spec, ImplementsSession, Abstract!Spec

=============================================================================
