----------------------------- MODULE Connection -----------------------------
(***************************************************************************)
(* One network session: ConnectionBase (src/src/connectionBase.hpp), which *)
(* turns the handler's requests into asynchronous operations, together     *)
(* with wolframeConnection (src/src/wolframeHandler.cpp), the top state    *)
(* machine that makes those requests.                                      *)
(*                                                                         *)
(* The completion handlers of a session run one at a time in its strand,   *)
(* but the io_service threads post them in any order: `ready' holds the    *)
(* handlers that are queued and one of them, any one, runs next.           *)
(* Cancelling the timer does not take back a timeout handler that is       *)
(* already queued, and nothing cancels an operation in flight except       *)
(* closing the socket.                                                     *)
(*                                                                         *)
(* The protocol handler behind wolframeConnection is reduced to what the   *)
(* session can see of it: whether it asks for READ, WRITE or CLOSE, what   *)
(* its writes tell the client about an answer, and whether                 *)
(* interruptDataSessionMarker() reports one. How the last two are related  *)
(* is InterruptMatchesClient of module MainProtocol.                       *)
(***************************************************************************)
EXTENDS Integers, FiniteSets

VARIABLES
    state,      \* wolframeConnection::m_state
    waits,      \* what the protocol handler has asked for last, READ or WRITE
    inAnswer,   \* the client has been written ANSWER and not the end of data,
                \* the write in flight counted
    reported,   \* interruptDataSessionMarker() is not empty
    marker,     \* m_endDataSessionMarker is not empty
    started,    \* setPeer() has run and the first operation is under way
    registered, \* unregister() has not run yet
    open,       \* the socket is open
    reads,      \* async_read_some operations in flight
    writes,     \* async_write operations in flight, by what they send
    timer,      \* m_timer has a wait pending
    ready,      \* handlers queued in the strand, by kind
    signalSent, \* signal() has been called (at most once, by handleStop)
    forbidden,  \* history: setPeer() refused the peer
    gotInput,   \* history: a read completed with data
    byeMarked   \* history: whether the BYE sent began with the marker

protocolVars == <<waits, inAnswer, reported>>
fsmVars == <<state, protocolVars, marker>>
ioVars == <<open, reads, writes, timer, ready>>
historyVars == <<forbidden, gotInput, byeMarked>>
vars == <<fsmVars, started, registered, ioVars, signalSent, historyVars>>

FSMstate == {"NEW_CONNECTION", "SEND_HELLO", "COMMAND_HANDLER", "TIMEOUT_OCCURED",
             "SIGNALLED", "FORBIDDEN", "TERMINATING", "FINISHED"}
Message == {"hello", "data", "bye"}
Handler == {"read", "readError", "write", "writeError", "timeout", "signal", "shutdown"}
Timer == {"off", "armed"}
ErrorSignal == {"END_OF_FILE", "OPERATION_CANCELLED", "BROKEN_PIPE",
                "CONNECTION_RESET", "UNKNOWN_ERROR"}
NetworkSignal == {"TIMEOUT", "TERMINATE"} \cup ErrorSignal

\* Type invariant of a session.
TypeOK ==
    /\ state \in FSMstate
    /\ waits \in {"READ", "WRITE"}
    /\ inAnswer \in BOOLEAN
    /\ reported \in BOOLEAN
    /\ marker \in BOOLEAN
    /\ started \in BOOLEAN
    /\ registered \in BOOLEAN
    /\ open \in BOOLEAN
    /\ reads \in Nat
    /\ writes \in [Message -> Nat]
    /\ timer \in Timer
    /\ ready \in [Handler -> Nat]
    /\ signalSent \in BOOLEAN
    /\ forbidden \in BOOLEAN
    /\ gotInput \in BOOLEAN
    /\ byeMarked \in {"none", "plain", "marked"}

\* A connection that start() has just put in the register of its acceptor.
Init ==
    /\ state = "NEW_CONNECTION"
    /\ waits = "READ"
    /\ inAnswer = FALSE
    /\ reported = FALSE
    /\ marker = FALSE
    /\ started = FALSE
    /\ registered = TRUE
    /\ open = TRUE
    /\ reads = 0
    /\ writes = [m \in Message |-> 0]
    /\ timer = "off"
    /\ ready = [h \in Handler |-> 0]
    /\ signalSent = FALSE
    /\ forbidden = FALSE
    /\ gotInput = FALSE
    /\ byeMarked = "none"

-----------------------------------------------------------------------------
(* wolframeConnection::signalOccured *)

\* Faulty variants: a finished session is revived; a session being terminated
\* is; TERMINATE does not interrupt the command handler.
SignalState_revives(s, sig) ==
    CASE s = "TERMINATING" -> s
      [] s # "TERMINATING" /\ sig = "TERMINATE" -> "SIGNALLED"
      [] s # "TERMINATING" /\ sig = "TIMEOUT" -> "TIMEOUT_OCCURED"
      [] OTHER -> "TERMINATING"

SignalState_repeats(s, sig) ==
    CASE s = "FINISHED" -> s
      [] s # "FINISHED" /\ sig = "TERMINATE" -> "SIGNALLED"
      [] s # "FINISHED" /\ sig = "TIMEOUT" -> "TIMEOUT_OCCURED"
      [] OTHER -> "TERMINATING"

SignalState_ignores(s, sig) ==
    CASE s \in {"TERMINATING", "FINISHED"} -> s
      [] s = "COMMAND_HANDLER" /\ sig = "TERMINATE" -> s
      [] s = "SEND_HELLO" /\ sig = "TERMINATE" -> "SIGNALLED"
      [] s \in {"SEND_HELLO", "COMMAND_HANDLER"} /\ sig = "TIMEOUT" -> "TIMEOUT_OCCURED"
      [] OTHER -> "TERMINATING"

\* m_state after a signal in state s
SignalState(s, sig) ==
    CASE s \in {"TERMINATING", "FINISHED"} -> s
      [] s \notin {"TERMINATING", "FINISHED"} /\ sig = "TERMINATE" -> "SIGNALLED"
      [] s \notin {"TERMINATING", "FINISHED"} /\ sig = "TIMEOUT" -> "TIMEOUT_OCCURED"
      [] OTHER -> "TERMINATING"

\* Faulty variant: the marker is not fetched on a timeout.
SignalMarker_notOnTimeout(sig) ==
    IF state = "COMMAND_HANDLER" /\ sig \in {"TERMINATE", "UNKNOWN_ERROR"}
    THEN reported ELSE marker

\* The end of data marker is fetched when the command handler is interrupted.
SignalMarker(sig) ==
    IF state = "COMMAND_HANDLER" /\ sig \in {"TERMINATE", "TIMEOUT", "UNKNOWN_ERROR"}
    THEN reported ELSE marker

-----------------------------------------------------------------------------
(* ConnectionBase::nextOperation and wolframeConnection::nextOperation.    *)
(* The parameters are the state, timer and queue the rest of the calling   *)
(* handler leaves behind; the handler itself sets marker'.                 *)

\* WRITE.  No write has a timeout.
Send(msg, t, q) ==
    /\ writes' = [writes EXCEPT ![msg] = @ + 1]
    /\ timer' = t
    /\ ready' = q
    /\ UNCHANGED <<reads, registered>>

\* Faulty variant: the timeout of the operation is ignored.
ReadData_untimed(timeout, t, q) ==
    /\ reads' = reads + 1
    /\ timer' = t
    /\ ready' = q
    /\ UNCHANGED <<writes, registered>>

\* READ, with a timeout or without
ReadData(timeout, t, q) ==
    /\ reads' = reads + 1
    /\ timer' = IF timeout THEN "armed" ELSE t
    /\ ready' = q
    /\ UNCHANGED <<writes, registered>>

\* Faulty variant: CLOSE does not unregister.
CloseConnection_keepsSlot(q) ==
    /\ timer' = "off"
    /\ ready' = [q EXCEPT !["shutdown"] = @ + 1]
    /\ UNCHANGED <<registered, reads, writes>>

\* CLOSE: reset the timer, unregister, post handleShutdown.
CloseConnection(q) ==
    /\ registered' = FALSE
    /\ timer' = "off"
    /\ ready' = [q EXCEPT !["shutdown"] = @ + 1]
    /\ UNCHANGED <<reads, writes>>

\* Faulty variant: a finished session closes again.
NoOp_closes(t, q) == CloseConnection(q)

\* NOOP
NoOp(t, q) ==
    /\ timer' = t
    /\ ready' = q
    /\ UNCHANGED <<reads, writes, registered>>

\* The farewell of a timeout, a shutdown or a forbidden peer; the first two
\* are preceded by the end of data marker.
SendBye(s, t, q) ==
    /\ state' = "TERMINATING"
    /\ Send("bye", t, q)
    /\ byeMarked' = IF s # "FORBIDDEN" /\ marker' = TRUE THEN "marked" ELSE "plain"

\* Faulty variant: the protocol handler may have nothing to do.
CommandHandler_idle(t, q) ==
    /\ \/ state' = "COMMAND_HANDLER" /\ ReadData(FALSE, t, q)
       \/ state' = "COMMAND_HANDLER" /\ NoOp(t, q)
       \/ state' = "FINISHED" /\ CloseConnection(q)
    /\ UNCHANGED protocolVars

\* What the protocol handler reports when it asks for READ: an answer exactly
\* when the client is inside one; a READ writes nothing.
AsksRead ==
    /\ waits' = "READ"
    /\ reported' = inAnswer
    /\ UNCHANGED inAnswer

\* When it asks for WRITE it may report none although the client is inside one:
\* ANSWER and the output redirectInput() has collected are written by the line
\* handler, which reports nothing.
AsksWrite ==
    /\ waits' = "WRITE"
    /\ inAnswer' \in BOOLEAN
    /\ reported' \in BOOLEAN
    /\ reported' => inAnswer'

AsksClose ==
    /\ reported' = FALSE
    /\ UNCHANGED <<waits, inAnswer>>

\* nextOperation() of the protocol handler: any of its three answers.
CommandHandler(t, q) ==
    \/ state' = "COMMAND_HANDLER" /\ ReadData(FALSE, t, q) /\ AsksRead
    \/ state' = "COMMAND_HANDLER" /\ Send("data", t, q) /\ AsksWrite
    \/ state' = "FINISHED" /\ CloseConnection(q) /\ AsksClose

NextOperation(s, t, q) ==
    \/ /\ s = "NEW_CONNECTION"
       /\ state' = "SEND_HELLO"
       /\ Send("hello", t, q)
       /\ UNCHANGED <<protocolVars, byeMarked>>
    \/ /\ s = "SEND_HELLO"
       /\ state' = "COMMAND_HANDLER"
       /\ ReadData(TRUE, t, q)
       /\ UNCHANGED <<protocolVars, byeMarked>>
    \/ /\ s \in {"TIMEOUT_OCCURED", "SIGNALLED", "FORBIDDEN"}
       /\ SendBye(s, t, q)
       /\ UNCHANGED protocolVars
    \/ /\ s = "TERMINATING"
       /\ state' = "FINISHED"
       /\ CloseConnection(q)
       /\ UNCHANGED <<protocolVars, byeMarked>>
    \/ /\ s = "FINISHED"
       /\ state' = s
       /\ NoOp(t, q)
       /\ UNCHANGED <<protocolVars, byeMarked>>
    \/ /\ s = "COMMAND_HANDLER"
       /\ CommandHandler(t, q)
       /\ UNCHANGED byeMarked

\* The queue without the handler that is running, and with one more.
Run(h) == [ready EXCEPT ![h] = @ - 1]
Post(h) == [ready EXCEPT ![h] = @ + 1]

-----------------------------------------------------------------------------
(* Handlers *)

\* Faulty variant: the refusal of the authorizer does not change the state.
Start_ignoresRefusal ==
    /\ ~started
    /\ started' = TRUE
    /\ marker' = marker
    /\ forbidden' \in BOOLEAN
    /\ NextOperation(state, timer, ready)
    /\ UNCHANGED <<open, signalSent, gotInput>>

\* The rest of start() or handleHandshake(): setPeer() asks the authorizer,
\* if there is one, whether the peer may connect; then the first operation.
Start ==
    /\ ~started
    /\ started' = TRUE
    /\ marker' = marker
    /\ \/ /\ forbidden' = FALSE
          /\ NextOperation(state, timer, ready)
       \/ /\ forbidden' = TRUE
          /\ NextOperation("FORBIDDEN", timer, ready)
    /\ UNCHANGED <<open, signalSent, gotInput>>

\* handleRead without an error: networkInput() feeds the protocol handler, or
\* drops the data when the session is being terminated.
HandleRead ==
    /\ ready["read"] > 0
    /\ gotInput' = TRUE
    /\ marker' = marker
    /\ NextOperation(state, "off", Run("read"))
    /\ UNCHANGED <<started, open, signalSent, forbidden>>

\* handleRead with an error
HandleReadError ==
    /\ ready["readError"] > 0
    /\ \E sig \in ErrorSignal :
          /\ marker' = SignalMarker(sig)
          /\ NextOperation(SignalState(state, sig), "off", Run("readError"))
    /\ UNCHANGED <<started, open, signalSent, forbidden, gotInput>>

\* handleWrite without an error
HandleWrite ==
    /\ ready["write"] > 0
    /\ marker' = marker
    /\ NextOperation(state, "off", Run("write"))
    /\ UNCHANGED <<started, open, signalSent, forbidden, gotInput>>

\* handleWrite with an error
HandleWriteError ==
    /\ ready["writeError"] > 0
    /\ \E sig \in ErrorSignal :
          /\ marker' = SignalMarker(sig)
          /\ NextOperation(SignalState(state, sig), "off", Run("writeError"))
    /\ UNCHANGED <<started, open, signalSent, forbidden, gotInput>>

\* Faulty variant: the handler of a cancelled wait counts as a timeout.
HandleTimeout_onCancel ==
    /\ started
    /\ marker' = SignalMarker("TIMEOUT")
    /\ NextOperation(SignalState(state, "TIMEOUT"), timer, Run("timeout"))
    /\ UNCHANGED <<started, open, signalSent, forbidden, gotInput>>

\* handleTimeout of a timer that expired; it does not touch the timer.
HandleTimeout ==
    /\ ready["timeout"] > 0
    /\ marker' = SignalMarker("TIMEOUT")
    /\ NextOperation(SignalState(state, "TIMEOUT"), timer, Run("timeout"))
    /\ UNCHANGED <<started, open, signalSent, forbidden, gotInput>>

\* handleSignal
HandleSignal ==
    /\ ready["signal"] > 0
    /\ marker' = SignalMarker("TERMINATE")
    /\ NextOperation(SignalState(state, "TERMINATE"), timer, Run("signal"))
    /\ UNCHANGED <<started, open, signalSent, forbidden, gotInput>>

\* handleShutdown: the socket is closed; operations in flight will be aborted.
HandleShutdown ==
    /\ ready["shutdown"] > 0
    /\ open' = FALSE
    /\ timer' = "off"
    /\ ready' = Run("shutdown")
    /\ UNCHANGED <<fsmVars, started, registered, reads, writes, signalSent, historyVars>>

-----------------------------------------------------------------------------
(* The environment: the peer, the timer and the acceptor *)

\* A read completes with data, or with an error; on a closed socket only
\* with an error.
ReadCompletes ==
    /\ reads > 0
    /\ reads' = reads - 1
    /\ \/ open /\ ready' = Post("read")
       \/ ready' = Post("readError")
    /\ UNCHANGED <<fsmVars, started, registered, open, writes, timer, signalSent, historyVars>>

\* A write completes, or fails; on a closed socket it fails.
WriteCompletes ==
    /\ \E m \in Message :
          /\ writes[m] > 0
          /\ writes' = [writes EXCEPT ![m] = @ - 1]
    /\ \/ open /\ ready' = Post("write")
       \/ ready' = Post("writeError")
    /\ UNCHANGED <<fsmVars, started, registered, open, reads, timer, signalSent, historyVars>>

\* The timer expires and its handler is queued: from now on cancel() is too late.
TimerExpires ==
    /\ timer = "armed"
    /\ timer' = "off"
    /\ ready' = Post("timeout")
    /\ UNCHANGED <<fsmVars, started, registered, open, reads, writes, signalSent, historyVars>>

\* handleStop() of the acceptor calls signal(), once.
Signal ==
    /\ started
    /\ ~signalSent
    /\ signalSent' = TRUE
    /\ ready' = Post("signal")
    /\ UNCHANGED <<fsmVars, started, registered, open, reads, writes, timer, historyVars>>

-----------------------------------------------------------------------------

\* The last reference to the connection is gone: nothing is in flight or queued.
Outstanding ==
    reads > 0 \/ (\E m \in Message : writes[m] > 0) \/ (\E h \in Handler : ready[h] > 0)

Destroyed ==
    /\ state = "FINISHED"
    /\ ~Outstanding
    /\ UNCHANGED vars

Handle ==
    \/ Start
    \/ HandleRead
    \/ HandleReadError
    \/ HandleWrite
    \/ HandleWriteError
    \/ HandleTimeout
    \/ HandleSignal
    \/ HandleShutdown

Next ==
    \/ Handle
    \/ ReadCompletes
    \/ WriteCompletes
    \/ TimerExpires
    \/ Signal
    \/ Destroyed

Spec == Init /\ [][Next]_vars

\* The io_service threads run what is queued and the timer expires.  That a
\* write in flight completes or fails is an assumption about the peer and the
\* network: the code sets no timeout on any write.  An aborted read completes;
\* otherwise nothing makes a peer send data.
Fairness ==
    /\ WF_vars(Start)
    /\ WF_vars(HandleRead)
    /\ WF_vars(HandleReadError)
    /\ WF_vars(HandleWrite)
    /\ WF_vars(HandleWriteError)
    /\ WF_vars(HandleTimeout)
    /\ WF_vars(HandleSignal)
    /\ WF_vars(HandleShutdown)
    /\ WF_vars(TimerExpires)
    /\ WF_vars(WriteCompletes)
    /\ WF_vars(~open /\ ReadCompletes)

FairSpec == Spec /\ Fairness

-----------------------------------------------------------------------------
(* Properties *)

ShutdownsPosted == ready["shutdown"] + IF open THEN 0 ELSE 1

\* CLOSE is carried out exactly once, when the session finishes, however the
\* completion of a write, a late timeout and a shutdown signal are ordered:
\* the slot in the connection list is given back then and the socket is
\* closed once (connectionBase.hpp:170-178).
ClosedExactlyOnce ==
    /\ ShutdownsPosted = IF state = "FINISHED" THEN 1 ELSE 0
    /\ registered <=> state # "FINISHED"

\* An unfinished session never goes quiet: something is in flight or queued
\* whose handler will call nextOperation() again.  A session that loses its
\* last operation would hold its slot and its socket for ever.
NeverQuiet == started /\ state # "FINISHED" => Outstanding

\* At most one read is in flight, and a second write only ever overlaps the
\* first one when it is the farewell of a session that is being terminated.
OperationsBounded ==
    /\ reads + ready["read"] + ready["readError"] <= 1
    /\ writes["hello"] + writes["data"] <= 1
    /\ writes["bye"] <= 1
    /\ writes["bye"] = 1 => state \in {"TERMINATING", "FINISHED"}

\* A peer the authorizer refused is told so and nothing else: it gets no
\* greeting, none of its input is read, the protocol handler never runs
\* (wolframeHandler.cpp:186-211).
ForbiddenNeverServed ==
    forbidden =>
        /\ state \in {"TERMINATING", "FINISHED"}
        /\ writes["hello"] = 0 /\ writes["data"] = 0
        /\ reads = 0

\* A farewell is never preceded by an end of data marker outside of an answer,
\* and a client whose answer is interrupted while the server waits for input
\* always gets the marker before the farewell, whichever of a late timeout, an
\* error and a signal interrupts it (wolframeHandler.cpp:377-434). While an
\* answer is being written it need not: see InterruptFramed in MainProtocol;
\* nor does this say how the bytes of two writes in flight are interleaved.
ByeFramed ==
    byeMarked # "none" =>
        /\ byeMarked = "marked" => inAnswer
        /\ waits = "READ" => (byeMarked = "marked" <=> inAnswer)

\* Once the session has finished, late handlers start no operation and do not
\* revive it; a session being terminated never goes back to its commands.
NoRevival ==
    [][/\ state = "FINISHED" =>
             /\ state' = "FINISHED"
             /\ reads' <= reads
             /\ \A m \in Message : writes'[m] <= writes[m]
       /\ state = "TERMINATING" => state' \in {"TERMINATING", "FINISHED"}]_vars

\* A session that is told to terminate closes its socket.
SignalCloses == signalSent ~> ~open

\* A peer that never sends anything is disconnected.
SilentPeerDropped == started ~> (gotInput \/ ~open)

\* The state of the session in the terms of module Session.  The states a
\* handler enters and leaves in the same step are never seen between steps.
PhaseOf ==
    [s \in FSMstate |->
        CASE s = "NEW_CONNECTION" -> "new"
          [] s = "SEND_HELLO" -> "greeted"
          [] s = "COMMAND_HANDLER" -> "serving"
          [] s = "FINISHED" -> "ended"
          [] OTHER -> "leaving"]

Abstract == INSTANCE Session
                WITH phase <- PhaseOf[state], listed <- registered, connected <- open

\* The state machine and its asynchronous operations implement Session.
ImplementsSession == Abstract!Spec

=============================================================================
