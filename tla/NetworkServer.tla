---------------------------- MODULE NetworkServer ----------------------------
(***************************************************************************)
(* The network server: acceptors, their connections and the shutdown of    *)
(* the server (src/src/server.cpp, acceptor.cpp, connection.hpp/.cpp).     *)
(*                                                                         *)
(* Handlers of one strand never overlap.  An acceptor's strand runs        *)
(* handleAccept (with connection::start() for plain sockets) and           *)
(* handleStop; a connection's strand runs the SSL handshake handler and    *)
(* everything after it.  The two strands of an acceptor and of one of its  *)
(* connections meet in two places that no strand protects: the back        *)
(* pointer connection::m_connList, and the register of active connections, *)
(* whose mutex is released between pop() and setUnregistered().  There     *)
(* handleStop() and unregister() are split into their separate accesses.   *)
(*                                                                         *)
(* What a connection does between its start and its CLOSE is module        *)
(* Connection; here an open connection may close at any time, and a        *)
(* signalled one eventually does when its peer takes the farewell.         *)
(***************************************************************************)
EXTENDS ConnectionLists

CONSTANTS SSLAcceptors,  \* the acceptors that are SSLacceptor objects
          NoConn,        \* the null connection pointer
          Deaf           \* connections whose peer may stop taking what is written

ASSUME SSLAssumption == SSLAcceptors \subseteq Acceptors
ASSUME NoConnAssumption == NoConn \notin Conns
ASSUME DeafAssumption == Deaf \subseteq Conns

VARIABLES
    life,          \* where each connection object is in its life
    ptr,           \* connection::m_connList is not NULL
    denied,        \* SSLconnection::m_connection_denied
    signalled,     \* signal() has been called on the connection
    upc,           \* progress of the connection through unregister()
    listening,     \* the acceptor's socket is open
    stopPosted,    \* acceptor::stop() has posted handleStop
    spc,           \* progress of the acceptor through handleStop()
    popped,        \* the local variable conn of handleStop()
    crashed,       \* std::terminate or a null dereference ended the process
    doubleRemoved  \* history: connections removed after they were popped

connVars == <<life, ptr, denied, signalled, upc>>
acceptorVars == <<listening, stopPosted, spc, popped>>
vars == <<listVars, connVars, acceptorVars, crashed, doubleRemoved>>

Life == {"unused",     \* not created yet
         "waiting",    \* m_newConnection of a pending async_accept
         "aborted",    \* its accept failed or was cancelled by handleStop
         "accepted",   \* accept completed, handleAccept is queued
         "handshake",  \* SSL handshake under way
         "rejected",   \* denied, refused, or the handshake failed
         "open",       \* registered and started
         "closing",    \* inside unregister()
         "shutdown",   \* handleShutdown is queued
         "closed"}
UnregisterPC == {"none", "remove", "clear"}
StopPC == {"none", "pop", "setUnregistered", "signal", "done"}

\* Type invariant of the server.
TypeOK ==
    /\ ListsTypeOK
    /\ life \in [Conns -> Life]
    /\ ptr \in [Conns -> BOOLEAN]
    /\ denied \in [Conns -> BOOLEAN]
    /\ signalled \in [Conns -> BOOLEAN]
    /\ upc \in [Conns -> UnregisterPC]
    /\ listening \in [Acceptors -> BOOLEAN]
    /\ stopPosted \in [Acceptors -> BOOLEAN]
    /\ spc \in [Acceptors -> StopPC]
    /\ popped \in [Acceptors -> Conns \cup {NoConn}]
    /\ crashed \in BOOLEAN
    /\ doubleRemoved \subseteq Conns

\* The server is constructed: every acceptor waits with a first connection.
Init ==
    /\ ListsInit
    /\ life \in [Conns -> {"unused", "waiting"}]
    /\ \A a \in Acceptors : \E c \in Conns : Owner[c] = a /\ life[c] = "waiting"
    /\ \A c, d \in Conns :
          life[c] = "waiting" /\ life[d] = "waiting" /\ Owner[c] = Owner[d] => c = d
    /\ ptr = [c \in Conns |-> TRUE]
    /\ denied = [c \in Conns |-> FALSE]
    /\ signalled = [c \in Conns |-> FALSE]
    /\ upc = [c \in Conns |-> "none"]
    /\ listening = [a \in Acceptors |-> TRUE]
    /\ stopPosted = [a \in Acceptors |-> FALSE]
    /\ spc = [a \in Acceptors |-> "none"]
    /\ popped = [a \in Acceptors |-> NoConn]
    /\ crashed = FALSE
    /\ doubleRemoved = {}

-----------------------------------------------------------------------------
(* Accepting *)

\* The reactor completes the pending accept and queues handleAccept.
AcceptCompletes(c) ==
    /\ life[c] = "waiting"
    /\ listening[Owner[c]]
    /\ life' = [life EXCEPT ![c] = "accepted"]
    /\ UNCHANGED <<listVars, ptr, denied, signalled, upc, acceptorVars,
                   crashed, doubleRemoved>>

\* The pending accept fails: handleAccept does nothing, not even accept again.
AcceptFails(c) ==
    /\ life[c] = "waiting"
    /\ listening[Owner[c]]
    /\ life' = [life EXCEPT ![c] = "aborted"]
    /\ UNCHANGED <<listVars, ptr, denied, signalled, upc, acceptorVars,
                   crashed, doubleRemoved>>

\* The acceptor's strand is not inside handleStop().
StrandFree(a) == spc[a] \in {"none", "done"}

\* The tail of handleAccept, after connection c has moved to state s:
\* local_endpoint() throws when the acceptor has been closed meanwhile, and
\* nothing between here and the thread function catches it.  Otherwise a new
\* connection object waits for the next accept (none when Conns is used up).
ContinueAccepting(c, s) ==
    LET a == Owner[c]
        fresh == {d \in Conns : Owner[d] = a /\ life[d] = "unused"}
    IN  \/ /\ ~listening[a]
           /\ life' = [life EXCEPT ![c] = s]
           /\ crashed' = TRUE
        \/ /\ listening[a]
           /\ fresh = {}
           /\ life' = [life EXCEPT ![c] = s]
           /\ UNCHANGED crashed
        \/ /\ listening[a]
           /\ \E d \in fresh : life' = [life EXCEPT ![c] = s, ![d] = "waiting"]
           /\ UNCHANGED crashed

\* connection::start(): registered and started, or refused as the server is busy.
StartPlain(c) ==
    \/ /\ Push(Owner[c], c)
       /\ ContinueAccepting(c, "open")
    \/ /\ ~HasRoom(Owner[c])
       /\ UNCHANGED listVars
       /\ ContinueAccepting(c, "rejected")

\* acceptor::handleAccept of a peer the address restriction allows
HandleAccept(c) ==
    /\ life[c] = "accepted"
    /\ Owner[c] \notin SSLAcceptors
    /\ StrandFree(Owner[c])
    /\ StartPlain(c)
    /\ UNCHANGED <<ptr, denied, signalled, upc, acceptorVars, doubleRemoved>>

\* acceptor::handleAccept of a peer it does not allow
HandleAcceptDenied(c) ==
    /\ life[c] = "accepted"
    /\ Owner[c] \notin SSLAcceptors
    /\ StrandFree(Owner[c])
    /\ ContinueAccepting(c, "rejected")
    /\ UNCHANGED <<listVars, ptr, denied, signalled, upc, acceptorVars, doubleRemoved>>

\* SSLacceptor::handleAccept: a denied peer gets its handshake too.
HandleAcceptSSL(c) ==
    /\ life[c] = "accepted"
    /\ Owner[c] \in SSLAcceptors
    /\ StrandFree(Owner[c])
    /\ \E allowed \in BOOLEAN : denied' = [denied EXCEPT ![c] = ~allowed]
    /\ ContinueAccepting(c, "handshake")
    /\ UNCHANGED <<listVars, ptr, signalled, upc, acceptorVars, doubleRemoved>>

\* remote_endpoint() and write_some() are the throwing overloads: a peer that
\* reset the connection before its handler runs ends the process.
PeerVanished(c) ==
    /\ \/ life[c] = "accepted" /\ StrandFree(Owner[c])
       \/ life[c] = "handshake"
    /\ crashed' = TRUE
    /\ UNCHANGED <<listVars, connVars, acceptorVars, doubleRemoved>>

\* SSLconnection::handleHandshake after a successful handshake
HandleHandshake(c) ==
    /\ life[c] = "handshake"
    /\ \/ /\ denied[c]
          /\ life' = [life EXCEPT ![c] = "rejected"]
          /\ UNCHANGED listVars
       \/ /\ ~denied[c]
          /\ Push(Owner[c], c)
          /\ life' = [life EXCEPT ![c] = "open"]
       \/ /\ ~denied[c]
          /\ ~HasRoom(Owner[c])
          /\ life' = [life EXCEPT ![c] = "rejected"]
          /\ UNCHANGED listVars
    /\ UNCHANGED <<ptr, denied, signalled, upc, acceptorVars, crashed, doubleRemoved>>

\* SSLconnection::handleHandshake with an error
HandshakeFails(c) ==
    /\ life[c] = "handshake"
    /\ life' = [life EXCEPT ![c] = "rejected"]
    /\ UNCHANGED <<listVars, ptr, denied, signalled, upc, acceptorVars,
                   crashed, doubleRemoved>>

-----------------------------------------------------------------------------
(* Closing: ConnectionBase::nextOperation with operation CLOSE *)

\* Faulty variant: CLOSE posts the shutdown and does not unregister.
BeginClose_keepsSlot(c) ==
    /\ life[c] = "open"
    /\ life' = [life EXCEPT ![c] = "shutdown"]
    /\ UNCHANGED <<listVars, ptr, denied, signalled, upc, acceptorVars, crashed, doubleRemoved>>

\* unregister() reads m_connList; NULL means there is nothing to do.
BeginClose(c) ==
    /\ life[c] = "open"
    /\ \/ /\ ptr[c]
          /\ life' = [life EXCEPT ![c] = "closing"]
          /\ upc' = [upc EXCEPT ![c] = "remove"]
       \/ /\ ~ptr[c]
          /\ life' = [life EXCEPT ![c] = "shutdown"]
          /\ UNCHANGED upc
    /\ UNCHANGED <<listVars, ptr, denied, signalled, acceptorVars, crashed, doubleRemoved>>

\* m_connList->remove(self).  When setUnregistered() ran since the test, the
\* unsynchronised second read of m_connList yields the old pointer or NULL.
UnregisterRemove(c) ==
    /\ upc[c] = "remove"
    /\ \/ /\ Remove(Owner[c], c)
          /\ upc' = [upc EXCEPT ![c] = "clear"]
          /\ doubleRemoved' = IF connList[Owner[c]] # {} /\ c \notin connList[Owner[c]]
                              THEN doubleRemoved \cup {c} ELSE doubleRemoved
          /\ UNCHANGED crashed
       \/ /\ ~ptr[c]
          /\ crashed' = TRUE
          /\ UNCHANGED <<listVars, upc, doubleRemoved>>
    /\ UNCHANGED <<life, ptr, denied, signalled, acceptorVars>>

\* m_connList = NULL, then handleShutdown is posted.
UnregisterClear(c) ==
    /\ upc[c] = "clear"
    /\ ptr' = [ptr EXCEPT ![c] = FALSE]
    /\ upc' = [upc EXCEPT ![c] = "none"]
    /\ life' = [life EXCEPT ![c] = "shutdown"]
    /\ UNCHANGED <<listVars, denied, signalled, acceptorVars, crashed, doubleRemoved>>

HandleShutdown(c) ==
    /\ life[c] = "shutdown"
    /\ life' = [life EXCEPT ![c] = "closed"]
    /\ UNCHANGED <<listVars, ptr, denied, signalled, upc, acceptorVars,
                   crashed, doubleRemoved>>

-----------------------------------------------------------------------------
(* Shutdown *)

\* server::stop() posts handleStop to every acceptor.
Stop ==
    /\ stopPosted # [a \in Acceptors |-> TRUE]
    /\ stopPosted' = [a \in Acceptors |-> TRUE]
    /\ UNCHANGED <<listVars, connVars, listening, spc, popped, crashed, doubleRemoved>>

\* handleStop() begins: closing the acceptor cancels a pending accept, but
\* not one whose handler is already queued.
HandleStop(a) ==
    /\ stopPosted[a]
    /\ spc[a] = "none"
    /\ listening' = [listening EXCEPT ![a] = FALSE]
    /\ life' = [c \in Conns |-> IF Owner[c] = a /\ life[c] = "waiting"
                                THEN "aborted" ELSE life[c]]
    /\ spc' = [spc EXCEPT ![a] = "pop"]
    /\ UNCHANGED <<listVars, ptr, denied, signalled, upc, stopPosted, popped,
                   crashed, doubleRemoved>>

\* The loop condition of handleStop(): pop a connection or end.
StopPop(a) ==
    /\ spc[a] = "pop"
    /\ \/ \E c \in connList[a] :
             /\ Pop(a, c)
             /\ popped' = [popped EXCEPT ![a] = c]
             /\ spc' = [spc EXCEPT ![a] = "setUnregistered"]
       \/ /\ connList[a] = {}
          /\ spc' = [spc EXCEPT ![a] = "done"]
          /\ UNCHANGED <<listVars, popped>>
    /\ UNCHANGED <<connVars, listening, stopPosted, crashed, doubleRemoved>>

\* conn->setUnregistered()
StopSetUnregistered(a) ==
    /\ spc[a] = "setUnregistered"
    /\ ptr' = [ptr EXCEPT ![popped[a]] = FALSE]
    /\ spc' = [spc EXCEPT ![a] = "signal"]
    /\ UNCHANGED <<listVars, life, denied, signalled, upc, listening, stopPosted,
                   popped, crashed, doubleRemoved>>

\* Faulty variant: the popped connection is not signalled.
StopSignal_silent(a) ==
    /\ spc[a] = "signal"
    /\ popped' = [popped EXCEPT ![a] = NoConn]
    /\ spc' = [spc EXCEPT ![a] = "pop"]
    /\ UNCHANGED <<listVars, connVars, listening, stopPosted, crashed, doubleRemoved>>

\* Faulty variant: an `if' instead of the loop, one connection is signalled.
StopSignal_once(a) ==
    /\ spc[a] = "signal"
    /\ signalled' = [signalled EXCEPT ![popped[a]] = TRUE]
    /\ popped' = [popped EXCEPT ![a] = NoConn]
    /\ spc' = [spc EXCEPT ![a] = "done"]
    /\ UNCHANGED <<listVars, life, ptr, denied, upc, listening, stopPosted,
                   crashed, doubleRemoved>>

\* conn->signal()
StopSignal(a) ==
    /\ spc[a] = "signal"
    /\ signalled' = [signalled EXCEPT ![popped[a]] = TRUE]
    /\ popped' = [popped EXCEPT ![a] = NoConn]
    /\ spc' = [spc EXCEPT ![a] = "pop"]
    /\ UNCHANGED <<listVars, life, ptr, denied, upc, listening, stopPosted,
                   crashed, doubleRemoved>>

-----------------------------------------------------------------------------

\* io_service::run() returns when no acceptor and no connection has an
\* operation outstanding; a crashed process takes no step either.
Finished ==
    \/ crashed
    \/ /\ \A a \in Acceptors : spc[a] = "done"
       /\ \A c \in Conns : life[c] \in {"unused", "aborted", "rejected", "closed"}

Terminated == Finished /\ UNCHANGED vars

AcceptorStep(a) == HandleStop(a) \/ StopPop(a) \/ StopSetUnregistered(a) \/ StopSignal(a)

CloseStep(c) == UnregisterRemove(c) \/ UnregisterClear(c) \/ HandleShutdown(c)

ConnStep(c) ==
    \/ AcceptCompletes(c)
    \/ AcceptFails(c)
    \/ HandleAccept(c)
    \/ HandleAcceptDenied(c)
    \/ HandleAcceptSSL(c)
    \/ PeerVanished(c)
    \/ HandleHandshake(c)
    \/ HandshakeFails(c)
    \/ BeginClose(c)
    \/ CloseStep(c)

Running ==
    /\ ~crashed
    /\ \/ \E c \in Conns : ConnStep(c)
       \/ Stop
       \/ \E a \in Acceptors : AcceptorStep(a)

Next == Running \/ Terminated

Spec == Init /\ [][Next]_vars

\* The io_service threads run every queued handler.  A signalled connection
\* closes (SignalCloses of module Connection) if its peer takes what is
\* written to it: no write has a timeout, so the farewell of a Deaf one may
\* stay pending for ever.  Nothing forces a peer to connect, to finish a
\* handshake or to leave.
Fairness ==
    /\ \A a \in Acceptors : WF_vars(~crashed /\ AcceptorStep(a))
    /\ \A c \in Conns : WF_vars(~crashed /\ CloseStep(c))
    /\ \A c \in Conns \ Deaf : WF_vars(~crashed /\ signalled[c] /\ BeginClose(c))

FairSpec == Spec /\ Fairness

-----------------------------------------------------------------------------
(* Properties *)

\* The counters of the socket lists and the global counter are exact, over
\* every interleaving of accepts, handshakes, closes and shutdown, except
\* after the one race recorded in doubleRemoved: unregister() removing a
\* connection handleStop() has already popped (connection.hpp:169-203).
CountsExact ==
    doubleRemoved = {} =>
        /\ \A a \in Acceptors : connCount[a] = Cardinality(connList[a])
        /\ globalCount = Cardinality(Registered)

\* The limits of push() and incConnCount() hold for what is really
\* registered, not only for the counters they test.
LimitsRespected ==
    doubleRemoved = {} =>
        /\ \A a \in Acceptors :
              MaxConn[a] > 0 => Cardinality(connList[a]) <= MaxConn[a]
        /\ GlobalMax > 0 => Cardinality(Registered) <= GlobalMax

\* A slot of a list is only ever held by a live connection of that acceptor
\* that can still find the list to give the slot back: no path through start,
\* close and shutdown leaks a slot (connection.hpp:235-245).
ListedIsLive ==
    \A a \in Acceptors : \A c \in connList[a] :
        /\ Owner[c] = a
        /\ ptr[c]
        /\ life[c] = "open" \/ (life[c] = "closing" /\ upc[c] = "remove")

\* handleStop() never detaches a connection without telling it: an open
\* connection that is in no list any more has been signalled, or handleStop()
\* is about to (acceptor.cpp:147-158).
NoSilentDetach ==
    \A c \in Conns : life[c] = "open" /\ c \notin connList[Owner[c]] =>
        signalled[c] \/ popped[Owner[c]] = c

\* Every connection that is registered before handleStop() has gone through
\* its list is told to stop, or leaves by itself, unless the process dies: no
\* peer can hold up the loop that tells the others.  It gets closed, too, if
\* its peer takes the farewell (acceptor.cpp:144-160; no write is timed,
\* wolframeHandler.cpp:310).
StopReachesAll ==
    \A c \in Conns :
        LET atStop == stopPosted[Owner[c]] /\ spc[Owner[c]] # "done" /\ c \in connList[Owner[c]]
        IN  /\ atStop ~> (signalled[c] \/ life[c] \in {"closing", "shutdown", "closed"} \/ crashed)
            /\ c \notin Deaf => (atStop ~> (life[c] = "closed" \/ crashed))

\* The assertions "m_connCount == m_connList.size()" at the end of push(),
\* remove() and pop() (connection.hpp:163, 180, 199).
CountIsListSize ==
    \A a \in Acceptors : connCount[a] = Cardinality(connList[a])

\* "at this point no more connections are accepted" (acceptor.cpp:151): once
\* handleStop() has emptied the list, no connection is registered again.
NoConnectionsAfterStop ==
    ~crashed => \A a \in Acceptors : spc[a] = "done" => connList[a] = {}

=============================================================================
