------------------------- MODULE NetworkServer_proofs -------------------------
(***************************************************************************)
(* Proofs about module NetworkServer, for any number of acceptors and      *)
(* connections and any limits: the counters of the registers are exact and *)
(* their limits hold, no slot leaks and no connection is detached without  *)
(* being told.                                                             *)
(***************************************************************************)
EXTENDS NetworkServer, FiniteSetTheorems, TLAPS

-----------------------------------------------------------------------------
(* The inductive invariant *)

\* A connection is closing exactly while it is inside unregister(), and one
\* that has not been started still knows its list.
NotStarted == {"unused", "waiting", "aborted", "accepted", "handshake"}

LifeOK ==
    \A c \in Conns :
        /\ upc[c] # "none" <=> life[c] = "closing"
        /\ life[c] \in NotStarted => ptr[c]

\* What handleStop() holds in conn has been started and is in no list.
Holding == {"setUnregistered", "signal"}

PoppedOK ==
    \A a \in Acceptors :
        /\ spc[a] \in Holding =>
             /\ popped[a] \in Conns
             /\ popped[a] \notin connList[a]
             /\ Owner[popped[a]] = a
             /\ life[popped[a]] \notin NotStarted
        /\ spc[a] \notin Holding => popped[a] = NoConn

IInv ==
    /\ TypeOK
    /\ LifeOK
    /\ PoppedOK
    /\ ListedIsLive
    /\ NoSilentDetach
    /\ CountsExact
    /\ LimitsRespected

-----------------------------------------------------------------------------
(* Unsigned counters *)

\* A counter stays within std::size_t.
LEMMA CounterType == ASSUME NEW n \in SizeT PROVE Inc(n) \in SizeT /\ Dec(n) \in SizeT
BY LimitAssumption DEF SizeT, Inc, Dec

\* Below the number of connection objects a counter does not wrap.
LEMMA CounterExact ==
    ASSUME NEW n \in Nat
    PROVE  /\ n + 1 < SizeRange => Inc(n) = n + 1
           /\ n > 0 /\ n < SizeRange => Dec(n) = n - 1
BY LimitAssumption DEF Inc, Dec

-----------------------------------------------------------------------------
(* The registers *)

\* The sets a register holds are finite and too small to wrap a counter.
LEMMA SubsetFinite ==
    ASSUME NEW S \in SUBSET Conns
    PROVE  IsFiniteSet(S) /\ Cardinality(S) \in Nat /\ Cardinality(S) < SizeRange
<1>1. IsFiniteSet(S) /\ Cardinality(S) <= Cardinality(Conns)
  BY ConnsAssumption, FS_Subset
<1>2. Cardinality(S) \in Nat /\ Cardinality(Conns) \in Nat
  BY <1>1, ConnsAssumption, FS_CardinalityType
<1> QED
  BY <1>1, <1>2, ConnsAssumption, LimitAssumption

\* push() of a connection that is in no list keeps the counters exact and
\* the limits respected.
LEMMA PushKeepsCounts ==
    ASSUME TypeOK, TypeOK', CountsExact, LimitsRespected,
           NEW a \in Acceptors, NEW c \in Conns, c \notin Registered,
           Push(a, c), UNCHANGED doubleRemoved
    PROVE  CountsExact' /\ LimitsRespected'
<1> SUFFICES ASSUME doubleRemoved = {}
             PROVE  CountsExact' /\ LimitsRespected'
  BY DEF CountsExact, LimitsRespected
<1>1. /\ \A b \in Acceptors : connCount[b] = Cardinality(connList[b])
      /\ globalCount = Cardinality(Registered)
  BY DEF CountsExact
<1>2. /\ \A b \in Acceptors : MaxConn[b] > 0 => Cardinality(connList[b]) <= MaxConn[b]
      /\ GlobalMax > 0 => Cardinality(Registered) <= GlobalMax
  BY DEF LimitsRespected
<1>3. /\ connList'[a] = connList[a] \cup {c}
      /\ \A b \in Acceptors \ {a} : connList'[b] = connList[b] /\ connCount'[b] = connCount[b]
      /\ connCount'[a] = Inc(connCount[a])
      /\ globalCount' = Inc(globalCount)
  BY DEF Push, TypeOK, ListsTypeOK
<1>4. Registered' = Registered \cup {c} /\ c \notin connList[a]
  BY <1>3 DEF Registered
<1>5. /\ connList[a] \in SUBSET Conns /\ connList'[a] \in SUBSET Conns
      /\ Registered \in SUBSET Conns /\ Registered' \in SUBSET Conns
  BY DEF TypeOK, ListsTypeOK, Registered
<1>6. /\ Cardinality(connList'[a]) = Cardinality(connList[a]) + 1
      /\ Cardinality(Registered') = Cardinality(Registered) + 1
  <2>1. IsFiniteSet(connList[a]) /\ IsFiniteSet(Registered)
    BY <1>5, SubsetFinite
  <2> QED
    BY <1>3, <1>4, <2>1, FS_AddElement
<1>7. /\ Cardinality(connList[a]) \in Nat /\ Cardinality(Registered) \in Nat
      /\ Cardinality(connList'[a]) < SizeRange /\ Cardinality(Registered') < SizeRange
  BY <1>5, SubsetFinite
<1>8. connCount'[a] = Cardinality(connList'[a]) /\ globalCount' = Cardinality(Registered')
  BY <1>1, <1>3, <1>6, <1>7, CounterExact
<1>9. CountsExact'
  BY <1>1, <1>3, <1>8 DEF CountsExact
<1>10. /\ MaxConn[a] > 0 => Cardinality(connList'[a]) <= MaxConn[a]
       /\ GlobalMax > 0 => Cardinality(Registered') <= GlobalMax
  BY <1>1, <1>6, <1>7, LimitAssumption DEF Push, HasRoom, BelowLimit
<1>11. LimitsRespected'
  BY <1>2, <1>3, <1>10 DEF LimitsRespected
<1> QED
  BY <1>9, <1>11

\* Taking a listed connection out of its list, by pop() or by remove(),
\* keeps the counters exact and the limits respected.
LEMMA PopKeepsCounts ==
    ASSUME TypeOK, TypeOK', CountsExact, LimitsRespected, ListedIsLive,
           NEW a \in Acceptors, NEW c \in connList[a],
           Pop(a, c), UNCHANGED doubleRemoved
    PROVE  CountsExact' /\ LimitsRespected'
<1> SUFFICES ASSUME doubleRemoved = {}
             PROVE  CountsExact' /\ LimitsRespected'
  BY DEF CountsExact, LimitsRespected
<1>1. /\ \A b \in Acceptors : connCount[b] = Cardinality(connList[b])
      /\ globalCount = Cardinality(Registered)
  BY DEF CountsExact
<1>2. /\ \A b \in Acceptors : MaxConn[b] > 0 => Cardinality(connList[b]) <= MaxConn[b]
      /\ GlobalMax > 0 => Cardinality(Registered) <= GlobalMax
  BY DEF LimitsRespected
<1>3. /\ connList'[a] = connList[a] \ {c}
      /\ \A b \in Acceptors \ {a} : connList'[b] = connList[b] /\ connCount'[b] = connCount[b]
      /\ connCount'[a] = Dec(connCount[a])
      /\ globalCount' = Dec(globalCount)
  BY DEF Pop, TypeOK, ListsTypeOK
<1>4. Registered' = Registered \ {c} /\ c \in Registered
  <2>1. \A b \in Acceptors \ {a} : c \notin connList[b]
    BY DEF ListedIsLive
  <2> QED
    BY <1>3, <2>1 DEF Registered
<1>5. /\ connList[a] \in SUBSET Conns /\ connList'[a] \in SUBSET Conns
      /\ Registered \in SUBSET Conns /\ Registered' \in SUBSET Conns
  BY DEF TypeOK, ListsTypeOK, Registered
<1>6. /\ Cardinality(connList'[a]) = Cardinality(connList[a]) - 1
      /\ Cardinality(Registered') = Cardinality(Registered) - 1
  <2>1. IsFiniteSet(connList[a]) /\ IsFiniteSet(Registered)
    BY <1>5, SubsetFinite
  <2> QED
    BY <1>3, <1>4, <2>1, FS_RemoveElement
<1>7. /\ Cardinality(connList[a]) \in Nat /\ Cardinality(connList[a]) < SizeRange
      /\ Cardinality(Registered) \in Nat /\ Cardinality(Registered) < SizeRange
      /\ Cardinality(connList'[a]) \in Nat /\ Cardinality(Registered') \in Nat
  BY <1>5, SubsetFinite
<1>8. connCount'[a] = Cardinality(connList'[a]) /\ globalCount' = Cardinality(Registered')
  BY <1>1, <1>3, <1>6, <1>7, CounterExact
<1>9. CountsExact'
  BY <1>1, <1>3, <1>8 DEF CountsExact
<1>10. /\ MaxConn[a] > 0 => Cardinality(connList'[a]) <= MaxConn[a]
       /\ GlobalMax > 0 => Cardinality(Registered') <= GlobalMax
  BY <1>2, <1>6, <1>7, LimitAssumption
<1>11. LimitsRespected'
  BY <1>2, <1>3, <1>10 DEF LimitsRespected
<1> QED
  BY <1>9, <1>11

-----------------------------------------------------------------------------
(* Types *)

\* The operations of the registers preserve their types.
LEMMA ListsType ==
    ASSUME ListsTypeOK, NEW a \in Acceptors, NEW c \in Conns,
           Push(a, c) \/ Remove(a, c) \/ Pop(a, c) \/ UNCHANGED listVars
    PROVE  ListsTypeOK'
BY CounterType DEF ListsTypeOK, Push, Remove, Pop, listVars

\* So does the tail of handleAccept().
LEMMA ContinueType ==
    ASSUME TypeOK, NEW c \in Conns, NEW s \in Life, ContinueAccepting(c, s)
    PROVE  life' \in [Conns -> Life] /\ crashed' \in BOOLEAN
<1>1. life' \in [Conns -> Life]
  <2>1. "waiting" \in Life
    BY DEF Life
  <2> QED
    BY <2>1 DEF ContinueAccepting, TypeOK
<1>2. crashed' \in BOOLEAN
  BY DEF ContinueAccepting, TypeOK
<1> QED
  BY <1>1, <1>2

\* Every handler of a connection preserves the types.
LEMMA ConnTypeStep == ASSUME TypeOK, NEW c \in Conns, ConnStep(c) PROVE TypeOK'
<1> USE OwnerAssumption DEF connVars, acceptorVars
<1>0. ListsTypeOK /\ Owner[c] \in Acceptors /\ {"open", "rejected", "handshake"} \subseteq Life
  BY DEF TypeOK, Life
<1>1. CASE AcceptCompletes(c) \/ AcceptFails(c)
  BY <1>1, <1>0, ListsType DEF AcceptCompletes, AcceptFails, TypeOK, Life
<1>2. CASE HandleAccept(c)
  <2>1. ListsTypeOK'
    BY <1>0, <1>2, ListsType DEF HandleAccept, StartPlain
  <2>2. life' \in [Conns -> Life] /\ crashed' \in BOOLEAN
    BY <1>0, <1>2, ContinueType DEF HandleAccept, StartPlain
  <2> QED
    BY <1>2, <2>1, <2>2 DEF HandleAccept, TypeOK
<1>3. CASE HandleAcceptDenied(c)
  <2>1. life' \in [Conns -> Life] /\ crashed' \in BOOLEAN
    BY <1>0, <1>3, ContinueType DEF HandleAcceptDenied
  <2> QED
    BY <1>0, <1>3, <2>1, ListsType DEF HandleAcceptDenied, TypeOK
<1>4. CASE HandleAcceptSSL(c)
  <2>1. life' \in [Conns -> Life] /\ crashed' \in BOOLEAN
    BY <1>0, <1>4, ContinueType DEF HandleAcceptSSL
  <2>2. denied' \in [Conns -> BOOLEAN]
    BY <1>4 DEF HandleAcceptSSL, TypeOK
  <2> QED
    BY <1>0, <1>4, <2>1, <2>2, ListsType DEF HandleAcceptSSL, TypeOK
<1>5. CASE PeerVanished(c)
  BY <1>0, <1>5, ListsType DEF PeerVanished, TypeOK
<1>6. CASE HandleHandshake(c)
  <2>1. ListsTypeOK'
    BY <1>0, <1>6, ListsType DEF HandleHandshake
  <2> QED
    BY <1>0, <1>6, <2>1 DEF HandleHandshake, TypeOK
<1>7. CASE HandshakeFails(c)
  BY <1>0, <1>7, ListsType DEF HandshakeFails, TypeOK
<1>8. CASE BeginClose(c)
  BY <1>0, <1>8, ListsType DEF BeginClose, TypeOK, Life, UnregisterPC
<1>9. CASE UnregisterRemove(c)
  <2>1. ListsTypeOK'
    BY <1>0, <1>9, ListsType DEF UnregisterRemove
  <2>2. upc' \in [Conns -> UnregisterPC] /\ doubleRemoved' \subseteq Conns
    BY <1>9 DEF UnregisterRemove, TypeOK, UnregisterPC
  <2>3. crashed' \in BOOLEAN
    BY <1>9 DEF UnregisterRemove, TypeOK
  <2> QED
    BY <1>9, <2>1, <2>2, <2>3 DEF UnregisterRemove, TypeOK
<1>10. CASE UnregisterClear(c)
  BY <1>0, <1>10, ListsType DEF UnregisterClear, TypeOK, Life, UnregisterPC
<1>11. CASE HandleShutdown(c)
  BY <1>0, <1>11, ListsType DEF HandleShutdown, TypeOK, Life
<1> QED
  BY <1>1, <1>2, <1>3, <1>4, <1>5, <1>6, <1>7, <1>8, <1>9, <1>10, <1>11
     DEF ConnStep, CloseStep

\* Every step of handleStop() preserves the types.
LEMMA StopTypeStep == ASSUME TypeOK, NEW a \in Acceptors, AcceptorStep(a) PROVE TypeOK'
<1> USE DEF TypeOK, ListsTypeOK, StopPC, listVars, connVars, acceptorVars
<1>1. CASE HandleStop(a)
  BY <1>1 DEF HandleStop, Life
<1>2. CASE StopPop(a)
  BY <1>2, CounterType DEF StopPop, Pop
<1>3. CASE StopSetUnregistered(a)
  BY <1>3 DEF StopSetUnregistered
<1>4. CASE StopSignal(a)
  BY <1>4 DEF StopSignal
<1> QED
  BY <1>1, <1>2, <1>3, <1>4 DEF AcceptorStep

LEMMA TypeStep == TypeOK /\ [Next]_vars => TypeOK'
<1> SUFFICES ASSUME TypeOK, [Next]_vars PROVE TypeOK'
  OBVIOUS
<1>1. CASE \E c \in Conns : ConnStep(c)
  BY <1>1, ConnTypeStep
<1>2. CASE \E a \in Acceptors : AcceptorStep(a)
  BY <1>2, StopTypeStep
<1>3. CASE Stop
  BY <1>3 DEF Stop, TypeOK, ListsTypeOK, listVars, connVars
<1>4. CASE UNCHANGED vars
  BY <1>4 DEF vars, TypeOK, ListsTypeOK, listVars, connVars, acceptorVars
<1> QED
  BY <1>1, <1>2, <1>3, <1>4 DEF Next, Running, Terminated

-----------------------------------------------------------------------------
(* The inductive step *)

Shape == LifeOK /\ PoppedOK /\ ListedIsLive /\ NoSilentDetach

\* A connection that has not been started is in no list and nobody holds it.
LEMMA NotStartedUnknown ==
    ASSUME IInv, NEW c \in Conns, life[c] \in NotStarted
    PROVE  c \notin Registered /\ \A a \in Acceptors : c # popped[a]
<1>1. c \notin Registered
  BY DEF IInv, ListedIsLive, NotStarted, Registered
<1>2. \A a \in Acceptors : c # popped[a]
  BY NoConnAssumption DEF IInv, PoppedOK
<1> QED
  BY <1>1, <1>2

\* Steps of connections that are not started yet leave the lists alone and
\* keep the shape.
LEMMA UnlistedKeepsShape ==
    ASSUME IInv, TypeOK', UNCHANGED <<listVars, ptr, signalled, upc, spc, popped>>,
           \A c \in Conns : life'[c] # life[c] =>
                               /\ life[c] \in NotStarted
                               /\ life'[c] \in NotStarted \cup {"rejected"}
    PROVE  Shape'
<1> USE DEF listVars
<1>1. LifeOK'
  BY DEF IInv, LifeOK, NotStarted
<1>2. PoppedOK'
  BY DEF IInv, PoppedOK, NotStarted
<1>3. ListedIsLive'
  BY DEF IInv, TypeOK, ListsTypeOK, ListedIsLive, NotStarted
<1>4. NoSilentDetach'
  BY DEF IInv, NoSilentDetach, NotStarted
<1> QED
  BY <1>1, <1>2, <1>3, <1>4 DEF Shape

\* So does registering a connection.
LEMMA PushKeepsShape ==
    ASSUME IInv, TypeOK', UNCHANGED <<ptr, signalled, upc, spc, popped>>,
           NEW c \in Conns, life[c] \in NotStarted, life'[c] = "open", Push(Owner[c], c),
           \A d \in Conns \ {c} : life'[d] # life[d] =>
                                     life[d] \in NotStarted /\ life'[d] \in NotStarted
    PROVE  Shape'
<1> USE OwnerAssumption DEF Push
<1>0. /\ c \notin Registered
      /\ \A a \in Acceptors : c # popped[a]
  BY NotStartedUnknown
<1>1. LifeOK'
  BY DEF IInv, LifeOK, NotStarted
<1>2. PoppedOK'
  BY <1>0 DEF IInv, TypeOK, ListsTypeOK, PoppedOK, NotStarted
<1>3. ListedIsLive'
  <2> SUFFICES ASSUME NEW a \in Acceptors, NEW d \in connList'[a]
               PROVE  /\ Owner[d] = a
                      /\ ptr'[d]
                      /\ life'[d] = "open" \/ (life'[d] = "closing" /\ upc'[d] = "remove")
    BY DEF ListedIsLive
  <2>1. CASE d = c
    <3>1. \A b \in Acceptors : c \notin connList[b]
      BY <1>0 DEF Registered
    <3>2. Owner[c] = a
      BY <2>1, <3>1 DEF IInv, TypeOK, ListsTypeOK
    <3>3. ptr'[c]
      BY DEF IInv, LifeOK
    <3> QED
      BY <2>1, <3>2, <3>3
  <2>2. CASE d # c
    <3>1. d \in connList[a] /\ d \in Conns
      BY <2>2 DEF IInv, TypeOK, ListsTypeOK
    <3>2. /\ Owner[d] = a /\ ptr[d]
          /\ life[d] = "open" \/ (life[d] = "closing" /\ upc[d] = "remove")
      BY <3>1 DEF IInv, ListedIsLive
    <3>3. life'[d] = life[d]
      BY <2>2, <3>1, <3>2 DEF NotStarted
    <3> QED
      BY <3>2, <3>3
  <2> QED
    BY <2>1, <2>2
<1>4. NoSilentDetach'
  BY DEF IInv, TypeOK, ListsTypeOK, NoSilentDetach, NotStarted
<1> QED
  BY <1>1, <1>2, <1>3, <1>4 DEF Shape

\* A connection handler keeps the shape of the state, the counters and the limits.
LEMMA ConnKeepsInv == ASSUME IInv, TypeOK', NEW c \in Conns, ConnStep(c) PROVE IInv'
<1> USE OwnerAssumption DEF connVars, acceptorVars
<1>0. Owner[c] \in Acceptors
  OBVIOUS
<1>1. CASE UNCHANGED <<listVars, doubleRemoved>> /\ Shape'
  BY <1>1 DEF IInv, Shape, CountsExact, LimitsRespected, Registered, listVars
<1>2. CASE AcceptCompletes(c) \/ AcceptFails(c) \/ HandleAcceptDenied(c) \/ HandleAcceptSSL(c)
             \/ PeerVanished(c) \/ HandshakeFails(c)
  <2>1. UNCHANGED <<listVars, ptr, signalled, upc, spc, popped, doubleRemoved>>
    BY <1>2 DEF AcceptCompletes, AcceptFails, HandleAcceptDenied, HandleAcceptSSL, PeerVanished,
                HandshakeFails
  <2>2. \A d \in Conns : life'[d] # life[d] => /\ life[d] \in NotStarted
                                               /\ life'[d] \in NotStarted \cup {"rejected"}
    BY <1>2 DEF AcceptCompletes, AcceptFails, HandleAcceptDenied, HandleAcceptSSL, PeerVanished,
                HandshakeFails, ContinueAccepting, NotStarted, IInv, TypeOK
  <2> QED
    BY <1>1, <2>1, <2>2, UnlistedKeepsShape
<1>3. CASE HandleAccept(c) \/ HandleHandshake(c)
  <2>1. UNCHANGED <<ptr, signalled, upc, spc, popped, doubleRemoved>> /\ life[c] \in NotStarted
    BY <1>3 DEF HandleAccept, HandleHandshake, NotStarted
  <2>2. CASE Push(Owner[c], c) /\ life'[c] = "open"
    <3>1. \A d \in Conns \ {c} : life'[d] # life[d] =>
                                    life[d] \in NotStarted /\ life'[d] \in NotStarted
      BY <1>3, <2>2 DEF HandleAccept, StartPlain, HandleHandshake, ContinueAccepting,
                        NotStarted, IInv, TypeOK
    <3>2. Shape'
      BY <2>1, <2>2, <3>1, PushKeepsShape
    <3>3. c \notin Registered
      BY <2>1, NotStartedUnknown
    <3>4. CountsExact' /\ LimitsRespected'
      BY <2>1, <2>2, <3>3, PushKeepsCounts DEF IInv
    <3> QED
      BY <3>2, <3>4 DEF IInv, Shape
  <2>3. CASE UNCHANGED listVars /\ life'[c] = "rejected"
    <3>1. \A d \in Conns : life'[d] # life[d] => /\ life[d] \in NotStarted
                                                 /\ life'[d] \in NotStarted \cup {"rejected"}
      BY <1>3, <2>3 DEF HandleAccept, StartPlain, HandleHandshake, ContinueAccepting,
                        NotStarted, IInv, TypeOK
    <3> QED
      BY <1>1, <2>1, <2>3, <3>1, UnlistedKeepsShape
  <2> QED
    BY <1>3, <2>2, <2>3 DEF HandleAccept, StartPlain, HandleHandshake, ContinueAccepting,
                            IInv, TypeOK
<1>4. CASE BeginClose(c)
  <2>1. c \in connList[Owner[c]] => ptr[c]
    BY DEF IInv, ListedIsLive
  <2>2. LifeOK'
    BY <1>4 DEF BeginClose, IInv, TypeOK, LifeOK, NotStarted
  <2>3. PoppedOK'
    BY <1>4 DEF BeginClose, IInv, TypeOK, PoppedOK, NotStarted, listVars
  <2>4. ListedIsLive'
    BY <1>4 DEF BeginClose, IInv, TypeOK, ListsTypeOK, ListedIsLive, listVars
  <2>5. NoSilentDetach'
    BY <1>4 DEF BeginClose, IInv, TypeOK, NoSilentDetach, listVars
  <2> QED
    BY <1>1, <1>4, <2>2, <2>3, <2>4, <2>5 DEF BeginClose, Shape
<1>5. CASE UnregisterRemove(c)
  <2>1. life[c] = "closing" /\ UNCHANGED <<life, ptr, signalled, spc, popped>>
    BY <1>5 DEF UnregisterRemove, IInv, LifeOK
  <2>2. CASE UNCHANGED <<listVars, upc, doubleRemoved>>
    BY <1>1, <2>1, <2>2 DEF IInv, Shape, LifeOK, PoppedOK, ListedIsLive, NoSilentDetach, listVars
  <2>3. CASE /\ Remove(Owner[c], c)
             /\ upc' = [upc EXCEPT ![c] = "clear"]
             /\ doubleRemoved' = IF connList[Owner[c]] # {} /\ c \notin connList[Owner[c]]
                                 THEN doubleRemoved \cup {c} ELSE doubleRemoved
    <3>1. /\ connList'[Owner[c]] = connList[Owner[c]] \ {c}
          /\ \A a \in Acceptors \ {Owner[c]} : connList'[a] = connList[a]
      BY <2>3 DEF Remove, IInv, TypeOK, ListsTypeOK, listVars
    <3>2. \A a \in Acceptors : connList'[a] = connList[a] \ {c}
      BY <3>1 DEF IInv, ListedIsLive
    <3>3. LifeOK'
      BY <2>1, <2>3 DEF IInv, TypeOK, LifeOK
    <3>4. PoppedOK'
      BY <2>1, <3>2 DEF IInv, PoppedOK
    <3>5. ListedIsLive'
      BY <2>1, <2>3, <3>2 DEF IInv, TypeOK, ListsTypeOK, ListedIsLive
    <3>6. NoSilentDetach'
      BY <2>1, <3>2 DEF IInv, NoSilentDetach
    <3>7. CASE connList[Owner[c]] = {} /\ UNCHANGED <<listVars, doubleRemoved>>
      BY <1>1, <3>3, <3>4, <3>5, <3>6, <3>7 DEF Shape
    <3>8. CASE c \notin connList[Owner[c]] /\ c \in doubleRemoved'
      BY <3>3, <3>4, <3>5, <3>6, <3>8 DEF IInv, CountsExact, LimitsRespected
    <3>9. CASE c \in connList[Owner[c]] /\ UNCHANGED doubleRemoved
      <4>1. Pop(Owner[c], c)
        BY <2>3, <3>9 DEF Remove, Pop
      <4>2. CountsExact' /\ LimitsRespected'
        BY <3>9, <4>1, PopKeepsCounts DEF IInv
      <4> QED
        BY <3>3, <3>4, <3>5, <3>6, <4>2 DEF IInv
    <3> QED
      BY <2>3, <3>7, <3>8, <3>9 DEF Remove
  <2> QED
    BY <1>5, <2>2, <2>3 DEF UnregisterRemove
<1>6. CASE UnregisterClear(c)
  <2>1. life[c] = "closing" /\ \A a \in Acceptors : c \notin connList[a]
    BY <1>6 DEF UnregisterClear, IInv, LifeOK, ListedIsLive
  <2>2. LifeOK'
    BY <1>6, <2>1 DEF UnregisterClear, IInv, TypeOK, LifeOK, NotStarted
  <2>3. PoppedOK'
    BY <1>6 DEF UnregisterClear, IInv, TypeOK, PoppedOK, NotStarted, listVars
  <2>4. ListedIsLive'
    BY <1>6, <2>1 DEF UnregisterClear, IInv, TypeOK, ListsTypeOK, ListedIsLive, listVars
  <2>5. NoSilentDetach'
    BY <1>6 DEF UnregisterClear, IInv, TypeOK, NoSilentDetach, listVars
  <2> QED
    BY <1>1, <1>6, <2>2, <2>3, <2>4, <2>5 DEF UnregisterClear, Shape
<1>7. CASE HandleShutdown(c)
  <2>1. \A a \in Acceptors : c \notin connList[a]
    BY <1>7 DEF HandleShutdown, IInv, ListedIsLive
  <2>2. LifeOK'
    BY <1>7, <2>1 DEF HandleShutdown, IInv, TypeOK, LifeOK, NotStarted
  <2>3. PoppedOK'
    BY <1>7 DEF HandleShutdown, IInv, TypeOK, PoppedOK, NotStarted, listVars
  <2>4. ListedIsLive'
    BY <1>7, <2>1 DEF HandleShutdown, IInv, TypeOK, ListsTypeOK, ListedIsLive, listVars
  <2>5. NoSilentDetach'
    BY <1>7 DEF HandleShutdown, IInv, TypeOK, NoSilentDetach, listVars
  <2> QED
    BY <1>1, <1>7, <2>2, <2>3, <2>4, <2>5 DEF HandleShutdown, Shape
<1> QED
  BY <1>2, <1>3, <1>4, <1>5, <1>6, <1>7 DEF ConnStep, CloseStep

\* So does every step of handleStop().
LEMMA StopKeepsInv == ASSUME IInv, TypeOK', NEW a \in Acceptors, AcceptorStep(a) PROVE IInv'
<1> USE DEF connVars, acceptorVars
<1>1. CASE UNCHANGED <<listVars, doubleRemoved>> /\ Shape'
  BY <1>1 DEF IInv, Shape, CountsExact, LimitsRespected, Registered, listVars
<1>2. CASE HandleStop(a)
  <2>1. UNCHANGED <<listVars, ptr, signalled, upc, popped, doubleRemoved>>
    BY <1>2 DEF HandleStop
  <2>2. \A c \in Conns : life'[c] # life[c] => life[c] = "waiting" /\ life'[c] = "aborted"
    BY <1>2 DEF HandleStop
  <2>3. \A b \in Acceptors : spc'[b] \in Holding <=> spc[b] \in Holding
    BY <1>2 DEF HandleStop, IInv, TypeOK, Holding
  <2>4. LifeOK'
    BY <2>1, <2>2 DEF IInv, LifeOK, NotStarted
  <2>5. PoppedOK'
    BY <2>1, <2>2, <2>3 DEF IInv, PoppedOK, NotStarted, listVars
  <2>6. ListedIsLive'
    BY <2>1, <2>2 DEF IInv, TypeOK, ListsTypeOK, ListedIsLive, listVars
  <2>7. NoSilentDetach'
    BY <2>1, <2>2 DEF IInv, NoSilentDetach, listVars
  <2> QED
    BY <1>1, <2>1, <2>4, <2>5, <2>6, <2>7 DEF Shape
<1>3. CASE StopPop(a)
  <2>1. UNCHANGED <<connVars, doubleRemoved>> /\ spc[a] = "pop" /\ popped[a] = NoConn
    BY <1>3 DEF StopPop, IInv, PoppedOK, Holding
  <2>2. CASE connList[a] = {} /\ UNCHANGED <<listVars, popped>> /\ spc' = [spc EXCEPT ![a] = "done"]
    <3>1. PoppedOK'
      BY <2>1, <2>2 DEF IInv, TypeOK, PoppedOK, Holding, listVars
    <3>2. LifeOK' /\ ListedIsLive' /\ NoSilentDetach'
      BY <2>1, <2>2 DEF IInv, LifeOK, ListedIsLive, NoSilentDetach, listVars
    <3> QED
      BY <1>1, <2>1, <2>2, <3>1, <3>2 DEF Shape
  <2>3. ASSUME NEW c \in connList[a], Pop(a, c), popped' = [popped EXCEPT ![a] = c],
               spc' = [spc EXCEPT ![a] = "setUnregistered"]
        PROVE  IInv'
    <3>1. /\ connList'[a] = connList[a] \ {c}
          /\ \A b \in Acceptors \ {a} : connList'[b] = connList[b]
      BY <2>3 DEF Pop, IInv, TypeOK, ListsTypeOK
    <3>2. c \in Conns /\ Owner[c] = a /\ life[c] \notin NotStarted
      BY DEF IInv, TypeOK, ListsTypeOK, ListedIsLive, NotStarted
    <3>3. LifeOK'
      BY <2>1 DEF IInv, LifeOK
    <3>4. PoppedOK'
      BY <2>1, <2>3, <3>1, <3>2 DEF IInv, TypeOK, PoppedOK, Holding
    <3>5. ListedIsLive'
      BY <2>1, <3>1 DEF IInv, ListedIsLive
    <3>6. NoSilentDetach'
      <4> SUFFICES ASSUME NEW d \in Conns, life'[d] = "open", d \notin connList'[Owner[d]]
                   PROVE  signalled'[d] \/ popped'[Owner[d]] = d
        BY DEF NoSilentDetach
      <4>1. CASE d = c
        BY <2>3, <3>2, <4>1 DEF IInv, TypeOK
      <4>2. CASE d # c
        <5>1. d \notin connList[Owner[d]] /\ life[d] = "open"
          BY <2>1, <3>1, <4>2, OwnerAssumption
        <5>2. signalled[d] \/ popped[Owner[d]] = d
          BY <5>1 DEF IInv, NoSilentDetach
        <5> QED
          BY <2>1, <2>3, <5>2, OwnerAssumption, NoConnAssumption DEF IInv, TypeOK
      <4> QED
        BY <4>1, <4>2
    <3>7. CountsExact' /\ LimitsRespected'
      BY <2>1, <2>3, PopKeepsCounts DEF IInv
    <3> QED
      BY <3>3, <3>4, <3>5, <3>6, <3>7 DEF IInv
  <2> QED
    BY <1>3, <2>2, <2>3 DEF StopPop
<1>4. CASE StopSetUnregistered(a)
  <2>1. /\ popped[a] \in Conns /\ Owner[popped[a]] = a /\ popped[a] \notin connList[a]
        /\ life[popped[a]] \notin NotStarted
    BY <1>4 DEF StopSetUnregistered, IInv, PoppedOK, Holding
  <2>2. LifeOK'
    BY <1>4, <2>1 DEF StopSetUnregistered, IInv, TypeOK, LifeOK
  <2>3. PoppedOK'
    BY <1>4 DEF StopSetUnregistered, IInv, TypeOK, PoppedOK, Holding, listVars
  <2>4. ListedIsLive'
    BY <1>4, <2>1 DEF StopSetUnregistered, IInv, TypeOK, ListsTypeOK, ListedIsLive, listVars
  <2>5. NoSilentDetach'
    BY <1>4 DEF StopSetUnregistered, IInv, NoSilentDetach, listVars
  <2> QED
    BY <1>1, <1>4, <2>2, <2>3, <2>4, <2>5 DEF StopSetUnregistered, Shape
<1>5. CASE StopSignal(a)
  <2>1. popped[a] \in Conns
    BY <1>5 DEF StopSignal, IInv, PoppedOK, Holding
  <2>2. LifeOK'
    BY <1>5 DEF StopSignal, IInv, LifeOK
  <2>3. PoppedOK'
    BY <1>5 DEF StopSignal, IInv, TypeOK, PoppedOK, Holding, listVars
  <2>4. ListedIsLive'
    BY <1>5 DEF StopSignal, IInv, ListedIsLive, listVars
  <2>5. NoSilentDetach'
    BY <1>5, <2>1, OwnerAssumption DEF StopSignal, IInv, TypeOK, NoSilentDetach, listVars
  <2> QED
    BY <1>1, <1>5, <2>2, <2>3, <2>4, <2>5 DEF StopSignal, Shape
<1> QED
  BY <1>2, <1>3, <1>4, <1>5 DEF AcceptorStep

\* Every step preserves the inductive invariant.
LEMMA InvStep == IInv /\ [Next]_vars => IInv'
<1> SUFFICES ASSUME IInv, [Next]_vars PROVE IInv'
  OBVIOUS
<1>0. TypeOK'
  BY TypeStep DEF IInv
<1>1. CASE \E c \in Conns : ConnStep(c)
  BY <1>0, <1>1, ConnKeepsInv
<1>2. CASE \E a \in Acceptors : AcceptorStep(a)
  BY <1>0, <1>2, StopKeepsInv
<1>3. CASE Stop \/ UNCHANGED vars
  <2>1. UNCHANGED <<listVars, connVars, spc, popped, doubleRemoved>>
    BY <1>3 DEF Stop, vars, acceptorVars
  <2>2. LifeOK' /\ PoppedOK'
    BY <2>1 DEF listVars, connVars, IInv, LifeOK, PoppedOK
  <2>3. ListedIsLive' /\ NoSilentDetach'
    BY <2>1 DEF listVars, connVars, IInv, ListedIsLive, NoSilentDetach
  <2>4. CountsExact' /\ LimitsRespected'
    BY <2>1 DEF listVars, IInv, CountsExact, LimitsRespected, Registered
  <2> QED
    BY <1>0, <2>2, <2>3, <2>4 DEF IInv
<1> QED
  BY <1>1, <1>2, <1>3 DEF Next, Running, Terminated

LEMMA InitInv == Init => IInv
<1> SUFFICES ASSUME Init PROVE IInv
  OBVIOUS
<1> USE DEF Init, ListsInit
<1>1. TypeOK
  <2>1. ListsTypeOK
    BY LimitAssumption DEF ListsTypeOK, SizeT
  <2>2. life \in [Conns -> Life]
    BY DEF Life
  <2> QED
    BY <2>1, <2>2 DEF TypeOK, UnregisterPC, StopPC
<1>2. LifeOK
  BY <1>1 DEF LifeOK, TypeOK
<1>3. PoppedOK
  BY DEF PoppedOK, Holding
<1>4. ListedIsLive /\ NoSilentDetach
  BY DEF ListedIsLive, NoSilentDetach
<1>5. Registered = {} /\ Cardinality({}) = 0
  BY FS_EmptySet DEF Registered
<1>6. CountsExact /\ LimitsRespected
  <2>1. \A a \in Acceptors : connCount[a] = 0 /\ connList[a] = {} /\ MaxConn[a] \in Nat
    BY LimitAssumption
  <2> QED
    BY <1>5, <2>1, LimitAssumption DEF CountsExact, LimitsRespected
<1> QED
  BY <1>1, <1>2, <1>3, <1>4, <1>6 DEF IInv

LEMMA Invariance == Spec => []IInv
BY InitInv, InvStep, PTL DEF Spec

-----------------------------------------------------------------------------
(* What follows for the server *)

\* The server's state stays within its types; no counter leaves std::size_t.
THEOREM TypeCorrect == Spec => []TypeOK
<1>1. IInv => TypeOK
  BY DEF IInv
<1> QED
  BY Invariance, <1>1, PTL

\* The counters that push() tests are the numbers of registered connections,
\* unless unregister() has hit a connection handleStop() had popped.
THEOREM ExactCounts == Spec => []CountsExact
<1>1. IInv => CountsExact
  BY DEF IInv
<1> QED
  BY Invariance, <1>1, PTL

\* Neither an acceptor nor the server ever serves more connections than its
\* limit, under the same proviso.
THEOREM Limits == Spec => []LimitsRespected
<1>1. IInv => LimitsRespected
  BY DEF IInv
<1> QED
  BY Invariance, <1>1, PTL

\* No slot is held by a connection that could not give it back.
THEOREM NoLeakedSlot == Spec => []ListedIsLive
<1>1. IInv => ListedIsLive
  BY DEF IInv
<1> QED
  BY Invariance, <1>1, PTL

\* handleStop() tells every connection it takes out of its list.
THEOREM ToldToStop == Spec => []NoSilentDetach
<1>1. IInv => NoSilentDetach
  BY DEF IInv
<1> QED
  BY Invariance, <1>1, PTL


===============================================================================
