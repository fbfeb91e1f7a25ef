--------------------------- MODULE ConnectionLists ---------------------------
(***************************************************************************)
(* The registers of active connections of the network server               *)
(* (src/src/connection.hpp): every acceptor has a SocketConnectionList     *)
(* with its own limit, and all of them share one GlobalConnectionList that *)
(* only counts.  Every operation holds the mutex of the socket list and,   *)
(* inside it, the mutex of the global list, so each one is atomic here.    *)
(*                                                                         *)
(* std::list is abstracted to a set: no reader depends on the order in     *)
(* which pop() takes connections.  std::size_t counters wrap at SizeRange, *)
(* which stands for 2^64 and is small in the model-checked instances.      *)
(***************************************************************************)
EXTENDS Integers, FiniteSets

CONSTANTS
    Acceptors,  \* the plain and the SSL acceptors of the server
    Conns,      \* connection objects the server may create (bounds the model)
    Owner,      \* Owner[c]: the acceptor that creates connection c
    MaxConn,    \* MaxConn[a]: limit of acceptor a, 0 for no limit
    GlobalMax,  \* limit of the whole server, 0 for no limit
    SizeRange   \* number of values of std::size_t

ASSUME ConnsAssumption == IsFiniteSet(Conns) /\ Cardinality(Conns) < SizeRange
ASSUME OwnerAssumption == Owner \in [Conns -> Acceptors]
ASSUME LimitAssumption == /\ MaxConn \in [Acceptors -> Nat]
                          /\ GlobalMax \in Nat
                          /\ SizeRange \in Nat \ {0}

VARIABLES
    connList,    \* SocketConnectionList::m_connList of every acceptor
    connCount,   \* SocketConnectionList::m_connCount of every acceptor
    globalCount  \* GlobalConnectionList::m_connCount

listVars == <<connList, connCount, globalCount>>

SizeT == 0 .. SizeRange - 1

ListsTypeOK ==
    /\ connList \in [Acceptors -> SUBSET Conns]
    /\ connCount \in [Acceptors -> SizeT]
    /\ globalCount \in SizeT

ListsInit ==
    /\ connList = [a \in Acceptors |-> {}]
    /\ connCount = [a \in Acceptors |-> 0]
    /\ globalCount = 0

\* Faulty variant: a signed counter, which does not wrap.
Dec_signed(n) == n - 1

\* m_connCount++ and m_connCount-- on an unsigned counter
Inc(n) == (n + 1) % SizeRange
Dec(n) == (n - 1) % SizeRange

\* All connections registered anywhere: what the global counter counts.
Registered == UNION {connList[a] : a \in Acceptors}

-----------------------------------------------------------------------------

\* Faulty variant: off by one at the limit.
BelowLimit_offByOne(count, max) == max = 0 \/ count <= max

BelowLimit(count, max) == max = 0 \/ count < max

\* The two conditions of push(): its own limit, then incConnCount()'s.
HasRoom(a) ==
    /\ BelowLimit(connCount[a], MaxConn[a])
    /\ BelowLimit(globalCount, GlobalMax)

\* push() returning true
Push(a, c) ==
    /\ HasRoom(a)
    /\ connList' = [connList EXCEPT ![a] = @ \cup {c}]
    /\ connCount' = [connCount EXCEPT ![a] = Inc(@)]
    /\ globalCount' = Inc(globalCount)

\* Faulty variant: decConnCount() of the global list is forgotten.
Remove_socketOnly(a, c) ==
    /\ connList' = [connList EXCEPT ![a] = @ \ {c}]
    /\ connCount' = [connCount EXCEPT ![a] = IF connList[a] = {} THEN @ ELSE Dec(@)]
    /\ UNCHANGED globalCount

\* remove(): an empty list is left alone, otherwise the counters go down
\* whether or not the connection was still in the list.
Remove(a, c) ==
    \/ /\ connList[a] = {}
       /\ UNCHANGED listVars
    \/ /\ connList[a] # {}
       /\ connList' = [connList EXCEPT ![a] = @ \ {c}]
       /\ connCount' = [connCount EXCEPT ![a] = Dec(@)]
       /\ globalCount' = Dec(globalCount)

\* pop() returning a connection
Pop(a, c) ==
    /\ c \in connList[a]
    /\ connList' = [connList EXCEPT ![a] = @ \ {c}]
    /\ connCount' = [connCount EXCEPT ![a] = Dec(@)]
    /\ globalCount' = Dec(globalCount)

=============================================================================
