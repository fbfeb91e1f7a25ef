------------------------------ MODULE ObjectPool ------------------------------
(***************************************************************************)
(* The pool that hands out database connections to the threads of the      *)
(* server: a list, a mutex and a condition variable                        *)
(* (src/include/system/objectPool.hpp).                                    *)
(*                                                                         *)
(* Every critical section of the mutex is one step.  get() is several: it  *)
(* tests the list, waits, tests again when woken, and then LEAVES the      *)
(* critical section and starts over, so that the object it was woken for   *)
(* may be gone when it arrives.  The order of the list is abstracted: it   *)
(* is a set, from which get() takes any element.                           *)
(***************************************************************************)
EXTENDS Naturals, FiniteSets

CONSTANTS Threads,  \* the threads that use the pool
          Objects   \* the pooled objects

ASSUME ThreadsAssumption == IsFiniteSet(Threads)
ASSUME ObjectsAssumption == IsFiniteSet(Objects)

VARIABLES
    avail,  \* m_availList
    held,   \* held[t]: the objects get() has returned to thread t
    pc,     \* where each thread is in get()
    timed   \* m_timeout is not 0: set before the pool is used

vars == <<avail, held, pc, timed>>

PC == {"idle",   \* outside get(), perhaps holding an object
       "get",    \* at the head of the outer loop, about to lock the mutex
       "wait",   \* blocked on the condition variable
       "woken"}  \* notified, about to lock the mutex again

\* Type invariant of the pool.
TypeOK ==
    /\ avail \subseteq Objects
    /\ held \in [Threads -> SUBSET Objects]
    /\ pc \in [Threads -> PC]
    /\ timed \in BOOLEAN

Waiting == {t \in Threads : pc[t] = "wait"}
Arriving == {t \in Threads : pc[t] \in {"get", "woken"}}

\* The database unit has filled the pool.
Init ==
    /\ avail = Objects
    /\ held = [t \in Threads |-> {}]
    /\ pc = [t \in Threads |-> "idle"]
    /\ timed \in BOOLEAN

-----------------------------------------------------------------------------

\* A thread that holds nothing calls get().
Call(t) ==
    /\ pc[t] = "idle"
    /\ held[t] = {}
    /\ pc' = [pc EXCEPT ![t] = "get"]
    /\ UNCHANGED <<avail, held, timed>>

\* The head of get()'s outer loop: take an object, or begin to wait (with a
\* new deadline when the pool is timed).
TakeOrWait(t) ==
    /\ pc[t] = "get"
    /\ \/ \E o \in avail :
             /\ avail' = avail \ {o}
             /\ held' = [held EXCEPT ![t] = @ \cup {o}]
             /\ pc' = [pc EXCEPT ![t] = "idle"]
       \/ /\ avail = {}
          /\ pc' = [pc EXCEPT ![t] = "wait"]
          /\ UNCHANGED <<avail, held>>
    /\ UNCHANGED timed

\* Faulty variant: `if' instead of the inner loop and no test afterwards;
\* back() of an empty vector is garbage.
Recheck_trustsSignal(t) ==
    LET o == IF avail = {} THEN "garbage" ELSE CHOOSE x \in avail : TRUE
    IN  /\ pc[t] = "woken"
        /\ avail' = avail \ {o}
        /\ held' = [held EXCEPT ![t] = @ \cup {o}]
        /\ pc' = [pc EXCEPT ![t] = "idle"]
        /\ UNCHANGED timed

\* The inner loop of get(): wait again, or start the outer loop over.
Recheck(t) ==
    /\ pc[t] = "woken"
    /\ pc' = [pc EXCEPT ![t] = IF avail = {} THEN "wait" ELSE "get"]
    /\ UNCHANGED <<avail, held, timed>>

\* A condition variable may wake a thread for no reason.
SpuriousWakeup(t) ==
    /\ pc[t] = "wait"
    /\ pc' = [pc EXCEPT ![t] = "woken"]
    /\ UNCHANGED <<avail, held, timed>>

\* timed_wait() returns false and get() throws ObjectPoolTimeout, whether or
\* not the list is empty by then.  A wait that times out may consume a
\* notification directed at it.
Timeout(t) ==
    /\ timed
    /\ pc[t] \in {"wait", "woken"}
    /\ pc' = [pc EXCEPT ![t] = "idle"]
    /\ UNCHANGED <<avail, held, timed>>

\* Faulty variant: notify only when the list becomes non-empty.
Add_notifiesFirst(t, o) ==
    /\ pc[t] = "idle"
    /\ o \in held[t]
    /\ held' = [held EXCEPT ![t] = @ \ {o}]
    /\ avail' = avail \cup {o}
    /\ \/ /\ avail = {}
          /\ \E w \in Waiting : pc' = [pc EXCEPT ![w] = "woken"]
       \/ /\ avail # {} \/ Waiting = {}
          /\ UNCHANGED pc
    /\ UNCHANGED timed

\* add(), also as the deleter of the shared pointer (static_add): the object
\* goes back to the list and one waiting thread is notified.
Add(t, o) ==
    /\ pc[t] = "idle"
    /\ o \in held[t]
    /\ held' = [held EXCEPT ![t] = @ \ {o}]
    /\ avail' = avail \cup {o}
    /\ \/ \E w \in Waiting : pc' = [pc EXCEPT ![w] = "woken"]
       \/ /\ Waiting = {}
          /\ UNCHANGED pc
    /\ UNCHANGED timed

GetStep(t) == TakeOrWait(t) \/ Recheck(t)

Next ==
    \E t \in Threads :
        \/ Call(t)
        \/ GetStep(t)
        \/ SpuriousWakeup(t)
        \/ Timeout(t)
        \/ \E o \in Objects : Add(t, o)

Spec == Init /\ [][Next]_vars

\* Threads run, what they hold they give back, and deadlines pass.
Fairness ==
    \A t \in Threads :
        /\ WF_vars(GetStep(t))
        /\ WF_vars(Timeout(t))
        /\ WF_vars(\E o \in Objects : Add(t, o))

FairSpec == Spec /\ Fairness

-----------------------------------------------------------------------------
(* Properties *)

\* An object is in the list or with exactly one thread: no interleaving of
\* get() and add() loses a connection, hands it out twice or hands out the
\* back() of an empty list (objectPool.hpp:71-101).
Conservation ==
    /\ \A t \in Threads : held[t] \subseteq Objects
    /\ \A o \in Objects :
        /\ o \in avail <=> \A t \in Threads : o \notin held[t]
        /\ \A t, u \in Threads : o \in held[t] \cap held[u] => t = u

\* notify_one() is enough (objectPool.hpp:100): while a thread waits, every
\* object in the list has a thread on its way to take it.  A timed wait may
\* consume the notification it no longer needs, so this is for untimed pools.
NoLostWakeup ==
    ~timed /\ Waiting # {} => Cardinality(avail) <= Cardinality(Arriving)

\* An object does not lie in the list for ever while threads wait for one.
ObjectNotIdle ==
    (avail # {} /\ Waiting # {}) ~> (avail = {} \/ Waiting = {})

=============================================================================
