-------------------------- MODULE ObjectPool_proofs --------------------------
(***************************************************************************)
(* Proofs about module ObjectPool for any number of threads and objects:   *)
(* objects are conserved, and one notify_one() per add() loses no wakeup.  *)
(***************************************************************************)
EXTENDS ObjectPool, FiniteSetTheorems, TLAPS

LEMMA TypeStep == TypeOK /\ [Next]_vars => TypeOK'
<1> SUFFICES ASSUME TypeOK, [Next]_vars PROVE TypeOK'
  OBVIOUS
<1> USE DEF TypeOK, PC
<1>1. CASE UNCHANGED vars
  BY <1>1 DEF vars
<1>2. ASSUME NEW t \in Threads, Call(t) \/ Recheck(t) \/ SpuriousWakeup(t) \/ Timeout(t)
      PROVE  TypeOK'
  BY <1>2 DEF Call, Recheck, SpuriousWakeup, Timeout
<1>3. ASSUME NEW t \in Threads, TakeOrWait(t) PROVE TypeOK'
  BY <1>3 DEF TakeOrWait
<1>4. ASSUME NEW t \in Threads, NEW o \in Objects, Add(t, o) PROVE TypeOK'
  BY <1>4 DEF Add, Waiting
<1> QED
  BY <1>1, <1>2, <1>3, <1>4 DEF Next, GetStep

LEMMA InitType == Init => TypeOK
BY DEF Init, TypeOK, PC

\* Every reachable state of the pool has the right types.
THEOREM TypeCorrect == Spec => []TypeOK
BY InitType, TypeStep, PTL DEF Spec

-----------------------------------------------------------------------------
(* Conservation *)

LEMMA ConservationStep == TypeOK /\ Conservation /\ [Next]_vars => Conservation'
<1> SUFFICES ASSUME TypeOK, Conservation, [Next]_vars PROVE Conservation'
  OBVIOUS
<1>1. CASE UNCHANGED <<avail, held>>
  BY <1>1 DEF Conservation
<1>2. ASSUME NEW t \in Threads, NEW o \in avail, avail' = avail \ {o},
             held' = [held EXCEPT ![t] = @ \cup {o}]
      PROVE  Conservation'
  BY <1>2 DEF Conservation, TypeOK
<1>3. ASSUME NEW t \in Threads, NEW o \in Objects, Add(t, o) PROVE Conservation'
  BY <1>3 DEF Add, Conservation, TypeOK
<1>4. ASSUME NEW t \in Threads, TakeOrWait(t) PROVE Conservation'
  BY <1>1, <1>2, <1>4 DEF TakeOrWait
<1>5. ASSUME NEW t \in Threads, Call(t) \/ Recheck(t) \/ SpuriousWakeup(t) \/ Timeout(t)
      PROVE  Conservation'
  BY <1>1, <1>5 DEF Call, Recheck, SpuriousWakeup, Timeout
<1> QED
  BY <1>1, <1>3, <1>4, <1>5 DEF Next, GetStep, vars

\* get() and add() neither lose nor duplicate an object.
THEOREM ObjectsConserved == Spec => []Conservation
<1>1. Init => Conservation
  BY DEF Init, Conservation
<1> QED
  BY <1>1, TypeCorrect, ConservationStep, PTL DEF Spec

-----------------------------------------------------------------------------
(* No lost wakeup *)

LEMMA ArrivingFinite ==
    ASSUME NEW S \in SUBSET Threads PROVE IsFiniteSet(S) /\ Cardinality(S) \in Nat
BY ThreadsAssumption, FS_Subset, FS_CardinalityType

LEMMA AvailFinite ==
    ASSUME NEW S \in SUBSET Objects PROVE IsFiniteSet(S) /\ Cardinality(S) \in Nat
BY ObjectsAssumption, FS_Subset, FS_CardinalityType

\* One more thread arriving balances one more object, and a thread that
\* leaves the arriving ones does so with an object or because there is none.
LEMMA WakeupStep == TypeOK /\ NoLostWakeup /\ [Next]_vars => NoLostWakeup'
<1>t. [Next]_vars => timed' = timed
  BY DEF Next, GetStep, Call, TakeOrWait, Recheck, SpuriousWakeup, Timeout, Add, vars
<1> SUFFICES ASSUME TypeOK, NoLostWakeup, [Next]_vars, ~timed, Waiting' # {}
             PROVE  Cardinality(avail') <= Cardinality(Arriving')
  BY <1>t DEF NoLostWakeup
<1>0. TypeOK'
  BY TypeStep
<1>1. /\ Arriving \in SUBSET Threads /\ Arriving' \in SUBSET Threads
      /\ Waiting \in SUBSET Threads
      /\ avail \in SUBSET Objects /\ avail' \in SUBSET Objects
  BY <1>0 DEF Arriving, Waiting, TypeOK
<1>2. /\ IsFiniteSet(Arriving) /\ Cardinality(Arriving) \in Nat
      /\ IsFiniteSet(Arriving') /\ Cardinality(Arriving') \in Nat
      /\ IsFiniteSet(avail) /\ Cardinality(avail) \in Nat
  BY <1>1, ArrivingFinite, AvailFinite
<1>3. CASE avail' = {}
  <2>1. Cardinality(avail') = 0
    BY <1>3, FS_EmptySet
  <2> QED
    BY <1>2, <2>1
<1>4. CASE UNCHANGED avail /\ Arriving \subseteq Arriving' /\ Waiting # {}
  <2>1. Cardinality(Arriving) <= Cardinality(Arriving')
    BY <1>2, <1>4, FS_Subset
  <2> QED
    BY <1>2, <1>4, <2>1 DEF NoLostWakeup
<1>5. CASE UNCHANGED vars
  BY <1>4, <1>5 DEF vars, Arriving, Waiting
<1>6. ASSUME NEW t \in Threads, Call(t) \/ Recheck(t) \/ SpuriousWakeup(t)
      PROVE  Cardinality(avail') <= Cardinality(Arriving')
  <2>1. UNCHANGED avail /\ (avail # {} => Arriving \subseteq Arriving' /\ Waiting # {})
    BY <1>6 DEF Call, Recheck, SpuriousWakeup, Arriving, Waiting, TypeOK
  <2> QED
    BY <1>3, <1>4, <2>1
<1>7. ASSUME NEW t \in Threads, TakeOrWait(t)
      PROVE  Cardinality(avail') <= Cardinality(Arriving')
  <2>1. CASE avail = {}
    BY <1>3, <1>7, <2>1 DEF TakeOrWait
  <2>2. CASE avail # {}
    <3>1. PICK o \in avail : avail' = avail \ {o}
      BY <1>7, <2>2 DEF TakeOrWait
    <3>2. Arriving' = Arriving \ {t} /\ t \in Arriving /\ Waiting # {}
      BY <1>7, <2>2 DEF TakeOrWait, Arriving, Waiting, TypeOK
    <3>3. Cardinality(avail') = Cardinality(avail) - 1
      BY <1>2, <3>1, FS_RemoveElement
    <3>4. Cardinality(Arriving') = Cardinality(Arriving) - 1
      BY <1>2, <3>2, FS_RemoveElement
    <3> QED
      BY <1>2, <3>2, <3>3, <3>4 DEF NoLostWakeup
  <2> QED
    BY <2>1, <2>2
<1>8. ASSUME NEW t \in Threads, NEW o \in Objects, Add(t, o)
      PROVE  Cardinality(avail') <= Cardinality(Arriving')
  <2>1. PICK w \in Waiting : pc' = [pc EXCEPT ![w] = "woken"]
    BY <1>8 DEF Add, Waiting
  <2>2. Arriving' = Arriving \cup {w} /\ w \notin Arriving
    BY <1>1, <2>1 DEF Arriving, Waiting, TypeOK
  <2>3. Cardinality(Arriving') = Cardinality(Arriving) + 1
    BY <1>2, <2>2, FS_AddElement
  <2>4. Cardinality(avail') <= Cardinality(avail) + 1
    <3>1. CASE o \in avail
      <4>1. avail' = avail
        BY <1>8, <3>1 DEF Add
      <4> QED
        BY <1>2, <4>1
    <3>2. CASE o \notin avail
      <4>1. avail' = avail \cup {o}
        BY <1>8 DEF Add
      <4>2. Cardinality(avail') = Cardinality(avail) + 1
        BY <1>2, <3>2, <4>1, FS_AddElement
      <4> QED
        BY <1>2, <4>2
    <3> QED
      BY <3>1, <3>2
  <2>5. avail' \in SUBSET Objects /\ Cardinality(avail') \in Nat
    BY <1>1, AvailFinite
  <2> QED
    BY <1>2, <2>1, <2>3, <2>4, <2>5 DEF NoLostWakeup
<1>9. ASSUME NEW t \in Threads, Timeout(t) PROVE FALSE
  BY <1>9 DEF Timeout
<1> QED
  BY <1>5, <1>6, <1>7, <1>8, <1>9 DEF Next, GetStep

\* In an untimed pool no object waits for a thread that was not woken.
THEOREM Wakeups == Spec => []NoLostWakeup
<1>1. Init => NoLostWakeup
  BY DEF Init, NoLostWakeup, Waiting
<1> QED
  BY <1>1, TypeCorrect, WakeupStep, PTL DEF Spec

=============================================================================
