----------------------------- MODULE MCObjectPool -----------------------------
(* Instances of ObjectPool for TLC: more threads than objects. *)
EXTENDS ObjectPool

CONSTANTS t1, t2, t3, t4, o1, o2
=============================================================================
