------------------------ MODULE MCDatabaseTransaction ------------------------
(* Instances of DatabaseTransaction for TLC: more calls than connections. *)
EXTENDS DatabaseTransaction

CONSTANTS c1, c2, c3, k1, k2
=============================================================================
