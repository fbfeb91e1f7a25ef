---------------------------- MODULE MCConnection ----------------------------
(* Connection has no constants; its state space is finite by itself. *)
EXTENDS Connection
=============================================================================
