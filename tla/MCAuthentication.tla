-------------------------- MODULE MCAuthentication --------------------------
(* Instances of Authentication for TLC. *)
EXTENDS Authentication

Unit(i, k) == [id |-> i, kind |-> k]

\* No unit, one, two of which a name may be in each, and units that give slices for
\* mechanisms of others or none for their own.
MCConfigurations ==
    {<<>>,
     <<Unit("A", "textfile")>>,
     <<Unit("A", "textfile"), Unit("B", "textfile")>>,
     <<Unit("A", "database"), Unit("B", "textfile")>>,
     <<Unit("A", "pam"), Unit("B", "textfile")>>,
     <<Unit("A", "textfile"), Unit("B", "sasl")>>,
     <<Unit("A", "sasl"), Unit("B", "textfile")>>}
=============================================================================
