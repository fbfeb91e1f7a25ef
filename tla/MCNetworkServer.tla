--------------------------- MODULE MCNetworkServer ---------------------------
(* Instances of NetworkServer for TLC. *)
EXTENDS NetworkServer, TLC

CONSTANTS plain, ssl, p1, p2, p3, s1, s2

\* Three connections of a plain acceptor limited to two, two of an SSL
\* acceptor with no limit of its own: both limits are reached.
MCConns == {p1, p2, p3, s1, s2}
MCOwner == [c \in MCConns |-> IF c \in {p1, p2, p3} THEN plain ELSE ssl]
MCMaxConn == [a \in {plain, ssl} |-> IF a = plain THEN 2 ELSE 0]

\* Two plain connections and an SSL one, for the liveness and the violation runs.
MCSmallConns == {p1, p2, s1}
MCSmallOwner == [c \in MCSmallConns |-> IF c \in {p1, p2} THEN plain ELSE ssl]

Symmetry == Permutations({p1, p2, p3}) \cup Permutations({s1, s2})
=============================================================================
