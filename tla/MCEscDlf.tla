------------------------------ MODULE MCEscDlf ------------------------------
(* Instances of EscDlf for TLC. *)
EXTENDS EscDlf

CONSTANTS
    MaxRequest,     \* length of the requests
    MaxAnswer       \* length of the answers

\* Every request up to a length with a short answer and every answer with a short
\* request; after it nothing, the start of a command, or what looks like the end
\* of a marker.
MCExchanges ==
    [request : BoundedSeq(Chars, MaxRequest), answer : {<<"x">>}, rest : {<<>>, <<LF, DOT, LF>>}]
        \cup [request : {<<>>, <<LF, DOT>>}, answer : BoundedSeq(Chars, MaxAnswer), rest : {<<"x">>}]
=============================================================================
