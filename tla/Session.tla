------------------------------- MODULE Session -------------------------------
(***************************************************************************)
(* What a network session promises to its client and to the server,        *)
(* whatever operations and handlers it is made of (src/src/                *)
(* wolframeHandler.hpp, states of wolframeConnection): the client is       *)
(* greeted before it is served, or turned away at once; a farewell ends    *)
(* the service; the slot in the connection list is given back in the very  *)
(* step that ends the session, and only an ended session disconnects.      *)
(***************************************************************************)
VARIABLES phase,      \* how far the session has come
          listed,     \* the session holds a slot of the connection list
          connected   \* its socket is open

vars == <<phase, listed, connected>>

Phase == {"new", "greeted", "serving", "leaving", "ended"}

Init == phase = "new" /\ listed = TRUE /\ connected = TRUE

\* One step of the conversation; only the last one gives the slot back.
Advance(from, to) ==
    /\ phase \in from
    /\ phase' = to
    /\ listed' = (to # "ended")
    /\ UNCHANGED connected

Greet == Advance({"new"}, "greeted")
TurnAway == Advance({"new"}, "leaving")
Serve == Advance({"greeted"}, "serving")
Leave == Advance({"greeted", "serving"}, "leaving")
End == Advance({"greeted", "serving", "leaving"}, "ended")

Disconnect ==
    /\ phase = "ended"
    /\ connected = TRUE
    /\ connected' = FALSE
    /\ UNCHANGED <<phase, listed>>

Next == Greet \/ TurnAway \/ Serve \/ Leave \/ End \/ Disconnect

Spec == Init /\ [][Next]_vars

=============================================================================
