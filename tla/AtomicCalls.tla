----------------------------- MODULE AtomicCalls -----------------------------
(***************************************************************************)
(* What a transaction function promises its caller: the statements of a    *)
(* call become durable all at once, before the call returns, and only if   *)
(* it returns successfully; a call that fails leaves nothing behind.       *)
(***************************************************************************)
CONSTANT Calls

VARIABLES
    status,  \* progress of each call as its caller sees it
    wrote,   \* calls that executed at least one statement
    durable  \* calls whose statements are committed

vars == <<status, wrote, durable>>

Init ==
    /\ status = [c \in Calls |-> "idle"]
    /\ wrote = {}
    /\ durable = {}

Call(c) ==
    /\ status[c] = "idle"
    /\ status' = [status EXCEPT ![c] = "running"]
    /\ UNCHANGED <<wrote, durable>>

Write(c) ==
    /\ status[c] = "running"
    /\ wrote' = wrote \cup {c}
    /\ UNCHANGED <<status, durable>>

Commit(c) ==
    /\ status[c] = "running"
    /\ durable' = durable \cup ({c} \cap wrote)
    /\ status' = [status EXCEPT ![c] = "committed"]
    /\ UNCHANGED wrote

Return(c) ==
    /\ \/ status[c] = "committed" /\ status' = [status EXCEPT ![c] = "ok"]
       \/ status[c] \in {"idle", "running"} /\ status' = [status EXCEPT ![c] = "failed"]
    /\ UNCHANGED <<wrote, durable>>

Next == \E c \in Calls : Call(c) \/ Write(c) \/ Commit(c) \/ Return(c)

Spec == Init /\ [][Next]_vars
=============================================================================
