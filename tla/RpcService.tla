------------------------------ MODULE RpcService ------------------------------
(***************************************************************************)
(* What a JSON-RPC server on stdio promises its client: a request is       *)
(* answered at most once and only after it was sent, and the server does   *)
(* not go away while one is open.  Dispatcher implements it.               *)
(***************************************************************************)
CONSTANT Requests

VARIABLES
    status,     \* of each request: "unsent", "open" or "answered"
    closed,     \* the client will send no more
    exited      \* the server is gone

vars == <<status, closed, exited>>

Init ==
    /\ status = [r \in Requests |-> "unsent"]
    /\ closed = FALSE
    /\ exited = FALSE

Send(r) ==
    /\ ~closed
    /\ status[r] = "unsent"
    /\ status' = [status EXCEPT ![r] = "open"]
    /\ UNCHANGED <<closed, exited>>

Answer(r) ==
    /\ ~exited
    /\ status[r] = "open"
    /\ status' = [status EXCEPT ![r] = "answered"]
    /\ UNCHANGED <<closed, exited>>

Close ==
    /\ ~closed
    /\ closed' = TRUE
    /\ UNCHANGED <<status, exited>>

Exit ==
    /\ closed /\ ~exited
    /\ \A r \in Requests : status[r] # "open"
    /\ exited' = TRUE
    /\ UNCHANGED <<status, closed>>

Next == Close \/ Exit \/ \E r \in Requests : Send(r) \/ Answer(r)

Spec == Init /\ [][Next]_vars
=============================================================================
