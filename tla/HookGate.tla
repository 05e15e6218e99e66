------------------------------- MODULE HookGate -------------------------------
(***************************************************************************)
(* What the bridge and its hook client together promise agy: a hook comes  *)
(* back once, with a verdict.  It is an allowance only if the bridge       *)
(* decided so, and an allowance that was decided is not turned into a      *)
(* denial, unless the line to the bridge broke.  HookIpc implements it.    *)
(***************************************************************************)
CONSTANT Hooks

VARIABLES
    asked,      \* the hook runs, or has run
    decided,    \* what the bridge answers it: "none", "allow" or "deny"
    broken,     \* the adapter is gone
    verdict     \* what agy is told; "killed" if the hook was killed

vars == <<asked, decided, broken, verdict>>

Init ==
    /\ asked = [h \in Hooks |-> FALSE]
    /\ decided = [h \in Hooks |-> "none"]
    /\ broken = FALSE
    /\ verdict = [h \in Hooks |-> "none"]

Ask(h) ==
    /\ ~asked[h]
    /\ asked' = [asked EXCEPT ![h] = TRUE]
    /\ UNCHANGED <<decided, broken, verdict>>

(* A call that names nothing to decide on is denied where it is made. *)
Reject(h) ==
    /\ ~asked[h]
    /\ asked' = [asked EXCEPT ![h] = TRUE]
    /\ verdict' = [verdict EXCEPT ![h] = "deny"]
    /\ UNCHANGED <<decided, broken>>

Decide(h, d) ==
    /\ asked[h] /\ ~broken
    /\ decided[h] = "none"
    /\ decided' = [decided EXCEPT ![h] = d]
    /\ UNCHANGED <<asked, broken, verdict>>

Settle(h, v) ==
    /\ asked[h]
    /\ verdict[h] = "none"
    /\ v = "allow" => decided[h] = "allow"
    /\ v = "deny" => decided[h] # "allow" \/ broken
    /\ verdict' = [verdict EXCEPT ![h] = v]
    /\ UNCHANGED <<asked, decided, broken>>

Break ==
    /\ ~broken
    /\ broken' = TRUE
    /\ UNCHANGED <<asked, decided, verdict>>

Next ==
    \/ Break
    \/ \E h \in Hooks :
         \/ Ask(h) \/ Reject(h)
         \/ \E d \in {"allow", "deny"} : Decide(h, d)
         \/ \E v \in {"allow", "deny", "killed"} : Settle(h, v)

Spec == Init /\ [][Next]_vars
=============================================================================
