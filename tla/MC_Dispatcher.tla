----------------------------- MODULE MC_Dispatcher -----------------------------
(* Instances of Dispatcher: two prompts of session A, or one of A and one of *)
(* B; an inline request; cancels, as notifications or as requests.           *)
EXTENDS Dispatcher, TLC

CONSTANTS A, B, a1, a2, b1, new, cancelA, cancelB

MCSessionOf == [m \in Prompts \cup Cancels |-> IF m \in {b1, cancelB} THEN B ELSE A]
(* The prompts of one session are interchangeable. *)
Symmetry == Permutations({p \in Prompts : SessionOf[p] = A})
=============================================================================
