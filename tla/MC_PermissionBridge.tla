------------------------ MODULE MC_PermissionBridge ------------------------
(***************************************************************************)
(* Instances of PermissionBridge for TLC.                                  *)
(*                                                                         *)
(* "ls" and "lse" share the program key safe:ls but not their fingerprint, *)
(* and "lse" lists outside the workspace; "read" is auto-allowed while     *)
(* contained, "peek" is the same tool aimed outside the workspace, "poke"  *)
(* names the hook directory and both of its answers live under one key.    *)
(***************************************************************************)
EXTENDS PermissionBridge, TLC

CONSTANTS h1, h2, h3, A, B, c1, c2

Scope == [ls |-> "safe:ls", lse |-> "safe:ls",
          read |-> "tool:read", peek |-> "tool:read", poke |-> "fp:poke"]
Fingerprint == [ls |-> "fp:ls", lse |-> "fp:lse",
                read |-> "fp:read", peek |-> "fp:peek", poke |-> "fp:poke"]

MCAllowKey == [c \in Calls |-> Scope[c]]
MCFingerprintKey == [c \in Calls |-> Fingerprint[c]]
MCKeys == {Scope[c] : c \in Calls} \cup {Fingerprint[c] : c \in Calls}
MCAutoAllow == Calls \cap {"read", "peek"}
MCEscapes == Calls \cap {"peek", "lse"}
MCHookRootCalls == Calls \cap {"poke"}

Symmetry == Permutations(Hooks) \cup Permutations(Sessions) \cup Permutations(Convs)
=============================================================================
