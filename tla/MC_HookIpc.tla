------------------------------ MODULE MC_HookIpc ------------------------------
(* Instance of HookIpc: one permit, one saturation permit, and a hook more   *)
(* than both.  The deadlines keep the order and the margins of the code's.   *)
EXTENDS HookIpc, TLC

CONSTANTS h1, h2, h3

Symmetry == Permutations(Hooks)
=============================================================================
