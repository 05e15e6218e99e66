------------------------------ MODULE MC_Shutdown ------------------------------
(* Instances of Shutdown: two handlers may race each other and the main      *)
(* thread.                                                                   *)
EXTENDS Shutdown, TLC

CONSTANTS s1, s2

Symmetry == Permutations(Signals)
=============================================================================
