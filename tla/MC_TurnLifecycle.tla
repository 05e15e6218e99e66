--------------------------- MODULE MC_TurnLifecycle ---------------------------
(* TurnLifecycle is small enough to be checked as it is: this module only    *)
(* names what its configurations instantiate.                                *)
EXTENDS TurnLifecycle
=============================================================================
