---------------------------- MODULE MC_SessionStore ----------------------------
(* Instance of SessionStore: two processes over one file, each with a map    *)
(* smaller than the ids it is asked for, and the file no larger.             *)
EXTENDS SessionStore, TLC

CONSTANTS p1, p2, a, b, c

(* The answers and the queue of forgotten ids are read by no action on the *)
(* map or the file, and those of p2 are p1's under another name.  The      *)
(* scratch file is read by nobody but the process that writes it, to which *)
(* it is not whole.                                                        *)
View == <<live, binding, op, flock, store, issued, forget[p1], victims[p1], answers[p1]>>

Symmetry == Permutations(Ids)
=============================================================================
