------------------------------- MODULE MCPhc -------------------------------
(* Instance of PhcClock for TLC: the callers are interchangeable. *)
EXTENDS PhcClock, TLC

Symmetry == Permutations(Callers)
=============================================================================
