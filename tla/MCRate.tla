------------------------------- MODULE MCRate -------------------------------
(***************************************************************************)
(* Steps of the clock for the run of RateRefine: a tick, either way.       *)
(***************************************************************************)
EXTENDS RateRefine

StepsBothWays == {-Cycles, Cycles}
=============================================================================
