--------------------------- MODULE MCSupervision ---------------------------
(***************************************************************************)
(* Waveforms for the runs of Supervision.                                  *)
(***************************************************************************)
EXTENDS Supervision

Even == [high |-> 2, low |-> 2]
Uneven == [high |-> 2, low |-> 9]

EvenAndUneven == {Even, Uneven}
=============================================================================
