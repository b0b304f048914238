---------------------------- MODULE ParityMirror ----------------------------
(***************************************************************************)
(* What a driver promises about an output's level flop, which can be       *)
(* neither read nor loaded: a software belief that changes with the flop,  *)
(* when somebody calibrates it, and when a load starts from scratch, and   *)
(* at no other time, or else it is recorded as wrong.  LevelFlop (Linux)   *)
(* and WinOutput (Windows) implement it; their belief includes the toggles *)
(* that are still to be folded.                                            *)
(***************************************************************************)
VARIABLES
    level,  \* the flop
    belief, \* the level the software believes in
    wrong   \* do the two differ, since a load or a toggle that was missed?

vars == <<level, belief, wrong>>

Init ==
    /\ level \in BOOLEAN /\ belief \in BOOLEAN
    /\ wrong = (level # belief)

\* The hardware generates an edge.
Toggle == level' = ~level /\ belief' = ~belief /\ UNCHANGED wrong

\* A user who has looked at the line says that the belief is wrong; or the
\* driver gives up counting where a toggle was due, and has missed it.
Calibrate == belief' = ~belief /\ wrong' = ~wrong /\ UNCHANGED level

\* The driver is loaded and assumes a low flop.
Load == belief' = FALSE /\ wrong' = level /\ UNCHANGED level

Next == Toggle \/ Calibrate \/ Load

Spec == Init /\ [][Next]_vars

-----------------------------------------------------------------------------
\* What an implementation gains: the belief, which decides the edge that comes
\* next (tgpio_hw_start_output, tgpio_arm_hardware_periodic), is the line's
\* level as long as it is not wrong, and it is known what makes it wrong.
Agreement == belief = (level # wrong)
=============================================================================
