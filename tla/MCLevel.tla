------------------------------ MODULE MCLevel ------------------------------
(***************************************************************************)
(* Waveforms for the runs of LevelFlop.                                    *)
(***************************************************************************)
EXTENDS LevelFlop

\* Halves of four units; the work stalls for up to one between accesses.
Steady == [high |-> 4, low |-> 4, trims |-> {}, stall |-> 1]

\* The same, trimmed by a servo in accesses that nothing comes between.
Trimmed == [high |-> 4, low |-> 4, trims |-> {1}, stall |-> 0]

\* An asymmetric waveform.
Uneven == [high |-> 4, low |-> 5, trims |-> {}, stall |-> 0]

\* Halves so short that an edge is always imminent to an inversion.
Short == [high |-> 2, low |-> 2, trims |-> {}, stall |-> 1]

AllShapes == {Steady, Trimmed, Uneven, Short}
=============================================================================
