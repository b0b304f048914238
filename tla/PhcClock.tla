------------------------------ MODULE PhcClock ------------------------------
(***************************************************************************)
(* The PTP hardware clock of tgpio-ptp-input.c in the clock modes that     *)
(* have a model ("phc" and "art"), and the output that runs on it.         *)
(*                                                                         *)
(* The clock is a mapping from the ART, re-based under phc_seqlock by      *)
(* settime, adjtime and adjfine, or in "art" mode by the refinement work.  *)
(* Each of them samples the ART before it takes the lock, so the samples   *)
(* reach the mapping late and in any order; each then tells the outputs,   *)
(* whose work reads the mapping anew for every conversion it makes.        *)
(*                                                                         *)
(* Times are in the small numbers of ClockMath; a cycle of the ART lasts   *)
(* several nanoseconds.  The output is hardware-periodic and stays wanted: *)
(* requests, stops and the other phases are in OutputControl.              *)
(***************************************************************************)
EXTENDS ClockMath, Sequences

CONSTANTS
    Callers,     \* contexts that may call into the clock at the same time
    Deltas,      \* adjtime offsets, either way
    Times,       \* settime values
    Unit,        \* fractions of a nanosecond in which rates are whole numbers
    MaxArt,      \* bound: the ART
    MaxCalls     \* bound: calls

ASSUME ClockAssumption ==
    /\ Frequencies \subseteq 1..NsecPerSec /\ Frequencies # {}
    /\ Deltas \subseteq Nat /\ Times \subseteq 0..S64Max
    /\ Unit \in Nat \ {0} /\ \A hz \in Frequencies : Unit % hz = 0
    /\ MaxArt \in 0..(Word - 1) /\ MaxCalls \in Nat

VARIABLES
    mode,    \* clock_mode
    art,     \* the counter
    phc,     \* the mapping
    call,    \* what each caller is doing: the operation, its arguments, the
             \* ART it has sampled, and whether it has committed a new mapping
    calls,   \* calls made so far
    want,    \* gen and freq_gen of output_desired
    applied, \* and of the work
    pending, \* is output_work queued?
    pc,      \* where it is
    phase,   \* output_phase: ARM_PERIODIC ("waiting") or HARDWARE_PERIODIC
    version, \* history: mappings committed; the newest that was a step
    shown,   \* history: the mapping behind the grid, the compare, the interval
    ideal    \* history: the time a clock would show that every call had told
             \* exactly what it did, in units of 1/Unit ns

clock == <<mode, art, phc, ideal, version>>
output == <<want, applied, pending, pc, phase, shown>>
vars == <<clock, call, calls, output>>

NoCall == [kind |-> "none", arg |-> <<>>, art |-> 0, committed |-> FALSE]
Mapping(anchor, ns, hz, ppb) ==
    [art |-> anchor, ns |-> ns, hz |-> hz, ppb |-> ppb]

Init ==
    /\ mode \in {"phc", "art"}
    /\ art = 1
    /\ \E hz \in Frequencies : phc = Mapping(1, 0, hz, 0)
    /\ call = [c \in Callers |-> NoCall]
    /\ calls = 0
    /\ want = [gen |-> 0, freq |-> 0] /\ applied = want
    /\ pending = FALSE /\ pc = "idle" /\ phase = "waiting"
    /\ version = [newest |-> 0, step |-> 0]
    /\ shown = [grid |-> 0, compare |-> 0, rate |-> 0]
    /\ ideal = 0

-----------------------------------------------------------------------------
(* Callers *)

\* What a cycle of the ART adds to the ideal clock, and what a caller's sample
\* has missed of it
Rate(m) == (Unit \div m.hz) * (NsecPerSec + m.ppb)
Age(c) == art - call[c].art

\* A call, up to its sample of the ART (tgpio_get_current_art): in "art" mode
\* only the refinement work, which is one context, may change the clock.
Sample(c, kind, arg) ==
    /\ call[c] = NoCall /\ calls < MaxCalls
    /\ CASE mode = "phc" -> kind # "refine"
         [] mode = "art" -> kind = "refine"
                            /\ \A d \in Callers : call[d].kind # "refine"
    /\ calls' = calls + 1
    /\ call' = [call EXCEPT ![c] = [kind |-> kind, arg |-> arg, art |-> art,
                                    committed |-> FALSE]]
    /\ UNCHANGED <<clock, output>>

Begin(c) ==
    \/ \E ns \in Times : Sample(c, "settime", <<ns>>)
    \/ \E d \in Deltas : Sample(c, "adjtime", <<d>>)
                           \/ Sample(c, "adjtime", <<-d>>)
    \/ \E ppb \in {-MaxRate, MaxRate} :
         \/ Sample(c, "adjfine", <<ppb>>)
         \/ \E hz \in Frequencies : Sample(c, "refine", <<hz, ppb>>)

Sampled(c, kind) == call[c].kind = kind /\ ~call[c].committed

\* The call fails or has nothing to change, and returns.
Return(c) ==
    /\ call' = [call EXCEPT ![c] = NoCall]
    /\ UNCHANGED <<clock, calls, output>>

\* The caller's new mapping, and what that does to the ideal clock
Commit(c, mapping, correction) ==
    /\ phc' = mapping
    /\ ideal' = correction
    /\ version' = [newest |-> version.newest + 1,
                   step |-> IF call[c].kind \in {"settime", "adjtime"}
                              THEN version.newest + 1 ELSE version.step]
    /\ call' = [call EXCEPT ![c].committed = TRUE]
    /\ UNCHANGED <<mode, art, calls, output>>

\* tgpio_ptp_settime64
SetTime(c) ==
    /\ Sampled(c, "settime")
    /\ Commit(c, Mapping(call[c].art, call[c].arg[1], phc.hz, phc.ppb),
              call[c].arg[1] * Unit + Age(c) * Rate(phc))

\* Mutation: the new anchor is taken at the current ART
AdjTimeNow(c) ==
    LET now == ArtToNs(phc, call[c].art)
        adjusted == Add(now.val, call[c].arg[1])
    IN /\ Sampled(c, "adjtime")
       /\ IF now.ok /\ adjusted.ok /\ adjusted.val >= 0
            THEN Commit(c, Mapping(art, adjusted.val, phc.hz, phc.ppb),
                        ideal + call[c].arg[1] * Unit)
            ELSE Return(c)

\* Mutation: the sum is not checked
AdjTimeUnchecked(c) ==
    LET now == ArtToNs(phc, call[c].art)
        adjusted == now.val + call[c].arg[1]
    IN /\ Sampled(c, "adjtime")
       /\ IF now.ok /\ adjusted >= 0
            THEN Commit(c, Mapping(call[c].art, adjusted, phc.hz, phc.ppb),
                        ideal + call[c].arg[1] * Unit)
            ELSE Return(c)

\* tgpio_ptp_adjtime
AdjTime(c) ==
    LET now == ArtToNs(phc, call[c].art)
        adjusted == Add(now.val, call[c].arg[1])
    IN /\ Sampled(c, "adjtime")
       /\ IF now.ok /\ adjusted.ok /\ adjusted.val >= 0
            THEN Commit(c, Mapping(call[c].art, adjusted.val, phc.hz, phc.ppb),
                        ideal + call[c].arg[1] * Unit)
            ELSE Return(c)

\* A change of rate from the sample on
Retune(c, hz, ppb) ==
    LET now == ArtToNs(phc, call[c].art)
        mapping == Mapping(call[c].art, now.val, hz, ppb)
    IN IF now.ok
         THEN Commit(c, mapping, ideal + Age(c) * (Rate(mapping) - Rate(phc)))
         ELSE Return(c)

\* tgpio_ptp_adjfine
AdjFine(c) ==
    /\ Sampled(c, "adjfine")
    /\ Retune(c, phc.hz, call[c].arg[1])

\* The end of tgpio_art_refine_work_fn: only a rate that differs is applied.
Refine(c) ==
    /\ Sampled(c, "refine")
    /\ IF <<phc.hz, phc.ppb>> # call[c].arg
         THEN Retune(c, call[c].arg[1], call[c].arg[2])
         ELSE Return(c)

\* Mutation: a step is announced as a change of rate
NotifyRate(c) ==
    /\ call[c].committed
    /\ want' = [want EXCEPT !.freq = @ + 1]
    /\ pending' = TRUE
    /\ call' = [call EXCEPT ![c] = NoCall]
    /\ UNCHANGED <<clock, calls, applied, pc, phase, shown>>

\* tgpio_resync_outputs_after_phc_step, tgpio_update_outputs_after_phc_freq
Notify(c) ==
    /\ call[c].committed
    /\ want' = IF call[c].kind \in {"settime", "adjtime"}
                 THEN [want EXCEPT !.gen = @ + 1]
                 ELSE [want EXCEPT !.freq = @ + 1]
    /\ pending' = TRUE
    /\ call' = [call EXCEPT ![c] = NoCall]
    /\ UNCHANGED <<clock, calls, applied, pc, phase, shown>>

Tick ==
    /\ art < MaxArt
    /\ art' = art + 1
    /\ ideal' = ideal + Rate(phc)
    /\ UNCHANGED <<mode, phc, version, call, calls, output>>

-----------------------------------------------------------------------------
(* tgpio_output_work, with a step for every reading of the mapping *)

\* Queued by a caller, or by the timer of an output that waits for its arm; a
\* frequency update that comes before the wake changes nothing.
WorkBegin ==
    /\ pc = "idle" /\ (pending \/ phase = "waiting")
    /\ pending' = FALSE
    /\ applied' = want
    /\ CASE want.gen # applied.gen -> pc' = "prepare"
         [] want.gen = applied.gen /\ phase = "waiting" -> pc' \in {"idle", "arm"}
         [] OTHER -> pc' = IF want.freq # applied.freq THEN "interval" ELSE "idle"
    /\ UNCHANGED <<clock, call, calls, want, phase, shown>>

\* tgpio_prepare_output_timing: the first edge
WorkPrepare ==
    /\ pc = "prepare"
    /\ shown' = [shown EXCEPT !.grid = version.newest]
    /\ pc' = "prime"
    /\ UNCHANGED <<clock, call, calls, want, applied, pending, phase>>

\* tgpio_arm_output: the block is stopped, its priming compare programmed
WorkPrime ==
    /\ pc = "prime"
    /\ shown' = [shown EXCEPT !.compare = version.newest]
    /\ phase' = "waiting"
    /\ pc' = "idle"
    /\ UNCHANGED <<clock, call, calls, want, applied, pending>>

\* tgpio_arm_hardware_periodic: the first compare, then the intervals
WorkArm ==
    /\ pc = "arm"
    /\ shown' = [shown EXCEPT !.compare = version.newest]
    /\ phase' = "running"
    /\ pc' = "armed"
    /\ UNCHANGED <<clock, call, calls, want, applied, pending>>

WorkArmIntervals ==
    /\ pc = "armed"
    /\ shown' = [shown EXCEPT !.rate = version.newest]
    /\ pc' = "idle"
    /\ UNCHANGED <<clock, call, calls, want, applied, pending, phase>>

\* tgpio_hw_periodic_apply_freq: the interval
WorkInterval ==
    /\ pc = "interval"
    /\ shown' = [shown EXCEPT !.rate = version.newest]
    /\ pc' = "phase"
    /\ UNCHANGED <<clock, call, calls, want, applied, pending, phase>>

\* Then the phase: far off, it is armed anew; near its grid, or with an edge
\* imminent, the compare stays; else it is nudged.
WorkPhase ==
    /\ pc = "phase"
    /\ \/ pc' = "prepare" /\ UNCHANGED shown
       \/ pc' = "idle" /\ UNCHANGED shown
       \/ pc' = "idle" /\ shown' = [shown EXCEPT !.compare = version.newest]
    /\ UNCHANGED <<clock, call, calls, want, applied, pending, phase>>

Work == \/ WorkBegin \/ WorkPrepare \/ WorkPrime \/ WorkArm
        \/ WorkArmIntervals \/ WorkInterval \/ WorkPhase

\* The bounds are reached.
Horizon ==
    /\ art = MaxArt /\ calls = MaxCalls /\ pc = "idle"
    /\ UNCHANGED vars

Next ==
    \/ \E c \in Callers : \/ Begin(c) \/ SetTime(c) \/ AdjTime(c) \/ AdjFine(c)
                          \/ Refine(c) \/ Notify(c)
    \/ Tick \/ Work \/ Horizon

Spec == Init /\ [][Next]_vars

-----------------------------------------------------------------------------
(* Properties *)

\* Every variable keeps the C type of the field it models: in particular no
\* sequence of calls puts the anchor outside the signed range.
TypeOK ==
    /\ mode \in {"phc", "art"}
    /\ art \in 0..(Word - 1)
    /\ phc \in [art : 0..art, ns : S64Min..S64Max, hz : Frequencies,
                ppb : -MaxRate..MaxRate]
    /\ call \in [Callers ->
         [kind : {"none", "settime", "adjtime", "adjfine", "refine"},
          arg : Seq(Int), art : 0..art, committed : BOOLEAN]]
    /\ calls \in Nat
    /\ want \in [gen : Nat, freq : Nat] /\ applied \in [gen : Nat, freq : Nat]
    /\ pending \in BOOLEAN /\ phase \in {"waiting", "running"}
    /\ pc \in {"idle", "prepare", "prime", "arm", "armed", "interval", "phase"}
    /\ version \in [newest : Nat, step : Nat]
    /\ shown \in [grid : Nat, compare : Nat, rate : Nat]
    /\ ideal \in Int

\* The clock shows what it was told, however the calls of several contexts
\* interleave and however old their samples are: steps add up and none is
\* lost, and rate changes are phase-continuous, up to rounding (of less than
\* three nanoseconds) in each re-basing and in the reading.
TracksIdeal ==
    LET now == ArtToNs(phc, art)
    IN now.ok => Abs(now.val * Unit - ideal) < 3 * Unit * (version.newest + 1)

\* "Eventually consistent, never wrong indefinitely": once all callers have
\* returned and the work has nothing to do, the grid and the pending compare
\* of the output date from after the last step, and a running waveform has the
\* newest rate, though the work reads the mapping piecemeal.
OutputsFollowClock ==
    (pc = "idle" /\ ~pending /\ \A c \in Callers : ~call[c].committed)
        => /\ shown.grid >= version.step
           /\ shown.compare >= version.step
           /\ phase = "running" => shown.rate = version.newest
=============================================================================
