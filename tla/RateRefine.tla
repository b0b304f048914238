----------------------------- MODULE RateRefine -----------------------------
(***************************************************************************)
(* The rate of CLOCK_REALTIME against the ART, which                       *)
(* tgpio_art_refine_work_fn measures over a sliding window of samples.     *)
(*                                                                         *)
(* In "realtime" mode the window's two lengths are published and outputs   *)
(* wait for them; in "art" mode, calibrated from CLOCK_REALTIME, the       *)
(* window's error goes into a moving average that PhcClock's refinement    *)
(* applies.  CLOCK_REALTIME belongs to others: it has a rate of its own    *)
(* and is stepped at any moment, also while the work takes a sample.  A    *)
(* window that spans a step would turn an error of phase into one of rate. *)
(*                                                                         *)
(* Time passes in ticks, between samples only.                             *)
(***************************************************************************)
EXTENDS Integers

CONSTANTS
    Cycles,     \* ART cycles per tick
    Speeds,     \* nanoseconds by which CLOCK_REALTIME may advance in a tick
    Steps,      \* by how much it may be stepped
    Ring,       \* TGPIO_REALTIME_RATE_RING, TGPIO_ART_CAL_RING (8)
    MinWindow,  \* TGPIO_REALTIME_RATE_MIN_WINDOW_S, and
    CalWindow,  \* the least window of the calibration (25 s), in nanoseconds
    Scale,      \* the unit of a rate error: 10^12 for thousandths of a ppb
    StepError,  \* a rate error that betrays a step (100 ppm)
    Tries,      \* brackets of a sample (16)
    Late,       \* how late the work may run, in ticks; its period is one
    MaxTime,    \* bound: ticks
    MaxSteps    \* bound: steps of the clock and restarts of the ART

ASSUME RingAssumption == Ring \in Nat \ {0} /\ Tries \in Nat \ {0}
ASSUME ClockAssumption ==
    /\ Cycles \in Nat \ {0} /\ Speeds \subseteq Nat \ {0} /\ Steps \subseteq Int
    /\ MinWindow \in Nat \ {0} /\ CalWindow \in Nat \ {0}
    /\ Scale \in Nat /\ StepError \in Nat
    /\ Late \in Nat /\ MaxTime \in Nat /\ MaxSteps \in Nat

VARIABLES
    mode,              \* tgpio_clock_uses_model(): "realtime" or "art"
    paired,            \* do timekeeping snapshots come with the ART?
    ticks, speed,      \* time, and how fast CLOCK_REALTIME advances
    art, real, seq,    \* the ART, CLOCK_REALTIME and its clock_was_set_seq
    pc, before, tries, best, \* where the work is in tgpio_sample_art_real
    wake,              \* when the work is due
    ring, head, count, \* tgpio_realtime_rate_ring or tgpio_art_cal_ring
    rate,              \* tgpio_realtime_rate_art_cycles and _real_ns
    ema,               \* tgpio_art_cal_ema_mppb
    disturbed, steps   \* history: the last step or restart; their number

clock == <<ticks, speed, art, real, seq, disturbed, steps>>
window == <<ring, head, count, rate, ema>>
vars == <<mode, paired, clock, pc, before, tries, best, wake, window>>

NoSample == [art |-> 0, real |-> 0, seq |-> 0]
NoRate == [art |-> 0, real |-> 0]

\* The machine has been up for longer than the run lasts.
Init ==
    /\ mode \in {"realtime", "art"} /\ paired \in BOOLEAN
    /\ ticks = 0 /\ speed \in Speeds
    /\ art = (MaxTime + 1) * Cycles /\ real = art /\ seq = 0
    /\ pc = "idle" /\ before = NoSample /\ tries = 0 /\ best = NoSample
    /\ wake = 0
    /\ ring = [i \in 0..(Ring - 1) |-> NoSample] /\ head = 0 /\ count = 0
    /\ rate = NoRate /\ ema = 0
    /\ disturbed = 0 /\ steps = 0

-----------------------------------------------------------------------------
(* The clocks *)

Tick ==
    /\ ticks < MaxTime
    /\ pc = "idle" /\ ticks < wake + Late
    /\ ticks' = ticks + 1
    /\ art' = art + Cycles
    /\ real' = real + speed
    /\ UNCHANGED <<mode, paired, speed, seq, disturbed, steps, pc, before, tries,
                   best, wake, window>>

\* settimeofday and the like: the kernel counts them.
Step ==
    /\ steps < MaxSteps /\ steps' = steps + 1
    /\ \E d \in Steps : real' = real + d
    /\ seq' = seq + 1
    /\ disturbed' = ticks
    /\ UNCHANGED <<mode, paired, ticks, speed, art, pc, before, tries, best, wake,
                   window>>

\* The ART restarts (a resume); the kernel may count that as a step, or not.
Restart ==
    /\ pc = "idle" /\ art > ticks * Cycles
    /\ steps < MaxSteps /\ steps' = steps + 1
    /\ art' = 0
    /\ seq' \in {seq, seq + 1}
    /\ disturbed' = ticks
    /\ UNCHANGED <<mode, paired, ticks, speed, real, pc, before, tries, best, wake,
                   window>>

-----------------------------------------------------------------------------
(* The ring *)

Oldest == ring[IF count < Ring THEN 0 ELSE head]

\* The ring with one more sample; the ring with that sample alone
Store(s) ==
    /\ ring' = [ring EXCEPT ![head] = s]
    /\ head' = (head + 1) % Ring
    /\ count' = IF count < Ring THEN count + 1 ELSE count
StoreAlone(s) ==
    /\ ring' = [ring EXCEPT ![0] = s]
    /\ head' = 1 % Ring /\ count' = 1

Later(s) == s.art > Oldest.art /\ s.real > Oldest.real
Window(s) == [art |-> s.art - Oldest.art, real |-> s.real - Oldest.real]

-----------------------------------------------------------------------------
(* What tgpio_art_refine_work_fn does with a sample in "realtime" mode *)

Stepped(s) == s.seq # Oldest.seq

\* Mutation: a step discards the rate too
RestartWindowAndRate(s) ==
    /\ count > 0 /\ Stepped(s)
    /\ StoreAlone(s)
    /\ rate' = NoRate

\* A step restarts the window, the rate stays;
RestartWindow(s) ==
    /\ count > 0 /\ Stepped(s)
    /\ StoreAlone(s)
    /\ UNCHANGED rate

\* a counter or a clock that went back discards the rate;
DiscardRate(s) ==
    /\ count > 0 /\ ~Stepped(s) /\ ~Later(s)
    /\ StoreAlone(s)
    /\ rate' = NoRate

\* Mutation: only a window longer than a full ring holds is published
PublishTooLong(s) ==
    /\ count > 0 => ~Stepped(s) /\ Later(s)
    /\ rate' = IF count > 0 /\ Window(s).real >= MinWindow * Ring
                 THEN Window(s) ELSE rate
    /\ Store(s)

\* and a window that is long enough is published.
Publish(s) ==
    /\ count > 0 => ~Stepped(s) /\ Later(s)
    /\ rate' = IF count > 0 /\ Window(s).real >= MinWindow
                 THEN Window(s) ELSE rate
    /\ Store(s)

UseRealtime(s) ==
    /\ RestartWindow(s) \/ DiscardRate(s) \/ Publish(s)
    /\ UNCHANGED ema

-----------------------------------------------------------------------------
(* What it does with one in "art" mode *)

\* C's division, which truncates
Divide(n, d) == IF n < 0 THEN -((-n) \div d) ELSE n \div d

\* The rate error of a window: the base rate is a cycle per nanosecond.
RateError(w) ==
    LET cycles == w.art - w.real
    IN IF cycles < 0 THEN -((-cycles * Scale) \div w.art)
                     ELSE (cycles * Scale) \div w.art

\* Mutation: no error is too large for the average
NotBeyond(error) == FALSE

Beyond(error) == error > StepError \/ error < -StepError

\* The first sample opens a window,
CalFirst(s) ==
    /\ count = 0
    /\ StoreAlone(s)
    /\ UNCHANGED ema

\* one from before the oldest closes it,
CalReversed(s) ==
    /\ count > 0 /\ ~Later(s)
    /\ count' = 0
    /\ UNCHANGED <<ring, head, ema>>

\* as does an error that only a step explains; any other goes into the
\* average with a weight of 3/10 once the window is long enough.
CalMeasure(s) ==
    LET error == RateError(Window(s))
        long == Window(s).real >= CalWindow
    IN /\ count > 0 /\ Later(s)
       /\ ring' = [ring EXCEPT ![head] = s]
       /\ head' = (head + 1) % Ring
       /\ count' = IF long /\ Beyond(error) THEN 0
                   ELSE IF count < Ring THEN count + 1 ELSE count
       /\ ema' = IF long /\ ~Beyond(error)
                   THEN ema + Divide((error - ema) * 3, 10) ELSE ema

UseCalibration(s) ==
    /\ CalFirst(s) \/ CalReversed(s) \/ CalMeasure(s)
    /\ UNCHANGED rate

-----------------------------------------------------------------------------
(* tgpio_sample_art_real, and the rest of the work *)

Here == [art |-> art, real |-> real, seq |-> seq]

Finish ==
    /\ pc' = "idle" /\ wake' = ticks + 1
    /\ before' = NoSample /\ tries' = 0 /\ best' = NoSample

Use(s) ==
    /\ IF mode = "realtime" THEN UseRealtime(s) ELSE UseCalibration(s)
    /\ Finish

\* A snapshot that holds the ART is a sample.
SampleAtOnce ==
    /\ pc = "idle" /\ ticks >= wake /\ paired
    /\ Use(Here)
    /\ UNCHANGED <<mode, paired, clock>>

\* Otherwise the ART is read between two snapshots.
SampleBegin ==
    /\ \/ pc = "idle" /\ ticks >= wake /\ ~paired
       \/ pc = "again"
    /\ pc' = "bracket" /\ before' = Here
    /\ UNCHANGED <<mode, paired, clock, tries, best, wake, window>>

\* Mutation: a clock set between the snapshots goes unnoticed
NeverSpoilt == FALSE

Spoilt == seq # before.seq

\* The ART at the middle of the bracket
Bracket == [art |-> art, real |-> before.real + Divide(real - before.real, 2),
            seq |-> before.seq]

TryAgain ==
    /\ tries' = tries + 1
    /\ pc' = IF tries' < Tries THEN "again" ELSE "done"
    /\ before' = NoSample

\* A bracket within which the clock was set is of no use,
BracketSpoilt ==
    /\ pc = "bracket" /\ Spoilt
    /\ TryAgain
    /\ UNCHANGED <<mode, paired, clock, best, wake, window>>

\* a tight one is good enough,
BracketTight ==
    /\ pc = "bracket" /\ ~Spoilt
    /\ best' = Bracket
    /\ pc' = "done" /\ before' = NoSample
    /\ UNCHANGED <<mode, paired, clock, tries, wake, window>>

\* and the tightest of the others is kept.
BracketLoose ==
    /\ pc = "bracket" /\ ~Spoilt
    /\ best' = Bracket \/ (best # NoSample /\ UNCHANGED best)
    /\ TryAgain
    /\ UNCHANGED <<mode, paired, clock, wake, window>>

SampleDone ==
    /\ pc = "done" /\ best # NoSample
    /\ Use(best)
    /\ UNCHANGED <<mode, paired, clock>>

\* Every bracket was spoilt: the work tries again a period later.
SampleFailed ==
    /\ pc = "done" /\ best = NoSample
    /\ Finish
    /\ UNCHANGED <<mode, paired, clock, window>>

-----------------------------------------------------------------------------
Horizon == ticks = MaxTime /\ pc = "idle" /\ ticks < wake /\ UNCHANGED vars

Sample ==
    \/ SampleAtOnce \/ SampleBegin \/ BracketSpoilt \/ BracketTight
    \/ BracketLoose \/ SampleDone \/ SampleFailed

Next == Tick \/ Step \/ Restart \/ Sample \/ Horizon

Spec == Init /\ [][Next]_vars
-----------------------------------------------------------------------------
(* Properties *)

\* No published window spans a step of the clock or a restart of the counter:
\* its rate is the clock's own, also when the step came while a sample was
\* being bracketed or the ring was not full.
RateSpansNoStep == rate # NoRate => rate.real * Cycles = speed * rate.art

\* The average of the calibration stays between no error and the clock's own,
\* too: a step is told by its size alone, and no window that holds one counts.
EmaSpansNoStep ==
    LET own == RateError([art |-> Cycles, real |-> speed])
    IN ema \in (IF own < 0 THEN own..0 ELSE 0..own)

\* "A clock step changes phase, not the established rate": a published rate
\* goes only when the counter or the clock has gone back behind the window.
StepKeepsRate ==
    [][rate # NoRate /\ rate' = NoRate => art < ring[0].art]_vars

\* A clock left alone for the least window, a period and twice the lateness
\* of the work has its rate published, whatever was in the ring before.
RateReady ==
    /\ mode = "realtime" /\ pc = "idle" /\ ticks < wake
    /\ (ticks - disturbed - 2 - 2 * Late) * speed >= MinWindow
    => rate # NoRate
=============================================================================
