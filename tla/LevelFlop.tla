----------------------------- MODULE LevelFlop -----------------------------
(***************************************************************************)
(* The output level flop of a hardware-periodic block and its software     *)
(* mirror.                                                                 *)
(*                                                                         *)
(* While EN and PM are set, the block toggles its level flop whenever the  *)
(* ART reaches COMPV and adds PIV to COMPV.  The flop can be neither read  *)
(* nor loaded and outlives the driver, so tgpio_output_work mirrors it in  *)
(* output_hw_flop_high: tgpio_hw_flop_fold counts the toggles by how far   *)
(* COMPV has moved, and each arm picks the slot of its first toggle from   *)
(* the mirror.  Here the work's register accesses interleave with the      *)
(* running hardware; what makes the work run is in OutputControl.          *)
(*                                                                         *)
(* Time is the ART, in units of some milliseconds.                         *)
(***************************************************************************)
EXTENDS Integers

CONSTANTS
    Shapes,       \* waveforms an arm may ask for: the lengths "high" and "low"
                  \* of the halves, different for an asymmetric duty; by how
                  \* much the servo may change the interval, and so the phase
                  \* ("trims"); and how long the work may stall between
                  \* register accesses ("stall")
    StaleLevel,   \* may the flop be high when the module is first loaded?
    Latency,      \* how late a timer or a sleep may wake the work
    Margin,       \* late-arm guard of tgpio_arm_hardware_periodic (2 ms)
    Guard,        \* TGPIO_OUTPUT_SAFE_TIME_NS (20 ms)
    FlipTries,    \* rounds for which tgpio_hw_periodic_invert waits (50)
    ServiceDelay, \* TGPIO_HW_DUTY_SERVICE_DELAY_NS (10 ms)
    DrainPoll,    \* sleep of tgpio_hw_periodic_drain_low (100 ms)
    DrainTries,   \* its limit (30)
    MaxTime,      \* bound: the ART
    MaxJobs       \* bound: jobs of tgpio_output_work

ASSUME ShapeAssumption ==
    /\ Shapes \subseteq [high : Nat \ {0}, low : Nat \ {0}, trims : SUBSET Nat,
                        stall : Nat]
    /\ \A s \in Shapes : \A t \in s.trims : t < s.high
ASSUME DelayAssumption ==
    /\ StaleLevel \in BOOLEAN
    /\ Latency \in Nat /\ Margin \in Nat /\ Guard \in Nat
    /\ FlipTries \in Nat
    /\ ServiceDelay \in Nat /\ DrainPoll \in Nat /\ DrainTries \in Nat
    /\ MaxTime \in Nat /\ MaxJobs \in Nat

VARIABLES
    now,             \* the ART
    en, pm,          \* control bits
    compv, piv,      \* compare value and periodic interval
    level,           \* the level flop
    mirror,          \* output_hw_flop_high
    ckpt,            \* output_hw_ckpt_compv
    ivl,             \* output_hw_piv
    phase,           \* output_phase: running "periodic" or "duty", or "off"
    shape, grid,     \* the desired configuration; grid is its first_edge_ns
    pc,              \* where tgpio_output_work is
    wake,            \* when it goes on, or its timer fires
    tries, target,   \* its local variables
    inverted,        \* history: the mirror is wrong, since a load found the
                     \* flop high or a hurried inversion missed an edge
    rush,            \* history: has the running output been shifted with an
                     \* edge imminent? "none", "now" (under way) or "past"
    jobs             \* jobs begun so far

hw == <<now, en, pm, compv, piv, level>>
sw == <<mirror, ckpt, ivl, phase>>
want == <<shape, grid>>
vars == <<hw, sw, want, pc, wake, tries, target, inverted, rush, jobs>>

High == shape.high
Low == shape.low
Trims == shape.trims
Stall == shape.stall
Period == High + Low
Asymmetric == High # Low

Init ==
    /\ now = 0
    /\ en = FALSE /\ pm = FALSE
    /\ compv = 0 /\ piv = 0
    /\ level \in {FALSE, StaleLevel}
    /\ mirror = FALSE /\ ckpt = 0 /\ ivl = 0 /\ phase = "off"
    /\ shape \in Shapes /\ grid = 0
    /\ pc = "idle" /\ wake = 0 /\ tries = 0 /\ target = 0
    /\ inverted = level /\ rush = "none"
    /\ jobs = 0

-----------------------------------------------------------------------------
(* Time and the hardware *)

\* A duty service, or a sleep that is over, waits for at most Latency, the
\* next register access for at most Stall; an arm waits for its timer.
Pressed ==
    \/ pc \notin {"idle", "armed", "wait", "drain"} /\ now >= wake + Stall
    \/ /\ pc \in {"wait", "drain"} \/ (pc = "idle" /\ phase = "duty")
       /\ now >= wake + Latency

\* One unit of time; a compare that is due toggles the flop.
Tick ==
    /\ now < MaxTime
    /\ ~Pressed
    /\ now' = now + 1
    /\ IF en /\ pm /\ compv <= now + 1
         THEN level' = ~level /\ compv' = compv + piv
         ELSE UNCHANGED <<level, compv>>
    /\ UNCHANGED <<en, pm, piv, sw, want, pc, wake, tries, target, inverted,
                   rush, jobs>>

-----------------------------------------------------------------------------
(* Helpers of tgpio_output_work *)

Goto(label) == pc' = label /\ wake' = now
Sleep(label, delay) == pc' = label /\ wake' = now + delay

\* tgpio_hw_flop_fold: the toggles it sees, and what it does about them
Events ==
    CASE phase = "duty" -> IF compv # ckpt THEN 1 ELSE 0
      [] phase = "periodic" /\ compv >= ckpt -> (compv - ckpt) \div ivl
      [] OTHER -> 0
Folded == IF Events % 2 = 1 THEN ~mirror ELSE mirror

HwFlopFold ==
    /\ mirror' = Folded
    /\ ckpt' = IF phase = "duty" \/ (phase = "periodic" /\ compv >= ckpt)
                 THEN compv ELSE ckpt

\* A job is taken up when the work is idle, or interrupts an arm that is
\* waiting for its wake.
Begin ==
    /\ pc \in {"idle", "armed"}
    /\ jobs < MaxJobs
    /\ jobs' = jobs + 1

-----------------------------------------------------------------------------
(* Arming *)

\* tgpio_arm_output for a waveform s on the grid of g: it stops events first.
ArmStop(s, g) ==
    /\ Begin
    /\ shape' = s /\ grid' = g
    /\ en' = FALSE
    /\ Goto("armfold")
    /\ UNCHANGED <<now, pm, compv, piv, level, sw, tries, target, inverted,
                   rush>>

ArmFold ==
    /\ pc = "armfold"
    /\ HwFlopFold
    /\ compv' = 0 /\ piv' = 0 /\ pm' = FALSE
    /\ ivl' = 0 /\ phase' = "off" /\ rush' = "none"
    /\ Goto("armed")
    /\ UNCHANGED <<now, en, level, want, tries, target, inverted, jobs>>

\* The slot of the first toggle: a rise, or the fall before it
Slot(first) ==
    IF ~mirror THEN first
    ELSE IF first > Low THEN first - Low ELSE first + High

\* Mutation: pushes a late compare by halves
PushHalves(first) ==
    IF first >= now + Margin THEN first
    ELSE first + ((now + Margin - first) \div High + 1) * High

\* The late-arm guard: whole periods, until Margin ahead of the counter
PushLate(first) ==
    IF first >= now + Margin THEN first
    ELSE first + ((now + Margin - first) \div Period + 1) * Period

InitialPiv == IF mirror THEN Low ELSE High

\* tgpio_arm_hardware_periodic up to EN, at the wake or at an earlier visit:
\* the rising edge lies on the grid, less than a period behind or two ahead.
ArmPeriodic ==
    /\ pc = "armed"
    /\ \E first \in (now - Period + 1)..(now + 2 * Period) :
         /\ first > 0 /\ (first - grid) % Period = 0
         /\ compv' = PushLate(Slot(first))
    /\ ckpt' = compv'
    /\ piv' = InitialPiv /\ ivl' = piv'
    /\ pm' = TRUE
    /\ phase' = IF Asymmetric THEN "duty" ELSE "periodic"
    /\ Goto("enable")
    /\ UNCHANGED <<now, en, level, mirror, want, tries, target, inverted, rush,
                   jobs>>

ArmEnable ==
    /\ pc = "enable"
    /\ en' = TRUE
    /\ IF Asymmetric THEN Sleep("idle", ServiceDelay) ELSE Goto("idle")
    /\ UNCHANGED <<now, pm, compv, piv, level, sw, want, tries, target,
                   inverted, rush, jobs>>

-----------------------------------------------------------------------------
(* tgpio_hw_duty_service *)

ServiceFold ==
    /\ pc = "idle" /\ phase = "duty" /\ now >= wake
    /\ HwFlopFold
    /\ Goto("service")
    /\ UNCHANGED <<hw, ivl, phase, want, tries, target, inverted, rush, jobs>>

\* The interval the pending edge will consume
NextPiv == IF mirror THEN Low ELSE High

\* The interval, and the visit after the pending edge
ServiceProgram ==
    /\ pc = "service"
    /\ piv' = NextPiv /\ ivl' = piv'
    /\ pc' = "idle"
    /\ wake' = (IF compv > now THEN compv ELSE now) + ServiceDelay
    /\ UNCHANGED <<now, en, pm, compv, level, mirror, ckpt, phase, want, tries,
                   target, inverted, rush, jobs>>

-----------------------------------------------------------------------------
(* tgpio_hw_periodic_apply_freq *)

FreqFold ==
    /\ pc = "idle" /\ phase = "periodic"
    /\ Begin
    /\ HwFlopFold
    /\ Goto("freqpiv")
    /\ UNCHANGED <<hw, ivl, phase, want, tries, target, inverted, rush>>

\* The servo's interval, skipped when its high word changes
FreqPiv ==
    /\ pc = "freqpiv"
    /\ piv' \in {piv} \cup UNION {{High - t, High + t} : t \in Trims}
    /\ ivl' = piv'
    /\ Goto("phase")
    /\ UNCHANGED <<now, en, pm, compv, level, mirror, ckpt, phase, want, tries,
                   target, inverted, rush, jobs>>

\* tgpio_hw_periodic_phase_get: the error is within the tolerance or unknown,
\* it is nudged away if the pending edge is far, or it needs a re-arm.
FreqPhase ==
    /\ pc = "phase"
    /\ \/ Goto("idle") /\ UNCHANGED <<en, target>>
       \/ /\ compv >= now + Guard
          /\ target' \in UNION {{compv - t, compv + t} : t \in Trims}
          /\ Goto("pause") /\ UNCHANGED en
       \/ en' = FALSE /\ Goto("armfold") /\ UNCHANGED target
    /\ UNCHANGED <<now, pm, compv, piv, level, sw, want, tries, inverted, rush,
                   jobs>>

\* tgpio_hw_periodic_write_compv_paused
Pause ==
    /\ pc = "pause"
    /\ pm' = FALSE
    /\ Goto("write")
    /\ UNCHANGED <<now, en, compv, piv, level, sw, want, tries, target,
                   inverted, rush, jobs>>

\* The toggles up to here are no longer counted: an inversion that did not wait
\* long enough may have had an edge since its fold.
Missed == rush = "now" /\ Folded # mirror

WriteCompv ==
    /\ pc = "write"
    /\ compv' = target /\ pm' = TRUE
    /\ ckpt' = target
    /\ inverted' = IF Missed THEN ~inverted ELSE inverted
    /\ rush' = IF rush = "now" THEN "past" ELSE rush
    /\ Goto("idle")
    /\ UNCHANGED <<now, en, piv, level, mirror, ivl, phase, want, tries,
                   target, jobs>>

-----------------------------------------------------------------------------
(* tgpio_hw_periodic_invert *)

\* A calibration corrects a mirror that is wrong; a running asymmetric output
\* is re-armed, a symmetric one is shifted by an interval.
Flip ==
    /\ Begin /\ inverted
    /\ inverted' = FALSE
    /\ mirror' = ~mirror
    /\ CASE phase = "duty" -> Goto("armfold") /\ en' = FALSE /\ UNCHANGED tries
         [] phase = "periodic" ->
              Goto("wait") /\ tries' = FlipTries /\ UNCHANGED en
         [] OTHER -> UNCHANGED <<pc, wake, en, tries>>
    /\ UNCHANGED <<now, pm, compv, piv, level, ckpt, ivl, phase, want, target,
                   rush>>

\* Is the pending edge too near for its compare to be rewritten?
Imminent == compv < now + Guard

\* Mutation: the edges of the wait are not folded
FlipWaitUnfolded ==
    /\ pc = "wait" /\ now >= wake
    /\ UNCHANGED mirror
    /\ \/ /\ Imminent /\ tries > 0
          /\ Sleep("wait", Guard)
          /\ tries' = tries - 1
          /\ UNCHANGED <<ckpt, rush>>
       \/ /\ ckpt' = compv
          /\ rush' = IF Imminent THEN "now" ELSE rush
          /\ Goto("shift")
          /\ UNCHANGED tries
    /\ UNCHANGED <<hw, ivl, phase, want, target, inverted, jobs>>

\* An imminent edge is waited out, for FlipTries rounds at most, and not at all
\* when tgpio_hw_periodic_phase_get fails (a request has moved the first edge,
\* the clock cannot be converted); then the toggles are folded.
FlipWait ==
    /\ pc = "wait" /\ now >= wake
    /\ \/ /\ Imminent /\ tries > 0
          /\ Sleep("wait", Guard)
          /\ tries' = tries - 1
          /\ UNCHANGED <<mirror, ckpt, rush>>
       \/ /\ HwFlopFold
          /\ rush' = IF Imminent THEN "now" ELSE rush
          /\ Goto("shift")
          /\ UNCHANGED tries
    /\ UNCHANGED <<hw, ivl, phase, want, target, inverted, jobs>>

FlipShift ==
    /\ pc = "shift"
    /\ target' = compv + ivl
    /\ Goto("pause")
    /\ UNCHANGED <<hw, sw, want, tries, inverted, rush, jobs>>

-----------------------------------------------------------------------------
(* Stopping and unloading *)

StopBegin ==
    /\ Begin
    /\ Goto("drain")
    /\ tries' = DrainTries
    /\ UNCHANGED <<hw, sw, want, target, inverted, rush>>

\* Mutation: the drain stops at a high level
DrainHigh ==
    /\ pc = "drain" /\ now >= wake
    /\ HwFlopFold
    /\ IF phase # "off" /\ ~mirror' /\ tries > 0
         THEN Sleep("drain", DrainPoll) /\ tries' = tries - 1
         ELSE Goto("disable") /\ UNCHANGED tries
    /\ UNCHANGED <<hw, ivl, phase, want, target, inverted, rush, jobs>>

\* tgpio_hw_periodic_drain_low
Drain ==
    /\ pc = "drain" /\ now >= wake
    /\ HwFlopFold
    /\ IF phase # "off" /\ mirror' /\ tries > 0
         THEN Sleep("drain", DrainPoll) /\ tries' = tries - 1
         ELSE Goto("disable") /\ UNCHANGED tries
    /\ UNCHANGED <<hw, ivl, phase, want, target, inverted, rush, jobs>>

\* tgpio_disable_output_hw: EN first, then the fold
DisableHw ==
    /\ pc = "disable"
    /\ en' = FALSE
    /\ Goto("disablefold")
    /\ UNCHANGED <<now, pm, compv, piv, level, sw, want, tries, target,
                   inverted, rush, jobs>>

\* Mutation: the interval outlives the output
DisableFoldKeeps ==
    /\ pc = "disablefold"
    /\ HwFlopFold
    /\ compv' = 0 /\ piv' = 0 /\ pm' = FALSE
    /\ phase' = "off" /\ rush' = "none"
    /\ Goto("stopped")
    /\ UNCHANGED <<now, en, level, ivl, want, tries, target, inverted, jobs>>

DisableFold ==
    /\ pc = "disablefold"
    /\ HwFlopFold
    /\ compv' = 0 /\ piv' = 0 /\ pm' = FALSE
    /\ ivl' = 0 /\ phase' = "off" /\ rush' = "none"
    /\ Goto("stopped")
    /\ UNCHANGED <<now, en, level, want, tries, target, inverted, jobs>>

Stopped ==
    /\ pc = "stopped"
    /\ Goto("idle")
    /\ UNCHANGED <<hw, sw, want, tries, target, inverted, rush, jobs>>

\* The stop was that of tgpio_disable_outputs: the module is unloaded and
\* loaded again, with a mirror that assumes a low flop.
Reload ==
    /\ pc = "stopped"
    /\ mirror' = FALSE /\ ckpt' = 0
    /\ inverted' = level
    /\ Goto("idle")
    /\ UNCHANGED <<hw, ivl, phase, want, tries, target, rush, jobs>>

-----------------------------------------------------------------------------
Job ==
    \/ \E s \in Shapes, g \in 0..1 : ArmStop(s, g)
    \/ FreqFold \/ Flip \/ StopBegin

Work ==
    \/ ArmFold \/ ArmPeriodic \/ ArmEnable \/ ServiceFold \/ ServiceProgram
    \/ FreqPiv \/ FreqPhase \/ Pause \/ WriteCompv
    \/ FlipWait \/ FlipShift
    \/ Drain \/ DisableHw \/ DisableFold \/ Stopped \/ Reload

\* The horizon is reached.
Horizon == now = MaxTime /\ UNCHANGED vars

Next == Tick \/ Job \/ Work \/ Horizon

Spec == Init /\ [][Next]_vars

-----------------------------------------------------------------------------
(* Properties *)

\* Every variable keeps the C type of the field it models.
TypeOK ==
    /\ now \in Nat /\ en \in BOOLEAN /\ pm \in BOOLEAN
    /\ compv \in Int /\ piv \in Nat /\ level \in BOOLEAN
    /\ mirror \in BOOLEAN /\ ckpt \in Int /\ ivl \in Nat
    /\ phase \in {"off", "periodic", "duty"}
    /\ ivl = 0 <=> phase = "off"
    /\ grid \in Nat /\ wake \in Nat /\ tries \in Nat /\ target \in Int
    /\ pc \in {"idle", "armfold", "armed", "enable", "service", "freqpiv",
               "phase", "pause", "write", "wait", "shift", "drain", "disable",
               "disablefold", "stopped"}
    /\ inverted \in BOOLEAN /\ rush \in {"none", "now", "past"} /\ jobs \in Nat

Parity == INSTANCE ParityMirror WITH belief <- Folded, wrong <- inverted

\* The mirror, with the toggles it has yet to fold, changes with the flop, by a
\* calibration and at a load: tgpio_hw_flop_fold neither misses nor invents a
\* toggle, whatever re-arms, interval changes, compare rewrites and stops have
\* come between. The one exception is what Missed counts, an edge between the
\* fold and the rewrite of an inversion that stopped waiting with the edge
\* imminent: the rewrite takes it from the mirror, and from nothing else.
MirrorsParity == Parity!Spec

\* Every toggle of a running output whose mirror is right, which no servo trims
\* and which was not shifted with an edge imminent since it was armed, lands on
\* its slot: rises on the requested grid, falls the high time later.
TogglesOnGrid ==
    [][level' # level /\ ~inverted /\ Trims = {} /\ rush = "none"
         /\ pc \notin {"wait", "shift", "pause", "write"}
        => (now' - grid) % Period = IF level' THEN 0 ELSE High]_vars

\* A stop of a running output whose mirror is right leaves the line low, unless
\* tgpio_hw_periodic_drain_low gave up or the line toggled again after it had
\* been seen low.
DrainsLow ==
    [][DisableFold /\ phase # "off" /\ ~inverted /\ tries > 0 /\ Events = 0
        => ~level]_vars
=============================================================================
