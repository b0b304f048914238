--------------------------- MODULE OutputControl ---------------------------
(***************************************************************************)
(* The control plane of one periodic-output block of tgpio-ptp-input.c.    *)
(*                                                                         *)
(* Publishers (PTP ioctls, PHC steps and frequency updates, the background *)
(* refinement and polling works, the debugfs files and the one-shot stop   *)
(* work) write output_desired under output_seqlock and afterwards call     *)
(* schedule_work(output_work).  tgpio_output_work is the sole writer of    *)
(* the output registers and of the hrtimer; the hrtimer callback only      *)
(* schedules the work.  Unload closes the publishers one after the other   *)
(* and drains the timer -> work -> timer chain.                            *)
(*                                                                         *)
(* Times are abstracted to order: the hrtimer is armed or idle, and a      *)
(* software-programmed compare lies ahead or has passed.  The level of the *)
(* line and the register arithmetic are in LevelFlop.                      *)
(***************************************************************************)
EXTENDS Naturals

CONSTANTS
    Requests,         \* shapes a PTP periodic-output request may have
    HardwarePeriodic, \* module parameter hardware_periodic_output
    RateAtLoad,       \* is the ART rate known when the module is loaded?
    RateResets,       \* may the refinement work drop the rate again?
    StepBack,         \* may CLOCK_REALTIME be stepped back by others?
    MaxGen,           \* bound: publications made by users
    MaxFreq,          \* bound: frequency updates
    MaxFlip,          \* bound: polarity flips
    MaxFaults         \* bound: clock conversions that fail

ASSUME ShapeAssumption == Requests \subseteq {"symmetric", "duty", "narrow"}
ASSUME FlagAssumption ==
    /\ HardwarePeriodic \in BOOLEAN /\ RateAtLoad \in BOOLEAN
    /\ RateResets \in BOOLEAN /\ StepBack \in BOOLEAN
ASSUME BoundAssumption ==
    MaxGen \in Nat /\ MaxFreq \in Nat /\ MaxFlip \in Nat /\ MaxFaults \in Nat

VARIABLES
    desired,   \* output_desired; "src" is history: which caller published it
    owed,      \* publishers between write_sequnlock and schedule_work
    pending,   \* PENDING bit of output_work
    canceling, \* cancel_work_sync owns that bit and waits for the work
    pc,        \* where output_work is
    snap,      \* its copy of output_desired
    applied,   \* output_applied_gen, _freq_gen and _flip_gen
    phase,     \* output_phase
    en,        \* TGPIOCTL_EN
    compare,   \* software path: the programmed compare is ahead or past
    shown,     \* the generation whose times are in the registers
    timer,     \* output_timer queued?
    rate,      \* does a ns -> ART-cycles conversion of a delta succeed?
    faults,    \* conversions that failed so far
    ioctl,     \* PTP_PEROUT_REQUEST call in progress
    oneshot,   \* write to oneshotN in progress
    stopQueued, stopRunning, \* oneshot_stop_work
    stage      \* progress of tgpio_input_exit

vars == <<desired, owed, pending, canceling, pc, snap, applied, phase, en,
          compare, shown, timer, rate, faults, ioctl, oneshot, stopQueued,
          stopRunning, stage>>
hw == <<phase, en, compare, shown>>
worker == <<pc, snap, applied, phase, en, compare, shown, timer, faults>>
callers == <<ioctl, oneshot, stopQueued, stopRunning>>

Runs == {"STOPPED", "RUNNING"}
Kinds == {"software", "symmetric", "duty"}
Phases == {"ARM_PERIODIC", "HARDWARE_PERIODIC", "HW_DUTY", "FIRST_RISING",
           "TOGGLE"}
Publishers == {"ioctl", "clock", "debugfs", "oneshot", "background",
               "oneshot_stop"}
Desired == [gen : Nat, freq : Nat, flip : Nat, run : Runs,
            kind : Kinds \cup {"none"}, src : {"none", "ptp", "oneshot"}]

\* The stages of tgpio_input_exit and tgpio_disable_outputs, each set holding
\* the stages from the one it is named after.
FromDisable == {"disable", "freed"}
FromWait2 == {"wait2"} \cup FromDisable
FromWork2 == {"work2"} \cup FromWait2
FromTimer2 == {"timer2"} \cup FromWork2
FromWait1 == {"wait1"} \cup FromTimer2
FromTimer1 == {"timer1", "work1"} \cup FromWait1
FromStopped == {"stopped"} \cup FromTimer1
FromClosed == {"closed"} \cup FromStopped
Stages == {"live", "unregistered"} \cup FromClosed

NoConfig == [gen |-> 0, freq |-> 0, flip |-> 0, run |-> "STOPPED",
             kind |-> "none", src |-> "none"]

\* kzalloc: all counters 0, STOPPED, phase 0; EN is clear at power-on and
\* after every unload.
Init ==
    /\ desired = NoConfig
    /\ owed = {}
    /\ pending = FALSE
    /\ canceling = FALSE
    /\ pc = "idle"
    /\ snap = NoConfig
    /\ applied = [gen |-> 0, freq |-> 0, flip |-> 0]
    /\ phase = "ARM_PERIODIC"
    /\ en = FALSE
    /\ compare = "none"
    /\ shown = 0
    /\ timer = FALSE
    /\ rate = RateAtLoad
    /\ faults = 0
    /\ ioctl = "idle"
    /\ oneshot = "idle"
    /\ stopQueued = FALSE
    /\ stopRunning = FALSE
    /\ stage = "live"

-----------------------------------------------------------------------------
(* The workqueue and the publishers *)

\* schedule_work: sets PENDING unless it is set, or owned by a canceller.
ScheduleWork == pending' = (pending \/ ~canceling)

\* The deferred schedule_work call of a publisher that has left the seqlock.
Kick(p) ==
    /\ p \in owed
    /\ owed' = owed \ {p}
    /\ ScheduleWork
    /\ UNCHANGED <<desired, canceling, worker, rate, callers, stage>>

\* tgpio_output_publish
Publish(p, run, kind, src) ==
    /\ desired' = [gen |-> desired.gen + 1, freq |-> desired.freq,
                   flip |-> desired.flip, run |-> run, kind |-> kind,
                   src |-> src]
    /\ owed' = owed \cup {p}

\* The STOPPED configuration: zeroes but for the three counters.
Stopping == [gen |-> desired.gen + 1, freq |-> desired.freq,
             flip |-> desired.flip, run |-> "STOPPED", kind |-> "none",
             src |-> "none"]

\* Mutation: tgpio_disable_output without its schedule_work
DisableQuietly(p) ==
    /\ desired' = Stopping
    /\ p \in Publishers
    /\ UNCHANGED owed

\* tgpio_disable_output
Disable(p) ==
    /\ desired' = Stopping
    /\ owed' = owed \cup {p}

\* tgpio_config_output_values, up to the cancel of the one-shot's stop
ConfigOutputBegin(on) ==
    /\ stage = "live"
    /\ ioctl = "idle" /\ "ioctl" \notin owed
    /\ desired.gen < MaxGen
    /\ stopQueued' = FALSE
    /\ ioctl' = on
    /\ UNCHANGED <<desired, owed, pending, canceling, worker, rate, oneshot,
                   stopRunning, stage>>

ConfigOutputOff ==
    /\ ioctl = "off"
    /\ Disable("ioctl")
    /\ ioctl' = "idle"
    /\ UNCHANGED <<pending, canceling, worker, rate, oneshot, stopQueued,
                   stopRunning, stage>>

\* Symmetric shapes, and asymmetric ones with wide halves, use the engine.
KindOf(r) == IF HardwarePeriodic /\ r # "narrow" THEN r ELSE "software"

ConfigOutputOn(r) ==
    /\ ioctl = "on"
    /\ KindOf(r) # "software" => rate
    /\ Publish("ioctl", "RUNNING", KindOf(r), "ptp")
    /\ ioctl' = "idle"
    /\ UNCHANGED <<pending, canceling, worker, rate, oneshot, stopQueued,
                   stopRunning, stage>>

\* Rejected: a bad period or duty, no ART base clock, an unknown rate.
ConfigOutputReject ==
    /\ ioctl = "on"
    /\ ioctl' = "idle"
    /\ UNCHANGED <<desired, owed, pending, canceling, worker, rate, oneshot,
                   stopQueued, stopRunning, stage>>

\* tgpio_resync_outputs_after_phc_step, from settime64 and adjtime
ResyncAfterPhcStep ==
    /\ stage = "live" /\ "clock" \notin owed
    /\ desired.run = "RUNNING"
    /\ desired.gen < MaxGen
    /\ desired' = [desired EXCEPT !.gen = @ + 1]
    /\ owed' = owed \cup {"clock"}
    /\ UNCHANGED <<pending, canceling, worker, rate, callers, stage>>

BumpFreq(p) ==
    /\ p \notin owed
    /\ desired.run = "RUNNING"
    /\ desired.freq < MaxFreq
    /\ desired' = [desired EXCEPT !.freq = @ + 1]
    /\ owed' = owed \cup {p}
    /\ UNCHANGED <<pending, canceling, worker, callers, stage>>

\* tgpio_ptp_adjfine: only refreshes outputs with hardware_periodic_output
AdjFine ==
    /\ stage = "live" /\ HardwarePeriodic
    /\ BumpFreq("clock")
    /\ UNCHANGED rate

\* tgpio_art_refine_work_fn: learns (or drops) the rate, then refreshes
RefineWork ==
    /\ stage \in {"live", "unregistered"} /\ "background" \notin owed
    /\ rate' \in {TRUE, rate} \cup (IF RateResets THEN {FALSE} ELSE {})
    /\ \/ BumpFreq("background")
       \/ /\ desired.run = "STOPPED"
          /\ UNCHANGED <<desired, owed, pending, canceling, worker, callers,
                         stage>>

\* Mutation: the calibration request counts down
FlipPolarityDown(p) ==
    /\ stage = "live" /\ p \notin owed
    /\ desired.flip < MaxFlip
    /\ desired' = [desired EXCEPT !.flip = @ - 1]
    /\ owed' = owed \cup {p}
    /\ UNCHANGED <<pending, canceling, worker, rate, callers, stage>>

\* tgpio_output_invert_write, and the flip of tgpio_auto_polarity_check, whose
\* verdict rests on an earlier reading of the phase and of output_desired
FlipPolarity(p) ==
    /\ \/ p = "debugfs" /\ stage = "live"
       \/ p = "background" /\ stage \in {"live", "unregistered"}
    /\ p \notin owed
    /\ desired.flip < MaxFlip
    /\ desired' = [desired EXCEPT !.flip = @ + 1]
    /\ owed' = owed \cup {p}
    /\ UNCHANGED <<pending, canceling, worker, rate, callers, stage>>

\* tgpio_oneshot_write: the EBUSY check, the publication, the delayed stop
OneshotCheck ==
    /\ stage = "live" /\ oneshot = "idle" /\ "oneshot" \notin owed
    /\ desired.gen < MaxGen
    /\ desired.run = "STOPPED"
    /\ oneshot' = "checked"
    /\ UNCHANGED <<desired, owed, pending, canceling, worker, rate, ioctl,
                   stopQueued, stopRunning, stage>>

OneshotPublish ==
    /\ oneshot = "checked"
    /\ Publish("oneshot", "RUNNING", "symmetric", "oneshot")
    /\ oneshot' = "published"
    /\ UNCHANGED <<pending, canceling, worker, rate, ioctl, stopQueued,
                   stopRunning, stage>>

OneshotSchedule ==
    /\ oneshot = "published" /\ "oneshot" \notin owed
    /\ stopQueued' = TRUE
    /\ oneshot' = "idle"
    /\ UNCHANGED <<desired, owed, pending, canceling, worker, rate, ioctl,
                   stopRunning, stage>>

\* The delay of oneshot_stop_work expires and its function starts.
OneshotStopBegin ==
    /\ stopQueued /\ ~stopRunning /\ "oneshot_stop" \notin owed
    /\ stopQueued' = FALSE
    /\ stopRunning' = TRUE
    /\ UNCHANGED <<desired, owed, pending, canceling, worker, rate, ioctl,
                   oneshot, stage>>

\* tgpio_oneshot_stop_work_fn
OneshotStop ==
    /\ stopRunning
    /\ Disable("oneshot_stop")
    /\ stopRunning' = FALSE
    /\ UNCHANGED <<pending, canceling, worker, rate, ioctl, oneshot,
                   stopQueued, stage>>

-----------------------------------------------------------------------------
(* tgpio_output_work *)

\* tgpio_disable_output_hw
DisableOutputHw ==
    /\ en' = FALSE
    /\ phase' = "TOGGLE"
    /\ compare' = "none"
    /\ UNCHANGED shown

\* A clock conversion fails (ART unreadable, out of range).
Fault ==
    /\ faults < MaxFaults
    /\ faults' = faults + 1

\* Mutation: records the generation being asked for, not the one armed
ReconcileArmUnread(d, a) ==
    /\ IF d.kind = "software"
         THEN en' = TRUE /\ phase' = "FIRST_RISING" /\ compare' = "ahead"
         ELSE en' = FALSE /\ phase' = "ARM_PERIODIC" /\ compare' = "none"
    /\ shown' = d.gen
    /\ applied' = [gen |-> desired.gen, freq |-> d.freq, flip |-> a.flip]
    /\ timer' = TRUE
    /\ UNCHANGED faults

\* Mutation: forgets to start the wake timer
ReconcileArmAsleep(d, a) ==
    /\ IF d.kind = "software"
         THEN en' = TRUE /\ phase' = "FIRST_RISING" /\ compare' = "ahead"
         ELSE en' = FALSE /\ phase' = "ARM_PERIODIC" /\ compare' = "none"
    /\ shown' = d.gen
    /\ applied' = [gen |-> d.gen, freq |-> d.freq, flip |-> a.flip]
    /\ UNCHANGED <<timer, faults>>

\* tgpio_prepare_output_timing, tgpio_arm_output and tgpio_reconcile_arm for
\* the configuration d; a is what the work had recorded as applied.
ReconcileArm(d, a) ==
    \/ /\ IF d.kind = "software"
            THEN en' = TRUE /\ phase' = "FIRST_RISING" /\ compare' = "ahead"
            ELSE en' = FALSE /\ phase' = "ARM_PERIODIC" /\ compare' = "none"
       /\ shown' = d.gen
       /\ applied' = [gen |-> d.gen, freq |-> d.freq, flip |-> a.flip]
       /\ timer' = TRUE
       /\ UNCHANGED faults
    \/ /\ Fault
       /\ DisableOutputHw
       /\ timer' = FALSE
       /\ applied' = a

\* The work returns; its local copy dies.
Return ==
    /\ pc' = "idle"
    /\ snap' = NoConfig

WorkDequeue ==
    /\ pc = "idle" /\ pending
    /\ pending' = FALSE
    /\ pc' = "snapshot"
    /\ UNCHANGED <<desired, owed, canceling, snap, applied, hw, timer, rate,
                   faults, callers, stage>>

\* tgpio_output_desired_get
WorkSnapshot ==
    /\ pc = "snapshot"
    /\ snap' = desired
    /\ pc' = IF desired.run = "STOPPED" THEN "stop" ELSE "flip"
    /\ UNCHANGED <<desired, owed, pending, canceling, applied, hw, timer, rate,
                   faults, callers, stage>>

WorkCancelTimer ==
    /\ pc = "stop"
    /\ timer' = FALSE
    /\ pc' = "drain"
    /\ UNCHANGED <<desired, owed, pending, canceling, snap, applied, hw, rate,
                   faults, callers, stage>>

\* tgpio_hw_periodic_drain_low has waited; the block is switched off
WorkStop ==
    /\ pc = "drain"
    /\ DisableOutputHw
    /\ Return
    /\ UNCHANGED <<desired, owed, pending, canceling, applied, timer,
                   rate, faults, callers, stage>>

\* Calibration flips; tgpio_hw_periodic_invert re-arms an asymmetric output
\* from a fresh copy of output_desired.
WorkFlip ==
    /\ pc = "flip"
    /\ pc' = "reconcile"
    /\ IF /\ (snap.flip - applied.flip) % 2 = 1
          /\ phase = "HW_DUTY" /\ desired.run = "RUNNING"
         THEN ReconcileArm(desired, [applied EXCEPT !.flip = snap.flip])
         ELSE /\ applied' = [applied EXCEPT !.flip = snap.flip]
              /\ UNCHANGED <<hw, timer, faults>>
    /\ UNCHANGED <<desired, owed, pending, canceling, snap, rate, callers,
                   stage>>

WorkRearm ==
    /\ pc = "reconcile" /\ snap.gen # applied.gen
    /\ ReconcileArm(snap, applied)
    /\ Return
    /\ UNCHANGED <<desired, owed, pending, canceling, rate, callers,
                   stage>>

FreqDue == snap.freq # applied.freq
FreqApplied == [applied EXCEPT !.freq = snap.freq]

\* The generation is applied: the work ends with one of the visits below.
Visit ==
    /\ pc = "reconcile" /\ snap.gen = applied.gen
    /\ Return
    /\ UNCHANGED <<desired, owed, pending, canceling, rate, callers,
                   stage>>

\* tgpio_hw_periodic_apply_freq: PIV and COMPV are refreshed in place, or the
\* phase error is too large and the output is re-armed on its grid.
WorkApplyFreq ==
    /\ Visit
    /\ FreqDue /\ phase = "HARDWARE_PERIODIC"
    /\ \/ applied' = FreqApplied /\ UNCHANGED <<hw, timer, faults>>
       \/ ReconcileArm(snap, FreqApplied)

WorkFreqDuty ==
    /\ Visit
    /\ FreqDue /\ phase = "HW_DUTY"
    /\ applied' = FreqApplied
    /\ UNCHANGED <<hw, timer, faults>>

\* ktime_before(ktime_get_real(), output_wake_at): the wake is still to come,
\* or it is past and the clock was stepped back behind it.
BeforeWake == timer \/ StepBack

WorkFreqEarly ==
    /\ Visit
    /\ FreqDue /\ phase = "ARM_PERIODIC" /\ BeforeWake
    /\ applied' = FreqApplied
    /\ UNCHANGED <<hw, timer, faults>>

\* tgpio_arm_hardware_periodic, run by the wake (or by any earlier visit)
WorkArmPeriodic ==
    /\ Visit
    /\ phase = "ARM_PERIODIC"
    /\ applied' = FreqApplied
    /\ \/ /\ rate
          /\ en' = TRUE
          /\ phase' = IF snap.kind = "duty" THEN "HW_DUTY"
                                            ELSE "HARDWARE_PERIODIC"
          /\ timer' = (timer \/ snap.kind = "duty")
          /\ UNCHANGED <<compare, shown, faults>>
       \/ /\ ~rate
          /\ DisableOutputHw
          /\ UNCHANGED <<timer, faults>>
       \/ /\ Fault
          /\ DisableOutputHw
          /\ UNCHANGED timer

\* tgpio_hw_duty_service: arms the wake after the next edge, whether or not
\* that edge's time can be computed; an unusable COMPV ends the output.
WorkDutyService ==
    /\ Visit
    /\ ~FreqDue /\ phase = "HW_DUTY"
    /\ applied' = FreqApplied
    /\ \/ timer' = TRUE /\ UNCHANGED <<hw, faults>>
       \/ Fault /\ DisableOutputHw /\ UNCHANGED timer

WorkFreeRunning ==
    /\ Visit
    /\ ~FreqDue /\ phase = "HARDWARE_PERIODIC"
    /\ applied' = FreqApplied
    /\ UNCHANGED <<hw, timer, faults>>

\* The software path: program the next edge and arm the following wake
WorkSoftwareEdge ==
    /\ Visit
    /\ phase \in {"FIRST_RISING", "TOGGLE"}
    /\ applied' = FreqApplied
    /\ \/ /\ phase' = "TOGGLE"
          /\ compare' = "ahead"
          /\ timer' = TRUE
          /\ UNCHANGED <<en, shown, faults>>
       \/ /\ Fault
          /\ DisableOutputHw
          /\ timer' = FALSE

Work ==
    \/ WorkDequeue \/ WorkSnapshot \/ WorkCancelTimer \/ WorkStop \/ WorkFlip
    \/ WorkRearm \/ WorkApplyFreq \/ WorkFreqDuty \/ WorkFreqEarly
    \/ WorkArmPeriodic \/ WorkDutyService \/ WorkFreeRunning
    \/ WorkSoftwareEdge

-----------------------------------------------------------------------------
(* Time *)

\* tgpio_output_timer.  On the software path a wake lies one lead time before
\* the edge it prepares, hence after the edge programmed before it.
TimerFires ==
    /\ timer
    /\ phase \in {"FIRST_RISING", "TOGGLE"} => compare # "ahead"
    /\ timer' = FALSE
    /\ ScheduleWork
    /\ UNCHANGED <<desired, owed, canceling, pc, snap, applied, hw, rate,
                   faults, callers, stage>>

\* The counter reaches the programmed compare: an edge, if EN is set.
CompareReached ==
    /\ compare = "ahead"
    /\ compare' = "past"
    /\ UNCHANGED <<desired, owed, pending, canceling, pc, snap, applied, phase,
                   en, shown, timer, rate, faults, callers, stage>>

-----------------------------------------------------------------------------
(* tgpio_input_exit *)

\* tgpio_observability_exit and ptp_clock_unregister wait for their callers.
ExitUnregister ==
    /\ stage = "live"
    /\ ioctl = "idle" /\ oneshot = "idle"
    /\ owed \cap {"ioctl", "clock", "debugfs", "oneshot"} = {}
    /\ stage' = "unregistered"
    /\ UNCHANGED <<desired, owed, pending, canceling, worker, rate, callers>>

\* art_refine_work and (tgpio_disable_inputs) poll_work are cancelled.
ExitCancelBackground ==
    /\ stage = "unregistered" /\ "background" \notin owed
    /\ stage' = "closed"
    /\ UNCHANGED <<desired, owed, pending, canceling, worker, rate, callers>>

\* tgpio_disable_outputs: STOPPED is published without scheduling the work.
ExitPublishStopped ==
    /\ stage = "closed"
    /\ desired' = Stopping
    /\ stage' = "stopped"
    /\ UNCHANGED <<owed, pending, canceling, worker, rate, callers>>

ExitCancelOneshot ==
    /\ stage = "stopped" /\ ~stopRunning /\ "oneshot_stop" \notin owed
    /\ stopQueued' = FALSE
    /\ stage' = "timer1"
    /\ UNCHANGED <<desired, owed, pending, canceling, worker, rate, ioctl,
                   oneshot, stopRunning>>

ExitCancelTimer ==
    /\ \/ stage = "timer1" /\ stage' = "work1"
       \/ stage = "timer2" /\ stage' = "work2"
    /\ timer' = FALSE
    /\ UNCHANGED <<desired, owed, pending, canceling, pc, snap, applied, hw,
                   rate, faults, callers>>

\* cancel_work_sync takes the PENDING bit, then waits for a running instance.
ExitGrabWork ==
    /\ \/ stage = "work1" /\ stage' = "wait1"
       \/ stage = "work2" /\ stage' = "wait2"
    /\ pending' = FALSE
    /\ canceling' = TRUE
    /\ UNCHANGED <<desired, owed, worker, rate, callers>>

\* Mutation: one round of cancels only
ExitWaitWorkOnce ==
    /\ stage = "wait1" /\ stage' = "disable"
    /\ pc = "idle"
    /\ canceling' = FALSE
    /\ UNCHANGED <<desired, owed, pending, worker, rate, callers>>

\* Mutation: repeats the rounds until the STOPPED generation is applied
ExitWaitWorkApplied ==
    /\ \/ stage = "wait1" /\ stage' = "timer2"
       \/ /\ stage = "wait2"
          /\ stage' = IF applied.gen = desired.gen THEN "disable" ELSE "timer2"
    /\ pc = "idle"
    /\ canceling' = FALSE
    /\ UNCHANGED <<desired, owed, pending, worker, rate, callers>>

\* cancel_work_sync returns.
ExitWaitWork ==
    /\ \/ stage = "wait1" /\ stage' = "timer2"
       \/ stage = "wait2" /\ stage' = "disable"
    /\ pc = "idle"
    /\ canceling' = FALSE
    /\ UNCHANGED <<desired, owed, pending, worker, rate, callers>>

\* The last drain and disable, then tgpio_unmap_mmio_blocks and kfree.
ExitDisable ==
    /\ stage = "disable"
    /\ DisableOutputHw
    /\ stage' = "freed"
    /\ UNCHANGED <<desired, owed, pending, canceling, pc, snap, applied, timer,
                   rate, faults, callers>>

\* The module is gone: nothing more happens.
Unloaded == stage = "freed" /\ UNCHANGED vars

Exit ==
    \/ ExitUnregister \/ ExitCancelBackground \/ ExitPublishStopped
    \/ ExitCancelOneshot \/ ExitCancelTimer \/ ExitGrabWork \/ ExitWaitWork
    \/ ExitDisable

Call ==
    \/ \E on \in {"on", "off"} : ConfigOutputBegin(on)
    \/ ConfigOutputOff \/ ConfigOutputReject
    \/ \E r \in Requests : ConfigOutputOn(r)
    \/ ResyncAfterPhcStep \/ AdjFine \/ RefineWork
    \/ \E p \in {"debugfs", "background"} : FlipPolarity(p)
    \/ OneshotCheck \/ OneshotPublish \/ OneshotSchedule
    \/ OneshotStopBegin \/ OneshotStop
    \/ \E p \in Publishers : Kick(p)

Next == Call \/ Work \/ TimerFires \/ CompareReached \/ Exit \/ Unloaded

Spec == Init /\ [][Next]_vars

\* The kernel runs queued work, expires armed timers and lets a caller inside
\* the driver return; nobody is obliged to call it.
Fairness ==
    /\ WF_vars(Work) /\ WF_vars(TimerFires) /\ WF_vars(CompareReached)
    /\ \A p \in Publishers : WF_vars(Kick(p))
    /\ WF_vars(OneshotSchedule) /\ WF_vars(OneshotStopBegin)
    /\ WF_vars(OneshotStop)
    /\ WF_vars(ConfigOutputOff \/ ConfigOutputReject)
    /\ WF_vars(Exit /\ stage # "live")
FairSpec == Spec /\ Fairness

-----------------------------------------------------------------------------
(* Properties *)

\* Every variable keeps the C type of the field it models.
TypeOK ==
    /\ desired \in Desired /\ snap \in Desired
    /\ owed \subseteq Publishers
    /\ pending \in BOOLEAN /\ canceling \in BOOLEAN
    /\ pc \in {"idle", "snapshot", "stop", "drain", "flip", "reconcile"}
    /\ applied \in [gen : Nat, freq : Nat, flip : Nat]
    /\ phase \in Phases /\ en \in BOOLEAN
    /\ compare \in {"none", "ahead", "past"}
    /\ shown \in Nat /\ timer \in BOOLEAN /\ rate \in BOOLEAN /\ faults \in Nat
    /\ ioctl \in {"idle", "on", "off"}
    /\ oneshot \in {"idle", "checked", "published"}
    /\ stopQueued \in BOOLEAN /\ stopRunning \in BOOLEAN
    /\ stage \in Stages

\* Nobody is about to run output_work, and it is not running.
Settled == pc = "idle" /\ ~pending /\ owed = {}

\* No publication is lost however publishers, coalesced schedule_work calls,
\* the timer and failing conversions interleave: once tgpio_output_work has
\* settled, an enabled output is a RUNNING one and shows the newest
\* generation; a stopped or superseded waveform is never left on the line.
NoStaleWaveform ==
    Settled /\ en /\ stage \notin FromStopped
        => desired.run = "RUNNING" /\ shown = desired.gen

\* When tgpio_input_exit unmaps and frees, the output is off and no work,
\* timer or one-shot stop that could touch the freed block is left: what the
\* two rounds of cancels in tgpio_disable_outputs are for.
UnloadQuiescent ==
    stage = "freed" =>
        /\ Settled /\ ~timer /\ ~en
        /\ ~stopQueued /\ ~stopRunning /\ ioctl = "idle" /\ oneshot = "idle"

\* A RUNNING output whose generation output_work has taken over is never left
\* without a next step: either the hardware free-runs with a fixed interval,
\* or the wake that arms, services or re-programs it is still queued.
NoStranded ==
    (Settled /\ stage = "live" /\ desired.run = "RUNNING"
        /\ applied.gen = desired.gen)
        => timer \/ (phase = "HARDWARE_PERIODIC" /\ en)

\* A STOPPED publication reaches the hardware, unless it is superseded.
StopTakesEffect ==
    desired.run = "STOPPED" ~> (~en \/ desired.run = "RUNNING")

\* A RUNNING publication reaches the hardware, unless a conversion fails, it
\* is superseded by a stop or the module is unloaded.
RunTakesEffect ==
    desired.run = "RUNNING" ~>
        \/ en /\ shown = desired.gen
        \/ desired.run = "STOPPED" \/ faults > 0 \/ stage # "live"

\* Unloading terminates: no cancel waits for work that waits for it.
UnloadCompletes == stage = "unregistered" ~> stage = "freed"
=============================================================================
