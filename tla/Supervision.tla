---------------------------- MODULE Supervision ----------------------------
(***************************************************************************)
(* Two works that watch a free-running output, and output_work, which      *)
(* acts on what they find.  poll_work hands each capture of the other      *)
(* block's input to tgpio_auto_polarity_check, which asks for a flip when  *)
(* three of them in a row lie half a period off the output's grid.  Every  *)
(* ten seconds watchdog_work looks whether COMPV has moved.                *)
(*                                                                         *)
(* Neither synchronises with output_work, which re-arms and flips the      *)
(* block later, and may wait for an imminent edge to pass, or for the line *)
(* to go low before a stop.  How it does so register by register is        *)
(* LevelFlop's subject; here a re-arm, a flip and an edge are one step     *)
(* each, and no edge slips in between a flip's fold and its rewrite of the *)
(* compare (LevelFlop's Missed: short halves, or an unreadable phase).     *)
(* Time is in parts of a period.                                           *)
(***************************************************************************)
EXTENDS Integers

CONSTANTS
    Shapes,    \* waveforms: the lengths "high" and "low" of the halves
    Firsts,    \* first edges a request may ask for, relative to its time
    Wirings,   \* what the input sees: "loopback" of the output, "reference"
    RefPhase,  \* where a reference lies in each period
    WorkLate,  \* how late output_work may start
    FlipWait,  \* how long tgpio_hw_periodic_invert may wait
    DrainWait, \* how long tgpio_hw_periodic_drain_low may take (3 s)
    PollLate,  \* how late poll_work may read a capture
    Lead,      \* how long before its first edge an output is armed
    Watch,     \* TGPIO_WATCHDOG_PERIOD_S
    MaxTime,   \* bound: time
    MaxEvents  \* bound: requests, flips by a user and faults

ASSUME ShapeAssumption ==
    /\ Shapes \subseteq [high : Nat \ {0}, low : Nat \ {0}]
    /\ Firsts \subseteq Nat /\ Wirings \subseteq {"loopback", "reference"}
    /\ RefPhase \in Nat
ASSUME DelayAssumption ==
    /\ WorkLate \in Nat /\ FlipWait \in Nat /\ DrainWait \in Nat
    /\ PollLate \in Nat /\ Lead \in Nat
    /\ Watch \in Nat \ {0} /\ MaxTime \in Nat /\ MaxEvents \in Nat

VARIABLES
    now, wiring,      \* time, and the wiring of the input
    compv, level, alive, \* compare, level flop, and does the engine run?
    phase, shape,     \* output_phase, output_high_time_ns and output_low_time_ns
    wrong,            \* is output_hw_flop_high, folded, wrong?
    edge,             \* output_next_edge
    want, gen, flip,  \* desired configuration, its gen and flip_gen
    done,             \* output_applied_gen and output_applied_flip_gen
    queued, pc, since, taken, \* output_work: queued? where; since when; its copy
    capture,          \* the capture registers of the input
    streak, cooldown, \* autopol_streak, autopol_cooldown
    due, last, stalls,\* of watchdog_work; wd_last_compv, wd_stalls
    history,          \* captures judged of an inverted output; a user's flip,
                      \* or a drain past the first edge of the next request;
                      \* time of death (or of a shift after it) and warnings
                      \* since
    events

block == <<compv, level, alive, phase, shape, wrong, edge>>
desired == <<want, gen, flip>>
work == <<done, queued, pc, since, taken>>
polarity == <<streak, cooldown>>
watchdog == <<due, last, stalls>>
vars == <<now, wiring, block, desired, work, capture, polarity, watchdog,
          history, events>>

NoCapture == [fresh |-> FALSE, at |-> 0]
Off == [run |-> FALSE, shape |-> [high |-> 1, low |-> 1], first |-> 0]
NoCopy == [want |-> Off, gen |-> 0, flip |-> 0]
NoHistory == [inverted |-> 0, disturbed |-> FALSE, died |-> 0, warnings |-> 0]

Period(s) == s.high + s.low
Symmetric(s) == s.high = s.low
Running == phase \in {"periodic", "duty"}

\* A loaded module whose flop may have been high
Init ==
    /\ now = 0 /\ wiring \in Wirings
    /\ compv = 0 /\ level \in BOOLEAN /\ alive = TRUE
    /\ phase = "off" /\ shape = Off.shape
    /\ wrong = level /\ edge = 0
    /\ want = Off /\ gen = 0 /\ flip = 0
    /\ done = [gen |-> 0, flip |-> 0]
    /\ queued = FALSE /\ pc = "idle" /\ since = 0 /\ taken = NoCopy
    /\ capture = NoCapture
    /\ streak = 0 /\ cooldown = 0
    /\ due = 0 /\ last = 0 /\ stalls = 0
    /\ history = NoHistory /\ events = 0

-----------------------------------------------------------------------------
(* Time, the block and the input *)

\* What must happen before time goes on
Pressed ==
    \/ queued /\ pc = "idle" /\ now >= since + WorkLate
    \/ pc = "shift" /\ now >= since + FlipWait
    \/ pc = "drain" /\ now >= since + DrainWait
    \/ pc = "config"
    \/ phase = "arm" /\ pc = "idle" /\ ~queued /\ now + Lead >= edge
    \/ capture.fresh /\ now >= capture.at + PollLate
    \/ now >= due

Toggles == Running /\ alive /\ compv <= now + 1
Captures ==
    IF wiring = "loopback" THEN Toggles /\ ~level
    ELSE want.run /\ (now + 1) % Period(want.shape) = RefPhase

\* Does a drain of a stop keep the work from starting what is requested before
\* its first edge?
Late(time) == pc = "drain" /\ want.run /\ time + WorkLate >= want.first

Tick ==
    /\ now < MaxTime /\ ~Pressed
    /\ now' = now + 1
    /\ IF Toggles
         THEN /\ level' = ~level
              /\ compv' = compv + IF level' THEN shape.high ELSE shape.low
         ELSE UNCHANGED <<level, compv>>
    /\ capture' = IF Captures THEN [fresh |-> TRUE, at |-> now'] ELSE capture
    /\ history' = IF Late(now')
                    THEN [history EXCEPT !.disturbed = TRUE] ELSE history
    /\ UNCHANGED <<wiring, alive, phase, shape, wrong, edge, desired, work,
                   polarity, watchdog, events>>

\* The engine stops for good; only a re-arm starts it again.
Die ==
    /\ Running /\ alive /\ events < MaxEvents
    /\ alive' = FALSE
    /\ events' = events + 1
    /\ history' = [history EXCEPT !.died = now, !.warnings = 0]
    /\ UNCHANGED <<now, wiring, compv, level, phase, shape, wrong, edge,
                   desired, work, capture, polarity, watchdog>>

-----------------------------------------------------------------------------
(* Callers *)

ScheduleWork ==
    /\ queued' = TRUE
    /\ since' = IF queued \/ pc \in {"shift", "drain"} THEN since ELSE now
    /\ UNCHANGED <<done, pc, taken>>

\* tgpio_output_publish
Request(s, first) ==
    /\ events < MaxEvents /\ events' = events + 1
    /\ want' = [run |-> TRUE, shape |-> s, first |-> now + first]
    /\ gen' = gen + 1
    /\ ScheduleWork
    /\ history' = [history EXCEPT !.inverted = 0]
    /\ UNCHANGED <<now, wiring, block, flip, capture, polarity, watchdog>>

\* tgpio_disable_output
Stop ==
    /\ want.run /\ events < MaxEvents /\ events' = events + 1
    /\ want' = Off /\ gen' = gen + 1
    /\ ScheduleWork
    /\ history' = [history EXCEPT !.inverted = 0]
    /\ UNCHANGED <<now, wiring, block, flip, capture, polarity, watchdog>>

\* tgpio_output_invert_write: a user's flip
UserFlip ==
    /\ events < MaxEvents /\ events' = events + 1
    /\ flip' = flip + 1
    /\ ScheduleWork
    /\ history' = [history EXCEPT !.disturbed = TRUE]
    /\ UNCHANGED <<now, wiring, block, want, gen, capture, polarity, watchdog>>

-----------------------------------------------------------------------------
(* tgpio_auto_polarity_check *)

\* What it leaves alone
Judged ==
    /\ phase = "periodic" /\ want.run /\ Symmetric(want.shape)
    /\ capture.at >= want.first

Remainder == (capture.at - want.first) % Period(want.shape)
Distance(a, b) == IF a < b THEN b - a ELSE a - b
Near(distance) == 8 * distance < Period(want.shape)
OnGrid == Near(Remainder) \/ Near(Period(want.shape) - Remainder)
\* Mutation: measured from the wrong slot
HalfOffWhole == ~OnGrid /\ Near(Distance(Remainder, Period(want.shape)))

HalfOff == ~OnGrid /\ Near(Distance(Remainder, Period(want.shape) \div 2))

\* Will the mirror be wrong when the flips asked for are applied?
Owed == IF pc = "shift" THEN flip - taken.flip ELSE flip - done.flip
Inverted == wrong # (Owed % 2 = 1)

ReadCapture ==
    /\ capture.fresh /\ capture' = NoCapture
    /\ history' = [history EXCEPT !.inverted =
           IF ~Inverted THEN 0
           ELSE IF Judged /\ gen = done.gen THEN @ + 1 ELSE @]

\* Mutation: the cooldown counts every capture.
CheckPassedAlways ==
    /\ ReadCapture
    /\ ~Judged \/ cooldown > 0
    /\ cooldown' = cooldown - 1
    /\ UNCHANGED <<now, wiring, block, desired, work, streak, watchdog, events>>

\* A capture that says nothing is ignored; a cooldown counts those that do.
CheckPassed ==
    /\ ReadCapture
    /\ ~Judged \/ cooldown > 0
    /\ cooldown' = IF Judged THEN cooldown - 1 ELSE cooldown
    /\ UNCHANGED <<now, wiring, block, desired, work, streak, watchdog, events>>

\* A capture on the grid, or between the two, ends the streak (the comment at
\* 2569 has it that one between the two is ignored).
CheckReset ==
    /\ ReadCapture
    /\ Judged /\ cooldown = 0 /\ ~HalfOff
    /\ streak' = 0
    /\ UNCHANGED <<now, wiring, block, desired, work, cooldown, watchdog, events>>

CheckCount ==
    /\ ReadCapture
    /\ Judged /\ cooldown = 0 /\ HalfOff /\ streak < 2
    /\ streak' = streak + 1
    /\ UNCHANGED <<now, wiring, block, desired, work, cooldown, watchdog, events>>

\* Mutation: no cooldown
CheckFlipHot ==
    /\ ReadCapture
    /\ Judged /\ cooldown = 0 /\ HalfOff /\ streak = 2
    /\ streak' = 0 /\ cooldown' = 0
    /\ flip' = flip + 1
    /\ ScheduleWork
    /\ UNCHANGED <<now, wiring, block, want, gen, watchdog, events>>

\* The third asks for a flip.
CheckFlip ==
    /\ ReadCapture
    /\ Judged /\ cooldown = 0 /\ HalfOff /\ streak = 2
    /\ streak' = 0 /\ cooldown' = 3
    /\ flip' = flip + 1
    /\ ScheduleWork
    /\ UNCHANGED <<now, wiring, block, want, gen, watchdog, events>>

-----------------------------------------------------------------------------
(* tgpio_output_work *)

NextEdge(w) ==
    CHOOSE e \in (now + Lead + 1)..(now + Lead + Period(w.shape) + w.first) :
        /\ e >= w.first /\ (e - w.first) % Period(w.shape) = 0
        /\ \A d \in (now + Lead + 1)..(e - 1) :
             d < w.first \/ (d - w.first) % Period(w.shape) # 0

\* tgpio_reconcile_arm: the block stops, to be armed before the next edge.
Reconcile(w) ==
    /\ phase' = "arm" /\ shape' = w.shape
    /\ edge' = NextEdge(w)

Return ==
    /\ pc' = "idle" /\ taken' = NoCopy
    /\ since' = now
    /\ UNCHANGED queued

\* The level that tgpio_hw_flop_fold gives the mirror
BelievedHigh == level # wrong

\* A copy of the desired configuration that is STOPPED disables the block, a
\* running one only after tgpio_hw_periodic_drain_low: meanwhile the engine
\* toggles, and what is published waits.
WorkStop ==
    /\ pc = "idle" /\ queued /\ ~want.run
    /\ queued' = FALSE
    /\ IF Running /\ BelievedHigh
         THEN pc' = "drain" /\ since' = now /\ UNCHANGED phase
         ELSE phase' = "off" /\ UNCHANGED <<pc, since>>
    /\ UNCHANGED <<now, wiring, compv, level, alive, shape, wrong, edge,
                   desired, done, taken, capture, polarity, watchdog, history,
                   events>>

\* One of the drain's polls finds the mirror low, or the drain gives up.
WorkDrained ==
    /\ pc = "drain"
    /\ ~BelievedHigh \/ now >= since + DrainWait
    /\ phase' = "off"
    /\ Return
    /\ UNCHANGED <<now, wiring, compv, level, alive, shape, wrong, edge,
                   desired, done, capture, polarity, watchdog, history, events>>

Copy == [want |-> want, gen |-> gen, flip |-> flip]

\* An odd number of flips corrects the mirror: tgpio_hw_periodic_invert waits
\* before it shifts a free-running output, and re-arms an asymmetric one.
WorkBegin ==
    /\ pc = "idle" /\ queued /\ want.run
    /\ queued' = FALSE
    /\ taken' = Copy
    /\ IF (flip - done.flip) % 2 = 0
         THEN pc' = "config" /\ UNCHANGED <<wrong, since, phase, shape, edge>>
         ELSE /\ wrong' = ~wrong
              /\ IF phase = "periodic" THEN pc' = "shift" /\ since' = now
                 ELSE pc' = "config" /\ UNCHANGED since
              /\ IF phase = "duty" THEN Reconcile(want)
                 ELSE UNCHANGED <<phase, shape, edge>>
    /\ done' = [gen |-> IF phase # phase' THEN gen ELSE done.gen,
                flip |-> IF pc' = "shift" THEN done.flip ELSE flip]
    /\ UNCHANGED <<now, wiring, compv, level, alive, desired, capture,
                   polarity, watchdog, history, events>>

\* The pending compare is shifted by half a period.
WorkShift ==
    /\ pc = "shift"
    /\ compv' = compv + shape.high
    /\ done' = [done EXCEPT !.flip = taken.flip]
    /\ pc' = "config"
    /\ history' = [history EXCEPT !.died = IF alive THEN 0 ELSE now,
                                  !.warnings = 0]
    /\ UNCHANGED <<now, wiring, level, alive, phase, shape, wrong, edge,
                   desired, queued, since, taken, capture, polarity, watchdog,
                   events>>

\* A new configuration is reconciled,
WorkReconcile ==
    /\ pc = "config" /\ taken.gen # done.gen
    /\ Reconcile(taken.want)
    /\ done' = [done EXCEPT !.gen = taken.gen]
    /\ Return
    /\ UNCHANGED <<now, wiring, compv, level, alive, wrong, desired, capture,
                   polarity, watchdog, history, events>>

PushLate(compare) ==
    IF compare > now THEN compare
    ELSE compare + ((now - compare) \div Period(shape) + 1) * Period(shape)

\* a reconciled one armed: tgpio_arm_hardware_periodic picks the slot of the
\* first toggle from the mirror,
WorkArm ==
    /\ pc = "config" /\ taken.gen = done.gen /\ phase = "arm"
    /\ compv' = PushLate(IF level = wrong THEN edge ELSE edge - shape.low)
    /\ phase' = IF Symmetric(shape) THEN "periodic" ELSE "duty"
    /\ alive' = TRUE
    /\ history' = [history EXCEPT !.died = 0, !.warnings = 0]
    /\ Return
    /\ UNCHANGED <<now, wiring, level, shape, wrong, edge, desired, done,
                   capture, polarity, watchdog, events>>

\* and a running one left alone.
WorkReturn ==
    /\ pc = "config" /\ taken.gen = done.gen /\ phase # "arm"
    /\ Return
    /\ UNCHANGED <<now, wiring, block, desired, done, capture, polarity,
                   watchdog, history, events>>

\* The timer of an output that waits to be armed
Wake ==
    /\ phase = "arm" /\ pc = "idle" /\ ~queued /\ now + Lead >= edge
    /\ ScheduleWork
    /\ UNCHANGED <<now, wiring, block, desired, capture, polarity, watchdog,
                   history, events>>

-----------------------------------------------------------------------------
(* tgpio_watchdog_work_fn *)

Larger(a, b) == IF a > b THEN a ELSE b

\* Mutation: slow outputs are not given longer
PatienceFixed == 3 * Watch

\* How long a compare may stand still
Patience == Larger(3 * Watch, 3 * 2 * shape.high)

\* Mutation: every visit to a stalled output warns
WarnsOften(n) == n * Watch > Patience

\* A warning is due on the first visit after that.
Warns(n) == n * Watch > Patience /\ n * Watch <= Patience + Watch

WatchVisit ==
    /\ now >= due
    /\ due' = now + Watch

WatchIdle ==
    /\ WatchVisit /\ ~Running
    /\ UNCHANGED <<now, wiring, block, desired, work, capture, polarity, last,
                   stalls, history, events>>

WatchAdvancing ==
    /\ WatchVisit /\ Running /\ compv # last
    /\ last' = compv /\ stalls' = 0
    /\ UNCHANGED <<now, wiring, block, desired, work, capture, polarity,
                   history, events>>

WatchStuck ==
    /\ WatchVisit /\ Running /\ compv = last
    /\ stalls' = stalls + 1
    /\ history' = IF Warns(stalls')
                    THEN [history EXCEPT !.warnings = @ + 1] ELSE history
    /\ UNCHANGED <<now, wiring, block, desired, work, capture, polarity, last,
                   events>>

-----------------------------------------------------------------------------
Horizon == now = MaxTime /\ UNCHANGED vars

User ==
    \/ \E s \in Shapes, first \in Firsts : Request(s, first)
    \/ Stop \/ UserFlip
Poll == CheckPassed \/ CheckReset \/ CheckCount \/ CheckFlip
Work ==
    WorkStop \/ WorkDrained \/ WorkBegin \/ WorkShift \/ WorkReconcile
    \/ WorkArm \/ WorkReturn \/ Wake
WatchdogWork == WatchIdle \/ WatchAdvancing \/ WatchStuck

Next == Tick \/ Die \/ User \/ Poll \/ Work \/ WatchdogWork \/ Horizon

Spec == Init /\ [][Next]_vars
-----------------------------------------------------------------------------
(* Properties *)

\* The fields of both works keep their ranges: the cooldown does not wrap.
TypeOK ==
    /\ now \in 0..MaxTime /\ wiring \in Wirings
    /\ compv \in Nat /\ level \in BOOLEAN /\ alive \in BOOLEAN
    /\ phase \in {"off", "arm", "periodic", "duty"}
    /\ {shape, want.shape, taken.want.shape} \subseteq Shapes \union {Off.shape}
    /\ wrong \in BOOLEAN /\ edge \in Nat
    /\ gen \in 0..MaxEvents /\ flip \in Nat
    /\ done.gen \in 0..gen /\ done.flip \in 0..flip
    /\ queued \in BOOLEAN /\ pc \in {"idle", "drain", "shift", "config"}
    /\ since \in 0..now /\ capture.at \in 0..now
    /\ streak \in 0..2 /\ cooldown \in 0..3
    /\ due \in 0..(now + Watch) /\ last \in Nat /\ stalls \in Nat
    /\ events \in 0..MaxEvents

\* In loopback no mirror is flipped that is right, or will be when the flips
\* asked for before are applied: the three captures and the cooldown outlast
\* the time output_work takes, whatever is requested or stopped meanwhile
\* (tgpio-ptp-input.c:2569: "cools down after a flip while the shift takes
\* effect"). Not so once a user has flipped, or a stop was still drained when
\* the next request ought to begin: then captures of the old waveform are
\* judged by the new grid, and flip a right mirror.
RightMirrorKept ==
    [][CheckFlip /\ wiring = "loopback" /\ ~history.disturbed => Inverted]_vars

\* An inverted output in loopback is found out by the third of its captures
\* that are judged: the fourth comes when its flip is owed or done.
InvertedFoundOut ==
    wiring = "loopback" /\ ~history.disturbed => history.inverted <= 3

\* A warning of tgpio_watchdog_work_fn says that the engine is dead: the
\* compare is overdue.
WarnsOnlyDead ==
    [][history'.warnings > history.warnings => compv < now]_vars

\* tgpio_watchdog_work_fn "warns once per stall episode": never twice, and
\* never late.
WarnsOncePerStall ==
    /\ history.warnings <= 1
    /\ Running /\ ~alive
          /\ now > history.died + (Patience \div Watch + 2) * Watch
       => history.warnings = 1

\* README.md:732-734: with an external reference on the input the option
\* "stays safely inert": tgpio_auto_polarity_check asks for no flip.
InertOnReference ==
    [][wiring = "reference" => ~CheckFlip]_vars
=============================================================================
