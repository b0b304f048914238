---------------------------- MODULE InputCapture ----------------------------
(***************************************************************************)
(* The capture inputs of tgpio-ptp-input.c, with both blocks as inputs.    *)
(*                                                                         *)
(* PTP_EXTTS_REQUEST publishes input_desired and kicks poll_work, which    *)
(* alone touches the input registers: it brings every block to its desired *)
(* configuration, reads the capture registers of the enabled ones, emits   *)
(* an event for each block whose event counter moved, pairs captures for   *)
(* the TDC, and re-queues itself while an input is enabled.  The tdc_reset *)
(* file clears the TDC statistics from another context.                    *)
(*                                                                         *)
(* Captures carry ART times; an edge of the signal advances the clock by   *)
(* one.  The delay of poll_work is abstracted: queued work may run at any  *)
(* time.                                                                   *)
(***************************************************************************)
EXTENDS Integers

CONSTANTS
    CounterRestarts, \* may setting EN restart the hardware event counter?
    StartBlock,      \* module parameter tdc_start
    MaxTime,         \* bound: edges of the signals
    MaxConfigs,      \* bound: PTP_EXTTS_REQUEST calls
    MaxResets        \* bound: writes to tdc_reset

Blocks == {0, 1}

ASSUME FlagAssumption == CounterRestarts \in BOOLEAN /\ StartBlock \in Blocks
ASSUME BoundAssumption ==
    MaxTime \in Nat /\ MaxConfigs \in Nat /\ MaxResets \in Nat

VARIABLES
    desired,   \* input_desired of each block
    owed,      \* requests between atomic_set and mod_delayed_work
    queued,    \* is poll_work queued, with or without a delay?
    canceling, \* cancel_delayed_work_sync owns poll_work
    pc,        \* where poll_work is
    block,     \* its loop index
    active,    \* its local variable: an input is on
    reading,   \* the capture it has read
    applied,   \* input_applied of each block
    last,      \* last_event_count
    prev,      \* input_prev_art, or 0 without input_have_prev
    intervals, \* interval_count
    tdc,       \* the TDC fields of struct tgpio_device
    en, ec, tcv, \* EN, event counter and capture register of each block
    now,       \* the ART
    stage,     \* progress of tgpio_input_exit
    configs, resets, \* calls made so far
    history    \* of each block: edges latched, emitted and skipped; when EN was
               \* last set; the newest capture in a completed TDC pair; has
               \* its event counter restarted?

polling == <<pc, block, active, reading>>
input == <<applied, last>>
stats == <<prev, intervals, tdc>>
hw == <<en, ec, tcv, now>>
calls == <<configs, resets>>
vars == <<desired, owed, queued, canceling, polling, input, stats, hw, stage,
          calls, history>>

Configs == {"off", "rising", "both"}
NoReading == [art |-> 0, delta |-> 0]
NoTdc == [count |-> 0, lost |-> 0, last |-> 0, min |-> 0, max |-> 0,
          sum |-> 0, pending |-> FALSE, block |-> 0, art |-> 0]

NoHistory == [captured |-> 0, delivered |-> 0, dropped |-> 0,
              since |-> 0, used |-> 0, restarted |-> FALSE]

Init ==
    /\ desired = [b \in Blocks |-> "off"]
    /\ owed = {}
    /\ queued = FALSE
    /\ canceling = FALSE
    /\ pc = "idle" /\ block = 0 /\ active = FALSE /\ reading = NoReading
    /\ applied = [b \in Blocks |-> "off"]
    /\ last = [b \in Blocks |-> 0]
    /\ prev = [b \in Blocks |-> 0]
    /\ intervals = [b \in Blocks |-> 0]
    /\ tdc = NoTdc
    /\ en = [b \in Blocks |-> FALSE]
    /\ ec = [b \in Blocks |-> 0]
    /\ tcv = [b \in Blocks |-> 0]
    /\ now = 0
    /\ stage = "live"
    /\ configs = 0 /\ resets = 0
    /\ history = [b \in Blocks |-> NoHistory]

-----------------------------------------------------------------------------
(* Callers *)

\* tgpio_config_input up to the kick of poll_work
ConfigInput(b, c) ==
    /\ stage = "live" /\ b \notin owed
    /\ configs < MaxConfigs
    /\ configs' = configs + 1
    /\ desired' = [desired EXCEPT ![b] = c]
    /\ owed' = owed \cup {b}
    /\ UNCHANGED <<queued, canceling, polling, input, stats, hw, stage, resets,
                   history>>

\* Mutation: the request relies on a poll that may not be coming
KickPollLazily(b) ==
    /\ b \in owed
    /\ owed' = owed \ {b}
    /\ UNCHANGED <<desired, queued, canceling, polling, input, stats, hw,
                   stage, calls, history>>

\* mod_delayed_work: queues poll_work, or pulls it forward
KickPoll(b) ==
    /\ b \in owed
    /\ owed' = owed \ {b}
    /\ queued' = TRUE
    /\ UNCHANGED <<desired, canceling, polling, input, stats, hw, stage, calls,
                   history>>

\* tgpio_tdc_reset_write: the pending capture is kept
TdcReset ==
    /\ stage = "live" /\ resets < MaxResets
    /\ resets' = resets + 1
    /\ tdc' = [NoTdc EXCEPT !.pending = tdc.pending, !.block = tdc.block,
                            !.art = tdc.art]
    /\ UNCHANGED <<desired, owed, queued, canceling, polling, input, prev,
                   intervals, hw, stage, configs, history>>

-----------------------------------------------------------------------------
(* The hardware *)

\* Selected edges arrive on the blocks of S at the next ART cycle.
Edge(S) ==
    /\ now < MaxTime
    /\ S # {} /\ \A b \in S : en[b]
    /\ now' = now + 1
    /\ ec' = [b \in Blocks |-> IF b \in S THEN ec[b] + 1 ELSE ec[b]]
    /\ tcv' = [b \in Blocks |-> IF b \in S THEN now + 1 ELSE tcv[b]]
    /\ history' = [b \in Blocks |-> [history[b] EXCEPT
                      !.captured = IF b \in S THEN @ + 1 ELSE @]]
    /\ UNCHANGED <<desired, owed, queued, canceling, polling, input, stats, en,
                   stage, calls>>

-----------------------------------------------------------------------------
(* tgpio_poll_work *)

PollBegin ==
    /\ pc = "idle" /\ queued
    /\ queued' = FALSE
    /\ pc' = "reconcile" /\ block' = 0 /\ active' = FALSE
    /\ UNCHANGED <<desired, owed, canceling, reading, input, stats, hw, stage,
                   calls, history>>

\* Mutation: the loop runs past the last block
NextBlockPast ==
    /\ block' = block + 1
    /\ pc' = IF block = 2 THEN "end" ELSE "reconcile"

NextBlock ==
    /\ block' = block + 1
    /\ pc' = IF block = 1 THEN "end" ELSE "reconcile"

\* Mutation: the event counter is not baselined
ApplyInputUnbased(b, c) ==
    /\ en' = [en EXCEPT ![b] = c # "off"]
    /\ history' = [history EXCEPT ![b].since = IF c = "off" THEN @ ELSE now]
    /\ UNCHANGED <<last, ec>>

\* tgpio_apply_input: an unread capture is skipped by the baseline
ApplyInput(b, c) ==
    /\ en' = [en EXCEPT ![b] = c # "off"]
    /\ IF c = "off"
         THEN UNCHANGED <<last, ec, history>>
         ELSE /\ last' = [last EXCEPT ![b] = ec[b]]
              /\ \/ UNCHANGED ec
                 \/ CounterRestarts /\ ec' = [ec EXCEPT ![b] = 0]
              /\ history' = [history EXCEPT ![b].dropped = @ + ec[b] - last[b],
                                            ![b].since = now,
                                            ![b].restarted = @ \/ ec' # ec]

\* Mutation: an input that is off is passed over before it is reconciled
ReconcileOffFirst ==
    /\ pc = "reconcile"
    /\ IF desired[block] = "off"
         THEN NextBlock /\ UNCHANGED <<active, applied, last, en, ec, history>>
         ELSE /\ pc' = "read" /\ active' = TRUE /\ UNCHANGED block
              /\ applied' = [applied EXCEPT ![block] = desired[block]]
              /\ IF desired[block] # applied[block]
                   THEN ApplyInput(block, desired[block])
                   ELSE UNCHANGED <<last, en, ec, history>>
    /\ UNCHANGED <<desired, owed, queued, canceling, reading, stats, tcv, now,
                   stage, calls>>

\* One atomic_read of input_desired decides both the reconciliation and
\* whether the capture registers are read.
Reconcile ==
    /\ pc = "reconcile"
    /\ applied' = [applied EXCEPT ![block] = desired[block]]
    /\ IF desired[block] # applied[block]
         THEN ApplyInput(block, desired[block])
         ELSE UNCHANGED <<last, en, ec, history>>
    /\ IF desired[block] = "off"
         THEN NextBlock /\ UNCHANGED active
         ELSE pc' = "read" /\ active' = TRUE /\ UNCHANGED block
    /\ UNCHANGED <<desired, owed, queued, canceling, reading, stats, tcv, now,
                   stage, calls>>

\* The difference of two u64 counters
LossLimit == 4096
EventDelta(count, from) ==
    IF count >= from THEN count - from ELSE LossLimit + 1

ReadCapture ==
    /\ pc = "read"
    /\ IF ec[block] # last[block]
         THEN /\ reading' = [art |-> tcv[block],
                             delta |-> EventDelta(ec[block], last[block])]
              /\ last' = [last EXCEPT ![block] = ec[block]]
              /\ pc' = "emit" /\ UNCHANGED block
         ELSE NextBlock /\ UNCHANGED <<reading, last>>
    /\ UNCHANGED <<desired, owed, queued, canceling, active, applied, stats, hw,
                   stage, calls, history>>

\* tgpio_input_stats_update
StatsUpdate ==
    /\ intervals' = [intervals EXCEPT ![block] =
           IF prev[block] > 0 /\ reading.art > prev[block] THEN @ + 1 ELSE @]
    /\ prev' = [prev EXCEPT ![block] = reading.art]

\* tgpio_emit_event, followed by the statistics
EmitEvent ==
    /\ pc = "emit"
    /\ history' = [history EXCEPT ![block].delivered = @ + 1]
    /\ StatsUpdate
    /\ pc' = "tdc"
    /\ UNCHANGED <<desired, owed, queued, canceling, block, active, reading,
                   input, tdc, hw, stage, calls>>

\* Mutation: the capture that is delivered counts as lost, too
LostWithLast == IF reading.delta > 1 /\ reading.delta <= LossLimit
                THEN reading.delta ELSE 0

Lost == IF reading.delta > 1 /\ reading.delta <= LossLimit
        THEN reading.delta - 1 ELSE 0
Pairs == tdc.pending /\ tdc.block # block

UsePair == history' = [history EXCEPT ![tdc.block].used = tdc.art,
                                      ![block].used = reading.art]

\* tgpio_tdc_capture: a first or repeated capture arms the measurement
TdcArm ==
    /\ pc = "tdc" /\ ~Pairs
    /\ tdc' = [tdc EXCEPT !.lost = @ + Lost, !.pending = TRUE,
                          !.block = block, !.art = reading.art]
    /\ reading' = NoReading
    /\ NextBlock
    /\ UNCHANGED <<desired, owed, queued, canceling, active, input, prev,
                   intervals, hw, stage, calls, history>>

\* Mutation: a completed pair stays armed
TdcCompleteArmed ==
    /\ pc = "tdc" /\ Pairs
    /\ tdc' = [tdc EXCEPT !.lost = @ + Lost, !.count = @ + 1]
    /\ pc' = "tally"
    /\ UsePair
    /\ UNCHANGED <<desired, owed, queued, canceling, block, active, reading,
                   input, prev, intervals, hw, stage, calls>>

\* A capture on the other input completes it, up to tdc_count++
TdcComplete ==
    /\ pc = "tdc" /\ Pairs
    /\ tdc' = [tdc EXCEPT !.lost = @ + Lost, !.pending = FALSE,
                          !.count = @ + 1]
    /\ pc' = "tally"
    /\ UsePair
    /\ UNCHANGED <<desired, owed, queued, canceling, block, active, reading,
                   input, prev, intervals, hw, stage, calls>>

\* The duration cannot be converted: the pair is given up.
TdcDiscard ==
    /\ pc = "tdc" /\ Pairs
    /\ tdc' = [tdc EXCEPT !.lost = @ + Lost, !.pending = FALSE]
    /\ reading' = NoReading
    /\ NextBlock
    /\ UsePair
    /\ UNCHANGED <<desired, owed, queued, canceling, active, input, prev,
                   intervals, hw, stage, calls>>

\* Stop minus start, whichever of the two completed the pair
Duration == IF block = StartBlock THEN tdc.art - reading.art
                                  ELSE reading.art - tdc.art

\* Mutation: the extremes in an if / else if
TallyElseIf(d) ==
    tdc' = [tdc EXCEPT !.last = d,
                !.min = IF tdc.count = 1 \/ d < @ THEN d ELSE @,
                !.max = IF tdc.count # 1 /\ d >= tdc.min /\ d > @ THEN d ELSE @,
                !.sum = @ + d]

Tally(d) ==
    tdc' = [tdc EXCEPT !.last = d,
                !.min = IF tdc.count = 1 \/ d < @ THEN d ELSE @,
                !.max = IF tdc.count = 1 \/ d > @ THEN d ELSE @,
                !.sum = @ + d]

\* The rest of the statistics of a measurement
TdcTally ==
    /\ pc = "tally"
    /\ Tally(Duration)
    /\ reading' = NoReading
    /\ NextBlock
    /\ UNCHANGED <<desired, owed, queued, canceling, active, input, prev,
                   intervals, hw, stage, calls, history>>

\* Mutation: only the last block keeps the poll going
PollEndLast ==
    /\ pc = "end"
    /\ queued' = (queued \/ (applied[1] # "off" /\ ~canceling))
    /\ pc' = "idle" /\ block' = 0 /\ active' = FALSE
    /\ UNCHANGED <<desired, owed, canceling, reading, input, stats, hw, stage,
                   calls, history>>

\* schedule_delayed_work while an input is on; refused to a cancelled work
PollEnd ==
    /\ pc = "end"
    /\ queued' = (queued \/ (active /\ ~canceling))
    /\ pc' = "idle" /\ block' = 0 /\ active' = FALSE
    /\ UNCHANGED <<desired, owed, canceling, reading, input, stats, hw, stage,
                   calls, history>>

PollWork ==
    \/ PollBegin \/ Reconcile \/ ReadCapture \/ EmitEvent \/ TdcArm
    \/ TdcComplete \/ TdcDiscard \/ TdcTally \/ PollEnd

-----------------------------------------------------------------------------
(* tgpio_input_exit and tgpio_disable_inputs *)

\* tgpio_observability_exit and ptp_clock_unregister wait for their callers.
ExitUnregister ==
    /\ stage = "live" /\ owed = {}
    /\ stage' = "unregistered"
    /\ UNCHANGED <<desired, owed, queued, canceling, polling, input, stats, hw,
                   calls, history>>

ExitGrabPoll ==
    /\ stage = "unregistered"
    /\ stage' = "cancel"
    /\ queued' = FALSE /\ canceling' = TRUE
    /\ UNCHANGED <<desired, owed, polling, input, stats, hw, calls, history>>

\* Mutation: cancels without waiting for a running poll
ExitWaitPollNot ==
    /\ stage = "cancel"
    /\ stage' = "freed"
    /\ canceling' = FALSE
    /\ en' = [b \in Blocks |-> FALSE]
    /\ desired' = [b \in Blocks |-> "off"]
    /\ UNCHANGED <<owed, queued, polling, input, stats, ec, tcv, now, calls,
                   history>>

\* cancel_delayed_work_sync returns; the blocks are switched off and freed.
ExitWaitPoll ==
    /\ stage = "cancel" /\ pc = "idle"
    /\ stage' = "freed"
    /\ canceling' = FALSE
    /\ en' = [b \in Blocks |-> FALSE]
    /\ desired' = [b \in Blocks |-> "off"]
    /\ UNCHANGED <<owed, queued, polling, input, stats, ec, tcv, now, calls,
                   history>>

Unloaded == stage = "freed" /\ UNCHANGED vars

Next ==
    \/ \E b \in Blocks, c \in Configs : ConfigInput(b, c)
    \/ \E b \in Blocks : KickPoll(b)
    \/ TdcReset
    \/ \E S \in SUBSET Blocks : Edge(S)
    \/ PollWork
    \/ ExitUnregister \/ ExitGrabPoll \/ ExitWaitPoll \/ Unloaded

Spec == Init /\ [][Next]_vars

\* The workqueue runs what is queued, a caller leaves the driver and an unload
\* that has begun goes on; nobody is obliged to call the driver.
FairSpec ==
    /\ Spec
    /\ WF_vars(PollWork)
    /\ WF_vars(ExitGrabPoll) /\ WF_vars(ExitWaitPoll)
    /\ \A b \in Blocks : WF_vars(KickPoll(b))

-----------------------------------------------------------------------------
(* Properties *)

\* Every variable keeps the C type of the field it models.
TypeOK ==
    /\ desired \in [Blocks -> Configs] /\ applied \in [Blocks -> Configs]
    /\ owed \subseteq Blocks
    /\ queued \in BOOLEAN /\ canceling \in BOOLEAN /\ active \in BOOLEAN
    /\ pc \in {"idle", "reconcile", "read", "emit", "tdc", "tally", "end"}
    /\ block \in IF pc = "end" THEN {2} ELSE Blocks
    /\ reading \in [art : Nat, delta : Nat]
    /\ last \in [Blocks -> Nat] /\ prev \in [Blocks -> Nat]
    /\ intervals \in [Blocks -> Nat]
    /\ tdc \in [count : Nat, lost : Nat, last : Int, min : Int, max : Int,
                sum : Int, pending : BOOLEAN, block : Blocks, art : Nat]
    /\ en \in [Blocks -> BOOLEAN] /\ ec \in [Blocks -> Nat]
    /\ tcv \in [Blocks -> Nat] /\ now \in Nat
    /\ stage \in {"live", "unregistered", "cancel", "freed"}
    /\ configs \in Nat /\ resets \in Nat
    /\ history \in [Blocks -> [captured : Nat, delivered : Nat, dropped : Int,
                               since : Nat, used : Nat,
                               restarted : BOOLEAN]]

\* Every request reaches the hardware: whenever poll_work is neither running
\* nor queued and no request owes it a kick, each input has its desired
\* configuration and none is enabled without a poll to come.
NoInputForgotten ==
    (pc = "idle" /\ ~queued /\ owed = {} /\ stage = "live")
        => \A b \in Blocks :
             desired[b] = "off" /\ applied[b] = "off" /\ ~en[b]

\* poll_work emits an edge at most once and never one that was latched before
\* the input was (re-)enabled: its time is later than any emitted before.
\* (A counter that restarts at enable has the old capture emitted again.)
EventsFresh ==
    [][EmitEvent /\ ~history[block].restarted
         => /\ reading.art > prev[block]
            /\ reading.art > history[block].since]_vars

\* No edge disappears silently: every latched edge has been emitted, counted
\* in tdc_lost, skipped by the baseline of a re-configuration, or is unread
\* (until a counter restarts or the statistics are reset).
EdgesAccounted ==
    (/\ pc \in {"idle", "reconcile", "read", "end"} /\ resets = 0
     /\ \A b \in Blocks : ~history[b].restarted)
        => LET loose(b) == history[b].captured - history[b].delivered
                             - history[b].dropped - (ec[b] - last[b])
           IN loose(0) + loose(1) = tdc.lost

\* No capture takes part in two TDC measurements, unless a restart of an
\* event counter has it emitted twice.
TdcUsesCapturesOnce ==
    [][TdcComplete /\ (\A b \in Blocks : ~history[b].restarted)
         => /\ tdc.art > history[tdc.block].used
            /\ reading.art > history[block].used]_vars

\* Between updates, the mean of the TDC measurements lies between the
\* smallest and the largest; tgpio_tdc_reset_write, which may come between the
\* count and the sum of one measurement, spoils that.
TdcMeanBounded ==
    resets = 0 /\ pc # "tally" /\ tdc.count > 0
        => /\ tdc.count * tdc.min <= tdc.sum
           /\ tdc.sum <= tdc.count * tdc.max

\* When the module's memory is freed, poll_work neither runs nor is queued and
\* no block latches edges.
UnloadQuiescent ==
    stage = "freed" => pc = "idle" /\ ~queued /\ ~(en[0] \/ en[1])

\* An edge latched by an enabled input is emitted (or skipped by a
\* re-configuration), unless the input is switched off or the module unloaded.
EdgeDelivered ==
    \A b \in Blocks :
        ec[b] # last[b] ~> \/ ec[b] = last[b] \/ desired[b] = "off"
                           \/ stage # "live"

\* A request to switch an input off stops its hardware.
DisableTakesEffect ==
    \A b \in Blocks :
        (desired[b] = "off") ~> (~en[b] \/ desired[b] # "off")
=============================================================================
