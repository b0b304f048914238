# TGPIO driver: specifications, model checking and proofs

The repository is a Linux driver for the Intel Time-Aware GPIO blocks
(`src/tgpio-ptp-input.c`), with a Windows port (`windows/`), a terminal UI,
scripts and a paper. The driver exposes two TGPIO blocks as PTP pins: an *input*
block latches the Always Running Timer (ART) on an edge, an *output* block
generates a waveform at programmed ART values. This directory models the parts in
which concurrent contexts meet, or in which software has to follow hardware it
cannot read. Line numbers without a file are lines of `src/tgpio-ptp-input.c`.

## 1. Inventory

| Component | State | Operations | Interacts with |
|---|---|---|---|
| Output control | `output_desired` under `output_seqlock`; `output_applied_*`, `output_phase`, the hrtimer, `output_work`, `oneshot_stop_work` | `PTP_PEROUT_REQUEST`, PHC step and frequency updates, debugfs `output_invert*` and `oneshot*`, `tgpio_output_work` | clock (conversions), level flop, PTP core |
| Level flop | `output_hw_flop_high`, `output_hw_ckpt_compv`, `output_hw_piv`; hardware COMPV, PIV, EN, PM and the flop | arm, duty service, frequency refresh, nudge, inversion, drain, disable | the running hardware |
| Input capture | `input_desired`, `input_applied`, `last_event_count`, interval statistics | `PTP_EXTTS_REQUEST`, `tgpio_poll_work`, `tdc_reset` | PTP events, TDC, auto-polarity |
| TDC | `tdc_*` of `struct tgpio_device` | pairing and tally in `tgpio_tdc_capture`, reset | input capture |
| Auto-polarity | one streak and one cooldown of `struct tgpio_device` | `tgpio_auto_polarity_check` from the poll | inputs, output control |
| PTP clock | `phc` under `phc_seqlock` | settime, adjtime, adjfine, gettime | outputs (resync), refinement |
| Rate refinement | two sample rings, `tgpio_realtime_rate_*`, EMA | `tgpio_art_refine_work_fn`, `tgpio_sample_art_real` | CLOCK_REALTIME, PTP clock, outputs |
| Clock arithmetic | none | ART/ns rescaling, first-edge alignment, lead times, scaled_ppm | everything |
| Watchdog | `wd_last_compv`, `wd_stalls` | `tgpio_watchdog_work_fn` | outputs (reads only) |
| Load and unload | the device | `tgpio_input_init`, `tgpio_input_exit` | everything |
| MMIO access, discovery, logs, traces | registers | I/O and formatting | |
| Windows driver | `struct tgpio_win_block` (mode and mirror of the flop) under a spin lock | IOCTLs of a sequential queue, device add and cleanup | the running hardware |
| Windows tool and tests; TUI; scripts; packaging; paper | | | |

What each component has to get right:

* **Output control.** Publishers run in any process or work, never touch the
  registers, and end with `schedule_work`; the work is the single writer of the
  hardware and of the timer, and acts on a snapshot. No publication may be lost
  to coalescing, no replaced waveform may stay on the pin, a running output must
  always have a next step, and nothing may touch the block after unload.
* **Level flop, Windows driver.** The flop is write-only and outlives the driver.
  Its software mirror must count every toggle exactly once while interval and
  compare are rewritten under a running block, or the waveform comes out inverted.
* **Input capture.** Requests only publish; the poll works from what it reads. No
  input may be forgotten, no stale event emitted, no coalesced edge left
  uncounted, no capture used for two measurements.
* **Auto-polarity, watchdog.** Both judge an output from outside while another
  work re-arms and flips it: a flip must be asked for when and only when the
  mirror is wrong, a warning must be given once, and only of a dead engine.
* **PTP clock and refinement.** Every re-base must keep time continuous, although
  the ART is sampled before the lock is taken; a rate must not span a clock step.
* **Clock arithmetic.** No overflow, correct rounding, alignment on the grid.
* **Load and unload.** No callback or work may outlive what it uses, on the error
  path too.

`PROJECT.json` lists the hazards behind these, each at its line.

## 2. Plan

| # | Module | Content | State |
|---|---|---|---|
| A | `OutputControl`, `OutputControlProofs` | publishers, work, timer, teardown | done; all safety invariants proved |
| B | `InputCapture`, `InputCaptureProofs` | requests, poll, TDC, reset, teardown | done; all safety properties proved |
| C | `LevelFlop`, `MCLevel`, `LevelFlopProofs` | register-level model of the level mirror | done; types, refinement and grid proved |
| D | `PhcClock`, `MCPhc`, `PhcClockProofs` | `settime`, `adjtime`, `adjfine` and the refined rate as re-bases of a mapping, against an ideal clock; an output that follows | done; all properties proved |
| E | `ClockMath`, `ClockSweep`, `ClockMathProofs` | rescaling, rate corrections, mapping, alignment, output times as operators, checked over all values of a small word | done; all properties proved |
| F | `RateRefine`, `MCRate`, `RateRefineProofs` | the sample rings and bracketed samples | done; all properties proved |
| G | `Supervision`, `MCSupervision`, `SupervisionProofs` | auto-polarity and watchdog over an output that another work re-arms and flips | done; all properties of the passing run proved |
| H | `WinOutput`, `WinOutputProofs` | the Windows IOCTL handlers | done; all properties proved |
| I | `ParityMirror` | the abstract specification `LevelFlop` and `WinOutput` implement | done |

Worth doing next: an abstract register, "an output eventually shows the last
published configuration", with `OutputControl` as its implementation.

## 3. Modules

### OutputControl: one output block

State follows `struct tgpio_mmio_block`: `desired` is `output_desired`
(generation, frequency and flip counters, run state and the kind of waveform),
`snap` the work's local copy, `applied` the three applied counters. `pending` and
`canceling` are the workqueue's view of `output_work`, `timer` that of the
hrtimer; `owed` is the set of publishers that have released the seqlock and not
yet called `schedule_work`. `shown` says for which generation the registers are
programmed; `compare` whether a software-path compare is still ahead.

Actions: `ConfigOutput*` (4124-4179, in the steps a second context can come
between), `Resync...`, `AdjFine`, `RefineWork`, `FlipPolarity`, `Oneshot*`
(5404-5474), then `Work*`, one per exit of `tgpio_output_work` (3958-4079) and
per sleep inside it, `TimerFires`, and `Exit*` for `tgpio_input_exit` with each
cancel of `tgpio_disable_outputs` as a step. Publications are atomic because
they are made under the seqlock; a cancel that waits is an action that waits.

Abstractions: times are reduced to order, so a compare is ahead or past and a
timer is armed or not; a PTP request is `symmetric`, `duty` (asymmetric with
wide halves) or `narrow` (must use the software path). A conversion fails because
the rate is unknown (`rate`) or as one of `MaxFaults` faults. `StepBack` allows
the wall clock to be behind the wake when the guard at 4013 compares them.

### ParityMirror: what a driver promises about a level flop

Three variables: the level, what the software believes, and whether the belief is
known to be wrong (since a load, a calibration or an edge that was missed). A toggle changes level and belief together;
nothing else may change the level or, calibration and load apart, the belief.
`LevelFlop` and `WinOutput` state `MirrorsParity`, their implementation of it under
the mapping `belief <- Folded`: the belief includes the toggles by which COMPV has
moved and which the driver has yet to fold. So every step of the drivers that folds,
moves a checkpoint, rewrites COMPV or the interval, or starts afresh must be a
stutter of `ParityMirror`, and every edge exactly one `Toggle`.

### LevelFlop: the level mirror of a hardware-periodic block

Time is the ART in units of some milliseconds; `Tick` is the hardware, which
toggles `level` and adds `piv` to `compv` when the compare is reached. The work
interleaves with it access by access: each action is a stretch of code in which
nothing the hardware does makes a difference, and at most `stall` units pass
between two of them, at most `Latency` before a sleep or a timer wakes the work.
An arm takes one of the waveforms of `Shapes`: the two halves, the trims a servo
may apply to it and the stalls the work may have while it runs; `MCLevel` defines
those of the runs. `shape` and `grid` are the desired configuration.
`mirror`, `ckpt`, `ivl` and `phase` are the driver's fields.

`tgpio_hw_periodic_invert` (3841-3888) is `Flip`, then rounds of `FlipWait`: while
the pending edge is imminent and fewer than `FlipTries` rounds have passed it sleeps
again; it goes on when the edge is far enough away, when the rounds are used up, or at
any round if the phase cannot be read (`phase.status < 0`: a request has moved the
first edge past the pending one, or a conversion fails). Going on folds the toggles;
`FlipShift`, `Pause` and `WriteCompv` then rewrite the compare. Two variables are
history. `rush` remembers whether that was begun with the edge imminent, and whether the
output has been armed since. `inverted` says that the mirror is wrong and no
calibration has corrected it: because a load found the flop high, or because an edge
fell between the fold and the rewrite of such a hurried inversion (`Missed`). So
`MirrorsParity` allows one toggle to be missed, in exactly that place, and claims every
other; `TogglesOnGrid` says nothing of an output that was shifted in a hurry until it
is armed again, because the flip that corrects a mirror after a missed edge shifts the
output off its grid.

Abstractions: only the free-running path. A servo update changes the interval by
one of the `trims` and may find a phase error of that size, one that needs a re-arm,
or none, as it does when the phase cannot be read. A job is taken up while the work is idle or waits for
its arm.

### WinOutput: one block under the Windows driver

IOCTLs come from a sequential queue and are long enough for the engine to toggle
between two of their register accesses, so each access (or stretch of accesses
between which an edge changes nothing) is an action: `StartOutput`, `StartFold`,
`StartArm` or `StartOverflow`, `StartEnable`; `StopOutput`, `StopClear`;
`InvertOutput`, `InvertPause` or `InvertNoRoom`, `InvertWrite`; `SetInput`,
`GetBlock`, `Cleanup`. Variables are the registers, the fields of
`struct tgpio_win_block` (`mode`, `flop`, `ckpt`, `hwPiv`) and the locals of the
IOCTL that runs. Overflow guards compare with `Max`, which is the word's limit.
Between accesses at most `Stall` units pass, less than a half of any waveform.
`InvertGap` says whether they may also pass between the fold and the pause of an
inversion.

### InputCapture: two input blocks, poll and TDC

`ConfigInput` and `KickPoll` are the two steps of `tgpio_config_input`; the poll
steps through `PollBegin`, then per block `Reconcile`, `ReadCapture`, `EmitEvent`
and the steps of `tgpio_tdc_capture`, and ends with `PollEnd`. `Edge` is the
outside world. `TdcReset` runs against all of it, also between the count of a TDC
measurement and its sum (`TdcComplete`, `TdcTally`), because nothing excludes it.
`history` counts, per block, the edges latched, emitted and dropped by a
re-configuration.

Abstractions: the reset is one step, the tally two; PPS events, the running sum
of phases and auto-polarity are left out; the poll interval is any delay.

### Supervision: auto-polarity, the watchdog and the work they race

`poll_work` reads a capture at most `PollLate` after it was latched and hands it to
`tgpio_auto_polarity_check` (`CheckPassed`, `CheckReset`, `CheckCount`,
`CheckFlip`: one action per exit of the function). `Work*` are the steps of
`tgpio_output_work` that matter to a watcher: it takes a copy up to `WorkLate`
after it was scheduled, corrects the mirror, and may wait for `FlipWait` before the
compare shifts (`WorkShift`). A copy that is STOPPED makes it drain a running block
whose mirror is high (`WorkStop`, `WorkDrained`): for up to `DrainWait` the engine goes on
toggling in its old phase, its captures are judged by whatever is requested meanwhile,
and the work takes up nothing else. `history.disturbed` records what the claims about
polarity except: that a user has flipped, or that a stop was still being drained when
the request after it should have been begun, `WorkLate` before its first edge
(`Late`). `Watch*` are the exits of
`tgpio_watchdog_work_fn`, called every `Watch`. A user requests, stops and flips;
`Die` stops the engine. The input is looped back from the output, or has the edges
of a reference with the output's period. An edge, a re-arm and the shift of a flip
are one step each here, because `LevelFlop` looks into them; an edge that a hurried
shift misses is only there.

### RateRefine: the rate of CLOCK_REALTIME

`Tick` advances the ART and CLOCK_REALTIME; `Step` sets the clock and
`Restart` the ART (a resume), at any moment, also while `tgpio_sample_art_real`
brackets a read of the ART between two snapshots (`SampleBegin`, `Bracket*`,
`SampleDone`, `SampleFailed`; `SampleAtOnce` where snapshots come with the ART).
`RestartWindow`, `DiscardRate` and `Publish` are the branches for CLOCK_REALTIME mode
(2133-2199), `CalFirst`, `CalReversed` and `CalMeasure` those of the calibration
(2205-2264).
`disturbed` is history: when something last happened to either clock.

### ClockMath and ClockSweep: the arithmetic

Each operator of `ClockMath` is one function of lines 597-1294 and 3060-3146, with
its overflow guards: failures are `Err`, products wrap at `Word`. `NSEC_PER_SEC` and
the word are constants, so that every value can be tried. `ClockSweep` holds a
mapping and steps a counter through the whole word; its invariants compare the
operators with exact arithmetic and with each other. `scaled_ppm` appears as the
ppb it is converted to; what differs in CLOCK_REALTIME mode is left out.

### PhcClock: the clock model and its output

`phc` is `struct tgpio_phc_params`. A call is two or three actions, because nothing
excludes other contexts between them: `Begin` samples the ART (4643, 4685, 4740,
2201), `SetTime`, `AdjTime`, `AdjFine` or `Refine` re-bases the mapping under
`phc_seqlock`, `Notify` bumps the counters of the output. In `art` mode the refinement
work is the only writer. `ideal` is history: what a clock shows that took every
call at its sample. `shown` is history too: which mapping the grid, the compare and
the interval of the output were computed with, since `tgpio_output_work` reads the
mapping for every conversion. Reads of the clock change nothing and are not
actions; the CLOCK_REALTIME mode has no mapping.

Abstractions: the output is symmetric, hardware-periodic
(`hardware_periodic_output`) and wanted throughout; its conversions succeed; the
interval written by a frequency update is the new one, although the code keeps the
old one when its upper 32 bits would change (3767), which needs a half period next
to a multiple of 2^32 cycles; any outcome of the phase measurement is possible.

## 4. Runs

Passing runs:

| Run | Bounds | Shows |
|---|---|---|
| `output_safety` | asymmetric and software-path requests and one-shots, 1 publication, 1 frequency update, 1 flip, 1 fault, rate learnt late and lost, clock stepped back, unload | `NoStaleWaveform`, `UnloadQuiescent` |
| `output_liveness` | symmetric and software-path requests and one-shots, 2 publications, healthy clocks, unload | `NoStranded`; stops and starts take effect; unload ends |
| `level_safety` | four waveforms re-armed into one another: halves of 4 with stalls of 1, halves of 4 trimmed by 1, halves of 4 and 5, halves of 2 (shorter than the guard of an inversion) with stalls of 1; inversions wait 2 rounds; lateness 1; 3 jobs; 28 units; either initial level | `MirrorsParity` (`ParityMirror` is implemented), `TogglesOnGrid`, `DrainsLow` |
| `win_output` | 3 IOCTLs with halves of 2, 7 and 8 in a word of 31, first edge now or at 5, 21 cycles, either initial level | `MirrorsParity`, `RisesOnGrid`, `QuietAfterUnload` |
| `input` | 2 edge times, 2 requests over 2 blocks, 1 reset, event counters that may restart at enable, unload | accounting, freshness, TDC pairing and mean, unload; an edge becomes an event, a disable reaches the register |
| `supervision` | outputs with halves of 2 and 2, or 2 and 9, looped back; 3 requests, stops, flips or deaths; flips and drains of up to 12 units; 24 units | `RightMirrorKept`, `InvertedFoundOut`, `WarnsOncePerStall`, `WarnsOnlyDead` |
| `rate_refine` | a ring of 3, 7 ticks, 2 steps or restarts, CLOCK_REALTIME exact or fast by 1 %, samples up to a tick late, 2 brackets | `RateSpansNoStep`, `EmaSpansNoStep`, `RateReady`, `StepKeepsRate` |
| `phc_clock` | 2 callers, 3 calls, 3 ART cycles of 20/3 ns, rates -2 to 2 in 20, steps of 300 and a set time in a 10-bit word | types (the anchor stays in range), `TracksIdeal`, `OutputsFollowClock` |
| `clock_math` | every count of a 10-bit word, 3 frequencies, 5 rates, 3 anchors, 6 intervals | `RescaleExact`, `RoundTrip`, `AlignsOnGrid`, `WakesFollowEdges` |

The bounds are small because the hazards are short. A publication can be lost only
between a snapshot and the end of one work: two publications, or one and an
update, are enough to have one before, one during and one after it; a second fault
or flip only repeats the first. (`output_liveness` holds with `MaxFreq = 1`, too, in
580 000 states.) What the runs check of safety is also proved for every bound
(section 6). In `LevelFlop`, 28 units are
three periods, enough for an arm, two more jobs and the toggles between them, and six
polls, one unit apart, see a high half through but not the wait for a first edge that is
two periods away, so that a drain also gives up. An inversion of halves of 4 finds
its edge far enough away in one of its two rounds, one of halves of 2 never does, so
that both ways out of the wait are taken and edges do fall into the hurried one. In `WinOutput`, three calls are
two starts and what comes between them, and 31 is near enough for the overflow
guards to be met. `Supervision` needs three captures to ask for a flip, three for the
cooldown and three more to ask again: 24 units are six periods of four, in which a
flip of a right mirror comes up when the cooldown is missing (the mutant) and when
the exception for drains is dropped (below). Three events are a request, its stop and
the request made while that is drained. Its watchdog
looks every 2 units, so that patience, warning window and an episode fit as well. In
`RateRefine` 7 ticks fill a ring of 3 twice. In the clock runs a second has 20 ns
and a word 10 bits. That keeps what the arithmetic relies on in C: the square of
NSEC_PER_SEC fits the word, a rate is at most a tenth fast or slow
(`TGPIO_PHC_MAX_ADJ_PPB`), a cycle of the ART lasts several nanoseconds (26 at
38.4 MHz), so it survives rounding to whole nanoseconds. A step of 300 in a range of
512 lets two of them leave the range. Three calls are a call before, one during and
one after the life of a sample. Callers are symmetric in `MCPhc`: nothing but their
identity tells them apart, and only invariants are checked.

`NoStranded` is claimed for healthy clocks and symmetric or software-path outputs;
what breaks it otherwise is listed below. In `level_safety` only the symmetric,
untrimmed waveform has stalls between register accesses. For the others an edge
that falls into such a gap is a known loss: between the fold and the interval
write (3758, 3770) it is divided by the wrong interval; between the fold and the
compare read of the duty service (3909, 3932) it makes the next visit come two
edges later. The gaps are microseconds long, a unit of time is not. In `win_output`
the same holds of `InvertGap`. In `supervision` `FlipWait` is 12 units, six halves
of the fast output, and `WorkLate` 0: the flip then takes effect within the cooldown.
`DrainWait` is 12 as well, three captures of the old waveform, without which a drain could
not mislead the check. The violating runs, which find their ends at once, keep 38 units.

Runs that end in a violation each show one place where the code and a statement
about it in the repository disagree:

| Run | Statement | What happens |
|---|---|---|
| `output_lost_service` | 3891: the service "visits shortly after every generated edge" | a frequency update taken up together with the service wake returns at 4012 and the service is never scheduled again |
| `polarity_wait` | 2569: the check "cools down after a flip while the shift takes effect" | the wait of `tgpio_hw_periodic_invert` (3870) can outlast the cooldown of three captures and three more: a second flip undoes the first |
| `polarity_reference` | README.md 732: with an external reference "the option stays safely inert" | a reference half a period off the output's grid makes it flip, and flip again |

### Known windows

Other windows are in the models, and no property is claimed over them. For each,
what to change to see it:

* A one-shot published while no clock conversion is possible (4032) is disabled and,
  when the rate is learnt (5706), given software edges with EN clear: `RateAtLoad =
  FALSE` in `MCOutputLiveness.cfg`, `RunTakesEffect`.
* A frequency update taken up together with the wake of an arm, after the clock was
  stepped back, meets a guard that compares the two (4013) and drops the arm, which
  4021 avoids elsewhere: `StepBack = TRUE` and `MaxFreq = 1`, `NoStranded`.
* A one-shot's busy check (5448) and its publication, between which a request may
  start the block; a one-shot stop that has begun when a request cancels it, and the
  stop cancelled by a request that is then rejected (4143).
* An inversion waits for at most 50 rounds of 20 ms, and not at all when the phase
  cannot be read (3870-3878); it then folds and rewrites the compare with the edge
  imminent, where 3869 says the wait is there "so the COMPV rewrite cannot race it". With
  halves below `TGPIO_OUTPUT_SAFE_TIME_NS` (20 ms) every inversion does. An edge between
  the fold and the rewrite is not counted, and the mirror it has just corrected is wrong
  again; the calibration that corrects it once more shifts the output off the grid,
  where it stays until it is armed again. Without `Missed` in `WriteCompv`, `MirrorsParity` fails; without
  `rush = "none"`, `TogglesOnGrid`.
* A drain polls every 100 ms (3830), so an asymmetric output with halves of 50 to 100
  ms may toggle twice between two polls, where 1398 expects "at most one edge"
  unaccounted: `DrainPoll = 5` in `MCLevelSafety.cfg`, `MirrorsParity`.
* An output re-armed over a high line and unloaded before it starts is not drained
  (4850), where 4847 says the unload leaves the flop low. `MirrorsParity` allows a
  load to be wrong.
* An input event may be given to the PTP clock (2457) after it was unregistered and
  before the poll is cancelled (5740, 5743): the pointer is never cleared.
* A poll that has read a capture emits it although its input was switched off since.
* A `tdc_reset` between `tdc_count++` and the sum leaves a sum without its count
  (5497): `TdcMeanBounded` without `resets = 0`, for `MaxTime = 3`. The reset leaves the interval
  statistics alone, where README.md line 713 says they are cleared with it.
* An event counter that restarts when EN is set makes the poll emit the old capture
  again, and the TDC may pair it again: `TdcUsesCapturesOnce` and `EventsFresh`
  without `restarted`.
* The watchdog takes twice the high time for a period (4453), so an asymmetric output
  whose low half is longer than the patience is reported as stalled: a `low` of 14
  in `MCSupervision`, `WarnsOnlyDead`.
* A flip before the first edge of an output makes the work arm it early, which 4021
  calls harmless; the watchdog then sees a compare that does not move and, if the start
  is more than 40 s ahead, reports a stall: `Firsts = {20}` in `MCSupervision.cfg`,
  `WarnsOnlyDead`.
* A request whose first edge comes before `output_work` has begun gives the captures of the
  waveform it replaces to the new grid, and one of them can end the streak: an inversion
  is found out one capture later. `Firsts = {0, 1}`, `WorkLate = 1`, `InvertedFoundOut`;
  `RightMirrorKept` holds there.
* A stop is drained for up to 3 s (3819-3833), in which the engine goes on in
  `HARDWARE_PERIODIC`. A request published meanwhile with an early first edge gets the
  captures of the old waveform judged by the new grid: when the two are half a period
  apart, three of them make auto-polarity flip a mirror that is right. The check does not
  look at what the work has applied. `RightMirrorKept` without the exception
  (`history' = history` in `Tick`), with the bounds of `supervision`; with `DrainWait = 8`,
  too short for three captures, the run passes without it.
* The comment at 2569 has it that the check "ignores ambiguous ones"; a capture
  between the two slots resets the streak as one on the grid does (2608-2621), and so
  does `CheckReset`. No property depends on it.
* A step of CLOCK_REALTIME too small to show in one window's rate (less than 100 ppm
  of it) goes into the calibration's average: `Steps` of a cycle, `EmaSpansNoStep`.
  In CLOCK_REALTIME mode the kernel's step count catches these as well.
* A Windows `START_OUTPUT` whose interval is out of range is refused before the block
  is touched (`hw.c` 188-190), yet marks it as off (`ioctl.c` 172-175); a waveform
  that ran goes on, and the cleanup, "Leave the pins quiet across unload."
  (`driver.c` 159), passes it over: `QuietAfterUnload` without `~rejected`.
* A Windows inversion reads the compare a moment after it has folded (`hw.c` 293); an
  edge between the two is not counted: `InvertGap = TRUE`, `MirrorsParity`.

## 5. Fairness

`OutputControl`'s `FairSpec` makes the workqueue run queued work, an armed timer
expire, a compare be reached, and a caller that is inside the driver return; and
an unload that has begun goes on. `InputCapture`'s is the same for `poll_work`.
Nobody is obliged to call the driver. These are weak fairness assumptions on
single contexts: the kernel promises each of them. The other modules claim safety
only; where they need time to be bounded (`Stall`, `Latency`, `Late`, `PollLate`), the
bound is a guard of `Tick`.

## 6. Proofs

Each step lemma has one case per action; the temporal step combines initial
condition and step lemma. All constants are arbitrary, within the `ASSUME`s of the
module, unless the theorem has hypotheses of its own; these are listed with why the
code meets them, and each of them holds in the passing run of its module (`Bounded` for its
behaviours of two events; a third takes the term for flips one unit over the patience).

`OutputControlProofs`:

* `TypeCorrect`: `Spec => []TypeOK`.
* `UnloadIsQuiescent`: `Spec => []UnloadQuiescent`. `UnloadQuiescent` speaks of the
  last stage only. The inductive invariant `ExitInv` says what has come to rest at
  each stage: callers once the clock is unregistered, background works next, then
  the desired state is STOPPED, the one-shot stop is gone, a work holding a RUNNING
  copy is gone (after the first wait), and only then the timer and the work for
  good. The fifth conjunct is why `tgpio_disable_outputs` cancels twice.
* `NoPublicationLost`: `Spec => []NoStaleWaveform`. `NoStaleWaveform` is about a
  settled driver; `FreshInv` says for every state that, unless the work is certain
  to look again, what it holds or has applied is the newest publication, and that
  the registers show what is recorded as applied (`ArmShows`, for each outcome of
  an arm).
* `NoneStranded`: `Spec => []NoStranded` if `Healthy`: the clock converts from the
  load on, nobody steps it back, and no asymmetric output is refreshed. Without each
  of these the driver does strand an output (section 4). `StrandInv` adds to
  `NoStranded`, and to the two invariants above, that a free-running block has its
  events enabled and that a work which stops one does so by the newest publication.

`InputCaptureProofs`, for any number of edges, requests and resets:

* `TypeCorrect`, `NothingForgotten` (`NoInputForgotten`) and `InputsQuiet`
  (`UnloadQuiescent`) come from `PollInv`. Its heart is `Remembered`: a block that is
  on, or should be, has a poll queued, owed, still to reconcile it, or in a round that
  will queue the next. `NoInputForgotten` itself says nothing while a poll runs.
* `NeverStale` (`EventsFresh`), which like the property excepts event counters that
  restart when EN is set, needs `FreshInv`: the capture register is newer than
  the baseline and than the last capture emitted whenever their event counts differ.
* `PairsDisjoint` (`TdcUsesCapturesOnce`) adds `UsedInv`: completed pairs hold the
  oldest captures, then comes the pending one, then the one just read.
* `NothingLost` (`EdgesAccounted`) counts where each edge is at each place of the poll
  (`AccountInv`). It assumes `MaxTime <= LossLimit`: beyond 4096 edges between two
  polls the driver deliberately does not count (2785).
* `MeanBetweenExtremes` (`TdcMeanBounded`) follows from the same bounds on the
  measurements that are already in the sum (`MeanInv`).

`ClockMathProofs` is lemmas only: products and quotients (SMT cannot multiply two
unknowns, so each fact about a product is stated once and used with the products
hidden), then what each function of the arithmetic computes. `RescalesExactly` is
`tgpio_rescale` and `tgpio_rescale_nearest`; `Shown` what `tgpio_phc_art_to_ns` adds to the
anchor; `TakenBack` and `NearestAgain` that a time corrected by a rate gives the
cycles back; `Reading` bounds the error of a reading by three nanoseconds on
either side of the anchor; `Aligned`, `Leads` and `Wakes` are about first edges and wakes.

Its second half is the theorems about `ClockSweep`, for any word, length of a second,
mapping and intervals:

* `RescalingIsExact` (`RescaleExact`) if `ProductsFit`: the product of two rates fits the
  word. It is 10^18 at most for frequencies up to 1 GHz; the word is 2^64.
* `ReadBackIsExact` (`RoundTrip`) if also `RatesFit`, 1.1 * 10^18 for
  `TGPIO_PHC_MAX_ADJ_PPB` (132), and `CyclesLast`: a cycle of the ART lasts at least 4 ns.
  It lasts 26 ns at 38.4 MHz. With cycles of a nanosecond rounding would merge two
  of them.
* `LateOutputsStartOnGrid` (`AlignsOnGrid`) and `WakesComeBetweenEdges`
  (`WakesFollowEdges`) need nothing else.

`PhcClockProofs`, for any number of callers, any word and any rates:

* `TypeCorrect`: `Spec => []TypeOK`; the anchor of the mapping stays in the signed
  range. The strengthening says that arguments have passed the handlers' checks;
  the argument is that `Add` and hence `ArtToNs` fail instead of leaving the range.
* `OutputsFollow`: `Spec => []OutputsFollowClock`, the claim of the comment at 3988.
  `FollowInv` names, for each of grid, compare and interval, who will still see to it
  when it is out of date: a caller that has not notified, a counter the work has not
  taken up, or the work at a place before the reading.
* `ClockTracks`: `Spec => []TracksIdeal` if `SecondsFit`, 10^18 again. `TracksIdeal` is
  about readings, which are rounded; `DriftInv` compares the ideal clock with what the
  mapping says before rounding (`Exact`). A set time takes the drift to zero, ticks
  leave it alone, and each of the other calls adds the error of the reading it made at
  its sample, because what the clock has advanced since is in both
  (`SampledReading`). So neither the age of a sample nor the order of the calls matters.

`RateRefineProofs`:

* `RateIsOwn`: `Spec => []RateSpansNoStep`, for any ring, any lateness, any steps.
  `RateInv` says that samples between which nothing happened lie on one line of the
  clock's speed (`Lined`), that the samples of the ring are of one such epoch
  (`Ringed`), and that a bracket nothing has spoilt is where the clock is
  (`Bracketed`). A restart of the ART that the kernel does not count as a step is
  told by the ART going back (`Epochs`). `Types`, proved with it, is the
  module's type invariant.
* `RateComes`: `Spec => []RateReady` if `FullSuffices`: a full ring spans the least
  window, as eight samples a second apart do with
  `TGPIO_REALTIME_RATE_MIN_WINDOW_S` of 4. `TimeInv` says when the samples were
  taken: the work is at most `Late` behind (`Punctual`), a window that survived the last
  disturbance opened soon after it (`Opened`), and without a rate it has grown by a
  sample per period ever since and is still too short (`Growing`).
* `RateStays`: `Spec => StepKeepsRate`, from the same invariant.
* `EmaIsOwn`: `Spec => []EmaSpansNoStep` for `jumps` with `StepsAddUp(jumps)` and
  `JumpsShow(jumps)`. The calibration's ring knows nothing of steps: an error over
  100 ppm is all that tells one. So the theorem needs that the steps and all their sums
  are zero or large enough to be told in every window of up to `MaxTime` ticks, with
  any speed of the clock. Steps of whole seconds are: a window of the code's is
  eight periods of 30 s, over which a second is 4 000 ppm. In the run they are whole
  ticks. Without the hypothesis the property fails (section 4). `CalInv` says
  that every sample which no restart of the ART separates from the clock is a number
  of ticks and a jump behind it (`Spaced`); as a sample later than the oldest is of the
  oldest's epoch (`Epochs`), a window is whole ticks and a jump, and one that
  passes the test has none (`WindowBehind`). Such a window has the error of one tick
  exactly, rounding included (`OwnError`), and the average's step of 3/10 does not pass
  it (`Towards`).

`WinOutputProofs`:

* `PinsQuiet`: `Spec => []QuietAfterUnload`, from `OrderInv`: EN is off between the
  first and the last access of a start or stop, and the mode marks what runs.
* `ImplementsMirror`: assuming `~InvertGap`, `Spec => MirrorsParity`. `MirrorInv` says
  that, while an edge can fall, COMPV moves by the interval the mirror divides by, from
  a checkpoint it has not overtaken, so one more edge is one more in the quotient of the
  fold; and that where an IOCTL rewrites COMPV nothing is left to be folded. Initial states map
  to initial states, and every action is mapped to a `Toggle`, a `Calibrate` or a
  stutter.
* `BeliefIsLevel`: under the same assumption, `Spec => []Parity!Agreement`: a mirror that
  was right at load, or was corrected once, is right for good.
* `WordsFit`: `Spec => []TypeOK` while the counter is not in the last quarter of its
  range, some 11 000 years away for 64 bits at 38.4 MHz. `WordInv` bounds what an
  IOCTL is about to write: the interval is a quarter of the word at most
  (`tgpio_hw_start_output`), so a fold and an inversion fit.
* `EdgesOnGrid`: `Spec => RisesOnGrid`, assuming `~InvertGap` and `Delay <= AutoStart`
  (2 cycles and 50 ms, `tgpio.h` 48-53). `GridInv` says of each access where the next
  edge will be: that of the compare in the register, of the one about to be written,
  or, in the gap of an inversion, of the one after it.

`LevelFlopProofs`:

* `FieldsTyped`: `Spec => []TypeOK`; the divisor of the fold is zero only while the block
  is off.
* `ImplementsMirror`: `Spec => MirrorsParity` if `OnTime`: stalls are shorter than the
  guard of an inversion (`Guard`), no stall falls into a trim or the service of an
  asymmetric output, and an asymmetric output is visited, or polled by the
  drain, at least once a half. The last excludes halves below 100 ms that are drained,
  the others edges in the gaps of section 4. A symmetric, untrimmed output needs
  nothing but `Guard`, however short its halves: hurried inversions are not assumed
  away, and what the mirror loses to one is what `Missed` says and no more. `CountInv` says how far the engine may be ahead of the checkpoint:
  any number of intervals for a symmetric output, except where its compare or interval
  is rewritten; one for an asymmetric one, whose next fold comes before a second
  (`Deadline`).
* `BeliefIsLevel`: `Spec => []Parity!Agreement` if `OnTime`: the belief is the level
  unless a load or a missed edge has made it wrong.
* `EdgesLand`: `Spec => TogglesOnGrid` if also `Prompt`: a block is enabled within the
  late-arm margin, and an inversion's shift is written before the half after the
  pending edge ends. An output that a hurried inversion has shifted is left out until its
  next arm. `GridInv` says at each access whether the next edge, the one after
  it, or the compare about to be written is the one on the grid (`PeriodicGrid`), and
  that the interval of an asymmetric output is programmed before the edge it
  follows (`DutyGrid`); `Agreement` is needed to know which half that is.
* `StopsAtLow`: `Spec => DrainsLow` if `OnTime`. `DrainInv` says that the mirror is low
  from the end of a drain to the fold that ends the stop, and `Agreement` that the mirror
  is the line. A drain that gives up after its 30 polls is excepted, as its comment has it
  (`tgpio-ptp-input.c` 3817): that can happen for a long period, for a first edge far
  ahead, and for a period that the polls alias with. The drain of a mirror that a hurried
  inversion has made wrong ends with a high line.

`SupervisionProofs`, for any waveforms, first edges, delays and numbers of events:

* `SupervisionTyped`: `Spec => []TypeOK`. `TypeInv` adds that the copy of the work lies
  between what is applied and what is published, and which waveforms run in which
  phase.
* `StallsWarnedOnce` (`WarnsOncePerStall`) and `WarningsTrue` (`WarnsOnlyDead`) if the input
  is looped back and, for some bound `far`, `Bounded(far)`: neither a re-armed output nor
  one asked for ever has its compare further ahead than `far`, and the watchdog is that
  patient. `WatchInv` bounds the last compare it saw by `far` past its last
  visit, less one visit per stall (`Visited`), so that a live engine must move the
  compare before the patience is at an end; and says that there is one warning if and
  only if the engine is dead and the patience over (`Told`). Each user's flip
  may shift the compare once more, and each of those may set off one of auto-polarity, hence
  the term in `MaxEvents` (`Ahead`, `Shifts`). In the code the patience is 30 s, or three
  times twice the high half, an arm takes the next edge after a short lead, and a flip
  adds half a period; so the bound says that first edges are less than the patience
  ahead, that no low half is much longer than the high one, and that nobody flips an
  output many times within one period. The first two are needed: without them the
  warning may be false (section 4). A reference on the
  input is excluded because it may set off any number of flips.
* `SettledOnGrid`: `Spec => []GridInv`, without hypotheses: once the newest publication is
  applied, a symmetric output's compare lies on the grid asked for, on the slot the mirror
  says, as long as no edge falls between the fold and the shift of a flip
  (`LevelFlop`'s `Missed`). The two theorems below rest on it: it is what makes a capture a verdict.
* `InversionsFoundOut` (`InvertedFoundOut`) and `RightMirrorsKept` (`RightMirrorKept`) if
  `InTime`: the work starts before a first edge it has been asked for, and the poll,
  two starts of the work and the wait of an inversion take less than six periods. The last
  is what "cools down after a flip while the shift takes effect" (2569) needs: with a
  longer wait the mirror is flipped back (`polarity_wait`). The first holds for requests
  that are not made in the last moment, as long as the workqueue runs within
  milliseconds and the work is not busy. It is busy for long in two places only. The
  wait of an inversion is in the second hypothesis. The drain of a stop, up to 3 s, is
  under none: one that lasts past the time the next request should have been begun
  (`Late`) ends what both theorems claim, as does a user's flip (`history.disturbed`);
  under a drain that is shorter they hold, because the captures of the old waveform are
  earlier than the new grid and are not judged. Section 4 says what happens otherwise.
  Until a first flip (`Unflipped`) every
  capture that is judged comes from a settled output, shows whether the mirror is
  wrong, and is counted. From then on (`Flipped`) the mirror is wrong exactly until the
  shift is begun, and of the six captures a second flip would need, five go on past
  the moment when the work has acted (`Lasts`), in each of the three places it
  can be (`Owing`, `Shifting`, `Rearming`); the next is made by a settled output again and
  shows that the mirror is right. A request in between changes the grid, but its
  first edge is later than the work.

Model-checked only:

* the liveness properties of `OutputControl` and `InputCapture`: fairness is stated with
  ENABLED, which is out of the prover's reach.

## 7. Not modelled

The components with status `not_modelled` in `PROJECT.json`: MMIO access, discovery,
logs and traces have no protocol of their own; the Windows tool and host tests, the
TUI, scripts and paper are front ends and text.

Within the modelled components: the software path's toggles of the flop; torn 64-bit
reads; PPS events and phase statistics; the raw calibration and the trim of the ART's
rate, which keep no window; conversions that exist only in CLOCK_REALTIME mode; the
Windows IOCTLs that only read, its registry, CPUID and mapping code. Load is not
modelled: it runs before any other context exists, and its error path (5722), which
frees the device without cancelling two works, is a hazard without a property,
because a model of those few lines would only restate them.
