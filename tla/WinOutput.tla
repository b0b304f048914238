----------------------------- MODULE WinOutput -----------------------------
(***************************************************************************)
(* One TGPIO block under the Windows driver (src/windows/driver).          *)
(*                                                                         *)
(* IOCTLs come one at a time from a sequential queue and touch the block   *)
(* under a spin lock; nothing in the driver runs on its own, so between    *)
(* two IOCTLs the periodic engine runs unobserved for any length of time.  *)
(* An IOCTL interleaves with the engine register access by register        *)
(* access.  flop_high mirrors the level flop, which cannot be read:        *)
(* tgpio_hw_flop_fold counts the toggles by how far COMPV has moved.       *)
(*                                                                         *)
(* Time is the ART.  The run is one life of the driver, from               *)
(* tgpio_evt_device_add to tgpio_evt_device_cleanup.                       *)
(***************************************************************************)
EXTENDS Integers

CONSTANTS
    Halves,    \* high_cycles (and low_cycles) of START_OUTPUT requests
    Firsts,    \* first_edge_art of START_OUTPUT requests, 0 for "soon"
    Max,       \* MAXULONG64
    Delay,     \* TGPIO_ART_HW_DELAY_CYCLES
    Margin,    \* TGPIO_ARM_MARGIN_NS
    AutoStart, \* TGPIO_AUTO_START_NS
    Stall,     \* how long an IOCTL may take between two register accesses
    InvertGap, \* may it pass between the fold and the pause of an inversion?
    MaxTime,   \* bound: the ART
    MaxCalls   \* bound: IOCTLs

ASSUME RequestAssumption ==
    /\ Halves \subseteq Nat \ {0} /\ Firsts \subseteq Nat
    /\ \A f \in Firsts : f = 0 \/ f > Delay
ASSUME TimeAssumption ==
    /\ Max \in Nat /\ Delay \in Nat /\ Margin \in Nat /\ AutoStart \in Nat
    /\ Stall \in Nat /\ Stall < Margin + Delay /\ \A h \in Halves : Stall < h
    /\ InvertGap \in BOOLEAN
    /\ MaxTime \in Nat /\ MaxCalls \in Nat

VARIABLES
    now,              \* the ART
    en, dir, pm,      \* bits of TGPIOCTL
    compv, piv,       \* compare value and periodic interval
    level,            \* the level flop
    mode,             \* of struct tgpio_win_block
    flop, ckpt, hwPiv,\* its flop_high, ckpt_compv and hw_piv
    pc, waited,       \* where the IOCTL is, and since when
    request,          \* what it is about, and its local variables
    half, grid,       \* history: the waveform that runs and its rising edges
    wrong,            \* history: load or INVERT_OUTPUT left the mirror wrong
    rejected,         \* history: the waveform outlived a refused START_OUTPUT
    calls             \* IOCTLs so far

ctl == <<en, dir, pm>>
registers == <<ctl, compv, piv>>
mirror == <<flop, ckpt, hwPiv>>
history == <<half, grid, wrong, rejected>>
vars == <<now, registers, level, mode, mirror, pc, waited, request, history,
          calls>>

NoRequest == [then |-> "idle", half |-> 0, first |-> 0, target |-> 0, pm |-> FALSE]

\* What the grid is when an inversion had no room to shift the compare
NoGrid == -1

\* tgpio_evt_device_add: a zeroed context and a block that is off; the flop
\* has the level of the last toggle, which the driver takes for low.
Init ==
    /\ now = 1
    /\ en = FALSE /\ dir = FALSE /\ pm = FALSE /\ compv = 0 /\ piv = 0
    /\ level \in BOOLEAN
    /\ mode = "off"
    /\ flop = FALSE /\ ckpt = 0 /\ hwPiv = 0
    /\ pc = "idle" /\ waited = 0 /\ request = NoRequest
    /\ half = 0 /\ grid = NoGrid /\ wrong = level /\ rejected = FALSE
    /\ calls = 0

-----------------------------------------------------------------------------
(* The hardware *)

Running == en /\ pm /\ ~dir

\* One cycle; a compare takes effect Delay cycles late.
Tick ==
    /\ now < MaxTime
    /\ pc = "idle" \/ waited < Stall
    /\ pc = "read" => InvertGap
    /\ now' = now + 1
    /\ waited' = IF pc = "idle" THEN 0 ELSE waited + 1
    /\ IF Running /\ compv + Delay <= now + 1
         THEN level' = ~level /\ compv' = compv + piv
         ELSE UNCHANGED <<level, compv>>
    /\ UNCHANGED <<ctl, piv, mode, mirror, pc, request, history, calls>>

-----------------------------------------------------------------------------
(* Helpers *)

Goto(label) == pc' = label /\ waited' = 0
Done == Goto("idle") /\ request' = NoRequest

\* The toggles tgpio_hw_flop_fold sees, and the level it then believes in
Events == IF hwPiv # 0 /\ compv >= ckpt THEN (compv - ckpt) \div hwPiv ELSE 0
Folded == IF Events % 2 = 1 THEN ~flop ELSE flop

\* tgpio_hw_flop_fold
Fold ==
    /\ flop' = Folded
    /\ ckpt' = IF hwPiv # 0 /\ compv >= ckpt THEN compv ELSE ckpt

\* tgpio_evt_ioctl takes a request from the queue.
Accept == pc = "idle" /\ calls < MaxCalls /\ calls' = calls + 1

-----------------------------------------------------------------------------
(* tgpio_hw_stop_output, for STOP_OUTPUT, SET_INPUT and the cleanup *)

\* Events are stopped first.
BeginStop(then) ==
    /\ en' = FALSE /\ rejected' = FALSE
    /\ Goto("stop")
    /\ request' = [NoRequest EXCEPT !.then = then]

\* Mutation: the toggles since the last fold are forgotten
StopClearUnfolded ==
    /\ pc = "stop"
    /\ flop' = flop
    /\ compv' = 0 /\ piv' = 0 /\ pm' = FALSE /\ hwPiv' = 0 /\ ckpt' = 0
    /\ mode' = "off"
    /\ IF request.then = "idle" THEN Done
       ELSE Goto(request.then) /\ UNCHANGED request
    /\ UNCHANGED <<now, en, dir, level, history, calls>>

\* Then they are folded and the registers cleared.
StopClear ==
    /\ pc = "stop"
    /\ flop' = Folded
    /\ compv' = 0 /\ piv' = 0 /\ pm' = FALSE /\ hwPiv' = 0 /\ ckpt' = 0
    /\ mode' = "off"
    /\ IF request.then = "idle" THEN Done
       ELSE Goto(request.then) /\ UNCHANGED request
    /\ UNCHANGED <<now, en, dir, level, history, calls>>

\* tgpio_ioctl_stop_output, in any mode
StopOutput ==
    /\ Accept
    /\ BeginStop("idle")
    /\ UNCHANGED <<now, dir, pm, compv, piv, level, mode, mirror, half, grid,
                   wrong>>

-----------------------------------------------------------------------------
(* START_OUTPUT *)

TooLong(h) == h > Max \div 4

\* tgpio_ioctl_start_output with an interval tgpio_hw_start_output refuses
\* before it has touched the block: the block is marked as off all the same.
StartRefused(h) ==
    /\ Accept
    /\ TooLong(h)
    /\ mode' = "off"
    /\ rejected' = (rejected \/ Running)
    /\ UNCHANGED <<now, registers, level, mirror, pc, waited, request, half,
                   grid, wrong>>

\* tgpio_hw_start_output stops events,
StartOutput(h, first) ==
    /\ Accept
    /\ ~TooLong(h)
    /\ en' = FALSE /\ rejected' = FALSE
    /\ Goto("fold")
    /\ request' = [NoRequest EXCEPT !.half = h, !.first = first]
    /\ UNCHANGED <<now, dir, pm, compv, piv, level, mode, mirror, half, grid,
                   wrong>>

\* folds the toggles before it clears the registers,
StartFold ==
    /\ pc = "fold"
    /\ Fold
    /\ compv' = 0 /\ piv' = 0 /\ dir' = FALSE /\ pm' = FALSE
    /\ Goto("arm")
    /\ UNCHANGED <<now, en, level, mode, hwPiv, request, history, calls>>

\* Mutation: a late compare is pushed by halves
PushByHalves(first, h) ==
    LET deadline == now + Margin
        number == IF first < deadline THEN (deadline - first) \div h + 1 ELSE 0
    IN [ok |-> number <= (Max - first) \div h, compv |-> first + number * h]

\* Mutation: the push is not checked for overflow
PushUnchecked(first, h) ==
    LET deadline == now + Margin
        periods == IF first < deadline
                     THEN (deadline - first) \div (2 * h) + 1 ELSE 0
    IN [ok |-> TRUE, compv |-> first + periods * 2 * h]

\* The late-arm guard: whole periods, unless they leave the range
PushLate(first, h) ==
    LET deadline == now + Margin
        periods == IF first < deadline
                     THEN (deadline - first) \div (2 * h) + 1 ELSE 0
    IN [ok |-> periods <= (Max - first) \div (2 * h),
        compv |-> first + periods * 2 * h]

\* The rising edge asked for, and the compare of the first toggle: that rise,
\* or the fall before it if the flop is believed to be high
FirstEdge == IF request.first = 0 THEN now + AutoStart ELSE request.first
FirstToggle ==
    LET rise == IF FirstEdge > Delay THEN FirstEdge - Delay ELSE FirstEdge
    IN IF ~flop THEN rise
       ELSE IF rise > request.half THEN rise - request.half
                                   ELSE rise + request.half

\* chooses the slot of the first toggle, programs interval and compare
StartArm ==
    LET push == PushLate(FirstToggle, request.half)
    IN /\ pc = "arm"
       /\ push.ok
       /\ pm' = TRUE
       /\ piv' = request.half /\ compv' = push.compv
       /\ hwPiv' = piv' /\ ckpt' = compv'
       /\ half' = request.half /\ grid' = FirstEdge
       /\ Goto("enable")
       /\ UNCHANGED <<now, en, dir, level, mode, flop, request, wrong,
                      rejected, calls>>

\* (or gives up, with the block stopped and hw_piv as it was),
StartOverflow ==
    /\ pc = "arm"
    /\ ~PushLate(FirstToggle, request.half).ok
    /\ mode' = "off"
    /\ Done
    /\ UNCHANGED <<now, registers, level, mirror, history, calls>>

\* Mutation: only a failure records the mode
EnableUnmarked ==
    /\ pc = "enable"
    /\ en' = TRUE
    /\ Done
    /\ UNCHANGED <<now, dir, pm, compv, piv, level, mode, mirror, history, calls>>

\* and sets EN last.
StartEnable ==
    /\ pc = "enable"
    /\ en' = TRUE
    /\ mode' = "output"
    /\ Done
    /\ UNCHANGED <<now, dir, pm, compv, piv, level, mirror, history, calls>>

-----------------------------------------------------------------------------
(* INVERT_OUTPUT *)

\* tgpio_hw_invert_output corrects the mirror and folds;
InvertOutput ==
    /\ Accept
    /\ flop' = ~Folded
    /\ ckpt' = IF hwPiv # 0 /\ compv >= ckpt THEN compv ELSE ckpt
    /\ wrong' = ~wrong
    /\ IF hwPiv = 0 THEN Done ELSE Goto("read") /\ UNCHANGED request
    /\ UNCHANGED <<now, registers, level, mode, hwPiv, half, grid, rejected>>

\* reads the compare and pauses the engine,
InvertPause ==
    /\ pc = "read"
    /\ compv + hwPiv <= Max
    /\ request' = [NoRequest EXCEPT !.target = compv + hwPiv, !.pm = pm]
    /\ pm' = FALSE
    /\ Goto("write")
    /\ UNCHANGED <<now, en, dir, compv, piv, level, mode, mirror, history, calls>>

\* (or leaves the waveform off its grid when there is no room,)
InvertNoRoom ==
    /\ pc = "read"
    /\ compv + hwPiv > Max
    /\ grid' = NoGrid
    /\ Done
    /\ UNCHANGED <<now, registers, level, mode, mirror, half, wrong, rejected,
                   calls>>

\* and writes it half a period later: tgpio_hw_write_compv_paused.
InvertWrite ==
    /\ pc = "write"
    /\ compv' = request.target /\ pm' = request.pm
    /\ ckpt' = compv'
    /\ Done
    /\ UNCHANGED <<now, en, dir, piv, level, mode, flop, hwPiv, history, calls>>

-----------------------------------------------------------------------------
(* SET_INPUT, GET_BLOCK and the cleanup *)

\* tgpio_hw_set_input: EN off, the direction, EN as asked for
WriteInput(enable) ==
    /\ en' = enable
    /\ dir' = (dir \/ enable)
    /\ mode' = IF enable THEN "input" ELSE "off"

\* tgpio_ioctl_set_input: an output is stopped first.
SetInput(enable) ==
    /\ Accept
    /\ IF mode = "output"
         THEN /\ BeginStop(IF enable THEN "input" ELSE "noinput")
              /\ UNCHANGED <<dir, mode>>
         ELSE WriteInput(enable) /\ Done /\ rejected' = FALSE
    /\ UNCHANGED <<now, pm, compv, piv, level, mirror, half, grid, wrong>>

SetInputFinish ==
    /\ pc \in {"input", "noinput"}
    /\ WriteInput(pc = "input")
    /\ Done
    /\ UNCHANGED <<now, pm, compv, piv, level, mirror, history, calls>>

\* tgpio_ioctl_get_block folds and reports.
GetBlock ==
    /\ Accept
    /\ Fold
    /\ UNCHANGED <<now, registers, level, mode, hwPiv, pc, waited, request,
                   history>>

\* tgpio_evt_device_cleanup, after the queue was drained
Cleanup ==
    /\ pc = "idle"
    /\ IF mode = "output"
         THEN BeginStop("unload")
         ELSE /\ en' = (en /\ mode # "input")
              /\ Goto("unload") /\ UNCHANGED <<request, rejected>>
    /\ UNCHANGED <<now, dir, pm, compv, piv, level, mode, mirror, half, grid,
                   wrong, calls>>

\* The block is unmapped; the pins may go on.
Unmapped == pc = "unload" /\ UNCHANGED vars

Ioctl ==
    \/ \E h \in Halves, first \in Firsts : StartOutput(h, first)
    \/ \E h \in Halves : StartRefused(h)
    \/ StartFold \/ StartArm \/ StartOverflow \/ StartEnable
    \/ StopOutput \/ StopClear
    \/ InvertOutput \/ InvertPause \/ InvertNoRoom \/ InvertWrite
    \/ \E enable \in BOOLEAN : SetInput(enable)
    \/ SetInputFinish \/ GetBlock

Next == Tick \/ Ioctl \/ Cleanup \/ Unmapped

Spec == Init /\ [][Next]_vars
-----------------------------------------------------------------------------
(* Properties *)

\* Registers and hw.c's fields stay words: no compare wraps.
TypeOK ==
    /\ now \in 1..MaxTime
    /\ en \in BOOLEAN /\ dir \in BOOLEAN /\ pm \in BOOLEAN
    /\ compv \in 0..Max /\ piv \in 0..Max
    /\ level \in BOOLEAN
    /\ mode \in {"off", "input", "output"}
    /\ flop \in BOOLEAN /\ ckpt \in 0..Max /\ hwPiv \in 0..Max
    /\ pc \in {"idle", "stop", "fold", "arm", "enable", "read", "write",
              "input", "noinput", "unload"}
    /\ waited \in 0..Stall
    /\ request \in [then : {"idle", "input", "noinput", "unload"},
                    half : 0..Max, first : Nat, target : 0..Max, pm : BOOLEAN]
    /\ half \in 0..Max /\ grid \in Nat \union {NoGrid}
    /\ wrong \in BOOLEAN /\ rejected \in BOOLEAN
    /\ calls \in 0..MaxCalls

\* Whatever is folded, re-armed, stopped, inverted or overflows, and whenever
\* the engine toggles in between, the mirror with its pending toggles follows
\* the flop: hw.c's folds and checkpoints implement ParityMirror.
Parity == INSTANCE ParityMirror WITH belief <- Folded
MirrorsParity == Parity!Spec

\* hw.c 284: with a mirror that is right, from the start or by an inversion,
\* rises come a whole number of periods from the edge asked for and falls half
\* a period off, however late the arming and whatever flop level it found.
RisesOnGrid ==
    [][level' # level /\ ~wrong /\ grid # NoGrid
         => (now' - grid) % (2 * half) = IF level' THEN 0 ELSE half]_vars

\* The cleanup stops every waveform that no refused START_OUTPUT has hidden
\* from it: mode, which alone it goes by, is set after the block is.
QuietAfterUnload == pc = "unload" /\ ~rejected => ~Running
=============================================================================
