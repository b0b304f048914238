-------------------------- MODULE WinOutputProofs --------------------------
(***************************************************************************)
(* Proofs about WinOutput, for any waveforms, word, delays and sequences   *)
(* of IOCTLs: the cleanup leaves the pins quiet, and no register or field  *)
(* exceeds its word.  If no edge falls into the gap of an inversion, the   *)
(* mirror of hw.c implements ParityMirror; with a mirror that is right,    *)
(* each rise lies on the grid START_OUTPUT asked for.                      *)
(***************************************************************************)
EXTENDS WinOutput, TLAPS

USE DEF ctl, registers, mirror, history, vars

Requests ==
    [then : {"idle", "input", "noinput", "unload"}, half : Nat, first : Nat,
     target : Nat, pm : BOOLEAN]

Types ==
    /\ now \in Nat
    /\ en \in BOOLEAN /\ dir \in BOOLEAN /\ pm \in BOOLEAN
    /\ compv \in Nat /\ piv \in Nat /\ level \in BOOLEAN
    /\ mode \in {"off", "input", "output"}
    /\ flop \in BOOLEAN /\ ckpt \in Nat /\ hwPiv \in Nat
    /\ pc \in {"idle", "stop", "fold", "arm", "enable", "read", "write",
              "input", "noinput", "unload"}
    /\ request \in Requests
    /\ wrong \in BOOLEAN /\ rejected \in BOOLEAN

\* Between the IOCTL's first and last access, EN is off.
Halted == pc \in {"stop", "fold", "arm", "enable", "input", "noinput"} => ~en

\* The mode tells which waveforms run, those of refused starts apart; while
\* an inversion has paused the engine, what it will restore is meant.
Marked ==
    /\ Running /\ ~rejected => mode = "output"
    /\ pc = "write" /\ en /\ ~dir /\ request.pm /\ ~rejected => mode = "output"
    /\ pc = "unload" => ~Running \/ rejected

\* A start has an interval.
Asked == pc \in {"fold", "arm"} => request.half > 0

OrderInv == Types /\ Halted /\ Marked /\ Asked

-----------------------------------------------------------------------------
(* The cleanup *)

\* What the assumptions say of the constants.
LEMMA ConstantTypes ==
    /\ Halves \subseteq Nat \ {0} /\ Firsts \subseteq Nat
    /\ Max \in Nat /\ Delay \in Nat /\ Margin \in Nat /\ AutoStart \in Nat
  BY RequestAssumption, TimeAssumption

\* The folded level is a level.
LEMMA FoldedType == Types => Folded \in BOOLEAN
  BY DEF Types, Folded

\* A product of naturals is one.
LEMMA ProductType == \A a, b \in Nat : a * b \in Nat
  OBVIOUS

\* The late-arm guard yields a compare.
LEMMA PushType ==
    ASSUME Types, NEW first \in Nat, NEW h \in Nat \ {0}
    PROVE  PushLate(first, h).compv \in Nat
<1> DEFINE deadline == now + Margin
           periods == IF first < deadline
                        THEN (deadline - first) \div (2 * h) + 1 ELSE 0
<1>1. deadline \in Nat /\ 2 * h \in Nat /\ 2 * h > 0
  BY ConstantTypes DEF Types
<1>2. periods \in Nat
  BY <1>1
<1>3. periods * 2 * h \in Nat
  <2>1. periods * 2 \in Nat
    BY <1>2
  <2> QED
    BY <2>1, ProductType
<1>4. PushLate(first, h).compv = first + periods * 2 * h
  BY DEF PushLate
<1> HIDE DEF periods
<1> QED
  BY <1>3, <1>4

\* So does the choice of the first toggle.
LEMMA ToggleType == Types => FirstToggle \in Nat /\ FirstEdge \in Nat
  BY ConstantTypes DEF Types, Requests, FirstToggle, FirstEdge

\* The records an IOCTL makes of its local variables.
LEMMA RequestTypes ==
    /\ NoRequest \in Requests
    /\ \A then \in {"idle", "input", "noinput", "unload"} :
         [NoRequest EXCEPT !.then = then] \in Requests
    /\ \A h, first \in Nat :
         /\ [NoRequest EXCEPT !.half = h, !.first = first] \in Requests
         /\ [NoRequest EXCEPT !.half = h, !.first = first].half = h
         /\ [NoRequest EXCEPT !.half = h, !.first = first].first = first
    /\ \A target \in Nat, bit \in BOOLEAN :
         /\ [NoRequest EXCEPT !.target = target, !.pm = bit] \in Requests
         /\ [NoRequest EXCEPT !.target = target, !.pm = bit].target = target
         /\ [NoRequest EXCEPT !.target = target, !.pm = bit].pm = bit
         /\ [NoRequest EXCEPT !.target = target, !.pm = bit].pm = bit
  BY DEF NoRequest, Requests

\* BeginStop goes on with EN off.
LEMMA BeginStopType ==
    ASSUME NEW then \in {"idle", "input", "noinput", "unload"}, BeginStop(then)
    PROVE  /\ en' = FALSE /\ rejected' = FALSE /\ pc' = "stop"
           /\ request' \in Requests
  BY RequestTypes DEF BeginStop, Goto

\* No step of an IOCTL, of the engine or of the cleanup breaks the invariant.
LEMMA OrderStep == OrderInv /\ [Next]_vars => OrderInv'
<1> SUFFICES ASSUME OrderInv, [Next]_vars PROVE OrderInv'
  OBVIOUS
<1> USE ConstantTypes DEF OrderInv, Types, Halted, Marked, Asked, Running
<1> USE DEF Goto, Accept
<1>0. Done => pc' = "idle" /\ request' \in Requests
  BY RequestTypes DEF Done
<1>1. CASE Tick
  BY <1>1 DEF Tick
<1>2. ASSUME NEW h \in Halves, NEW first \in Firsts, StartOutput(h, first)
      PROVE  OrderInv'
  <2>1. h \in Nat /\ h > 0 /\ first \in Nat
    OBVIOUS
  <2>2. request' \in Requests /\ request'.half = h
    BY <1>2, <2>1, RequestTypes DEF StartOutput
  <2> QED
    BY <1>2, <2>1, <2>2 DEF StartOutput
<1>3. ASSUME NEW h \in Halves, StartRefused(h) PROVE OrderInv'
  BY <1>3 DEF StartRefused
<1>4. CASE StartFold
  BY <1>4, FoldedType DEF StartFold, Fold
<1>5. CASE StartArm
  <2>1. pc = "arm" /\ request.half \in Nat \ {0}
    BY <1>5 DEF StartArm, Requests
  <2>2. FirstToggle \in Nat /\ FirstEdge \in Nat
    BY ToggleType
  <2>3. PushLate(FirstToggle, request.half).compv \in Nat
    BY <2>1, <2>2, PushType
  <2>4. compv' \in Nat
    BY <1>5, <2>3 DEF StartArm
  <2> QED
    BY <1>5, <2>1, <2>4 DEF StartArm
<1>6. CASE StartOverflow
  BY <1>0, <1>6 DEF StartOverflow
<1>7. CASE StartEnable
  BY <1>0, <1>7 DEF StartEnable
<1>8. CASE StopOutput
  BY <1>8, BeginStopType DEF StopOutput
<1>9. CASE StopClear
  <2>1. flop' \in BOOLEAN
    BY <1>9, FoldedType DEF StopClear
  <2>2. request.then \in {"idle", "input", "noinput", "unload"}
    BY DEF Requests
  <2>3. /\ request' \in Requests
        /\ pc' \in {"idle", "input", "noinput", "unload"}
    BY <1>0, <1>9, <2>2 DEF StopClear
  <2> QED
    BY <1>9, <2>1, <2>3 DEF StopClear
<1>10. CASE InvertOutput
  <2>1. flop' \in BOOLEAN /\ wrong' \in BOOLEAN
    BY <1>10, FoldedType DEF InvertOutput
  <2>2. request' \in Requests /\ pc' \in {"idle", "read"}
    BY <1>0, <1>10 DEF InvertOutput
  <2>3. ckpt' \in Nat
    BY <1>10 DEF InvertOutput
  <2> QED
    BY <1>10, <2>1, <2>2, <2>3 DEF InvertOutput
<1>11. CASE InvertPause
  <2>1. compv + hwPiv \in Nat
    OBVIOUS
  <2>2. request' \in Requests /\ request'.pm = pm
    <3> DEFINE made(target, bit) ==
                 [NoRequest EXCEPT !.target = target, !.pm = bit]
    <3>1. request' = made(compv + hwPiv, pm) /\ pm \in BOOLEAN
      BY <1>11 DEF InvertPause
    <3>2. \A target \in Nat, bit \in BOOLEAN :
            made(target, bit) \in Requests /\ made(target, bit).pm = bit
      BY RequestTypes
    <3> HIDE DEF made
    <3> QED
      BY <2>1, <3>1, <3>2, Zenon
  <2> QED
    BY <1>11, <2>2 DEF InvertPause
<1>12. CASE InvertNoRoom
  BY <1>0, <1>12 DEF InvertNoRoom
<1>13. CASE InvertWrite
  <2>1. request.target \in Nat /\ request.pm \in BOOLEAN
    BY DEF Requests
  <2> QED
    BY <1>0, <1>13, <2>1 DEF InvertWrite
<1>14. ASSUME NEW enable \in BOOLEAN, SetInput(enable) PROVE OrderInv'
  <2>1. CASE mode = "output"
    BY <1>14, <2>1, BeginStopType DEF SetInput
  <2>2. CASE mode # "output"
    BY <1>0, <1>14, <2>2 DEF SetInput, WriteInput
  <2> QED
    BY <2>1, <2>2
<1>15. CASE SetInputFinish
  BY <1>0, <1>15 DEF SetInputFinish, WriteInput
<1>16. CASE GetBlock
  BY <1>16, FoldedType DEF GetBlock, Fold
<1>17. CASE Cleanup
  <2>1. CASE mode = "output"
    BY <1>17, <2>1, BeginStopType DEF Cleanup
  <2>2. CASE mode # "output"
    BY <1>17, <2>2 DEF Cleanup
  <2> QED
    BY <2>1, <2>2
<1>18. CASE UNCHANGED vars
  BY <1>18
<1> QED
  BY <1>1, <1>2, <1>3, <1>4, <1>5, <1>6, <1>7, <1>8, <1>9, <1>10, <1>11,
     <1>12, <1>13, <1>14, <1>15, <1>16, <1>17, <1>18 DEF Next, Ioctl, Unmapped

LEMMA OrderInitially == Init => OrderInv
<1> SUFFICES ASSUME Init PROVE OrderInv
  OBVIOUS
<1>1. request \in Requests
  BY RequestTypes DEF Init
<1>2. level \in BOOLEAN /\ wrong \in BOOLEAN
  BY DEF Init
<1>3. Types
  BY <1>1, <1>2 DEF Init, Types
<1>4. Halted /\ Marked /\ Asked
  BY DEF Init, Halted, Marked, Asked, Running
<1> QED
  BY <1>3, <1>4 DEF OrderInv

\* tgpio_evt_device_cleanup leaves no waveform on a pin but those that a
\* refused START_OUTPUT has hidden from it.
THEOREM PinsQuiet == Spec => []QuietAfterUnload
<1>1. OrderInv => QuietAfterUnload
  BY DEF OrderInv, Marked, QuietAfterUnload
<1> QED
  BY <1>1, OrderInitially, OrderStep, PTL DEF Spec

-----------------------------------------------------------------------------
(* The mirror *)

\* Where an edge can fall, COMPV moves by the interval that the mirror
\* divides by, from a checkpoint it has not overtaken; where the IOCTL
\* rewrites COMPV, no toggle is left to be folded.
MirrorInv ==
    /\ Running => piv = hwPiv /\ hwPiv > 0 /\ compv >= ckpt
    /\ pc = "arm" => compv = 0
    /\ pc = "enable" => piv = hwPiv /\ hwPiv > 0 /\ compv >= ckpt
    /\ pc \in {"read", "write"} => hwPiv > 0 /\ compv <= ckpt
    /\ pc = "write" => ~pm
    /\ pc = "write" /\ en /\ ~dir /\ request.pm => piv = hwPiv

\* One interval further is one toggle more,
LEMMA OneMore ==
    ASSUME NEW distance \in Nat, NEW interval \in Nat \ {0}
    PROVE  /\ (distance + interval) \div interval = distance \div interval + 1
           /\ distance \div interval \in Nat
  OBVIOUS

\* which is the other parity.
LEMMA OtherParity == \A n \in Nat : (n + 1) % 2 = 1 <=> n % 2 # 1
  OBVIOUS

\* A compare that has not moved on is no toggle.
LEMMA NoDistance ==
    \A to, from, interval \in Nat :
      interval # 0 /\ to >= from /\ to <= from => (to - from) \div interval = 0
<1> SUFFICES ASSUME NEW to \in Nat, NEW from \in Nat, NEW interval \in Nat,
                    interval # 0, to >= from, to <= from
             PROVE  (to - from) \div interval = 0
  OBVIOUS
<1>1. to - from = 0
  OBVIOUS
<1>2. 0 \div interval = 0
  OBVIOUS
<1> QED
  BY <1>1, <1>2

\* An edge of a running block changes the folded level.
LEMMA EdgeFolds ==
    ASSUME Types, MirrorInv, Running, compv' = compv + piv, UNCHANGED mirror
    PROVE  Folded' = ~Folded
<1>1. /\ piv = hwPiv /\ hwPiv > 0 /\ compv >= ckpt
      /\ compv \in Nat /\ ckpt \in Nat /\ hwPiv \in Nat \ {0} /\ flop \in BOOLEAN
  BY DEF Types, MirrorInv
<1>2. /\ compv - ckpt \in Nat /\ compv' - ckpt' = (compv - ckpt) + hwPiv
      /\ hwPiv' = hwPiv /\ compv' >= ckpt' /\ flop' = flop
  BY <1>1
<1>3. /\ Events = (compv - ckpt) \div hwPiv
      /\ Events' = ((compv - ckpt) + hwPiv) \div hwPiv
  BY <1>1, <1>2 DEF Events
<1>4. Events \in Nat /\ Events' = Events + 1
  BY <1>1, <1>2, <1>3, OneMore
<1>5. Events' % 2 = 1 <=> Events % 2 # 1
  BY <1>4, OtherParity
<1> QED
  BY <1>1, <1>2, <1>5 DEF Folded

\* With the compare at or before the checkpoint, nothing is to be folded.
LEMMA NothingPending == Types /\ compv <= ckpt => Folded = flop
<1> SUFFICES ASSUME Types, compv <= ckpt PROVE Folded = flop
  OBVIOUS
<1>1. Events = 0
  <2>1. CASE hwPiv # 0 /\ compv >= ckpt
    <3>1. compv - ckpt = 0 /\ hwPiv \in Nat \ {0}
      BY <2>1 DEF Types
    <3> QED
      BY <2>1, <3>1 DEF Events
  <2>2. CASE ~(hwPiv # 0 /\ compv >= ckpt)
    BY <2>2 DEF Events
  <2> QED
    BY <2>1, <2>2
<1> QED
  BY <1>1 DEF Folded

\* No step breaks the invariant if an inversion leaves no gap for an edge.
LEMMA MirrorStep ==
    ASSUME ~InvertGap, OrderInv, MirrorInv, [Next]_vars
    PROVE  MirrorInv'
<1> USE DEF OrderInv, Types, Halted, MirrorInv, Running, Goto, Accept
<1>0. Done => pc' = "idle"
  BY DEF Done
<1>1. CASE Tick
  BY <1>1 DEF Tick
<1>2. ASSUME NEW h \in Halves, NEW first \in Firsts, StartOutput(h, first)
      PROVE  MirrorInv'
  BY <1>2 DEF StartOutput
<1>3. ASSUME NEW h \in Halves, StartRefused(h) PROVE MirrorInv'
  BY <1>3 DEF StartRefused
<1>4. CASE StartFold
  BY <1>4 DEF StartFold, Fold
<1>5. CASE StartArm
  <2>1. compv' \in Nat /\ piv' = request.half /\ request.half > 0
    <3>1. pc = "arm" /\ request.half \in Nat \ {0}
      BY <1>5 DEF StartArm, Requests, Asked
    <3>2. PushLate(FirstToggle, request.half).compv \in Nat
      BY <3>1, ToggleType, PushType
    <3> QED
      BY <1>5, <3>1, <3>2 DEF StartArm
  <2> QED
    BY <1>5, <2>1 DEF StartArm
<1>6. CASE StartOverflow
  BY <1>0, <1>6 DEF StartOverflow
<1>7. CASE StartEnable
  BY <1>0, <1>7 DEF StartEnable
<1>8. CASE StopOutput
  BY <1>8, BeginStopType DEF StopOutput
<1>9. CASE StopClear
  <2>1. request.then \in {"idle", "input", "noinput", "unload"}
    BY DEF Requests
  <2>2. pc' \in {"idle", "input", "noinput", "unload"}
    BY <1>0, <1>9, <2>1 DEF StopClear
  <2> QED
    BY <1>9, <2>2 DEF StopClear
<1>10. CASE InvertOutput
  <2>1. pc' \in {"idle", "read"} /\ (pc' = "read" => hwPiv > 0)
    BY <1>0, <1>10 DEF InvertOutput
  <2> QED
    BY <1>10, <2>1 DEF InvertOutput
<1>11. CASE InvertPause
  <2>1. request'.pm = pm
    <3> DEFINE made(target, bit) ==
                 [NoRequest EXCEPT !.target = target, !.pm = bit]
    <3>1. request' = made(compv + hwPiv, pm) /\ pm \in BOOLEAN
      BY <1>11 DEF InvertPause
    <3>2. \A target \in Nat, bit \in BOOLEAN : made(target, bit).pm = bit
      BY RequestTypes
    <3>3. compv + hwPiv \in Nat
      OBVIOUS
    <3> HIDE DEF made
    <3> QED
      BY <3>1, <3>2, <3>3, Zenon
  <2> QED
    BY <1>11, <2>1 DEF InvertPause
<1>12. CASE InvertNoRoom
  BY <1>0, <1>12 DEF InvertNoRoom
<1>13. CASE InvertWrite
  BY <1>0, <1>13 DEF InvertWrite, Requests
<1>14. ASSUME NEW enable \in BOOLEAN, SetInput(enable) PROVE MirrorInv'
  <2>1. CASE mode = "output"
    BY <1>14, <2>1, BeginStopType DEF SetInput
  <2>2. CASE mode # "output"
    BY <1>0, <1>14, <2>2 DEF SetInput, WriteInput
  <2> QED
    BY <2>1, <2>2
<1>15. CASE SetInputFinish
  BY <1>0, <1>15 DEF SetInputFinish, WriteInput
<1>16. CASE GetBlock
  BY <1>16 DEF GetBlock, Fold
<1>17. CASE Cleanup
  <2>1. CASE mode = "output"
    BY <1>17, <2>1, BeginStopType DEF Cleanup
  <2>2. CASE mode # "output"
    BY <1>17, <2>2 DEF Cleanup
  <2> QED
    BY <2>1, <2>2
<1>18. CASE UNCHANGED vars
  BY <1>18
<1> QED
  BY <1>1, <1>2, <1>3, <1>4, <1>5, <1>6, <1>7, <1>8, <1>9, <1>10, <1>11,
     <1>12, <1>13, <1>14, <1>15, <1>16, <1>17, <1>18 DEF Next, Ioctl, Unmapped

LEMMA MirrorInitially == Init => MirrorInv /\ Parity!Init
<1> SUFFICES ASSUME Init PROVE MirrorInv /\ Parity!Init
  OBVIOUS
<1>1. MirrorInv
  BY DEF Init, MirrorInv, Running
<1>2. Folded = FALSE
  BY DEF Init, Folded, Events
<1> QED
  BY <1>1, <1>2 DEF Init, Parity!Init

-----------------------------------------------------------------------------
(* The refinement *)

\* What a step has to do to the folded level for the abstract specification.
Mapped == [Parity!Next]_(Parity!vars)

\* An edge is Toggle, INVERT_OUTPUT is Calibrate, and no other step of an
\* IOCTL or of the cleanup changes what the mirror says of the flop.
LEMMA ImplementsStep ==
    ASSUME ~InvertGap, OrderInv, MirrorInv, [Next]_vars
    PROVE  Mapped
<1> USE DEF Mapped, Parity!vars
<1>a. Types
  BY DEF OrderInv
<1>b. ASSUME UNCHANGED <<level, wrong, compv, mirror>> PROVE Mapped
  BY <1>b DEF Folded, Events
<1>c. ASSUME UNCHANGED <<level, wrong>>, flop' = Folded,
             hwPiv' = 0 \/ compv' <= ckpt', compv' \in Nat, ckpt' \in Nat,
             hwPiv' \in Nat
      PROVE  Mapped
  <2>1. Folded' = flop'
    <3>1. Events' = 0
      <4>1. CASE hwPiv' # 0 /\ compv' >= ckpt'
        <5>1. (compv' - ckpt') \div hwPiv' = 0
          BY <1>c, <4>1, NoDistance
        <5> QED
          BY <4>1, <5>1 DEF Events
      <4>2. CASE ~(hwPiv' # 0 /\ compv' >= ckpt')
        BY <4>2 DEF Events
      <4> QED
        BY <4>1, <4>2
    <3> QED
      BY <3>1 DEF Folded
  <2> QED
    BY <1>c, <2>1
<1>1. CASE Tick
  <2>1. CASE Running /\ compv + Delay <= now + 1
    <3>1. /\ compv' = compv + piv /\ level' = ~level
          /\ UNCHANGED mirror /\ wrong' = wrong
      BY <1>1, <2>1 DEF Tick
    <3>2. Folded' = ~Folded
      BY <1>a, <2>1, <3>1, EdgeFolds
    <3> QED
      BY <3>1, <3>2 DEF Parity!Next, Parity!Toggle
  <2>2. CASE ~(Running /\ compv + Delay <= now + 1)
    BY <1>1, <1>b, <2>2 DEF Tick
  <2> QED
    BY <2>1, <2>2
<1>2. ASSUME NEW h \in Halves, NEW first \in Firsts, StartOutput(h, first)
      PROVE  Mapped
  BY <1>2, <1>b DEF StartOutput
<1>3. ASSUME NEW h \in Halves, StartRefused(h) PROVE Mapped
  BY <1>3, <1>b DEF StartRefused
<1>4. CASE StartFold
  <2>1. /\ UNCHANGED <<level, wrong>> /\ flop' = Folded /\ compv' = 0
        /\ ckpt' \in Nat /\ hwPiv' \in Nat
    BY <1>4, <1>a DEF StartFold, Fold, Types
  <2> QED
    BY <1>c, <2>1
<1>5. CASE StartArm
  <2>1. compv = 0 /\ ckpt \in Nat
    BY <1>5, <1>a DEF StartArm, MirrorInv, Types
  <2>2. Folded = flop
    BY <1>a, <2>1, NothingPending
  <2>3. pc = "arm" /\ request.half \in Nat \ {0}
    BY <1>5 DEF StartArm, OrderInv, Types, Requests, Asked
  <2>4. PushLate(FirstToggle, request.half).compv \in Nat
    BY <1>a, <2>3, ToggleType, PushType
  <2>5. /\ UNCHANGED <<level, wrong, flop>> /\ compv' = ckpt'
        /\ compv' \in Nat /\ hwPiv' \in Nat
    BY <1>5, <2>3, <2>4 DEF StartArm
  <2> QED
    BY <1>c, <2>2, <2>5
<1>6. CASE StartOverflow
  BY <1>6, <1>b DEF StartOverflow
<1>7. CASE StartEnable
  BY <1>7, <1>b DEF StartEnable
<1>8. CASE StopOutput
  BY <1>8, <1>b DEF StopOutput
<1>9. CASE StopClear
  <2>1. /\ UNCHANGED <<level, wrong>> /\ flop' = Folded /\ compv' = 0
        /\ ckpt' = 0 /\ hwPiv' = 0
    BY <1>9 DEF StopClear
  <2> QED
    BY <1>c, <2>1
<1>10. CASE InvertOutput
  <2>1. /\ level' = level /\ wrong' = ~wrong /\ flop' = ~Folded
        /\ UNCHANGED <<compv, hwPiv>> /\ compv \in Nat /\ ckpt \in Nat
        /\ hwPiv \in Nat
        /\ ckpt' = IF hwPiv # 0 /\ compv >= ckpt THEN compv ELSE ckpt
    BY <1>10, <1>a DEF InvertOutput, Types
  <2>2. Events' = 0
    <3>1. CASE hwPiv # 0 /\ compv >= ckpt
      <4>1. compv' - ckpt' = 0 /\ hwPiv' \in Nat \ {0}
        BY <2>1, <3>1
      <4> QED
        BY <4>1 DEF Events
    <3>2. CASE ~(hwPiv # 0 /\ compv >= ckpt)
      <4>1. ~(hwPiv' # 0 /\ compv' >= ckpt')
        BY <2>1, <3>2
      <4> QED
        BY <4>1 DEF Events
    <3> QED
      BY <3>1, <3>2
  <2>3. Folded' = ~Folded
    BY <2>1, <2>2 DEF Folded
  <2> QED
    BY <2>1, <2>3 DEF Parity!Next, Parity!Calibrate
<1>11. CASE InvertPause
  BY <1>11, <1>b DEF InvertPause
<1>12. CASE InvertNoRoom
  BY <1>12, <1>b DEF InvertNoRoom
<1>13. CASE InvertWrite
  <2>1. compv <= ckpt /\ request.target \in Nat /\ hwPiv \in Nat
    BY <1>13, <1>a DEF InvertWrite, MirrorInv, Types, Requests
  <2>2. Folded = flop
    BY <1>a, <2>1, NothingPending
  <2>3. /\ UNCHANGED <<level, wrong, flop, hwPiv>>
        /\ compv' = request.target /\ ckpt' = compv'
    BY <1>13 DEF InvertWrite
  <2> QED
    BY <1>c, <2>1, <2>2, <2>3
<1>14. ASSUME NEW enable \in BOOLEAN, SetInput(enable) PROVE Mapped
  BY <1>14, <1>b DEF SetInput
<1>15. CASE SetInputFinish
  BY <1>15, <1>b DEF SetInputFinish
<1>16. CASE GetBlock
  <2>1. /\ UNCHANGED <<level, wrong, compv, hwPiv>> /\ flop' = Folded
        /\ compv \in Nat /\ ckpt \in Nat /\ hwPiv \in Nat
        /\ ckpt' = IF hwPiv # 0 /\ compv >= ckpt THEN compv ELSE ckpt
    BY <1>16, <1>a DEF GetBlock, Fold, Types
  <2>2. hwPiv' = 0 \/ compv' <= ckpt'
    BY <2>1
  <2> QED
    BY <1>c, <2>1, <2>2
<1>17. CASE Cleanup
  BY <1>17, <1>b DEF Cleanup
<1>18. CASE UNCHANGED vars
  BY <1>18, <1>b
<1> QED
  BY <1>1, <1>2, <1>3, <1>4, <1>5, <1>6, <1>7, <1>8, <1>9, <1>10, <1>11,
     <1>12, <1>13, <1>14, <1>15, <1>16, <1>17, <1>18 DEF Next, Ioctl, Unmapped

\* The folds, re-armings, stops and inversions of hw.c keep the promise of
\* ParityMirror, for every waveform and however the engine interleaves, if no
\* edge falls between the fold and the pause of an inversion.
THEOREM ImplementsMirror == ASSUME ~InvertGap PROVE Spec => MirrorsParity
<1>1. Init => OrderInv /\ MirrorInv /\ Parity!Init
  BY OrderInitially, MirrorInitially
<1>2. OrderInv /\ MirrorInv /\ [Next]_vars => (OrderInv /\ MirrorInv)' /\ Mapped
  BY OrderStep, MirrorStep, ImplementsStep
<1> QED
  BY <1>1, <1>2, PTL DEF Spec, MirrorsParity, Parity!Spec, Mapped
-----------------------------------------------------------------------------
(* Words *)

Quarter == Max \div 4

\* Intervals leave room for a quarter of the word, and what an IOCTL is about
\* to write fits.
WordInv ==
    /\ now \in 1..MaxTime /\ waited \in 0..Stall /\ calls \in 0..MaxCalls
    /\ compv <= Max /\ ckpt <= Max /\ request.target <= Max
    /\ piv <= Quarter /\ hwPiv <= Quarter /\ request.half <= Quarter
    /\ half \in 0..Quarter /\ grid \in Nat \cup {NoGrid}

\* The records an IOCTL makes of its local variables: their intervals and
\* compares.
LEMMA RequestFields ==
    /\ NoRequest.half = 0 /\ NoRequest.target = 0
    /\ \A then \in {"idle", "input", "noinput", "unload"} :
         /\ [NoRequest EXCEPT !.then = then].half = 0
         /\ [NoRequest EXCEPT !.then = then].first = 0
         /\ [NoRequest EXCEPT !.then = then].target = 0
    /\ \A h, first \in Nat :
         /\ [NoRequest EXCEPT !.half = h, !.first = first].half = h
         /\ [NoRequest EXCEPT !.half = h, !.first = first].first = first
         /\ [NoRequest EXCEPT !.half = h, !.first = first].target = 0
    /\ \A target \in Nat, bit \in BOOLEAN :
         /\ [NoRequest EXCEPT !.target = target, !.pm = bit].half = 0
         /\ [NoRequest EXCEPT !.target = target, !.pm = bit].first = 0
         /\ [NoRequest EXCEPT !.target = target, !.pm = bit].target = target
         /\ [NoRequest EXCEPT !.target = target, !.pm = bit].pm = bit
  BY DEF NoRequest

LEMMA WordConstants ==
    /\ Stall \in Nat /\ MaxTime \in Nat /\ MaxCalls \in Nat
    /\ Quarter \in Nat /\ Quarter <= Max
    /\ \A h \in Halves : Stall < h
    /\ Stall < Margin + Delay
  BY ConstantTypes, TimeAssumption DEF Quarter

\* A compare that the late-arm guard passes is a word.
LEMMA PushFits ==
    ASSUME Types, NEW first \in Nat, NEW h \in Nat \ {0}, PushLate(first, h).ok
    PROVE  PushLate(first, h).compv <= Max
<1> DEFINE deadline == now + Margin
           periods == IF first < deadline
                        THEN (deadline - first) \div (2 * h) + 1 ELSE 0
           room == (Max - first) \div (2 * h)
<1>1. deadline \in Nat /\ 2 * h \in Nat \ {0} /\ Max - first \in Int
  BY ConstantTypes DEF Types
<1>2. periods \in Nat /\ room \in Int
  BY <1>1
<1>3. PushLate(first, h).compv = first + periods * 2 * h /\ periods <= room
  BY DEF PushLate
<1>4. room * (2 * h) <= Max - first
  <2>1. \A x \in Int, d \in Nat \ {0} : (x \div d) * d <= x
    OBVIOUS
  <2> QED
    BY <1>1, <2>1
<1>5. periods * 2 * h = periods * (2 * h) /\ periods * 2 * h \in Int
  <2>1. \A p \in Nat, x \in Nat : p * 2 * x = p * (2 * x) /\ p * 2 * x \in Int
    OBVIOUS
  <2> QED
    BY <1>2, <2>1
<1>6. periods * (2 * h) <= room * (2 * h) /\ room * (2 * h) \in Int
  <2>1. \A p \in Int, q \in Int, d \in Nat : p <= q => p * d <= q * d /\ q * d \in Int
    OBVIOUS
  <2> HIDE DEF periods, room
  <2> QED
    BY <1>1, <1>2, <1>3, <2>1
<1> HIDE DEF periods, room
<1> QED
  BY <1>1, <1>3, <1>4, <1>5, <1>6, ConstantTypes

\* No step breaks the invariant, if the counter is not near its end.
LEMMA WordStep ==
    ASSUME MaxTime <= Max - Quarter, OrderInv, WordInv, [Next]_vars
    PROVE  WordInv'
<1> USE WordConstants DEF WordInv, Goto, Accept
<1>a. Types
  BY DEF OrderInv
<1>b. /\ now \in Nat /\ compv \in Nat /\ ckpt \in Nat /\ piv \in Nat
      /\ hwPiv \in Nat /\ request.half \in Nat /\ request.target \in Nat
      /\ request.then \in {"idle", "input", "noinput", "unload"}
      /\ pc = "arm" => request.half > 0
  BY DEF OrderInv, Types, Requests, Asked
<1>c. Max \in Nat /\ Delay \in Nat
  BY ConstantTypes
<1>0. Done => /\ waited' \in 0..Stall
              /\ request'.half <= Quarter /\ request'.target <= Max
  BY RequestFields, <1>c DEF Done
<1>d. ASSUME NEW then \in {"idle", "input", "noinput", "unload"}, BeginStop(then)
      PROVE  /\ waited' \in 0..Stall
             /\ request'.half <= Quarter /\ request'.target <= Max
  BY <1>c, <1>d, RequestFields DEF BeginStop
<1>1. CASE Tick
  <2>1. compv' <= Max
    BY <1>1, <1>b, <1>c DEF Tick
  <2>2. now' \in 1..MaxTime /\ waited' \in 0..Stall
    BY <1>1, <1>b DEF Tick
  <2> QED
    BY <1>1, <2>1, <2>2 DEF Tick
<1>2. ASSUME NEW h \in Halves, NEW first \in Firsts, StartOutput(h, first)
      PROVE  WordInv'
  <2>1. h \in Nat /\ h <= Quarter /\ first \in Nat
    BY <1>2, <1>c, ConstantTypes DEF StartOutput, TooLong, Quarter
  <2>2. request'.half = h /\ request'.target = 0
    <3> DEFINE made(i, j) == [NoRequest EXCEPT !.half = i, !.first = j]
    <3>1. request' = made(h, first)
      BY <1>2 DEF StartOutput
    <3>2. \A i, j \in Nat : made(i, j).half = i /\ made(i, j).target = 0
      BY RequestFields
    <3> HIDE DEF made
    <3> QED
      BY <2>1, <3>1, <3>2, Zenon
  <2>3. /\ waited' = 0 /\ calls' \in 0..MaxCalls
        /\ UNCHANGED <<now, compv, ckpt, piv, hwPiv, half, grid>>
    BY <1>2 DEF StartOutput, registers, mirror
  <2> QED
    BY <1>c, <2>1, <2>2, <2>3
<1>3. ASSUME NEW h \in Halves, StartRefused(h) PROVE WordInv'
  BY <1>3 DEF StartRefused
<1>4. CASE StartFold
  BY <1>4, <1>b, <1>c DEF StartFold, Fold
<1>5. CASE StartArm
  <2>1. /\ FirstToggle \in Nat /\ FirstEdge \in Nat /\ request.half \in Nat \ {0}
        /\ PushLate(FirstToggle, request.half).ok
    BY <1>5, <1>a, <1>b, ToggleType DEF StartArm
  <2>2. PushLate(FirstToggle, request.half).compv <= Max
    BY <1>a, <2>1, PushFits
  <2>3. /\ compv' = PushLate(FirstToggle, request.half).compv /\ ckpt' = compv'
        /\ piv' = request.half /\ hwPiv' = request.half /\ half' = request.half
        /\ grid' = FirstEdge /\ waited' = 0
        /\ UNCHANGED <<now, request, calls>>
    BY <1>5 DEF StartArm
  <2> QED
    BY <1>b, <2>1, <2>2, <2>3
<1>6. CASE StartOverflow
  BY <1>0, <1>6 DEF StartOverflow
<1>7. CASE StartEnable
  BY <1>0, <1>7 DEF StartEnable
<1>8. CASE StopOutput
  BY <1>d, <1>8 DEF StopOutput
<1>9. CASE StopClear
  <2>1. /\ waited' \in 0..Stall
        /\ request'.half <= Quarter /\ request'.target <= Max
    BY <1>0, <1>9 DEF StopClear
  <2> QED
    BY <1>9, <1>c, <2>1 DEF StopClear
<1>10. CASE InvertOutput
  <2>1. /\ waited' \in 0..Stall
        /\ request'.half <= Quarter /\ request'.target <= Max
    BY <1>0, <1>10 DEF InvertOutput
  <2> QED
    BY <1>10, <2>1 DEF InvertOutput
<1>11. CASE InvertPause
  <2>1. compv + hwPiv \in Nat /\ compv + hwPiv <= Max /\ pm \in BOOLEAN
    BY <1>11, <1>b, <1>a DEF InvertPause, Types
  <2>2. request'.half = 0 /\ request'.target = compv + hwPiv
    <3> DEFINE made(c, bit) == [NoRequest EXCEPT !.target = c, !.pm = bit]
    <3>1. request' = made(compv + hwPiv, pm)
      BY <1>11 DEF InvertPause
    <3>2. \A c \in Nat, bit \in BOOLEAN :
            made(c, bit).half = 0 /\ made(c, bit).target = c
      BY RequestFields
    <3> HIDE DEF made
    <3> QED
      BY <2>1, <3>1, <3>2, Zenon
  <2> QED
    BY <1>11, <2>1, <2>2 DEF InvertPause
<1>12. CASE InvertNoRoom
  BY <1>0, <1>12 DEF InvertNoRoom
<1>13. CASE InvertWrite
  BY <1>0, <1>13 DEF InvertWrite
<1>14. ASSUME NEW enable \in BOOLEAN, SetInput(enable) PROVE WordInv'
  <2>1. /\ waited' \in 0..Stall
        /\ request'.half <= Quarter /\ request'.target <= Max
    BY <1>0, <1>d, <1>14 DEF SetInput
  <2> QED
    BY <1>14, <2>1 DEF SetInput
<1>15. CASE SetInputFinish
  BY <1>0, <1>15 DEF SetInputFinish, WriteInput
<1>16. CASE GetBlock
  BY <1>16 DEF GetBlock, Fold
<1>17. CASE Cleanup
  <2>1. /\ waited' \in 0..Stall
        /\ request'.half <= Quarter /\ request'.target <= Max
    BY <1>d, <1>17 DEF Cleanup
  <2> QED
    BY <1>17, <2>1 DEF Cleanup
<1>18. CASE UNCHANGED vars
  BY <1>18
<1> QED
  BY <1>1, <1>2, <1>3, <1>4, <1>5, <1>6, <1>7, <1>8, <1>9, <1>10, <1>11,
     <1>12, <1>13, <1>14, <1>15, <1>16, <1>17, <1>18 DEF Next, Ioctl, Unmapped

\* Registers and fields stay words as long as the ART is not in the last
\* quarter of its range: an interval that tgpio_hw_start_output accepts
\* carries no compare past the end.
THEOREM WordsFit == ASSUME MaxTime \in 1..(Max - Quarter) PROVE Spec => []TypeOK
<1>0. MaxTime <= Max - Quarter /\ 1 <= MaxTime
  BY WordConstants, ConstantTypes
<1>1. Init => WordInv
  BY <1>0, WordConstants, ConstantTypes, RequestFields DEF Init, WordInv, NoGrid
<1>2. OrderInv /\ WordInv /\ [Next]_vars => WordInv'
  BY <1>0, WordStep
<1>3. OrderInv /\ WordInv => TypeOK
  <2> SUFFICES ASSUME OrderInv, WordInv PROVE TypeOK
    OBVIOUS
  <2>1. request \in [then : {"idle", "input", "noinput", "unload"},
                     half : 0..Max, first : Nat, target : 0..Max, pm : BOOLEAN]
    BY WordConstants, ConstantTypes DEF OrderInv, Types, Requests, WordInv
  <2> QED
    BY <2>1, WordConstants, ConstantTypes DEF OrderInv, Types, WordInv, TypeOK
<1> QED
  BY <1>1, <1>2, <1>3, OrderInitially, OrderStep, PTL DEF Spec
-----------------------------------------------------------------------------
(* The grid *)

\* How far into a period of half cycles h since the rise g an edge lies whose
\* compare is c
Offset(c, g, h) == (c + Delay - g) % (2 * h)

\* The edge of a compare is the one that the level calls for next, where the
\* waveform asked for has it.
Lands(c) ==
    /\ half \in Halves
    /\ grid # NoGrid =>
         Offset(c, grid, half) = IF level # wrong THEN half ELSE 0

\* It is still ahead when so many cycles have passed.
Due(c, cycles) == piv = half /\ c + Delay > now + cycles /\ Lands(c)

\* The next edge lies on the grid: that of the compare while the block runs;
\* that of the compare an IOCTL has written or is about to write, however long
\* it still takes to do so.
GridInv ==
    /\ Running /\ pc \notin {"read", "write"} => Due(compv, 0)
    /\ pc = "enable" => Due(compv, Stall - waited)
    /\ pc = "read" /\ Running => compv + Delay > now /\ Due(compv + hwPiv, Stall)
    /\ pc = "write" /\ en /\ ~dir /\ request.pm =>
         Due(request.target, Stall - waited)
    /\ now > 0 /\ waited \in 0..Stall
    /\ request.half \in Halves \cup {0} /\ request.first \in Firsts \cup {0}
    /\ half \in Halves \cup {0} /\ grid \in Nat \cup {NoGrid}

\* Quotient and remainder,
LEMMA Remainder ==
    \A m \in Nat \ {0}, i \in Int, r \in Nat : r < m => (i * m + r) % m = r
  OBVIOUS

LEMMA Quotient ==
    ASSUME NEW x \in Int, NEW m \in Nat \ {0}
    PROVE  /\ x \div m \in Int /\ x % m \in Nat /\ x % m < m
           /\ x = (x \div m) * m + (x % m)
  OBVIOUS

LEMMA Distributes ==
    \A i, j, k \in Int : i * k \in Int /\ (i + j) * k = i * k + j * k
  OBVIOUS

\* and what whole periods change: nothing.
LEMMA WholePeriods ==
    ASSUME NEW x \in Int, NEW n \in Int, NEW m \in Nat \ {0}
    PROVE  (x + n * m) % m = x % m
<1> DEFINE q == x \div m
           r == x % m
<1>1. q \in Int /\ r \in Nat /\ r < m /\ x = q * m + r
  BY Quotient
<1> HIDE DEF q, r
<1>2. q * m \in Int /\ n * m \in Int /\ (q + n) * m = q * m + n * m
  BY <1>1, Distributes
<1>3. x + n * m = (q + n) * m + r /\ q + n \in Int
  BY <1>1, <1>2
<1>4. ((q + n) * m + r) % m = r
  BY <1>1, <1>3, Remainder
<1> QED
  BY <1>3, <1>4 DEF r

\* Half a period further lies the other edge.
LEMMA HalfTurn ==
    ASSUME NEW x \in Int, NEW h \in Nat \ {0}
    PROVE  /\ x % (2 * h) = 0 => (x + h) % (2 * h) = h
           /\ x % (2 * h) = h => (x + h) % (2 * h) = 0
<1> DEFINE m == 2 * h
           q == x \div m
<1>1. m \in Nat \ {0} /\ h < m /\ h + h = m
  OBVIOUS
<1>2. q \in Int /\ x = q * m + (x % m)
  BY <1>1, Quotient
<1> HIDE DEF m, q
<1>3. /\ q * m \in Int /\ (q * m + h) % m = h
      /\ (q + 1) * m = q * m + m /\ ((q + 1) * m + 0) % m = 0
  BY <1>1, <1>2, Distributes, Remainder
<1>4. x % m = 0 => x + h = q * m + h
  BY <1>2, <1>3
<1>5. x % m = h => x + h = (q + 1) * m + 0
  BY <1>1, <1>2, <1>3
<1> QED
  BY <1>3, <1>4, <1>5 DEF m

LEMMA OtherEdge ==
    ASSUME NEW c \in Nat, NEW g \in Nat, NEW h \in Nat \ {0}
    PROVE  /\ Offset(c, g, h) = 0 => Offset(c + h, g, h) = h
           /\ Offset(c, g, h) = h => Offset(c + h, g, h) = 0
<1>1. c + Delay - g \in Int /\ (c + h) + Delay - g = (c + Delay - g) + h
  BY ConstantTypes
<1>2. Offset(c + h, g, h) = ((c + Delay - g) + h) % (2 * h)
  BY <1>1 DEF Offset
<1> QED
  BY <1>1, <1>2, HalfTurn DEF Offset

\* The late-arm guard pushes a compare by whole periods, past the time it
\* takes to enable the block.
LEMMA PushOnGrid ==
    ASSUME Types, NEW first \in Nat, NEW h \in Nat \ {0}, NEW g \in Nat
    PROVE  /\ Offset(PushLate(first, h).compv, g, h) = Offset(first, g, h)
           /\ PushLate(first, h).compv + Delay > now + Stall
<1> DEFINE deadline == now + Margin
           periods == IF first < deadline
                        THEN (deadline - first) \div (2 * h) + 1 ELSE 0
           m == 2 * h
<1>1. /\ deadline \in Nat /\ m \in Nat \ {0} /\ deadline - first \in Int
      /\ now \in Nat /\ Delay \in Nat /\ Margin \in Nat /\ Stall \in Nat
      /\ Stall < Margin + Delay
  BY ConstantTypes, TimeAssumption DEF Types
<1>2. periods \in Nat
  BY <1>1
<1>3. PushLate(first, h).compv = first + periods * m
  <2>1. \A p, i \in Nat : p * 2 * i = p * (2 * i)
    OBVIOUS
  <2>2. PushLate(first, h).compv = first + periods * 2 * h
    BY DEF PushLate
  <2> HIDE DEF periods
  <2> QED
    BY <1>2, <2>1, <2>2
<1>4. first + periods * m >= deadline /\ periods * m \in Nat
  <2>1. \A d \in Int, k \in Nat \ {0} : (d \div k + 1) * k > d
    OBVIOUS
  <2>2. CASE first < deadline
    <3>1. periods * m = ((deadline - first) \div m + 1) * m
      BY <2>2
    <3>2. ((deadline - first) \div m + 1) * m > deadline - first
      BY <1>1, <2>1
    <3>3. periods * m \in Nat
      BY <1>1, <1>2, ProductType
    <3> HIDE DEF periods, m, deadline
    <3> QED
      BY <1>1, <3>1, <3>2, <3>3
  <2>3. CASE ~(first < deadline)
    BY <1>1, <2>3
  <2> QED
    BY <2>2, <2>3
<1>5. Offset(first + periods * m, g, h) = Offset(first, g, h)
  <2> DEFINE x == first + Delay - g
  <2>1. x \in Int /\ first + periods * m + Delay - g = x + periods * m
    BY <1>1, <1>4
  <2>2. (x + periods * m) % m = x % m
    <3>1. x \in Int /\ periods \in Int /\ m \in Nat \ {0}
      BY <1>1, <1>2, <2>1
    <3> HIDE DEF periods, x, m
    <3> QED
      BY <3>1, WholePeriods
  <2> HIDE DEF periods
  <2> QED
    BY <2>1, <2>2 DEF Offset
<1> HIDE DEF periods, m
<1> QED
  BY <1>1, <1>3, <1>4, <1>5

\* The first toggle is the rise asked for, or a fall half a period off.
LEMMA FirstOnGrid ==
    ASSUME Delay <= AutoStart, Types, GridInv, request.half \in Halves
    PROVE  Offset(FirstToggle, FirstEdge, request.half) =
             IF flop THEN request.half ELSE 0
<1> DEFINE h == request.half
           rise == FirstEdge - Delay
<1>1. /\ h \in Nat \ {0} /\ FirstEdge \in Nat /\ FirstEdge > Delay
      /\ Delay \in Nat /\ rise \in Nat /\ rise > 0
  BY ConstantTypes, RequestAssumption DEF Types, Requests, GridInv, FirstEdge
<1>2. /\ ~flop => FirstToggle = rise
      /\ flop => FirstToggle = rise - h \/ FirstToggle = rise + h
  BY <1>1 DEF FirstToggle
<1>3. /\ rise + Delay - FirstEdge = 0
      /\ (rise - h) + Delay - FirstEdge = -h
      /\ (rise + h) + Delay - FirstEdge = h
  BY <1>1
<1>4. 0 % (2 * h) = 0 /\ h % (2 * h) = h /\ (-h) % (2 * h) = h
  <2>1. \A i \in Nat \ {0} : 0 % (2 * i) = 0 /\ i % (2 * i) = i
    OBVIOUS
  <2>2. \A i \in Nat \ {0} : (-i) % (2 * i) = i
    OBVIOUS
  <2> QED
    BY <1>1, <2>1, <2>2
<1> HIDE DEF h, rise
<1>5. flop \in BOOLEAN
  BY DEF Types
<1>6. Offset(FirstToggle, FirstEdge, h) = IF flop THEN h ELSE 0
  <2>1. CASE ~flop
    BY <1>2, <1>3, <1>4, <2>1 DEF Offset
  <2>2. CASE flop /\ FirstToggle = rise - h
    BY <1>3, <1>4, <2>2 DEF Offset
  <2>3. CASE flop /\ FirstToggle = rise + h
    BY <1>3, <1>4, <2>3 DEF Offset
  <2> QED
    BY <1>2, <1>5, <2>1, <2>2, <2>3
<1> QED
  BY <1>6 DEF h

\* The mirror and its pending toggles follow the flop.
Agreement == Parity!Agreement

LEMMA AgreementStep ==
    ASSUME Types, Agreement, Mapped
    PROVE  Agreement'
  BY FoldedType DEF Types, Agreement, Mapped, Parity!Agreement, Parity!Next,
     Parity!Toggle, Parity!Calibrate, Parity!Load, Parity!vars

\* What is due stays due while time passes, if no more of it does than was
\* allowed for.
LEMMA DueStays ==
    ASSUME NEW c \in Int, NEW m \in Int, NEW n \in Int, NEW k \in Nat,
           Due(c, m), now \in Nat, now' = now + k, n + k <= m,
           UNCHANGED <<piv, half, grid, level, wrong>>
    PROVE  Due(c, n)'
<1>1. c + Delay > now' + n
  BY ConstantTypes DEF Due
<1>2. piv' = half' /\ Lands(c)'
  BY DEF Due, Lands
<1> QED
  BY <1>1, <1>2 DEF Due

\* When the level changes, or is found to be the other one, the edge half a
\* period further is the next.
LEMMA OtherLands ==
    ASSUME NEW c \in Nat, Types, Lands(c), grid \in Nat \cup {NoGrid},
           (level # wrong)' = ~(level # wrong), UNCHANGED <<half, grid>>
    PROVE  /\ half \in Nat \ {0}
           /\ half' \in Halves
           /\ grid' # NoGrid =>
                Offset(c + half, grid', half') =
                  IF level' # wrong' THEN half' ELSE 0
<1>1. half \in Nat \ {0} /\ (grid # NoGrid => grid \in Nat)
  BY ConstantTypes DEF Lands
<1>2. level \in BOOLEAN /\ wrong \in BOOLEAN
  BY DEF Types
<1> QED
  BY <1>1, <1>2, OtherEdge DEF Lands

\* Each step keeps the next edge on the grid.
LEMMA GridStep ==
    ASSUME ~InvertGap, Delay <= AutoStart,
           OrderInv, MirrorInv, Agreement, GridInv, [Next]_vars
    PROVE  GridInv'
<1> USE DEF Goto, Accept
<1>a. Types /\ Halted /\ Asked
  BY DEF OrderInv
<1>b. /\ now \in Nat /\ en \in BOOLEAN /\ dir \in BOOLEAN /\ pm \in BOOLEAN
      /\ compv \in Nat /\ piv \in Nat /\ hwPiv \in Nat
      /\ level \in BOOLEAN /\ wrong \in BOOLEAN
      /\ request.target \in Nat /\ request.first \in Nat
      /\ request.half \in Nat /\ request.pm \in BOOLEAN
      /\ request.then \in {"idle", "input", "noinput", "unload"}
  BY DEF OrderInv, Types, Requests
<1>c. /\ Delay \in Nat /\ Stall \in Nat /\ (\A h \in Halves : h \in Nat /\ Stall < h)
      /\ Halves \subseteq Nat \ {0}
  BY ConstantTypes, TimeAssumption
<1>d. /\ now > 0 /\ waited \in 0..Stall
      /\ request.half \in Halves \cup {0} /\ request.first \in Firsts \cup {0}
      /\ half \in Halves \cup {0} /\ grid \in Nat \cup {NoGrid}
  BY DEF GridInv
\* The parts that say where things lie in general
<1> DEFINE Places == /\ now > 0 /\ waited \in 0..Stall
                     /\ request.half \in Halves \cup {0}
                     /\ request.first \in Firsts \cup {0}
                     /\ half \in Halves \cup {0} /\ grid \in Nat \cup {NoGrid}
<1>0. Done => waited' = 0 /\ request'.half = 0 /\ request'.first = 0 /\ pc' = "idle"
  BY DEF Done, NoRequest
\* A step that leaves no waveform on the pin and no IOCTL with a compare in
\* hand,
<1>e. ASSUME ~Running', pc' \notin {"enable", "read", "write"}, Places'
      PROVE  GridInv'
  BY <1>e DEF GridInv
\* or keeps the waveform.
<1>f. ASSUME UNCHANGED <<now, compv, piv, level, wrong, half, grid>>, Places',
             pc' \notin {"enable", "read", "write"},
             Running' => Running /\ pc \notin {"read", "write"}
      PROVE  GridInv'
  <2>1. Running' => Due(compv, 0)'
    BY <1>f DEF GridInv, Due, Lands
  <2> QED
    BY <1>f, <2>1 DEF GridInv
<1>g. ASSUME NEW then \in {"idle", "input", "noinput", "unload"}, BeginStop(then)
      PROVE  /\ en' = FALSE /\ pc' = "stop" /\ waited' = 0
             /\ request'.half = 0 /\ request'.first = 0
  BY <1>g, RequestFields DEF BeginStop
<1>1. CASE Tick
  <2>1. /\ Places' /\ pc # "read" /\ now' = now + 1
        /\ pc # "idle" => waited' = waited + 1
        /\ UNCHANGED <<en, dir, pm, piv, pc, request, half, grid, wrong>>
    BY <1>1, <1>b, <1>c, <1>d DEF Tick
  <2>2. CASE Running /\ compv + Delay <= now + 1
    <3>1. pc \notin {"enable", "read", "write"}
      BY <1>a, <2>1, <2>2 DEF Halted, Running, MirrorInv
    <3>2. Due(compv, 0)
      BY <2>2, <3>1 DEF GridInv
    <3>3. compv' = compv + half /\ level' = ~level
      BY <1>1, <2>2, <3>2 DEF Tick, Due
    <3>4. piv' = half' /\ Lands(compv)'
      BY <1>a, <1>b, <1>d, <2>1, <3>2, <3>3, OtherLands DEF Due, Lands
    <3>5. compv' + Delay > now' + 0
      <4>1. compv + Delay > now + 0 /\ half \in Nat \ {0}
        BY <1>c, <3>2 DEF Due, Lands
      <4> QED
        BY <1>b, <1>c, <2>1, <3>3, <4>1
    <3> QED
      BY <2>1, <3>1, <3>4, <3>5 DEF GridInv, Due
  <2>3. CASE ~(Running /\ compv + Delay <= now + 1)
    <3>1. UNCHANGED <<level, compv>>
      BY <1>1, <2>3 DEF Tick
    <3>2. ASSUME Running', pc' \notin {"read", "write"}
          PROVE  Due(compv, 0)'
      <4>1. Due(compv, 0) /\ compv + Delay > now + 1
        BY <1>b, <1>c, <2>1, <2>3, <3>2 DEF GridInv, Running
      <4>2. Due(compv, 1)
        BY <4>1 DEF Due
      <4> QED
        BY <1>b, <2>1, <3>1, <4>2 DEF Due, Lands
    <3>3. pc # "idle" => (Stall - waited') + 1 <= Stall - waited
      BY <1>c, <1>d, <2>1
    <3>4. pc = "enable" => Due(compv, Stall - waited)'
      <4> SUFFICES ASSUME pc = "enable" PROVE Due(compv, Stall - waited)'
        OBVIOUS
      <4>1. Due(compv, Stall - waited)
        BY DEF GridInv
      <4> QED
        BY <1>b, <1>c, <1>d, <2>1, <3>1, <4>1 DEF Due, Lands
    <3>5. pc = "write" /\ en /\ ~dir /\ request.pm =>
            Due(request.target, Stall - waited)'
      <4> SUFFICES ASSUME pc = "write", en, ~dir, request.pm
                   PROVE  Due(request.target, Stall - waited)'
        OBVIOUS
      <4>1. Due(request.target, Stall - waited)
        BY DEF GridInv
      <4> QED
        BY <1>b, <1>c, <1>d, <2>1, <3>1, <4>1 DEF Due, Lands
    <3> QED
      BY <2>1, <3>2, <3>4, <3>5 DEF GridInv
  <2> QED
    BY <2>2, <2>3
<1>2. ASSUME NEW h \in Halves, NEW first \in Firsts, StartOutput(h, first)
      PROVE  GridInv'
  <2>1. request'.half = h /\ request'.first = first
    <3> DEFINE made(i, j) == [NoRequest EXCEPT !.half = i, !.first = j]
    <3>1. request' = made(h, first) /\ h \in Nat /\ first \in Nat
      BY <1>2, ConstantTypes DEF StartOutput
    <3>2. \A i, j \in Nat : made(i, j).half = i /\ made(i, j).first = j
      BY RequestFields
    <3> HIDE DEF made
    <3> QED
      BY <3>1, <3>2, Zenon
  <2>2. ~en' /\ pc' = "fold" /\ waited' = 0 /\ UNCHANGED <<now, half, grid>>
    BY <1>2 DEF StartOutput
  <2> QED
    BY <1>c, <1>d, <1>e, <2>1, <2>2 DEF Running
<1>3. ASSUME NEW h \in Halves, StartRefused(h) PROVE GridInv'
  BY <1>3, <1>d, <1>f DEF StartRefused, Running
<1>4. CASE StartFold
  <2>1. ~en' /\ pc' = "arm" /\ waited' = 0 /\ UNCHANGED <<now, request, half, grid>>
    BY <1>4, <1>a DEF StartFold, Halted
  <2> QED
    BY <1>c, <1>d, <1>e, <2>1 DEF Running
<1>5. CASE StartArm
  <2> DEFINE compare == PushLate(FirstToggle, request.half).compv
  <2>1. /\ pc = "arm" /\ pc' = "enable" /\ waited' = 0
        /\ compv' = compare /\ piv' = request.half /\ half' = request.half
        /\ grid' = FirstEdge /\ ~en'
        /\ UNCHANGED <<now, level, wrong, request>>
    BY <1>5, <1>a DEF StartArm, Halted
  <2>2. /\ request.half \in Halves /\ request.half \in Nat \ {0}
        /\ FirstToggle \in Nat /\ FirstEdge \in Nat
    <3>1. request.half > 0 /\ FirstToggle \in Nat /\ FirstEdge \in Nat
      BY <1>a, <2>1, ToggleType DEF Asked
    <3>2. request.half \in Halves
      BY <1>d, <3>1
    <3> QED
      BY <1>c, <3>1, <3>2
  <2>3. flop = (level # wrong)
    <3>1. compv <= ckpt
      BY <1>a, <2>1 DEF MirrorInv, Types
    <3> QED
      BY <1>a, <3>1, NothingPending DEF Agreement, Parity!Agreement
  <2>4. Offset(compare, FirstEdge, request.half) =
          IF level # wrong THEN request.half ELSE 0
    BY <1>a, <2>2, <2>3, PushOnGrid, FirstOnGrid
  <2>5. compare + Delay > now + Stall
    BY <1>a, <2>2, PushOnGrid
  <2> HIDE DEF compare
  <2>6. Due(compv, Stall - waited)'
    <3>1. Lands(compv)'
      BY <2>1, <2>2, <2>4 DEF Lands
    <3>2. compv' + Delay > now' + (Stall - waited')
      BY <1>c, <2>1, <2>5
    <3> QED
      BY <2>1, <3>1, <3>2 DEF Due
  <2> QED
    BY <1>c, <1>d, <2>1, <2>2, <2>6 DEF GridInv, Running
<1>6. CASE StartOverflow
  <2>1. ~en' /\ UNCHANGED <<now, half, grid>> /\ Done
    BY <1>6, <1>a DEF StartOverflow, Halted
  <2> QED
    BY <1>0, <1>c, <1>d, <1>e, <2>1 DEF Running
<1>7. CASE StartEnable
  <2>1. /\ pc = "enable" /\ Done
        /\ UNCHANGED <<now, compv, piv, level, wrong, half, grid>>
    BY <1>7 DEF StartEnable
  <2>2. Due(compv, Stall - waited)
    BY <2>1 DEF GridInv
  <2>3. Due(compv, 0)'
    BY <1>b, <1>c, <1>d, <2>1, <2>2 DEF Due, Lands
  <2> QED
    BY <1>0, <1>c, <1>d, <2>1, <2>3 DEF GridInv
<1>8. CASE StopOutput
  <2>1. BeginStop("idle") /\ UNCHANGED <<now, half, grid>>
    BY <1>8 DEF StopOutput
  <2> QED
    BY <1>c, <1>d, <1>e, <1>g, <2>1 DEF Running
<1>9. CASE StopClear
  <2>1. /\ ~pm' /\ UNCHANGED <<now, half, grid>>
        /\ Done \/ (pc' = request.then /\ waited' = 0 /\ request' = request)
    BY <1>9 DEF StopClear
  <2> QED
    BY <1>0, <1>b, <1>c, <1>d, <1>e, <2>1 DEF Running
<1>10. CASE InvertOutput
  <2>1. /\ pc = "idle" /\ wrong' = ~wrong
        /\ UNCHANGED <<now, en, dir, pm, compv, piv, hwPiv, level, half, grid>>
        /\ \/ Done /\ hwPiv = 0
           \/ pc' = "read" /\ waited' = 0 /\ request' = request
    BY <1>10 DEF InvertOutput
  <2>2. Places'
    BY <1>0, <1>c, <1>d, <2>1
  <2>3. ASSUME Running
        PROVE  /\ pc' = "read"
               /\ (compv + Delay > now /\ Due(compv + hwPiv, Stall))'
    <3>1. Due(compv, 0) /\ hwPiv = half /\ pc' = "read"
      BY <2>1, <2>3 DEF GridInv, MirrorInv, Due
    <3>2. Lands(compv + hwPiv)'
      BY <1>a, <1>b, <1>d, <2>1, <3>1, OtherLands DEF Due, Lands
    <3>3. compv + Delay > now /\ Stall < hwPiv
      BY <1>b, <1>c, <3>1 DEF Due, Lands
    <3>4. (compv + hwPiv) + Delay > now + Stall
      BY <1>b, <1>c, <3>3
    <3> QED
      BY <2>1, <3>1, <3>2, <3>3, <3>4 DEF Due
  <2> QED
    BY <1>0, <2>1, <2>2, <2>3 DEF GridInv, Running
<1>11. CASE InvertPause
  <2>1. /\ pc = "read" /\ pc' = "write" /\ waited' = 0 /\ pm' = FALSE
        /\ UNCHANGED <<now, en, dir, compv, piv, level, wrong, half, grid>>
    BY <1>11 DEF InvertPause
  <2>2. /\ request'.half = 0 /\ request'.first = 0
        /\ request'.target = compv + hwPiv /\ request'.pm = pm
    <3> DEFINE made(c, bit) == [NoRequest EXCEPT !.target = c, !.pm = bit]
    <3>1. request' = made(compv + hwPiv, pm)
      BY <1>11 DEF InvertPause
    <3>2. \A c \in Nat, bit \in BOOLEAN :
            /\ made(c, bit).half = 0 /\ made(c, bit).first = 0
            /\ made(c, bit).target = c /\ made(c, bit).pm = bit
      BY RequestFields
    <3>3. compv + hwPiv \in Nat /\ pm \in BOOLEAN
      BY <1>b
    <3> HIDE DEF made
    <3> QED
      BY <3>1, <3>2, <3>3, Zenon
  <2>3. Running => Due(request.target, Stall - waited)'
    <3> SUFFICES ASSUME Running PROVE Due(request.target, Stall - waited)'
      OBVIOUS
    <3>1. Due(compv + hwPiv, Stall)
      BY <2>1 DEF GridInv
    <3> QED
      BY <1>c, <2>1, <2>2, <3>1 DEF Due, Lands
  <2>4. Places'
    BY <1>c, <1>d, <2>1, <2>2
  <2> QED
    BY <2>1, <2>2, <2>3, <2>4 DEF GridInv, Running
<1>12. CASE InvertNoRoom
  <2>1. /\ pc = "read" /\ Done /\ grid' = NoGrid
        /\ UNCHANGED <<now, en, dir, pm, compv, piv, level, wrong, half>>
    BY <1>12 DEF InvertNoRoom
  <2>2. Running => Due(compv, 0)'
    BY <1>b, <1>c, <2>1 DEF GridInv, Due, Lands
  <2>3. Places'
    BY <1>0, <1>c, <1>d, <2>1
  <2> QED
    BY <1>0, <2>1, <2>2, <2>3 DEF GridInv, Running
<1>13. CASE InvertWrite
  <2>1. /\ pc = "write" /\ Done /\ compv' = request.target /\ pm' = request.pm
        /\ UNCHANGED <<now, en, dir, piv, level, wrong, half, grid>>
    BY <1>13 DEF InvertWrite
  <2>2. Running' => Due(compv, 0)'
    <3> SUFFICES ASSUME Running' PROVE Due(compv, 0)'
      OBVIOUS
    <3>1. Due(request.target, Stall - waited)
      BY <2>1 DEF GridInv, Running
    <3> QED
      BY <1>b, <1>c, <1>d, <2>1, <3>1 DEF Due, Lands
  <2>3. Places'
    BY <1>0, <1>c, <1>d, <2>1
  <2> QED
    BY <1>0, <2>1, <2>2, <2>3 DEF GridInv
<1>14. ASSUME NEW enable \in BOOLEAN, SetInput(enable) PROVE GridInv'
  <2>1. CASE mode = "output"
    <3>1. /\ BeginStop("input") \/ BeginStop("noinput")
          /\ UNCHANGED <<now, half, grid>>
      BY <1>14, <2>1 DEF SetInput
    <3>2. /\ ~en' /\ pc' = "stop" /\ waited' = 0
          /\ request'.half = 0 /\ request'.first = 0
      <4>1. CASE BeginStop("input")
        BY <1>g, <4>1
      <4>2. CASE BeginStop("noinput")
        BY <1>g, <4>2
      <4> QED
        BY <3>1, <4>1, <4>2
    <3>3. Places' /\ ~Running'
      BY <1>c, <1>d, <3>1, <3>2 DEF Running
    <3> QED
      BY <1>e, <3>2, <3>3
  <2>2. CASE mode # "output"
    <3>1. ~Running' /\ Done /\ UNCHANGED <<now, half, grid>>
      BY <1>14, <2>2 DEF SetInput, WriteInput, Running
    <3>2. Places' /\ pc' = "idle"
      BY <1>0, <1>c, <1>d, <3>1
    <3> QED
      BY <1>e, <3>1, <3>2
  <2> QED
    BY <2>1, <2>2
<1>15. CASE SetInputFinish
  <2>1. ~Running' /\ Done /\ UNCHANGED <<now, half, grid>>
    BY <1>15 DEF SetInputFinish, WriteInput, Running
  <2> QED
    BY <1>0, <1>c, <1>d, <1>e, <2>1
<1>16. CASE GetBlock
  BY <1>16, <1>d, <1>f DEF GetBlock, Running
<1>17. CASE Cleanup
  <2>1. CASE mode = "output"
    <3>1. BeginStop("unload") /\ UNCHANGED <<now, half, grid>>
      BY <1>17, <2>1 DEF Cleanup
    <3> QED
      BY <1>c, <1>d, <1>e, <1>g, <3>1 DEF Running
  <2>2. CASE mode # "output"
    <3>1. /\ pc = "idle" /\ pc' = "unload" /\ waited' = 0 /\ (Running' => Running)
          /\ UNCHANGED <<now, compv, piv, level, wrong, half, grid, request>>
      BY <1>17, <2>2, <1>b DEF Cleanup, Running
    <3> QED
      BY <1>c, <1>d, <1>f, <3>1
  <2> QED
    BY <2>1, <2>2
<1>18. CASE UNCHANGED vars
  BY <1>18 DEF GridInv, Due, Lands, Running
<1> QED
  BY <1>1, <1>2, <1>3, <1>4, <1>5, <1>6, <1>7, <1>8, <1>9, <1>10, <1>11,
     <1>12, <1>13, <1>14, <1>15, <1>16, <1>17, <1>18 DEF Next, Ioctl, Unmapped

LEMMA GridInitially == Init => GridInv /\ Agreement
<1> SUFFICES ASSUME Init PROVE GridInv /\ Agreement
  OBVIOUS
<1>1. Stall \in Nat
  BY ConstantTypes, TimeAssumption
<1>2. GridInv
  BY <1>1 DEF Init, GridInv, Running, NoRequest, NoGrid
<1>3. Folded = FALSE /\ level \in BOOLEAN /\ wrong = level
  BY DEF Init, Folded, Events
<1> QED
  BY <1>2, <1>3 DEF Agreement, Parity!Agreement

\* With a mirror that is right, tgpio_hw_start_output puts rises a whole number
\* of periods from the edge asked for and falls half a period off, however late
\* it arms and whatever level it finds, and tgpio_hw_invert_output shifts them
\* by half a period, for every waveform and interleaving; as long as the start
\* it chooses itself lies further ahead than the hardware delay.
THEOREM EdgesOnGrid ==
    ASSUME ~InvertGap, Delay <= AutoStart
    PROVE  Spec => RisesOnGrid
<1> DEFINE Inv == OrderInv /\ MirrorInv /\ Agreement /\ GridInv
           OnGrid == level' # level /\ ~wrong /\ grid # NoGrid =>
                       (now' - grid) % (2 * half) = IF level' THEN 0 ELSE half
<1>1. Init => Inv
  BY OrderInitially, MirrorInitially, GridInitially
<1>2. Inv /\ [Next]_vars => Inv'
  BY OrderStep, MirrorStep, ImplementsStep, AgreementStep, GridStep DEF OrderInv
<1>3. Inv /\ [Next]_vars => [OnGrid]_vars
  <2> SUFFICES ASSUME Inv, [Next]_vars, level' # level, ~wrong, grid # NoGrid
               PROVE  (now' - grid) % (2 * half) = IF level' THEN 0 ELSE half
    OBVIOUS
  <2>1. Running /\ compv + Delay <= now + 1 /\ level' = ~level /\ now' = now + 1 /\ pc # "read"
    BY DEF Next, Ioctl, Tick, StartOutput, StartRefused, StartFold, StartArm,
       StartOverflow, StartEnable, StopOutput, StopClear, InvertOutput,
       InvertPause, InvertNoRoom, InvertWrite, SetInput, SetInputFinish,
       GetBlock, Cleanup, Unmapped
  <2>2. Due(compv, 0)
    BY <2>1 DEF GridInv, MirrorInv, Running
  <2>3. /\ now' = compv + Delay
        /\ Offset(compv, grid, half) = IF level # wrong THEN half ELSE 0
    BY <2>1, <2>2, ConstantTypes DEF Due, Lands, OrderInv, Types
  <2>4. Offset(compv, grid, half) = IF level' THEN 0 ELSE half
    BY <2>1, <2>3 DEF OrderInv, Types
  <2>5. (now' - grid) % (2 * half) = Offset(compv, grid, half)
    <3>1. compv \in Nat /\ Delay \in Nat /\ grid \in Nat
      BY ConstantTypes DEF OrderInv, Types, GridInv
    <3>2. now' - grid = compv + Delay - grid
      BY <2>3, <3>1
    <3> QED
      BY <3>2 DEF Offset
  <2> QED
    BY <2>4, <2>5
<1> QED
  BY <1>1, <1>2, <1>3, PTL DEF Spec, RisesOnGrid

\* The level that tgpio_hw_start_output decides by is that of the line, for ever
\* once a load or a calibration made it so, if no edge falls between the fold
\* and the pause of an inversion.
THEOREM BeliefIsLevel == ASSUME ~InvertGap PROVE Spec => []Parity!Agreement
<1> DEFINE Inv == OrderInv /\ MirrorInv /\ Agreement
<1>1. Init => Inv
  BY OrderInitially, MirrorInitially, GridInitially
<1>2. Inv /\ [Next]_vars => Inv'
  BY OrderStep, MirrorStep, ImplementsStep, AgreementStep DEF OrderInv
<1>3. Inv => Parity!Agreement
  BY DEF Agreement
<1> QED
  BY <1>1, <1>2, <1>3, PTL DEF Spec
=============================================================================
