--------------------------- MODULE LevelFlopProofs ---------------------------
(***************************************************************************)
(* Proofs about LevelFlop, for any waveforms, delays and sequences of jobs *)
(* of output_work.  Its fields keep their types.  As long as the work is   *)
(* on time, the mirror implements ParityMirror: CountInv says how far the  *)
(* engine can run ahead of the checkpoint the mirror is folded from, but   *)
(* for an inversion that hurries, whose misses the model counts.  If       *)
(* the work is also prompt, every edge of an output with a right mirror    *)
(* lands on the requested grid: GridInv says where the next one comes at   *)
(* each access of the work.                                                *)
(***************************************************************************)
EXTENDS LevelFlop, TLAPS

USE DEF hw, sw, want, vars, High, Low, Trims, Stall

\* The types of the fields: compares may lie below zero.
Compares == compv \in Int /\ ckpt \in Int /\ target \in Int
Fields ==
    /\ now \in Nat /\ en \in BOOLEAN /\ pm \in BOOLEAN
    /\ piv \in Nat /\ level \in BOOLEAN
    /\ mirror \in BOOLEAN /\ ivl \in Nat
    /\ phase \in {"off", "periodic", "duty"}
    /\ ivl = 0 <=> phase = "off"
    /\ grid \in Nat /\ wake \in Nat /\ tries \in Nat
    /\ pc \in {"idle", "armfold", "armed", "enable", "service", "freqpiv",
               "phase", "pause", "write", "wait", "shift", "drain",
               "disable", "disablefold", "stopped"}
    /\ inverted \in BOOLEAN /\ rush \in {"none", "now", "past"} /\ jobs \in Nat

\* Where the work may be, depending on what the block does, and what it leaves
\* behind: events are off between the two accesses of a stop and until the
\* last of an arm, and a register access is never due before now.
Control ==
    /\ phase = "off" => ~en
    /\ pc \in {"armfold", "armed", "enable", "disablefold", "stopped"} => ~en
    /\ pc \in {"armed", "stopped"} => phase = "off"
    /\ pc = "enable" => phase # "off"
    /\ pc \in {"freqpiv", "phase", "pause", "write", "wait", "shift"} => phase = "periodic"
    /\ pc = "service" => phase = "duty"
    /\ pc # "armfold" /\ phase # "off" => (phase = "duty" <=> Asymmetric)
    /\ pc \notin {"idle", "armed", "wait", "drain"} => wake <= now
    /\ rush = "now" => pc \in {"shift", "pause", "write"}
    /\ piv = ivl /\ shape \in Shapes

OrderInv == Compares /\ Fields /\ Control

-----------------------------------------------------------------------------
(* Types *)

\* What the assumptions say of the constants.
LEMMA ConstantTypes ==
    /\ Latency \in Nat /\ Margin \in Nat /\ Guard \in Nat /\ FlipTries \in Nat
    /\ ServiceDelay \in Nat /\ DrainPoll \in Nat /\ DrainTries \in Nat
    /\ MaxTime \in Nat /\ MaxJobs \in Nat /\ StaleLevel \in BOOLEAN
  BY DelayAssumption

\* What they say of a waveform.
LEMMA ShapeTypes ==
    ASSUME shape \in Shapes
    PROVE  /\ High \in Nat \ {0} /\ Low \in Nat \ {0} /\ Stall \in Nat
           /\ Trims \subseteq Nat
           /\ \A t \in Trims : t \in Nat /\ t < High
           /\ Period \in Nat \ {0}
  BY ShapeAssumption DEF Period

\* The folded level is a level, and a checkpoint a compare.
LEMMA FoldTypes ==
    ASSUME OrderInv, HwFlopFold
    PROVE  mirror' \in BOOLEAN /\ ckpt' \in Int
  BY DEF OrderInv, Compares, Fields, HwFlopFold, Folded

\* The slot of the first toggle and the compare of a late arm are compares,
LEMMA PushType ==
    ASSUME OrderInv, NEW first \in Int
    PROVE  PushLate(Slot(first)) \in Int /\ PushLate(Slot(first)) >= now + Margin
<1> DEFINE slot == Slot(first)
           deadline == now + Margin
           periods == (deadline - slot) \div Period + 1
<1>1. /\ High \in Nat /\ Low \in Nat /\ Period \in Nat \ {0}
      /\ deadline \in Nat
  BY ShapeTypes, ConstantTypes DEF OrderInv, Control, Fields
<1>2. slot \in Int
  BY <1>1 DEF Slot
<1>3. PushLate(slot) =
        IF slot >= deadline THEN slot ELSE slot + periods * Period
  <2>1. now + Margin - slot = deadline - slot
    BY <1>1, <1>2, ConstantTypes DEF OrderInv, Fields
  <2> QED
    BY <2>1 DEF PushLate
<1> HIDE DEF slot, deadline
<1>4. periods * Period \in Int /\ periods * Period > deadline - slot
  <2>1. \A n \in Int, m \in Nat \ {0} :
          (n \div m + 1) * m \in Int /\ (n \div m + 1) * m > n
    <3>1. \A n \in Int, m \in Nat \ {0} : n \div m + 1 \in Int
      OBVIOUS
    <3>2. \A i, j \in Int : i * j \in Int
      OBVIOUS
    <3>3. \A n \in Int, m \in Nat \ {0} : (n \div m + 1) * m > n
      OBVIOUS
    <3> QED
      BY <3>1, <3>2, <3>3
  <2>2. deadline - slot \in Int
    BY <1>1, <1>2
  <2> QED
    BY <1>1, <2>1, <2>2
<1> HIDE DEF periods
<1>5. PushLate(slot) \in Int /\ PushLate(slot) >= deadline
  BY <1>1, <1>2, <1>3, <1>4
<1> QED
  BY <1>5 DEF slot, deadline

LEMMA OrderInitially == Init => OrderInv
<1> SUFFICES ASSUME Init PROVE OrderInv
  OBVIOUS
<1>1. level \in BOOLEAN
  BY ConstantTypes DEF Init
<1>2. Compares /\ Fields
  <2>1. Compares
    BY DEF Init, Compares
  <2>2. Fields
    BY <1>1 DEF Init, Fields
  <2> QED
    BY <2>1, <2>2
<1>3. Control
  BY DEF Init, Control
<1> QED
  BY <1>2, <1>3 DEF OrderInv

\* No access of the work, job or toggle breaks the types:
LEMMA ComparesStep == ASSUME OrderInv, [Next]_vars PROVE Compares'
<1> USE DEF Compares
<1>a. /\ compv \in Int /\ ckpt \in Int /\ target \in Int
      /\ piv \in Nat /\ ivl \in Nat /\ Trims \subseteq Nat
  BY ShapeTypes DEF OrderInv, Fields, Control
<1>b. HwFlopFold => ckpt' \in Int
  BY FoldTypes
<1>1. CASE ArmPeriodic
  BY <1>1, <1>a, PushType DEF ArmPeriodic
<1>2. CASE FreqPhase
  BY <1>2, <1>a DEF FreqPhase
<1>3. CASE FlipWait
  BY <1>3, <1>a, <1>b DEF FlipWait
<1>4. CASE FlipShift
  BY <1>4, <1>a DEF FlipShift
<1> QED
  BY <1>1, <1>2, <1>3, <1>4, <1>a, <1>b
  DEF Next, Job, Work, Horizon, Tick, ArmStop, FreqFold, Flip, StopBegin,
      ArmFold, ArmEnable, ServiceFold, ServiceProgram, FreqPiv, Pause,
      WriteCompv, Drain, DisableHw, DisableFold, Stopped, Reload

LEMMA FieldsStep == ASSUME OrderInv, [Next]_vars PROVE Fields' /\ Control'
<1> USE DEF Fields, Control, Goto, Sleep, Begin, Asymmetric
<1>0. Fields /\ Control
  BY DEF OrderInv
<1>a. /\ High \in Nat \ {0} /\ Low \in Nat \ {0}
      /\ \A t \in Trims : t \in Nat /\ t < High
  BY <1>0, ShapeTypes
<1>b. /\ Latency \in Nat /\ Guard \in Nat /\ FlipTries \in Nat
      /\ ServiceDelay \in Nat
      /\ DrainPoll \in Nat /\ DrainTries \in Nat
  BY ConstantTypes
<1>1. CASE Tick
  <2>1. /\ now' = now + 1 /\ level' \in BOOLEAN
        /\ UNCHANGED <<en, pm, piv, sw, want, pc, wake, tries, target, inverted,
                       rush, jobs>>
    BY <1>0, <1>1 DEF Tick
  <2> QED
    BY <1>0, <2>1
<1>2. ASSUME NEW s \in Shapes, NEW g \in 0..1, ArmStop(s, g) PROVE Fields' /\ Control'
  <2>1. g \in Nat /\ jobs' \in Nat
    BY <1>0, <1>2 DEF ArmStop
  <2>2. Fields'
    BY <1>0, <1>2, <2>1 DEF ArmStop
  <2>3. Control'
    BY <1>0, <1>2 DEF ArmStop
  <2> QED
    BY <2>2, <2>3
<1>3. CASE FreqFold
  BY <1>0, <1>3, FoldTypes DEF FreqFold
<1>4. CASE Flip
  <2>1. /\ jobs' \in Nat /\ inverted' = FALSE
        /\ UNCHANGED <<now, pm, compv, piv, level, ckpt, ivl, phase, want,
                       target, rush>>
        /\ rush # "now"
    BY <1>0, <1>4 DEF Flip
  <2>a. mirror' \in BOOLEAN
    BY <1>0, <1>4 DEF Flip
  <2>2. CASE phase = "duty"
    <3>1. pc' = "armfold" /\ wake' = now /\ en' = FALSE /\ tries' = tries
      BY <1>0, <1>4, <2>2 DEF Flip
    <3>2. Fields'
      BY <1>0, <2>1, <2>a, <3>1
    <3>3. Control'
      BY <1>0, <2>1, <2>2, <3>1
    <3> QED
      BY <3>2, <3>3
  <2>3. CASE phase = "periodic"
    <3>1. /\ pc' = "wait" /\ wake' = now /\ en' = en /\ pc \in {"idle", "armed"}
          /\ tries' = FlipTries
      BY <1>0, <1>4, <2>3 DEF Flip
    <3> QED
      BY <1>0, <1>b, <2>1, <2>a, <2>3, <3>1
  <2>4. CASE phase = "off"
    <3>1. UNCHANGED <<pc, wake, en, tries>>
      BY <1>0, <1>4, <2>4 DEF Flip
    <3> QED
      BY <1>0, <2>1, <2>a, <2>4, <3>1
  <2> QED
    BY <1>0, <2>2, <2>3, <2>4
<1>5. CASE StopBegin
  BY <1>0, <1>5, <1>b DEF StopBegin
<1>6. CASE ArmFold
  BY <1>0, <1>6, FoldTypes DEF ArmFold
<1>7. CASE ArmPeriodic
  BY <1>0, <1>7, <1>a, PushType DEF ArmPeriodic, InitialPiv
<1>8. CASE ArmEnable
  BY <1>0, <1>8, <1>b DEF ArmEnable
<1>9. CASE ServiceFold
  BY <1>0, <1>9, FoldTypes DEF ServiceFold
<1>10. CASE ServiceProgram
  <2>1. Fields'
    <3>1. piv' \in Nat \ {0} /\ ivl' = piv'
      BY <1>a, <1>10 DEF ServiceProgram, NextPiv
    <3>2. wake' \in Nat
      <4>1. compv \in Int
        BY DEF OrderInv, Compares
      <4> QED
        BY <1>0, <1>10, <1>b, <4>1 DEF ServiceProgram
    <3>3. /\ pc' = "idle" /\ phase = "duty"
          /\ UNCHANGED <<now, en, pm, level, mirror, phase, grid, tries,
                         inverted, rush, jobs>>
      BY <1>0, <1>10 DEF ServiceProgram
    <3> QED
      BY <1>0, <3>1, <3>2, <3>3
  <2>2. Control'
    BY <1>0, <1>10, <1>a, <1>b DEF ServiceProgram, NextPiv
  <2> QED
    BY <2>1, <2>2
<1>11. CASE FreqPiv
  BY <1>0, <1>11, <1>a DEF FreqPiv
<1>12. CASE FreqPhase
  <2>1. Fields'
    BY <1>0, <1>12, <1>a DEF FreqPhase
  <2>2. Control'
    BY <1>0, <1>12, <1>a DEF FreqPhase
  <2> QED
    BY <2>1, <2>2
<1>13. CASE Pause
  <2>1. Fields'
    BY <1>0, <1>13 DEF Pause
  <2>2. Control'
    BY <1>0, <1>13 DEF Pause
  <2> QED
    BY <2>1, <2>2
<1>14. CASE WriteCompv
  BY <1>0, <1>14 DEF WriteCompv
<1>15. CASE FlipWait
  <2>1. Fields'
    BY <1>0, <1>15, <1>b, FoldTypes DEF FlipWait
  <2>2. Control'
    BY <1>0, <1>15 DEF FlipWait
  <2> QED
    BY <2>1, <2>2
<1>22. CASE FlipShift
  BY <1>0, <1>22 DEF FlipShift
<1>16. CASE Drain
  BY <1>0, <1>16, <1>b, FoldTypes DEF Drain
<1>17. CASE DisableHw
  <2>1. Fields'
    BY <1>0, <1>17 DEF DisableHw
  <2>2. Control'
    BY <1>0, <1>17 DEF DisableHw
  <2> QED
    BY <2>1, <2>2
<1>18. CASE DisableFold
  <2>1. Fields'
    BY <1>0, <1>18, FoldTypes DEF DisableFold
  <2>2. Control'
    BY <1>0, <1>18, FoldTypes DEF DisableFold
  <2> QED
    BY <2>1, <2>2
<1>19. CASE Stopped
  BY <1>0, <1>19 DEF Stopped
<1>20. CASE Reload
  BY <1>0, <1>20 DEF Reload
<1>21. CASE UNCHANGED vars
  BY <1>0, <1>21
<1> QED
  BY <1>1, <1>2, <1>3, <1>4, <1>5, <1>6, <1>7, <1>8, <1>9, <1>10, <1>11,
     <1>12, <1>13, <1>14, <1>15, <1>16, <1>17, <1>18, <1>19, <1>20, <1>21, <1>22
  DEF Next, Job, Work, Horizon

LEMMA OrderStep == OrderInv /\ [Next]_vars => OrderInv'
  BY ComparesStep, FieldsStep DEF OrderInv

\* The fields of the mirror keep the types of struct tgpio_mmio_block's, and
\* the interval it divides by is zero only while nothing runs.
THEOREM FieldsTyped == Spec => []TypeOK
<1>1. OrderInv => TypeOK
  BY Zenon DEF OrderInv, Compares, Fields, TypeOK
<1> QED
  BY <1>1, OrderInitially, OrderStep, PTL DEF Spec
-----------------------------------------------------------------------------
(* Counting *)

\* The work is on time: between two accesses that write a compare or an
\* interval no edge falls (an inversion, whose three accesses stalls may come
\* between, is guarded if it did not hurry), and an asymmetric output is folded at least once a half.
OnTime ==
    \A s \in Shapes :
      /\ 2 * s.stall < Guard
      /\ s.trims # {} => s.stall = 0
      /\ s.high # s.low =>
           /\ s.stall = 0
           /\ ServiceDelay + 2 * Latency < s.high /\ DrainPoll + Latency < s.high
           /\ ServiceDelay + 2 * Latency < s.low /\ DrainPoll + Latency < s.low

\* A periodic output has not fallen back behind its checkpoint, and stands at
\* it where its compare is about to be rewritten or its interval to change,
\* unless an inversion hurries.
PeriodicCounted ==
    /\ phase = "periodic" => compv >= ckpt
    /\ pc \in {"freqpiv", "phase"} /\ Trims # {} => compv = ckpt
    /\ pc = "write" => ~pm
    /\ rush # "now" =>
         /\ pc = "shift" => /\ compv = ckpt /\ compv > wake + 2 * Stall
                            /\ now <= wake + Stall
         /\ pc = "pause" => compv = ckpt /\ compv > wake + Stall
         /\ pc = "write" => compv = ckpt

\* When an asymmetric output will be folded at the latest, a stop that
\* interrupts the service included
Deadline == IF pc = "idle" THEN wake + 2 * Latency ELSE wake + Latency

\* It makes at most one toggle until then.
DutyCounted ==
    /\ phase = "duty" => pm
    /\ phase = "duty" /\ pc \in {"idle", "service", "drain", "disable"} => en
    /\ phase = "duty" /\ pc # "armfold" => piv = High \/ piv = Low
    /\ phase = "duty" /\ pc \in {"enable", "service"} => compv >= now
    /\ phase = "duty" /\ pc \in {"enable", "service", "disable"} => compv = ckpt
    /\ phase = "duty" /\ pc \in {"idle", "drain"} =>
         /\ compv = ckpt \/ compv = ckpt + piv
         /\ ckpt + piv > Deadline /\ compv >= now /\ now <= wake + Latency

CountInv == PeriodicCounted /\ DutyCounted

\* What being on time means for the waveform that is configured.
LEMMA ShapeOnTime ==
    ASSUME OnTime, OrderInv
    PROVE  /\ 2 * Stall < Guard
           /\ Trims # {} => Stall = 0
           /\ Asymmetric =>
                /\ Stall = 0
                /\ ServiceDelay + 2 * Latency < High /\ DrainPoll + Latency < High
                /\ ServiceDelay + 2 * Latency < Low /\ DrainPoll + Latency < Low
  BY DEF OnTime, OrderInv, Control, Asymmetric

\* Time passes only where the work may be kept waiting.
LEMMA TickLeaves ==
    ASSUME OnTime, OrderInv, Tick
    PROVE  /\ pc \in {"freqpiv", "phase"} => Trims = {}
           /\ phase = "duty" => pc \notin {"enable", "service", "disable"}
           /\ phase = "duty" /\ pc \in {"idle", "drain"} => now < wake + Latency
           /\ pc \in {"shift", "pause"} => now < wake + Stall
<1>1. /\ pc \notin {"idle", "armed", "wait", "drain"} => now < wake + Stall
      /\ pc = "drain" \/ (pc = "idle" /\ phase = "duty") => now < wake + Latency
  <2>1. now \in Nat /\ wake \in Nat /\ Stall \in Nat /\ Latency \in Nat
    BY ShapeTypes, ConstantTypes DEF OrderInv, Fields, Control
  <2> QED
    BY <2>1 DEF Tick, Pressed
<1>2. pc \notin {"idle", "armed", "wait", "drain"} => wake <= now
  BY DEF OrderInv, Control
<1>3. pc # "armfold" /\ phase = "duty" => Asymmetric
  BY DEF OrderInv, Control
<1>4. now \in Nat /\ wake \in Nat
  BY DEF OrderInv, Fields
<1>5. Trims # {} \/ Asymmetric => Stall = 0
  BY ShapeOnTime
<1>6. Stall = 0 => pc \in {"idle", "armed", "wait", "drain"}
  BY <1>1, <1>2, <1>4
<1> QED
  BY <1>1, <1>3, <1>5, <1>6

\* A fold leaves the compare at its checkpoint.
LEMMA FoldMeets ==
    ASSUME OrderInv, PeriodicCounted, HwFlopFold
    PROVE  phase # "off" => ckpt' = compv
  BY DEF OrderInv, Fields, PeriodicCounted, HwFlopFold

\* No step lets an edge go uncounted.
LEMMA PeriodicStep ==
    ASSUME OnTime, OrderInv, CountInv, [Next]_vars
    PROVE  PeriodicCounted'
<1> USE DEF PeriodicCounted, Goto, Sleep, Begin
<1>0. PeriodicCounted
  BY DEF CountInv
<1>a. /\ compv \in Int /\ ckpt \in Int /\ piv \in Nat /\ wake \in Nat
      /\ now \in Nat /\ Stall \in Nat /\ Guard \in Nat /\ 2 * Stall < Guard
  BY ShapeTypes, ShapeOnTime, ConstantTypes
  DEF OrderInv, Compares, Fields, Control
<1>b. HwFlopFold => (phase # "off" => ckpt' = compv)
  BY <1>0, FoldMeets
<1>c. /\ pc \in {"freqpiv", "phase", "pause", "write", "wait", "shift"} => phase = "periodic"
      /\ pc \in {"armed", "stopped"} => phase = "off"
      /\ phase \in {"off", "periodic", "duty"}
  BY DEF OrderInv, Control, Fields
<1>1. CASE Tick
  <2>1. /\ now' = now + 1
        /\ UNCHANGED <<pm, piv, ckpt, phase, shape, pc, wake, rush>>
    BY <1>1 DEF Tick
  <2>2. compv' = compv \/ (compv' = compv + piv /\ pm /\ compv <= now + 1)
    BY <1>1 DEF Tick
  <2>3. /\ pc \in {"freqpiv", "phase"} => Trims = {}
        /\ pc \in {"shift", "pause"} => now < wake + Stall
    BY <1>1, TickLeaves
  <2>4. phase = "periodic" => compv' >= ckpt
    BY <1>0, <1>a, <2>2
  <2>5. pc \in {"shift", "pause", "write"} /\ rush # "now" => compv' = compv
    BY <1>0, <1>a, <2>2, <2>3
  <2> QED
    BY <1>0, <1>a, <2>1, <2>3, <2>4, <2>5
<1>2. ASSUME NEW s \in Shapes, NEW g \in 0..1, ArmStop(s, g) PROVE PeriodicCounted'
  BY <1>0, <1>2 DEF ArmStop
<1>3. CASE FreqFold
  BY <1>3, <1>a, <1>b DEF FreqFold
<1>4. CASE Flip
  BY <1>0, <1>4, <1>c DEF Flip
<1>5. CASE StopBegin
  BY <1>0, <1>5 DEF StopBegin
<1>6. CASE ArmFold
  BY <1>6 DEF ArmFold
<1>7. CASE ArmPeriodic
  <2>1. ckpt' = compv' /\ compv' \in Int /\ pc' = "enable"
    BY <1>7, PushType DEF ArmPeriodic
  <2> QED
    BY <2>1
<1>8. CASE ArmEnable
  BY <1>0, <1>8 DEF ArmEnable
<1>9. CASE ServiceFold
  BY <1>9 DEF ServiceFold
<1>10. CASE ServiceProgram
  BY <1>10, <1>0, <1>c DEF ServiceProgram
<1>11. CASE FreqPiv
  BY <1>0, <1>11 DEF FreqPiv
<1>12. CASE FreqPhase
  <2>1. CASE pc' = "pause"
    <3>1. compv >= now + Guard /\ Trims # {}
      BY <1>12, <2>1 DEF FreqPhase
    <3>2. /\ pc = "phase" /\ wake' = now
          /\ UNCHANGED <<compv, ckpt, phase, shape>>
      BY <1>12, <2>1 DEF FreqPhase
    <3> QED
      BY <1>0, <1>a, <2>1, <3>1, <3>2
  <2>2. CASE pc' # "pause"
    BY <1>0, <1>12, <2>2 DEF FreqPhase
  <2> QED
    BY <2>1, <2>2
<1>13. CASE Pause
  BY <1>0, <1>13 DEF Pause
<1>14. CASE WriteCompv
  <2>1. ckpt' = compv' /\ compv' \in Int /\ pc' = "idle"
    BY <1>14 DEF WriteCompv, OrderInv, Compares
  <2> QED
    BY <2>1
<1>15. CASE FlipWait
  <2>1. CASE pc' = "wait"
    BY <1>0, <1>15, <2>1 DEF FlipWait
  <2>2. CASE pc' = "shift"
    <3>1. /\ wake' = now /\ ckpt' = compv /\ phase = "periodic"
          /\ UNCHANGED <<compv, phase, shape>>
          /\ rush' # "now" => ~Imminent
      BY <1>15, <1>b, <1>c, <2>2 DEF FlipWait
    <3>2. /\ rush' # "now" => compv > now + 2 * Stall
          /\ now <= now + Stall /\ now' = now
      BY <1>a, <1>15, <3>1 DEF FlipWait, Imminent
    <3> QED
      BY <1>a, <2>2, <3>1, <3>2
  <2> QED
    BY <1>15, <2>1, <2>2 DEF FlipWait
<1>22. CASE FlipShift
  <2>1. /\ pc = "shift" /\ pc' = "pause" /\ wake' = now
        /\ UNCHANGED <<compv, ckpt, pm, phase, shape, rush>>
    BY <1>22 DEF FlipShift
  <2>2. rush # "now" => compv = ckpt /\ compv > now + Stall
    BY <1>0, <1>a, <2>1
  <2> QED
    BY <1>0, <2>1, <2>2
<1>16. CASE Drain
  <2>1. /\ pc' \in {"drain", "disable"} /\ (phase # "off" => ckpt' = compv)
        /\ UNCHANGED <<compv, phase>>
    BY <1>16, <1>b DEF Drain
  <2> QED
    BY <1>a, <2>1
<1>17. CASE DisableHw
  BY <1>0, <1>17 DEF DisableHw
<1>18. CASE DisableFold
  BY <1>18 DEF DisableFold
<1>19. CASE Stopped
  BY <1>0, <1>19 DEF Stopped
<1>20. CASE Reload
  BY <1>20, <1>c DEF Reload
<1>21. CASE UNCHANGED vars
  BY <1>0, <1>21
<1> QED
  BY <1>1, <1>2, <1>3, <1>4, <1>5, <1>6, <1>7, <1>8, <1>9, <1>10, <1>11,
     <1>12, <1>13, <1>14, <1>15, <1>16, <1>17, <1>18, <1>19, <1>20, <1>21, <1>22
  DEF Next, Job, Work, Horizon

LEMMA DutyStep ==
    ASSUME OnTime, OrderInv, CountInv, [Next]_vars
    PROVE  DutyCounted'
<1> USE DEF DutyCounted, Deadline, Goto, Sleep, Begin
<1>0. DutyCounted
  BY DEF CountInv
<1>a. /\ compv \in Int /\ ckpt \in Int /\ piv \in Nat /\ wake \in Nat
      /\ now \in Nat /\ High \in Nat \ {0} /\ Low \in Nat \ {0}
  BY ShapeTypes DEF OrderInv, Compares, Fields, Control
<1>t. /\ Latency \in Nat /\ ServiceDelay \in Nat /\ DrainPoll \in Nat
      /\ Margin \in Nat
  BY ConstantTypes
<1>b. HwFlopFold => (phase # "off" => ckpt' = compv)
  BY FoldMeets DEF CountInv
<1>c. /\ pc \in {"freqpiv", "phase", "pause", "write", "wait", "shift"} => phase = "periodic"
      /\ pc \in {"armed", "stopped"} => phase = "off"
      /\ pc = "service" => phase = "duty"
      /\ pc \notin {"idle", "armed", "wait", "drain"} => wake <= now
      /\ pc # "armfold" /\ phase # "off" => (phase = "duty" <=> Asymmetric)
  BY DEF OrderInv, Control
<1>d. Asymmetric =>
        /\ ServiceDelay + 2 * Latency < High /\ DrainPoll + Latency < High
        /\ ServiceDelay + 2 * Latency < Low /\ DrainPoll + Latency < Low
  BY ShapeOnTime
<1>1. CASE Tick
  <2>1. /\ now' = now + 1
        /\ UNCHANGED <<en, pm, piv, ckpt, phase, shape, pc, wake>>
    BY <1>1 DEF Tick
  <2>2. /\ phase = "duty" => pc \notin {"enable", "service", "disable"}
        /\ phase = "duty" /\ pc \in {"idle", "drain"} => now < wake + Latency
    BY <1>1, TickLeaves
  <2>3. ASSUME phase = "duty", pc \in {"idle", "drain"}
        PROVE  /\ compv' = ckpt \/ compv' = ckpt + piv
               /\ compv' >= now + 1
    <3>1. /\ en /\ pm /\ (compv = ckpt \/ compv = ckpt + piv)
          /\ ckpt + piv > wake + Latency /\ compv >= now
          /\ now + 1 <= wake + Latency /\ piv > 0
      BY <1>0, <1>a, <1>t, <2>2, <2>3
    <3>2. CASE compv <= now + 1
      <4>1. compv = ckpt /\ compv' = compv + piv
        BY <1>1, <1>a, <1>t, <3>1, <3>2 DEF Tick
      <4> QED
        BY <1>a, <3>1, <4>1
    <3>3. CASE ~(compv <= now + 1)
      <4>1. compv' = compv
        BY <1>1, <3>3 DEF Tick
      <4> QED
        BY <1>a, <3>1, <3>3, <4>1
    <3> QED
      BY <3>2, <3>3
  <2>4. ASSUME phase = "duty", pc \in {"idle", "drain"}
        PROVE  now + 1 <= wake + Latency
    BY <1>a, <1>t, <2>2, <2>4
  <2> QED
    BY <1>0, <2>1, <2>2, <2>3, <2>4
<1>2. ASSUME NEW s \in Shapes, NEW g \in 0..1, ArmStop(s, g) PROVE DutyCounted'
  BY <1>0, <1>2 DEF ArmStop
<1>3. CASE FreqFold
  BY <1>3 DEF FreqFold
<1>4. CASE Flip
  BY <1>0, <1>4, <1>c DEF Flip
<1>5. CASE StopBegin
  <2>1. /\ pc \in {"idle", "armed"} /\ pc' = "drain" /\ wake' = now
        /\ UNCHANGED <<now, en, pm, compv, piv, ckpt, phase, shape>>
    BY <1>5 DEF StopBegin
  <2>2. phase = "duty" => pc = "idle"
    BY <1>c, <2>1
  <2> QED
    BY <1>0, <1>a, <1>t, <2>1, <2>2
<1>6. CASE ArmFold
  BY <1>6 DEF ArmFold
<1>7. CASE ArmPeriodic
  <2>1. PICK first \in Int : compv' = PushLate(Slot(first))
    BY <1>7, <1>a DEF ArmPeriodic
  <2>2. compv' \in Int /\ compv' >= now + Margin
    BY <2>1, PushType
  <2>3. compv' >= now
    BY <1>a, <1>t, <2>2
  <2>4. /\ pm' = TRUE /\ pc' = "enable" /\ ckpt' = compv' /\ now' = now
        /\ shape' = shape /\ (piv' = High \/ piv' = Low)
    BY <1>7 DEF ArmPeriodic, InitialPiv
  <2> QED
    BY <2>3, <2>4
<1>8. CASE ArmEnable
  <2>1. /\ pc = "enable" /\ pc' = "idle" /\ en' = TRUE
        /\ Asymmetric => wake' = now + ServiceDelay
        /\ UNCHANGED <<now, pm, compv, piv, ckpt, phase, shape>>
    BY <1>8 DEF ArmEnable
  <2>2. phase = "duty" =>
          /\ compv = ckpt /\ compv >= now /\ (piv = High \/ piv = Low)
          /\ wake' = now + ServiceDelay
          /\ ServiceDelay + 2 * Latency < piv
    BY <1>0, <1>c, <1>d, <2>1
  <2>3. phase = "duty" => ckpt + piv > (now + ServiceDelay) + 2 * Latency
    BY <1>a, <1>t, <2>2
  <2>4. phase = "duty" => now <= (now + ServiceDelay) + Latency
    BY <1>a, <1>t
  <2> QED
    BY <1>0, <2>1, <2>2, <2>3, <2>4
<1>9. CASE ServiceFold
  BY <1>0, <1>9, <1>b DEF ServiceFold
<1>10. CASE ServiceProgram
  <2>1. /\ pc = "service" /\ phase = "duty" /\ Asymmetric
        /\ compv >= now /\ compv = ckpt /\ en
    BY <1>0, <1>10, <1>c DEF ServiceProgram
  <2>2. /\ piv' = High \/ piv' = Low
        /\ pc' = "idle"
        /\ UNCHANGED <<now, en, pm, compv, ckpt, phase, shape>>
    BY <1>10 DEF ServiceProgram, NextPiv
  <2>3. wake' = compv + ServiceDelay
    BY <1>10, <1>a, <2>1 DEF ServiceProgram
  <2>4. /\ ckpt + piv' > (compv + ServiceDelay) + 2 * Latency
        /\ now <= (compv + ServiceDelay) + Latency
    BY <1>a, <1>t, <1>d, <2>1, <2>2
  <2> QED
    BY <1>0, <2>1, <2>2, <2>3, <2>4
<1>11. CASE FreqPiv
  BY <1>11, <1>c DEF FreqPiv
<1>12. CASE FreqPhase
  BY <1>12, <1>c DEF FreqPhase
<1>13. CASE Pause
  BY <1>13, <1>c DEF Pause
<1>14. CASE WriteCompv
  BY <1>14, <1>c DEF WriteCompv
<1>15. CASE FlipWait \/ FlipShift
  BY <1>15, <1>c DEF FlipWait, FlipShift
<1>16. CASE Drain
  <2>1. /\ pc = "drain" /\ pc' \in {"drain", "disable"}
        /\ pc' = "drain" => wake' = now + DrainPoll
        /\ UNCHANGED <<now, en, pm, compv, piv, phase, shape>>
        /\ phase # "off" => ckpt' = compv
    BY <1>16, <1>b DEF Drain
  <2>2. phase = "duty" =>
          /\ compv >= now /\ (piv = High \/ piv = Low)
          /\ DrainPoll + Latency < piv
    BY <1>0, <1>c, <1>d, <2>1
  <2>3. phase = "duty" => /\ compv + piv > (now + DrainPoll) + Latency
                          /\ now <= (now + DrainPoll) + Latency
    BY <1>a, <1>t, <2>2
  <2> QED
    BY <1>0, <2>1, <2>2, <2>3
<1>17. CASE DisableHw
  BY <1>0, <1>17 DEF DisableHw
<1>18. CASE DisableFold
  BY <1>18 DEF DisableFold
<1>19. CASE Stopped
  BY <1>0, <1>19, <1>c DEF Stopped
<1>20. CASE Reload
  BY <1>20, <1>c DEF Reload
<1>21. CASE UNCHANGED vars
  BY <1>0, <1>21
<1> QED
  BY <1>1, <1>2, <1>3, <1>4, <1>5, <1>6, <1>7, <1>8, <1>9, <1>10, <1>11,
     <1>12, <1>13, <1>14, <1>15, <1>16, <1>17, <1>18, <1>19, <1>20, <1>21
  DEF Next, Job, Work, Horizon

LEMMA CountInitially == Init => CountInv
<1> SUFFICES ASSUME Init PROVE CountInv
  OBVIOUS
<1>1. PeriodicCounted
  BY DEF Init, PeriodicCounted
<1>2. DutyCounted
  BY DEF Init, DutyCounted
<1> QED
  BY <1>1, <1>2 DEF CountInv

-----------------------------------------------------------------------------
(* The refinement *)

\* One interval further is one toggle more,
LEMMA OneMore ==
    ASSUME NEW distance \in Nat, NEW interval \in Nat \ {0}
    PROVE  /\ (distance + interval) \div interval = distance \div interval + 1
           /\ distance \div interval \in Nat
  OBVIOUS

\* which is the other parity.
LEMMA OtherParity == \A n \in Nat : (n + 1) % 2 = 1 <=> n % 2 # 1
  OBVIOUS

\* At the checkpoint, or while nothing runs, no toggle is to be folded.
LEMMA NonePending ==
    \A n \in Int, m \in Nat \ {0} : (n - n) \div m = 0
<1> SUFFICES ASSUME NEW n \in Int, NEW m \in Nat \ {0} PROVE (n - n) \div m = 0
  OBVIOUS
<1>1. n - n = 0 /\ 0 \div m = 0
  OBVIOUS
<1> QED
  BY <1>1

\* What a step has to do to the folded level for the abstract specification.
Mapped == [Parity!Next]_(Parity!vars)

\* An edge of a running block changes the folded level.
LEMMA EdgeFolds ==
    ASSUME OnTime, OrderInv, CountInv, Tick, en, pm, compv <= now + 1
    PROVE  Folded' = ~Folded
<1>1. /\ compv' = compv + piv /\ UNCHANGED <<ckpt, ivl, phase, mirror>>
      /\ ivl = piv /\ piv \in Nat \ {0} /\ compv \in Int /\ ckpt \in Int
      /\ phase \in {"periodic", "duty"} /\ mirror \in BOOLEAN
  <2>1. /\ compv' = compv + piv /\ UNCHANGED <<ckpt, ivl, phase, mirror>>
    BY DEF Tick
  <2>2. ivl = piv /\ compv \in Int /\ ckpt \in Int
    BY DEF OrderInv, Compares, Control
  <2>3. phase \in {"periodic", "duty"} /\ piv \in Nat \ {0}
    BY DEF OrderInv, Fields, Control
  <2>4. mirror \in BOOLEAN
    BY DEF OrderInv, Fields
  <2> QED
    BY <2>1, <2>2, <2>3, <2>4
<1>2. Events \in Nat /\ Events' = Events + 1
  <2>1. CASE phase = "periodic"
    <3>1. compv >= ckpt /\ compv - ckpt \in Nat
      BY <1>1, <2>1 DEF CountInv, PeriodicCounted
    <3>2. compv' - ckpt' = (compv - ckpt) + ivl /\ compv' >= ckpt'
      BY <1>1, <3>1
    <3>3. /\ Events = (compv - ckpt) \div ivl
          /\ Events' = ((compv - ckpt) + ivl) \div ivl
      BY <1>1, <2>1, <3>1, <3>2 DEF Events
    <3> QED
      BY <1>1, <3>1, <3>3, OneMore
  <2>2. CASE phase = "duty"
    <3>1. pc \in {"idle", "drain"} /\ now < wake + Latency
      <4>1. pc \notin {"armfold", "armed", "enable", "disablefold", "stopped"}
        BY DEF OrderInv, Control
      <4>2. pc \notin {"freqpiv", "phase", "pause", "write", "wait", "shift"}
        BY <2>2 DEF OrderInv, Control
      <4>3. pc \notin {"enable", "service", "disable"}
        BY <2>2, TickLeaves
      <4>4. pc \in {"idle", "drain"}
        BY <4>1, <4>2, <4>3 DEF OrderInv, Fields
      <4> QED
        BY <2>2, <4>4, TickLeaves
    <3>2. /\ compv = ckpt \/ compv = ckpt + piv
          /\ ckpt + piv > Deadline
      BY <2>2, <3>1 DEF CountInv, DutyCounted
    <3>3. Deadline >= wake + Latency /\ wake + Latency >= now + 1
      BY <3>1, ConstantTypes DEF Deadline, OrderInv, Fields
    <3>4. Deadline \in Nat /\ now \in Nat /\ wake + Latency \in Nat
      BY ConstantTypes DEF Deadline, OrderInv, Fields
    <3>5. compv = ckpt
      <4>1. ckpt + piv > now + 1
        BY <1>1, <3>2, <3>3, <3>4
      <4> QED
        BY <1>1, <3>2, <3>4, <4>1
    <3>6. compv' # ckpt'
      BY <1>1, <3>5
    <3> QED
      BY <1>1, <2>2, <3>5, <3>6 DEF Events
  <2> QED
    BY <1>1, <2>1, <2>2
<1>3. Events' % 2 = 1 <=> Events % 2 # 1
  BY <1>2, OtherParity
<1> QED
  BY <1>1, <1>3 DEF Folded

\* An edge is Toggle, a calibration Calibrate, a load Load, and no other access
\* of the work changes what the mirror says of the flop.
LEMMA ImplementsStep ==
    ASSUME OnTime, OrderInv, CountInv, [Next]_vars
    PROVE  Mapped
<1> USE DEF Mapped, Parity!vars, Goto, Sleep, Begin
<1>a. /\ compv \in Int /\ ckpt \in Int /\ ivl \in Nat
      /\ phase \in {"off", "periodic", "duty"}
      /\ phase = "periodic" => ivl \in Nat \ {0}
  BY DEF OrderInv, Compares, Fields
<1>b. ASSUME UNCHANGED <<level, inverted, mirror>>, Events' = Events PROVE Mapped
  BY <1>b DEF Folded
<1>c. ASSUME UNCHANGED <<level, inverted>>, mirror' = Folded, Events' = 0
      PROVE  Mapped
  BY <1>c DEF Folded
\* Where nothing is pending, before or after
<1>d. phase = "off" \/ compv = ckpt => Events = 0
  BY <1>a, NonePending DEF Events
<1>e. ASSUME \/ phase' = "off"
             \/ /\ phase' \in {"periodic", "duty"} /\ compv' = ckpt'
                /\ compv' \in Int /\ ivl' \in Nat \ {0}
      PROVE  Events' = 0
  BY <1>e, NonePending DEF Events
<1>f. HwFlopFold => mirror' = Folded /\ (phase # "off" => ckpt' = compv)
  BY FoldMeets DEF HwFlopFold, CountInv
<1>g. /\ pc \in {"freqpiv", "phase", "pause", "write", "wait", "shift"} => phase = "periodic"
      /\ pc \in {"armed", "stopped"} => phase = "off"
      /\ pc = "service" => phase = "duty"
      /\ piv = ivl
  BY DEF OrderInv, Control
\* A fold of a block that goes on
<1>h. ASSUME HwFlopFold, UNCHANGED <<level, inverted, compv, ivl, phase>>
      PROVE  Mapped
  <2>1. CASE phase = "off"
    BY <1>c, <1>e, <1>f, <1>h, <2>1
  <2>2. CASE phase # "off"
    <3>1. ivl \in Nat \ {0}
      BY <2>2 DEF OrderInv, Fields
    <3> QED
      BY <1>a, <1>c, <1>e, <1>f, <1>h, <2>2, <3>1
  <2> QED
    BY <2>1, <2>2
<1>1. CASE Tick
  <2>1. CASE en /\ pm /\ compv <= now + 1
    <3>1. level' = ~level /\ inverted' = inverted
      BY <1>1, <2>1 DEF Tick
    <3>2. Folded' = ~Folded
      BY <1>1, <2>1, EdgeFolds
    <3> QED
      BY <3>1, <3>2 DEF Parity!Next, Parity!Toggle
  <2>2. CASE ~(en /\ pm /\ compv <= now + 1)
    BY <1>1, <1>b, <2>2 DEF Tick, Events
  <2> QED
    BY <2>1, <2>2
<1>2. ASSUME NEW s \in Shapes, NEW g \in 0..1, ArmStop(s, g) PROVE Mapped
  BY <1>2, <1>b DEF ArmStop, Events
<1>3. CASE FreqFold
  BY <1>3, <1>h DEF FreqFold
<1>4. CASE Flip
  <2>1. /\ level' = level /\ inverted' = FALSE /\ inverted
        /\ mirror' = ~mirror /\ Events' = Events
    BY <1>4 DEF Flip, Events
  <2>2. Folded' = ~Folded
    BY <2>1 DEF Folded, OrderInv, Fields
  <2> QED
    BY <2>1, <2>2 DEF Parity!Next, Parity!Calibrate
<1>5. CASE StopBegin
  BY <1>5, <1>b DEF StopBegin, Events
<1>6. CASE ArmFold
  BY <1>6, <1>c, <1>e, <1>f DEF ArmFold
<1>7. CASE ArmPeriodic
  <2>1. compv' \in Int
    BY <1>7, PushType DEF ArmPeriodic
  <2>2. ivl' \in Nat \ {0}
    BY <1>7, ShapeTypes DEF ArmPeriodic, InitialPiv, OrderInv, Control
  <2>3. /\ phase = "off" /\ phase' \in {"periodic", "duty"} /\ compv' = ckpt'
        /\ UNCHANGED <<level, inverted, mirror>>
    BY <1>7, <1>g DEF ArmPeriodic
  <2> QED
    BY <1>b, <1>d, <1>e, <2>1, <2>2, <2>3
<1>8. CASE ArmEnable
  BY <1>8, <1>b DEF ArmEnable, Events
<1>9. CASE ServiceFold
  BY <1>9, <1>h DEF ServiceFold
<1>10. CASE ServiceProgram
  BY <1>10, <1>b, <1>g DEF ServiceProgram, Events
<1>11. CASE FreqPiv
  <2>1. /\ pc = "freqpiv"
        /\ UNCHANGED <<level, inverted, mirror, compv, ckpt, phase>>
    BY <1>11 DEF FreqPiv
  <2>2. CASE Trims = {}
    <3>1. ivl' = ivl
      BY <1>11, <1>g, <2>2 DEF FreqPiv
    <3> QED
      BY <1>b, <2>1, <3>1 DEF Events
  <2>3. CASE Trims # {}
    <3>1. compv = ckpt /\ phase = "periodic"
      BY <1>g, <2>1, <2>3 DEF CountInv, PeriodicCounted
    <3>2. ivl' \in Nat \ {0}
      BY <1>11, <2>1, <3>1, FieldsStep DEF Fields
    <3> QED
      BY <1>a, <1>b, <1>d, <1>e, <2>1, <3>1, <3>2
  <2> QED
    BY <2>2, <2>3
<1>12. CASE FreqPhase
  BY <1>12, <1>b DEF FreqPhase, Events
<1>13. CASE Pause
  BY <1>13, <1>b DEF Pause, Events
<1>14. CASE WriteCompv
  <2>1. /\ pc = "write" /\ phase = "periodic" /\ phase' = phase
        /\ rush # "now" => compv = ckpt
        /\ compv' = ckpt' /\ compv' \in Int
        /\ UNCHANGED <<level, mirror, ivl>>
        /\ inverted' = IF Missed THEN ~inverted ELSE inverted
    BY <1>14, <1>g DEF WriteCompv, CountInv, PeriodicCounted, OrderInv, Compares
  <2>2. Events' = 0
    BY <1>a, <1>e, <2>1
  <2>3. CASE Missed
    <3>1. Folded = ~mirror /\ Folded' = mirror /\ mirror \in BOOLEAN
      BY <2>1, <2>2, <2>3 DEF Missed, Folded, OrderInv, Fields
    <3> QED
      BY <2>1, <2>3, <3>1 DEF Parity!Next, Parity!Calibrate
  <2>4. CASE ~Missed
    <3>1. Folded = mirror
      <4>1. CASE rush = "now"
        BY <2>4, <4>1 DEF Missed
      <4>2. CASE rush # "now"
        BY <1>d, <2>1, <4>2 DEF Folded
      <4> QED
        BY <4>1, <4>2
    <3>2. Folded' = mirror
      BY <2>1, <2>2 DEF Folded
    <3> QED
      BY <2>1, <2>4, <3>1, <3>2
  <2> QED
    BY <2>3, <2>4
<1>15. CASE FlipWait
  <2>1. CASE HwFlopFold
    BY <1>15, <1>h, <2>1 DEF FlipWait
  <2>2. CASE UNCHANGED <<mirror, ckpt>>
    BY <1>15, <1>b, <2>2 DEF FlipWait, Events
  <2> QED
    BY <1>15, <2>1, <2>2 DEF FlipWait
<1>22. CASE FlipShift
  BY <1>22, <1>b DEF FlipShift, Events
<1>16. CASE Drain
  BY <1>16, <1>h DEF Drain
<1>17. CASE DisableHw
  BY <1>17, <1>b DEF DisableHw, Events
<1>18. CASE DisableFold
  BY <1>18, <1>c, <1>e, <1>f DEF DisableFold
<1>19. CASE Stopped
  BY <1>19, <1>b DEF Stopped, Events
<1>20. CASE Reload
  <2>1. phase' = "off" /\ mirror' = FALSE /\ inverted' = level /\ level' = level
    BY <1>20, <1>g DEF Reload
  <2>2. Folded' = FALSE
    BY <1>e, <2>1 DEF Folded
  <2> QED
    BY <2>1, <2>2 DEF Parity!Next, Parity!Load
<1>21. CASE UNCHANGED vars
  BY <1>21, <1>b DEF Events
<1> QED
  BY <1>1, <1>2, <1>3, <1>4, <1>5, <1>6, <1>7, <1>8, <1>9, <1>10, <1>11,
     <1>12, <1>13, <1>14, <1>15, <1>16, <1>17, <1>18, <1>19, <1>20, <1>21, <1>22
  DEF Next, Job, Work, Horizon

LEMMA ParityInitially == Init => Parity!Init
<1> SUFFICES ASSUME Init PROVE Parity!Init
  OBVIOUS
<1>1. Folded = FALSE
  BY DEF Init, Folded, Events
<1>2. level \in BOOLEAN
  BY ConstantTypes DEF Init
<1>3. inverted = (level # Folded)
  BY <1>1, <1>2 DEF Init
<1> QED
  BY <1>1, <1>2, <1>3 DEF Parity!Init

LEMMA InvStep ==
    ASSUME OnTime, OrderInv, CountInv, [Next]_vars
    PROVE  OrderInv' /\ CountInv' /\ Mapped
  BY OrderStep, PeriodicStep, DutyStep, ImplementsStep DEF CountInv

\* tgpio_hw_flop_fold neither misses nor invents a toggle and every re-arm,
\* frequency refresh, nudge, inversion, stop and reload keeps the promise of
\* ParityMirror, for every waveform and interleaving with the engine, as long
\* as the work is on time. An edge between the fold and the rewrite of an
\* inversion that shifts with it imminent (the phase is unreadable, or the
\* halves are shorter than TGPIO_OUTPUT_SAFE_TIME_NS) is missed, and only that:
\* Missed says when.
THEOREM ImplementsMirror == ASSUME OnTime PROVE Spec => MirrorsParity
<1>1. Init => OrderInv /\ CountInv /\ Parity!Init
  BY OrderInitially, CountInitially, ParityInitially
<1>2. OrderInv /\ CountInv /\ [Next]_vars => (OrderInv /\ CountInv)' /\ Mapped
  BY InvStep
<1> QED
  BY <1>1, <1>2, PTL DEF Spec, MirrorsParity, Parity!Spec, Mapped

-----------------------------------------------------------------------------
(* The grid *)

\* The work is prompt: it enables a block before the late-arm guard is used up,
\* and shifts one before the half after the pending edge is over.
Prompt == \A s \in Shapes : s.trims = {} => s.stall < Margin /\ s.stall < s.high

\* Calibrations apart, is the line high?
Up == level # inverted

\* A compare is where the line's next edge belongs: a fall the length of the
\* high half after a rise of the grid g, or else a rise.
On(c, g, high, low, up) == (c - g) % (high + low) = IF up THEN high ELSE 0
Lands(c) == On(c, grid, High, Low, Up)

\* What that edge has to add to the compare
Interval == IF Up THEN Low ELSE High

\* A block is enabled, and a compare shifted and written, in time.
Timely ==
    /\ pc \in {"enable", "shift", "pause", "write"} => now <= wake + Stall
    /\ pc = "enable" =>
         /\ compv >= wake + Margin /\ Lands(compv) /\ piv = Interval /\ pm

\* The next edge of a symmetric output is ahead and on the grid; during an
\* inversion, which does not hurry, it is the one after it.
PeriodicGrid ==
    en /\ phase = "periodic" =>
      /\ piv = High
      /\ pc # "write" => pm /\ compv > now
      /\ pc \notin {"wait", "shift", "pause", "write"} => Lands(compv)
      /\ pc \in {"wait", "shift"} => Lands(compv + High)
      /\ pc = "pause" => target = compv + High
      /\ pc = "write" => target > wake + High
      /\ pc \in {"pause", "write"} => Lands(target)

\* So is that of an asymmetric one, and its interval is programmed before it;
\* a stop programs no more and disables the block in the low half.
DutyGrid ==
    en /\ phase = "duty" =>
      /\ compv > now
      /\ pc \in {"idle", "service"} => Lands(compv)
      /\ pc = "idle" /\ compv = ckpt => piv = Interval
      /\ pc = "drain" => /\ compv = ckpt \/ Up => Lands(compv)
                         /\ compv = ckpt /\ ~Up => piv = High

GridInv == Trims = {} /\ rush = "none" => Timely /\ PeriodicGrid /\ DutyGrid

\* The mirror, with what it has yet to fold, is the line.
Agreement == Folded = Up

\* Bits that differ
LEMMA Differ ==
    \A a, b \in BOOLEAN : /\ (~a # b) = ~(a # b) /\ (a # ~b) = ~(a # b)
                          /\ (a # b) \in BOOLEAN /\ (a # a) = FALSE
  OBVIOUS

LEMMA AgreementStep ==
    ASSUME OrderInv, Agreement, Mapped
    PROVE  Agreement'
<1>1. Folded \in BOOLEAN /\ level \in BOOLEAN /\ inverted \in BOOLEAN
  BY DEF OrderInv, Fields, Folded
<1> USE DEF Agreement, Up
<1>2. CASE level' = ~level /\ Folded' = ~Folded /\ inverted' = inverted
  BY <1>1, <1>2, Differ
<1>3. CASE Folded' = ~Folded /\ inverted' = ~inverted /\ level' = level
  BY <1>1, <1>3, Differ
<1>4. CASE Folded' = FALSE /\ inverted' = level /\ level' = level
  BY <1>1, <1>4, Differ
<1>5. CASE UNCHANGED <<level, Folded, inverted>>
  BY <1>5
<1> QED
  BY <1>2, <1>3, <1>4, <1>5, Zenon
  DEF Mapped, Parity!Next, Parity!Toggle, Parity!Calibrate, Parity!Load,
      Parity!vars

\* Quotient and remainder,
LEMMA Remainder ==
    \A m \in Nat \ {0}, i \in Int, r \in Nat : r < m => (i * m + r) % m = r
  OBVIOUS

LEMMA Quotient ==
    ASSUME NEW x \in Int, NEW m \in Nat \ {0}
    PROVE  /\ x \div m \in Int /\ x % m \in Nat /\ x % m < m
           /\ x = (x \div m) * m + (x % m)
  OBVIOUS

LEMMA Distributes ==
    \A i, j, k \in Int : i * k \in Int /\ (i + j) * k = i * k + j * k
  OBVIOUS

\* what whole periods change: nothing,
LEMMA WholePeriods ==
    ASSUME NEW x \in Int, NEW n \in Int, NEW m \in Nat \ {0}
    PROVE  (x + n * m) % m = x % m
<1> DEFINE q == x \div m
           r == x % m
<1>1. q \in Int /\ r \in Nat /\ r < m /\ x = q * m + r
  BY Quotient
<1> HIDE DEF q, r
<1>2. q * m \in Int /\ n * m \in Int /\ (q + n) * m = q * m + n * m
  BY <1>1, Distributes
<1>3. x + n * m = (q + n) * m + r /\ q + n \in Int
  BY <1>1, <1>2
<1>4. ((q + n) * m + r) % m = r
  BY <1>1, <1>3, Remainder
<1> QED
  BY <1>3, <1>4 DEF r

\* and where the end of a half lies: on the next edge.
LEMMA Turn ==
    ASSUME NEW c \in Int, NEW g \in Int, NEW high \in Nat \ {0},
           NEW low \in Nat \ {0}, NEW up \in BOOLEAN, On(c, g, high, low, up)
    PROVE  On(c + (IF up THEN low ELSE high), g, high, low, ~up)
<1> DEFINE m == high + low
           x == c - g
           q == x \div m
<1>1. m \in Nat \ {0} /\ high < m /\ x \in Int
  OBVIOUS
<1>2. q \in Int /\ x = q * m + (x % m) /\ x % m = IF up THEN high ELSE 0
  BY <1>1, Quotient DEF On
<1>3. (c + low) - g = x + low /\ (c + high) - g = x + high /\ high + low = m
  OBVIOUS
<1> HIDE DEF m, q, x
<1>4. /\ q * m \in Int /\ (q * m + high) % m = high
      /\ (q + 1) * m = q * m + m /\ ((q + 1) * m + 0) % m = 0
  <2>1. q * m \in Int /\ (q + 1) * m = q * m + 1 * m /\ 1 * m = m
    BY <1>1, <1>2, Distributes
  <2>2. (q * m + high) % m = high
    BY <1>1, <1>2, Remainder
  <2>3. q + 1 \in Int /\ 0 < m
    BY <1>1, <1>2
  <2>4. ((q + 1) * m + 0) % m = 0
    BY <1>1, <2>3, Remainder
  <2> QED
    BY <2>1, <2>2, <2>4
<1>5. ~up => x + high = q * m + high
  BY <1>2, <1>4
<1>6. up => x + low = (q + 1) * m + 0
  BY <1>1, <1>2, <1>3, <1>4
<1>7. ~up => (x + high) % m = high
  BY <1>4, <1>5
<1>8. up => (x + low) % m = 0
  BY <1>4, <1>6
<1>9. CASE up
  BY <1>3, <1>8, <1>9 DEF On
<1>10. CASE ~up
  BY <1>3, <1>7, <1>10 DEF On
<1> QED
  BY <1>9, <1>10

\* The slot of the first toggle is a rise, or the end of the half before or
\* after it; the late-arm guard moves it by whole periods.
LEMMA SlotLands ==
    ASSUME OrderInv, NEW first \in Int, (first - grid) % Period = 0
    PROVE  On(PushLate(Slot(first)), grid, High, Low, mirror)
<1>1. /\ High \in Nat \ {0} /\ Low \in Nat \ {0} /\ Period = High + Low
      /\ grid \in Int /\ now + Margin \in Int /\ mirror \in BOOLEAN
      /\ Period \in Nat \ {0}
  BY ShapeTypes, ConstantTypes DEF OrderInv, Control, Fields, Period
<1>2. On(first, grid, High, Low, FALSE)
  BY <1>1 DEF On
<1>3. On(Slot(first), grid, High, Low, mirror) /\ Slot(first) \in Int
  <2>1. CASE ~mirror
    BY <1>1, <1>2, <2>1 DEF Slot
  <2>2. CASE mirror /\ first > Low
    <3>1. Slot(first) = first - Low
      BY <1>1, <2>2 DEF Slot
    <3>2. On(first + High, grid, High, Low, TRUE)
      BY <1>1, <1>2, Turn
    <3> DEFINE back == -1
               rest == (first + High) - grid
    <3>3. /\ rest % Period = High /\ rest \in Int /\ back \in Int
          /\ (first - Low) - grid = rest + back * Period
      BY <1>1, <3>2 DEF On
    <3> HIDE DEF back, rest
    <3>4. (rest + back * Period) % Period = rest % Period
      <4>1. rest \in Int /\ back \in Int /\ Period \in Nat \ {0}
        BY <1>1, <3>3
      <4> QED
        BY <4>1, WholePeriods
    <3>5. ((first - Low) - grid) % Period = High
      BY <3>3, <3>4
    <3> QED
      BY <1>1, <2>2, <3>1, <3>5 DEF On
  <2>3. CASE mirror /\ ~(first > Low)
    <3>1. Slot(first) = first + High
      BY <1>1, <2>3 DEF Slot
    <3>2. On(first + High, grid, High, Low, TRUE)
      BY <1>1, <1>2, Turn
    <3>3. mirror = TRUE /\ first + High \in Int
      BY <1>1, <2>3
    <3> QED
      BY <3>1, <3>2, <3>3
  <2> QED
    BY <1>1, <2>1, <2>2, <2>3
<1> DEFINE slot == Slot(first)
           periods == (now + Margin - slot) \div Period + 1
<1>4. PushLate(slot) = slot \/ PushLate(slot) = slot + periods * Period
  BY DEF PushLate
<1>5. periods \in Int
  BY <1>1, <1>3, ConstantTypes DEF OrderInv, Fields
<1>6. On(slot, grid, High, Low, mirror) /\ slot \in Int
  BY <1>3
<1> HIDE DEF slot, periods
<1>7. ((slot + periods * Period) - grid) % Period = (slot - grid) % Period
  <2> DEFINE rest == slot - grid
  <2>1. rest \in Int /\ periods * Period \in Int
    BY <1>1, <1>5, <1>6, Distributes
  <2>2. (slot + periods * Period) - grid = rest + periods * Period
    BY <1>1, <1>6, <2>1
  <2> HIDE DEF rest
  <2>3. (rest + periods * Period) % Period = rest % Period
    <3>1. rest \in Int /\ periods \in Int /\ Period \in Nat \ {0}
      BY <1>1, <1>5, <2>1
    <3> QED
      BY <3>1, WholePeriods
  <2> QED
    BY <2>2, <2>3 DEF rest
<1>8. On(slot + periods * Period, grid, High, Low, mirror)
  BY <1>1, <1>6, <1>7 DEF On
<1> QED
  BY <1>4, <1>6, <1>8 DEF slot


\* An edge of an asymmetric block comes before the work has folded the one
\* before.
LEMMA DutyEdge ==
    ASSUME OnTime, OrderInv, CountInv, Tick, compv <= now + 1, phase = "duty", en
    PROVE  compv = ckpt /\ pc \in {"idle", "drain"}
<1>1. pc \in {"idle", "drain"} /\ now < wake + Latency
  <2>1. pc \notin {"armfold", "armed", "enable", "disablefold", "stopped"}
    BY DEF OrderInv, Control
  <2>2. pc \notin {"freqpiv", "phase", "pause", "write", "wait", "shift"}
    BY DEF OrderInv, Control
  <2>3. pc \notin {"enable", "service", "disable"}
    BY TickLeaves
  <2>4. pc \in {"idle", "drain"}
    BY <2>1, <2>2, <2>3 DEF OrderInv, Fields
  <2> QED
    BY <2>4, TickLeaves
<1>2. (compv = ckpt \/ compv = ckpt + piv) /\ ckpt + piv > Deadline
  BY <1>1 DEF CountInv, DutyCounted
<1>3. /\ Deadline \in Nat /\ now \in Nat /\ compv \in Int
      /\ Deadline >= wake + Latency /\ wake + Latency \in Nat
  BY ConstantTypes DEF Deadline, OrderInv, Fields, Compares
<1>4. compv # ckpt + piv
  BY <1>1, <1>2, <1>3
<1> QED
  BY <1>1, <1>2, <1>4

\* When the line changes, the edge after is on the grid too.
LEMMA LineTurns ==
    ASSUME OrderInv, Up' = ~Up, UNCHANGED <<shape, grid>>
    PROVE  \A c \in Int : On(c, grid, High, Low, Up) =>
             On(c + Interval, grid', High', Low', Up')
<1>1. /\ High \in Nat \ {0} /\ Low \in Nat \ {0} /\ grid \in Int
      /\ Up \in BOOLEAN
  BY ShapeTypes, Differ DEF OrderInv, Control, Fields, Up
<1>2. \A c \in Int : On(c, grid, High, Low, Up) =>
         On(c + Interval, grid, High, Low, ~Up)
  BY <1>1, Turn DEF Interval
<1> QED
  BY <1>2

\* What the proofs below use of the types.
LEMMA GridTypes ==
    ASSUME OnTime, Prompt, OrderInv, Agreement
    PROVE  /\ /\ now \in Nat /\ wake \in Nat /\ compv \in Int /\ ckpt \in Int
              /\ piv \in Nat /\ target \in Int
              /\ High \in Nat \ {0} /\ Low \in Nat \ {0} /\ Stall \in Nat
              /\ Margin \in Nat /\ Guard \in Nat /\ 2 * Stall < Guard
              /\ Trims = {} => Stall < Margin /\ Stall < High
              /\ phase = "periodic" /\ pc # "armfold" => High = Low
              /\ phase # "off" => piv \in Nat \ {0}
              /\ Interval = High \/ Interval = Low
           /\ /\ phase = "off" => ~en
              /\ pc \in {"armfold", "armed", "enable", "disablefold", "stopped"} => ~en
              /\ pc \in {"armed", "stopped"} => phase = "off"
              /\ pc \in {"freqpiv", "phase", "pause", "write", "wait", "shift"} => phase = "periodic"
              /\ pc = "service" => phase = "duty"
              /\ phase \in {"off", "periodic", "duty"}
              /\ Up \in BOOLEAN /\ Folded = Up
<1>1. /\ now \in Nat /\ wake \in Nat /\ compv \in Int /\ ckpt \in Int
      /\ piv \in Nat /\ target \in Int
      /\ phase # "off" => piv \in Nat \ {0}
  BY DEF OrderInv, Compares, Fields, Control
<1>2. /\ High \in Nat \ {0} /\ Low \in Nat \ {0} /\ Stall \in Nat
      /\ Margin \in Nat /\ Guard \in Nat /\ 2 * Stall < Guard
      /\ Trims = {} => Stall < Margin /\ Stall < High
      /\ phase = "periodic" /\ pc # "armfold" => High = Low
  BY ShapeTypes, ShapeOnTime, ConstantTypes
  DEF OrderInv, Control, Prompt, Asymmetric
<1>3. Interval = High \/ Interval = Low
  BY DEF Interval
<1>4. /\ phase = "off" => ~en
      /\ pc \in {"armfold", "armed", "enable", "disablefold", "stopped"} => ~en
      /\ pc \in {"armed", "stopped"} => phase = "off"
      /\ pc \in {"freqpiv", "phase", "pause", "write", "wait", "shift"} => phase = "periodic"
      /\ pc = "service" => phase = "duty"
      /\ phase \in {"off", "periodic", "duty"}
  BY DEF OrderInv, Control, Fields
<1>5. Up \in BOOLEAN /\ Folded = Up
  BY Differ DEF Up, Agreement, OrderInv, Fields
<1> QED
  BY <1>1, <1>2, <1>3, <1>4, <1>5

\* Time passing, and the edges, keep the next edge on the grid.
LEMMA GridTick ==
    ASSUME OnTime, Prompt, OrderInv, CountInv, Agreement, GridInv, Tick
    PROVE  GridInv'
<1>1. /\ now' = now + 1
      /\ UNCHANGED <<en, pm, piv, ckpt, phase, shape, grid, pc, wake, target,
                     inverted, rush>>
  BY DEF Tick
<1> SUFFICES ASSUME Trims = {}, rush = "none" PROVE Timely' /\ PeriodicGrid' /\ DutyGrid'
  BY <1>1 DEF GridInv
<1>2. Timely /\ PeriodicGrid /\ DutyGrid
  BY DEF GridInv
<1>3. /\ now \in Nat /\ wake \in Nat /\ compv \in Int /\ ckpt \in Int
      /\ piv \in Nat /\ High \in Nat \ {0} /\ Low \in Nat \ {0} /\ Stall \in Nat
      /\ phase # "off" => piv \in Nat \ {0}
      /\ phase = "periodic" /\ pc # "armfold" => High = Low
  BY GridTypes
<1>4. /\ pc = "enable" => ~en /\ ~en'
      /\ phase = "duty" => pm
      /\ pc = "write" => ~pm
      /\ pc \in {"shift", "pause"} => compv > wake + Stall
      /\ phase \in {"off", "periodic", "duty"}
      /\ pc = "armfold" \/ phase = "off" => ~en
  BY <1>1, GridTypes
  DEF OrderInv, Control, CountInv, DutyCounted, PeriodicCounted, Fields
<1>5. pc \in {"enable", "shift", "pause", "write"} => now + 1 <= wake + Stall
  BY <1>3 DEF Tick, Pressed
<1>6. CASE ~(en /\ pm /\ compv <= now + 1)
  <2>1. level' = level /\ compv' = compv
    BY <1>6 DEF Tick
  <2>2. Up' = Up /\ Interval' = Interval
    BY <1>1, <2>1 DEF Up, Interval
  <2>3. /\ Lands(compv)' <=> Lands(compv)
        /\ Lands(target)' <=> Lands(target)
        /\ Lands(compv + High)' <=> Lands(compv + High)
    BY <1>1, <2>1, <2>2 DEF Lands, On
  <2>4. Timely'
    BY <1>1, <1>2, <1>5, <2>1, <2>2, <2>3 DEF Timely
  <2>5. en /\ pm => compv > now + 1
    BY <1>3, <1>6
  <2>6. PeriodicGrid'
    BY <1>1, <1>2, <2>1, <2>2, <2>3, <2>5 DEF PeriodicGrid
  <2>7. DutyGrid'
    BY <1>1, <1>2, <1>4, <2>1, <2>2, <2>3, <2>5 DEF DutyGrid
  <2> QED
    BY <2>4, <2>6, <2>7
<1>7. CASE en /\ pm /\ compv <= now + 1
  <2>1. level' = ~level /\ compv' = compv + piv
    BY <1>7 DEF Tick
  <2>2. Up' = ~Up
    BY <1>1, <2>1, Differ DEF Up, OrderInv, Fields
  <2>3. \A c \in Int : Lands(c) => On(c + Interval, grid', High', Low', Up')
    BY <1>1, <2>2, LineTurns DEF Lands
  <2>4. pc # "enable" /\ Timely'
    BY <1>1, <1>4, <1>5, <1>7 DEF Timely
  <2>5. CASE phase = "periodic"
    <3>1. /\ compv > now /\ piv = High /\ Interval = High
          /\ pc \notin {"write", "pause", "shift"}
      <4>1. pc # "write" /\ pc # "armfold"
        BY <1>4, <1>7
      <4>2. compv > now /\ piv = High /\ Interval = High
        BY <1>2, <1>3, <1>7, <2>5, <4>1 DEF PeriodicGrid, Interval
      <4>3. pc # "pause" /\ pc # "shift"
        BY <1>3, <1>4, <1>5, <1>7
      <4> QED
        BY <4>1, <4>2, <4>3
    <3>2. compv' > now'
      BY <1>1, <1>3, <2>1, <3>1
    <3>3. ASSUME pc # "wait" PROVE Lands(compv)'
      <4>1. Lands(compv)
        BY <1>2, <1>7, <2>5, <3>1, <3>3 DEF PeriodicGrid
      <4>2. On(compv + High, grid', High', Low', Up')
        BY <1>3, <2>3, <3>1, <4>1
      <4> QED
        BY <2>1, <3>1, <4>2 DEF Lands
    <3>4. ASSUME pc = "wait" PROVE Lands(compv + High)'
      <4>1. Lands(compv + High)
        BY <1>2, <1>7, <2>5, <3>4 DEF PeriodicGrid
      <4>2. On((compv + High) + High, grid', High', Low', Up')
        BY <1>3, <2>3, <3>1, <4>1
      <4>3. compv' + High' = (compv + High) + High
        BY <1>1, <1>3, <2>1, <3>1
      <4> QED
        BY <4>2, <4>3 DEF Lands
    <3>5. PeriodicGrid'
      BY <1>1, <1>7, <3>1, <3>2, <3>3, <3>4 DEF PeriodicGrid
    <3>6. DutyGrid'
      BY <1>1, <2>5 DEF DutyGrid
    <3> QED
      BY <2>4, <3>5, <3>6
  <2>6. CASE phase = "duty"
    <3>1. compv = ckpt /\ pc \in {"idle", "drain"} /\ compv > now
      BY <1>2, <1>7, <2>6, DutyEdge DEF DutyGrid
    <3>2. compv' > now' /\ compv' # ckpt'
      BY <1>1, <1>3, <2>1, <2>6, <3>1
    <3>3. Lands(compv)
      BY <1>2, <1>7, <2>6, <3>1 DEF DutyGrid
    <3>4. piv = Interval \/ (pc = "drain" /\ Up)
      BY <1>2, <1>7, <2>6, <3>1 DEF DutyGrid, Interval
    <3>5. ASSUME piv = Interval PROVE Lands(compv)'
      BY <1>3, <2>1, <2>3, <3>3, <3>5 DEF Lands
    <3>6. DutyGrid'
      <4>1. pc' = pc
        BY <1>1
      <4> QED
        BY <2>2, <3>1, <3>2, <3>4, <3>5, <4>1 DEF DutyGrid
    <3>7. PeriodicGrid'
      BY <1>1, <2>6 DEF PeriodicGrid
    <3> QED
      BY <2>4, <3>6, <3>7
  <2> QED
    BY <1>4, <1>7, <2>5, <2>6
<1> QED
  BY <1>6, <1>7

\* So does each job and each access of the work.
LEMMA GridStep ==
    ASSUME OnTime, Prompt, OrderInv, CountInv, Agreement, GridInv, [Next]_vars
    PROVE  GridInv'
<1> USE DEF Goto, Sleep, Begin
<1>0. /\ now \in Nat /\ wake \in Nat /\ compv \in Int /\ ckpt \in Int
      /\ piv \in Nat /\ target \in Int
      /\ High \in Nat \ {0} /\ Low \in Nat \ {0} /\ Stall \in Nat
      /\ Margin \in Nat /\ Guard \in Nat /\ 2 * Stall < Guard
      /\ Trims = {} => Stall < Margin /\ Stall < High
      /\ phase = "periodic" /\ pc # "armfold" => High = Low
  BY GridTypes
<1>a. /\ phase = "off" => ~en
      /\ pc \in {"armfold", "armed", "enable", "disablefold", "stopped"} => ~en
      /\ pc \in {"armed", "stopped"} => phase = "off"
      /\ pc \in {"freqpiv", "phase", "pause", "write", "wait", "shift"} => phase = "periodic"
      /\ pc = "service" => phase = "duty"
      /\ phase \in {"off", "periodic", "duty"}
      /\ Up \in BOOLEAN /\ Folded = Up
  BY GridTypes
\* A step that leaves the block disabled
<1>b. ASSUME ~en', pc' \notin {"enable", "shift", "pause", "write"} PROVE GridInv'
  BY <1>b DEF GridInv, Timely, PeriodicGrid, DutyGrid
\* A step that changes neither line nor waveform, and the compare
<1>c. ASSUME UNCHANGED <<level, inverted, shape, grid>>
      PROVE  /\ Up' = Up /\ Interval' = Interval
             /\ Trims' = Trims /\ High' = High /\ Stall' = Stall
             /\ compv' = compv => /\ Lands(compv)' <=> Lands(compv)
                                  /\ Lands(compv + High)' <=> Lands(compv + High)
             /\ target' = target => (Lands(target)' <=> Lands(target))
  BY <1>c DEF Up, Interval, Lands, On
<1>d. Trims = {} /\ rush = "none" => Timely /\ PeriodicGrid /\ DutyGrid
  BY DEF GridInv
\* A fold before the work goes on
<1>e. ASSUME pc = "idle", pc' \in {"freqpiv", "service"},
             UNCHANGED <<now, en, pm, compv, piv, level, phase, shape, grid,
                         inverted, rush>>
      PROVE  GridInv'
  <2> SUFFICES ASSUME Trims = {}, rush = "none" PROVE Timely' /\ PeriodicGrid' /\ DutyGrid'
    BY <1>e DEF GridInv
  <2>1. Lands(compv)' <=> Lands(compv)
    BY <1>c, <1>e
  <2>2. Up' = Up /\ Interval' = Interval
    BY <1>c, <1>e
  <2>3. Timely'
    BY <1>e DEF Timely
  <2>4. PeriodicGrid'
    BY <1>d, <1>e, <2>1, <2>2 DEF PeriodicGrid
  <2>5. DutyGrid'
    BY <1>d, <1>e, <2>1, <2>2 DEF DutyGrid
  <2> QED
    BY <2>3, <2>4, <2>5
<1>1. CASE Tick
  BY <1>1, GridTick
<1>2. ASSUME NEW s \in Shapes, NEW g \in 0..1, ArmStop(s, g) PROVE GridInv'
  BY <1>2, <1>b DEF ArmStop
<1>3. CASE FreqFold
  BY <1>3, <1>e DEF FreqFold
<1>4. CASE Flip
  <2>1. /\ inverted' = FALSE /\ inverted /\ pc \in {"idle", "armed"}
        /\ UNCHANGED <<now, pm, compv, piv, level, phase, shape, grid, target,
                       ckpt, rush>>
    BY <1>4 DEF Flip
  <2>2. Up' = ~Up
    BY <2>1, Differ DEF Up, OrderInv, Fields
  <2>3. \A c \in Int : Lands(c) => On(c + Interval, grid', High', Low', Up')
    BY <2>1, <2>2, LineTurns DEF Lands
  <2>4. CASE phase = "duty"
    BY <1>4, <1>b, <2>4 DEF Flip
  <2>5. CASE phase = "off"
    <3>1. pc' = pc /\ en' = en
      BY <1>4, <2>5 DEF Flip
    <3> QED
      BY <1>a, <1>b, <2>1, <2>5, <3>1
  <2>6. CASE phase = "periodic"
    <3> SUFFICES ASSUME Trims = {}, rush = "none" PROVE Timely' /\ PeriodicGrid' /\ DutyGrid'
      BY <2>1 DEF GridInv
    <3>1. pc' = "wait" /\ en' = en
      BY <1>4, <2>6 DEF Flip
    <3>2. Timely' /\ DutyGrid'
      BY <2>1, <2>6, <3>1 DEF Timely, DutyGrid
    <3>3. ASSUME en PROVE Lands(compv + High)'
      <4>1. Lands(compv) /\ Interval = High
        BY <1>0, <1>d, <2>1, <2>6, <3>3 DEF PeriodicGrid, Interval
      <4>2. On(compv + High, grid', High', Low', Up')
        BY <1>0, <2>3, <4>1
      <4>3. compv' + High' = compv + High
        BY <2>1
      <4> QED
        BY <4>2, <4>3 DEF Lands
    <3>4. PeriodicGrid'
      BY <1>d, <2>1, <2>6, <3>1, <3>3 DEF PeriodicGrid
    <3> QED
      BY <3>2, <3>4
  <2> QED
    BY <1>a, <2>4, <2>5, <2>6
<1>5. CASE StopBegin
  <2>1. /\ pc' = "drain" /\ pc \in {"idle", "armed"}
        /\ UNCHANGED <<now, en, pm, compv, piv, level, mirror, ckpt, phase,
                       shape, grid, inverted, rush>>
    BY <1>5 DEF StopBegin
  <2> SUFFICES ASSUME Trims = {}, rush = "none" PROVE Timely' /\ PeriodicGrid' /\ DutyGrid'
    BY <2>1 DEF GridInv
  <2>2. Timely'
    BY <2>1 DEF Timely
  <2>3. /\ Lands(compv)' <=> Lands(compv)
        /\ Up' = Up /\ Interval' = Interval
    BY <1>c, <2>1
  <2>4. PeriodicGrid'
    BY <1>d, <2>1, <2>3 DEF PeriodicGrid
  <2>5. DutyGrid'
    <3>1. phase = "duty" => pc # "armed"
      BY <1>a
    <3>2. ~Up => Interval = High
      BY DEF Interval
    <3> QED
      BY <1>d, <2>1, <2>3, <3>1, <3>2 DEF DutyGrid
  <2> QED
    BY <2>2, <2>4, <2>5
<1>6. CASE ArmFold
  BY <1>6, <1>a, <1>b DEF ArmFold
<1>7. CASE ArmPeriodic
  <2> SUFFICES ASSUME Trims = {}, rush = "none" PROVE Timely' /\ PeriodicGrid' /\ DutyGrid'
    BY <1>7 DEF GridInv, ArmPeriodic
  <2>1. /\ pc = "armed" /\ pc' = "enable" /\ wake' = now
        /\ pm' = TRUE /\ piv' = InitialPiv
        /\ UNCHANGED <<now, en, level, shape, grid, inverted, mirror>>
    BY <1>7 DEF ArmPeriodic
  <2>2. ~en' /\ mirror = Up
    <3>1. phase = "off" /\ ~en
      BY <1>a, <2>1
    <3>2. Folded = mirror
      BY <3>1 DEF Folded, Events
    <3> QED
      BY <1>a, <2>1, <3>1, <3>2
  <2>3. PICK first \in Int : /\ (first - grid) % Period = 0
                             /\ compv' = PushLate(Slot(first))
    <3>1. /\ now - Period + 1 \in Int /\ now + 2 * Period \in Int
          /\ \A n \in (now - Period + 1)..(now + 2 * Period) : n \in Int
      BY <1>0 DEF Period
    <3> QED
      BY <1>7, <3>1 DEF ArmPeriodic
  <2>4. /\ compv' >= now + Margin
        /\ On(compv', grid, High, Low, mirror)
    BY <2>3, PushType, SlotLands
  <2>5. Up' = Up /\ Interval' = Interval
    BY <1>c, <2>1
  <2>6. Lands(compv)'
    BY <2>1, <2>2, <2>4, <2>5 DEF Lands
  <2>7. piv' = Interval'
    BY <2>1, <2>2, <2>5 DEF InitialPiv, Interval
  <2>8. compv' >= wake' + Margin /\ now' <= wake' + Stall'
    BY <1>0, <2>1, <2>4
  <2>9. Timely'
    BY <2>1, <2>6, <2>7, <2>8 DEF Timely
  <2> QED
    BY <2>2, <2>9 DEF PeriodicGrid, DutyGrid
<1>8. CASE ArmEnable
  <2> SUFFICES ASSUME Trims = {}, rush = "none" PROVE Timely' /\ PeriodicGrid' /\ DutyGrid'
    BY <1>8 DEF GridInv, ArmEnable
  <2>1. /\ pc = "enable" /\ pc' = "idle"
        /\ UNCHANGED <<now, pm, compv, piv, level, ckpt, phase, shape, grid,
                       inverted>>
    BY <1>8 DEF ArmEnable
  <2>2. /\ now <= wake + Stall /\ compv >= wake + Margin
        /\ Lands(compv) /\ piv = Interval /\ pm
    BY <1>d, <2>1 DEF Timely
  <2>3. compv > now
    BY <1>0, <2>2
  <2>4. /\ Lands(compv)' <=> Lands(compv)
        /\ Up' = Up /\ Interval' = Interval
    BY <1>c, <2>1
  <2>5. phase = "periodic" => Interval = High
    BY <1>0, <2>1 DEF Interval
  <2> QED
    BY <2>1, <2>2, <2>3, <2>4, <2>5 DEF Timely, PeriodicGrid, DutyGrid
<1>9. CASE ServiceFold
  <2>1. /\ pc = "idle" /\ pc' = "service"
        /\ UNCHANGED <<now, en, pm, compv, piv, level, phase, shape, grid,
                       inverted, rush>>
    BY <1>9 DEF ServiceFold
  <2> QED
    BY <1>e, <2>1
<1>10. CASE ServiceProgram
  <2> SUFFICES ASSUME Trims = {}, rush = "none" PROVE Timely' /\ PeriodicGrid' /\ DutyGrid'
    BY <1>10 DEF GridInv, ServiceProgram
  <2>1. /\ pc = "service" /\ pc' = "idle" /\ phase = "duty" /\ piv' = NextPiv
        /\ UNCHANGED <<now, en, pm, compv, level, ckpt, phase, shape, grid,
                       inverted>>
    BY <1>10, <1>a DEF ServiceProgram
  <2>2. mirror = Up
    <3>1. Events = 0
      BY <2>1 DEF Events, CountInv, DutyCounted
    <3> QED
      BY <1>a, <3>1 DEF Folded
  <2>3. /\ Lands(compv)' <=> Lands(compv)
        /\ Up' = Up /\ Interval' = Interval
    BY <1>c, <2>1
  <2>4. piv' = Interval'
    BY <2>1, <2>2, <2>3 DEF NextPiv, Interval
  <2> QED
    BY <1>d, <2>1, <2>3, <2>4 DEF Timely, PeriodicGrid, DutyGrid
<1>11. CASE FreqPiv
  <2> SUFFICES ASSUME Trims = {}, rush = "none" PROVE Timely' /\ PeriodicGrid' /\ DutyGrid'
    BY <1>11 DEF GridInv, FreqPiv
  <2>1. piv' = piv
    BY <1>11 DEF FreqPiv
  <2>2. Timely' /\ PeriodicGrid' /\ DutyGrid'
    <3>1. /\ pc = "freqpiv" /\ pc' = "phase" /\ phase = "periodic"
          /\ UNCHANGED <<now, en, pm, compv, level, ckpt, phase, shape, grid,
                         inverted>>
      BY <1>11, <1>a DEF FreqPiv
    <3>2. Lands(compv)' <=> Lands(compv)
      BY <1>c, <3>1
    <3> QED
      BY <1>d, <2>1, <3>1, <3>2 DEF Timely, PeriodicGrid, DutyGrid
  <2> QED
    BY <2>2
<1>12. CASE FreqPhase
  <2> SUFFICES ASSUME Trims = {}, rush = "none" PROVE Timely' /\ PeriodicGrid' /\ DutyGrid'
    BY <1>12 DEF GridInv, FreqPhase
  <2>1. /\ pc = "phase" /\ phase = "periodic"
        /\ \/ pc' = "idle" /\ en' = en
           \/ pc' = "armfold" /\ en' = FALSE
        /\ UNCHANGED <<now, pm, compv, piv, level, ckpt, phase, shape, grid,
                       inverted>>
    BY <1>12, <1>a DEF FreqPhase
  <2>2. Lands(compv)' <=> Lands(compv)
    BY <1>c, <2>1
  <2> QED
    BY <1>d, <2>1, <2>2 DEF Timely, PeriodicGrid, DutyGrid
<1>13. CASE Pause
  <2> SUFFICES ASSUME Trims = {}, rush = "none" PROVE Timely' /\ PeriodicGrid' /\ DutyGrid'
    BY <1>13 DEF GridInv, Pause
  <2>1. /\ pc = "pause" /\ pc' = "write" /\ phase = "periodic" /\ wake' = now
        /\ UNCHANGED <<now, en, compv, piv, level, ckpt, phase, shape, grid,
                       inverted, target>>
    BY <1>13, <1>a DEF Pause
  <2>2. Lands(target)' <=> Lands(target)
    BY <1>c, <2>1
  <2>3. now' <= wake' + Stall'
    BY <1>0, <2>1
  <2>4. en => target' > wake' + High'
    <3>1. en => compv > now /\ target = compv + High
      BY <1>d, <2>1 DEF PeriodicGrid
    <3> QED
      BY <1>0, <2>1, <3>1
  <2> QED
    BY <1>d, <2>1, <2>2, <2>3, <2>4 DEF Timely, PeriodicGrid, DutyGrid
<1>14. CASE WriteCompv
  <2> SUFFICES ASSUME Trims = {}, rush = "none" PROVE Timely' /\ PeriodicGrid' /\ DutyGrid'
    BY <1>14 DEF GridInv, WriteCompv
  <2>1. /\ pc = "write" /\ pc' = "idle" /\ phase = "periodic"
        /\ compv' = target /\ pm' = TRUE
        /\ UNCHANGED <<now, en, piv, level, phase, shape, grid, inverted,
                       target>>
    BY <1>14, <1>a DEF WriteCompv, Missed
  <2>2. en => /\ target > wake + High /\ now <= wake + Stall /\ Lands(target)
              /\ piv = High
    BY <1>d, <2>1 DEF Timely, PeriodicGrid
  <2>3. en => compv' > now'
    BY <1>0, <2>1, <2>2
  <2>4. en => Lands(compv)'
    <3>1. Lands(target)' <=> Lands(target)
      BY <1>c, <2>1
    <3>2. Lands(compv)' <=> Lands(target)'
      BY <2>1 DEF Lands, On
    <3> QED
      BY <2>2, <3>1, <3>2
  <2> QED
    BY <2>1, <2>2, <2>3, <2>4 DEF Timely, PeriodicGrid, DutyGrid
<1>15. CASE FlipWait
  <2> SUFFICES ASSUME Trims = {}, rush = "none", rush' = "none"
               PROVE  Timely' /\ PeriodicGrid' /\ DutyGrid'
    BY <1>15 DEF GridInv, FlipWait
  <2>1. /\ pc = "wait" /\ phase = "periodic" /\ pc' \in {"wait", "shift"}
        /\ pc' = "shift" => wake' = now
        /\ UNCHANGED <<now, en, pm, compv, piv, level, phase, shape, grid,
                       inverted>>
    BY <1>15, <1>a DEF FlipWait
  <2>2. Lands(compv + High)' <=> Lands(compv + High)
    BY <1>c, <2>1
  <2>3. pc' = "shift" => now' <= wake' + Stall'
    BY <1>0, <2>1
  <2> QED
    BY <1>d, <2>1, <2>2, <2>3 DEF Timely, PeriodicGrid, DutyGrid
<1>22. CASE FlipShift
  <2> SUFFICES ASSUME Trims = {}, rush = "none" PROVE Timely' /\ PeriodicGrid' /\ DutyGrid'
    BY <1>22 DEF GridInv, FlipShift
  <2>1. /\ pc = "shift" /\ phase = "periodic" /\ pc' = "pause" /\ wake' = now
        /\ target' = compv + ivl
        /\ UNCHANGED <<now, en, pm, compv, piv, ivl, level, phase, shape, grid,
                       inverted>>
    BY <1>22, <1>a DEF FlipShift
  <2>2. Lands(target)' <=> On(target', grid, High, Low, Up)
    BY <1>c, <2>1 DEF Lands
  <2>3. en => /\ pm /\ compv > now /\ piv = High /\ ivl = High
              /\ Lands(compv + High)
    BY <1>d, <2>1 DEF PeriodicGrid, OrderInv, Control
  <2>4. en => target' = compv' + High' /\ Lands(target)'
    BY <2>1, <2>2, <2>3 DEF Lands
  <2>5. now' <= wake' + Stall'
    BY <1>0, <2>1
  <2> QED
    BY <2>1, <2>3, <2>4, <2>5 DEF Timely, PeriodicGrid, DutyGrid
<1>16. CASE Drain
  <2>1. /\ pc = "drain" /\ mirror' = Folded
        /\ \/ pc' = "disable"
           \/ pc' = "drain" /\ mirror'
        /\ UNCHANGED <<now, en, pm, compv, piv, level, phase, shape, grid,
                       inverted, rush>>
    BY <1>16 DEF Drain, HwFlopFold
  <2> SUFFICES ASSUME Trims = {}, rush = "none" PROVE Timely' /\ PeriodicGrid' /\ DutyGrid'
    BY <2>1 DEF GridInv
  <2>2. /\ Lands(compv)' <=> Lands(compv)
        /\ Up' = Up
    BY <1>c, <2>1
  <2>3. pc' = "drain" => Up
    BY <1>a, <2>1
  <2>4. Timely' /\ PeriodicGrid'
    BY <1>d, <2>1, <2>2 DEF Timely, PeriodicGrid
  <2>5. DutyGrid'
    BY <1>d, <2>1, <2>2, <2>3 DEF DutyGrid
  <2> QED
    BY <2>4, <2>5
<1>17. CASE DisableHw
  BY <1>17, <1>b DEF DisableHw
<1>18. CASE DisableFold
  BY <1>18, <1>a, <1>b DEF DisableFold
<1>19. CASE Stopped
  BY <1>19, <1>a, <1>b DEF Stopped
<1>20. CASE Reload
  BY <1>20, <1>a, <1>b DEF Reload
<1>21. CASE UNCHANGED vars
  <2>1. /\ Lands(compv)' <=> Lands(compv)
        /\ Lands(compv + High)' <=> Lands(compv + High)
        /\ Lands(target)' <=> Lands(target)
        /\ Up' = Up /\ Interval' = Interval
    BY <1>21, <1>c
  <2> QED
    BY <1>21, <2>1 DEF GridInv, Timely, PeriodicGrid, DutyGrid
<1> QED
  BY <1>1, <1>2, <1>3, <1>4, <1>5, <1>6, <1>7, <1>8, <1>9, <1>10, <1>11,
     <1>12, <1>13, <1>14, <1>15, <1>16, <1>17, <1>18, <1>19, <1>20, <1>21, <1>22
  DEF Next, Job, Work, Horizon

LEMMA GridInitially == Init => Agreement /\ GridInv
<1> SUFFICES ASSUME Init PROVE Agreement /\ GridInv
  OBVIOUS
<1>1. Folded = FALSE /\ level = inverted
  BY DEF Init, Folded, Events
<1>2. level \in BOOLEAN
  BY ConstantTypes DEF Init
<1>3. Agreement
  BY <1>1, <1>2, Differ DEF Agreement, Up
<1>4. GridInv
  BY DEF Init, GridInv, Timely, PeriodicGrid, DutyGrid
<1> QED
  BY <1>3, <1>4

\* An edge of a right mirror's block that nothing trims lands on its slot.
OnSlot ==
    level' # level /\ ~inverted /\ Trims = {} /\ rush = "none"
         /\ pc \notin {"wait", "shift", "pause", "write"}
        => (now' - grid) % Period = IF level' THEN 0 ELSE High

LEMMA EdgeLands ==
    ASSUME OnTime, Prompt, OrderInv, CountInv, Agreement, GridInv, [Next]_vars
    PROVE  OnSlot
<1> SUFFICES ASSUME level' # level, ~inverted, Trims = {}, rush = "none",
                    pc \notin {"wait", "shift", "pause", "write"}
             PROVE  (now' - grid) % Period = IF level' THEN 0 ELSE High
  BY DEF OnSlot
<1>1. Tick /\ en /\ pm /\ compv <= now + 1
  BY DEF Next, Job, Work, Horizon, Tick, ArmStop, FreqFold, Flip, StopBegin,
         ArmFold, ArmPeriodic, ArmEnable, ServiceFold, ServiceProgram, FreqPiv,
         FreqPhase, Pause, WriteCompv, FlipWait, FlipShift, Drain, DisableHw, DisableFold,
         Stopped, Reload
<1>2. now' = now + 1 /\ level' = ~level
  BY <1>1 DEF Tick
<1>3. compv > now /\ Lands(compv)
  <2>1. phase \in {"periodic", "duty"}
    BY <1>1, GridTypes
  <2>2. CASE phase = "periodic"
    BY <1>1, <2>2 DEF GridInv, PeriodicGrid
  <2>3. CASE phase = "duty"
    <3>1. compv = ckpt /\ pc \in {"idle", "drain"}
      BY <1>1, <2>3, DutyEdge
    <3> QED
      BY <1>1, <2>3, <3>1 DEF GridInv, DutyGrid
  <2> QED
    BY <2>1, <2>2, <2>3
<1>4. compv = now'
  BY <1>1, <1>2, <1>3, GridTypes
<1>5. Up = level /\ level \in BOOLEAN
  BY Differ DEF Up, OrderInv, Fields
<1> QED
  BY <1>2, <1>3, <1>4, <1>5 DEF Lands, On, Period

\* Every edge of a running output whose mirror is right, and which no servo
\* trims, comes on the requested grid, whatever re-arms, folds and services
\* came before, and inversions that found the edge far enough away, as long as
\* the work is on time and prompt. An output that was shifted with an edge
\* imminent is on the grid again once it is armed with a right mirror.
THEOREM EdgesLand == ASSUME OnTime, Prompt PROVE Spec => TogglesOnGrid
<1> DEFINE Inv == OrderInv /\ CountInv /\ Agreement /\ GridInv
<1>1. Init => Inv
  BY OrderInitially, CountInitially, GridInitially
<1>2. Inv /\ [Next]_vars => Inv' /\ [OnSlot]_vars
  <2> SUFFICES ASSUME Inv, [Next]_vars PROVE Inv' /\ OnSlot
    OBVIOUS
  <2>1. OrderInv' /\ CountInv' /\ Mapped
    BY InvStep
  <2>2. Agreement'
    BY <2>1, AgreementStep
  <2>3. GridInv' /\ OnSlot
    BY GridStep, EdgeLands
  <2> QED
    BY <2>1, <2>2, <2>3
<1> QED
  BY <1>1, <1>2, PTL DEF Spec, TogglesOnGrid, OnSlot

\* The level that tgpio_hw_start_output and tgpio_arm_hardware_periodic decide
\* by is that of the line, and the opposite where a load found the flop high or
\* a hurried inversion missed an edge and no calibration followed, as long as
\* the work is on time.
THEOREM BeliefIsLevel == ASSUME OnTime PROVE Spec => []Parity!Agreement
<1> DEFINE Inv == OrderInv /\ CountInv /\ Agreement
<1>1. Init => Inv
  BY OrderInitially, CountInitially, GridInitially
<1>2. Inv /\ [Next]_vars => Inv'
  BY InvStep, AgreementStep
<1>3. Inv => Parity!Agreement
  BY DEF Agreement, Up, Parity!Agreement
<1> QED
  BY <1>1, <1>2, <1>3, PTL DEF Spec
-----------------------------------------------------------------------------
(* Draining *)

\* A drain that has not given up ends with a mirror that says low, and nothing
\* touches the mirror before tgpio_disable_output_hw folds it once more.
DrainInv ==
    pc \in {"disable", "disablefold"} /\ phase # "off" /\ tries > 0 => ~mirror

LEMMA DrainStep == ASSUME DrainInv, [Next]_vars PROVE DrainInv'
<1> USE DEF DrainInv, Goto, Sleep
<1>1. CASE Drain
  BY <1>1 DEF Drain, hw
<1>2. CASE DisableHw
  BY <1>2 DEF DisableHw, sw
<1>3. CASE Tick \/ UNCHANGED vars
  BY <1>3 DEF Tick, sw, vars
<1>4. CASE Job
  BY <1>4 DEF Job, ArmStop, FreqFold, Flip, StopBegin, Begin
<1>5. CASE ArmFold \/ ArmPeriodic \/ ArmEnable \/ ServiceFold \/ ServiceProgram
  BY <1>5 DEF ArmFold, ArmPeriodic, ArmEnable, ServiceFold, ServiceProgram
<1>6. CASE FreqPiv \/ FreqPhase \/ Pause \/ WriteCompv \/ FlipWait \/ FlipShift
  BY <1>6 DEF FreqPiv, FreqPhase, Pause, WriteCompv, FlipWait, FlipShift
<1>7. CASE DisableFold \/ Stopped \/ Reload
  BY <1>7 DEF DisableFold, Stopped, Reload
<1> QED
  BY <1>1, <1>2, <1>3, <1>4, <1>5, <1>6, <1>7 DEF Next, Work, Horizon

\* The stop of such a drain finds the line low.
StopsLow ==
    DisableFold /\ phase # "off" /\ ~inverted /\ tries > 0 /\ Events = 0 => ~level

LEMMA LowStops == ASSUME OrderInv, Agreement, DrainInv PROVE StopsLow
<1> SUFFICES ASSUME DisableFold, phase # "off", ~inverted, tries > 0, Events = 0
             PROVE  ~level
  BY DEF StopsLow
<1>1. ~mirror
  BY DEF DisableFold, DrainInv
<1>2. ~Folded
  BY <1>1 DEF Folded
<1>3. level \in BOOLEAN /\ inverted \in BOOLEAN
  BY DEF OrderInv, Fields
<1> QED
  BY <1>2, <1>3, Differ DEF Agreement, Up

\* A stop leaves the line of a right mirror low, the level that the next load
\* assumes, whatever waveform was drained and wherever it was, unless the drain
\* gave up or an edge came after it, as long as the work is on time. A mirror
\* that a hurried inversion made wrong (Missed) is not a right one: its drain
\* ends high.
THEOREM StopsAtLow == ASSUME OnTime PROVE Spec => DrainsLow
<1> DEFINE Inv == OrderInv /\ CountInv /\ Agreement /\ DrainInv
<1>1. Init => Inv
  BY OrderInitially, CountInitially, GridInitially DEF Init, DrainInv
<1>2. Inv /\ [Next]_vars => Inv' /\ [StopsLow]_vars
  BY InvStep, AgreementStep, DrainStep, LowStops
<1> QED
  BY <1>1, <1>2, PTL DEF Spec, DrainsLow, StopsLow
=============================================================================
