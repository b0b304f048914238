------------------------ MODULE OutputControlProofs ------------------------
(***************************************************************************)
(* Proofs about OutputControl, for every request set, every bound and any  *)
(* behaviour of the clock: type correctness, that no publication is lost   *)
(* (NoStaleWaveform) and that unloading leaves nothing behind              *)
(* (UnloadQuiescent); and for a healthy clock, that no running output is   *)
(* left without a next step (NoStranded).                                  *)
(***************************************************************************)
EXTENDS OutputControl, TLAPS

USE DEF vars, worker, hw, callers

\* A failing conversion is counted.
LEMMA FaultType == ASSUME TypeOK, Fault PROVE faults' \in Nat
  BY BoundAssumption DEF TypeOK, Fault

\* Each return of tgpio_output_work, and each (re-)arm, keeps the types.
LEMMA ArmTypes ==
    ASSUME TypeOK, NEW d \in Desired, NEW a \in [gen : Nat, freq : Nat, flip : Nat],
           ReconcileArm(d, a)
    PROVE  /\ phase' \in Phases /\ en' \in BOOLEAN
           /\ compare' \in {"none", "ahead", "past"} /\ shown' \in Nat
           /\ applied' \in [gen : Nat, freq : Nat, flip : Nat]
           /\ timer' \in BOOLEAN /\ faults' \in Nat
<1>1. CASE Fault /\ DisableOutputHw /\ timer' = FALSE /\ applied' = a
  BY <1>1, FaultType DEF TypeOK, DisableOutputHw, Phases
<1>2. CASE /\ IF d.kind = "software"
                THEN en' = TRUE /\ phase' = "FIRST_RISING" /\ compare' = "ahead"
                ELSE en' = FALSE /\ phase' = "ARM_PERIODIC" /\ compare' = "none"
           /\ shown' = d.gen
           /\ applied' = [gen |-> d.gen, freq |-> d.freq, flip |-> a.flip]
           /\ timer' = TRUE
           /\ UNCHANGED faults
  <2>1. d.gen \in Nat /\ d.freq \in Nat /\ a.flip \in Nat
    BY DEF Desired
  <2>2. phase' \in Phases /\ en' \in BOOLEAN /\ compare' \in {"none", "ahead", "past"}
    BY <1>2 DEF Phases
  <2>3. applied' \in [gen : Nat, freq : Nat, flip : Nat]
    BY <1>2, <2>1
  <2> QED
    BY <1>2, <2>1, <2>2, <2>3 DEF TypeOK
<1> QED
  BY <1>1, <1>2 DEF ReconcileArm

LEMMA NoConfigType == NoConfig \in Desired
  BY DEF NoConfig, Desired, Runs

\* The work leaves the callers, the rate and the stage alone.
LEMMA WorkTypes ==
    ASSUME TypeOK, UNCHANGED <<desired, owed, canceling, rate, callers, stage>>,
           pending' \in BOOLEAN, snap' \in Desired,
           pc' \in {"idle", "snapshot", "stop", "drain", "flip", "reconcile"},
           phase' \in Phases, en' \in BOOLEAN,
           compare' \in {"none", "ahead", "past"}, shown' \in Nat,
           applied' \in [gen : Nat, freq : Nat, flip : Nat],
           timer' \in BOOLEAN, faults' \in Nat
    PROVE  TypeOK'
  BY DEF TypeOK

\* A visit records an update of the frequency at most.
LEMMA VisitTypes ==
    ASSUME TypeOK, Visit
    PROVE  /\ UNCHANGED <<desired, owed, pending, canceling, rate, callers, stage>>
           /\ pending' \in BOOLEAN /\ snap' \in Desired /\ pc' = "idle"
           /\ snap \in Desired
           /\ FreqApplied \in [gen : Nat, freq : Nat, flip : Nat]
<1>1. pending \in BOOLEAN /\ snap \in Desired
      /\ applied \in [gen : Nat, freq : Nat, flip : Nat]
  BY DEF TypeOK
<1>2. FreqApplied \in [gen : Nat, freq : Nat, flip : Nat]
  BY <1>1 DEF FreqApplied, Desired
<1> QED
  BY <1>1, <1>2, NoConfigType DEF Visit, Return

\* The registers of the work, when it leaves them alone
LEMMA HwTypes ==
    ASSUME TypeOK, UNCHANGED <<hw, timer, faults>>
    PROVE  /\ phase' \in Phases /\ en' \in BOOLEAN
           /\ compare' \in {"none", "ahead", "past"} /\ shown' \in Nat
           /\ timer' \in BOOLEAN /\ faults' \in Nat
  BY DEF TypeOK

\* Every step of the driver keeps every field within its C type.
LEMMA TypeStep == TypeOK /\ [Next]_vars => TypeOK'
<1> SUFFICES ASSUME TypeOK, [Next]_vars PROVE TypeOK'
  OBVIOUS
<1>1. CASE Call
  <2>1. ASSUME NEW on \in {"on", "off"}, ConfigOutputBegin(on) PROVE TypeOK'
    <3>1. ioctl' \in {"idle", "on", "off"} /\ stopQueued' \in BOOLEAN
      BY <2>1 DEF ConfigOutputBegin
    <3>2. UNCHANGED <<desired, owed, pending, canceling, worker, rate, oneshot,
                      stopRunning, stage>>
      BY <2>1 DEF ConfigOutputBegin
    <3> QED
      BY <3>1, <3>2 DEF TypeOK
  <2>2. CASE ConfigOutputOff
    BY <2>2 DEF TypeOK, ConfigOutputOff, Disable, Stopping, Desired, Runs, Publishers
  <2>3. CASE ConfigOutputReject
    BY <2>3 DEF TypeOK, ConfigOutputReject
  <2>4. ASSUME NEW r \in Requests, ConfigOutputOn(r) PROVE TypeOK'
    <3>1. KindOf(r) \in Kinds
      BY ShapeAssumption DEF KindOf, Kinds
    <3> QED
      BY <2>4, <3>1 DEF TypeOK, ConfigOutputOn, Publish, Desired, Runs, Publishers
  <2>5. CASE ResyncAfterPhcStep
    BY <2>5 DEF TypeOK, ResyncAfterPhcStep, Desired, Publishers
  <2>6. CASE AdjFine
    BY <2>6 DEF TypeOK, AdjFine, BumpFreq, Desired, Publishers
  <2>7. CASE RefineWork
    <3>1. rate' \in BOOLEAN
      BY <2>7, FlagAssumption DEF RefineWork, TypeOK
    <3>2. desired' \in Desired /\ owed' \subseteq Publishers
      BY <2>7 DEF RefineWork, TypeOK, BumpFreq, Desired, Publishers
    <3> QED
      BY <2>7, <3>1, <3>2 DEF TypeOK, RefineWork, BumpFreq
  <2>8. ASSUME NEW p \in {"debugfs", "background"}, FlipPolarity(p) PROVE TypeOK'
    BY <2>8 DEF TypeOK, FlipPolarity, Desired, Publishers
  <2>9. CASE OneshotCheck
    BY <2>9 DEF TypeOK, OneshotCheck
  <2>10. CASE OneshotPublish
    BY <2>10 DEF TypeOK, OneshotPublish, Publish, Desired, Runs, Kinds, Publishers
  <2>11. CASE OneshotSchedule
    BY <2>11 DEF TypeOK, OneshotSchedule
  <2>12. CASE OneshotStopBegin
    <3>1. stopQueued' \in BOOLEAN /\ stopRunning' \in BOOLEAN
      BY <2>12 DEF OneshotStopBegin
    <3>2. UNCHANGED <<desired, owed, pending, canceling, worker, rate, ioctl,
                      oneshot, stage>>
      BY <2>12 DEF OneshotStopBegin
    <3> QED
      BY <3>1, <3>2 DEF TypeOK
  <2>13. CASE OneshotStop
    <3>1. desired' \in Desired /\ owed' \subseteq Publishers
      BY <2>13 DEF TypeOK, OneshotStop, Disable, Stopping, Desired, Runs, Publishers
    <3>2. stopRunning' \in BOOLEAN
      BY <2>13 DEF OneshotStop
    <3>3. UNCHANGED <<pending, canceling, worker, rate, ioctl, oneshot,
                      stopQueued, stage>>
      BY <2>13 DEF OneshotStop
    <3> QED
      BY <3>1, <3>2, <3>3 DEF TypeOK
  <2>14. ASSUME NEW p \in Publishers, Kick(p) PROVE TypeOK'
    BY <2>14 DEF TypeOK, Kick, ScheduleWork
  <2> QED
    BY <1>1, <2>1, <2>2, <2>3, <2>4, <2>5, <2>6, <2>7, <2>8, <2>9, <2>10,
       <2>11, <2>12, <2>13, <2>14 DEF Call
<1>2. CASE Work
  <2>a. /\ pending \in BOOLEAN /\ snap \in Desired /\ desired \in Desired
        /\ applied \in [gen : Nat, freq : Nat, flip : Nat]
        /\ phase \in Phases /\ en \in BOOLEAN
        /\ compare \in {"none", "ahead", "past"} /\ shown \in Nat
        /\ timer \in BOOLEAN /\ faults \in Nat
    BY DEF TypeOK
  <2>1. CASE WorkDequeue
    <3>1. /\ UNCHANGED <<desired, owed, canceling, snap, applied, hw, timer, rate,
                         faults, callers, stage>>
          /\ pending' = FALSE /\ pc' = "snapshot"
      BY <2>1 DEF WorkDequeue
    <3> QED
      BY <2>a, <3>1, WorkTypes
  <2>2. CASE WorkSnapshot
    <3>1. /\ UNCHANGED <<desired, owed, pending, canceling, applied, hw, timer,
                         rate, faults, callers, stage>>
          /\ snap' = desired /\ pc' \in {"stop", "flip"}
      BY <2>2 DEF WorkSnapshot
    <3> QED
      BY <2>a, <3>1, WorkTypes
  <2>3. CASE WorkCancelTimer
    <3>1. /\ UNCHANGED <<desired, owed, pending, canceling, snap, applied, hw,
                         rate, faults, callers, stage>>
          /\ timer' = FALSE /\ pc' = "drain"
      BY <2>3 DEF WorkCancelTimer
    <3> QED
      BY <2>a, <3>1, WorkTypes
  <2>4. CASE WorkStop
    <3>1. /\ UNCHANGED <<desired, owed, pending, canceling, applied, timer,
                         rate, faults, callers, stage, shown>>
          /\ pc' = "idle" /\ snap' = NoConfig
          /\ en' = FALSE /\ phase' = "TOGGLE" /\ compare' = "none"
      BY <2>4 DEF WorkStop, DisableOutputHw, Return
    <3> QED
      BY <2>a, <3>1, NoConfigType, WorkTypes DEF Phases
  <2>5. CASE WorkFlip
    <3>1. /\ UNCHANGED <<desired, owed, pending, canceling, snap, rate, callers,
                         stage>>
          /\ pc' = "reconcile"
      BY <2>5 DEF WorkFlip
    <3>2. [applied EXCEPT !.flip = snap.flip] \in [gen : Nat, freq : Nat, flip : Nat]
      BY <2>a DEF Desired
    <3>3. CASE ReconcileArm(desired, [applied EXCEPT !.flip = snap.flip])
      BY <2>a, <3>1, <3>2, <3>3, ArmTypes, WorkTypes
    <3>4. CASE applied' = [applied EXCEPT !.flip = snap.flip]
               /\ UNCHANGED <<hw, timer, faults>>
      BY <2>a, <3>1, <3>2, <3>4, HwTypes, WorkTypes
    <3> QED
      BY <2>5, <3>3, <3>4 DEF WorkFlip
  <2>6. CASE WorkRearm
    <3>1. /\ UNCHANGED <<desired, owed, pending, canceling, rate, callers, stage>>
          /\ pc' = "idle" /\ snap' = NoConfig /\ ReconcileArm(snap, applied)
      BY <2>6 DEF WorkRearm, Return
    <3> QED
      BY <2>a, <3>1, ArmTypes, NoConfigType, WorkTypes
  <2>7. CASE WorkApplyFreq
    <3>1. CASE ReconcileArm(snap, FreqApplied)
      BY <2>7, <3>1, VisitTypes, ArmTypes, WorkTypes DEF WorkApplyFreq
    <3>2. CASE applied' = FreqApplied /\ UNCHANGED <<hw, timer, faults>>
      BY <2>7, <3>2, VisitTypes, HwTypes, WorkTypes DEF WorkApplyFreq
    <3> QED
      BY <2>7, <3>1, <3>2 DEF WorkApplyFreq
  <2>8. CASE WorkFreqDuty
    BY <2>8, VisitTypes, HwTypes, WorkTypes DEF WorkFreqDuty
  <2>9. CASE WorkFreqEarly
    BY <2>9, VisitTypes, HwTypes, WorkTypes DEF WorkFreqEarly
  <2>10. CASE WorkArmPeriodic
    <3>1. faults' \in Nat /\ timer' \in BOOLEAN
      BY <2>10, <2>a, FaultType DEF WorkArmPeriodic
    <3>2. /\ phase' \in Phases /\ en' \in BOOLEAN /\ shown' \in Nat
          /\ compare' \in {"none", "ahead", "past"}
      BY <2>10, <2>a DEF WorkArmPeriodic, DisableOutputHw, Phases
    <3>3. Visit /\ applied' = FreqApplied
      BY <2>10 DEF WorkArmPeriodic
    <3> QED
      BY <3>1, <3>2, <3>3, VisitTypes, WorkTypes
  <2>11. CASE WorkDutyService
    <3>1. faults' \in Nat /\ timer' \in BOOLEAN
      BY <2>11, <2>a, FaultType DEF WorkDutyService
    <3>2. /\ phase' \in Phases /\ en' \in BOOLEAN /\ shown' \in Nat
          /\ compare' \in {"none", "ahead", "past"}
      BY <2>11, <2>a DEF WorkDutyService, DisableOutputHw, Phases
    <3>3. Visit /\ applied' = FreqApplied
      BY <2>11 DEF WorkDutyService
    <3> QED
      BY <3>1, <3>2, <3>3, VisitTypes, WorkTypes
  <2>12. CASE WorkFreeRunning
    BY <2>12, VisitTypes, HwTypes, WorkTypes DEF WorkFreeRunning
  <2>13. CASE WorkSoftwareEdge
    <3>1. faults' \in Nat /\ timer' \in BOOLEAN
      BY <2>13, <2>a, FaultType DEF WorkSoftwareEdge
    <3>2. /\ phase' \in Phases /\ en' \in BOOLEAN /\ shown' \in Nat
          /\ compare' \in {"none", "ahead", "past"}
      BY <2>13, <2>a DEF WorkSoftwareEdge, DisableOutputHw, Phases
    <3>3. Visit /\ applied' = FreqApplied
      BY <2>13 DEF WorkSoftwareEdge
    <3> QED
      BY <3>1, <3>2, <3>3, VisitTypes, WorkTypes
  <2> QED
    BY <1>2, <2>1, <2>2, <2>3, <2>4, <2>5, <2>6, <2>7, <2>8, <2>9, <2>10,
       <2>11, <2>12, <2>13 DEF Work
<1>3. CASE TimerFires
  <2>1. timer' \in BOOLEAN /\ pending' \in BOOLEAN
    BY <1>3 DEF TimerFires, ScheduleWork
  <2>2. UNCHANGED <<desired, owed, canceling, pc, snap, applied, hw, rate,
                    faults, callers, stage>>
    BY <1>3 DEF TimerFires
  <2> QED
    BY <2>1, <2>2 DEF TypeOK
<1>4. CASE CompareReached
  BY <1>4 DEF TypeOK, CompareReached
<1>5. CASE Exit
  <2>0. Stages = {"live", "unregistered", "closed", "stopped", "timer1",
                  "work1", "wait1", "timer2", "work2", "wait2", "disable",
                  "freed"}
    BY DEF Stages, FromClosed, FromStopped, FromTimer1, FromWait1,
           FromTimer2, FromWork2, FromWait2, FromDisable
  <2>1. CASE ExitUnregister
    BY <2>0, <2>1 DEF TypeOK, ExitUnregister
  <2>2. CASE ExitCancelBackground
    BY <2>0, <2>2 DEF TypeOK, ExitCancelBackground
  <2>3. CASE ExitPublishStopped
    <3>1. desired' \in Desired /\ stage' \in Stages
      BY <2>0, <2>3 DEF TypeOK, ExitPublishStopped, Stopping, Desired, Runs
    <3>2. UNCHANGED <<owed, pending, canceling, worker, rate, callers>>
      BY <2>3 DEF ExitPublishStopped
    <3> QED
      BY <3>1, <3>2 DEF TypeOK
  <2>4. CASE ExitCancelOneshot
    <3>1. stage' \in Stages
      BY <2>0, <2>4 DEF ExitCancelOneshot
    <3>2. stopQueued' \in BOOLEAN
      BY <2>4 DEF ExitCancelOneshot
    <3>3. UNCHANGED <<desired, owed, pending, canceling, worker, rate, ioctl,
                      oneshot, stopRunning>>
      BY <2>4 DEF ExitCancelOneshot
    <3> QED
      BY <3>1, <3>2, <3>3 DEF TypeOK
  <2>5. CASE ExitCancelTimer
    <3>1. stage' \in Stages
      BY <2>0, <2>5 DEF ExitCancelTimer
    <3>2. timer' \in BOOLEAN
      BY <2>5 DEF ExitCancelTimer
    <3>3. UNCHANGED <<desired, owed, pending, canceling, pc, snap, applied, hw,
                      rate, faults, callers>>
      BY <2>5 DEF ExitCancelTimer
    <3> QED
      BY <3>1, <3>2, <3>3 DEF TypeOK
  <2>6. CASE ExitGrabWork
    <3>1. stage' \in Stages
      BY <2>0, <2>6 DEF ExitGrabWork
    <3>2. pending' \in BOOLEAN /\ canceling' \in BOOLEAN
      BY <2>6 DEF ExitGrabWork
    <3>3. UNCHANGED <<desired, owed, worker, rate, callers>>
      BY <2>6 DEF ExitGrabWork
    <3> QED
      BY <3>1, <3>2, <3>3 DEF TypeOK
  <2>7. CASE ExitWaitWork
    <3>1. stage' \in Stages
      BY <2>0, <2>7 DEF ExitWaitWork
    <3>2. canceling' \in BOOLEAN
      BY <2>7 DEF ExitWaitWork
    <3>3. UNCHANGED <<desired, owed, pending, worker, rate, callers>>
      BY <2>7 DEF ExitWaitWork
    <3> QED
      BY <3>1, <3>2, <3>3 DEF TypeOK
  <2>8. CASE ExitDisable
    <3>1. stage' \in Stages /\ phase' \in Phases /\ en' \in BOOLEAN
          /\ compare' \in {"none", "ahead", "past"}
      BY <2>0, <2>8 DEF ExitDisable, DisableOutputHw, Phases
    <3>2. UNCHANGED <<shown, desired, owed, pending, canceling, pc, snap,
                      applied, timer, rate, faults, callers>>
      BY <2>8 DEF ExitDisable, DisableOutputHw
    <3> QED
      BY <3>1, <3>2 DEF TypeOK
  <2> QED
    BY <1>5, <2>1, <2>2, <2>3, <2>4, <2>5, <2>6, <2>7, <2>8 DEF Exit
<1>6. CASE UNCHANGED vars
  BY <1>6 DEF TypeOK
<1> QED
  BY <1>1, <1>2, <1>3, <1>4, <1>5, <1>6 DEF Next, Unloaded

\* Every field of the block keeps its C type: the type invariant of the
\* driver's output control plane, for every value of the constants.
THEOREM TypeCorrect == Spec => []TypeOK
<1>1. Init => TypeOK
  <2>1. ASSUME Init PROVE stage \in Stages /\ phase \in Phases
    BY <2>1 DEF Init, Stages, Phases
  <2>2. ASSUME Init PROVE applied \in [gen : Nat, freq : Nat, flip : Nat]
    BY <2>2 DEF Init
  <2>3. ASSUME Init PROVE rate \in BOOLEAN /\ shown \in Nat /\ faults \in Nat
    BY <2>3, FlagAssumption DEF Init
  <2> QED
    BY <2>1, <2>2, <2>3, NoConfigType DEF Init, TypeOK
<1>2. QED
  BY <1>1, TypeStep, PTL DEF Spec

-----------------------------------------------------------------------------
(* Unloading *)

\* What has come to rest at each stage of tgpio_input_exit: callers first,
\* then the background works, the desired state, the one-shot stop, a work
\* that still holds a RUNNING copy, the timer and the work itself.
ExitInv ==
    /\ canceling <=> stage \in {"wait1", "wait2"}
    /\ stage # "live" => ioctl = "idle" /\ oneshot = "idle"
                         /\ owed \subseteq {"background", "oneshot_stop"}
    /\ stage \in FromClosed => owed \subseteq {"oneshot_stop"}
    /\ stage \in FromStopped => desired.run = "STOPPED"
    /\ stage \in FromTimer1 => owed = {} /\ ~stopQueued /\ ~stopRunning
    /\ stage \in FromTimer2 => pc \in {"idle", "snapshot", "stop", "drain"}
    /\ stage \in FromWork2 => ~timer
    /\ stage \in FromWait2 => ~pending
    /\ stage \in FromDisable => pc = "idle"
    /\ stage = "freed" => ~en

\* Every step of the driver preserves what the exit path relies on.
LEMMA ExitStep == TypeOK /\ ExitInv /\ [Next]_vars => ExitInv'
<1> SUFFICES ASSUME TypeOK, ExitInv, [Next]_vars PROVE ExitInv'
  OBVIOUS
<1> USE DEF ExitInv, FromClosed, FromStopped, FromTimer1, FromWait1, FromTimer2,
           FromWork2, FromWait2, FromDisable
<1>1. CASE Call
  <2>1. ASSUME NEW on \in {"on", "off"}, ConfigOutputBegin(on) PROVE ExitInv'
    BY <2>1 DEF ConfigOutputBegin
  <2>2. ASSUME NEW r \in Requests, ConfigOutputOn(r) PROVE ExitInv'
    BY <2>2 DEF ConfigOutputOn, Publish
  <2>3. ASSUME NEW p \in {"debugfs", "background"}, FlipPolarity(p) PROVE ExitInv'
    BY <2>3 DEF FlipPolarity
  <2>4. ASSUME NEW p \in Publishers, Kick(p) PROVE ExitInv'
    BY <2>4 DEF Kick, ScheduleWork
  <2>5. CASE ConfigOutputOff
    BY <2>5 DEF ConfigOutputOff, Disable, Stopping
  <2>6. CASE ConfigOutputReject
    BY <2>6 DEF ConfigOutputReject
  <2>7. CASE ResyncAfterPhcStep
    BY <2>7 DEF ResyncAfterPhcStep
  <2>8. CASE AdjFine
    BY <2>8 DEF AdjFine, BumpFreq
  <2>9. CASE RefineWork
    BY <2>9 DEF RefineWork, BumpFreq
  <2>10. CASE OneshotCheck
    BY <2>10 DEF OneshotCheck
  <2>11. CASE OneshotPublish
    BY <2>11 DEF OneshotPublish, Publish
  <2>12. CASE OneshotSchedule
    BY <2>12 DEF OneshotSchedule
  <2>13. CASE OneshotStopBegin
    BY <2>13 DEF OneshotStopBegin
  <2>14. CASE OneshotStop
    BY <2>14 DEF OneshotStop, Disable, Stopping
  <2> QED
    BY <1>1, <2>1, <2>2, <2>3, <2>4, <2>5, <2>6, <2>7, <2>8, <2>9, <2>10, <2>11, <2>12, <2>13, <2>14 DEF Call
<1>2. CASE Work
  <2>1. CASE WorkDequeue
    BY <2>1 DEF WorkDequeue
  <2>2. CASE WorkSnapshot
    BY <2>2 DEF WorkSnapshot
  <2>3. CASE WorkCancelTimer
    BY <2>3 DEF WorkCancelTimer
  <2>4. CASE WorkStop
    BY <2>4 DEF WorkStop, Return, DisableOutputHw
  <2>5. CASE WorkFlip
    BY <2>5 DEF WorkFlip, ReconcileArm, Fault, DisableOutputHw
  <2>6. CASE WorkRearm
    BY <2>6 DEF WorkRearm, Return, ReconcileArm, Fault, DisableOutputHw
  <2>7. CASE WorkApplyFreq
    BY <2>7 DEF WorkApplyFreq, Visit, Return, FreqApplied, ReconcileArm, Fault, DisableOutputHw
  <2>8. CASE WorkFreqDuty
    BY <2>8 DEF WorkFreqDuty, Visit, Return, FreqApplied
  <2>9. CASE WorkFreqEarly
    BY <2>9 DEF WorkFreqEarly, Visit, Return, FreqApplied
  <2>10. CASE WorkArmPeriodic
    BY <2>10 DEF WorkArmPeriodic, Visit, Return, FreqApplied, Fault, DisableOutputHw
  <2>11. CASE WorkDutyService
    BY <2>11 DEF WorkDutyService, Visit, Return, FreqApplied, Fault, DisableOutputHw
  <2>12. CASE WorkFreeRunning
    BY <2>12 DEF WorkFreeRunning, Visit, Return, FreqApplied
  <2>13. CASE WorkSoftwareEdge
    BY <2>13 DEF WorkSoftwareEdge, Visit, Return, FreqApplied, Fault, DisableOutputHw
  <2> QED
    BY <1>2, <2>1, <2>2, <2>3, <2>4, <2>5, <2>6, <2>7, <2>8, <2>9, <2>10, <2>11, <2>12, <2>13 DEF Work
<1>3. CASE TimerFires
  BY <1>3 DEF TimerFires, ScheduleWork
<1>4. CASE CompareReached
  BY <1>4 DEF CompareReached
<1>5. CASE Exit
  <2>1. CASE ExitUnregister
    <3>1. owed \subseteq {"background", "oneshot_stop"}
      BY <2>1 DEF ExitUnregister, TypeOK, Publishers
    <3> QED
      BY <2>1, <3>1 DEF ExitUnregister
  <2>2. CASE ExitCancelBackground
    BY <2>2 DEF ExitCancelBackground
  <2>3. CASE ExitPublishStopped
    BY <2>3 DEF ExitPublishStopped, Stopping
  <2>4. CASE ExitCancelOneshot
    BY <2>4 DEF ExitCancelOneshot
  <2>5. CASE ExitCancelTimer
    BY <2>5 DEF ExitCancelTimer
  <2>6. CASE ExitGrabWork
    BY <2>6 DEF ExitGrabWork
  <2>7. CASE ExitWaitWork
    BY <2>7 DEF ExitWaitWork
  <2>8. CASE ExitDisable
    BY <2>8 DEF ExitDisable, DisableOutputHw
  <2> QED
    BY <1>5, <2>1, <2>2, <2>3, <2>4, <2>5, <2>6, <2>7, <2>8 DEF Exit
<1>6. CASE UNCHANGED vars
  BY <1>6
<1> QED
  BY <1>1, <1>2, <1>3, <1>4, <1>5, <1>6 DEF Next, Unloaded

\* Nothing that could touch the freed block survives tgpio_input_exit.
THEOREM UnloadIsQuiescent == Spec => []UnloadQuiescent
<1>1. Init => ExitInv
  BY DEF Init, ExitInv, FromClosed, FromStopped, FromTimer1, FromWait1,
     FromTimer2, FromWork2, FromWait2, FromDisable
<1>2. ExitInv => UnloadQuiescent
  BY DEF ExitInv, UnloadQuiescent, Settled, FromClosed, FromStopped,
     FromTimer1, FromWait1, FromTimer2, FromWork2, FromWait2, FromDisable
<1>3. QED
  BY <1>1, <1>2, TypeCorrect, ExitStep, PTL DEF Spec

-----------------------------------------------------------------------------
(* No lost publication *)

\* Before unloading, and unless the work is certain to look at output_desired
\* again, what it is doing (or has done) rests on the newest publication.
FreshInv ==
    /\ shown = applied.gen
    /\ pc \in {"flip", "reconcile"} => snap.run = "RUNNING"
    /\ stage \notin FromStopped /\ ~pending /\ owed = {} =>
          /\ pc = "idle" /\ en =>
                desired.run = "RUNNING" /\ applied.gen = desired.gen
          /\ pc \in {"flip", "reconcile"} =>
                snap.run = desired.run /\ snap.gen = desired.gen

\* An arm leaves the registers showing what is recorded as applied: the
\* configuration it was given, or (having failed) nothing.
LEMMA ArmShows ==
    ASSUME NEW d, NEW a, shown = applied.gen, a.gen = applied.gen,
           ReconcileArm(d, a)
    PROVE  shown' = applied'.gen /\ (en' => applied'.gen = d.gen)
<1>1. CASE Fault /\ DisableOutputHw /\ timer' = FALSE /\ applied' = a
  BY <1>1 DEF DisableOutputHw
<1>2. CASE /\ shown' = d.gen
           /\ applied' = [gen |-> d.gen, freq |-> d.freq, flip |-> a.flip]
  BY <1>2
<1> QED
  BY <1>1, <1>2 DEF ReconcileArm

\* Every step of the driver keeps the work abreast of the publications.
LEMMA FreshStep ==
    TypeOK /\ ExitInv /\ FreshInv /\ [Next]_vars => FreshInv'
<1> SUFFICES ASSUME TypeOK, ExitInv, FreshInv, [Next]_vars PROVE FreshInv'
  OBVIOUS
<1> USE DEF FreshInv
<1>0. /\ canceling => stage \in FromStopped
      /\ stage \in {"live", "unregistered", "closed"} <=> stage \notin FromStopped
      /\ desired.run \in {"STOPPED", "RUNNING"}
      /\ \A f : [applied EXCEPT !.flip = f].gen = applied.gen
      /\ \A f : [applied EXCEPT !.freq = f].gen = applied.gen
  BY DEF TypeOK, ExitInv, Desired, Runs, Stages, FromClosed, FromStopped,
         FromTimer1, FromWait1, FromTimer2, FromWork2, FromWait2, FromDisable
<1>1. CASE Call
  <2>1. ASSUME NEW on \in {"on", "off"}, ConfigOutputBegin(on) PROVE FreshInv'
    BY <2>1 DEF ConfigOutputBegin
  <2>2. ASSUME NEW r \in Requests, ConfigOutputOn(r) PROVE FreshInv'
    BY <2>2 DEF ConfigOutputOn, Publish
  <2>3. ASSUME NEW p \in {"debugfs", "background"}, FlipPolarity(p) PROVE FreshInv'
    BY <2>3 DEF FlipPolarity
  <2>4. ASSUME NEW p \in Publishers, Kick(p) PROVE FreshInv'
    BY <1>0, <2>4 DEF Kick, ScheduleWork
  <2>5. CASE ConfigOutputOff
    BY <2>5 DEF ConfigOutputOff, Disable, Stopping
  <2>6. CASE ConfigOutputReject
    BY <2>6 DEF ConfigOutputReject
  <2>7. CASE ResyncAfterPhcStep
    BY <2>7 DEF ResyncAfterPhcStep
  <2>8. CASE AdjFine
    BY <2>8 DEF AdjFine, BumpFreq
  <2>9. CASE RefineWork
    BY <2>9 DEF RefineWork, BumpFreq
  <2>10. CASE OneshotCheck
    BY <2>10 DEF OneshotCheck
  <2>11. CASE OneshotPublish
    BY <2>11 DEF OneshotPublish, Publish
  <2>12. CASE OneshotSchedule
    BY <2>12 DEF OneshotSchedule
  <2>13. CASE OneshotStopBegin
    BY <2>13 DEF OneshotStopBegin
  <2>14. CASE OneshotStop
    BY <2>14 DEF OneshotStop, Disable, Stopping
  <2> QED
    BY <1>1, <2>1, <2>2, <2>3, <2>4, <2>5, <2>6, <2>7, <2>8, <2>9, <2>10, <2>11, <2>12, <2>13, <2>14 DEF Call
<1>2. CASE Work
  <2>1. CASE WorkDequeue
    BY <2>1 DEF WorkDequeue
  <2>2. CASE WorkSnapshot
    BY <1>0, <2>2 DEF WorkSnapshot
  <2>3. CASE WorkCancelTimer
    BY <2>3 DEF WorkCancelTimer
  <2>4. CASE WorkStop
    BY <2>4 DEF WorkStop, Return, DisableOutputHw
  <2>5. CASE WorkFlip
    <3>1. shown' = applied'.gen
      BY <1>0, <2>5, ArmShows DEF WorkFlip
    <3>2. pc = "flip" /\ pc' = "reconcile"
          /\ UNCHANGED <<desired, owed, pending, snap, stage>>
      BY <2>5 DEF WorkFlip
    <3> QED
      BY <3>1, <3>2
  <2>6. CASE WorkRearm
    BY <2>6 DEF WorkRearm, Return, ReconcileArm, Fault, DisableOutputHw
  <2>7. CASE WorkApplyFreq
    <3>1. FreqApplied.gen = applied.gen
      BY <1>0 DEF FreqApplied
    <3>2. /\ pc = "reconcile" /\ snap.gen = applied.gen /\ pc' = "idle"
          /\ UNCHANGED <<desired, owed, pending, stage>>
          /\ \/ applied' = FreqApplied /\ UNCHANGED hw
             \/ ReconcileArm(snap, FreqApplied)
      BY <2>7 DEF WorkApplyFreq, Visit, Return
    <3>3. /\ shown' = applied'.gen
          /\ en' => applied'.gen = snap.gen
      BY <3>1, <3>2, ArmShows DEF hw
    <3> QED
      BY <3>2, <3>3
  <2>8. CASE WorkFreqDuty
    BY <2>8 DEF WorkFreqDuty, Visit, Return, FreqApplied
  <2>9. CASE WorkFreqEarly
    BY <2>9 DEF WorkFreqEarly, Visit, Return, FreqApplied
  <2>10. CASE WorkArmPeriodic
    BY <2>10 DEF WorkArmPeriodic, Visit, Return, FreqApplied, Fault, DisableOutputHw
  <2>11. CASE WorkDutyService
    BY <2>11 DEF WorkDutyService, Visit, Return, FreqApplied, Fault, DisableOutputHw
  <2>12. CASE WorkFreeRunning
    BY <2>12 DEF WorkFreeRunning, Visit, Return, FreqApplied
  <2>13. CASE WorkSoftwareEdge
    BY <2>13 DEF WorkSoftwareEdge, Visit, Return, FreqApplied, Fault, DisableOutputHw
  <2> QED
    BY <1>2, <2>1, <2>2, <2>3, <2>4, <2>5, <2>6, <2>7, <2>8, <2>9, <2>10, <2>11, <2>12, <2>13 DEF Work
<1>3. CASE TimerFires
  BY <1>3 DEF TimerFires, ScheduleWork
<1>4. CASE CompareReached
  BY <1>4 DEF CompareReached
<1>5. CASE Exit
  <2> USE DEF FromClosed, FromStopped, FromTimer1, FromWait1, FromTimer2,
              FromWork2, FromWait2, FromDisable
  <2>1. CASE ExitUnregister
    BY <2>1 DEF ExitUnregister
  <2>2. CASE ExitCancelBackground
    BY <2>2 DEF ExitCancelBackground
  <2>3. CASE ExitPublishStopped
    BY <2>3 DEF ExitPublishStopped, Stopping
  <2>4. CASE ExitCancelOneshot
    BY <2>4 DEF ExitCancelOneshot
  <2>5. CASE ExitCancelTimer
    BY <2>5 DEF ExitCancelTimer
  <2>6. CASE ExitGrabWork
    BY <2>6 DEF ExitGrabWork
  <2>7. CASE ExitWaitWork
    BY <2>7 DEF ExitWaitWork
  <2>8. CASE ExitDisable
    BY <2>8 DEF ExitDisable, DisableOutputHw
  <2> QED
    BY <1>5, <2>1, <2>2, <2>3, <2>4, <2>5, <2>6, <2>7, <2>8 DEF Exit
<1>6. CASE UNCHANGED vars
  BY <1>6
<1> QED
  BY <1>1, <1>2, <1>3, <1>4, <1>5, <1>6 DEF Next, Unloaded

\* Whatever the interleaving of publishers, timer, work and faults, a settled
\* driver shows the newest RUNNING publication or nothing.
THEOREM NoPublicationLost == Spec => []NoStaleWaveform
<1>1. Init => FreshInv /\ ExitInv
  BY DEF Init, FreshInv, ExitInv, FromClosed, FromStopped, FromTimer1,
     FromWait1, FromTimer2, FromWork2, FromWait2, FromDisable
<1>2. FreshInv => NoStaleWaveform
  BY DEF FreshInv, NoStaleWaveform, Settled
<1>3. QED
  BY <1>1, <1>2, TypeCorrect, ExitStep, FreshStep, PTL DEF Spec
-----------------------------------------------------------------------------
(* No output without a next step *)

\* The clock converts from the load on, is not stepped back by others, and no
\* asymmetric output is refreshed: what the driver needs to service an output.
Healthy ==
    /\ RateAtLoad /\ ~RateResets /\ ~StepBack /\ MaxFaults = 0
    /\ "duty" \in Requests => MaxFreq = 0

\* With such a clock every conversion succeeds,
Converts == rate /\ faults = 0

\* an output that runs freely has its events enabled,
FreeRuns == phase = "HARDWARE_PERIODIC" => en

\* an asymmetric one was asked for,
Asked ==
    desired.kind = "duty" \/ snap.kind = "duty" \/ phase = "HW_DUTY"
      => "duty" \in Requests

\* no update of the frequency comes where none may,
Unrefreshed ==
    MaxFreq = 0 => desired.freq = 0 /\ snap.freq = 0 /\ applied.freq = 0

\* and a work that stops the output does so by the newest publication.
StopsNewest ==
    stage = "live" /\ pc \in {"stop", "drain"} /\ ~pending /\ owed = {}
      => desired.run = "STOPPED"

StrandInv ==
    Converts /\ FreeRuns /\ Asked /\ Unrefreshed /\ StopsNewest /\ NoStranded

\* What a return of the work leaves behind for an output that has a next step
Serviced == timer \/ (phase = "HARDWARE_PERIODIC" /\ en)

\* An arm that cannot fail starts the wake timer.
LEMMA ArmWakes ==
    ASSUME MaxFaults = 0, faults = 0, NEW d, NEW a, ReconcileArm(d, a)
    PROVE  /\ timer' = TRUE /\ faults' = 0 /\ phase' \in {"FIRST_RISING", "ARM_PERIODIC"}
           /\ applied'.gen = d.gen /\ applied'.freq = d.freq
<1>1. ~Fault
  BY DEF Fault
<1>2. /\ IF d.kind = "software"
           THEN en' = TRUE /\ phase' = "FIRST_RISING" /\ compare' = "ahead"
           ELSE en' = FALSE /\ phase' = "ARM_PERIODIC" /\ compare' = "none"
      /\ applied' = [gen |-> d.gen, freq |-> d.freq, flip |-> a.flip]
      /\ timer' = TRUE /\ faults' = faults
  BY <1>1 DEF ReconcileArm
<1> QED
  BY <1>2

\* A work that ends a visit leaves every output with a next step.
LEMMA VisitServices ==
    ASSUME Healthy, TypeOK, Converts, FreeRuns, Asked, Unrefreshed,
           pc = "reconcile", Work
    PROVE  Serviced' /\ faults' = 0 /\ FreeRuns' /\ pc' = "idle"
<1> USE DEF Healthy, Converts, FreeRuns, Serviced
<1>1. CASE WorkRearm
  <2>1. ReconcileArm(snap, applied) /\ pc' = "idle"
    BY <1>1 DEF WorkRearm, Return
  <2> QED
    BY <2>1, ArmWakes
<1>2. CASE WorkApplyFreq
  <2>1. /\ phase = "HARDWARE_PERIODIC" /\ pc' = "idle"
        /\ UNCHANGED <<hw, timer, faults>> \/ ReconcileArm(snap, FreqApplied)
    BY <1>2 DEF WorkApplyFreq, Visit, Return
  <2> QED
    BY <2>1, ArmWakes
<1>3. ~WorkFreqDuty
  BY DEF WorkFreqDuty, FreqDue, Asked, Unrefreshed
<1>4. CASE WorkFreqEarly
  BY <1>4 DEF WorkFreqEarly, Visit, Return, BeforeWake
<1>5. CASE WorkArmPeriodic
  <2>1. /\ rate /\ ~Fault /\ pc' = "idle"
    BY <1>5 DEF WorkArmPeriodic, Visit, Return, Fault
  <2>2. /\ en' = TRUE /\ faults' = faults
        /\ phase' = IF snap.kind = "duty" THEN "HW_DUTY" ELSE "HARDWARE_PERIODIC"
        /\ timer' = (timer \/ snap.kind = "duty")
    BY <1>5, <2>1 DEF WorkArmPeriodic
  <2>3. snap.kind = "duty" => timer'
    BY <2>2
  <2> QED
    BY <2>1, <2>2, <2>3
<1>6. CASE WorkDutyService
  BY <1>6 DEF WorkDutyService, Visit, Return, Fault
<1>7. CASE WorkFreeRunning
  BY <1>7 DEF WorkFreeRunning, Visit, Return
<1>8. CASE WorkSoftwareEdge
  BY <1>8 DEF WorkSoftwareEdge, Visit, Return, Fault
<1> QED
  BY <1>1, <1>2, <1>3, <1>4, <1>5, <1>6, <1>7, <1>8
  DEF Work, WorkDequeue, WorkSnapshot, WorkCancelTimer, WorkStop, WorkFlip

\* What a visit records of the configuration it has visited
LEMMA VisitRecords ==
    ASSUME Healthy, TypeOK, Converts, Asked, Unrefreshed, pc = "reconcile", Work
    PROVE  Asked' /\ Unrefreshed' /\ UNCHANGED <<desired, owed, pending, rate, stage>>
<1>1. /\ UNCHANGED <<desired, owed, pending, rate, stage>> /\ snap' = NoConfig
  BY DEF Work, WorkDequeue, WorkSnapshot, WorkCancelTimer, WorkStop, WorkFlip,
         WorkRearm, WorkApplyFreq, WorkFreqDuty, WorkFreqEarly, WorkArmPeriodic,
         WorkDutyService, WorkFreeRunning, WorkSoftwareEdge, Visit, Return
<1>2. snap'.kind # "duty" /\ snap'.freq = 0
  BY <1>1 DEF NoConfig
<1>3. applied'.freq = snap.freq
  <2>1. applied \in [gen : Nat, freq : Nat, flip : Nat]
    BY DEF TypeOK
  <2>2. FreqApplied.freq = snap.freq
    BY <2>1 DEF FreqApplied
  <2>3. CASE WorkRearm
    BY <2>3, ArmWakes DEF WorkRearm, Healthy, Converts
  <2>4. CASE ~WorkRearm
    <3>1. applied' = FreqApplied \/ ReconcileArm(snap, FreqApplied)
      BY <2>4 DEF Work, WorkDequeue, WorkSnapshot, WorkCancelTimer, WorkStop,
         WorkFlip, WorkApplyFreq, WorkFreqDuty, WorkFreqEarly, WorkArmPeriodic,
         WorkDutyService, WorkFreeRunning, WorkSoftwareEdge
    <3> QED
      BY <2>2, <3>1, ArmWakes DEF Healthy, Converts
  <2> QED
    BY <2>3, <2>4
<1>4. phase' = "HW_DUTY" => snap.kind = "duty" \/ phase = "HW_DUTY"
  <2>1. CASE WorkRearm \/ WorkApplyFreq
    BY <2>1, ArmWakes DEF WorkRearm, WorkApplyFreq, Healthy, Converts
  <2>2. CASE ~(WorkRearm \/ WorkApplyFreq)
    BY <2>2 DEF Work, WorkDequeue, WorkSnapshot, WorkCancelTimer, WorkStop,
       WorkFlip, WorkFreqDuty, WorkFreqEarly, WorkArmPeriodic,
       WorkDutyService, WorkFreeRunning, WorkSoftwareEdge, DisableOutputHw
  <2> QED
    BY <2>1, <2>2
<1> QED
  BY <1>1, <1>2, <1>3, <1>4 DEF Asked, Unrefreshed

\* The work before a visit
LEMMA WorkStrands ==
    ASSUME Healthy, TypeOK, FreshInv, StrandInv, Work PROVE StrandInv'
<1> USE DEF StrandInv
<1>1. CASE pc = "reconcile"
  <2>1. /\ Serviced' /\ faults' = 0 /\ FreeRuns' /\ pc' = "idle"
        /\ Asked' /\ Unrefreshed' /\ rate' = rate
    BY <1>1, VisitServices, VisitRecords
  <2> QED
    BY <2>1 DEF Converts, StopsNewest, NoStranded, Serviced
<1>2. CASE WorkDequeue
  BY <1>2 DEF WorkDequeue, Converts, FreeRuns, Asked, Unrefreshed, StopsNewest,
              NoStranded, Settled
<1>3. CASE WorkSnapshot
  <2>1. desired.run \in Runs
    BY DEF TypeOK, Desired
  <2> QED
    BY <1>3, <2>1 DEF WorkSnapshot, Converts, FreeRuns, Asked, Unrefreshed,
              StopsNewest, NoStranded, Settled, Runs
<1>4. CASE WorkCancelTimer
  BY <1>4 DEF WorkCancelTimer, Converts, FreeRuns, Asked, Unrefreshed,
              StopsNewest, NoStranded, Settled
<1>5. CASE WorkStop
  <2>1. /\ pc = "drain" /\ pc' = "idle" /\ snap' = NoConfig /\ phase' = "TOGGLE"
        /\ UNCHANGED <<desired, owed, pending, applied, rate, faults, stage>>
    BY <1>5 DEF WorkStop, Return, DisableOutputHw
  <2>2. snap'.kind # "duty" /\ snap'.freq = 0
    BY <2>1 DEF NoConfig
  <2> QED
    BY <2>1, <2>2 DEF Converts, FreeRuns, Asked, Unrefreshed, StopsNewest,
                      NoStranded, Settled
<1>6. CASE WorkFlip
  <2>1. /\ pc' = "reconcile"
        /\ UNCHANGED <<desired, owed, pending, snap, rate, stage>>
    BY <1>6 DEF WorkFlip
  <2>2. CASE ReconcileArm(desired, [applied EXCEPT !.flip = snap.flip])
    <3>1. /\ faults' = 0 /\ phase' \in {"FIRST_RISING", "ARM_PERIODIC"}
          /\ applied'.freq = desired.freq
      BY <2>2, ArmWakes DEF Healthy, Converts
    <3> QED
      BY <2>1, <3>1 DEF Converts, FreeRuns, Asked, Unrefreshed, StopsNewest,
                        NoStranded, Settled
  <2>3. CASE applied' = [applied EXCEPT !.flip = snap.flip]
             /\ UNCHANGED <<hw, timer, faults>>
    <3>1. applied'.freq = applied.freq
      BY <2>3 DEF TypeOK
    <3> QED
      BY <2>1, <2>3, <3>1 DEF Converts, FreeRuns, Asked, Unrefreshed,
                              StopsNewest, NoStranded, Settled
  <2> QED
    BY <1>6, <2>2, <2>3 DEF WorkFlip
<1> QED
  BY <1>1, <1>2, <1>3, <1>4, <1>5, <1>6
  DEF Work, WorkRearm, WorkApplyFreq, WorkFreqDuty, WorkFreqEarly,
      WorkArmPeriodic, WorkDutyService, WorkFreeRunning, WorkSoftwareEdge, Visit

\* A publication leaves the next step to the work that it owes.
LEMMA PublicationStrands ==
    ASSUME StrandInv, UNCHANGED <<snap, applied, phase, en, faults>>, rate',
           owed' # {}, desired'.kind = "duty" => "duty" \in Requests,
           MaxFreq = 0 => desired'.freq = 0
    PROVE  StrandInv'
  BY DEF StrandInv, Converts, FreeRuns, Asked, Unrefreshed, StopsNewest,
         NoStranded, Settled

\* So do the steps that concern neither the output nor the work.
LEMMA OthersStrand ==
    ASSUME StrandInv,
           UNCHANGED <<desired, pc, snap, applied, phase, en, faults>>, rate',
           stage' = "live" => /\ stage = "live"
                              /\ pending' \/ UNCHANGED <<owed, pending, timer>>
    PROVE  StrandInv'
  BY DEF StrandInv, Converts, FreeRuns, Asked, Unrefreshed, StopsNewest,
         NoStranded, Settled

\* No step leaves a running output without a next one.
LEMMA StrandStep ==
    ASSUME Healthy, TypeOK, ExitInv, FreshInv, StrandInv, [Next]_vars
    PROVE  StrandInv'
<1>0. /\ rate /\ (stage = "live" => ~canceling)
      /\ desired.kind = "duty" => "duty" \in Requests
      /\ MaxFreq = 0 => desired.freq = 0
      /\ desired \in Desired
  BY DEF ExitInv, StrandInv, Converts, Asked, Unrefreshed, TypeOK
<1>1. CASE Call
  <2>1. ASSUME NEW on \in {"on", "off"}, ConfigOutputBegin(on) PROVE StrandInv'
    BY <1>0, <2>1, OthersStrand DEF ConfigOutputBegin
  <2>2. ASSUME NEW r \in Requests, ConfigOutputOn(r) PROVE StrandInv'
    <3>1. /\ UNCHANGED <<snap, applied, phase, en, faults, rate>>
          /\ owed' # {} /\ desired'.kind = KindOf(r) /\ desired'.freq = desired.freq
      BY <2>2 DEF ConfigOutputOn, Publish
    <3>2. KindOf(r) = "duty" => r = "duty"
      BY DEF KindOf
    <3> QED
      BY <1>0, <2>2, <3>1, <3>2, PublicationStrands
  <2>3. ASSUME NEW p \in {"debugfs", "background"}, FlipPolarity(p)
        PROVE  StrandInv'
    <3>1. /\ UNCHANGED <<snap, applied, phase, en, faults, rate>> /\ owed' # {}
          /\ desired'.kind = desired.kind /\ desired'.freq = desired.freq
      BY <1>0, <2>3 DEF FlipPolarity, Desired
    <3> QED
      BY <1>0, <3>1, PublicationStrands
  <2>4. ASSUME NEW p \in Publishers, Kick(p) PROVE StrandInv'
    <3>1. /\ UNCHANGED <<desired, pc, snap, applied, phase, en, faults, rate, stage>>
          /\ pending' = (pending \/ ~canceling)
      BY <2>4 DEF Kick, ScheduleWork
    <3> QED
      BY <1>0, <3>1, OthersStrand
  <2>5. CASE ConfigOutputOff \/ OneshotStop
    <3>1. /\ UNCHANGED <<snap, applied, phase, en, faults, rate>>
          /\ owed' # {} /\ desired'.kind = "none" /\ desired'.freq = desired.freq
      BY <2>5 DEF ConfigOutputOff, OneshotStop, Disable, Stopping
    <3> QED
      BY <1>0, <3>1, PublicationStrands
  <2>6. CASE ConfigOutputReject \/ OneshotCheck \/ OneshotSchedule
             \/ OneshotStopBegin
    <3>1. UNCHANGED <<desired, owed, pending, pc, snap, applied, phase, en,
                      timer, faults, rate, stage>>
      BY <2>6 DEF ConfigOutputReject, OneshotCheck, OneshotSchedule, OneshotStopBegin
    <3> QED
      BY <1>0, <3>1, OthersStrand
  <2>7. CASE ResyncAfterPhcStep
    <3>1. /\ UNCHANGED <<snap, applied, phase, en, faults, rate>> /\ owed' # {}
          /\ desired'.kind = desired.kind /\ desired'.freq = desired.freq
      BY <1>0, <2>7 DEF ResyncAfterPhcStep, Desired
    <3> QED
      BY <1>0, <3>1, PublicationStrands
  <2>8. ASSUME NEW p, BumpFreq(p), rate' PROVE StrandInv'
    <3>1. /\ UNCHANGED <<snap, applied, phase, en, faults>> /\ owed' # {}
          /\ desired'.kind = desired.kind /\ desired.freq < MaxFreq
      BY <1>0, <2>8 DEF BumpFreq, Desired
    <3> QED
      BY <1>0, <2>8, <3>1, PublicationStrands
  <2>9. CASE AdjFine
    BY <1>0, <2>8, <2>9 DEF AdjFine
  <2>10. CASE RefineWork
    <3>1. rate'
      BY <1>0, <2>10 DEF RefineWork, Healthy
    <3>2. CASE BumpFreq("background")
      BY <2>8, <3>1, <3>2
    <3>3. CASE UNCHANGED <<desired, owed, pending, canceling, worker, callers,
                           stage>>
      BY <3>1, <3>3, OthersStrand
    <3> QED
      BY <2>10, <3>2, <3>3 DEF RefineWork
  <2>11. CASE OneshotPublish
    <3>1. /\ UNCHANGED <<snap, applied, phase, en, faults, rate>>
          /\ owed' # {} /\ desired'.kind = "symmetric" /\ desired'.freq = desired.freq
      BY <2>11 DEF OneshotPublish, Publish
    <3> QED
      BY <1>0, <3>1, PublicationStrands
  <2> QED
    BY <1>1, <2>1, <2>2, <2>3, <2>4, <2>5, <2>6, <2>7, <2>9, <2>10, <2>11 DEF Call
<1>2. CASE Work
  BY <1>2, WorkStrands
<1>3. CASE TimerFires
  <2>1. /\ UNCHANGED <<desired, pc, snap, applied, phase, en, faults, rate, stage>>
        /\ pending' = (pending \/ ~canceling)
    BY <1>3 DEF TimerFires, ScheduleWork
  <2> QED
    BY <1>0, <2>1, OthersStrand
<1>4. CASE CompareReached
  <2>1. UNCHANGED <<desired, owed, pending, pc, snap, applied, phase, en, timer,
                    faults, rate, stage>>
    BY <1>4 DEF CompareReached
  <2> QED
    BY <1>0, <2>1, OthersStrand
<1>5. CASE Exit
  <2>1. stage' # "live" /\ rate' = rate
    BY <1>5 DEF Exit, ExitUnregister, ExitCancelBackground, ExitPublishStopped,
       ExitCancelOneshot, ExitCancelTimer, ExitGrabWork, ExitWaitWork, ExitDisable
  <2>2. CASE ExitPublishStopped
    <3>1. /\ UNCHANGED <<snap, applied, phase, en, faults>>
          /\ desired'.kind = "none" /\ desired'.freq = desired.freq
      BY <2>2 DEF ExitPublishStopped, Stopping
    <3> QED
      BY <1>0, <2>1, <3>1 DEF StrandInv, Converts, FreeRuns, Asked,
                              Unrefreshed, StopsNewest, NoStranded
  <2>3. CASE ExitDisable
    <3>1. /\ UNCHANGED <<desired, snap, applied, faults>> /\ phase' = "TOGGLE"
      BY <2>3 DEF ExitDisable, DisableOutputHw
    <3> QED
      BY <1>0, <2>1, <3>1 DEF StrandInv, Converts, FreeRuns, Asked,
                              Unrefreshed, StopsNewest, NoStranded
  <2>4. CASE ~ExitPublishStopped /\ ~ExitDisable
    <3>1. UNCHANGED <<desired, pc, snap, applied, phase, en, faults>>
      BY <1>5, <2>4 DEF Exit, ExitUnregister, ExitCancelBackground,
         ExitCancelOneshot, ExitCancelTimer, ExitGrabWork, ExitWaitWork
    <3> QED
      BY <1>0, <2>1, <3>1, OthersStrand
  <2> QED
    BY <2>2, <2>3, <2>4
<1>6. CASE UNCHANGED vars
  <2>1. UNCHANGED <<desired, owed, pending, pc, snap, applied, phase, en, timer,
                    faults, rate, stage>>
    BY <1>6
  <2> QED
    BY <1>0, <2>1, OthersStrand
<1> QED
  BY <1>1, <1>2, <1>3, <1>4, <1>5, <1>6 DEF Next, Unloaded

\* While the clock converts, a running output whose generation the work has
\* taken over always has its next step before it, whichever of publishers,
\* timer and visits came last.
THEOREM NoneStranded == ASSUME Healthy PROVE Spec => []NoStranded
<1>1. Init => FreshInv /\ ExitInv
  BY DEF Init, FreshInv, ExitInv, FromClosed, FromStopped, FromTimer1,
     FromWait1, FromTimer2, FromWork2, FromWait2, FromDisable
<1>2. Init => StrandInv
  BY DEF Healthy, Init, NoConfig, StrandInv, Converts, FreeRuns, Asked,
         Unrefreshed, StopsNewest, NoStranded
<1>3. TypeOK /\ ExitInv /\ FreshInv /\ StrandInv /\ [Next]_vars => StrandInv'
  BY StrandStep
<1>4. StrandInv => NoStranded
  BY DEF StrandInv
<1> QED
  BY <1>1, <1>2, <1>3, <1>4, TypeCorrect, ExitStep, FreshStep, PTL DEF Spec
=============================================================================
