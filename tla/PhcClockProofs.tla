-------------------------- MODULE PhcClockProofs ---------------------------
(***************************************************************************)
(* Proofs about PhcClock, for any number of callers and calls, any word    *)
(* and any rate: type correctness, which includes that the anchor stays in *)
(* the signed range, that an output follows the clock, and that the clock  *)
(* follows what it was told.                                               *)
(***************************************************************************)
EXTENDS PhcClock, ClockMathProofs

USE DEF vars, clock, output

Kinds == {"none", "settime", "adjtime", "adjfine", "refine"}
Calls == [kind : Kinds, arg : Seq(Int), art : 0..art, committed : BOOLEAN]

-----------------------------------------------------------------------------
(* Types *)

\* The arguments that get past the checks of the handlers.
Checked(kind, arg) ==
    /\ kind = "settime" => arg[1] \in Times
    /\ kind = "adjtime" => arg[1] \in Int
    /\ kind = "adjfine" => arg[1] \in -MaxRate..MaxRate
    /\ kind = "refine" => arg[1] \in Frequencies /\ arg[2] \in -MaxRate..MaxRate

TypeInv == TypeOK /\ \A c \in Callers : Checked(call[c].kind, call[c].arg)

\* A checked addition, and with it the reading of the clock, stays in range.
LEMMA AddInRange ==
    ASSUME NEW x, NEW y, Add(x, y).ok PROVE Add(x, y).val \in S64Min..S64Max
  BY DEF Add, Ok, Err

\* A reading of the clock that succeeds is in the signed range.
LEMMA ReadingInRange ==
    ASSUME NEW m, NEW a, ArtToNs(m, a).ok
    PROVE  ArtToNs(m, a).val \in S64Min..S64Max
<1> DEFINE base == CyclesDeltaToNs(a - m.art, m.hz, FALSE)
           sum == Add(m.ns, BaseToAdjusted(base.val, m.ppb).val)
<1>1. ArtToNs(m, a) = Err \/ ArtToNs(m, a) = sum
  BY DEF ArtToNs
<1>2. ~Err.ok
  BY DEF Err
<1> QED
  BY <1>1, <1>2, AddInRange

\* The signed range is around zero, for any word.
LEMMA SignedRange ==
    /\ S64Min \in Int /\ S64Max \in Int /\ Word \in Nat
    /\ S64Min < 0 /\ S64Max >= 0 /\ Word >= 2
  BY MathAssumption DEF S64Min, S64Max

\* What the assumptions say of the constants.
LEMMA ConstantTypes ==
    /\ Frequencies \subseteq Nat \ {0}
    /\ Times \subseteq 0..S64Max /\ Times \subseteq Int /\ Deltas \subseteq Int
    /\ MaxRate \in Nat /\ Unit \in Nat \ {0} /\ NsecPerSec \in Nat
<1>1. Frequencies \subseteq 1..NsecPerSec /\ NsecPerSec \in Nat
  BY ClockAssumption, MathAssumption
<1>2. Times \subseteq 0..S64Max /\ Deltas \subseteq Nat
  BY ClockAssumption, MathAssumption
<1>3. MaxRate \in Nat /\ Unit \in Nat \ {0}
  BY ClockAssumption, MathAssumption
<1> QED
  BY <1>1, <1>2, <1>3, SignedRange

\* A call that starts with checked arguments keeps the types.
LEMMA SampleType ==
    ASSUME TypeInv, NEW c \in Callers, NEW kind \in Kinds, NEW arg \in Seq(Int),
           Checked(kind, arg), Sample(c, kind, arg)
    PROVE  TypeInv'
<1> DEFINE new == [kind |-> kind, arg |-> arg, art |-> art, committed |-> FALSE]
<1>1. call \in [Callers -> Calls] /\ art \in Nat
  BY DEF TypeInv, TypeOK, Calls, Kinds
<1>2. new \in Calls
  BY <1>1 DEF Calls
<1>3. call' = [call EXCEPT ![c] = new] /\ UNCHANGED <<clock, output>>
  BY DEF Sample
<1>4. call' \in [Callers -> Calls']
  <2>1. Calls' = Calls
    BY <1>3 DEF Calls
  <2> QED
    BY <1>1, <1>2, <1>3, <2>1
<1>5. TypeOK'
  <2>1. calls \in Nat
    BY DEF TypeInv, TypeOK
  <2>2. calls' \in Nat
    BY <2>1 DEF Sample
  <2> QED
    BY <1>3, <1>4, <2>2 DEF TypeInv, TypeOK, Calls, Kinds
<1>6. ASSUME NEW d \in Callers PROVE Checked(call'[d].kind, call'[d].arg)
  <2>1. CASE d = c
    BY <1>1, <1>3, <2>1
  <2>2. CASE d # c
    BY <1>1, <1>3, <2>2 DEF TypeInv
  <2> QED
    BY <2>1, <2>2
<1> QED
  BY <1>5, <1>6 DEF TypeInv, Checked

Begun(c) ==
    \E kind \in Kinds, arg \in Seq(Int) : Checked(kind, arg) /\ Sample(c, kind, arg)

\* Every call starts with checked arguments.
LEMMA BeginSamples == ASSUME NEW c \in Callers, Begin(c) PROVE Begun(c)
<1>1. ASSUME NEW ns \in Times, Sample(c, "settime", <<ns>>) PROVE Begun(c)
  <2>1. <<ns>> \in Seq(Int) /\ Checked("settime", <<ns>>)
    BY ConstantTypes DEF Checked
  <2> QED
    BY <1>1, <2>1 DEF Kinds, Begun
<1>2. ASSUME NEW d \in Int, Sample(c, "adjtime", <<d>>) PROVE Begun(c)
  <2>1. <<d>> \in Seq(Int) /\ Checked("adjtime", <<d>>)
    BY DEF Checked
  <2> QED
    BY <1>2, <2>1 DEF Kinds, Begun
<1>3. ASSUME NEW ppb \in -MaxRate..MaxRate, Sample(c, "adjfine", <<ppb>>)
      PROVE  Begun(c)
  <2>1. <<ppb>> \in Seq(Int) /\ Checked("adjfine", <<ppb>>)
    BY DEF Checked
  <2> QED
    BY <1>3, <2>1 DEF Kinds, Begun
<1>4. ASSUME NEW ppb \in -MaxRate..MaxRate, NEW hz \in Frequencies,
             Sample(c, "refine", <<hz, ppb>>)
      PROVE  Begun(c)
  <2>1. <<hz, ppb>> \in Seq(Int) /\ Checked("refine", <<hz, ppb>>)
    BY ConstantTypes DEF Checked
  <2> QED
    BY <1>4, <2>1 DEF Kinds, Begun
<1>5. {-MaxRate, MaxRate} \subseteq -MaxRate..MaxRate
  BY ConstantTypes
<1>6. \A d \in Deltas : d \in Int /\ -d \in Int
  BY ConstantTypes
<1>7. CASE \E ns \in Times : Sample(c, "settime", <<ns>>)
  BY <1>1, <1>7
<1>8. CASE \E d \in Deltas : \/ Sample(c, "adjtime", <<d>>)
                             \/ Sample(c, "adjtime", <<-d>>)
  BY <1>2, <1>6, <1>8
<1>9. CASE \E ppb \in {-MaxRate, MaxRate} :
             \/ Sample(c, "adjfine", <<ppb>>)
             \/ \E hz \in Frequencies : Sample(c, "refine", <<hz, ppb>>)
  BY <1>3, <1>4, <1>5, <1>9
<1> QED
  BY <1>7, <1>8, <1>9 DEF Begin

\* A call that starts keeps the types.
LEMMA BeginType ==
    ASSUME TypeInv, NEW c \in Callers, Begin(c) PROVE TypeInv'
  BY BeginSamples, SampleType DEF Begun

\* A well-formed mapping keeps the types, whatever it means to the ideal clock.
LEMMA CommitType ==
    ASSUME TypeInv, NEW c \in Callers, NEW ns \in S64Min..S64Max,
           NEW hz \in Frequencies, NEW ppb \in -MaxRate..MaxRate,
           NEW time \in Int, Commit(c, Mapping(call[c].art, ns, hz, ppb), time)
    PROVE  TypeInv'
<1>1. call \in [Callers -> Calls]
  BY DEF TypeInv, TypeOK, Calls, Kinds
<1>2. call' = [call EXCEPT ![c].committed = TRUE] /\ UNCHANGED art
  BY DEF Commit
<1>3. call' \in [Callers -> Calls]
  BY <1>1, <1>2 DEF Calls
<1>4. phc' \in [art : 0..art, ns : S64Min..S64Max, hz : Frequencies,
                ppb : -MaxRate..MaxRate]
  <2>1. call[c].art \in 0..art
    BY <1>1 DEF Calls
  <2> QED
    BY <2>1 DEF Commit, Mapping
<1>5. version' \in [newest : Nat, step : Nat] /\ ideal' \in Int
  <2>1. version \in [newest : Nat, step : Nat]
    BY DEF TypeInv, TypeOK
  <2>2. /\ ideal' = time
        /\ version' = [newest |-> version.newest + 1,
                       step |-> IF call[c].kind \in {"settime", "adjtime"}
                                  THEN version.newest + 1 ELSE version.step]
    BY DEF Commit
  <2> QED
    BY <2>1, <2>2
<1>6. TypeOK'
  <2>1. UNCHANGED <<mode, art, calls, output>>
    BY DEF Commit
  <2> QED
    BY <1>3, <1>4, <1>5, <2>1 DEF TypeInv, TypeOK, Calls, Kinds, output
<1>7. \A d \in Callers : call'[d].kind = call[d].kind /\ call'[d].arg = call[d].arg
  BY <1>1, <1>2 DEF Calls
<1> QED
  BY <1>6, <1>7 DEF TypeInv, Checked

\* So does one that returns or has told the outputs.
LEMMA ReturnType ==
    ASSUME TypeInv, NEW c \in Callers, call' = [call EXCEPT ![c] = NoCall],
           UNCHANGED <<clock, calls, applied, pc, phase, shown>>,
           want' \in [gen : Nat, freq : Nat], pending' \in BOOLEAN
    PROVE  TypeInv'
<1>1. call \in [Callers -> Calls] /\ art \in Nat
  BY DEF TypeInv, TypeOK, Calls, Kinds
<1>2. NoCall \in Calls
  BY <1>1 DEF NoCall, Calls, Kinds
<1>3. call' \in [Callers -> Calls]
  BY <1>1, <1>2
<1>4. TypeOK'
  BY <1>3 DEF TypeInv, TypeOK, Calls, Kinds
<1>5. ASSUME NEW d \in Callers PROVE Checked(call'[d].kind, call'[d].arg)
  BY <1>1 DEF TypeInv, Checked, NoCall
<1> QED
  BY <1>4, <1>5 DEF TypeInv, Checked

\* What a call does to the ideal clock is a whole number of its units.
LEMMA RateType ==
    ASSUME NEW m, NEW hz \in Frequencies, NEW ppb \in -MaxRate..MaxRate,
           m.hz = hz, m.ppb = ppb
    PROVE  Rate(m) \in Int
<1>1. Unit \in Int /\ hz \in Nat \ {0} /\ ppb \in Int /\ NsecPerSec \in Int
  BY ConstantTypes
<1>2. Unit \div hz \in Int
  BY <1>1
<1> QED
  BY <1>1, <1>2 DEF Rate

\* The mapping, as the handlers find it.
LEMMA PhcType ==
    ASSUME TypeInv
    PROVE  /\ phc.ns \in S64Min..S64Max /\ phc.hz \in Frequencies
           /\ phc.ppb \in -MaxRate..MaxRate
           /\ ideal \in Int /\ Rate(phc) \in Int
<1>1. /\ phc.ns \in S64Min..S64Max /\ phc.hz \in Frequencies
      /\ phc.ppb \in -MaxRate..MaxRate /\ ideal \in Int
  BY DEF TypeInv, TypeOK
<1> QED
  BY <1>1, RateType

\* A change of rate keeps the types.
LEMMA RetuneType ==
    ASSUME TypeInv, NEW c \in Callers, NEW hz \in Frequencies,
           NEW ppb \in -MaxRate..MaxRate, Retune(c, hz, ppb)
    PROVE  TypeInv'
<1> DEFINE now == ArtToNs(phc, call[c].art)
           mapping == Mapping(call[c].art, now.val, hz, ppb)
           time == ideal + Age(c) * (Rate(mapping) - Rate(phc))
<1>1. CASE now.ok
  <2>1. now.val \in S64Min..S64Max
    BY <1>1, ReadingInRange
  <2>2. Rate(mapping) \in Int /\ Rate(phc) \in Int
    <3>1. mapping.hz = hz /\ mapping.ppb = ppb
      BY DEF Mapping
    <3> HIDE DEF mapping
    <3> QED
      BY <3>1, RateType, PhcType
  <2>3. Age(c) \in Int /\ ideal \in Int
    BY DEF Age, TypeInv, TypeOK
  <2>4. time \in Int
    <3> HIDE DEF mapping
    <3> QED
      BY <2>2, <2>3
  <2>5. Commit(c, mapping, time)
    BY <1>1 DEF Retune
  <2> HIDE DEF now, time
  <2> QED
    BY <2>1, <2>4, <2>5, CommitType
<1>2. CASE ~now.ok
  BY <1>2, ReturnType DEF Retune, Return, TypeInv, TypeOK
<1> QED
  BY <1>1, <1>2

\* Every handler, and every other step, keeps the types.
LEMMA CallType ==
    ASSUME TypeInv, NEW c \in Callers
    PROVE  /\ SetTime(c) => TypeInv'
           /\ AdjTime(c) => TypeInv'
           /\ AdjFine(c) => TypeInv'
           /\ Refine(c) => TypeInv'
           /\ Notify(c) => TypeInv'
<1>0. Checked(call[c].kind, call[c].arg)
  BY DEF TypeInv
<1>1. ASSUME SetTime(c) PROVE TypeInv'
  <2> DEFINE ns == call[c].arg[1]
             time == ns * Unit + Age(c) * Rate(phc)
  <2>1. ns \in S64Min..S64Max /\ ns \in Int
    <3>1. ns \in Times
      BY <1>0, <1>1 DEF SetTime, Sampled, Checked
    <3>2. ns \in 0..S64Max
      <4> HIDE DEF ns
      <4> QED
        BY <3>1, ConstantTypes
    <3> HIDE DEF ns
    <3> QED
      BY <3>2, SignedRange
  <2>2. Age(c) \in Int
    BY DEF Age, TypeInv, TypeOK
  <2>3. time \in Int
    <3> HIDE DEF ns
    <3> QED
      BY <2>1, <2>2, PhcType, ConstantTypes
  <2>4. Commit(c, Mapping(call[c].art, ns, phc.hz, phc.ppb), time)
    BY <1>1 DEF SetTime
  <2> HIDE DEF ns, time
  <2> QED
    BY <2>1, <2>3, <2>4, PhcType, CommitType
<1>2. ASSUME AdjTime(c) PROVE TypeInv'
  <2> DEFINE now == ArtToNs(phc, call[c].art)
             d == call[c].arg[1]
             adjusted == Add(now.val, d)
             time == ideal + d * Unit
  <2>1. CASE adjusted.ok /\ Commit(c, Mapping(call[c].art, adjusted.val,
                                              phc.hz, phc.ppb), time)
    <3>1. adjusted.val \in S64Min..S64Max
      <4> HIDE DEF now
      <4> QED
        BY <2>1, AddInRange
    <3>2. d \in Int
      BY <1>0, <1>2 DEF AdjTime, Sampled, Checked
    <3>3. time \in Int
      <4> HIDE DEF d
      <4> QED
        BY <3>2, PhcType, ConstantTypes
    <3> HIDE DEF adjusted, time
    <3> QED
      BY <2>1, <3>1, <3>3, PhcType, CommitType
  <2>2. CASE Return(c)
    BY <2>2, ReturnType DEF Return, TypeInv, TypeOK
  <2> QED
    BY <1>2, <2>1, <2>2 DEF AdjTime
<1>3. ASSUME AdjFine(c) PROVE TypeInv'
  BY <1>0, <1>3, PhcType, RetuneType DEF AdjFine, Sampled, Checked
<1>4. ASSUME Refine(c) PROVE TypeInv'
  <2>1. CASE Return(c)
    BY <2>1, ReturnType DEF Return, TypeInv, TypeOK
  <2>2. CASE Retune(c, call[c].arg[1], call[c].arg[2])
    BY <1>0, <1>4, <2>2, RetuneType DEF Refine, Sampled, Checked
  <2> QED
    BY <1>4, <2>1, <2>2 DEF Refine
<1>5. ASSUME Notify(c) PROVE TypeInv'
  <2>1. want' \in [gen : Nat, freq : Nat]
    <3>1. want \in [gen : Nat, freq : Nat]
      BY DEF TypeInv, TypeOK
    <3>2. \/ want' = [want EXCEPT !.gen = @ + 1]
          \/ want' = [want EXCEPT !.freq = @ + 1]
      BY <1>5 DEF Notify
    <3> QED
      BY <3>1, <3>2
  <2> QED
    BY <1>5, <2>1, ReturnType DEF Notify
<1> QED
  BY <1>1, <1>2, <1>3, <1>4, <1>5

\* The counter keeps the types up to its bound.
LEMMA TickType == TypeInv /\ Tick => TypeInv'
<1> SUFFICES ASSUME TypeInv, Tick PROVE TypeInv'
  OBVIOUS
<1>1. art' \in 0..(Word - 1) /\ art \in Nat /\ art' = art + 1
  BY ClockAssumption, MathAssumption DEF Tick, TypeInv, TypeOK
<1>2. 0..art \subseteq 0..art'
  BY <1>1
<1>3. phc' \in [art : 0..art', ns : S64Min..S64Max, hz : Frequencies,
                ppb : -MaxRate..MaxRate]
  BY <1>2 DEF Tick, TypeInv, TypeOK
<1>4. call' \in [Callers -> Calls']
  <2>1. call \in [Callers -> Calls] /\ call' = call
    BY DEF Tick, TypeInv, TypeOK, Calls, Kinds
  <2>2. Calls \subseteq Calls'
    BY <1>2 DEF Calls
  <2> QED
    BY <2>1, <2>2
<1>5. ideal' \in Int
  BY PhcType DEF Tick
<1>6. TypeOK'
  BY <1>1, <1>3, <1>4, <1>5 DEF Tick, TypeInv, TypeOK, Calls, Kinds
<1> QED
  BY <1>6 DEF Tick, TypeInv, Checked

\* The work never touches the clock, and its own fields keep their types.
LEMMA WorkType == TypeInv /\ Work => TypeInv'
<1> SUFFICES ASSUME TypeInv, Work PROVE TypeInv'
  OBVIOUS
<1>1. TypeOK' /\ UNCHANGED call
  BY DEF TypeInv, TypeOK, Work, WorkBegin, WorkPrepare, WorkPrime, WorkArm,
         WorkArmIntervals, WorkInterval, WorkPhase
<1> QED
  BY <1>1 DEF TypeInv, Checked

\* The freshly loaded driver is well typed.
LEMMA TypeInit == Init => TypeInv
<1> SUFFICES ASSUME Init PROVE TypeInv
  OBVIOUS
<1>1. art \in 0..(Word - 1) /\ art = 1
  BY SignedRange DEF Init
<1>2. phc \in [art : 0..art, ns : S64Min..S64Max, hz : Frequencies,
               ppb : -MaxRate..MaxRate]
  BY <1>1, SignedRange, ConstantTypes DEF Init, Mapping
<1>3. NoCall \in Calls
  BY <1>1 DEF NoCall, Calls, Kinds
<1>4. TypeOK
  <2>1. call \in [Callers -> Calls]
    BY <1>3 DEF Init
  <2>2. /\ want \in [gen : Nat, freq : Nat] /\ applied \in [gen : Nat, freq : Nat]
        /\ version \in [newest : Nat, step : Nat]
        /\ shown \in [grid : Nat, compare : Nat, rate : Nat]
    BY DEF Init
  <2>3. /\ mode \in {"phc", "art"} /\ calls \in Nat
        /\ phase \in {"waiting", "running"} /\ ideal \in Int
        /\ pc \in {"idle", "prepare", "prime", "arm", "armed", "interval", "phase"}
    BY DEF Init
  <2>4. call \in [Callers ->
           [kind : {"none", "settime", "adjtime", "adjfine", "refine"},
            arg : Seq(Int), art : 0..art, committed : BOOLEAN]]
    BY <2>1 DEF Calls, Kinds
  <2>5. pending \in BOOLEAN
    BY Zenon DEF Init
  <2> QED
    BY <1>1, <1>2, <2>2, <2>3, <2>4, <2>5, Zenon DEF TypeOK
<1>5. \A c \in Callers : Checked(call[c].kind, call[c].arg)
  BY DEF Init, NoCall, Checked
<1> QED
  BY <1>4, <1>5 DEF TypeInv

\* Every step keeps the types.
LEMMA TypeStep == TypeInv /\ [Next]_vars => TypeInv'
<1> SUFFICES ASSUME TypeInv, [Next]_vars PROVE TypeInv'
  OBVIOUS
<1>1. ASSUME NEW c \in Callers, Begin(c) PROVE TypeInv'
  BY <1>1, BeginType
<1>2. ASSUME NEW c \in Callers,
             SetTime(c) \/ AdjTime(c) \/ AdjFine(c) \/ Refine(c) \/ Notify(c)
      PROVE  TypeInv'
  BY <1>2, CallType
<1>3. CASE Tick
  BY <1>3, TickType
<1>4. CASE Work
  BY <1>4, WorkType
<1>5. CASE UNCHANGED vars
  BY <1>5 DEF TypeInv, TypeOK, Checked
<1> QED
  BY <1>1, <1>2, <1>3, <1>4, <1>5 DEF Next, Horizon

\* Every field of the clock and its output keeps its C type: no sequence of
\* calls takes the anchor of the mapping out of the signed range.
THEOREM TypeCorrect == Spec => []TypeOK
<1>1. TypeInv => TypeOK
  BY DEF TypeInv
<1> QED
  BY <1>1, TypeInit, TypeStep, PTL DEF Spec

-----------------------------------------------------------------------------
(* The output follows the clock *)

Steps == {"settime", "adjtime"}

\* A mapping, or a step of the clock, of which no output has been told yet
Untold == \E c \in Callers : call[c].committed
UntoldStep == \E c \in Callers : call[c].committed /\ call[c].kind \in Steps

\* Whatever of the waveform is out of date, there is someone who will see to
\* it: a caller that has yet to tell the output, a counter that the work has
\* yet to take up, or the work itself, at a place still before the reading.
FollowInv ==
    /\ applied.gen <= want.gen /\ applied.freq <= want.freq
    /\ applied # want => pending
    /\ version.step <= version.newest /\ shown.rate <= version.newest
    /\ shown.grid < version.step
         => UntoldStep \/ applied.gen # want.gen \/ pc = "prepare"
    /\ shown.compare < version.step
         => UntoldStep \/ applied.gen # want.gen \/ pc \in {"prepare", "prime"}
    /\ phase = "running" /\ shown.rate < version.newest
         => Untold \/ applied # want
              \/ pc \in {"prepare", "prime", "armed", "interval"}

Counters ==
    /\ want \in [gen : Nat, freq : Nat] /\ applied \in [gen : Nat, freq : Nat]
    /\ version \in [newest : Nat, step : Nat]
    /\ shown \in [grid : Nat, compare : Nat, rate : Nat]
    /\ call \in [Callers -> Calls]
    /\ phase \in {"waiting", "running"}

\* What the argument below needs of the types.
LEMMA CountersType == TypeOK => Counters
  BY DEF TypeOK, Counters, Calls, Kinds

\* Nothing is out of date at load.
LEMMA FollowInit == Init => FollowInv
  BY DEF Init, FollowInv

\* A call that starts, or returns without a new mapping, had none to tell of.
LEMMA QuietCall ==
    ASSUME FollowInv, Counters, NEW c \in Callers, NEW new \in Calls,
           call' = [call EXCEPT ![c] = new], ~call[c].committed,
           UNCHANGED <<clock, output>>
    PROVE  FollowInv'
<1>1. \A d \in Callers : call[d].committed => call'[d] = call[d]
  BY DEF Counters
<1>2. (Untold => Untold') /\ (UntoldStep => UntoldStep')
  BY <1>1 DEF Untold, UntoldStep
<1> QED
  BY <1>2 DEF FollowInv

LEMMA CommitFollows ==
    ASSUME FollowInv, Counters, NEW c \in Callers, NEW m, NEW time,
           Commit(c, m, time)
    PROVE  FollowInv'
<1>1. /\ call'[c].committed /\ call'[c].kind = call[c].kind
      /\ \A d \in Callers : /\ call[d].committed => call'[d].committed
                            /\ call'[d].kind = call[d].kind
  BY DEF Commit, Counters, Calls
<1>2. Untold' /\ (UntoldStep => UntoldStep')
  BY <1>1 DEF Untold, UntoldStep
<1>3. CASE call[c].kind \in Steps
  <2>1. UntoldStep'
    BY <1>1, <1>3 DEF UntoldStep
  <2> QED
    BY <1>2, <1>3, <2>1 DEF FollowInv, Counters, Commit, Steps
<1>4. CASE call[c].kind \notin Steps
  <2>1. version'.newest = version.newest + 1 /\ version'.step = version.step
    BY <1>4 DEF Commit, Steps
  <2> QED
    BY <1>2, <2>1 DEF FollowInv, Counters, Commit
<1> QED
  BY <1>3, <1>4

\* A caller passes its duty on to a counter.
LEMMA NotifyFollows ==
    ASSUME FollowInv, Counters, NEW c \in Callers, Notify(c) PROVE FollowInv'
<1>1. \A d \in Callers : d # c => call'[d] = call[d]
  BY DEF Notify, Counters
<1>2. pending' = TRUE /\ UNCHANGED <<clock, applied, pc, phase, shown>>
  BY DEF Notify
<1>3. CASE call[c].kind \in Steps
  <2>1. want'.gen = want.gen + 1 /\ want'.freq = want.freq
    BY <1>3 DEF Notify, Counters, Steps
  <2>2. applied.gen # want'.gen /\ applied # want'
    BY <2>1 DEF FollowInv, Counters
  <2> QED
    BY <1>2, <2>1, <2>2 DEF FollowInv, Counters
<1>4. CASE call[c].kind \notin Steps
  <2>1. want'.gen = want.gen /\ want'.freq = want.freq + 1
    BY <1>4 DEF Notify, Counters, Steps
  <2>2. applied # want'
    BY <2>1 DEF FollowInv, Counters
  <2>3. UntoldStep => UntoldStep'
    BY <1>1, <1>4 DEF UntoldStep
  <2> QED
    BY <1>2, <2>1, <2>2, <2>3 DEF FollowInv, Counters
<1> QED
  BY <1>3, <1>4

\* The work takes up what it has been told of, and passes each place only after
\* reading the mapping there.
LEMMA WorkFollows ==
    ASSUME FollowInv, Counters, Work PROVE FollowInv'
<1>0. Untold' = Untold /\ UntoldStep' = UntoldStep /\ UNCHANGED <<want, version>>
  BY DEF Work, WorkBegin, WorkPrepare, WorkPrime, WorkArm, WorkArmIntervals,
         WorkInterval, WorkPhase, Untold, UntoldStep
<1>1. CASE WorkBegin
  <2>1. CASE want.gen # applied.gen
    BY <1>0, <1>1, <2>1 DEF WorkBegin, FollowInv, Counters
  <2>2. CASE want.gen = applied.gen /\ phase = "waiting"
    BY <1>0, <1>1, <2>2 DEF WorkBegin, FollowInv, Counters
  <2>3. CASE want.gen = applied.gen /\ phase # "waiting" /\ want.freq # applied.freq
    BY <1>0, <1>1, <2>3 DEF WorkBegin, FollowInv, Counters
  <2>4. CASE want.gen = applied.gen /\ phase # "waiting" /\ want.freq = applied.freq
    <3>1. applied = want
      BY <2>4 DEF Counters
    <3> QED
      BY <1>0, <1>1, <2>4, <3>1 DEF WorkBegin, FollowInv, Counters
  <2> QED
    BY <2>1, <2>2, <2>3, <2>4
<1>2. CASE WorkPrepare
  BY <1>0, <1>2 DEF WorkPrepare, FollowInv, Counters
<1>3. CASE WorkPrime
  BY <1>0, <1>3 DEF WorkPrime, FollowInv, Counters
<1>4. CASE WorkArm
  BY <1>0, <1>4 DEF WorkArm, FollowInv, Counters
<1>5. CASE WorkArmIntervals
  BY <1>0, <1>5 DEF WorkArmIntervals, FollowInv, Counters
<1>6. CASE WorkInterval
  BY <1>0, <1>6 DEF WorkInterval, FollowInv, Counters
<1>7. CASE WorkPhase
  BY <1>0, <1>7 DEF WorkPhase, FollowInv, Counters
<1> QED
  BY <1>1, <1>2, <1>3, <1>4, <1>5, <1>6, <1>7 DEF Work

\* Every step keeps track of what is out of date.
LEMMA FollowStep == TypeInv /\ FollowInv /\ [Next]_vars => FollowInv'
<1> SUFFICES ASSUME TypeInv, FollowInv, [Next]_vars PROVE FollowInv'
  OBVIOUS
<1>0. TypeOK /\ Counters
  BY CountersType DEF TypeInv
<1>1. ASSUME NEW c \in Callers, Begin(c) PROVE FollowInv'
  <2>1. ASSUME NEW kind \in Kinds, NEW arg \in Seq(Int), Sample(c, kind, arg)
        PROVE  FollowInv'
    <3> DEFINE new == [kind |-> kind, arg |-> arg, art |-> art, committed |-> FALSE]
    <3>1. new \in Calls
      BY <1>0 DEF TypeOK, Calls
    <3>2. call' = [call EXCEPT ![c] = new] /\ ~call[c].committed
          /\ UNCHANGED <<clock, output>>
      BY <2>1 DEF Sample, NoCall
    <3> QED
      BY <1>0, <3>1, <3>2, QuietCall
  <2>2. PICK kind \in Kinds, arg \in Seq(Int) : Sample(c, kind, arg)
    BY <1>1, BeginSamples DEF Begun
  <2> QED
    BY <2>1, <2>2
<1>2. ASSUME NEW c \in Callers, Return(c), ~call[c].committed PROVE FollowInv'
  <2>1. NoCall \in Calls
    BY <1>0 DEF TypeOK, NoCall, Calls, Kinds
  <2> QED
    BY <1>0, <1>2, <2>1, QuietCall DEF Return
<1>3. ASSUME NEW c \in Callers, SetTime(c) PROVE FollowInv'
  BY <1>0, <1>3, CommitFollows DEF SetTime
<1>4. ASSUME NEW c \in Callers, AdjTime(c) PROVE FollowInv'
  BY <1>0, <1>2, <1>4, CommitFollows DEF AdjTime, Sampled
<1>5. ASSUME NEW c \in Callers, NEW hz, NEW ppb, Retune(c, hz, ppb),
             ~call[c].committed
      PROVE  FollowInv'
  BY <1>0, <1>2, <1>5, CommitFollows DEF Retune
<1>6. ASSUME NEW c \in Callers, AdjFine(c) PROVE FollowInv'
  BY <1>5, <1>6 DEF AdjFine, Sampled
<1>7. ASSUME NEW c \in Callers, Refine(c) PROVE FollowInv'
  BY <1>2, <1>5, <1>7 DEF Refine, Sampled
<1>8. ASSUME NEW c \in Callers, Notify(c) PROVE FollowInv'
  BY <1>0, <1>8, NotifyFollows
<1>9. CASE Tick
  BY <1>9 DEF Tick, FollowInv, Untold, UntoldStep
<1>10. CASE Work
  BY <1>0, <1>10, WorkFollows
<1>11. CASE UNCHANGED vars
  BY <1>11 DEF FollowInv, Untold, UntoldStep
<1> QED
  BY <1>1, <1>3, <1>4, <1>6, <1>7, <1>8, <1>9, <1>10, <1>11 DEF Next, Horizon

\* "Eventually consistent, never wrong indefinitely" (the comment before the
\* re-arm in tgpio_output_work): however calls and the work interleave, an
\* output at rest has the grid and the rate of the newest mapping.
THEOREM OutputsFollow == Spec => []OutputsFollowClock
<1>1. TypeInv /\ FollowInv => OutputsFollowClock
  <2> SUFFICES ASSUME TypeInv, FollowInv, pc = "idle", ~pending,
                      \A c \in Callers : ~call[c].committed
               PROVE  /\ shown.grid >= version.step
                      /\ shown.compare >= version.step
                      /\ phase = "running" => shown.rate = version.newest
    BY DEF OutputsFollowClock
  <2>1. Counters
    BY CountersType DEF TypeInv
  <2>2. ~Untold /\ ~UntoldStep /\ applied = want
    BY DEF Untold, UntoldStep, FollowInv
  <2> QED
    BY <2>1, <2>2 DEF FollowInv, Counters
<1> QED
  BY <1>1, TypeInit, TypeStep, FollowInit, FollowStep, PTL DEF Spec

-----------------------------------------------------------------------------
(* The clock shows what it was told *)

\* The square of a second in nanoseconds fits the word, as 10^18 does.
SecondsFit == NsecPerSec * NsecPerSec <= Word

Mappings == [art : Int, ns : Int, hz : Frequencies, ppb : -MaxRate..MaxRate]

\* What a mapping says of a counter value, in units of 1/Unit ns, before
\* tgpio_phc_art_to_ns rounds it; and how far that is from the ideal clock.
Exact(m, a) == m.ns * Unit + (a - m.art) * Rate(m)
Drift == Exact(phc, art) - ideal

\* A reading, and with it a re-basing, is less than three nanoseconds off.
Error == 3 * Unit
DriftInv == Drift <= Error * version.newest /\ -Drift <= Error * version.newest

LEMMA MappingType ==
    ASSUME TypeInv
    PROVE  /\ phc \in Mappings /\ art \in Int /\ ideal \in Int
           /\ \A c \in Callers : call[c].art \in Int
           /\ version.newest \in Nat
<1>1. art \in Int /\ ideal \in Int /\ version.newest \in Nat
  BY DEF TypeInv, TypeOK
<1>2. phc \in Mappings
  BY SignedRange DEF TypeInv, TypeOK, Mappings
<1>3. \A c \in Callers : call[c].art \in Int
  BY DEF TypeInv, TypeOK
<1> QED
  BY <1>1, <1>2, <1>3

LEMMA FrequencyType ==
    \A hz \in Frequencies : hz \in Nat \ {0} /\ Unit % hz = 0
  BY ClockAssumption, MathAssumption, ConstantTypes

LEMMA RateUnits ==
    ASSUME NEW m \in Mappings
    PROVE  LET u == Unit \div m.hz
           IN /\ u \in Nat \ {0} /\ u * m.hz = Unit
              /\ Rate(m) = u * (NsecPerSec + m.ppb) /\ Rate(m) \in Int
<1> DEFINE u == Unit \div m.hz
<1>1. /\ m.hz \in Frequencies /\ m.hz \in Nat \ {0} /\ m.ppb \in Int
      /\ NsecPerSec \in Int /\ Unit \in Nat \ {0}
  <2>1. m.hz \in Frequencies /\ m.ppb \in -MaxRate..MaxRate
    BY DEF Mappings
  <2>2. m.hz \in Nat \ {0}
    BY <2>1, FrequencyType, Zenon
  <2>3. MaxRate \in Nat /\ NsecPerSec \in Int /\ Unit \in Nat \ {0}
    BY ConstantTypes
  <2> QED
    BY <2>1, <2>2, <2>3
<1>2. Unit % m.hz = 0
  BY <1>1, FrequencyType, Zenon
<1>3. u \in Nat /\ Unit = u * m.hz
  <2>1. Unit \in Int /\ Unit >= 0
    BY <1>1
  <2>2. u \in Nat /\ Unit = u * m.hz + (Unit % m.hz)
    BY <1>1, <2>1, Division
  <2> HIDE DEF u
  <2>3. u * m.hz \in Int
    BY <1>1, <2>2, Products
  <2> QED
    BY <1>2, <2>2, <2>3
<1>4. Rate(m) = u * (NsecPerSec + m.ppb)
  BY DEF Rate
<1> HIDE DEF u
<1>5. u # 0
  <2>1. 0 * m.hz = 0
    BY <1>1
  <2> QED
    BY <1>1, <1>3, <2>1
<1>6. Rate(m) \in Int
  BY <1>1, <1>3, <1>4, Products
<1> QED
  BY <1>3, <1>4, <1>5, <1>6 DEF u

LEMMA ReadingError ==
    ASSUME SecondsFit, NEW m \in Mappings, NEW a \in Int, ArtToNs(m, a).ok
    PROVE  LET e == ArtToNs(m, a).val * Unit - Exact(m, a)
           IN e \in Int /\ e < Error /\ e > -Error
<1> DEFINE u == Unit \div m.hz
<1>1. /\ u \in Nat \ {0} /\ u * m.hz = Unit /\ Rate(m) = u * (NsecPerSec + m.ppb)
  BY RateUnits
<1> HIDE DEF u
<1>2. /\ m.art \in Int /\ m.ns \in Int /\ m.ppb \in Int
      /\ 10 * Abs(m.ppb) <= NsecPerSec
      /\ m.hz \in Nat \ {0} /\ m.hz <= NsecPerSec
  <2>1. /\ m.art \in Int /\ m.ns \in Int /\ m.ppb \in -MaxRate..MaxRate
        /\ m.hz \in 1..NsecPerSec
    BY ClockAssumption, MathAssumption DEF Mappings
  <2>2. MaxRate \in Nat /\ NsecPerSec \in Int /\ 10 * MaxRate <= NsecPerSec
    BY ClockAssumption, MathAssumption, ConstantTypes
  <2> QED
    BY <2>1, <2>2 DEF Abs
<1>3. m.hz * NsecPerSec <= Word
  <2> DEFINE p == m.hz * NsecPerSec
             n == NsecPerSec * NsecPerSec
  <2>1. p <= n /\ p \in Int /\ n \in Int /\ n <= Word /\ Word \in Int
    BY <1>2, Grows, Products, WordTypes DEF SecondsFit
  <2> HIDE DEF p, n
  <2> QED
    BY <2>1 DEF p
<1> DEFINE exact == m.ns * (u * m.hz) + (a - m.art) * (u * (NsecPerSec + m.ppb))
           e == ArtToNs(m, a).val * (u * m.hz) - exact
<1>4. e \in Int /\ e < 3 * (u * m.hz) /\ e > -3 * (u * m.hz)
  BY <1>1, <1>2, <1>3, Reading, Zenon DEF SecondsFit
<1>5. e = ArtToNs(m, a).val * Unit - Exact(m, a)
  BY <1>1 DEF Exact
<1> HIDE DEF e
<1> QED
  BY <1>1, <1>4, <1>5, ConstantTypes DEF Error

\* Between two values of the counter, the clock advances at its rate.
LEMMA Advances ==
    ASSUME NEW m \in Mappings, NEW a \in Int, NEW b \in Int
    PROVE  Exact(m, a) \in Int /\ Exact(m, b) = Exact(m, a) + (b - a) * Rate(m)
<1> DEFINE r == Rate(m)
<1>1. r \in Int
  BY RateUnits
<1> HIDE DEF r
<1>2. m.ns \in Int /\ m.art \in Int /\ Unit \in Int
  BY ConstantTypes DEF Mappings
<1>3. (b - m.art) * r = (a - m.art) * r + (b - a) * r
  <2>1. b - m.art = (a - m.art) + (b - a) /\ a - m.art \in Int /\ b - a \in Int
    BY <1>2
  <2> QED
    BY <1>1, <2>1, Distributes
<1>4. /\ m.ns * Unit \in Int /\ (a - m.art) * r \in Int /\ (b - a) * r \in Int
  BY <1>1, <1>2, Products
<1> QED
  BY <1>3, <1>4 DEF Exact, r

\* A handler reads the clock as it was at its sample.  With what the clock has
\* advanced since then, that is the clock now.
LEMMA SampledReading ==
    ASSUME SecondsFit, TypeInv, NEW c \in Callers, ArtToNs(phc, call[c].art).ok
    PROVE  LET ns == ArtToNs(phc, call[c].art).val
               e == (ns * Unit + Age(c) * Rate(phc)) - Exact(phc, art)
           IN e \in Int /\ e < Error /\ e > -Error
<1> DEFINE a == call[c].art
           ns == ArtToNs(phc, a).val
<1>1. phc \in Mappings /\ art \in Int /\ a \in Int
  BY MappingType
<1>2. /\ ns * Unit - Exact(phc, a) \in Int
      /\ ns * Unit - Exact(phc, a) < Error /\ ns * Unit - Exact(phc, a) > -Error
  BY <1>1, ReadingError
<1>3. ns \in Int /\ Unit \in Int /\ Age(c) \in Int /\ Rate(phc) \in Int
  BY <1>1, ReadingInRange, SignedRange, ConstantTypes, RateUnits DEF Age
<1>4. ns * Unit \in Int /\ Age(c) * Rate(phc) \in Int
  BY <1>3, Products
<1>5. Exact(phc, a) \in Int /\ Exact(phc, art) = Exact(phc, a) + Age(c) * Rate(phc)
  BY <1>1, Advances DEF Age
<1> QED
  BY <1>2, <1>4, <1>5

\* What a new mapping leaves of the drift
LEMMA CommitDrift ==
    ASSUME TypeInv, NEW c \in Callers, NEW ns, NEW hz, NEW ppb, NEW time,
           Commit(c, Mapping(call[c].art, ns, hz, ppb), time)
    PROVE  /\ Drift' = (ns * Unit
                          + Age(c) * Rate(Mapping(call[c].art, ns, hz, ppb))) - time
           /\ version'.newest = version.newest + 1
<1> DEFINE m == Mapping(call[c].art, ns, hz, ppb)
<1>1. /\ phc' = m /\ ideal' = time /\ art' = art
      /\ version'.newest = version.newest + 1
  BY DEF Commit
<1>2. m.ns = ns /\ m.art = call[c].art
  BY DEF Mapping
<1> HIDE DEF m
<1>3. Drift' = (phc'.ns * Unit + (art' - phc'.art) * Rate(phc')) - ideal'
  BY DEF Drift, Exact, Rate
<1>4. Drift' = (ns * Unit + (art - call[c].art) * Rate(m)) - time
  BY <1>1, <1>2, <1>3, Zenon
<1> QED
  BY <1>1, <1>4, Zenon DEF Age, m

\* A new mapping adds the error of the reading it was made from.
LEMMA Rebased ==
    ASSUME TypeInv, DriftInv, Drift' \in Int, version'.newest = version.newest + 1,
           Drift' - Drift < Error, Drift' - Drift > -Error
    PROVE  DriftInv'
<1> DEFINE n == version.newest
           bound == Error * n
<1>1. n \in Nat /\ Error \in Nat
  BY MappingType, ConstantTypes DEF Error
<1>2. bound \in Nat /\ Error * (n + 1) = bound + Error
  BY <1>1, Products
<1>3. Drift \in Int
  <2>1. Exact(phc, art) \in Int /\ ideal \in Int
    BY MappingType, Advances
  <2> QED
    BY <2>1 DEF Drift
<1>4. Drift <= bound /\ -Drift <= bound
  BY DEF DriftInv
<1>5. DriftInv' <=> Drift' <= Error * (n + 1) /\ -Drift' <= Error * (n + 1)
  BY DEF DriftInv, Error
<1>6. Drift' <= Error * (n + 1) /\ -Drift' <= Error * (n + 1)
  <2> DEFINE before == Drift
             after == Drift'
             last == Error * (n + 1)
  <2>1. /\ before \in Int /\ after \in Int /\ bound \in Nat /\ Error \in Nat
        /\ before <= bound /\ -before <= bound /\ last = bound + Error
        /\ after - before < Error /\ after - before > -Error
    BY <1>1, <1>2, <1>3, <1>4
  <2> HIDE DEF before, after, last, bound
  <2>2. after <= last /\ -after <= last
    BY <2>1
  <2> QED
    BY <2>2 DEF after, last
<1> QED
  BY <1>5, <1>6, Zenon

\* Every step keeps the drift in its bounds.
LEMMA DriftStep ==
    ASSUME SecondsFit, TypeInv, DriftInv, [Next]_vars PROVE DriftInv'
<1>0. /\ phc \in Mappings /\ art \in Int /\ ideal \in Int /\ version.newest \in Nat
      /\ Unit \in Nat \ {0} /\ Rate(phc) \in Int /\ Exact(phc, art) \in Int
      /\ \A c \in Callers : Age(c) * Rate(phc) \in Int
  <2>1. /\ phc \in Mappings /\ art \in Int /\ ideal \in Int /\ version.newest \in Nat
        /\ \A c \in Callers : Age(c) \in Int
    BY MappingType DEF Age
  <2>2. Rate(phc) \in Int /\ Exact(phc, art) \in Int
    BY <2>1, RateUnits, Advances
  <2> QED
    BY <2>1, <2>2, ConstantTypes, Products
<1>1. ASSUME UNCHANGED clock PROVE DriftInv'
  BY <1>1 DEF DriftInv, Drift, Exact, Rate, Error
<1>2. ASSUME NEW c \in Callers, NEW ns \in Int, NEW hz, NEW ppb, NEW time \in Int,
             Commit(c, Mapping(call[c].art, ns, hz, ppb), time),
             ArtToNs(phc, call[c].art).ok,
             LET now == ArtToNs(phc, call[c].art).val
                 new == Mapping(call[c].art, ns, hz, ppb)
             IN ns * Unit + Age(c) * Rate(new)
                  = (time - ideal) + (now * Unit + Age(c) * Rate(phc))
      PROVE  DriftInv'
  <2> DEFINE now == ArtToNs(phc, call[c].art).val
             reading == now * Unit + Age(c) * Rate(phc)
             clocked == Exact(phc, art)
             error == reading - clocked
  <2>1. error \in Int /\ error < Error /\ error > -Error
    BY <1>2, SampledReading
  <2>2. reading \in Int
    <3>1. now \in Int
      BY <1>2, ReadingInRange, SignedRange
    <3> HIDE DEF now
    <3> QED
      BY <1>0, <3>1, Products
  <2>3. Drift' = ((time - ideal) + reading) - time
        /\ version'.newest = version.newest + 1
    BY <1>2, CommitDrift, Zenon
  <2>4. Drift = clocked - ideal /\ clocked \in Int
    BY <1>0 DEF Drift
  <2> HIDE DEF reading, clocked
  <2>5. Drift' \in Int /\ Drift' - Drift = error
    BY <1>0, <1>2, <2>2, <2>3, <2>4
  <2> QED
    BY <2>1, <2>3, <2>5, Rebased
<1>3. ASSUME NEW c \in Callers, SetTime(c) PROVE DriftInv'
  <2> DEFINE ns == call[c].arg[1]
             new == Mapping(call[c].art, ns, phc.hz, phc.ppb)
             time == ns * Unit + Age(c) * Rate(phc)
  <2>1. ns \in Int
    BY <1>3, ConstantTypes DEF SetTime, Sampled, TypeInv, Checked
  <2>2. Rate(new) = Rate(phc)
    BY DEF Rate, Mapping
  <2>3. Commit(c, new, time)
    BY <1>3 DEF SetTime
  <2> HIDE DEF ns
  <2>4. time \in Int
    BY <1>0, <2>1, Products
  <2>5. Drift' = time - time /\ version'.newest = version.newest + 1
    BY <2>2, <2>3, CommitDrift, Zenon
  <2> HIDE DEF time
  <2>6. Drift' = 0
    BY <2>4, <2>5
  <2>7. Error * (version.newest + 1) \in Nat
    BY <1>0, ConstantTypes, Products DEF Error
  <2>8. DriftInv' <=> Drift' <= Error * (version.newest + 1)
                        /\ -Drift' <= Error * (version.newest + 1)
    BY <2>5 DEF DriftInv, Error
  <2>9. 0 <= Error * (version.newest + 1) /\ -0 <= Error * (version.newest + 1)
    BY <2>7
  <2> QED
    BY <2>6, <2>8, <2>9, Zenon
<1>4. ASSUME NEW c \in Callers, AdjTime(c), ~Return(c) PROVE DriftInv'
  <2> DEFINE now == ArtToNs(phc, call[c].art)
             delta == call[c].arg[1]
             adjusted == Add(now.val, delta)
             time == ideal + delta * Unit
             new == Mapping(call[c].art, adjusted.val, phc.hz, phc.ppb)
             later == Age(c) * Rate(phc)
  <2>1. now.ok /\ adjusted.ok /\ Commit(c, new, time)
    BY <1>4 DEF AdjTime
  <2>2. delta \in Int
    BY <1>4 DEF AdjTime, Sampled, TypeInv, Checked
  <2>3. now.val \in Int
    BY <2>1, ReadingInRange, SignedRange
  <2>4. Rate(new) = Rate(phc)
    BY DEF Rate, Mapping
  <2>5. later \in Int
    BY <1>0
  <2> HIDE DEF delta
  <2>6. adjusted.val = now.val + delta
    BY <2>1, Added
  <2> HIDE DEF now, adjusted
  <2>7. time \in Int /\ adjusted.val \in Int
    BY <1>0, <2>2, <2>3, <2>6, Products
  <2>8. adjusted.val * Unit = now.val * Unit + delta * Unit
        /\ now.val * Unit \in Int /\ delta * Unit \in Int
    BY <1>0, <2>2, <2>3, <2>6, Distributes, Products
  <2> HIDE DEF later
  <2>9. adjusted.val * Unit + later = (time - ideal) + (now.val * Unit + later)
    BY <1>0, <2>5, <2>8
  <2> QED
    BY <1>2, <2>1, <2>4, <2>7, <2>9, Zenon DEF now, later
<1>5. ASSUME NEW c \in Callers, NEW hz \in Frequencies, NEW ppb \in -MaxRate..MaxRate,
             Retune(c, hz, ppb), ~Return(c)
      PROVE  DriftInv'
  <2> DEFINE now == ArtToNs(phc, call[c].art)
             new == Mapping(call[c].art, now.val, hz, ppb)
             later == Age(c) * Rate(phc)
             anew == Age(c) * Rate(new)
             time == ideal + Age(c) * (Rate(new) - Rate(phc))
  <2>1. now.ok /\ Commit(c, new, time)
    BY <1>5 DEF Retune
  <2>2. now.val \in Int
    BY <2>1, ReadingInRange, SignedRange
  <2>3. Rate(new) \in Int /\ Age(c) \in Int
    <3>1. new.hz = hz /\ new.ppb = ppb
      BY DEF Mapping
    <3> HIDE DEF new
    <3> QED
      BY <3>1, RateType, MappingType DEF Age
  <2> HIDE DEF now, new
  <2>4. Age(c) * (Rate(new) - Rate(phc)) = anew - later /\ anew \in Int /\ later \in Int
    BY <1>0, <2>3, Distributes, Products
  <2> HIDE DEF anew, later
  <2>5. time = ideal + (anew - later) /\ now.val * Unit \in Int
    BY <1>0, <2>2, <2>4, Products
  <2> HIDE DEF time
  <2>6. time \in Int
        /\ now.val * Unit + anew = (time - ideal) + (now.val * Unit + later)
    BY <1>0, <2>4, <2>5
  <2> QED
    BY <1>2, <2>1, <2>2, <2>6, Zenon DEF now, new, later, anew
<1>6. ASSUME NEW c \in Callers, AdjFine(c) PROVE DriftInv'
  <2>1. Retune(c, phc.hz, call[c].arg[1])
    BY <1>6 DEF AdjFine
  <2>2. phc.hz \in Frequencies /\ call[c].arg[1] \in -MaxRate..MaxRate
    BY <1>6, PhcType DEF AdjFine, Sampled, TypeInv, Checked
  <2> QED
    BY <1>1, <1>5, <2>1, <2>2 DEF Return
<1>7. ASSUME NEW c \in Callers, Refine(c) PROVE DriftInv'
  <2>1. call[c].arg[1] \in Frequencies /\ call[c].arg[2] \in -MaxRate..MaxRate
    BY <1>7 DEF Refine, Sampled, TypeInv, Checked
  <2>2. Return(c) \/ Retune(c, call[c].arg[1], call[c].arg[2])
    BY <1>7 DEF Refine
  <2> QED
    BY <1>1, <1>5, <2>1, <2>2 DEF Return
<1>8. CASE Tick
  <2> DEFINE clocked == Exact(phc, art)
  <2>1. clocked \in Int /\ Exact(phc, art + 1) = clocked + 1 * Rate(phc)
    <3>1. art + 1 \in Int /\ (art + 1) - art = 1
      BY <1>0
    <3> QED
      BY <1>0, <3>1, Advances
  <2>2. Drift' = Exact(phc, art + 1) - (ideal + Rate(phc))
        /\ version'.newest = version.newest
    BY <1>8 DEF Tick, Drift, Exact, Rate
  <2> HIDE DEF clocked
  <2>3. Drift' = clocked - ideal
    BY <1>0, <2>1, <2>2
  <2>4. Drift' = Drift
    BY <2>3 DEF clocked, Drift
  <2> QED
    BY <2>2, <2>4 DEF DriftInv, Error
<1> QED
  <2>1. ASSUME NEW c \in Callers, Begin(c) \/ Notify(c) PROVE UNCHANGED clock
    BY <2>1 DEF Begin, Sample, Notify
  <2>2. Work => UNCHANGED clock
    BY DEF Work, WorkBegin, WorkPrepare, WorkPrime, WorkArm, WorkArmIntervals,
           WorkInterval, WorkPhase
  <2>3. \A c \in Callers : Return(c) => UNCHANGED clock
    BY DEF Return
  <2> QED
    BY <1>1, <1>3, <1>4, <1>6, <1>7, <1>8, <2>1, <2>2, <2>3 DEF Next, Horizon

\* A reading adds its own error to the drift.
LEMMA ReadsIdeal == ASSUME SecondsFit, TypeInv, DriftInv PROVE TracksIdeal
<1> SUFFICES ASSUME ArtToNs(phc, art).ok
             PROVE  LET shows == ArtToNs(phc, art).val * Unit
                    IN Abs(shows - ideal) < Error * (version.newest + 1)
  BY DEF TracksIdeal, Error
<1> DEFINE n == version.newest
           shows == ArtToNs(phc, art).val * Unit
           clocked == Exact(phc, art)
           error == shows - clocked
           bound == Error * n
           last == Error * (n + 1)
<1>1. /\ error \in Int /\ error < Error /\ error > -Error
  BY MappingType, ReadingError
<1>2. n \in Nat /\ Error \in Nat /\ ideal \in Int /\ clocked \in Int
  BY MappingType, Advances, ConstantTypes DEF Error
<1>3. shows \in Int
  BY ReadingInRange, SignedRange, ConstantTypes, Products
<1>4. bound \in Nat /\ last = bound + Error
  BY <1>2, Products
<1>5. clocked - ideal <= bound /\ -(clocked - ideal) <= bound
  BY DEF DriftInv, Drift
<1> HIDE DEF clocked, bound, last, shows
<1>6. shows - ideal < last /\ -(shows - ideal) < last /\ shows - ideal \in Int
  BY <1>1, <1>2, <1>3, <1>4, <1>5
<1>7. Abs(shows - ideal) < last
  BY <1>6 DEF Abs
<1> QED
  BY <1>7 DEF shows, last

\* The clock shows the ideal time (tgpio_ptp_settime64, tgpio_ptp_adjtime,
\* tgpio_ptp_adjfine and the refinement re-base it by what it reads at their
\* samples): no step is lost or made twice, and no change of rate moves it, but
\* for three nanoseconds of rounding in each re-basing and in the reading.
THEOREM ClockTracks == ASSUME SecondsFit PROVE Spec => []TracksIdeal
<1>1. Init => DriftInv
  BY ConstantTypes DEF Init, DriftInv, Drift, Exact, Mapping, Rate, Error
<1>2. TypeInv /\ DriftInv => TracksIdeal
  BY ReadsIdeal
<1>3. TypeInv /\ DriftInv /\ [Next]_vars => DriftInv'
  BY DriftStep
<1> QED
  BY <1>1, <1>2, <1>3, TypeInit, TypeStep, PTL DEF Spec
=============================================================================
