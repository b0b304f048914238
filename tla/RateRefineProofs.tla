-------------------------- MODULE RateRefineProofs --------------------------
(***************************************************************************)
(* Proofs about RateRefine, for any rates, steps, rings and brackets: no   *)
(* published rate spans a step of the clock or a restart of the counter, a *)
(* rate survives every step, and none is missing for long; and the average *)
(* of the calibration keeps to the clock's own error, if steps are large.  *)
(***************************************************************************)
EXTENDS RateRefine, TLAPS

USE DEF clock, window, vars

Samples == [art : Nat, real : Int, seq : Nat]
Slots == 0..(Ring - 1)

Types ==
    /\ mode \in {"realtime", "art"} /\ paired \in BOOLEAN
    /\ ticks \in 0..MaxTime /\ speed \in Nat
    /\ art \in Nat /\ real \in Int /\ seq \in Nat
    /\ pc \in {"idle", "again", "bracket", "done"}
    /\ before \in Samples /\ best \in Samples
    /\ ring \in [Slots -> Samples] /\ head \in Slots /\ count \in 0..Ring

\* Was the sample taken before the counter restarted?
Old(s) == s.art > MaxTime * Cycles

\* Were two samples taken between the same steps and restarts?
Peers(s, t) == s.seq = t.seq /\ (Old(s) <=> Old(t))

\* What is constant while the clock runs at its speed
Offset(s) == s.real * Cycles - speed * s.art

\* The samples that the work holds or could take
Held == {ring[i] : i \in {j \in Slots : j < count}}
Known == {Here} \cup Held \cup {s \in {best} : s # NoSample}

\* Before the counter has restarted it is high, and so is all that is known.
Epochs ==
    /\ IF Old(Here) THEN art >= (MaxTime + 1) * Cycles ELSE art <= ticks * Cycles
    /\ \A s \in Known : s.seq <= seq /\ (Old(Here) => Old(s))
    /\ best # NoSample => (Old(best) <=> Old(Here))

\* Samples that no step or restart separates lie on one line,
Lined == \A s, t \in Known : Peers(s, t) => Offset(s) = Offset(t)

\* those of the ring are such, in the slots up to its head,
Ringed ==
    /\ \A s, t \in Held : Peers(s, t)
    /\ count < Ring => head = count

\* and a bracket that nothing has spoilt is where the clock is.
Bracketed ==
    /\ pc = "idle" => best = NoSample
    /\ pc = "bracket" => before.seq <= seq /\ (before.seq = seq => before = Here)

RateInv == IF mode = "realtime"
             THEN Epochs /\ Lined /\ Ringed /\ Bracketed /\ RateSpansNoStep
             ELSE rate = NoRate

\* What the assumptions say of the constants.
LEMMA ConstantTypes ==
    /\ Ring \in Nat \ {0} /\ Cycles \in Nat \ {0} /\ MaxTime \in Nat
    /\ Speeds \subseteq Nat /\ Steps \subseteq Int
  BY RingAssumption, ClockAssumption

\* Products and sums.
LEMMA Products ==
    /\ \A x, y \in Int : x * y \in Int
    /\ \A x, y, z \in Int : /\ (x + y) * z = x * z + y * z
                            /\ (x - y) * z = x * z - y * z
                            /\ z * (x + y) = z * x + z * y
                            /\ z * (x - y) = z * x - z * y
    /\ \A x, y, z \in Nat : x <= y => x * z <= y * z
  OBVIOUS

\* The clock is a sample.
LEMMA HereType == Types => Here \in Samples
  BY DEF Types, Here, Samples

\* Everything known is a sample.
LEMMA KnownType == Types => Known \subseteq Samples
  BY HereType DEF Types, Known, Held

\* The offset of a sample is a number.
LEMMA OffsetType == Types => \A s \in Samples : Offset(s) \in Int
  BY ConstantTypes, Products DEF Types, Samples, Offset

\* A later sample that no step separates from the oldest is its peer, and the
\* window between them has the clock's own rate.
LEMMA WindowRate ==
    ASSUME Types, NEW s \in Samples, NEW t \in Samples,
           Offset(s) = Offset(t)
    PROVE  (s.real - t.real) * Cycles = speed * (s.art - t.art)
<1>1. /\ s.real \in Int /\ t.real \in Int /\ s.art \in Nat /\ t.art \in Nat
      /\ Cycles \in Nat /\ speed \in Nat
  BY ConstantTypes DEF Types, Samples
<1>2. /\ (s.real - t.real) * Cycles = s.real * Cycles - t.real * Cycles
      /\ speed * (s.art - t.art) = speed * s.art - speed * t.art
  BY <1>1, Products
<1>3. /\ s.real * Cycles \in Int /\ t.real * Cycles \in Int
      /\ speed * s.art \in Int /\ speed * t.art \in Int
  BY <1>1, Products
<1> QED
  BY <1>2, <1>3 DEF Offset

\* The oldest sample is one of those held, in a slot of the ring.
LEMMA OldestHeld == Types /\ count > 0 => Oldest \in Held
<1> SUFFICES ASSUME Types, count > 0 PROVE Oldest \in Held
  OBVIOUS
<1>1. CASE count < Ring
  <2>1. 0 \in Slots /\ 0 < count /\ Oldest = ring[0]
    BY <1>1, ConstantTypes DEF Types, Slots, Oldest
  <2> QED
    BY <2>1 DEF Held
<1>2. CASE ~(count < Ring)
  <2>1. head \in Slots /\ head < count /\ Oldest = ring[head]
    BY <1>2, ConstantTypes DEF Types, Slots, Oldest
  <2> QED
    BY <2>1 DEF Held
<1> QED
  BY <1>1, <1>2

-----------------------------------------------------------------------------
(* The ring *)

\* A remainder is a slot, and that of a slot is itself.
LEMMA Remainders ==
    \A n \in Nat : n % Ring \in Slots /\ (n < Ring => n % Ring = n)
  BY ConstantTypes DEF Slots

\* A sample that is stored alone is the only one held.
LEMMA AloneHeld ==
    ASSUME Types, NEW s \in Samples, StoreAlone(s)
    PROVE  /\ ring' \in [Slots -> Samples] /\ head' \in Slots /\ count' \in 0..Ring
           /\ count' < Ring => head' = count'
           /\ Held' = {s}
<1>1. /\ ring' = [ring EXCEPT ![0] = s] /\ head' = 1 % Ring /\ count' = 1
      /\ ring \in [Slots -> Samples] /\ 0 \in Slots
  BY ConstantTypes DEF Types, StoreAlone, Slots
<1>2. ring' \in [Slots -> Samples] /\ ring'[0] = s
  BY <1>1
<1>3. head' \in Slots /\ (1 < Ring => head' = 1) /\ count' \in 0..Ring
  BY <1>1, Remainders, ConstantTypes
<1>4. \A j \in Slots : j < count' <=> j = 0
  BY <1>1 DEF Slots
<1>5. Held' = {s}
  BY <1>1, <1>2, <1>4 DEF Held
<1> QED
  BY <1>1, <1>2, <1>3, <1>5

\* A sample that is stored joins those held, one of which may go.
LEMMA StoreHeld ==
    ASSUME Types, NEW s \in Samples, count < Ring => head = count, Store(s)
    PROVE  /\ ring' \in [Slots -> Samples] /\ head' \in Slots /\ count' \in 0..Ring
           /\ count' < Ring => head' = count'
           /\ Held' \subseteq Held \cup {s}
<1>1. /\ ring' = [ring EXCEPT ![head] = s] /\ head' = (head + 1) % Ring
      /\ count' = IF count < Ring THEN count + 1 ELSE count
      /\ ring \in [Slots -> Samples] /\ head \in Slots /\ count \in 0..Ring
      /\ head + 1 \in Nat
  BY DEF Types, Store, Slots
<1>2. head' \in Slots /\ (head + 1 < Ring => head' = head + 1)
  BY <1>1, Remainders
<1>3. count' \in 0..Ring /\ (count' < Ring => head' = count')
  BY <1>1, <1>2, ConstantTypes
<1>4. ASSUME NEW j \in Slots, j < count' PROVE ring'[j] \in Held \cup {s}
  <2>1. CASE j = head
    BY <1>1, <2>1
  <2>2. CASE j # head
    <3>1. ring'[j] = ring[j] /\ j < count
      BY <1>1, <1>4, <2>2 DEF Slots
    <3> QED
      BY <3>1 DEF Held
  <2> QED
    BY <2>1, <2>2
<1>5. Held' \subseteq Held \cup {s}
  BY <1>4 DEF Held
<1> QED
  BY <1>1, <1>2, <1>3, <1>5

-----------------------------------------------------------------------------
(* The steps *)

\* The types of C's fields
LEMMA TypesStep == Types /\ [Next]_vars => Types'
<1> SUFFICES ASSUME Types, [Next]_vars PROVE Types'
  OBVIOUS
<1>0. NoSample \in Samples /\ Here \in Samples
  BY HereType DEF NoSample, Samples
<1>1. CASE Tick
  BY <1>1, ConstantTypes DEF Tick, Types
<1>2. CASE Step
  BY <1>2, ConstantTypes DEF Step, Types
<1>3. CASE Restart
  BY <1>3 DEF Restart, Types
<1>4. ASSUME NEW s \in Samples, UseRealtime(s) \/ UseCalibration(s)
      PROVE  ring' \in [Slots -> Samples] /\ head' \in Slots /\ count' \in 0..Ring
  <2>1. CASE StoreAlone(s)
    BY <2>1, AloneHeld
  <2>2. CASE ring' = [ring EXCEPT ![head] = s] /\ head' = (head + 1) % Ring
             /\ count' \in {0, IF count < Ring THEN count + 1 ELSE count}
    <3>1. head + 1 \in Nat /\ head \in Slots /\ count' \in 0..Ring
      BY <2>2, ConstantTypes DEF Types, Slots
    <3> QED
      BY <2>2, <3>1, Remainders DEF Types
  <2>3. CASE UNCHANGED <<ring, head>> /\ count' = 0
    BY <2>3, ConstantTypes DEF Types
  <2> QED
    BY <1>4, <2>1, <2>2, <2>3
    DEF UseRealtime, UseCalibration, RestartWindow, DiscardRate, Publish, Store,
        CalFirst, CalReversed, CalMeasure
<1>5. ASSUME NEW s \in Samples, Use(s), UNCHANGED <<mode, paired, clock>>
      PROVE  Types'
  BY <1>0, <1>4, <1>5 DEF Use, Finish, Types
<1>6. CASE SampleAtOnce
  BY <1>0, <1>5, <1>6 DEF SampleAtOnce
<1>7. CASE SampleBegin
  BY <1>0, <1>7 DEF SampleBegin, Types
<1>8. CASE BracketSpoilt
  BY <1>0, <1>8 DEF BracketSpoilt, TryAgain, Types
<1>9. Bracket \in Samples
  BY DEF Bracket, Divide, Types, Samples
<1>10. CASE BracketTight
  BY <1>0, <1>9, <1>10 DEF BracketTight, Types
<1>11. CASE BracketLoose
  BY <1>0, <1>9, <1>11 DEF BracketLoose, TryAgain, Types
<1>12. CASE SampleDone
  BY <1>5, <1>12 DEF SampleDone, Types
<1>13. CASE SampleFailed
  BY <1>0, <1>13 DEF SampleFailed, Finish, Types
<1>14. CASE UNCHANGED vars
  BY <1>14 DEF Types
<1> QED
  BY <1>1, <1>2, <1>3, <1>6, <1>7, <1>8, <1>10, <1>11, <1>12, <1>13, <1>14
  DEF Next, Sample, Horizon

\* What is known stays consistent as long as only known samples are held.
LEMMA KnownKept ==
    ASSUME Epochs, Lined, Known' \subseteq Known, Here' = Here,
           UNCHANGED <<art, seq, ticks, speed>>,
           best' # NoSample => (Old(best') <=> Old(Here))
    PROVE  Epochs' /\ Lined'
<1> USE DEF Old, Peers, Offset
<1>1. \A s, t \in Known' : (Peers(s, t) => Offset(s) = Offset(t))'
  BY DEF Lined
<1>2. Epochs'
  BY DEF Epochs
<1> QED
  BY <1>1, <1>2 DEF Lined

\* The work with a sample: a window that is published has no step in it.
LEMMA UseStep ==
    ASSUME Types, RateInv, mode = "realtime",
           NEW s \in Known, Old(s) <=> Old(Here),
           Use(s), UNCHANGED <<mode, paired, clock>>
    PROVE  RateInv'
<1>a. Epochs /\ Lined /\ Ringed /\ Bracketed /\ RateSpansNoStep /\ s \in Samples
  BY KnownType DEF RateInv
<1>1. /\ UseRealtime(s) /\ pc' = "idle" /\ best' = NoSample /\ Here' = Here
  BY DEF Use, Finish, Here
<1>2. Bracketed'
  BY <1>1 DEF Bracketed
<1>3. ASSUME Held' \subseteq Held \cup {s} PROVE Epochs' /\ Lined'
  <2>1. Known' \subseteq Known
    BY <1>1, <1>3 DEF Known
  <2> QED
    BY <1>a, <1>1, <2>1, KnownKept
<1>4. CASE StoreAlone(s) /\ rate' \in {rate, NoRate}
  <2>1. Held' = {s} /\ (count' < Ring => head' = count')
    BY <1>a, <1>4, AloneHeld
  <2>2. Ringed'
    BY <2>1 DEF Ringed, Peers
  <2>3. RateSpansNoStep'
    BY <1>a, <1>4 DEF RateSpansNoStep
  <2> QED
    BY <1>2, <1>3, <2>1, <2>2, <2>3 DEF RateInv
<1>5. CASE Publish(s)
  <2>1. Held' \subseteq Held \cup {s} /\ (count' < Ring => head' = count')
    BY <1>a, <1>5, StoreHeld DEF Publish, Ringed
  <2>2. CASE count > 0
    <3>1. Oldest \in Held /\ Oldest \in Known /\ Oldest \in Samples
      BY <2>2, OldestHeld, KnownType DEF Known
    <3>2. s.seq = Oldest.seq /\ s.art > Oldest.art
      BY <1>5, <2>2 DEF Publish, Stepped, Later
    <3>3. Old(Oldest) <=> Old(s)
      <4>1. Old(Here) => Old(Oldest)
        BY <1>a, <3>1 DEF Epochs
      <4>2. Old(Oldest) => Old(s)
        <5>1. MaxTime * Cycles \in Int /\ s.art \in Nat /\ Oldest.art \in Nat
          BY <1>a, <3>1, ConstantTypes, Products DEF Samples
        <5> QED
          BY <3>2, <5>1 DEF Old
      <4> QED
        BY <4>1, <4>2
    <3>4. Peers(s, Oldest)
      BY <3>2, <3>3 DEF Peers
    <3>5. \A t \in Held : Peers(s, t) /\ Peers(t, s)
      BY <1>a, <3>1, <3>4 DEF Ringed, Peers
    <3>6. \A t, u \in Held \cup {s} : Peers(t, u)
      BY <1>a, <3>5 DEF Ringed, Peers
    <3>7. Ringed'
      BY <2>1, <3>6 DEF Ringed, Peers, Old
    <3>8. Offset(s) = Offset(Oldest)
      BY <1>a, <3>1, <3>4 DEF Lined
    <3>9. (s.real - Oldest.real) * Cycles = speed * (s.art - Oldest.art)
      BY <1>a, <3>1, <3>8, WindowRate
    <3>10. rate' = rate \/ rate' = Window(s)
      BY <1>5 DEF Publish
    <3>11. RateSpansNoStep'
      BY <1>a, <3>9, <3>10 DEF RateSpansNoStep, Window
    <3> QED
      BY <1>2, <1>3, <2>1, <3>7, <3>11 DEF RateInv
  <2>3. CASE ~(count > 0)
    <3>1. Held = {}
      BY <2>3 DEF Held, Slots, Types
    <3>2. Ringed'
      BY <2>1, <3>1 DEF Ringed, Peers
    <3>3. rate' = rate
      BY <1>5, <2>3 DEF Publish
    <3>4. RateSpansNoStep'
      BY <1>a, <3>3 DEF RateSpansNoStep
    <3> QED
      BY <1>2, <1>3, <2>1, <3>2, <3>4 DEF RateInv
  <2> QED
    BY <2>2, <2>3
<1> QED
  BY <1>1, <1>4, <1>5 DEF UseRealtime, RestartWindow, DiscardRate

\* Time alone does not bring the counter to where it was before a restart.
LEMMA TickOld ==
    ASSUME Types, Epochs, Tick PROVE Old(Here') <=> Old(Here)
<1>1. /\ art' = art + Cycles
      /\ ticks + 1 \in Nat /\ ticks + 1 <= MaxTime /\ ticks \in Nat
      /\ art \in Nat /\ Cycles \in Nat /\ Cycles > 0 /\ MaxTime \in Nat
  BY ConstantTypes DEF Tick, Types
<1>2. /\ (ticks + 1) * Cycles <= MaxTime * Cycles
      /\ (ticks + 1) * Cycles = ticks * Cycles + 1 * Cycles
      /\ (MaxTime + 1) * Cycles = MaxTime * Cycles + 1 * Cycles
      /\ ticks * Cycles \in Int /\ MaxTime * Cycles \in Int /\ 1 * Cycles = Cycles
  BY <1>1, Products
<1>3. Here.art = art /\ Here'.art = art + Cycles
  BY <1>1 DEF Here
<1> QED
  BY <1>1, <1>2, <1>3 DEF Epochs, Old

\* All that is held when the counter restarts is from before.
LEMMA RestartOld ==
    ASSUME Types, Epochs, Restart
    PROVE  ~Old(Here') /\ Old(Here) /\ \A s \in Held : Old(s)
<1>1. art' = 0 /\ art > ticks * Cycles /\ art \in Nat
  BY DEF Restart, Types
<1>2. ticks * Cycles \in Nat /\ MaxTime * Cycles \in Nat
  <2>1. \A x, y \in Nat : x * y \in Nat
    OBVIOUS
  <2> QED
    BY <2>1, ConstantTypes DEF Types
<1>3. Old(Here)
  BY <1>1, <1>2 DEF Epochs
<1>4. ~Old(Here')
  BY <1>1, <1>2 DEF Old, Here
<1> QED
  BY <1>3, <1>4 DEF Epochs, Known

\* While time passes, what is known stays in its epoch;
LEMMA TickEpochs ==
    ASSUME Types, Epochs, Bracketed, Tick PROVE Epochs' /\ Bracketed'
<1>1. /\ art' = art + Cycles /\ ticks' = ticks + 1
      /\ ticks + 1 \in Nat /\ ticks \in Nat
      /\ pc = "idle" /\ best = NoSample
      /\ UNCHANGED <<seq, pc, before, best, ring, head, count>>
  BY ConstantTypes DEF Tick, Types, Bracketed
<1>2. art \in Nat /\ Cycles \in Nat /\ Cycles > 0 /\ MaxTime \in Nat
  BY ConstantTypes DEF Types
<1>3. Known = {Here} \cup Held /\ Known' = {Here'} \cup Held
  BY <1>1 DEF Held, Known
<1>4. Old(Here') <=> Old(Here)
  BY TickOld
<1>5. IF Old(Here') THEN art' >= (MaxTime + 1) * Cycles ELSE art' <= ticks' * Cycles
  <2>1. /\ (ticks + 1) * Cycles = ticks * Cycles + 1 * Cycles
        /\ ticks * Cycles \in Int /\ (MaxTime + 1) * Cycles \in Int
        /\ 1 * Cycles = Cycles
    BY <1>1, <1>2, Products
  <2> QED
    BY <1>1, <1>2, <1>4, <2>1 DEF Epochs
<1>6. Here'.seq = Here.seq /\ Here.seq = seq
  BY <1>1 DEF Here
<1>7. Epochs'
  BY <1>1, <1>3, <1>4, <1>5, <1>6 DEF Epochs, Old
<1> QED
  BY <1>1, <1>7 DEF Bracketed

\* Time moves the clock along its line.
LEMMA TickStep ==
    ASSUME Types, RateInv, mode = "realtime", Tick PROVE RateInv'
<1>a. Epochs /\ Lined /\ Ringed /\ Bracketed /\ RateSpansNoStep
  BY DEF RateInv
<1>1. /\ art' = art + Cycles /\ real' = real + speed /\ ticks' = ticks + 1
      /\ ticks + 1 \in Nat /\ ticks + 1 <= MaxTime /\ ticks \in Nat
      /\ pc = "idle" /\ best = NoSample
      /\ UNCHANGED <<mode, speed, seq, pc, before, best, ring, head, count, rate>>
  BY <1>a, ConstantTypes DEF Tick, Types, Bracketed
<1>2. /\ art \in Nat /\ real \in Int /\ speed \in Nat /\ Cycles \in Nat
      /\ Cycles > 0 /\ MaxTime \in Nat
  BY ConstantTypes DEF Types
<1>3. Held' = Held /\ Known = {Here} \cup Held /\ Known' = {Here'} \cup Held
  BY <1>1 DEF Held, Known
<1>4. Old(Here') <=> Old(Here)
  BY <1>a, TickOld
<1>5. Here'.seq = Here.seq /\ Here.seq = seq
  BY <1>1 DEF Here
<1>6. Epochs' /\ Bracketed'
  BY <1>a, TickEpochs
<1>7. Offset(Here') = Offset(Here)
  <2>1. /\ Here.real = real /\ Here.art = art
        /\ Here'.real = real + speed /\ Here'.art = art + Cycles
    BY <1>1 DEF Here
  <2>2. /\ (real + speed) * Cycles = real * Cycles + speed * Cycles
        /\ speed * (art + Cycles) = speed * art + speed * Cycles
        /\ real * Cycles \in Int /\ speed * Cycles \in Int /\ speed * art \in Int
    BY <1>2, Products
  <2> QED
    BY <2>1, <2>2 DEF Offset
<1>8. \A s, t \in Known' : Peers(s, t) => Offset(s) = Offset(t)
  BY <1>a, <1>3, <1>4, <1>5, <1>7 DEF Lined, Peers
<1>9. Lined'
  BY <1>1, <1>8 DEF Lined, Peers, Old, Offset
<1>10. Ringed' /\ RateSpansNoStep'
  BY <1>a, <1>1, <1>3 DEF Ringed, RateSpansNoStep, Peers, Old
<1> QED
  BY <1>1, <1>6, <1>9, <1>10 DEF RateInv

\* when the clock is set, it does, too,
LEMMA SetEpochs ==
    ASSUME Types, Epochs, Bracketed, Step PROVE Epochs' /\ Bracketed'
<1>1. /\ seq' = seq + 1 /\ seq \in Nat
      /\ UNCHANGED <<art, ticks, pc, before, best, ring, head, count>>
  BY DEF Step, Types
<1>2. /\ Here.art = art /\ Here'.art = art /\ Here.seq = seq /\ Here'.seq = seq + 1
  BY <1>1 DEF Here
<1>3. Known' \subseteq Known \cup {Here'}
  BY <1>1 DEF Known, Held
<1>4. \A s \in Known : s.seq \in Nat /\ s.seq <= seq
  BY KnownType DEF Epochs, Samples
<1>5. Old(Here') <=> Old(Here)
  BY <1>2 DEF Old
<1>6. \A s \in Known' : s.seq <= seq' /\ (Old(Here') => Old(s))
  BY <1>1, <1>2, <1>3, <1>4, <1>5 DEF Epochs
<1>7. Epochs'
  BY <1>1, <1>5, <1>6 DEF Epochs, Old
<1>8. pc = "bracket" => before.seq <= seq /\ before.seq \in Nat
  BY DEF Bracketed, Types, Samples
<1>9. pc' = "bracket" => before'.seq <= seq' /\ before'.seq # seq'
  BY <1>1, <1>8
<1> QED
  BY <1>1, <1>7, <1>9 DEF Bracketed

\* A clock that is set has no peer among the samples known,
LEMMA SetStep ==
    ASSUME Types, RateInv, mode = "realtime", Step PROVE RateInv'
<1>a. Epochs /\ Lined /\ Ringed /\ Bracketed /\ RateSpansNoStep
  BY DEF RateInv
<1>1. /\ seq' = seq + 1 /\ seq \in Nat
      /\ UNCHANGED <<mode, art, ticks, speed, pc, before, best, ring, head, count, rate>>
  BY DEF Step, Types
<1>2. /\ Here.art = art /\ Here'.art = art /\ Here.seq = seq /\ Here'.seq = seq + 1
  BY <1>1 DEF Here
<1>3. Known' \subseteq Known \cup {Here'}
  BY <1>1 DEF Known, Held
<1>4. \A s \in Known : s.seq \in Nat /\ s.seq <= seq
  BY <1>a, KnownType DEF Epochs, Samples
<1>5. Epochs' /\ Bracketed'
  BY <1>a, SetEpochs
<1>6. \A s, t \in Known' : Peers(s, t) => Offset(s) = Offset(t)
  <2>1. ASSUME NEW s \in Known', NEW t \in Known', Peers(s, t)
        PROVE  Offset(s) = Offset(t)
    <3>1. CASE s \in Known /\ t \in Known
      BY <1>a, <2>1, <3>1 DEF Lined
    <3>2. CASE s = Here' /\ t = Here'
      <4>1. s = t
        BY <3>2
      <4> QED
        BY <4>1 DEF Offset
    <3>3. CASE \/ s = Here' /\ t \in Known
               \/ s \in Known /\ t = Here'
      BY <1>1, <1>2, <1>4, <2>1, <3>3 DEF Peers
    <3>4. (s \in Known \/ s = Here') /\ (t \in Known \/ t = Here')
      BY <1>3
    <3> QED
      BY <3>1, <3>2, <3>3, <3>4
  <2> QED
    BY <2>1
<1>7. Lined'
  BY <1>1, <1>6 DEF Lined, Peers, Old, Offset
<1>8. Ringed' /\ RateSpansNoStep'
  BY <1>a, <1>1 DEF Ringed, Held, RateSpansNoStep, Peers, Old
<1> QED
  BY <1>1, <1>5, <1>6, <1>7, <1>8 DEF RateInv

\* and when the counter restarts, all of it is of the epoch before.
LEMMA RestartEpochs ==
    ASSUME Types, Epochs, Bracketed, Restart PROVE Epochs' /\ Bracketed'
<1>1. /\ art' = 0 /\ seq' \in {seq, seq + 1} /\ seq \in Nat
      /\ pc = "idle" /\ best = NoSample
      /\ UNCHANGED <<ticks, pc, before, best, ring, head, count>>
  BY DEF Restart, Types, Bracketed
<1>2. ticks * Cycles \in Nat
  <2>1. \A x, y \in Nat : x * y \in Nat
    OBVIOUS
  <2> QED
    BY <2>1, ConstantTypes DEF Types
<1>3. ~Old(Here') /\ Here'.seq = seq'
  BY <1>1, RestartOld DEF Here
<1>4. Known' \subseteq Held \cup {Here'} /\ Held \subseteq Known
  BY <1>1 DEF Known, Held
<1>5. \A s \in Known : s.seq \in Nat /\ s.seq <= seq
  BY KnownType DEF Epochs, Samples
<1>6. \A s \in Known' : s.seq <= seq'
  BY <1>1, <1>3, <1>4, <1>5
<1>7. Epochs'
  BY <1>1, <1>2, <1>3, <1>6 DEF Epochs, Old
<1> QED
  BY <1>1, <1>7 DEF Bracketed

\* nor has a counter that restarts, whether or not the kernel counts it.
LEMMA RestartStep ==
    ASSUME Types, RateInv, mode = "realtime", Restart PROVE RateInv'
<1>a. Epochs /\ Lined /\ Ringed /\ Bracketed /\ RateSpansNoStep
  BY DEF RateInv
<1>1. /\ art' = 0 /\ seq' \in {seq, seq + 1} /\ seq \in Nat
      /\ pc = "idle" /\ best = NoSample /\ art > ticks * Cycles
      /\ UNCHANGED <<mode, ticks, speed, pc, before, best, ring, head, count, rate>>
  BY <1>a DEF Restart, Types, Bracketed
<1>2. /\ ticks * Cycles \in Nat /\ MaxTime * Cycles \in Nat /\ art \in Nat
  <2>1. /\ \A x, y \in Nat : x * y \in Nat
    OBVIOUS
  <2> QED
    BY <2>1, ConstantTypes DEF Types
<1>3. Old(Here)
  BY <1>a, <1>1, <1>2 DEF Epochs
<1>4. ~Old(Here') /\ Here'.seq = seq'
  BY <1>1, <1>2 DEF Old, Here
<1>5. Known' \subseteq (Known \cup {Here'}) /\ Known' \subseteq (Held \cup {Here'})
  BY <1>1 DEF Known, Held
<1>6. \A s \in Known : s.seq \in Nat /\ s.seq <= seq /\ Old(s)
  BY <1>a, <1>3, KnownType DEF Epochs, Samples
<1>7. Epochs' /\ Bracketed'
  BY <1>a, RestartEpochs
<1>8. \A s, t \in Known' : Peers(s, t) => Offset(s) = Offset(t)
  BY <1>a, <1>4, <1>5, <1>6 DEF Lined, Peers
<1>9. Lined'
  BY <1>1, <1>8 DEF Lined, Peers, Old, Offset
<1>10. Ringed' /\ RateSpansNoStep'
  BY <1>a, <1>1 DEF Ringed, Held, RateSpansNoStep, Peers, Old
<1> QED
  BY <1>1, <1>7, <1>9, <1>10 DEF RateInv

\* A bracket that is not spoilt yields the sample the clock stands at.
LEMMA BracketHere ==
    ASSUME Types, Bracketed, pc = "bracket", ~Spoilt PROVE Bracket = Here
<1>1. before = Here
  BY DEF Bracketed, Spoilt
<1>2. /\ before.real = real /\ before.seq = seq /\ real \in Int
  BY <1>1 DEF Here, Types
<1>3. Divide(real - before.real, 2) = 0
  BY <1>2 DEF Divide
<1> QED
  BY <1>2, <1>3 DEF Bracket, Here

\* The brackets leave the ring alone, and the best of them is known.
LEMMA BracketEpochs ==
    ASSUME Types, Epochs, Bracketed,
           \/ SampleBegin \/ BracketSpoilt \/ BracketTight \/ BracketLoose
           \/ SampleFailed
    PROVE  /\ Epochs' /\ Bracketed' /\ Known' \subseteq Known
           /\ best' \in {best, Here, NoSample}
<1>1. /\ UNCHANGED <<clock, window>> /\ Here' = Here /\ Held' = Held
  BY DEF SampleBegin, BracketSpoilt, BracketTight, BracketLoose, SampleFailed,
         Here, Held
<1>2. best' \in {best, Here, NoSample}
  BY BracketHere
  DEF SampleBegin, BracketSpoilt, BracketTight, BracketLoose, SampleFailed, Finish
<1>3. Known' \subseteq Known
  BY <1>1, <1>2 DEF Known
<1>4. best' # NoSample => (Old(best') <=> Old(Here))
  BY <1>2 DEF Epochs
<1>5. Epochs'
  BY <1>1, <1>3, <1>4 DEF Epochs, Old
<1>6. Bracketed'
  <2>1. CASE SampleBegin
    BY <1>1, <2>1 DEF SampleBegin, Bracketed, Here, Types
  <2>2. CASE SampleFailed
    BY <2>2 DEF SampleFailed, Finish, Bracketed
  <2>3. CASE BracketSpoilt \/ BracketTight \/ BracketLoose
    <3>1. pc' \in {"again", "done"}
      BY <2>3 DEF BracketSpoilt, BracketTight, BracketLoose, TryAgain
    <3> QED
      BY <3>1 DEF Bracketed
  <2> QED
    BY <2>1, <2>2, <2>3
<1> QED
  BY <1>2, <1>3, <1>5, <1>6

\* So the brackets keep what is known consistent.
LEMMA BracketStep ==
    ASSUME Types, RateInv, mode = "realtime",
           \/ SampleBegin \/ BracketSpoilt \/ BracketTight \/ BracketLoose
           \/ SampleFailed
    PROVE  RateInv'
<1>a. Epochs /\ Lined /\ Ringed /\ Bracketed /\ RateSpansNoStep
  BY DEF RateInv
<1>1. /\ UNCHANGED <<mode, clock, window>>
      /\ Here' = Here /\ Held' = Held
  BY DEF SampleBegin, BracketSpoilt, BracketTight, BracketLoose, SampleFailed,
         Here, Held
<1>2. /\ Epochs' /\ Bracketed' /\ Known' \subseteq Known
      /\ best' \in {best, Here, NoSample}
  BY <1>a, BracketEpochs
<1>3. best' # NoSample => (Old(best') <=> Old(Here))
  BY <1>a, <1>2 DEF Epochs
<1>4. Lined'
  BY <1>a, <1>1, <1>2, <1>3, KnownKept
<1>5. Ringed' /\ RateSpansNoStep'
  BY <1>a, <1>1 DEF Ringed, RateSpansNoStep, Peers, Old
<1> QED
  BY <1>1, <1>2, <1>4, <1>5 DEF RateInv

\* The calibration publishes no rate.
LEMMA CalibrationStep ==
    ASSUME mode # "realtime", RateInv, [Next]_vars PROVE RateInv'
<1>1. UNCHANGED <<mode, rate>>
  BY DEF Next, Tick, Step, Restart, Sample, Horizon, SampleAtOnce, SampleBegin,
         BracketSpoilt, BracketTight, BracketLoose, SampleDone, SampleFailed,
         Use, UseCalibration
<1> QED
  BY <1>1 DEF RateInv

LEMMA RateInitially == Init => Types /\ RateInv
<1> SUFFICES ASSUME Init PROVE Types /\ RateInv
  OBVIOUS
<1>1. NoSample \in Samples /\ 0 \in Slots /\ 0 \in 0..Ring /\ 0 \in 0..MaxTime
  BY ConstantTypes DEF NoSample, Samples, Slots
<1>2. (MaxTime + 1) * Cycles \in Nat /\ (MaxTime + 1) * Cycles > MaxTime * Cycles
  <2>1. (MaxTime + 1) * Cycles = MaxTime * Cycles + 1 * Cycles
    BY ConstantTypes, Products
  <2>2. MaxTime * Cycles \in Nat /\ 1 * Cycles = Cycles
    <3>1. \A x, y \in Nat : x * y \in Nat
      OBVIOUS
    <3> QED
      BY <3>1, ConstantTypes
  <2> QED
    BY <2>1, <2>2, ConstantTypes
<1>3. Types
  BY <1>1, <1>2, ConstantTypes DEF Init, Types, Slots
<1>4. Held = {} /\ Known = {Here}
  BY DEF Init, Held, Known, Slots
<1>5. Epochs
  BY <1>2, <1>4 DEF Init, Epochs, Old, Here
<1>6. Lined /\ Ringed /\ Bracketed /\ RateSpansNoStep
  BY <1>4 DEF Init, Lined, Ringed, Bracketed, RateSpansNoStep
<1> QED
  BY <1>3, <1>5, <1>6 DEF RateInv, Init

LEMMA RateStep == Types /\ RateInv /\ [Next]_vars => RateInv'
<1> SUFFICES ASSUME Types, RateInv, [Next]_vars, mode = "realtime" PROVE RateInv'
  BY CalibrationStep
<1>a. Epochs /\ Bracketed /\ Here \in Known /\ (best # NoSample => best \in Known)
  BY DEF RateInv, Known
<1>1. CASE SampleAtOnce
  BY <1>a, <1>1, UseStep DEF SampleAtOnce
<1>2. CASE SampleDone
  BY <1>a, <1>2, UseStep DEF SampleDone, Epochs
<1>3. CASE UNCHANGED vars
  BY <1>3 DEF RateInv, Epochs, Lined, Ringed, Bracketed, RateSpansNoStep, Known,
              Held, Here, Old, Peers, Offset
<1> QED
  BY <1>1, <1>2, <1>3, TickStep, SetStep, RestartStep, BracketStep
  DEF Next, Sample, Horizon

\* tgpio_art_refine_work_fn never turns a step of CLOCK_REALTIME or a restart
\* of the ART into a rate: what it publishes is the clock's own speed, also
\* when the step comes while a sample is being bracketed.
THEOREM RateIsOwn == Spec => []RateSpansNoStep
<1>1. Types /\ RateInv => RateSpansNoStep
  BY DEF RateInv, RateSpansNoStep
<1> QED
  BY <1>1, RateInitially, TypesStep, RateStep, PTL DEF Spec

-----------------------------------------------------------------------------
(* When a rate goes, and when one comes *)

\* A bracket that nothing has disturbed is where the clock is, and what it
\* yields is kept: such a sample does not fail.
Sampled ==
    /\ speed \in Speeds /\ (seq = 0 => real > 0)
    /\ disturbed \in Nat /\ disturbed <= ticks
    /\ best # NoSample => best.art = art
    /\ best # NoSample /\ best.seq = seq => best = Here
    /\ ticks > disturbed =>
         /\ best # NoSample => best = Here
         /\ pc = "bracket" => before = Here
         /\ pc \in {"again", "done"} => best # NoSample

\* The work is due once per tick, and late by Late at most.
Punctual ==
    /\ wake \in Nat /\ wake <= ticks + 1 /\ ticks <= wake + Late
    /\ pc # "idle" => ticks >= wake

\* What is held was sampled before, at the last period or earlier.
Aged ==
    \A s \in Held : (Old(s) <=> Old(Here)) =>
        s.art <= art /\ (ticks >= wake => s.art < art)

\* Nothing has disturbed the clock since the window was opened,
Current == count > 0 /\ Peers(ring[0], Here)

\* at tick t.
OpenedAt(t) ==
    /\ ring[0].art + (ticks - t) * Cycles = art
    /\ ring[0].real + (ticks - t) * speed = real
    /\ t <= disturbed + 1 + Late
    /\ t + count <= ticks + (IF ticks < wake THEN 1 ELSE 0)

\* A full ring is long enough, as with TGPIO_REALTIME_RATE_MIN_WINDOW_S and
\* eight samples a second apart.
FullSuffices == \A v \in Speeds : MinWindow <= Ring * v

\* Without a rate, the window has grown by a sample in each period and is
\* still too short; what was taken before the clock was disturbed is replaced
\* by the next sample.
Growing ==
    /\ count = Ring => head = 0
    /\ \E t \in 0..ticks : OpenedAt(t)
    /\ ticks < wake /\ ticks > disturbed => real - ring[0].real < MinWindow
Opened ==
    FullSuffices =>
        IF Current THEN rate = NoRate => Growing ELSE wake <= disturbed + 1

TimeInv == mode = "realtime" => Sampled /\ Punctual /\ Aged /\ Opened

\* What the assumptions say of the bounds on time.
LEMMA TimeTypes ==
    /\ Late \in Nat /\ MinWindow \in Nat \ {0}
    /\ \A v \in Speeds : v \in Nat /\ v > 0
  BY ClockAssumption

\* Signs of products
LEMMA Signs ==
    /\ \A x, y \in Nat : x > 0 /\ y > 0 => x * y > 0
    /\ \A x \in Int, y \in Nat : x <= 0 => x * y <= 0
  OBVIOUS

\* Of the samples between two disturbances, a later one is ahead in both clocks.
LEMMA AheadOfHeld ==
    ASSUME Types, Epochs, Lined, Aged, speed \in Speeds,
           NEW s \in Known, NEW u \in Held,
           s.art = art, ticks >= wake, Old(s) <=> Old(Here), Peers(s, u)
    PROVE  s.art > u.art /\ s.real > u.real
<1>1. s \in Samples /\ u \in Samples /\ u \in Known
  BY KnownType DEF Known
<1>2. s.art > u.art
  BY DEF Aged, Peers
<1>3. (s.real - u.real) * Cycles = speed * (s.art - u.art)
  BY <1>1, WindowRate DEF Lined
<1>4. /\ s.real - u.real \in Int /\ s.art - u.art \in Nat /\ s.art - u.art > 0
      /\ Cycles \in Nat /\ speed \in Nat /\ speed > 0
      /\ s.real \in Int /\ u.real \in Int
  BY <1>1, <1>2, ConstantTypes, TimeTypes DEF Samples
<1>5. speed * (s.art - u.art) > 0
  BY <1>4, Signs
<1>6. ~(s.real - u.real <= 0)
  BY <1>3, <1>4, <1>5, Signs
<1> QED
  BY <1>2, <1>4, <1>6

\* The first slot is held when any is.
LEMMA FirstHeld == Types /\ count > 0 => ring[0] \in Held
<1> SUFFICES ASSUME Types, count > 0 PROVE ring[0] \in Held
  OBVIOUS
<1>1. 0 \in Slots /\ 0 < count
  BY ConstantTypes DEF Slots, Types
<1> QED
  BY <1>1 DEF Held

\* A sample that continues the window belongs to all that is held.
LEMMA Continues ==
    ASSUME Types, Epochs, Ringed, NEW s \in Known, Old(s) <=> Old(Here),
           count > 0, ~Stepped(s), Later(s)
    PROVE  \A u \in Held : Peers(s, u) /\ Peers(u, s)
<1>1. Oldest \in Held /\ Oldest \in Known /\ Oldest \in Samples /\ s \in Samples
  BY OldestHeld, KnownType DEF Known
<1>2. s.seq = Oldest.seq /\ s.art > Oldest.art
  BY DEF Stepped, Later
<1>3. Old(Oldest) => Old(s)
  <2>1. MaxTime * Cycles \in Int /\ s.art \in Nat /\ Oldest.art \in Nat
    BY <1>1, ConstantTypes, Products DEF Samples
  <2> QED
    BY <1>2, <2>1 DEF Old
<1>4. Old(s) => Old(Oldest)
  BY <1>1 DEF Epochs
<1> QED
  BY <1>1, <1>2, <1>3, <1>4 DEF Ringed, Peers

\* A rate is discarded when the counter is behind the window.
LEMMA DiscardBehind ==
    ASSUME Types, Epochs, Lined, Ringed, Aged, speed \in Speeds,
           NEW s \in Known, s.art = art, ticks >= wake, Old(s) <=> Old(Here),
           DiscardRate(s)
    PROVE  art < ring[0].art /\ ~Peers(ring[0], Here)
<1>1. /\ count > 0 /\ ~Stepped(s) /\ ~Later(s)
      /\ Oldest \in Held /\ Oldest \in Known /\ ring[0] \in Held /\ ring[0] \in Known
  BY OldestHeld, FirstHeld DEF DiscardRate, Known
<1>2. ~Peers(s, Oldest)
  BY <1>1, AheadOfHeld DEF Later
<1>3. ~Old(s) /\ Old(Oldest)
  BY <1>1, <1>2 DEF Epochs, Peers, Stepped
<1>4. Old(ring[0]) /\ ~Old(Here)
  BY <1>1, <1>3 DEF Ringed, Peers
<1>5. /\ Here.art = art /\ art \in Nat /\ ring[0].art \in Nat
      /\ MaxTime * Cycles \in Int
  BY <1>1, KnownType, ConstantTypes, Products DEF Here, Types, Samples
<1> QED
  BY <1>4, <1>5 DEF Old, Peers


\* What the work uses
Fit(s) ==
    /\ s \in Known /\ (Old(s) <=> Old(Here)) /\ s.art = art /\ ticks >= wake
    /\ s.seq = seq => s = Here
    /\ ticks > disturbed => s = Here

\* is the clock as it stands, or a bracket from before the clock was set.
LEMMA UsedFits ==
    ASSUME Types, RateInv, TimeInv, mode = "realtime"
    PROVE  /\ SampleAtOnce => Fit(Here)
           /\ SampleDone => Fit(best)
<1>1. Epochs /\ Sampled /\ Punctual
  BY DEF RateInv, TimeInv
<1>2. Here \in Known /\ Here.art = art /\ (best # NoSample => best \in Known)
  BY DEF Known, Here
<1>3. SampleAtOnce => Fit(Here)
  BY <1>1, <1>2 DEF Fit, SampleAtOnce
<1>4. SampleDone => Fit(best)
  BY <1>1, <1>2 DEF Fit, SampleDone, Epochs, Sampled, Punctual
<1> QED
  BY <1>3, <1>4

\* What happens to the window: a sample that stands alone after it is the
\* first or came after a disturbance; another continues it.
LEMMA UsedHow ==
    ASSUME Types, RateInv, TimeInv, mode = "realtime", NEW s \in Known, Fit(s),
           UseRealtime(s)
    PROVE  \/ /\ StoreAlone(s)
              /\ Current => s.seq # seq
           \/ /\ Publish(s) /\ count > 0
              /\ \A u \in Held : Peers(s, u) /\ Peers(u, s)
<1>a. /\ Epochs /\ Lined /\ Ringed /\ Aged /\ speed \in Speeds
      /\ (Old(s) <=> Old(Here)) /\ s.art = art /\ ticks >= wake
  BY DEF RateInv, TimeInv, Sampled, Fit
<1>1. CASE RestartWindow(s)
  <2>1. /\ StoreAlone(s) /\ count > 0 /\ Oldest \in Held /\ s.seq # Oldest.seq
        /\ ring[0] \in Held
    BY <1>1, OldestHeld, FirstHeld DEF RestartWindow, Stepped
  <2>2. Current => Oldest.seq = seq
    BY <1>a, <2>1 DEF Current, Peers, Ringed, Here
  <2> QED
    BY <2>1, <2>2
<1>2. CASE DiscardRate(s)
  <2>1. StoreAlone(s) /\ ~Current
    BY <1>a, <1>2, DiscardBehind DEF DiscardRate, Current
  <2> QED
    BY <2>1
<1>3. CASE Publish(s) /\ count > 0
  BY <1>a, <1>3, Continues DEF Publish
<1>4. CASE Publish(s) /\ ~(count > 0)
  <2>1. count = 0 /\ head = 0
    BY <1>a, <1>4, ConstantTypes DEF Types, Ringed
  <2>2. StoreAlone(s)
    BY <1>4, <2>1, ConstantTypes DEF Publish, Store, StoreAlone
  <2> QED
    BY <2>1, <2>2 DEF Current
<1> QED
  BY <1>1, <1>2, <1>3, <1>4 DEF UseRealtime

\* The slots after the work has used a sample
LEMMA UsedSlots ==
    ASSUME Types, Ringed, NEW s \in Samples, StoreAlone(s) \/ Publish(s)
    PROVE  /\ Held' \subseteq Held \cup {s}
           /\ count' \in Nat /\ count' > 0
           /\ ring'[0] \in {ring[0], s}
           /\ StoreAlone(s) => ring'[0] = s /\ count' = 1
                               /\ (count' = Ring => head' = 0)
           /\ Publish(s) /\ count < Ring /\ count > 0 =>
                 /\ ring'[0] = ring[0] /\ count' = count + 1
                 /\ count' = Ring => head' = 0
<1>0. ring \in [Slots -> Samples] /\ 0 \in Slots /\ head \in Slots /\ count \in 0..Ring
  BY ConstantTypes DEF Types, Slots
<1>z. Ring % Ring = 0 /\ (Ring = 1 => 1 % Ring = 0)
  BY ConstantTypes
<1>1. CASE StoreAlone(s)
  <2>1. ring' = [ring EXCEPT ![0] = s] /\ head' = 1 % Ring /\ count' = 1
    BY <1>1 DEF StoreAlone
  <2>2. Held' = {s}
    BY <1>1, AloneHeld
  <2>3. ring'[0] = s
    BY <1>0, <2>1
  <2>4. ~(Publish(s) /\ count < Ring /\ count > 0)
    <3>1. Publish(s) /\ count < Ring => count' = count + 1
      BY DEF Publish, Store
    <3> QED
      BY <1>0, <2>1, <3>1, ConstantTypes
  <2> QED
    BY <1>z, <2>1, <2>2, <2>3, <2>4
<1>2. CASE Publish(s) /\ ~StoreAlone(s)
  <2>1. /\ ring' = [ring EXCEPT ![head] = s] /\ head' = (head + 1) % Ring
        /\ count' = IF count < Ring THEN count + 1 ELSE count
    BY <1>2 DEF Publish, Store
  <2>2. Held' \subseteq Held \cup {s}
    BY <1>2, StoreHeld DEF Publish, Ringed
  <2>3. ring'[0] \in {ring[0], s} /\ (head # 0 => ring'[0] = ring[0])
    BY <1>0, <2>1
  <2>4. count' \in Nat /\ count' > 0
    BY <1>0, <2>1, ConstantTypes
  <2>5. ASSUME count < Ring, count > 0
        PROVE  /\ ring'[0] = ring[0] /\ count' = count + 1
               /\ count' = Ring => head' = 0
    <3>1. head = count /\ head # 0
      BY <1>0, <2>5 DEF Ringed
    <3> QED
      BY <1>0, <1>z, <2>1, <2>3, <2>5, <3>1
  <2> QED
    BY <1>2, <2>2, <2>3, <2>4, <2>5
<1> QED
  BY <1>1, <1>2

\* Without a rate a full ring is not too short.
LEMMA LongRing ==
    ASSUME Types, FullSuffices, speed \in Speeds, NEW n \in Nat, n >= Ring
    PROVE  n * speed >= MinWindow
<1>1. MinWindow <= Ring * speed /\ speed \in Nat /\ Ring \in Nat
  BY ConstantTypes, TimeTypes DEF FullSuffices
<1>2. Ring * speed <= n * speed
  BY <1>1, Products
<1> QED
  BY <1>1, <1>2, TimeTypes, Products

\* The work with a sample keeps track of when the window was opened.
LEMMA UseTime ==
    ASSUME Types, RateInv, TimeInv, mode = "realtime",
           NEW s \in Known, Fit(s), Use(s), UNCHANGED <<mode, paired, clock>>
    PROVE  TimeInv'
<1>a. /\ Epochs /\ Ringed /\ Sampled /\ Punctual /\ Aged /\ Opened
      /\ s \in Samples /\ Fit(s) /\ UseRealtime(s)
  BY KnownType DEF RateInv, TimeInv, Use
<1>b. /\ pc' = "idle" /\ wake' = ticks + 1 /\ best' = NoSample
      /\ Here' = Here
      /\ ticks' = ticks /\ ticks < wake' /\ ticks \in Nat
      /\ UNCHANGED <<art, real, seq, speed, disturbed, mode>>
  BY DEF Use, Finish, Here, Old, Types
<1>c. /\ StoreAlone(s) /\ (Current => s.seq # seq)
      \/ /\ Publish(s) /\ count > 0
         /\ \A u \in Held : Peers(s, u) /\ Peers(u, s)
  BY <1>a, UsedHow
<1>d. /\ Held' \subseteq Held \cup {s} /\ count' \in Nat /\ count' > 0
      /\ ring'[0] \in {ring[0], s}
      /\ StoreAlone(s) => ring'[0] = s /\ count' = 1
                          /\ (count' = Ring => head' = 0)
      /\ Publish(s) /\ count < Ring /\ count > 0 =>
            /\ ring'[0] = ring[0] /\ count' = count + 1
            /\ count' = Ring => head' = 0
  BY <1>a, <1>c, UsedSlots
<1>e. /\ Late \in Nat /\ speed \in Nat /\ speed \in Speeds /\ real \in Int
      /\ art \in Nat /\ disturbed \in Nat /\ disturbed <= ticks
      /\ wake \in Nat /\ ticks >= wake /\ ticks <= wake + Late
      /\ MinWindow \in Nat \ {0} /\ Cycles \in Nat
  BY <1>a, TimeTypes, ConstantTypes DEF Types, Sampled, Punctual, Fit
<1>1. Sampled'
  BY <1>a, <1>b DEF Sampled
<1>2. Punctual'
  BY <1>b, <1>e DEF Punctual
<1>3. Aged'
  <2>1. \A u \in Held \cup {s} : (Old(u) <=> Old(Here)) => u.art <= art
    BY <1>a, <1>e DEF Aged, Fit
  <2> QED
    BY <1>b, <1>d, <2>1 DEF Aged, Old
<1>4. Current' <=> Peers(ring'[0], Here)
  BY <1>b, <1>d DEF Current, Peers, Old
<1>5. ticks = disturbed \/ Current'
  <2>1. s = Here => Current'
    <3>1. CASE StoreAlone(s)
      BY <1>4, <1>d, <3>1 DEF Peers
    <3>2. CASE ~StoreAlone(s)
      BY <1>4, <1>c, <1>d, <3>2, FirstHeld DEF Peers
    <3> QED
      BY <3>1, <3>2
  <2>2. ticks > disturbed => s = Here
    BY <1>a DEF Fit
  <2> QED
    BY <1>b, <1>e, <2>1, <2>2
<1>6. ASSUME FullSuffices, Current', rate' = NoRate PROVE Growing'
  <2>1. s = Here
    <3>1. s.seq = seq
      BY <1>4, <1>6, <1>c, <1>d, FirstHeld DEF Peers, Here
    <3> QED
      BY <1>a, <3>1 DEF Fit
  <2>2. CASE StoreAlone(s) /\ (Current => s.seq # seq)
    <3>1. ~Current
      BY <2>1, <2>2 DEF Here
    <3>2. wake <= disturbed + 1
      BY <1>a, <1>6, <3>1 DEF Opened
    <3>3. ring'[0].art = art /\ ring'[0].real = real
      BY <1>d, <2>1, <2>2 DEF Here
    <3>4. ticks - ticks = 0 /\ 0 * Cycles = 0 /\ 0 * speed = 0
      BY <1>b, <1>e
    <3>5. OpenedAt(ticks)'
      <4>1. /\ ring'[0].art + (ticks - ticks) * Cycles = art
            /\ ring'[0].real + (ticks - ticks) * speed = real
        BY <1>e, <3>3, <3>4
      <4>2. ticks <= disturbed + 1 + Late
        BY <1>b, <1>e, <3>2
      <4>3. ticks + count' <= ticks + 1
        BY <1>b, <1>d, <2>2
      <4> QED
        BY <1>b, <4>1, <4>2, <4>3 DEF OpenedAt
    <3>6. \E t \in 0..ticks' : OpenedAt(t)'
      BY <1>b, <3>5
    <3>7. real' - ring'[0].real < MinWindow
      BY <1>b, <1>e, <3>3
    <3> QED
      BY <1>d, <2>2, <3>6, <3>7 DEF Growing, OpenedAt
  <2>3. CASE /\ Publish(s) /\ count > 0
             /\ \A u \in Held : Peers(s, u) /\ Peers(u, s)
    <3>1. /\ Publish(s) /\ count > 0
          /\ \A u \in Held : Peers(s, u) /\ Peers(u, s)
          /\ ring[0] \in Held
      BY <2>3, FirstHeld
    <3>2. Current
      BY <2>1, <3>1 DEF Current
    <3>3. art > Oldest.art
      BY <2>1, <3>1 DEF Publish, Later, Here
    <3>4. Oldest \in Samples
      BY <3>1, OldestHeld, KnownType DEF Known
    <3>5. rate = NoRate /\ ~(Window(s).real >= MinWindow)
      <4>1. Window(s).art # 0
        BY <1>e, <2>1, <3>3, <3>4 DEF Window, Here, Samples
      <4>2. Window(s) # NoRate
        BY <4>1 DEF NoRate
      <4> QED
        BY <1>6, <3>1, <4>2 DEF Publish
    <3>6. Growing
      BY <1>a, <1>6, <3>2, <3>5 DEF Opened
    <3>7. PICK t \in 0..ticks : OpenedAt(t)
      BY <3>6 DEF Growing
    <3>8. count \in 0..Ring /\ Oldest = ring[0]
      BY <3>6, ConstantTypes DEF Growing, Oldest, Types
    <3>9. /\ t + count <= ticks /\ t <= disturbed + 1 + Late
          /\ ring[0].art + (ticks - t) * Cycles = art
          /\ ring[0].real + (ticks - t) * speed = real
      BY <1>e, <1>b, <3>7, <3>8, ConstantTypes DEF OpenedAt
    <3>10. real - ring[0].real < MinWindow
      <4>1. Window(s).real = real - ring[0].real
        BY <2>1, <3>8 DEF Window, Here
      <4>2. ring[0].real \in Int
        BY <3>4, <3>8 DEF Samples
      <4> QED
        BY <1>e, <3>5, <4>1, <4>2
    <3>11. count < Ring
      <4>1. SUFFICES ASSUME count = Ring PROVE FALSE
        BY <3>8, ConstantTypes
      <4>2. ticks - t \in Nat /\ ticks - t >= Ring
        BY <1>b, <3>8, <3>9, <4>1, ConstantTypes
      <4>3. (ticks - t) * speed >= MinWindow
        BY <1>e, <1>6, <4>2, LongRing
      <4>4. (ticks - t) * speed \in Int /\ ring[0].real \in Int
        BY <1>e, <3>4, <3>8, <4>2, Products DEF Samples
      <4> QED
        BY <1>e, <3>9, <3>10, <4>3, <4>4
    <3>12. ring'[0] = ring[0] /\ count' = count + 1 /\ (count' = Ring => head' = 0)
      BY <1>d, <3>1, <3>11
    <3>13. OpenedAt(t)'
      BY <1>b, <1>e, <3>8, <3>9, <3>12, ConstantTypes DEF OpenedAt
    <3>14. \E u \in 0..ticks' : OpenedAt(u)'
      BY <1>b, <3>13
    <3> QED
      BY <1>b, <3>10, <3>12, <3>14 DEF Growing, OpenedAt
  <2> QED
    BY <1>c, <2>2, <2>3
<1>7. Opened'
  BY <1>b, <1>e, <1>5, <1>6 DEF Opened
<1> QED
  BY <1>1, <1>2, <1>3, <1>7 DEF TimeInv


\* Time passes when the work is idle and not too late.
LEMMA TickTime ==
    ASSUME Types, RateInv, TimeInv, mode = "realtime", Tick PROVE TimeInv'
<1>a. /\ Epochs /\ Bracketed /\ Sampled /\ Punctual /\ Aged /\ Opened
      /\ ticks \in Nat /\ wake \in Nat /\ art \in Nat /\ real \in Int
      /\ speed \in Nat /\ Cycles \in Nat /\ Cycles > 0 /\ Late \in Nat
      /\ disturbed \in Nat /\ count \in Nat
  BY ConstantTypes, TimeTypes
  DEF RateInv, TimeInv, Types, Sampled, Punctual
<1>1. /\ art' = art + Cycles /\ real' = real + speed /\ ticks' = ticks + 1
      /\ pc = "idle" /\ best = NoSample /\ ticks < wake + Late
      /\ UNCHANGED <<mode, speed, seq, disturbed, pc, before, best, wake, ring,
                     head, count, rate>>
  BY <1>a DEF Tick, Bracketed
<1>2. Old(Here') <=> Old(Here)
  BY <1>a, TickOld
<1>3. Held' = Held /\ Here'.seq = Here.seq
  BY <1>1 DEF Held, Here
<1>4. Sampled'
  BY <1>a, <1>1 DEF Sampled
<1>5. Punctual'
  BY <1>a, <1>1 DEF Punctual
<1>6. Aged'
  <2>1. ASSUME NEW s \in Held, Old(s) <=> Old(Here) PROVE s.art < art + Cycles
    <3>1. s.art <= art /\ s.art \in Nat
      BY <1>a, <2>1, KnownType DEF Aged, Known, Samples
    <3> QED
      BY <1>a, <3>1
  <2>2. ASSUME NEW s \in Held, Old(s) <=> Old(Here)
        PROVE  s.art <= art' /\ s.art < art'
    <3>1. s.art \in Nat
      BY KnownType DEF Known, Samples
    <3> QED
      BY <1>a, <1>1, <2>1, <2>2, <3>1
  <2> QED
    BY <1>2, <1>3, <2>2 DEF Aged, Old
<1>7. Current' <=> Current
  BY <1>1, <1>2, <1>3 DEF Current, Peers, Old
<1>8. ASSUME Growing, Current PROVE Growing'
  <2>1. PICK t \in 0..ticks : OpenedAt(t)
    BY <1>8 DEF Growing
  <2>2. ring[0] \in Samples
    BY <1>8, FirstHeld, KnownType DEF Current, Known
  <2>3. /\ t \in Int /\ ticks - t \in Int /\ (ticks + 1) - t = (ticks - t) + 1
        /\ ring[0].art \in Int /\ ring[0].real \in Int
    BY <1>a, <2>1, <2>2 DEF Samples
  <2>4. /\ ((ticks + 1) - t) * Cycles = (ticks - t) * Cycles + Cycles
        /\ ((ticks + 1) - t) * speed = (ticks - t) * speed + speed
        /\ (ticks - t) * Cycles \in Int /\ (ticks - t) * speed \in Int
    <3>1. /\ ((ticks - t) + 1) * Cycles = (ticks - t) * Cycles + 1 * Cycles
          /\ ((ticks - t) + 1) * speed = (ticks - t) * speed + 1 * speed
          /\ (ticks - t) * Cycles \in Int /\ (ticks - t) * speed \in Int
      BY <1>a, <2>3, Products
    <3>2. 1 * Cycles = Cycles /\ 1 * speed = speed
      BY <1>a
    <3> QED
      BY <2>3, <3>1, <3>2
  <2>5. /\ ring[0].art + ((ticks + 1) - t) * Cycles = art + Cycles
        /\ ring[0].real + ((ticks + 1) - t) * speed = real + speed
    <3> DEFINE cycles == (ticks - t) * Cycles
               length == (ticks - t) * speed
    <3>1. ring[0].art + cycles = art /\ ring[0].real + length = real
      BY <2>1 DEF OpenedAt
    <3>2. cycles \in Int /\ length \in Int
      BY <2>4
    <3> HIDE DEF cycles, length
    <3>3. /\ ring[0].art + (cycles + Cycles) = art + Cycles
          /\ ring[0].real + (length + speed) = real + speed
      BY <1>a, <2>3, <3>1, <3>2
    <3> QED
      BY <2>4, <3>3 DEF cycles, length
  <2>6. /\ t <= disturbed + 1 + Late
        /\ t + count <= ticks + 1
    BY <1>a, <2>1, <2>3 DEF OpenedAt
  <2>7. ~(ticks' < wake')
    BY <1>a, <1>1 DEF Punctual
  <2>8. t \in 0..ticks' /\ OpenedAt(t)'
    BY <1>a, <1>1, <2>1, <2>5, <2>6, <2>7 DEF OpenedAt
  <2>9. \E u \in 0..ticks' : OpenedAt(u)'
    BY <2>8
  <2>10. count = Ring => head = 0
    BY <1>8 DEF Growing
  <2> QED
    BY <1>1, <2>7, <2>9, <2>10 DEF Growing, OpenedAt
<1>9. Opened'
  BY <1>a, <1>1, <1>7, <1>8 DEF Opened
<1> QED
  BY <1>4, <1>5, <1>6, <1>9 DEF TimeInv

\* A disturbance makes the window one from before it.
LEMMA DisturbedTime ==
    ASSUME Types, RateInv, TimeInv, mode = "realtime", Step \/ Restart
    PROVE  TimeInv'
<1>a. /\ Epochs /\ Bracketed /\ Sampled /\ Punctual /\ Aged /\ Opened
      /\ ticks \in Nat /\ wake \in Nat /\ art \in Nat /\ seq \in Nat
  BY DEF RateInv, TimeInv, Types, Sampled, Punctual
<1>1. /\ disturbed' = ticks
      /\ UNCHANGED <<mode, ticks, speed, pc, before, best, wake, ring, head,
                     count, rate>>
  BY DEF Step, Restart
<1>2. /\ Held' = Held /\ Held \subseteq Known /\ Known \subseteq Samples
      /\ best # NoSample => best \in Known
  BY <1>1, KnownType DEF Held, Known
<1>3. Punctual'
  BY <1>1, <1>a DEF Punctual
<1>4. CASE Step
  <2>1. /\ seq' = seq + 1 /\ art' = art /\ Here'.seq = seq + 1 /\ Here'.art = art
        /\ Here.art = art
    BY <1>4, <1>1 DEF Step, Here
  <2>2. \A s \in Known : s.seq \in Nat /\ s.seq <= seq /\ s.seq # seq + 1
    BY <1>a, <1>2 DEF Epochs, Samples
  <2>3. Sampled'
    BY <1>a, <1>1, <1>2, <2>1, <2>2 DEF Sampled
  <2>4. Aged'
    BY <1>a, <1>1, <1>2, <2>1 DEF Aged, Old
  <2>5. ~Current'
    BY <1>1, <1>2, <2>1, <2>2, FirstHeld DEF Current, Peers
  <2>6. Opened'
    BY <1>a, <1>1, <2>5 DEF Opened, Punctual
  <2> QED
    BY <1>3, <2>3, <2>4, <2>6 DEF TimeInv
<1>5. CASE Restart
  <2>1. /\ seq' \in {seq, seq + 1} /\ art' = 0 /\ pc = "idle" /\ best = NoSample
        /\ real' = real /\ Here'.seq = seq' /\ Here'.art = 0
    BY <1>5, <1>1, <1>a DEF Restart, Here, Bracketed
  <2>2. ~Old(Here') /\ \A s \in Held : Old(s)
    BY <1>a, <1>5, RestartOld
  <2>3. Sampled'
    BY <1>a, <1>1, <2>1 DEF Sampled
  <2>4. Aged'
    BY <1>2, <2>2 DEF Aged, Old
  <2>5. ~Current'
    BY <1>1, <2>2, FirstHeld DEF Current, Peers, Old
  <2>6. Opened'
    BY <1>a, <1>1, <2>5 DEF Opened, Punctual
  <2> QED
    BY <1>3, <2>3, <2>4, <2>6 DEF TimeInv
<1> QED
  BY <1>4, <1>5

\* The brackets: only one within which the clock was set fails.
LEMMA BracketTime ==
    ASSUME Types, RateInv, TimeInv, mode = "realtime",
           \/ SampleBegin \/ BracketSpoilt \/ BracketTight \/ BracketLoose
           \/ SampleFailed
    PROVE  TimeInv'
<1>a. /\ Epochs /\ Bracketed /\ Sampled /\ Punctual /\ Aged /\ Opened
      /\ ticks \in Nat /\ wake \in Nat /\ disturbed \in Nat /\ Late \in Nat
      /\ disturbed <= ticks
  BY TimeTypes DEF RateInv, TimeInv, Types, Sampled, Punctual
<1>1. /\ UNCHANGED <<mode, clock, window>>
      /\ Here' = Here /\ Held' = Held
  BY DEF SampleBegin, BracketSpoilt, BracketTight, BracketLoose, SampleFailed,
         Here, Held
<1>2. Here # NoSample
  <2>1. Here.seq = 0 => Here.real # 0
    BY <1>a DEF Sampled, Here, Types
  <2> QED
    BY <2>1 DEF NoSample
<1>3. Here.art = art /\ (BracketTight \/ BracketLoose => Bracket = Here)
  BY <1>a, BracketHere DEF Here, BracketTight, BracketLoose
<1>4. Current' <=> Current
  BY <1>1 DEF Current, Peers, Old
<1>5. Sampled'
  <2>1. best' # NoSample => best' \in {best, Here} /\ best' # NoSample
    BY <1>3 DEF SampleBegin, BracketSpoilt, BracketTight, BracketLoose,
                SampleFailed, Finish
  <2>2. ASSUME ticks > disturbed
        PROVE  /\ pc' = "bracket" => before' = Here
               /\ pc' \in {"again", "done"} => best' # NoSample
    <3>1. CASE SampleBegin
      BY <3>1 DEF SampleBegin
    <3>2. CASE BracketSpoilt
      BY <1>a, <2>2, <3>2 DEF BracketSpoilt, Spoilt, Sampled, Here
    <3>3. CASE BracketTight \/ BracketLoose
      <4>1. pc' # "bracket"
        BY <3>3 DEF BracketTight, BracketLoose, TryAgain
      <4>2. best' # NoSample
        BY <1>2, <1>3, <3>3 DEF BracketTight, BracketLoose
      <4> QED
        BY <4>1, <4>2
    <3>4. CASE SampleFailed
      BY <3>4 DEF SampleFailed, Finish
    <3> QED
      BY <3>1, <3>2, <3>3, <3>4
  <2> QED
    BY <1>a, <1>1, <1>3, <2>1, <2>2 DEF Sampled
<1>6. CASE ~SampleFailed
  <2>1. /\ wake' = wake /\ pc' # "idle" /\ ticks >= wake
    BY <1>a, <1>6
    DEF SampleBegin, BracketSpoilt, BracketTight, BracketLoose, TryAgain, Punctual
  <2>2. Punctual' /\ Aged'
    BY <1>a, <1>1, <2>1 DEF Punctual, Aged, Old
  <2>3. Growing' <=> Growing
    BY <1>1, <2>1 DEF Growing, OpenedAt
  <2>4. Opened'
    BY <1>a, <1>1, <1>4, <2>1, <2>3 DEF Opened
  <2> QED
    BY <1>5, <2>2, <2>4 DEF TimeInv
<1>7. CASE SampleFailed
  <2>1. /\ wake' = ticks + 1 /\ pc' = "idle" /\ ticks >= wake /\ ticks = disturbed
    BY <1>a, <1>7 DEF SampleFailed, Finish, Sampled, Punctual
  <2>2. Punctual' /\ Aged'
    BY <1>a, <1>1, <2>1 DEF Punctual, Aged, Old
  <2>3. ASSUME Growing PROVE Growing'
    <3>1. PICK t \in 0..ticks : OpenedAt(t)
      BY <2>3 DEF Growing
    <3>2. t + count <= ticks /\ count \in Nat /\ t \in Nat
      BY <1>a, <2>1, <3>1, ConstantTypes DEF OpenedAt, Types
    <3>3. OpenedAt(t)'
      BY <1>a, <1>1, <2>1, <3>1, <3>2 DEF OpenedAt
    <3>4. \E u \in 0..ticks' : OpenedAt(u)'
      BY <1>1, <3>3
    <3>5. count = Ring => head = 0
      BY <2>3 DEF Growing
    <3>6. ~(ticks' > disturbed')
      BY <1>a, <1>1, <2>1
    <3> QED
      BY <1>1, <3>4, <3>5, <3>6 DEF Growing, OpenedAt
  <2>4. Opened'
    BY <1>a, <1>1, <1>4, <2>1, <2>3 DEF Opened
  <2> QED
    BY <1>5, <2>2, <2>4 DEF TimeInv
<1> QED
  BY <1>6, <1>7

LEMMA TimeInitially == Init => TimeInv
<1> SUFFICES ASSUME Init PROVE TimeInv
  OBVIOUS
<1>1. /\ ticks = 0 /\ wake = 0 /\ disturbed = 0 /\ count = 0 /\ best = NoSample
      /\ pc = "idle" /\ seq = 0 /\ speed \in Speeds /\ Late \in Nat
  BY TimeTypes DEF Init
<1>2. real > 0
  <2>1. real = (MaxTime + 1) * Cycles /\ MaxTime + 1 \in Nat /\ MaxTime + 1 > 0
        /\ Cycles \in Nat /\ Cycles > 0
    BY ConstantTypes DEF Init
  <2> QED
    BY <2>1, Signs
<1>3. Held = {}
  BY <1>1 DEF Held, Slots
<1> QED
  BY <1>1, <1>2, <1>3 DEF TimeInv, Sampled, Punctual, Aged, Opened, Current

LEMMA TimeStep ==
    ASSUME Types, RateInv, TimeInv, [Next]_vars PROVE TimeInv'
<1>1. SUFFICES ASSUME mode = "realtime" PROVE TimeInv'
  BY DEF TimeInv, Next, Tick, Step, Restart, Sample, Horizon, SampleAtOnce,
         SampleBegin, BracketSpoilt, BracketTight, BracketLoose, SampleDone,
         SampleFailed
<1>2. CASE SampleAtOnce
  BY <1>1, <1>2, UsedFits, UseTime DEF SampleAtOnce, Fit
<1>3. CASE SampleDone
  BY <1>1, <1>3, UsedFits, UseTime DEF SampleDone, Fit
<1>4. CASE UNCHANGED vars
  BY <1>4 DEF TimeInv, Sampled, Punctual, Aged, Opened, Growing, OpenedAt,
              Current, Held, Here, Old, Peers
<1> QED
  BY <1>1, <1>2, <1>3, <1>4, TickTime, DisturbedTime, BracketTime
  DEF Next, Sample, Horizon

LEMMA AllStep ==
    Types /\ RateInv /\ TimeInv /\ [Next]_vars => (Types /\ RateInv /\ TimeInv)'
  BY TypesStep, RateStep, TimeStep


LEMMA RateInvariant == Spec => [](Types /\ RateInv)
  BY RateInitially, TypesStep, RateStep, PTL DEF Spec

\* However the work, its brackets, the steps and the restarts interleave, a
\* clock that is left alone for the least window and the time in which the work
\* takes two samples has its rate: a ring in which all is from before a step,
\* a bracket that was spoilt or a sample that came too late do not hold it up.
THEOREM RateComes == ASSUME FullSuffices PROVE Spec => []RateReady
<1>1. Types /\ RateInv /\ TimeInv => RateReady
  <2> SUFFICES ASSUME Types, TimeInv, mode = "realtime", pc = "idle", ticks < wake,
                      (ticks - disturbed - 2 - 2 * Late) * speed >= MinWindow,
                      rate = NoRate
               PROVE  FALSE
    BY DEF RateReady
  <2>1. /\ Sampled /\ Punctual /\ Opened
        /\ ticks \in Nat /\ disturbed \in Nat /\ wake \in Nat /\ Late \in Nat
        /\ speed \in Nat /\ MinWindow \in Nat /\ MinWindow > 0 /\ real \in Int
    BY TimeTypes DEF TimeInv, Types, Sampled, Punctual
  <2> DEFINE alone == ticks - disturbed - 2 - 2 * Late
  <2>2. alone \in Int /\ alone > 0
    <3>1. alone \in Int
      BY <2>1
    <3> QED
      BY <2>1, <3>1, Signs
  <2>3. Current
    BY <2>1, <2>2 DEF Opened, Punctual
  <2>4. Growing
    BY <2>1, <2>3 DEF Opened
  <2>5. PICK t \in 0..ticks : OpenedAt(t)
    BY <2>4 DEF Growing
  <2>6. ring[0] \in Samples
    BY <2>3, FirstHeld, KnownType DEF Current, Known
  <2>7. /\ real - ring[0].real < MinWindow
        /\ ring[0].real + (ticks - t) * speed = real
        /\ ring[0].real \in Int
        /\ ticks - t \in Nat /\ alone \in Nat /\ alone <= ticks - t
    BY <2>1, <2>2, <2>4, <2>5, <2>6 DEF Growing, OpenedAt, Samples
  <2>8. alone * speed <= (ticks - t) * speed /\ (ticks - t) * speed \in Int
        /\ alone * speed \in Int
    BY <2>1, <2>7, Products
  <2> QED
    BY <2>1, <2>7, <2>8
<1> QED
  BY <1>1, RateInitially, TimeInitially, AllStep, PTL DEF Spec

\* The measurement keeps a rate that it has through any step of the clock: it
\* goes only when the counter has restarted.
THEOREM RateStays == Spec => StepKeepsRate
<1>1. ASSUME Types, RateInv, TimeInv, [Next]_vars, rate # NoRate, rate' = NoRate
      PROVE  art < ring[0].art
  <2>1. mode = "realtime"
    BY <1>1 DEF RateInv
  <2>2. /\ Epochs /\ Lined /\ Ringed /\ Aged /\ speed \in Speeds
    BY <1>1, <2>1 DEF RateInv, TimeInv, Sampled
  <2>3. ASSUME NEW s \in Known, Fit(s), Use(s) PROVE art < ring[0].art
    <3>1. CASE DiscardRate(s)
      BY <1>1, <2>2, <2>3, <3>1, DiscardBehind DEF Fit
    <3>2. CASE Publish(s)
      <4>1. rate' = Window(s) /\ Later(s) /\ count > 0
        BY <1>1, <3>2 DEF Publish
      <4>2. Oldest \in Samples /\ s \in Samples
        BY <1>1, <4>1, OldestHeld, KnownType DEF Known
      <4>3. Window(s).art # 0
        BY <4>1, <4>2 DEF Window, Later, Samples
      <4> QED
        BY <1>1, <4>1, <4>3 DEF NoRate
    <3>3. CASE RestartWindow(s)
      BY <1>1, <3>3 DEF RestartWindow
    <3> QED
      BY <2>1, <2>3, <3>1, <3>2, <3>3 DEF Use, UseRealtime
  <2>4. rate' # rate
    BY <1>1
  <2>5. SampleAtOnce \/ SampleDone
    BY <1>1, <2>4
    DEF Next, Tick, Step, Restart, Sample, Horizon, SampleBegin, BracketSpoilt,
        BracketTight, BracketLoose, SampleFailed
  <2> QED
    BY <1>1, <2>1, <2>3, <2>5, UsedFits DEF SampleAtOnce, SampleDone, Fit
<1>2. Types /\ RateInv /\ TimeInv /\ [Next]_vars
      => [rate # NoRate /\ rate' = NoRate => art < ring[0].art]_vars
  BY <1>1
<1> QED
  BY <1>2, RateInitially, TimeInitially, AllStep, PTL DEF Spec, StepKeepsRate

-----------------------------------------------------------------------------
(* The calibration *)

\* Steps add up to jumps,
StepsAddUp(jumps) ==
    /\ jumps \subseteq Int /\ 0 \in jumps /\ Steps \subseteq jumps
    /\ \A i, j \in jumps : i - j \in jumps

\* and a window that is long enough for the average and holds a jump betrays it
\* by its size: "A large apparent error means the system clock stepped".  A jump
\* too small for that would be measured as if it were a rate.
JumpsShow(jumps) ==
    \A n \in 1..MaxTime, v \in Speeds, j \in jumps :
        n * v + j >= CalWindow /\ j # 0
        => Beyond(RateError([art |-> n * Cycles, real |-> n * v + j]))

\* A sample lies some ticks and a jump behind the clock.
BehindBy(s, n, j) == art - s.art = n * Cycles /\ real - s.real = n * speed + j
Behind(jumps, s) == \E n \in 0..ticks, j \in jumps : BehindBy(s, n, j)

\* So do all that no restart separates from it: the kernel's count of steps is
\* not asked here.
Spaced(jumps) == \A s \in Known : (Old(s) <=> Old(Here)) => Behind(jumps, s)

\* A ring that is not full has its samples up to its head, unless it is closed.
Slotted == count > 0 /\ count < Ring => head = count

\* The error of the clock's own rate
Own == RateError([art |-> Cycles, real |-> speed])

CalInv(jumps) ==
    /\ speed \in Speeds /\ EmaSpansNoStep
    /\ IF mode = "art" THEN Epochs /\ Bracketed /\ Slotted /\ Spaced(jumps)
                       ELSE ema = 0

\* What the assumptions say of the constants of the calibration.
LEMMA CalTypes ==
    /\ Scale \in Nat /\ StepError \in Nat
    /\ \A v \in Speeds : v \in Nat /\ v > 0
  BY ClockAssumption

\* A quotient, and that it is the only one.
LEMMA Quotient ==
    ASSUME NEW a \in Nat, NEW b \in Nat \ {0}
    PROVE  /\ a \div b \in Nat
           /\ b * (a \div b) <= a /\ a < b * (a \div b) + b
  OBVIOUS

LEMMA QuotientOnly ==
    ASSUME NEW a \in Nat, NEW b \in Nat \ {0}, NEW q \in Nat,
           b * q <= a, a < b * q + b
    PROVE  a \div b = q
  OBVIOUS

\* It stays when both numbers are multiplied.
LEMMA QuotientScaled ==
    ASSUME NEW a \in Nat, NEW b \in Nat \ {0}, NEW n \in Nat \ {0}
    PROVE  /\ n * a \in Nat /\ n * b \in Nat \ {0}
           /\ (n * a) \div (n * b) = a \div b
<1> DEFINE q == a \div b
<1>1. q \in Nat /\ b * q <= a /\ a < b * q + b
  BY Quotient
<1> HIDE DEF q
<1>2. /\ n * a \in Nat /\ n * b \in Nat \ {0} /\ b * q \in Nat
      /\ n * (b * q) \in Nat
  <2>1. \A x, y \in Nat : x * y \in Nat /\ (x > 0 /\ y > 0 => x * y > 0)
    OBVIOUS
  <2>2. b * q \in Nat
    BY <1>1, <2>1
  <2> QED
    BY <2>1, <2>2
<1>3. n * (b * q) = (n * b) * q
  BY <1>1
<1>4. n * (b * q) <= n * a
  <2>1. \A x, y, z \in Nat : x <= y => z * x <= z * y
    OBVIOUS
  <2> QED
    BY <1>1, <1>2, <2>1
<1>5. n * a < n * (b * q) + n * b
  <2>1. \A x, y, z \in Nat : z > 0 /\ x < y => z * x < z * y
    OBVIOUS
  <2>2. n * (b * q + b) = n * (b * q) + n * b
    BY <1>2, Products
  <2>3. n * a < n * (b * q + b)
    BY <1>1, <1>2, <2>1
  <2> QED
    BY <2>2, <2>3
<1> DEFINE x == n * a
           y == n * b
<1>6. x \in Nat /\ y \in Nat \ {0} /\ y * q <= x /\ x < y * q + y
  BY <1>2, <1>3, <1>4, <1>5
<1> HIDE DEF x, y
<1>7. x \div y = q
  BY <1>1, <1>6, QuotientOnly
<1> QED
  BY <1>2, <1>7 DEF x, y, q

\* A window of whole ticks without a jump has the error of one tick.
LEMMA OwnError ==
    ASSUME NEW n \in Nat \ {0}, NEW v \in Nat
    PROVE  /\ RateError([art |-> n * Cycles, real |-> n * v])
              = RateError([art |-> Cycles, real |-> v])
           /\ RateError([art |-> Cycles, real |-> v]) \in Int
<1> DEFINE d == Cycles - v
<1>1. /\ Cycles \in Nat \ {0} /\ Scale \in Nat /\ d \in Int
      /\ n * d \in Int /\ n * Cycles - n * v = n * d
  BY ConstantTypes, CalTypes, Products
<1>2. CASE d < 0
  <2>1. -d \in Nat /\ -d > 0 /\ (-d) * Scale \in Nat /\ n * (-d) \in Nat
    <3>1. \A x, y \in Nat : x * y \in Nat
      OBVIOUS
    <3> QED
      BY <1>1, <1>2, <3>1
  <2>2. n * d < 0 /\ -(n * d) = n * (-d)
    <3>1. n * d + n * (-d) = 0
      BY <1>1
    <3>2. n * (-d) > 0
      BY <2>1, Signs
    <3> QED
      BY <1>1, <2>1, <3>1, <3>2
  <2>3. (n * (-d)) * Scale = n * ((-d) * Scale)
    BY <1>1, <2>1
  <2> DEFINE e == (-d) * Scale
  <2>4. /\ RateError([art |-> n * Cycles, real |-> n * v])
           = -((n * e) \div (n * Cycles))
        /\ RateError([art |-> Cycles, real |-> v]) = -(e \div Cycles)
    BY <1>1, <1>2, <2>2, <2>3 DEF RateError
  <2> HIDE DEF d, e
  <2>5. (n * e) \div (n * Cycles) = e \div Cycles /\ e \div Cycles \in Nat
    <3>1. e \in Nat
      BY <2>1 DEF e
    <3> QED
      BY <1>1, <3>1, QuotientScaled, Quotient
  <2> QED
    BY <2>4, <2>5
<1>3. CASE ~(d < 0)
  <2>1. d \in Nat /\ d * Scale \in Nat /\ n * d \in Nat
    <3>1. \A x, y \in Nat : x * y \in Nat
      OBVIOUS
    <3> QED
      BY <1>1, <1>3, <3>1
  <2>2. (n * d) * Scale = n * (d * Scale)
    BY <1>1, <2>1
  <2> DEFINE e == d * Scale
  <2>3. /\ RateError([art |-> n * Cycles, real |-> n * v])
           = (n * e) \div (n * Cycles)
        /\ RateError([art |-> Cycles, real |-> v]) = e \div Cycles
    BY <1>1, <1>3, <2>1, <2>2 DEF RateError
  <2> HIDE DEF d, e
  <2>4. (n * e) \div (n * Cycles) = e \div Cycles /\ e \div Cycles \in Nat
    <3>1. e \in Nat
      BY <2>1 DEF e
    <3> QED
      BY <1>1, <3>1, QuotientScaled, Quotient
  <2> QED
    BY <2>3, <2>4
<1> QED
  BY <1>2, <1>3

\* A step of 3/10 towards a number does not pass it.
LEMMA Towards ==
    ASSUME NEW own \in Int, NEW old \in IF own < 0 THEN own..0 ELSE 0..own
    PROVE  old + Divide((own - old) * 3, 10) \in IF own < 0 THEN own..0 ELSE 0..own
<1>1. \A k \in Nat : (k * 3) \div 10 \in 0..k
  OBVIOUS
<1>2. old \in Int
  OBVIOUS
<1>3. CASE own < 0
  <2>1. /\ old - own \in Nat /\ (own - old) * 3 = -((old - own) * 3)
        /\ -((own - old) * 3) = (old - own) * 3
    BY <1>2, <1>3
  <2>2. ((old - own) * 3) \div 10 \in 0..(old - own)
    BY <1>1, <2>1
  <2>3. Divide((own - old) * 3, 10) = -(((old - own) * 3) \div 10)
    <3>1. CASE (own - old) * 3 < 0
      BY <2>1, <3>1 DEF Divide
    <3>2. CASE ~((own - old) * 3 < 0)
      <4>1. old = own
        BY <1>2, <1>3, <2>1, <3>2
      <4>2. old - own = 0 /\ own - old = old - own
        BY <1>2, <4>1
      <4> DEFINE q == ((old - own) * 3) \div 10
      <4>3. Divide((own - old) * 3, 10) = q
        BY <3>2, <4>2 DEF Divide
      <4>4. q \in 0..0
        BY <2>2, <4>2
      <4> HIDE DEF q
      <4>5. \A k \in Int : k >= 0 /\ k <= 0 => k = -k
        OBVIOUS
      <4>6. q \in Int /\ q >= 0 /\ q <= 0
        BY <4>4
      <4>7. q = -q
        BY <4>5, <4>6
      <4> QED
        BY <4>3, <4>7 DEF q
    <3> QED
      BY <3>1, <3>2
  <2> QED
    BY <1>2, <1>3, <2>1, <2>2, <2>3
<1>4. CASE ~(own < 0)
  <2>1. own - old \in Nat /\ ~((own - old) * 3 < 0)
    BY <1>2, <1>4
  <2>2. Divide((own - old) * 3, 10) \in 0..(own - old)
    BY <1>1, <2>1 DEF Divide
  <2> QED
    BY <1>2, <1>4, <2>1, <2>2
<1> QED
  BY <1>3, <1>4

\* The clock itself is no tick and no jump behind.
LEMMA HereBehind ==
    ASSUME Types, NEW jumps, 0 \in jumps PROVE Behind(jumps, Here)
<1>1. /\ 0 \in 0..ticks /\ 0 * Cycles = 0 /\ 0 * speed = 0
      /\ art \in Nat /\ real \in Int
  BY ConstantTypes DEF Types
<1>2. Here.art = art /\ Here.real = real
  BY DEF Here
<1>3. BehindBy(Here, 0, 0)
  BY <1>1, <1>2 DEF BehindBy
<1> QED
  BY <1>1, <1>3 DEF Behind

\* What is known stays where it is as long as the clock does.
LEMMA SpacedKept ==
    ASSUME NEW jumps, Spaced(jumps), Known' \subseteq Known, Here' = Here,
           UNCHANGED <<ticks, speed, art, real>>
    PROVE  Spaced(jumps)'
  BY DEF Spaced, Behind, BehindBy, Old

\* A tick puts all that is known another tick behind.
LEMMA CalTick ==
    ASSUME Types, NEW jumps, StepsAddUp(jumps), CalInv(jumps), mode = "art", Tick
    PROVE  CalInv(jumps)'
<1>1. /\ Epochs /\ Bracketed /\ Slotted /\ Spaced(jumps) /\ EmaSpansNoStep
      /\ speed \in Speeds /\ 0 \in jumps /\ jumps \subseteq Int
  BY DEF CalInv, StepsAddUp
<1>2. /\ art' = art + Cycles /\ real' = real + speed /\ ticks' = ticks + 1
      /\ UNCHANGED <<mode, speed, ring, head, count, best, ema>> /\ best = NoSample
  BY <1>1 DEF Tick, Bracketed
<1>3. /\ art \in Nat /\ real \in Int /\ ticks \in Nat /\ speed \in Nat
      /\ Cycles \in Nat
  BY ConstantTypes DEF Types
<1>4. Epochs' /\ Bracketed' /\ Types' /\ (Old(Here') <=> Old(Here))
  BY <1>1, TickEpochs, TickOld, TypesStep DEF Next
<1>5. Held \subseteq Known /\ Known' = {Here'} \cup Held
  BY <1>2 DEF Known, Held
<1>6. ASSUME NEW s \in Held, Old(s) <=> Old(Here) PROVE Behind(jumps, s)'
  <2>1. PICK n \in 0..ticks, j \in jumps : BehindBy(s, n, j)
    BY <1>1, <1>5, <1>6 DEF Spaced, Behind
  <2>2. s.art \in Nat /\ s.real \in Int /\ n \in Nat /\ j \in Int /\ n <= ticks
    BY <1>1, <1>3, <1>5, <2>1, KnownType DEF Samples
  <2>3. /\ (n + 1) * Cycles = n * Cycles + Cycles /\ n * Cycles \in Int
        /\ (n + 1) * speed = n * speed + speed /\ n * speed \in Int
    <3>1. 1 * Cycles = Cycles /\ 1 * speed = speed
      BY <1>3
    <3> QED
      BY <1>3, <2>2, <3>1, Products
  <2>4. /\ (art + Cycles) - s.art = (n + 1) * Cycles
        /\ (real + speed) - s.real = (n + 1) * speed + j
    <3> DEFINE x == n * Cycles
               y == n * speed
    <3>1. art - s.art = x /\ real - s.real = y + j /\ x \in Int /\ y \in Int
      BY <2>1, <2>3 DEF BehindBy
    <3> HIDE DEF x, y
    <3>2. /\ (art + Cycles) - s.art = x + Cycles
          /\ (real + speed) - s.real = (y + speed) + j
      BY <1>3, <2>2, <3>1
    <3> QED
      BY <2>3, <3>2 DEF x, y
  <2>5. BehindBy(s, n + 1, j)'
    BY <1>2, <2>4 DEF BehindBy
  <2>6. n + 1 \in 0..ticks'
    BY <1>2, <1>3, <2>2
  <2> QED
    BY <2>5, <2>6 DEF Behind, BehindBy
<1>7. Behind(jumps, Here)'
  <2>1. /\ 0 \in 0..ticks' /\ 0 * Cycles = 0 /\ 0 * speed = 0
        /\ art' \in Nat /\ real' \in Int
    BY <1>2, <1>3
  <2>2. Here'.art = art' /\ Here'.real = real'
    BY DEF Here
  <2>3. art' - Here'.art = 0 * Cycles /\ real' - Here'.real = 0 * speed' + 0
    BY <1>2, <2>1, <2>2
  <2> QED
    BY <1>1, <2>1, <2>3 DEF Behind, BehindBy
<1>8. Spaced(jumps)'
  BY <1>4, <1>5, <1>6, <1>7 DEF Spaced, Behind, BehindBy, Old
<1> QED
  BY <1>1, <1>2, <1>4, <1>8 DEF CalInv, Slotted, EmaSpansNoStep

\* A step of the clock puts it a jump behind,
LEMMA CalSet ==
    ASSUME Types, NEW jumps, StepsAddUp(jumps), CalInv(jumps), mode = "art", Step
    PROVE  CalInv(jumps)'
<1>1. /\ Epochs /\ Bracketed /\ Slotted /\ Spaced(jumps) /\ EmaSpansNoStep
      /\ speed \in Speeds /\ 0 \in jumps /\ jumps \subseteq Int
      /\ Steps \subseteq jumps /\ \A i, j \in jumps : i - j \in jumps
  BY DEF CalInv, StepsAddUp
<1>2. PICK d \in Steps : real' = real + d
  BY DEF Step
<1>3. /\ UNCHANGED <<mode, ticks, art, speed, ring, head, count, best, ema>>
      /\ Here.art = art /\ Here'.art = art /\ Here'.real = real + d
      /\ Here.real = real /\ real \in Int /\ d \in Int /\ d \in jumps
  BY <1>1, <1>2 DEF Step, Here, Types
<1>4. Epochs' /\ Bracketed'
  BY <1>1, SetEpochs
<1>5. Known' \subseteq Known \cup {Here'} /\ (Old(Here') <=> Old(Here))
  BY <1>3 DEF Known, Held, Old
<1>6. ASSUME NEW s \in Known, Old(s) <=> Old(Here) PROVE Behind(jumps, s)'
  <2>1. PICK n \in 0..ticks, j \in jumps : BehindBy(s, n, j)
    BY <1>1, <1>6 DEF Spaced, Behind
  <2>2. s.real \in Int /\ j \in Int /\ n * speed \in Int
    <3>1. s.real \in Int
      BY KnownType DEF Samples
    <3>2. n \in Int /\ speed \in Int
      BY DEF Types
    <3> QED
      BY <1>1, <3>1, <3>2, Products
  <2>3. j + d \in jumps
    <3>1. 0 - d \in jumps
      BY <1>1, <1>3
    <3>2. j - (0 - d) \in jumps /\ j - (0 - d) = j + d
      BY <1>1, <1>3, <2>2, <3>1
    <3> QED
      BY <3>2
  <2>4. (real + d) - s.real = n * speed + (j + d)
    <3> DEFINE y == n * speed
    <3>1. real - s.real = y + j /\ y \in Int
      BY <2>1, <2>2 DEF BehindBy
    <3> HIDE DEF y
    <3>2. (real + d) - s.real = y + (j + d)
      BY <1>3, <2>2, <3>1
    <3> QED
      BY <3>2 DEF y
  <2>5. BehindBy(s, n, j + d)'
    BY <1>2, <1>3, <2>1, <2>4 DEF BehindBy
  <2> QED
    BY <1>3, <2>3, <2>5 DEF Behind, BehindBy
<1>7. Behind(jumps, Here)'
  <2>1. /\ 0 \in 0..ticks /\ 0 * Cycles = 0 /\ 0 * speed = 0
        /\ art \in Nat /\ real + d \in Int
    BY <1>3, ConstantTypes DEF Types
  <2>2. art' - Here'.art = 0 * Cycles /\ real' - Here'.real = 0 * speed' + 0
    BY <1>2, <1>3, <2>1
  <2> QED
    BY <1>1, <1>3, <2>1, <2>2 DEF Behind, BehindBy
<1>8. Spaced(jumps)'
  BY <1>5, <1>6, <1>7 DEF Spaced, Behind, BehindBy, Old
<1> QED
  BY <1>1, <1>3, <1>4, <1>8 DEF CalInv, Slotted, EmaSpansNoStep

\* and one of the counter leaves nothing of the clock's own epoch.
LEMMA CalRestart ==
    ASSUME Types, NEW jumps, StepsAddUp(jumps), CalInv(jumps), mode = "art", Restart
    PROVE  CalInv(jumps)'
<1>1. /\ Epochs /\ Bracketed /\ Slotted /\ Spaced(jumps) /\ EmaSpansNoStep
      /\ speed \in Speeds /\ 0 \in jumps
  BY DEF CalInv, StepsAddUp
<1>2. /\ UNCHANGED <<mode, ticks, real, speed, ring, head, count, best, ema>>
      /\ best = NoSample /\ art' = 0
  BY <1>1 DEF Restart, Bracketed
<1>3. Epochs' /\ Bracketed'
  BY <1>1, RestartEpochs
<1>4. ~Old(Here') /\ \A s \in Held : Old(s)
  BY <1>1, RestartOld
<1>5. Known' = {Here'} \cup Held
  BY <1>2 DEF Known, Held
<1>6. Behind(jumps, Here)'
  <2>1. /\ 0 \in 0..ticks /\ 0 * Cycles = 0 /\ 0 * speed = 0 /\ real \in Int
    BY ConstantTypes DEF Types
  <2>2. Here'.art = 0 /\ Here'.real = real
    BY <1>2 DEF Here
  <2>3. art' - Here'.art = 0 * Cycles /\ real' - Here'.real = 0 * speed' + 0
    BY <1>2, <2>1, <2>2
  <2> QED
    BY <1>1, <1>2, <2>1, <2>3 DEF Behind, BehindBy
<1>7. Spaced(jumps)'
  BY <1>4, <1>5, <1>6 DEF Spaced, Behind, BehindBy, Old
<1> QED
  BY <1>1, <1>2, <1>3, <1>7 DEF CalInv, Slotted, EmaSpansNoStep

\* The brackets add no sample but the clock itself.
LEMMA CalBracket ==
    ASSUME Types, NEW jumps, CalInv(jumps), mode = "art",
           \/ SampleBegin \/ BracketSpoilt \/ BracketTight \/ BracketLoose
           \/ SampleFailed
    PROVE  CalInv(jumps)'
<1>1. Epochs /\ Bracketed /\ Slotted /\ Spaced(jumps) /\ EmaSpansNoStep
      /\ speed \in Speeds
  BY DEF CalInv
<1>2. UNCHANGED <<mode, clock, window>> /\ Here' = Here
  BY DEF SampleBegin, BracketSpoilt, BracketTight, BracketLoose, SampleFailed, Here
<1>3. Epochs' /\ Bracketed' /\ Known' \subseteq Known
  BY <1>1, BracketEpochs
<1>4. Spaced(jumps)'
  BY <1>1, <1>2, <1>3, SpacedKept
<1> QED
  BY <1>1, <1>2, <1>3, <1>4 DEF CalInv, Slotted, EmaSpansNoStep

\* A sample that is later than the oldest is of the oldest's epoch, and a
\* whole number of ticks and a jump lie between them.
LEMMA WindowBehind ==
    ASSUME Types, NEW jumps, StepsAddUp(jumps), Epochs, Spaced(jumps),
           NEW s \in Known, Old(s) <=> Old(Here), count > 0, Later(s)
    PROVE  \E n \in 1..MaxTime, j \in jumps :
              Window(s) = [art |-> n * Cycles, real |-> n * speed + j]
<1>1. /\ Oldest \in Known /\ Oldest \in Samples /\ s \in Samples
      /\ s.art > Oldest.art
  BY OldestHeld, KnownType DEF Known, Later
<1>2. /\ s.art \in Nat /\ s.real \in Int /\ Oldest.art \in Nat /\ Oldest.real \in Int
      /\ art \in Nat /\ real \in Int /\ ticks \in Nat /\ ticks <= MaxTime
      /\ MaxTime \in Nat /\ Cycles \in Nat \ {0} /\ speed \in Nat
      /\ MaxTime * Cycles \in Int
  BY <1>1, ConstantTypes, Products DEF Types, Samples
<1>3. Old(Oldest) <=> Old(Here)
  <2>1. Old(Here) => Old(Oldest)
    BY <1>1 DEF Epochs
  <2>2. Old(Oldest) => Old(s)
    BY <1>1, <1>2 DEF Old
  <2> QED
    BY <2>1, <2>2
<1>4. PICK n \in 0..ticks, j \in jumps : BehindBy(s, n, j)
  BY DEF Spaced, Behind
<1>5. PICK m \in 0..ticks, i \in jumps : BehindBy(Oldest, m, i)
  BY <1>1, <1>3 DEF Spaced, Behind
<1>6. n \in Nat /\ m \in Nat /\ i \in Int /\ j \in Int /\ m <= ticks /\ i - j \in jumps
  BY <1>2 DEF StepsAddUp
<1>7. /\ (m - n) * Cycles = m * Cycles - n * Cycles
      /\ (m - n) * speed = m * speed - n * speed
      /\ m * Cycles \in Int /\ n * Cycles \in Int
      /\ m * speed \in Int /\ n * speed \in Int
  BY <1>2, <1>6, Products
<1>8. /\ s.art - Oldest.art = (m - n) * Cycles
      /\ s.real - Oldest.real = (m - n) * speed + (i - j)
  <2> DEFINE a == m * Cycles
             b == n * Cycles
             c == m * speed
             d == n * speed
  <2>1. /\ art - s.art = b /\ real - s.real = d + j
        /\ art - Oldest.art = a /\ real - Oldest.real = c + i
    BY <1>4, <1>5 DEF BehindBy
  <2>2. a \in Int /\ b \in Int /\ c \in Int /\ d \in Int
    BY <1>7
  <2> HIDE DEF a, b, c, d
  <2>3. /\ s.art - Oldest.art = a - b
        /\ s.real - Oldest.real = (c - d) + (i - j)
    BY <1>2, <1>6, <2>1, <2>2
  <2> QED
    BY <1>7, <2>3 DEF a, b, c, d
<1>9. m - n \in 1..MaxTime
  <2> DEFINE k == m - n
  <2>1. k \in Int /\ k <= MaxTime
    BY <1>2, <1>6
  <2>2. k * Cycles > 0
    BY <1>1, <1>2, <1>8
  <2> HIDE DEF k
  <2>3. ~(k <= 0)
    BY <1>2, <2>1, <2>2, Signs
  <2>4. k \in 1..MaxTime
    BY <1>2, <2>1, <2>3
  <2> QED
    BY <2>4 DEF k
<1>10. Window(s) = [art |-> (m - n) * Cycles, real |-> (m - n) * speed + (i - j)]
  BY <1>8 DEF Window
<1> QED
  BY <1>6, <1>9, <1>10

\* The work with a sample: what goes into the average is the clock's own error.
LEMMA CalUse ==
    ASSUME Types, NEW jumps, StepsAddUp(jumps), JumpsShow(jumps), CalInv(jumps),
           mode = "art", NEW s \in Known, Old(s) <=> Old(Here),
           Use(s), UNCHANGED <<mode, paired, clock>>
    PROVE  CalInv(jumps)'
<1>1. /\ Epochs /\ Bracketed /\ Slotted /\ Spaced(jumps) /\ EmaSpansNoStep
      /\ speed \in Speeds /\ s \in Samples
  BY KnownType DEF CalInv
<1>2. /\ UseCalibration(s) /\ pc' = "idle" /\ best' = NoSample /\ Here' = Here
      /\ UNCHANGED <<mode, ticks, speed, art, real, seq>>
  BY DEF Use, Finish, Here
<1>3. Bracketed'
  BY <1>2 DEF Bracketed
<1>4. ASSUME Held' \subseteq Held \cup {s} PROVE Epochs' /\ Spaced(jumps)'
  <2>1. Known' \subseteq Known
    BY <1>2, <1>4 DEF Known
  <2>2. Epochs'
    BY <1>1, <1>2, <2>1 DEF Epochs, Old
  <2> QED
    BY <1>1, <1>2, <2>1, <2>2, SpacedKept
<1>5. CASE CalFirst(s)
  <2>1. Held' = {s} /\ (count' < Ring => head' = count') /\ ema' = ema
    BY <1>1, <1>5, AloneHeld DEF CalFirst
  <2> QED
    BY <1>1, <1>2, <1>3, <1>4, <2>1 DEF CalInv, Slotted, EmaSpansNoStep
<1>6. CASE CalReversed(s)
  <2>1. count' = 0 /\ ema' = ema
    BY <1>6 DEF CalReversed
  <2>2. Held' = {}
    BY <2>1 DEF Held, Slots
  <2> QED
    BY <1>1, <1>2, <1>3, <1>4, <2>1, <2>2 DEF CalInv, Slotted, EmaSpansNoStep
<1>7. CASE CalMeasure(s)
  <2> DEFINE error == RateError(Window(s))
             long == Window(s).real >= CalWindow
  <2>1. count > 0 /\ Later(s)
    BY <1>7 DEF CalMeasure
  <2>2. Held' \subseteq Held \cup {s} /\ Slotted'
    <3>1. CASE long /\ Beyond(error)
      <4>1. count' = 0
        BY <1>7, <3>1 DEF CalMeasure
      <4> QED
        BY <4>1 DEF Held, Slots, Slotted
    <3>2. CASE ~(long /\ Beyond(error))
      <4>1. Store(s) /\ (count < Ring => head = count)
        BY <1>1, <1>7, <2>1, <3>2 DEF CalMeasure, Store, Slotted
      <4> QED
        BY <1>1, <4>1, StoreHeld DEF Slotted
    <3> QED
      BY <3>1, <3>2
  <2>3. CASE long /\ ~Beyond(error)
    <3>1. PICK n \in 1..MaxTime, j \in jumps :
             Window(s) = [art |-> n * Cycles, real |-> n * speed + j]
      BY <1>1, <2>1, WindowBehind
    <3>2. j = 0
      <4>1. Window(s).real = n * speed + j
        BY <3>1
      <4> QED
        BY <1>1, <2>3, <3>1, <4>1 DEF JumpsShow
    <3>3. error = Own /\ Own \in Int
      <4>1. n \in Nat \ {0} /\ speed \in Nat /\ n * speed \in Int
        BY <3>1, ConstantTypes, Products DEF Types
      <4>2. Window(s) = [art |-> n * Cycles, real |-> n * speed]
        <5>1. n * speed + j = n * speed
          BY <3>2, <4>1
        <5> QED
          BY <3>1, <5>1
      <4> QED
        BY <4>1, <4>2, OwnError DEF Own
    <3>4. ema' = ema + Divide((Own - ema) * 3, 10)
      BY <1>7, <2>3, <3>3 DEF CalMeasure
    <3>5. ema \in IF Own < 0 THEN Own..0 ELSE 0..Own
      BY <1>1 DEF EmaSpansNoStep, Own
    <3>6. ema' \in IF Own < 0 THEN Own..0 ELSE 0..Own
      BY <3>3, <3>4, <3>5, Towards
    <3>7. EmaSpansNoStep'
      BY <1>2, <3>6 DEF EmaSpansNoStep, Own
    <3> QED
      BY <1>1, <1>2, <1>3, <1>4, <2>2, <3>7 DEF CalInv
  <2>4. CASE ~(long /\ ~Beyond(error))
    <3>1. ema' = ema
      BY <1>7, <2>4 DEF CalMeasure
    <3> QED
      BY <1>1, <1>2, <1>3, <1>4, <2>2, <3>1 DEF CalInv, EmaSpansNoStep
  <2> QED
    BY <2>3, <2>4
<1> QED
  BY <1>2, <1>5, <1>6, <1>7 DEF UseCalibration

\* The calibration starts with no sample and no error.
LEMMA CalInitially == ASSUME NEW jumps, StepsAddUp(jumps) PROVE Init => CalInv(jumps)
<1> SUFFICES ASSUME Init PROVE CalInv(jumps)
  OBVIOUS
<1>1. Types /\ 0 \in jumps /\ speed \in Speeds /\ ema = 0 /\ count = 0
  BY RateInitially DEF Init, StepsAddUp
<1>2. Held = {} /\ Known = {Here}
  BY DEF Init, Held, Known, Slots
<1>3. Epochs
  <2>1. (MaxTime + 1) * Cycles \in Nat /\ (MaxTime + 1) * Cycles > MaxTime * Cycles
    <3>1. (MaxTime + 1) * Cycles = MaxTime * Cycles + 1 * Cycles
      BY ConstantTypes, Products
    <3>2. MaxTime * Cycles \in Int /\ 1 * Cycles = Cycles
      BY ConstantTypes, Products
    <3>3. art \in Nat /\ art = (MaxTime + 1) * Cycles
      BY <1>1 DEF Init, Types
    <3> QED
      BY <3>1, <3>2, <3>3, ConstantTypes
  <2> QED
    BY <1>2, <2>1 DEF Init, Epochs, Old, Here
<1>4. Bracketed /\ Slotted
  BY <1>1 DEF Init, Bracketed, Slotted
<1>5. Spaced(jumps)
  BY <1>1, <1>2, HereBehind DEF Spaced
<1>6. Own \in Int
  <2>1. 1 \in Nat \ {0} /\ speed \in Nat
    BY <1>1, CalTypes
  <2> QED
    BY <2>1, OwnError, Zenon DEF Own
<1>7. EmaSpansNoStep
  <2>1. 0 \in (IF Own < 0 THEN Own..0 ELSE 0..Own)
    BY <1>6
  <2> QED
    BY <1>1, <2>1 DEF EmaSpansNoStep, Own
<1> QED
  BY <1>1, <1>3, <1>4, <1>5, <1>7 DEF CalInv

\* Every step keeps what the calibration knows of the clock.
LEMMA CalStep ==
    ASSUME NEW jumps, StepsAddUp(jumps), JumpsShow(jumps)
    PROVE  Types /\ CalInv(jumps) /\ [Next]_vars => CalInv(jumps)'
<1> SUFFICES ASSUME Types, CalInv(jumps), [Next]_vars PROVE CalInv(jumps)'
  OBVIOUS
<1>1. CASE mode # "art"
  <2>1. mode = "realtime" /\ ema = 0 /\ speed \in Speeds /\ EmaSpansNoStep
    BY <1>1 DEF CalInv, Types
  <2>2. UNCHANGED <<mode, speed, ema>>
    BY <2>1
    DEF Next, Tick, Step, Restart, Sample, Horizon, SampleAtOnce, SampleBegin,
        BracketSpoilt, BracketTight, BracketLoose, SampleDone, SampleFailed,
        Use, UseRealtime
  <2> QED
    BY <2>1, <2>2 DEF CalInv, EmaSpansNoStep
<1>2. CASE mode = "art"
  <2>1. /\ Epochs /\ Here \in Known /\ (best # NoSample => best \in Known)
    BY <1>2 DEF CalInv, Known
  <2>2. CASE SampleAtOnce
    BY <1>2, <2>1, <2>2, CalUse DEF SampleAtOnce
  <2>3. CASE SampleDone
    BY <1>2, <2>1, <2>3, CalUse DEF SampleDone, Epochs
  <2>4. CASE UNCHANGED vars
    BY <2>4 DEF CalInv, Epochs, Bracketed, Slotted, Spaced, Behind, BehindBy,
                Known, Held, Here, Old, EmaSpansNoStep
  <2> QED
    BY <1>2, <2>2, <2>3, <2>4, CalTick, CalSet, CalRestart, CalBracket
    DEF Next, Sample, Horizon
<1> QED
  BY <1>1, <1>2

\* tgpio_art_refine_work_fn tells a step of CLOCK_REALTIME from its rate by an
\* error over 100 ppm alone, and nothing else guards its ring.  When steps
\* are large enough to be told so, over every window, the average stays between
\* no error and the clock's own: however steps, restarts of the counter that the
\* kernel counts or not, and brackets interleave.
THEOREM EmaIsOwn ==
    ASSUME NEW jumps, StepsAddUp(jumps), JumpsShow(jumps)
    PROVE  Spec => []EmaSpansNoStep
<1>1. Types /\ CalInv(jumps) => EmaSpansNoStep
  BY DEF CalInv
<1>2. Init => Types /\ CalInv(jumps)
  BY RateInitially, CalInitially
<1>3. Types /\ CalInv(jumps) /\ [Next]_vars => (Types /\ CalInv(jumps))'
  BY TypesStep, CalStep
<1> QED
  BY <1>1, <1>2, <1>3, PTL DEF Spec
=============================================================================
