------------------------- MODULE SupervisionProofs -------------------------
(***************************************************************************)
(* Proofs about Supervision, for any waveforms, first edges, delays and    *)
(* numbers of events: type correctness, that the watchdog warns once and   *)
(* truly, and that in loopback an inverted output is found out and a right *)
(* mirror is not flipped.                                                  *)
(*                                                                         *)
(* What can go wrong is a matter of time, and so are the hypotheses:       *)
(* Bounded says that no compare is further ahead than the watchdog is      *)
(* patient, InTime that output_work is done before the captures it set     *)
(* right have been used up.  A stop may keep the work for seconds while it *)
(* drains: InTime does not bound that, and what the polarity check does    *)
(* is proved while no drain has outlasted the next request's lead.         *)
(***************************************************************************)
EXTENDS Supervision, TLAPS

USE DEF block, desired, work, polarity, watchdog, vars

\* What the assumptions on the constants say of each
LEMMA Constants ==
    /\ RefPhase \in Nat /\ WorkLate \in Nat /\ FlipWait \in Nat
    /\ DrainWait \in Nat /\ PollLate \in Nat
    /\ Lead \in Nat /\ Watch \in Nat \ {0} /\ MaxTime \in Nat /\ MaxEvents \in Nat
    /\ \A s \in Shapes : s.high \in Nat \ {0} /\ s.low \in Nat \ {0}
    /\ \A f \in Firsts : f \in Nat
  BY ShapeAssumption, DelayAssumption

\* Quotient and remainder, and products
LEMMA Divided ==
    ASSUME NEW x \in Int, NEW m \in Nat \ {0}
    PROVE  /\ x \div m \in Int /\ x % m \in Nat /\ x % m < m
           /\ x = (x \div m) * m + (x % m)
  OBVIOUS

\* Every number has one quotient and one remainder.
LEMMA Multiple ==
    \A m \in Nat \ {0}, i \in Int, r \in Nat : r < m => (i * m + r) % m = r
  OBVIOUS

\* Products distribute over sums.
LEMMA Distributes ==
    \A i, j, k \in Int : i * k \in Int /\ (i + j) * k = i * k + j * k
  OBVIOUS

\* Whole periods change no remainder.
LEMMA WholePeriods ==
    ASSUME NEW x \in Int, NEW n \in Int, NEW m \in Nat \ {0}
    PROVE  n * m \in Int /\ (x + n * m) % m = x % m
<1> DEFINE q == x \div m
           r == x % m
<1>1. q \in Int /\ r \in Nat /\ r < m /\ x = q * m + r
  BY Divided
<1> HIDE DEF q, r
<1>2. q * m \in Int /\ n * m \in Int /\ (q + n) * m = q * m + n * m
  BY <1>1, Distributes
<1>3. x + n * m = (q + n) * m + r /\ q + n \in Int
  BY <1>1, <1>2
<1>4. ((q + n) * m + r) % m = r
  BY <1>1, <1>3, Multiple
<1> QED
  BY <1>2, <1>3, <1>4 DEF r

\* Nor does one.
LEMMA OnePeriod ==
    ASSUME NEW x \in Int, NEW m \in Nat \ {0}
    PROVE  (x - m) % m = x % m /\ (x + m) % m = x % m
<1>a. 1 \in Int /\ x - m \in Int
  OBVIOUS
<1>1. (x + 1 * m) % m = x % m
  BY <1>a, WholePeriods, Zenon
<1>2. ((x - m) + 1 * m) % m = (x - m) % m
  BY <1>a, WholePeriods, Zenon
<1>3. 1 * m = m /\ (x - m) + 1 * m = x
  OBVIOUS
<1> QED
  BY <1>1, <1>2, <1>3

\* Is e the first edge after b of a grid of period p that begins at f?
First(b, f, p, e) ==
    /\ e >= f /\ (e - f) % p = 0
    /\ \A d \in (b + 1)..(e - 1) : d < f \/ (d - f) % p # 0

\* There is one within the range NextEdge looks in,
LEMMA FirstExists ==
    ASSUME NEW b \in Nat, NEW f \in Nat, NEW p \in Nat \ {0}
    PROVE  \E e \in (b + 1)..(b + p + f) : First(b, f, p, e)
<1>1. CASE f > b
  <2>1. f \in (b + 1)..(b + p + f) /\ f - f = 0
    BY <1>1
  <2>2. 0 % p = 0
    <3>1. (0 * p + 0) % p = 0
      BY Multiple
    <3> QED
      BY <3>1
  <2>3. \A d \in (b + 1)..(f - 1) : d < f
    OBVIOUS
  <2> QED
    BY <2>1, <2>2, <2>3 DEF First
<1>2. CASE f <= b
  <2> DEFINE x == b - f
             q == x \div p
             r == x % p
             t == q * p
             e == f + t + p
  <2>1. x \in Nat /\ q \in Int /\ r \in Nat /\ r < p /\ x = t + r
    BY <1>2, Divided
  <2>2. t \in Int /\ (q + 1) * p = t + p /\ (t + p) % p = 0
    <3>1. q + 1 \in Int /\ q * p \in Int /\ (q + 1) * p = q * p + 1 * p /\ 1 * p = p
      BY <2>1, Distributes
    <3>2. ((q + 1) * p + 0) % p = 0
      BY <3>1, Multiple
    <3> QED
      BY <3>1, <3>2
  <2>3. \A c \in Int : t < c /\ c < t + p => c % p # 0
    <3> SUFFICES ASSUME NEW c \in Int, t < c, c < t + p PROVE c % p # 0
      OBVIOUS
    <3>1. c - t \in Nat /\ c - t < p /\ c - t # 0
      BY <2>2
    <3>2. (q * p + (c - t)) % p = c - t
      BY <2>1, <3>1, Multiple
    <3>3. q * p + (c - t) = c
      BY <2>2
    <3> QED
      BY <3>1, <3>2, <3>3
  <2>a. x = b - f
    OBVIOUS
  <2>b. e = f + t + p
    OBVIOUS
  <2> HIDE DEF q, r, x, t, e
  <2>4. e \in (b + 1)..(b + p + f) /\ e - f = t + p /\ e >= f
    BY <1>2, <2>1, <2>2, <2>a, <2>b
  <2>5. \A d \in (b + 1)..(e - 1) : d - f \in Int /\ t < d - f /\ d - f < t + p
    BY <1>2, <2>1, <2>2, <2>4, <2>a, <2>b
  <2>6. \A d \in (b + 1)..(e - 1) : (d - f) % p # 0
    BY <2>3, <2>5
  <2> QED
    BY <2>2, <2>4, <2>6 DEF First
<1> QED
  BY <1>1, <1>2

\* the first of the grid or at most a period away.
LEMMA FirstBounded ==
    ASSUME NEW b \in Nat, NEW f \in Nat, NEW p \in Nat \ {0},
           NEW e \in (b + 1)..(b + p + f), First(b, f, p, e)
    PROVE  e <= f \/ e <= b + p
<1> SUFFICES ASSUME e > f, e > b + p PROVE FALSE
  OBVIOUS
<1>1. e - p \in (b + 1)..(e - 1) /\ e - f \in Int
  OBVIOUS
<1>2. (e - p) - f = (e - f) - p
  OBVIOUS
<1>3. ((e - f) - p) % p = (e - f) % p
  BY <1>1, OnePeriod
<1>4. e - p < f
  BY <1>1, <1>2, <1>3 DEF First
<1>5. e - f \in Nat /\ e - f < p /\ e - f # 0
  BY <1>4
<1>6. (0 * p + (e - f)) % p = e - f
  BY <1>5, Multiple
<1>7. 0 * p + (e - f) = e - f
  OBVIOUS
<1> QED
  BY <1>5, <1>6, <1>7 DEF First

\* The edge a reconcile plans lies on the requested grid, after the lead and
\* not after both the first edge asked for and one period more.
LEMMA EdgePlanned ==
    ASSUME now \in Nat, NEW w, w.first \in Nat, w.shape.high \in Nat \ {0},
           w.shape.low \in Nat \ {0}
    PROVE  LET e == NextEdge(w)
           IN  /\ e \in Nat /\ e > now + Lead /\ e >= w.first
               /\ (e - w.first) % Period(w.shape) = 0
               /\ e <= w.first \/ e <= now + Lead + Period(w.shape)
<1> DEFINE b == now + Lead
           f == w.first
           p == Period(w.shape)
           e == NextEdge(w)
<1>1. b \in Nat /\ f \in Nat /\ p \in Nat \ {0}
  BY Constants DEF Period
<1>2. e = CHOOSE n \in (b + 1)..(b + p + f) : First(b, f, p, n)
  BY DEF NextEdge, First
<1> HIDE DEF b, f, p, e
<1>3. e \in (b + 1)..(b + p + f) /\ First(b, f, p, e)
  BY <1>1, <1>2, FirstExists
<1>4. e <= f \/ e <= b + p
  BY <1>1, <1>3, FirstBounded
<1>5. e \in Nat /\ e > b /\ e >= f /\ (e - f) % p = 0
  BY <1>1, <1>3 DEF First
<1> QED
  BY <1>4, <1>5 DEF b, f, p, e

-----------------------------------------------------------------------------
(* Types *)

\* The values of the records,
Waveforms == Shapes \union {Off.shape}
Wants == [run : BOOLEAN, shape : Waveforms, first : Nat]

Records ==
    /\ want \in Wants
    /\ taken \in [want : Wants, gen : Nat, flip : Nat]
    /\ done \in [gen : Nat, flip : Nat]
    /\ capture \in [fresh : BOOLEAN, at : Nat]
    /\ history \in [inverted : Nat, disturbed : BOOLEAN, died : Nat, warnings : Nat]
    /\ shape \in Waveforms

\* the ranges of the other fields,
Fields ==
    /\ now \in 0..MaxTime /\ wiring \in Wirings
    /\ compv \in Nat /\ level \in BOOLEAN /\ alive \in BOOLEAN
    /\ phase \in {"off", "arm", "periodic", "duty"}
    /\ wrong \in BOOLEAN /\ edge \in Nat
    /\ gen \in Nat /\ flip \in Nat
    /\ queued \in BOOLEAN /\ pc \in {"idle", "drain", "shift", "config"}
    /\ since \in Nat /\ since <= now /\ capture.at <= now
    /\ streak \in 0..2 /\ cooldown \in 0..3
    /\ due \in Nat /\ due <= now + Watch /\ last \in Nat /\ stalls \in Nat
    /\ events \in 0..MaxEvents

\* and how they depend on each other: what is applied is not newer than what
\* was published, a copy of output_work lies between the two, and the phase
\* says what waveform is programmed.
Order ==
    /\ gen <= events /\ done.gen <= gen /\ done.flip <= flip
    /\ pc \in {"shift", "config"} =>
         /\ done.gen <= taken.gen /\ taken.gen <= gen
         /\ done.flip <= taken.flip /\ taken.flip <= flip
         /\ taken.want.run /\ taken.want.shape \in Shapes
         /\ 1 <= gen
         /\ taken.gen = gen => taken.want = want
    /\ pc = "config" => done.flip = taken.flip
    /\ pc = "shift" => phase = "periodic"
    /\ want.run => 1 <= gen /\ want.shape \in Shapes
    /\ phase # "off" => 1 <= gen /\ shape \in Shapes
    /\ phase = "periodic" => Symmetric(shape)
    /\ phase = "duty" => ~Symmetric(shape)

\* Type correctness, as an inductive invariant
TypeInv == Records /\ Fields /\ Order

\* Requests and the state of rest are of these types.
LEMMA WantsTyped ==
    /\ Off \in Wants
    /\ \A s \in Waveforms : s.high \in Nat \ {0} /\ s.low \in Nat \ {0}
    /\ \A s \in Shapes : s \in Waveforms
  BY ShapeAssumption DEF Wants, Waveforms, Off

\* All of them hold at load,
LEMMA TypeInitially == Init => TypeInv
<1> SUFFICES ASSUME Init PROVE TypeInv
  OBVIOUS
<1>1. Records
  BY WantsTyped
  DEF Init, Records, NoCopy, NoCapture, NoHistory, Off, Waveforms
<1>2. Fields
  <2>1. /\ level \in BOOLEAN /\ wrong \in BOOLEAN /\ alive \in BOOLEAN
        /\ queued \in BOOLEAN /\ wiring \in Wirings
    BY Zenon DEF Init
  <2>2. /\ now = 0 /\ compv = 0 /\ phase = "off" /\ edge = 0
        /\ gen = 0 /\ flip = 0 /\ pc = "idle" /\ since = 0
        /\ capture.at = 0 /\ streak = 0 /\ cooldown = 0
        /\ due = 0 /\ last = 0 /\ stalls = 0 /\ events = 0
    BY DEF Init, NoCapture
  <2> QED
    BY <2>1, <2>2, Constants DEF Fields
<1>3. Order
  BY DEF Init, Order, Off, NoCopy
<1> QED
  BY <1>1, <1>2, <1>3 DEF TypeInv

\* and no step changes the types of the records,
LEMMA RecordsStep == ASSUME TypeInv, [Next]_vars PROVE Records'
<1> USE DEF Records, ScheduleWork, Return
<1>0. Records
  BY DEF TypeInv
<1>a. /\ now \in Nat /\ compv \in Nat /\ gen \in Nat /\ flip \in Nat
      /\ taken.want \in Wants
  BY Constants DEF TypeInv, Fields
<1>b. want.shape \in Waveforms /\ taken.want.shape \in Waveforms
  BY <1>0 DEF Wants
<1>c. NoCopy \in [want : Wants, gen : Nat, flip : Nat]
  BY WantsTyped DEF NoCopy
<1>d. /\ taken.gen \in Nat /\ taken.flip \in Nat /\ done.gen \in Nat
      /\ done.flip \in Nat /\ history.inverted \in Nat
      /\ history.warnings \in Nat /\ history.died \in Nat
      /\ history.disturbed \in BOOLEAN
  BY <1>0
<1>1. CASE Tick
  <2>1. history' = history \/ history' = [history EXCEPT !.disturbed = TRUE]
    BY <1>1 DEF Tick
  <2>2. history' \in [inverted : Nat, disturbed : BOOLEAN, died : Nat,
                      warnings : Nat]
    BY <1>0, <2>1
  <2>3. capture' \in [fresh : BOOLEAN, at : Nat]
    BY <1>0, <1>1, <1>a DEF Tick
  <2>4. UNCHANGED <<want, taken, done, shape>>
    BY <1>1 DEF Tick
  <2> QED
    BY <1>0, <2>2, <2>3, <2>4
<1>2. CASE Die
  BY <1>0, <1>2, <1>a DEF Die
<1>3. ASSUME NEW s \in Shapes, NEW f \in Firsts, Request(s, f) PROVE Records'
  <2>1. now + f \in Nat
    BY <1>a, Constants
  <2>2. want' \in Wants
    BY <1>3, <2>1, WantsTyped DEF Request, Wants
  <2>3. history' \in [inverted : Nat, disturbed : BOOLEAN, died : Nat, warnings : Nat]
    BY <1>0, <1>3 DEF Request
  <2> QED
    BY <1>0, <1>3, <2>2, <2>3 DEF Request
<1>4. CASE Stop
  BY <1>0, <1>4, WantsTyped DEF Stop
<1>5. CASE UserFlip
  BY <1>0, <1>5 DEF UserFlip
<1>6. ASSUME ReadCapture, UNCHANGED <<want, taken, done, shape>> PROVE Records'
  <2>1. capture' \in [fresh : BOOLEAN, at : Nat]
    BY <1>6 DEF ReadCapture, NoCapture
  <2>2. history' \in [inverted : Nat, disturbed : BOOLEAN, died : Nat, warnings : Nat]
    BY <1>0, <1>6 DEF ReadCapture
  <2> QED
    BY <1>0, <1>6, <2>1, <2>2
<1>7. CASE CheckPassed \/ CheckReset \/ CheckCount \/ CheckFlip
  BY <1>6, <1>7 DEF CheckPassed, CheckReset, CheckCount, CheckFlip
<1>8. CASE WorkStop \/ WorkDrained
  BY <1>0, <1>8, <1>c DEF WorkStop, WorkDrained
<1>9. CASE WorkBegin
  <2>1. taken' \in [want : Wants, gen : Nat, flip : Nat]
    <3>1. taken' = [want |-> want, gen |-> gen, flip |-> flip]
      BY <1>9 DEF WorkBegin, Copy
    <3> QED
      BY <1>0, <1>a, <3>1
  <2>2. done' \in [gen : Nat, flip : Nat]
    BY <1>9, <1>a, <1>d DEF WorkBegin
  <2>3. shape' \in Waveforms
    BY <1>0, <1>9, <1>b DEF WorkBegin, Reconcile
  <2> QED
    BY <1>0, <1>9, <2>1, <2>2, <2>3 DEF WorkBegin
<1>10. CASE WorkShift
  BY <1>0, <1>10, <1>a, <1>d DEF WorkShift
<1>11. CASE WorkReconcile
  BY <1>0, <1>11, <1>b, <1>c, <1>d DEF WorkReconcile, Reconcile
<1>12. CASE WorkArm
  BY <1>0, <1>12, <1>c DEF WorkArm
<1>13. CASE WorkReturn
  BY <1>0, <1>13, <1>c DEF WorkReturn
<1>14. CASE Wake
  BY <1>0, <1>14 DEF Wake
<1>15. CASE WatchIdle \/ WatchAdvancing
  BY <1>0, <1>15 DEF WatchIdle, WatchAdvancing, WatchVisit
<1>16. CASE WatchStuck
  BY <1>0, <1>16, <1>d DEF WatchStuck, WatchVisit
<1>17. CASE UNCHANGED vars
  BY <1>0, <1>17
<1> QED
  BY <1>1, <1>2, <1>3, <1>4, <1>5, <1>7, <1>8, <1>9, <1>10, <1>11, <1>12,
     <1>13, <1>14, <1>15, <1>16, <1>17
  DEF Next, User, Poll, Work, WatchdogWork, Horizon

\* What a re-arm asks for, and where the first compare is put, are numbers.
LEMMA EdgeTyped ==
    ASSUME now \in Nat, NEW w \in Wants
    PROVE  /\ NextEdge(w) \in Nat /\ NextEdge(w) > now + Lead
           /\ NextEdge(w) >= w.first
           /\ (NextEdge(w) - w.first) % Period(w.shape) = 0
           /\ NextEdge(w) <= w.first \/ NextEdge(w) <= now + Lead + Period(w.shape)
<1>1. /\ w.first \in Nat /\ w.shape.high \in Nat \ {0}
      /\ w.shape.low \in Nat \ {0}
  BY WantsTyped DEF Wants
<1> QED
  BY <1>1, EdgePlanned

\* The late-arm guard moves a compare by whole periods, past now but not by
\* more than one.
LEMMA Pushed ==
    ASSUME TypeInv, NEW c \in Int
    PROVE  /\ PushLate(c) \in Nat /\ PushLate(c) > now
           /\ PushLate(c) = c \/ PushLate(c) <= now + Period(shape)
           /\ \A g \in Int :
                (PushLate(c) - g) % Period(shape) = (c - g) % Period(shape)
<1> DEFINE p == Period(shape)
           n == (now - c) \div p + 1
<1>1. now \in Nat /\ p \in Nat \ {0} /\ c \in Int
  BY WantsTyped DEF TypeInv, Fields, Records, Period
<1>2. PushLate(c) = IF c > now THEN c ELSE c + n * p
  BY DEF PushLate
<1>3. CASE c > now
  BY <1>1, <1>2, <1>3
<1>4. CASE c <= now
  <2> DEFINE x == now - c
             q == x \div p
  <2>a. x \in Int /\ p \in Nat \ {0}
    BY <1>1
  <2>1. q \in Int /\ x \in Int /\ x % p \in Nat /\ x % p < p /\ x = q * p + (x % p)
    BY <2>a, Divided, Zenon
  <2>2. n \in Int /\ n * p \in Int /\ n * p = q * p + p /\ q * p \in Int
    <3>1. n = q + 1
      OBVIOUS
    <3> HIDE DEF n, q, p
    <3>2. (q + 1) * p = q * p + 1 * p /\ 1 * p = p /\ q * p \in Int
      BY <1>1, <2>1, Distributes
    <3> QED
      BY <1>1, <2>1, <3>1, <3>2
  <2>3. PushLate(c) = c + n * p
    BY <1>1, <1>2, <1>4
  <2>4. x = now - c
    OBVIOUS
  <2> HIDE DEF n, p, q, x
  <2>5. PushLate(c) \in Nat /\ PushLate(c) > now /\ PushLate(c) <= now + p
    BY <1>1, <2>1, <2>2, <2>3, <2>4
  <2>6. ASSUME NEW g \in Int PROVE (PushLate(c) - g) % p = (c - g) % p
    <3>1. PushLate(c) - g = (c - g) + n * p /\ c - g \in Int
      BY <1>1, <2>2, <2>3
    <3>2. ((c - g) + n * p) % p = (c - g) % p
      BY <1>1, <2>2, <3>1, WholePeriods
    <3> QED
      BY <3>1, <3>2
  <2> QED
    BY <2>5, <2>6 DEF p
<1> QED
  BY <1>1, <1>3, <1>4

\* the ranges of the fields,
LEMMA FieldsStep == ASSUME TypeInv, [Next]_vars PROVE Fields'
<1> USE DEF Fields, ScheduleWork, Return
<1>0. Fields
  BY DEF TypeInv
<1>a. /\ shape.high \in Nat /\ shape.low \in Nat /\ capture.at \in Nat
      /\ want \in Wants /\ taken.want \in Wants /\ done.flip \in Nat
  BY WantsTyped DEF TypeInv, Records
<1>b. Watch \in Nat \ {0} /\ MaxTime \in Nat /\ MaxEvents \in Nat
  BY Constants
<1>1. CASE Tick
  <2>1. now' \in 0..MaxTime /\ now' = now + 1
    BY <1>0, <1>1, <1>b DEF Tick
  <2>2. level' \in BOOLEAN /\ compv' \in Nat
    <3>1. level' \in BOOLEAN
      BY <1>0, <1>1, Zenon DEF Tick
    <3>2. compv' \in {compv, compv + shape.high, compv + shape.low}
      BY <1>1 DEF Tick
    <3> QED
      BY <1>0, <1>a, <3>1, <3>2
  <2>3. capture'.at <= now'
    BY <1>0, <1>1, <1>a, <2>1 DEF Tick
  <2>4. UNCHANGED <<wiring, alive, phase, wrong, edge, desired, work, polarity,
                    watchdog, events>>
    BY <1>1 DEF Tick
  <2> QED
    BY <1>0, <1>b, <2>1, <2>2, <2>3, <2>4
<1>2. CASE Die
  <2>1. alive' \in BOOLEAN
    BY <1>2, Zenon DEF Die
  <2>2. /\ events < MaxEvents /\ events' = events + 1
        /\ UNCHANGED <<now, wiring, compv, level, phase, wrong, edge, desired,
                       work, capture, polarity, watchdog>>
    BY <1>2 DEF Die
  <2> QED
    BY <1>0, <1>b, <2>1, <2>2
<1>3. ASSUME NEW s \in Shapes, NEW f \in Firsts, Request(s, f) PROVE Fields'
  BY <1>0, <1>3, <1>b DEF Request
<1>4. CASE Stop
  BY <1>0, <1>4, <1>b DEF Stop
<1>5. CASE UserFlip
  BY <1>0, <1>5, <1>b DEF UserFlip
<1>6. ASSUME ReadCapture PROVE capture'.at <= now
  BY <1>0, <1>6 DEF ReadCapture, NoCapture
<1>7. CASE CheckPassed
  BY <1>0, <1>6, <1>7 DEF CheckPassed
<1>8. CASE CheckReset
  BY <1>0, <1>6, <1>8 DEF CheckReset
<1>9. CASE CheckCount
  BY <1>0, <1>6, <1>9 DEF CheckCount
<1>10. CASE CheckFlip
  BY <1>0, <1>6, <1>10 DEF CheckFlip
<1>11. CASE WorkStop \/ WorkDrained
  <2>1. /\ UNCHANGED <<now, wiring, compv, level, alive, wrong, edge, desired,
                       capture, polarity, watchdog, events>>
        /\ queued' \in BOOLEAN /\ pc' \in {"idle", "drain"}
        /\ since' \in {since, now} /\ phase' \in {phase, "off"}
    BY <1>0, <1>11 DEF WorkStop, WorkDrained
  <2> QED
    BY <1>0, <1>b, <2>1
<1>12. CASE WorkBegin
  <2>1. edge' \in Nat /\ phase' \in {"off", "arm", "periodic", "duty"}
    BY <1>0, <1>12, <1>a, EdgeTyped DEF WorkBegin, Reconcile
  <2>2. wrong' \in BOOLEAN /\ since' \in Nat /\ since' <= now
        /\ pc' \in {"idle", "shift", "config"} /\ queued' = FALSE
    <3>1. wrong' \in BOOLEAN
      BY <1>0, <1>12, Zenon DEF WorkBegin
    <3>2. /\ since' = since \/ since' = now
          /\ pc' \in {"idle", "shift", "config"} /\ queued' = FALSE
      BY <1>12 DEF WorkBegin
    <3> QED
      BY <1>0, <1>b, <3>1, <3>2
  <2>3. UNCHANGED <<now, wiring, compv, level, alive, desired, capture,
                    polarity, watchdog, events>>
    BY <1>12 DEF WorkBegin
  <2> QED
    BY <1>0, <2>1, <2>2, <2>3
<1>13. CASE WorkShift
  BY <1>0, <1>13, <1>a DEF WorkShift
<1>14. CASE WorkReconcile
  BY <1>0, <1>14, <1>a, EdgeTyped DEF WorkReconcile, Reconcile
<1>15. CASE WorkArm
  <2>1. compv' \in Nat
    BY <1>0, <1>15, <1>a, Pushed DEF WorkArm
  <2> QED
    BY <1>0, <1>15, <2>1 DEF WorkArm
<1>16. CASE WorkReturn
  BY <1>0, <1>16 DEF WorkReturn
<1>17. CASE Wake
  BY <1>0, <1>17 DEF Wake
<1>18. CASE WatchIdle \/ WatchAdvancing \/ WatchStuck
  BY <1>0, <1>18, <1>b DEF WatchIdle, WatchAdvancing, WatchStuck, WatchVisit
<1>19. CASE UNCHANGED vars
  BY <1>0, <1>19
<1> QED
  BY <1>1, <1>2, <1>3, <1>4, <1>5, <1>7, <1>8, <1>9, <1>10, <1>11, <1>12,
     <1>13, <1>14, <1>15, <1>16, <1>17, <1>18, <1>19
  DEF Next, User, Poll, Work, WatchdogWork, Horizon

\* or how they depend on each other.
LEMMA OrderStep == ASSUME TypeInv, [Next]_vars PROVE Order'
<1> USE DEF Order, ScheduleWork, Return
<1>0. Order
  BY DEF TypeInv
<1>a. /\ gen \in Nat /\ flip \in Nat /\ events \in Nat
      /\ taken \in [want : Wants, gen : Nat, flip : Nat]
      /\ done \in [gen : Nat, flip : Nat] /\ want \in Wants
      /\ pc \in {"idle", "drain", "shift", "config"}
      /\ phase \in {"off", "arm", "periodic", "duty"}
  BY Constants DEF TypeInv, Fields, Records
<1>1. CASE Tick
  BY <1>0, <1>1 DEF Tick
<1>2. CASE Die
  BY <1>0, <1>2, <1>a DEF Die
<1>3. ASSUME NEW s \in Shapes, NEW f \in Firsts, Request(s, f) PROVE Order'
  BY <1>0, <1>3, <1>a DEF Request
<1>4. CASE Stop
  BY <1>0, <1>4, <1>a DEF Stop, Off
<1>5. CASE UserFlip
  BY <1>0, <1>5, <1>a DEF UserFlip
<1>7. CASE CheckPassed
  BY <1>0, <1>7 DEF CheckPassed
<1>8. CASE CheckReset
  BY <1>0, <1>8 DEF CheckReset
<1>9. CASE CheckCount
  BY <1>0, <1>9 DEF CheckCount
<1>10. CASE CheckFlip
  BY <1>0, <1>10, <1>a DEF CheckFlip
<1>11. CASE WorkStop \/ WorkDrained
  BY <1>0, <1>11 DEF WorkStop, WorkDrained
<1>12. CASE WorkBegin
  <2>1. taken' = [want |-> want, gen |-> gen, flip |-> flip] /\ pc = "idle"
        /\ UNCHANGED <<gen, flip, want, events>> /\ want.run
        /\ pc' \in {"shift", "config"}
    BY <1>12 DEF WorkBegin, Copy
  <2>2. done' = [gen |-> IF phase # phase' THEN gen ELSE done.gen,
                 flip |-> IF pc' = "shift" THEN done.flip ELSE flip]
    BY <1>12 DEF WorkBegin
  <2>3. \/ UNCHANGED <<phase, shape>> /\ (pc' = "shift" => phase = "periodic")
        \/ phase' = "arm" /\ shape' = want.shape /\ pc' = "config"
    BY <1>12 DEF WorkBegin, Reconcile
  <2> QED
    BY <1>0, <1>a, <2>1, <2>2, <2>3
<1>13. CASE WorkShift
  BY <1>0, <1>13, <1>a DEF WorkShift
<1>14. CASE WorkReconcile
  BY <1>0, <1>14, <1>a DEF WorkReconcile, Reconcile
<1>15. CASE WorkArm
  BY <1>0, <1>15 DEF WorkArm
<1>16. CASE WorkReturn
  BY <1>0, <1>16 DEF WorkReturn
<1>17. CASE Wake
  BY <1>0, <1>17 DEF Wake
<1>18. CASE WatchIdle \/ WatchAdvancing \/ WatchStuck
  BY <1>0, <1>18 DEF WatchIdle, WatchAdvancing, WatchStuck, WatchVisit
<1>19. CASE UNCHANGED vars
  BY <1>0, <1>19
<1> QED
  BY <1>1, <1>2, <1>3, <1>4, <1>5, <1>7, <1>8, <1>9, <1>10, <1>11, <1>12,
     <1>13, <1>14, <1>15, <1>16, <1>17, <1>18, <1>19
  DEF Next, User, Poll, Work, WatchdogWork, Horizon

\* Types are kept by every step.
LEMMA TypeStep == TypeInv /\ [Next]_vars => TypeInv'
  BY RecordsStep, FieldsStep, OrderStep DEF TypeInv

\* The fields of both works keep their types and ranges: the cooldown of
\* tgpio_auto_polarity_check does not wrap, and a copy that output_work has
\* applied is never newer than what was published.
THEOREM SupervisionTyped == Spec => []TypeOK
<1>1. TypeInv => TypeOK
  <2> SUFFICES ASSUME TypeInv PROVE TypeOK
    OBVIOUS
  <2>1. {shape, want.shape, taken.want.shape} \subseteq Shapes \union {Off.shape}
    BY DEF TypeInv, Records, Wants, Waveforms
  <2>2. gen \in 0..MaxEvents /\ done.gen \in 0..gen /\ done.flip \in 0..flip
    BY Constants DEF TypeInv, Records, Fields, Order
  <2>3. since \in 0..now /\ capture.at \in 0..now /\ due \in 0..(now + Watch)
    BY Constants DEF TypeInv, Records, Fields
  <2> QED
    BY <2>1, <2>2, <2>3, Zenon DEF TypeInv, Fields, TypeOK
<1> QED
  BY <1>1, TypeInitially, TypeStep, PTL DEF Spec
-----------------------------------------------------------------------------
(* The watchdog *)

\* Both inputs see the output.
Loopback == Wirings \subseteq {"loopback"}

\* The half periods that flips by the users and by what they set off can add
\* to the compare of a symmetric output
Slack(s) == IF Symmetric(s) THEN s.high * (MaxEvents + 1) ELSE 0

\* A compare is never more than far ahead of time, and the watchdog is more
\* patient than that: first edges are asked for, and flips made, within it.
Bounded(far) ==
    /\ Watch <= far
    /\ \A s \in Shapes :
         /\ Lead + Period(s) + Slack(s) <= far
         /\ \A f \in Firsts : f + Slack(s) <= far
         /\ far <= Larger(3 * Watch, 3 * 2 * s.high)

\* Is a flip asked for that output_work has not taken?
Asked == IF pc = "shift" THEN flip # taken.flip ELSE flip # done.flip

\* A condition, counted
Bit(b) == IF b THEN 1 ELSE 0

\* How often a compare may yet be shifted before it is reached: by the shift
\* at hand, the flip asked for, the one a capture may ask for, and the users'
Shifts ==
    Bit(pc = "shift") + Bit(Asked) + Bit(capture.fresh) + (MaxEvents - events)

\* How far ahead an output that runs, is armed or asked for has its compare
Ahead(far) ==
    /\ want.run => want.first + Slack(want.shape) <= now + far
    /\ pc \in {"shift", "config"} =>
         taken.want.first + Slack(taken.want.shape) <= now + far
    /\ phase = "arm" => edge + Slack(shape) <= now + far
    /\ phase = "duty" => compv <= now + far
    /\ phase = "periodic" => compv + shape.high * Shifts <= now + far

\* The watchdog is on time, and its last visit to an advancing output saw a
\* compare that was not further ahead.
Visited(far) ==
    /\ now <= due
    /\ last + (stalls + 1) * Watch <= due + far

\* The watchdog has told of the engine's death exactly if it has been patient.
Overdue == stalls * Watch > Patience
Told ==
    /\ Running /\ alive => compv > now
    /\ Running => history.warnings =
                    IF ~alive /\ compv = last /\ Overdue THEN 1 ELSE 0
    /\ Running /\ Overdue => IF alive THEN compv > last ELSE compv >= last
    /\ history.warnings <= 1
    /\ Running /\ ~alive =>
         \/ due <= history.died + Watch
         \/ compv = last /\ due <= history.died + (stalls + 2) * Watch

\* What the watchdog relies on
WatchInv(far) == Ahead(far) /\ Visited(far) /\ Told

\* The types of what these compare
LEMMA WatchTypes ==
    ASSUME TypeInv
    PROVE  /\ now \in Nat /\ compv \in Nat /\ edge \in Nat /\ due \in Nat
           /\ last \in Nat /\ stalls \in Nat /\ due <= now + Watch
           /\ events \in Nat /\ events <= MaxEvents
           /\ Watch \in Nat \ {0} /\ MaxEvents \in Nat /\ Lead \in Nat
           /\ history.died \in Nat /\ history.warnings \in Nat
           /\ shape.high \in Nat \ {0} /\ shape.low \in Nat \ {0}
           /\ want \in Wants /\ taken.want \in Wants
           /\ \A s \in Waveforms : Slack(s) \in Nat /\ Period(s) \in Nat \ {0}
           /\ shape \in Waveforms
           /\ phase # "off" => shape \in Shapes
<1>1. \A s \in Waveforms : Slack(s) \in Nat /\ Period(s) \in Nat \ {0}
  <2> SUFFICES ASSUME NEW s \in Waveforms
               PROVE  Slack(s) \in Nat /\ Period(s) \in Nat \ {0}
    OBVIOUS
  <2>1. s.high \in Nat \ {0} /\ s.low \in Nat \ {0} /\ MaxEvents + 1 \in Nat
    BY WantsTyped, Constants
  <2>2. s.high * (MaxEvents + 1) \in Nat
    BY <2>1
  <2> QED
    BY <2>1, <2>2 DEF Slack, Period
<1>2. /\ history.died \in Nat /\ history.warnings \in Nat
      /\ want \in Wants /\ taken.want \in Wants /\ shape \in Waveforms
  BY DEF TypeInv, Records
<1>3. shape.high \in Nat \ {0} /\ shape.low \in Nat \ {0}
  BY <1>2, WantsTyped
<1>4. /\ now \in Nat /\ compv \in Nat /\ edge \in Nat /\ due \in Nat
      /\ last \in Nat /\ stalls \in Nat /\ due <= now + Watch
      /\ events \in Nat /\ events <= MaxEvents
      /\ Watch \in Nat \ {0} /\ MaxEvents \in Nat /\ Lead \in Nat
  BY Constants DEF TypeInv, Fields
<1>5. phase # "off" => shape \in Shapes
  BY DEF TypeInv, Order
<1> QED
  BY <1>1, <1>2, <1>3, <1>4, <1>5

\* A product grows with its factor.
LEMMA Products ==
    /\ \A h, a \in Nat : h * a \in Nat /\ h * (a + 1) = h * a + h
    /\ \A h, a, b \in Nat : a <= b => h * a <= h * b
    /\ \A h, a, b \in Nat : h * a < h * b => a < b
  OBVIOUS

\* Another waveform's bounds, and the patience with the one that is applied
LEMMA Bounds ==
    ASSUME NEW far \in Nat, Bounded(far), TypeInv, phase # "off"
    PROVE  /\ Lead + Period(shape) + Slack(shape) <= far
           /\ far <= Patience /\ Patience \in Nat
  BY WatchTypes DEF Bounded, Patience, Larger

\* Few shifts are left while an output runs, and fewer when it is armed.
FewShifts ==
    /\ Shifts \in Nat
    /\ phase # "off" => Shifts <= MaxEvents + 2
    /\ phase # "off" /\ pc # "shift" => Shifts <= MaxEvents + 1

\* There is always an event behind an output that is not off.
LEMMA ShiftsLeft == TypeInv => FewShifts
<1> SUFFICES ASSUME TypeInv PROVE FewShifts
  OBVIOUS
<1>1. events \in Nat /\ MaxEvents \in Nat /\ events <= MaxEvents
  BY WatchTypes
<1>2. phase # "off" => 1 <= events
  <2>1. phase # "off" => 1 <= gen /\ gen <= events /\ gen \in Nat
    BY DEF TypeInv, Order, Fields
  <2> QED
    BY <1>1, <2>1
<1> QED
  BY <1>1, <1>2 DEF FewShifts, Shifts, Bit

\* The same after a step
LEMMA ShiftsLeftNext == TypeInv' => FewShifts'
  BY ShiftsLeft, PTL

\* A compare that is to be shifted no more often stays as far ahead.
LEMMA StaysAhead ==
    ASSUME NEW far \in Nat, TypeInv, TypeInv', Ahead(far),
           UNCHANGED <<now, compv, phase, shape, edge>>, Shifts' <= Shifts
    PROVE  phase = "periodic" => compv + shape.high * Shifts' <= now + far
<1>1. Shifts \in Nat /\ Shifts' \in Nat /\ shape.high \in Nat
  BY ShiftsLeft, ShiftsLeftNext, WatchTypes DEF FewShifts
<1>2. shape.high * Shifts' <= shape.high * Shifts /\ shape.high * Shifts' \in Nat
      /\ shape.high * Shifts \in Nat
  BY <1>1, Products
<1> QED
  BY <1>2, WatchTypes DEF Ahead

\* No first edge, re-arm, edge or flip brings the compare further ahead.
LEMMA AheadStep ==
    ASSUME NEW far \in Nat, Loopback, Bounded(far), TypeInv, TypeInv', Ahead(far),
           [Next]_vars
    PROVE  Ahead(far)'
<1> USE DEF ScheduleWork, Return
<1> DEFINE Rest == /\ want.run => want.first + Slack(want.shape) <= now + far
                   /\ pc \in {"shift", "config"} =>
                        taken.want.first + Slack(taken.want.shape) <= now + far
                   /\ phase = "arm" => edge + Slack(shape) <= now + far
                   /\ phase = "duty" => compv <= now + far
<1>0. Rest
  BY DEF Ahead
<1>a. /\ now \in Nat /\ compv \in Nat /\ edge \in Nat /\ far \in Nat
      /\ want.first \in Nat /\ taken.want.first \in Nat
      /\ Slack(shape) \in Nat /\ Slack(want.shape) \in Nat
      /\ Slack(taken.want.shape) \in Nat
      /\ shape.high \in Nat \ {0} /\ shape.low \in Nat \ {0}
      /\ events \in Nat /\ MaxEvents \in Nat /\ events <= MaxEvents
      /\ Shifts \in Nat
  BY WatchTypes, ShiftsLeft DEF Wants, FewShifts
<1>b. ASSUME UNCHANGED <<now, compv, phase, shape, edge>>, Shifts' <= Shifts, Rest'
      PROVE  Ahead(far)'
  <2>1. phase' = "periodic" => compv' + shape'.high * Shifts' <= now' + far
    BY <1>b, StaysAhead
  <2> QED
    BY <1>b, <2>1 DEF Ahead
<1>1. CASE Tick
  <2>1. /\ now' = now + 1
        /\ UNCHANGED <<phase, shape, edge, want, taken, pc, flip, done, events>>
    BY <1>1 DEF Tick
  <2>2. CASE ~Toggles
    <3>1. compv' = compv /\ capture' = capture
      <4>1. ~Captures
        BY <2>2 DEF Captures, Loopback, TypeInv, Fields
      <4> QED
        BY <1>1, <2>2, <4>1 DEF Tick
    <3>2. Shifts' = Shifts
      BY <2>1, <3>1 DEF Shifts, Asked, Bit
    <3>3. shape.high * Shifts \in Nat
      BY <1>a, Products
    <3> QED
      BY <1>a, <2>1, <3>1, <3>2, <3>3 DEF Ahead
  <2>3. CASE Toggles
    <3>1. Running /\ compv <= now + 1
          /\ compv' \in {compv + shape.high, compv + shape.low}
      BY <1>1, <2>3 DEF Tick, Toggles
    <3>2. Lead + Period(shape) + Slack(shape) <= far /\ Lead \in Nat
      BY <3>1, Bounds, Constants DEF Running
    <3>3. phase = "duty" => compv' <= now' + far
      BY <1>a, <2>1, <3>1, <3>2 DEF Period
    <3>4. CASE phase = "periodic"
      <4>1. Symmetric(shape) /\ Shifts' <= MaxEvents + 2 /\ Shifts' \in Nat
        <5>1. Symmetric(shape) /\ phase' = "periodic"
          BY <2>1, <3>4 DEF TypeInv, Order
        <5> QED
          BY <5>1, ShiftsLeftNext DEF FewShifts
      <4>2. shape.high * Shifts' <= shape.high * ((MaxEvents + 1) + 1)
            /\ shape.high * Shifts' \in Nat
        <5>1. /\ (MaxEvents + 1) + 1 \in Nat /\ shape.high \in Nat
              /\ Shifts' <= (MaxEvents + 1) + 1
          BY <1>a, <4>1
        <5> QED
          BY <4>1, <5>1, Products, Zenon
      <4>3. /\ shape.high * ((MaxEvents + 1) + 1)
                 = shape.high * (MaxEvents + 1) + shape.high
            /\ shape.high * (MaxEvents + 1) \in Nat
        BY <1>a, Products
      <4>4. Slack(shape) = shape.high * (MaxEvents + 1)
        BY <4>1 DEF Slack
      <4>5. compv' + shape.high * Shifts' <= now' + far
        <5>1. Period(shape) = shape.high + shape.high /\ compv' = compv + shape.high
          BY <3>1, <4>1 DEF Symmetric, Period
        <5> HIDE DEF Rest
        <5> QED
          BY <1>a, <2>1, <3>1, <3>2, <4>2, <4>3, <4>4, <5>1
      <4> QED
        BY <1>a, <2>1, <3>4, <4>5 DEF Ahead
    <3>5. CASE phase = "duty"
      BY <1>a, <2>1, <3>3, <3>5 DEF Ahead
    <3> QED
      BY <3>1, <3>4, <3>5 DEF Running
  <2> QED
    BY <2>2, <2>3
<1>2. CASE Die
  <2>1. events' = events + 1
        /\ UNCHANGED <<now, compv, phase, shape, edge, want, taken, pc, flip,
                       done, capture>>
    BY <1>2 DEF Die
  <2>2. Shifts' <= Shifts
    BY <1>a, <2>1 DEF Shifts, Asked, Bit
  <2> QED
    BY <1>0, <1>b, <2>1, <2>2
<1>3. ASSUME NEW s \in Shapes, NEW f \in Firsts, Request(s, f) PROVE Ahead(far)'
  <2>1. /\ events' = events + 1
        /\ want' = [run |-> TRUE, shape |-> s, first |-> now + f]
        /\ UNCHANGED <<now, compv, phase, shape, edge, taken, pc, flip,
                       done, capture>>
    BY <1>3 DEF Request
  <2>2. Shifts' <= Shifts
    BY <1>a, <2>1 DEF Shifts, Asked, Bit
  <2>3. want'.first + Slack(want'.shape) <= now + far
    <3>1. f + Slack(s) <= far /\ f \in Nat /\ Slack(s) \in Nat
      BY Constants, WatchTypes, WantsTyped DEF Bounded
    <3>2. want'.first = now + f /\ want'.shape = s
      BY <2>1
    <3> QED
      BY <1>a, <3>1, <3>2
  <2> QED
    BY <1>0, <1>b, <2>1, <2>2, <2>3
<1>4. CASE Stop
  <2>1. /\ events' = events + 1 /\ want' = Off
        /\ UNCHANGED <<now, compv, phase, shape, edge, taken, pc, flip,
                       done, capture>>
    BY <1>4 DEF Stop
  <2>2. Shifts' <= Shifts
    BY <1>a, <2>1 DEF Shifts, Asked, Bit
  <2> QED
    BY <1>0, <1>b, <2>1, <2>2 DEF Off
<1>5. CASE UserFlip
  <2>1. /\ events' = events + 1
        /\ UNCHANGED <<now, compv, phase, shape, edge, want, taken, pc, done,
                       capture>>
    BY <1>5 DEF UserFlip
  <2>2. Shifts' <= Shifts
    BY <1>a, <2>1 DEF Shifts, Bit
  <2> QED
    BY <1>0, <1>b, <2>1, <2>2
<1>6. CASE CheckPassed \/ CheckReset \/ CheckCount
  <2>1. UNCHANGED <<now, compv, phase, shape, edge, want, taken, pc, flip, done,
                    events>>
    BY <1>6 DEF CheckPassed, CheckReset, CheckCount
  <2>2. Shifts' <= Shifts
    <3>1. capture.fresh /\ capture'.fresh = FALSE
      BY <1>6 DEF CheckPassed, CheckReset, CheckCount, ReadCapture, NoCapture
    <3> QED
      BY <1>a, <2>1, <3>1 DEF Shifts, Asked, Bit
  <2> QED
    BY <1>0, <1>b, <2>1, <2>2
<1>7. CASE CheckFlip
  <2>1. UNCHANGED <<now, compv, phase, shape, edge, want, taken, pc, done, events>>
    BY <1>7 DEF CheckFlip
  <2>2. Shifts' <= Shifts
    <3>1. capture.fresh /\ capture'.fresh = FALSE
      BY <1>7 DEF CheckFlip, ReadCapture, NoCapture
    <3> QED
      BY <1>a, <2>1, <3>1 DEF Shifts, Bit
  <2> QED
    BY <1>0, <1>b, <2>1, <2>2
<1>8. CASE WorkStop \/ WorkDrained
  <2>1. UNCHANGED <<now, want, compv, shape, edge, done, flip, capture, events>>
        /\ pc \in {"idle", "drain"} /\ pc' \in {"idle", "drain"}
    BY <1>8 DEF WorkStop, WorkDrained
  <2>2. CASE phase' = "off"
    BY <1>0, <2>1, <2>2 DEF Ahead
  <2>3. CASE phase' = phase
    <3>1. Shifts' <= Shifts
      BY <1>a, <2>1 DEF Shifts, Asked, Bit
    <3>2. Rest'
      BY <1>0, <2>1, <2>3
    <3> QED
      BY <1>b, <2>1, <2>3, <3>1, <3>2
  <2> QED
    BY <1>8, <2>2, <2>3 DEF WorkStop, WorkDrained
<1>c. ASSUME NEW w \in Wants, w.first + Slack(w.shape) <= now + far,
             w.shape \in Shapes
      PROVE  NextEdge(w) + Slack(w.shape) <= now + far
  <2>1. NextEdge(w) <= w.first \/ NextEdge(w) <= now + Lead + Period(w.shape)
    BY <1>a, <1>c, EdgeTyped
  <2>2. Lead + Period(w.shape) + Slack(w.shape) <= far
    BY <1>c DEF Bounded
  <2>3. /\ NextEdge(w) \in Nat /\ w.first \in Nat /\ Lead \in Nat
        /\ Period(w.shape) \in Nat /\ Slack(w.shape) \in Nat
    BY <1>a, <1>c, EdgeTyped, WatchTypes, WantsTyped DEF Wants
  <2> QED
    BY <1>a, <1>c, <2>1, <2>2, <2>3
<1>9. CASE WorkBegin
  <2>1. /\ taken'.want = want /\ want.run /\ pc = "idle"
        /\ UNCHANGED <<now, compv, want, events, capture, flip>>
    BY <1>9 DEF WorkBegin, Copy
  <2>2. want.shape \in Shapes /\ want \in Wants
    BY <2>1, WatchTypes DEF TypeInv, Order
  <2>3. CASE UNCHANGED <<phase, shape, edge>>
    <3>1. \/ pc' = "config" /\ done'.flip = flip
          \/ pc' = "shift" /\ taken'.flip = flip /\ (flip - done.flip) % 2 # 0
      BY <1>9, <2>3 DEF WorkBegin, Copy
    <3>2. pc' = "shift" => flip # done.flip
      <4>1. flip = done.flip => flip - done.flip = 0
        BY DEF TypeInv, Fields
      <4>2. 0 % 2 = 0
        OBVIOUS
      <4> QED
        BY <3>1, <4>1, <4>2
    <3>3. Shifts' <= Shifts
      BY <1>a, <2>1, <3>1, <3>2 DEF Shifts, Asked, Bit
    <3> QED
      BY <1>0, <1>b, <2>1, <2>3, <3>3
  <2>4. CASE phase' = "arm" /\ shape' = want.shape /\ edge' = NextEdge(want)
    <3>1. edge' + Slack(shape') <= now + far
      BY <1>0, <1>c, <2>1, <2>2, <2>4
    <3> QED
      BY <1>0, <2>1, <2>4, <3>1 DEF Ahead
  <2> QED
    BY <1>9, <2>3, <2>4 DEF WorkBegin, Reconcile
<1>10. CASE WorkShift
  <2>1. /\ pc = "shift" /\ pc' = "config" /\ compv' = compv + shape.high
        /\ done' = [done EXCEPT !.flip = taken.flip]
        /\ UNCHANGED <<now, phase, shape, edge, want, taken, events, capture,
                       flip>>
    BY <1>10 DEF WorkShift
  <2>2. phase = "periodic"
    BY <2>1 DEF TypeInv, Order
  <2>3. Shifts = Shifts' + 1 /\ Shifts' \in Nat
    <3>0. Shifts' \in Nat
      BY ShiftsLeftNext DEF FewShifts
    <3>1. done'.flip = taken.flip
      BY <2>1 DEF TypeInv, Records
    <3> QED
      BY <1>a, <2>1, <3>0, <3>1 DEF Shifts, Asked, Bit
  <2>4. shape.high * Shifts = shape.high * Shifts' + shape.high
        /\ shape.high * Shifts' \in Nat
    BY <1>a, <2>3, Products
  <2>5. compv + shape.high * Shifts <= now + far
    BY <2>2 DEF Ahead
  <2>6. compv' + shape.high * Shifts' <= now + far
    BY <1>a, <2>1, <2>4, <2>5
  <2> QED
    BY <1>0, <2>1, <2>2, <2>6 DEF Ahead
<1>11. CASE WorkReconcile
  <2>1. /\ pc = "config" /\ phase' = "arm" /\ shape' = taken.want.shape
        /\ edge' = NextEdge(taken.want) /\ pc' = "idle"
        /\ UNCHANGED <<now, want>>
    BY <1>11 DEF WorkReconcile, Reconcile
  <2>2. taken.want.shape \in Shapes /\ taken.want \in Wants
    BY <2>1, WatchTypes DEF TypeInv, Order
  <2>3. edge' + Slack(shape') <= now + far
    BY <1>0, <1>c, <2>1, <2>2
  <2> QED
    BY <1>0, <2>1, <2>3 DEF Ahead
<1>12. CASE WorkArm
  <2>1. /\ phase = "arm" /\ pc' = "idle"
        /\ phase' = IF Symmetric(shape) THEN "periodic" ELSE "duty"
        /\ compv' \in {PushLate(edge), PushLate(edge - shape.low)}
        /\ UNCHANGED <<now, shape, want>>
    BY <1>12 DEF WorkArm
  <2>2. /\ compv' <= edge \/ compv' <= now + Period(shape)
        /\ compv' \in Nat
    <3>1. PICK c \in Int : c <= edge /\ compv' = PushLate(c)
      BY <1>a, <2>1
    <3>2. PushLate(c) \in Nat /\ (PushLate(c) = c \/ PushLate(c) <= now + Period(shape))
      BY Pushed
    <3> QED
      BY <3>1, <3>2
  <2>3. Lead + Period(shape) + Slack(shape) <= far /\ Lead \in Nat
        /\ Period(shape) \in Nat
    BY <2>1, Bounds, WatchTypes
  <2>4. compv' + Slack(shape) <= now + far
    BY <1>0, <1>a, <2>1, <2>2, <2>3
  <2>5. Symmetric(shape) => shape.high * Shifts' <= Slack(shape)
    <3>1. Shifts' <= MaxEvents + 1 /\ Shifts' \in Nat
      <4>1. phase' # "off" /\ pc' # "shift"
        BY <2>1
      <4> QED
        BY <4>1, ShiftsLeftNext DEF FewShifts
    <3>2. MaxEvents + 1 \in Nat /\ shape.high \in Nat
      BY <1>a
    <3>3. shape.high * Shifts' <= shape.high * (MaxEvents + 1)
      BY <3>1, <3>2, Products, Zenon
    <3> QED
      BY <3>3 DEF Slack
  <2>6. phase' = "periodic" => compv' + shape'.high * Shifts' <= now + far
    <3>1. Shifts' \in Nat
      BY ShiftsLeftNext DEF FewShifts
    <3>2. shape.high * Shifts' \in Nat
      <4>1. shape.high \in Nat
        BY <1>a
      <4> QED
        BY <3>1, <4>1, Products, Zenon
    <3>3. phase' = "periodic" => Symmetric(shape)
      BY <2>1
    <3> QED
      BY <1>a, <2>1, <2>2, <2>4, <2>5, <3>2, <3>3
  <2>7. compv' <= now + far
    BY <1>a, <2>2, <2>4
  <2> QED
    BY <1>0, <2>1, <2>6, <2>7 DEF Ahead
<1>13. CASE WorkReturn
  <2>1. /\ pc = "config" /\ pc' = "idle"
        /\ UNCHANGED <<now, compv, phase, shape, edge, want, events, capture,
                       flip, done>>
    BY <1>13 DEF WorkReturn
  <2>2. Shifts' <= Shifts
    BY <1>a, <2>1 DEF Shifts, Asked, Bit
  <2> QED
    BY <1>0, <1>b, <2>1, <2>2
<1>14. CASE Wake \/ WatchIdle \/ WatchAdvancing \/ WatchStuck \/ UNCHANGED vars
  <2>1. UNCHANGED <<now, compv, phase, shape, edge, want, taken, pc, flip, done,
                    capture, events>>
    BY <1>14 DEF Wake, WatchIdle, WatchAdvancing, WatchStuck
  <2> HIDE DEF Rest
  <2>2. Shifts' = Shifts /\ Rest'
    BY <1>0, <2>1 DEF Shifts, Asked, Bit, Rest
  <2> QED
    BY <1>a, <1>b, <2>1, <2>2
<1> QED
  BY <1>1, <1>2, <1>3, <1>4, <1>5, <1>6, <1>7, <1>8, <1>9, <1>10, <1>11,
     <1>12, <1>13, <1>14
  DEF Next, User, Poll, Work, WatchdogWork, Horizon

\* What runs, or is about to, is not further ahead than that.
LEMMA NotFarAhead ==
    ASSUME NEW far \in Nat, TypeInv, Ahead(far), Running
    PROVE  compv <= now + far
<1>1. shape.high \in Nat /\ Shifts \in Nat
  BY ShiftsLeft, WatchTypes DEF FewShifts
<1>2. shape.high * Shifts \in Nat
  BY <1>1, Products
<1> QED
  BY <1>2, WatchTypes DEF Ahead, Running

\* The watchdog's next visit.
LEMMA VisitedStep ==
    ASSUME NEW far \in Nat, TypeInv, Ahead(far), Visited(far), [Next]_vars
    PROVE  Visited(far)'
<1> USE DEF WatchVisit, Visited
<1> DEFINE standing(n) == (n + 1) * Watch
<1>a. /\ now \in Nat /\ due \in Nat /\ last \in Nat /\ stalls \in Nat
      /\ Watch \in Nat \ {0} /\ due <= now + Watch /\ compv \in Nat
  BY WatchTypes
<1>b. \A n \in Nat : standing(n) \in Nat /\ standing(n + 1) = standing(n) + Watch
  <2>1. \A n \in Nat : n + 1 \in Int /\ 1 \in Int /\ Watch \in Int
    BY <1>a
  <2>2. \A n \in Nat : /\ (n + 1) * Watch \in Int /\ 1 * Watch = Watch
                       /\ ((n + 1) + 1) * Watch = (n + 1) * Watch + 1 * Watch
    BY <1>a, <2>1, Distributes
  <2>3. \A n \in Nat : (n + 1) * Watch \in Nat
    BY <1>a
  <2> QED
    BY <2>2, <2>3
<1>0. now <= due /\ last + standing(stalls) <= due + far
  OBVIOUS
<1>c. standing(0) = Watch
  BY <1>a
<1>d. Visited(far)' <=> now' <= due' /\ last' + standing(stalls') <= due' + far
  OBVIOUS
<1> HIDE DEF standing, Visited
<1>1. CASE Tick
  <2>1. now' = now + 1 /\ ~(now >= due) /\ UNCHANGED <<due, last, stalls>>
    BY <1>1 DEF Tick, Pressed
  <2> QED
    BY <1>0, <1>a, <1>d, <2>1
<1>2. CASE WatchIdle
  <2>1. due' = now + Watch /\ now >= due /\ UNCHANGED <<now, last, stalls>>
    BY <1>2 DEF WatchIdle
  <2> QED
    BY <1>0, <1>a, <1>b, <1>d, <2>1
<1>3. CASE WatchAdvancing
  <2>1. /\ due' = now + Watch /\ now >= due /\ last' = compv /\ stalls' = 0
        /\ now' = now /\ Running
    BY <1>3 DEF WatchAdvancing
  <2>2. compv <= now + far
    BY <2>1, NotFarAhead
  <2> QED
    BY <1>a, <1>c, <1>d, <2>1, <2>2
<1>4. CASE WatchStuck
  <2>1. /\ due' = now + Watch /\ now >= due /\ last' = last
        /\ stalls' = stalls + 1 /\ now' = now
    BY <1>4 DEF WatchStuck
  <2> QED
    BY <1>0, <1>a, <1>b, <1>d, <2>1
<1>5. CASE UNCHANGED <<now, due, last, stalls>>
  BY <1>0, <1>5, <1>d
<1>6. CASE Die \/ User \/ Poll \/ Work \/ Horizon \/ UNCHANGED vars
  <2>1. UNCHANGED <<now, due, last, stalls>>
    BY <1>6
    DEF Die, User, Request, Stop, UserFlip, Poll, CheckPassed, CheckReset,
        CheckCount, CheckFlip, Work, WorkStop, WorkDrained, WorkBegin,
        WorkShift, WorkReconcile, WorkArm, WorkReturn, Wake, Horizon
  <2> QED
    BY <1>5, <2>1
<1> QED
  BY <1>1, <1>2, <1>3, <1>4, <1>6 DEF Next, WatchdogWork

\* A visit that finds the watchdog's patience at an end finds a compare that
\* is overdue.
LEMMA PatienceEnds ==
    ASSUME NEW far \in Nat, Bounded(far), TypeInv, Visited(far), phase # "off",
           NEW n \in Nat, n = stalls \/ (n = stalls + 1 /\ now >= due),
           n * Watch > Patience
    PROVE  last < now
<1>1. /\ now \in Nat /\ due \in Nat /\ last \in Nat /\ stalls \in Nat
      /\ Watch \in Nat \ {0} /\ due <= now + Watch
  BY WatchTypes
<1>2. far <= Patience /\ Patience \in Nat
  BY Bounds
<1>3. /\ stalls * Watch \in Nat
      /\ (stalls + 1) * Watch = stalls * Watch + Watch
  BY <1>1
<1>4. last + (stalls + 1) * Watch <= due + far
  BY DEF Visited
<1>5. CASE n = stalls
  BY <1>1, <1>2, <1>3, <1>4, <1>5
<1>6. CASE n = stalls + 1 /\ now >= due
  <2>1. (stalls + 1) * Watch > Patience
    BY <1>6
  <2> HIDE DEF Patience
  <2> QED
    BY <1>1, <1>2, <1>3, <1>4, <1>6, <2>1
<1> QED
  BY <1>5, <1>6

\* An output that goes on running keeps its waveform, and so the patience.
LEMMA PatienceKept ==
    ASSUME UNCHANGED <<shape, stalls>>
    PROVE  Patience' = Patience /\ Overdue' = Overdue
  BY DEF Patience, Overdue

\* No death goes untold, and none is told twice.
LEMMA ToldStep ==
    ASSUME NEW far \in Nat, Loopback, Bounded(far), TypeInv, TypeInv',
           WatchInv(far), [Next]_vars
    PROVE  Told'
<1> USE DEF ScheduleWork, Return, WatchVisit
<1>0. Told /\ Visited(far) /\ Ahead(far)
  BY DEF WatchInv
<1>a. /\ now \in Nat /\ compv \in Nat /\ due \in Nat /\ due <= now + Watch
      /\ last \in Nat /\ stalls \in Nat /\ Watch \in Nat \ {0}
      /\ history.died \in Nat /\ history.warnings \in Nat
      /\ shape.high \in Nat \ {0} /\ shape.low \in Nat \ {0}
      /\ history \in [inverted : Nat, disturbed : BOOLEAN, died : Nat,
                      warnings : Nat]
      /\ alive \in BOOLEAN
  BY WatchTypes DEF TypeInv, Records, Fields
\* Steps that neither move the compare nor tell
<1>b. ASSUME UNCHANGED <<now, compv, alive, phase, shape, watchdog>>,
             history'.died = history.died, history'.warnings = history.warnings
      PROVE  Told'
  <2>1. Running' = Running /\ Overdue' = Overdue
    BY <1>b, PatienceKept DEF Running
  <2> QED
    BY <1>0, <1>b, <2>1 DEF Told
\* and those after which nothing runs
<1>c. ASSUME ~Running', history' = history PROVE Told'
  BY <1>0, <1>c DEF Told
<1>1. CASE Tick
  <2>0. /\ now' = now + 1 /\ UNCHANGED <<alive, phase, shape, watchdog>>
        /\ ~(now >= due)
        /\ history' = history \/ history' = [history EXCEPT !.disturbed = TRUE]
    BY <1>1 DEF Tick, Pressed
  <2>1. /\ now' = now + 1 /\ UNCHANGED <<alive, phase, shape, watchdog>>
        /\ ~(now >= due) /\ history'.died = history.died
        /\ history'.warnings = history.warnings
    BY <1>a, <2>0
  <2>2. Running' = Running /\ Overdue' = Overdue
    BY <2>1, PatienceKept DEF Running
  <2>3. CASE Toggles
    <3>1. /\ alive /\ Running /\ compv <= now + 1
          /\ compv' \in {compv + shape.high, compv + shape.low}
      BY <1>1, <2>3 DEF Tick, Toggles
    <3>2. compv > now /\ compv' > compv
      BY <1>0, <1>a, <3>1 DEF Told
    <3> QED
      BY <1>0, <1>a, <2>1, <2>2, <3>1, <3>2 DEF Told
  <2>4. CASE ~Toggles
    <3>1. compv' = compv /\ (Running /\ alive => compv > now + 1)
      BY <1>1, <1>a, <2>4 DEF Tick, Toggles
    <3> QED
      BY <1>0, <1>a, <2>1, <2>2, <3>1 DEF Told
  <2> QED
    BY <2>3, <2>4
<1>2. CASE Die
  <2>1. /\ Running /\ alive /\ alive' = FALSE
        /\ history' = [history EXCEPT !.died = now, !.warnings = 0]
        /\ UNCHANGED <<now, compv, phase, shape, watchdog>>
    BY <1>2 DEF Die
  <2>2. history'.died = now /\ history'.warnings = 0
    BY <1>a, <2>1
  <2>3. Running' = Running /\ Overdue' = Overdue
    BY <2>1, PatienceKept DEF Running
  <2>4. Overdue => compv > last
    BY <1>0, <2>1 DEF Told
  <2> QED
    BY <1>0, <1>a, <2>1, <2>2, <2>3, <2>4 DEF Told
<1>3. CASE User
  <2>1. /\ UNCHANGED <<now, compv, alive, phase, shape, watchdog>>
        /\ \/ history' = [history EXCEPT !.inverted = 0]
           \/ history' = [history EXCEPT !.disturbed = TRUE]
    BY <1>3 DEF User, Request, Stop, UserFlip
  <2>2. history'.died = history.died /\ history'.warnings = history.warnings
    BY <1>a, <2>1
  <2> QED
    BY <1>b, <2>1, <2>2
<1>4. CASE Poll
  <2>1. UNCHANGED <<now, compv, alive, phase, shape, watchdog>> /\ ReadCapture
    BY <1>4 DEF Poll, CheckPassed, CheckReset, CheckCount, CheckFlip
  <2>2. \E i : history' = [history EXCEPT !.inverted = i]
    BY <2>1 DEF ReadCapture
  <2>3. history'.died = history.died /\ history'.warnings = history.warnings
    BY <1>a, <2>2
  <2> QED
    BY <1>b, <2>1, <2>3
<1>5. CASE WorkStop \/ WorkDrained \/ WorkReconcile
  <2>1. CASE Running'
    <3>1. UNCHANGED <<now, compv, alive, phase, shape, watchdog, history>>
      BY <1>5, <2>1
      DEF WorkStop, WorkDrained, WorkReconcile, Reconcile, Running
    <3> QED
      BY <1>b, <3>1
  <2>2. CASE ~Running'
    <3>1. history' = history
      BY <1>5 DEF WorkStop, WorkDrained, WorkReconcile
    <3> QED
      BY <1>c, <2>2, <3>1
  <2> QED
    BY <2>1, <2>2
<1>6. CASE WorkBegin
  <2>1. UNCHANGED <<now, compv, alive, watchdog, history>>
    BY <1>6 DEF WorkBegin
  <2>2. CASE UNCHANGED <<phase, shape>>
    BY <1>b, <2>1, <2>2
  <2>3. CASE phase' = "arm"
    BY <1>c, <2>1, <2>3 DEF Running
  <2> QED
    BY <1>6, <2>2, <2>3 DEF WorkBegin, Reconcile
<1>7. CASE WorkShift
  <2>1. /\ compv' = compv + shape.high
        /\ history' = [history EXCEPT !.died = IF alive THEN 0 ELSE now,
                                      !.warnings = 0]
        /\ UNCHANGED <<now, alive, phase, shape, watchdog>>
    BY <1>7 DEF WorkShift
  <2>2. (~alive => history'.died = now) /\ history'.warnings = 0
    BY <1>a, <2>1
  <2>3. Running' = Running /\ Overdue' = Overdue
    BY <2>1, PatienceKept DEF Running
  <2>4. Running /\ Overdue => compv >= last
    BY <1>0, <1>a DEF Told
  <2>5. compv' > compv
    BY <1>a, <2>1
  <2>6. Running /\ alive => compv' > now
    BY <1>0, <1>a, <2>1 DEF Told
  <2>7. Running /\ Overdue => compv' > last
    BY <1>a, <2>1, <2>4
  <2> QED
    BY <1>a, <2>1, <2>2, <2>3, <2>6, <2>7 DEF Told
<1>8. CASE WorkArm
  <2>1. /\ phase = "arm" /\ alive' = TRUE
        /\ \E c \in Int : compv' = PushLate(c)
        /\ history' = [history EXCEPT !.died = 0, !.warnings = 0]
        /\ UNCHANGED <<now, shape, watchdog>>
    <3>1. edge \in Int /\ edge - shape.low \in Int
      BY <1>a, WatchTypes
    <3> QED
      BY <1>8, <3>1 DEF WorkArm
  <2>2. history'.warnings = 0
    BY <1>a, <2>1
  <2>3. compv' > now /\ compv' \in Nat
    BY <2>1, Pushed
  <2>4. Overdue' = Overdue
    BY <2>1, PatienceKept
  <2>5. Overdue => last < now
    BY <1>0, <1>a, <2>1, PatienceEnds DEF Overdue
  <2> QED
    BY <1>a, <2>1, <2>2, <2>3, <2>4, <2>5 DEF Told
<1>9. CASE WorkReturn \/ Wake \/ UNCHANGED vars
  BY <1>b, <1>9 DEF WorkReturn, Wake
<1>10. CASE WatchIdle
  BY <1>c, <1>10 DEF WatchIdle, Running
<1>11. CASE WatchAdvancing
  <2>1. /\ due' = now + Watch /\ last' = compv /\ stalls' = 0 /\ compv # last
        /\ UNCHANGED <<now, compv, alive, phase, shape, history>> /\ Running
    BY <1>11 DEF WatchAdvancing
  <2>2. ~Overdue'
    <3>1. Patience' \in Nat
      <4>1. Patience' = Patience
        BY <2>1 DEF Patience
      <4> QED
        BY <1>a, <4>1 DEF Patience, Larger
    <3>2. stalls' * Watch = 0
      BY <1>a, <2>1
    <3> QED
      BY <3>1, <3>2 DEF Overdue
  <2>3. ~alive => due' <= history.died + 2 * Watch
    <3>1. ~alive => due <= history.died + Watch
      BY <1>0, <2>1 DEF Told
    <3> QED
      BY <1>0, <1>a, <2>1, <3>1 DEF Visited
  <2>4. history.warnings = 0
    BY <1>0, <2>1 DEF Told
  <2>5. Running' /\ (alive => compv > now)
    BY <1>0, <2>1 DEF Told, Running
  <2> QED
    BY <1>a, <2>1, <2>2, <2>3, <2>4, <2>5 DEF Told
<1>12. CASE WatchStuck
  <2>1. /\ due' = now + Watch /\ stalls' = stalls + 1 /\ compv = last /\ now >= due
        /\ UNCHANGED <<now, compv, alive, phase, shape, last>> /\ Running
        /\ history' = IF Warns(stalls')
                        THEN [history EXCEPT !.warnings = @ + 1] ELSE history
    BY <1>12 DEF WatchStuck
  <2>2. Patience' = Patience /\ Running' /\ Patience \in Nat
    <3>1. Patience \in Nat
      BY <1>a DEF Patience, Larger
    <3> QED
      BY <2>1, <3>1 DEF Patience, Running
  <2>3. Overdue' <=> (stalls + 1) * Watch > Patience
    BY <2>1, <2>2 DEF Overdue
  <2>4. Overdue' => compv < now
    BY <1>0, <1>a, <2>1, <2>3, PatienceEnds DEF Running
  <2>5. Overdue' => ~alive
    BY <1>0, <1>a, <2>1, <2>4 DEF Told
  <2>6. /\ (stalls + 1) * Watch = stalls * Watch + Watch /\ stalls * Watch \in Nat
        /\ (stalls + 2) * Watch = stalls * Watch + 2 * Watch
        /\ (stalls' + 2) * Watch = stalls * Watch + 3 * Watch
    BY <1>a, <2>1
  <2>7. Warns(stalls') <=> Overdue' /\ ~Overdue
    <3>1. Warns(stalls') <=>
            /\ (stalls + 1) * Watch > Patience
            /\ (stalls + 1) * Watch <= Patience + Watch
      BY <2>1 DEF Warns
    <3>2. (stalls + 1) * Watch <= Patience + Watch <=> ~Overdue
      <4>1. ~Overdue <=> stalls * Watch <= Patience
        BY <1>a, <2>2, <2>6 DEF Overdue
      <4> HIDE DEF Patience
      <4> QED
        BY <1>a, <2>2, <2>6, <4>1
    <3> QED
      BY <2>3, <3>1, <3>2
  <2>8. history'.died = history.died
        /\ history'.warnings = history.warnings + Bit(Overdue' /\ ~Overdue)
    BY <1>a, <2>1, <2>7 DEF Bit
  <2>9. Overdue => Overdue'
    <3> HIDE DEF Patience
    <3> QED
      BY <1>a, <2>2, <2>3, <2>6 DEF Overdue
  <2>10. history'.warnings = IF ~alive /\ Overdue' THEN 1 ELSE 0
    <3>1. history.warnings = IF ~alive /\ Overdue THEN 1 ELSE 0
      BY <1>0, <2>1 DEF Told
    <3> QED
      BY <2>5, <2>8, <2>9, <3>1 DEF Bit
  <2>11. ~alive => due' <= history.died + (stalls' + 2) * Watch
    <3>1. ~alive => \/ due <= history.died + Watch
                    \/ due <= history.died + (stalls + 2) * Watch
      BY <1>0, <2>1 DEF Told
    <3>2. now <= due
      BY <1>0 DEF Visited
    <3> QED
      BY <1>a, <2>1, <2>6, <3>1, <3>2
  <2>12. alive => compv > now
    BY <1>0, <2>1 DEF Told
  <2> QED
    BY <1>a, <2>1, <2>2, <2>5, <2>8, <2>10, <2>11, <2>12 DEF Told
<1>13. CASE Horizon
  BY <1>b, <1>13 DEF Horizon
<1> QED
  BY <1>1, <1>2, <1>3, <1>4, <1>5, <1>6, <1>7, <1>8, <1>9, <1>10, <1>11,
     <1>12, <1>13
  DEF Next, Work, WatchdogWork

\* At load nothing runs and nobody has warned,
LEMMA WatchInitially ==
    ASSUME NEW far \in Nat, Bounded(far), Init PROVE WatchInv(far)
<1>1. /\ now = 0 /\ phase = "off" /\ want = Off /\ pc = "idle" /\ due = 0
      /\ last = 0 /\ stalls = 0 /\ history = NoHistory
  BY DEF Init
<1>2. Ahead(far)
  BY <1>1 DEF Ahead, Off
<1>3. Visited(far)
  BY <1>1, Constants DEF Visited, Bounded
<1>4. Told
  BY <1>1 DEF Told, Running, NoHistory
<1> QED
  BY <1>2, <1>3, <1>4 DEF WatchInv

\* and each step keeps what the watchdog relies on.
LEMMA WatchStep ==
    ASSUME NEW far \in Nat, Loopback, Bounded(far), TypeInv, TypeInv',
           WatchInv(far), [Next]_vars
    PROVE  WatchInv(far)'
<1>1. Ahead(far) /\ Visited(far)
  BY DEF WatchInv
<1> QED
  BY <1>1, AheadStep, VisitedStep, ToldStep DEF WatchInv

\* tgpio_watchdog_work_fn "warns once per stall episode": if compares are
\* never further ahead than it is patient, a dead engine is told of once, and
\* by the second visit after its patience is at an end.
THEOREM StallsWarnedOnce ==
    ASSUME NEW far \in Nat, Loopback, Bounded(far)
    PROVE  Spec => []WarnsOncePerStall
<1>1. Init => TypeInv /\ WatchInv(far)
  BY TypeInitially, WatchInitially
<1>2. TypeInv /\ WatchInv(far) /\ [Next]_vars => (TypeInv /\ WatchInv(far))'
  BY TypeStep, WatchStep
<1>3. TypeInv /\ WatchInv(far) => WarnsOncePerStall
  <2> SUFFICES ASSUME TypeInv, WatchInv(far), Running, ~alive,
                      now > history.died + (Patience \div Watch + 2) * Watch
               PROVE  history.warnings = 1
    BY DEF WarnsOncePerStall, WatchInv, Told
  <2> DEFINE q == Patience \div Watch
  <2>1. /\ now \in Nat /\ due \in Nat /\ stalls \in Nat /\ Watch \in Nat \ {0}
        /\ history.died \in Nat /\ Patience \in Nat
    BY WatchTypes, Bounds DEF Running
  <2>2. now <= due /\ Told
    BY DEF WatchInv, Visited
  <2>3. q \in Nat /\ q * Watch \in Nat /\ Patience < (q + 1) * Watch
        /\ (q + 2) * Watch >= Watch
    BY <2>1
  <2> HIDE DEF q, Patience
  <2>4. now > history.died + (q + 2) * Watch
    BY DEF q
  <2>5. compv = last /\ due <= history.died + (stalls + 2) * Watch
    BY <2>1, <2>2, <2>3, <2>4 DEF Told
  <2>6. (q + 2) * Watch < (stalls + 2) * Watch
    BY <2>1, <2>2, <2>3, <2>4, <2>5
  <2>7. q + 1 <= stalls
    BY <2>1, <2>3, <2>6
  <2>8. (q + 1) * Watch <= stalls * Watch
    BY <2>1, <2>3, <2>7
  <2>9. Overdue
    BY <2>1, <2>3, <2>8 DEF Overdue
  <2> QED
    BY <2>2, <2>5, <2>9 DEF Told
<1> QED
  BY <1>1, <1>2, <1>3, PTL DEF Spec

\* Under the same bounds a warning of tgpio_watchdog_work_fn is true: the
\* compare is overdue.
THEOREM WarningsTrue ==
    ASSUME NEW far \in Nat, Loopback, Bounded(far)
    PROVE  Spec => WarnsOnlyDead
<1>1. Init => TypeInv /\ WatchInv(far)
  BY TypeInitially, WatchInitially
<1>2. TypeInv /\ WatchInv(far) /\ [Next]_vars => (TypeInv /\ WatchInv(far))'
  BY TypeStep, WatchStep
<1>3. TypeInv /\ WatchInv(far) /\ [Next]_vars
        => [history'.warnings > history.warnings => compv < now]_vars
  <2> SUFFICES ASSUME TypeInv, WatchInv(far), [Next]_vars,
                      history'.warnings > history.warnings
               PROVE  compv < now
    OBVIOUS
  <2>a. /\ history \in [inverted : Nat, disturbed : BOOLEAN, died : Nat,
                        warnings : Nat]
        /\ stalls \in Nat
    BY WatchTypes DEF TypeInv, Records
  <2>1. WatchStuck /\ Warns(stalls')
    <3>1. \/ history'.warnings = history.warnings \/ history'.warnings = 0
          \/ WatchStuck /\ Warns(stalls')
      <4>1. CASE Tick \/ User \/ Die \/ Horizon \/ UNCHANGED vars
        <5>1. \/ history' = history \/ history' = [history EXCEPT !.inverted = 0]
              \/ history' = [history EXCEPT !.disturbed = TRUE]
              \/ history' = [history EXCEPT !.died = now, !.warnings = 0]
          BY <4>1 DEF Tick, User, Request, Stop, UserFlip, Die, Horizon
        <5> QED
          BY <2>a, <5>1
      <4>2. CASE Poll
        <5>1. \E i : history' = [history EXCEPT !.inverted = i]
          BY <4>2
          DEF Poll, CheckPassed, CheckReset, CheckCount, CheckFlip, ReadCapture
        <5> QED
          BY <2>a, <5>1
      <4>3. CASE Work
        BY <2>a, <4>3
        DEF Work, WorkStop, WorkDrained, WorkBegin, WorkShift, WorkReconcile,
            WorkArm, WorkReturn, Wake
      <4>4. CASE WatchdogWork
        BY <2>a, <4>4 DEF WatchdogWork, WatchIdle, WatchAdvancing, WatchStuck
      <4> QED
        BY <4>1, <4>2, <4>3, <4>4 DEF Next
    <3> QED
      BY <2>a, <3>1
  <2>2. /\ stalls' = stalls + 1 /\ now >= due /\ compv = last /\ Running
        /\ stalls' * Watch > Patience
    BY <2>1 DEF WatchStuck, WatchVisit, Warns
  <2>3. last < now
    <3>1. phase # "off" /\ stalls + 1 \in Nat
      BY <2>a, <2>2 DEF Running
    <3>2. Visited(far) /\ (stalls + 1) * Watch > Patience
      BY <2>2 DEF WatchInv
    <3> QED
      BY <2>2, <3>1, <3>2, PatienceEnds
  <2> QED
    BY <2>2, <2>3
<1> QED
  BY <1>1, <1>2, <1>3, PTL DEF Spec, WarnsOnlyDead

-----------------------------------------------------------------------------
(* Time and the grid *)

\* An edge that is due has happened, and each work runs as soon as it must.
Punctual ==
    /\ Running /\ alive => compv > now
    /\ pc = "idle" /\ queued => now <= since + WorkLate
    /\ pc = "shift" => now <= since + FlipWait
    /\ capture.fresh => now <= capture.at + PollLate

\* The types of what these compare
LEMMA TimeTypes ==
    ASSUME TypeInv
    PROVE  /\ now \in Nat /\ compv \in Nat /\ edge \in Nat /\ since \in Nat
           /\ since <= now /\ capture.at \in Nat /\ capture.at <= now
           /\ shape \in Waveforms /\ want \in Wants
           /\ shape.high \in Nat \ {0} /\ shape.low \in Nat \ {0}
           /\ want.first \in Nat /\ want.shape \in Waveforms
           /\ WorkLate \in Nat /\ FlipWait \in Nat /\ PollLate \in Nat
           /\ capture \in [fresh : BOOLEAN, at : Nat]
           /\ pc \in {"idle", "drain", "shift", "config"}
           /\ phase \in {"off", "arm", "periodic", "duty"}
           /\ gen \in Nat /\ flip \in Nat
           /\ done \in [gen : Nat, flip : Nat]
<1>1. /\ shape \in Waveforms /\ want \in Wants
      /\ capture \in [fresh : BOOLEAN, at : Nat] /\ done \in [gen : Nat, flip : Nat]
  BY DEF TypeInv, Records
<1>2. want.first \in Nat /\ want.shape \in Waveforms
  BY <1>1 DEF Wants
<1>3. shape.high \in Nat \ {0} /\ shape.low \in Nat \ {0}
  BY <1>1, WantsTyped
<1>4. capture.at \in Nat
  BY <1>1
<1> QED
  BY <1>1, <1>2, <1>3, <1>4, Constants DEF TypeInv, Fields

\* Nothing is due at load,
LEMMA PunctualInitially == Init => Punctual
  BY Constants DEF Init, Punctual, Running, NoCapture

\* and time does not pass what is due.
LEMMA PunctualStep ==
    ASSUME TypeInv, TypeInv', Punctual, [Next]_vars PROVE Punctual'
<1> USE DEF ScheduleWork, Return
<1> DEFINE Ahead1 == Running /\ alive => compv > now
           Worked == /\ pc = "idle" /\ queued => now <= since + WorkLate
                     /\ pc = "shift" => now <= since + FlipWait
           Read == capture.fresh => now <= capture.at + PollLate
<1>0. Ahead1 /\ Worked /\ Read
  BY DEF Punctual
<1>a. /\ now \in Nat /\ compv \in Nat /\ since \in Nat /\ since <= now
      /\ capture.at \in Nat /\ shape.high \in Nat \ {0} /\ shape.low \in Nat \ {0}
      /\ WorkLate \in Nat /\ FlipWait \in Nat /\ PollLate \in Nat
  BY TimeTypes
<1>1. CASE Tick
  <2>1. /\ now' = now + 1
        /\ UNCHANGED <<alive, phase, pc, queued, since>>
        /\ pc = "idle" /\ queued => ~(now >= since + WorkLate)
        /\ pc = "shift" => ~(now >= since + FlipWait)
        /\ capture.fresh => ~(now >= capture.at + PollLate)
        /\ capture' = capture \/ capture' = [fresh |-> TRUE, at |-> now']
    BY <1>1 DEF Tick, Pressed
  <2>2. Ahead1'
    <3>1. CASE Toggles
      <4>1. /\ compv' \in {compv + shape.high, compv + shape.low}
            /\ Running /\ alive
        BY <1>1, <3>1 DEF Tick, Toggles
      <4> QED
        BY <1>0, <1>a, <2>1, <4>1
    <3>2. CASE ~Toggles
      <4>1. compv' = compv /\ (Running /\ alive => ~(compv <= now + 1))
        BY <1>1, <3>2 DEF Tick, Toggles
      <4> QED
        BY <1>a, <2>1, <4>1 DEF Running
    <3> QED
      BY <3>1, <3>2
  <2>3. Worked'
    BY <1>a, <2>1
  <2>4. Read'
    BY <1>a, <2>1
  <2> QED
    BY <2>2, <2>3, <2>4 DEF Punctual
<1>2. CASE Die
  BY <1>0, <1>2 DEF Die, Punctual
<1>3. CASE User \/ CheckFlip
  <2>1. /\ UNCHANGED <<now, compv, alive, phase, pc>>
        /\ since' = IF queued \/ pc \in {"shift", "drain"} THEN since ELSE now
    BY <1>3 DEF User, Request, Stop, UserFlip, CheckFlip
  <2>2. Worked'
    BY <1>0, <1>a, <2>1
  <2>3. capture' = capture \/ capture'.fresh = FALSE
    BY <1>3
    DEF User, Request, Stop, UserFlip, CheckFlip, ReadCapture, NoCapture
  <2> QED
    BY <1>0, <2>1, <2>2, <2>3 DEF Punctual, Running
<1>4. CASE CheckPassed \/ CheckReset \/ CheckCount
  <2>1. UNCHANGED <<now, compv, alive, phase, pc, queued, since>>
    BY <1>4 DEF CheckPassed, CheckReset, CheckCount
  <2>2. capture'.fresh = FALSE
    BY <1>4 DEF CheckPassed, CheckReset, CheckCount, ReadCapture, NoCapture
  <2> QED
    BY <1>0, <2>1, <2>2 DEF Punctual, Running
<1>5. CASE WorkStop \/ WorkDrained
  <2>1. /\ UNCHANGED <<now, compv, alive, capture>>
        /\ phase' \in {phase, "off"} /\ pc' \in {"idle", "drain"}
        /\ pc' = "idle" => since' = now \/ queued' = FALSE
    BY <1>5 DEF WorkStop, WorkDrained
  <2> QED
    BY <1>0, <1>a, <2>1 DEF Punctual, Running
<1>6. CASE WorkBegin
  <2>1. /\ UNCHANGED <<now, compv, alive, capture>> /\ queued' = FALSE
        /\ pc' = "shift" => since' = now
        /\ phase' = phase \/ phase' = "arm"
    BY <1>6 DEF WorkBegin, Reconcile
  <2> QED
    BY <1>0, <1>a, <2>1 DEF Punctual, Running
<1>7. CASE WorkShift
  <2>1. /\ UNCHANGED <<now, alive, phase, capture>> /\ pc' = "config"
        /\ compv' = compv + shape.high
    BY <1>7 DEF WorkShift
  <2> QED
    BY <1>0, <1>a, <2>1 DEF Punctual, Running
<1>8. CASE WorkReconcile
  BY <1>0, <1>a, <1>8 DEF WorkReconcile, Reconcile, Punctual, Running
<1>9. CASE WorkArm
  <2>1. \E c \in Int : compv' = PushLate(c)
    <3>1. edge \in Int /\ edge - shape.low \in Int
      BY <1>a, TimeTypes
    <3> QED
      BY <1>9, <3>1 DEF WorkArm
  <2>2. compv' > now
    BY <2>1, Pushed
  <2>3. /\ UNCHANGED <<now, capture>> /\ pc' = "idle" /\ since' = now
    BY <1>9 DEF WorkArm
  <2> QED
    BY <1>0, <1>a, <2>2, <2>3 DEF Punctual
<1>10. CASE WorkReturn
  BY <1>0, <1>a, <1>10 DEF WorkReturn, Punctual, Running
<1>11. CASE Wake
  BY <1>0, <1>a, <1>11 DEF Wake, Punctual, Running
<1>12. CASE WatchIdle \/ WatchAdvancing \/ WatchStuck \/ Horizon \/ UNCHANGED vars
  <2>1. UNCHANGED <<now, compv, alive, phase, pc, queued, since, capture>>
    BY <1>12 DEF WatchIdle, WatchAdvancing, WatchStuck, Horizon
  <2> QED
    BY <1>0, <2>1 DEF Punctual, Running
<1> QED
  BY <1>1, <1>2, <1>3, <1>4, <1>5, <1>6, <1>7, <1>8, <1>9, <1>10, <1>11, <1>12
  DEF Next, Poll, Work, WatchdogWork

\* Does compare c lie where an edge of a waveform of equal halves belongs
\* whose first rise is at g: a rise, or, half a period off, a fall?
On(c, g, half, fall) == (c - g) % (half + half) = IF fall THEN half ELSE 0

\* Half a period turns a rise into a fall, and back.
LEMMA HalfTurn ==
    ASSUME NEW c \in Int, NEW g \in Int, NEW half \in Nat \ {0},
           NEW fall \in BOOLEAN, On(c, g, half, fall)
    PROVE  On(c + half, g, half, ~fall) /\ On(c - half, g, half, ~fall)
<1> DEFINE m == half + half
           x == c - g
           q == x \div m
<1>1. m \in Nat \ {0} /\ half < m /\ x \in Int
  OBVIOUS
<1>2. q \in Int /\ x = q * m + (x % m) /\ x % m = IF fall THEN half ELSE 0
  BY <1>1, Divided DEF On
<1>3. /\ (c + half) - g = x + half /\ (c - half) - g = (x + half) - m
      /\ half + half = m
  OBVIOUS
<1> HIDE DEF m, q, x
<1>4. /\ q * m \in Int /\ (q * m + half) % m = half
      /\ (q + 1) * m = q * m + m /\ ((q + 1) * m + 0) % m = 0
  <2>1. q * m \in Int /\ (q + 1) * m = q * m + 1 * m /\ 1 * m = m
    BY <1>1, <1>2, Distributes
  <2>2. (q * m + half) % m = half
    BY <1>1, <1>2, Multiple
  <2>3. q + 1 \in Int /\ 0 < m
    BY <1>1, <1>2
  <2>4. ((q + 1) * m + 0) % m = 0
    BY <1>1, <2>3, Multiple
  <2> QED
    BY <2>1, <2>2, <2>4
<1>5. ~fall => x + half = q * m + half
  BY <1>2, <1>4
<1>6. fall => x + half = (q + 1) * m + 0
  BY <1>1, <1>2, <1>3, <1>4
<1>7. (x + half) % m = IF fall THEN 0 ELSE half
  BY <1>4, <1>5, <1>6
<1>8. ((x + half) - m) % m = (x + half) % m
  <2>1. x + half \in Int
    BY <1>1
  <2> QED
    BY <1>1, <2>1, OnePeriod
<1> QED
  BY <1>3, <1>7, <1>8 DEF On

\* output_work has applied what was published last.
Settled == gen = done.gen /\ gen > 0

\* The compare a symmetric output will have once a shift at hand is done
NextCompare == IF pc = "shift" THEN compv + shape.high ELSE compv

\* An output that is settled has the waveform published last, and its compare
\* lies where the mirror says: at a rise of the requested grid, or a fall.  One
\* that is drained is not.
GridInv ==
    Settled =>
      /\ phase # "off" /\ pc # "drain" /\ want.run /\ shape = want.shape
      /\ phase = "arm" => (edge - want.first) % Period(shape) = 0
      /\ phase = "periodic" =>
           On(NextCompare, want.first, shape.high, level # wrong)

\* Nothing is settled at load.
LEMMA GridInitially == Init => GridInv
  BY DEF Init, GridInv, Settled

\* Each toggle turns both the level and the slot, each flip of the mirror comes
\* with a shift or a re-arm, and an arm takes the slot the mirror says.
LEMMA GridStep ==
    ASSUME TypeInv, TypeInv', GridInv, [Next]_vars PROVE GridInv'
<1> USE DEF ScheduleWork, Return
<1>a. /\ now \in Nat /\ compv \in Nat /\ edge \in Nat
      /\ shape.high \in Nat \ {0} /\ shape.low \in Nat \ {0}
      /\ want.first \in Nat /\ want \in Wants
      /\ gen \in Nat /\ done \in [gen : Nat, flip : Nat]
      /\ pc \in {"idle", "drain", "shift", "config"} /\ want.first \in Nat
  BY TimeTypes
<1>b. level \in BOOLEAN /\ wrong \in BOOLEAN /\ (level # wrong) \in BOOLEAN
  BY DEF TypeInv, Fields
\* Steps that leave the output and what was published alone
<1>c. ASSUME UNCHANGED <<phase, shape, edge, want, compv, level, wrong>>,
             Settled' => Settled, NextCompare' = NextCompare,
             pc' = "drain" => pc = "drain"
      PROVE  GridInv'
  BY <1>c, Zenon DEF GridInv
\* and those after which the last publication is not applied
<1>d. ASSUME ~Settled' PROVE GridInv'
  BY <1>d DEF GridInv
<1>1. CASE Tick
  <2>1. UNCHANGED <<phase, shape, edge, want, wrong, gen, done, pc>>
    BY <1>1 DEF Tick
  <2>2. CASE ~Toggles
    <3>1. compv' = compv /\ level' = level
      BY <1>1, <2>2 DEF Tick
    <3> QED
      BY <1>c, <2>1, <3>1 DEF Settled, NextCompare
  <2>3. CASE Toggles
    <3>1. /\ level' = ~level
          /\ compv' = compv + IF level' THEN shape.high ELSE shape.low
      BY <1>1, <2>3 DEF Tick
    <3>2. ASSUME Settled, phase = "periodic"
          PROVE  On(NextCompare', want.first, shape.high, level' # wrong)
      <4>1. shape.low = shape.high
        BY <3>2 DEF TypeInv, Order, Symmetric
      <4>2. NextCompare' = NextCompare + shape.high /\ NextCompare \in Int
        BY <1>a, <2>1, <3>1, <4>1 DEF NextCompare
      <4>3. On(NextCompare, want.first, shape.high, level # wrong)
        BY <3>2 DEF GridInv
      <4>4. want.first \in Int
        BY <1>a
      <4>5. On(NextCompare + shape.high, want.first, shape.high, ~(level # wrong))
        BY <1>a, <1>b, <4>2, <4>3, <4>4, HalfTurn
      <4>6. (level' # wrong) = ~(level # wrong)
        BY <1>b, <3>1
      <4> QED
        BY <4>2, <4>5, <4>6
    <3> HIDE DEF On, NextCompare
    <3> QED
      BY <2>1, <3>2 DEF GridInv, Settled
  <2> QED
    BY <2>2, <2>3
<1>2. CASE Die
  BY <1>c, <1>2 DEF Die, Settled, NextCompare
<1>3. ASSUME NEW s \in Shapes, NEW f \in Firsts, Request(s, f) PROVE GridInv'
  <2>1. gen' = gen + 1 /\ done' = done /\ done.gen <= gen
    BY <1>3 DEF Request, TypeInv, Order
  <2> QED
    BY <1>a, <1>d, <2>1 DEF Settled
<1>4. CASE Stop
  <2>1. gen' = gen + 1 /\ done' = done /\ done.gen <= gen
    BY <1>4 DEF Stop, TypeInv, Order
  <2> QED
    BY <1>a, <1>d, <2>1 DEF Settled
<1>5. CASE UserFlip \/ Poll
  <2>1. UNCHANGED <<phase, shape, edge, want, compv, level, wrong, gen, done, pc>>
    BY <1>5
    DEF UserFlip, Poll, CheckPassed, CheckReset, CheckCount, CheckFlip
  <2> QED
    BY <1>c, <2>1 DEF Settled, NextCompare
<1>6. CASE WorkStop \/ WorkDrained
  <2>1. ~Settled
    BY <1>6 DEF WorkStop, WorkDrained, GridInv
  <2> QED
    BY <1>d, <1>6, <2>1 DEF WorkStop, WorkDrained, Settled
<1>7. CASE WorkBegin
  <2>1. /\ UNCHANGED <<want, compv, level, gen>> /\ pc = "idle" /\ want.run
        /\ pc' # "drain"
    BY <1>7 DEF WorkBegin
  <2>2. CASE phase' = "arm" /\ shape' = want.shape /\ edge' = NextEdge(want)
    <3>1. (edge' - want.first) % Period(shape') = 0
      BY <1>a, <2>2, EdgeTyped
    <3> QED
      BY <2>1, <2>2, <3>1 DEF GridInv
  <2>3. CASE UNCHANGED <<phase, shape, edge>>
    <3>1. done'.gen = done.gen
      BY <1>7, <2>3 DEF WorkBegin
    <3>2. CASE wrong' = wrong /\ pc' = "config"
      BY <1>c, <2>1, <2>3, <3>1, <3>2 DEF Settled, NextCompare
    <3>3. CASE wrong' = ~wrong /\ pc' = "config" /\ phase # "periodic"
      BY <2>1, <2>3, <3>1, <3>3 DEF GridInv, Settled
    <3>4. CASE wrong' = ~wrong /\ pc' = "shift"
      <4>1. NextCompare = compv /\ NextCompare' = compv + shape.high
        BY <2>1, <2>3, <3>4 DEF NextCompare
      <4>2. ASSUME Settled, phase = "periodic"
            PROVE  On(compv + shape.high, want.first, shape.high, level # wrong')
        <5>1. On(compv, want.first, shape.high, level # wrong)
          BY <4>1, <4>2 DEF GridInv
        <5>2. want.first \in Int /\ compv \in Int
          BY <1>a
        <5>3. On(compv + shape.high, want.first, shape.high, ~(level # wrong))
          BY <1>a, <1>b, <5>1, <5>2, HalfTurn
        <5>4. (level # wrong') = ~(level # wrong)
          BY <1>b, <3>4
        <5> QED
          BY <5>3, <5>4
      <4> HIDE DEF On, NextCompare
      <4>3. Settled' = Settled
        BY <2>1, <3>1 DEF Settled
      <4>4. phase' = "arm" => phase = "arm"
        BY <2>3
      <4> QED
        BY <2>1, <2>3, <4>1, <4>2, <4>3, <4>4 DEF GridInv
    <3> QED
      BY <1>7, <2>3, <3>2, <3>3, <3>4 DEF WorkBegin, Reconcile
  <2> QED
    BY <1>7, <2>2, <2>3 DEF WorkBegin, Reconcile
<1>8. CASE WorkShift
  <2>1. /\ UNCHANGED <<phase, shape, edge, want, level, wrong, gen>>
        /\ pc = "shift" /\ pc' = "config" /\ compv' = compv + shape.high
        /\ done'.gen = done.gen
    BY <1>8, <1>a DEF WorkShift
  <2>2. NextCompare' = NextCompare /\ Settled' = Settled
    BY <2>1 DEF NextCompare, Settled
  <2> HIDE DEF On, NextCompare
  <2> QED
    BY <2>1, <2>2 DEF GridInv
<1>9. CASE WorkReconcile
  <2>1. /\ pc = "config" /\ phase' = "arm" /\ shape' = taken.want.shape
        /\ edge' = NextEdge(taken.want) /\ gen' = gen /\ want' = want
        /\ done'.gen = taken.gen /\ pc' = "idle"
    BY <1>9, <1>a DEF WorkReconcile, Reconcile
  <2>2. CASE taken.gen # gen
    BY <1>d, <2>1, <2>2 DEF Settled
  <2>3. CASE taken.gen = gen
    <3>1. taken.want = want /\ taken.want.run
      BY <2>1, <2>3 DEF TypeInv, Order
    <3>2. (edge' - want.first) % Period(shape') = 0
      BY <1>a, <2>1, <3>1, EdgeTyped
    <3> QED
      BY <2>1, <3>1, <3>2 DEF GridInv
  <2> QED
    BY <2>2, <2>3
<1>10. CASE WorkArm
  <2>1. /\ phase = "arm" /\ UNCHANGED <<shape, edge, want, level, wrong, gen, done>>
        /\ phase' = IF Symmetric(shape) THEN "periodic" ELSE "duty"
        /\ compv' = PushLate(IF level = wrong THEN edge ELSE edge - shape.low)
        /\ pc' = "idle"
    BY <1>10 DEF WorkArm
  <2>2. ASSUME Settled, Symmetric(shape)
        PROVE  On(compv', want.first, shape.high, level # wrong)
    <3> DEFINE slot == IF level = wrong THEN edge ELSE edge - shape.low
    <3>1. /\ shape.low = shape.high /\ Period(shape) = shape.high + shape.high
          /\ edge \in Int /\ want.first \in Int /\ slot \in Int
      BY <1>a, <2>2 DEF Symmetric, Period
    <3>2. On(edge, want.first, shape.high, FALSE)
      BY <2>1, <2>2, <3>1 DEF GridInv, On
    <3>3. On(slot, want.first, shape.high, level # wrong)
      <4>1. CASE level = wrong
        BY <3>2, <4>1
      <4>2. CASE level # wrong
        <5>1. On(edge - shape.high, want.first, shape.high, ~FALSE)
          BY <1>a, <3>1, <3>2, HalfTurn
        <5>2. slot = edge - shape.high /\ (level # wrong) = TRUE
          BY <3>1, <4>2
        <5> QED
          BY <5>1, <5>2
      <4> QED
        BY <4>1, <4>2
    <3> HIDE DEF slot
    <3>4. (PushLate(slot) - want.first) % Period(shape)
            = (slot - want.first) % Period(shape)
      BY <3>1, Pushed
    <3>5. compv' = PushLate(slot)
      BY <2>1 DEF slot
    <3> QED
      BY <3>1, <3>3, <3>4, <3>5 DEF On
  <2>3. NextCompare' = compv' /\ Settled' = Settled
    BY <2>1 DEF NextCompare, Settled
  <2> HIDE DEF On, NextCompare
  <2> QED
    BY <2>1, <2>2, <2>3 DEF GridInv
<1>11. CASE WorkReturn
  BY <1>c, <1>11 DEF WorkReturn, Settled, NextCompare
<1>12. CASE Wake \/ WatchdogWork \/ Horizon \/ UNCHANGED vars
  <2>1. UNCHANGED <<phase, shape, edge, want, compv, level, wrong, gen, done, pc>>
    BY <1>12
    DEF Wake, WatchdogWork, WatchIdle, WatchAdvancing, WatchStuck, Horizon
  <2> QED
    BY <1>c, <2>1 DEF Settled, NextCompare
<1> QED
  BY <1>1, <1>2, <1>3, <1>4, <1>5, <1>6, <1>7, <1>8, <1>9, <1>10, <1>11, <1>12
  DEF Next, User, Work

\* However requests, flips and stops come between the copy output_work takes
\* and what it writes: once the newest publication is applied, the block has its
\* waveform, and the compare of a symmetric output lies on the requested grid,
\* on the slot that tgpio_arm_hardware_periodic and tgpio_hw_periodic_invert
\* chose by the mirror: provided that, as in Supervision, no edge slips into a
\* flip between its fold and its shift.
THEOREM SettledOnGrid == Spec => []GridInv
<1>1. Init => TypeInv /\ GridInv
  BY TypeInitially, GridInitially
<1>2. TypeInv /\ GridInv /\ [Next]_vars => TypeInv' /\ GridInv'
  BY TypeStep, GridStep
<1> QED
  BY <1>1, <1>2, PTL DEF Spec

-----------------------------------------------------------------------------
(* Polarity *)

\* The workqueue starts output_work before the first edge of a request, unless
\* the work is busy draining a stop (then Late notices, in history.disturbed),
\* and three captures with the cooldown before them, six periods in all,
\* outlast the poll, both starts of the work a flip may need and its wait.
InTime ==
    /\ \A f \in Firsts : WorkLate < f
    /\ \A s \in Shapes :
         Symmetric(s) => PollLate + 2 * WorkLate + FlipWait < 12 * s.high

\* Since when output_work has been asked for what it has not begun
Start == IF pc \in {"config", "drain"} THEN now ELSE since

\* The compare of the next rise, unless it is shifted
Rise == IF level THEN compv + shape.high ELSE compv

\* How many judged captures have been used up since the last flip; a sixth in
\* a row asks for one.
Used == (3 - cooldown) + streak + Bit(capture.fresh)

\* Five captures in a row, used or to come, go on past a limit.
Enough(runs, rise, used, period, limit) ==
    used <= 5 /\ (runs => rise + (5 - used) * period > limit)
Lasts(limit) == Enough(alive, Rise, Used, Period(shape), limit)

\* Will the capture at hand be judged if it is not ignored for its phase?
Judgeable ==
    /\ capture.fresh /\ want.run /\ Symmetric(want.shape)
    /\ capture.at >= want.first

\* Before the first flip: a publication that is not applied will be before its
\* first edge; captures that can be judged were made by an output that is
\* settled, and show whether the mirror is wrong; and they count up to the flip.
Awaited ==
    gen # done.gen /\ want.run =>
      IF queued THEN Start + WorkLate < want.first
      ELSE pc = "config" /\ taken.gen = gen
Shown ==
    Judgeable =>
      /\ Running /\ gen = done.gen
      /\ Remainder = IF wrong THEN shape.high ELSE 0
      /\ alive => Rise >= capture.at + Period(shape)
Counted ==
    IF wrong THEN history.inverted <= streak
    ELSE streak = 0 /\ history.inverted = 0
Unflipped == pc # "shift" /\ cooldown = 0 /\ Awaited /\ Shown /\ Counted

\* After it: while the flip is asked for, the shift at hand, or a publication
\* waits, five captures last until the work has acted, unless it drains; else
\* the next one that is judged shows that the mirror is right.
RightShown == capture.fresh /\ (Judgeable => Remainder = 0)
Owing ==
    done.flip = 0 /\ pc # "shift" =>
      /\ phase \in {"periodic", "off"}
      /\ pc = "config" => taken.gen = done.gen
      /\ phase = "periodic" /\ pc # "drain" =>
           queued /\ Lasts(Start + 2 * WorkLate + FlipWait)
Shifting ==
    pc = "shift" =>
      /\ done.flip = 0 /\ taken.flip = 1 /\ Lasts(since + FlipWait + WorkLate)
      /\ gen # taken.gen => queued
Rearming ==
    done.flip = 1 /\ gen # done.gen /\ want.run =>
      IF queued
      THEN \/ Start + WorkLate < want.first
           \/ pc = "idle" /\ phase = "arm"
           \/ phase = "periodic" /\ pc # "drain" /\ Lasts(Start + WorkLate)
      ELSE pc = "config" /\ taken.gen = gen
Flipped ==
    /\ wrong <=> (done.flip = 0 /\ pc # "shift")
    /\ history.inverted <= 3
    /\ Used <= 5 \/ RightShown
    /\ Owing /\ Shifting /\ Rearming

\* One flip is asked for, at most, unless a user asks for others.
PolarityInv ==
    wiring = "loopback" /\ ~history.disturbed =>
      \/ flip = 0 /\ Unflipped
      \/ flip = 1 /\ Flipped

\* The types of what these compare
PolarityTyped ==
    /\ Start \in Nat /\ Start <= now /\ Rise \in Nat /\ Used \in 0..6
    /\ Period(shape) \in Nat \ {0} /\ alive \in BOOLEAN
    /\ streak \in 0..2 /\ cooldown \in 0..3 /\ history.inverted \in Nat
    /\ wrong \in BOOLEAN /\ level \in BOOLEAN /\ queued \in BOOLEAN
    /\ capture.fresh \in BOOLEAN

\* They follow from those of the state,
LEMMA PolarityTypes == TypeInv => PolarityTyped
<1> SUFFICES ASSUME TypeInv PROVE PolarityTyped
  OBVIOUS
<1>1. /\ now \in Nat /\ since \in Nat /\ since <= now /\ compv \in Nat
      /\ shape.high \in Nat \ {0} /\ shape.low \in Nat \ {0}
      /\ capture \in [fresh : BOOLEAN, at : Nat]
  BY TimeTypes
<1>2. /\ alive \in BOOLEAN /\ streak \in 0..2 /\ cooldown \in 0..3
      /\ wrong \in BOOLEAN /\ level \in BOOLEAN /\ queued \in BOOLEAN
  BY DEF TypeInv, Fields
<1>3. history.inverted \in Nat
  BY DEF TypeInv, Records
<1>4. /\ Start \in Nat /\ Start <= now /\ Rise \in Nat /\ Used \in 0..6
      /\ Period(shape) \in Nat \ {0} /\ capture.fresh \in BOOLEAN
  BY <1>1, <1>2 DEF Start, Rise, Used, Bit, Period
<1> QED
  BY <1>2, <1>3, <1>4 DEF PolarityTyped

\* also after a step.
LEMMA PolarityTypesNext == TypeInv' => PolarityTyped'
  BY PolarityTypes, PTL

\* A mark half a period off the grid is told from one on it.
LEMMA Judgement ==
    ASSUME TypeInv, Symmetric(want.shape)
    PROVE  /\ Remainder = 0 => ~HalfOff
           /\ Remainder = want.shape.high => HalfOff
<1>1. want.shape.high \in Nat \ {0}
  BY TimeTypes, WantsTyped
<1>2. /\ Period(want.shape) = want.shape.high + want.shape.high
      /\ Period(want.shape) \div 2 = want.shape.high
  BY <1>1 DEF Symmetric, Period
<1> HIDE DEF Remainder
<1> QED
  BY <1>1, <1>2 DEF HalfOff, OnGrid, Near, Distance

\* Enough captures remain enough when the next rise comes no sooner and no
\* more are used up, or when one period passes for each that is.
LEMMA EnoughKept ==
    ASSUME NEW runs \in BOOLEAN, NEW runs1 \in BOOLEAN, runs1 => runs,
           NEW rise \in Int, NEW rise1 \in Int, NEW used \in 0..6,
           NEW used1 \in 0..6, NEW period \in Nat, NEW limit \in Int,
           NEW limit1 \in Int, limit1 <= limit,
           Enough(runs, rise, used, period, limit),
           \/ rise <= rise1 /\ used1 <= used
           \/ rise + period <= rise1 /\ used1 <= used + 1 /\ used < 5
    PROVE  Enough(runs1, rise1, used1, period, limit1)
<1>1. used <= 5 /\ used1 <= 5
  BY DEF Enough
<1>2. 5 - used \in Nat /\ 5 - used1 \in Nat
  BY <1>1
<1>3. (5 - used) * period \in Nat /\ (5 - used1) * period \in Nat
  BY <1>2
<1>4. rise + (5 - used) * period <= rise1 + (5 - used1) * period
  <2>1. CASE rise <= rise1 /\ used1 <= used
    <3>1. (5 - used) * period <= (5 - used1) * period
      BY <1>2, <2>1
    <3> QED
      BY <1>3, <2>1, <3>1
  <2>2. CASE rise + period <= rise1 /\ used1 <= used + 1 /\ used < 5
    <3>1. (5 - used) * period <= ((5 - used1) + 1) * period
      BY <1>2, <2>2
    <3>2. ((5 - used1) + 1) * period = (5 - used1) * period + period
      BY <1>2
    <3> QED
      BY <1>3, <2>2, <3>1, <3>2
  <2> QED
    BY <2>1, <2>2
<1>5. runs => rise + (5 - used) * period > limit
  BY DEF Enough
<1> QED
  BY <1>1, <1>3, <1>4, <1>5 DEF Enough

\* A capture of the looped-back output marks a rise; the mark of a settled
\* one shows whether the mirror is wrong.
LEMMA CaptureMade ==
    ASSUME TypeInv, GridInv, Punctual, wiring = "loopback", Tick, Captures
    PROVE  /\ Running /\ alive /\ compv = now + 1 /\ Rise = now + 1
           /\ capture' = [fresh |-> TRUE, at |-> now + 1]
           /\ gen = done.gen /\ pc # "shift" /\ Judgeable' =>
                Remainder' = IF wrong THEN shape.high ELSE 0
           /\ phase = "periodic" => Rise' = Rise + Period(shape)
<1>1. /\ Toggles /\ ~level /\ Running /\ alive /\ compv <= now + 1
  BY DEF Captures, Toggles
<1>2. /\ now' = now + 1 /\ level' = ~level
      /\ compv' = compv + IF level' THEN shape.high ELSE shape.low
      /\ capture' = [fresh |-> TRUE, at |-> now']
      /\ UNCHANGED <<want, shape, phase>>
  BY <1>1 DEF Tick
<1>3. /\ now \in Nat /\ compv \in Nat /\ shape.high \in Nat
      /\ level \in BOOLEAN
  BY TimeTypes, PolarityTypes DEF PolarityTyped
<1>4. compv = now + 1
  BY <1>1, <1>3 DEF Punctual
<1>5. level' = TRUE /\ compv' = compv + shape.high
  BY <1>1, <1>2, <1>3
<1>6. Rise = now + 1 /\ Rise' = compv + 2 * shape.high
  BY <1>1, <1>2, <1>3, <1>4, <1>5 DEF Rise
<1>7. ASSUME gen = done.gen, pc # "shift", Judgeable'
      PROVE  Remainder' = IF wrong THEN shape.high ELSE 0
  <2>1. Settled
    BY <1>1, <1>7, TimeTypes DEF Settled, Running, TypeInv, Order
  <2>2. shape = want.shape /\ phase # "duty"
    <3>1. Symmetric(want.shape)
      BY <1>2, <1>7 DEF Judgeable
    <3> QED
      BY <2>1, <3>1 DEF GridInv, TypeInv, Order
  <2>3. On(compv, want.first, shape.high, level # wrong)
    BY <1>1, <1>7, <2>1, <2>2 DEF GridInv, NextCompare, Running
  <2>4. Period(want.shape) = shape.high + shape.high
    <3>1. Symmetric(want.shape)
      BY <1>2, <1>7 DEF Judgeable
    <3> QED
      BY <2>2, <3>1 DEF Period, Symmetric
  <2>5. Remainder' = (compv - want.first) % (shape.high + shape.high)
    <3>1. capture'.at = compv /\ want' = want
      BY <1>2, <1>4
    <3> QED
      BY <2>4, <3>1 DEF Remainder
  <2>6. (level # wrong) = wrong
    BY <1>1, PolarityTypes DEF PolarityTyped
  <2> QED
    BY <2>3, <2>5, <2>6 DEF On
<1>8. phase = "periodic" => Period(shape) = 2 * shape.high
  BY <1>3 DEF TypeInv, Order, Period, Symmetric
<1> QED
  BY <1>1, <1>2, <1>3, <1>4, <1>6, <1>7, <1>8

\* Any other tick leaves the next rise of a symmetric output where it was.
LEMMA RiseStays ==
    ASSUME TypeInv, wiring = "loopback", Tick, ~Captures
    PROVE  /\ capture' = capture
           /\ phase = "periodic" => Rise' = Rise
           /\ ~(Running /\ alive) => Rise' = Rise
<1>1. capture' = capture /\ (Toggles => level) /\ shape' = shape
  BY DEF Captures, Tick
<1>2. CASE Toggles
  <2>1. /\ level' = ~level /\ level = TRUE /\ Running /\ alive
        /\ compv' = compv + IF level' THEN shape.high ELSE shape.low
    BY <1>1, <1>2, PolarityTypes DEF Tick, PolarityTyped, Toggles
  <2>2. Rise = compv + shape.high /\ Rise' = compv + shape.low
    BY <1>1, <2>1 DEF Rise
  <2> QED
    BY <1>1, <2>1, <2>2 DEF TypeInv, Order, Symmetric
<1>3. CASE ~Toggles
  <2>1. compv' = compv /\ level' = level
    BY <1>3 DEF Tick
  <2> QED
    BY <1>1, <2>1 DEF Rise
<1> QED
  BY <1>2, <1>3

\* What a tick must leave to the work: it is not due.
LEMMA TickWaits ==
    ASSUME TypeInv, Tick
    PROVE  /\ now' = now + 1 /\ pc # "config"
           /\ pc = "idle" /\ queued => now + 1 <= since + WorkLate
           /\ pc = "shift" => now + 1 <= since + FlipWait
           /\ history'.inverted = history.inverted
           /\ ~history'.disturbed /\ pc = "drain" /\ want.run =>
                now + 1 + WorkLate < want.first
           /\ UNCHANGED <<wiring, alive, phase, shape, wrong, edge, desired,
                          work, polarity>>
<1>1. history \in [inverted : Nat, disturbed : BOOLEAN, died : Nat, warnings : Nat]
  BY DEF TypeInv, Records
<1>2. /\ now' = now + 1
      /\ history' = IF Late(now')
                      THEN [history EXCEPT !.disturbed = TRUE] ELSE history
  BY DEF Tick
<1>3. history'.inverted = history.inverted
  BY <1>1, <1>2
<1>4. ~history'.disturbed => ~Late(now + 1)
  BY <1>1, <1>2
<1>5. ~history'.disturbed /\ pc = "drain" /\ want.run =>
        now + 1 + WorkLate < want.first
  BY <1>4, TimeTypes DEF Late
<1> QED
  BY <1>3, <1>5, TimeTypes DEF Tick, Pressed

\* A request's first edge comes after what output_work may be late.
LEMMA RequestLater ==
    ASSUME InTime, TypeInv, NEW s \in Shapes, NEW f \in Firsts, Request(s, f)
    PROVE  /\ ~Judgeable' /\ Start' + WorkLate < want'.first
           /\ queued' = TRUE
           /\ pc = "shift" => since' = since
           /\ queued => Start' = Start
<1>1. f \in Nat /\ WorkLate \in Nat /\ WorkLate < f
  BY Constants DEF InTime
<1>2. /\ now \in Nat /\ capture.at \in Nat /\ capture.at <= now
      /\ since \in Nat /\ since <= now
  BY TimeTypes
<1>3. /\ want'.first = now + f /\ UNCHANGED <<now, pc, capture>> /\ queued' = TRUE
      /\ since' = IF queued \/ pc \in {"shift", "drain"} THEN since ELSE now
  BY DEF Request, ScheduleWork
<1>4. Start' <= now /\ Start' \in Nat
  BY <1>2, <1>3 DEF Start
<1>5. ~Judgeable'
  BY <1>1, <1>2, <1>3 DEF Judgeable
<1> QED
  BY <1>1, <1>2, <1>3, <1>4, <1>5 DEF Start

\* A capture that is judged is one that can be.
LEMMA JudgedJudgeable ==
    ASSUME ReadCapture, Judged PROVE Judgeable /\ phase = "periodic"
  BY DEF ReadCapture, Judged, Judgeable

\* No step before the first flip changes what holds until then.
LEMMA UnflippedStep ==
    ASSUME InTime, TypeInv, TypeInv', GridInv, Punctual, wiring = "loopback",
           ~history'.disturbed, flip = 0, flip' = 0, Unflipped, [Next]_vars
    PROVE  Unflipped'
<1> USE DEF ScheduleWork, Return
<1>0. pc # "shift" /\ cooldown = 0 /\ Awaited /\ Shown /\ Counted
  BY DEF Unflipped
<1>a. /\ now \in Nat /\ since \in Nat /\ since <= now /\ capture.at \in Nat
      /\ shape.high \in Nat \ {0} /\ want.first \in Nat /\ WorkLate \in Nat
      /\ pc \in {"idle", "drain", "config"} /\ gen \in Nat
      /\ done \in [gen : Nat, flip : Nat]
  BY <1>0, TimeTypes
<1>b. /\ Start \in Nat /\ Rise \in Nat /\ streak \in 0..2
      /\ history.inverted \in Nat /\ wrong \in BOOLEAN
      /\ Period(shape) \in Nat \ {0}
  BY PolarityTypes DEF PolarityTyped
<1>c. history \in [inverted : Nat, disturbed : BOOLEAN, died : Nat, warnings : Nat]
  BY DEF TypeInv, Records
<1>d. done.flip = 0
  BY <1>a DEF TypeInv, Order
\* Steps that leave the captures, and what was published, alone
<1>e. ASSUME pc' # "shift", UNCHANGED <<polarity, wrong>>,
             history'.inverted = history.inverted \/ history'.inverted = 0,
             Awaited', Shown'
      PROVE  Unflipped'
  BY <1>0, <1>b, <1>e DEF Unflipped, Counted
<1>f. ASSUME UNCHANGED <<capture, want, phase, shape, gen, wrong, compv, level>>,
             done'.gen = done.gen, alive' => alive
      PROVE  Shown'
  BY <1>0, <1>f DEF Shown, Judgeable, Remainder, Running, Rise
<1>g. ASSUME UNCHANGED <<want, gen, taken, pc, queued, since, now>>,
             done'.gen = done.gen
      PROVE  Awaited'
  BY <1>0, <1>g DEF Awaited, Start
<1>1. CASE Tick
  <2>1. /\ now' = now + 1 /\ pc # "config"
        /\ pc = "idle" /\ queued => now + 1 <= since + WorkLate
        /\ pc = "drain" /\ want.run => now + 1 + WorkLate < want.first
        /\ history'.inverted = history.inverted
        /\ UNCHANGED <<alive, phase, shape, wrong, desired, work, polarity>>
    BY <1>1, TickWaits
  <2>2. Awaited'
    BY <1>0, <1>a, <2>1 DEF Awaited, Start
  <2>3. Shown'
    <3>1. CASE Captures
      <4> SUFFICES ASSUME Judgeable'
                   PROVE  /\ Running /\ gen = done.gen
                          /\ Remainder' = IF wrong THEN shape.high ELSE 0
                          /\ Rise' >= capture'.at + Period(shape)
        BY <2>1 DEF Shown, Running
      <4>1. /\ Running /\ alive /\ Rise = now + 1
            /\ capture' = [fresh |-> TRUE, at |-> now + 1]
            /\ gen = done.gen /\ pc # "shift" /\ Judgeable' =>
                 Remainder' = IF wrong THEN shape.high ELSE 0
            /\ phase = "periodic" => Rise' = Rise + Period(shape)
        BY <1>1, <3>1, CaptureMade
      <4>2. want.run /\ Symmetric(want.shape) /\ now + 1 >= want.first
        BY <2>1, <4>1 DEF Judgeable
      <4>3. gen = done.gen
        <5> SUFFICES ASSUME gen # done.gen PROVE FALSE
          OBVIOUS
        <5>1. queued /\ Start + WorkLate < want.first /\ pc # "config"
          BY <1>0, <2>1, <4>2 DEF Awaited
        <5>2. CASE pc = "drain"
          BY <1>a, <2>1, <4>2, <5>2
        <5>3. CASE pc = "idle"
          BY <1>a, <2>1, <4>2, <5>1, <5>3 DEF Start
        <5> QED
          BY <1>a, <5>1, <5>2, <5>3
      <4>4. phase = "periodic"
        <5>1. Settled
          BY <1>a, <4>1, <4>3 DEF Settled, Running, TypeInv, Order
        <5>2. Symmetric(shape)
          BY <4>2, <5>1 DEF GridInv
        <5> QED
          BY <4>1, <5>2 DEF Running, TypeInv, Order
      <4> QED
        BY <1>a, <1>b, <4>1, <4>3, <4>4, <1>0
    <3>2. CASE ~Captures
      <4>1. /\ capture' = capture
            /\ phase = "periodic" => Rise' = Rise
        BY <1>1, <3>2, RiseStays
      <4>2. Judgeable => phase = "periodic"
        <5> SUFFICES ASSUME Judgeable PROVE phase = "periodic"
          OBVIOUS
        <5>1. Running /\ gen = done.gen
          BY <1>0 DEF Shown
        <5>2. Settled
          BY <1>a, <5>1 DEF Settled, Running, TypeInv, Order
        <5>3. Symmetric(shape)
          BY <5>2 DEF GridInv, Judgeable
        <5> QED
          BY <5>1, <5>3 DEF Running, TypeInv, Order
      <4>3. Judgeable' = Judgeable /\ Remainder' = Remainder
        BY <2>1, <4>1 DEF Judgeable, Remainder
      <4> QED
        BY <1>0, <2>1, <4>1, <4>2, <4>3 DEF Shown, Running
    <3> QED
      BY <3>1, <3>2
  <2> QED
    BY <1>0, <1>e, <2>1, <2>2, <2>3
<1>2. CASE Die
  <2>1. history'.inverted = history.inverted
    BY <1>2, <1>c DEF Die
  <2> QED
    BY <1>0, <1>2, <1>e, <1>f, <1>g, <2>1 DEF Die
<1>3. ASSUME NEW s \in Shapes, NEW f \in Firsts, Request(s, f) PROVE Unflipped'
  <2>1. history'.inverted = 0 /\ UNCHANGED <<pc, polarity, wrong>>
    BY <1>3, <1>c DEF Request
  <2>2. Awaited' /\ Shown'
    BY <1>3, RequestLater DEF Awaited, Shown
  <2> QED
    BY <1>0, <1>e, <2>1, <2>2
<1>4. CASE Stop
  <2>1. history'.inverted = 0 /\ UNCHANGED <<pc, polarity, wrong>> /\ want' = Off
    BY <1>4, <1>c DEF Stop
  <2>2. Awaited' /\ Shown'
    BY <2>1 DEF Awaited, Shown, Judgeable, Off
  <2> QED
    BY <1>0, <1>e, <2>1, <2>2
<1>5. ~UserFlip /\ ~CheckFlip
  BY DEF UserFlip, CheckFlip
<1>6. ASSUME CheckPassed \/ CheckReset \/ CheckCount PROVE Unflipped'
  <2>1. /\ ReadCapture
        /\ UNCHANGED <<now, wrong, alive, phase, shape, desired, work, compv, level>>
    BY <1>6 DEF CheckPassed, CheckReset, CheckCount
  <2>2. Awaited'
    BY <1>g, <2>1
  <2>3. Shown'
    BY <2>1 DEF Shown, Judgeable, ReadCapture, NoCapture
  <2>4. Inverted = wrong
    <3>1. Owed = 0
      BY <1>0, <1>d DEF Owed
    <3>2. 0 % 2 = 0
      OBVIOUS
    <3> QED
      BY <1>b, <3>1, <3>2 DEF Inverted
  <2>5. history'.inverted =
          IF ~wrong THEN 0
          ELSE IF Judged /\ gen = done.gen THEN history.inverted + 1
          ELSE history.inverted
    BY <1>c, <2>1, <2>4 DEF ReadCapture
  <2>6. cooldown' = 0 /\ Counted'
    <3>1. CASE CheckPassed
      <4>1. ~Judged /\ cooldown' = cooldown /\ streak' = streak
        BY <1>0, <3>1 DEF CheckPassed
      <4> QED
        BY <1>0, <2>1, <2>5, <4>1 DEF Counted
    <3>2. CASE CheckReset \/ CheckCount
      <4>1. /\ Judged /\ cooldown' = cooldown
            /\ HalfOff => streak' = streak + 1
            /\ ~HalfOff => streak' = 0
        BY <3>2 DEF CheckReset, CheckCount
      <4>2. Judgeable
        BY <2>1, <4>1, JudgedJudgeable
      <4>3. Remainder = IF wrong THEN want.shape.high ELSE 0
        <5>1. Running /\ gen = done.gen
          BY <1>0, <4>2 DEF Shown
        <5>2. Settled
          BY <1>a, <5>1 DEF Settled, Running, TypeInv, Order
        <5> QED
          BY <1>0, <4>2, <5>2 DEF Shown, GridInv
      <4>4. wrong <=> HalfOff
        BY <4>2, <4>3, Judgement DEF Judgeable
      <4> QED
        BY <1>0, <1>b, <2>1, <2>5, <4>1, <4>4 DEF Counted
    <3> QED
      BY <1>6, <3>1, <3>2
  <2> QED
    BY <1>0, <2>1, <2>2, <2>3, <2>6 DEF Unflipped
<1>7. CASE WorkStop
  <2>1. /\ ~want.run /\ UNCHANGED <<polarity, wrong, history, want>>
        /\ pc' \in {"idle", "drain"}
    BY <1>7 DEF WorkStop
  <2>2. Awaited' /\ Shown'
    BY <2>1 DEF Awaited, Shown, Judgeable
  <2> QED
    BY <1>0, <1>e, <2>1, <2>2
<1>15. CASE WorkDrained
  <2>1. /\ pc = "drain" /\ pc' = "idle" /\ since' = now /\ queued' = queued
        /\ UNCHANGED <<now, want, gen, done, capture, polarity, wrong, history>>
    BY <1>15 DEF WorkDrained
  <2>2. Awaited'
    BY <1>0, <2>1 DEF Awaited, Start
  <2>3. ~Judgeable
    <3>1. Judgeable => Running /\ gen = done.gen
      BY <1>0 DEF Shown
    <3>2. Judgeable => Settled
      BY <1>a, <3>1 DEF Settled, Running, TypeInv, Order
    <3> QED
      BY <2>1, <3>2 DEF GridInv
  <2>4. Shown'
    BY <2>1, <2>3 DEF Shown, Judgeable
  <2> QED
    BY <1>e, <2>1, <2>2, <2>4
<1>8. CASE WorkBegin
  <2>1. (flip - done.flip) % 2 = 0
    BY <1>d
  <2>2. /\ pc' = "config" /\ UNCHANGED <<wrong, since, phase, shape, edge>>
        /\ queued' = FALSE /\ taken' = Copy /\ done'.gen = done.gen
        /\ UNCHANGED <<compv, level, alive, desired, capture, polarity, history>>
    BY <1>8, <2>1 DEF WorkBegin
  <2>3. Awaited'
    BY <2>2 DEF Awaited, Copy
  <2>4. Shown'
    BY <1>f, <2>2
  <2> QED
    BY <1>e, <2>2, <2>3, <2>4
<1>9. CASE WorkShift
  BY <1>0, <1>9 DEF WorkShift
<1>10. CASE WorkReconcile
  <2>1. /\ pc = "config" /\ taken.gen # done.gen /\ done'.gen = taken.gen
        /\ pc' = "idle" /\ since' = now /\ queued' = queued
        /\ UNCHANGED <<now, want, gen, capture, polarity, wrong, history>>
    BY <1>10, <1>a DEF WorkReconcile
  <2>2. gen # done.gen
    BY <1>a, <2>1 DEF TypeInv, Order, Records
  <2>3. Awaited'
    BY <1>0, <2>1, <2>2 DEF Awaited, Start
  <2>4. ~Judgeable'
    BY <1>0, <2>1, <2>2 DEF Shown, Judgeable
  <2> QED
    BY <1>e, <2>1, <2>3, <2>4 DEF Shown
<1>11. CASE WorkArm
  <2>1. /\ pc = "config" /\ taken.gen = done.gen /\ done' = done
        /\ pc' = "idle" /\ since' = now /\ queued' = queued /\ phase = "arm"
        /\ history' = [history EXCEPT !.died = 0, !.warnings = 0]
        /\ UNCHANGED <<now, want, gen, capture, polarity, wrong>>
    BY <1>11 DEF WorkArm
  <2>2. Awaited'
    BY <1>0, <2>1 DEF Awaited, Start
  <2>3. ~Judgeable'
    BY <1>0, <2>1 DEF Shown, Judgeable, Running
  <2>4. history'.inverted = history.inverted
    BY <1>c, <2>1
  <2> QED
    BY <1>e, <2>1, <2>2, <2>3, <2>4 DEF Shown
<1>12. CASE WorkReturn
  <2>1. /\ pc = "config" /\ taken.gen = done.gen /\ done' = done
        /\ pc' = "idle" /\ since' = now /\ queued' = queued
        /\ UNCHANGED <<now, want, gen, capture, polarity, wrong, phase, shape,
                       compv, level, alive, history>>
    BY <1>12 DEF WorkReturn
  <2>2. Awaited'
    BY <1>0, <2>1 DEF Awaited, Start
  <2> QED
    BY <1>e, <1>f, <2>1, <2>2
<1>13. CASE Wake
  <2>1. /\ ~queued /\ pc = "idle"
        /\ UNCHANGED <<now, want, gen, capture, polarity, wrong, phase, shape,
                       compv, level, alive, history, done, pc>>
    BY <1>13 DEF Wake
  <2>2. Awaited'
    BY <1>0, <2>1 DEF Awaited
  <2> QED
    BY <1>0, <1>e, <1>f, <2>1, <2>2
<1>14. CASE WatchdogWork \/ Horizon \/ UNCHANGED vars
  <2>1. /\ UNCHANGED <<now, block, desired, work, capture, polarity>>
        /\ \/ history' = history
           \/ history' = [history EXCEPT !.warnings = @ + 1]
    BY <1>14 DEF WatchdogWork, WatchIdle, WatchAdvancing, WatchStuck, Horizon
  <2>2. history'.inverted = history.inverted
    BY <1>c, <2>1
  <2> QED
    BY <1>0, <1>e, <1>f, <1>g, <2>1, <2>2
<1> QED
  BY <1>1, <1>2, <1>3, <1>4, <1>5, <1>6, <1>7, <1>8, <1>9, <1>10, <1>11,
     <1>12, <1>13, <1>14, <1>15
  DEF Next, User, Poll, Work

\* The third capture half a period off asks for the first flip: the mirror is
\* wrong, and five more captures last until the shift is done.
LEMMA FirstFlip ==
    ASSUME InTime, TypeInv, TypeInv', GridInv, Punctual, flip = 0, Unflipped,
           CheckFlip
    PROVE  wrong /\ Inverted /\ flip' = 1 /\ Flipped'
<1>0. pc # "shift" /\ cooldown = 0 /\ Awaited /\ Shown /\ Counted
  BY DEF Unflipped
<1>1. /\ ReadCapture /\ Judged /\ HalfOff /\ streak = 2
      /\ streak' = 0 /\ cooldown' = 3 /\ flip' = 1 /\ queued' = TRUE
      /\ since' = IF queued \/ pc \in {"shift", "drain"} THEN since ELSE now
      /\ UNCHANGED <<now, block, want, gen, done, pc, taken>>
  BY DEF CheckFlip, ScheduleWork
<1>2. /\ now \in Nat /\ since \in Nat /\ since <= now /\ capture.at \in Nat
      /\ pc \in {"idle", "drain", "config"} /\ gen \in Nat
      /\ done \in [gen : Nat, flip : Nat]
      /\ WorkLate \in Nat /\ FlipWait \in Nat /\ PollLate \in Nat
      /\ shape.high \in Nat \ {0} /\ compv \in Nat
  BY <1>0, TimeTypes
<1>3. /\ history.inverted \in Nat /\ wrong \in BOOLEAN /\ Rise \in Nat
      /\ alive \in BOOLEAN
      /\ history \in [inverted : Nat, disturbed : BOOLEAN, died : Nat,
                      warnings : Nat]
  BY PolarityTypes DEF PolarityTyped, TypeInv, Records
<1>4. done.flip = 0
  BY <1>2 DEF TypeInv, Order
<1>5. Judgeable /\ phase = "periodic" /\ capture.fresh /\ capture'.fresh = FALSE
  BY <1>1, JudgedJudgeable DEF ReadCapture, NoCapture
<1>6. /\ Settled /\ gen = done.gen /\ shape = want.shape
      /\ Remainder = IF wrong THEN shape.high ELSE 0
      /\ alive => Rise >= capture.at + Period(shape)
  <2>1. /\ Running /\ gen = done.gen
        /\ Remainder = IF wrong THEN shape.high ELSE 0
        /\ alive => Rise >= capture.at + Period(shape)
    BY <1>0, <1>5 DEF Shown
  <2>2. Settled
    BY <1>2, <2>1 DEF Settled, Running, TypeInv, Order
  <2> QED
    BY <2>1, <2>2 DEF GridInv
<1>7. wrong = TRUE
  BY <1>1, <1>3, <1>5, <1>6, Judgement DEF Judgeable
<1>8. Inverted
  <2>1. Owed = 0
    BY <1>0, <1>4 DEF Owed
  <2>2. (Owed % 2 = 1) = FALSE
    BY <2>1
  <2> QED
    BY <1>7, <2>2 DEF Inverted
<1>9. history'.inverted <= 3
  <2>1. history.inverted <= 2
    BY <1>0, <1>1, <1>7 DEF Counted
  <2>2. history'.inverted \in {0, history.inverted, history.inverted + 1}
    BY <1>1, <1>3 DEF ReadCapture
  <2> QED
    BY <1>3, <2>1, <2>2
<1>10. Used' = 0 /\ Rise' = Rise /\ Start' <= now /\ Start' \in Nat
  BY <1>1, <1>2, <1>5 DEF Used, Rise, Start, Bit
<1>11. Lasts(Start + 2 * WorkLate + FlipWait)'
  <2>1. /\ Period(shape) = 2 * shape.high /\ 5 * Period(shape) = 10 * shape.high
        /\ PollLate + 2 * WorkLate + FlipWait < 12 * shape.high
    <3>1. Symmetric(shape) /\ shape \in Shapes
      BY <1>5 DEF TypeInv, Order
    <3> QED
      BY <1>2, <3>1 DEF InTime, Period, Symmetric
  <2>2. now <= capture.at + PollLate
    BY <1>5 DEF Punctual
  <2>3. alive => Rise + 5 * Period(shape) > Start' + 2 * WorkLate + FlipWait
    BY <1>2, <1>3, <1>6, <1>10, <2>1, <2>2
  <2>4. (5 - Used') * Period(shape) = 5 * Period(shape)
    BY <1>10
  <2> QED
    BY <1>1, <1>10, <2>3, <2>4 DEF Lasts, Enough
<1>12. Owing'
  <2>1. taken.gen = done.gen \/ pc # "config"
    BY <1>2, <1>6 DEF TypeInv, Order, Records
  <2> QED
    BY <1>1, <1>5, <1>11, <2>1 DEF Owing
<1>13. Shifting' /\ Rearming'
  BY <1>1, <1>2, <1>4 DEF Shifting, Rearming
<1>14. wrong' <=> (done'.flip = 0 /\ pc' # "shift")
  BY <1>0, <1>1, <1>4, <1>7
<1> QED
  BY <1>1, <1>7, <1>8, <1>9, <1>10, <1>12, <1>13, <1>14 DEF Flipped

\* After it the mirror is right, or will be when the flip asked for is done,
LEMMA FlippedRight ==
    ASSUME TypeInv, flip = 1, Flipped PROVE ~Inverted
<1>1. wrong <=> (done.flip = 0 /\ pc # "shift")
  BY DEF Flipped
<1>2. pc = "shift" => taken.flip = 1
  BY DEF Flipped, Shifting
<1>3. done.flip \in {0, 1}
  BY TimeTypes DEF TypeInv, Order
<1>4. 0 % 2 = 0 /\ 1 % 2 = 1
  OBVIOUS
<1>5. CASE pc = "shift"
  <2>1. Owed = 0
    BY <1>2, <1>5 DEF Owed
  <2>2. (Owed % 2 = 1) = FALSE
    BY <2>1
  <2>3. wrong = FALSE
    BY <1>1, <1>5, PolarityTypes DEF PolarityTyped
  <2> QED
    BY <2>2, <2>3 DEF Inverted
<1>6. CASE pc # "shift"
  <2>1. Owed = flip - done.flip
    BY <1>6 DEF Owed
  <2>2. Owed % 2 = 1 <=> done.flip = 0
    BY <1>3, <1>4, <2>1
  <2> QED
    BY <1>1, <1>6, <2>2, PolarityTypes DEF Inverted, PolarityTyped
<1> QED
  BY <1>5, <1>6

\* and no other flip is asked for.
LEMMA NoSecondFlip ==
    ASSUME TypeInv, flip = 1, Flipped PROVE ~CheckFlip
<1> SUFFICES ASSUME CheckFlip PROVE FALSE
  OBVIOUS
<1>1. /\ ReadCapture /\ Judged /\ cooldown = 0 /\ HalfOff /\ streak = 2
  BY DEF CheckFlip
<1>2. Judgeable /\ capture.fresh
  BY <1>1, JudgedJudgeable DEF ReadCapture
<1>3. Used = 6
  BY <1>1, <1>2 DEF Used, Bit
<1>4. Remainder = 0
  BY <1>2, <1>3 DEF Flipped, RightShown
<1> QED
  BY <1>1, <1>2, <1>4, Judgement DEF Judgeable


\* Five captures in a row that go on past a limit, go on past it after a step
\* that uses none of them and puts off no rise.
LEMMA LastsKept ==
    ASSUME TypeInv, TypeInv', alive' => alive, Rise <= Rise', Used' <= Used,
           shape' = shape, NEW l \in Int, NEW m \in Int, m <= l, Lasts(l)
    PROVE  Enough(alive', Rise', Used', Period(shape)', m)
<1>1. /\ alive \in BOOLEAN /\ Rise \in Int /\ Used \in 0..6
      /\ Period(shape) \in Nat
  BY PolarityTypes DEF PolarityTyped
<1>2. alive' \in BOOLEAN /\ Rise' \in Int /\ Used' \in 0..6
  BY PolarityTypesNext DEF PolarityTyped
<1>3. Enough(alive, Rise, Used, Period(shape), l)
  BY DEF Lasts
<1>4. Enough(alive', Rise', Used', Period(shape), m)
  BY <1>1, <1>2, <1>3, EnoughKept
<1>5. Period(shape)' = Period(shape)
  BY DEF Period
<1> QED
  BY <1>4, <1>5

\* A tick before that limit uses up no more than it brings nearer.
LEMMA LastsTick ==
    ASSUME TypeInv, TypeInv', GridInv, Punctual, wiring = "loopback", Tick,
           phase = "periodic", NEW l \in Int, now + 1 <= l, Lasts(l)
    PROVE  Enough(alive', Rise', Used', Period(shape)', l) /\ Used' <= 5
<1>1. /\ alive \in BOOLEAN /\ Rise \in Int /\ Used \in 0..6
      /\ Period(shape) \in Nat /\ now \in Nat
      /\ streak \in 0..2 /\ cooldown \in 0..3
  BY PolarityTypes, TimeTypes DEF PolarityTyped
<1>2. alive' \in BOOLEAN /\ Rise' \in Int /\ Used' \in 0..6
  BY PolarityTypesNext DEF PolarityTyped
<1>3. Enough(alive, Rise, Used, Period(shape), l)
  BY DEF Lasts
<1>4. UNCHANGED <<alive, shape, streak, cooldown>>
  BY TickWaits
<1>5. Period(shape)' = Period(shape)
  BY <1>4 DEF Period
<1>6. CASE Captures
  <2>1. /\ alive /\ Rise = now + 1 /\ Rise' = Rise + Period(shape)
        /\ capture' = [fresh |-> TRUE, at |-> now + 1]
    BY <1>6, CaptureMade
  <2>2. Used < 5
    <3> SUFFICES ASSUME Used = 5 PROVE FALSE
      BY <1>1, <1>3 DEF Enough
    <3>1. (5 - Used) * Period(shape) = 0
      BY <1>1
    <3> QED
      BY <1>1, <1>3, <2>1, <3>1 DEF Enough
  <2>3. Used' <= Used + 1
    BY <1>1, <1>4, <2>1 DEF Used, Bit
  <2>4. Rise + Period(shape) <= Rise' /\ (alive' => alive) /\ l <= l
    BY <1>1, <1>2, <1>4, <2>1
  <2>5. Enough(alive', Rise', Used', Period(shape), l)
    BY <1>1, <1>2, <1>3, <2>2, <2>3, <2>4, EnoughKept
  <2> QED
    BY <1>5, <2>5 DEF Enough
<1>7. CASE ~Captures
  <2>1. Rise' = Rise /\ capture' = capture
    BY <1>7, RiseStays
  <2>2. Used' = Used
    BY <1>4, <2>1 DEF Used
  <2>3. Enough(alive', Rise', Used', Period(shape), l)
    BY <1>1, <1>2, <1>3, <1>4, <2>1, <2>2, EnoughKept
  <2> QED
    BY <1>5, <2>3 DEF Enough
<1> QED
  BY <1>6, <1>7

\* What the clauses after the flip compare
LEMMA FlippedTypes ==
    ASSUME TypeInv, flip = 1
    PROVE  /\ done.flip \in {0, 1} /\ wrong \in BOOLEAN
           /\ history \in [inverted : Nat, disturbed : BOOLEAN, died : Nat,
                           warnings : Nat]
           /\ Start \in Nat /\ since \in Nat /\ now \in Nat
           /\ WorkLate \in Nat /\ FlipWait \in Nat
           /\ Start + 2 * WorkLate + FlipWait \in Int
           /\ since + FlipWait + WorkLate \in Int
           /\ Start + WorkLate \in Int
<1>1. done.flip \in Nat /\ done.flip <= 1
  BY TimeTypes DEF TypeInv, Order
<1>2. /\ since \in Nat /\ now \in Nat /\ WorkLate \in Nat /\ FlipWait \in Nat
  BY TimeTypes
<1>3. Start \in Nat /\ wrong \in BOOLEAN
  BY PolarityTypes DEF PolarityTyped
<1>4. history \in [inverted : Nat, disturbed : BOOLEAN, died : Nat,
                  warnings : Nat]
  BY DEF TypeInv, Records
<1> QED
  BY <1>1, <1>2, <1>3, <1>4

\* Time passes.
LEMMA FlippedTick ==
    ASSUME TypeInv, TypeInv', GridInv, Punctual, wiring = "loopback",
           ~history'.disturbed, flip = 1, Flipped, Tick
    PROVE  Flipped'
<1>a. /\ done.flip \in {0, 1} /\ wrong \in BOOLEAN /\ Start \in Nat
      /\ since \in Nat /\ now \in Nat /\ WorkLate \in Nat /\ FlipWait \in Nat
      /\ want.first \in Nat
  BY FlippedTypes, TimeTypes
<1>0. /\ wrong <=> (done.flip = 0 /\ pc # "shift")
      /\ history.inverted <= 3
      /\ Used <= 5 \/ RightShown
      /\ Owing /\ Shifting /\ Rearming
  BY DEF Flipped
<1>1. /\ now' = now + 1 /\ pc # "config"
      /\ pc = "idle" /\ queued => now + 1 <= since + WorkLate
      /\ pc = "shift" => now + 1 <= since + FlipWait
      /\ pc = "drain" /\ want.run => now + 1 + WorkLate < want.first
      /\ history'.inverted = history.inverted
      /\ UNCHANGED <<phase, shape, wrong, desired, work, polarity>>
  BY TickWaits
<1>2. IF pc = "drain" THEN Start' = now + 1 ELSE Start' = Start /\ Start = since
  BY <1>1 DEF Start
<1>3. \A l \in Int : phase = "periodic" /\ now + 1 <= l /\ Lasts(l) =>
        Enough(alive', Rise', Used', Period(shape)', l) /\ Used' <= 5
  BY LastsTick
<1>4. Owing'
  <2> SUFFICES ASSUME done.flip = 0, pc # "shift", phase = "periodic",
                      pc # "drain"
               PROVE  queued /\ Lasts(Start + 2 * WorkLate + FlipWait)'
    BY <1>0, <1>1 DEF Owing
  <2>1. queued /\ Lasts(Start + 2 * WorkLate + FlipWait) /\ pc = "idle"
    BY <1>0, <1>1, TimeTypes DEF Owing
  <2>2. /\ Start + 2 * WorkLate + FlipWait \in Int
        /\ now + 1 <= Start + 2 * WorkLate + FlipWait
    BY <1>1, <1>2, <1>a, <2>1
  <2>3. Enough(alive', Rise', Used', Period(shape)', Start + 2 * WorkLate + FlipWait)
    BY <1>3, <2>1, <2>2
  <2> QED
    BY <1>2, <2>1, <2>3 DEF Lasts
<1>5. pc = "shift" =>
        Lasts(since + FlipWait + WorkLate)' /\ Used' <= 5
  <2> SUFFICES ASSUME pc = "shift"
               PROVE  Lasts(since + FlipWait + WorkLate)' /\ Used' <= 5
    OBVIOUS
  <2>1. phase = "periodic" /\ Lasts(since + FlipWait + WorkLate)
    BY <1>0 DEF Shifting, TypeInv, Order
  <2>2. /\ since + FlipWait + WorkLate \in Int
        /\ now + 1 <= since + FlipWait + WorkLate
    BY <1>1, <1>a
  <2>3. Enough(alive', Rise', Used', Period(shape)', since + FlipWait + WorkLate)
        /\ Used' <= 5
    BY <1>3, <2>1, <2>2
  <2> QED
    BY <1>1, <2>3 DEF Lasts
<1>6. Shifting'
  BY <1>0, <1>1, <1>5 DEF Shifting
<1>7. ASSUME queued, pc = "idle", phase = "periodic", Lasts(Start + WorkLate)
      PROVE  Lasts(Start + WorkLate)' /\ Used' <= 5
  <2>1. Start + WorkLate \in Int /\ now + 1 <= Start + WorkLate
    BY <1>1, <1>2, <1>7, <1>a
  <2>2. Enough(alive', Rise', Used', Period(shape)', Start + WorkLate)
        /\ Used' <= 5
    BY <1>3, <1>7, <2>1
  <2> QED
    BY <1>2, <1>7, <2>2 DEF Lasts
<1>8. Rearming'
  <2> SUFFICES ASSUME done.flip = 1, gen # done.gen, want.run
               PROVE  /\ queued
                      /\ \/ Start' + WorkLate < want.first
                         \/ pc = "idle" /\ phase = "arm"
                         \/ /\ phase = "periodic" /\ pc # "drain"
                            /\ Lasts(Start + WorkLate)'
    BY <1>1 DEF Rearming
  <2>1. /\ queued
        /\ \/ Start + WorkLate < want.first
           \/ pc = "idle" /\ phase = "arm"
           \/ phase = "periodic" /\ pc # "drain" /\ Lasts(Start + WorkLate)
    BY <1>0, <1>1 DEF Rearming
  <2>2. pc \in {"idle", "drain"}
    BY <1>0, <1>1, TimeTypes DEF Shifting
  <2>3. CASE pc = "drain"
    BY <1>1, <1>2, <2>1, <2>3
  <2>4. CASE pc = "idle"
    BY <1>2, <1>7, <2>1, <2>4
  <2> QED
    BY <2>2, <2>3, <2>4
<1>9. Used' <= 5 \/ RightShown'
  <2>1. CASE ~Captures
    <3>1. capture' = capture
      BY <2>1, RiseStays
    <3>2. Used' = Used /\ Remainder' = Remainder /\ Judgeable' = Judgeable
      BY <1>1, <3>1 DEF Used, Remainder, Judgeable
    <3> QED
      BY <1>0, <3>1, <3>2 DEF RightShown
  <2>2. CASE Captures
    <3>1. /\ Running /\ capture' = [fresh |-> TRUE, at |-> now + 1]
          /\ gen = done.gen /\ pc # "shift" /\ Judgeable' =>
               Remainder' = IF wrong THEN shape.high ELSE 0
      BY <2>2, CaptureMade
    <3>2. capture'.fresh = TRUE /\ capture'.at = now + 1
      BY <3>1
    <3>3. CASE pc = "shift"
      BY <1>5, <3>3
    <3>7. CASE pc = "drain"
      <4>1. want.run => now + 1 < want.first
        BY <1>1, <1>a, <3>7
      <4>2. ~Judgeable'
        BY <1>1, <1>a, <3>2, <4>1 DEF Judgeable
      <4> QED
        BY <3>2, <4>2 DEF RightShown
    <3>4. CASE done.flip = 0 /\ pc # "shift" /\ pc # "drain"
      <4>1. phase = "periodic"
        BY <1>0, <3>1, <3>4 DEF Owing, Running
      <4>2. queued /\ Lasts(Start + 2 * WorkLate + FlipWait) /\ pc = "idle"
        BY <1>0, <1>1, <3>4, <4>1, TimeTypes DEF Owing
      <4>3. /\ Start + 2 * WorkLate + FlipWait \in Int
            /\ now + 1 <= Start + 2 * WorkLate + FlipWait
        BY <1>1, <1>2, <1>a, <4>2
      <4> QED
        BY <1>3, <4>1, <4>2, <4>3
    <3>5. CASE done.flip = 1 /\ pc # "shift" /\ gen = done.gen
      <4>1. wrong = FALSE
        BY <1>0, <1>a, <3>5
      <4> QED
        BY <3>1, <3>2, <3>5, <4>1 DEF RightShown
    <3>6. CASE done.flip = 1 /\ pc \notin {"shift", "drain"} /\ gen # done.gen
      <4>1. CASE ~want.run
        BY <1>1, <3>2, <4>1 DEF RightShown, Judgeable
      <4>2. CASE want.run
        <5>1. /\ queued /\ pc = "idle"
              /\ \/ Start + WorkLate < want.first
                 \/ phase = "periodic" /\ Lasts(Start + WorkLate)
          BY <1>0, <1>1, <3>1, <3>6, <4>2, TimeTypes DEF Rearming, Running
        <5>2. CASE Start + WorkLate < want.first
          <6>1. now + 1 < want.first
            BY <1>1, <1>2, <1>a, <5>1, <5>2
          <6>2. ~Judgeable'
            BY <1>1, <1>a, <3>2, <6>1 DEF Judgeable
          <6> QED
            BY <3>2, <6>2 DEF RightShown
        <5> QED
          BY <1>7, <5>1, <5>2
      <4> QED
        BY <4>1, <4>2
    <3> QED
      BY <1>a, <3>3, <3>4, <3>5, <3>6, <3>7
  <2> QED
    BY <2>1, <2>2
<1> QED
  BY <1>0, <1>1, <1>4, <1>6, <1>8, <1>9 DEF Flipped

\* The work leaves the captures alone.
LEMMA FlippedWork ==
    ASSUME TypeInv, TypeInv', Punctual, flip = 1, Flipped, Work
    PROVE  Flipped'
<1> USE DEF ScheduleWork, Return
<1>a. /\ done.flip \in {0, 1} /\ wrong \in BOOLEAN /\ Start \in Nat
      /\ since \in Nat /\ now \in Nat /\ WorkLate \in Nat /\ FlipWait \in Nat
      /\ want.first \in Nat /\ gen \in Nat /\ done \in [gen : Nat, flip : Nat]
      /\ compv \in Nat /\ shape.high \in Nat /\ alive \in BOOLEAN
  BY FlippedTypes, TimeTypes, PolarityTypes DEF PolarityTyped
<1>b. /\ Start + 2 * WorkLate + FlipWait \in Int
      /\ since + FlipWait + WorkLate \in Int /\ Start + WorkLate \in Int
      /\ Rise \in Nat
  BY FlippedTypes, PolarityTypes DEF PolarityTyped
<1>0. /\ wrong <=> (done.flip = 0 /\ pc # "shift")
      /\ history.inverted <= 3
      /\ Used <= 5 \/ RightShown
      /\ Owing /\ Shifting /\ Rearming
  BY DEF Flipped
<1>1. /\ UNCHANGED <<now, want, gen, flip, capture, streak, cooldown>>
      /\ history'.inverted = history.inverted
  <2>1. history \in [inverted : Nat, disturbed : BOOLEAN, died : Nat,
                     warnings : Nat]
    BY FlippedTypes
  <2> QED
    BY <2>1
    DEF Work, WorkStop, WorkDrained, WorkBegin, WorkShift, WorkReconcile,
        WorkArm, WorkReturn, Wake
<1>2. Used' = Used /\ (RightShown => RightShown')
  BY <1>1 DEF Used, RightShown, Judgeable, Remainder
<1>3. history'.inverted <= 3 /\ (Used' <= 5 \/ RightShown')
  BY <1>0, <1>1, <1>2
\* It suffices to look at the mirror and the three clauses about the work,
<1>c. ASSUME wrong' <=> (done'.flip = 0 /\ pc' # "shift"),
             Owing', Shifting', Rearming'
      PROVE  Flipped'
  BY <1>3, <1>c DEF Flipped
\* and a step that leaves the waveform alone keeps what lasts.
<1>d. ASSUME alive' => alive, Rise <= Rise', shape' = shape,
             NEW l \in Int, NEW m \in Int, m <= l, Lasts(l)
      PROVE  Enough(alive', Rise', Used', Period(shape)', m)
  <2>1. Used' <= Used
    BY <1>2, PolarityTypes DEF PolarityTyped
  <2> QED
    BY <1>d, <2>1, LastsKept
<1>4. CASE WorkStop
  <2>1. /\ ~want.run /\ pc = "idle" /\ UNCHANGED <<wrong, done>>
        /\ \/ phase' = "off" /\ pc' = "idle"
           \/ phase' = phase /\ pc' = "drain"
    BY <1>4 DEF WorkStop
  <2> QED
    BY <1>0, <1>1, <1>c, <2>1 DEF Owing, Shifting, Rearming
<1>11. CASE WorkDrained
  <2>1. /\ pc = "drain" /\ phase' = "off" /\ pc' = "idle" /\ since' = now
        /\ UNCHANGED <<wrong, done, queued>>
    BY <1>11 DEF WorkDrained
  <2>2. Start' = Start
    BY <1>1, <2>1 DEF Start
  <2> QED
    BY <1>0, <1>1, <1>c, <2>1, <2>2 DEF Owing, Shifting, Rearming
<1>5. CASE WorkBegin
  <2>1. /\ pc = "idle" /\ queued /\ queued' = FALSE /\ taken' = Copy
        /\ UNCHANGED <<compv, level, alive>>
    BY <1>5 DEF WorkBegin
  <2>2. taken'.gen = gen /\ taken'.flip = 1
    BY <2>1 DEF Copy
  <2>3. CASE done.flip = 1
    <3>1. (flip - done.flip) % 2 = 0
      BY <2>3
    <3>2. /\ pc' = "config" /\ UNCHANGED <<wrong, phase, shape>>
          /\ done'.flip = 1
      BY <1>5, <3>1 DEF WorkBegin
    <3> QED
      BY <1>0, <1>1, <1>c, <2>1, <2>2, <2>3, <3>2
      DEF Owing, Shifting, Rearming
  <2>4. CASE done.flip = 0
    <3>1. (flip - done.flip) % 2 # 0
      BY <2>4
    <3>2. wrong' = ~wrong
      BY <1>5, <3>1 DEF WorkBegin
    <3>3. wrong = TRUE
      BY <1>0, <1>a, <2>1, <2>4
    <3>4. wrong' = FALSE
      BY <3>2, <3>3
    <3>5. CASE phase = "periodic"
      <4>1. /\ pc' = "shift" /\ since' = now /\ UNCHANGED <<phase, shape>>
            /\ done'.flip = 0
        BY <1>5, <2>4, <3>1, <3>5 DEF WorkBegin
      <4>2. Lasts(Start + 2 * WorkLate + FlipWait)
        BY <1>0, <2>1, <2>4, <3>5 DEF Owing
      <4>3. now + FlipWait + WorkLate <= Start + 2 * WorkLate + FlipWait
        BY <1>a, <2>1 DEF Punctual, Start
      <4>4. Rise' = Rise /\ Rise <= Rise
        BY <1>b, <2>1, <4>1 DEF Rise
      <4>5. now + FlipWait + WorkLate \in Int
        BY <1>a
      <4>6. Enough(alive', Rise', Used', Period(shape)', now + FlipWait + WorkLate)
        BY <1>b, <1>d, <2>1, <4>1, <4>2, <4>3, <4>4, <4>5
      <4>7. Lasts(since + FlipWait + WorkLate)'
        BY <1>1, <4>1, <4>6 DEF Lasts
      <4> QED
        BY <1>1, <1>c, <2>2, <3>4, <4>1, <4>7 DEF Owing, Shifting, Rearming
    <3>6. CASE phase # "periodic"
      <4>1. phase = "off"
        BY <1>0, <2>1, <2>4, <3>6 DEF Owing
      <4>2. pc' = "config" /\ done'.flip = 1
        BY <1>5, <3>1, <4>1 DEF WorkBegin
      <4> QED
        BY <1>1, <1>c, <2>1, <2>2, <3>4, <4>2 DEF Owing, Shifting, Rearming
    <3> QED
      BY <3>5, <3>6
  <2> QED
    BY <1>a, <2>3, <2>4
<1>6. CASE WorkShift
  <2>1. /\ pc = "shift" /\ pc' = "config" /\ compv' = compv + shape.high
        /\ UNCHANGED <<level, alive, shape, wrong, phase, queued, taken>>
        /\ done'.gen = done.gen /\ done'.flip = taken.flip
    BY <1>6, <1>a DEF WorkShift
  <2>2. /\ taken.flip = 1 /\ Lasts(since + FlipWait + WorkLate)
        /\ gen # taken.gen => queued
    BY <1>0, <2>1 DEF Shifting
  <2>3. phase = "periodic"
    BY <2>1 DEF TypeInv, Order
  <2>4. Lasts(Start + WorkLate)'
    <3>1. Start' = now
      BY <1>1, <2>1 DEF Start
    <3>2. now + WorkLate <= since + FlipWait + WorkLate
      BY <1>a, <2>1 DEF Punctual
    <3>3. Rise <= Rise'
      BY <1>a, <2>1 DEF Rise
    <3>4. now + WorkLate \in Int
      BY <1>a
    <3>5. Enough(alive', Rise', Used', Period(shape)', now + WorkLate)
      BY <1>b, <1>d, <2>1, <2>2, <3>2, <3>3, <3>4
    <3> QED
      BY <3>1, <3>5 DEF Lasts
  <2> QED
    BY <1>0, <1>1, <1>c, <2>1, <2>2, <2>3, <2>4 DEF Owing, Shifting, Rearming
<1>7. CASE WorkReconcile
  <2>1. /\ pc = "config" /\ taken.gen # done.gen /\ phase' = "arm"
        /\ pc' = "idle" /\ done'.gen = taken.gen /\ done'.flip = done.flip
        /\ UNCHANGED <<wrong, queued>>
    BY <1>7, <1>a DEF WorkReconcile, Reconcile
  <2>2. done.flip = 1
    BY <1>0, <1>a, <2>1 DEF Owing
  <2>3. gen # done.gen
    BY <1>a, <2>1 DEF TypeInv, Order, Records
  <2>4. Rearming'
    BY <1>0, <1>1, <2>1, <2>2, <2>3 DEF Rearming
  <2> QED
    BY <1>0, <1>c, <2>1, <2>2, <2>4 DEF Owing, Shifting
<1>8. CASE WorkArm
  <2>1. /\ pc = "config" /\ taken.gen = done.gen /\ phase = "arm"
        /\ pc' = "idle" /\ since' = now /\ UNCHANGED <<wrong, done, queued>>
    BY <1>8 DEF WorkArm
  <2>2. done.flip = 1
    BY <1>0, <1>a, <2>1 DEF Owing
  <2>3. Start' = Start
    BY <1>1, <2>1 DEF Start
  <2>4. Rearming'
    BY <1>0, <1>1, <2>1, <2>2, <2>3 DEF Rearming
  <2> QED
    BY <1>0, <1>c, <2>1, <2>2, <2>4 DEF Owing, Shifting
<1>9. CASE WorkReturn
  <2>1. /\ pc = "config" /\ taken.gen = done.gen
        /\ pc' = "idle" /\ since' = now /\ UNCHANGED <<block, done, queued>>
    BY <1>9 DEF WorkReturn
  <2>2. Start' = Start
    BY <1>1, <2>1 DEF Start
  <2>3. Rise' = Rise /\ Rise <= Rise
    BY <1>b, <2>1 DEF Rise
  <2>4. \A l \in Int : Lasts(l) => Enough(alive', Rise', Used', Period(shape)', l)
    <3> TAKE l \in Int
    <3>1. l <= l
      OBVIOUS
    <3> QED
      BY <1>d, <2>1, <2>3, <3>1
  <2>5. Owing'
    <3>1. Lasts(Start + 2 * WorkLate + FlipWait) =>
            Lasts(Start + 2 * WorkLate + FlipWait)'
      BY <1>b, <2>2, <2>4 DEF Lasts
    <3> QED
      BY <1>0, <1>1, <2>1, <3>1 DEF Owing
  <2>6. Rearming'
    <3>1. Lasts(Start + WorkLate) => Lasts(Start + WorkLate)'
      BY <1>b, <2>2, <2>4 DEF Lasts
    <3> QED
      BY <1>0, <1>1, <2>1, <2>2, <3>1 DEF Rearming
  <2> QED
    BY <1>0, <1>c, <2>1, <2>5, <2>6 DEF Shifting
<1>10. CASE Wake
  <2>1. /\ phase = "arm" /\ pc = "idle" /\ ~queued
        /\ UNCHANGED <<phase, pc, wrong, done>>
    BY <1>10 DEF Wake
  <2>2. done.flip = 1
    BY <1>0, <1>a, <2>1 DEF Owing
  <2>3. ~(gen # done.gen /\ want.run)
    BY <1>0, <2>1, <2>2 DEF Rearming
  <2> QED
    BY <1>0, <1>1, <1>c, <2>1, <2>2, <2>3 DEF Owing, Shifting, Rearming
<1> QED
  BY <1>4, <1>5, <1>6, <1>7, <1>8, <1>9, <1>10, <1>11 DEF Work

\* Steps that leave the output's mirror and its work alone: what is published
\* is queued, and not for an edge before output_work has begun.
LEMMA FlippedKept ==
    ASSUME TypeInv, TypeInv', flip = 1, Flipped,
           UNCHANGED <<now, compv, level, phase, shape, wrong, done, pc, taken>>,
           alive' => alive, Used' <= Used, history'.inverted <= 3,
           Used' <= 5 \/ RightShown',
           pc = "shift" \/ queued => since' = since,
           \/ UNCHANGED <<want, gen, queued, since>>
           \/ queued' = TRUE /\ (want'.run => Start' + WorkLate < want'.first)
    PROVE  Flipped'
<1>a. /\ Start + 2 * WorkLate + FlipWait \in Int
      /\ since + FlipWait + WorkLate \in Int /\ Start + WorkLate \in Int
  BY FlippedTypes
<1>0. /\ wrong <=> (done.flip = 0 /\ pc # "shift")
      /\ Owing /\ Shifting /\ Rearming
  BY DEF Flipped
<1>1. \A l \in Int : Lasts(l) => Enough(alive', Rise', Used', Period(shape)', l)
  <2> TAKE l \in Int
  <2>1. Rise' = Rise /\ Rise \in Nat /\ l <= l
    BY PolarityTypes DEF Rise, PolarityTyped
  <2>2. Rise <= Rise'
    BY <2>1
  <2> QED
    BY <2>1, <2>2, LastsKept
<1>2. queued => Start' = Start
  BY DEF Start
<1>3. Owing'
  <2> SUFFICES ASSUME done.flip = 0, pc # "shift", phase = "periodic",
                      pc # "drain"
               PROVE  queued' /\ Lasts(Start + 2 * WorkLate + FlipWait)'
    BY <1>0 DEF Owing
  <2>1. queued /\ Lasts(Start + 2 * WorkLate + FlipWait)
    BY <1>0 DEF Owing
  <2>2. Enough(alive', Rise', Used', Period(shape)', Start + 2 * WorkLate + FlipWait)
    BY <1>1, <1>a, <2>1
  <2>3. Lasts(Start + 2 * WorkLate + FlipWait)'
    BY <1>2, <2>1, <2>2 DEF Lasts
  <2> QED
    BY <2>1, <2>3
<1>4. Shifting'
  <2> SUFFICES ASSUME pc = "shift"
               PROVE  /\ Lasts(since + FlipWait + WorkLate)'
                      /\ gen' # taken.gen => queued'
    BY <1>0 DEF Shifting
  <2>1. /\ Lasts(since + FlipWait + WorkLate) /\ since' = since
        /\ gen # taken.gen => queued
    BY <1>0 DEF Shifting
  <2>2. Enough(alive', Rise', Used', Period(shape)', since + FlipWait + WorkLate)
    BY <1>1, <1>a, <2>1
  <2> QED
    BY <2>1, <2>2 DEF Lasts
<1>5. Rearming'
  <2>1. CASE queued' = TRUE /\ (want'.run => Start' + WorkLate < want'.first)
    BY <2>1 DEF Rearming
  <2>2. CASE UNCHANGED <<want, gen, queued, since>>
    <3>1. queued /\ Lasts(Start + WorkLate) => Lasts(Start + WorkLate)'
      BY <1>1, <1>2, <1>a DEF Lasts
    <3> QED
      BY <1>0, <1>2, <2>2, <3>1 DEF Rearming
  <2> QED
    BY <2>1, <2>2
<1> QED
  BY <1>0, <1>3, <1>4, <1>5 DEF Flipped

\* The captures that are read, but ask for no flip, find the mirror right.
LEMMA FlippedChecks ==
    ASSUME TypeInv, TypeInv', flip = 1, Flipped,
           CheckPassed \/ CheckReset \/ CheckCount
    PROVE  Flipped'
<1>1. /\ ReadCapture
      /\ UNCHANGED <<now, block, desired, work>>
  BY DEF CheckPassed, CheckReset, CheckCount
<1>2. history'.inverted = 0
  <2>1. ~Inverted
    BY FlippedRight
  <2>2. history \in [inverted : Nat, disturbed : BOOLEAN, died : Nat,
                     warnings : Nat]
    BY FlippedTypes
  <2> QED
    BY <1>1, <2>1, <2>2 DEF ReadCapture
<1>3. Used' <= Used /\ Used' <= 5
  <2>1. /\ streak \in 0..2 /\ streak' \in 0..2
        /\ cooldown \in 0..3 /\ cooldown' \in 0..3
    BY PolarityTypes, PolarityTypesNext DEF PolarityTyped
  <2>2. Used = (3 - cooldown) + streak + 1 /\ Used' = (3 - cooldown') + streak'
    <3>1. capture.fresh = TRUE /\ capture'.fresh = FALSE
      BY <1>1, PolarityTypes DEF ReadCapture, NoCapture, PolarityTyped
    <3>2. Bit(capture.fresh) = 1 /\ Bit(capture'.fresh) = 0
      BY <3>1 DEF Bit
    <3> QED
      BY <2>1, <3>2 DEF Used
  <2>3. CASE CheckPassed
    <3>1. /\ streak' = streak
          /\ \/ cooldown' = cooldown
             \/ cooldown > 0 /\ cooldown' = cooldown - 1
      BY <2>3 DEF CheckPassed
    <3>2. cooldown' = cooldown \/ (cooldown >= 1 /\ cooldown' = cooldown - 1)
      BY <2>1, <3>1
    <3>3. CASE cooldown' = cooldown
      BY <2>1, <2>2, <3>1, <3>3
    <3>4. CASE cooldown >= 1 /\ cooldown' = cooldown - 1
      BY <2>1, <2>2, <3>1, <3>4
    <3> QED
      BY <3>2, <3>3, <3>4
  <2>4. CASE CheckReset
    <3>1. streak' = 0 /\ cooldown' = cooldown /\ cooldown = 0
      BY <2>4 DEF CheckReset
    <3> QED
      BY <2>1, <2>2, <3>1
  <2>5. CASE CheckCount
    <3>1. streak' = streak + 1 /\ streak < 2 /\ cooldown' = cooldown /\ cooldown = 0
      BY <2>5 DEF CheckCount
    <3> QED
      BY <2>1, <2>2, <3>1
  <2> QED
    BY <2>3, <2>4, <2>5
<1> QED
  BY <1>1, <1>2, <1>3, FlippedKept

\* A request or a stop leaves the capture at hand without a judgement.
LEMMA FlippedCallers ==
    ASSUME InTime, TypeInv, TypeInv', flip = 1, Flipped, wiring = "loopback",
           Stop \/ \E s \in Shapes, f \in Firsts : Request(s, f)
    PROVE  Flipped'
<1>1. /\ UNCHANGED <<now, block, done, pc, taken, capture, polarity>>
      /\ queued' = TRUE
      /\ pc = "shift" \/ queued => since' = since
  BY DEF Stop, Request, ScheduleWork
<1>2. history'.inverted = 0
  <2>1. history \in [inverted : Nat, disturbed : BOOLEAN, died : Nat,
                     warnings : Nat]
    BY FlippedTypes
  <2> QED
    BY <2>1 DEF Stop, Request
<1>3. ~Judgeable' /\ (want'.run => Start' + WorkLate < want'.first)
  <2>1. CASE Stop
    BY <2>1 DEF Stop, Off, Judgeable
  <2> QED
    BY <2>1, RequestLater
<1>4. Used' = Used /\ Used \in 0..6
  BY <1>1, PolarityTypes DEF Used, PolarityTyped
<1>5. Used' <= 5 \/ RightShown'
  BY <1>1, <1>3, <1>4 DEF Flipped, RightShown
<1>6. Used' <= Used /\ history'.inverted <= 3 /\ (alive' => alive)
  BY <1>1, <1>2, <1>4
<1> QED
  BY <1>1, <1>2, <1>3, <1>5, <1>6, FlippedKept

\* Nor does the engine's death or the watchdog matter.
LEMMA FlippedQuiet ==
    ASSUME TypeInv, TypeInv', flip = 1, Flipped,
           Die \/ WatchdogWork \/ Horizon \/ UNCHANGED vars
    PROVE  Flipped'
<1>1. /\ UNCHANGED <<now, compv, level, phase, shape, wrong, desired, work,
                     capture, polarity>>
      /\ alive' => alive
  BY DEF Die, WatchdogWork, WatchIdle, WatchAdvancing, WatchStuck, Horizon
<1>2. history'.inverted = history.inverted
  <2>1. history \in [inverted : Nat, disturbed : BOOLEAN, died : Nat,
                     warnings : Nat]
    BY FlippedTypes
  <2> QED
    BY <2>1 DEF Die, WatchdogWork, WatchIdle, WatchAdvancing, WatchStuck, Horizon
<1>3. Used' = Used /\ Used \in 0..6 /\ (RightShown => RightShown')
  BY <1>1, PolarityTypes DEF Used, PolarityTyped, RightShown, Judgeable, Remainder
<1>4. Used' <= Used /\ history'.inverted <= 3 /\ (Used' <= 5 \/ RightShown')
  BY <1>2, <1>3 DEF Flipped
<1> QED
  BY <1>1, <1>4, FlippedKept

\* No step after the flip changes what holds from then on.
LEMMA FlippedStep ==
    ASSUME InTime, TypeInv, TypeInv', GridInv, Punctual, wiring = "loopback",
           ~history'.disturbed, flip = 1, flip' = 1, Flipped, [Next]_vars
    PROVE  Flipped'
<1>1. ~UserFlip
  BY DEF UserFlip
<1>2. ~CheckFlip
  BY NoSecondFlip
<1> QED
  BY <1>1, <1>2, FlippedTick, FlippedWork, FlippedChecks, FlippedCallers,
     FlippedQuiet, Zenon
  DEF Next, User, Poll

\* What the polarity of a looped-back output depends on
LoopInv == TypeInv /\ Punctual /\ GridInv /\ PolarityInv

\* At load no flip is asked for and no capture waits,
LEMMA PolarityInitially == Init => PolarityInv
  BY DEF Init, PolarityInv, Unflipped, Awaited, Shown, Counted, Judgeable,
         NoCapture, Off, NoHistory

\* and the one flip there is turns what holds before it into what holds after.
LEMMA PolarityStep ==
    ASSUME InTime, LoopInv, TypeInv', [Next]_vars PROVE PolarityInv'
<1> SUFFICES ASSUME wiring' = "loopback", ~history'.disturbed
             PROVE  (flip = 0 /\ Unflipped)' \/ (flip = 1 /\ Flipped)'
  BY DEF PolarityInv
<1>1. wiring = "loopback" /\ ~history.disturbed /\ ~UserFlip
  <2>1. history \in [inverted : Nat, disturbed : BOOLEAN, died : Nat,
                     warnings : Nat]
    BY DEF LoopInv, TypeInv, Records
  <2>2. wiring' = wiring
    BY DEF Next, Tick, Die, User, Request, Stop, UserFlip, Poll, CheckPassed,
           CheckReset, CheckCount, CheckFlip, Work, WorkStop, WorkDrained,
           WorkBegin, WorkShift, WorkReconcile, WorkArm, WorkReturn, Wake, WatchdogWork,
           WatchIdle, WatchAdvancing, WatchStuck, Horizon
  <2>3. ~UserFlip /\ (history.disturbed => history'.disturbed)
    BY <2>1
    DEF Next, Tick, Die, User, Request, Stop, UserFlip, Poll, CheckPassed,
        CheckReset, CheckCount, CheckFlip, ReadCapture, Work, WorkStop,
        WorkDrained, WorkBegin, WorkShift, WorkReconcile, WorkArm, WorkReturn, Wake,
        WatchdogWork, WatchIdle, WatchAdvancing, WatchStuck, Horizon
  <2> QED
    BY <2>2, <2>3
<1>2. TypeInv /\ Punctual /\ GridInv /\ flip \in Nat
  BY TimeTypes DEF LoopInv
<1>3. CASE CheckFlip
  <2>1. flip = 0 /\ Unflipped
    BY <1>1, <1>2, <1>3, NoSecondFlip DEF LoopInv, PolarityInv
  <2> QED
    BY <1>2, <1>3, <2>1, FirstFlip
<1>4. CASE ~CheckFlip
  <2>1. flip' = flip
    BY <1>1, <1>4
    DEF Next, Tick, Die, User, Request, Stop, Poll, CheckPassed, CheckReset,
        CheckCount, Work, WorkStop, WorkDrained, WorkBegin, WorkShift,
        WorkReconcile, WorkArm, WorkReturn, Wake, WatchdogWork, WatchIdle, WatchAdvancing,
        WatchStuck, Horizon
  <2>2. CASE flip = 0 /\ Unflipped
    BY <1>1, <1>2, <2>1, <2>2, UnflippedStep
  <2>3. CASE flip = 1 /\ Flipped
    BY <1>1, <1>2, <2>1, <2>3, FlippedStep
  <2> QED
    BY <1>1, <2>2, <2>3 DEF LoopInv, PolarityInv
<1> QED
  BY <1>3, <1>4

\* All of it is inductive.
LEMMA LoopStep == InTime /\ LoopInv /\ [Next]_vars => LoopInv'
<1> SUFFICES ASSUME InTime, LoopInv, [Next]_vars PROVE LoopInv'
  OBVIOUS
<1>1. TypeInv /\ Punctual /\ GridInv
  BY DEF LoopInv
<1>2. TypeInv'
  BY <1>1, TypeStep
<1> QED
  BY <1>1, <1>2, PunctualStep, GridStep, PolarityStep DEF LoopInv

\* As long as no user flips and no stop is still drained when the next request
\* ought to begin, an inverted output in loopback is found out by the third of
\* its captures that are judged: whatever else is requested or stopped, the
\* captures tgpio_auto_polarity_check judges all show the inversion, so that
\* the streak keeps step with them.
THEOREM InversionsFoundOut ==
    ASSUME InTime PROVE Spec => []InvertedFoundOut
<1>1. Init => LoopInv
  BY TypeInitially, PunctualInitially, GridInitially, PolarityInitially
  DEF LoopInv
<1>2. LoopInv => InvertedFoundOut
  <2> SUFFICES ASSUME LoopInv, wiring = "loopback", ~history.disturbed
               PROVE  history.inverted <= 3
    BY DEF InvertedFoundOut
  <2>1. CASE Unflipped
    BY <2>1, PolarityTypes
    DEF LoopInv, Unflipped, Counted, PolarityTyped
  <2>2. CASE Flipped
    BY <2>2 DEF Flipped
  <2> QED
    BY <2>1, <2>2 DEF LoopInv, PolarityInv
<1>3. LoopInv /\ [Next]_vars => LoopInv'
  BY LoopStep
<1> QED
  BY <1>1, <1>2, <1>3, PTL DEF Spec

\* As long as no user flips and no stop is still drained when the next request
\* ought to begin, no mirror in loopback is flipped that is right, or will be
\* when the flip asked for before is applied: the captures with which
\* tgpio_auto_polarity_check cools down, and the three it must see, outlast
\* output_work, and stops that drain for less are as good as no drain.
THEOREM RightMirrorsKept ==
    ASSUME InTime PROVE Spec => RightMirrorKept
<1>1. Init => LoopInv
  BY TypeInitially, PunctualInitially, GridInitially, PolarityInitially
  DEF LoopInv
<1>2. LoopInv /\ [Next]_vars =>
        [CheckFlip /\ wiring = "loopback" /\ ~history.disturbed
           => Inverted]_vars
  <2> SUFFICES ASSUME LoopInv, CheckFlip, wiring = "loopback",
                      ~history.disturbed
               PROVE  Inverted
    OBVIOUS
  <2>1. TypeInv /\ Punctual /\ GridInv /\ TypeInv'
    <3>1. [Next]_vars
      BY DEF Next, Poll
    <3> QED
      BY <3>1, TypeStep DEF LoopInv
  <2>2. flip = 0 /\ Unflipped
    BY <2>1, NoSecondFlip DEF LoopInv, PolarityInv
  <2> QED
    BY <2>1, <2>2, FirstFlip
<1>3. LoopInv /\ [Next]_vars => LoopInv'
  BY LoopStep
<1> QED
  BY <1>1, <1>2, <1>3, PTL DEF Spec, RightMirrorKept
=============================================================================
