------------------------- MODULE InputCaptureProofs -------------------------
(***************************************************************************)
(* Proofs about InputCapture, for any number of edges, requests and        *)
(* resets: no request of an input is forgotten, and an unload leaves       *)
(* neither a poll nor an enabled block behind.                             *)
(***************************************************************************)
EXTENDS InputCapture, TLAPS

USE DEF polling, input, stats, hw, calls, vars, Blocks

Switches ==
    /\ desired \in [Blocks -> Configs] /\ applied \in [Blocks -> Configs]
    /\ en \in [Blocks -> BOOLEAN]
    /\ owed \subseteq Blocks
    /\ queued \in BOOLEAN /\ canceling \in BOOLEAN /\ active \in BOOLEAN
    /\ pc \in {"idle", "reconcile", "read", "emit", "tdc", "tally", "end"}
    /\ block \in {0, 1, 2} /\ (pc = "end" <=> block = 2)
    /\ stage \in {"live", "unregistered", "cancel", "freed"}

\* Has poll_work still to come to block b?
Ahead(b) == \/ pc = "reconcile" /\ block <= b
            \/ pc \in {"read", "emit", "tdc", "tally"} /\ block < b

\* A block that is or should be on has a poll to come, one that will queue
\* the next, or one that has still to reconcile it.
Remembered ==
    \A b \in Blocks :
       \/ stage # "live" \/ queued \/ b \in owed \/ active \/ Ahead(b)
       \/ desired[b] = "off" /\ applied[b] = "off"

\* What poll_work knows at its places
Placed ==
    /\ pc = "idle" => ~active
    /\ pc \in {"read", "emit", "tdc", "tally"} => active

\* EN is what poll_work has applied, until the unload clears it.
Enabled == stage # "freed" => \A b \in Blocks : en[b] <=> applied[b] # "off"

\* The unload lets nobody queue the poll again.
Unloading ==
    /\ stage # "live" => owed = {}
    /\ canceling <=> stage = "cancel"
    /\ stage = "cancel" => ~queued
    /\ stage = "freed" => pc = "idle" /\ ~queued /\ ~en[0] /\ ~en[1]

PollInv == Switches /\ Remembered /\ Placed /\ Enabled /\ Unloading

LEMMA PollInitially == Init => PollInv
<1> SUFFICES ASSUME Init PROVE PollInv
  OBVIOUS
<1>0. block \in {0, 1, 2} /\ block # 2 /\ "off" \in Configs
  BY DEF Init, Configs
<1>1. Switches
  BY <1>0 DEF Init, Switches
<1>2. Remembered /\ Enabled
  BY DEF Init, Remembered, Enabled
<1>3. Placed /\ Unloading
  BY DEF Init, Placed, Unloading
<1> QED
  BY <1>1, <1>2, <1>3 DEF PollInv

\* The loop of poll_work goes on to the next block, or ends.
LEMMA NextBlockType ==
    ASSUME Switches, pc # "end", NextBlock
    PROVE  /\ block' \in {0, 1, 2} /\ (pc' = "end" <=> block' = 2)
           /\ pc' \in {"reconcile", "end"} /\ block' = block + 1
  BY DEF Switches, NextBlock

\* No step breaks the invariant.
LEMMA PollStep == PollInv /\ [Next]_vars => PollInv'
<1> SUFFICES ASSUME PollInv, [Next]_vars PROVE PollInv'
  OBVIOUS
<1> USE DEF PollInv, Switches, Remembered, Placed, Enabled, Unloading, Ahead
<1>1. ASSUME NEW b \in Blocks, NEW c \in Configs, ConfigInput(b, c)
      PROVE  PollInv'
  BY <1>1 DEF ConfigInput
<1>2. ASSUME NEW b \in Blocks, KickPoll(b) PROVE PollInv'
  BY <1>2 DEF KickPoll
<1>3. CASE TdcReset
  BY <1>3 DEF TdcReset
<1>4. ASSUME NEW S \in SUBSET Blocks, Edge(S) PROVE PollInv'
  BY <1>4 DEF Edge
<1>5. CASE PollBegin
  <2>1. /\ pc = "idle" /\ queued /\ queued' = FALSE
        /\ pc' = "reconcile" /\ block' = 0 /\ active' = FALSE
        /\ UNCHANGED <<desired, applied, en, owed, canceling, stage>>
    BY <1>5 DEF PollBegin
  <2>0. block' \in {0, 1, 2} /\ block' # 2
    BY <2>1
  <2>2. Switches'
    BY <2>0, <2>1
  <2>3. Remembered'
    BY <2>1
  <2>4. Placed' /\ Enabled' /\ Unloading'
    BY <2>1
  <2> QED
    BY <2>2, <2>3, <2>4
<1>6. CASE Reconcile
  <2>1. /\ pc = "reconcile" /\ block \in Blocks /\ stage # "freed"
        /\ desired[block] \in Configs
        /\ applied' = [applied EXCEPT ![block] = desired[block]]
        /\ UNCHANGED <<desired, owed, queued, canceling, stage>>
    BY <1>6 DEF Reconcile
  <2>2. en' = [en EXCEPT ![block] = desired[block] # "off"]
    BY <1>6, <2>1 DEF Reconcile, ApplyInput
  <2>3. CASE desired[block] = "off"
    <3>1. /\ block' = block + 1 /\ active' = active
          /\ pc' = IF block = 1 THEN "end" ELSE "reconcile"
      BY <1>6, <2>3 DEF Reconcile, NextBlock
    <3>2. Switches'
      BY <2>1, <2>2, <3>1
    <3>3. Remembered'
      BY <2>1, <2>3, <3>1
    <3>4. Placed' /\ Enabled' /\ Unloading'
      BY <2>1, <2>2, <3>1
    <3> QED
      BY <3>2, <3>3, <3>4
  <2>4. CASE desired[block] # "off"
    <3>1. block' = block /\ active' = TRUE /\ pc' = "read"
      BY <1>6, <2>4 DEF Reconcile
    <3>2. Switches'
      BY <2>1, <2>2, <3>1
    <3>3. Placed' /\ Enabled' /\ Unloading' /\ Remembered'
      BY <2>1, <2>2, <3>1
    <3> QED
      BY <3>2, <3>3
  <2> QED
    BY <2>3, <2>4
<1>7. CASE ReadCapture
  BY <1>7, NextBlockType DEF ReadCapture
<1>8. CASE EmitEvent
  BY <1>8 DEF EmitEvent
<1>9. CASE TdcArm
  BY <1>9, NextBlockType DEF TdcArm
<1>10. CASE TdcComplete
  BY <1>10 DEF TdcComplete
<1>11. CASE TdcDiscard
  BY <1>11, NextBlockType DEF TdcDiscard
<1>12. CASE TdcTally
  BY <1>12, NextBlockType DEF TdcTally
<1>13. CASE PollEnd
  <2>1. /\ pc = "end" /\ queued' = (queued \/ (active /\ ~canceling))
        /\ pc' = "idle" /\ block' = 0 /\ active' = FALSE
        /\ UNCHANGED <<desired, applied, en, owed, canceling, stage>>
    BY <1>13 DEF PollEnd
  <2>0. block' \in {0, 1, 2} /\ block' # 2
    BY <2>1
  <2>2. Switches'
    BY <2>0, <2>1
  <2>3. Remembered'
    BY <2>1
  <2>4. Placed' /\ Enabled' /\ Unloading'
    BY <2>1
  <2> QED
    BY <2>2, <2>3, <2>4
<1>14. CASE ExitUnregister
  BY <1>14 DEF ExitUnregister
<1>15. CASE ExitGrabPoll
  BY <1>15 DEF ExitGrabPoll
<1>16. CASE ExitWaitPoll
  BY <1>16 DEF ExitWaitPoll, Configs
<1>17. CASE UNCHANGED vars
  BY <1>17
<1> QED
  BY <1>1, <1>2, <1>3, <1>4, <1>5, <1>6, <1>7, <1>8, <1>9, <1>10, <1>11,
     <1>12, <1>13, <1>14, <1>15, <1>16, <1>17 DEF Next, PollWork, Unloaded

LEMMA PollInvariant == Spec => []PollInv
  BY PollInitially, PollStep, PTL DEF Spec

\* The requests of PTP_EXTTS_REQUEST all reach the registers, however many
\* arrive while poll_work runs.
THEOREM NothingForgotten == Spec => []NoInputForgotten
<1>1. PollInv => NoInputForgotten
  BY DEF PollInv, Switches, Remembered, Ahead, Placed, Enabled, NoInputForgotten
<1> QED
  BY <1>1, PollInvariant, PTL

\* tgpio_input_exit frees the device after the last poll, with both blocks off.
THEOREM InputsQuiet == Spec => []UnloadQuiescent
<1>1. PollInv => UnloadQuiescent
  BY DEF PollInv, Unloading, UnloadQuiescent
<1> QED
  BY <1>1, PollInvariant, PTL

-----------------------------------------------------------------------------
(* Captures *)

Histories == [captured : Nat, delivered : Nat, dropped : Int, since : Nat,
              used : Nat, restarted : BOOLEAN]
Readings == [art : Nat, delta : Nat]
Tdcs == [count : Nat, lost : Nat, last : Int, min : Int, max : Int, sum : Int,
         pending : BOOLEAN, block : Blocks, art : Nat]

Times ==
    /\ pc \in {"idle", "reconcile", "read", "emit", "tdc", "tally", "end"}
    /\ block \in IF pc = "end" THEN {2} ELSE Blocks
    /\ reading \in Readings
    /\ last \in [Blocks -> Nat] /\ prev \in [Blocks -> Nat]
    /\ tdc \in Tdcs
    /\ ec \in [Blocks -> Nat] /\ tcv \in [Blocks -> Nat] /\ now \in Nat
    /\ history \in [Blocks -> Histories]
    /\ intervals \in [Blocks -> Nat] /\ configs \in Nat /\ resets \in Nat

\* What a step does to the history of one block,
LEMMA HistoryTypes ==
    /\ \A h \in Histories, n \in Nat : [h EXCEPT !.captured = n] \in Histories
    /\ \A h \in Histories : [h EXCEPT !.delivered = h.delivered + 1] \in Histories
    /\ \A h \in Histories, n \in Nat : [h EXCEPT !.used = n] \in Histories
    /\ \A h \in Histories, i \in Int, n \in Nat, r \in BOOLEAN :
         [h EXCEPT !.dropped = i, !.since = n, !.restarted = r] \in Histories
<1>1. ASSUME NEW h \in Histories
      PROVE  [h EXCEPT !.delivered = h.delivered + 1] \in Histories
  <2>1. h.delivered + 1 \in Nat
    BY DEF Histories
  <2> QED
    BY <2>1 DEF Histories
<1>2. ASSUME NEW h \in Histories, NEW n \in Nat
      PROVE  /\ [h EXCEPT !.captured = n] \in Histories
             /\ [h EXCEPT !.used = n] \in Histories
  BY DEF Histories
<1>3. ASSUME NEW h \in Histories, NEW i \in Int, NEW n \in Nat, NEW r \in BOOLEAN
      PROVE  [h EXCEPT !.dropped = i, !.since = n, !.restarted = r] \in Histories
  BY DEF Histories
<1> QED
  BY <1>1, <1>2, <1>3

\* and to the TDC statistics.
LEMMA TdcTypes ==
    /\ \A t \in Tdcs, n \in Nat, p \in BOOLEAN, b \in Blocks, a \in Nat :
         [t EXCEPT !.lost = n, !.pending = p, !.block = b, !.art = a] \in Tdcs
    /\ \A t \in Tdcs, n \in Nat, p \in BOOLEAN, m \in Nat :
         [t EXCEPT !.lost = n, !.pending = p, !.count = m] \in Tdcs
    /\ \A t \in Tdcs, n \in Nat, p \in BOOLEAN :
         [t EXCEPT !.lost = n, !.pending = p] \in Tdcs
    /\ \A t \in Tdcs, x, y, z, w \in Int :
         [t EXCEPT !.last = x, !.min = y, !.max = z, !.sum = w] \in Tdcs
    /\ \A t \in Tdcs, p \in BOOLEAN, b \in Blocks, a \in Nat :
         [t EXCEPT !.pending = p, !.block = b, !.art = a] \in Tdcs
<1> USE DEF Tdcs
<1>1. ASSUME NEW t \in Tdcs, NEW n \in Nat, NEW p \in BOOLEAN,
             NEW b \in Blocks, NEW a \in Nat
      PROVE  [t EXCEPT !.lost = n, !.pending = p, !.block = b, !.art = a] \in Tdcs
  OBVIOUS
<1>2. ASSUME NEW t \in Tdcs, NEW n \in Nat, NEW p \in BOOLEAN, NEW m \in Nat
      PROVE  [t EXCEPT !.lost = n, !.pending = p, !.count = m] \in Tdcs
  OBVIOUS
<1>3. ASSUME NEW t \in Tdcs, NEW n \in Nat, NEW p \in BOOLEAN
      PROVE  [t EXCEPT !.lost = n, !.pending = p] \in Tdcs
  OBVIOUS
<1>4. ASSUME NEW t \in Tdcs, NEW x \in Int, NEW y \in Int, NEW z \in Int,
             NEW w \in Int
      PROVE  [t EXCEPT !.last = x, !.min = y, !.max = z, !.sum = w] \in Tdcs
  OBVIOUS
<1>5. ASSUME NEW t \in Tdcs, NEW p \in BOOLEAN, NEW b \in Blocks, NEW a \in Nat
      PROVE  [t EXCEPT !.pending = p, !.block = b, !.art = a] \in Tdcs
  OBVIOUS
<1> QED
  BY <1>1, <1>2, <1>3, <1>4, <1>5

LEMMA TimesInitially == Init => Times
<1> SUFFICES ASSUME Init PROVE Times
  OBVIOUS
<1>1. NoHistory \in Histories /\ NoTdc \in Tdcs /\ NoReading \in Readings
  BY DEF NoHistory, Histories, NoTdc, Tdcs, NoReading, Readings
<1>2. block \in Blocks /\ now \in Nat
  BY DEF Init
<1> QED
  BY <1>1, <1>2 DEF Init, Times

\* No step breaks a type.
LEMMA TimesStep == Times /\ [Next]_vars => Times'
<1> SUFFICES ASSUME Times, [Next]_vars PROVE Times'
  OBVIOUS
<1> USE DEF Times
<1>1. ASSUME NEW b \in Blocks, NEW c \in Configs, ConfigInput(b, c)
      PROVE  Times'
  BY <1>1 DEF ConfigInput
<1>2. ASSUME NEW b \in Blocks, KickPoll(b) PROVE Times'
  BY <1>2 DEF KickPoll
<1>3. CASE TdcReset
  <2>1. tdc.pending \in BOOLEAN /\ tdc.block \in Blocks /\ tdc.art \in Nat
    BY DEF Tdcs
  <2>2. NoTdc \in Tdcs
    BY DEF NoTdc, Tdcs
  <2>3. tdc' \in Tdcs
    BY <1>3, <2>1, <2>2, TdcTypes DEF TdcReset
  <2> QED
    BY <1>3, <2>3 DEF TdcReset
<1>4. ASSUME NEW S \in SUBSET Blocks, Edge(S) PROVE Times'
  <2> DEFINE latched(b) == IF b \in S THEN history[b].captured + 1
                                      ELSE history[b].captured
  <2>1. \A b \in Blocks : history[b].captured \in Nat
    BY DEF Histories
  <2>2. \A b \in Blocks : latched(b) \in Nat
    BY <2>1
  <2>3. history' = [b \in Blocks |-> [history[b] EXCEPT !.captured = latched(b)]]
    BY <1>4 DEF Edge
  <2> HIDE DEF latched
  <2>4. history' \in [Blocks -> Histories]
    BY <2>2, <2>3, HistoryTypes
  <2> QED
    BY <1>4, <2>4 DEF Edge
<1>5. CASE PollBegin
  BY <1>5 DEF PollBegin
<1>6. CASE Reconcile
  <2>1. pc = "reconcile" /\ block \in Blocks
    BY <1>6 DEF Reconcile
  <2>2. /\ last' \in [Blocks -> Nat] /\ ec' \in [Blocks -> Nat]
        /\ history' \in [Blocks -> Histories]
    <3>1. CASE desired[block] = applied[block]
      BY <1>6, <3>1 DEF Reconcile
    <3>2. CASE desired[block] # applied[block]
      <4>1. ApplyInput(block, desired[block])
        BY <1>6, <3>2 DEF Reconcile
      <4>2. CASE desired[block] = "off"
        BY <4>1, <4>2 DEF ApplyInput
      <4>3. CASE desired[block] # "off"
        <5> DEFINE skipped == history[block].dropped + ec[block] - last[block]
                   again == history[block].restarted \/ ec' # ec
        <5>1. /\ last' = [last EXCEPT ![block] = ec[block]]
              /\ ec' = ec \/ ec' = [ec EXCEPT ![block] = 0]
              /\ history' = [history EXCEPT ![block] =
                   [history[block] EXCEPT !.dropped = skipped, !.since = now,
                                          !.restarted = again]]
          BY <4>1, <4>3 DEF ApplyInput
        <5>2. history[block].dropped \in Int /\ skipped \in Int
          BY <2>1 DEF Histories
        <5>3. again \in BOOLEAN
          OBVIOUS
        <5> HIDE DEF skipped, again
        <5>4. [history[block] EXCEPT !.dropped = skipped, !.since = now,
                                     !.restarted = again] \in Histories
          BY <2>1, <5>2, <5>3, HistoryTypes
        <5> QED
          BY <2>1, <5>1, <5>4
      <4> QED
        BY <4>2, <4>3
    <3> QED
      BY <3>1, <3>2
  <2>3. pc' \in {"reconcile", "end", "read"} /\ block' \in IF pc' = "end" THEN {2} ELSE Blocks
    BY <1>6, <2>1 DEF Reconcile, NextBlock
  <2> QED
    BY <1>6, <2>2, <2>3 DEF Reconcile
<1>7. CASE ReadCapture
  <2>1. pc = "read" /\ block \in Blocks
    BY <1>7 DEF ReadCapture
  <2>2. EventDelta(ec[block], last[block]) \in Nat
    BY <2>1 DEF EventDelta, LossLimit
  <2>3. reading' \in Readings /\ last' \in [Blocks -> Nat]
    BY <1>7, <2>1, <2>2 DEF ReadCapture, Readings
  <2>4. pc' \in {"reconcile", "end", "emit"} /\ block' \in IF pc' = "end" THEN {2} ELSE Blocks
    BY <1>7, <2>1 DEF ReadCapture, NextBlock
  <2> QED
    BY <1>7, <2>3, <2>4 DEF ReadCapture
<1>8. CASE EmitEvent
  <2>1. pc = "emit" /\ block \in Blocks /\ reading.art \in Nat
    BY <1>8 DEF EmitEvent, Readings
  <2>2. prev' \in [Blocks -> Nat] /\ history' \in [Blocks -> Histories]
    BY <1>8, <2>1, HistoryTypes DEF EmitEvent, StatsUpdate, Histories
  <2>3. intervals' \in [Blocks -> Nat]
    BY <1>8, <2>1 DEF EmitEvent, StatsUpdate
  <2> QED
    BY <1>8, <2>1, <2>2, <2>3 DEF EmitEvent
<1>9. /\ Lost \in Nat /\ tdc.lost + Lost \in Nat /\ tdc.count + 1 \in Nat
      /\ reading.art \in Nat
  BY DEF Lost, LossLimit, Readings, Tdcs
<1>10. NoReading \in Readings
  BY DEF NoReading, Readings
<1>11. ASSUME pc # "end", NextBlock
       PROVE  /\ pc' \in {"reconcile", "end"}
              /\ block' \in IF pc' = "end" THEN {2} ELSE Blocks
  BY <1>11 DEF NextBlock
<1>12. ASSUME UsePair, pc # "end" PROVE history' \in [Blocks -> Histories]
  <2>1. tdc.block \in Blocks /\ tdc.art \in Nat /\ reading.art \in Nat
        /\ block \in Blocks
    BY <1>12 DEF Tdcs, Readings
  <2> DEFINE first == [history EXCEPT ![tdc.block] =
                         [history[tdc.block] EXCEPT !.used = tdc.art]]
  <2>2. first \in [Blocks -> Histories]
    BY <2>1, HistoryTypes
  <2>3. history' = [first EXCEPT ![block] =
                      [first[block] EXCEPT !.used = reading.art]]
    BY <1>12 DEF UsePair
  <2> HIDE DEF first
  <2> QED
    BY <2>1, <2>2, <2>3, HistoryTypes
<1>13. CASE TdcArm
  <2>1. tdc' \in Tdcs /\ reading' \in Readings
    BY <1>9, <1>10, <1>13, TdcTypes DEF TdcArm
  <2> QED
    BY <1>11, <1>13, <2>1 DEF TdcArm
<1>14. CASE TdcComplete
  <2>1. tdc' \in Tdcs
    BY <1>9, <1>14, TdcTypes DEF TdcComplete
  <2> QED
    BY <1>12, <1>14, <2>1 DEF TdcComplete
<1>15. CASE TdcDiscard
  <2>1. tdc' \in Tdcs /\ reading' \in Readings
    BY <1>9, <1>10, <1>15, TdcTypes DEF TdcDiscard
  <2> QED
    BY <1>11, <1>12, <1>15, <2>1 DEF TdcDiscard
<1>16. CASE TdcTally
  <2>1. Duration \in Int
    BY DEF Duration, Tdcs, Readings
  <2> DEFINE least == IF tdc.count = 1 \/ Duration < tdc.min THEN Duration ELSE tdc.min
             most == IF tdc.count = 1 \/ Duration > tdc.max THEN Duration ELSE tdc.max
             total == tdc.sum + Duration
  <2>2. least \in Int /\ most \in Int /\ total \in Int
    BY <2>1 DEF Tdcs
  <2>3. tdc' = [tdc EXCEPT !.last = Duration, !.min = least, !.max = most,
                           !.sum = total]
    BY <1>16 DEF TdcTally, Tally
  <2> HIDE DEF least, most, total
  <2>4. tdc' \in Tdcs /\ reading' \in Readings
    BY <1>10, <1>16, <2>1, <2>2, <2>3, TdcTypes DEF TdcTally
  <2> QED
    BY <1>11, <1>16, <2>4 DEF TdcTally
<1>17. CASE PollEnd
  BY <1>17 DEF PollEnd
<1>18. CASE ExitUnregister \/ ExitGrabPoll \/ ExitWaitPoll \/ UNCHANGED vars
  BY <1>18 DEF ExitUnregister, ExitGrabPoll, ExitWaitPoll
<1> QED
  BY <1>1, <1>2, <1>3, <1>4, <1>5, <1>6, <1>7, <1>8, <1>13, <1>14, <1>15,
     <1>16, <1>17, <1>18 DEF Next, PollWork, Unloaded

LEMMA TypesInvariant == Spec => [](PollInv /\ Times)
  BY PollInvariant, TimesInitially, TimesStep, PTL DEF Spec

\* Counters, times and statistics keep their types, whatever edges come.
THEOREM TypeCorrect == Spec => []TypeOK
<1>1. PollInv /\ Times => TypeOK
  BY DEF PollInv, Switches, Times, TypeOK, Histories, Readings, Tdcs
<1> QED
  BY <1>1, TypesInvariant, PTL

\* A capture that is unread is newer than all that were read, and than the
\* configuration, unless the counter restarted; so is one on its way.
Fresh(b) ==
    /\ tcv[b] <= now /\ prev[b] <= tcv[b] /\ history[b].since <= now
    /\ pc = "emit" /\ block = b => prev[b] <= reading.art /\ reading.art <= tcv[b]
    /\ ~history[b].restarted /\ ec[b] # last[b]
         => tcv[b] > prev[b] /\ tcv[b] > history[b].since
    /\ ~history[b].restarted /\ pc = "emit" /\ block = b
         => /\ reading.art > prev[b] /\ reading.art > history[b].since
            /\ ec[b] # last[b] => tcv[b] > reading.art

FreshInv == \A b \in Blocks : Fresh(b)

LEMMA FreshInitially == Init => FreshInv
  BY DEF Init, FreshInv, Fresh, NoHistory

\* No step breaks it.
LEMMA FreshStep == PollInv /\ Times /\ FreshInv /\ [Next]_vars => FreshInv'
<1> SUFFICES ASSUME PollInv, Times, FreshInv, [Next]_vars PROVE FreshInv'
  OBVIOUS
<1> USE DEF FreshInv, Fresh, Times
<1>1. ASSUME UNCHANGED <<tcv, now, prev, history, pc, block, reading, ec, last>>
      PROVE  FreshInv'
  BY <1>1
<1>2. ASSUME UNCHANGED <<tcv, now, prev, history, ec, last>>, pc' # "emit"
      PROVE  FreshInv'
  BY <1>2
<1>3. ASSUME NEW S \in SUBSET Blocks, Edge(S) PROVE FreshInv'
  <2>1. \A b \in Blocks :
          /\ history'[b].since = history[b].since
          /\ history'[b].restarted = history[b].restarted
    BY <1>3 DEF Edge, Histories
  <2>2. \A b \in Blocks : history[b].since \in Nat
    BY DEF Histories
  <2>3. reading.art \in Nat
    BY DEF Readings
  <2> QED
    BY <1>3, <2>1, <2>2, <2>3 DEF Edge
<1>4. CASE Reconcile
  <2>1. /\ pc = "reconcile" /\ pc' # "emit" /\ block \in Blocks
        /\ UNCHANGED <<tcv, now, prev>>
    BY <1>4 DEF Reconcile, NextBlock
  <2>2. ASSUME UNCHANGED <<last, ec, history>> PROVE FreshInv'
    BY <2>1, <2>2
  <2>3. ASSUME desired[block] # applied[block], desired[block] # "off"
        PROVE  FreshInv'
    <3>1. /\ last' = [last EXCEPT ![block] = ec[block]]
          /\ ec' = ec \/ ec' = [ec EXCEPT ![block] = 0]
          /\ history' = [history EXCEPT
               ![block].dropped = @ + ec[block] - last[block],
               ![block].since = now, ![block].restarted = @ \/ ec' # ec]
      BY <1>4, <2>3 DEF Reconcile, ApplyInput
    <3>2. /\ history'[block].since = now
          /\ ~history'[block].restarted =>
               ~history[block].restarted /\ ec' = ec
      <4>1. history[block] \in [captured : Nat, delivered : Nat, dropped : Int,
                                since : Nat, used : Nat, restarted : BOOLEAN]
        BY <2>1 DEF Histories
      <4>2. history'[block] = [history[block] EXCEPT
              !.dropped = @ + ec[block] - last[block],
              !.since = now, !.restarted = @ \/ ec' # ec]
        BY <2>1, <3>1 DEF Histories
      <4> QED
        BY <4>1, <4>2
    <3>3. \A b \in Blocks : b # block =>
            /\ history'[b] = history[b] /\ last'[b] = last[b] /\ ec'[b] = ec[b]
      BY <2>1, <3>1
    <3>4. ~history'[block].restarted => ec'[block] = last'[block]
      BY <2>1, <3>1, <3>2
    <3> QED
      BY <2>1, <3>2, <3>3, <3>4
  <2>4. ASSUME desired[block] # applied[block], desired[block] = "off"
        PROVE  FreshInv'
    BY <1>4, <2>2, <2>4 DEF Reconcile, ApplyInput
  <2>5. ASSUME desired[block] = applied[block] PROVE FreshInv'
    BY <1>4, <2>2, <2>5 DEF Reconcile
  <2> QED
    BY <2>3, <2>4, <2>5
<1>5. CASE ReadCapture
  <2>1. /\ pc = "read" /\ block \in Blocks
        /\ UNCHANGED <<tcv, now, prev, history, ec>>
    BY <1>5 DEF ReadCapture
  <2>2. CASE ec[block] # last[block]
    <3>1. /\ reading'.art = tcv[block] /\ block' = block /\ pc' = "emit"
          /\ last' = [last EXCEPT ![block] = ec[block]]
      BY <1>5, <2>2 DEF ReadCapture
    <3> QED
      BY <2>1, <2>2, <3>1
  <2>3. CASE ec[block] = last[block]
    <3>1. pc' # "emit" /\ last' = last
      BY <1>5, <2>3 DEF ReadCapture, NextBlock
    <3> QED
      BY <1>2, <2>1, <3>1
  <2> QED
    BY <2>2, <2>3
<1>6. CASE EmitEvent
  <2>1. /\ pc = "emit" /\ pc' = "tdc" /\ block \in Blocks /\ block' = block
        /\ prev' = [prev EXCEPT ![block] = reading.art]
        /\ UNCHANGED <<tcv, now, ec, last>>
    BY <1>6 DEF EmitEvent, StatsUpdate
  <2>2. \A b \in Blocks :
          /\ history'[b].since = history[b].since
          /\ history'[b].restarted = history[b].restarted
    BY <1>6, <2>1 DEF EmitEvent, Histories
  <2> QED
    BY <2>1, <2>2
<1>7. CASE TdcArm \/ TdcComplete \/ TdcDiscard \/ TdcTally
  <2>1. pc' # "emit" /\ UNCHANGED <<tcv, now, prev, ec, last>>
    BY <1>7 DEF TdcArm, TdcComplete, TdcDiscard, TdcTally, NextBlock
  <2>2. \A b \in Blocks :
          /\ history'[b].since = history[b].since
          /\ history'[b].restarted = history[b].restarted
    <3>1. CASE TdcArm \/ TdcTally
      BY <3>1 DEF TdcArm, TdcTally
    <3>2. CASE TdcComplete \/ TdcDiscard
      <4>1. /\ UsePair /\ block \in Blocks /\ tdc.block \in Blocks
        BY <3>2 DEF TdcComplete, TdcDiscard, Tdcs
      <4> QED
        BY <4>1 DEF UsePair, Histories
    <3> QED
      BY <1>7, <3>1, <3>2
  <2> QED
    BY <2>1, <2>2
<1>8. ASSUME NEW b \in Blocks, NEW c \in Configs, ConfigInput(b, c)
      PROVE  FreshInv'
  BY <1>1, <1>8 DEF ConfigInput
<1>9. ASSUME NEW b \in Blocks, KickPoll(b) PROVE FreshInv'
  BY <1>1, <1>9 DEF KickPoll
<1>10. CASE TdcReset
  BY <1>1, <1>10 DEF TdcReset
<1>11. CASE PollBegin
  BY <1>2, <1>11 DEF PollBegin
<1>12. CASE PollEnd
  BY <1>2, <1>12 DEF PollEnd
<1>13. CASE ExitUnregister \/ ExitGrabPoll \/ ExitWaitPoll \/ UNCHANGED vars
  BY <1>1, <1>13 DEF ExitUnregister, ExitGrabPoll, ExitWaitPoll
<1> QED
  BY <1>3, <1>4, <1>5, <1>6, <1>7, <1>8, <1>9, <1>10, <1>11, <1>12, <1>13
  DEF Next, PollWork, Unloaded

LEMMA FreshInvariant == Spec => [](PollInv /\ Times /\ FreshInv)
  BY TypesInvariant, FreshInitially, FreshStep, PTL DEF Spec

\* poll_work emits every edge at most once, however edges and requests fall
\* between its reads; only a counter that restarts can bring one back.
THEOREM NeverStale == Spec => EventsFresh
<1>1. PollInv /\ Times /\ FreshInv /\ [Next]_vars =>
        [EmitEvent /\ ~history[block].restarted
           => /\ reading.art > prev[block]
              /\ reading.art > history[block].since]_vars
  BY DEF FreshInv, Fresh, Times, EmitEvent
<1> QED
  BY <1>1, FreshInvariant, PTL DEF Spec, EventsFresh

\* The captures that completed pairs are the oldest of the emitted ones: the
\* one that waits for its partner and the one just emitted are newer.
Original == \A b \in Blocks : ~history[b].restarted
UsedInv ==
    /\ \A b \in Blocks : history[b].used <= prev[b]
    /\ pc = "tdc" => reading.art = prev[block]
    /\ tdc.pending => tdc.art <= prev[tdc.block]
    /\ Original /\ pc = "tdc" => reading.art > history[block].used
    /\ Original /\ tdc.pending => tdc.art > history[tdc.block].used

LEMMA UsedInitially == Init => UsedInv
  BY DEF Init, UsedInv, NoHistory, NoTdc

\* No step breaks it.
LEMMA UsedStep ==
    PollInv /\ Times /\ FreshInv /\ UsedInv /\ [Next]_vars => UsedInv'
<1> SUFFICES ASSUME PollInv, Times, FreshInv, UsedInv, [Next]_vars PROVE UsedInv'
  OBVIOUS
<1> USE DEF Times, UsedInv, Original
<1>0. /\ \A b \in Blocks : history[b].used \in Nat /\ prev[b] \in Nat
      /\ tdc.block \in Blocks /\ tdc.art \in Nat /\ reading.art \in Nat
  BY DEF Histories, Tdcs, Readings
<1>1. ASSUME UNCHANGED <<prev, tdc, history, reading, block>>, pc' = pc \/ pc' # "tdc"
      PROVE  UsedInv'
  BY <1>1
<1>2. ASSUME NEW S \in SUBSET Blocks, Edge(S) PROVE UsedInv'
  <2>1. \A b \in Blocks :
          /\ history'[b].used = history[b].used
          /\ history'[b].restarted = history[b].restarted
    BY <1>2 DEF Edge, Histories
  <2> QED
    BY <1>0, <1>2, <2>1 DEF Edge
<1>3. CASE Reconcile
  <2>1. pc' # "tdc" /\ UNCHANGED <<prev, tdc>>
    BY <1>3 DEF Reconcile, NextBlock
  <2>2. \A b \in Blocks :
          /\ history'[b].used = history[b].used
          /\ ~history'[b].restarted => ~history[b].restarted
    <3>1. block \in Blocks
      BY <1>3 DEF Reconcile
    <3>2. CASE UNCHANGED history
      BY <3>2
    <3>3. CASE history' = [history EXCEPT
                 ![block].dropped = @ + ec[block] - last[block],
                 ![block].since = now, ![block].restarted = @ \/ ec' # ec]
      <4>1. history[block] \in [captured : Nat, delivered : Nat, dropped : Int,
                                since : Nat, used : Nat, restarted : BOOLEAN]
        BY <3>1 DEF Histories
      <4>2. /\ history'[block].used = history[block].used
            /\ history'[block].restarted = (history[block].restarted \/ ec' # ec)
        BY <3>1, <3>3, <4>1 DEF Histories
      <4>3. \A b \in Blocks : b # block => history'[b] = history[b]
        BY <3>1, <3>3 DEF Histories
      <4> QED
        BY <4>2, <4>3
    <3> QED
      BY <1>3, <3>2, <3>3 DEF Reconcile, ApplyInput
  <2>3. Original' => Original
    BY <2>2
  <2> QED
    BY <1>0, <2>1, <2>2, <2>3
<1>4. CASE ReadCapture
  <2>1. pc' # "tdc" /\ UNCHANGED <<prev, tdc, history>>
    BY <1>4 DEF ReadCapture, NextBlock
  <2> QED
    BY <2>1
<1>5. CASE EmitEvent
  <2>1. /\ pc = "emit" /\ pc' = "tdc" /\ block \in Blocks /\ block' = block
        /\ prev' = [prev EXCEPT ![block] = reading.art]
        /\ UNCHANGED <<tdc, reading>>
    BY <1>5 DEF EmitEvent, StatsUpdate
  <2>2. \A b \in Blocks :
          /\ history'[b].used = history[b].used
          /\ history'[b].restarted = history[b].restarted
    BY <1>5, <2>1 DEF EmitEvent, Histories
  <2>3. /\ prev[block] <= reading.art
        /\ ~history[block].restarted => prev[block] < reading.art
    BY <1>0, <2>1 DEF FreshInv, Fresh
  <2> QED
    BY <1>0, <2>1, <2>2, <2>3
<1>6. CASE TdcArm
  <2>1. /\ pc = "tdc" /\ pc' # "tdc" /\ block \in Blocks
        /\ tdc'.pending /\ tdc'.block = block /\ tdc'.art = reading.art
        /\ UNCHANGED <<prev, history>>
    BY <1>6 DEF TdcArm, NextBlock, Tdcs
  <2> QED
    BY <1>0, <2>1
<1>7. CASE TdcComplete \/ TdcDiscard
  <2>1. /\ pc = "tdc" /\ pc' # "tdc" /\ block \in Blocks /\ Pairs /\ UsePair
        /\ tdc'.pending = FALSE /\ UNCHANGED prev
    BY <1>7 DEF TdcComplete, TdcDiscard, NextBlock, Tdcs
  <2>2. history'[tdc.block].used = tdc.art /\ history'[block].used = reading.art
    BY <1>0, <2>1 DEF UsePair, Pairs, Histories
  <2>3. \A b \in Blocks : b = block \/ b = tdc.block
    BY <1>0, <2>1 DEF Pairs
  <2>4. tdc.art <= prev[tdc.block] /\ reading.art = prev[block]
    BY <2>1 DEF Pairs
  <2> QED
    BY <1>0, <2>1, <2>2, <2>3, <2>4
<1>8. CASE TdcTally
  <2>1. /\ pc' # "tdc" /\ UNCHANGED <<prev, history>>
        /\ tdc'.pending = tdc.pending /\ tdc'.block = tdc.block
        /\ tdc'.art = tdc.art
    BY <1>8 DEF TdcTally, Tally, NextBlock, Tdcs
  <2> QED
    BY <2>1
<1>9. CASE TdcReset
  <2>1. /\ UNCHANGED <<pc, block, reading, prev, history>>
        /\ tdc'.pending = tdc.pending /\ tdc'.block = tdc.block
        /\ tdc'.art = tdc.art
    BY <1>9 DEF TdcReset, NoTdc
  <2> QED
    BY <2>1
<1>10. ASSUME NEW b \in Blocks, NEW c \in Configs, ConfigInput(b, c)
       PROVE  UsedInv'
  BY <1>1, <1>10 DEF ConfigInput
<1>11. ASSUME NEW b \in Blocks, KickPoll(b) PROVE UsedInv'
  BY <1>1, <1>11 DEF KickPoll
<1>12. CASE PollBegin \/ PollEnd
  <2>1. pc' # "tdc" /\ UNCHANGED <<prev, tdc, history>>
    BY <1>12 DEF PollBegin, PollEnd
  <2> QED
    BY <2>1
<1>13. CASE ExitUnregister \/ ExitGrabPoll \/ ExitWaitPoll \/ UNCHANGED vars
  BY <1>1, <1>13 DEF ExitUnregister, ExitGrabPoll, ExitWaitPoll
<1> QED
  BY <1>2, <1>3, <1>4, <1>5, <1>6, <1>7, <1>8, <1>9, <1>10, <1>11, <1>12, <1>13
  DEF Next, PollWork, Unloaded

\* tgpio_tdc_capture counts no capture in two measurements, whatever the order
\* in which poll_work finds the edges and whenever the statistics are reset.
THEOREM PairsDisjoint == Spec => TdcUsesCapturesOnce
<1>1. PollInv /\ Times /\ FreshInv /\ UsedInv /\ [Next]_vars =>
        [TdcComplete /\ (\A b \in Blocks : ~history[b].restarted)
           => /\ tdc.art > history[tdc.block].used
              /\ reading.art > history[block].used]_vars
  BY DEF UsedInv, Original, TdcComplete, Pairs
<1> QED
  BY <1>1, FreshInvariant, UsedInitially, UsedStep, PTL
  DEF Spec, TdcUsesCapturesOnce

\* Where the edges are that were latched and not yet emitted, skipped or left
\* unread: in tdc_lost, and in the capture poll_work is about to emit.
Loose(b) == history[b].captured - history[b].delivered - history[b].dropped
              - (ec[b] - last[b])
OnTheWay == IF pc = "emit" THEN reading.delta
            ELSE IF pc = "tdc" THEN reading.delta - 1 ELSE 0

AccountInv ==
    /\ now <= MaxTime
    /\ \A b \in Blocks : ~history[b].restarted => last[b] <= ec[b] /\ ec[b] <= now
    /\ Original /\ pc \in {"emit", "tdc"} => reading.delta \in 1..now
    /\ Original /\ resets = 0 => Loose(0) + Loose(1) = tdc.lost + OnTheWay

LEMMA AccountInitially == Init => AccountInv
<1> SUFFICES ASSUME Init PROVE AccountInv
  OBVIOUS
<1>1. \A b \in Blocks : Loose(b) = 0 /\ last[b] = 0 /\ ec[b] = 0
  BY DEF Init, Loose, NoHistory
<1>2. tdc.lost = 0 /\ OnTheWay = 0 /\ now = 0 /\ now <= MaxTime /\ pc = "idle"
  BY BoundAssumption DEF Init, NoTdc, OnTheWay
<1> QED
  BY <1>1, <1>2 DEF AccountInv

\* No step breaks it.
LEMMA AccountStep ==
    ASSUME MaxTime <= LossLimit, PollInv, Times, AccountInv, [Next]_vars
    PROVE  AccountInv'
<1> USE DEF Times, AccountInv, Original
<1>0. /\ \A b \in Blocks : /\ history[b].captured \in Nat
                           /\ history[b].delivered \in Nat
                           /\ history[b].dropped \in Int
      /\ tdc.lost \in Nat /\ reading.delta \in Nat
  BY DEF Histories, Tdcs, Readings
<1>a. /\ Loose(0) \in Int /\ Loose(1) \in Int /\ OnTheWay \in Int
      /\ MaxTime \in Nat
  BY <1>0, BoundAssumption DEF Loose, OnTheWay
<1>1. ASSUME UNCHANGED <<now, ec, last, history, tdc>>, resets' = 0 => resets = 0,
             pc \notin {"emit", "tdc"}, pc' \notin {"emit", "tdc"}
      PROVE  AccountInv'
  BY <1>1 DEF Loose, OnTheWay
<1>2. ASSUME UNCHANGED <<now, ec, last, history, tdc, resets, pc, reading>>
      PROVE  AccountInv'
  BY <1>2 DEF Loose, OnTheWay
<1>3. ASSUME NEW S \in SUBSET Blocks, Edge(S) PROVE AccountInv'
  <2>1. \A b \in Blocks :
          /\ history'[b].delivered = history[b].delivered
          /\ history'[b].dropped = history[b].dropped
          /\ history'[b].restarted = history[b].restarted
          /\ history'[b].captured - ec'[b] = history[b].captured - ec[b]
          /\ ec'[b] \in Nat /\ ec[b] <= ec'[b] /\ ec'[b] <= ec[b] + 1
          /\ history'[b].captured \in Nat
    BY <1>0, <1>3 DEF Edge, Histories
  <2>2. /\ now' = now + 1 /\ now < MaxTime
        /\ UNCHANGED <<last, tdc, resets, pc, reading>>
    BY <1>3 DEF Edge
  <2>3. \A b \in Blocks : Loose(b)' = Loose(b)
    <3>1. ASSUME NEW b \in Blocks PROVE Loose(b)' = Loose(b)
      <4>1. /\ history[b].captured \in Int /\ history'[b].captured \in Int
            /\ history[b].delivered \in Int /\ history[b].dropped \in Int
            /\ ec[b] \in Int /\ ec'[b] \in Int /\ last[b] \in Int
        BY <1>0, <2>1
      <4> QED
        BY <2>1, <2>2, <4>1 DEF Loose
    <3> QED
      BY <3>1
  <2>4. OnTheWay' = OnTheWay
    BY <2>2 DEF OnTheWay
  <2>5. Original' = Original
    BY <2>1
  <2> QED
    BY <1>a, <2>1, <2>2, <2>3, <2>4, <2>5
<1>4. CASE Reconcile
  <2>1. /\ pc = "reconcile" /\ pc' \notin {"emit", "tdc"} /\ block \in Blocks
        /\ UNCHANGED <<now, tdc, resets>>
    BY <1>4 DEF Reconcile, NextBlock
  <2>2. CASE UNCHANGED <<ec, last, history>>
    BY <1>1, <2>1, <2>2
  <2>3. CASE /\ last' = [last EXCEPT ![block] = ec[block]]
             /\ ec' = ec \/ ec' = [ec EXCEPT ![block] = 0]
             /\ history' = [history EXCEPT
                  ![block].dropped = @ + ec[block] - last[block],
                  ![block].since = now, ![block].restarted = @ \/ ec' # ec]
    <3>1. /\ history'[block].captured = history[block].captured
          /\ history'[block].delivered = history[block].delivered
          /\ history'[block].dropped =
               history[block].dropped + ec[block] - last[block]
          /\ ~history'[block].restarted =>
               ~history[block].restarted /\ ec' = ec
      <4>1. history'[block] =
              [history[block] EXCEPT
                 !.dropped = @ + ec[block] - last[block],
                 !.since = now, !.restarted = @ \/ ec' # ec]
        BY <2>1, <2>3 DEF Histories
      <4>2. history[block] \in [captured : Nat, delivered : Nat, dropped : Int,
                                since : Nat, used : Nat, restarted : BOOLEAN]
        BY <2>1 DEF Histories
      <4> QED
        BY <4>1, <4>2
    <3>2. \A b \in Blocks : b # block =>
            /\ history'[b] = history[b] /\ last'[b] = last[b] /\ ec'[b] = ec[b]
      BY <2>1, <2>3
    <3>3. last'[block] = ec[block]
      BY <2>1, <2>3
    <3>4. Original' => Original /\ ec' = ec
      BY <2>1, <3>1, <3>2
    <3>5. Original' => \A b \in Blocks : b = block => Loose(b)' = Loose(b)
      BY <1>0, <2>1, <3>1, <3>3, <3>4 DEF Loose
    <3>6. \A b \in Blocks : b # block => Loose(b)' = Loose(b)
      BY <3>2 DEF Loose
    <3>7. OnTheWay = 0 /\ OnTheWay' = 0
      BY <2>1 DEF OnTheWay
    <3>8. Original' => Loose(0)' = Loose(0) /\ Loose(1)' = Loose(1)
      BY <2>1, <3>5, <3>6
    <3>9. \A b \in Blocks : ~history'[b].restarted => last'[b] <= ec'[b] /\ ec'[b] <= now
      BY <2>1, <3>1, <3>2, <3>3
    <3> QED
      BY <2>1, <3>4, <3>7, <3>8, <3>9
  <2> QED
    BY <1>4, <2>2, <2>3 DEF Reconcile, ApplyInput
<1>5. CASE ReadCapture
  <2>1. /\ pc = "read" /\ block \in Blocks
        /\ UNCHANGED <<now, history, ec, tdc, resets>>
    BY <1>5 DEF ReadCapture
  <2>2. CASE ec[block] # last[block]
    <3>1. /\ reading'.delta = EventDelta(ec[block], last[block])
          /\ pc' = "emit" /\ last' = [last EXCEPT ![block] = ec[block]]
      BY <1>5, <2>2 DEF ReadCapture
    <3>2. Original => /\ reading'.delta = ec[block] - last[block]
                      /\ reading'.delta \in 1..now
      BY <2>1, <2>2, <3>1 DEF EventDelta
    <3>3. /\ \A b \in Blocks : b = block =>
               Loose(b)' = Loose(b) + (ec[block] - last[block])
          /\ \A b \in Blocks : b # block => Loose(b)' = Loose(b)
      BY <1>0, <2>1, <3>1 DEF Loose
    <3>4. Loose(0)' + Loose(1)' = Loose(0) + Loose(1) + (ec[block] - last[block])
      BY <1>a, <2>1, <3>3
    <3>5. OnTheWay = 0 /\ OnTheWay' = reading'.delta
      BY <2>1, <3>1 DEF OnTheWay
    <3>6. \A b \in Blocks : ~history'[b].restarted => last'[b] <= ec'[b]
      BY <2>1, <3>1
    <3> QED
      BY <1>0, <2>1, <3>1, <3>2, <3>4, <3>5, <3>6
  <2>3. CASE ec[block] = last[block]
    <3>1. pc' \notin {"emit", "tdc"} /\ last' = last
      BY <1>5, <2>3 DEF ReadCapture, NextBlock
    <3> QED
      BY <1>1, <2>1, <3>1
  <2> QED
    BY <2>2, <2>3
<1>6. CASE EmitEvent
  <2>1. /\ pc = "emit" /\ pc' = "tdc" /\ block \in Blocks
        /\ UNCHANGED <<now, ec, last, tdc, resets, reading>>
    BY <1>6 DEF EmitEvent
  <2>2. /\ history'[block].delivered = history[block].delivered + 1
        /\ \A b \in Blocks :
             /\ history'[b].captured = history[b].captured
             /\ history'[b].dropped = history[b].dropped
             /\ history'[b].restarted = history[b].restarted
             /\ b # block => history'[b].delivered = history[b].delivered
    BY <1>6, <2>1 DEF EmitEvent, Histories
  <2>3. /\ \A b \in Blocks : b = block => Loose(b)' = Loose(b) - 1
        /\ \A b \in Blocks : b # block => Loose(b)' = Loose(b)
    BY <1>0, <2>1, <2>2 DEF Loose
  <2>4. Loose(0)' + Loose(1)' = Loose(0) + Loose(1) - 1
    BY <1>a, <2>1, <2>3
  <2>5. OnTheWay = reading.delta /\ OnTheWay' = reading.delta - 1
    BY <2>1 DEF OnTheWay
  <2>6. Original' = Original
    BY <2>2
  <2>7. Original' /\ resets' = 0 =>
          Loose(0)' + Loose(1)' = tdc'.lost + OnTheWay'
    BY <1>0, <1>a, <2>1, <2>4, <2>5, <2>6
  <2>8. Original' => reading'.delta \in 1..now'
    BY <2>1, <2>6
  <2> QED
    BY <2>1, <2>2, <2>7, <2>8
<1>7. CASE TdcArm \/ TdcComplete \/ TdcDiscard
  <2>1. /\ pc = "tdc" /\ pc' \notin {"emit", "tdc"} /\ block \in Blocks
        /\ tdc'.lost = tdc.lost + Lost
        /\ UNCHANGED <<now, ec, last, resets>>
    BY <1>7 DEF TdcArm, TdcComplete, TdcDiscard, NextBlock, Tdcs
  <2>2. \A b \in Blocks :
          /\ history'[b].captured = history[b].captured
          /\ history'[b].delivered = history[b].delivered
          /\ history'[b].dropped = history[b].dropped
          /\ history'[b].restarted = history[b].restarted
    <3>1. CASE TdcArm
      BY <3>1 DEF TdcArm
    <3>2. CASE TdcComplete \/ TdcDiscard
      <4>1. UsePair /\ tdc.block \in Blocks
        BY <3>2 DEF TdcComplete, TdcDiscard, Tdcs
      <4> QED
        BY <2>1, <4>1 DEF UsePair, Histories
    <3> QED
      BY <1>7, <3>1, <3>2
  <2>3. Loose(0)' = Loose(0) /\ Loose(1)' = Loose(1)
    BY <2>1, <2>2 DEF Loose
  <2>4. Original => Lost = reading.delta - 1
    BY <1>a, <2>1 DEF Lost, LossLimit
  <2>5. OnTheWay = reading.delta - 1 /\ OnTheWay' = 0
    BY <2>1 DEF OnTheWay
  <2> QED
    BY <1>0, <2>1, <2>2, <2>3, <2>4, <2>5
<1>8. CASE TdcTally
  <2>1. /\ pc = "tally" /\ pc' \notin {"emit", "tdc"} /\ tdc'.lost = tdc.lost
        /\ UNCHANGED <<now, ec, last, history, resets>>
    BY <1>8 DEF TdcTally, Tally, NextBlock, Tdcs
  <2> QED
    BY <2>1 DEF Loose, OnTheWay
<1>9. CASE TdcReset
  <2>1. resets' # 0 /\ UNCHANGED <<pc, reading, now, ec, last, history>>
    BY <1>9 DEF TdcReset
  <2> QED
    BY <2>1
<1>10. ASSUME NEW b \in Blocks, NEW c \in Configs, ConfigInput(b, c)
       PROVE  AccountInv'
  BY <1>2, <1>10 DEF ConfigInput
<1>11. ASSUME NEW b \in Blocks, KickPoll(b) PROVE AccountInv'
  BY <1>2, <1>11 DEF KickPoll
<1>12. CASE PollBegin \/ PollEnd
  <2>1. /\ UNCHANGED <<now, ec, last, history, tdc, resets>>
        /\ pc \notin {"emit", "tdc"} /\ pc' \notin {"emit", "tdc"}
    BY <1>12 DEF PollBegin, PollEnd
  <2> QED
    BY <1>1, <2>1
<1>13. CASE ExitUnregister \/ ExitGrabPoll \/ ExitWaitPoll \/ UNCHANGED vars
  BY <1>2, <1>13 DEF ExitUnregister, ExitGrabPoll, ExitWaitPoll
<1> QED
  BY <1>3, <1>4, <1>5, <1>6, <1>7, <1>8, <1>9, <1>10, <1>11, <1>12, <1>13
  DEF Next, PollWork, Unloaded

\* No edge disappears silently as long as no more than 4096 of them come
\* between two polls, the limit at which tgpio_tdc_capture takes the counters
\* for garbage.
THEOREM NothingLost ==
    ASSUME MaxTime <= LossLimit PROVE Spec => []EdgesAccounted
<1>1. Times /\ AccountInv => EdgesAccounted
  BY DEF Times, Tdcs, AccountInv, Original, Loose, OnTheWay, EdgesAccounted
<1>2. PollInv /\ Times /\ AccountInv /\ [Next]_vars => AccountInv'
  BY AccountStep
<1> QED
  BY <1>1, <1>2, TypesInvariant, AccountInitially, PTL DEF Spec

\* The measurements that are in the sum
Summed == IF pc = "tally" THEN tdc.count - 1 ELSE tdc.count

MeanInv ==
    resets = 0 => /\ Summed \in Nat
                  /\ Summed * tdc.min <= tdc.sum /\ tdc.sum <= Summed * tdc.max

\* Multiplication is monotonic, and one summand more is one product more.
LEMMA Products ==
    /\ \A n \in Nat, x, y \in Int : n * x \in Int /\ (x <= y => n * x <= n * y)
    /\ \A n \in Nat, x \in Int : (n + 1) * x = n * x + x
    /\ \A x \in Int : 0 * x = 0 /\ 1 * x = x
  OBVIOUS

\* The extremes after a measurement still bound the mean.
LEMMA TallyBounds ==
    ASSUME NEW n \in Nat, NEW sum \in Int, NEW d \in Int,
           NEW min \in Int, NEW max \in Int, NEW least \in Int, NEW most \in Int,
           n * min <= sum, sum <= n * max,
           least = IF n = 0 \/ d < min THEN d ELSE min,
           most = IF n = 0 \/ d > max THEN d ELSE max
    PROVE  (n + 1) * least <= sum + d /\ sum + d <= (n + 1) * most
<1>1. /\ n * least \in Int /\ n * most \in Int
      /\ n * min \in Int /\ n * max \in Int
  BY Products
<1>2. /\ (n + 1) * least = n * least + least
      /\ (n + 1) * most = n * most + most
  BY Products
<1>3. n * least <= sum /\ sum <= n * most
  <2>1. CASE n = 0
    BY <2>1, Products
  <2>2. CASE n # 0
    <3>1. least <= min /\ max <= most
      BY <2>2
    <3>2. n * least <= n * min /\ n * max <= n * most
      BY <3>1, Products
    <3> QED
      BY <1>1, <3>2
  <2> QED
    BY <2>1, <2>2
<1>4. least <= d /\ d <= most
  OBVIOUS
<1> QED
  BY <1>1, <1>2, <1>3, <1>4

\* No step breaks the bounds.
LEMMA MeanStep == Times /\ MeanInv /\ [Next]_vars => MeanInv'
<1> SUFFICES ASSUME Times, MeanInv, [Next]_vars PROVE MeanInv'
  OBVIOUS
<1> USE DEF Times
<1>0. /\ tdc.count \in Nat /\ tdc.min \in Int /\ tdc.max \in Int
      /\ tdc.sum \in Int
  BY DEF Tdcs
<1>1. ASSUME UNCHANGED resets, tdc'.count = tdc.count, tdc'.min = tdc.min,
             tdc'.max = tdc.max, tdc'.sum = tdc.sum,
             pc # "tally", pc' # "tally"
      PROVE  MeanInv'
  BY <1>1 DEF MeanInv, Summed
<1>2. ASSUME UNCHANGED <<resets, tdc, pc>> PROVE MeanInv'
  BY <1>2 DEF MeanInv, Summed
<1>3. CASE TdcComplete
  <2>1. /\ pc = "tdc" /\ pc' = "tally" /\ tdc'.count = tdc.count + 1
        /\ tdc'.min = tdc.min /\ tdc'.max = tdc.max /\ tdc'.sum = tdc.sum
        /\ UNCHANGED resets
    BY <1>3 DEF TdcComplete, Tdcs
  <2>2. Summed' = Summed
    BY <1>0, <2>1 DEF Summed
  <2> QED
    BY <2>1, <2>2 DEF MeanInv
<1>4. CASE TdcTally
  <2> DEFINE least == IF tdc.count = 1 \/ Duration < tdc.min THEN Duration ELSE tdc.min
             most == IF tdc.count = 1 \/ Duration > tdc.max THEN Duration ELSE tdc.max
  <2>1. /\ pc = "tally" /\ pc' # "tally" /\ UNCHANGED resets
        /\ tdc'.count = tdc.count /\ tdc'.sum = tdc.sum + Duration
        /\ tdc'.min = least /\ tdc'.max = most
    BY <1>4 DEF TdcTally, Tally, NextBlock, Tdcs
  <2>2. Duration \in Int
    BY DEF Duration, Tdcs, Readings
  <2>3. Summed' = tdc.count /\ Summed = tdc.count - 1
    BY <2>1 DEF Summed
  <2>4. SUFFICES ASSUME resets = 0 PROVE MeanInv'
    BY <2>1 DEF MeanInv
  <2>5. /\ Summed \in Nat /\ Summed + 1 = tdc.count
        /\ Summed * tdc.min <= tdc.sum /\ tdc.sum <= Summed * tdc.max
    BY <1>0, <2>3, <2>4 DEF MeanInv
  <2>6. /\ least = IF Summed = 0 \/ Duration < tdc.min THEN Duration ELSE tdc.min
        /\ most = IF Summed = 0 \/ Duration > tdc.max THEN Duration ELSE tdc.max
        /\ least \in Int /\ most \in Int
    BY <1>0, <2>2, <2>5
  <2> HIDE DEF least, most
  <2>7. /\ (Summed + 1) * least <= tdc.sum + Duration
        /\ tdc.sum + Duration <= (Summed + 1) * most
    BY <1>0, <2>2, <2>5, <2>6, TallyBounds
  <2> QED
    BY <1>0, <2>1, <2>3, <2>5, <2>7 DEF MeanInv
<1>5. CASE TdcReset
  BY <1>5 DEF TdcReset, MeanInv
<1>6. CASE TdcArm \/ TdcDiscard
  BY <1>1, <1>6 DEF TdcArm, TdcDiscard, NextBlock, Tdcs
<1>7. CASE Reconcile \/ ReadCapture \/ EmitEvent \/ PollBegin \/ PollEnd
  <2>1. pc # "tally" /\ pc' # "tally" /\ UNCHANGED <<tdc, resets>>
    BY <1>7 DEF Reconcile, ReadCapture, EmitEvent, PollBegin, PollEnd, NextBlock
  <2> QED
    BY <1>1, <2>1
<1>8. ASSUME NEW b \in Blocks, NEW c \in Configs, ConfigInput(b, c)
      PROVE  MeanInv'
  BY <1>2, <1>8 DEF ConfigInput
<1>9. ASSUME NEW b \in Blocks, KickPoll(b) PROVE MeanInv'
  BY <1>2, <1>9 DEF KickPoll
<1>10. ASSUME NEW S \in SUBSET Blocks, Edge(S) PROVE MeanInv'
  BY <1>2, <1>10 DEF Edge
<1>11. CASE ExitUnregister \/ ExitGrabPoll \/ ExitWaitPoll \/ UNCHANGED vars
  BY <1>2, <1>11 DEF ExitUnregister, ExitGrabPoll, ExitWaitPoll
<1> QED
  BY <1>3, <1>4, <1>5, <1>6, <1>7, <1>8, <1>9, <1>10, <1>11
  DEF Next, PollWork, Unloaded

\* The mean the tdc file prints lies between its extremes, for all captures.
THEOREM MeanBetweenExtremes == Spec => []TdcMeanBounded
<1>1. Init => MeanInv
  <2>1. 0 * 0 = 0
    OBVIOUS
  <2> QED
    BY <2>1 DEF Init, MeanInv, Summed, NoTdc
<1>2. MeanInv => TdcMeanBounded
  BY DEF MeanInv, Summed, TdcMeanBounded
<1> QED
  BY <1>1, <1>2, TypesInvariant, MeanStep, PTL DEF Spec
=============================================================================
