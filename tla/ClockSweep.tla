----------------------------- MODULE ClockSweep -----------------------------
(***************************************************************************)
(* A caller that converts the values of an advancing counter through one   *)
(* mapping, and what the results of ClockMath have to do with each other.  *)
(***************************************************************************)
EXTENDS ClockMath

CONSTANTS
    Anchors,     \* anchors of the mapping, both as ART and as nanoseconds
    Intervals    \* periods and halves of outputs

ASSUME SweepAssumption ==
    /\ Intervals \subseteq Nat /\ Anchors \subseteq 0..S64Max

VARIABLES
    model, \* the mapping
    count \* the counter

SweepInit ==
    /\ model \in [art : Anchors, ns : Anchors, hz : Frequencies, ppb : -MaxRate..MaxRate]
    /\ count = 0

Advance ==
    /\ count < Word - 1
    /\ count' = count + 1
    /\ UNCHANGED model

Done == count = Word - 1 /\ UNCHANGED <<model, count>>

SweepNext == Advance \/ Done

Sweep == SweepInit /\ [][SweepNext]_<<model, count>>

\* Whole seconds split off or not, tgpio_rescale and tgpio_rescale_nearest are
\* exact to the unit and to half a unit for every unsigned count, and fail
\* only when the result leaves the signed range.
RescaleExact ==
    \A dst \in {NsecPerSec} \cup Frequencies :
        LET down == Rescale(count, model.hz, dst, FALSE)
            near == Rescale(count, model.hz, dst, TRUE)
            exact == count * dst
        IN /\ down.ok = (exact \div model.hz <= S64Max)
           /\ down.ok => down.val = exact \div model.hz
           /\ near.ok => Abs(2 * near.val * model.hz - 2 * exact) <= model.hz
           /\ ~near.ok => 2 * exact >= (2 * S64Max + 1) * model.hz

\* While a cycle lasts several nanoseconds, a compare value read back as a
\* time is programmed again as the same compare value, on either side of the
\* anchor and at every rate, and an interval likewise: the phase of an output
\* is not disturbed by measuring it.
RoundTrip ==
    LET ns == ArtToNs(model, count)
        delta == ArtCyclesToDelta(model, count)
    IN /\ ns.ok /\ AdjustedToBase(ns.val - model.ns, model.ppb).ok
            => NsToArt(model, ns.val) = Ok(count)
       /\ delta.ok /\ AdjustedToBase(delta.val, model.ppb).ok
            => DeltaToArtCycles(model, delta.val) = Ok(count)

\* An output re-armed too late for its first edge starts on its own grid, at
\* the first edge not before the earliest time that can be programmed.
AlignsOnGrid ==
    \A requested \in Anchors, period \in Intervals \ {0} :
        LET first == AlignFirstEdge(requested, count, period)
        IN count + period <= S64Max
             => /\ first >= count
                /\ (first - requested) % period = 0
                /\ first > requested => first < count + period

\* A software-path wake never comes before the compare programmed at the wake
\* before it, from the priming compare on: the work may reprogram COMPV.
WakesFollowEdges ==
    \A requested \in Anchors, period \in Intervals, duty \in Intervals :
        LET times == OutputTimes(period, duty, TRUE)
            timing == OutputTiming(count, requested, times.val)
            edges == timing.val
            lead == edges.first - edges.wake
        IN times.ok /\ timing.ok
             => /\ edges.prime > count
                /\ edges.wake > edges.prime
                /\ edges.wake + times.val.high >= edges.first
                /\ edges.wake + period >= edges.first + times.val.high
=============================================================================
