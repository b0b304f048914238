----------------------------- MODULE ClockMath -----------------------------
(***************************************************************************)
(* The clock arithmetic of tgpio-ptp-input.c: conversions between ART      *)
(* cycles and nanoseconds at a rate given as cycles per second and parts   *)
(* per billion, and the alignment of output edges.                         *)
(*                                                                         *)
(* Numbers are C's: unsigned ones are naturals below Word, products wrap,  *)
(* and conversions fail instead of leaving the signed range.  NsecPerSec   *)
(* and Word are parameters (10^9 and 2^64 in C), so that small words with  *)
(* short seconds can be checked exhaustively.                              *)
(***************************************************************************)
EXTENDS Integers

CONSTANTS
    NsecPerSec,  \* NSEC_PER_SEC, and the denominator of a rate in ppb
    Word,        \* 2^64
    SafeTime,    \* TGPIO_OUTPUT_SAFE_TIME_NS
    Frequencies, \* ART frequencies that calibration may find
    MaxRate      \* TGPIO_PHC_MAX_ADJ_PPB, either way

ASSUME MathAssumption ==
    /\ NsecPerSec \in Nat \ {0} /\ SafeTime \in Nat
    /\ Word \in Nat /\ Word > NsecPerSec
    /\ Frequencies \subseteq Nat \ {0}
    /\ MaxRate \in Nat /\ 10 * MaxRate <= NsecPerSec

S64Max == Word \div 2 - 1
S64Min == -(Word \div 2)

\* struct tgpio_s64_result and its unsigned twin
Ok(v) == [ok |-> TRUE, val |-> v]
Err == [ok |-> FALSE, val |-> 0]

Wrap(n) == n % Word
Abs(n) == IF n < 0 THEN -n ELSE n
SameSign(n, magnitude) == IF n < 0 THEN -magnitude ELSE magnitude

\* tgpio_add_s64
Add(lhs, rhs) ==
    IF lhs + rhs \in S64Min..S64Max THEN Ok(lhs + rhs) ELSE Err

-----------------------------------------------------------------------------
(* Rescaling a count from one frequency to another *)

\* The quotient, rounded down or to the nearest, halves up
Quotient(n, d, nearest) ==
    LET rest == n % d
    IN n \div d + IF nearest /\ rest >= d - rest THEN 1 ELSE 0

\* Mutation: does not split the count at whole seconds
RescaleUnsplit(count, src, dst, nearest) ==
    LET result == Quotient(Wrap(count * dst), src, nearest)
    IN IF src = 0 \/ dst = 0 THEN Err
       ELSE IF result > S64Max THEN Err ELSE Ok(result)

\* tgpio_rescale_common: whole seconds, then the rest
Rescale(count, src, dst, nearest) ==
    LET seconds == count \div src
        whole == Wrap(seconds * dst)
        rest == Quotient(Wrap((count % src) * dst), src, nearest)
    IN IF src = 0 \/ dst = 0 THEN Err
       ELSE IF seconds > S64Max \div dst \/ rest > S64Max - whole THEN Err
       ELSE Ok(whole + rest)

\* tgpio_cycles_delta_to_ns and tgpio_ns_delta_to_cycles: signed, symmetric
Signed(n, src, dst, nearest) ==
    LET magnitude == Rescale(Abs(n), src, dst, nearest)
    IN IF ~magnitude.ok \/ magnitude.val > S64Max THEN Err
       ELSE Ok(SameSign(n, magnitude.val))

CyclesDeltaToNs(cycles, hz, nearest) == Signed(cycles, hz, NsecPerSec, nearest)
NsDeltaToCycles(ns, hz, nearest) == Signed(ns, NsecPerSec, hz, nearest)

-----------------------------------------------------------------------------
(* A clock that runs ppb parts per billion fast *)

\* tgpio_apply_ppb_to_ns: the correction, split like Rescale and capped
ApplyPpb(ns, ppb) ==
    LET seconds == Abs(ns) \div NsecPerSec
        rest == Wrap((Abs(ns) % NsecPerSec) * Abs(ppb)) \div NsecPerSec
        correction == Wrap(seconds * Abs(ppb) + rest)
        capped == IF correction > S64Max THEN S64Max ELSE correction
    IN IF (ns < 0) # (ppb < 0) THEN -capped ELSE capped

BaseToAdjusted(base, ppb) == Add(base, ApplyPpb(base, ppb))

\* Mutation: takes the correction back off, as if it were small
AdjustedToBaseLinear(adjusted, ppb) ==
    Add(adjusted, -ApplyPpb(adjusted, ppb))

\* tgpio_phc_adjusted_to_base_delta
AdjustedToBase(adjusted, ppb) ==
    LET denominator == NsecPerSec + ppb
        quotient == Abs(adjusted) \div denominator
        rest == Wrap((Abs(adjusted) % denominator) * NsecPerSec)
                  \div denominator
        base == Wrap(quotient * NsecPerSec + rest)
    IN IF denominator <= 0 \/ quotient > S64Max \div NsecPerSec
            \/ base > S64Max
         THEN Err
         ELSE Ok(SameSign(adjusted, base))

-----------------------------------------------------------------------------
(* The mapping of the PHC: a record of an anchor (art, ns) and a rate      *)
(* (hz, ppb), as struct tgpio_phc_params.                                  *)

\* tgpio_phc_art_to_ns
ArtToNs(phc, art) ==
    LET base == CyclesDeltaToNs(art - phc.art, phc.hz, FALSE)
        adjusted == BaseToAdjusted(base.val, phc.ppb)
    IN IF Abs(art - phc.art) > S64Max \/ ~base.ok \/ ~adjusted.ok THEN Err
       ELSE Add(phc.ns, adjusted.val)

\* tgpio_phc_ns_to_art
NsToArt(phc, ns) ==
    LET delta == Add(ns, -phc.ns)
        base == AdjustedToBase(delta.val, phc.ppb)
        cycles == NsDeltaToCycles(base.val, phc.hz, TRUE)
    IN IF ~delta.ok \/ ~base.ok \/ ~cycles.ok
            \/ phc.art + cycles.val \notin 0..(Word - 1)
         THEN Err
         ELSE Ok(phc.art + cycles.val)

\* tgpio_phc_delta_to_art_cycles
DeltaToArtCycles(phc, delta) ==
    LET base == AdjustedToBase(delta, phc.ppb)
    IN IF delta <= 0 THEN Ok(0)
       ELSE IF ~base.ok THEN Err
       ELSE NsDeltaToCycles(base.val, phc.hz, TRUE)

\* tgpio_phc_art_cycles_to_delta_ns
ArtCyclesToDelta(phc, cycles) ==
    LET base == CyclesDeltaToNs(cycles, phc.hz, TRUE)
        adjusted == BaseToAdjusted(base.val, phc.ppb)
    IN IF cycles > S64Max \/ ~base.ok \/ ~adjusted.ok \/ adjusted.val < 0
         THEN Err
         ELSE adjusted

-----------------------------------------------------------------------------
(* Output edges *)

\* Mutation: rounds the number of periods down
AlignFirstEdgeDown(requested, earliest, period) ==
    IF requested >= earliest THEN requested
    ELSE IF period = 0 \/ period > S64Max \/ requested < 0 THEN earliest
    ELSE requested + ((earliest - requested) \div period) * period

\* tgpio_output_align_first_edge: the requested edge or, when it is too soon,
\* the next one on its grid; the earliest time if there is no such edge
AlignFirstEdge(requested, earliest, period) ==
    LET delta == earliest - requested
        periods == delta \div period + (IF delta % period = 0 THEN 0 ELSE 1)
        aligned == Add(requested, Wrap(periods * period))
    IN IF requested >= earliest THEN requested
       ELSE IF \/ period = 0 \/ period > S64Max \/ requested < 0
               \/ periods > S64Max \div period \/ ~aligned.ok
         THEN earliest
         ELSE aligned.val

\* Mutation: the same lead for every interval
LeadTimeFixed(interval) == SafeTime

\* tgpio_output_lead_time_ns
LeadTime(interval) ==
    LET lead == IF SafeTime < interval \div 4 THEN SafeTime
                                              ELSE interval \div 4
    IN IF lead = 0 THEN 1 ELSE lead

\* tgpio_output_times_get, for an explicit duty cycle or half the period
OutputTimes(period, duty, explicit) ==
    LET high == IF explicit THEN duty ELSE period \div 2
    IN IF period \notin 1..S64Max \/ high \notin 1..(period - 1) THEN Err
       ELSE Ok([high |-> high, low |-> period - high])

\* tgpio_prepare_output_timing of a software-path output, in clock time: the
\* first edge, the priming compare and the first wake
OutputTiming(now, requested, times) ==
    LET shorter == IF times.high < times.low THEN times.high ELSE times.low
        lead == LeadTime(shorter)
        earliest == Add(now, 3 * lead)
        first == AlignFirstEdge(requested, earliest.val,
                                times.high + times.low)
    IN IF now < 0 \/ lead > S64Max \div 3 \/ ~earliest.ok THEN Err
       ELSE Ok([first |-> first, prime |-> first - 2 * lead,
                wake |-> first - lead])
=============================================================================
