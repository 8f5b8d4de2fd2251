------------------------- MODULE MaterializationPolicy -------------------------
(***************************************************************************)
(* policy.py: the cost model of one request and the choice among full      *)
(* reuse, a partial cut and recompute.  decide() first looks for the best  *)
(* cut among a handful of candidates and then compares three estimates.    *)
(*                                                                         *)
(* Costs are exact.  One tick is 0.05 ms, confidence is counted in         *)
(* twentieths and queue pressure in tenths, so that every coefficient of   *)
(* the source is a whole number of ticks over the denominator              *)
(* 400 * total; estimates are then rounded to 0.001 ms as the source does. *)
(***************************************************************************)
EXTENDS Integers

CONSTANTS
    Signals,   \* what a request may look like to the policy
    Floors     \* partial_reuse_floor_tokens

AllSignals ==
    [ total      : Nat,        \* reusable_prefix_tokens
      transfer   : Nat,        \* transfer_time_ms, in ticks
      recompute  : Nat,        \* recompute_time_ms, in ticks
      pressure   : Nat,        \* queue_pressure, in tenths
      sensitive  : BOOLEAN,    \* ttft_sensitive
      confidence : 0 .. 20 ]   \* reuse_confidence, in twentieths

ASSUME SignalsAssumption == Signals \subseteq AllSignals
ASSUME FloorsAssumption == Floors \subseteq Nat

VARIABLES
    signals,   \* the request at hand
    floor,     \* the policy's floor
    cut,       \* the partial cut found, 0 when there is none
    outcome,   \* the outcome returned
    stage      \* "arrived", "cut found", "decided"

policyVars == <<signals, floor, cut, outcome, stage>>

Larger(a, b) == IF a >= b THEN a ELSE b
Smaller(a, b) == IF a <= b THEN a ELSE b

\* Python's round() of n / d: to nearest, halves to even.
RoundHalfEven(n, d) ==
    LET q == n \div d
        r == n % d
    IN  IF 2 * r > d \/ (2 * r = d /\ q % 2 = 1) THEN q + 1 ELSE q

-----------------------------------------------------------------------------
(* The cost model.                                                         *)

\* How far reuse is trusted, in thousandths of the reusable prefix.
ConfidentRatio(s) ==
    LET raw == 180 + 36 * s.confidence + (IF s.sensitive THEN 50 ELSE 0)
                   - 6 * Larger(s.pressure - 5, 0)
    IN  Larger(180, Smaller(raw, 920))

ConfidentTokens(s, f) ==
    IF s.total <= f THEN s.total
    ELSE Smaller(s.total, Larger(f, RoundHalfEven(s.total * ConfidentRatio(s), 1000)))

\* Ticks of fixed overhead, over the denominator 10.
ControlOverhead(s, full) ==
    IF full THEN 160 ELSE 120 + (IF s.sensitive THEN 50 ELSE 0) + 3 * s.pressure

\* The estimate for reusing the first `reused` tokens, in ticks over 400 * total:
\* transfer, recomputation of what is not effectively reused, the penalty of
\* the uncertain tail, and the overhead.
ReuseCost(s, f, reused, full) ==
    LET confident == Smaller(reused, ConfidentTokens(s, f))
        uncertain == reused - confident
    IN  400 * s.transfer * reused
        + s.recompute * (400 * s.total - 8 * (50 * confident + uncertain * (25 + s.confidence)))
        + (5 * s.recompute + 2 * s.transfer) * uncertain * (20 - s.confidence)
        + 40 * s.total * ControlOverhead(s, full)

\* The rounded estimates, in thousandths of a millisecond.
RecomputeMicros(s) == 50 * s.recompute
PartialMicros(s, f, reused) ==
    IF reused = 0 THEN RecomputeMicros(s)
    ELSE RoundHalfEven(ReuseCost(s, f, reused, FALSE), 8 * s.total)
FullMicros(s, f) == RoundHalfEven(ReuseCost(s, f, s.total, TRUE), 8 * s.total)

-----------------------------------------------------------------------------
(* The cut.                                                                *)

\* Mutant: nothing keeps a candidate at or above the floor or below the end.
CandidateCutsUnfiltered(s, f) ==
    LET confident == ConfidentTokens(s, f)
        step == Larger(64, f \div 2)
    IN  {f, s.total \div 3, s.total \div 2, (2 * s.total) \div 3,
         Larger(f, confident - step), confident, confident + step}

CandidateCuts(s, f) ==
    LET confident == ConfidentTokens(s, f)
        step == Larger(64, f \div 2)
        raw == {f, Larger(f, s.total \div 3), Larger(f, s.total \div 2),
                Larger(f, (2 * s.total) \div 3), Larger(f, confident - step),
                confident, Smaller(s.total - 1, confident + step)}
    IN  {t \in raw : f <= t /\ t < s.total}

\* A cheapest candidate, any of them when estimates tie: the source takes the
\* first in the iteration order of a set.
PartialCuts(s, f) ==
    IF s.total < f \/ CandidateCuts(s, f) = {} THEN {0}
    ELSE {t \in CandidateCuts(s, f) :
            \A u \in CandidateCuts(s, f) : PartialMicros(s, f, t) <= PartialMicros(s, f, u)}

-----------------------------------------------------------------------------
(* decide().                                                               *)

\* What the policy takes off the transfer time, in ticks: 0.5 ms per unit of
\* queue pressure and 1.5 ms for a latency sensitive request.
Discount(s) == s.pressure + (IF s.sensitive THEN 30 ELSE 0)

\* Mutant: the absolute value instead of the clamp at zero.
AdjustedAbsolute(s) ==
    [s EXCEPT !.transfer = IF @ >= Discount(s) THEN @ - Discount(s) ELSE Discount(s) - @]

Adjusted(s) == [s EXCEPT !.transfer = Larger(0, @ - Discount(s))]

\* Mutant: the penalty grows with confidence.
PenalisedByConfidence(s) == [s EXCEPT !.transfer = @ + 4 * s.confidence]

\* Full reuse pays up to 4 ms more for missing confidence.
Penalised(s) == [s EXCEPT !.transfer = @ + 4 * (20 - s.confidence)]

Chosen(decision, reused) == [decision |-> decision, reused |-> reused]

\* Mutant: a cut that exists is taken, and near ties go to full reuse.
DecisionPreferringReuse(s, f, k) ==
    LET a == Adjusted(s)
        full == FullMicros(Penalised(a), f)
    IN  IF s.total = 0 THEN Chosen("recompute", 0)
        ELSE IF k > 0 THEN Chosen("partial_reuse", k)
        ELSE IF full <= RecomputeMicros(s) + 1000 THEN Chosen("full_reuse", s.total)
        ELSE Chosen("recompute", 0)

\* The first of recompute, full reuse and the cut whose estimate is least.
Decision(s, f, k) ==
    LET a == Adjusted(s)
        full == FullMicros(Penalised(a), f)
        best == Smaller(RecomputeMicros(s), full)
    IN  IF s.total = 0 THEN Chosen("recompute", 0)
        ELSE IF k > 0 /\ PartialMicros(a, f, k) < best THEN Chosen("partial_reuse", k)
        ELSE IF full < RecomputeMicros(s) THEN Chosen("full_reuse", s.total)
        ELSE Chosen("recompute", 0)

PolicyInit ==
    /\ signals \in Signals
    /\ floor \in Floors
    /\ cut = 0
    /\ outcome = Chosen("none", 0)
    /\ stage = "arrived"

FindCut ==
    /\ stage = "arrived"
    /\ signals.total > 0
    /\ cut' \in PartialCuts(Adjusted(signals), floor)
    /\ stage' = "cut found"
    /\ UNCHANGED <<signals, floor, outcome>>

Decide ==
    /\ stage = "cut found" \/ (stage = "arrived" /\ signals.total = 0)
    /\ outcome' = Decision(signals, floor, cut)
    /\ stage' = "decided"
    /\ UNCHANGED <<signals, floor, cut>>

PolicyNext == FindCut \/ Decide

PolicySpec == PolicyInit /\ [][PolicyNext]_policyVars
-----------------------------------------------------------------------------
(* Properties.                                                             *)

Plans == INSTANCE ArrivalPlan WITH
    Words <- {"kvmat", "anchor", "case", "recompute", "request"},
    Anchors <- {}, Cases <- {}, RequestIds <- {}, None <- 0

\* Whatever decide() returns is an outcome the arrival controller is modelled
\* with: a cut is non-empty, at or above the floor and short of the whole prefix.
HonoursContract == stage = "decided" =>
    outcome \in Plans!ControllerOutcomes([floor |-> floor], signals.total)

\* The undiscounted estimate of what was decided, in thousandths of a ms.
UndiscountedMicros ==
    IF outcome.decision = "recompute" THEN RecomputeMicros(signals)
    ELSE IF outcome.decision = "full_reuse" THEN FullMicros(signals, floor)
    ELSE PartialMicros(signals, floor, outcome.reused)

\* The discounts bend a decision only so far: by the undiscounted estimate it is
\* worse than recomputing by at most the discount itself and the tenth of it
\* that the tail penalty charges (and the rounding).
BoundedRegret == stage = "decided" =>
    UndiscountedMicros <= RecomputeMicros(signals) + 55 * Discount(signals) + 2

\* All decisions for a request, over the ties of the cut.
Decisions(s, f) ==
    {Decision(s, f, k) : k \in IF s.total = 0 THEN {0} ELSE PartialCuts(Adjusted(s), f)}

\* A slower link never talks the policy into reuse: when it recomputes, it also
\* recomputes with a longer transfer time and all else equal.
SlowerLinkRecomputes ==
    stage = "decided" /\ outcome.decision = "recompute" =>
        \A k \in {1, 20} : \A d \in Decisions([signals EXCEPT !.transfer = @ + k], floor) :
            d.decision = "recompute"

\* Trust only ever helps reuse: a request whose prefix is reused, in part or in
\* full, is not recomputed when its confidence is higher and all else equal.
TrustKeepsReuse ==
    stage = "decided" /\ outcome.decision # "recompute" /\ signals.confidence < 20 =>
        \A d \in Decisions([signals EXCEPT !.confidence = @ + 1], floor) :
            d.decision # "recompute"
=============================================================================
