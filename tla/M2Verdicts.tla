------------------------------ MODULE M2Verdicts ------------------------------
(***************************************************************************)
(* What the M2 aggregators conclude from matched rounds: each compares the *)
(* controller with the better fixed policy of the same round, metric by    *)
(* metric, and judges the means of the relative deltas.                    *)
(*                                                                         *)
(* A sample maps a metric and a round to the values of the three policies. *)
(* Deltas are integers in Unit-ths; the division is exact when the fixed   *)
(* policies' values divide Unit times the controller's.                    *)
(***************************************************************************)
EXTENDS Integers, Sequences, FiniteSetsExt

CONSTANT Unit

ASSUME UnitAssumption == Unit \in Nat \ {0}

FixedPolicies == <<"always_recompute", "always_full_reuse">>
Policies == FixedPolicies \o <<"controller">>

Metrics == {"ttft", "e2e", "rps"}

\* relative_delta
RelativeDelta(value, baseline) == (Unit * value) \div baseline - Unit

\* The best fixed policy of one round; more requests per second are better.
BestFixed(metric, values) ==
    LET fixed == {values[FixedPolicies[k]] : k \in 1 .. 2} IN
    IF metric = "rps" THEN Max(fixed) ELSE Min(fixed)

Delta(sample, metric, round) ==
    LET values == sample[metric][round] IN
    RelativeDelta(values["controller"], BestFixed(metric, values))

Rounds(sample) == DOMAIN sample["ttft"]

Deltas(sample, metric) == [r \in Rounds(sample) |-> Delta(sample, metric, r)]
Squares(f) == [r \in DOMAIN f |-> f[r] * f[r]]

DeltaSum(sample, metric) == SumFunction(Deltas(sample, metric))

\* The mean delta, in percent, is at most, or at least, a bound.
MeanAtMost(sample, metric, percent) ==
    100 * DeltaSum(sample, metric) <= percent * Unit * Cardinality(Rounds(sample))
MeanAtLeast(sample, metric, percent) ==
    100 * DeltaSum(sample, metric) >= percent * Unit * Cardinality(Rounds(sample))

\* boundary_summary: the class of one workload.
BoundaryPositive(sample) ==
    /\ MeanAtMost(sample, "ttft", -5)
    /\ MeanAtMost(sample, "e2e", 5)
    /\ MeanAtLeast(sample, "rps", -5)

\* passes_promotion_gate, over the single round of a pilot.
Promoted(sample) ==
    /\ MeanAtMost(sample, "ttft", 2)
    /\ MeanAtMost(sample, "e2e", 5)
    /\ MeanAtLeast(sample, "rps", -5)

\* meaningful_positive_5pct of the anchor confirmation.
ConfirmedPositive(sample) == BoundaryPositive(sample)

\* one_sided_upper_95 < 0 over five rounds, with sum S and sum of squares Q of
\* the deltas, the square of the critical value rounded to 4.545, and the
\* square root multiplied out: 4 S^2 > t^2 (5 Q - S^2), S negative.
UpperBelowZero(sample) ==
    LET s == DeltaSum(sample, "ttft")
        q == SumFunction(Squares(Deltas(sample, "ttft")))
    IN  s < 0 /\ 4000 * s * s > 4545 * (5 * q - s * s)

\* Mutant: the mean alone decides.
SignificantByMean(sample) == BoundaryPositive(sample)

\* significant_meaningful_positive
Significant(sample) ==
    /\ MeanAtMost(sample, "ttft", -5)
    /\ UpperBelowZero(sample)
    /\ MeanAtMost(sample, "e2e", 5)
    /\ MeanAtLeast(sample, "rps", -5)
=============================================================================
