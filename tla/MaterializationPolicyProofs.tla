---------------------- MODULE MaterializationPolicyProofs ----------------------
(***************************************************************************)
(* Facts about the policy for every request and every floor: decide()      *)
(* honours the contract the arrival controller is modelled with, and a     *)
(* slower link never talks it into reuse.                                  *)
(***************************************************************************)
EXTENDS MaterializationPolicy, TLAPS

-----------------------------------------------------------------------------
(* Arithmetic.                                                             *)

LEMMA DivisionOfInt ==
    ASSUME NEW d \in Nat, d > 0, NEW n \in Int
    PROVE  /\ n \div d \in Int
           /\ n % d \in 0 .. d - 1
           /\ n = d * (n \div d) + (n % d)
<1>1. n % d \in 0 .. d - 1
  BY SMT
<1>2. n \div d \in Int
  BY SMT
<1>3. n = d * (n \div d) + (n % d)
  BY SMT
<1> QED BY <1>1, <1>2, <1>3

LEMMA Scaling ==
    ASSUME NEW a \in Int, NEW b \in Int, NEW k \in Nat, a <= b
    PROVE  k * a <= k * b /\ a * k <= b * k
<1>1. PICK e \in Nat : b = a + e
  <2>1. b - a \in Nat /\ b = a + (b - a)
    OBVIOUS
  <2> QED BY <2>1
<1>2. k * e \in Nat
  OBVIOUS
<1>3. k * b = k * a + k * e
  BY <1>1
<1> QED BY <1>2, <1>3

LEMMA ProductsGrow ==
    ASSUME NEW a \in Nat, NEW b \in Nat, NEW c \in Nat, NEW d \in Nat, a <= b, c <= d
    PROVE  a * c <= b * d
<1>1. a * c <= b * c /\ b * c <= b * d
  BY Scaling
<1> QED BY <1>1

\* The cost of a cut of k tokens, u of them uncertain, with the reused and the
\* uncertain tokens apart.
LEMMA CostIdentity ==
    ASSUME NEW t \in Int, NEW r \in Int, NEW k \in Int, NEW u \in Int, NEW c \in Int,
           NEW n \in Int, NEW o \in Int
    PROVE  400 * t * k + r * (400 * n - 8 * (50 * (k - u) + u * (25 + c)))
             + (5 * r + 2 * t) * u * (20 - c) + 40 * n * o
           = 400 * (t - r) * k + (400 * r * n + 40 * n * o)
             + u * (r * (300 - 13 * c) + t * (40 - 2 * c))
OBVIOUS

\* What a slower link adds.
LEMMA LinkIdentity ==
    ASSUME NEW x \in Int, NEW y \in Int, NEW r \in Int, NEW k \in Int, NEW u \in Int,
           NEW c \in Int, NEW g \in Int
    PROVE  400 * (y - r) * k + g + u * (r * (300 - 13 * c) + y * (40 - 2 * c))
           = 400 * (x - r) * k + g + u * (r * (300 - 13 * c) + x * (40 - 2 * c))
             + (y - x) * (400 * k + u * (40 - 2 * c))
OBVIOUS

LEMMA RoundingIsInt ==
    ASSUME NEW d \in Nat, d > 0, NEW n \in Int
    PROVE  RoundHalfEven(n, d) \in Int
BY DivisionOfInt DEF RoundHalfEven

\* Rounding preserves order.
LEMMA RoundingIsMonotone ==
    ASSUME NEW d \in Nat, d > 0, NEW n \in Int, NEW m \in Int, n <= m
    PROVE  RoundHalfEven(n, d) <= RoundHalfEven(m, d)
<1> DEFINE q(x) == x \div d
           r(x) == x % d
<1>1. /\ q(n) \in Int /\ r(n) \in 0 .. d - 1 /\ n = d * q(n) + r(n)
      /\ q(m) \in Int /\ r(m) \in 0 .. d - 1 /\ m = d * q(m) + r(m)
  BY DivisionOfInt
<1>2. q(n) <= q(m)
  <2> SUFFICES ASSUME q(m) + 1 <= q(n) PROVE FALSE
    BY <1>1
  <2>1. d * (q(m) + 1) <= d * q(n)
    BY <1>1, Scaling
  <2>2. d * (q(m) + 1) = d * q(m) + d
    BY <1>1
  <2> QED BY <1>1, <2>1, <2>2
<1>3. /\ RoundHalfEven(n, d) = IF 2 * r(n) > d \/ (2 * r(n) = d /\ q(n) % 2 = 1)
                               THEN q(n) + 1 ELSE q(n)
      /\ RoundHalfEven(m, d) = IF 2 * r(m) > d \/ (2 * r(m) = d /\ q(m) % 2 = 1)
                               THEN q(m) + 1 ELSE q(m)
  BY DEF RoundHalfEven
<1>4. CASE q(n) < q(m)
  BY <1>1, <1>3, <1>4
<1>5. CASE q(n) = q(m)
  <2>1. r(n) <= r(m)
    BY <1>1, <1>5
  <2> QED BY <1>1, <1>3, <1>5, <2>1
<1> QED BY <1>1, <1>2, <1>4, <1>5

\* A multiple of the divisor goes through rounding, within one.
LEMMA RoundingShifts ==
    ASSUME NEW d \in Nat, d > 0, NEW n \in Int, NEW j \in Int
    PROVE  RoundHalfEven(n + d * j, d) <= RoundHalfEven(n, d) + j + 1
<1>1. PICK q \in Int, r \in 0 .. d - 1 : q = n \div d /\ n = d * q + r
  BY DivisionOfInt
<1>2. PICK m \in Int : m = n + d * j
  OBVIOUS
<1>3. PICK p \in Int, z \in 0 .. d - 1 : p = m \div d /\ m = d * p + z
  BY DivisionOfInt
<1>4. p <= q + j
  <2> SUFFICES ASSUME q + j + 1 <= p PROVE FALSE
    BY <1>1, <1>3
  <2>1. d * (q + j + 1) <= d * p
    BY <1>1, <1>3, Scaling
  <2>2. d * (q + j + 1) = d * q + d * j + d
    BY <1>1
  <2> QED BY <1>1, <1>2, <1>3, <2>1, <2>2
<1>5. RoundHalfEven(n, d) \in {q, q + 1} /\ RoundHalfEven(m, d) \in {p, p + 1}
  BY <1>1, <1>3 DEF RoundHalfEven
<1> QED BY <1>1, <1>2, <1>3, <1>4, <1>5

\* What reaches a multiple of the divisor is rounded to the multiple at least.
LEMMA RoundingReaches ==
    ASSUME NEW d \in Nat, d > 0, NEW n \in Int, NEW j \in Int, d * j <= n
    PROVE  j <= RoundHalfEven(n, d)
<1>1. PICK q \in Int, r \in 0 .. d - 1 : q = n \div d /\ n = d * q + r
  BY DivisionOfInt
<1>2. j <= q
  <2> SUFFICES ASSUME q + 1 <= j PROVE FALSE
    BY <1>1
  <2>1. d * (q + 1) <= d * j
    BY <1>1, Scaling
  <2>2. d * (q + 1) = d * q + d
    BY <1>1
  <2> QED BY <1>1, <2>1, <2>2
<1>3. RoundHalfEven(n, d) \in {q, q + 1}
  BY <1>1 DEF RoundHalfEven
<1> QED BY <1>1, <1>2, <1>3

-----------------------------------------------------------------------------
(* Cuts.                                                                   *)

\* A cut is none at all, or a proper prefix that reaches the floor.
IsCut(k, f, total) == k \in Int /\ (k = 0 \/ (f <= k /\ k < total))

LEMMA ConfidentTokensAreInt ==
    ASSUME NEW s \in AllSignals, NEW f \in Nat
    PROVE  ConfidentTokens(s, f) \in Int
<1>1. ConfidentRatio(s) \in Int
  BY DEF AllSignals, ConfidentRatio, Larger, Smaller
<1>2. s.total \in Nat /\ s.total * ConfidentRatio(s) \in Int
  BY <1>1 DEF AllSignals
<1>3. RoundHalfEven(s.total * ConfidentRatio(s), 1000) \in Int
  BY <1>2, RoundingIsInt
<1> QED BY <1>2, <1>3 DEF ConfidentTokens, Larger, Smaller

LEMMA CandidatesAreCuts ==
    ASSUME NEW s \in AllSignals, NEW f \in Nat, NEW t \in CandidateCuts(s, f)
    PROVE  t \in Int /\ f <= t /\ t < s.total
<1>1. s.total \in Nat /\ ConfidentTokens(s, f) \in Int
  BY ConfidentTokensAreInt DEF AllSignals
<1>2. /\ f \div 2 \in Int /\ s.total \div 3 \in Int
      /\ s.total \div 2 \in Int /\ (2 * s.total) \div 3 \in Int
  BY <1>1
<1> QED BY <1>1, <1>2 DEF CandidateCuts, Larger, Smaller

LEMMA PartialCutsAreCuts ==
    ASSUME NEW s \in AllSignals, NEW f \in Nat, NEW k \in PartialCuts(s, f)
    PROVE  IsCut(k, f, s.total)
BY CandidatesAreCuts DEF PartialCuts, IsCut

LEMMA AdjustedSignals ==
    ASSUME NEW s \in AllSignals
    PROVE  /\ Adjusted(s) \in AllSignals
           /\ Adjusted(s).total = s.total
           /\ Adjusted(s).transfer = Larger(0, s.transfer - Discount(s))
           /\ Adjusted(s).recompute = s.recompute
           /\ Adjusted(s).pressure = s.pressure
           /\ Adjusted(s).sensitive = s.sensitive
           /\ Adjusted(s).confidence = s.confidence
<1>1. Discount(s) \in Nat
  BY DEF AllSignals, Discount
<1> QED BY <1>1 DEF AllSignals, Adjusted, Larger

LEMMA PenalisedSignals ==
    ASSUME NEW s \in AllSignals
    PROVE  /\ Penalised(s) \in AllSignals
           /\ Penalised(s).total = s.total
           /\ Penalised(s).transfer = s.transfer + 4 * (20 - s.confidence)
           /\ Penalised(s).recompute = s.recompute
           /\ Penalised(s).pressure = s.pressure
           /\ Penalised(s).sensitive = s.sensitive
           /\ Penalised(s).confidence = s.confidence
BY DEF AllSignals, Penalised

-----------------------------------------------------------------------------
(* The contract.                                                           *)

PolicyInv ==
    /\ signals \in Signals
    /\ floor \in Floors
    /\ stage \in {"arrived", "cut found", "decided"}
    /\ stage = "arrived" => cut = 0
    /\ signals.total = 0 => cut = 0
    /\ signals.total # 0 /\ stage # "arrived" =>
          cut \in PartialCuts(Adjusted(signals), floor)
    /\ stage = "decided" => outcome = Decision(signals, floor, cut)

LEMMA PolicyInvInit == PolicyInit => PolicyInv
BY DEF PolicyInit, PolicyInv

LEMMA PolicyInvNext == PolicyInv /\ [PolicyNext]_policyVars => PolicyInv'
<1> SUFFICES ASSUME PolicyInv, [PolicyNext]_policyVars PROVE PolicyInv'
  OBVIOUS
<1>1. CASE FindCut
  <2>1. signals.total \in Nat
    BY SignalsAssumption DEF PolicyInv, AllSignals
  <2>2. signals.total > 0 /\ stage' = "cut found"
    BY <1>1, Zenon DEF FindCut
  <2>3. UNCHANGED <<signals, floor>> /\ cut' \in PartialCuts(Adjusted(signals), floor)
    BY <1>1 DEF FindCut
  <2>4. signals.total # 0
    <3>1. \A n \in Nat : n > 0 => n # 0
      OBVIOUS
    <3> QED BY <2>1, <2>2, <3>1, Zenon
  <2> QED BY <2>2, <2>3, <2>4 DEF PolicyInv
<1>2. CASE Decide
  BY <1>2 DEF Decide, PolicyInv
<1>3. CASE UNCHANGED policyVars
  BY <1>3 DEF policyVars, PolicyInv
<1> QED BY <1>1, <1>2, <1>3 DEF PolicyNext

LEMMA PolicyInvHolds == PolicySpec => []PolicyInv
BY PolicyInvInit, PolicyInvNext, PTL DEF PolicySpec

LEMMA DecisionHonoursContract ==
    ASSUME NEW s \in AllSignals, NEW f \in Nat, NEW k, IsCut(k, f, s.total)
    PROVE  Decision(s, f, k) \in Plans!ControllerOutcomes([floor |-> f], s.total)
<1>1. s.total \in Nat
  BY DEF AllSignals
<1>2. CASE s.total = 0
  BY <1>2 DEF Decision, Chosen, Plans!ControllerOutcomes, Plans!Outcome
<1>3. CASE s.total # 0
  <2>1. Decision(s, f, k) \in {Chosen("recompute", 0), Chosen("full_reuse", s.total)}
        \/ (k > 0 /\ Decision(s, f, k) = Chosen("partial_reuse", k))
    BY <1>3 DEF Decision
  <2>2. k > 0 => k \in f .. s.total - 1
    BY <1>1 DEF IsCut
  <2> QED BY <1>3, <2>1, <2>2 DEF Chosen, Plans!ControllerOutcomes, Plans!Outcome
<1> QED BY <1>2, <1>3

\* Whatever decide() returns is an outcome the arrival controller's model admits
\* for the estimate and the floor it was given.
THEOREM PolicyHonoursContract == PolicySpec => []HonoursContract
<1>1. PolicyInv => HonoursContract
  <2> SUFFICES ASSUME PolicyInv, stage = "decided"
               PROVE  outcome \in Plans!ControllerOutcomes([floor |-> floor], signals.total)
    BY DEF HonoursContract
  <2>1. signals \in AllSignals /\ floor \in Nat
    BY SignalsAssumption, FloorsAssumption DEF PolicyInv
  <2>2. IsCut(cut, floor, signals.total)
    BY <2>1, AdjustedSignals, PartialCutsAreCuts DEF PolicyInv, IsCut
  <2> QED BY <2>1, <2>2, DecisionHonoursContract DEF PolicyInv
<1> QED BY PolicyInvHolds, <1>1, PTL

-----------------------------------------------------------------------------
(* The cost of reuse.                                                      *)

Uncertain(s, f, k) == k - Smaller(k, ConfidentTokens(s, f))

\* What an uncertain token costs more than a trusted one.
Weight(s) == s.recompute * (300 - 13 * s.confidence) + s.transfer * (40 - 2 * s.confidence)

Fixed(s, full) == 400 * s.recompute * s.total + 40 * s.total * ControlOverhead(s, full)

LEMMA ConfidentTokensAreNat ==
    ASSUME NEW s \in AllSignals, NEW f \in Nat
    PROVE  ConfidentTokens(s, f) \in Nat /\ (f <= s.total => f <= ConfidentTokens(s, f))
<1>1. s.total \in Nat /\ ConfidentTokens(s, f) \in Int
  BY ConfidentTokensAreInt DEF AllSignals
<1>2. CASE s.total <= f
  BY <1>1, <1>2 DEF ConfidentTokens
<1>3. CASE ~(s.total <= f)
  <2>1. s.total * ConfidentRatio(s) \in Int
    BY <1>1 DEF AllSignals, ConfidentRatio, Larger, Smaller
  <2>2. PICK r \in Int : r = RoundHalfEven(s.total * ConfidentRatio(s), 1000)
    BY <2>1, RoundingIsInt
  <2>3. ConfidentTokens(s, f) = Smaller(s.total, Larger(f, r))
    BY <1>3, <2>2 DEF ConfidentTokens
  <2> QED BY <1>1, <1>3, <2>3 DEF Smaller, Larger
<1> QED BY <1>2, <1>3

LEMMA CostNormal ==
    ASSUME NEW s \in AllSignals, NEW f \in Nat, NEW k \in Nat, NEW full \in BOOLEAN
    PROVE  /\ Uncertain(s, f, k) \in 0 .. k
           /\ Weight(s) \in Nat
           /\ Fixed(s, full) \in Int
           /\ ReuseCost(s, f, k, full) =
                400 * (s.transfer - s.recompute) * k + Fixed(s, full) + Uncertain(s, f, k) * Weight(s)
           /\ ReuseCost(s, f, k, full) \in Int
<1>1. /\ s.transfer \in Nat /\ s.recompute \in Nat /\ s.total \in Nat
      /\ s.confidence \in 0 .. 20
  BY DEF AllSignals
<1>2. ControlOverhead(s, full) \in Int
  BY DEF AllSignals, ControlOverhead
<1>3. PICK u \in 0 .. k : u = Uncertain(s, f, k) /\ Smaller(k, ConfidentTokens(s, f)) = k - u
  BY ConfidentTokensAreNat DEF Uncertain, Smaller
<1>4. Weight(s) \in Nat
  <2>1. 300 - 13 * s.confidence \in Nat /\ 40 - 2 * s.confidence \in Nat
    BY <1>1
  <2>2. \A m, n, x, y \in Nat : m * x + n * y \in Nat
    OBVIOUS
  <2> QED BY <1>1, <2>1, <2>2 DEF Weight
<1>5. Fixed(s, full) \in Int
  BY <1>1, <1>2 DEF Fixed
<1>6. ReuseCost(s, f, k, full) =
        400 * s.transfer * k
        + s.recompute * (400 * s.total - 8 * (50 * (k - u) + u * (25 + s.confidence)))
        + (5 * s.recompute + 2 * s.transfer) * u * (20 - s.confidence)
        + 40 * s.total * ControlOverhead(s, full)
  <2> DEFINE confident == Smaller(k, ConfidentTokens(s, f))
  <2>1. ReuseCost(s, f, k, full) =
          400 * s.transfer * k
          + s.recompute * (400 * s.total
              - 8 * (50 * confident + (k - confident) * (25 + s.confidence)))
          + (5 * s.recompute + 2 * s.transfer) * (k - confident) * (20 - s.confidence)
          + 40 * s.total * ControlOverhead(s, full)
    BY Zenon DEF ReuseCost
  <2>2. k - confident = u /\ confident = k - u
    BY <1>3 DEF Uncertain
  <2> HIDE DEF confident
  <2>3. ReuseCost(s, f, k, full) =
          400 * s.transfer * k
          + s.recompute * (400 * s.total - 8 * (50 * confident + u * (25 + s.confidence)))
          + (5 * s.recompute + 2 * s.transfer) * u * (20 - s.confidence)
          + 40 * s.total * ControlOverhead(s, full)
    BY <2>1, <2>2, SMT
  <2> QED BY <2>2, <2>3, SMT
<1>7. u \in Int /\ k \in Int /\ s.transfer \in Int /\ s.recompute \in Int /\ s.total \in Int
      /\ s.confidence \in Int
  BY <1>1, <1>3
<1>8. ReuseCost(s, f, k, full) =
        400 * (s.transfer - s.recompute) * k + Fixed(s, full) + u * Weight(s)
  <2>1. 400 * s.transfer * k
        + s.recompute * (400 * s.total - 8 * (50 * (k - u) + u * (25 + s.confidence)))
        + (5 * s.recompute + 2 * s.transfer) * u * (20 - s.confidence)
        + 40 * s.total * ControlOverhead(s, full)
        = 400 * (s.transfer - s.recompute) * k
          + (400 * s.recompute * s.total + 40 * s.total * ControlOverhead(s, full))
          + u * (s.recompute * (300 - 13 * s.confidence) + s.transfer * (40 - 2 * s.confidence))
    BY <1>2, <1>7, CostIdentity
  <2> QED BY <1>6, <2>1, Zenon DEF Fixed, Weight
<1>9. 400 * (s.transfer - s.recompute) * k + Fixed(s, full) + u * Weight(s) \in Int
  BY <1>1, <1>3, <1>4, <1>5
<1> QED BY <1>3, <1>4, <1>5, <1>8, <1>9

\* The same request over the same or a slower link, and trusted no more.
Dearer(a, b) ==
    /\ a \in AllSignals /\ b \in AllSignals
    /\ b.total = a.total /\ b.recompute = a.recompute /\ b.pressure = a.pressure
    /\ b.sensitive = a.sensitive
    /\ a.transfer <= b.transfer /\ b.confidence <= a.confidence

LEMMA DearerTrustsLess ==
    ASSUME NEW a, NEW b, Dearer(a, b), NEW f \in Nat
    PROVE  ConfidentTokens(b, f) <= ConfidentTokens(a, f)
<1>1. a \in AllSignals /\ b \in AllSignals /\ a.total \in Nat /\ b.total = a.total
  BY DEF Dearer, AllSignals
<1>2. PICK x \in Int, y \in Int :
        x = ConfidentRatio(a) /\ y = ConfidentRatio(b) /\ y <= x
  BY DEF Dearer, AllSignals, ConfidentRatio, Larger, Smaller
<1>3. /\ a.total * x \in Int /\ a.total * y \in Int
      /\ a.total * y <= a.total * x
  BY <1>1, <1>2, Scaling
<1>4. PICK i \in Int, j \in Int :
        /\ i = RoundHalfEven(a.total * x, 1000) /\ j = RoundHalfEven(a.total * y, 1000)
        /\ j <= i
  <2>1. /\ RoundHalfEven(a.total * x, 1000) \in Int /\ RoundHalfEven(a.total * y, 1000) \in Int
        /\ RoundHalfEven(a.total * y, 1000) <= RoundHalfEven(a.total * x, 1000)
    <3>1. PICK d \in Nat, v \in Int, w \in Int :
            d > 0 /\ d = 1000 /\ v = a.total * y /\ w = a.total * x /\ v <= w
      BY <1>3
    <3>2. RoundHalfEven(v, d) \in Int /\ RoundHalfEven(w, d) \in Int
      BY <3>1, RoundingIsInt
    <3>3. RoundHalfEven(v, d) <= RoundHalfEven(w, d)
      BY <3>1, RoundingIsMonotone
    <3> QED BY <3>1, <3>2, <3>3
  <2> QED BY <2>1
<1>5. /\ ConfidentTokens(a, f) = IF a.total <= f THEN a.total ELSE Smaller(a.total, Larger(f, i))
      /\ ConfidentTokens(b, f) = IF a.total <= f THEN a.total ELSE Smaller(a.total, Larger(f, j))
  BY <1>1, <1>2, <1>4 DEF ConfidentTokens
<1> QED BY <1>1, <1>4, <1>5 DEF Smaller, Larger

LEMMA DearerCostsMore ==
    ASSUME NEW a, NEW b, Dearer(a, b), NEW f \in Nat, NEW k \in Nat, NEW full \in BOOLEAN
    PROVE  /\ ReuseCost(a, f, k, full) \in Int
           /\ ReuseCost(b, f, k, full) \in Int
           /\ ReuseCost(a, f, k, full) <= ReuseCost(b, f, k, full)
<1>0. a \in AllSignals /\ b \in AllSignals
  BY DEF Dearer
<1>1. /\ a \in AllSignals /\ b \in AllSignals
      /\ a.transfer \in Nat /\ b.transfer \in Nat /\ a.transfer <= b.transfer
      /\ a.recompute \in Nat /\ b.recompute = a.recompute
      /\ a.confidence \in 0 .. 20 /\ b.confidence \in 0 .. 20 /\ b.confidence <= a.confidence
  BY DEF Dearer, AllSignals
<1>2. Fixed(b, full) = Fixed(a, full)
  BY DEF Dearer, Fixed, ControlOverhead
<1>3. Weight(a) <= Weight(b)
  <2>1. /\ 300 - 13 * a.confidence \in Nat /\ 40 - 2 * a.confidence \in Nat
        /\ 300 - 13 * b.confidence \in Nat /\ 40 - 2 * b.confidence \in Nat
        /\ 300 - 13 * a.confidence <= 300 - 13 * b.confidence
        /\ 40 - 2 * a.confidence <= 40 - 2 * b.confidence
    BY <1>1
  <2>2. a.recompute * (300 - 13 * a.confidence) <= b.recompute * (300 - 13 * b.confidence)
    BY <1>1, <2>1, ProductsGrow
  <2>3. a.transfer * (40 - 2 * a.confidence) <= b.transfer * (40 - 2 * b.confidence)
    BY <1>1, <2>1, ProductsGrow
  <2>4. \A x, y, v, w \in Nat : x * y \in Nat /\ v * w \in Nat
    OBVIOUS
  <2>5. /\ a.recompute * (300 - 13 * a.confidence) \in Nat
        /\ b.recompute * (300 - 13 * b.confidence) \in Nat
        /\ a.transfer * (40 - 2 * a.confidence) \in Nat
        /\ b.transfer * (40 - 2 * b.confidence) \in Nat
    BY <1>1, <2>1, <2>4
  <2> QED BY <2>2, <2>3, <2>5 DEF Weight
<1>4. Uncertain(a, f, k) <= Uncertain(b, f, k)
  BY <1>1, DearerTrustsLess, ConfidentTokensAreNat DEF Uncertain, Smaller
<1>5. /\ Uncertain(a, f, k) * Weight(a) <= Uncertain(b, f, k) * Weight(b)
      /\ Uncertain(a, f, k) * Weight(a) \in Int /\ Uncertain(b, f, k) * Weight(b) \in Int
  <2>1. /\ Uncertain(a, f, k) \in 0 .. k /\ Uncertain(b, f, k) \in 0 .. k
        /\ Weight(a) \in Nat /\ Weight(b) \in Nat
    BY <1>0, CostNormal, ZenonT(30)
  <2>3. Uncertain(a, f, k) \in Nat /\ Uncertain(b, f, k) \in Nat
    BY <2>1
  <2>2. \A x, y \in Nat : x * y \in Int
    OBVIOUS
  <2> QED BY <1>3, <1>4, <2>1, <2>2, <2>3, ProductsGrow
<1>6. /\ 400 * (a.transfer - a.recompute) * k <= 400 * (b.transfer - b.recompute) * k
      /\ 400 * (a.transfer - a.recompute) * k \in Int
      /\ 400 * (b.transfer - b.recompute) * k \in Int
  <2>1. 400 * (a.transfer - a.recompute) <= 400 * (b.transfer - b.recompute)
    BY <1>1
  <2> QED BY <1>1, <2>1, Scaling
<1>7. /\ ReuseCost(a, f, k, full) \in Int /\ ReuseCost(b, f, k, full) \in Int
      /\ Fixed(a, full) \in Int
      /\ ReuseCost(a, f, k, full) =
           400 * (a.transfer - a.recompute) * k + Fixed(a, full) + Uncertain(a, f, k) * Weight(a)
      /\ ReuseCost(b, f, k, full) =
           400 * (b.transfer - b.recompute) * k + Fixed(a, full) + Uncertain(b, f, k) * Weight(b)
  <2>1. \A s \in {a, b} : ReuseCost(s, f, k, full) \in Int /\ Fixed(s, full) \in Int
    <3>1. ASSUME NEW s \in AllSignals PROVE ReuseCost(s, f, k, full) \in Int
      BY CostNormal
    <3>2. ASSUME NEW s \in AllSignals PROVE Fixed(s, full) \in Int
      BY CostNormal
    <3> QED BY <1>0, <3>1, <3>2
  <2>2. ReuseCost(a, f, k, full) =
          400 * (a.transfer - a.recompute) * k + Fixed(a, full) + Uncertain(a, f, k) * Weight(a)
    BY <1>0, CostNormal
  <2>3. ReuseCost(b, f, k, full) =
          400 * (b.transfer - b.recompute) * k + Fixed(b, full) + Uncertain(b, f, k) * Weight(b)
    BY <1>0, CostNormal
  <2> QED BY <1>2, <2>1, <2>2, <2>3
<1> QED BY <1>5, <1>6, <1>7

LEMMA DearerEstimates ==
    ASSUME NEW a, NEW b, Dearer(a, b), NEW f \in Nat, a.total # 0
    PROVE  /\ FullMicros(a, f) <= FullMicros(b, f)
           /\ \A k \in Nat : PartialMicros(a, f, k) <= PartialMicros(b, f, k)
           /\ RecomputeMicros(b) = RecomputeMicros(a)
           /\ RecomputeMicros(a) \in Int /\ FullMicros(a, f) \in Int /\ FullMicros(b, f) \in Int
           /\ \A k \in Nat : PartialMicros(a, f, k) \in Int /\ PartialMicros(b, f, k) \in Int
<1>1. 8 * a.total \in Nat /\ 8 * a.total > 0 /\ b.total = a.total /\ a.total \in Nat
      /\ a.recompute \in Nat /\ b.recompute = a.recompute
  BY DEF Dearer, AllSignals
<1>2. \A k \in Nat, full \in BOOLEAN :
        /\ ReuseCost(a, f, k, full) \in Int /\ ReuseCost(b, f, k, full) \in Int
        /\ ReuseCost(a, f, k, full) <= ReuseCost(b, f, k, full)
  BY DearerCostsMore
<1>3. \A k \in Nat, full \in BOOLEAN :
        /\ RoundHalfEven(ReuseCost(a, f, k, full), 8 * a.total) \in Int
        /\ RoundHalfEven(ReuseCost(b, f, k, full), 8 * a.total) \in Int
        /\ RoundHalfEven(ReuseCost(a, f, k, full), 8 * a.total)
             <= RoundHalfEven(ReuseCost(b, f, k, full), 8 * a.total)
  BY <1>1, <1>2, RoundingIsInt, RoundingIsMonotone
<1>4. /\ FullMicros(a, f) = RoundHalfEven(ReuseCost(a, f, a.total, TRUE), 8 * a.total)
      /\ FullMicros(b, f) = RoundHalfEven(ReuseCost(b, f, a.total, TRUE), 8 * a.total)
      /\ \A k \in Nat :
           /\ PartialMicros(a, f, k) = IF k = 0 THEN RecomputeMicros(a)
                ELSE RoundHalfEven(ReuseCost(a, f, k, FALSE), 8 * a.total)
           /\ PartialMicros(b, f, k) = IF k = 0 THEN RecomputeMicros(b)
                ELSE RoundHalfEven(ReuseCost(b, f, k, FALSE), 8 * a.total)
  <2>1. 8 * b.total = 8 * a.total
    BY <1>1, Zenon
  <2>2. /\ FullMicros(b, f) = RoundHalfEven(ReuseCost(b, f, a.total, TRUE), 8 * a.total)
        /\ \A k \in Nat : PartialMicros(b, f, k) = IF k = 0 THEN RecomputeMicros(b)
                ELSE RoundHalfEven(ReuseCost(b, f, k, FALSE), 8 * a.total)
    BY <1>1, <2>1 DEF FullMicros, PartialMicros
  <2>3. /\ FullMicros(a, f) = RoundHalfEven(ReuseCost(a, f, a.total, TRUE), 8 * a.total)
        /\ \A k \in Nat : PartialMicros(a, f, k) = IF k = 0 THEN RecomputeMicros(a)
                ELSE RoundHalfEven(ReuseCost(a, f, k, FALSE), 8 * a.total)
    BY DEF FullMicros, PartialMicros
  <2> QED BY <2>2, <2>3
<1>5. RecomputeMicros(b) = RecomputeMicros(a) /\ RecomputeMicros(a) \in Int
  BY <1>1 DEF RecomputeMicros
<1>6. /\ FullMicros(a, f) <= FullMicros(b, f)
      /\ FullMicros(a, f) \in Int /\ FullMicros(b, f) \in Int
  BY <1>1, <1>3, <1>4, Zenon
<1>7. ASSUME NEW k \in Nat
      PROVE  /\ PartialMicros(a, f, k) <= PartialMicros(b, f, k)
             /\ PartialMicros(a, f, k) \in Int /\ PartialMicros(b, f, k) \in Int
  <2>1. CASE k = 0
    <3>1. /\ PartialMicros(a, f, k) = RecomputeMicros(a)
          /\ PartialMicros(b, f, k) = RecomputeMicros(a)
      BY <1>4, <1>5, <2>1, Zenon
    <3> QED BY <1>5, <3>1
  <2>2. CASE k # 0
    <3>1. /\ PartialMicros(a, f, k) = RoundHalfEven(ReuseCost(a, f, k, FALSE), 8 * a.total)
          /\ PartialMicros(b, f, k) = RoundHalfEven(ReuseCost(b, f, k, FALSE), 8 * a.total)
      BY <1>4, <2>2, Zenon
    <3> QED BY <1>3, <3>1, Zenon
  <2> QED BY <2>1, <2>2
<1> QED BY <1>5, <1>6, <1>7

LEMMA DearerAdjusted ==
    ASSUME NEW a, NEW b, Dearer(a, b)
    PROVE  Dearer(Adjusted(a), Adjusted(b)) /\ Dearer(Penalised(a), Penalised(b))
<1>1. Discount(b) = Discount(a) /\ Discount(a) \in Nat
  BY DEF Dearer, AllSignals, Discount
<1>2. Larger(0, a.transfer - Discount(a)) <= Larger(0, b.transfer - Discount(b))
  BY <1>1 DEF Dearer, AllSignals, Larger
<1>3. a \in AllSignals /\ b \in AllSignals
  BY DEF Dearer
<1>4. Dearer(Adjusted(a), Adjusted(b))
  BY <1>2, <1>3, AdjustedSignals DEF Dearer
<1>5. a.transfer + 4 * (20 - a.confidence) <= b.transfer + 4 * (20 - b.confidence)
  BY DEF Dearer, AllSignals
<1>6. Dearer(Penalised(a), Penalised(b))
  BY <1>3, <1>5, PenalisedSignals DEF Dearer
<1> QED BY <1>4, <1>6

-----------------------------------------------------------------------------
(* Slower links.                                                           *)

\* The same request over the same or a slower link.
Slower(a, b) ==
    /\ a \in AllSignals /\ b \in AllSignals
    /\ b.total = a.total /\ b.recompute = a.recompute /\ b.pressure = a.pressure
    /\ b.sensitive = a.sensitive /\ b.confidence = a.confidence
    /\ a.transfer <= b.transfer

LEMMA SlowerSameCuts ==
    ASSUME NEW a, NEW b, Slower(a, b), NEW f \in Nat
    PROVE  /\ ConfidentTokens(b, f) = ConfidentTokens(a, f)
           /\ CandidateCuts(b, f) = CandidateCuts(a, f)
           /\ \A full \in BOOLEAN : ControlOverhead(b, full) = ControlOverhead(a, full)
<1>1. ConfidentTokens(b, f) = ConfidentTokens(a, f)
  BY DEF Slower, ConfidentTokens, ConfidentRatio
<1> QED BY <1>1 DEF Slower, CandidateCuts, ControlOverhead

LEMMA SlowerIsDearer ==
    ASSUME NEW a, NEW b, Slower(a, b)
    PROVE  Dearer(a, b)
BY DEF Slower, Dearer, AllSignals

LEMMA SlowerEstimates ==
    ASSUME NEW a, NEW b, Slower(a, b), NEW f \in Nat, a.total # 0
    PROVE  /\ FullMicros(a, f) <= FullMicros(b, f)
           /\ \A k \in Nat : PartialMicros(a, f, k) <= PartialMicros(b, f, k)
           /\ RecomputeMicros(b) = RecomputeMicros(a)
           /\ RecomputeMicros(a) \in Int /\ FullMicros(a, f) \in Int /\ FullMicros(b, f) \in Int
           /\ \A k \in Nat : PartialMicros(a, f, k) \in Int /\ PartialMicros(b, f, k) \in Int
BY SlowerIsDearer, DearerEstimates

LEMMA SlowerAdjusted ==
    ASSUME NEW a, NEW b, Slower(a, b)
    PROVE  Slower(Adjusted(a), Adjusted(b)) /\ Slower(Penalised(a), Penalised(b))
<1>1. a \in AllSignals /\ b \in AllSignals /\ b.confidence = a.confidence
  BY DEF Slower
<1>2. Dearer(Adjusted(a), Adjusted(b)) /\ Dearer(Penalised(a), Penalised(b))
  BY SlowerIsDearer, DearerAdjusted
<1>3. /\ Adjusted(b).confidence = Adjusted(a).confidence
      /\ Penalised(b).confidence = Penalised(a).confidence
  BY <1>1, AdjustedSignals, PenalisedSignals
<1> QED BY <1>2, <1>3 DEF Slower, Dearer

\* Recompute is decided exactly when neither full reuse nor the cut is cheaper.
RecomputeIsBest(s, f, k) ==
    /\ RecomputeMicros(s) <= FullMicros(Penalised(Adjusted(s)), f)
    /\ k > 0 => RecomputeMicros(s) <= PartialMicros(Adjusted(s), f, k)

LEMMA EstimatesAreInt ==
    ASSUME NEW s \in AllSignals, NEW f \in Nat, s.total # 0
    PROVE  /\ RecomputeMicros(s) \in Int /\ FullMicros(Penalised(Adjusted(s)), f) \in Int
           /\ \A k \in Nat : PartialMicros(Adjusted(s), f, k) \in Int
<1>1. /\ Adjusted(s) \in AllSignals /\ Adjusted(s).total # 0
      /\ Penalised(Adjusted(s)) \in AllSignals /\ Penalised(Adjusted(s)).total # 0
  BY AdjustedSignals, PenalisedSignals
<1>2. \A x \in AllSignals : Slower(x, x)
  BY DEF Slower, AllSignals
<1> QED BY <1>1, <1>2, SlowerEstimates

LEMMA DecisionRecomputes ==
    ASSUME NEW s \in AllSignals, NEW f \in Nat, s.total # 0, NEW k \in Nat
    PROVE  Decision(s, f, k).decision = "recompute" <=> RecomputeIsBest(s, f, k)
<1> DEFINE rec == RecomputeMicros(s)
           full == FullMicros(Penalised(Adjusted(s)), f)
           part == PartialMicros(Adjusted(s), f, k)
<1>1. rec \in Int /\ full \in Int /\ part \in Int
  BY EstimatesAreInt
<1>2. Decision(s, f, k) =
        IF k > 0 /\ part < Smaller(rec, full) THEN Chosen("partial_reuse", k)
        ELSE IF full < rec THEN Chosen("full_reuse", s.total)
        ELSE Chosen("recompute", 0)
  BY DEF Decision
<1>3. RecomputeIsBest(s, f, k) <=> rec <= full /\ (k > 0 => rec <= part)
  BY DEF RecomputeIsBest
<1> HIDE DEF rec, full, part
<1> QED BY <1>1, <1>2, <1>3 DEF Smaller, Chosen

\* Two cuts that tie, and the cuts of the same request over a slower link.
LEMMA SlowerDecision ==
    ASSUME NEW a, NEW b, Slower(a, b), NEW f \in Nat, a.total # 0,
           NEW k \in PartialCuts(Adjusted(a), f), NEW l \in PartialCuts(Adjusted(b), f),
           Decision(a, f, k).decision = "recompute"
    PROVE  Decision(b, f, l).decision = "recompute"
<1>1. /\ a \in AllSignals /\ b \in AllSignals /\ b.total # 0
      /\ Slower(Adjusted(a), Adjusted(b)) /\ Adjusted(a).total # 0
      /\ Slower(Penalised(Adjusted(a)), Penalised(Adjusted(b)))
      /\ Penalised(Adjusted(a)).total # 0
  <2>1. a \in AllSignals /\ b \in AllSignals /\ b.total = a.total
    BY DEF Slower
  <2>2. Adjusted(a) \in AllSignals /\ Adjusted(a).total = a.total
    BY <2>1, AdjustedSignals
  <2>3. Penalised(Adjusted(a)).total = a.total
    BY <2>2, PenalisedSignals
  <2>4. Slower(Adjusted(a), Adjusted(b))
    BY SlowerAdjusted
  <2>5. Slower(Penalised(Adjusted(a)), Penalised(Adjusted(b)))
    BY <2>4, SlowerAdjusted
  <2> QED BY <2>1, <2>2, <2>3, <2>4, <2>5
<1>2. k \in Nat /\ l \in Nat
  BY <1>1, AdjustedSignals, PartialCutsAreCuts DEF IsCut
<1>3. RecomputeIsBest(a, f, k)
  BY <1>1, <1>2, DecisionRecomputes
<1>4. RecomputeMicros(b) = RecomputeMicros(a) /\ RecomputeMicros(a) \in Int
  BY <1>1, SlowerEstimates
<1>5. RecomputeMicros(b) <= FullMicros(Penalised(Adjusted(b)), f)
  BY <1>1, <1>3, <1>4, SlowerEstimates DEF RecomputeIsBest
<1>6. ASSUME l > 0
      PROVE  RecomputeMicros(b) <= PartialMicros(Adjusted(b), f, l)
  <2>1. CandidateCuts(Adjusted(b), f) = CandidateCuts(Adjusted(a), f)
        /\ Adjusted(b).total = Adjusted(a).total
    BY <1>1, SlowerSameCuts DEF Slower
  <2>2. l \in CandidateCuts(Adjusted(a), f)
        /\ PartialMicros(Adjusted(a), f, k) <= PartialMicros(Adjusted(a), f, l)
    BY <1>6, <2>1 DEF PartialCuts
  <2>3. PartialMicros(Adjusted(a), f, 0) = RecomputeMicros(a)
    BY <1>1, AdjustedSignals DEF PartialMicros, RecomputeMicros
  <2>4. RecomputeMicros(a) <= PartialMicros(Adjusted(a), f, k)
    BY <1>2, <1>3, <1>4, <2>3 DEF RecomputeIsBest
  <2>5. /\ PartialMicros(Adjusted(a), f, l) <= PartialMicros(Adjusted(b), f, l)
        /\ PartialMicros(Adjusted(a), f, k) \in Int
        /\ PartialMicros(Adjusted(a), f, l) \in Int /\ PartialMicros(Adjusted(b), f, l) \in Int
    BY <1>1, <1>2, SlowerEstimates
  <2> QED BY <1>4, <2>2, <2>4, <2>5
<1>7. RecomputeIsBest(b, f, l)
  BY <1>5, <1>6 DEF RecomputeIsBest
<1> QED BY <1>1, <1>2, <1>7, DecisionRecomputes

\* A request that is recomputed is also recomputed over a slower link.
THEOREM SlowLinksRecompute == PolicySpec => []SlowerLinkRecomputes
<1>1. PolicyInv => SlowerLinkRecomputes
  <2> SUFFICES ASSUME PolicyInv, stage = "decided", outcome.decision = "recompute",
                      NEW n \in {1, 20},
                      NEW d \in Decisions([signals EXCEPT !.transfer = @ + n], floor)
               PROVE  d.decision = "recompute"
    BY DEF SlowerLinkRecomputes
  <2> DEFINE slow == [signals EXCEPT !.transfer = @ + n]
  <2>1. signals \in AllSignals /\ floor \in Nat
    BY SignalsAssumption, FloorsAssumption DEF PolicyInv
  <2>2. Slower(signals, slow)
    BY <2>1 DEF Slower, AllSignals
  <2>3. slow.total = signals.total
    BY <2>2 DEF Slower
  <2>4. PICK l \in IF slow.total = 0 THEN {0} ELSE PartialCuts(Adjusted(slow), floor) :
               d = Decision(slow, floor, l)
    BY DEF Decisions
  <2> HIDE DEF slow
  <2>5. CASE signals.total = 0
    BY <2>3, <2>4, <2>5 DEF Decision, Chosen
  <2>6. CASE signals.total # 0
    <3>1. /\ cut \in PartialCuts(Adjusted(signals), floor)
          /\ outcome = Decision(signals, floor, cut)
      BY <2>6 DEF PolicyInv
    <3> QED BY <2>1, <2>2, <2>3, <2>4, <2>6, <3>1, SlowerDecision
  <2> QED BY <2>5, <2>6
<1> QED BY PolicyInvHolds, <1>1, PTL

-----------------------------------------------------------------------------
(* The regret.                                                             *)

LEMMA DiscountBoundsCost ==
    ASSUME NEW a, NEW b, Slower(a, b), NEW f \in Nat, NEW k \in 0 .. a.total,
           NEW full \in BOOLEAN, NEW D \in Nat, b.transfer <= a.transfer + D
    PROVE  ReuseCost(b, f, k, full) <= ReuseCost(a, f, k, full) + 8 * a.total * (55 * D)
<1>0. a \in AllSignals /\ b \in AllSignals /\ k \in Nat
  BY DEF Slower, AllSignals
<1>1. PICK x \in Nat, y \in Nat, r \in Nat, c \in 0 .. 20, n \in Nat :
        /\ x = a.transfer /\ y = b.transfer /\ r = a.recompute /\ r = b.recompute
        /\ c = a.confidence /\ c = b.confidence /\ n = a.total
        /\ x <= y /\ y <= x + D
  BY DEF Slower, AllSignals
<1>2. PICK u \in 0 .. k : u = Uncertain(a, f, k)
  BY <1>0, CostNormal
<1>3. Uncertain(b, f, k) = u
  BY <1>2, SlowerSameCuts DEF Uncertain
<1>4. PICK g \in Int : g = Fixed(a, full)
  BY <1>0, CostNormal
<1>5. Fixed(b, full) = g
  BY <1>4, SlowerSameCuts DEF Slower, Fixed
<1>6. /\ Weight(a) = r * (300 - 13 * c) + x * (40 - 2 * c)
      /\ Weight(b) = r * (300 - 13 * c) + y * (40 - 2 * c)
  BY <1>1 DEF Weight
<1>7. ReuseCost(a, f, k, full) =
        400 * (x - r) * k + g + u * (r * (300 - 13 * c) + x * (40 - 2 * c))
  <2>1. ReuseCost(a, f, k, full) =
          400 * (a.transfer - a.recompute) * k + Fixed(a, full) + Uncertain(a, f, k) * Weight(a)
    BY <1>0, CostNormal
  <2> QED BY <1>1, <1>2, <1>4, <1>6, <2>1, ZenonT(30)
<1>8. ReuseCost(b, f, k, full) =
        400 * (y - r) * k + g + u * (r * (300 - 13 * c) + y * (40 - 2 * c))
  BY <1>0, <1>1, <1>3, <1>5, <1>6, CostNormal
<1>9. ReuseCost(b, f, k, full) =
        ReuseCost(a, f, k, full) + (y - x) * (400 * k + u * (40 - 2 * c))
  BY <1>1, <1>2, <1>4, <1>7, <1>8, LinkIdentity
<1>10. (y - x) * (400 * k + u * (40 - 2 * c)) <= D * (440 * n)
  <2>1. u * (40 - 2 * c) <= k * 40 /\ u * (40 - 2 * c) \in Nat
    <3>1. u \in Nat /\ u <= k /\ 40 - 2 * c \in Nat /\ 40 - 2 * c <= 40
      BY <1>0, <1>1, <1>2
    <3> QED BY <1>0, <3>1, ProductsGrow
  <2>2. PICK v \in Nat : v = 400 * k + u * (40 - 2 * c) /\ v <= 440 * n
    BY <1>0, <1>1, <2>1
  <2>3. y - x \in Nat /\ y - x <= D /\ 440 * n \in Nat
    BY <1>1
  <2>4. (y - x) * v <= D * (440 * n)
    BY <2>2, <2>3, ProductsGrow
  <2> QED BY <2>2, <2>4
<1>11. D * (440 * n) = 8 * n * (55 * D)
  BY <1>1
<1>12. /\ ReuseCost(a, f, k, full) \in Int /\ ReuseCost(b, f, k, full) \in Int
       /\ (y - x) * (400 * k + u * (40 - 2 * c)) \in Int /\ 8 * n * (55 * D) \in Int
  <2>1. ReuseCost(a, f, k, full) \in Int
    BY <1>0, CostNormal
  <2>2. ReuseCost(b, f, k, full) \in Int
    BY <1>0, CostNormal
  <2> QED BY <1>0, <1>1, <1>2, <2>1, <2>2
<1>13. a.total = n
  BY <1>1
<1> QED BY <1>9, <1>10, <1>11, <1>12, <1>13

LEMMA DiscountBoundsEstimates ==
    ASSUME NEW a, NEW b, Slower(a, b), NEW f \in Nat, NEW D \in Nat,
           b.transfer <= a.transfer + D, a.total # 0
    PROVE  /\ FullMicros(b, f) <= FullMicros(a, f) + 55 * D + 1
           /\ \A k \in 1 .. a.total : PartialMicros(b, f, k) <= PartialMicros(a, f, k) + 55 * D + 1
<1>1. PICK d \in Nat, j \in Int :
        d > 0 /\ d = 8 * a.total /\ d = 8 * b.total /\ j = 55 * D
  BY DEF Slower, AllSignals
<1>2. a.total \in Nat /\ b.total = a.total /\ a.total \in 0 .. a.total
  BY DEF Slower, AllSignals
<1>3. ASSUME NEW k \in 0 .. a.total, NEW full \in BOOLEAN
      PROVE  RoundHalfEven(ReuseCost(b, f, k, full), d)
               <= RoundHalfEven(ReuseCost(a, f, k, full), d) + 55 * D + 1
  <2>0. k \in Nat
    BY <1>2
  <2>1. PICK n \in Int, m \in Int : n = ReuseCost(a, f, k, full) /\ m = ReuseCost(b, f, k, full)
    BY <2>0, SlowerIsDearer, DearerCostsMore
  <2>2. m <= n + d * j
    BY <1>1, <2>1, DiscountBoundsCost
  <2>3. n + d * j \in Int
    BY <1>1
  <2>4. RoundHalfEven(m, d) <= RoundHalfEven(n + d * j, d)
    BY <1>1, <2>2, <2>3, RoundingIsMonotone
  <2>5. RoundHalfEven(n + d * j, d) <= RoundHalfEven(n, d) + j + 1
    BY <1>1, RoundingShifts
  <2>6. /\ RoundHalfEven(m, d) \in Int /\ RoundHalfEven(n, d) \in Int
        /\ RoundHalfEven(n + d * j, d) \in Int
    BY <1>1, <2>3, RoundingIsInt
  <2>7. RoundHalfEven(m, d) <= RoundHalfEven(n, d) + j + 1
    BY <1>1, <2>4, <2>5, <2>6
  <2> QED BY <1>1, <2>1, <2>7
<1>4. /\ FullMicros(a, f) = RoundHalfEven(ReuseCost(a, f, a.total, TRUE), d)
      /\ FullMicros(b, f) = RoundHalfEven(ReuseCost(b, f, a.total, TRUE), d)
  BY <1>1, <1>2 DEF FullMicros
<1>5. ASSUME NEW k \in 1 .. a.total
      PROVE  /\ PartialMicros(a, f, k) = RoundHalfEven(ReuseCost(a, f, k, FALSE), d)
             /\ PartialMicros(b, f, k) = RoundHalfEven(ReuseCost(b, f, k, FALSE), d)
  <2>1. k # 0
    BY <1>2
  <2> QED BY <1>1, <2>1 DEF PartialMicros
<1>6. FullMicros(b, f) <= FullMicros(a, f) + 55 * D + 1
  BY <1>2, <1>3, <1>4
<1>7. ASSUME NEW k \in 1 .. a.total
      PROVE  PartialMicros(b, f, k) <= PartialMicros(a, f, k) + 55 * D + 1
  <2>1. k \in 0 .. a.total
    BY <1>2
  <2> QED BY <1>3, <1>5, <2>1
<1> QED BY <1>6, <1>7

\* What is decided costs, without the discounts, little more than recomputing.
THEOREM RegretIsBounded == PolicySpec => []BoundedRegret
<1>1. PolicyInv => BoundedRegret
  <2> SUFFICES ASSUME PolicyInv, stage = "decided"
               PROVE  UndiscountedMicros <= RecomputeMicros(signals) + 55 * Discount(signals) + 2
    BY DEF BoundedRegret
  <2> DEFINE s == signals
             a == Adjusted(signals)
             full == FullMicros(Penalised(a), floor)
  <2>1. s \in AllSignals /\ floor \in Nat /\ s.total \in Nat /\ outcome = Decision(s, floor, cut)
    BY SignalsAssumption, FloorsAssumption DEF PolicyInv, AllSignals
  <2>2. Discount(s) \in Nat /\ RecomputeMicros(s) \in Int
    BY <2>1 DEF AllSignals, Discount, RecomputeMicros
  <2>3. CASE outcome.decision = "recompute"
    BY <2>2, <2>3 DEF UndiscountedMicros
  <2>4. CASE outcome.decision # "recompute"
    <3>1. s.total # 0
      BY <2>1, <2>4 DEF Decision, Chosen
    <3>2. /\ a \in AllSignals /\ Slower(a, s) /\ a.total = s.total
          /\ s.transfer <= a.transfer + Discount(s)
      BY <2>1, <2>2, AdjustedSignals DEF Slower, AllSignals, Larger
    <3>3. Dearer(a, Penalised(a))
      BY <3>2, PenalisedSignals DEF Dearer, AllSignals
    <3>4. /\ FullMicros(a, floor) <= full /\ FullMicros(a, floor) \in Int /\ full \in Int
          /\ \A k \in Nat : PartialMicros(a, floor, k) \in Int
      BY <2>1, <3>1, <3>2, <3>3, DearerEstimates
    <3>5. FullMicros(s, floor) \in Int /\ \A k \in Nat : PartialMicros(s, floor, k) \in Int
      BY <2>1, <3>1, <3>2, SlowerEstimates
    <3>6. /\ FullMicros(s, floor) <= FullMicros(a, floor) + 55 * Discount(s) + 1
          /\ \A k \in 1 .. s.total :
               PartialMicros(s, floor, k) <= PartialMicros(a, floor, k) + 55 * Discount(s) + 1
      BY <2>1, <2>2, <3>1, <3>2, DiscountBoundsEstimates
    <3>7. IsCut(cut, floor, s.total)
      BY <2>1, AdjustedSignals, PartialCutsAreCuts DEF PolicyInv, IsCut
    <3>8. \/ /\ outcome = Chosen("partial_reuse", cut) /\ cut > 0
             /\ PartialMicros(a, floor, cut) < Smaller(RecomputeMicros(s), full)
          \/ /\ outcome = Chosen("full_reuse", s.total)
             /\ full < RecomputeMicros(s)
      BY <2>1, <2>4, <3>1 DEF Decision, Chosen
    <3>9. CASE outcome = Chosen("full_reuse", s.total) /\ full < RecomputeMicros(s)
      <4>1. UndiscountedMicros = FullMicros(s, floor)
        BY <3>9 DEF UndiscountedMicros, Chosen
      <4> HIDE DEF full, a
      <4> QED BY <2>2, <3>4, <3>5, <3>6, <3>9, <4>1
    <3>10. CASE /\ outcome = Chosen("partial_reuse", cut) /\ cut > 0
                /\ PartialMicros(a, floor, cut) < Smaller(RecomputeMicros(s), full)
      <4>1. UndiscountedMicros = PartialMicros(s, floor, cut)
        BY <3>10 DEF UndiscountedMicros, Chosen
      <4>2. cut \in Nat /\ cut \in 1 .. s.total
        BY <2>1, <3>7, <3>10 DEF IsCut
      <4>3. PartialMicros(a, floor, cut) < RecomputeMicros(s) /\ PartialMicros(a, floor, cut) \in Int
        <5> HIDE DEF full, a
        <5> QED BY <2>2, <3>4, <3>10, <4>2 DEF Smaller
      <4> HIDE DEF full, a
      <4> QED BY <2>2, <3>5, <3>6, <4>1, <4>2, <4>3
    <3> QED BY <3>8, <3>9, <3>10
  <2> QED BY <2>3, <2>4
<1> QED BY PolicyInvHolds, <1>1, PTL

-----------------------------------------------------------------------------
(* Trust.                                                                  *)

\* Cheaper before rounding is no dearer after it.
LEMMA CheaperPartial ==
    ASSUME NEW s \in AllSignals, s.total # 0, NEW f \in Nat,
           NEW k \in Nat \ {0}, NEW m \in Nat \ {0},
           ReuseCost(s, f, m, FALSE) <= ReuseCost(s, f, k, FALSE)
    PROVE  PartialMicros(s, f, m) <= PartialMicros(s, f, k)
<1>1. PICK d \in Nat : d > 0 /\ d = 8 * s.total
  BY DEF AllSignals
<1>2. PICK x \in Int : x = ReuseCost(s, f, m, FALSE)
  BY CostNormal, ZenonT(30)
<1>3. PICK y \in Int : y = ReuseCost(s, f, k, FALSE)
  BY CostNormal, ZenonT(30)
<1>4. RoundHalfEven(x, d) <= RoundHalfEven(y, d)
  BY <1>1, <1>2, <1>3, RoundingIsMonotone
<1>5. PartialMicros(s, f, m) = RoundHalfEven(x, d) /\ PartialMicros(s, f, k) = RoundHalfEven(y, d)
  BY <1>1, <1>2, <1>3 DEF PartialMicros
<1> QED BY <1>4, <1>5

\* Reuse that saves nothing on a token is estimated no cheaper than recompute.
LEMMA NoSavingNoReuse ==
    ASSUME NEW s \in AllSignals, s.total # 0, NEW f \in Nat, NEW k \in Nat \ {0},
           400 * s.recompute * s.total <= ReuseCost(s, f, k, FALSE)
    PROVE  RecomputeMicros(s) <= PartialMicros(s, f, k)
<1>1. PICK d \in Nat, j \in Int :
        /\ d > 0 /\ d = 8 * s.total /\ j = 50 * s.recompute
        /\ d * j = 400 * s.recompute * s.total
  <2>1. \A n, r \in Nat : (8 * n) * (50 * r) = 400 * r * n
    OBVIOUS
  <2> QED BY <2>1 DEF AllSignals
<1>2. PICK x \in Int : x = ReuseCost(s, f, k, FALSE)
  BY CostNormal, ZenonT(30)
<1>3. j <= RoundHalfEven(x, d)
  BY <1>1, <1>2, RoundingReaches
<1> QED BY <1>1, <1>2, <1>3 DEF PartialMicros, RecomputeMicros

\* A cost that is at least its fixed part is no saving.
LEMMA FixedIsRecompute ==
    ASSUME NEW s \in AllSignals
    PROVE  400 * s.recompute * s.total <= Fixed(s, FALSE)
<1>1. PICK n \in Nat, r \in Nat, o \in Nat :
        n = s.total /\ r = s.recompute /\ o = ControlOverhead(s, FALSE)
  BY DEF AllSignals, ControlOverhead
<1>2. Fixed(s, FALSE) = 400 * r * n + 40 * n * o /\ 400 * s.recompute * s.total = 400 * r * n
  BY <1>1 DEF Fixed
<1>3. \A v, y, z \in Nat : 400 * v * y \in Int /\ 40 * y * z \in Nat
  OBVIOUS
<1>4. 400 * r * n \in Int /\ 40 * n * o \in Nat
  BY <1>3
<1>5. \A v \in Int, y \in Nat : v <= v + y
  OBVIOUS
<1> QED BY <1>2, <1>4, <1>5, ZenonT(30)

\* When a request is trusted more and a cut paid off before, a cut pays off
\* still, although the candidates move with the trust: reuse gets cheaper up to
\* the confident prefix, and beyond it the cost runs straight up or straight
\* down to the end of the prefix.
LEMMA TrustFindsCut ==
    ASSUME NEW a, NEW b, Dearer(a, b), NEW f \in Nat, a.total # 0,
           NEW k \in CandidateCuts(b, f), PartialMicros(b, f, k) < RecomputeMicros(b)
    PROVE  \E m \in CandidateCuts(a, f) : PartialMicros(a, f, m) < RecomputeMicros(a)
<1>1. /\ a \in AllSignals /\ b \in AllSignals /\ b.total = a.total
      /\ a.total \in Nat /\ a.transfer \in Nat /\ a.recompute \in Nat
      /\ RecomputeMicros(a) = RecomputeMicros(b) /\ RecomputeMicros(a) \in Int
  BY DEF Dearer, AllSignals, RecomputeMicros
<1>2. k \in Nat /\ f <= k /\ k < a.total
  BY <1>1, CandidatesAreCuts
<1>3. k # 0
  <2> SUFFICES ASSUME k = 0 PROVE FALSE
    OBVIOUS
  <2>1. PartialMicros(b, f, k) = RecomputeMicros(b)
    BY DEF PartialMicros
  <2> QED BY <1>1, <2>1
<1>4. /\ PartialMicros(a, f, k) < RecomputeMicros(a)
      /\ PartialMicros(a, f, k) \in Int
  BY <1>1, <1>2, DearerEstimates
<1>5. PICK x \in Nat, y \in Nat :
        /\ x = ConfidentTokens(b, f) /\ y = ConfidentTokens(a, f)
        /\ x <= y /\ f <= y /\ y <= a.total
  <2>1. ConfidentTokens(b, f) \in Nat
    BY <1>1, ConfidentTokensAreNat
  <2>2. ConfidentTokens(a, f) \in Nat /\ f <= ConfidentTokens(a, f)
    BY <1>1, <1>2, ConfidentTokensAreNat
  <2>3. ConfidentTokens(b, f) <= ConfidentTokens(a, f)
    BY DearerTrustsLess
  <2>4. ConfidentTokens(a, f) <= a.total
    <3>1. a.total * ConfidentRatio(a) \in Int
      BY <1>1 DEF AllSignals, ConfidentRatio, Larger, Smaller
    <3>2. PICK r \in Int : r = RoundHalfEven(a.total * ConfidentRatio(a), 1000)
      BY <3>1, RoundingIsInt
    <3> QED BY <1>1, <3>2 DEF ConfidentTokens, Smaller, Larger
  <2> QED BY <2>1, <2>2, <2>3, <2>4
<1> DEFINE cost(m) == ReuseCost(a, f, m, FALSE)
<1>6. PICK g \in Int, w \in Nat, p \in Int :
        /\ 400 * a.recompute * a.total <= g /\ 400 * a.recompute * a.total \in Int
        /\ \A m \in Nat : cost(m) = p * m + g + Uncertain(a, f, m) * w
  <2>1. ASSUME NEW full \in BOOLEAN
        PROVE  /\ Fixed(a, full) \in Int /\ Weight(a) \in Nat
               /\ \A m \in Nat : ReuseCost(a, f, m, full) =
                    400 * (a.transfer - a.recompute) * m + Fixed(a, full)
                    + Uncertain(a, f, m) * Weight(a)
    <3>1. Fixed(a, full) \in Int /\ Weight(a) \in Nat
      BY <1>1, <1>2, CostNormal
    <3>2. ASSUME NEW m \in Nat
          PROVE  ReuseCost(a, f, m, full) =
                   400 * (a.transfer - a.recompute) * m + Fixed(a, full)
                   + Uncertain(a, f, m) * Weight(a)
      BY <1>1, CostNormal
    <3> QED BY <3>1, <3>2
  <2>2. 400 * (a.transfer - a.recompute) \in Int /\ 400 * a.recompute * a.total \in Int
    BY <1>1
  <2>3. 400 * a.recompute * a.total <= Fixed(a, FALSE)
    BY <1>1, FixedIsRecompute
  <2>4. /\ Fixed(a, FALSE) \in Int /\ Weight(a) \in Nat
        /\ \A m \in Nat : cost(m) =
             400 * (a.transfer - a.recompute) * m + Fixed(a, FALSE) + Uncertain(a, f, m) * Weight(a)
    BY <2>1, Zenon
  <2> HIDE DEF cost
  <2>5. PICK g \in Int, w \in Nat, p \in Int :
          g = Fixed(a, FALSE) /\ w = Weight(a) /\ p = 400 * (a.transfer - a.recompute)
    <3>1. Fixed(a, FALSE) \in Int /\ Weight(a) \in Nat
      BY <2>4, Zenon
    <3> QED BY <2>2, <3>1, Zenon
  <2>6. \A m \in Nat : cost(m) = p * m + g + Uncertain(a, f, m) * w
    BY <2>4, <2>5, Zenon
  <2>7. 400 * a.recompute * a.total <= g
    BY <2>3, <2>5, Zenon
  <2> QED BY <2>2, <2>6, <2>7
<1>7. ASSUME NEW m \in Nat
      PROVE  /\ m <= y => cost(m) = p * m + g
             /\ y <= m => cost(m) = p * m + g + (m - y) * w
             /\ cost(m) \in Int
  <2> HIDE DEF cost
  <2>1. cost(m) = p * m + g + Uncertain(a, f, m) * w
    BY <1>6
  <2>2. Uncertain(a, f, m) = IF m <= y THEN 0 ELSE m - y
    BY <1>5 DEF Uncertain, Smaller
  <2>3. p * m \in Int /\ 0 * w = 0 /\ (m - y) * w \in Int
    BY <1>5, <1>6
  <2>4. m <= y => cost(m) = p * m + g
    <3>1. m <= y => cost(m) = p * m + g + 0 * w
      BY <2>1, <2>2
    <3> QED BY <1>6, <2>3, <3>1
  <2>5. y <= m => cost(m) = p * m + g + (m - y) * w
    <3>1. ~ (m <= y) => cost(m) = p * m + g + (m - y) * w
      BY <2>1, <2>2
    <3>2. m = y => (m - y) * w = 0
      BY <1>5, <1>6
    <3> QED BY <1>5, <1>6, <2>3, <2>4, <3>1, <3>2
  <2> QED BY <1>5, <1>6, <2>3, <2>4, <2>5
<1>8. ~ (g <= cost(k))
  <2> SUFFICES ASSUME g <= cost(k) PROVE FALSE
    OBVIOUS
  <2>1. 400 * a.recompute * a.total <= cost(k)
    <3> HIDE DEF cost
    <3>1. cost(k) \in Int
      BY <1>2, <1>7
    <3> QED BY <1>6, <3>1
  <2>2. RecomputeMicros(a) <= PartialMicros(a, f, k)
    BY <1>1, <1>2, <1>3, <2>1, NoSavingNoReuse
  <2> QED BY <1>1, <1>4, <2>2
<1>9. ASSUME NEW m \in Nat, m # 0, m \in CandidateCuts(a, f),
             cost(m) <= cost(k)
      PROVE  \E l \in CandidateCuts(a, f) : PartialMicros(a, f, l) < RecomputeMicros(a)
  <2>1. PartialMicros(a, f, m) <= PartialMicros(a, f, k)
    BY <1>1, <1>2, <1>3, <1>9, CheaperPartial
  <2>2. PartialMicros(a, f, m) \in Int
    BY <1>1, DearerEstimates
  <2> QED BY <1>1, <1>4, <1>9, <2>1, <2>2
<1> HIDE DEF cost
<1>10. PICK step \in Nat : step = Larger(64, f \div 2)
  BY DEF Larger
<1>11. CandidateCuts(a, f) =
         {t \in {f, Larger(f, a.total \div 3), Larger(f, a.total \div 2),
                 Larger(f, (2 * a.total) \div 3), Larger(f, y - step),
                 y, Smaller(a.total - 1, y + step)} : f <= t /\ t < a.total}
  BY <1>5, <1>10 DEF CandidateCuts
<1>12. k \in {f, Larger(f, a.total \div 3), Larger(f, a.total \div 2),
              Larger(f, (2 * a.total) \div 3), Larger(f, x - step),
              x, Smaller(a.total - 1, x + step)}
  BY <1>1, <1>5, <1>10 DEF CandidateCuts
<1>13. CASE k <= y
  <2>1. PICK m \in Nat : m = Smaller(y, a.total - 1) /\ k <= m /\ m <= y /\ m < a.total
    BY <1>1, <1>2, <1>5, <1>13 DEF Smaller
  <2>2. m \in CandidateCuts(a, f)
    <3>1. m = y \/ m = Smaller(a.total - 1, y + step)
      BY <1>1, <1>5, <1>10, <2>1 DEF Smaller
    <3> QED BY <1>2, <1>11, <2>1, <3>1
  <2>3. p * k < 0
    BY <1>2, <1>6, <1>7, <1>8, <1>13
  <2>4. p < 0
    <3> SUFFICES ASSUME 0 <= p PROVE FALSE
      BY <1>6
    <3>1. 0 <= p * k
      BY <1>2, <1>6
    <3> QED BY <1>2, <1>6, <2>3, <3>1
  <2>5. p * m <= p * k
    <3>1. (0 - p) * k <= (0 - p) * m
      <4>1. 0 - p \in Nat
        BY <1>6, <2>4
      <4> QED BY <1>2, <2>1, <4>1, Scaling
    <3> QED BY <1>2, <1>6, <2>1, <3>1
  <2>6. cost(m) <= cost(k)
    BY <1>2, <1>6, <1>7, <1>13, <2>1, <2>5
  <2> QED BY <1>2, <1>3, <1>9, <2>1, <2>2, <2>6
<1>14. CASE y < k
  <2>1. PICK q \in Int : q = p + w
    BY <1>6
  <2>2. ASSUME NEW m \in Nat, y <= m PROVE cost(m) = q * m + (g - y * w)
    <3>1. cost(m) = p * m + g + (m - y) * w
      BY <1>7, <2>2
    <3>2. p * m + g + (m - y) * w = (p + w) * m + (g - y * w)
      BY <1>5, <1>6
    <3> QED BY <2>1, <3>1, <3>2
  <2>3. CASE 0 <= q
    <3>1. q * y <= q * k
      BY <1>2, <1>5, <1>14, <2>1, <2>3, Scaling
    <3>2. cost(y) <= cost(k)
      BY <1>2, <1>5, <1>6, <1>14, <2>1, <2>2, <3>1
    <3>3. y # 0
      <4> SUFFICES ASSUME y = 0 PROVE FALSE
        OBVIOUS
      <4>1. cost(k) = q * k + g
        BY <1>2, <1>6, <1>14, <2>1, <2>2
      <4>2. 0 <= q * k
        BY <1>2, <2>1, <2>3
      <4> QED BY <1>2, <1>6, <1>8, <2>1, <4>1, <4>2
    <3>4. y \in CandidateCuts(a, f)
      BY <1>1, <1>2, <1>5, <1>11, <1>14
    <3> QED BY <1>5, <1>9, <3>2, <3>3, <3>4
  <2>4. CASE q < 0
    <3>1. CASE k \in {f, Larger(f, a.total \div 3), Larger(f, a.total \div 2),
                      Larger(f, (2 * a.total) \div 3)}
      BY <1>2, <1>4, <1>11, <3>1
    <3>2. CASE k \in {Larger(f, x - step), x}
      BY <1>2, <1>5, <1>10, <1>14, <3>2 DEF Larger
    <3>3. CASE k = Smaller(a.total - 1, x + step)
      <4>1. PICK m \in Nat : m = Smaller(a.total - 1, y + step) /\ k <= m /\ m < a.total
        BY <1>1, <1>2, <1>5, <1>10, <3>3 DEF Smaller
      <4>2. m \in CandidateCuts(a, f)
        BY <1>2, <1>11, <4>1
      <4>3. q * m <= q * k
        <5>1. (0 - q) * k <= (0 - q) * m
          <6>1. 0 - q \in Nat
            BY <2>1, <2>4
          <6> QED BY <1>2, <4>1, <6>1, Scaling
        <5> QED BY <1>2, <2>1, <4>1, <5>1
      <4>4. cost(m) <= cost(k)
        BY <1>2, <1>5, <1>6, <1>14, <2>1, <2>2, <4>1, <4>3
      <4> QED BY <1>2, <1>3, <1>9, <4>1, <4>2, <4>4
    <3> QED BY <1>12, <3>1, <3>2, <3>3
  <2> QED BY <2>1, <2>3, <2>4
<1> QED BY <1>2, <1>5, <1>13, <1>14

\* One more twentieth of confidence, or any other number of them.
LEMMA TrustDecision ==
    ASSUME NEW a, NEW b, Dearer(a, b), NEW f \in Nat, a.total # 0,
           NEW k \in PartialCuts(Adjusted(b), f), NEW l \in PartialCuts(Adjusted(a), f),
           Decision(b, f, k).decision # "recompute"
    PROVE  Decision(a, f, l).decision # "recompute"
<1>1. /\ a \in AllSignals /\ b \in AllSignals /\ b.total = a.total /\ b.total # 0
      /\ Dearer(Adjusted(a), Adjusted(b))
      /\ Dearer(Penalised(Adjusted(a)), Penalised(Adjusted(b)))
      /\ Adjusted(a) \in AllSignals /\ Adjusted(b) \in AllSignals
      /\ Adjusted(a).total = a.total /\ Adjusted(b).total = a.total
      /\ Penalised(Adjusted(a)).total # 0
  <2>1. a \in AllSignals /\ b \in AllSignals /\ b.total = a.total
    BY DEF Dearer
  <2>2. Dearer(Adjusted(a), Adjusted(b))
    BY DearerAdjusted
  <2>3. Dearer(Penalised(Adjusted(a)), Penalised(Adjusted(b)))
    BY <2>2, DearerAdjusted
  <2>4. /\ Adjusted(a) \in AllSignals /\ Adjusted(b) \in AllSignals
        /\ Adjusted(a).total = a.total /\ Adjusted(b).total = a.total
    BY <2>1, AdjustedSignals
  <2>5. Penalised(Adjusted(a)).total # 0
    BY <2>4, PenalisedSignals
  <2> QED BY <2>1, <2>2, <2>3, <2>4, <2>5
<1>2. k \in Nat /\ l \in Nat
  BY <1>1, PartialCutsAreCuts DEF IsCut
<1>3. PICK r \in Int :
        /\ r = RecomputeMicros(a) /\ r = RecomputeMicros(b)
        /\ r = RecomputeMicros(Adjusted(a)) /\ r = RecomputeMicros(Adjusted(b))
  <2>1. RecomputeMicros(a) \in Int /\ RecomputeMicros(b) = RecomputeMicros(a)
    BY DEF Dearer, AllSignals, RecomputeMicros
  <2>2. Adjusted(a).recompute = a.recompute /\ Adjusted(b).recompute = b.recompute
    BY <1>1, AdjustedSignals
  <2> QED BY <2>1, <2>2 DEF RecomputeMicros
<1>4. ~ RecomputeIsBest(b, f, k)
  BY <1>1, <1>2, DecisionRecomputes
<1>5. SUFFICES ASSUME RecomputeIsBest(a, f, l) PROVE FALSE
  BY <1>1, <1>2, DecisionRecomputes
<1>6. r <= FullMicros(Penalised(Adjusted(b)), f)
  <2>1. /\ FullMicros(Penalised(Adjusted(a)), f) <= FullMicros(Penalised(Adjusted(b)), f)
        /\ FullMicros(Penalised(Adjusted(a)), f) \in Int
        /\ FullMicros(Penalised(Adjusted(b)), f) \in Int
    BY <1>1, DearerEstimates
  <2>2. r <= FullMicros(Penalised(Adjusted(a)), f)
    BY <1>3, <1>5 DEF RecomputeIsBest
  <2> QED BY <2>1, <2>2
<1>7. k # 0 /\ PartialMicros(Adjusted(b), f, k) < r
  <2>1. PartialMicros(Adjusted(b), f, k) \in Int
    BY <1>1, <1>2, EstimatesAreInt
  <2> QED BY <1>2, <1>3, <1>4, <1>6, <2>1 DEF RecomputeIsBest
<1>8. k \in CandidateCuts(Adjusted(b), f)
  BY <1>7 DEF PartialCuts
<1>9. PICK m \in CandidateCuts(Adjusted(a), f) : PartialMicros(Adjusted(a), f, m) < r
  BY <1>1, <1>3, <1>7, <1>8, TrustFindsCut
<1>10. m \in Nat /\ f <= m /\ m < a.total /\ a.total \in Nat
  BY <1>1, CandidatesAreCuts DEF AllSignals
<1>11. /\ l \in CandidateCuts(Adjusted(a), f)
       /\ PartialMicros(Adjusted(a), f, l) <= PartialMicros(Adjusted(a), f, m)
  BY <1>1, <1>10 DEF PartialCuts
<1>12. \A n \in Nat : PartialMicros(Adjusted(a), f, n) \in Int
  BY <1>1, EstimatesAreInt
<1>13. PartialMicros(Adjusted(a), f, l) < r
  BY <1>2, <1>9, <1>10, <1>11, <1>12
<1>14. l # 0
  <2> SUFFICES ASSUME l = 0 PROVE FALSE
    OBVIOUS
  <2>1. PartialMicros(Adjusted(a), f, l) = r
    BY <1>3 DEF PartialMicros
  <2> QED BY <1>13, <2>1
<1>15. r <= PartialMicros(Adjusted(a), f, l)
  BY <1>2, <1>3, <1>5, <1>14 DEF RecomputeIsBest
<1> QED BY <1>2, <1>12, <1>13, <1>15

\* A prefix that is reused is not recomputed when its request is trusted more.
THEOREM TrustNeverHurtsReuse == PolicySpec => []TrustKeepsReuse
<1>1. PolicyInv => TrustKeepsReuse
  <2> SUFFICES ASSUME PolicyInv, stage = "decided", outcome.decision # "recompute",
                      signals.confidence < 20,
                      NEW d \in Decisions([signals EXCEPT !.confidence = @ + 1], floor)
               PROVE  d.decision # "recompute"
    BY DEF TrustKeepsReuse
  <2> DEFINE trusted == [signals EXCEPT !.confidence = @ + 1]
  <2>1. signals \in AllSignals /\ floor \in Nat /\ outcome = Decision(signals, floor, cut)
    BY SignalsAssumption, FloorsAssumption DEF PolicyInv
  <2>2. Dearer(trusted, signals)
    BY <2>1 DEF Dearer, AllSignals
  <2>3. signals.total # 0
    BY <2>1 DEF Decision, Chosen
  <2>4. trusted.total = signals.total
    BY <2>2 DEF Dearer
  <2>5. PICK l \in IF trusted.total = 0 THEN {0} ELSE PartialCuts(Adjusted(trusted), floor) :
               d = Decision(trusted, floor, l)
    BY DEF Decisions
  <2>6. cut \in PartialCuts(Adjusted(signals), floor)
    BY <2>3 DEF PolicyInv
  <2> HIDE DEF trusted
  <2> QED BY <2>1, <2>2, <2>3, <2>4, <2>5, <2>6, TrustDecision
<1> QED BY PolicyInvHolds, <1>1, PTL
=============================================================================
