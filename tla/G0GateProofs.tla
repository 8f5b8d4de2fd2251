----------------------------- MODULE G0GateProofs -----------------------------
(***************************************************************************)
(* Facts about the G0 verdict for every matrix, whatever it measures and   *)
(* however its runs come out: nothing is decided on invalid evidence, a    *)
(* stop is never revised into a go, and a go meets the numeric thresholds  *)
(* counted over the runs themselves.                                       *)
(***************************************************************************)
EXTENDS G0Gate, FiniteSetTheorems, SequenceTheorems, WellFoundedInduction, TLAPS

-----------------------------------------------------------------------------
(* The numbers of the schedule.                                            *)

LEMMA ProductIsNat ==
    ASSUME NEW x \in Nat, NEW y \in Nat
    PROVE  x * y \in Nat
OBVIOUS

LEMMA Lengths ==
    /\ Len(Workloads) \in Nat /\ Len(Intensities) \in Nat /\ Len(Arms) \in Nat /\ Len(Budgets) \in Nat
    /\ DOMAIN Workloads = 1 .. Len(Workloads)
    /\ DOMAIN Intensities = 1 .. Len(Intensities)
    /\ DOMAIN Arms = 1 .. Len(Arms)
    /\ Repeats \in Nat /\ Repeats > 0
    /\ MainLength \in Nat /\ ControlLength \in Nat /\ FrontierLength \in Nat
    /\ BaseLength \in Nat
    /\ BaseRuns \subseteq AllRuns
<1>1. /\ Len(Workloads) \in Nat /\ DOMAIN Workloads = 1 .. Len(Workloads)
      /\ Len(Intensities) \in Nat /\ DOMAIN Intensities = 1 .. Len(Intensities)
      /\ Len(Arms) \in Nat /\ DOMAIN Arms = 1 .. Len(Arms)
      /\ Len(Budgets) \in Nat
  BY ListsAssumption, LenProperties DEF IsList
<1>2. Repeats \in Nat /\ Repeats > 0
  BY RepeatsAssumption
<1>3. MainLength \in Nat /\ ControlLength \in Nat /\ FrontierLength \in Nat
  <2>1. Len(Workloads) * Len(Intensities) * Repeats \in Nat /\ Len(Workloads) * Repeats \in Nat
    BY <1>1, <1>2, ProductIsNat
  <2>2. Len(Workloads) * Repeats * 2 \in Nat
    BY <2>1
  <2> QED BY <1>1, <2>1, <2>2, ProductIsNat DEF MainLength, ControlLength, FrontierLength
<1>4. BaseLength \in Nat
  BY <1>3 DEF BaseLength
<1>5. BaseRuns \subseteq AllRuns
  BY <1>3, <1>4 DEF BaseRuns, AllRuns
<1> QED BY <1>1, <1>2, <1>3, <1>4, <1>5

-----------------------------------------------------------------------------
(* Nothing is decided on invalid evidence.                                 *)

\* Outputs of runs of the base matrix are finitely many.
LEMMA OutputsAreFinite ==
    ASSUME NEW runs \in SUBSET BaseRuns, NEW c
    PROVE  IsFiniteSet(OutputsOf(runs, c))
<1> DEFINE X == {n \in runs : Schedule[n].workload = c[1] /\ Schedule[n].intensity = c[2]}
           f == [n \in X |-> tree[n].outputs]
<1>1. IsFiniteSet(BaseRuns)
  <2>1. 1 \in Int /\ BaseLength \in Int
    BY Lengths
  <2> QED BY <2>1, FS_Interval DEF BaseRuns
<1>2. IsFiniteSet(X)
  BY <1>1, FS_Subset
<1>3. OutputsOf(runs, c) = {tree[n].outputs : n \in X}
  BY DEF OutputsOf
<1>4. f \in Surjection(X, OutputsOf(runs, c))
  <2>1. f \in [X -> OutputsOf(runs, c)]
    BY <1>3
  <2>2. \A t \in OutputsOf(runs, c) : \E n \in X : f[n] = t
    BY <1>3
  <2> QED BY <2>1, <2>2 DEF Surjection
<1> HIDE DEF X, f
<1> QED BY <1>2, <1>4, FS_Surjection

\* A verdict needs evidence without errors.
LEMMA VerdictsAreClean == Rebuild.verdict # "none" => ~ Errors
BY DEF Rebuild, Report

\* While a run is rejected or differs in its outputs, nothing is decided.
THEOREM InvalidDecidesNothing == G0Spec => []InvalidNeverDecides
<1>1. InvalidNeverDecides
  <2> DEFINE present == AllRuns \ Waiting
  <2> SUFFICES ASSUME Rebuild.verdict # "none"
               PROVE  /\ \A n \in present : Passing(n)
                      /\ \A c \in Cells \cup Controls : Cardinality(OutputsOf(present, c)) <= 1
    BY DEF InvalidNeverDecides
  <2>1. Rejected = {} /\ OutputsAgree /\ ~ FrontierErrors
    BY VerdictsAreClean DEF Errors, BaseErrors
  <2>2. ASSUME NEW n \in present
        PROVE  /\ Passing(n)
               /\ n \in BaseRuns => n \in Loaded
               /\ n \notin BaseRuns => FrontierPoint(n)
    <3>1. n \in AllRuns /\ Exists(n)
      BY DEF Waiting
    <3>2. CASE n \in BaseRuns
      <4>1. Accepted(tree[n], Schedule[n])
        BY <2>1, <3>1, <3>2 DEF Rejected
      <4> QED BY <3>1, <3>2, <4>1 DEF Passing, Loaded
    <3>3. CASE n \notin BaseRuns
      <4>1. FrontierPoint(n)
        BY <2>1, <3>1, <3>3 DEF FrontierErrors, FrontierRuns
      <4> QED BY <3>3, <4>1 DEF Passing, FrontierPoint
    <3> QED BY <3>2, <3>3
  <2>3. ASSUME NEW c \in Cells \cup Controls
        PROVE  Cardinality(OutputsOf(present, c)) <= 1
    <3>1. OutputsOf(present, c) \subseteq OutputsOf(Loaded, c)
      <4> SUFFICES ASSUME NEW n \in present,
                          Schedule[n].workload = c[1], Schedule[n].intensity = c[2]
                   PROVE  tree[n].outputs \in OutputsOf(Loaded, c)
        BY DEF OutputsOf
      <4>1. CASE n \in BaseRuns
        BY <2>2, <4>1 DEF OutputsOf
      <4>2. CASE n \notin BaseRuns
        <5>1. PICK m \in RoundRuns(<<Schedule[n].workload, Schedule[n].intensity>>,
                                   Schedule[n].repeat) :
                     tree[m].outputs = tree[n].outputs
          BY <2>2, <4>2 DEF FrontierPoint
        <5>2. m \in Loaded /\ Schedule[m].workload = c[1] /\ Schedule[m].intensity = c[2]
          BY <5>1 DEF RoundRuns
        <5> QED BY <5>1, <5>2 DEF OutputsOf
      <4> QED BY <4>1, <4>2
    <3>2. IsFiniteSet(OutputsOf(Loaded, c)) /\ Cardinality(OutputsOf(Loaded, c)) <= 1
      <4>1. Loaded \in SUBSET BaseRuns
        BY DEF Loaded
      <4> QED BY <2>1, <4>1, OutputsAreFinite DEF OutputsAgree
    <3> HIDE DEF present
    <3>3. /\ Cardinality(OutputsOf(present, c)) \in Nat
          /\ Cardinality(OutputsOf(Loaded, c)) \in Nat
          /\ Cardinality(OutputsOf(present, c)) <= Cardinality(OutputsOf(Loaded, c))
      BY <3>1, <3>2, FS_Subset, FS_CardinalityType
    <3> QED BY <3>2, <3>3
  <2> QED BY <2>2, <2>3
<1> QED BY <1>1, PTL

-----------------------------------------------------------------------------
(* Every entry of the base matrix is another cell, repeat or arm.          *)

LEMMA Division ==
    ASSUME NEW d \in Nat, d > 0, NEW n \in Nat
    PROVE  /\ n \div d \in Nat
           /\ n % d \in 0 .. d - 1
           /\ n = d * (n \div d) + (n % d)
<1>1. n % d \in 0 .. d - 1
  BY SMT
<1>2. n \div d \in Nat
  BY SMT
<1>3. n = d * (n \div d) + (n % d)
  BY SMT
<1> QED BY <1>1, <1>2, <1>3

LEMMA Scaling ==
    ASSUME NEW a \in Int, NEW b \in Int, NEW k \in Nat, a <= b
    PROVE  k * a <= k * b
<1>1. PICK e \in Nat : b = a + e
  <2>1. b - a \in Nat /\ b = a + (b - a)
    OBVIOUS
  <2> QED BY <2>1
<1>2. k * e \in Nat
  OBVIOUS
<1>3. k * b = k * a + k * e
  BY <1>1
<1> QED BY <1>2, <1>3

LEMMA QuotientIsUnique ==
    ASSUME NEW d \in Nat, d > 0, NEW q \in Nat, NEW z \in 0 .. d - 1, NEW n \in Nat,
           n = d * q + z
    PROVE  n \div d = q
<1>1. PICK p \in Nat, y \in 0 .. d - 1 : p = n \div d /\ n = d * p + y
  BY Division
<1>2. ~ (p + 1 <= q)
  <2> SUFFICES ASSUME p + 1 <= q PROVE FALSE
    OBVIOUS
  <2>1. d * (p + 1) <= d * q
    BY <1>1, Scaling
  <2>2. d * (p + 1) = d * p + d
    BY <1>1
  <2> QED BY <1>1, <2>1, <2>2
<1>3. ~ (q + 1 <= p)
  <2> SUFFICES ASSUME q + 1 <= p PROVE FALSE
    OBVIOUS
  <2>1. d * (q + 1) <= d * p
    BY <1>1, Scaling
  <2>2. d * (q + 1) = d * q + d
    OBVIOUS
  <2> QED BY <1>1, <2>1, <2>2
<1> QED BY <1>1, <1>2, <1>3

LEMMA NestedDivision ==
    ASSUME NEW a \in Nat, a > 0, NEW b \in Nat, b > 0, NEW n \in Nat
    PROVE  (n \div a) \div b = n \div (a * b) /\ a * b \in Nat /\ a * b > 0
<1>1. PICK p \in Nat, y \in 0 .. a - 1 : p = n \div a /\ n = a * p + y
  BY Division
<1>2. PICK q \in Nat, z \in 0 .. b - 1 : q = p \div b /\ p = b * q + z
  BY Division
<1>3. n = (a * b) * q + (a * z + y)
  <2>1. \A c, e, f, g, h \in Int : c * (e * f + g) + h = (c * e) * f + (c * g + h)
    OBVIOUS
  <2> QED BY <1>1, <1>2, <2>1
<1>4. a * z + y \in 0 .. a * b - 1
  <2>1. a * (z + 1) <= a * b
    BY <1>2, Scaling
  <2>2. a * (z + 1) = a * z + a /\ a * z \in Nat /\ a * b \in Nat
    BY <1>2
  <2> QED BY <1>1, <2>1, <2>2
<1>5. a * b \in Nat /\ a * b > 0
  <2>1. a * 1 <= a * b
    BY Scaling
  <2>2. a * 1 = a /\ a * b \in Nat
    OBVIOUS
  <2> QED BY <2>1, <2>2
<1>6. n \div (a * b) = q
  <2>1. PICK d \in Nat : d = a * b /\ d > 0
    BY <1>5
  <2>2. PICK x \in 0 .. d - 1 : x = a * z + y
    BY <1>4, <2>1
  <2>3. n = d * q + x
    BY <1>3, <2>1, <2>2
  <2>4. n \div d = q
    BY <1>2, <2>1, <2>2, <2>3, QuotientIsUnique
  <2> QED BY <2>1, <2>4
<1> QED BY <1>1, <1>2, <1>5, <1>6

\* A number is its four digits, one radix for each of the lists.
HasDigits(n, A, R, I, W) ==
    /\ Digit(n, 1, A) \in 0 .. A - 1 /\ Digit(n, A, R) \in 0 .. R - 1
    /\ Digit(n, A * R, I) \in 0 .. I - 1 /\ Digit(n, A * R * I, W) \in 0 .. W - 1
    /\ n = A * (R * (I * Digit(n, A * R * I, W) + Digit(n, A * R, I)) + Digit(n, A, R))
               + Digit(n, 1, A)

LEMMA MixedRadix ==
    ASSUME NEW A \in Nat, NEW R \in Nat, NEW I \in Nat, NEW W \in Nat,
           NEW n \in Nat, n < W * I * R * A
    PROVE  HasDigits(n, A, R, I, W)
<1>1. A > 0 /\ R > 0 /\ I > 0 /\ W > 0
  <2>1. \A x, y, z \in Nat : /\ 0 * x * y * z = 0 /\ x * 0 * y * z = 0
                           /\ x * y * 0 * z = 0 /\ x * y * z * 0 = 0
    OBVIOUS
  <2>2. W * I * R * A # 0
    <3>1. W * I * R * A \in Nat
      BY ProductIsNat
    <3> QED BY <3>1
  <2> QED BY <2>1, <2>2
<1>2. PICK p \in Nat, a \in 0 .. A - 1 : p = n \div A /\ a = n % A /\ n = A * p + a
  BY <1>1, Division
<1>3. PICK q \in Nat, r \in 0 .. R - 1 : q = p \div R /\ r = p % R /\ p = R * q + r
  BY <1>1, <1>2, Division
<1>4. PICK w \in Nat, i \in 0 .. I - 1 : w = q \div I /\ i = q % I /\ q = I * w + i
  BY <1>1, <1>3, Division
<1>5. q = n \div (A * R) /\ A * R \in Nat /\ A * R > 0
  BY <1>1, <1>2, <1>3, NestedDivision
<1>6. w = n \div (A * R * I)
  BY <1>1, <1>4, <1>5, NestedDivision
<1>7. w \in 0 .. W - 1
  <2> SUFFICES ASSUME W <= w PROVE FALSE
    BY <1>4
  <2>1. I * W <= q
    <3>1. I * W <= I * w /\ I * W \in Nat /\ I * w \in Nat
      BY <1>4, Scaling, ProductIsNat
    <3> QED BY <1>4, <3>1
  <2>2. R * (I * W) <= p
    <3>1. I * W \in Nat
      BY ProductIsNat
    <3>2. R * (I * W) <= R * q /\ R * (I * W) \in Nat /\ R * q \in Nat
      BY <1>3, <2>1, <3>1, Scaling, ProductIsNat
    <3> QED BY <1>3, <3>2
  <2>3. A * (R * (I * W)) <= n
    <3>1. R * (I * W) \in Nat
      BY ProductIsNat
    <3>2. /\ A * (R * (I * W)) <= A * p /\ A * (R * (I * W)) \in Nat /\ A * p \in Nat
      BY <1>2, <2>2, <3>1, Scaling, ProductIsNat
    <3> QED BY <1>2, <3>2
  <2>4. A * (R * (I * W)) = W * I * R * A
    OBVIOUS
  <2>5. W * I * R * A \in Nat
    BY ProductIsNat
  <2> QED BY <2>3, <2>4, <2>5
<1>8. Digit(n, 1, A) = a
  <2>1. n \div 1 = n
    OBVIOUS
  <2> QED BY <1>2, <2>1 DEF Digit
<1>9. Digit(n, A, R) = r /\ Digit(n, A * R, I) = i
  BY <1>2, <1>3, <1>4, <1>5 DEF Digit
<1>10. Digit(n, A * R * I, W) = w
  <2>1. w % W = w
    BY <1>1, <1>7
  <2> QED BY <1>6, <2>1 DEF Digit
<1>11. n = A * (R * (I * w + i) + r) + a
  BY <1>2, <1>3, <1>4
<1>12. n = A * (R * (I * Digit(n, A * R * I, W) + Digit(n, A * R, I)) + Digit(n, A, R))
           + Digit(n, 1, A)
  BY <1>8, <1>9, <1>10, <1>11, Zenon
<1> QED BY <1>2, <1>3, <1>4, <1>7, <1>8, <1>9, <1>10, <1>12, Zenon DEF HasDigits

LEMMA DistinctLists ==
    /\ \A i, j \in 1 .. Len(Workloads) : Workloads[i] = Workloads[j] => i = j
    /\ \A i, j \in 1 .. Len(Intensities) : Intensities[i] = Intensities[j] => i = j
    /\ \A i, j \in 1 .. Len(Arms) : Arms[i] = Arms[j] => i = j
    /\ \A i \in 1 .. Len(Intensities) : Intensities[i] # LowControl
BY Lengths, ListsAssumption, IntensitiesAssumption DEF IsList

\* An entry of the main matrix by the positions in its four lists.
LEMMA MainEntry ==
    ASSUME NEW n \in Nat, n < MainLength
    PROVE  \E a \in 0 .. Len(Arms) - 1, r \in 0 .. Repeats - 1,
             i \in 0 .. Len(Intensities) - 1, w \in 0 .. Len(Workloads) - 1 :
             /\ n = Len(Arms) * (Repeats * (Len(Intensities) * w + i) + r) + a
             /\ MainSpec(n).workload = Workloads[1 + w]
             /\ MainSpec(n).intensity = Intensities[1 + i]
             /\ MainSpec(n).repeat = r + 1
             /\ MainSpec(n).arm = Arms[1 + ((a + r) % Len(Arms))]
<1>1. n < Len(Workloads) * Len(Intensities) * Repeats * Len(Arms)
  BY DEF MainLength
<1> DEFINE a == Digit(n, 1, Len(Arms))
           r == Digit(n, Len(Arms), Repeats)
           i == Digit(n, Len(Arms) * Repeats, Len(Intensities))
           w == Digit(n, Len(Arms) * Repeats * Len(Intensities), Len(Workloads))
<1>2. /\ a \in 0 .. Len(Arms) - 1 /\ r \in 0 .. Repeats - 1
      /\ i \in 0 .. Len(Intensities) - 1 /\ w \in 0 .. Len(Workloads) - 1
      /\ n = Len(Arms) * (Repeats * (Len(Intensities) * w + i) + r) + a
  <2>1. HasDigits(n, Len(Arms), Repeats, Len(Intensities), Len(Workloads))
    BY <1>1, Lengths, MixedRadix, Zenon
  <2> QED BY <2>1, Zenon DEF HasDigits
<1>3. /\ MainSpec(n).workload = Workloads[1 + w] /\ MainSpec(n).intensity = Intensities[1 + i]
      /\ MainSpec(n).repeat = r + 1 /\ MainSpec(n).arm = Arms[1 + ((a + r) % Len(Arms))]
  BY DEF MainSpec
<1> HIDE DEF a, r, i, w
<1> QED BY <1>2, <1>3, Zenon

\* An entry of the controls likewise.
LEMMA ControlEntry ==
    ASSUME NEW n \in Nat, n < ControlLength
    PROVE  \E a \in 0 .. 1, r \in 0 .. Repeats - 1, w \in 0 .. Len(Workloads) - 1 :
             /\ n = 2 * (Repeats * w + r) + a
             /\ ControlSpec(n).workload = Workloads[1 + w]
             /\ ControlSpec(n).intensity = LowControl
             /\ ControlSpec(n).repeat = r + 1
             /\ ControlSpec(n).arm = IF a = 0 THEN NoControl ELSE Oracle
<1>1. n < Len(Workloads) * 1 * Repeats * 2
  BY Lengths DEF ControlLength
<1> DEFINE a == Digit(n, 1, 2)
           r == Digit(n, 2, Repeats)
           i == Digit(n, 2 * Repeats, 1)
           w == Digit(n, 2 * Repeats * 1, Len(Workloads))
<1>2. /\ a \in 0 .. 2 - 1 /\ r \in 0 .. Repeats - 1
      /\ i \in 0 .. 1 - 1 /\ w \in 0 .. Len(Workloads) - 1
      /\ n = 2 * (Repeats * (1 * w + i) + r) + a
  <2>1. 1 \in Nat /\ 2 \in Nat
    OBVIOUS
  <2>2. HasDigits(n, 2, Repeats, 1, Len(Workloads))
    BY <1>1, <2>1, Lengths, MixedRadix, Zenon
  <2> QED BY <2>2, Zenon DEF HasDigits
<1>3. 2 * Repeats * 1 = 2 * Repeats
  BY Lengths
<1>4. /\ ControlSpec(n).workload = Workloads[1 + w]
      /\ ControlSpec(n).intensity = LowControl
      /\ ControlSpec(n).repeat = 1 + r
      /\ ControlSpec(n).arm = IF a = 0 THEN NoControl ELSE Oracle
  BY <1>3, Zenon DEF ControlSpec
<1> HIDE DEF a, r, i, w
<1>5. a \in 0 .. 1 /\ i = 0 /\ 1 * w + i = w /\ 1 + r = r + 1
  BY <1>2
<1>6. n = 2 * (Repeats * w + r) + a
  BY <1>2, <1>5, Zenon
<1>7. ControlSpec(n).repeat = r + 1
  BY <1>4, <1>5
<1> QED BY <1>2, <1>4, <1>5, <1>6, <1>7, Zenon

LEMMA BaseEntry ==
    ASSUME NEW n \in BaseRuns
    PROVE  /\ n \in Nat
           /\ n <= MainLength =>
                 /\ n - 1 \in Nat /\ n - 1 < MainLength /\ Schedule[n] = MainSpec(n - 1)
           /\ ~ (n <= MainLength) =>
                 /\ n - MainLength - 1 \in Nat /\ n - MainLength - 1 < ControlLength
                 /\ Schedule[n] = ControlSpec(n - MainLength - 1)
<1>1. n \in AllRuns /\ n \in 1 .. BaseLength
  BY Lengths DEF BaseRuns
<1>2. Schedule[n] = IF n <= MainLength THEN MainSpec(n - 1) ELSE ControlSpec(n - MainLength - 1)
  BY <1>1, Lengths DEF Schedule
<1> QED BY <1>1, <1>2, Lengths DEF BaseLength

LEMMA RemainderIsInjective ==
    ASSUME NEW A \in Nat, NEW a \in 0 .. A - 1, NEW b \in 0 .. A - 1, NEW r \in Nat,
           (a + r) % A = (b + r) % A
    PROVE  a = b
<1>1. A > 0 /\ a + r \in Nat /\ b + r \in Nat
  OBVIOUS
<1>2. PICK p \in Nat, y \in 0 .. A - 1 : y = (a + r) % A /\ a + r = A * p + y
  BY <1>1, Division
<1>3. PICK q \in Nat : b + r = A * q + y
  BY <1>1, <1>2, Division
<1>4. p = q
  <2>1. ~ (p + 1 <= q)
    <3> SUFFICES ASSUME p + 1 <= q PROVE FALSE
      OBVIOUS
    <3>1. A * (p + 1) <= A * q /\ A * (p + 1) = A * p + A
      BY <1>2, <1>3, Scaling
    <3> QED BY <1>2, <1>3, <3>1
  <2>2. ~ (q + 1 <= p)
    <3> SUFFICES ASSUME q + 1 <= p PROVE FALSE
      OBVIOUS
    <3>1. A * (q + 1) <= A * p /\ A * (q + 1) = A * q + A
      BY <1>2, <1>3, Scaling
    <3> QED BY <1>2, <1>3, <3>1
  <2> QED BY <1>2, <1>3, <2>1, <2>2
<1> QED BY <1>2, <1>3, <1>4

\* The same for the n-th run of the base schedule.
LEMMA MainRun ==
    ASSUME NEW n \in BaseRuns, n <= MainLength
    PROVE  \E a \in 0 .. Len(Arms) - 1, r \in 0 .. Repeats - 1,
             i \in 0 .. Len(Intensities) - 1, w \in 0 .. Len(Workloads) - 1 :
             /\ n - 1 = Len(Arms) * (Repeats * (Len(Intensities) * w + i) + r) + a
             /\ Schedule[n].workload = Workloads[1 + w]
             /\ Schedule[n].intensity = Intensities[1 + i]
             /\ Schedule[n].repeat = r + 1
             /\ Schedule[n].arm = Arms[1 + ((a + r) % Len(Arms))]
<1>1. PICK k \in Nat : k = n - 1 /\ k < MainLength /\ Schedule[n] = MainSpec(k)
  BY BaseEntry
<1>2. PICK a \in 0 .. Len(Arms) - 1, r \in 0 .. Repeats - 1,
             i \in 0 .. Len(Intensities) - 1, w \in 0 .. Len(Workloads) - 1 :
             /\ k = Len(Arms) * (Repeats * (Len(Intensities) * w + i) + r) + a
             /\ MainSpec(k).workload = Workloads[1 + w]
             /\ MainSpec(k).intensity = Intensities[1 + i]
             /\ MainSpec(k).repeat = r + 1
             /\ MainSpec(k).arm = Arms[1 + ((a + r) % Len(Arms))]
  BY <1>1, MainEntry, Zenon
<1> QED BY <1>1, <1>2, Zenon

LEMMA ControlRun ==
    ASSUME NEW n \in BaseRuns, ~ (n <= MainLength)
    PROVE  \E a \in 0 .. 1, r \in 0 .. Repeats - 1, w \in 0 .. Len(Workloads) - 1 :
             /\ n - MainLength - 1 = 2 * (Repeats * w + r) + a
             /\ Schedule[n].workload = Workloads[1 + w]
             /\ Schedule[n].intensity = LowControl
             /\ Schedule[n].repeat = r + 1
             /\ Schedule[n].arm = IF a = 0 THEN NoControl ELSE Oracle
<1>1. PICK k \in Nat : /\ k = n - MainLength - 1 /\ k < ControlLength
                       /\ Schedule[n] = ControlSpec(k)
  BY BaseEntry
<1> QED BY <1>1, ControlEntry

\* Positions in a list of distinct elements, from 0.
LEMMA Positions ==
    /\ \A i, j \in 0 .. Len(Workloads) - 1 : Workloads[1 + i] = Workloads[1 + j] => i = j
    /\ \A i, j \in 0 .. Len(Intensities) - 1 : Intensities[1 + i] = Intensities[1 + j] => i = j
    /\ \A i, j \in 0 .. Len(Arms) - 1 : Arms[1 + i] = Arms[1 + j] => i = j
    /\ \A i \in 0 .. Len(Intensities) - 1 : Intensities[1 + i] # LowControl
    /\ \A i \in 0 .. Len(Arms) - 1 : Arms[1 + i] \in ArmSet
<1>1. \A L \in Nat : \A i \in 0 .. L - 1 : 1 + i \in 1 .. L
  OBVIOUS
<1>2. \A L \in Nat : \A i, j \in 0 .. L - 1 : 1 + i = 1 + j => i = j
  OBVIOUS
<1>3. /\ Len(Workloads) \in Nat /\ Len(Intensities) \in Nat /\ Len(Arms) \in Nat
      /\ DOMAIN Arms = 1 .. Len(Arms)
  BY Lengths
<1>4. \A i, j \in 0 .. Len(Workloads) - 1 : Workloads[1 + i] = Workloads[1 + j] => i = j
  BY <1>1, <1>2, <1>3, DistinctLists, Zenon
<1>5. \A i, j \in 0 .. Len(Intensities) - 1 : Intensities[1 + i] = Intensities[1 + j] => i = j
  BY <1>1, <1>2, <1>3, DistinctLists, Zenon
<1>6. \A i, j \in 0 .. Len(Arms) - 1 : Arms[1 + i] = Arms[1 + j] => i = j
  BY <1>1, <1>2, <1>3, DistinctLists, Zenon
<1>7. \A i \in 0 .. Len(Intensities) - 1 : Intensities[1 + i] # LowControl
  BY <1>1, <1>3, DistinctLists, Zenon
<1>8. \A i \in 0 .. Len(Arms) - 1 : Arms[1 + i] \in ArmSet
  BY <1>1, <1>3 DEF ArmSet
<1> QED BY <1>4, <1>5, <1>6, <1>7, <1>8

SameEntry(n, m) ==
    /\ Schedule[n].workload = Schedule[m].workload
    /\ Schedule[n].intensity = Schedule[m].intensity
    /\ Schedule[n].repeat = Schedule[m].repeat
    /\ Schedule[n].arm = Schedule[m].arm

\* The arms of the base schedule are arms of the matrix.
LEMMA ArmsOfEntries == \A n \in BaseRuns : Schedule[n].arm \in ArmSet
<1> SUFFICES ASSUME NEW n \in BaseRuns PROVE Schedule[n].arm \in ArmSet
  OBVIOUS
<1>1. CASE n <= MainLength
  <2>1. PICK a \in 0 .. Len(Arms) - 1, r \in 0 .. Repeats - 1,
             i \in 0 .. Len(Intensities) - 1, w \in 0 .. Len(Workloads) - 1 :
          /\ n - 1 = Len(Arms) * (Repeats * (Len(Intensities) * w + i) + r) + a
          /\ Schedule[n].workload = Workloads[1 + w]
          /\ Schedule[n].intensity = Intensities[1 + i]
          /\ Schedule[n].repeat = r + 1
          /\ Schedule[n].arm = Arms[1 + ((a + r) % Len(Arms))]
    BY <1>1, MainRun
  <2>2. (a + r) % Len(Arms) \in 0 .. Len(Arms) - 1
    <3>1. a + r \in Nat /\ Len(Arms) \in Nat /\ Len(Arms) > 0
      BY <2>1, Lengths
    <3> QED BY <3>1, Division
  <2> QED BY <2>1, <2>2, Positions, Zenon
<1>2. CASE ~ (n <= MainLength)
  BY <1>2, ControlRun, ArmsAssumption DEF ArmSet
<1> QED BY <1>1, <1>2

\* No two entries of the base schedule are the same run.
LEMMA EntriesDiffer ==
    ASSUME NEW n \in BaseRuns, NEW m \in BaseRuns, SameEntry(n, m)
    PROVE  n = m
<1> USE DEF SameEntry
<1>0. n \in Nat /\ m \in Nat /\ MainLength \in Nat /\ Repeats \in Nat
  BY BaseEntry, Lengths
<1>1. CASE n <= MainLength /\ m <= MainLength
  <2>1. PICK a \in 0 .. Len(Arms) - 1, r \in 0 .. Repeats - 1,
             i \in 0 .. Len(Intensities) - 1, w \in 0 .. Len(Workloads) - 1 :
          /\ n - 1 = Len(Arms) * (Repeats * (Len(Intensities) * w + i) + r) + a
          /\ Schedule[n].workload = Workloads[1 + w]
          /\ Schedule[n].intensity = Intensities[1 + i]
          /\ Schedule[n].repeat = r + 1
          /\ Schedule[n].arm = Arms[1 + ((a + r) % Len(Arms))]
    BY <1>1, MainRun
  <2>2. PICK b \in 0 .. Len(Arms) - 1, s \in 0 .. Repeats - 1,
             j \in 0 .. Len(Intensities) - 1, v \in 0 .. Len(Workloads) - 1 :
          /\ m - 1 = Len(Arms) * (Repeats * (Len(Intensities) * v + j) + s) + b
          /\ Schedule[m].workload = Workloads[1 + v]
          /\ Schedule[m].intensity = Intensities[1 + j]
          /\ Schedule[m].repeat = s + 1
          /\ Schedule[m].arm = Arms[1 + ((b + s) % Len(Arms))]
    BY <1>1, MainRun
  <2>3. w = v
    <3>1. Workloads[1 + w] = Workloads[1 + v]
      BY <2>1, <2>2
    <3> QED BY <3>1, Positions, Zenon
  <2>4. i = j
    <3>1. Intensities[1 + i] = Intensities[1 + j]
      BY <2>1, <2>2
    <3> QED BY <3>1, Positions, Zenon
  <2>5. r = s
    <3>1. r + 1 = s + 1
      BY <2>1, <2>2
    <3> QED BY <3>1
  <2>6. a = b
    <3>1. Arms[1 + ((a + r) % Len(Arms))] = Arms[1 + ((b + r) % Len(Arms))]
      BY <2>1, <2>2, <2>5
    <3>2. Len(Arms) \in Nat /\ Len(Arms) > 0 /\ a + r \in Nat /\ b + r \in Nat
      BY Lengths
    <3>3. /\ (a + r) % Len(Arms) \in 0 .. Len(Arms) - 1
          /\ (b + r) % Len(Arms) \in 0 .. Len(Arms) - 1
      BY <3>2, Division
    <3>4. (a + r) % Len(Arms) = (b + r) % Len(Arms)
      BY <3>1, <3>3, Positions, Zenon
    <3>5. r \in Nat
      OBVIOUS
    <3> QED BY <3>2, <3>4, <3>5, RemainderIsInjective, Zenon
  <2>7. n - 1 = m - 1
    BY <2>1, <2>2, <2>3, <2>4, <2>5, <2>6, Zenon
  <2> QED BY <1>0, <2>7
<1>2. CASE ~ (n <= MainLength) /\ ~ (m <= MainLength)
  <2>1. PICK a \in 0 .. 1, r \in 0 .. Repeats - 1, w \in 0 .. Len(Workloads) - 1 :
          /\ n - MainLength - 1 = 2 * (Repeats * w + r) + a
          /\ Schedule[n].workload = Workloads[1 + w]
          /\ Schedule[n].repeat = r + 1
          /\ Schedule[n].arm = IF a = 0 THEN NoControl ELSE Oracle
    BY <1>2, ControlRun
  <2>2. PICK b \in 0 .. 1, s \in 0 .. Repeats - 1, v \in 0 .. Len(Workloads) - 1 :
          /\ m - MainLength - 1 = 2 * (Repeats * v + s) + b
          /\ Schedule[m].workload = Workloads[1 + v]
          /\ Schedule[m].repeat = s + 1
          /\ Schedule[m].arm = IF b = 0 THEN NoControl ELSE Oracle
    BY <1>2, ControlRun
  <2>3. w = v
    <3>1. Workloads[1 + w] = Workloads[1 + v]
      BY <2>1, <2>2
    <3> QED BY <3>1, Positions, Zenon
  <2>4. r = s
    <3>1. r + 1 = s + 1
      BY <2>1, <2>2
    <3> QED BY <3>1
  <2>5. a = b
    <3>1. (IF a = 0 THEN NoControl ELSE Oracle) = (IF b = 0 THEN NoControl ELSE Oracle)
      BY <2>1, <2>2
    <3>2. a \in {0, 1} /\ b \in {0, 1}
      OBVIOUS
    <3> QED BY <3>1, <3>2 DEF NoControl, Oracle
  <2>6. n - MainLength - 1 = m - MainLength - 1
    BY <2>1, <2>2, <2>3, <2>4, <2>5, Zenon
  <2> QED BY <1>0, <2>6
<1>3. CASE n <= MainLength /\ ~ (m <= MainLength)
  <2>1. PICK i \in 0 .. Len(Intensities) - 1 : Schedule[n].intensity = Intensities[1 + i]
    BY <1>3, MainRun
  <2>2. Schedule[m].intensity = LowControl
    BY <1>3, ControlRun
  <2>3. Intensities[1 + i] = LowControl
    BY <2>1, <2>2
  <2> QED BY <2>3, Positions, Zenon
<1>4. CASE ~ (n <= MainLength) /\ m <= MainLength
  <2>1. PICK i \in 0 .. Len(Intensities) - 1 : Schedule[m].intensity = Intensities[1 + i]
    BY <1>4, MainRun
  <2>2. Schedule[n].intensity = LowControl
    BY <1>4, ControlRun
  <2>3. Intensities[1 + i] = LowControl
    BY <2>1, <2>2
  <2> QED BY <2>3, Positions, Zenon
<1> QED BY <1>1, <1>2, <1>3, <1>4

-----------------------------------------------------------------------------
(* A stop is final: what made the report say it never goes away.           *)

TreeShape == DOMAIN tree = AllRuns

\* Nothing a step does reaches the loaded runs of the cell.
Settled(c) ==
    \A r \in 1 .. Repeats :
        /\ RoundRuns(c, r)' = RoundRuns(c, r)
        /\ \A n \in RoundRuns(c, r) : tree'[n] = tree[n]

\* A cell that is ready triggers the stop, or the whole matrix is refuted.
ReadyCells == {c \in Cells : CellReady(c, ArmSet)}
ReadyControls == {c \in Controls : CellReady(c, {NoControl, Oracle})}
DoomedCell == \E c \in ReadyCells : StopTriggered(c)
DoomedMatrix ==
    /\ Missing = {}
    /\ \/ Cardinality(ReadyCells) < MinCells
       \/ Cardinality(ReadyControls) < MinControls
       \/ \E c \in ReadyControls : ~AbsenceGate(c)
Doomed == DoomedCell \/ DoomedMatrix

LEMMA StopIsDoomed == Rebuild.verdict = "stop" => Doomed
<1> SUFFICES ASSUME Rebuild.verdict = "stop" PROVE Doomed
  OBVIOUS
<1>1. ~ Errors
  BY VerdictsAreClean
<1>2. JudgedCells = ReadyCells /\ JudgedControls = ReadyControls
  BY <1>1 DEF Errors, JudgedCells, JudgedControls, ReadyCells, ReadyControls
<1>3. CASE (\E c \in JudgedCells : StopTriggered(c)) /\ PrefixComplete
  BY <1>2, <1>3 DEF Doomed, DoomedCell
<1>4. CASE ~ ((\E c \in JudgedCells : StopTriggered(c)) /\ PrefixComplete)
  <2>1. Rebuild = IF Missing = {} THEN CompleteReport(JudgedCells)
                  ELSE Report("incomplete_no_verdict", "none")
    BY <1>1, <1>4 DEF Rebuild
  <2>2. Missing = {} /\ CompleteReport(JudgedCells).verdict = "stop"
    BY <2>1 DEF Report
  <2>3. \/ \E c \in ReadyCells : GenericEquivalent(c) \/ ~TailGate(c) \/ ~CounterGate(c)
        \/ Cardinality(ReadyCells) < MinCells
        \/ Cardinality(ReadyControls) < MinControls
        \/ \E c \in ReadyControls : ~AbsenceGate(c)
    BY <1>2, <2>2 DEF CompleteReport, Report
  <2> QED BY <2>2, <2>3 DEF Doomed, DoomedCell, DoomedMatrix, StopTriggered
<1> QED BY <1>3, <1>4

LEMMA DoomedNeverGoes == Doomed => Rebuild.verdict # "go"
<1> SUFFICES ASSUME Doomed, Rebuild.verdict = "go" PROVE FALSE
  OBVIOUS
<1>1. ~ Errors
  BY VerdictsAreClean
<1>2. JudgedCells = ReadyCells /\ JudgedControls = ReadyControls
  BY <1>1 DEF Errors, JudgedCells, JudgedControls, ReadyCells, ReadyControls
<1>3. Missing = {} /\ CompleteReport(JudgedCells).verdict = "go"
  BY <1>1 DEF Rebuild, Report
<1>4. ~ \/ \E c \in ReadyCells : GenericEquivalent(c) \/ ~TailGate(c) \/ ~CounterGate(c)
        \/ Cardinality(ReadyCells) < MinCells
        \/ Cardinality(ReadyControls) < MinControls
        \/ \E c \in ReadyControls : ~AbsenceGate(c)
  BY <1>2, <1>3 DEF CompleteReport, Report
<1> QED BY <1>4 DEF Doomed, DoomedCell, DoomedMatrix, StopTriggered

\* A step adds at most one run directory and leaves the others alone.
LEMMA TreeGrows ==
    ASSUME TreeShape, [G0Next]_g0vars
    PROVE  /\ TreeShape'
           /\ \A n \in AllRuns : Exists(n) => tree'[n] = tree[n]
<1>1. CASE UNCHANGED tree
  BY <1>1 DEF TreeShape
<1>2. CASE \E fault \in Faults : Run(fault)
  <2>1. PICK fault \in Faults : Run(fault)
    BY <1>2
  <2>2. PICK n \in AllRuns : Runnable(n) /\ tree' = [tree EXCEPT ![n] = Artifact(n, fault)]
    BY <2>1 DEF Run
  <2>3. ~ Exists(n)
    BY <2>2 DEF Runnable, Waiting
  <2> QED BY <2>2, <2>3 DEF TreeShape
<1> QED BY <1>1, <1>2 DEF G0Next, Hold, Release, g0vars

\* What is loaded stays loaded, and what is newly loaded was not there.
LEMMA LoadedGrows ==
    ASSUME TreeShape, [G0Next]_g0vars
    PROVE  /\ Loaded \subseteq Loaded'
           /\ \A n \in Loaded : tree'[n] = tree[n]
           /\ \A n \in Loaded' : n \in BaseRuns /\ (n \in Loaded \/ ~ Exists(n))
<1>1. \A n \in BaseRuns : Exists(n) => tree'[n] = tree[n]
  BY TreeGrows, Lengths
<1>2. Loaded' = {n \in BaseRuns : tree'[n] # Absent /\ Accepted(tree'[n], Schedule[n])}
  BY DEF Loaded, Exists
<1> QED BY <1>1, <1>2 DEF Loaded, Exists

\* A ready cell has every run it will ever have.
LEMMA ReadyIsSettled ==
    ASSUME TreeShape, [G0Next]_g0vars, NEW c, CellReady(c, ArmSet)
    PROVE  Settled(c)
<1> SUFFICES ASSUME NEW r \in 1 .. Repeats
             PROVE  /\ RoundRuns(c, r)' = RoundRuns(c, r)
                    /\ \A n \in RoundRuns(c, r) : tree'[n] = tree[n]
  BY DEF Settled
<1>1. RoundArms(c, r) = ArmSet
  BY DEF CellReady, CompleteRounds
<1>2. RoundRuns(c, r)' = {n \in BaseRuns :
        /\ Schedule[n].workload = c[1] /\ Schedule[n].intensity = c[2]
        /\ Schedule[n].repeat = r
        /\ n \in Loaded'}
  BY DEF RoundRuns
<1>3. ASSUME NEW n \in RoundRuns(c, r)' PROVE n \in RoundRuns(c, r)
  <2>1. /\ n \in BaseRuns /\ Schedule[n].workload = c[1] /\ Schedule[n].intensity = c[2]
        /\ Schedule[n].repeat = r /\ n \in Loaded'
    BY <1>2, <1>3
  <2>2. PICK m \in RoundRuns(c, r) : Schedule[m].arm = Schedule[n].arm
    <3>1. Schedule[n].arm \in RoundArms(c, r)
      BY <1>1, <2>1, ArmsOfEntries
    <3> QED BY <3>1 DEF RoundArms
  <2>3. /\ m \in BaseRuns /\ Schedule[m].workload = c[1] /\ Schedule[m].intensity = c[2]
        /\ Schedule[m].repeat = r /\ m \in Loaded
    BY DEF RoundRuns
  <2>4. SameEntry(n, m)
    BY <2>1, <2>2, <2>3 DEF SameEntry
  <2>5. n = m
    BY <2>1, <2>3, <2>4, EntriesDiffer
  <2> QED BY <2>5
<1>4. ASSUME NEW n \in RoundRuns(c, r) PROVE n \in RoundRuns(c, r)' /\ tree'[n] = tree[n]
  BY <1>2, LoadedGrows DEF RoundRuns
<1> QED BY <1>3, <1>4

\* When no base run is missing, every cell has.
LEMMA FullIsSettled ==
    ASSUME TreeShape, [G0Next]_g0vars, Missing = {}
    PROVE  Missing' = {} /\ \A c : Settled(c)
<1>1. \A n \in BaseRuns : Exists(n) /\ tree'[n] = tree[n]
  BY TreeGrows, Lengths DEF Missing
<1>2. Missing' = {}
  BY <1>1 DEF Missing, Exists
<1>3. Loaded' = Loaded /\ Loaded \subseteq BaseRuns
  BY <1>1 DEF Loaded, Exists
<1>4. ASSUME NEW c PROVE Settled(c)
  <2> SUFFICES ASSUME NEW r \in 1 .. Repeats
               PROVE  /\ RoundRuns(c, r)' = RoundRuns(c, r)
                      /\ \A n \in RoundRuns(c, r) : tree'[n] = tree[n]
    BY DEF Settled
  <2>1. RoundRuns(c, r)' = RoundRuns(c, r)
    BY <1>3 DEF RoundRuns
  <2>2. RoundRuns(c, r) \subseteq BaseRuns
    BY DEF RoundRuns
  <2> QED BY <1>1, <2>1, <2>2
<1> QED BY <1>2, <1>4

LEMMA SettledRounds ==
    ASSUME NEW c, NEW arms, Settled(c)
    PROVE  /\ CompleteRounds(c, arms)' = CompleteRounds(c, arms)
           /\ CellReady(c, arms)' <=> CellReady(c, arms)
           /\ CellReady(c, arms) =>
                \A r \in 1 .. Repeats, arm \in arms : Of(c, r, arm)' = Of(c, r, arm)
<1>1. \A r \in 1 .. Repeats : RoundArms(c, r)' = RoundArms(c, r)
  BY DEF Settled, RoundArms
<1>2. CompleteRounds(c, arms)' = CompleteRounds(c, arms)
  BY <1>1 DEF CompleteRounds
<1>3. ASSUME CellReady(c, arms), NEW r \in 1 .. Repeats, NEW arm \in arms
      PROVE  Of(c, r, arm)' = Of(c, r, arm)
  <2>1. RoundArms(c, r) = arms
    BY <1>3 DEF CellReady, CompleteRounds
  <2>2. \E n \in RoundRuns(c, r) : Schedule[n].arm = arm
    BY <2>1 DEF RoundArms
  <2> DEFINE N == CHOOSE n \in RoundRuns(c, r) : Schedule[n].arm = arm
  <2>3. N \in RoundRuns(c, r)
    BY <2>2
  <2>4. Of(c, r, arm)' = tree'[CHOOSE n \in RoundRuns(c, r)' : Schedule[n].arm = arm]
    BY DEF Of
  <2>5. Of(c, r, arm)' = tree'[N]
    BY <2>4 DEF Settled
  <2>6. tree'[N] = tree[N]
    BY <2>3 DEF Settled
  <2> QED BY <2>5, <2>6 DEF Of
<1> QED BY <1>2, <1>3 DEF CellReady

\* The gates of a settled cell do not change any more.
LEMMA SettledRegression ==
    ASSUME NEW c, NEW arms, NoControl \in arms, Oracle \in arms, Settled(c), CellReady(c, arms)
    PROVE  TailRegression(c, arms)' = TailRegression(c, arms)
<1> DEFINE now == {<<r, PctRegression(Of(c, r, NoControl).p95, Of(c, r, Oracle).p95)>> :
                     r \in 1 .. Repeats}
<1>1. TailRegression(c, arms) = Median(now)
  BY DEF TailRegression, OverRounds, CellReady
<1>2. TailRegression(c, arms)' = Median(now)'
  BY SettledRounds DEF TailRegression, OverRounds, CellReady
<1>3. now' = now
  BY SettledRounds
<1>4. Median(now)' = Median(now)
  BY <1>3 DEF Median
<1> QED BY <1>1, <1>2, <1>4

LEMMA SettledComparison ==
    ASSUME NEW c, NEW arm \in ArmSet, Settled(c), CellReady(c, ArmSet)
    PROVE  /\ TailImprovement(c, arm)' = TailImprovement(c, arm)
           /\ GoodputLoss(c, arm)' = GoodputLoss(c, arm)
<1> DEFINE tail == {<<r, PctImprovement(Of(c, r, NoControl).p95, Of(c, r, arm).p95)>> :
                      r \in 1 .. Repeats}
           loss == {<<r, PctImprovement(Of(c, r, NoControl).goodput, Of(c, r, arm).goodput)>> :
                      r \in 1 .. Repeats}
<1>0. NoControl \in ArmSet
  BY ArmsAssumption DEF ArmSet
<1>1. TailImprovement(c, arm) = Median(tail) /\ GoodputLoss(c, arm) = Median(loss)
  BY DEF TailImprovement, GoodputLoss, OverRounds, CellReady
<1>2. TailImprovement(c, arm)' = Median(tail)' /\ GoodputLoss(c, arm)' = Median(loss)'
  BY SettledRounds DEF TailImprovement, GoodputLoss, OverRounds, CellReady
<1>3. tail' = tail /\ loss' = loss
  BY <1>0, SettledRounds
<1>4. Median(tail)' = Median(tail) /\ Median(loss)' = Median(loss)
  BY <1>3 DEF Median
<1> QED BY <1>1, <1>2, <1>4

LEMMA SettledStop ==
    ASSUME NEW c, Settled(c), CellReady(c, ArmSet)
    PROVE  StopTriggered(c)' <=> StopTriggered(c)
<1>1. /\ NoControl \in ArmSet /\ Oracle \in ArmSet
      /\ \A arm \in GenericArms : arm \in ArmSet
  BY ArmsAssumption DEF ArmSet
<1>2. TailGate(c)' <=> TailGate(c)
  BY <1>1, SettledRegression DEF TailGate
<1>3. CounterGate(c)' <=> CounterGate(c)
  <2> DEFINE explained == {r \in CompleteRounds(c, ArmSet) :
                             PressureExplained(Of(c, r, NoControl), Of(c, r, Oracle))}
  <2>1. ASSUME NEW r \in 1 .. Repeats
        PROVE  PressureExplained(Of(c, r, NoControl), Of(c, r, Oracle))'
                 <=> PressureExplained(Of(c, r, NoControl), Of(c, r, Oracle))
    <3>1. Of(c, r, NoControl)' = Of(c, r, NoControl) /\ Of(c, r, Oracle)' = Of(c, r, Oracle)
      BY <1>1, SettledRounds
    <3> QED BY <3>1 DEF PressureExplained
  <2>2. CompleteRounds(c, ArmSet)' = 1 .. Repeats /\ CompleteRounds(c, ArmSet) = 1 .. Repeats
    BY SettledRounds DEF CellReady
  <2>3. explained' = explained
    BY <2>1, <2>2
  <2>4. CounterGate(c) <=> Cardinality(explained) >= 2
    BY DEF CounterGate
  <2>5. CounterGate(c)' <=> (Cardinality(explained) >= 2)'
    BY DEF CounterGate
  <2> QED BY <2>3, <2>4, <2>5
<1>4. GenericEquivalent(c)' <=> GenericEquivalent(c)
  BY <1>1, SettledComparison DEF GenericEquivalent
<1> QED BY <1>2, <1>3, <1>4 DEF StopTriggered

LEMMA DoomStays ==
    ASSUME TreeShape, [G0Next]_g0vars, Doomed
    PROVE  Doomed'
<1>1. CASE DoomedCell
  <2>1. PICK c \in Cells : CellReady(c, ArmSet) /\ StopTriggered(c)
    BY <1>1 DEF DoomedCell, ReadyCells
  <2>2. Settled(c)
    BY <2>1, ReadyIsSettled
  <2>3. CellReady(c, ArmSet)' /\ StopTriggered(c)'
    BY <2>1, <2>2, SettledRounds, SettledStop
  <2> QED BY <2>3 DEF Doomed, DoomedCell, ReadyCells
<1>2. CASE DoomedMatrix
  <2>1. Missing' = {} /\ \A c : Settled(c)
    BY <1>2, FullIsSettled DEF DoomedMatrix
  <2>2. ReadyCells' = ReadyCells /\ ReadyControls' = ReadyControls
    BY <2>1, SettledRounds DEF ReadyCells, ReadyControls
  <2>3. \A c \in ReadyControls : AbsenceGate(c)' <=> AbsenceGate(c)
    BY <2>1, SettledRegression DEF ReadyControls, AbsenceGate
  <2> QED BY <1>2, <2>1, <2>2, <2>3 DEF Doomed, DoomedMatrix
<1> QED BY <1>1, <1>2 DEF Doomed

\* Once the report has said stop it never says go, whatever is run afterwards.
THEOREM StopStays == G0Spec => StopIsFinal
<1>1. G0Init => TreeShape
  BY DEF G0Init, TreeShape
<1>2. TreeShape /\ [G0Next]_g0vars => TreeShape'
  BY TreeGrows
<1>3. TreeShape /\ Doomed /\ [G0Next]_g0vars => Doomed'
  BY DoomStays
<1>4. Rebuild.verdict = "stop" => Doomed
  BY StopIsDoomed
<1>5. Doomed => Rebuild.verdict # "go"
  BY DoomedNeverGoes
<1> QED BY <1>1, <1>2, <1>3, <1>4, <1>5, PTL DEF G0Spec, StopIsFinal

-----------------------------------------------------------------------------
(* The schedule leaves no cell, repeat or arm out.                         *)

\* Quotient and remainder of a number in its parts.
Divides(n, d, q, z) == n \div d = q /\ n % d = z

LEMMA PartsDivide ==
    ASSUME NEW d \in Nat, NEW q \in Nat, NEW z \in 0 .. d - 1, NEW n \in Nat, n = d * q + z
    PROVE  Divides(n, d, q, z)
<1>1. d > 0
  OBVIOUS
<1>2. n \div d = q
  BY <1>1, QuotientIsUnique, Zenon
<1>3. PICK y \in 0 .. d - 1 : y = n % d /\ n = d * q + y
  BY <1>1, <1>2, Division
<1>4. d * q \in Nat
  OBVIOUS
<1>5. y = z
  BY <1>3, <1>4
<1> QED BY <1>2, <1>3, <1>5 DEF Divides

DividesTwice(n, a, b, q) == n \div (a * b) = q

LEMMA PartsDivideTwice ==
    ASSUME NEW a \in Nat, a > 0, NEW b \in Nat, b > 0, NEW n \in Nat, NEW p, NEW q,
           n \div a = p, p \div b = q
    PROVE  DividesTwice(n, a, b, q) /\ a * b \in Nat /\ a * b > 0
BY NestedDivision, Zenon DEF DividesTwice

DigitsAre(n, A, R, I, W, a, r, i, w) ==
    /\ n < W * I * R * A
    /\ Digit(n, 1, A) = a /\ Digit(n, A, R) = r
    /\ Digit(n, A * R, I) = i /\ Digit(n, A * R * I, W) = w

LEMMA DigitsOfParts ==
    ASSUME NEW A \in Nat, NEW R \in Nat, NEW I \in Nat, NEW W \in Nat,
           NEW a \in 0 .. A - 1, NEW r \in 0 .. R - 1, NEW i \in 0 .. I - 1, NEW w \in 0 .. W - 1,
           NEW q \in Nat, NEW p \in Nat, NEW n \in Nat,
           q = I * w + i, p = R * q + r, n = A * p + a
    PROVE  DigitsAre(n, A, R, I, W, a, r, i, w)
<1>1. A > 0 /\ R > 0 /\ I > 0 /\ W > 0
  OBVIOUS
<1>2. q = I * w + i
  OBVIOUS
<1>3. p = R * q + r
  OBVIOUS
<1>4. n = A * p + a
  OBVIOUS
<1>5. Divides(n, A, p, a)
  BY <1>4, PartsDivide, Zenon
<1>6. Divides(p, R, q, r)
  BY <1>3, PartsDivide, Zenon
<1>7. w \in Nat
  OBVIOUS
<1>8. Divides(q, I, w, i)
  BY <1>2, <1>7, PartsDivide, Zenon
<1>9. DividesTwice(n, A, R, q) /\ A * R \in Nat /\ A * R > 0
  <2>1. n \div A = p /\ p \div R = q
    BY <1>5, <1>6 DEF Divides
  <2> QED BY <1>1, <2>1, PartsDivideTwice, Zenon
<1>10. DividesTwice(n, A * R, I, w)
  <2>1. n \div (A * R) = q /\ q \div I = w
    BY <1>8, <1>9 DEF Divides, DividesTwice
  <2> QED BY <1>1, <1>9, <2>1, PartsDivideTwice, Zenon
<1>14. w % W = w
  BY <1>1
<1>15. n \div 1 = n
  OBVIOUS
<1>16. n < W * I * R * A
  <2>1. I * (w + 1) <= I * W /\ I * (w + 1) = I * w + I /\ I * W \in Nat /\ I * w \in Nat
    BY <1>7, Scaling
  <2>2. q + 1 <= I * W
    BY <1>2, <2>1
  <2>3. R * (q + 1) <= R * (I * W) /\ R * (q + 1) = R * q + R
        /\ R * (I * W) \in Nat /\ R * q \in Nat
    BY <2>1, <2>2, Scaling
  <2>4. p + 1 <= R * (I * W)
    BY <1>3, <2>3
  <2>5. A * (p + 1) <= A * (R * (I * W)) /\ A * (p + 1) = A * p + A
        /\ A * (R * (I * W)) \in Nat /\ A * p \in Nat
    BY <2>3, <2>4, Scaling
  <2>6. A * (R * (I * W)) = W * I * R * A
    OBVIOUS
  <2>7. W * I * R * A \in Nat
    BY ProductIsNat
  <2> QED BY <1>4, <2>5, <2>6, <2>7
<1> QED BY <1>5, <1>6, <1>8, <1>9, <1>10, <1>14, <1>15, <1>16, Zenon
        DEF Digit, DigitsAre, Divides, DividesTwice

LEMMA DigitsOf ==
    ASSUME NEW A \in Nat, NEW R \in Nat, NEW I \in Nat, NEW W \in Nat,
           NEW a \in 0 .. A - 1, NEW r \in 0 .. R - 1, NEW i \in 0 .. I - 1, NEW w \in 0 .. W - 1,
           NEW n \in Nat, n = A * (R * (I * w + i) + r) + a
    PROVE  DigitsAre(n, A, R, I, W, a, r, i, w)
<1>1. PICK q \in Nat : q = I * w + i
  OBVIOUS
<1>2. PICK p \in Nat : p = R * q + r
  <2>1. R * q \in Nat
    OBVIOUS
  <2> QED BY <2>1
<1>3. n = A * p + a
  BY <1>1, <1>2
<1> QED BY <1>1, <1>2, <1>3, DigitsOfParts, Zenon

\* Rotating by the repeat reaches every arm.
LEMMA RotationCovers ==
    ASSUME NEW A \in Nat, NEW r \in Nat, NEW b \in 0 .. A - 1
    PROVE  \E a \in 0 .. A - 1 : (a + r) % A = b
<1> DEFINE S == 0 .. A - 1
           g == [a \in S |-> (a + r) % A]
<1>1. IsFiniteSet(S)
  BY FS_Interval
<1>2. \A a \in S : (a + r) % A \in S
  BY Division
<1>3. \A a, c \in S : (a + r) % A = (c + r) % A => a = c
  BY RemainderIsInjective
<1>4. g \in Injection(S, S)
  <2>1. g \in [S -> S]
    BY <1>2
  <2>2. \A a, c \in S : g[a] = g[c] => a = c
    BY <1>3
  <2> QED BY <2>1, <2>2 DEF Injection, IsInjective
<1>5. g \in Surjection(S, S)
  <2> HIDE DEF S, g
  <2> QED BY <1>1, <1>4, FS_Injection
<1>6. b \in S
  OBVIOUS
<1> QED BY <1>5, <1>6 DEF Surjection

LEMMA MainCovers ==
    ASSUME NEW w \in 0 .. Len(Workloads) - 1, NEW i \in 0 .. Len(Intensities) - 1,
           NEW r \in 0 .. Repeats - 1, NEW b \in 0 .. Len(Arms) - 1
    PROVE  \E n \in BaseRuns : /\ Schedule[n].workload = Workloads[1 + w]
                               /\ Schedule[n].intensity = Intensities[1 + i]
                               /\ Schedule[n].repeat = r + 1
                               /\ Schedule[n].arm = Arms[1 + b]
<1>1. PICK a \in 0 .. Len(Arms) - 1 : (a + r) % Len(Arms) = b
  <2>1. Len(Arms) \in Nat /\ r \in Nat
    BY Lengths
  <2> QED BY <2>1, RotationCovers, Zenon
<1>2. PICK n \in Nat : n = Len(Arms) * (Repeats * (Len(Intensities) * w + i) + r) + a
  <2>1. \A A, R, I, u, j, s, x \in Nat : A * (R * (I * u + j) + s) + x \in Nat
    <3> SUFFICES ASSUME NEW A \in Nat, NEW R \in Nat, NEW I \in Nat, NEW u \in Nat,
                        NEW j \in Nat, NEW s \in Nat, NEW x \in Nat
                 PROVE  A * (R * (I * u + j) + s) + x \in Nat
      OBVIOUS
    <3>1. I * u + j \in Nat
      OBVIOUS
    <3>2. R * (I * u + j) + s \in Nat
      BY <3>1
    <3> QED BY <3>2
  <2>2. Len(Arms) \in Nat /\ Len(Intensities) \in Nat /\ Repeats \in Nat
        /\ a \in Nat /\ w \in Nat /\ i \in Nat /\ r \in Nat
    BY Lengths
  <2> QED BY <2>1, <2>2, Zenon
<1>3. /\ n < Len(Workloads) * Len(Intensities) * Repeats * Len(Arms)
      /\ Digit(n, 1, Len(Arms)) = a /\ Digit(n, Len(Arms), Repeats) = r
      /\ Digit(n, Len(Arms) * Repeats, Len(Intensities)) = i
      /\ Digit(n, Len(Arms) * Repeats * Len(Intensities), Len(Workloads)) = w
  <2>1. DigitsAre(n, Len(Arms), Repeats, Len(Intensities), Len(Workloads), a, r, i, w)
    BY <1>2, Lengths, DigitsOf, Zenon
  <2> QED BY <2>1, Zenon DEF DigitsAre
<1>4. n < MainLength
  BY <1>3 DEF MainLength
<1>5. n + 1 \in BaseRuns /\ n + 1 <= MainLength /\ (n + 1) - 1 = n
  BY <1>4, Lengths DEF BaseRuns, BaseLength
<1>6. Schedule[n + 1] = MainSpec(n)
  BY <1>5, BaseEntry
<1>7. /\ MainSpec(n).workload = Workloads[1 + w] /\ MainSpec(n).intensity = Intensities[1 + i]
      /\ MainSpec(n).repeat = r + 1 /\ MainSpec(n).arm = Arms[1 + b]
  BY <1>1, <1>3, Zenon DEF MainSpec
<1> QED BY <1>5, <1>6, <1>7, Zenon

LEMMA ControlCovers ==
    ASSUME NEW w \in 0 .. Len(Workloads) - 1, NEW r \in 0 .. Repeats - 1, NEW a \in 0 .. 1
    PROVE  \E n \in BaseRuns : /\ Schedule[n].workload = Workloads[1 + w]
                               /\ Schedule[n].intensity = LowControl
                               /\ Schedule[n].repeat = r + 1
                               /\ Schedule[n].arm = IF a = 0 THEN NoControl ELSE Oracle
<1>1. w \in Nat /\ r \in Nat /\ Repeats \in Nat /\ a \in Nat
  BY Lengths
<1>2. PICK n \in Nat : n = 2 * (Repeats * (1 * w + 0) + r) + a
  <2>1. Repeats * w \in Nat
    BY <1>1
  <2> QED BY <1>1, <2>1
<1>3. /\ n < Len(Workloads) * 1 * Repeats * 2
      /\ Digit(n, 1, 2) = a /\ Digit(n, 2, Repeats) = r
      /\ Digit(n, 2 * Repeats, 1) = 0 /\ Digit(n, 2 * Repeats * 1, Len(Workloads)) = w
  <2>1. 1 \in Nat /\ 2 \in Nat /\ 0 \in 0 .. 1 - 1 /\ a \in 0 .. 2 - 1
    OBVIOUS
  <2>2. DigitsAre(n, 2, Repeats, 1, Len(Workloads), a, r, 0, w)
    BY <1>2, <2>1, Lengths, DigitsOf, Zenon
  <2> QED BY <2>2, Zenon DEF DigitsAre
<1>4. n < ControlLength
  BY <1>3, Lengths DEF ControlLength
<1>5. Digit(n, 2 * Repeats, Len(Workloads)) = w
  <2>1. 2 * Repeats * 1 = 2 * Repeats
    BY <1>1
  <2> QED BY <1>3, <2>1
<1>6. PICK k \in Nat : k = n + MainLength + 1
  BY Lengths
<1>7. k \in BaseRuns /\ ~ (k <= MainLength) /\ k - MainLength - 1 = n
  BY <1>4, <1>6, Lengths DEF BaseRuns, BaseLength
<1>8. Schedule[k] = ControlSpec(n)
  BY <1>7, BaseEntry
<1>9. /\ ControlSpec(n).workload = Workloads[1 + w] /\ ControlSpec(n).intensity = LowControl
      /\ ControlSpec(n).repeat = 1 + r
      /\ ControlSpec(n).arm = IF a = 0 THEN NoControl ELSE Oracle
  BY <1>3, <1>5, Zenon DEF ControlSpec
<1>10. 1 + r = r + 1
  BY <1>1
<1> QED BY <1>7, <1>8, <1>9, <1>10, Zenon

-----------------------------------------------------------------------------
(* With no base run missing or rejected every cell is ready.               *)

LEMMA FromOne == \A L \in Nat : \A k \in 1 .. L :
    \E x \in 0 .. L - 1 : k = 1 + x /\ k = x + 1
<1> SUFFICES ASSUME NEW L \in Nat, NEW k \in 1 .. L
             PROVE  \E x \in 0 .. L - 1 : k = 1 + x /\ k = x + 1
  OBVIOUS
<1>1. k - 1 \in 0 .. L - 1 /\ k = 1 + (k - 1) /\ k = (k - 1) + 1
  OBVIOUS
<1> QED BY <1>1

\* Where an entry of the base schedule can be.
LEMMA EntriesPlaced ==
    ASSUME NEW n \in BaseRuns
    PROVE  /\ \E k \in DOMAIN Workloads : Schedule[n].workload = Workloads[k]
           /\ \/ \E k \in DOMAIN Intensities : Schedule[n].intensity = Intensities[k]
              \/ /\ Schedule[n].intensity = LowControl
                 /\ Schedule[n].arm \in {NoControl, Oracle}
           /\ Schedule[n].repeat \in 1 .. Repeats
<1>1. \A L \in Nat : \A x \in 0 .. L - 1 : 1 + x \in 1 .. L /\ x + 1 \in 1 .. L
  OBVIOUS
<1>2. CASE n <= MainLength
  <2>1. PICK a \in 0 .. Len(Arms) - 1, r \in 0 .. Repeats - 1,
             i \in 0 .. Len(Intensities) - 1, w \in 0 .. Len(Workloads) - 1 :
          /\ n - 1 = Len(Arms) * (Repeats * (Len(Intensities) * w + i) + r) + a
          /\ Schedule[n].workload = Workloads[1 + w]
          /\ Schedule[n].intensity = Intensities[1 + i]
          /\ Schedule[n].repeat = r + 1
          /\ Schedule[n].arm = Arms[1 + ((a + r) % Len(Arms))]
    BY <1>2, MainRun
  <2>2. 1 + w \in DOMAIN Workloads /\ 1 + i \in DOMAIN Intensities /\ r + 1 \in 1 .. Repeats
    BY <1>1, Lengths, Zenon
  <2> QED BY <2>1, <2>2, Zenon
<1>3. CASE ~ (n <= MainLength)
  <2>1. PICK a \in 0 .. 1, r \in 0 .. Repeats - 1, w \in 0 .. Len(Workloads) - 1 :
          /\ n - MainLength - 1 = 2 * (Repeats * w + r) + a
          /\ Schedule[n].workload = Workloads[1 + w]
          /\ Schedule[n].intensity = LowControl
          /\ Schedule[n].repeat = r + 1
          /\ Schedule[n].arm = IF a = 0 THEN NoControl ELSE Oracle
    BY <1>3, ControlRun
  <2>2. 1 + w \in DOMAIN Workloads /\ r + 1 \in 1 .. Repeats
    BY <1>1, Lengths, Zenon
  <2>3. Schedule[n].arm \in {NoControl, Oracle}
    BY <2>1
  <2> QED BY <2>1, <2>2, <2>3, Zenon
<1> QED BY <1>2, <1>3

\* The schedule has an entry for each repeat and arm of a cell.
LEMMA CellsCovered ==
    ASSUME NEW c \in Cells, NEW r \in 1 .. Repeats, NEW arm \in ArmSet
    PROVE  \E n \in BaseRuns : /\ Schedule[n].workload = c[1] /\ Schedule[n].intensity = c[2]
                               /\ Schedule[n].repeat = r /\ Schedule[n].arm = arm
<1>1. PICK k \in 1 .. Len(Workloads), l \in 1 .. Len(Intensities), m \in 1 .. Len(Arms) :
        c[1] = Workloads[k] /\ c[2] = Intensities[l] /\ arm = Arms[m]
  BY Lengths DEF Cells, ArmSet
<1>2. PICK w \in 0 .. Len(Workloads) - 1 : k = 1 + w
  BY Lengths, FromOne, Zenon
<1>3. PICK i \in 0 .. Len(Intensities) - 1 : l = 1 + i
  BY Lengths, FromOne, Zenon
<1>4. PICK b \in 0 .. Len(Arms) - 1 : m = 1 + b
  BY Lengths, FromOne, Zenon
<1>5. PICK s \in 0 .. Repeats - 1 : r = s + 1
  BY Lengths, FromOne, Zenon
<1>6. PICK n \in BaseRuns : /\ Schedule[n].workload = Workloads[1 + w]
                            /\ Schedule[n].intensity = Intensities[1 + i]
                            /\ Schedule[n].repeat = s + 1
                            /\ Schedule[n].arm = Arms[1 + b]
  BY MainCovers
<1> QED BY <1>1, <1>2, <1>3, <1>4, <1>5, <1>6, Zenon

LEMMA ControlsCovered ==
    ASSUME NEW c \in Controls, NEW r \in 1 .. Repeats, NEW arm \in {NoControl, Oracle}
    PROVE  \E n \in BaseRuns : /\ Schedule[n].workload = c[1] /\ Schedule[n].intensity = c[2]
                               /\ Schedule[n].repeat = r /\ Schedule[n].arm = arm
<1>1. PICK k \in 1 .. Len(Workloads) : c[1] = Workloads[k] /\ c[2] = LowControl
  BY Lengths DEF Controls
<1>2. PICK w \in 0 .. Len(Workloads) - 1 : k = 1 + w
  BY Lengths, FromOne, Zenon
<1>3. PICK s \in 0 .. Repeats - 1 : r = s + 1
  BY Lengths, FromOne, Zenon
<1>4. PICK a \in 0 .. 1 : arm = IF a = 0 THEN NoControl ELSE Oracle
  <2>1. 0 \in 0 .. 1 /\ 1 \in 0 .. 1 /\ 1 # 0
    OBVIOUS
  <2> QED BY <2>1
<1>5. PICK n \in BaseRuns : /\ Schedule[n].workload = Workloads[1 + w]
                            /\ Schedule[n].intensity = LowControl
                            /\ Schedule[n].repeat = s + 1
                            /\ Schedule[n].arm = IF a = 0 THEN NoControl ELSE Oracle
  BY ControlCovers
<1> QED BY <1>1, <1>2, <1>3, <1>4, <1>5, Zenon

LEMMA AllReady ==
    ASSUME Missing = {}, Rejected = {}
    PROVE  Loaded = BaseRuns /\ ReadyCells = Cells /\ ReadyControls = Controls
<1>1. Loaded = BaseRuns
  BY DEF Loaded, Missing, Rejected
<1>2. \A c, r : RoundRuns(c, r) =
        {n \in BaseRuns : /\ Schedule[n].workload = c[1] /\ Schedule[n].intensity = c[2]
                          /\ Schedule[n].repeat = r}
  BY <1>1 DEF RoundRuns
<1>3. ASSUME NEW c \in Cells, NEW r \in 1 .. Repeats PROVE RoundArms(c, r) = ArmSet
  <2>1. RoundArms(c, r) \subseteq ArmSet
    BY <1>2, ArmsOfEntries DEF RoundArms
  <2>2. ArmSet \subseteq RoundArms(c, r)
    BY <1>2, CellsCovered DEF RoundArms
  <2> QED BY <2>1, <2>2
<1>4. ASSUME NEW c \in Controls, NEW r \in 1 .. Repeats
      PROVE  RoundArms(c, r) = {NoControl, Oracle}
  <2>1. ASSUME NEW n \in RoundRuns(c, r) PROVE Schedule[n].arm \in {NoControl, Oracle}
    <3>1. n \in BaseRuns /\ Schedule[n].intensity = LowControl
      BY <1>2 DEF Controls
    <3>2. \A k \in DOMAIN Intensities : Intensities[k] # LowControl
      BY IntensitiesAssumption
    <3> QED BY <3>1, <3>2, EntriesPlaced
  <2>2. {NoControl, Oracle} \subseteq RoundArms(c, r)
    BY <1>2, ControlsCovered DEF RoundArms
  <2> QED BY <2>1, <2>2 DEF RoundArms
<1>5. \A c \in Cells : CellReady(c, ArmSet)
  BY <1>3 DEF CellReady, CompleteRounds
<1>6. \A c \in Controls : CellReady(c, {NoControl, Oracle})
  BY <1>4 DEF CellReady, CompleteRounds
<1> QED BY <1>1, <1>5, <1>6 DEF ReadyCells, ReadyControls

-----------------------------------------------------------------------------
(* Medians.                                                                *)

LEMMA Least ==
    ASSUME NEW T \in SUBSET Nat, T # {}
    PROVE  \E x \in T : \A y \in T : x <= y
<1> DEFINE R == OpToRel(<, Nat)
<1>1. IsWellFoundedOn(R, Nat)
  BY NatLessThanWellFounded, Zenon
<1>2. \A x, y \in Nat : y < x => <<y, x>> \in R
  BY DEF OpToRel
<1> HIDE DEF R
<1>3. PICK x \in T : \A y \in T : ~ (<<y, x>> \in R)
  BY <1>1, WFMin
<1>4. ASSUME NEW y \in T PROVE x <= y
  <2>1. x \in Nat /\ y \in Nat
    OBVIOUS
  <2>2. ~ (y < x)
    BY <1>2, <1>3, <2>1, Zenon
  <2> QED BY <2>1, <2>2
<1> QED BY <1>4

LEMMA RoundsCount ==
    ASSUME NEW S \in SUBSET (1 .. Repeats)
    PROVE  /\ IsFiniteSet(S) /\ Cardinality(S) \in 0 .. Repeats
           /\ Cardinality(1 .. Repeats) = Repeats
           /\ \A T \in SUBSET S : /\ Cardinality(T) <= Cardinality(S)
                                  /\ Cardinality(T) = Cardinality(S) => T = S
           /\ Cardinality((1 .. Repeats) \ S) = Repeats - Cardinality(S)
<1>1. IsFiniteSet(1 .. Repeats) /\ Cardinality(1 .. Repeats) = Repeats
  <2>1. 1 \in Int /\ Repeats \in Int /\ Repeats > 0
    BY Lengths
  <2>2. /\ IsFiniteSet(1 .. Repeats)
        /\ Cardinality(1 .. Repeats) = IF 1 > Repeats THEN 0 ELSE Repeats - 1 + 1
    BY <2>1, FS_Interval, Zenon
  <2> QED BY <2>1, <2>2
<1>2. IsFiniteSet(S) /\ Cardinality(S) <= Cardinality(1 .. Repeats)
  BY <1>1, FS_Subset
<1>3. Cardinality(S) \in Nat
  BY <1>2, FS_CardinalityType
<1>4. \A T \in SUBSET S : /\ Cardinality(T) <= Cardinality(S)
                          /\ Cardinality(T) = Cardinality(S) => T = S
  BY <1>2, FS_Subset
<1>5. Cardinality((1 .. Repeats) \ S) = Repeats - Cardinality(S)
  <2>1. (1 .. Repeats) \cap S = S
    OBVIOUS
  <2>2. Cardinality((1 .. Repeats) \ S) = Cardinality(1 .. Repeats) - Cardinality((1 .. Repeats) \cap S)
    BY <1>1, FS_Difference, Zenon
  <2> QED BY <1>1, <2>1, <2>2, Zenon
<1> QED BY <1>1, <1>2, <1>3, <1>4, <1>5, Lengths

PerRound == [1 .. Repeats -> Int]
AtMost(f, v) == {r \in 1 .. Repeats : f[r] <= v}
AtLeast(f, v) == {r \in 1 .. Repeats : f[r] >= v}
Pairs(f) == {<<r, f[r]>> : r \in 1 .. Repeats}

LEMMA Greatest ==
    ASSUME NEW f \in PerRound, NEW S \in SUBSET (1 .. Repeats), S # {}
    PROVE  \E k \in S : \A j \in S : f[j] <= f[k]
<1> DEFINE T == {Repeats - Cardinality(AtMost(f, f[k])) : k \in S}
<1>1. \A k \in S : Repeats - Cardinality(AtMost(f, f[k])) \in Nat
  <2> SUFFICES ASSUME NEW k \in S PROVE Repeats - Cardinality(AtMost(f, f[k])) \in Nat
    OBVIOUS
  <2>1. AtMost(f, f[k]) \in SUBSET (1 .. Repeats)
    BY DEF AtMost
  <2>2. Cardinality(AtMost(f, f[k])) \in 0 .. Repeats
    BY <2>1, RoundsCount
  <2> QED BY <2>2, Lengths
<1>2. T \in SUBSET Nat /\ T # {}
  BY <1>1
<1>3. PICK x \in T : \A y \in T : x <= y
  <2> HIDE DEF T
  <2> QED BY <1>2, Least
<1>4. PICK k \in S : x = Repeats - Cardinality(AtMost(f, f[k]))
  BY <1>3
<1>5. ASSUME NEW j \in S, ~ (f[j] <= f[k]) PROVE FALSE
  <2>1. f[j] \in Int /\ f[k] \in Int /\ \A r \in 1 .. Repeats : f[r] \in Int
    BY DEF PerRound
  <2>2. /\ AtMost(f, f[k]) \in SUBSET AtMost(f, f[j])
        /\ AtMost(f, f[j]) \in SUBSET (1 .. Repeats)
    <3>1. f[k] <= f[j]
      BY <1>5, <2>1
    <3> QED BY <2>1, <3>1 DEF AtMost
  <2>3. j \in AtMost(f, f[j]) /\ j \notin AtMost(f, f[k])
    <3>1. f[j] <= f[j]
      BY <2>1
    <3> QED BY <1>5, <3>1, Zenon DEF AtMost
  <2>4. /\ Cardinality(AtMost(f, f[k])) <= Cardinality(AtMost(f, f[j]))
        /\ Cardinality(AtMost(f, f[k])) # Cardinality(AtMost(f, f[j]))
    BY <2>2, <2>3, RoundsCount
  <2>5. Cardinality(AtMost(f, f[j])) \in 0 .. Repeats /\ Cardinality(AtMost(f, f[k])) \in 0 .. Repeats
    <3>1. AtMost(f, f[k]) \in SUBSET (1 .. Repeats)
      BY DEF AtMost
    <3> QED BY <2>2, <3>1, RoundsCount
  <2>6. Repeats - Cardinality(AtMost(f, f[k])) <= Repeats - Cardinality(AtMost(f, f[j]))
    BY <1>3, <1>4
  <2> QED BY <2>4, <2>5, <2>6, Lengths
<1> QED BY <1>5

\* In half of the rounds the value is at most that of the middle one, and in
\* half of them at least.
LEMMA MiddleExists ==
    ASSUME NEW f \in PerRound
    PROVE  \E k \in 1 .. Repeats : /\ 2 * Cardinality(AtMost(f, f[k])) >= Repeats
                                   /\ 2 * Cardinality(AtLeast(f, f[k])) >= Repeats
<1> DEFINE Good == {k \in 1 .. Repeats : 2 * Cardinality(AtMost(f, f[k])) >= Repeats}
           T == {Cardinality(AtMost(f, f[k])) : k \in Good}
<1>1. \A v : /\ AtMost(f, v) \in SUBSET (1 .. Repeats)
             /\ AtLeast(f, v) \in SUBSET (1 .. Repeats)
  BY DEF AtMost, AtLeast
<1>2. \A v : /\ Cardinality(AtMost(f, v)) \in 0 .. Repeats
             /\ Cardinality(AtLeast(f, v)) \in 0 .. Repeats
  BY <1>1, RoundsCount
<1>3. Good # {}
  <2>1. (1 .. Repeats) \in SUBSET (1 .. Repeats) /\ 1 .. Repeats # {}
    <3>1. 1 \in 1 .. Repeats
      BY Lengths
    <3> QED BY <3>1, Zenon
  <2>2. PICK k \in 1 .. Repeats : \A j \in 1 .. Repeats : f[j] <= f[k]
    BY <2>1, Greatest
  <2>3. AtMost(f, f[k]) = 1 .. Repeats
    BY <2>2 DEF AtMost
  <2>4. Cardinality(AtMost(f, f[k])) = Repeats
    BY <2>1, <2>3, RoundsCount
  <2>5. k \in Good
    BY <2>4, Lengths
  <2> QED BY <2>5
<1>4. T \in SUBSET Nat /\ T # {}
  BY <1>2, <1>3
<1>5. PICK x \in T : \A y \in T : x <= y
  <2> HIDE DEF T
  <2> QED BY <1>4, Least
<1>6. PICK k \in Good : \A j \in Good : Cardinality(AtMost(f, f[k])) <= Cardinality(AtMost(f, f[j]))
  BY <1>5
<1>7. ASSUME 2 * Cardinality(AtLeast(f, f[k])) < Repeats PROVE FALSE
  <2> DEFINE Less == (1 .. Repeats) \ AtLeast(f, f[k])
  <2>1. Cardinality(Less) = Repeats - Cardinality(AtLeast(f, f[k]))
    BY <1>1, RoundsCount
  <2>2. 2 * Cardinality(Less) >= Repeats /\ Cardinality(Less) # 0
    BY <1>2, <1>7, <2>1, Lengths
  <2>3. Less # {} /\ Less \in SUBSET (1 .. Repeats)
    BY <2>2, FS_EmptySet
  <2>4. PICK j \in Less : \A i \in Less : f[i] <= f[j]
    <3> HIDE DEF Less
    <3> QED BY <2>3, Greatest
  <2>5. \A r \in 1 .. Repeats : f[r] \in Int
    BY DEF PerRound
  <2>6. j \in 1 .. Repeats /\ f[j] < f[k]
    BY <2>4, <2>5 DEF AtLeast
  <2>7. Less \in SUBSET AtMost(f, f[j])
    BY <2>4 DEF AtMost
  <2>8. Cardinality(Less) <= Cardinality(AtMost(f, f[j]))
    <3> HIDE DEF Less
    <3> QED BY <1>1, <2>7, RoundsCount
  <2>9. j \in Good
    <3>1. Cardinality(Less) \in Int
      BY <1>2, <2>1, Lengths
    <3> HIDE DEF Less
    <3> QED BY <1>2, <2>2, <2>6, <2>8, <3>1, Lengths, SMTT(30)
  <2>10. AtMost(f, f[j]) \in SUBSET AtMost(f, f[k]) /\ k \in AtMost(f, f[k])
         /\ k \notin AtMost(f, f[j])
    BY <2>5, <2>6 DEF AtMost
  <2>11. /\ Cardinality(AtMost(f, f[j])) <= Cardinality(AtMost(f, f[k]))
         /\ Cardinality(AtMost(f, f[j])) # Cardinality(AtMost(f, f[k]))
    BY <1>1, <2>10, RoundsCount
  <2>12. Cardinality(AtMost(f, f[k])) <= Cardinality(AtMost(f, f[j]))
    BY <1>6, <2>9
  <2> HIDE DEF Good
  <2> QED BY <1>2, <2>11, <2>12
<1>8. 2 * Cardinality(AtLeast(f, f[k])) >= Repeats
  BY <1>2, <1>7, Lengths
<1> QED BY <1>6, <1>8

LEMMA PairsCount ==
    ASSUME NEW f, NEW S \in SUBSET (1 .. Repeats)
    PROVE  Cardinality({<<r, f[r]>> : r \in S}) = Cardinality(S)
<1> DEFINE P == {<<r, f[r]>> : r \in S}
           g == [r \in S |-> <<r, f[r]>>]
<1>1. g \in Surjection(S, P)
  <2>1. g \in [S -> P] /\ \A m \in P : \E r \in S : g[r] = m
    OBVIOUS
  <2> QED BY <2>1 DEF Surjection
<1>2. g \in Injection(S, P)
  <2>1. g \in [S -> P] /\ \A q, r \in S : g[q] = g[r] => q = r
    OBVIOUS
  <2> QED BY <2>1 DEF Injection, IsInjective
<1>3. IsFiniteSet(S)
  BY RoundsCount
<1> HIDE DEF P, g
<1>4. Cardinality(P) = Cardinality(S)
  BY <1>1, <1>2, <1>3, FS_Surjection
<1> QED BY <1>4 DEF P

\* What the median of one value per repeat says about the repeats.
LEMMA MedianCounts ==
    ASSUME NEW f \in PerRound, NEW t \in Int
    PROVE  /\ Median(Pairs(f)) \in Int
           /\ Median(Pairs(f)) >= t => 2 * Cardinality(AtLeast(f, t)) >= Repeats
           /\ Median(Pairs(f)) < t => 2 * Cardinality(AtLeast(f, t)) <= Repeats
<1> DEFINE M == Pairs(f)
           Middle(v) == /\ 2 * Cardinality({m \in M : m[2] <= v}) >= Cardinality(M)
                        /\ 2 * Cardinality({m \in M : m[2] >= v}) >= Cardinality(M)
<1>1. Cardinality(M) = Repeats
  <2>1. 1 .. Repeats \in SUBSET (1 .. Repeats)
    OBVIOUS
  <2>2. Cardinality({<<r, f[r]>> : r \in 1 .. Repeats}) = Cardinality(1 .. Repeats)
    BY <2>1, PairsCount
  <2>3. Cardinality(1 .. Repeats) = Repeats
    BY <2>1, RoundsCount
  <2> QED BY <2>2, <2>3 DEF Pairs
<1>2. ASSUME NEW v
      PROVE  /\ Cardinality({m \in M : m[2] <= v}) = Cardinality(AtMost(f, v))
             /\ Cardinality({m \in M : m[2] >= v}) = Cardinality(AtLeast(f, v))
  <2>1. AtMost(f, v) \in SUBSET (1 .. Repeats) /\ AtLeast(f, v) \in SUBSET (1 .. Repeats)
    BY DEF AtMost, AtLeast
  <2>2. {m \in M : m[2] <= v} = {<<r, f[r]>> : r \in AtMost(f, v)}
    BY DEF Pairs, AtMost
  <2>3. {m \in M : m[2] >= v} = {<<r, f[r]>> : r \in AtLeast(f, v)}
    BY DEF Pairs, AtLeast
  <2> QED BY <2>1, <2>2, <2>3, PairsCount
<1>3. Median(M) = CHOOSE v \in {m[2] : m \in M} : Middle(v)
  BY DEF Median
<1>4. \E v \in {m[2] : m \in M} : Middle(v)
  <2>1. PICK k \in 1 .. Repeats : /\ 2 * Cardinality(AtMost(f, f[k])) >= Repeats
                                  /\ 2 * Cardinality(AtLeast(f, f[k])) >= Repeats
    BY MiddleExists
  <2>2. Middle(f[k])
    BY <1>1, <1>2, <2>1
  <2>3. f[k] \in {m[2] : m \in M}
    <3>1. <<k, f[k]>> \in M /\ <<k, f[k]>>[2] = f[k]
      BY DEF Pairs
    <3> QED BY <3>1
  <2> HIDE DEF Middle, M
  <2> QED BY <2>2, <2>3
<1>5. Median(M) \in {m[2] : m \in M} /\ Middle(Median(M))
  <2> HIDE DEF Middle, M
  <2> QED BY <1>3, <1>4
<1>6. PICK v \in Int : v = Median(M)
  <2>1. \A m \in M : m[2] \in Int
    BY DEF Pairs, PerRound
  <2> QED BY <1>5, <2>1
<1>7. 2 * Cardinality(AtMost(f, v)) >= Repeats /\ 2 * Cardinality(AtLeast(f, v)) >= Repeats
  BY <1>1, <1>2, <1>5, <1>6
<1>8. \A r \in 1 .. Repeats : f[r] \in Int
  BY DEF PerRound
<1>9. /\ AtMost(f, v) \in SUBSET (1 .. Repeats) /\ AtLeast(f, v) \in SUBSET (1 .. Repeats)
      /\ AtLeast(f, t) \in SUBSET (1 .. Repeats)
  BY DEF AtMost, AtLeast
<1>10. /\ Cardinality(AtMost(f, v)) \in 0 .. Repeats /\ Cardinality(AtLeast(f, v)) \in 0 .. Repeats
       /\ Cardinality(AtLeast(f, t)) \in 0 .. Repeats
  BY <1>9, RoundsCount
<1>11. CASE v >= t
  <2>1. AtLeast(f, v) \in SUBSET AtLeast(f, t)
    BY <1>8, <1>11 DEF AtLeast
  <2>2. Cardinality(AtLeast(f, v)) <= Cardinality(AtLeast(f, t))
    BY <1>9, <2>1, RoundsCount
  <2> QED BY <1>6, <1>7, <1>10, <1>11, <2>2, Lengths
<1>12. CASE v < t
  <2>1. AtLeast(f, t) \in SUBSET ((1 .. Repeats) \ AtMost(f, v))
    BY <1>8, <1>12 DEF AtLeast, AtMost
  <2>2. (1 .. Repeats) \ AtMost(f, v) \in SUBSET (1 .. Repeats)
    OBVIOUS
  <2>3. Cardinality(AtLeast(f, t)) <= Cardinality((1 .. Repeats) \ AtMost(f, v))
    BY <2>1, <2>2, RoundsCount
  <2>4. Cardinality((1 .. Repeats) \ AtMost(f, v)) = Repeats - Cardinality(AtMost(f, v))
    BY <1>9, RoundsCount
  <2> QED BY <1>6, <1>7, <1>10, <1>12, <2>3, <2>4, Lengths
<1> QED BY <1>6, <1>11, <1>12

\* Rounding down does not matter to a bound from below.
LEMMA FloorBound ==
    ASSUME NEW x \in Int, NEW d \in Nat, d > 0, NEW t \in Int
    PROVE  x \div d \in Int /\ (x \div d >= t <=> x >= d * t)
<1>1. x \div d \in Int /\ x % d \in 0 .. d - 1
  BY SMT
<1>2. x = d * (x \div d) + (x % d)
  BY SMT
<1>3. PICK q \in Int, z \in 0 .. d - 1 : q = x \div d /\ x = d * q + z
  BY <1>1, <1>2
<1>4. CASE q >= t
  <2>1. d * t <= d * q /\ d * t \in Int /\ d * q \in Int
    BY <1>4, Scaling
  <2> QED BY <1>3, <1>4, <2>1
<1>5. CASE q < t
  <2>1. d * (q + 1) <= d * t /\ d * (q + 1) = d * q + d /\ d * t \in Int /\ d * q \in Int
    BY <1>5, Scaling
  <2> QED BY <1>3, <1>5, <2>1
<1> QED BY <1>3, <1>4, <1>5

-----------------------------------------------------------------------------
(* A go meets the thresholds.                                             *)

Measured(n) ==
    /\ tree[n].p95 \in Nat \ {0} /\ tree[n].goodput \in Nat
    /\ Schedule[n].arm = NoControl => tree[n].goodput # 0

MeasuredInv ==
    /\ TreeShape
    /\ world \in Measurements
    /\ \A n \in BaseRuns : Exists(n) => Measured(n)

LEMMA WorldsMeasure ==
    ASSUME NEW n \in BaseRuns, world \in Measurements, NEW fault
    PROVE  /\ Artifact(n, fault).p95 \in Nat \ {0} /\ Artifact(n, fault).goodput \in Nat
           /\ Schedule[n].arm = NoControl => Artifact(n, fault).goodput # 0
<1> DEFINE s == Schedule[n]
           m == world[<<s.workload, s.intensity>>][s.arm][s.repeat]
<1>1. /\ s.workload \in {Workloads[k] : k \in DOMAIN Workloads}
      /\ s.intensity \in {LowControl} \cup {Intensities[k] : k \in DOMAIN Intensities}
      /\ s.repeat \in 1 .. Repeats
  BY EntriesPlaced
<1>2. s.arm \in ArmSet
  BY ArmsOfEntries
<1>3. m.p95 \in Nat \ {0} /\ m.goodput \in Nat /\ (s.arm = NoControl => m.goodput # 0)
  <2> HIDE DEF s
  <2> QED BY <1>1, <1>2, MeasurementsAssumption
<1>4. Artifact(n, fault).p95 = m.p95 /\ Artifact(n, fault).goodput = m.goodput
  BY DEF Artifact
<1> HIDE DEF m
<1> QED BY <1>3, <1>4

LEMMA MeasuredAlways == G0Spec => []MeasuredInv
<1>1. G0Init => MeasuredInv
  BY Lengths DEF G0Init, MeasuredInv, TreeShape, Exists
<1>2. ASSUME MeasuredInv, [G0Next]_g0vars PROVE MeasuredInv'
  <2>1. TreeShape'
    BY <1>2, TreeGrows DEF MeasuredInv
  <2>2. world' = world
    BY <1>2 DEF G0Next, Hold, Release, Run, g0vars
  <2>3. CASE UNCHANGED tree
    BY <1>2, <2>1, <2>2, <2>3 DEF MeasuredInv, Measured, Exists
  <2>4. CASE \E fault \in Faults : Run(fault)
    <3>1. PICK fault \in Faults : Run(fault)
      BY <2>4
    <3>2. PICK k \in AllRuns : tree' = [tree EXCEPT ![k] = Artifact(k, fault)]
      BY <3>1 DEF Run
    <3>3. ASSUME NEW n \in BaseRuns, Exists(n)' PROVE Measured(n)'
      <4>1. CASE n = k
        <5>1. tree'[n] = Artifact(n, fault)
          BY <1>2, <3>2, <4>1 DEF MeasuredInv, TreeShape
        <5>2. /\ tree'[n].p95 \in Nat \ {0} /\ tree'[n].goodput \in Nat
              /\ Schedule[n].arm = NoControl => tree'[n].goodput # 0
          BY <1>2, <5>1, WorldsMeasure DEF MeasuredInv
        <5> QED BY <5>2 DEF Measured
      <4>2. CASE n # k
        <5>1. tree'[n] = tree[n]
          BY <1>2, <3>2, <4>2, Lengths DEF MeasuredInv, TreeShape
        <5>2. Exists(n)
          BY <3>3, <5>1 DEF Exists
        <5> QED BY <1>2, <5>1, <5>2 DEF MeasuredInv, Measured
      <4> QED BY <4>1, <4>2
    <3> QED BY <1>2, <2>1, <2>2, <3>3 DEF MeasuredInv
  <2> QED BY <1>2, <2>3, <2>4 DEF G0Next, Hold, Release, g0vars
<1> QED BY <1>1, <1>2, PTL DEF G0Spec

\* The run of a cell, repeat and arm, however it is looked up.
At(c, r, arm) == tree[CHOOSE n \in BaseRuns :
                        /\ Schedule[n].workload = c[1] /\ Schedule[n].intensity = c[2]
                        /\ Schedule[n].repeat = r /\ Schedule[n].arm = arm]

LEMMA TheRun ==
    ASSUME MeasuredInv, NEW c, NEW arms, CellReady(c, arms), NEW r \in 1 .. Repeats, NEW arm \in arms
    PROVE  /\ Of(c, r, arm) = At(c, r, arm)
           /\ At(c, r, arm).p95 \in Nat \ {0} /\ At(c, r, arm).goodput \in Nat
           /\ arm = NoControl => At(c, r, arm).goodput # 0
<1>1. RoundArms(c, r) = arms
  BY DEF CellReady, CompleteRounds
<1> DEFINE m == CHOOSE n \in RoundRuns(c, r) : Schedule[n].arm = arm
           Fits(n) == /\ Schedule[n].workload = c[1] /\ Schedule[n].intensity = c[2]
                      /\ Schedule[n].repeat = r /\ Schedule[n].arm = arm
           k == CHOOSE n \in BaseRuns : Fits(n)
<1>2. m \in RoundRuns(c, r) /\ Schedule[m].arm = arm
  BY <1>1 DEF RoundArms
<1>3. m \in BaseRuns /\ m \in Loaded /\ Fits(m)
  BY <1>2 DEF RoundRuns
<1>4. k \in BaseRuns /\ Fits(k)
  <2> HIDE DEF Fits, m
  <2> QED BY <1>3
<1>5. m = k
  <2> HIDE DEF m, k
  <2>1. SameEntry(m, k)
    BY <1>3, <1>4 DEF SameEntry
  <2> QED BY <1>3, <1>4, <2>1, EntriesDiffer
<1>6. Of(c, r, arm) = tree[m] /\ At(c, r, arm) = tree[k]
  BY DEF Of, At
<1>7. Exists(m)
  BY <1>3 DEF Loaded
<1> HIDE DEF m, k
<1> QED BY <1>3, <1>5, <1>6, <1>7 DEF MeasuredInv, Measured

Most(S) == 2 * Cardinality(S) > Repeats
Regressed(c) == {r \in 1 .. Repeats : 100 * At(c, r, NoControl).p95 >= 110 * At(c, r, Oracle).p95}
Change(c, r) == 20 * (At(c, r, Oracle).goodput - At(c, r, NoControl).goodput)
Loses(c) == {r \in 1 .. Repeats : Change(c, r) < -At(c, r, NoControl).goodput}
Gains(c) == {r \in 1 .. Repeats : Change(c, r) > At(c, r, NoControl).goodput}

\* With an odd number of repeats a median on one side has most of them there.
LEMMA MedianIsMost ==
    ASSUME NEW f \in PerRound, NEW t \in Int
    PROVE  Median(Pairs(f)) \in Int /\ (Median(Pairs(f)) >= t <=> Most(AtLeast(f, t)))
<1>1. AtLeast(f, t) \in SUBSET (1 .. Repeats)
  BY DEF AtLeast
<1>2. PICK x \in Nat : x = Cardinality(AtLeast(f, t))
  <2>1. Cardinality(AtLeast(f, t)) \in 0 .. Repeats
    BY <1>1, RoundsCount, Zenon
  <2>2. Cardinality(AtLeast(f, t)) \in Nat
    BY <2>1, Lengths
  <2> QED BY <2>2
<1>3. Repeats \in Nat /\ Repeats % 2 = 1
  BY RepeatsAssumption
<1>4. 2 * x # Repeats
  BY <1>3
<1>5. /\ Median(Pairs(f)) >= t => 2 * x >= Repeats
      /\ Median(Pairs(f)) < t => 2 * x <= Repeats
  BY <1>2, MedianCounts
<1>6. Median(Pairs(f)) \in Int
  BY MedianCounts
<1> QED BY <1>2, <1>3, <1>4, <1>5, <1>6 DEF Most

LEMMA RegressionCounts ==
    ASSUME MeasuredInv, NEW c, NEW arms, NoControl \in arms, Oracle \in arms, CellReady(c, arms)
    PROVE  /\ TailRegression(c, arms) \in Int
           /\ TailRegression(c, arms) >= 100 <=> Most(Regressed(c))
<1> DEFINE s(r) == At(c, r, NoControl).p95
           o(r) == At(c, r, Oracle).p95
           f == [r \in 1 .. Repeats |-> PctRegression(s(r), o(r))]
<1>1. ASSUME NEW r \in 1 .. Repeats
      PROVE  /\ Of(c, r, NoControl).p95 = s(r) /\ Of(c, r, Oracle).p95 = o(r)
             /\ s(r) \in Nat \ {0} /\ o(r) \in Nat \ {0}
  BY TheRun
<1>2. TailRegression(c, arms) = Median(Pairs(f))
  <2>1. TailRegression(c, arms) =
          Median({<<r, PctRegression(Of(c, r, NoControl).p95, Of(c, r, Oracle).p95)>> :
                    r \in 1 .. Repeats})
    BY DEF TailRegression, OverRounds, CellReady
  <2>2. {<<r, PctRegression(Of(c, r, NoControl).p95, Of(c, r, Oracle).p95)>> : r \in 1 .. Repeats}
          = Pairs(f)
    BY <1>1 DEF Pairs
  <2> QED BY <2>1, <2>2
<1>3. ASSUME NEW r \in 1 .. Repeats
      PROVE  PctRegression(s(r), o(r)) \in Int
             /\ (PctRegression(s(r), o(r)) >= 100 <=> 100 * s(r) >= 110 * o(r))
  <2>1. PICK a \in Nat, d \in Nat : a = s(r) /\ d = o(r) /\ d > 0
    BY <1>1
  <2>2. PICK x \in Int : x = (a - d) * 1000
    OBVIOUS
  <2>3. x \div d \in Int /\ (x \div d >= 100 <=> x >= d * 100)
    BY <2>1, FloorBound
  <2>4. x >= d * 100 <=> 100 * a >= 110 * d
    BY <2>2
  <2> HIDE DEF s, o
  <2> QED BY <2>1, <2>2, <2>3, <2>4 DEF PctRegression
<1>4. f \in PerRound /\ AtLeast(f, 100) = Regressed(c)
  BY <1>3 DEF PerRound, AtLeast, Regressed
<1> HIDE DEF f
<1> QED BY <1>2, <1>4, MedianIsMost

LEMMA CapacityCounts ==
    ASSUME MeasuredInv, NEW c, CellReady(c, ArmSet), CapacityGate(c)
    PROVE  ~ Most(Loses(c)) /\ ~ Most(Gains(c))
<1> DEFINE b(r) == At(c, r, NoControl).goodput
           o(r) == At(c, r, Oracle).goodput
           loss == [r \in 1 .. Repeats |-> PctImprovement(b(r), o(r))]
           gain == [r \in 1 .. Repeats |-> PctRegression(o(r), b(r))]
<1>0. NoControl \in ArmSet /\ Oracle \in ArmSet
  BY ArmsAssumption DEF ArmSet
<1>1. ASSUME NEW r \in 1 .. Repeats
      PROVE  /\ Of(c, r, NoControl).goodput = b(r) /\ Of(c, r, Oracle).goodput = o(r)
             /\ b(r) \in Nat /\ b(r) > 0 /\ o(r) \in Nat
  BY <1>0, TheRun
<1>2. GoodputLoss(c, Oracle) = Median(Pairs(loss))
  <2>1. GoodputLoss(c, Oracle) =
          Median({<<r, PctImprovement(Of(c, r, NoControl).goodput, Of(c, r, Oracle).goodput)>> :
                    r \in 1 .. Repeats})
    BY DEF GoodputLoss, OverRounds, CellReady
  <2>2. {<<r, PctImprovement(Of(c, r, NoControl).goodput, Of(c, r, Oracle).goodput)>> :
           r \in 1 .. Repeats} = Pairs(loss)
    BY <1>1 DEF Pairs
  <2> QED BY <2>1, <2>2
<1>3. GoodputGain(c, Oracle) = Median(Pairs(gain))
  <2>1. GoodputGain(c, Oracle) =
          Median({<<r, PctRegression(Of(c, r, Oracle).goodput, Of(c, r, NoControl).goodput)>> :
                    r \in 1 .. Repeats})
    BY DEF GoodputGain, OverRounds, CellReady
  <2>2. {<<r, PctRegression(Of(c, r, Oracle).goodput, Of(c, r, NoControl).goodput)>> :
           r \in 1 .. Repeats} = Pairs(gain)
    BY <1>1 DEF Pairs
  <2> QED BY <2>1, <2>2
<1>4. ASSUME NEW r \in 1 .. Repeats
      PROVE  /\ PctImprovement(b(r), o(r)) \in Int /\ PctRegression(o(r), b(r)) \in Int
             /\ PctImprovement(b(r), o(r)) >= -50 <=> ~ (Change(c, r) > b(r))
             /\ PctRegression(o(r), b(r)) >= -50 <=> ~ (Change(c, r) < -b(r))
  <2>1. PICK d \in Nat, a \in Nat : a = o(r) /\ d = b(r) /\ d > 0
    BY <1>1
  <2>2. PICK x \in Int : x = (d - a) * 1000
    OBVIOUS
  <2>3. PICK y \in Int : y = (a - d) * 1000
    OBVIOUS
  <2>4. x \div d \in Int /\ (x \div d >= -50 <=> x >= d * (-50))
    BY <2>1, FloorBound
  <2>5. y \div d \in Int /\ (y \div d >= -50 <=> y >= d * (-50))
    BY <2>1, FloorBound
  <2>6. Change(c, r) = 20 * (a - d)
    BY <2>1 DEF Change
  <2>7. /\ x >= d * (-50) <=> ~ (20 * (a - d) > d)
        /\ y >= d * (-50) <=> ~ (20 * (a - d) < -d)
    BY <2>2, <2>3
  <2>8. PctImprovement(b(r), o(r)) = x \div d /\ PctRegression(o(r), b(r)) = y \div d
    BY <2>1, <2>2, <2>3 DEF PctImprovement, PctRegression
  <2> HIDE DEF b, o
  <2> QED BY <2>1, <2>4, <2>5, <2>6, <2>7, <2>8
<1>5. loss \in PerRound /\ gain \in PerRound
  BY <1>4 DEF PerRound
<1>6. /\ AtLeast(loss, -50) = (1 .. Repeats) \ Gains(c)
      /\ AtLeast(gain, -50) = (1 .. Repeats) \ Loses(c)
  BY <1>4 DEF AtLeast, Gains, Loses
<1>7. Most((1 .. Repeats) \ Gains(c)) /\ Most((1 .. Repeats) \ Loses(c))
  <2> HIDE DEF loss, gain
  <2>1. -50 \in Int
    OBVIOUS
  <2> QED BY <1>2, <1>3, <1>5, <1>6, <2>1, MedianIsMost DEF CapacityGate
<1>8. Gains(c) \in SUBSET (1 .. Repeats) /\ Loses(c) \in SUBSET (1 .. Repeats)
  BY DEF Gains, Loses
<1>9. ASSUME NEW S \in SUBSET (1 .. Repeats), Most((1 .. Repeats) \ S) PROVE ~ Most(S)
  <2>1. Cardinality((1 .. Repeats) \ S) = Repeats - Cardinality(S) /\ Cardinality(S) \in 0 .. Repeats
    BY RoundsCount
  <2> QED BY <1>9, <2>1, Lengths DEF Most
<1> QED BY <1>7, <1>8, <1>9

\* The report says go only of a matrix that fulfils the numeric thresholds of the protocol,
\* whatever was measured: from medians and percentages to single repeats.
THEOREM GoThresholdsMet == G0Spec => []GoMeetsThresholds
<1>1. ASSUME MeasuredInv PROVE GoMeetsThresholds
  <2> SUFFICES ASSUME Rebuild.verdict = "go"
               PROVE  /\ \A n \in BaseRuns : Exists(n) /\ Passing(n)
                      /\ \A c \in Cells : /\ Most(Regressed(c))
                                          /\ Cardinality({r \in 1 .. Repeats :
                                               PressureExplained(At(c, r, NoControl),
                                                                 At(c, r, Oracle))}) >= 2
                      /\ \A c \in Cells : ~GenericEquivalent(c)
                      /\ \A c \in Controls : ~Most(Regressed(c))
                      /\ \/ \A c \in Cells : ~Most(Loses(c)) /\ ~Most(Gains(c))
                         \/ \A n \in AllRuns : Exists(n) /\ Passing(n)
    BY DEF GoMeetsThresholds, Most, Regressed, Loses, Gains, Change, At
  <2>1. ~ Errors
    BY VerdictsAreClean
  <2>2. JudgedCells = ReadyCells /\ JudgedControls = ReadyControls
    BY <2>1 DEF Errors, JudgedCells, JudgedControls, ReadyCells, ReadyControls
  <2>3. Missing = {} /\ CompleteReport(JudgedCells).verdict = "go"
    BY <2>1 DEF Rebuild, Report
  <2>4. Rejected = {} /\ ~ FrontierErrors
    BY <2>1 DEF Errors, BaseErrors
  <2>5. Loaded = BaseRuns /\ ReadyCells = Cells /\ ReadyControls = Controls
    BY <2>3, <2>4, AllReady
  <2>6. /\ \A c \in Cells : ~GenericEquivalent(c) /\ TailGate(c) /\ CounterGate(c)
        /\ \A c \in Controls : AbsenceGate(c)
        /\ (\A c \in Cells : CapacityGate(c)) \/ FrontierComplete
    BY <2>2, <2>3, <2>5 DEF CompleteReport, Report
  <2>7. NoControl \in ArmSet /\ Oracle \in ArmSet
    BY ArmsAssumption DEF ArmSet
  <2>8. /\ \A c \in Cells : CellReady(c, ArmSet)
        /\ \A c \in Controls : CellReady(c, {NoControl, Oracle})
    BY <2>5 DEF ReadyCells, ReadyControls
  <2>9. \A n \in BaseRuns : Exists(n) /\ Passing(n)
    BY <2>5 DEF Loaded, Passing
  <2>10. ASSUME NEW c \in Cells
         PROVE  /\ Most(Regressed(c))
                /\ Cardinality({r \in 1 .. Repeats :
                     PressureExplained(At(c, r, NoControl), At(c, r, Oracle))}) >= 2
    <3>1. Most(Regressed(c))
      BY <1>1, <2>6, <2>7, <2>8, RegressionCounts DEF TailGate
    <3>2. CompleteRounds(c, ArmSet) = 1 .. Repeats
      BY <2>8 DEF CellReady
    <3>3. \A r \in 1 .. Repeats : /\ Of(c, r, NoControl) = At(c, r, NoControl)
                                  /\ Of(c, r, Oracle) = At(c, r, Oracle)
      BY <1>1, <2>7, <2>8, TheRun
    <3>4. {r \in CompleteRounds(c, ArmSet) : PressureExplained(Of(c, r, NoControl), Of(c, r, Oracle))}
            = {r \in 1 .. Repeats : PressureExplained(At(c, r, NoControl), At(c, r, Oracle))}
      BY <3>2, <3>3
    <3> QED BY <2>6, <3>1, <3>4 DEF CounterGate
  <2>11. ASSUME NEW c \in Controls PROVE ~Most(Regressed(c))
    <3>1. TailRegression(c, {NoControl, Oracle}) < 100
      BY <2>6 DEF AbsenceGate
    <3>2. TailRegression(c, {NoControl, Oracle}) >= 100 <=> Most(Regressed(c))
      BY <1>1, <2>8, RegressionCounts
    <3>3. TailRegression(c, {NoControl, Oracle}) \in Int
      BY <1>1, <2>8, RegressionCounts
    <3> QED BY <3>1, <3>2, <3>3
  <2>12. CASE \A c \in Cells : CapacityGate(c)
    <3>1. \A c \in Cells : ~Most(Loses(c)) /\ ~Most(Gains(c))
      BY <1>1, <2>8, <2>12, CapacityCounts
    <3> QED BY <2>6, <2>9, <2>10, <2>11, <3>1
  <2>13. CASE FrontierComplete
    <3>1. \A n \in AllRuns : Exists(n) /\ Passing(n)
      BY <2>4, <2>9, <2>13 DEF FrontierComplete, FrontierRuns, FrontierErrors, FrontierPoint, Passing
    <3> QED BY <2>6, <2>9, <2>10, <2>11, <3>1
  <2> QED BY <2>6, <2>12, <2>13
<1> QED BY <1>1, MeasuredAlways, PTL
=============================================================================
