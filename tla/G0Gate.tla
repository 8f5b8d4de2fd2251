-------------------------------- MODULE G0Gate --------------------------------
(***************************************************************************)
(* The G0 Go/Stop gate: the frozen schedule g0_pathology.py init writes,   *)
(* the run tree the matrix runner fills in schedule order, and the verdict *)
(* rebuild_g0_formal.py computes from whatever the tree holds.  The runner *)
(* (run_g0_matrix.sh, not in the repository) appends one run directory at  *)
(* a time, never overwrites one, stops on a partial one and may be killed  *)
(* at any moment; a run may also come out rejected by a gate of load_run.  *)
(* Verdict is a state function: the report may be rebuilt at any time.     *)
(*                                                                         *)
(* Percentages are in permille, rounded down.                              *)
(***************************************************************************)
EXTENDS Integers, Sequences, FiniteSets

CONSTANTS
    Workloads,     \* WORKLOADS, a sequence
    Intensities,   \* INTENSITIES, a sequence
    Repeats,       \* REPEATS
    Arms,          \* ARMS, a sequence
    GenericArms,   \* GENERIC_ARMS
    Budgets,       \* FRONTIER_BUDGETS, a sequence
    MinCells,      \* cells a Go needs
    MinControls,   \* low-concurrency controls a Go needs
    Measurements,  \* what the cells' runs would measure, one function each
    Faults,        \* how a run may come out wrong
    Holdable,      \* entries an operator may hold back: a bound
    Absent         \* a run directory that does not exist

NoControl == "no_control"
Oracle == "materialization_paced_oracle"
LowControl == "low_control"

IsList(s) ==
    /\ s \in Seq({s[k] : k \in DOMAIN s})
    /\ \A i, j \in DOMAIN s : s[i] = s[j] => i = j

ASSUME ListsAssumption == IsList(Workloads) /\ IsList(Intensities) /\ IsList(Arms) /\ IsList(Budgets)
ASSUME IntensitiesAssumption == \A k \in DOMAIN Intensities : Intensities[k] # LowControl
ASSUME RepeatsAssumption == Repeats \in Nat /\ Repeats % 2 = 1
ASSUME ArmsAssumption == {NoControl, Oracle} \cup GenericArms \subseteq {Arms[k] : k \in DOMAIN Arms}

ArmSet == {Arms[k] : k \in DOMAIN Arms}

\* A run's own baseline may not be zero: the percentages divide by it.
ASSUME MeasurementsAssumption == \A w \in Measurements :
    \A a \in {Workloads[k] : k \in DOMAIN Workloads},
       b \in {LowControl} \cup {Intensities[k] : k \in DOMAIN Intensities},
       arm \in ArmSet, r \in 1 .. Repeats :
        LET m == w[<<a, b>>][arm][r] IN
        m.p95 \in Nat \ {0} /\ m.goodput \in Nat /\ (arm = NoControl => m.goodput # 0)

VARIABLES
    world,   \* the measurements, fixed by the hardware before the first run
    tree,    \* the run directories under run_root
    held     \* entries an operator keeps the runner from for now

g0vars == <<world, tree, held>>

-----------------------------------------------------------------------------
(* The schedule: base matrix, low-concurrency controls, frontier.          *)

MainLength == Len(Workloads) * Len(Intensities) * Repeats * Len(Arms)
ControlLength == Len(Workloads) * Repeats * 2
FrontierLength == Len(Workloads) * Len(Intensities) * Repeats * Len(Budgets)
BaseLength == MainLength + ControlLength
AllRuns == 1 .. BaseLength + FrontierLength
BaseRuns == 1 .. BaseLength

Digit(n, below, size) == (n \div below) % size

\* The n-th entry (from 0) of the main matrix: the arms of a repeat rotate by it.
MainSpec(n) ==
    LET A == Len(Arms)
        r == Digit(n, A, Repeats)
    IN  [workload |-> Workloads[1 + Digit(n, A * Repeats * Len(Intensities), Len(Workloads))],
         intensity |-> Intensities[1 + Digit(n, A * Repeats, Len(Intensities))],
         repeat |-> r + 1, arm |-> Arms[1 + ((Digit(n, 1, A) + r) % A)], budget |-> Absent]

ControlSpec(n) ==
    [workload |-> Workloads[1 + Digit(n, 2 * Repeats, Len(Workloads))],
     intensity |-> LowControl, repeat |-> 1 + Digit(n, 2, Repeats),
     arm |-> IF Digit(n, 1, 2) = 0 THEN NoControl ELSE Oracle, budget |-> Absent]

FrontierSpec(n) ==
    LET B == Len(Budgets) IN
    [workload |-> Workloads[1 + Digit(n, B * Repeats * Len(Intensities), Len(Workloads))],
     intensity |-> Intensities[1 + Digit(n, B * Repeats, Len(Intensities))],
     repeat |-> 1 + Digit(n, B, Repeats), arm |-> Oracle, budget |-> Budgets[1 + Digit(n, 1, B)]]

\* The entries in order: base matrix, controls, frontier.
Schedule == [n \in AllRuns |->
    IF n <= MainLength THEN MainSpec(n - 1)
    ELSE IF n <= BaseLength THEN ControlSpec(n - MainLength - 1)
    ELSE FrontierSpec(n - BaseLength - 1)]

-----------------------------------------------------------------------------
(* One run directory and the gates of load_run.                            *)

ExpectedControls(arm) ==
    [threshold |-> CASE arm = "always_recompute" -> 512
                     [] arm = "minimum_retrieve_threshold" -> 256
                     [] OTHER -> 0,
     depth |-> IF arm = "fixed_prefetch_depth" THEN 4 ELSE 1]

\* How many of a run's requests an arm materializes: all, none or some.
ExpectedDecisions(arm) ==
    CASE arm = "always_recompute" -> "none"
      [] arm = "minimum_retrieve_threshold" -> "some"
      [] OTHER -> "all"

\* What the runner leaves for entry n: measured by the hardware, or with one
\* of its parts wrong; "unexposed" is a connector that reports no counters.
Artifact(n, fault) ==
    LET s == Schedule[n]
        m == world[<<s.workload, s.intensity>>][s.arm][s.repeat]
    IN  [files |-> fault # "crashed",
         arm |-> s.arm,
         correct |-> fault # "incorrect",
         decisions |-> IF fault = "inactive" THEN "none" ELSE ExpectedDecisions(s.arm),
         controls |-> IF fault = "misconfigured" THEN [threshold |-> 1, depth |-> 1]
                      ELSE ExpectedControls(s.arm),
         budget |-> s.budget,
         requested |-> IF fault = "unexposed" THEN Absent ELSE "all",
         realized |-> CASE fault = "unexposed"  -> Absent
                        [] fault = "lost_bytes" -> "some"
                        [] OTHER                -> "all",
         outputs |-> IF fault = "diverged" THEN "other" ELSE "reference",
         p95 |-> m.p95, goodput |-> m.goodput,
         pressure |-> IF fault = "unexposed" THEN [k \in DOMAIN m.pressure |-> Absent]
                      ELSE m.pressure]

\* load_run raises unless all of this holds.  Byte counters that are both absent
\* are equal (None == None), and no other counter is looked for.
Accepted(a, s) ==
    /\ a.files
    /\ a.arm = s.arm
    /\ a.correct
    /\ a.decisions = ExpectedDecisions(s.arm)
    /\ a.controls = ExpectedControls(s.arm)
    /\ a.requested = a.realized

Cells == {Workloads[k] : k \in DOMAIN Workloads} \X {Intensities[k] : k \in DOMAIN Intensities}
Controls == {Workloads[k] : k \in DOMAIN Workloads} \X {LowControl}

Exists(n) == tree[n] # Absent
Loaded == {n \in BaseRuns : Exists(n) /\ Accepted(tree[n], Schedule[n])}

\* Mutant: a rejected directory counts as one that was never started.
RejectedIgnored == {}
Rejected == {n \in BaseRuns : Exists(n) /\ ~Accepted(tree[n], Schedule[n])}
Missing == {n \in BaseRuns : ~Exists(n)}

\* All accepted runs of one workload and intensity produced the same outputs.
OutputsOf(runs, cell) ==
    {tree[n].outputs : n \in {n \in runs : /\ Schedule[n].workload = cell[1]
                                          /\ Schedule[n].intensity = cell[2]}}
OutputsAgree == \A c \in Cells \cup Controls : Cardinality(OutputsOf(Loaded, c)) <= 1

BaseErrors == Rejected # {} \/ ~OutputsAgree

-----------------------------------------------------------------------------
(* The evidence of one cell.                                               *)

\* The loaded runs of one repeat of a cell: by_round.
RoundRuns(cell, r) ==
    {n \in BaseRuns : /\ Schedule[n].workload = cell[1] /\ Schedule[n].intensity = cell[2]
                      /\ Schedule[n].repeat = r
                      /\ n \in Loaded}
RoundArms(cell, r) == {Schedule[n].arm : n \in RoundRuns(cell, r)}
Of(cell, r, arm) == tree[CHOOSE n \in RoundRuns(cell, r) : Schedule[n].arm = arm]

CompleteRounds(cell, arms) == {r \in 1 .. Repeats : RoundArms(cell, r) = arms}

\* Mutant: a cell is judged as soon as one repeat is complete.
CellReadyEarly(cell, arms) == CompleteRounds(cell, arms) # {}
CellReady(cell, arms) == CompleteRounds(cell, arms) = 1 .. Repeats

\* statistics.median of one value per repeat, for an odd number of repeats;
\* measured is a set of pairs <<repeat, value>>.
Median(measured) ==
    LET below(v) == Cardinality({m \in measured : m[2] <= v})
        above(v) == Cardinality({m \in measured : m[2] >= v})
        half(count) == 2 * count >= Cardinality(measured)
    IN  CHOOSE v \in {m[2] : m \in measured} : half(below(v)) /\ half(above(v))

PctRegression(slower, faster) == ((slower - faster) * 1000) \div faster
PctImprovement(baseline, candidate) == ((baseline - candidate) * 1000) \div baseline

\* One of three counters is clearly higher without control; a counter the run
\* does not report explains nothing, and the repeat still counts.  Counters are
\* in hundredths.
PressureExplained(noControl, oracle) ==
    \E k \in DOMAIN noControl.pressure :
        LET left == noControl.pressure[k]
            right == oracle.pressure[k]
        IN  /\ left # Absent
            /\ right # Absent
            /\ 10 * left > 11 * right
            /\ left > right + 5

OverRounds(cell, arms, F(_)) == {<<r, F(r)>> : r \in CompleteRounds(cell, arms)}

TailRegression(cell, arms) ==
    LET one(r) == PctRegression(Of(cell, r, NoControl).p95, Of(cell, r, Oracle).p95)
    IN  Median(OverRounds(cell, arms, one))

TailImprovement(cell, arm) ==
    LET one(r) == PctImprovement(Of(cell, r, NoControl).p95, Of(cell, r, arm).p95)
    IN  Median(OverRounds(cell, ArmSet, one))

GoodputLoss(cell, arm) ==
    LET one(r) == PctImprovement(Of(cell, r, NoControl).goodput, Of(cell, r, arm).goodput)
    IN  Median(OverRounds(cell, ArmSet, one))

GoodputGain(cell, arm) ==
    LET one(r) == PctRegression(Of(cell, r, arm).goodput, Of(cell, r, NoControl).goodput)
    IN  Median(OverRounds(cell, ArmSet, one))

\* Mutant: one repeat over the threshold is enough.
TailGateAnyRepeat(cell) ==
    \E r \in 1 .. Repeats :
        PctRegression(Of(cell, r, NoControl).p95, Of(cell, r, Oracle).p95) >= 100
TailGate(cell) == TailRegression(cell, ArmSet) >= 100
CounterGate(cell) ==
    Cardinality({r \in CompleteRounds(cell, ArmSet) :
                   PressureExplained(Of(cell, r, NoControl), Of(cell, r, Oracle))}) >= 2
\* abs(oracle_loss) <= 5: rounding down is exact for a bound from below only.
CapacityGate(cell) == GoodputLoss(cell, Oracle) >= -50 /\ GoodputGain(cell, Oracle) >= -50
GenericEquivalent(cell) ==
    \E arm \in GenericArms :
        /\ TailImprovement(cell, arm) >= TailImprovement(cell, Oracle) - 10
        /\ GoodputLoss(cell, arm) <= GoodputLoss(cell, Oracle) + 10

JudgedCells == IF BaseErrors THEN {} ELSE {c \in Cells : CellReady(c, ArmSet)}
JudgedControls ==
    IF BaseErrors THEN {} ELSE {c \in Controls : CellReady(c, {NoControl, Oracle})}
AbsenceGate(control) == TailRegression(control, {NoControl, Oracle}) < 100

-----------------------------------------------------------------------------
(* The frontier and the verdict.                                           *)

FrontierRuns == {n \in AllRuns \ BaseRuns : Exists(n)}
FrontierPoint(n) ==
    LET s == Schedule[n]
        baseline == {m \in RoundRuns(<<s.workload, s.intensity>>, s.repeat) :
                       Schedule[m].arm = NoControl}
    IN  /\ Accepted(tree[n], s)
        /\ tree[n].budget = s.budget
        /\ \E m \in baseline : tree[m].outputs = tree[n].outputs
FrontierErrors == \E n \in FrontierRuns : ~FrontierPoint(n)
FrontierComplete == FrontierRuns = AllRuns \ BaseRuns /\ ~FrontierErrors

Errors == BaseErrors \/ FrontierErrors
StopTriggered(cell) == ~TailGate(cell) \/ ~CounterGate(cell) \/ GenericEquivalent(cell)
PrefixComplete == Loaded = 1 .. Cardinality(Loaded)

Report(status, verdict) == [status |-> status, verdict |-> verdict]

\* The verdict over a complete matrix.
CompleteReport(cells) ==
    LET controls == JudgedControls
        refuted ==
          \/ \E c \in cells : GenericEquivalent(c) \/ ~TailGate(c) \/ ~CounterGate(c)
          \/ Cardinality(cells) < MinCells
          \/ Cardinality(controls) < MinControls
          \/ \E c \in controls : ~AbsenceGate(c)
    IN  IF refuted THEN Report("complete", "stop")
        ELSE IF (\A c \in cells : CapacityGate(c)) \/ FrontierComplete
             THEN Report("complete", "go")
        ELSE Report("needs_capacity_frontier", "none")

\* The early stop is looked at before the complete matrix.
Rebuild ==
    LET cells == JudgedCells
        triggered == \E c \in cells : StopTriggered(c)
    IN  CASE Errors -> Report("incomplete_no_verdict", "none")
          [] ~Errors /\ triggered /\ PrefixComplete -> Report("complete_early_stop", "stop")
          [] OTHER -> IF Missing = {} THEN CompleteReport(cells)
                      ELSE Report("incomplete_no_verdict", "none")

-----------------------------------------------------------------------------
(* The runner.                                                             *)

G0Init ==
    /\ world \in Measurements
    /\ tree = [n \in AllRuns |-> Absent]
    /\ held = {}

Passing(n) == Accepted(tree[n], Schedule[n])
Waiting == {n \in AllRuns : ~Exists(n)}

\* The runner skips the entries that pass and starts the first one without a
\* directory; it does not go past a directory that fails.
Runnable(n) ==
    /\ n \in Waiting \ held
    /\ \A m \in Waiting \ held : n <= m
    /\ \A m \in AllRuns : Exists(m) => Passing(m)

\* At most one run comes out wrong: a bound.
Run(fault) == \E n \in AllRuns :
    /\ Runnable(n)
    /\ fault # "none" => \A m \in AllRuns : Exists(m) => tree[m] = Artifact(m, "none")
    /\ tree' = [tree EXCEPT ![n] = Artifact(n, fault)]
    /\ UNCHANGED <<world, held>>

\* An operator holds the next entry back, or lets it run after all.
Hold == \E n \in AllRuns :
    /\ Runnable(n)
    /\ n \in Holdable
    /\ held' = held \cup {n}
    /\ UNCHANGED <<world, tree>>

Release ==
    /\ held # {}
    /\ held' = {}
    /\ UNCHANGED <<world, tree>>

G0Next == Hold \/ Release \/ \E fault \in Faults : Run(fault)

G0Spec == G0Init /\ [][G0Next]_g0vars

-----------------------------------------------------------------------------
(* Properties.                                                             *)

\* Fail closed: while the tree holds a run that a gate of load_run rejects, or
\* one whose outputs differ from those of its cell, nothing is decided, be the
\* run in the base matrix or in the frontier, and in particular the early stop
\* cannot be used.
InvalidNeverDecides ==
    LET present == AllRuns \ Waiting IN
    \/ /\ \A n \in present : Passing(n)
       /\ \A c \in Cells \cup Controls : Cardinality(OutputsOf(present, c)) <= 1
    \/ Rebuild.verdict = "none"

\* The numeric conditions of a Go (G0_PROTOCOL.md:64-71), stated over single
\* repeats and raw numbers, against the medians, gates and exceptions the
\* rebuild computes: every base run is there and accepted; in each cell most repeats regress by a tenth and
\* two show the pressure; no cap comes within a point of the oracle; most
\* repeats of a low-concurrency control do not regress; and in each cell most
\* repeats neither lose nor, counted apart, gain more than 5 % goodput under
\* the oracle, or every frontier point is reported.  What the protocol asks of a
\* record beyond what load_run looks at is not in it: see GoNeedsSignals.
GoMeetsThresholds ==
    LET at(c, r, arm) == tree[CHOOSE n \in BaseRuns :
                                /\ Schedule[n].workload = c[1] /\ Schedule[n].intensity = c[2]
                                /\ Schedule[n].repeat = r /\ Schedule[n].arm = arm]
        regressed(c) == {r \in 1 .. Repeats :
                           100 * at(c, r, NoControl).p95 >= 110 * at(c, r, Oracle).p95}
        pressed(c) == {r \in 1 .. Repeats :
                         PressureExplained(at(c, r, NoControl), at(c, r, Oracle))}
        most(S) == 2 * Cardinality(S) > Repeats
        change(c, r) == 20 * (at(c, r, Oracle).goodput - at(c, r, NoControl).goodput)
        loses(c) == {r \in 1 .. Repeats : change(c, r) < -at(c, r, NoControl).goodput}
        gains(c) == {r \in 1 .. Repeats : change(c, r) > at(c, r, NoControl).goodput}
    IN  Rebuild.verdict = "go" =>
            /\ \A n \in BaseRuns : Exists(n) /\ Passing(n)
            /\ \A c \in Cells : most(regressed(c)) /\ Cardinality(pressed(c)) >= 2
            /\ \A c \in Cells : ~GenericEquivalent(c)
            /\ \A c \in Controls : ~most(regressed(c))
            /\ \/ \A c \in Cells : ~most(loses(c)) /\ ~most(gains(c))
               \/ \A n \in AllRuns : Exists(n) /\ Passing(n)

Exposes(run) ==
    /\ run.requested # Absent /\ run.realized # Absent
    /\ \A k \in DOMAIN run.pressure : run.pressure[k] # Absent

\* G0_PROTOCOL.md:45-49 rejects a record that lacks the bytes or a pressure
\* counter, so that the gate fails closed: a Go rests on base runs that all
\* expose them.
GoNeedsSignals == Rebuild.verdict = "go" =>
    \A n \in BaseRuns : Exists(n) /\ Exposes(tree[n])

\* A Stop is final: once the report has said stop, running more of the matrix,
\* in whatever order and whatever else it said in between, never makes it go.
StopIsFinal == [](Rebuild.verdict = "stop" => [](Rebuild.verdict # "go"))
=============================================================================
