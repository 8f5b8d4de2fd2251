----------------------------- MODULE SuiteRunner -----------------------------
(***************************************************************************)
(* The runners that put lifecycles in a row (run_formal_online_matrix and  *)
(* the run_m2_*, run_paired_* scripts), the import of the finished suite   *)
(* into the repository, and the aggregators that accept it as evidence.    *)
(*                                                                         *)
(* A runner executes its schedule in order: the lifecycle ends with one of *)
(* RunOutcome (or dies), a bundle that exited 0 goes to the validator, the *)
(* two codes go to the ledger (suite_manifest.json), and the first cell    *)
(* that is not in order ends the suite.  Runners differ in their schedule, *)
(* in what the ledger says before the first cell, in whether an invalid    *)
(* bundle is marked, and in a cross-check of the pair at the end.          *)
(***************************************************************************)
EXTENDS RunOutcome, M2Verdicts

CONSTANTS
    Suites,       \* the runners of this instance, see below
    Protocols,    \* protocol fingerprints
    MaxDrifts,    \* bound on changes of the protocol during a suite
    MaxMistakes,  \* bound on mistakes of the import
    Samples(_),   \* measurements for a number of rounds
    Missing

ASSUME BoundsAssumption == MaxDrifts \in Nat /\ MaxMistakes \in Nat

-----------------------------------------------------------------------------
(* Schedules: a cell is a workload, a round and an arm.                    *)

Cell(workload, round, arm) == [workload |-> workload, round |-> round, arm |-> arm]

\* Workload by workload, round by round, in the round's order.
Laid(workloads, orders) ==
    LET arms == Len(orders[1])
        cells == arms * Len(orders)
    IN  [i \in 1 .. Len(workloads) * cells |->
           LET round == 1 + (((i - 1) % cells) \div arms) IN
           Cell(workloads[1 + ((i - 1) \div cells)], round, orders[round][1 + ((i - 1) % arms)])]

FormalOrders ==
    LET ob == <<"old", "baseline">>
        ot == <<"old", "tuned">>
        sb == <<"segmented", "baseline">>
        st == <<"segmented", "tuned">>
    IN  << <<ob, st, ot, sb>>, <<st, ob, sb, ot>>, <<ot, sb, ob, st>> >>

FormalSchedule ==
    Laid(<<"knowledge_service", "tool_scaffold">>, FormalOrders)
        \o [r \in 1 .. 3 |-> Cell("dynamic_rag", r, <<"segmented", "tuned">>)]

LatinOrders ==
    << Policies,
       <<"controller", "always_recompute", "always_full_reuse">>,
       <<"always_full_reuse", "controller", "always_recompute">> >>

BoundarySchedule == Laid(<<"tool_scaffold", "knowledge_service">>, LatinOrders)

PilotOrders ==
    << <<"controller", "always_full_reuse", "always_recompute">>,
       <<"always_recompute", "controller", "always_full_reuse">> >>

\* candidates[index::shards], the index from 0.
SelectShard(candidates, index, shards) ==
    [k \in 1 .. ((Len(candidates) - index + shards - 1) \div shards) |->
        candidates[1 + index + (k - 1) * shards]]

PilotSchedule(candidates) ==
    [i \in 1 .. 3 * Len(candidates) |->
        LET c == 1 + ((i - 1) \div 3) IN
        Cell(candidates[c], 1, PilotOrders[1 + ((c - 1) % 2)][1 + ((i - 1) % 3)])]

AnchorSchedule == Laid(<<"multi_tenant_assistant">>, LatinOrders)

SignificanceSchedule(workload) ==
    Laid(<<workload>>,
         LatinOrders \o << <<"always_recompute", "controller", "always_full_reuse">>,
                           <<"always_full_reuse", "always_recompute", "controller">> >>)

PairedSchedule == Laid(<<"knowledge_service">>, << <<"old", "segmented">> >>)

-----------------------------------------------------------------------------
(* The runners.                                                            *)

Runner(kind, schedule) ==
    [kind |-> kind, schedule |-> schedule, opening |-> "unfinished", marks |-> FALSE]

\* No ledger before the first cell; FAILED.txt in an invalid bundle.
FormalRunner == [Runner("formal", FormalSchedule) EXCEPT !.opening = "nothing", !.marks = TRUE]
BoundaryRunner == Runner("boundary", BoundarySchedule)
PilotRunner(candidates, index, shards) ==
    Runner("pilot", PilotSchedule(SelectShard(candidates, index, shards)))
AnchorRunner == Runner("anchor", AnchorSchedule)
SignificanceRunner(workload) == Runner("significance", SignificanceSchedule(workload))
PairedRunner == [Runner("paired", PairedSchedule) EXCEPT !.opening = "running"]

\* Any shard: its candidates are distinct workloads.
IsPilotRunner(s) ==
    /\ s = Runner("pilot", s.schedule)
    /\ \A i, j \in DOMAIN s.schedule :
          s.schedule[i].workload = s.schedule[j].workload /\ s.schedule[i].arm = s.schedule[j].arm
            => i = j
    /\ \A i \in DOMAIN s.schedule : s.schedule[i].arm \in {Policies[k] : k \in 1 .. 3}

ASSUME SuitesAssumption == \A s \in Suites :
    /\ s.schedule \in Seq({s.schedule[i] : i \in DOMAIN s.schedule})
    /\ \/ s \in {FormalRunner, BoundaryRunner, AnchorRunner, PairedRunner}
       \/ IsPilotRunner(s)
       \/ s = SignificanceRunner(s.schedule[1].workload)

\* relative_delta raises on a fixed policy's zero.
ASSUME SamplesAssumption ==
    \A n \in {s.schedule[Len(s.schedule)].round : s \in {s \in Suites : Len(s.schedule) > 0}} :
        /\ n \in Nat
        /\ \A x \in Samples(n), m \in Metrics :
              /\ x[m] \in [1 .. n -> [{Policies[k] : k \in 1 .. 3} -> Nat]]
              /\ \A r \in 1 .. n, k \in 1 .. 2 : x[m][r][FixedPolicies[k]] # 0

VARIABLES
    suite,      \* the runner
    stage,      \* where it is
    code,       \* its exit code
    ledger,     \* suite_manifest.json: a status and the codes of each cell
    bundles,    \* what each lifecycle left, in order of execution
    protocol,   \* the fingerprint a lifecycle would record now
    drifts,
    tree,       \* the imported suite: the bundle found in each cell's directory
    withdrawn,  \* INVALIDATED.txt
    mistakes,
    verdict     \* a sample and what an aggregator concludes from it

runnerVars == <<suite, stage, code, ledger, bundles>>
worldVars == <<protocol, drifts>>
importVars == <<tree, withdrawn, mistakes>>
suiteVars == <<runnerVars, worldVars, importVars, verdict>>

NoLedger == [status |-> "none", runs |-> <<>>]
NoVerdict == [sample |-> Missing, positive |-> FALSE]

Size == Len(suite.schedule)
Last == Len(bundles)
Ledgered == Len(ledger.runs)

SuiteInit ==
    /\ suite \in Suites
    /\ stage = "idle"
    /\ code = NoCode
    /\ ledger = NoLedger
    /\ bundles = <<>>
    /\ protocol \in Protocols
    /\ drifts = 0
    /\ tree = <<>>
    /\ withdrawn = FALSE
    /\ mistakes = 0
    /\ verdict = NoVerdict

\* The pilot's shard may hold no candidate.
Open ==
    /\ stage = "idle"
    /\ IF Size = 0
       THEN stage' = "over" /\ code' = 1 /\ UNCHANGED ledger
       ELSE /\ stage' = "ready"
            /\ ledger' = IF suite.opening = "nothing" THEN ledger
                         ELSE [ledger EXCEPT !.status = suite.opening]
            /\ UNCHANGED code
    /\ UNCHANGED <<suite, bundles, worldVars, importVars, verdict>>

Start ==
    /\ stage = "ready"
    /\ stage' = "running"
    /\ bundles' = Append(bundles, [protocol |-> protocol, record |-> Empty, validation |-> "none"])
    /\ UNCHANGED <<suite, code, ledger, worldVars, importVars, verdict>>

Outcomes == {o \in Records : Final(o)}
\* A lifecycle killed by a signal: a return code that is none of its own.
Deaths == {[Empty EXCEPT !.status = s] : s \in {"none", "starting", "completed", "failed"}}

Finish ==
    /\ stage = "running"
    /\ \E o \in Outcomes \cup Deaths :
         /\ bundles' = [bundles EXCEPT ![Last].record = o]
         /\ stage' = IF o.rc = 0 THEN "validating" ELSE "recording"
    /\ UNCHANGED <<suite, code, ledger, worldVars, importVars, verdict>>

Validate ==
    /\ stage = "validating"
    /\ \E v \in {"valid", "invalid"} :
         bundles' = [bundles EXCEPT ![Last].validation = v,
                                    ![Last].record.failed = suite.marks /\ v = "invalid"]
    /\ stage' = "recording"
    /\ UNCHANGED <<suite, code, ledger, worldVars, importVars, verdict>>

\* The codes of a cell as the ledger has them, and whether the suite goes on.
Codes(b) == [rc |-> b.record.rc, validation |-> b.validation]

\* Mutant: the validator's return code does not replace the lifecycle's.
InOrderByExit(c) == c.rc = 0
InOrder(c) == c.rc = 0 /\ c.validation = "valid"

Record ==
    /\ stage = "recording"
    /\ LET c == Codes(bundles[Last]) IN
         /\ ledger' = [status |-> IF ledger.status = "none" THEN "unfinished" ELSE ledger.status,
                       runs |-> Append(ledger.runs, c)]
         /\ stage' = IF InOrder(c) /\ Last < Size THEN "ready" ELSE "closing"
    /\ UNCHANGED <<suite, code, bundles, worldVars, importVars, verdict>>

\* run_paired_carrier_validation's check of the two bundles together.
CrossChecked == suite.kind = "paired" => bundles[1].protocol = bundles[2].protocol

ClosingStatus ==
    LET c == ledger.runs[Ledgered] IN
    CASE c.rc = 3 -> "blocked"
      [] c.rc # 3 /\ ~InOrder(c) -> "failed"
      [] OTHER -> IF CrossChecked THEN "completed" ELSE "failed"

Close ==
    /\ stage = "closing"
    /\ stage' = "over"
    /\ ledger' = [ledger EXCEPT !.status = ClosingStatus]
    /\ code' = IF ClosingStatus = "completed" THEN 0 ELSE 1
    /\ UNCHANGED <<suite, bundles, worldVars, importVars, verdict>>

\* The runner is killed; nothing resumes a suite.
Kill ==
    /\ stage \in {"ready", "running", "validating", "recording", "closing"}
    /\ stage' = "killed"
    /\ UNCHANGED <<suite, code, ledger, bundles, worldVars, importVars, verdict>>

\* The workload package or the model changes between two cells.
Drift ==
    /\ drifts < MaxDrifts
    /\ stage \in {"idle", "ready"}
    /\ \E p \in Protocols \ {protocol} : protocol' = p
    /\ drifts' = drifts + 1
    /\ UNCHANGED <<runnerVars, importVars, verdict>>

-----------------------------------------------------------------------------
(* The import, by hand: directories may get lost or be copied twice.  This *)
(* is explored for suites whose last cell ran, the others lack cells anyway. *)

Dirs == DOMAIN tree

Import ==
    /\ stage \in {"over", "killed"}
    /\ tree = <<>> /\ bundles # <<>>
    /\ tree' = [d \in 1 .. Last |-> d]
    /\ UNCHANGED <<runnerVars, worldVars, withdrawn, mistakes, verdict>>

Mistake ==
    /\ tree # <<>> /\ Last = Size /\ verdict = NoVerdict
    /\ mistakes < MaxMistakes
    /\ mistakes' = mistakes + 1
    /\ \/ \E d \in Dirs, b \in (1 .. Last) \cup {Missing} :
            /\ tree[d] # b
            /\ tree' = [tree EXCEPT ![d] = b]
            /\ UNCHANGED withdrawn
       \/ ~withdrawn /\ withdrawn' = TRUE /\ UNCHANGED tree
    /\ UNCHANGED <<runnerVars, worldVars, verdict>>

-----------------------------------------------------------------------------
(* The aggregators.  A row is a directory with a validation.json.  What    *)
(* ran in a bundle is in its manifests; the round is read from the name of *)
(* the directory.                                                          *)

Rows == {d \in Dirs : tree[d] # Missing /\ bundles[tree[d]].validation # "none"}
Ran(d) == suite.schedule[tree[d]]
RowCell(d) == [Ran(d) EXCEPT !.round = suite.schedule[d].round]
ProtocolOf(d) == bundles[tree[d]].protocol

Completed == ledger.status = "completed"
RowsValid == \A d \in Rows : bundles[tree[d]].validation = "valid"

\* Mutant: the lifecycle ids of the rows are not compared.
LifecyclesIdentified == \A d \in Rows : tree[d] \in 1 .. Last
LifecyclesDistinct == \A d, e \in Rows : tree[d] = tree[e] => d = e

OneProtocolPerWorkload ==
    \A d, e \in Rows : Ran(d).workload = Ran(e).workload => ProtocolOf(d) = ProtocolOf(e)
OneProtocol == \A d, e \in Rows : ProtocolOf(d) = ProtocolOf(e)
LedgerInOrder ==
    /\ Ledgered = Cardinality(Rows)
    /\ \A i \in 1 .. Ledgered : InOrder(ledger.runs[i])

\* Counts over workload, seam and condition, three of each.
FormalCell(cell) == <<cell.workload, cell.arm>>
RequiredCells == {FormalCell(FormalSchedule[i]) : i \in DOMAIN FormalSchedule}

\* _factorial_index: each cell of the 2x2 analysis once in each round.
FactorialRows == {d \in Rows : Ran(d).workload # "dynamic_rag"}
FactorialMatched ==
    /\ \A d, e \in FactorialRows : RowCell(d) = RowCell(e) => d = e
    /\ {RowCell(d) : d \in FactorialRows} =
         {c \in {FormalSchedule[i] : i \in DOMAIN FormalSchedule} : c.workload # "dynamic_rag"}
FormalAccepts ==
    /\ ~withdrawn
    /\ Completed
    /\ RowsValid
    /\ {FormalCell(Ran(d)) : d \in Rows} = RequiredCells
    /\ \A c \in RequiredCells : Cardinality({d \in Rows : FormalCell(Ran(d)) = c}) = 3
    /\ LifecyclesDistinct
    /\ OneProtocolPerWorkload
    /\ LedgerInOrder
    /\ FactorialMatched

BoundaryAccepts ==
    /\ Completed
    /\ RowsValid
    /\ {RowCell(d) : d \in Rows} =
         {Cell(w, r, p) : w \in {"tool_scaffold", "knowledge_service"}, r \in 1 .. 3,
                          p \in {Policies[k] : k \in 1 .. 3}}
    /\ LifecyclesDistinct
    /\ OneProtocolPerWorkload
    /\ LedgerInOrder

PilotAccepts ==
    LET workloads == {Ran(d).workload : d \in Rows} IN
    /\ Completed
    /\ RowsValid
    /\ workloads # {}
    /\ workloads = {suite.schedule[i].workload : i \in 1 .. Size}
    /\ {<<Ran(d).workload, Ran(d).arm>> : d \in Rows} =
         workloads \X {Policies[k] : k \in 1 .. 3}
    /\ Cardinality(Rows) = Cardinality(workloads) * Len(Policies)
    /\ LifecyclesDistinct
    /\ OneProtocolPerWorkload

Rounded(rounds) ==
    {<<suite.schedule[d].round, Ran(d).arm>> : d \in Rows} =
        (1 .. rounds) \X {Policies[k] : k \in 1 .. 3}

AnchorAccepts ==
    /\ Completed
    /\ RowsValid
    /\ Rounded(3) /\ Cardinality(Rows) = 9
    /\ LifecyclesDistinct
    /\ OneProtocol

SignificanceAccepts ==
    /\ Completed
    /\ RowsValid
    /\ Rounded(5) /\ Cardinality(Rows) = 15
    /\ LifecyclesDistinct
    /\ {Ran(d).workload : d \in Rows} = {suite.schedule[1].workload}
    /\ OneProtocol

\* Nobody aggregates the pair: its own status is the verdict.
Accepted ==
    CASE suite.kind = "formal" -> FormalAccepts
      [] suite.kind = "boundary" -> BoundaryAccepts
      [] suite.kind = "pilot" -> PilotAccepts
      [] suite.kind = "anchor" -> AnchorAccepts
      [] suite.kind = "significance" -> SignificanceAccepts
      [] OTHER -> Completed /\ Rows = 1 .. Size /\ LifecyclesDistinct

Positive(sample) ==
    CASE suite.kind = "pilot" -> Promoted(sample)
      [] suite.kind = "boundary" -> BoundaryPositive(sample)
      [] suite.kind = "anchor" -> ConfirmedPositive(sample)
      [] OTHER -> Significant(sample)

\* The matched rounds of one workload are measured and judged.
Judge ==
    /\ suite.kind \in {"pilot", "boundary", "anchor", "significance"}
    /\ verdict = NoVerdict /\ mistakes = 0
    /\ Accepted
    /\ \E s \in Samples(suite.schedule[Size].round) :
         verdict' = [sample |-> s, positive |-> Positive(s)]
    /\ UNCHANGED <<runnerVars, worldVars, importVars>>

SuiteNext ==
    \/ Open \/ Start \/ Finish \/ Validate \/ Record \/ Close \/ Kill
    \/ Drift \/ Import \/ Mistake \/ Judge

SuiteSpec == SuiteInit /\ [][SuiteNext]_suiteVars

-----------------------------------------------------------------------------
(* Properties.                                                             *)

Proven(i) ==
    /\ bundles[i].record = [Empty EXCEPT !.status = "completed", !.cleaned = TRUE, !.rc = 0]
    /\ bundles[i].validation = "valid"

\* A suite that is accepted as evidence is what its schedule says: each cell
\* ran once, in a lifecycle of its own that exited 0, was cleaned up and passed
\* the validator, and one protocol holds per workload, although the runner may
\* have been killed, the protocol may have moved and directories may be lost or
\* doubled on the way.  One mistake cannot move a row to another round either;
\* two can, as nothing in a bundle but its directory tells the round.
AcceptedMeansProven ==
    tree # <<>> /\ Accepted =>
        /\ Rows = 1 .. Size
        /\ \A d \in Rows : tree[d] \in 1 .. Size /\ Proven(tree[d])
        /\ \A d, e \in Rows : tree[d] = tree[e] => d = e
        /\ \A d, e \in Rows : Ran(d).workload = Ran(e).workload => ProtocolOf(d) = ProtocolOf(e)
        /\ mistakes <= 1 => \A d \in Rows : tree[d] = d

\* The ledger may lag behind the bundles by the cell that runs, never lead, and
\* no lifecycle starts after one that was not in order: whatever ended the
\* suite, all cells but the last are proven, "completed" and exit code 0 stand
\* for all of them, and "blocked" for a last cell that never started a server.
LedgerTellsTheSuite ==
    /\ Ledgered \in {Last, Last - 1}
    /\ \A i \in 1 .. Ledgered : ledger.runs[i] = Codes(bundles[i])
    /\ \A i \in 1 .. Last - 1 : Proven(i)
    /\ Completed => Last = Size /\ Size > 0 /\ Proven(Last)
    /\ ledger.status = "blocked" => bundles[Last].record.status = "none"
    /\ code = 0 <=> Completed

\* A positive claim holds against each fixed policy alone, not only against the
\* best of every round: a confirmed workload is faster than each by 5 % on
\* average (a promoted one not slower by more than 2 %), and a significant one
\* is faster than the best fixed policy in at least three of its five rounds.
ClaimsBeatEveryFixed ==
    LET s == verdict.sample
        against(p) == SumFunction([r \in Rounds(s) |->
            RelativeDelta(s["ttft"][r]["controller"], s["ttft"][r][p])])
        percent == IF suite.kind = "pilot" THEN 2 ELSE -5
    IN  verdict.positive =>
          /\ \A k \in 1 .. 2 :
               100 * against(FixedPolicies[k]) <= percent * Unit * Cardinality(Rounds(s))
          /\ suite.kind = "significance" =>
               Cardinality({r \in Rounds(s) : Delta(s, "ttft", r) < 0}) >= 3
=============================================================================
