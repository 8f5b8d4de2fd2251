# A TLA+ model of KV materialization arrival control

This directory holds a TLA+ verification development for this repository: modules that
model its code, TLC configurations that check them on small instances, and proofs checked
by TLAPS. Paths below are relative to the repository root; `live_control.py`, `policy.py`,
`plugin.py`, `school_vllm_028.py`, `legacy_vllm_023.py` and `wavemat_seam_gate.py` are in
`src/vllm_kv_materialization/`, the online experiments in
`paper/kv_materialization_control/experiments/`, the G0 scripts in `scripts/`.

To repeat a check: `tlc -config ArrivalControl.cfg MCArrivalControl`. To repeat a proof:
`tlapm ArrivalControlProofs.tla`. `PROJECT.json` lists every run, theorem, mutation and,
for each definition that models code, the lines it stands for.

## 1. The system

For each request that arrives at a vLLM server the plugin decides whether KV state of the
request's prefix is reused in full, reused in part, or recomputed, and tells the engine so.

| Component | State | Operations | Talks to |
| --- | --- | --- | --- |
| arrival controller (`live_control.py`) | per-anchor seen counts, per-anchor session history, two locks, bound headers | `estimate_signals`, `compute_runtime_control`, `record_observation` | called by the adapters; calls the policy; appends to the observation log |
| policy (`policy.py`) | none between calls | `decide`: cost estimates, best partial cut, choice | called by the controller |
| native hook (`plugin.py`) | `_REGISTERED`, `PLUGIN_LOADED`/`MODE` in the environment | `register_plugin`, `process_request`, `observe_runtime_event` | the host's request processors and runtime observers |
| School 0.28 adapter (`school_vllm_028.py`) | patched classes and a sentinel | `controlled_prompt`, registration | patches three methods of the pinned host; recompute only |
| legacy 0.23 adapter (`legacy_vllm_023.py`) | plans on the request, observations in a context variable, two cursors | patched render, sampling-parameter and log methods | the deployed 0.23 host |
| engine prefix cache (outside the repository) | cached blocks by hash chain | lookup, commit, eviction | obeys the runtime control plan |
| WaveMat seam gate (`wavemat_seam_gate.py`) | slot and last generation per layer group | `register`, `mark_ready`, `mark_load_failure`, `consume`, `ack`, `recover` | producers, consumers and recovery of layer buffers |
| launcher (`launcher.py`) | environment variables | merges two lists, starts vLLM | `register_plugin` through the environment |
| lifecycle runner (`run_online_lifecycle.py`) | the server's process group, the client process, the records of one bundle | check preconditions, start, probe, drive, stop, clean up | server and client processes, port, device, bundle files |
| workload driver (`run_openai_workloads.py`) | a thread pool and one result per request | send, stream, collect, summarise | whichever server owns the port |
| bundle validator (`validate_online_bundle.py`) | none | relate the files of one bundle to each other | reads a bundle, writes `validation.json` |
| suite runners (`run_formal_online_matrix.py`, `run_m2_*.py`, `run_paired_carrier_validation.py`) | `suite_manifest.json` | run a schedule of lifecycles, validate each, close | lifecycle runner and validator as subprocesses |
| aggregators (`aggregate_online_results.py`, `aggregate_m2_*.py`) | none | accept a suite as evidence, draw verdicts | imported suites |
| G0 evidence rebuild (`rebuild_g0_formal.py`) | none; reads the run tree | gates of a run, medians, cell rules, Go/Stop report | the matrix runner's directories |
| offline study, G0 tools, WaveMat device scripts | files | batch computation | files |

What is hard about it:

* **Interleaving.** Calls run concurrently on the host's threads. The seen count and the
  history of an anchor are read in one lock section (line 231) and the history is written
  in another (line 252); nothing orders the two sections of different calls.
* **Partial failure.** Maps are written before the policy mode is checked, before the
  School adapter refuses, and before the log is appended; none of this is rolled back.
  `register_plugin` installs two hooks one after the other, without rollback.
* **Boundaries.** A decided cut is lowered to the prompt, to the hash block and to the
  reusable prefix; tail, namespaces and the reported reason must follow the lowered cut.
* **Namespaces.** Isolation and sharing in the prefix cache depend on salts alone, and a salt
  is one string of parts joined by colons, which the parts may contain.
* **Inherited state.** `PLUGIN_LOADED` and `PLUGIN_MODE` live in the environment and reach
  child processes whose own registration has not happened.
* **Stale and repeated events.** The seam gate must withstand old generations, repeated
  calls, failures after success, and recovery at any point.
* **Lifecycle.** Servers time out, die early or outlive their process-group leader; a
  killed runner leaves server and client behind on a port and under request ids that the
  next run uses too; streams break, stall and end early.
* **Suites.** A cell fails by its lifecycle or by its validation; a runner is killed
  between any two writes; a protocol moves between two cells; a finished suite is moved
  into the repository by hand.
* **Verdicts.** They are taken from medians, means and thresholds over what the tree holds
  at the time, and may be taken again after more of the matrix ran.

What makes each component correct: the controller loses no update of the seen counts, estimates
only from an earlier request of the same anchor, and returns plans whose token counts,
namespaces, boundary and support flags agree; the policy returns outcomes within its contract
and bends to link speed and confidence in the right direction; the cache, given the plans,
isolates recomputation and shares only within an identity; registration installs one complete
integration, on a qualified host, when asked, and counts as done only then; the gate never hands
a generation out before it is ready or twice, and never forgets an unsettled one. The adapters
keep a prompt, its plan and its log line together; a run of the lifecycle ends, says truly how,
and its valid evidence is its own; a suite accepted as evidence is its whole schedule; a verdict
is not taken on evidence a gate rejects, and a go meets the protocol's thresholds.

## 2. Modules

`ArrivalPlan` (pure) <- `ArrivalControl` <- `ArrivalEngine`; `MaterializationPolicy` uses
`ArrivalPlan` for the contract it must honour; `WavematGate` refines `GateContract`;
`BundleValidator` (pure) <- `OnlineServer` <- `WorkloadDriver` <- `OnlineRun`, which refines
`RunContract`; `RunOutcome` is what `RunContract` promises of a run and what `SuiteRunner` takes
for granted of it; `SuiteRunner` judges with `M2Verdicts` (pure); `PluginRegistration`,
`PromptAdapters` and `G0Gate` stand alone. `MC*` modules hold the instances for TLC, `*Proofs`
modules the theorems.

**ArrivalPlan** translates the pure half of `live_control.py`: anchor identity, turn index,
reuse estimate, default confidence, salts, alignment and the five plans
`compute_runtime_control` may build. An anchor, a case or a request id is a sequence of words,
the parts its colons separate, and a salt is the sequence that joining them with colons gives:
`"kvmat:recompute:" + prefix + ":" + id` is `Salt("recompute", prefix \o id)`. So two ways to
cut the same string into parts are one salt, as in the code; which characters a word has is left
out. The cost comparison is represented by a *contract*: `ControllerOutcomes` is every outcome
`decide()` may return, and `RealizableActions` every action `_pick_realizable_runtime_action`
may pick. That `decide()` honours the contract is checked and proved in `MaterializationPolicy`.

**ArrivalControl** runs any number of calls of `process_request` over the shared maps:
`Arrive` (first lock section and the locals derived from it), `NoteHistory` (second lock
section), `Decide` (policy and plan), `Reject` (unknown mode), `Refuse` (School adapter),
`Answer` and `LogFails` (the observation is appended, or the append raises). Everything
between two accesses of shared state is one action, since nothing else can see it. An
environment `serial` says that the host's frontend runs one call at a time; it is `FALSE`
where the properties should hold under any interleaving.

**ArrivalEngine** composes it with the prefix cache the plans are carried to. The cache is
external and is modelled from what the repository states of it (`README.md`, section on the
live-path taxonomy, and the carrier tests in `tests/test_live_control.py`): blocks are found by
a hash chain rooted in the salt; a partial plan caps lookup and commit at its boundary and
restarts the chain under the tail salt; native recompute bypasses the cache; on the School host
only the salt arrives. `Schedule`, `Finish` and `Evict` interleave with the controller's
actions. On the School host the adapter draws the request id of every prompt anew (`uuid4`, line
74): `DrawnFresh` in `Arrive`. On a native host the id is the host's and may come again.

**MaterializationPolicy** translates the cost model of `policy.py` in exact arithmetic with
the default coefficients: one tick is 0.05 ms, confidence is in twentieths, pressure in
tenths; estimates are rounded half-to-even to 0.001 ms as in the source. `FindCut` is
`optimize_partial_reuse_tokens`, with any cheapest candidate where estimates tie (the
source iterates over a set), `Decide` the comparison of recompute, full reuse and the cut.

**WavematGate** has one action per method of `WavematGateState`. Each method's checks are
one operator returning the first rejection code that applies (`RegisterCode`,
`ConsumeCode`, ...); a rejected call changes only the record of the last call. Three history
variables (`readied`, `grants`, `settled`) remember what the properties speak of.
`ReplayReady` says whether a producer may announce a generation ready again after its
consumer took it. **GateContract** is the abstract promise: a layer group goes from offered
to available to granted to released, or fails for good, with strictly growing generations.

**PluginRegistration** models `register_plugin` over every environment (Manager list,
`VLLM_PLUGINS`, School flag) and every host (which hook modules import, their versions, the
version line, source pins, whether the adapter's imports succeed), called any number of
times, with the host's two registration calls failing at will. `_REGISTERED` starts `FALSE` in
every process, while `PLUGIN_LOADED` and `PLUGIN_MODE` start with whatever the process inherited
(`setting.loaded`, `setting.mode`); `KeptMode` is the `os.getenv(MODE, default)` of the native and
the 0.23 branch, which keeps a mode that is there; the School branch overwrites it.

**PromptAdapters** models how the two older adapters control a request with several
prompts. A task of the host's event loop creates a request, renders its prompts, and then
takes each through sampling parameters, a log call and the engine. The 0.23 adapter computes
all plans and observations while rendering and finds them again by two cursors, one on the
request (`Sample`) and one in a context variable (`Log`); the variable is saved by `Create`
and restored by `Leave`, the `finally` of the patched method. The School adapter logs while
it renders and refuses at the first prompt it cannot admit (`RenderSchool`). Requests end at any
await, a log write may fail, and a serving class that is not patched may log in the same
context (`LogForeign`).

**OnlineServer**, **WorkloadDriver**, **BundleValidator** and **OnlineRun** model one run of
the online experiment, from the empty directory to the validator's verdict. The server is
external: an API process that owns the port and leads the process group, an engine process
that owns the device and may outlive it; it writes its trace into the bundle of the run it
was started for, whoever sends the requests. The driver is a pool of `Concurrency` threads;
a request ends as a row (an answer, an HTTP error, a refused connection) or as an exception
nobody catches, which costs the client its summary and its exit code. The stages of
`OnlineRun` are the stretches of `main` between two things another process can see; `Fail`
and `Interrupt` are its `except` branch, `Stop` to `Clean` its `finally` block with
escalation from SIGTERM to SIGKILL. Several runs share port, device and request ids and
follow one another; `Kill` ends a runner and leaves its processes running. `Valid` is the
validator, a conjunction of its checks over a record of what the files say; `BundleOf` maps
the state of a run to that record, so `Valid(BundleOf(r), ...)` is what the validator would
answer on the bundle as it stands.

**RunOutcome** states what exit codes and records of a run can occur together, and
**RunContract** in which order the records may come about. `OnlineRun` implements it
(`ImplementsRunContract`).

**SuiteRunner** models the seven runners that put lifecycles in a row. They share their loop
(`Start`, `Finish`, `Validate`, `Record`, `Close`) and differ in the record `Runner(...)`:
schedule, what the ledger says before the first cell, whether an invalid bundle is marked, and
the cross-check of the paired runner. The schedules are the code's. A lifecycle ends with any
`Final` outcome or by a signal. `Import` and `Mistake` stand for moving the finished suite into
the repository by hand; the aggregators' acceptance conditions are one operator each
(`FormalAccepts`, `BoundaryAccepts`, ...). `Judge` draws the verdict of an accepted suite.
**M2Verdicts** holds the verdicts as pure operators in integer arithmetic: the relative deltas
against the best fixed policy of a round, their means, and the one-sided bound of the
significance suite with its square root multiplied out.

**G0Gate** models the G0 matrix: the frozen schedule (arms rotated by repeat, low-concurrency
controls, frontier), run directories filled in schedule order with entries an operator may
hold back (the matrix runner itself, `run_g0_matrix.sh`, is not in the repository), and the
report `Rebuild` as a state function, because it may be computed at any time. `Accepted` is
the gates of `load_run`; a fault names what is wrong with a directory instead of the
telemetry lines that show it. The fault `unexposed` is a connector that reports no counters:
requested and realized bytes and the three pressure counters are absent, and `load_run`
accepts the run, because absent values are equal.

## 3. Runs

| Run | Instance | Shows |
| --- | --- | --- |
| `control` | 3 calls, 5 kinds of submission, 8 environments | the nine properties of the controller, in every interleaving |
| `engine` | 3 calls, 5 kinds of submission, blocks of 2 tokens, 1 eviction | plans do in the cache what they say |
| `gate` | 2 layer groups, 3 generations, 2 digests | ownership and generations, and refinement of `GateContract` |
| `gate_replay` | the same with `ReplayReady` | **violated**: a generation is consumed twice |
| `gate_recover` | the same | **violated**: a consumed group that then fails to load is not reported |
| `policy` | 2,304 requests, 4 floors | contract, bounded regret, monotone in link and trust |
| `plugin` | all 288 environments, inherited values included, and all 144 hosts | activation, qualification, completeness |
| `prompts` | 2 tasks, 2 requests each, up to 2 prompts, both adapters | a prompt's plan, log line and engine request stay together |
| `online` | 2 runs on one port and device, 1 and 2 requests, 2 threads, 1 crash, 1 kill | valid evidence is the run's own and leaves nothing behind; every run ends; refinement of `RunContract` |
| `suite` | 7 runners with the code's schedules, 1 protocol change, 1 import mistake | the ledger tells what ran, acceptance means the whole schedule, verdicts hold against both fixed policies |
| `g0` | 2 cells, 3 repeats, 3 of 7 arms, 1 budget, 8 sets of measurements, 1 faulty run of 6 kinds, 1 held entry | nothing is decided on evidence a gate rejects, go meets the protocol's thresholds, stop is final |
| `g0_missing_signals` | the same cells, 1 favourable set of measurements, 1 run without counters | **violated**: a go rests on a run that exposes no signals |

Bounds. Three calls are the fewest for which one call's two lock sections can straddle
another's and a third can read the mixture; two calls suffice for every pairwise property.
The submissions cover both ways to name an anchor, an explicit prefix beyond the prompt, no
identity, a case only, a turn header, a scaffold that is another's anchor, two requests of one
id, and an anchor and an id that join to the same string as another anchor and id do. Block sizes
0 (unset), 2 and 4 put cuts below, on and between boundaries. In the cache, prompts of two
and a half blocks with common beginnings make prefixes match, diverge and end inside a
block; one eviction breaks a chain in the middle. Three generations let an old one return
after two newer ones. The policy grid lies around the floors and around the 64-token step,
with links from free to prohibitive.

Two prompts of one request show a shift between prompts, two requests of one task a leak
into the next request of the context, two tasks a leak between contexts. Two lifecycles are
what an orphan needs: one that leaves it and one that meets it; the second has two requests
so that one can succeed while another breaks. One crash and one kill can fall anywhere, also
both on one run. The pilot runs with a shard of three candidates and with an empty one.
A mistake of the import loses or doubles a directory or withdraws the suite. One mistake
cannot exchange two directories; with two it can happen, and what `AcceptedMeansProven` then
still says is proved for any number of mistakes. The measured
rounds mix rows in which recomputation, full reuse or neither is the better fixed policy.
The G0 instance keeps three repeats, because the medians are over three, and one arm
of each role; its measurements put each rule on either side of its threshold, in the first
or the second cell, and `MinCells`, `MinControls` shrink with the number of cells. Runs without
counters are kept to `g0_missing_signals`: they are accepted, so each multiplies the states that
follow it; the theorems about G0 hold with any faults, these included.

Deadlock checking is off where the system comes to rest: all calls answered, a request
decided, all runs over, a suite imported, a matrix complete.

Each property of a passing run is broken by a mutation of the model that resembles a
plausible bug; the mutated operators stand next to the operator they mutate and are
labelled `Mutant`.

### Disagreements found

1. `mark_ready` looks at nothing but `load_failed` (`wavemat_seam_gate.py:166`) and puts a
   consumed or acknowledged slot back to ready, so a generation can be consumed twice
   without any rejection. The manifest claims the fixture passes for duplicates (477-482).
2. `recover()` promises the non-acked slots (253) and leaves out failed ones (257).
3. `G0_PROTOCOL.md:45-49` rejects a record unless it contains bytes, bytes in flight, queue and
   layer-ready waits and more, so that the gate fails closed when the connector cannot expose them,
   and line 71 says that missing data normally gives no verdict. `load_run` compares byte counters
   that may both be absent (220-222) and asks for no other; `pressure_explained` takes an absent
   one for no explanation (272-275), and two other repeats satisfy the gate. A go can rest on such
   a run (`GoNeedsSignals`). `g0_pathology.py:148-163`, which reads an older format, rejects such a
   bundle, and `tests/test_g0_pathology.py` expects that.

Three more disagreements between documents and code have no run:
`rebuild_g0_formal.py` looks at the early-stop condition before it looks whether the matrix is
complete (719-726; `Rebuild` does the same), so a matrix that ran to its end and has one
triggering cell is reported as `complete_early_stop`, with the reason that later entries were
intentionally not executed, while `G0_PROTOCOL.md:73-77` keeps that status for an unexecuted
range (the verdict, stop, is the same either way);
`README.md:102-104` says that partial reuse goes up to the best boundary, while
`policy.py:131` compares seven candidates (for 140 reusable tokens with free transfer it
picks 93); and `README.md:8-11` says that the School bundle does not support the native host
API, while enabled alone, with its flag, on a host that has the native hooks, it registers
the native processor (`plugin.py:96`; only the manifest's version range, evaluated outside
this repository, stands in the way).

## 4. Fairness

Only `OnlineRun` states fairness: weak fairness of each runner's own steps and of each client's
`Send`, `Break` and `Collect`. Both are operating-system processes, and every wait of theirs has
an end: the health probe a deadline, the two waits for the server 90 s and 30 s, a connection
and a silent stream 300 s (the `timeout` of `urlopen`), which is `Break`. The wait for the
client process itself has no timeout, so `EveryRunEnds` rests on the client's. Nothing is
assumed of servers (they may never bind, never answer, ignore signals), of operators or of
crashes. A stream that keeps sending a chunk every 299 s would keep its thread alive: the model
lets `Break` happen at any time, and weak fairness then ends it; a server that trickles for ever
is therefore excluded.

The controller's calls, the gate and the suites claim no liveness: calls have no waiting of
their own, and a suite's progress is that of its lifecycles.

## 5. What is proved

Every invariant and action property that a passing run checks, and both refinements, are
theorems: they hold for every value of the constants under the assumptions named `...Assumption`
in the modules, which TLC evaluates on the instances. Most say what a constant is (anchors,
cases and ids are non-empty names, that is sequences of words, and `None` is none of them;
submissions and environments are well formed, generations are positive, `NoCode` is no exit
code); those that say more are these:

* `SameBlockAssumption`: a configured hash block size is the
  engine's own.
* `SuitesAssumption`: a suite runs one of the code's schedules, or the pilot's over any shard
  whose cells are distinct.
* `SamplesAssumption`, `MeasurementsAssumption`: no baseline is zero. `relative_delta`
  raises on one; the G0 percentages divide by it.
* `RepeatsAssumption`: the number of repeats is odd (the code has three). The median of an
  even number is a mean of two values, and counting repeats would say something else.

**ArrivalControlProofs** has the nine properties of the `control` run and the four of the
`engine` run. Type correctness and the properties of plans follow from an invariant that
keeps, for each call past its decision, that its plan is one of `RuntimePlans` of its own
locals (`PlanInv`); the arithmetic is in lemmas on alignment (`AlignRoundsDown`) and on the
estimate (`EstimateBounded`). For the maps, the seen counts are exact because reading and
bumping them is one step; that every estimate has a source needs the strengthening that a
history entry is the note of some call on the anchor whose rank is below the seen count
(`SharedInv`), and the serial case needs that while no call is in flight the entry is the
note of the last arrival (`SerialInv`).

For the composition, every step of the engine leaves the controller alone and every step of the
controller leaves the answered calls alone (`AnsweredStays`), so the two invariants are kept
separately. `EngineInv` says that only answered calls run and what they log is logged
(`EngineStages`, `AnsweredLogged`), that a chain of tokens and salt has one block
(`KeysUnique`), and, the heart of it, that every cached or hit block was written by a call whose
plan allowed it (`BlocksWritten`, with `PlannedSaltsFit` for the salts of a plan). The two
properties of reuse then compare two plans: that of the writer and that of the reader. Both, and
`PrivateNamespaces`, rest on how salts are spelled: the kind is the second word (`SaltSpells`),
so that salts of different kinds differ and those of one kind determine the joined name
(`SaltInjective`), and of two joined names that are equal one last part ends in the other
(`JoinedEnds`). On the School host ids are of one word and drawn anew (`IdsDrawn`), so that
equal recompute namespaces mean the same call.

**WavematGateProofs**: type correctness, `SupersededWereSettled`, `GrantsFollowReady` and
`LoadFailureFinal` unconditionally; `ConsumeAtMostOnce` and the refinement of
`GateContract` under `~ReplayReady`, the assumption whose absence `gate_replay` refutes.
The inductive invariant ties each slot's status to the history of its generation, and
says that generations beyond the last one have none.

**MaterializationPolicyProofs**: all four properties of `decide()`, for all signals and floors
and over all ties of the cut: the contract, bounded regret, and that a slower link never
turns a recompute into reuse nor more trust a reuse into a recompute. The two
monotonicities rest on how estimates move with transfer time and confidence: nonlinear
arithmetic in lemmas on products, quotients and rounding. The relation `Dearer` collects what
less trust does to every candidate at once, so that the choice between candidates is
compared once.

**PluginRegistrationProofs**: the four properties of the `plugin` run, from an invariant
that says which integration put each hook there, for all inherited values.

**PromptAdaptersProofs**: `PlansStayWithPrompts` for any number of tasks, requests and
prompts. `AdaptersInv` says that the cursor on the request and the cursor in the context
variable stand at the prompt the task is at (`LegacyAligned`), that a context is empty
between requests (`ContextClean`), and that the School adapter uses neither.

**OnlineRunProofs**: the four safety properties of the `online` run, for any number of runs,
requests and threads. `OnlineInv` says for each run what it has written at each stage, in
which state its server and client can be, and that an engine serves only while there is a
server (`WrittenByStage`, `ServerByStage`, `ClientByStage`, `EngineServes`), and for all
together that each line of a trace belongs to a request sent to that server
(`LinesFollowRequests`). `IsolatedEvidence` states its last clause for two runs, and
`TwoRuns` is the part of the invariant it needs: that another server answered a valid run's
request takes two orphans, and so a third run. `ImplementsRunContract` is proved step by
step: each action of a runner is a step of `RunContract` or a stutter, for each run at once.

**SuiteRunnerProofs**: `LedgerTellsTheSuite` from an invariant that says what the ledger
copied at each stage (`RunnerInv`); `AcceptedMeansProven` for any number of mistakes of the
import, because whatever directories hold, distinct lifecycles that fill all cells of the
schedule are all of them (`AcceptedIsWhole`, by counting). `ClaimsBeatEveryFixed` needs facts
about sums: the sum of a function over a finite set exists, may be taken apart at any element
(`SumRemoves`) and grows with its terms (`SumGrows`). They are proved by induction over the
size of a set in the form "a least size at which it fails has none below it" (`Least`,
`BySize`), since the library's induction theorems take an operator as parameter. The first
clause then follows because each fixed policy is at least the best one of a round; the second
because a sum that at most two terms make negative has a square of at most twice the sum of
squares (`TwoNegatives`), and the bound asks for more than that.

**G0GateProofs**: all three properties, for any odd number of repeats, any schedule of the
code's shape and all measurements. `InvalidNeverDecides` needs that every run has one place in
the schedule. The schedule is written with divisions, as the code's nested loops number their
entries, and `DigitsOf` shows that these are the digits of a number in mixed radix; hence no
two entries agree (`EntriesDiffer`) and each cell, repeat and arm has one, whatever the
rotation of the arms (`RotationCovers`, `CellsCovered`). `StopIsFinal` is an action property:
a cell once complete keeps its evidence, and a cell that triggered a stop refutes every later
report (`Doomed`), whether the first report was early or complete. `GoMeetsThresholds` goes from
medians of percentages to counts of repeats: the median is one of the values (`MiddleExists`),
is at least a bound exactly when most values are (`MedianIsMost`), and a percentage rounded
down is at least an integer exactly when the fraction is (`FloorBound`).

Model-checked only: `EveryRunEnds`, a liveness property under fairness.

## 6. Abstractions and limits

* Percentages: `int(prompt * 0.35)` is `(35 * prompt) \div 100` in the model; binary floating
  point gives one less at some multiples of 20 from 180 on. `int(prompt * 0.6)` is exact.
* The policy is exact where the source is binary floating point; the grid avoids exact
  halves (`RoundingAssumption`). Coefficients that the environment may override keep their
  defaults; the floor varies.
* A negative turn header and negative token counts are not submitted: the host's counts are
  natural numbers.
* `apply_runtime_control` is represented by the salt of the plan: prompts that are no
  dictionaries, which the adapters never produce, are left out.
* The prefix and the id of a request-scoped salt are joined by a colon (384-388) that anchors
  from client headers and ids may contain: anchor `a:b` with id `c` and anchor `a` with id `b:c`
  share a recompute namespace. That takes an id that ends in the other (`EndsIn`), and
  `PrivateNamespaces` is stated for all other pairs, and for all pairs of one prefix (`ToldApart`).
* A request that a client retries under the same id has the recompute namespace of its first
  attempt. Native recompute bypasses the cache and reuses nothing all the same; the School
  adapter draws a new id. The 0.23 adapter sends its plan along with the sampling parameters;
  what its host does with it is not modelled.
* `PLUGIN_LOADED` and `PLUGIN_MODE` say nothing of the process that reads them when they were
  inherited: a child whose own observer registration raised still shows `1`, and a preset mode
  stays next to a different integration. `RegisteredMeansComplete` speaks of `_REGISTERED`, and
  of the two variables as far as the code sets them; `tests/test_plugin.py:65` deletes `LOADED`
  before each test.
* The receipts of `observe_runtime_event` and the wording of observations are left out;
  only whether a call's line is in the log is kept.
* The prompts of one 0.23 request get the same request id when the client sets one, and so
  one request-scoped recompute namespace between them; `PromptAdapters` names plans by
  prompt and does not speak of namespaces.
* The driver takes a stream that ends without `[DONE]` for a complete answer
  (`run_openai_workloads.py:144`); `Truncate` does the same.
* A missing `config.json` raises before the `try` of the lifecycle (248), so the run exits 1
  without `BLOCKED.txt` or `FAILED.txt` (`NoConfig`), and the blocking reason at 289-290 is
  never reached. When the wait after SIGKILL times out, the exception leaves the `finally` block:
  exit code 1, no `cleanup.json`, and a manifest that may say completed (`KillTimesOut`).
  `Final` admits both, and says so by its condition on `cleaned`.
* Runs on one port follow one another; two runners started at once are not modelled. Nor is
  the line between writing `completed` and leaving the `try`, in which a Ctrl-C would turn a
  completed run into a failed one.
* In `BundleOf` every request is a recomputation of one block; the accounting checks of the
  validator (`Closes`) are part of `Valid`, but only their agreement with the plan is
  exercised. Means in the summary are left to the percentiles.
* Aggregators trust `validation.json` and do not look at failed requests;
  `verify_m1_online_rebuild.py` recomputes validations and is not modelled. Two directories of a
  suite that were exchanged as a whole pass the aggregators where the workload and the arm
  agree, because the round is read from the directory's name; `AcceptedMeansProven` therefore
  promises that each row stands in its own directory only up to one mistake, and everything else
  for any number.
* G0 percentages are in permille, rounded down; the source uses binary floating point. All
  thresholds are bounds from below, for which rounding down is exact; the capacity bound
  `abs(loss) <= 5` is split into two such bounds (`GoodputLoss`, `GoodputGain`). The
  comparisons of two percentages with each other (`GenericEquivalent`) are exact to a permille.
* The capacity rule is about medians, so one of three repeats may lose more than 5 % goodput
  and another gain more than 5 %: `GoMeetsThresholds` says exactly that much. It says nothing of the
  signals a record must contain beyond what `load_run` looks at (`GoNeedsSignals`).
* A request that names a scaffold and no anchor, and whose plan is a full reuse, is
  cached under its case: `ReuseWithinIdentity` counts the case among its names.
* `observe_request`, which counts a request twice, is called by no host and left out.

## 7. Plan

Done: the controller, the cache composition, the policy, the gate, registration, the
adapters' cursors, the lifecycle with driver and validator, the suites with their
aggregators, the G0 gate.

Every property of a passing run except the liveness of `OnlineRun` is a theorem. What is
left: the numbers of `policy.py` with overridden coefficients (the proofs of monotonicity use
the defaults), and the second counting of `observe_request`, should a host come to call it.

Not modelled, and why: the bootstrap intervals and factorial effects of the aggregators
(real-valued statistics); `aggregate_m2_search_mechanisms.py` and
`verify_m1_online_rebuild.py` (recomputation of tables from accepted rows); the offline
study and its traces (sequential, averages of real numbers, over a policy that is modelled);
the G0 tools (files and digests, and in `g0_pathology.py` a Go/Stop decision of its own, by
other rules from an older format of bundles, 172-209; the protocol takes the verdict from
`rebuild_g0_formal.py`); the launcher (two environment variables); the WaveMat
device scripts (measurements on an accelerator).
