------------------------------ MODULE OnlineRun ------------------------------
(***************************************************************************)
(* run_online_lifecycle.py: one run starts a server in a session of its    *)
(* own, probes it, drives the workload against it, stops it and leaves a   *)
(* bundle of evidence.  Runs on one port and device follow one another,    *)
(* but a runner may be killed at any point and leaves its server and its   *)
(* client behind, where the next run meets them.                           *)
(*                                                                         *)
(*   Enter       the directory is new; worktree states, then mkdir         *)
(*   Snapshot    device idle?, environment_manifest.json (NoConfig: the    *)
(*               model's config.json is missing, nothing catches it)       *)
(*   Block       a precondition fails: BLOCKED.txt, exit code 3            *)
(*   Launch      run_manifest.json, Popen in a new session                 *)
(*   Healthy     anything on the port answers 200                          *)
(*   StartClient the server's own log shows the plugin                     *)
(*   Complete    the client exited 0                                       *)
(*   Fail        the except branch: FAILED.txt, status failed              *)
(*   Stop ...    the finally block: SIGTERM, SIGKILL, cleanup.json         *)
(***************************************************************************)
EXTENDS WorkloadDriver

CONSTANTS
    AllowDirty,   \* --allow-dirty
    MaxKills      \* bound on killed runners

ASSUME AbsentAssumption == Absent \notin Runs /\ Absent \notin [port : BOOLEAN, device : BOOLEAN]
ASSUME BoundsAssumption == MaxKills \in Nat /\ MaxCrashes \in Nat

VARIABLES
    stage,    \* where each runner is
    code,     \* the exit code a runner ends or is about to end with
    bundle,   \* the records of each run
    kills

runnerVars == <<stage, code, bundle, kills>>
onlineVars == <<serverVars, driverVars, runnerVars>>

NoBundle == [made |-> FALSE, dirty |-> FALSE, idle |-> FALSE, status |-> "none",
             blocked |-> FALSE, failed |-> FALSE, cleanup |-> Absent]

Ended(r) == stage[r] \in {"over", "killed"}
InTry == {"snapshot", "probing", "checking", "driving"}

OnlineInit ==
    /\ ServerInit
    /\ DriverInit
    /\ stage = [r \in Runs |-> "idle"]
    /\ code = [r \in Runs |-> Absent]
    /\ bundle = [r \in Runs |-> NoBundle]
    /\ kills = 0

Goto(r, s) == stage' = [stage EXCEPT ![r] = s]
Others == UNCHANGED <<serverVars, driverVars, kills>>

\* A directory made by an earlier run is refused.
Refuse(r) ==
    /\ stage[r] = "idle"
    /\ \A s \in Runs : s < r => Ended(s)
    /\ \E s \in Runs : bundle[s].made
    /\ Goto(r, "over")
    /\ code' = [code EXCEPT ![r] = 1]
    /\ UNCHANGED bundle
    /\ Others

Enter(r) ==
    /\ stage[r] = "idle"
    /\ \A s \in Runs : s < r => Ended(s)
    /\ Goto(r, "entered")
    /\ \E dirty \in BOOLEAN :
         bundle' = [bundle EXCEPT ![r].made = TRUE, ![r].dirty = dirty]
    /\ UNCHANGED code
    /\ Others

NoConfig(r) ==
    /\ stage[r] = "entered"
    /\ Goto(r, "over")
    /\ code' = [code EXCEPT ![r] = 1]
    /\ UNCHANGED bundle
    /\ Others

Snapshot(r) ==
    /\ stage[r] = "entered"
    /\ Goto(r, "snapshot")
    /\ bundle' = [bundle EXCEPT ![r].idle = OnDevice = {}]
    /\ UNCHANGED code
    /\ Others

Blocked(r) ==
    \/ ~bundle[r].idle
    \/ Serving # {}
    \/ bundle[r].dirty /\ ~AllowDirty

\* Mutant: the exit code of a usage error.
BlockExit2(r) ==
    /\ stage[r] = "snapshot"
    /\ Blocked(r)
    /\ Goto(r, "cleaning")
    /\ code' = [code EXCEPT ![r] = 2]
    /\ bundle' = [bundle EXCEPT ![r].blocked = TRUE]
    /\ Others

Block(r) ==
    /\ stage[r] = "snapshot"
    /\ Blocked(r)
    /\ Goto(r, "cleaning")
    /\ code' = [code EXCEPT ![r] = 3]
    /\ bundle' = [bundle EXCEPT ![r].blocked = TRUE]
    /\ Others

Launch(r) ==
    /\ stage[r] = "snapshot"
    /\ ~Blocked(r)
    /\ Goto(r, "probing")
    /\ bundle' = [bundle EXCEPT ![r].status = "starting"]
    /\ server' = [server EXCEPT ![r].api = "starting"]
    /\ UNCHANGED <<code, trace, crashes, driverVars, kills>>

\* wait_until_healthy: the process is there and something answers.
Healthy(r) ==
    /\ stage[r] = "probing"
    /\ Alive(r)
    /\ Serving # {}
    /\ Goto(r, "checking")
    /\ UNCHANGED <<code, bundle>>
    /\ Others

\* validate_server_carrier_log, then the client.
StartClient(r) ==
    /\ stage[r] = "checking"
    /\ server[r].registered
    /\ Goto(r, "driving")
    /\ client' = [client EXCEPT ![r] = "running"]
    /\ UNCHANGED <<code, bundle, call, via, serverVars, kills>>

Complete(r) ==
    /\ stage[r] = "driving"
    /\ client[r] = "finished"
    /\ Goto(r, "stopping")
    /\ code' = [code EXCEPT ![r] = 0]
    /\ bundle' = [bundle EXCEPT ![r].status = "completed"]
    /\ Others

\* What raises in each stage: the server exited or the deadline passed, the
\* log does not show the plugin, the client failed.
Raises(r) ==
    \/ stage[r] = "probing"
    \/ stage[r] = "checking" /\ ~server[r].registered
    \/ stage[r] = "driving" /\ client[r] = "crashed"

\* Mutant: FAILED.txt alone, the run manifest keeps its status.
FailAsFileOnly(r) ==
    /\ Goto(r, "stopping")
    /\ code' = [code EXCEPT ![r] = 1]
    /\ bundle' = [bundle EXCEPT ![r].failed = TRUE]

FailAs(r) ==
    /\ Goto(r, "stopping")
    /\ code' = [code EXCEPT ![r] = 1]
    /\ bundle' = [bundle EXCEPT ![r].failed = TRUE,
                                ![r].status = IF @ = "none" THEN @ ELSE "failed"]

Fail(r) ==
    /\ Raises(r)
    /\ FailAs(r)
    /\ Others

\* KeyboardInterrupt inside the try; the client gets the signal too.
Interrupt(r) ==
    /\ stage[r] \in InTry
    /\ FailAs(r)
    /\ client' = [client EXCEPT ![r] = IF @ = "running" THEN "killed" ELSE @]
    /\ UNCHANGED <<serverVars, call, via, kills>>

-----------------------------------------------------------------------------
(* The finally block.                                                      *)

\* stop_process_group: nothing to do if the leader already exited.
Stop(r) ==
    /\ stage[r] = "stopping"
    /\ IF Alive(r)
       THEN /\ Goto(r, "terminating")
            /\ server' = [server EXCEPT ![r].signalled = TRUE]
       ELSE /\ Goto(r, "cleaning")
            /\ UNCHANGED server
    /\ UNCHANGED <<code, bundle, trace, crashes, driverVars, kills>>

Stopped(r) ==
    /\ stage[r] \in {"terminating", "killing"}
    /\ ~Alive(r)
    /\ Goto(r, "cleaning")
    /\ UNCHANGED <<code, bundle>>
    /\ Others

StopTimesOut(r) ==
    /\ stage[r] = "terminating"
    /\ Alive(r)
    /\ Goto(r, "killing")
    /\ UNCHANGED <<code, bundle>>
    /\ Others

\* The second wait raises TimeoutExpired out of the finally block.
KillTimesOut(r) ==
    /\ stage[r] = "killing"
    /\ Alive(r)
    /\ Goto(r, "over")
    /\ code' = [code EXCEPT ![r] = 1]
    /\ UNCHANGED bundle
    /\ Others

Clean(r) ==
    /\ stage[r] = "cleaning"
    /\ Goto(r, "over")
    /\ bundle' = [bundle EXCEPT ![r].cleanup = [port |-> Serving = {}, device |-> OnDevice = {}]]
    /\ UNCHANGED code
    /\ Others

Kill(r) ==
    /\ stage[r] # "idle" /\ ~Ended(r)
    /\ kills < MaxKills
    /\ Goto(r, "killed")
    /\ kills' = kills + 1
    /\ UNCHANGED <<code, bundle, serverVars, driverVars>>

RunnerStep(r) ==
    \/ Enter(r) \/ NoConfig(r) \/ Snapshot(r) \/ Block(r) \/ Launch(r)
    \/ Healthy(r) \/ StartClient(r) \/ Complete(r) \/ Fail(r)
    \/ Stop(r) \/ Stopped(r) \/ StopTimesOut(r) \/ KillTimesOut(r) \/ Clean(r)

OnlineNext ==
    \/ \E r \in Runs : RunnerStep(r) \/ Refuse(r) \/ Interrupt(r) \/ Kill(r)
    \/ DriverNext /\ UNCHANGED runnerVars
    \/ ServerNext /\ UNCHANGED <<driverVars, runnerVars>>

\* The scheduler runs the runners and their clients; every wait of theirs has
\* a timeout.  Nothing is assumed of servers, signals and operators.
Fairness == \A r \in Runs : /\ WF_onlineVars(RunnerStep(r))
                            /\ WF_onlineVars(ClientStep(r) /\ UNCHANGED runnerVars)

OnlineSpec == OnlineInit /\ [][OnlineNext]_onlineVars /\ Fairness

-----------------------------------------------------------------------------
(* What the validator reads, and the properties.                           *)

Label == "real-online/formal-matrix"

\* The bundle of a run: which files there are and what they say.  Every
\* request is a recomputation of one block, planned and realized alike.
BundleOf(r) ==
    LET b == bundle[r]
        line(t) == [id |-> t.id, by |-> t.by, prompt |-> 1,
                    plan |-> "recompute", mode |-> "controller"]
        lookup(t) == [id |-> t.id, by |-> t.by, prompt |-> 1, reused |-> 0, recomputed |-> 1,
                      plan |-> "recompute", block |-> 1, realized |-> "recompute"]
        written == [environment_manifest |-> stage[r] # "entered" /\ b.made,
                    run_manifest         |-> b.status # "none",
                    server_log           |-> b.status # "none",
                    client_log           |-> client[r] # "none",
                    request_results      |-> Rows(r) # {},
                    request_summary      |-> client[r] = "finished",
                    runtime_observations |-> trace[r] # {},
                    runtime_events       |-> trace[r] # {},
                    cleanup              |-> b.cleanup # Absent]
    IN  [files |-> {f \in DOMAIN written : written[f]},
         rows |-> Rows(r), summary |-> Summary(r),
         observations |-> {line(t) : t \in trace[r]},
         lookups |-> {lookup(t) : t \in trace[r]},
         commits |-> trace[r],
         labels |-> {Label}, fingerprint |-> "protocol", dirty |-> b.dirty,
         status |-> b.status, mode |-> "controller", cleanup |-> b.cleanup,
         graph |-> server[r].engine # "off"]

ValidRun(r) == Valid(BundleOf(r), Label, FALSE)

OnlineTypeOK ==
    /\ server \in [Runs -> [api : {"none", "starting", "serving", "gone"},
                            engine : {"off", "on", "gone"}, registered : BOOLEAN,
                            signalled : BOOLEAN]]
    /\ \A r \in Runs : \A t \in trace[r] : t.by \in Runs /\ t.id \in Requests(t.by)
    /\ client \in [Runs -> {"none", "running", "finished", "crashed", "killed"}]
    /\ \A r \in Runs :
         /\ call[r] \in [Requests(r) -> {"queued", "sent", "answered", "empty", "refused",
                                             "lost"}]
         /\ via[r] \in [Requests(r) -> Runs \cup {Absent}]
    /\ stage \in [Runs -> {"idle", "entered", "snapshot", "probing", "checking", "driving",
                           "stopping", "terminating", "killing", "cleaning", "over", "killed"}]
    /\ code \in [Runs -> {Absent, 0, 1, 3}]
    /\ \A r \in Runs : /\ bundle[r].status \in {"none", "starting", "completed", "failed"}
                       /\ bundle[r].cleanup \in {Absent} \cup [port : BOOLEAN, device : BOOLEAN]
    /\ crashes \in 0 .. MaxCrashes /\ kills \in 0 .. MaxKills

\* The one engine line a valid bundle holds against a success is of the request
\* that was answered exactly when the server of the run answered it, although
\* the port, the request ids and the trace files do not tell runs apart and an
\* orphan of a killed run may be on the other end.  With two runs it always
\* was: that another server answers and the line of another client's request
\* stands in for the missing one takes the orphans of two earlier runs.
IsolatedEvidence ==
    \A r \in Runs : ValidRun(r) =>
        \A row \in Ok(Rows(r)) :
            /\ \A t \in trace[r] : t.id = row.id => (t.by = r <=> via[r][row.id] = r)
            /\ via[r][row.id] # r => RunCount > 2

\* A bundle that passes the validator leaves nothing behind: the server it
\* measured has left the port and the device, also the engine, which may
\* survive the leader stop_process_group waits for.
ValidMeansReleased ==
    \A r \in Runs : ValidRun(r) => ~Alive(r) /\ server[r].engine # "on"

\* A run that began ends or is killed, whatever the server, the port and the
\* requests do: every wait of runner and client has an end.
EveryRunEnds == \A r \in Runs : stage[r] # "idle" ~> Ended(r)

-----------------------------------------------------------------------------
(* The contract of a run, as a refinement.                                 *)

PhaseOf(r) == CASE stage[r] \in {"idle", "over", "killed"} -> stage[r]
                [] OTHER -> "active"

\* The verdict of the process is seen when it exits.
RecordOf(r) ==
    [status |-> bundle[r].status, blocked |-> bundle[r].blocked, failed |-> bundle[r].failed,
     cleaned |-> bundle[r].cleanup # Absent, rc |-> IF stage[r] = "over" THEN code[r] ELSE Absent]

Contract == INSTANCE RunContract WITH
    NoCode <- Absent,
    phase <- [r \in Runs |-> PhaseOf(r)],
    record <- [r \in Runs |-> RecordOf(r)]

\* The runner gives a suite what RunContract promises: exit code 0 only with a
\* completed and cleaned bundle, 3 only with BLOCKED.txt and no server, and
\* records that are never taken back.
ImplementsRunContract == Contract!ContractSpec
=============================================================================
