----------------------------- MODULE OnlineServer -----------------------------
(***************************************************************************)
(* The carrier's server as the online lifecycle meets it: one process      *)
(* group per run, led by the API process that owns the port (the launch    *)
(* script execs it) with an engine process that owns the device.  It is    *)
(* outside the repository.  It writes the controller's observations and    *)
(* the engine's lookups and commits into the bundle of the run it was      *)
(* started for, whoever sends the requests.                                *)
(***************************************************************************)
EXTENDS BundleValidator

CONSTANTS
    RunCount,     \* lifecycles, on one host, port and device
    Load,        \* requests in the workload of each run
    MaxCrashes    \* bound on servers that die by themselves

Runs == 1 .. RunCount
Requests(r) == 1 .. Load[r]   \* their ids: the same numbers in every run

ASSUME RunCountAssumption == RunCount \in Nat \ {0}
ASSUME LoadAssumption == Load \in [Runs -> Nat \ {0}]

VARIABLES
    server,    \* the process group of each run
    trace,     \* runtime_observations.jsonl and runtime_events.jsonl of each run
    crashes

serverVars == <<server, trace, crashes>>

NoServer == [api |-> "none", engine |-> "off", registered |-> FALSE, signalled |-> FALSE]

ServerInit ==
    /\ server = [r \in Runs |-> NoServer]
    /\ trace = [r \in Runs |-> {}]
    /\ crashes = 0

Serving == {s \in Runs : server[s].api = "serving"}
OnDevice == {s \in Runs : server[s].engine = "on"}
Alive(s) == server[s].api \in {"starting", "serving"}

\* The plugin is registered, or fails to be, before the engine takes the device.
LoadEngine(s) ==
    /\ server[s].api = "starting"
    /\ server[s].engine = "off"
    /\ \E registered \in BOOLEAN :
         server' = [server EXCEPT ![s].engine = "on", ![s].registered = registered]
    /\ UNCHANGED <<trace, crashes>>

\* The API process binds the port, or dies because another one has it.
Bind(s) ==
    /\ server[s].api = "starting"
    /\ server[s].engine = "on"
    /\ server' = [server EXCEPT ![s].api = IF Serving = {} THEN "serving" ELSE "gone"]
    /\ UNCHANGED <<trace, crashes>>

\* The API process dies by itself; its engine may outlive it.
Crash(s) ==
    /\ crashes < MaxCrashes
    /\ Alive(s)
    /\ server' = [server EXCEPT ![s].api = "gone"]
    /\ crashes' = crashes + 1
    /\ UNCHANGED trace

ApiStops(s) ==
    /\ Alive(s)
    /\ server[s].signalled
    /\ server' = [server EXCEPT ![s].api = "gone"]
    /\ UNCHANGED <<trace, crashes>>

EngineStops(s) ==
    /\ server[s].engine = "on"
    /\ server[s].signalled \/ server[s].api = "gone"
    /\ server' = [server EXCEPT ![s].engine = "gone"]
    /\ UNCHANGED <<trace, crashes>>

ServerNext == \E s \in Runs : LoadEngine(s) \/ Bind(s) \/ Crash(s) \/ ApiStops(s) \/ EngineStops(s)
=============================================================================
