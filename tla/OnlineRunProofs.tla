---------------------------- MODULE OnlineRunProofs ----------------------------
(***************************************************************************)
(* Machine-checked facts about the lifecycle runner with its server, its   *)
(* client and the validator, for any number of runs, requests, threads,    *)
(* crashes and kills.                                                      *)
(***************************************************************************)
EXTENDS OnlineRun, FiniteSetTheorems, TLAPS

-----------------------------------------------------------------------------
(* The inductive invariant.                                                *)

Stages == {"idle", "entered", "snapshot", "probing", "checking", "driving",
           "stopping", "terminating", "killing", "cleaning", "over", "killed"}
Servers == [api : {"none", "starting", "serving", "gone"}, engine : {"off", "on", "gone"},
            registered : BOOLEAN, signalled : BOOLEAN]
TraceLines == [id : Nat, by : Runs]
Cleanups == [port : BOOLEAN, device : BOOLEAN]
Bundles == [made : BOOLEAN, dirty : BOOLEAN, idle : BOOLEAN,
            status : {"none", "starting", "completed", "failed"},
            blocked : BOOLEAN, failed : BOOLEAN, cleanup : {Absent} \cup Cleanups]

ServerTypes ==
    /\ server \in [Runs -> Servers]
    /\ trace \in [Runs -> SUBSET TraceLines]
    /\ \A s \in Runs : \A t \in trace[s] : t.id \in Requests(t.by)
    /\ \A s \in Runs : IsFiniteSet(trace[s])
    /\ crashes \in 0 .. MaxCrashes

DriverTypes ==
    /\ client \in [Runs -> {"none", "running", "finished", "crashed", "killed"}]
    /\ DOMAIN call = Runs
    /\ DOMAIN via = Runs
    /\ \A r \in Runs :
         /\ call[r] \in [Requests(r) -> {"queued", "sent", "answered", "empty", "refused", "lost"}]
         /\ via[r] \in [Requests(r) -> Runs \cup {Absent}]

RunnerTypes ==
    /\ stage \in [Runs -> Stages]
    /\ code \in [Runs -> {Absent, 0, 1, 3}]
    /\ bundle \in [Runs -> Bundles]
    /\ kills \in 0 .. MaxKills

OnlineTypes == ServerTypes /\ DriverTypes /\ RunnerTypes

\* What a runner has written by each of its stages.
Unwritten(r) ==
    /\ bundle[r].status = "none" /\ ~bundle[r].blocked /\ ~bundle[r].failed
    /\ bundle[r].cleanup = Absent

Verdict(r) ==
    /\ ~bundle[r].blocked
    /\ \/ code[r] = 0 /\ bundle[r].status = "completed" /\ ~bundle[r].failed
       \/ code[r] = 1 /\ bundle[r].status \in {"none", "failed"} /\ bundle[r].failed

WrittenByStage(r) ==
    /\ stage[r] = "idle" => Unwritten(r) /\ code[r] = Absent
    /\ stage[r] \in {"entered", "snapshot"} => Unwritten(r)
    /\ stage[r] \in {"probing", "checking", "driving"} =>
         /\ bundle[r].status = "starting" /\ ~bundle[r].blocked /\ ~bundle[r].failed
         /\ bundle[r].cleanup = Absent
    /\ stage[r] \in {"stopping", "terminating", "killing"} =>
         Verdict(r) /\ bundle[r].cleanup = Absent
    /\ stage[r] = "cleaning" =>
         /\ bundle[r].cleanup = Absent
         /\ \/ Verdict(r)
            \/ /\ code[r] = 3 /\ bundle[r].status = "none"
               /\ bundle[r].blocked /\ ~bundle[r].failed
    /\ stage[r] = "over" => Contract!Final(RecordOf(r))
    /\ stage[r] = "killed" => bundle[r].cleanup = Absent

\* What a runner knows of its server: none before Launch, not yet signalled
\* before Stop, not alive once it cleans up and for ever after.
ServerByStage(r) ==
    /\ stage[r] \in {"idle", "entered", "snapshot"} => server[r] = NoServer
    /\ stage[r] \in {"probing", "checking", "driving", "stopping"} => ~server[r].signalled
    /\ stage[r] = "cleaning" => ~Alive(r)
    /\ bundle[r].cleanup # Absent => /\ ~Alive(r)
                                     /\ bundle[r].cleanup.device => server[r].engine # "on"

\* A client that runs was started on a registered server that nobody signalled.
ClientByStage(r) ==
    /\ stage[r] \in {"idle", "entered", "snapshot", "probing", "checking"} => client[r] = "none"
    /\ client[r] = "running" => stage[r] \in {"driving", "killed"} /\ ~server[r].signalled
    /\ client[r] # "none" => server[r].registered /\ server[r].api # "none"
    /\ client[r] = "none" => \A q \in Requests(r) : call[r][q] = "queued" /\ via[r][q] = Absent

\* A server that serves unsignalled has its engine on the device, and only a
\* server whose engine was loaded is registered.
EngineServes(r) ==
    /\ server[r].api = "serving" /\ ~server[r].signalled => server[r].engine = "on"
    /\ server[r].registered => server[r].engine # "off" /\ server[r].api # "none"

\* What holds of each run by itself.
RunInv(r) == WrittenByStage(r) /\ ServerByStage(r) /\ ClientByStage(r) /\ EngineServes(r)

Done == {"sent", "answered", "empty", "lost"}

\* A line of a trace is of a request that went to that server, and a request
\* that went to the server of its own run and was taken has its line there.
LinesFollowRequests ==
    /\ \A s \in Runs : \A t \in trace[s] :
         via[t.by][t.id] = s /\ call[t.by][t.id] # "queued"
    /\ \A r \in Runs : \A q \in Requests(r) : call[r][q] \in Done =>
         /\ via[r][q] \in Runs
         /\ via[r][q] = r => [id |-> q, by |-> r] \in trace[r]

\* Of two runs the second starts its server after the first one's client lost
\* the server it was started on.
TwoRuns == RunCount = 2 =>
    /\ stage[2] # "idle" => Ended(1)
    /\ stage[1] = "checking" \/ client[1] # "none" => server[1].api \in {"serving", "gone"}
    /\ client[1] # "none" /\ server[2].api # "none" => server[1].api = "gone"
    /\ client[1] # "none" => \A q \in Requests(2) : via[2][q] # 1

OnlineInv ==
    /\ OnlineTypes
    /\ \A r \in Runs : RunInv(r)
    /\ LinesFollowRequests
    /\ TwoRuns

-----------------------------------------------------------------------------
(* Types.                                                                  *)

USE RunCountAssumption, LoadAssumption, AbsentAssumption, BoundsAssumption DEF Runs

LEMMA InitHolds == ASSUME OnlineInit PROVE OnlineInv
<1>1. OnlineTypes
  BY FS_EmptySet DEF OnlineInit, ServerInit, DriverInit, OnlineTypes, ServerTypes, DriverTypes,
     RunnerTypes, Servers, NoServer, Stages, NoBundle, Bundles
<1>2. \A r \in Runs : RunInv(r)
  BY DEF OnlineInit, ServerInit, DriverInit, RunInv, WrittenByStage, Unwritten, ServerByStage,
     ClientByStage, EngineServes, NoServer, NoBundle, Alive
<1>3. LinesFollowRequests
  BY DEF OnlineInit, ServerInit, DriverInit, LinesFollowRequests, Done
<1>4. TwoRuns
  BY DEF OnlineInit, ServerInit, DriverInit, TwoRuns
<1>5. QED
  BY <1>1, <1>2, <1>3, <1>4 DEF OnlineInv

\* A record with one field replaced keeps its type.
LEMMA ServerFields ==
    ASSUME NEW s \in Servers
    PROVE  /\ \A a \in {"none", "starting", "serving", "gone"} : [s EXCEPT !.api = a] \in Servers
           /\ \A e \in {"off", "on", "gone"} : [s EXCEPT !.engine = e] \in Servers
           /\ \A b \in BOOLEAN : [s EXCEPT !.registered = b] \in Servers
           /\ \A b \in BOOLEAN : [s EXCEPT !.signalled = b] \in Servers
BY DEF Servers

LEMMA BundleFields ==
    ASSUME NEW b \in Bundles
    PROVE  /\ \A x \in BOOLEAN : /\ [b EXCEPT !.made = x] \in Bundles
                                 /\ [b EXCEPT !.dirty = x] \in Bundles
                                 /\ [b EXCEPT !.idle = x] \in Bundles
                                 /\ [b EXCEPT !.blocked = x] \in Bundles
                                 /\ [b EXCEPT !.failed = x] \in Bundles
           /\ \A s \in {"none", "starting", "completed", "failed"} :
                [b EXCEPT !.status = s] \in Bundles
           /\ \A c \in {Absent} \cup Cleanups : [b EXCEPT !.cleanup = c] \in Bundles
BY DEF Bundles

LEMMA ServerStepTypes ==
    ASSUME ServerTypes, ServerNext
    PROVE  ServerTypes'
<1> USE DEF ServerTypes
<1>1. PICK s \in Runs : LoadEngine(s) \/ Bind(s) \/ Crash(s) \/ ApiStops(s) \/ EngineStops(s)
  BY DEF ServerNext
<1>2. server' \in [Runs -> Servers]
  <2>1. server[s] \in Servers
    OBVIOUS
  <2>2. CASE LoadEngine(s)
    <3>1. PICK b \in BOOLEAN :
            server' = [server EXCEPT ![s] = [[server[s] EXCEPT !.engine = "on"]
                                             EXCEPT !.registered = b]]
      BY <2>1, <2>2 DEF LoadEngine
    <3>2. [[server[s] EXCEPT !.engine = "on"] EXCEPT !.registered = b] \in Servers
      BY <2>1, ServerFields
    <3>3. QED
      BY <3>1, <3>2
  <2>3. CASE Bind(s)
    <3>1. PICK a \in {"serving", "gone"} : server' = [server EXCEPT ![s] = [server[s] EXCEPT !.api = a]]
      BY <2>1, <2>3 DEF Bind
    <3>2. [server[s] EXCEPT !.api = a] \in Servers
      BY <2>1, ServerFields
    <3>3. QED
      BY <3>1, <3>2
  <2>4. CASE Crash(s) \/ ApiStops(s)
    <3>1. server' = [server EXCEPT ![s] = [server[s] EXCEPT !.api = "gone"]]
      BY <2>4 DEF Crash, ApiStops
    <3>2. [server[s] EXCEPT !.api = "gone"] \in Servers
      BY <2>1, ServerFields
    <3>3. QED
      BY <3>1, <3>2
  <2>5. CASE EngineStops(s)
    <3>1. server' = [server EXCEPT ![s] = [server[s] EXCEPT !.engine = "gone"]]
      BY <2>5 DEF EngineStops
    <3>2. [server[s] EXCEPT !.engine = "gone"] \in Servers
      BY <2>1, ServerFields
    <3>3. QED
      BY <3>1, <3>2
  <2>6. QED
    BY <1>1, <2>2, <2>3, <2>4, <2>5
<1>3. crashes' \in 0 .. MaxCrashes
  BY <1>1 DEF LoadEngine, Bind, Crash, ApiStops, EngineStops
<1>4. trace' = trace
  BY <1>1 DEF LoadEngine, Bind, Crash, ApiStops, EngineStops
<1>5. QED
  BY <1>2, <1>3, <1>4

\* What one request's call changes, as facts about the functions.
LEMMA CallMoves ==
    ASSUME DriverTypes, NEW r \in Runs, NEW q \in Requests(r),
           NEW c \in {"queued", "sent", "answered", "empty", "refused", "lost"},
           call' = [call EXCEPT ![r][q] = c]
    PROVE  /\ DOMAIN call' = Runs
           /\ call'[r] \in [Requests(r) -> {"queued", "sent", "answered", "empty", "refused", "lost"}]
           /\ call'[r][q] = c
           /\ \A p \in Requests(r) : p # q => call'[r][p] = call[r][p]
           /\ \A s \in Runs : s # r => call'[s] = call[s]
BY DEF DriverTypes

LEMMA ViaMoves ==
    ASSUME DriverTypes, NEW r \in Runs, NEW q \in Requests(r), NEW s \in Runs,
           via' = [via EXCEPT ![r][q] = s]
    PROVE  /\ DOMAIN via' = Runs
           /\ via'[r] \in [Requests(r) -> Runs \cup {Absent}]
           /\ via'[r][q] = s
           /\ \A p \in Requests(r) : p # q => via'[r][p] = via[r][p]
           /\ \A t \in Runs : t # r => via'[t] = via[t]
BY DEF DriverTypes

\* A line that Send adds to a trace.
LEMMA TraceGrows ==
    ASSUME ServerTypes, NEW r \in Runs, NEW q \in Requests(r), NEW s \in Runs,
           trace' = [trace EXCEPT ![s] = @ \cup {[id |-> q, by |-> r]}]
    PROVE  /\ trace' \in [Runs -> SUBSET TraceLines]
           /\ \A x \in Runs : \A t \in trace'[x] : t.id \in Requests(t.by)
           /\ \A x \in Runs : IsFiniteSet(trace'[x])
           /\ trace'[s] = trace[s] \cup {[id |-> q, by |-> r]}
           /\ \A x \in Runs : x # s => trace'[x] = trace[x]
<1>1. q \in Nat
  BY DEF Requests
<1>2. [id |-> q, by |-> r] \in TraceLines
  BY <1>1 DEF TraceLines
<1>3. /\ trace'[s] = trace[s] \cup {[id |-> q, by |-> r]}
      /\ \A x \in Runs : x # s => trace'[x] = trace[x]
  BY DEF ServerTypes
<1>4. trace' \in [Runs -> SUBSET TraceLines]
  <2>1. trace[s] \cup {[id |-> q, by |-> r]} \in SUBSET TraceLines
    BY <1>2 DEF ServerTypes
  <2>2. QED
    BY <2>1 DEF ServerTypes
<1>5. \A x \in Runs : \A t \in trace'[x] : t.id \in Requests(t.by)
  BY <1>3 DEF ServerTypes
<1>6. IsFiniteSet(trace[s] \cup {[id |-> q, by |-> r]})
  BY FS_AddElement DEF ServerTypes
<1>7. \A x \in Runs : IsFiniteSet(trace'[x])
  BY <1>3, <1>6 DEF ServerTypes
<1>8. QED
  BY <1>3, <1>4, <1>5, <1>7

-----------------------------------------------------------------------------
(* What a step of a client does, whichever action it is.                   *)

Keeps == client' = client /\ server' = server /\ crashes' = crashes /\ UNCHANGED runnerVars
SetsCall(r, q, c) == call' = [call EXCEPT ![r][q] = c]

\* A request under way ends.
Ends(r, q) ==
    /\ call[r][q] = "sent"
    /\ \E c \in {"answered", "empty", "refused", "lost"} : SetsCall(r, q, c)
    /\ UNCHANGED <<via, trace>>

\* A queued request finds nobody, is turned away, or is taken.
FindsNobody(r, q) ==
    /\ call[r][q] = "queued"
    /\ SetsCall(r, q, "refused")
    /\ UNCHANGED <<via, trace>>

TurnedAway(r, q, s) ==
    /\ call[r][q] = "queued"
    /\ via' = [via EXCEPT ![r][q] = s]
    /\ SetsCall(r, q, "refused")
    /\ UNCHANGED trace

Taken(r, q, s) ==
    /\ call[r][q] = "queued"
    /\ via' = [via EXCEPT ![r][q] = s]
    /\ SetsCall(r, q, "sent")
    /\ trace' = IF s \in OnDevice /\ server[s].registered
                THEN [trace EXCEPT ![s] = @ \cup {[id |-> q, by |-> r]}]
                ELSE trace

Collects(r) ==
    /\ client' = [client EXCEPT ![r] = IF Lost(r) = {} THEN "finished" ELSE "crashed"]
    /\ UNCHANGED <<call, via, serverVars, runnerVars>>

RequestMoves(r, q) ==
    /\ Keeps
    /\ \/ Ends(r, q)
       \/ FindsNobody(r, q)
       \/ \E s \in Serving : TurnedAway(r, q, s) \/ Taken(r, q, s)

LEMMA DriverSteps ==
    ASSUME DriverNext, UNCHANGED runnerVars
    PROVE  \E r \in Runs : /\ client[r] = "running"
                           /\ Collects(r) \/ \E q \in Requests(r) : RequestMoves(r, q)
<1>1. PICK r \in Runs : \/ ClientStep(r)
                        \/ \E q \in Requests(r) : Answer(r, q) \/ Reject(r, q) \/ Truncate(r, q)
  BY DEF DriverNext
<1>2. CASE Collect(r)
  BY <1>2 DEF Collect, Collects
<1>3. ASSUME NEW q \in Requests(r), Send(r, q)
      PROVE  client[r] = "running" /\ RequestMoves(r, q)
  <2>1. client[r] = "running" /\ call[r][q] = "queued" /\ Keeps
    BY <1>3 DEF Send, Queued, Keeps
  <2>2. \/ FindsNobody(r, q)
        \/ \E s \in Serving : TurnedAway(r, q, s) \/ Taken(r, q, s)
    BY <1>3, <2>1 DEF Send, FindsNobody, TurnedAway, Taken, SetsCall
  <2>3. QED
    BY <2>1, <2>2 DEF RequestMoves
<1>4. ASSUME NEW q \in Requests(r),
             Break(r, q) \/ Answer(r, q) \/ Reject(r, q) \/ Truncate(r, q)
      PROVE  client[r] = "running" /\ RequestMoves(r, q)
  <2>1. client[r] = "running" /\ Keeps
    BY <1>4 DEF Break, Answer, Reject, Truncate, Keeps, serverVars
  <2>2. Ends(r, q)
    BY <1>4 DEF Break, Answer, Reject, Truncate, Ends, Sent, SetsCall, serverVars
  <2>3. QED
    BY <2>1, <2>2 DEF RequestMoves
<1>5. QED
  BY <1>1, <1>2, <1>3, <1>4 DEF ClientStep

LEMMA DriverStepTypes ==
    ASSUME OnlineTypes, DriverNext, UNCHANGED runnerVars
    PROVE  OnlineTypes'
<1>1. PICK r \in Runs : /\ client[r] = "running"
                        /\ Collects(r) \/ \E q \in Requests(r) : RequestMoves(r, q)
  BY DriverSteps
<1>2. RunnerTypes'
  BY DEF OnlineTypes, RunnerTypes, runnerVars
<1>3. CASE Collects(r)
  <2>1. ServerTypes'
    BY <1>3 DEF Collects, OnlineTypes, ServerTypes, serverVars
  <2>2. DriverTypes'
    BY <1>3 DEF Collects, OnlineTypes, DriverTypes
  <2>3. QED
    BY <1>2, <2>1, <2>2 DEF OnlineTypes
<1>4. ASSUME NEW q \in Requests(r), RequestMoves(r, q)
      PROVE  OnlineTypes'
  <2>0. DriverTypes /\ ServerTypes
    BY DEF OnlineTypes
  <2>1. client' \in [Runs -> {"none", "running", "finished", "crashed", "killed"}]
    BY <1>4, <2>0 DEF RequestMoves, Keeps, DriverTypes
  <2>2. PICK c \in {"answered", "empty", "refused", "lost", "sent"} : SetsCall(r, q, c)
    BY <1>4 DEF RequestMoves, Ends, FindsNobody, TurnedAway, Taken
  <2>3. /\ DOMAIN call' = Runs
        /\ \A s \in Runs : call'[s] \in [Requests(s) -> {"queued", "sent", "answered", "empty",
                                                         "refused", "lost"}]
    BY <2>0, <2>2, CallMoves DEF SetsCall, DriverTypes
  <2>4. \/ via' = via
        \/ \E s \in Runs : via' = [via EXCEPT ![r][q] = s]
    BY <1>4 DEF RequestMoves, Ends, FindsNobody, TurnedAway, Taken, Serving
  <2>5. /\ DOMAIN via' = Runs
        /\ \A s \in Runs : via'[s] \in [Requests(s) -> Runs \cup {Absent}]
    BY <2>0, <2>4, ViaMoves DEF DriverTypes
  <2>6. DriverTypes'
    BY <2>1, <2>3, <2>5 DEF DriverTypes, Requests
  <2>7. \/ trace' = trace
        \/ \E s \in Runs : trace' = [trace EXCEPT ![s] = @ \cup {[id |-> q, by |-> r]}]
    BY <1>4 DEF RequestMoves, Ends, FindsNobody, TurnedAway, Taken, Serving
  <2>8. /\ trace' \in [Runs -> SUBSET TraceLines]
        /\ \A x \in Runs : \A t \in trace'[x] : t.id \in Requests(t.by)
        /\ \A x \in Runs : IsFiniteSet(trace'[x])
    BY <2>0, <2>7, TraceGrows DEF ServerTypes
  <2>9. ServerTypes'
    BY <1>4, <2>0, <2>8 DEF ServerTypes, RequestMoves, Keeps, Requests
  <2>10. QED
    BY <1>2, <2>6, <2>9 DEF OnlineTypes
<1>5. QED
  BY <1>1, <1>3, <1>4

-----------------------------------------------------------------------------
(* What a step of a runner does to its stage, its code and its bundle.     *)

Moves(r, st, c, b) ==
    /\ stage' = [stage EXCEPT ![r] = st]
    /\ code' = [code EXCEPT ![r] = c]
    /\ bundle' = [bundle EXCEPT ![r] = b]

\* Stages that follow one another without a word in the bundle.
Quiet == {<<"probing", "checking">>, <<"checking", "driving">>, <<"stopping", "terminating">>,
          <<"stopping", "cleaning">>, <<"terminating", "cleaning">>, <<"killing", "cleaning">>,
          <<"terminating", "killing">>}

Opened(b, dirty) == [[b EXCEPT !.made = TRUE] EXCEPT !.dirty = dirty]
Failed(b) == [[b EXCEPT !.failed = TRUE] EXCEPT !.status = IF b.status = "none" THEN "none" ELSE "failed"]

EndsAtOnce(r) == stage[r] \in {"idle", "entered", "killing"} /\ Moves(r, "over", 1, bundle[r])
GoesOn(r) == \E st \in Stages : <<stage[r], st>> \in Quiet /\ Moves(r, st, code[r], bundle[r])
Dies(r) == stage[r] \notin {"idle", "over", "killed"} /\ Moves(r, "killed", code[r], bundle[r])
Opens(r) == stage[r] = "idle" /\ \E dirty \in BOOLEAN :
    Moves(r, "entered", code[r], Opened(bundle[r], dirty))
Looks(r) == stage[r] = "entered" /\ \E idle \in BOOLEAN :
    Moves(r, "snapshot", code[r], [bundle[r] EXCEPT !.idle = idle])
IsBlocked(r) == stage[r] = "snapshot" /\ Moves(r, "cleaning", 3, [bundle[r] EXCEPT !.blocked = TRUE])
Starts(r) == stage[r] = "snapshot" /\
    Moves(r, "probing", code[r], [bundle[r] EXCEPT !.status = "starting"])
Succeeds(r) == stage[r] = "driving" /\
    Moves(r, "stopping", 0, [bundle[r] EXCEPT !.status = "completed"])
Fails(r) == stage[r] \in InTry /\ Moves(r, "stopping", 1, Failed(bundle[r]))
Leaves(r) == stage[r] = "cleaning" /\ \E c \in Cleanups :
    Moves(r, "over", code[r], [bundle[r] EXCEPT !.cleanup = c])

RunnerMoves(r) ==
    \/ EndsAtOnce(r) \/ GoesOn(r) \/ Dies(r) \/ Opens(r) \/ Looks(r)
    \/ IsBlocked(r) \/ Starts(r) \/ Succeeds(r) \/ Fails(r) \/ Leaves(r)

RunnerAction(r) == RunnerStep(r) \/ Refuse(r) \/ Interrupt(r) \/ Kill(r)

LEMMA FailMoves ==
    ASSUME RunnerTypes, NEW r \in Runs, stage[r] \in InTry, FailAs(r)
    PROVE  Fails(r)
<1>1. stage' = [stage EXCEPT ![r] = "stopping"] /\ code' = [code EXCEPT ![r] = 1]
  BY DEF FailAs, Goto
<1>2. bundle' = [bundle EXCEPT ![r] = Failed(bundle[r])]
  <2>1. bundle[r] \in Bundles
    BY DEF RunnerTypes
  <2>2. bundle[r].status = "none" => bundle[r].status = "none"
    OBVIOUS
  <2>3. QED
    BY <2>1 DEF FailAs, Failed, RunnerTypes, Bundles
<1>3. QED
  BY <1>1, <1>2 DEF Fails, Moves

LEMMA RunnerTable ==
    ASSUME RunnerTypes, NEW r \in Runs, RunnerAction(r)
    PROVE  RunnerMoves(r)
<1> USE DEF Moves, Goto
<1>0. /\ stage[r] \in Stages
      /\ code = [code EXCEPT ![r] = code[r]]
      /\ bundle = [bundle EXCEPT ![r] = bundle[r]]
  BY DEF RunnerTypes
<1>1. CASE Enter(r)
  <2>1. PICK dirty \in BOOLEAN : bundle' = [bundle EXCEPT ![r].made = TRUE, ![r].dirty = dirty]
    BY <1>1 DEF Enter
  <2>2. bundle' = [bundle EXCEPT ![r] = Opened(bundle[r], dirty)]
    BY <2>1 DEF Opened, RunnerTypes, Bundles
  <2>3. Opens(r)
    BY <1>0, <1>1, <2>2 DEF Enter, Opens
  <2>4. QED
    BY <2>3 DEF RunnerMoves
<1>2. CASE NoConfig(r) \/ Refuse(r) \/ KillTimesOut(r)
  BY <1>0, <1>2 DEF NoConfig, Refuse, KillTimesOut, EndsAtOnce, RunnerMoves
<1>3. CASE Snapshot(r)
  <2>1. Looks(r)
    BY <1>0, <1>3 DEF Snapshot, Looks
  <2>2. QED
    BY <2>1 DEF RunnerMoves
<1>4. CASE Block(r)
  BY <1>4 DEF Block, IsBlocked, RunnerMoves
<1>5. CASE Launch(r)
  BY <1>0, <1>5 DEF Launch, Starts, RunnerMoves
<1>6. CASE Healthy(r)
  BY <1>0, <1>6 DEF Healthy, GoesOn, Quiet, Stages, RunnerMoves
<1>7. CASE StartClient(r)
  BY <1>0, <1>7 DEF StartClient, GoesOn, Quiet, Stages, RunnerMoves
<1>8. CASE Complete(r)
  BY <1>8 DEF Complete, Succeeds, RunnerMoves
<1>9. CASE Fail(r) \/ Interrupt(r)
  <2>1. stage[r] \in InTry
    BY <1>9 DEF Fail, Raises, Interrupt, InTry
  <2>2. Fails(r)
    BY <1>9, <2>1, FailMoves DEF Fail, Interrupt
  <2>3. QED
    BY <2>2 DEF RunnerMoves
<1>10. CASE Stop(r)
  BY <1>0, <1>10 DEF Stop, GoesOn, Quiet, Stages, RunnerMoves
<1>11. CASE Stopped(r) \/ StopTimesOut(r)
  BY <1>0, <1>11 DEF Stopped, StopTimesOut, GoesOn, Quiet, Stages, RunnerMoves
<1>12. CASE Clean(r)
  <2>1. [port |-> Serving = {}, device |-> OnDevice = {}] \in Cleanups
    BY DEF Cleanups
  <2>2. Leaves(r)
    BY <1>0, <1>12, <2>1 DEF Clean, Leaves
  <2>3. QED
    BY <2>2 DEF RunnerMoves
<1>13. CASE Kill(r)
  BY <1>0, <1>13 DEF Kill, Ended, Dies, RunnerMoves
<1>14. QED
  BY <1>1, <1>2, <1>3, <1>4, <1>5, <1>6, <1>7, <1>8, <1>9, <1>10, <1>11, <1>12, <1>13
     DEF RunnerAction, RunnerStep

\* A step of a runner is a step of that run only, and takes its code and its
\* bundle from what it had written to what it writes next.
RunnerMoved(r) ==
    /\ stage' \in [Runs -> Stages]
    /\ code' \in [Runs -> {Absent, 0, 1, 3}]
    /\ bundle' \in [Runs -> Bundles]
    /\ \A s \in Runs : s # r => /\ stage'[s] = stage[s]
                                /\ code'[s] = code[s]
                                /\ bundle'[s] = bundle[s]
    /\ bundle'[r].cleanup # bundle[r].cleanup =>
         stage[r] = "cleaning" /\ bundle'[r].cleanup \in Cleanups

LEMMA RunnerStepWrites ==
    ASSUME RunnerTypes, NEW r \in Runs, WrittenByStage(r), RunnerMoves(r)
    PROVE  RunnerMoved(r) /\ WrittenByStage(r)'
<1>0. /\ stage[r] \in Stages /\ code[r] \in {Absent, 0, 1, 3} /\ bundle[r] \in Bundles
  BY DEF RunnerTypes
<1>1. ASSUME NEW st \in Stages, NEW c \in {Absent, 0, 1, 3}, NEW b \in Bundles,
             Moves(r, st, c, b),
             b.cleanup # bundle[r].cleanup => stage[r] = "cleaning" /\ b.cleanup \in Cleanups
      PROVE  RunnerMoved(r) /\ stage'[r] = st /\ code'[r] = c /\ bundle'[r] = b
  <2>1. /\ stage' \in [Runs -> Stages]
        /\ code' \in [Runs -> {Absent, 0, 1, 3}]
        /\ bundle' \in [Runs -> Bundles]
        /\ stage'[r] = st /\ code'[r] = c /\ bundle'[r] = b
        /\ \A s \in Runs : s # r => /\ stage'[s] = stage[s]
                                    /\ code'[s] = code[s]
                                    /\ bundle'[s] = bundle[s]
    BY <1>1 DEF RunnerTypes, Moves
  <2>2. QED
    BY <1>1, <2>1 DEF RunnerMoved
<1>2. CASE EndsAtOnce(r)
  <2>1. RunnerMoved(r) /\ stage'[r] = "over" /\ code'[r] = 1 /\ bundle'[r] = bundle[r]
    BY <1>0, <1>1, <1>2 DEF EndsAtOnce, Stages
  <2>2. ~bundle[r].blocked /\ bundle[r].cleanup = Absent
    BY <1>2 DEF EndsAtOnce, WrittenByStage, Unwritten, Verdict
  <2>3. Contract!Final(RecordOf(r))'
    BY <2>1, <2>2 DEF Contract!Final, RecordOf
  <2>4. QED
    BY <2>1, <2>3 DEF WrittenByStage
<1>3. CASE GoesOn(r)
  <2>1. PICK st \in Stages : <<stage[r], st>> \in Quiet /\ Moves(r, st, code[r], bundle[r])
    BY <1>3 DEF GoesOn
  <2>2. RunnerMoved(r) /\ stage'[r] = st /\ code'[r] = code[r] /\ bundle'[r] = bundle[r]
    BY <1>0, <1>1, <2>1
  <2>3. WrittenByStage(r)'
    BY <2>1, <2>2 DEF Quiet, WrittenByStage, Verdict
  <2>4. QED
    BY <2>2, <2>3
<1>4. CASE Dies(r)
  <2>1. RunnerMoved(r) /\ stage'[r] = "killed" /\ code'[r] = code[r] /\ bundle'[r] = bundle[r]
    BY <1>0, <1>1, <1>4 DEF Dies, Stages
  <2>2. bundle[r].cleanup = Absent
    BY <1>0, <1>4 DEF Dies, WrittenByStage, Unwritten, Stages
  <2>3. QED
    BY <2>1, <2>2 DEF WrittenByStage
<1>5. CASE Opens(r)
  <2>1. PICK dirty \in BOOLEAN : Moves(r, "entered", code[r], Opened(bundle[r], dirty))
    BY <1>5 DEF Opens
  <2>2. Opened(bundle[r], dirty) \in Bundles /\ Opened(bundle[r], dirty).cleanup = bundle[r].cleanup
    BY <1>0 DEF Opened, Bundles
  <2>3. /\ RunnerMoved(r) /\ stage'[r] = "entered" /\ code'[r] = code[r]
        /\ bundle'[r] = Opened(bundle[r], dirty)
    BY <1>0, <1>1, <2>1, <2>2 DEF Stages
  <2>4. Unwritten(r)
    BY <1>5 DEF Opens, WrittenByStage
  <2>5. Unwritten(r)'
    BY <1>0, <2>3, <2>4 DEF Unwritten, Opened, Bundles
  <2>6. QED
    BY <2>3, <2>5 DEF WrittenByStage
<1>6. CASE Looks(r)
  <2>1. PICK idle \in BOOLEAN : Moves(r, "snapshot", code[r], [bundle[r] EXCEPT !.idle = idle])
    BY <1>6 DEF Looks
  <2>2. [bundle[r] EXCEPT !.idle = idle] \in Bundles
    BY <1>0, BundleFields
  <2>3. /\ RunnerMoved(r) /\ stage'[r] = "snapshot" /\ code'[r] = code[r]
        /\ bundle'[r] = [bundle[r] EXCEPT !.idle = idle]
    BY <1>0, <1>1, <2>1, <2>2 DEF Stages, Bundles
  <2>4. Unwritten(r)
    BY <1>6 DEF Looks, WrittenByStage
  <2>5. Unwritten(r)'
    BY <1>0, <2>3, <2>4 DEF Unwritten, Bundles
  <2>6. QED
    BY <2>3, <2>5 DEF WrittenByStage
<1>7. CASE IsBlocked(r)
  <2>1. [bundle[r] EXCEPT !.blocked = TRUE] \in Bundles
    BY <1>0, BundleFields
  <2>2. /\ RunnerMoved(r) /\ stage'[r] = "cleaning" /\ code'[r] = 3
        /\ bundle'[r] = [bundle[r] EXCEPT !.blocked = TRUE]
    BY <1>0, <1>1, <1>7, <2>1 DEF IsBlocked, Stages, Bundles
  <2>3. Unwritten(r)
    BY <1>7 DEF IsBlocked, WrittenByStage
  <2>4. QED
    BY <1>0, <2>2, <2>3 DEF WrittenByStage, Unwritten, Bundles
<1>8. CASE Starts(r)
  <2>1. [bundle[r] EXCEPT !.status = "starting"] \in Bundles
    BY <1>0, BundleFields
  <2>2. /\ RunnerMoved(r) /\ stage'[r] = "probing" /\ code'[r] = code[r]
        /\ bundle'[r] = [bundle[r] EXCEPT !.status = "starting"]
    BY <1>0, <1>1, <1>8, <2>1 DEF Starts, Stages, Bundles
  <2>3. Unwritten(r)
    BY <1>8 DEF Starts, WrittenByStage
  <2>4. QED
    BY <1>0, <2>2, <2>3 DEF WrittenByStage, Unwritten, Bundles
<1>9. CASE Succeeds(r)
  <2>1. [bundle[r] EXCEPT !.status = "completed"] \in Bundles
    BY <1>0, BundleFields
  <2>2. /\ RunnerMoved(r) /\ stage'[r] = "stopping" /\ code'[r] = 0
        /\ bundle'[r] = [bundle[r] EXCEPT !.status = "completed"]
    BY <1>0, <1>1, <1>9, <2>1 DEF Succeeds, Stages, Bundles
  <2>3. ~bundle[r].blocked /\ ~bundle[r].failed /\ bundle[r].cleanup = Absent
    BY <1>9 DEF Succeeds, WrittenByStage
  <2>4. QED
    BY <1>0, <2>2, <2>3 DEF WrittenByStage, Verdict, Bundles
<1>10. CASE Fails(r)
  <2>1. /\ Failed(bundle[r]) \in Bundles /\ Failed(bundle[r]).failed
        /\ Failed(bundle[r]).status \in {"none", "failed"}
        /\ Failed(bundle[r]).blocked = bundle[r].blocked
        /\ Failed(bundle[r]).cleanup = bundle[r].cleanup
    BY <1>0 DEF Failed, Bundles
  <2>2. /\ RunnerMoved(r) /\ stage'[r] = "stopping" /\ code'[r] = 1
        /\ bundle'[r] = Failed(bundle[r])
    BY <1>0, <1>1, <1>10, <2>1 DEF Fails, Stages
  <2>3. ~bundle[r].blocked /\ bundle[r].cleanup = Absent
    BY <1>10 DEF Fails, InTry, WrittenByStage, Unwritten
  <2>4. QED
    BY <2>1, <2>2, <2>3 DEF WrittenByStage, Verdict
<1>11. CASE Leaves(r)
  <2>1. PICK c \in Cleanups : Moves(r, "over", code[r], [bundle[r] EXCEPT !.cleanup = c])
    BY <1>11 DEF Leaves
  <2>2. [bundle[r] EXCEPT !.cleanup = c] \in Bundles
    BY <1>0, BundleFields
  <2>3. /\ RunnerMoved(r) /\ stage'[r] = "over" /\ code'[r] = code[r]
        /\ bundle'[r] = [bundle[r] EXCEPT !.cleanup = c]
    BY <1>0, <1>1, <1>11, <2>1, <2>2 DEF Leaves, Stages, Bundles
  <2>4. /\ bundle'[r].status = bundle[r].status /\ bundle'[r].blocked = bundle[r].blocked
        /\ bundle'[r].failed = bundle[r].failed /\ bundle'[r].cleanup # Absent
    BY <1>0, <2>3 DEF Bundles, Cleanups
  <2>5. \/ Verdict(r)
        \/ code[r] = 3 /\ bundle[r].status = "none" /\ bundle[r].blocked /\ ~bundle[r].failed
    BY <1>11 DEF Leaves, WrittenByStage
  <2>6. Contract!Final(RecordOf(r))'
    BY <2>3, <2>4, <2>5 DEF Contract!Final, RecordOf, Verdict
  <2>7. QED
    BY <2>3, <2>6 DEF WrittenByStage
<1>12. QED
  BY <1>2, <1>3, <1>4, <1>5, <1>6, <1>7, <1>8, <1>9, <1>10, <1>11 DEF RunnerMoves

-----------------------------------------------------------------------------
(* What a step of a runner does to its server and its client.              *)

ServerRules(r) == ServerByStage(r) /\ ClientByStage(r) /\ EngineServes(r)

RunnerElsewhere(r) ==
    /\ \A s \in Runs : s # r => server'[s] = server[s] /\ client'[s] = client[s]
    /\ server' \in [Runs -> Servers]
    /\ client' \in [Runs -> {"none", "running", "finished", "crashed", "killed"}]
    /\ UNCHANGED <<call, via, trace, crashes>>
    /\ kills' \in 0 .. MaxKills

\* A step that leaves the server and the client alone.
LEMMA StageStepServes ==
    ASSUME OnlineTypes, NEW r \in Runs, RunInv(r), RunnerMoved(r),
           UNCHANGED <<serverVars, driverVars>>,
           \/ Enter(r) \/ NoConfig(r) \/ Refuse(r) \/ Snapshot(r) \/ Block(r) \/ Healthy(r)
           \/ Complete(r) \/ Fail(r) \/ Stopped(r) \/ StopTimesOut(r) \/ KillTimesOut(r)
           \/ Clean(r) \/ Kill(r)
    PROVE  ServerRules(r)'
<1> DEFINE c  == bundle[r].cleanup
           c1 == bundle'[r].cleanup
<1>1. /\ server' = server /\ client' = client /\ call' = call /\ via' = via
      /\ Alive(r)' = Alive(r) /\ stage \in [Runs -> Stages] /\ bundle \in [Runs -> Bundles]
  BY DEF serverVars, driverVars, Alive, OnlineTypes, RunnerTypes
<1>2. EngineServes(r)'
  BY <1>1 DEF RunInv, EngineServes
<1>3. /\ stage'[r] \in {"idle", "entered", "snapshot"} => stage[r] \in {"idle", "entered"}
      /\ stage'[r] = "checking" => stage[r] = "probing"
      /\ stage'[r] = "stopping" => stage[r] \in {"probing", "checking", "driving"}
      /\ stage'[r] \notin {"probing", "driving"}
  <2>1. CASE Enter(r) \/ NoConfig(r) \/ Refuse(r) \/ Snapshot(r) \/ Block(r)
    BY <1>1, <2>1 DEF Enter, NoConfig, Refuse, Snapshot, Block, Goto
  <2>2. CASE Healthy(r) \/ Complete(r) \/ Clean(r)
    BY <1>1, <2>2 DEF Healthy, Complete, Clean, Goto
  <2>3. CASE Fail(r)
    BY <1>1, <2>3 DEF Fail, Raises, FailAs, Goto
  <2>4. CASE Stopped(r) \/ StopTimesOut(r) \/ KillTimesOut(r)
    BY <1>1, <2>4 DEF Stopped, StopTimesOut, KillTimesOut, Goto
  <2>5. CASE Kill(r)
    BY <1>1, <2>5 DEF Kill, Goto
  <2>6. QED
    BY <2>1, <2>2, <2>3, <2>4, <2>5
<1>4. stage'[r] = "cleaning" => ~Alive(r)
  <2>1. CASE Block(r)
    BY <2>1 DEF Block, RunInv, ServerByStage, NoServer, Alive
  <2>2. CASE Stopped(r)
    BY <2>2 DEF Stopped
  <2>3. QED
    BY <1>1, <2>1, <2>2 DEF Enter, NoConfig, Refuse, Snapshot, Healthy, Complete, Fail, FailAs,
              StopTimesOut, KillTimesOut, Clean, Kill, Goto
<1>5. c1 # Absent => ~Alive(r) /\ (c1.device => server[r].engine # "on")
  <2>1. CASE c1 = c
    BY <2>1 DEF RunInv, ServerByStage
  <2>2. CASE c1 # c
    <3>1. stage[r] = "cleaning"
      BY <2>2 DEF RunnerMoved
    <3>2. ~Alive(r)
      BY <3>1 DEF RunInv, ServerByStage
    <3>3. CASE Clean(r)
      <4>1. c1 = [port |-> Serving = {}, device |-> OnDevice = {}]
        BY <1>1, <3>3 DEF Clean, Bundles
      <4>2. CASE OnDevice = {}
        BY <3>2, <4>2 DEF OnDevice
      <4>3. CASE OnDevice # {}
        <5>1. [port |-> Serving = {}, device |-> OnDevice = {}].device = FALSE
          BY <4>3
        <5>2. QED
          BY <3>2, <4>1, <5>1
      <4>4. QED
        BY <4>2, <4>3
    <3>4. CASE Kill(r)
      BY <2>2, <3>4 DEF Kill
    <3>5. QED
      BY <3>1, <3>3, <3>4 DEF Enter, NoConfig, Refuse, Snapshot, Block, Healthy, Complete, Fail,
              Raises, Stopped, StopTimesOut, KillTimesOut
  <2>3. QED
    BY <2>1, <2>2
<1>6. ServerByStage(r)'
  <2>1. stage'[r] \in {"idle", "entered", "snapshot"} => server[r] = NoServer
    BY <1>3 DEF RunInv, ServerByStage
  <2>2. stage'[r] \in {"probing", "checking", "driving", "stopping"} => ~server[r].signalled
    BY <1>3 DEF RunInv, ServerByStage
  <2>3. QED
    BY <1>1, <1>4, <1>5, <2>1, <2>2 DEF ServerByStage
<1>7. ClientByStage(r)'
  <2>1. stage'[r] \in {"idle", "entered", "snapshot", "probing", "checking"} => client[r] = "none"
    BY <1>3 DEF RunInv, ClientByStage
  <2>2. client[r] = "running" => stage'[r] = "killed"
    <3>1. client[r] = "running" => stage[r] \in {"driving", "killed"}
      BY DEF RunInv, ClientByStage
    <3>2. client[r] = "running" => ~Complete(r) /\ ~Fail(r)
      BY <3>1 DEF Complete, Fail, Raises
    <3>3. client[r] = "running" => Kill(r)
      BY <3>1, <3>2 DEF Enter, NoConfig, Refuse, Snapshot, Block, Healthy, Stopped, StopTimesOut,
              KillTimesOut, Clean, Kill, Ended
    <3>4. QED
      BY <1>1, <3>3 DEF Kill, Goto
  <2>3. QED
    BY <1>1, <2>1, <2>2 DEF RunInv, ClientByStage, Requests
<1>8. QED
  BY <1>2, <1>6, <1>7 DEF ServerRules

LEMMA LaunchServes ==
    ASSUME OnlineTypes, NEW r \in Runs, RunInv(r), RunnerMoved(r), Launch(r)
    PROVE  ServerRules(r)'
<1>1. /\ stage[r] = "snapshot" /\ stage'[r] = "probing"
      /\ client' = client /\ call' = call /\ via' = via
  BY DEF Launch, Goto, OnlineTypes, RunnerTypes, driverVars
<1>2. server[r] = NoServer
  BY <1>1 DEF RunInv, ServerByStage
<1>3. /\ server'[r].api = "starting" /\ server'[r].engine = "off"
      /\ ~server'[r].registered /\ ~server'[r].signalled
  BY <1>2 DEF Launch, NoServer, OnlineTypes, ServerTypes
<1>4. bundle'[r].cleanup = Absent
  BY <1>1 DEF RunnerMoved, RunInv, WrittenByStage, Unwritten
<1>5. client[r] = "none"
  BY <1>1 DEF RunInv, ClientByStage
<1>6. ServerByStage(r)'
  BY <1>1, <1>3, <1>4 DEF ServerByStage
<1>7. ClientByStage(r)'
  BY <1>1, <1>5 DEF RunInv, ClientByStage, Requests
<1>8. EngineServes(r)'
  BY <1>3 DEF EngineServes
<1>9. QED
  BY <1>6, <1>7, <1>8 DEF ServerRules

LEMMA StartClientServes ==
    ASSUME OnlineTypes, NEW r \in Runs, RunInv(r), RunnerMoved(r), StartClient(r)
    PROVE  ServerRules(r)'
<1>1. /\ stage[r] = "checking" /\ stage'[r] = "driving" /\ server[r].registered
      /\ server' = server /\ client'[r] = "running"
  BY DEF StartClient, Goto, OnlineTypes, RunnerTypes, DriverTypes, serverVars
<1>2. ~server[r].signalled
  BY <1>1 DEF RunInv, ServerByStage
<1>3. bundle'[r].cleanup = Absent
  BY <1>1 DEF RunnerMoved, RunInv, WrittenByStage
<1>4. server[r].api # "none"
  BY <1>1 DEF RunInv, EngineServes
<1>5. ServerByStage(r)'
  BY <1>1, <1>2, <1>3 DEF ServerByStage
<1>6. ClientByStage(r)'
  BY <1>1, <1>2, <1>4 DEF ClientByStage
<1>7. EngineServes(r)'
  BY <1>1 DEF RunInv, EngineServes
<1>8. QED
  BY <1>5, <1>6, <1>7 DEF ServerRules

LEMMA StopServes ==
    ASSUME OnlineTypes, NEW r \in Runs, RunInv(r), RunnerMoved(r), Stop(r)
    PROVE  ServerRules(r)'
<1>1. /\ stage[r] = "stopping" /\ stage'[r] \in {"terminating", "cleaning"}
      /\ client' = client /\ call' = call /\ via' = via
  BY DEF Stop, Goto, OnlineTypes, RunnerTypes, driverVars
<1>2. bundle'[r].cleanup = Absent
  BY <1>1 DEF RunnerMoved, RunInv, WrittenByStage
<1>3. /\ server'[r].api = server[r].api /\ server'[r].engine = server[r].engine
      /\ server'[r].registered = server[r].registered
      /\ server'[r].signalled \/ server'[r] = server[r]
      /\ stage'[r] = "cleaning" => ~Alive(r)
  BY DEF Stop, Goto, OnlineTypes, ServerTypes, RunnerTypes, Servers
<1>4. client[r] # "running"
  BY <1>1 DEF RunInv, ClientByStage
<1>5. ServerByStage(r)'
  BY <1>1, <1>2, <1>3 DEF ServerByStage, Alive
<1>6. ClientByStage(r)'
  BY <1>1, <1>3, <1>4 DEF RunInv, ClientByStage, Requests
<1>7. EngineServes(r)'
  BY <1>3 DEF RunInv, EngineServes
<1>8. QED
  BY <1>5, <1>6, <1>7 DEF ServerRules

LEMMA InterruptServes ==
    ASSUME OnlineTypes, NEW r \in Runs, RunInv(r), RunnerMoved(r), Interrupt(r)
    PROVE  ServerRules(r)'
<1>1. /\ stage[r] \in InTry /\ stage'[r] = "stopping" /\ server' = server
      /\ call' = call /\ via' = via
      /\ client'[r] = IF client[r] = "running" THEN "killed" ELSE client[r]
  BY DEF Interrupt, FailAs, Goto, OnlineTypes, RunnerTypes, DriverTypes, serverVars
<1>2. bundle'[r].cleanup = Absent
  BY <1>1 DEF InTry, RunnerMoved, RunInv, WrittenByStage, Unwritten
<1>3. ~server[r].signalled
  BY <1>1 DEF InTry, RunInv, ServerByStage, NoServer
<1>4. ServerByStage(r)'
  BY <1>1, <1>2, <1>3 DEF ServerByStage
<1>5. ClientByStage(r)'
  BY <1>1 DEF RunInv, ClientByStage, Requests
<1>6. EngineServes(r)'
  BY <1>1 DEF RunInv, EngineServes
<1>7. QED
  BY <1>4, <1>5, <1>6 DEF ServerRules

LEMMA RunnerStepServes ==
    ASSUME OnlineTypes, NEW r \in Runs, RunInv(r), RunnerMoved(r), RunnerAction(r)
    PROVE  ServerRules(r)' /\ RunnerElsewhere(r)
<1>1. CASE \/ Enter(r) \/ NoConfig(r) \/ Refuse(r) \/ Snapshot(r) \/ Block(r) \/ Healthy(r)
           \/ Complete(r) \/ Fail(r) \/ Stopped(r) \/ StopTimesOut(r) \/ KillTimesOut(r)
           \/ Clean(r) \/ Kill(r)
  <2>1. UNCHANGED <<serverVars, driverVars>>
    BY <1>1 DEF Enter, NoConfig, Refuse, Snapshot, Block, Healthy, Complete, Fail, Stopped,
                StopTimesOut, KillTimesOut, Clean, Kill, Others
  <2>2. ServerRules(r)'
    BY <1>1, <2>1, StageStepServes
  <2>3. kills' \in 0 .. MaxKills
    <3>1. CASE Kill(r)
      BY <3>1 DEF Kill, OnlineTypes, RunnerTypes
    <3>2. CASE ~Kill(r)
      BY <1>1, <3>2 DEF Enter, NoConfig, Refuse, Snapshot, Block, Healthy, Complete, Fail, Stopped,
                StopTimesOut, KillTimesOut, Clean, Others, OnlineTypes, RunnerTypes
    <3>3. QED
      BY <3>1, <3>2
  <2>4. QED
    BY <2>1, <2>2, <2>3 DEF RunnerElsewhere, serverVars, driverVars, OnlineTypes, ServerTypes,
                            DriverTypes
<1>2. CASE Launch(r)
  <2>1. [server[r] EXCEPT !.api = "starting"] \in Servers
    BY ServerFields DEF OnlineTypes, ServerTypes
  <2>2. server' = [server EXCEPT ![r] = [server[r] EXCEPT !.api = "starting"]]
    BY <1>2 DEF Launch
  <2>3. RunnerElsewhere(r)
    BY <1>2, <2>1, <2>2 DEF Launch, RunnerElsewhere, driverVars, OnlineTypes, ServerTypes,
                            DriverTypes, RunnerTypes
  <2>4. QED
    BY <1>2, <2>3, LaunchServes
<1>3. CASE StartClient(r)
  <2>1. RunnerElsewhere(r)
    BY <1>3 DEF StartClient, RunnerElsewhere, serverVars, OnlineTypes, ServerTypes, DriverTypes,
                RunnerTypes
  <2>2. QED
    BY <1>3, <2>1, StartClientServes
<1>4. CASE Stop(r)
  <2>1. [server[r] EXCEPT !.signalled = TRUE] \in Servers
    BY ServerFields DEF OnlineTypes, ServerTypes
  <2>2. \/ server' = server
        \/ server' = [server EXCEPT ![r] = [server[r] EXCEPT !.signalled = TRUE]]
    BY <1>4 DEF Stop
  <2>3. /\ server' \in [Runs -> Servers]
        /\ \A s \in Runs : s # r => server'[s] = server[s]
    BY <2>1, <2>2 DEF OnlineTypes, ServerTypes
  <2>4. RunnerElsewhere(r)
    BY <1>4, <2>3 DEF Stop, RunnerElsewhere, driverVars, OnlineTypes, DriverTypes, RunnerTypes
  <2>5. QED
    BY <1>4, <2>4, StopServes
<1>5. CASE Interrupt(r)
  <2>1. RunnerElsewhere(r)
    BY <1>5 DEF Interrupt, RunnerElsewhere, serverVars, OnlineTypes, ServerTypes, DriverTypes,
                RunnerTypes
  <2>2. QED
    BY <1>5, <2>1, InterruptServes
<1>6. QED
  BY <1>1, <1>2, <1>3, <1>4, <1>5 DEF RunnerAction, RunnerStep

LEMMA RunnerGuards ==
    ASSUME OnlineTypes, NEW r \in Runs, RunnerAction(r)
    PROVE  /\ ~Ended(r)
           /\ stage[r] = "idle" => \A s \in Runs : s < r => Ended(s)
           /\ server'[r].api # server[r].api => Launch(r)
           /\ stage'[r] = "checking" => Healthy(r)
           /\ client'[r] # "none" => client[r] # "none" \/ stage[r] = "checking"
<1> USE DEF OnlineTypes, ServerTypes, DriverTypes, RunnerTypes, Goto, Ended
<1>1. CASE Enter(r) \/ NoConfig(r) \/ Refuse(r) \/ Snapshot(r) \/ Block(r)
  BY <1>1 DEF Enter, NoConfig, Refuse, Snapshot, Block, Others, serverVars, driverVars
<1>2. CASE Launch(r)
  BY <1>2 DEF Launch, driverVars
<1>3. CASE StartClient(r)
  BY <1>3 DEF StartClient, serverVars
<1>4. CASE Healthy(r) \/ Complete(r) \/ Clean(r) \/ Kill(r)
  BY <1>4 DEF Healthy, Complete, Clean, Kill, Others, serverVars, driverVars
<1>5. CASE Fail(r)
  BY <1>5 DEF Fail, Raises, FailAs, Others, serverVars, driverVars
<1>6. CASE Interrupt(r)
  BY <1>6 DEF Interrupt, FailAs, InTry, serverVars
<1>7. CASE Stop(r)
  BY <1>7 DEF Stop, driverVars, Servers
<1>8. CASE Stopped(r) \/ StopTimesOut(r) \/ KillTimesOut(r)
  BY <1>8 DEF Stopped, StopTimesOut, KillTimesOut, Others, serverVars, driverVars
<1>9. QED
  BY <1>1, <1>2, <1>3, <1>4, <1>5, <1>6, <1>7, <1>8 DEF RunnerAction, RunnerStep

LEMMA RunnerStepTwoRuns ==
    ASSUME OnlineInv, NEW r \in Runs, RunnerAction(r), RunnerMoved(r), RunnerElsewhere(r)
    PROVE  TwoRuns'
<1> SUFFICES ASSUME RunCount = 2 PROVE TwoRuns'
  BY DEF TwoRuns
<1>0. /\ 1 \in Runs /\ 2 \in Runs /\ r \in {1, 2}
      /\ TwoRuns /\ RunInv(1) /\ RunInv(2) /\ RunInv(r)
      /\ call' = call /\ via' = via
  BY DEF OnlineInv, RunnerElsewhere
<1>1. /\ ~Ended(r)
      /\ stage[r] = "idle" => \A s \in Runs : s < r => Ended(s)
      /\ server'[r].api # server[r].api => Launch(r)
      /\ stage'[r] = "checking" => Healthy(r)
      /\ client'[r] # "none" => client[r] # "none" \/ stage[r] = "checking"
  BY RunnerGuards DEF OnlineInv
<1>2. CASE r = 1
  <2>1. /\ stage[2] = "idle" /\ stage'[2] = "idle"
        /\ server[2] = NoServer /\ server'[2] = NoServer
    BY <1>0, <1>1, <1>2 DEF TwoRuns, RunInv, ServerByStage, RunnerMoved, RunnerElsewhere
  <2>2. stage'[1] = "checking" => server'[1].api \in {"serving", "gone"}
    <3>1. SUFFICES ASSUME Healthy(1) PROVE server'[1].api = "serving"
      BY <1>1, <1>2
    <3>2. server' = server /\ \E s \in Runs : server[s].api = "serving"
      BY <3>1 DEF Healthy, Others, serverVars, Serving
    <3>3. QED
      BY <2>1, <3>2 DEF NoServer
  <2>3. client'[1] # "none" => server'[1].api \in {"serving", "gone"}
    <3>1. Launch(1) => client'[1] = "none"
      BY <1>0 DEF Launch, driverVars, RunInv, ClientByStage
    <3>2. client'[1] # "none" => server'[1].api = server[1].api
      BY <1>1, <1>2, <3>1
    <3>3. QED
      BY <1>0, <1>1, <1>2, <3>2 DEF TwoRuns
  <2>4. \A q \in Requests(2) : via'[2][q] # 1
    <3>1. client[2] = "none"
      BY <1>0, <2>1 DEF RunInv, ClientByStage
    <3>2. QED
      BY <1>0, <3>1 DEF RunInv, ClientByStage
  <2>5. QED
    BY <2>1, <2>2, <2>3, <2>4 DEF TwoRuns, NoServer, Requests
<1>3. CASE r = 2
  <2>1. /\ stage'[1] = stage[1] /\ client'[1] = client[1] /\ server'[1] = server[1]
    BY <1>0, <1>3 DEF RunnerMoved, RunnerElsewhere
  <2>2. Ended(1) /\ Ended(1)'
    <3>1. Ended(1)
      BY <1>0, <1>1, <1>3 DEF TwoRuns
    <3>2. QED
      BY <2>1, <3>1 DEF Ended
  <2>3. client[1] # "none" /\ server'[2].api # "none" => server[1].api = "gone"
    <3>1. CASE Launch(2)
      <4>1. server[1].api # "serving"
        BY <1>0, <3>1 DEF Launch, Blocked, Serving
      <4>2. QED
        BY <1>0, <4>1 DEF TwoRuns
    <3>2. CASE server'[2].api = server[2].api
      BY <1>0, <3>2 DEF TwoRuns
    <3>3. QED
      BY <1>1, <1>3, <3>1, <3>2
  <2>4. QED
    BY <1>0, <2>1, <2>2, <2>3 DEF TwoRuns, Requests
<1>4. QED
  BY <1>0, <1>2, <1>3

\* What a step leaves of a run it is not about.
LEMMA Elsewhere ==
    ASSUME NEW s \in Runs, RunInv(s), stage'[s] = stage[s], code'[s] = code[s],
           bundle'[s] = bundle[s], server'[s] = server[s], client'[s] = client[s],
           call'[s] = call[s], via'[s] = via[s]
    PROVE  RunInv(s)'
<1>1. WrittenByStage(s)'
  <2>1. RecordOf(s)' = RecordOf(s)
    BY DEF RecordOf
  <2>2. Contract!Final(RecordOf(s)) => Contract!Final(RecordOf(s))'
    BY <2>1
  <2>3. QED
    BY <2>2 DEF RunInv, WrittenByStage, Unwritten, Verdict
<1>2. ServerByStage(s)' /\ EngineServes(s)'
  BY DEF RunInv, ServerByStage, EngineServes, Alive
<1>3. ClientByStage(s)'
  BY DEF RunInv, ClientByStage, Requests
<1>4. QED
  BY <1>1, <1>2, <1>3 DEF RunInv

LEMMA RunnerStepKeeps ==
    ASSUME OnlineInv, NEW r \in Runs, RunnerAction(r)
    PROVE  OnlineInv'
<1>0. OnlineTypes /\ RunnerTypes /\ RunInv(r)
  BY DEF OnlineInv, OnlineTypes
<1>1. RunnerMoved(r) /\ WrittenByStage(r)'
  BY <1>0, RunnerTable, RunnerStepWrites DEF RunInv
<1>2. ServerRules(r)' /\ RunnerElsewhere(r)
  BY <1>0, <1>1, RunnerStepServes
<1>3. OnlineTypes'
  BY <1>0, <1>1, <1>2 DEF OnlineTypes, ServerTypes, DriverTypes, RunnerTypes, RunnerMoved,
                          RunnerElsewhere, Requests
<1>4. RunInv(r)'
  BY <1>1, <1>2 DEF RunInv, ServerRules
<1>5. \A s \in Runs : s # r => RunInv(s)'
  BY <1>1, <1>2, Elsewhere DEF OnlineInv, RunnerMoved, RunnerElsewhere
<1>6. LinesFollowRequests'
  BY <1>2 DEF OnlineInv, LinesFollowRequests, RunnerElsewhere, Requests
<1>7. TwoRuns'
  BY <1>1, <1>2, RunnerStepTwoRuns
<1>8. QED
  BY <1>3, <1>4, <1>5, <1>6, <1>7 DEF OnlineInv

-----------------------------------------------------------------------------
(* Steps of the servers and of the clients.                                *)

\* A server's life goes one way, and a signal is not its own doing.
ServerMoves(s) ==
    /\ server'[s].signalled = server[s].signalled
    /\ server[s].api = "none" <=> server'[s].api = "none"
    /\ server[s].api = "serving" => server'[s].api \in {"serving", "gone"}
    /\ server[s].api = "gone" => server'[s].api = "gone"
    /\ server'[s].engine # server[s].engine =>
         \/ server[s].api = "starting" /\ server[s].engine = "off" /\ server'[s].engine = "on"
         \/ /\ server[s].engine = "on" /\ server'[s].engine = "gone"
            /\ server[s].signalled \/ server[s].api = "gone"
    /\ server'[s].registered # server[s].registered =>
         server[s].engine = "off" /\ server'[s].api = "starting" /\ server'[s].engine = "on"
    /\ server'[s].api = "serving" /\ server[s].api # "serving" => server'[s].engine = "on"
    /\ server[s] = NoServer => server'[s] = NoServer

LEMMA ServerStepMoves ==
    ASSUME ServerTypes, ServerNext
    PROVE  (\A s \in Runs : ServerMoves(s)) /\ trace' = trace
<1>1. PICK s \in Runs : LoadEngine(s) \/ Bind(s) \/ Crash(s) \/ ApiStops(s) \/ EngineStops(s)
  BY DEF ServerNext
<1>2. server \in [Runs -> Servers]
  BY DEF ServerTypes
<1>3. trace' = trace
  BY <1>1 DEF LoadEngine, Bind, Crash, ApiStops, EngineStops
<1>4. \A t \in Runs : t # s => server'[t] = server[t]
  BY <1>1, <1>2 DEF LoadEngine, Bind, Crash, ApiStops, EngineStops
<1>5. \A t \in Runs : t # s => ServerMoves(t)
  BY <1>4 DEF ServerMoves
<1>6. ServerMoves(s)
  <2> USE DEF ServerMoves, NoServer, Servers, Alive
  <2>1. CASE LoadEngine(s)
    <3>1. PICK b \in BOOLEAN :
            server' = [server EXCEPT ![s] = [[server[s] EXCEPT !.engine = "on"]
                                             EXCEPT !.registered = b]]
      BY <1>2, <2>1 DEF LoadEngine
    <3>2. server[s] \in Servers /\ server[s].api = "starting" /\ server[s].engine = "off"
      BY <1>2, <2>1 DEF LoadEngine
    <3>3. /\ server'[s].api = "starting" /\ server'[s].engine = "on"
          /\ server'[s].signalled = server[s].signalled
      BY <1>2, <3>1, <3>2
    <3>4. QED
      BY <3>2, <3>3
  <2>2. CASE Bind(s)
    <3>1. /\ server[s].api = "starting" /\ server[s].engine = "on"
          /\ server'[s].api \in {"serving", "gone"}
      BY <1>2, <2>2 DEF Bind
    <3>2. /\ server'[s].engine = "on" /\ server'[s].signalled = server[s].signalled
          /\ server'[s].registered = server[s].registered
      BY <1>2, <2>2 DEF Bind
    <3>3. QED
      BY <3>1, <3>2
  <2>3. CASE Crash(s) \/ ApiStops(s)
    <3>1. server[s].api \in {"starting", "serving"} /\ server'[s].api = "gone"
      BY <1>2, <2>3 DEF Crash, ApiStops
    <3>2. /\ server'[s].engine = server[s].engine /\ server'[s].signalled = server[s].signalled
          /\ server'[s].registered = server[s].registered
      BY <1>2, <2>3 DEF Crash, ApiStops
    <3>3. QED
      BY <3>1, <3>2
  <2>4. CASE EngineStops(s)
    BY <1>2, <2>4 DEF EngineStops
  <2>5. QED
    BY <1>1, <2>1, <2>2, <2>3, <2>4
<1>7. QED
  BY <1>3, <1>5, <1>6

LEMMA ServerStepKeeps ==
    ASSUME OnlineInv, ServerNext, UNCHANGED <<driverVars, runnerVars>>
    PROVE  OnlineInv'
<1>0. /\ OnlineTypes /\ ServerTypes /\ server \in [Runs -> Servers]
      /\ client' = client /\ call' = call /\ via' = via
      /\ stage' = stage /\ code' = code /\ bundle' = bundle /\ kills' = kills
  BY DEF OnlineInv, OnlineTypes, ServerTypes, driverVars, runnerVars
<1>1. (\A s \in Runs : ServerMoves(s)) /\ trace' = trace
  BY <1>0, ServerStepMoves
<1>2. OnlineTypes'
  <2>1. ServerTypes'
    BY <1>0, ServerStepTypes
  <2>2. QED
    BY <1>0, <2>1 DEF OnlineTypes, DriverTypes, RunnerTypes, Requests
<1>3. ASSUME NEW s \in Runs PROVE RunInv(s)'
  <2>0. RunInv(s) /\ ServerMoves(s) /\ server[s] \in Servers /\ server'[s] \in Servers
    BY <1>0, <1>1, <1>2 DEF OnlineInv, OnlineTypes, ServerTypes
  <2>1. WrittenByStage(s)'
    BY <1>0, <2>0, Elsewhere DEF RunInv, WrittenByStage, Unwritten, Verdict, RecordOf
  <2>2. ~Alive(s) => ~Alive(s)'
    BY <2>0 DEF ServerMoves, Alive, Servers
  <2>3. ~Alive(s) /\ server[s].engine # "on" => server'[s].engine # "on"
    BY <2>0 DEF ServerMoves, Alive
  <2>4. ServerByStage(s)'
    BY <1>0, <2>0, <2>2, <2>3 DEF RunInv, ServerByStage, ServerMoves
  <2>5. EngineServes(s)'
    BY <2>0 DEF RunInv, EngineServes, ServerMoves, Servers
  <2>6. server[s].registered /\ server[s].api # "none" => server'[s].registered /\ server'[s].api # "none"
    BY <2>0 DEF RunInv, EngineServes, ServerMoves, Servers
  <2>7. ClientByStage(s)'
    BY <1>0, <2>0, <2>6 DEF RunInv, ClientByStage, ServerMoves, Requests
  <2>8. QED
    BY <2>1, <2>4, <2>5, <2>7 DEF RunInv
<1>4. LinesFollowRequests'
  BY <1>0, <1>1 DEF OnlineInv, LinesFollowRequests, Requests
<1>5. TwoRuns'
  BY <1>0, <1>1 DEF OnlineInv, TwoRuns, ServerMoves, Ended, Requests
<1>6. QED
  BY <1>2, <1>3, <1>4, <1>5 DEF OnlineInv

\* The server a client of the two runs reaches, in the words of TwoRuns.
LEMMA RequestMovesTwoRuns ==
    ASSUME OnlineInv, NEW r \in Runs, client[r] = "running", NEW q \in Requests(r),
           RequestMoves(r, q)
    PROVE  TwoRuns'
<1> SUFFICES ASSUME RunCount = 2, client[1] # "none", r = 2
             PROVE  \A p \in Requests(2) : via'[2][p] # 1
  <2>1. /\ stage' = stage /\ client' = client /\ server' = server
    BY DEF RequestMoves, Keeps, runnerVars
  <2>2. RunCount = 2 /\ r # 2 => via'[2] = via[2]
    BY ViaMoves DEF OnlineInv, OnlineTypes, RequestMoves, Ends, FindsNobody, TurnedAway, Taken,
                    Serving
  <2>3. ASSUME RunCount = 2, client[1] # "none"
        PROVE  \A p \in Requests(2) : via'[2][p] # 1
    BY <2>2, <2>3 DEF OnlineInv, TwoRuns
  <2>4. QED
    BY <2>1, <2>3 DEF OnlineInv, TwoRuns, Ended, Requests
<1>1. \A p \in Requests(2) : via[2][p] # 1
  BY DEF OnlineInv, TwoRuns
<1>2. server[2].api # "none"
  BY DEF OnlineInv, RunInv, ClientByStage
<1>3. 1 \notin Serving
  BY <1>2 DEF OnlineInv, TwoRuns, Serving
<1>4. CASE via' = via
  BY <1>1, <1>4
<1>5. ASSUME NEW s \in Serving, via' = [via EXCEPT ![r][q] = s]
      PROVE  \A p \in Requests(2) : via'[2][p] # 1
  BY <1>1, <1>3, <1>5, ViaMoves DEF OnlineInv, OnlineTypes, Serving
<1>6. QED
  BY <1>4, <1>5 DEF RequestMoves, Ends, FindsNobody, TurnedAway, Taken

\* A line of the trace of a run that serves its own client.
LEMMA RequestMovesLines ==
    ASSUME OnlineInv, NEW r \in Runs, client[r] = "running", NEW q \in Requests(r),
           RequestMoves(r, q)
    PROVE  LinesFollowRequests'
<1>0. /\ ServerTypes /\ DriverTypes /\ LinesFollowRequests
      /\ \A s \in Runs : \A t \in trace[s] : t.by \in Runs /\ t.id \in Requests(t.by)
  BY DEF OnlineInv, OnlineTypes, ServerTypes, TraceLines
<1>1. PICK c \in {"answered", "empty", "refused", "lost", "sent"} : SetsCall(r, q, c)
  BY DEF RequestMoves, Ends, FindsNobody, TurnedAway, Taken
<1>2. /\ call'[r][q] = c
      /\ \A p \in Requests(r) : p # q => call'[r][p] = call[r][p]
      /\ \A s \in Runs : s # r => call'[s] = call[s]
  BY <1>0, <1>1, CallMoves, ZenonT(30) DEF SetsCall
<1>3. CASE Ends(r, q)
  <2>1. /\ trace' = trace /\ via' = via /\ call[r][q] = "sent"
    BY <1>3 DEF Ends
  <2>2. \A s \in Runs : \A t \in trace[s] : call'[t.by][t.id] # "queued"
    BY <1>0, <1>2, SMTT(30) DEF LinesFollowRequests
  <2>3. \A x \in Runs : \A p \in Requests(x) : call'[x][p] \in Done => call[x][p] \in Done
    BY <1>2, <2>1 DEF Done
  <2>4. QED
    BY <1>0, <2>1, <2>2, <2>3 DEF LinesFollowRequests, Requests
<1>4. CASE FindsNobody(r, q)
  <2>1. /\ trace' = trace /\ via' = via /\ call'[r][q] = "refused"
    BY <1>0, <1>4, CallMoves DEF FindsNobody, SetsCall
  <2>2. \A s \in Runs : \A t \in trace[s] : call'[t.by][t.id] # "queued"
    BY <1>0, <1>2, SMTT(30) DEF LinesFollowRequests
  <2>3. \A x \in Runs : \A p \in Requests(x) : call'[x][p] \in Done => call[x][p] \in Done
    BY <1>2, <2>1 DEF Done
  <2>4. QED
    BY <1>0, <2>1, <2>2, <2>3 DEF LinesFollowRequests, Requests
<1>5. ASSUME NEW s \in Serving, TurnedAway(r, q, s) \/ Taken(r, q, s)
      PROVE  LinesFollowRequests'
  <2>1. s \in Runs /\ call[r][q] = "queued" /\ via' = [via EXCEPT ![r][q] = s]
    BY <1>5 DEF Serving, TurnedAway, Taken
  <2>2. /\ via'[r][q] = s
        /\ \A p \in Requests(r) : p # q => via'[r][p] = via[r][p]
        /\ \A t \in Runs : t # r => via'[t] = via[t]
    BY <1>0, <2>1 DEF DriverTypes
  <2>3. \A x \in Runs : \A t \in trace[x] : t.by # r \/ t.id # q
    BY <1>0, <2>1 DEF LinesFollowRequests
  <2>4. \A x \in Runs : \A t \in trace[x] : via'[t.by][t.id] = x /\ call'[t.by][t.id] # "queued"
    BY <1>0, <1>2, <2>2, <2>3, SMTT(30) DEF LinesFollowRequests
  <2>5. \/ trace' = trace
        \/ /\ trace'[s] = trace[s] \cup {[id |-> q, by |-> r]}
           /\ \A x \in Runs : x # s => trace'[x] = trace[x]
    BY <1>0, <1>5, <2>1, TraceGrows DEF TurnedAway, Taken
  <2>6. \A x \in Runs : \A t \in trace'[x] : via'[t.by][t.id] = x /\ call'[t.by][t.id] # "queued"
    BY <1>2, <2>2, <2>4, <2>5
  <2>7. \A x \in Runs : trace[x] \subseteq trace'[x]
    BY <2>5
  <2>8. \A x \in Runs : \A p \in Requests(x) : (x # r \/ p # q) /\ call'[x][p] \in Done =>
           /\ via'[x][p] \in Runs
           /\ via'[x][p] = x => [id |-> p, by |-> x] \in trace'[x]
    BY <1>0, <1>2, <2>2, <2>7 DEF LinesFollowRequests
  <2>9. ASSUME call'[r][q] \in Done, s = r
        PROVE  [id |-> q, by |-> r] \in trace'[r]
    <3>1. Taken(r, q, s)
      <4>1. CASE TurnedAway(r, q, s)
        <5>1. call'[r][q] = "refused"
          BY <1>0, <4>1, CallMoves DEF TurnedAway, SetsCall
        <5>2. QED
          BY <2>9, <5>1 DEF Done
      <4>2. QED
        BY <1>5, <4>1
    <3>2. server[r].registered /\ ~server[r].signalled
      BY DEF OnlineInv, RunInv, ClientByStage
    <3>3. server[r].api = "serving"
      BY <2>9 DEF Serving
    <3>4. r \in OnDevice
      BY <3>2, <3>3 DEF OnlineInv, RunInv, EngineServes, OnDevice
    <3>5. trace' = [trace EXCEPT ![s] = @ \cup {[id |-> q, by |-> r]}]
      BY <2>9, <3>1, <3>2, <3>4 DEF Taken
    <3>6. QED
      BY <1>0, <2>1, <2>9, <3>5, TraceGrows
  <2>10. QED
    BY <2>1, <2>2, <2>6, <2>8, <2>9 DEF LinesFollowRequests, Requests
<1>6. QED
  BY <1>3, <1>4, <1>5 DEF RequestMoves

LEMMA DriverStepKeeps ==
    ASSUME OnlineInv, DriverNext, UNCHANGED runnerVars
    PROVE  OnlineInv'
<1>0. /\ OnlineTypes /\ DriverTypes
      /\ stage' = stage /\ code' = code /\ bundle' = bundle
  BY DEF OnlineInv, OnlineTypes, runnerVars
<1>1. PICK r \in Runs : /\ client[r] = "running"
                        /\ Collects(r) \/ \E q \in Requests(r) : RequestMoves(r, q)
  BY DriverSteps
<1>2. OnlineTypes'
  BY <1>0, DriverStepTypes
<1>3. CASE Collects(r)
  <2>1. /\ call' = call /\ via' = via /\ server' = server /\ trace' = trace
        /\ \A s \in Runs : s # r => client'[s] = client[s]
        /\ client'[r] \in {"finished", "crashed"}
    BY <1>0, <1>3 DEF Collects, serverVars, DriverTypes
  <2>2. \A s \in Runs : s # r => RunInv(s)'
    BY <1>0, <2>1, Elsewhere DEF OnlineInv
  <2>3. RunInv(r)'
    <3>1. ClientByStage(r)'
      BY <1>0, <1>1, <2>1 DEF OnlineInv, RunInv, ClientByStage
    <3>2. WrittenByStage(r)' /\ ServerByStage(r)' /\ EngineServes(r)'
      BY <1>0, <2>1 DEF OnlineInv, RunInv, WrittenByStage, Unwritten, Verdict, RecordOf,
                        ServerByStage, EngineServes, Alive
    <3>3. QED
      BY <3>1, <3>2 DEF RunInv
  <2>4. LinesFollowRequests'
    BY <2>1 DEF OnlineInv, LinesFollowRequests, Requests
  <2>5. TwoRuns'
    BY <1>0, <1>1, <2>1 DEF OnlineInv, TwoRuns, Ended, Requests
  <2>6. QED
    BY <1>2, <2>2, <2>3, <2>4, <2>5 DEF OnlineInv
<1>4. ASSUME NEW q \in Requests(r), RequestMoves(r, q)
      PROVE  OnlineInv'
  <2>1. /\ server' = server /\ client' = client
    BY <1>4 DEF RequestMoves, Keeps
  <2>2. \A s \in Runs : s # r => call'[s] = call[s] /\ via'[s] = via[s]
    <3>1. \E c \in {"answered", "empty", "refused", "lost", "sent"} : SetsCall(r, q, c)
      BY <1>4 DEF RequestMoves, Ends, FindsNobody, TurnedAway, Taken
    <3>2. \/ via' = via
          \/ \E s \in Runs : via' = [via EXCEPT ![r][q] = s]
      BY <1>4 DEF RequestMoves, Ends, FindsNobody, TurnedAway, Taken, Serving
    <3>3. QED
      BY <1>0, <3>1, <3>2, CallMoves, ViaMoves DEF SetsCall
  <2>3. \A s \in Runs : s # r => RunInv(s)'
    BY <1>0, <2>1, <2>2, Elsewhere DEF OnlineInv
  <2>4. RunInv(r)'
    <3>1. ClientByStage(r)'
      BY <1>0, <1>1, <2>1 DEF OnlineInv, RunInv, ClientByStage
    <3>2. WrittenByStage(r)' /\ ServerByStage(r)' /\ EngineServes(r)'
      BY <1>0, <2>1 DEF OnlineInv, RunInv, WrittenByStage, Unwritten, Verdict, RecordOf,
                        ServerByStage, EngineServes, Alive
    <3>3. QED
      BY <3>1, <3>2 DEF RunInv
  <2>5. LinesFollowRequests'
    BY <1>1, <1>4, RequestMovesLines
  <2>6. TwoRuns'
    BY <1>1, <1>4, RequestMovesTwoRuns
  <2>7. QED
    BY <1>2, <2>3, <2>4, <2>5, <2>6 DEF OnlineInv
<1>5. QED
  BY <1>1, <1>3, <1>4

LEMMA StepsPreserve == OnlineInv /\ [OnlineNext]_onlineVars => OnlineInv'
<1> SUFFICES ASSUME OnlineInv, [OnlineNext]_onlineVars PROVE OnlineInv'
  OBVIOUS
<1>1. CASE UNCHANGED onlineVars
  <2>1. /\ server' = server /\ trace' = trace /\ crashes' = crashes
        /\ client' = client /\ call' = call /\ via' = via
        /\ stage' = stage /\ code' = code /\ bundle' = bundle /\ kills' = kills
    BY <1>1 DEF onlineVars, serverVars, driverVars, runnerVars
  <2>2. OnlineTypes'
    BY <2>1 DEF OnlineInv, OnlineTypes, ServerTypes, DriverTypes, RunnerTypes, Requests
  <2>3. \A s \in Runs : RunInv(s)'
    BY <2>1, Elsewhere DEF OnlineInv
  <2>4. LinesFollowRequests' /\ TwoRuns'
    BY <2>1 DEF OnlineInv, LinesFollowRequests, TwoRuns, Ended, Requests
  <2>5. QED
    BY <2>2, <2>3, <2>4 DEF OnlineInv
<1>2. CASE OnlineNext
  <2>1. CASE \E r \in Runs : RunnerAction(r)
    BY <2>1, RunnerStepKeeps
  <2>2. CASE DriverNext /\ UNCHANGED runnerVars
    BY <2>2, DriverStepKeeps
  <2>3. CASE ServerNext /\ UNCHANGED <<driverVars, runnerVars>>
    BY <2>3, ServerStepKeeps
  <2>4. QED
    BY <1>2, <2>1, <2>2, <2>3 DEF OnlineNext, RunnerAction
<1>3. QED
  BY <1>1, <1>2

-----------------------------------------------------------------------------
(* The theorems.                                                           *)

\* What each run wrote, and what its server and client are, fits its stage.
THEOREM RunInvariant == OnlineSpec => []OnlineInv
<1>1. OnlineInit => OnlineInv
  BY InitHolds
<1>2. QED
  BY <1>1, StepsPreserve, PTL DEF OnlineSpec

\* The state of runner, server and client keeps its types.
THEOREM TypesHold == OnlineSpec => []OnlineTypeOK
<1>1. OnlineInv => OnlineTypeOK
  <2> SUFFICES ASSUME ServerTypes, DriverTypes, RunnerTypes PROVE OnlineTypeOK
    BY DEF OnlineInv, OnlineTypes
  <2>1. /\ server \in [Runs -> [api : {"none", "starting", "serving", "gone"},
                                engine : {"off", "on", "gone"}, registered : BOOLEAN,
                                signalled : BOOLEAN]]
        /\ crashes \in 0 .. MaxCrashes
    BY Zenon DEF ServerTypes, Servers
  <2>2. \A r \in Runs : \A t \in trace[r] : t.by \in Runs /\ t.id \in Requests(t.by)
    <3>1. \A t \in TraceLines : t.by \in Runs
      BY DEF TraceLines
    <3>2. \A r \in Runs : trace[r] \subseteq TraceLines
      BY DEF ServerTypes
    <3> QED BY <3>1, <3>2 DEF ServerTypes
  <2>3. \A r \in Runs : /\ bundle[r].status \in {"none", "starting", "completed", "failed"}
                        /\ bundle[r].cleanup \in {Absent} \cup [port : BOOLEAN, device : BOOLEAN]
    <3> SUFFICES ASSUME NEW r \in Runs
                 PROVE  /\ bundle[r].status \in {"none", "starting", "completed", "failed"}
                        /\ bundle[r].cleanup \in {Absent} \cup [port : BOOLEAN, device : BOOLEAN]
      OBVIOUS
    <3>1. bundle[r] \in Bundles
      BY DEF RunnerTypes
    <3> QED BY <3>1 DEF Bundles, Cleanups
  <2>4. /\ stage \in [Runs -> {"idle", "entered", "snapshot", "probing", "checking", "driving",
                               "stopping", "terminating", "killing", "cleaning", "over", "killed"}]
        /\ code \in [Runs -> {Absent, 0, 1, 3}]
        /\ kills \in 0 .. MaxKills
    BY Zenon DEF RunnerTypes, Stages
  <2> QED BY <2>1, <2>2, <2>3, <2>4, Zenon DEF OnlineTypeOK, DriverTypes
<1>2. QED
  BY <1>1, RunInvariant, PTL

\* A bundle that passes the validator leaves neither its server on the port
\* nor its engine on the device, however many runs, orphans and crashes there
\* were before it.
THEOREM Released == OnlineSpec => []ValidMeansReleased
<1>1. OnlineInv => ValidMeansReleased
  <2>1. SUFFICES ASSUME OnlineInv, NEW r \in Runs, ValidRun(r)
                 PROVE  ~Alive(r) /\ server[r].engine # "on"
    BY DEF ValidMeansReleased
  <2>2. BundleOf(r).cleanup = bundle[r].cleanup
    BY DEF BundleOf
  <2>3. bundle[r].cleanup # Absent
    BY <2>1 DEF ValidRun, Valid, FilesPresent, RequiredFiles, BundleOf
  <2>4. bundle[r].cleanup.device
    BY <2>1, <2>2 DEF ValidRun, Valid, ReleasedAfter
  <2>5. QED
    BY <2>1, <2>3, <2>4 DEF OnlineInv, RunInv, ServerByStage
<1>2. QED
  BY <1>1, RunInvariant, PTL

\* What the validator's one lookup of a request says of the trace: there is one
\* line of it.
LEMMA OneLine ==
    ASSUME ServerTypes, NEW r \in Runs, LookedUpOnce(BundleOf(r)), NEW row \in Rows(r)
    PROVE  \E t \in trace[r] : t.id = row.id /\ \A u \in trace[r] : u.id = row.id => u = t
<1> DEFINE line(t) == [id |-> t.id, by |-> t.by, prompt |-> 1, reused |-> 0, recomputed |-> 1,
                       plan |-> "recompute", block |-> 1, realized |-> "recompute"]
           id == row.id
           found == {l \in {line(t) : t \in trace[r]} : l.id = id}
<1>1. /\ BundleOf(r).rows = Rows(r)
      /\ BundleOf(r).lookups = {line(t) : t \in trace[r]}
  BY DEF BundleOf
<1>2. id \in RequestIds(BundleOf(r))
  BY <1>1 DEF RequestIds
<1>3. Cardinality(found) = 1
  BY <1>1, <1>2, SMTT(30) DEF LookedUpOnce, LookupsOf
<1>4. IsFiniteSet(found)
  <2>1. IsFiniteSet({line(t) : t \in trace[r]})
    <3> DEFINE f == [t \in trace[r] |-> line(t)]
               T == {line(t) : t \in trace[r]}
    <3>1. IsFiniteSet(trace[r])
      BY DEF ServerTypes
    <3>2. f \in Surjection(trace[r], T)
      BY DEF Surjection
    <3>3. IsFiniteSet(T)
      <4> HIDE DEF f, T
      <4>1. QED
        BY <3>1, <3>2, FS_Surjection
    <3>4. QED
      BY <3>3
  <2>2. QED
    BY <2>1, FS_Subset
<1>5. PICK l : found = {l}
  BY <1>3, <1>4, FS_Singleton
<1>6. PICK t \in trace[r] : l = line(t) /\ t.id = id
  BY <1>5
<1>7. ASSUME NEW u \in trace[r], u.id = id
      PROVE  u = t
  <2>1. line(u) \in found
    BY <1>7
  <2>2. line(u) = line(t)
    BY <1>5, <1>6, <2>1
  <2>3. u.id = t.id /\ u.by = t.by
    BY <2>2
  <2>4. u \in TraceLines /\ t \in TraceLines
    BY DEF ServerTypes
  <2>5. QED
    BY <2>3, <2>4 DEF TraceLines
<1>8. QED
  BY <1>6, <1>7

\* The one engine line of a success is its own exactly when the server of the
\* run answered it; that it was another server takes a third run.
THEOREM Isolated == OnlineSpec => []IsolatedEvidence
<1>1. OnlineInv => IsolatedEvidence
  <2>1. SUFFICES ASSUME OnlineInv, NEW r \in Runs, ValidRun(r), NEW row \in Ok(Rows(r))
                 PROVE  /\ \A t \in trace[r] : t.id = row.id => (t.by = r <=> via[r][row.id] = r)
                        /\ via[r][row.id] # r => RunCount > 2
    BY DEF IsolatedEvidence
  <2>2. PICK q \in Requests(r) : row = Row(r, q) /\ row.ok
    BY DEF Ok, Rows
  <2>3. row.id = q /\ call[r][q] \in Done
    BY <2>2 DEF Row, Done
  <2>4. /\ ServerTypes /\ LinesFollowRequests /\ TwoRuns
        /\ \A t \in trace[r] : t.by \in Runs /\ t.id \in Requests(t.by)
    <3>1. ServerTypes /\ LinesFollowRequests /\ TwoRuns
      BY <2>1 DEF OnlineInv, OnlineTypes
    <3>2. \A t \in trace[r] : t.by \in Runs /\ t.id \in Requests(t.by)
      BY <3>1 DEF ServerTypes, TraceLines
    <3>3. QED
      BY <3>1, <3>2
  <2>5. PICK t \in trace[r] : t.id = q /\ \A u \in trace[r] : u.id = q => u = t
    BY <2>1, <2>3, <2>4, OneLine DEF ValidRun, Valid, Ok
  <2>6. via[t.by][q] = r /\ call[t.by][q] # "queued" /\ t.by \in Runs /\ q \in Requests(t.by)
    BY <2>4, <2>5 DEF LinesFollowRequests
  <2>7. t.by = r <=> via[r][q] = r
    <3>1. CASE t.by = r
      BY <2>6, <3>1
    <3>2. CASE via[r][q] = r
      <4>1. [id |-> q, by |-> r] \in trace[r]
        BY <2>3, <2>4, <3>2 DEF LinesFollowRequests
      <4>2. [id |-> q, by |-> r] = t
        BY <2>5, <4>1
      <4>3. QED
        BY <3>2, <4>2
    <3>3. QED
      BY <3>1, <3>2
  <2>8. ASSUME via[r][q] # r PROVE RunCount > 2
    <3>1. via[r][q] \in Runs
      BY <2>3, <2>4 DEF LinesFollowRequests
    <3>2. t.by # r
      BY <2>7, <2>8
    <3>3. RunCount # 1
      BY <2>8, <3>1
    <3>4. RunCount # 2
      <4>1. SUFFICES ASSUME RunCount = 2 PROVE FALSE
        OBVIOUS
      <4>2. \A x \in Runs : \A p \in Requests(x) : call[x][p] # "queued" => client[x] # "none"
        <5>1. \A x \in Runs : ClientByStage(x)
          BY <2>1 DEF OnlineInv, RunInv
        <5>2. QED
          BY <5>1 DEF ClientByStage
      <4>3. client[r] # "none" /\ client[t.by] # "none"
        BY <2>3, <2>6, <4>2 DEF Done
      <4>4. client[1] # "none" => \A p \in Requests(2) : via[2][p] # 1
        BY <2>4, <4>1 DEF TwoRuns
      <4>5. CASE r = 1
        BY <2>6, <3>2, <4>1, <4>3, <4>4, <4>5
      <4>6. CASE r = 2
        BY <2>6, <2>8, <3>1, <3>2, <4>1, <4>3, <4>4, <4>6
      <4>7. QED
        BY <4>1, <4>5, <4>6
    <3>5. QED
      BY <3>3, <3>4
  <2>9. QED
    BY <2>3, <2>5, <2>7, <2>8
<1>2. QED
  BY <1>1, RunInvariant, PTL

-----------------------------------------------------------------------------
(* The runner implements the contract of a run.                            *)

PhaseBar == [r \in Runs |-> PhaseOf(r)]
RecordBar == [r \in Runs |-> RecordOf(r)]

\* A step of one runner moves the contract at that run only.
LEMMA BarMoves ==
    ASSUME NEW r \in Runs, RunnerMoved(r)
    PROVE  /\ PhaseBar' = [PhaseBar EXCEPT ![r] = PhaseOf(r)']
           /\ RecordBar' = [RecordBar EXCEPT ![r] = RecordOf(r)']
<1>1. \A s \in Runs : s # r => PhaseOf(s)' = PhaseOf(s) /\ RecordOf(s)' = RecordOf(s)
  BY DEF RunnerMoved, PhaseOf, RecordOf
<1>2. PhaseBar' = [PhaseBar EXCEPT ![r] = PhaseOf(r)']
  BY <1>1 DEF PhaseBar
<1>3. RecordBar' = [RecordBar EXCEPT ![r] = RecordOf(r)']
  BY <1>1 DEF RecordBar
<1>4. QED
  BY <1>2, <1>3

LEMMA NextRecord ==
    ASSUME NEW r \in Runs, RunnerMoved(r)
    PROVE  RecordOf(r)' \in Contract!Records
<1>1. bundle'[r] \in Bundles /\ code'[r] \in {Absent, 0, 1, 3}
  BY DEF RunnerMoved
<1>2. QED
  BY <1>1 DEF RecordOf, Bundles, Contract!Records

\* The contract's steps, over the mapped state.
LEMMA AsBegin ==
    ASSUME NEW r \in Runs, RunnerMoved(r), PhaseOf(r) = "idle", PhaseOf(r)' = "active",
           RecordOf(r)' = RecordOf(r)
    PROVE  Contract!Begin(r)
BY BarMoves DEF Contract!Begin, PhaseBar, RecordBar

LEMMA AsNote ==
    ASSUME NEW r \in Runs, RunnerMoved(r), PhaseOf(r) = "active",
           PhaseOf(r)' = "active", Contract!Follows(RecordOf(r), RecordOf(r)'),
           RecordOf(r)'.rc = Absent
    PROVE  Contract!Note(r)
BY NextRecord, BarMoves DEF Contract!Note, PhaseBar, RecordBar

LEMMA AsEnd ==
    ASSUME NEW r \in Runs, RunnerMoved(r), PhaseOf(r) \in {"idle", "active"},
           PhaseOf(r)' = "over", Contract!Follows(RecordOf(r), RecordOf(r)'),
           Contract!Final(RecordOf(r)'),
           PhaseOf(r) = "idle" => RecordOf(r)' = [Contract!Empty EXCEPT !.rc = 1]
    PROVE  Contract!End(r)
BY NextRecord, BarMoves DEF Contract!End, PhaseBar, RecordBar

LEMMA AsKill ==
    ASSUME NEW r \in Runs, RunnerMoved(r), PhaseOf(r) = "active", PhaseOf(r)' = "killed",
           RecordOf(r)' = RecordOf(r)
    PROVE  Contract!Kill(r)
BY BarMoves DEF Contract!Kill, PhaseBar, RecordBar

LEMMA AsStutter ==
    ASSUME NEW r \in Runs, RunnerMoved(r), PhaseOf(r)' = PhaseOf(r), RecordOf(r)' = RecordOf(r)
    PROVE  UNCHANGED Contract!contractVars
BY BarMoves DEF Contract!contractVars, PhaseBar, RecordBar

\* A runner's step is a step of the contract or goes unseen.
LEMMA RunnerStepContract ==
    ASSUME OnlineInv, NEW r \in Runs, RunnerAction(r)
    PROVE  Contract!ContractNext \/ UNCHANGED Contract!contractVars
<1>0. RunnerTypes /\ RunInv(r) /\ WrittenByStage(r) /\ bundle[r] \in Bundles
  BY DEF OnlineInv, OnlineTypes, RunnerTypes, RunInv
<1>1. RunnerMoves(r) /\ RunnerMoved(r) /\ WrittenByStage(r)'
  BY <1>0, RunnerTable, RunnerStepWrites
<1>2. SUFFICES \/ Contract!Begin(r) \/ Contract!Note(r) \/ Contract!End(r) \/ Contract!Kill(r)
               \/ UNCHANGED Contract!contractVars
  BY DEF Contract!ContractNext
<1>3. ASSUME NEW st, NEW c, NEW b, Moves(r, st, c, b)
      PROVE  stage'[r] = st /\ code'[r] = c /\ bundle'[r] = b
  BY <1>0, <1>3 DEF Moves, RunnerTypes
<1>4. CASE EndsAtOnce(r)
  <2>1. stage'[r] = "over" /\ code'[r] = 1 /\ bundle'[r] = bundle[r]
    BY <1>3, <1>4 DEF EndsAtOnce
  <2>2. PhaseOf(r) \in {"idle", "active"} /\ PhaseOf(r)' = "over"
    BY <1>4, <2>1 DEF EndsAtOnce, PhaseOf
  <2>3. Contract!Follows(RecordOf(r), RecordOf(r)')
    BY <2>1 DEF Contract!Follows, RecordOf
  <2>4. Contract!Final(RecordOf(r)')
    BY <1>1, <2>1 DEF WrittenByStage
  <2>5. PhaseOf(r) = "idle" => RecordOf(r)' = [Contract!Empty EXCEPT !.rc = 1]
    <3>1. PhaseOf(r) = "idle" => stage[r] = "idle"
      BY DEF PhaseOf
    <3>2. stage[r] = "idle" => Unwritten(r)
      BY <1>0 DEF WrittenByStage
    <3>3. Unwritten(r) => RecordOf(r)' = [Contract!Empty EXCEPT !.rc = 1]
      <4> DEFINE refused == [status |-> "none", blocked |-> FALSE, failed |-> FALSE,
                             cleaned |-> FALSE, rc |-> 1]
             empties == [status : {"none"}, blocked : {FALSE}, failed : {FALSE},
                         cleaned : {FALSE}, rc : {Absent, 1}]
      <4>1. [Contract!Empty EXCEPT !.rc = 1] = refused
        <5>1. Contract!Empty \in empties
          BY DEF Contract!Empty
        <5>2. [Contract!Empty EXCEPT !.rc = 1] \in empties /\ [Contract!Empty EXCEPT !.rc = 1].rc = 1
          BY <5>1
        <5>3. ASSUME NEW e \in empties, e.rc = 1 PROVE e = refused
          <6>1. e = [status |-> e.status, blocked |-> e.blocked, failed |-> e.failed,
                     cleaned |-> e.cleaned, rc |-> e.rc]
            OBVIOUS
          <6>2. /\ e.status = "none" /\ e.blocked = FALSE /\ e.failed = FALSE
                /\ e.cleaned = FALSE
            OBVIOUS
          <6>3. QED
            BY <5>3, <6>1, <6>2
        <5>4. QED
          BY <5>2, <5>3
      <4>2. Unwritten(r) => /\ bundle[r].status = "none" /\ bundle[r].blocked = FALSE
                            /\ bundle[r].failed = FALSE /\ bundle[r].cleanup = Absent
        BY <1>0 DEF Unwritten, Bundles
      <4>3. Unwritten(r) => RecordOf(r)' = refused
        BY <2>1, <4>2 DEF RecordOf
      <4>4. QED
        BY <4>1, <4>3
    <3>4. QED
      BY <3>1, <3>2, <3>3
  <2>6. QED
    BY <1>1, <2>2, <2>3, <2>4, <2>5, AsEnd
<1>5. CASE GoesOn(r)
  <2>1. PICK st \in Stages : <<stage[r], st>> \in Quiet /\ Moves(r, st, code[r], bundle[r])
    BY <1>5 DEF GoesOn
  <2>2. stage'[r] = st /\ bundle'[r] = bundle[r]
    BY <1>3, <2>1
  <2>3. PhaseOf(r)' = PhaseOf(r) /\ RecordOf(r)' = RecordOf(r)
    BY <2>1, <2>2 DEF Quiet, PhaseOf, RecordOf
  <2>4. QED
    BY <1>1, <2>3, AsStutter
<1>6. CASE Dies(r)
  <2>1. stage'[r] = "killed" /\ bundle'[r] = bundle[r]
    BY <1>3, <1>6 DEF Dies
  <2>2. PhaseOf(r) = "active" /\ PhaseOf(r)' = "killed" /\ RecordOf(r)' = RecordOf(r)
    BY <1>6, <2>1 DEF Dies, PhaseOf, RecordOf
  <2>3. QED
    BY <1>1, <2>2, AsKill
<1>7. CASE Opens(r)
  <2>1. PICK dirty \in BOOLEAN : Moves(r, "entered", code[r], Opened(bundle[r], dirty))
    BY <1>7 DEF Opens
  <2>2. stage'[r] = "entered" /\ bundle'[r] = Opened(bundle[r], dirty)
    BY <1>3, <2>1
  <2>3. /\ bundle'[r].status = bundle[r].status /\ bundle'[r].blocked = bundle[r].blocked
        /\ bundle'[r].failed = bundle[r].failed /\ bundle'[r].cleanup = bundle[r].cleanup
    BY <1>0, <2>2 DEF Opened, Bundles
  <2>4. PhaseOf(r) = "idle" /\ PhaseOf(r)' = "active" /\ RecordOf(r)' = RecordOf(r)
    BY <1>7, <2>2, <2>3 DEF Opens, PhaseOf, RecordOf
  <2>5. QED
    BY <1>1, <2>4, AsBegin
<1>8. CASE Looks(r)
  <2>1. PICK idle \in BOOLEAN : Moves(r, "snapshot", code[r], [bundle[r] EXCEPT !.idle = idle])
    BY <1>8 DEF Looks
  <2>2. stage'[r] = "snapshot" /\ bundle'[r] = [bundle[r] EXCEPT !.idle = idle]
    BY <1>3, <2>1
  <2>3. /\ bundle'[r].status = bundle[r].status /\ bundle'[r].blocked = bundle[r].blocked
        /\ bundle'[r].failed = bundle[r].failed /\ bundle'[r].cleanup = bundle[r].cleanup
    BY <1>0, <2>2 DEF Bundles
  <2>4. PhaseOf(r)' = PhaseOf(r) /\ RecordOf(r)' = RecordOf(r)
    BY <1>8, <2>2, <2>3 DEF Looks, PhaseOf, RecordOf
  <2>5. QED
    BY <1>1, <2>4, AsStutter
<1>9. CASE IsBlocked(r) \/ Starts(r) \/ Succeeds(r) \/ Fails(r)
  <2>1. stage[r] \in {"snapshot", "probing", "checking", "driving"}
        /\ stage'[r] \in {"cleaning", "probing", "stopping"}
    BY <1>3, <1>9 DEF IsBlocked, Starts, Succeeds, Fails, InTry
  <2>2. PhaseOf(r) = "active" /\ PhaseOf(r)' = "active" /\ RecordOf(r)'.rc = Absent
    BY <2>1 DEF PhaseOf, RecordOf
  <2>3. Contract!Follows(RecordOf(r), RecordOf(r)')
    <3> USE DEF Contract!Follows, RecordOf
    <3>1. CASE IsBlocked(r)
      <4>1. bundle'[r] = [bundle[r] EXCEPT !.blocked = TRUE]
        BY <1>3, <3>1 DEF IsBlocked
      <4>2. QED
        BY <1>0, <4>1 DEF Bundles
    <3>2. CASE Starts(r)
      <4>1. bundle'[r] = [bundle[r] EXCEPT !.status = "starting"]
        BY <1>3, <3>2 DEF Starts
      <4>2. bundle[r].status = "none"
        BY <1>0, <3>2 DEF Starts, WrittenByStage, Unwritten
      <4>3. QED
        BY <1>0, <4>1, <4>2 DEF Bundles
    <3>3. CASE Succeeds(r)
      <4>1. bundle'[r] = [bundle[r] EXCEPT !.status = "completed"]
        BY <1>3, <3>3 DEF Succeeds
      <4>2. bundle[r].status = "starting"
        BY <1>0, <3>3 DEF Succeeds, WrittenByStage
      <4>3. QED
        BY <1>0, <4>1, <4>2 DEF Bundles
    <3>4. CASE Fails(r)
      <4>1. bundle'[r] = Failed(bundle[r])
        BY <1>3, <3>4 DEF Fails
      <4>2. bundle[r].status \in {"none", "starting"}
        BY <1>0, <3>4 DEF Fails, InTry, WrittenByStage, Unwritten
      <4>3. QED
        BY <1>0, <4>1, <4>2 DEF Bundles, Failed
    <3>5. QED
      BY <1>9, <3>1, <3>2, <3>3, <3>4
  <2>4. QED
    BY <1>1, <2>2, <2>3, AsNote
<1>10. CASE Leaves(r)
  <2>1. PICK c \in Cleanups : Moves(r, "over", code[r], [bundle[r] EXCEPT !.cleanup = c])
    BY <1>10 DEF Leaves
  <2>2. stage'[r] = "over" /\ bundle'[r] = [bundle[r] EXCEPT !.cleanup = c]
    BY <1>3, <2>1
  <2>3. /\ bundle'[r].status = bundle[r].status /\ bundle'[r].blocked = bundle[r].blocked
        /\ bundle'[r].failed = bundle[r].failed /\ bundle'[r].cleanup # Absent
    BY <1>0, <2>2 DEF Bundles, Cleanups
  <2>4. PhaseOf(r) = "active" /\ PhaseOf(r)' = "over"
    BY <1>10, <2>2 DEF Leaves, PhaseOf
  <2>5. Contract!Follows(RecordOf(r), RecordOf(r)')
    BY <2>3 DEF Contract!Follows, RecordOf
  <2>6. Contract!Final(RecordOf(r)')
    BY <1>1, <2>2 DEF WrittenByStage
  <2>7. QED
    BY <1>1, <2>4, <2>5, <2>6, AsEnd
<1>11. QED
  BY <1>1, <1>4, <1>5, <1>6, <1>7, <1>8, <1>9, <1>10 DEF RunnerMoves

\* Servers and clients are no business of the contract's.
LEMMA OthersContract ==
    ASSUME UNCHANGED runnerVars
    PROVE  UNCHANGED Contract!contractVars
<1>1. stage' = stage /\ code' = code /\ bundle' = bundle
  BY DEF runnerVars
<1>2. \A r \in Runs : PhaseOf(r)' = PhaseOf(r) /\ RecordOf(r)' = RecordOf(r)
  BY <1>1 DEF PhaseOf, RecordOf
<1>3. QED
  BY <1>2 DEF Contract!contractVars

\* What a suite relies on of one run, for any number of runs and whatever
\* servers, clients, crashes and kills do: an exit code 0 only with a completed
\* and cleaned bundle, 3 only with BLOCKED.txt and no server, records that are
\* never taken back.
THEOREM RunKeepsContract == OnlineSpec => ImplementsRunContract
<1>1. OnlineInit => Contract!ContractInit
  <2>1. SUFFICES ASSUME OnlineInit PROVE Contract!ContractInit
    OBVIOUS
  <2>2. \A r \in Runs : PhaseOf(r) = "idle" /\ RecordOf(r) = Contract!Empty
    BY <2>1 DEF OnlineInit, PhaseOf, RecordOf, NoBundle, Contract!Empty
  <2>3. QED
    BY <2>2 DEF Contract!ContractInit
<1>2. OnlineInv /\ [OnlineNext]_onlineVars => [Contract!ContractNext]_(Contract!contractVars)
  <2>1. SUFFICES ASSUME OnlineInv, [OnlineNext]_onlineVars
                 PROVE  [Contract!ContractNext]_(Contract!contractVars)
    OBVIOUS
  <2>2. CASE UNCHANGED runnerVars
    BY <2>2, OthersContract
  <2>3. CASE \E r \in Runs : RunnerAction(r)
    BY <2>1, <2>3, RunnerStepContract
  <2>4. QED
    BY <2>1, <2>2, <2>3 DEF OnlineNext, RunnerAction, onlineVars
<1>3. QED
  BY <1>1, <1>2, RunInvariant, PTL DEF OnlineSpec, ImplementsRunContract, Contract!ContractSpec
=============================================================================
