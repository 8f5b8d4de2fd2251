---------------------------- MODULE PromptAdapters ----------------------------
(***************************************************************************)
(* The two adapters that control a request prompt by prompt, for hosts     *)
(* without the native hook: legacy_vllm_023 and school_vllm_028.           *)
(*                                                                         *)
(* The host creates a request, renders its prompts, and then takes them    *)
(* one at a time: sampling parameters, a line in its log, the engine.  The *)
(* 0.23 adapter computes all plans in the rendering and has to find them   *)
(* again in the later calls, which say nothing of the prompt they are for: *)
(* plans by a cursor on the request, observations by a cursor in the       *)
(* task's context.  The School adapter logs and salts in the rendering.    *)
(*                                                                         *)
(* Tasks interleave at every await.  A task serves several requests in one *)
(* context, and other serving classes share the patched log call.          *)
(***************************************************************************)
EXTENDS Naturals, Sequences

CONSTANTS
    Tasks,
    MaxRequests,  \* requests of one task
    MaxPrompts,   \* prompts of one request
    Foreign       \* the prompt of another serving class

ASSUME MaxPromptsAssumption == MaxPrompts \in Nat

VARIABLES
    adapter,    \* the one that is installed
    request,    \* the request a task works on
    context,    \* the context variables: observations and cursor
    outer,      \* what the tokens of the running create restore
    recorded,   \* the observation log
    lost,       \* prompts whose observation could not be written
    submitted   \* prompts in the engine, with their extra args

adapterVars == <<adapter, request, context, outer, recorded, lost, submitted>>

\* A plan and an observation are named by the prompt they are for.
PromptOf(t, i) == [task |-> t, request |-> request[t].number, index |-> i]
PromptsOf(t) == [i \in 1 .. request[t].prompts |-> PromptOf(t, i)]

NoObservations == [queue |-> <<>>, cursor |-> 0]

Fresh(n, prompts, step) ==
    [number |-> n, prompts |-> prompts, step |-> step, at |-> 1,
     plans |-> <<>>, cursor |-> 0, args |-> {}]

AdaptersInit ==
    /\ adapter \in {"legacy", "school"}
    /\ request = [t \in Tasks |-> Fresh(0, 0, "idle")]
    /\ context = [t \in Tasks |-> NoObservations]
    /\ outer = [t \in Tasks |-> NoObservations]
    /\ recorded = {}
    /\ lost = {}
    /\ submitted = {}

\* create: the headers are bound and the observations emptied.
Create(t) ==
    /\ request[t].step = "idle" /\ request[t].number < MaxRequests
    /\ \E k \in 1 .. MaxPrompts :
         request' = [request EXCEPT ![t] = Fresh(@.number + 1, k, "created")]
    /\ outer' = [outer EXCEPT ![t] = context[t]]
    /\ context' = [context EXCEPT ![t] = NoObservations]
    /\ UNCHANGED <<adapter, recorded, lost, submitted>>

\* Its finally, however the request ended.
Leave(t) ==
    /\ request' = [request EXCEPT ![t].step = "idle"]
    /\ context' = [context EXCEPT ![t] = outer[t]]

\* The 0.23 render: one synchronous loop, then the plans are stored.
RenderLegacy(t) ==
    /\ adapter = "legacy" /\ request[t].step = "created"
    /\ request' = [request EXCEPT ![t].step = "rendered",
                                  ![t].plans = PromptsOf(t), ![t].cursor = 0]
    /\ context' = [context EXCEPT ![t] = [queue |-> PromptsOf(t), cursor |-> 0]]
    /\ UNCHANGED <<adapter, outer, recorded, lost, submitted>>

\* The School render logs each prompt it admits; the first that is not a text
\* prompt, not a recompute or not written to the log raises.
Line(call, observed) == [call |-> call, observed |-> observed]

RenderSchool(t) ==
    /\ adapter = "school" /\ request[t].step = "created"
    /\ \E admitted \in 0 .. request[t].prompts :
         /\ recorded' = recorded \cup
              {Line(PromptOf(t, i), PromptOf(t, i)) : i \in 1 .. admitted}
         /\ IF admitted = request[t].prompts
            THEN request' = [request EXCEPT ![t].step = "rendered"] /\ UNCHANGED context
            ELSE Leave(t)
    /\ UNCHANGED <<adapter, outer, lost, submitted>>

\* to_sampling_params: the next plan joins the client's vllm_xargs, which are
\* put back when the call is over, returned or raised.
Attach(t) ==
    LET r == request[t] IN
    IF r.cursor < Len(r.plans)
    THEN [r EXCEPT !.cursor = @ + 1, !.args = {r.plans[r.cursor + 1]}, !.step = "sampled"]
    ELSE [r EXCEPT !.args = {}, !.step = "sampled"]

Sample(t) ==
    /\ request[t].step = "rendered" /\ request[t].at <= request[t].prompts
    /\ request' = [request EXCEPT ![t] = Attach(t)]
    /\ UNCHANGED <<adapter, context, outer, recorded, lost, submitted>>

\* patched_log_inputs takes the next observation, whoever calls.  A failed
\* write is swallowed; the cursor has moved by then.
\* Mutant: it has not.
RecordThenConsume(t, call) ==
    LET c == context[t] IN
    IF c.cursor >= Len(c.queue) THEN UNCHANGED <<context, recorded, lost>>
    ELSE \/ /\ recorded' = recorded \cup {Line(call, c.queue[c.cursor + 1])}
            /\ context' = [context EXCEPT ![t].cursor = @ + 1]
            /\ UNCHANGED lost
         \/ /\ lost' = lost \cup {call}
            /\ UNCHANGED <<context, recorded>>

LogInputs(t, call) ==
    LET c == context[t] IN
    IF c.cursor >= Len(c.queue) THEN UNCHANGED <<context, recorded, lost>>
    ELSE /\ context' = [context EXCEPT ![t].cursor = @ + 1]
         /\ \/ /\ recorded' = recorded \cup {Line(call, c.queue[c.cursor + 1])}
               /\ UNCHANGED lost
            \/ /\ lost' = lost \cup {call}
               /\ UNCHANGED recorded

Log(t) ==
    /\ request[t].step = "sampled"
    /\ request' = [request EXCEPT ![t].step = "noted"]
    /\ IF adapter = "legacy" THEN LogInputs(t, PromptOf(t, request[t].at))
       ELSE UNCHANGED <<context, recorded, lost>>
    /\ UNCHANGED <<adapter, outer, submitted>>

\* A serving class whose create is not patched, in the context of the task.
LogForeign(t) ==
    /\ adapter = "legacy" /\ request[t].step = "idle"
    /\ LogInputs(t, Foreign)
    /\ UNCHANGED <<adapter, request, outer, submitted>>

\* The prompt goes to the engine.
Submit(t) ==
    LET p == PromptOf(t, request[t].at) IN
    /\ request[t].step = "noted"
    /\ submitted' = submitted \cup {[prompt |-> p, args |-> request[t].args]}
    /\ request' = [request EXCEPT ![t].at = @ + 1, ![t].step = "rendered"]
    /\ UNCHANGED <<adapter, context, outer, recorded, lost>>

\* The request is done, the host refused it, a plan could not be computed, or
\* the client went away and the task was cancelled at an await.
End(t) ==
    /\ request[t].step # "idle"
    /\ Leave(t)
    /\ UNCHANGED <<adapter, outer, recorded, lost, submitted>>

AdaptersNext == \E t \in Tasks :
    \/ Create(t) \/ RenderLegacy(t) \/ RenderSchool(t)
    \/ Sample(t) \/ Log(t) \/ LogForeign(t) \/ Submit(t) \/ End(t)

AdaptersSpec == AdaptersInit /\ [][AdaptersNext]_adapterVars

-----------------------------------------------------------------------------
(* Properties.                                                             *)

\* Nothing that is said of a prompt is another prompt's, whatever the requests
\* of other tasks, failed writes, abandoned requests and foreign log calls did
\* to the cursors: a line of the log was written by the log call of the prompt
\* it observes; a prompt reaches the engine with the arguments of its own plan
\* and with none of the prompt before it; and none reaches it unobserved unless
\* its own write failed, and then only under the 0.23 adapter.
PlansStayWithPrompts ==
    /\ \A line \in recorded : line.observed = line.call
    /\ \A s \in submitted :
         /\ s.args = IF adapter = "legacy" THEN {s.prompt} ELSE {}
         /\ \/ \E line \in recorded : line.call = s.prompt
            \/ adapter = "legacy" /\ s.prompt \in lost
=============================================================================
