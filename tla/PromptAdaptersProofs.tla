------------------------- MODULE PromptAdaptersProofs -------------------------
(***************************************************************************)
(* Machine-checked facts about the two prompt-by-prompt adapters, for any  *)
(* number of tasks, requests and prompts.                                  *)
(***************************************************************************)
EXTENDS PromptAdapters, TLAPS

-----------------------------------------------------------------------------
(* The inductive invariant.                                                *)

Prompts == [task : Tasks, request : Nat, index : Nat]
Steps == {"idle", "created", "rendered", "sampled", "noted"}
RequestStates ==
    [number : Nat, prompts : Nat, step : Steps, at : Nat \ {0},
     plans : Seq(Prompts), cursor : Nat, args : SUBSET Prompts]
Contexts == [queue : Seq(Prompts), cursor : Nat]
Lines == [call : Prompts \cup {Foreign}, observed : Prompts \cup {Foreign}]

AdaptersTypeOK ==
    /\ adapter \in {"legacy", "school"}
    /\ request \in [Tasks -> RequestStates]
    /\ context \in [Tasks -> Contexts]
    /\ outer \in [Tasks -> Contexts]

\* A call of the host is about prompt number at of the request.
InPrompt(t) == request[t].step \in {"sampled", "noted"}
AfterRender(t) == request[t].step \in {"rendered", "sampled", "noted"}

\* Between requests a context holds no observation, and the tokens of the
\* running create restore that.
ContextClean(t) ==
    /\ request[t].step \in {"idle", "created"} => context[t] = NoObservations
    /\ request[t].step # "idle" => outer[t] = NoObservations
    /\ request[t].step = "created" =>
         request[t].plans = <<>> /\ request[t].cursor = 0 /\ request[t].at = 1
    /\ InPrompt(t) => request[t].at <= request[t].prompts

\* Both cursors of the 0.23 adapter stand at the prompt the host is at: the
\* one on the request has passed it once it is sampled, the one in the context
\* once it is logged.
LegacyAligned(t) == adapter = "legacy" /\ AfterRender(t) =>
    /\ request[t].plans = PromptsOf(t)
    /\ context[t].queue = PromptsOf(t)
    /\ request[t].cursor = IF InPrompt(t) THEN request[t].at ELSE request[t].at - 1
    /\ context[t].cursor = IF request[t].step = "noted" THEN request[t].at
                           ELSE request[t].at - 1

\* The School adapter leaves the cursors alone.
SchoolUnaligned(t) == adapter = "school" /\ AfterRender(t) =>
    request[t].plans = <<>> /\ request[t].cursor = 0

\* What the current prompt will reach the engine with.
ArgsOwn(t) == InPrompt(t) =>
    request[t].args = IF adapter = "legacy" THEN {PromptOf(t, request[t].at)} ELSE {}

Observed(p) == \/ \E line \in recorded : line.call = p
               \/ adapter = "legacy" /\ p \in lost

\* The School adapter observes every prompt of a request it renders, the 0.23
\* adapter a prompt in its log call.
NotedObserved(t) ==
    /\ adapter = "legacy" /\ request[t].step = "noted" => Observed(PromptOf(t, request[t].at))
    /\ adapter = "school" /\ AfterRender(t) =>
         \A i \in 1 .. request[t].prompts : Observed(PromptOf(t, i))

TaskInv(t) ==
    /\ ContextClean(t)
    /\ LegacyAligned(t)
    /\ SchoolUnaligned(t)
    /\ ArgsOwn(t)
    /\ NotedObserved(t)

AdaptersInv ==
    /\ AdaptersTypeOK
    /\ \A t \in Tasks : TaskInv(t)
    /\ PlansStayWithPrompts

-----------------------------------------------------------------------------
(* Lemmas.                                                                 *)

\* A prompt's name is one of the names there are, and the plans of a rendered
\* request are as many as its prompts, each the plan of its own.
LEMMA PromptsNamed ==
    ASSUME AdaptersTypeOK, NEW t \in Tasks
    PROVE  /\ \A i \in Nat : PromptOf(t, i) \in Prompts
           /\ PromptsOf(t) \in Seq(Prompts)
           /\ Len(PromptsOf(t)) = request[t].prompts
           /\ \A i \in 1 .. request[t].prompts : PromptsOf(t)[i] = PromptOf(t, i)
<1>1. request[t].number \in Nat /\ request[t].prompts \in Nat
  BY DEF AdaptersTypeOK, RequestStates
<1>2. \A i \in Nat : PromptOf(t, i) \in Prompts
  BY <1>1 DEF PromptOf, Prompts
<1>3. PromptsOf(t) \in [1 .. request[t].prompts -> Prompts]
  BY <1>1, <1>2 DEF PromptsOf
<1>4. PromptsOf(t) \in Seq(Prompts) /\ Len(PromptsOf(t)) = request[t].prompts
  BY <1>1, <1>3
<1> QED BY <1>2, <1>4 DEF PromptsOf

\* A step of one task leaves what is known of another as it was.
LEMMA OthersUndisturbed ==
    ASSUME AdaptersInv, NEW u \in Tasks,
           request'[u] = request[u], context'[u] = context[u], outer'[u] = outer[u],
           adapter' = adapter, recorded \subseteq recorded', lost \subseteq lost'
    PROVE  TaskInv(u)'
<1>1. TaskInv(u)
  BY DEF AdaptersInv
<1>2. \A i : PromptOf(u, i)' = PromptOf(u, i)
  BY DEF PromptOf
<1>3. PromptsOf(u)' = PromptsOf(u)
  BY <1>2 DEF PromptsOf
<1>4. \A p : Observed(p) => Observed(p)'
  BY DEF Observed
<1>5. ContextClean(u)' /\ LegacyAligned(u)' /\ SchoolUnaligned(u)' /\ ArgsOwn(u)'
  BY <1>1, <1>2, <1>3
     DEF TaskInv, ContextClean, LegacyAligned, SchoolUnaligned, ArgsOwn, InPrompt, AfterRender
<1>6. NotedObserved(u)'
  BY <1>1, <1>2, <1>4 DEF TaskInv, NotedObserved, AfterRender
<1> QED BY <1>5, <1>6 DEF TaskInv

\* The initial states: no task has a request.
LEMMA InitEstablishes == AdaptersInit => AdaptersInv
<1> SUFFICES ASSUME AdaptersInit PROVE AdaptersInv
  OBVIOUS
<1> USE DEF AdaptersInit
<1>1. AdaptersTypeOK
  BY DEF AdaptersTypeOK, RequestStates, Contexts, Fresh, NoObservations, Steps
<1>2. ASSUME NEW t \in Tasks PROVE TaskInv(t)
  BY DEF TaskInv, ContextClean, LegacyAligned, SchoolUnaligned, ArgsOwn, NotedObserved,
         InPrompt, AfterRender, Fresh
<1>3. PlansStayWithPrompts
  BY DEF PlansStayWithPrompts
<1> QED BY <1>1, <1>2, <1>3 DEF AdaptersInv

\* create binds the request and empties the observations.
LEMMA CreatePreserves ==
    ASSUME AdaptersInv, NEW t \in Tasks, Create(t) PROVE AdaptersInv'
<1> USE DEF AdaptersInv
<1>1. PICK k \in 1 .. MaxPrompts :
        request' = [request EXCEPT ![t] = Fresh(request[t].number + 1, k, "created")]
  BY DEF Create
<1>2. request[t] \in RequestStates /\ request[t].step = "idle"
  BY DEF Create, AdaptersTypeOK
<1>3. /\ request'[t] = Fresh(request[t].number + 1, k, "created")
      /\ context'[t] = NoObservations
      /\ outer'[t] = context[t]
  BY <1>1 DEF Create, AdaptersTypeOK
<1>4. context[t] = NoObservations
  BY <1>2 DEF TaskInv, ContextClean
<1>5. Fresh(request[t].number + 1, k, "created") \in RequestStates
  BY <1>2, MaxPromptsAssumption DEF Fresh, RequestStates, Steps
<1>6. AdaptersTypeOK'
  BY <1>1, <1>5 DEF Create, AdaptersTypeOK, NoObservations, Contexts
<1>7. TaskInv(t)'
  BY <1>3, <1>4 DEF TaskInv, ContextClean, LegacyAligned, SchoolUnaligned, ArgsOwn,
                     NotedObserved, InPrompt, AfterRender, Fresh
<1>8. ASSUME NEW u \in Tasks, u # t PROVE TaskInv(u)'
  BY <1>1, <1>8, OthersUndisturbed DEF Create, AdaptersTypeOK
<1>9. PlansStayWithPrompts'
  BY DEF Create, PlansStayWithPrompts
<1> QED BY <1>6, <1>7, <1>8, <1>9

\* The finally of create restores a context without observations.
LEMMA LeaveCleans ==
    ASSUME AdaptersInv, NEW t \in Tasks, request[t].step # "idle", Leave(t),
           adapter' = adapter, outer' = outer
    PROVE  AdaptersTypeOK' /\ TaskInv(t)'
<1> USE DEF AdaptersInv
<1>1. context[t] \in Contexts /\ request[t] \in RequestStates /\ outer[t] = NoObservations
  BY DEF AdaptersTypeOK, TaskInv, ContextClean
<1>2. /\ request'[t] = [request[t] EXCEPT !.step = "idle"]
      /\ context'[t] = NoObservations
  BY <1>1 DEF Leave, AdaptersTypeOK
<1>3. AdaptersTypeOK'
  BY <1>1 DEF Leave, AdaptersTypeOK, RequestStates, Steps
<1>4. request'[t].step = "idle"
  BY <1>1, <1>2 DEF RequestStates
<1>5. TaskInv(t)'
  BY <1>2, <1>4 DEF TaskInv, ContextClean, LegacyAligned, SchoolUnaligned, ArgsOwn,
                     NotedObserved, InPrompt, AfterRender
<1> QED BY <1>3, <1>5

LEMMA EndPreserves ==
    ASSUME AdaptersInv, NEW t \in Tasks, End(t) PROVE AdaptersInv'
<1> USE DEF AdaptersInv
<1>1. AdaptersTypeOK' /\ TaskInv(t)'
  BY LeaveCleans DEF End
<1>2. ASSUME NEW u \in Tasks, u # t PROVE TaskInv(u)'
  BY <1>2, OthersUndisturbed DEF End, Leave, AdaptersTypeOK
<1>3. PlansStayWithPrompts'
  BY DEF End, PlansStayWithPrompts
<1> QED BY <1>1, <1>2, <1>3

\* The 0.23 render stores the plans and the observations and puts both cursors
\* at the beginning.
LEMMA RenderLegacyPreserves ==
    ASSUME AdaptersInv, NEW t \in Tasks, RenderLegacy(t) PROVE AdaptersInv'
<1> USE DEF AdaptersInv
<1>1. request[t] \in RequestStates /\ request[t].at = 1 /\ outer[t] = NoObservations
  BY DEF RenderLegacy, AdaptersTypeOK, TaskInv, ContextClean
<1>2. PromptsOf(t) \in Seq(Prompts)
  BY PromptsNamed
<1>3. request'[t] = [request[t] EXCEPT !.step = "rendered", !.plans = PromptsOf(t), !.cursor = 0]
  BY DEF RenderLegacy, AdaptersTypeOK
<1>4. context'[t] = [queue |-> PromptsOf(t), cursor |-> 0]
  BY DEF RenderLegacy, AdaptersTypeOK
<1>5. /\ request'[t].step = "rendered" /\ request'[t].plans = PromptsOf(t)
      /\ request'[t].cursor = 0 /\ request'[t].at = 1
      /\ request'[t].number = request[t].number /\ request'[t].prompts = request[t].prompts
  BY <1>1, <1>3 DEF RequestStates
<1>6. PromptsOf(t)' = PromptsOf(t)
  BY <1>5 DEF PromptsOf, PromptOf
<1>7. AdaptersTypeOK'
  <2>1. request' \in [Tasks -> RequestStates]
    BY <1>1, <1>2 DEF RenderLegacy, AdaptersTypeOK, RequestStates, Steps
  <2>2. context' \in [Tasks -> Contexts]
    BY <1>2 DEF RenderLegacy, AdaptersTypeOK, Contexts
  <2> QED BY <2>1, <2>2 DEF RenderLegacy, AdaptersTypeOK
<1>8. TaskInv(t)'
  <2>1. adapter' = "legacy" /\ outer'[t] = NoObservations
    BY <1>1 DEF RenderLegacy
  <2>2. LegacyAligned(t)'
    BY <1>4, <1>5, <1>6 DEF LegacyAligned, InPrompt
  <2>3. ContextClean(t)' /\ SchoolUnaligned(t)' /\ ArgsOwn(t)' /\ NotedObserved(t)'
    BY <1>5, <2>1 DEF ContextClean, SchoolUnaligned, ArgsOwn, NotedObserved, InPrompt
  <2> QED BY <2>2, <2>3 DEF TaskInv
<1>9. ASSUME NEW u \in Tasks, u # t PROVE TaskInv(u)'
  BY <1>9, OthersUndisturbed DEF RenderLegacy, AdaptersTypeOK
<1>10. PlansStayWithPrompts'
  BY DEF RenderLegacy, PlansStayWithPrompts
<1> QED BY <1>7, <1>8, <1>9, <1>10

\* The School render observes the prompts it admits, or all of them.
LEMMA RenderSchoolPreserves ==
    ASSUME AdaptersInv, NEW t \in Tasks, RenderSchool(t) PROVE AdaptersInv'
<1> USE DEF AdaptersInv
<1>1. PICK admitted \in 0 .. request[t].prompts :
        /\ recorded' = recorded \cup
             {Line(PromptOf(t, i), PromptOf(t, i)) : i \in 1 .. admitted}
        /\ IF admitted = request[t].prompts
           THEN request' = [request EXCEPT ![t].step = "rendered"] /\ UNCHANGED context
           ELSE Leave(t)
  BY DEF RenderSchool
<1>2. /\ request[t] \in RequestStates /\ request[t].step = "created" /\ adapter = "school"
      /\ UNCHANGED <<adapter, outer, lost, submitted>>
  BY DEF RenderSchool, AdaptersTypeOK
<1>3. \A u \in Tasks : u # t => request'[u] = request[u] /\ context'[u] = context[u]
  BY <1>1 DEF Leave, AdaptersTypeOK
<1>4. AdaptersTypeOK' /\ TaskInv(t)'
  <2>1. CASE admitted # request[t].prompts
    BY <1>1, <1>2, <2>1, LeaveCleans
  <2>2. CASE admitted = request[t].prompts
    <3>1. request' = [request EXCEPT ![t].step = "rendered"] /\ context' = context
      BY <1>1, <2>2
    <3>2. /\ request'[t].step = "rendered" /\ request'[t].plans = request[t].plans
          /\ request'[t].cursor = request[t].cursor /\ request'[t].at = request[t].at
          /\ request'[t].number = request[t].number /\ request'[t].prompts = request[t].prompts
      BY <1>2, <3>1 DEF AdaptersTypeOK, RequestStates
    <3>3. AdaptersTypeOK'
      BY <1>2, <3>1 DEF AdaptersTypeOK, RequestStates, Steps
    <3>4. \A i : PromptOf(t, i)' = PromptOf(t, i)
      BY <3>2 DEF PromptOf
    <3>5. \A i \in 1 .. request[t].prompts : Observed(PromptOf(t, i))'
      <4> SUFFICES ASSUME NEW i \in 1 .. request[t].prompts
                   PROVE  \E line \in recorded' : line.call = PromptOf(t, i)
        BY <3>4 DEF Observed
      <4>1. Line(PromptOf(t, i), PromptOf(t, i)) \in recorded'
        BY <1>1, <2>2
      <4> QED BY <4>1 DEF Line
    <3>6. NotedObserved(t)'
      BY <1>2, <3>2, <3>4, <3>5 DEF NotedObserved
    <3>7. ContextClean(t)' /\ LegacyAligned(t)' /\ SchoolUnaligned(t)' /\ ArgsOwn(t)'
      BY <1>2, <3>1, <3>2
         DEF TaskInv, ContextClean, LegacyAligned, SchoolUnaligned, ArgsOwn, InPrompt
    <3> QED BY <3>3, <3>6, <3>7 DEF TaskInv
  <2> QED BY <2>1, <2>2
<1>5. ASSUME NEW u \in Tasks, u # t PROVE TaskInv(u)'
  BY <1>1, <1>2, <1>3, <1>5, OthersUndisturbed
<1>6. PlansStayWithPrompts'
  BY <1>1, <1>2 DEF PlansStayWithPrompts, Line
<1> QED BY <1>4, <1>5, <1>6

\* to_sampling_params attaches the plan its cursor is at, which is the plan of
\* the prompt the host is at.
LEMMA SamplePreserves ==
    ASSUME AdaptersInv, NEW t \in Tasks, Sample(t) PROVE AdaptersInv'
<1> USE DEF AdaptersInv
<1> DEFINE r == request[t]
<1>1. /\ r \in RequestStates /\ r.step = "rendered" /\ r.at <= r.prompts
      /\ request' = [request EXCEPT ![t] = Attach(t)]
      /\ UNCHANGED <<adapter, context, outer, recorded, lost, submitted>>
      /\ TaskInv(t)
  BY DEF Sample, AdaptersTypeOK
<1>2. request'[t] = Attach(t)
  BY <1>1 DEF AdaptersTypeOK
<1>3. /\ Attach(t) \in [number : {r.number}, prompts : {r.prompts}, step : {"sampled"},
                        at : {r.at}, plans : {r.plans},
                        cursor : {IF adapter = "legacy" THEN r.at ELSE r.cursor},
                        args : {IF adapter = "legacy" THEN {PromptOf(t, r.at)} ELSE {}}]
  <2>1. CASE adapter = "legacy"
    <3>1. r.plans = PromptsOf(t) /\ r.cursor = r.at - 1
      BY <1>1, <2>1 DEF TaskInv, LegacyAligned, AfterRender, InPrompt
    <3>2. r.cursor < Len(r.plans) /\ r.plans[r.cursor + 1] = PromptOf(t, r.at)
          /\ r.cursor + 1 = r.at
      BY <1>1, <3>1, PromptsNamed DEF RequestStates
    <3>3. Attach(t) = [r EXCEPT !.cursor = r.at, !.args = {PromptOf(t, r.at)},
                                !.step = "sampled"]
      BY <3>2 DEF Attach
    <3> QED BY <1>1, <2>1, <3>3 DEF RequestStates
  <2>2. CASE adapter = "school"
    <3>1. r.plans = <<>> /\ r.cursor = 0
      BY <1>1, <2>2 DEF TaskInv, SchoolUnaligned, AfterRender
    <3>2. ~(r.cursor < Len(r.plans))
      BY <3>1
    <3>3. Attach(t) = [r EXCEPT !.args = {}, !.step = "sampled"]
      BY <3>2 DEF Attach
    <3> QED BY <1>1, <2>2, <3>3 DEF RequestStates
  <2> QED BY <2>1, <2>2 DEF AdaptersTypeOK
<1>4. /\ request'[t].step = "sampled"
      /\ request'[t].cursor = IF adapter = "legacy" THEN r.at ELSE r.cursor
      /\ request'[t].args = IF adapter = "legacy" THEN {PromptOf(t, r.at)} ELSE {}
      /\ request'[t].plans = r.plans /\ request'[t].at = r.at
      /\ request'[t].number = r.number /\ request'[t].prompts = r.prompts
  BY <1>2, <1>3
<1>5. \A i : PromptOf(t, i)' = PromptOf(t, i)
  BY <1>4 DEF PromptOf
<1>6. PromptsOf(t)' = PromptsOf(t)
  BY <1>4, <1>5 DEF PromptsOf
<1>7. AdaptersTypeOK'
  <2>1. PromptOf(t, r.at) \in Prompts
    BY <1>1, PromptsNamed DEF RequestStates
  <2>2. Attach(t) \in RequestStates
    BY <1>1, <1>3, <2>1 DEF RequestStates, Steps
  <2> QED BY <1>1, <2>2 DEF AdaptersTypeOK
<1>8. TaskInv(t)'
  <2>1. ContextClean(t)' /\ LegacyAligned(t)' /\ SchoolUnaligned(t)'
    BY <1>1, <1>4, <1>6
       DEF TaskInv, ContextClean, LegacyAligned, SchoolUnaligned, InPrompt, AfterRender
  <2>2. ArgsOwn(t)'
    BY <1>1, <1>4, <1>5 DEF ArgsOwn
  <2>3. NotedObserved(t)'
    BY <1>1, <1>4, <1>5 DEF TaskInv, NotedObserved, AfterRender, Observed
  <2> QED BY <2>1, <2>2, <2>3 DEF TaskInv
<1>9. ASSUME NEW u \in Tasks, u # t PROVE TaskInv(u)'
  BY <1>1, <1>9, OthersUndisturbed DEF AdaptersTypeOK
<1>10. PlansStayWithPrompts'
  BY <1>1 DEF PlansStayWithPrompts
<1> QED BY <1>7, <1>8, <1>9, <1>10

\* The log call of a prompt under the 0.23 adapter takes that prompt's
\* observation, and moves on whether or not it could be written.
LEMMA LogPreserves ==
    ASSUME AdaptersInv, NEW t \in Tasks, Log(t) PROVE AdaptersInv'
<1> USE DEF AdaptersInv
<1> DEFINE r == request[t]  p == PromptOf(t, r.at)
<1>1. /\ r \in RequestStates /\ r.step = "sampled" /\ r.at <= r.prompts
      /\ request' = [request EXCEPT ![t].step = "noted"]
      /\ UNCHANGED <<adapter, outer, submitted>>
      /\ TaskInv(t) /\ context[t] \in Contexts
  BY DEF Log, AdaptersTypeOK, TaskInv, ContextClean, InPrompt
<1>2. /\ request'[t].step = "noted"
      /\ request'[t].cursor = r.cursor /\ request'[t].args = r.args
      /\ request'[t].plans = r.plans /\ request'[t].at = r.at
      /\ request'[t].number = r.number /\ request'[t].prompts = r.prompts
  BY <1>1 DEF AdaptersTypeOK, RequestStates
<1>3. \A i : PromptOf(t, i)' = PromptOf(t, i)
  BY <1>2 DEF PromptOf
<1>4. PromptsOf(t)' = PromptsOf(t)
  BY <1>2, <1>3 DEF PromptsOf
<1>5. request' \in [Tasks -> RequestStates]
  BY <1>1 DEF AdaptersTypeOK, RequestStates, Steps
<1>6. CASE adapter = "legacy"
  <2>1. context[t].queue = PromptsOf(t) /\ context[t].cursor = r.at - 1
    BY <1>1, <1>6 DEF TaskInv, LegacyAligned, AfterRender
  <2>2. context[t].cursor < Len(context[t].queue)
        /\ context[t].queue[context[t].cursor + 1] = p /\ context[t].cursor + 1 = r.at
    BY <1>1, <2>1, PromptsNamed DEF RequestStates
  <2>3. /\ context' = [context EXCEPT ![t].cursor = @ + 1]
        /\ \/ recorded' = recorded \cup {Line(p, p)} /\ lost' = lost
           \/ lost' = lost \cup {p} /\ recorded' = recorded
    BY <1>1, <1>6, <2>2 DEF Log, LogInputs, Contexts
  <2>4. context'[t].cursor = r.at /\ context'[t].queue = PromptsOf(t)
    BY <1>1, <2>1, <2>2, <2>3 DEF AdaptersTypeOK, Contexts
  <2>5. AdaptersTypeOK'
    <3>1. context[t].cursor + 1 \in Nat
      BY <1>1 DEF Contexts
    <3>2. context' \in [Tasks -> Contexts]
      BY <1>1, <2>3, <3>1 DEF AdaptersTypeOK, Contexts
    <3> QED BY <1>1, <1>5, <3>2 DEF AdaptersTypeOK
  <2>6. Observed(p)'
    <3>0. p' = p
      BY <1>2, <1>3
    <3>1. CASE recorded' = recorded \cup {Line(p, p)}
      <4>1. Line(p, p) \in recorded' /\ Line(p, p).call = p
        BY <3>1 DEF Line
      <4> QED BY <3>0, <4>1 DEF Observed
    <3>2. CASE lost' = lost \cup {p}
      BY <1>1, <1>6, <3>0, <3>2 DEF Observed
    <3> QED BY <2>3, <3>1, <3>2
  <2>7. TaskInv(t)'
    <3>1. ContextClean(t)' /\ SchoolUnaligned(t)' /\ LegacyAligned(t)'
      BY <1>1, <1>2, <1>4, <1>6, <2>4
         DEF TaskInv, ContextClean, SchoolUnaligned, LegacyAligned, InPrompt, AfterRender
    <3>2. ArgsOwn(t)'
      BY <1>1, <1>2, <1>3 DEF TaskInv, ArgsOwn, InPrompt
    <3>3. NotedObserved(t)'
      BY <1>1, <1>2, <1>3, <1>6, <2>6 DEF NotedObserved
    <3> QED BY <3>1, <3>2, <3>3 DEF TaskInv
  <2>8. ASSUME NEW u \in Tasks, u # t PROVE TaskInv(u)'
    BY <1>1, <2>3, <2>8, OthersUndisturbed DEF AdaptersTypeOK
  <2>9. PlansStayWithPrompts'
    BY <1>1, <2>3 DEF PlansStayWithPrompts, Line
  <2> QED BY <2>5, <2>7, <2>8, <2>9
<1>7. CASE adapter = "school"
  <2>1. UNCHANGED <<context, recorded, lost>>
    BY <1>7 DEF Log
  <2>2. AdaptersTypeOK'
    BY <1>1, <1>5, <2>1 DEF AdaptersTypeOK
  <2>3. TaskInv(t)'
    <3>1. ContextClean(t)' /\ SchoolUnaligned(t)' /\ LegacyAligned(t)'
      BY <1>1, <1>2, <1>7, <2>1
         DEF TaskInv, ContextClean, SchoolUnaligned, LegacyAligned, InPrompt, AfterRender
    <3>2. ArgsOwn(t)'
      BY <1>1, <1>2, <1>3 DEF TaskInv, ArgsOwn, InPrompt
    <3>3. NotedObserved(t)'
      BY <1>1, <1>2, <1>3, <1>7, <2>1 DEF TaskInv, NotedObserved, AfterRender, Observed
    <3> QED BY <3>1, <3>2, <3>3 DEF TaskInv
  <2>4. ASSUME NEW u \in Tasks, u # t PROVE TaskInv(u)'
    BY <1>1, <2>1, <2>4, OthersUndisturbed DEF AdaptersTypeOK
  <2>5. PlansStayWithPrompts'
    BY <1>1, <2>1 DEF PlansStayWithPrompts
  <2> QED BY <2>2, <2>3, <2>4, <2>5
<1> QED BY <1>6, <1>7 DEF AdaptersTypeOK

\* A foreign log call finds no observation to take.
LEMMA LogForeignPreserves ==
    ASSUME AdaptersInv, NEW t \in Tasks, LogForeign(t) PROVE AdaptersInv'
<1> USE DEF AdaptersInv
<1>1. context[t] = NoObservations
  BY DEF LogForeign, TaskInv, ContextClean
<1>2. UNCHANGED adapterVars
  BY <1>1 DEF LogForeign, LogInputs, NoObservations, adapterVars
<1>3. ASSUME NEW u \in Tasks PROVE TaskInv(u)'
  BY <1>2, OthersUndisturbed DEF adapterVars
<1>4. AdaptersTypeOK' /\ PlansStayWithPrompts'
  BY <1>2 DEF adapterVars, AdaptersTypeOK, PlansStayWithPrompts
<1> QED BY <1>3, <1>4

\* The prompt reaches the engine with its own arguments, observed.
LEMMA SubmitPreserves ==
    ASSUME AdaptersInv, NEW t \in Tasks, Submit(t) PROVE AdaptersInv'
<1> USE DEF AdaptersInv
<1> DEFINE r == request[t]  p == PromptOf(t, r.at)
<1>1. /\ r \in RequestStates /\ r.step = "noted" /\ r.at <= r.prompts
      /\ request' = [request EXCEPT ![t].at = @ + 1, ![t].step = "rendered"]
      /\ submitted' = submitted \cup {[prompt |-> p, args |-> r.args]}
      /\ UNCHANGED <<adapter, context, outer, recorded, lost>>
      /\ TaskInv(t)
  BY DEF Submit, AdaptersTypeOK, TaskInv, ContextClean, InPrompt
<1>2. /\ request'[t].step = "rendered" /\ request'[t].at = r.at + 1
      /\ request'[t].cursor = r.cursor /\ request'[t].plans = r.plans
      /\ request'[t].number = r.number /\ request'[t].prompts = r.prompts
  BY <1>1 DEF AdaptersTypeOK, RequestStates
<1>3. \A i : PromptOf(t, i)' = PromptOf(t, i)
  BY <1>2 DEF PromptOf
<1>4. PromptsOf(t)' = PromptsOf(t)
  BY <1>2, <1>3 DEF PromptsOf
<1>5. AdaptersTypeOK'
  BY <1>1 DEF AdaptersTypeOK, RequestStates, Steps
<1>6. TaskInv(t)'
  <2>1. ContextClean(t)' /\ SchoolUnaligned(t)' /\ LegacyAligned(t)'
    BY <1>1, <1>2, <1>4
       DEF TaskInv, ContextClean, SchoolUnaligned, LegacyAligned, InPrompt, AfterRender,
           RequestStates
  <2>2. ArgsOwn(t)'
    BY <1>2 DEF ArgsOwn, InPrompt
  <2>3. \A q : Observed(q)' <=> Observed(q)
    BY <1>1 DEF Observed
  <2>4. NotedObserved(t)'
    BY <1>1, <1>2, <1>3, <2>3 DEF TaskInv, NotedObserved, AfterRender
  <2> QED BY <2>1, <2>2, <2>4 DEF TaskInv
<1>7. ASSUME NEW u \in Tasks, u # t PROVE TaskInv(u)'
  BY <1>1, <1>7, OthersUndisturbed DEF AdaptersTypeOK
<1>8. PlansStayWithPrompts'
  <2>1. r.args = IF adapter = "legacy" THEN {p} ELSE {}
    BY <1>1 DEF TaskInv, ArgsOwn, InPrompt
  <2>2. Observed(p)
    <3>1. r.at \in 1 .. r.prompts
      BY <1>1 DEF RequestStates
    <3> QED BY <1>1, <3>1 DEF TaskInv, NotedObserved, AfterRender, AdaptersTypeOK
  <2>3. ASSUME NEW s \in submitted'
        PROVE  /\ s.args = IF adapter = "legacy" THEN {s.prompt} ELSE {}
               /\ Observed(s.prompt)
    <3>1. CASE s \in submitted
      BY <3>1 DEF PlansStayWithPrompts, Observed
    <3>2. CASE s = [prompt |-> p, args |-> r.args]
      <4>1. s.prompt = p /\ s.args = r.args
        BY <3>2
      <4> QED BY <4>1, <2>1, <2>2
    <3> QED BY <1>1, <3>1, <3>2
  <2> QED BY <1>1, <2>3 DEF PlansStayWithPrompts, Observed
<1> QED BY <1>5, <1>6, <1>7, <1>8

-----------------------------------------------------------------------------
(* The theorem.                                                            *)

LEMMA StepsPreserve == AdaptersInv /\ [AdaptersNext]_adapterVars => AdaptersInv'
<1> SUFFICES ASSUME AdaptersInv, [AdaptersNext]_adapterVars PROVE AdaptersInv'
  OBVIOUS
<1>1. CASE UNCHANGED adapterVars
  <2>1. ASSUME NEW u \in Tasks PROVE TaskInv(u)'
    BY <1>1, OthersUndisturbed DEF adapterVars
  <2>2. AdaptersTypeOK' /\ PlansStayWithPrompts'
    BY <1>1 DEF adapterVars, AdaptersInv, AdaptersTypeOK, PlansStayWithPrompts
  <2> QED BY <2>1, <2>2 DEF AdaptersInv
<1>2. CASE AdaptersNext
  BY <1>2, CreatePreserves, RenderLegacyPreserves, RenderSchoolPreserves, SamplePreserves,
     LogPreserves, LogForeignPreserves, SubmitPreserves, EndPreserves
     DEF AdaptersNext
<1> QED BY <1>1, <1>2

\* legacy_vllm_023.py and school_vllm_028.py: for any number of tasks, requests
\* and prompts, what is said of a prompt is never another prompt's, whatever
\* failed, ended early or logged in between.
THEOREM PlansStay == AdaptersSpec => []PlansStayWithPrompts
<1>1. AdaptersInv => PlansStayWithPrompts
  BY DEF AdaptersInv
<1> QED BY <1>1, InitEstablishes, StepsPreserve, PTL DEF AdaptersSpec
=============================================================================
