---------------------------- MODULE ArrivalControl ----------------------------
(***************************************************************************)
(* The arrival-time controller as the host drives it: concurrent calls of  *)
(* plugin.process_request over the process-wide maps of live_control.py.   *)
(* One call runs                                                           *)
(*                                                                         *)
(*   Arrive      bind headers, first lock section of estimate_signals:     *)
(*               read and bump the anchor's seen count, read its history   *)
(*   NoteHistory second lock section: overwrite the anchor's history       *)
(*   Decide      policy outcome and runtime plan (Reject: unknown mode)    *)
(*               (Refuse: the School adapter admits only recompute)        *)
(*   Answer      append the observation, return the plan as metadata       *)
(*               (LogFails: the append raises and the request fails)       *)
(*                                                                         *)
(* The lock is released between Arrive and NoteHistory; everything after   *)
(* NoteHistory that fails leaves the history written.                      *)
(***************************************************************************)
EXTENDS ArrivalPlan

CONSTANTS
    Calls,         \* invocations of process_request
    Submissions,   \* what clients may submit
    Environments,  \* how the process may be configured
    NotCalled      \* the locals of a call that has not arrived

ASSUME SubmissionsAssumption == \A s \in Submissions : IsSubmission(s)
ASSUME EnvironmentsAssumption == \A e \in Environments : IsEnvironment(e)

VARIABLES
    env,         \* the environment, fixed when the process starts
    anchorSeen,  \* _ANCHOR_SEEN_COUNTS
    history,     \* _SESSION_HISTORY
    pc,          \* where each call is
    local,       \* what each call read and derived so far
    plan,        \* the runtime plan each call computed
    logged       \* calls whose observation line is in the JSONL log

vars == <<env, anchorSeen, history, pc, local, plan, logged>>

Phases == {"idle", "read", "noted", "planned", "answered", "rejected", "unlogged"}
Arrived == {c \in Calls : pc[c] # "idle"}
InFlight == {c \in Calls : pc[c] \in {"read", "noted", "planned"}}
Noted == {c \in Calls : pc[c] \notin {"idle", "read"}}
Planned == {c \in Calls : pc[c] \in {"planned", "answered", "unlogged"}}
Answered == {c \in Calls : pc[c] = "answered"}

\* The locals of estimate_signals for a call that read (seen, previous).
Locals(s, seen, previous) ==
    LET turn     == TurnIndex(s, previous)
        reusable == EstimateReusablePrefixTokens(s, previous)
    IN  [sub |-> s, seen |-> seen, previous |-> previous, turn |-> turn,
         reusable |-> reusable, outcome |-> None,
         confidence |-> DefaultReuseConfidence(seen, turn, reusable)]

Init ==
    /\ env \in Environments
    /\ anchorSeen = [a \in Anchors |-> 0]
    /\ history = [a \in Anchors |-> NoHistory]
    /\ pc = [c \in Calls |-> "idle"]
    /\ local = [c \in Calls |-> NotCalled]
    /\ plan = [c \in Calls |-> None]
    /\ logged = {}

\* The School adapter draws an id of one word for every prompt (uuid4); on a
\* native host the id is the host's, and a retry may come under the same one.
DrawnAnyhow(s) == TRUE   \* Mutant: the client's own id is used.
DrawnFresh(s) == env.host = "school" =>
    Len(s.id) = 1 /\ \A d \in Arrived : local[d].sub.id # s.id

\* Mutant: the count is read but bumped only elsewhere.
ArriveUncounted(c, s) ==
    LET a == AnchorOf(s) IN
    /\ pc[c] = "idle"
    /\ env.serial => InFlight = {}
    /\ DrawnFresh(s)
    /\ pc' = [pc EXCEPT ![c] = "read"]
    /\ local' = [local EXCEPT ![c] =
                   IF a = None THEN Locals(s, 0, NoHistory)
                   ELSE Locals(s, anchorSeen[a], history[a])]
    /\ UNCHANGED <<env, anchorSeen, history, plan, logged>>

Arrive(c, s) ==
    LET a == AnchorOf(s) IN
    /\ pc[c] = "idle"
    /\ env.serial => InFlight = {}
    /\ DrawnFresh(s)
    /\ pc' = [pc EXCEPT ![c] = "read"]
    /\ IF a = None
       THEN /\ local' = [local EXCEPT ![c] = Locals(s, 0, NoHistory)]
            /\ UNCHANGED anchorSeen
       ELSE /\ local' = [local EXCEPT ![c] = Locals(s, anchorSeen[a], history[a])]
            /\ anchorSeen' = [anchorSeen EXCEPT ![a] = @ + 1]
    /\ UNCHANGED <<env, history, plan, logged>>

\* Mutants: the longest prompt is kept instead of the latest one, and an
\* existing entry is never replaced.
NoteHistoryKeepsLongest(c) ==
    LET s == local[c].sub
        a == AnchorOf(s)
    IN
    /\ pc[c] = "read"
    /\ pc' = [pc EXCEPT ![c] = "noted"]
    /\ history' = IF a = None THEN history
                  ELSE [history EXCEPT ![a] =
                         [prompt |-> IF @.prompt > s.prompt THEN @.prompt ELSE s.prompt,
                          output |-> s.output, turn |-> local[c].turn]]
    /\ UNCHANGED <<env, anchorSeen, local, plan, logged>>

NoteHistoryOnce(c) ==
    LET s == local[c].sub
        a == AnchorOf(s)
    IN
    /\ pc[c] = "read"
    /\ pc' = [pc EXCEPT ![c] = "noted"]
    /\ history' = IF a = None \/ local[c].previous # NoHistory THEN history
                  ELSE [history EXCEPT ![a] = [prompt |-> s.prompt, output |-> s.output,
                                               turn |-> local[c].turn]]
    /\ UNCHANGED <<env, anchorSeen, local, plan, logged>>

NoteHistory(c) ==
    LET s == local[c].sub
        a == AnchorOf(s)
    IN
    /\ pc[c] = "read"
    /\ pc' = [pc EXCEPT ![c] = "noted"]
    /\ history' = IF a = None THEN history
                  ELSE [history EXCEPT ![a] = [prompt |-> s.prompt, output |-> s.output,
                                               turn |-> local[c].turn]]
    /\ UNCHANGED <<env, anchorSeen, local, plan, logged>>

Decide(c) ==
    /\ pc[c] = "noted"
    /\ \E outcome \in PolicyOutcomes(env, local[c].reusable) :
         \E p \in RuntimePlans(env, local[c].sub, local[c].reusable, outcome) :
            /\ local' = [local EXCEPT ![c].outcome = outcome]
            /\ plan' = [plan EXCEPT ![c] = p]
    /\ pc' = [pc EXCEPT ![c] = "planned"]
    /\ UNCHANGED <<env, anchorSeen, history, logged>>

\* _select_policy_outcome raises on an unknown mode, after the maps were written.
Reject(c) ==
    /\ pc[c] = "noted"
    /\ PolicyOutcomes(env, local[c].reusable) = {}
    /\ pc' = [pc EXCEPT ![c] = "rejected"]
    /\ UNCHANGED <<env, anchorSeen, history, local, plan, logged>>

\* controlled_prompt of the School adapter raises on any plan but recompute,
\* before the observation is recorded.
Admitted(c) == env.host = "native" \/ plan[c].effective = "recompute"

Refuse(c) ==
    /\ pc[c] = "planned"
    /\ ~Admitted(c)
    /\ pc' = [pc EXCEPT ![c] = "rejected"]
    /\ UNCHANGED <<env, anchorSeen, history, local, plan, logged>>

\* Mutant: the plan is returned and the observation left for later.
AnswerUnlogged(c) ==
    /\ pc[c] = "planned"
    /\ Admitted(c)
    /\ pc' = [pc EXCEPT ![c] = "answered"]
    /\ UNCHANGED <<env, anchorSeen, history, local, plan, logged>>

Answer(c) ==
    /\ pc[c] = "planned"
    /\ Admitted(c)
    /\ pc' = [pc EXCEPT ![c] = "answered"]
    /\ logged' = IF env.log THEN logged \cup {c} ELSE logged
    /\ UNCHANGED <<env, anchorSeen, history, local, plan>>

\* Mutant: the line is written and then the call fails.
LogFailsAfterWrite(c) ==
    /\ pc[c] = "planned"
    /\ Admitted(c)
    /\ env.log
    /\ pc' = [pc EXCEPT ![c] = "unlogged"]
    /\ logged' = logged \cup {c}
    /\ UNCHANGED <<env, anchorSeen, history, local, plan>>

\* record_observation raises (mkdir, open or write): the request fails.
LogFails(c) ==
    /\ pc[c] = "planned"
    /\ Admitted(c)
    /\ env.log
    /\ pc' = [pc EXCEPT ![c] = "unlogged"]
    /\ UNCHANGED <<env, anchorSeen, history, local, plan, logged>>

Next == \E c \in Calls :
    \/ \E s \in Submissions : Arrive(c, s)
    \/ NoteHistory(c)
    \/ Decide(c)
    \/ Reject(c)
    \/ Refuse(c)
    \/ Answer(c)
    \/ LogFails(c)

Spec == Init /\ [][Next]_vars

-----------------------------------------------------------------------------
(* Properties.                                                             *)

Outcomes == [decision : Actions, reused : Nat]
CallLocals == [sub : Submissions, seen : Nat, previous : HistoryEntry, turn : Nat,
               reusable : Nat, outcome : Outcomes \cup {None},
               confidence : {0, 35, 70, 95}]

\* The type invariant: every map holds what the code stores in it, and a call
\* has locals from its arrival and a plan from its decision on.
TypeOK ==
    /\ env \in Environments
    /\ anchorSeen \in [Anchors -> Nat]
    /\ history \in [Anchors -> HistoryEntry]
    /\ pc \in [Calls -> Phases]
    /\ local \in [Calls -> CallLocals \cup {NotCalled}]
    /\ plan \in [Calls -> Plans \cup {None}]
    /\ \A c \in Arrived : local[c] \in CallLocals
    /\ \A c \in Planned : plan[c] \in Plans /\ local[c].outcome \in Outcomes
    /\ logged \subseteq Answered

ArrivalsOn(a) == {c \in Arrived : AnchorOf(local[c].sub) = a}

\* Seen counts lose no update: the calls of one anchor read distinct counts,
\* and the counts read are exactly those the map has passed through, however
\* the calls interleave (the first lock section is one step).
SeenRanksExact == \A a \in Anchors :
    /\ \A c, d \in ArrivalsOn(a) : local[c].seen = local[d].seen => c = d
    /\ \A c \in ArrivalsOn(a) : local[c].seen < anchorSeen[a]
    /\ \A k \in 0 .. anchorSeen[a] - 1 : \E c \in ArrivalsOn(a) : local[c].seen = k

\* What NoteHistory wrote, or will write, for a call.
NoteOf(c) == [prompt |-> local[c].sub.prompt, output |-> local[c].sub.output,
              turn |-> local[c].turn]

\* A call that estimates reuse from history estimates it from an arrival on the
\* same anchor that came before it and had finished its second lock section.
EstimateHasSource == \A c \in Arrived : local[c].previous # NoHistory =>
    \E d \in Noted : /\ AnchorOf(local[d].sub) = AnchorOf(local[c].sub)
                     /\ local[d].seen < local[c].seen
                     /\ local[c].previous = NoteOf(d)

Headerless(a) == \A s \in Submissions : AnchorOf(s) = a => s.turnHeader = Absent

\* Without turn headers a turn index never runs ahead of the arrivals counted,
\* although the two maps are written in different lock sections.
TurnsNeverAhead == \A a \in Anchors : Headerless(a) =>
    /\ history[a].turn < anchorSeen[a]
    /\ \A c \in ArrivalsOn(a) : local[c].turn <= local[c].seen

\* On a host that runs one call at a time the estimate tracks exactly the
\* previous request of the anchor, whether or not that request was answered.
SerialEstimateExact == env.serial =>
    \A c, d \in Arrived :
        /\ AnchorOf(local[c].sub) # None
        /\ AnchorOf(local[d].sub) = AnchorOf(local[c].sub)
        /\ local[d].seen + 1 = local[c].seen
        => local[c].previous = NoteOf(d)

SplitsPrompt(p, s, reusable) ==
    /\ p.reuse + p.tail = s.prompt
    /\ p.reuse <= reusable

\* Every plan splits the prompt: the reused and the recomputed tokens add up to
\* it, and no plan reuses more than was estimated reusable.
PlanAccounting ==
    \A c \in Planned : SplitsPrompt(plan[c], local[c].sub, local[c].reusable)

RunsRecompute(p, s) == /\ p.salt = RequestScopedSalt(s)
                       /\ p.tailSalt = None
                       /\ p.reuse = 0

RunsFullReuse(p, reusable) == /\ ~IsRequestScoped(p.salt)
                              /\ p.tailSalt = None
                              /\ p.reuse = reusable

RunsPartialReuse(e, p, s, reusable) ==
    /\ ~IsRequestScoped(p.salt)
    /\ p.tailSalt = RequestScopedSalt(s)
    /\ 0 < p.reuse /\ p.reuse < reusable
    /\ e.block > 0 /\ \E q \in 0 .. p.reuse : p.reuse = q * e.block

Realizable(e, p, s, reusable) ==
    \/ p.effective = "recompute" /\ RunsRecompute(p, s)
    \/ p.effective = "full_reuse" /\ RunsFullReuse(p, reusable)
    \/ p.effective = "partial_reuse" /\ RunsPartialReuse(e, p, s, reusable)

\* Each effective action comes with the namespaces and the boundary that make
\* it realizable: recompute runs in the request's own namespace and reuses
\* nothing; full reuse keeps the shared namespace and the whole estimate;
\* partial reuse cuts at a non-empty, proper, block-aligned prefix and keeps the
\* tail in the request's own namespace.
PlanRealizable ==
    \A c \in Planned : Realizable(env, plan[c], local[c].sub, local[c].reusable)

Truthful(e, p, outcome) ==
    /\ p.observed = outcome.decision
    /\ p.supported <=> p.effective = p.observed
    /\ p.effective = "partial_reuse" =>
         /\ p.reuse <= outcome.reused
         /\ outcome.reused < p.reuse + e.block
         /\ p.reason = "none" <=> p.reuse = outcome.reused

\* A plan says truthfully what became of the policy's decision: it is marked
\* supported exactly when the action that runs is the action decided, and a
\* partial cut is only ever lowered, by less than one block, with the
\* realignment reported.
TruthfulSupport ==
    \A c \in Planned : Truthful(env, plan[c], local[c].outcome)

EndsIn(name, end) ==
    /\ Len(end) <= Len(name)
    /\ SubSeq(name, Len(name) - Len(end) + 1, Len(name)) = end

\* Prefix and id are joined by a ':' that both may contain, so "a:b" with "c" and
\* "a" with "b:c" name one namespace; that takes an id that ends in the other.
ToldApart(s, t) ==
    \/ Prefix(s) = Prefix(t) /\ s.id # t.id
    \/ ~EndsIn(s.id, t.id) /\ ~EndsIn(t.id, s.id)

\* The request-scoped namespace of a request is used neither by another request
\* of the same anchor, nor by any request of which the id does not end in its
\* own or the other way round, whatever colons anchors, cases and ids contain.
PrivateNamespaces == \A c, d \in Planned :
    ToldApart(local[c].sub, local[d].sub) =>
        \A salt \in {plan[c].salt, plan[c].tailSalt} :
            IsRequestScoped(salt) => salt \notin {plan[d].salt, plan[d].tailSalt}
=============================================================================
