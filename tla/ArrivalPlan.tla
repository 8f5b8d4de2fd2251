----------------------------- MODULE ArrivalPlan -----------------------------
(***************************************************************************)
(* The pure half of live_control.py: what a request's headers and token    *)
(* counts are turned into before anything is written down.  From a         *)
(* submission it estimates the reusable prefix, admits the outcomes the    *)
(* configured policy may return, and lowers an outcome to the runtime      *)
(* control plan that travels to the engine (which action really runs, in   *)
(* which cache namespace, up to which token boundary).                     *)
(*                                                                         *)
(* The cost model that chooses between outcomes is not repeated here: the  *)
(* controller is represented by the contract ControllerOutcomes, and the   *)
(* module MaterializationPolicy checks that decide() honours it.           *)
(***************************************************************************)
EXTENDS Integers, Sequences

CONSTANTS
    Words,        \* what may stand between two colons of a name
    Anchors,      \* anchor and correlation identifiers
    Cases,        \* workload case names
    RequestIds,   \* request ids the host passes to the controller
    None          \* a header that is absent, or no salt at all

\* A name is the sequence of its words, the parts that ':' separates: joining
\* two names with a ':' is concatenation, and "a:b" joined with "c" is "a"
\* joined with "b:c".
Names == Seq(Words)

ASSUME WordsAssumption == {"kvmat", "anchor", "case", "recompute", "request"} \subseteq Words
ASSUME NamesAssumption == Anchors \cup Cases \cup RequestIds \subseteq Names \ {<<>>}
ASSUME NoneAssumption == None \notin Names

-----------------------------------------------------------------------------
(* The process environment, read afresh by every call and the same for all *)
(* of them.                                                                *)

PolicyModes == {"controller", "always_recompute", "always_full_reuse", "misspelt"}

IsEnvironment(e) ==
    /\ e.mode \in PolicyModes            \* VLLM_KV_POLICY_MODE
    /\ e.seam \in {"segmented", "old"}   \* VLLM_KV_RUNTIME_SEAM
    /\ e.block \in Nat                   \* VLLM_KV_RUNTIME_(HASH_)BLOCK_SIZE, 0 when unset
    /\ e.floor \in Nat                   \* VLLM_KV_PARTIAL_REUSE_FLOOR_TOKENS
    /\ e.log \in BOOLEAN                 \* VLLM_KV_MATERIALIZATION_LOG_PATH is set
    /\ e.serial \in BOOLEAN              \* the host runs one call at a time
    /\ e.host \in {"native", "school"}   \* which host adapter was registered

-----------------------------------------------------------------------------
(* Submissions: the request as the hook sees it.                           *)

\* -1 stands for an absent integer header; the code reads a negative
\* shared-prefix header as absent too.
Absent == -1

IsSubmission(s) ==
    /\ s.id \in RequestIds
    /\ s.primary \in Anchors \cup {None}
    /\ s.correlation \in Anchors \cup {None}
    /\ s.scaffold \in Anchors \cup {None}   \* first secondary anchor naming a scaffold
    /\ s.case \in Cases \cup {None}
    /\ s.sharedPrefix \in Nat \cup {Absent}
    /\ s.turnHeader \in Nat \cup {Absent}
    /\ s.prompt \in Nat
    /\ s.output \in Nat

\* The identity every shared map is keyed by: primary anchor, else correlation id.
AnchorOf(s) == IF s.primary # None THEN s.primary ELSE s.correlation

Lesser(a, b) == IF a <= b THEN a ELSE b

-----------------------------------------------------------------------------
(* Reuse estimate.                                                         *)

\* A session history entry; NoHistory is what a missing entry reads as.
NoHistory == [prompt |-> 0, output |-> 0, turn |-> -1]
HistoryEntry == [prompt : Nat, output : Nat, turn : Nat \cup {-1}]

\* Mutant: turns count from one.
TurnIndexFromOne(s, previous) ==
    IF s.turnHeader # Absent THEN s.turnHeader ELSE previous.turn + 2

TurnIndex(s, previous) ==
    IF s.turnHeader # Absent THEN s.turnHeader ELSE previous.turn + 1

\* int(prompt * 0.35) and int(prompt * 0.6) of the source.
EstimateReusablePrefixTokens(s, previous) ==
    IF s.sharedPrefix # Absent THEN Lesser(s.sharedPrefix, s.prompt)
    ELSE IF previous.prompt > 0 THEN Lesser(previous.prompt + previous.output, s.prompt)
    ELSE IF s.primary = None THEN 0
    ELSE IF s.turnHeader > 0 THEN (s.prompt * 60) \div 100
    ELSE (s.prompt * 35) \div 100

\* Percent.
DefaultReuseConfidence(seen, turn, reusable) ==
    IF reusable = 0 THEN 0
    ELSE IF seen > 0 THEN 95
    ELSE IF turn > 0 THEN 70
    ELSE 35

-----------------------------------------------------------------------------
(* Policy outcomes.                                                        *)

Outcome(decision, reused) == [decision |-> decision, reused |-> reused]

\* Contract of MaterializationPolicy.decide: nothing reusable forces
\* recompute, and a partial cut lies in floor .. reusable - 1.
ControllerOutcomes(e, reusable) ==
    IF reusable = 0 THEN {Outcome("recompute", 0)}
    ELSE {Outcome("recompute", 0), Outcome("full_reuse", reusable)} \cup
         {Outcome("partial_reuse", k) : k \in {k \in e.floor .. reusable - 1 : k > 0}}

\* The empty set is the ValueError of an unknown mode.
PolicyOutcomes(e, reusable) ==
    CASE e.mode = "controller"        -> ControllerOutcomes(e, reusable)
      [] e.mode = "always_recompute"  -> {Outcome("recompute", 0)}
      [] e.mode = "always_full_reuse" -> {Outcome("full_reuse", reusable)}
      [] OTHER                            -> {}

-----------------------------------------------------------------------------
(* Cache namespaces.                                                       *)

\* "kvmat:" + kind + ":" + name.
Salt(kind, name) == <<"kvmat", kind>> \o name

\* Mutant: one namespace per workload case, whatever the anchor.
CaseSaltOnly(anchor, case) ==
    IF case # None THEN Salt("case", case) ELSE None

AnchorOrCaseSalt(anchor, case) ==
    IF anchor # None THEN Salt("anchor", anchor)
    ELSE IF case # None THEN Salt("case", case)
    ELSE None

AnchorScopedSalt(s) == AnchorOrCaseSalt(AnchorOf(s), s.case)

PartialFallbackSalt(s) ==
    AnchorOrCaseSalt(IF s.scaffold # None THEN s.scaffold ELSE AnchorOf(s), s.case)

\* prefix = primary_anchor_id or workload_case or "request"
Prefix(s) == IF AnchorOf(s) # None THEN AnchorOf(s)
             ELSE IF s.case # None THEN s.case
             ELSE <<"request">>

\* Mutant: the request id is left out.
RequestScopedSaltWithoutId(s) == Salt("recompute", Prefix(s))

RequestScopedSalt(s) == Salt("recompute", Prefix(s) \o s.id)

IsRequestScoped(salt) == salt # None /\ salt[2] = "recompute"

-----------------------------------------------------------------------------
(* Lowering an outcome to a runtime control plan.                          *)

\* Mutants: no alignment, and alignment to the next boundary.
AlignNothing(e, reuse) == reuse
AlignUp(e, reuse) ==
    IF e.block <= 1 THEN reuse ELSE ((reuse + e.block - 1) \div e.block) * e.block

AlignRuntimeReuseTokens(e, reuse) ==
    IF e.block <= 1 THEN reuse ELSE (reuse \div e.block) * e.block

\* What _pick_realizable_runtime_action may answer: re-ranking happens only
\* when a block size is configured, and partial reuse is a candidate only
\* while the aligned cut is a proper, non-empty prefix of the reusable one.
RealizableActions(e, reusable, aligned) ==
    IF e.seam = "old" \/ e.block = 0 THEN {"full_reuse"}
    ELSE {"recompute", "full_reuse"} \cup
         (IF 0 < aligned /\ aligned < reusable THEN {"partial_reuse"} ELSE {})

Plan(observed, effective, salt, tailSalt, reuse, tail, supported, reason) ==
    [observed |-> observed, effective |-> effective, salt |-> salt,
     tailSalt |-> tailSalt, reuse |-> reuse, tail |-> tail,
     supported |-> supported, reason |-> reason]

TailAfter(s, reuse) == IF reuse <= s.prompt THEN s.prompt - reuse ELSE 0

NativeRecomputePlan(s, target) ==
    Plan("recompute", "recompute", RequestScopedSalt(s), None,
         target, TailAfter(s, target), TRUE, "none")

NativeFullReusePlan(s, target) ==
    Plan("full_reuse", "full_reuse", AnchorScopedSalt(s), None,
         target, TailAfter(s, target), TRUE, "none")

\* Mutant: the tail is still counted from the unaligned cut.
PartialPlanWithUnalignedTail(s, target, aligned) ==
    Plan("partial_reuse", "partial_reuse", PartialFallbackSalt(s), RequestScopedSalt(s),
         aligned, TailAfter(s, target), TRUE,
         IF aligned # target THEN "cut_point_realigned" ELSE "none")

AlignedPartialPlan(s, target, aligned) ==
    Plan("partial_reuse", "partial_reuse", PartialFallbackSalt(s), RequestScopedSalt(s),
         aligned, TailAfter(s, aligned), TRUE,
         IF aligned # target THEN "cut_point_realigned" ELSE "none")

RealignedRecomputePlan(s) ==
    Plan("partial_reuse", "recompute", RequestScopedSalt(s), None,
         0, s.prompt, FALSE, "collapses_to_recompute")

FallbackFullReusePlan(e, s, reusable) ==
    Plan("partial_reuse", "full_reuse", PartialFallbackSalt(s), None,
         reusable, TailAfter(s, reusable), FALSE,
         IF e.seam = "old" \/ e.block = 0
         THEN "partial_unsupported" ELSE "dominated_by_full_reuse")

\* Every plan compute_runtime_control may build for one policy outcome.
RuntimePlans(e, s, reusable, outcome) ==
    LET target  == Lesser(outcome.reused, s.prompt)
        aligned == Lesser(Lesser(AlignRuntimeReuseTokens(e, target), reusable), s.prompt)
        lowered(action) ==
            IF action = "partial_reuse" THEN AlignedPartialPlan(s, target, aligned)
            ELSE IF action = "recompute" THEN RealignedRecomputePlan(s)
            ELSE FallbackFullReusePlan(e, s, reusable)
    IN  IF outcome.decision = "recompute" THEN {NativeRecomputePlan(s, target)}
        ELSE IF outcome.decision = "full_reuse" THEN {NativeFullReusePlan(s, target)}
        ELSE {lowered(action) : action \in RealizableActions(e, reusable, aligned)}

Actions == {"recompute", "full_reuse", "partial_reuse"}
Reasons == {"none", "cut_point_realigned", "collapses_to_recompute",
            "dominated_by_full_reuse", "partial_unsupported"}
Salts == {None} \cup Names
Plans == [observed : Actions, effective : Actions, salt : Salts, tailSalt : Salts,
          reuse : Nat, tail : Nat, supported : BOOLEAN, reason : Reasons]
=============================================================================
