------------------------- MODULE ArrivalControlProofs -------------------------
(***************************************************************************)
(* Machine-checked facts about the arrival controller and the prefix cache *)
(* it plans for, for every set of anchors, requests, calls, environments   *)
(* and token sequences.                                                    *)
(***************************************************************************)
EXTENDS ArrivalEngine, SequenceTheorems, TLAPS

-----------------------------------------------------------------------------
(* Lemmas about the pure operators.                                        *)

\* estimate_signals: the turn index is a natural, and whatever the headers
\* claim the reusable prefix is never longer than the prompt.
LEMMA EstimateBounded ==
    ASSUME NEW s, IsSubmission(s), NEW h \in HistoryEntry
    PROVE  /\ TurnIndex(s, h) \in Nat
           /\ EstimateReusablePrefixTokens(s, h) \in Nat
           /\ EstimateReusablePrefixTokens(s, h) <= s.prompt
  BY DEF IsSubmission, HistoryEntry, TurnIndex, EstimateReusablePrefixTokens, Lesser, Absent

\* Integer division by a block size, as the SMT solver knows it.
LEMMA Division ==
    ASSUME NEW b \in Nat, b > 0, NEW k \in Nat
    PROVE  /\ k \div b \in Nat
           /\ k % b \in 0 .. b - 1
           /\ k = b * (k \div b) + (k % b)
<1>1. k % b \in 0 .. b - 1
  BY SMT
<1>2. k \div b \in Int
  BY SMT
<1>3. k = b * (k \div b) + (k % b)
  BY SMT
<1>4. k \div b >= 0
  BY <1>1, <1>2, <1>3, SMT
<1> QED BY <1>1, <1>2, <1>3, <1>4

\* _align_runtime_reuse_tokens: the largest multiple of the block size that
\* does not exceed the cut.
LEMMA AlignRoundsDown ==
    ASSUME NEW e, IsEnvironment(e), NEW k \in Nat
    PROVE  /\ AlignRuntimeReuseTokens(e, k) \in Nat
           /\ AlignRuntimeReuseTokens(e, k) <= k
           /\ e.block > 0 => k < AlignRuntimeReuseTokens(e, k) + e.block
           /\ e.block > 0 => \E q \in 0 .. k : AlignRuntimeReuseTokens(e, k) = q * e.block
<1>1. PICK b \in Nat : b = e.block
  BY DEF IsEnvironment
<1>2. CASE b <= 1
  <2>1. AlignRuntimeReuseTokens(e, k) = k
    BY <1>1, <1>2 DEF AlignRuntimeReuseTokens
  <2>2. b > 0 => k = k * b /\ k \in 0 .. k
    BY <1>2
  <2> QED BY <1>1, <2>1, <2>2
<1>3. CASE b > 1
  <2>1. PICK q \in Nat : q = k \div b
    BY <1>3, Division
  <2>2. AlignRuntimeReuseTokens(e, k) = q * b
    BY <1>1, <1>3, <2>1 DEF AlignRuntimeReuseTokens
  <2>3. q * b <= k /\ k < q * b + b
    BY <1>3, <2>1, Division
  <2>4. q * b \in Nat /\ q <= q * b
    BY <1>3
  <2>5. q \in 0 .. k
    BY <2>3, <2>4
  <2> QED BY <1>1, <2>2, <2>3, <2>4, <2>5
<1> QED BY <1>2, <1>3

\* The outcomes the policy may return fit the estimate they were made from.
LEMMA OutcomeFitsEstimate ==
    ASSUME NEW e, IsEnvironment(e), NEW r \in Nat, NEW o \in PolicyOutcomes(e, r)
    PROVE  /\ o \in Outcomes
           /\ o.decision = "recompute" => o.reused = 0
           /\ o.decision = "full_reuse" => o.reused = r
           /\ o.decision = "partial_reuse" => 0 < o.reused /\ o.reused < r
<1>1. CASE e.mode = "controller"
  <2>1. o \in ControllerOutcomes(e, r)
    BY <1>1 DEF PolicyOutcomes
  <2> QED BY <2>1 DEF ControllerOutcomes, Outcome, Outcomes, Actions, IsEnvironment
<1>2. CASE e.mode = "always_recompute"
  BY <1>2 DEF PolicyOutcomes, Outcome, Outcomes, Actions
<1>3. CASE e.mode = "always_full_reuse"
  BY <1>3 DEF PolicyOutcomes, Outcome, Outcomes, Actions
<1>4. CASE e.mode = "misspelt"
  BY <1>4 DEF PolicyOutcomes
<1> QED BY <1>1, <1>2, <1>3, <1>4 DEF IsEnvironment, PolicyModes

\* An absent header is no anchor.
LEMMA NoneIsNoAnchor == None \notin Anchors
BY NamesAssumption, NoneAssumption

\* Joining words: a salt is a name of two words more, which spells its kind and
\* then the name it was built from.
LEMMA SaltSpells ==
    ASSUME NEW kind \in Words, NEW name \in Names
    PROVE  /\ Salt(kind, name) \in Names
           /\ Len(Salt(kind, name)) = Len(name) + 2
           /\ Salt(kind, name)[2] = kind
           /\ \A i \in 1 .. Len(name) : Salt(kind, name)[i + 2] = name[i]
<1>1. PICK h : h = <<"kvmat", kind>>
  OBVIOUS
<1>2. h \in Seq(Words) /\ Len(h) = 2 /\ h[2] = kind
  BY <1>1, WordsAssumption
<1>3. name \in Seq(Words) /\ Len(name) \in Nat
  BY DEF Names
<1>4. PICK t : t = h \o name
  OBVIOUS
<1>5. /\ t \in Seq(Words) /\ Len(t) = 2 + Len(name)
      /\ \A i \in 1 .. 2 + Len(name) : t[i] = IF i <= 2 THEN h[i] ELSE name[i - 2]
  <2>1. /\ t \in Seq(Words) /\ Len(t) = Len(h) + Len(name)
        /\ \A i \in 1 .. Len(h) + Len(name) : t[i] = IF i <= Len(h) THEN h[i] ELSE name[i - Len(h)]
    BY <1>2, <1>3, <1>4, ConcatProperties, Zenon
  <2> QED BY <1>2, <2>1, Zenon
<1>6. t[2] = kind
  <2>1. 2 \in 1 .. 2 + Len(name)
    BY <1>3
  <2> QED BY <1>2, <1>5, <2>1
<1>7. \A i \in 1 .. Len(name) : t[i + 2] = name[i]
  BY <1>3, <1>5
<1>8. t = Salt(kind, name)
  BY <1>1, <1>4 DEF Salt
<1>9. Len(t) = Len(name) + 2 /\ t \in Names
  BY <1>3, <1>5 DEF Names
<1> QED BY <1>6, <1>7, <1>8, <1>9

IsSalt(salt, kind, name) == kind \in Words /\ name \in Names /\ salt = Salt(kind, name)

\* A salt determines its kind and its name.
LEMMA SaltInjective ==
    ASSUME NEW salt, NEW k, NEW m, IsSalt(salt, k, m), NEW l, NEW n, IsSalt(salt, l, n)
    PROVE  k = l /\ m = n
<1>1. ASSUME NEW kind, NEW name, IsSalt(salt, kind, name)
      PROVE  /\ Len(salt) = Len(name) + 2 /\ salt[2] = kind
             /\ \A i \in 1 .. Len(name) : salt[i + 2] = name[i]
  <2>1. kind \in Words /\ name \in Names /\ salt = Salt(kind, name)
    BY <1>1 DEF IsSalt
  <2>2. /\ Len(Salt(kind, name)) = Len(name) + 2 /\ Salt(kind, name)[2] = kind
        /\ \A i \in 1 .. Len(name) : Salt(kind, name)[i + 2] = name[i]
    BY <2>1, SaltSpells
  <2> QED BY <2>1, <2>2, Zenon
<1>2. /\ Len(salt) = Len(m) + 2 /\ salt[2] = k
      /\ \A i \in 1 .. Len(m) : salt[i + 2] = m[i]
  BY <1>1, Zenon
<1>3. /\ Len(salt) = Len(n) + 2 /\ salt[2] = l
      /\ \A i \in 1 .. Len(n) : salt[i + 2] = n[i]
  BY <1>1, Zenon
<1>4. m \in Seq(Words) /\ n \in Seq(Words) /\ Len(m) \in Nat /\ Len(n) \in Nat
  BY DEF IsSalt, Names
<1>5. Len(m) = Len(n)
  BY <1>2, <1>3, <1>4
<1>6. \A i \in 1 .. Len(m) : m[i] = n[i]
  BY <1>2, <1>3, <1>5
<1>7. m = n
  BY <1>4, <1>5, <1>6, SeqEqual
<1> QED BY <1>2, <1>3, <1>7

\* Two joins that come out the same: with one prefix the ends are the same, and
\* in any case the longer end ends in the shorter.
LEMMA JoinedEnds ==
    ASSUME NEW a \in Names, NEW b \in Names, NEW m \in Names, NEW n \in Names,
           a \o m = b \o n
    PROVE  /\ a = b => m = n
           /\ EndsIn(m, n) \/ EndsIn(n, m)
<1>1. /\ a \in Seq(Words) /\ b \in Seq(Words) /\ m \in Seq(Words) /\ n \in Seq(Words)
      /\ Len(a) \in Nat /\ Len(b) \in Nat /\ Len(m) \in Nat /\ Len(n) \in Nat
  BY DEF Names
<1>2. a = b => m = n
  BY <1>1, ConcatSimplifications
<1>3. ASSUME NEW x \in Seq(Words), NEW y \in Seq(Words), NEW u \in Seq(Words),
             NEW v \in Seq(Words), x \o u = y \o v, Len(v) <= Len(u)
      PROVE  EndsIn(u, v)
  <2>1. PICK p \in Nat, q \in Nat, k \in Nat, l \in Nat :
           p = Len(x) /\ q = Len(y) /\ k = Len(u) /\ l = Len(v)
    OBVIOUS
  <2>2. /\ Len(x \o u) = p + k
        /\ \A i \in 1 .. p + k : (x \o u)[i] = IF i <= p THEN x[i] ELSE u[i - p]
    BY <2>1, ConcatProperties
  <2>3. /\ Len(y \o v) = q + l
        /\ \A i \in 1 .. q + l : (y \o v)[i] = IF i <= q THEN y[i] ELSE v[i - q]
    BY <2>1, ConcatProperties
  <2>4. p + k = q + l /\ l <= k
    BY <1>3, <2>1, <2>2, <2>3
  <2>5. PICK o \in Nat : k = o + l /\ q = p + o
    <3>1. k - l \in Nat /\ k = (k - l) + l /\ q = p + (k - l)
      BY <2>4
    <3> QED BY <3>1
  <2>6. ASSUME NEW i \in 1 .. l PROVE u[o + i] = v[i]
    <3>1. PICK j \in Nat : j = q + i
      OBVIOUS
    <3>2. /\ j \in 1 .. p + k /\ j \in 1 .. q + l
          /\ ~(j <= p) /\ ~(j <= q) /\ j - p = o + i /\ j - q = i
      BY <2>5, <3>1
    <3>3. (x \o u)[j] = u[o + i]
      BY <2>2, <3>2
    <3>4. (y \o v)[j] = v[i]
      BY <2>3, <3>2
    <3> QED BY <1>3, <3>3, <3>4
  <2>7. PICK w : w = SubSeq(u, o + 1, k)
    OBVIOUS
  <2>8. \A i \in o + 1 .. k : u[i] \in Words
    <3> TAKE i \in o + 1 .. k
    <3>1. i \in 1 .. k
      BY <2>5
    <3> QED BY <2>1, <3>1, ElementOfSeq
  <2>9. /\ w \in Seq(Words)
        /\ Len(w) = IF o + 1 <= k THEN k - (o + 1) + 1 ELSE 0
        /\ \A i \in 1 .. k - (o + 1) + 1 : w[i] = u[(o + 1) + i - 1]
    BY <2>7, <2>8, SubSeqProperties
  <2>10. Len(w) = l
    BY <2>5, <2>9
  <2>11. \A i \in 1 .. l : w[i] = u[o + i]
    <3> TAKE i \in 1 .. l
    <3>1. i \in 1 .. k - (o + 1) + 1 /\ (o + 1) + i - 1 = o + i
      BY <2>5
    <3> QED BY <2>9, <3>1
  <2>12. w = v
    BY <2>1, <2>6, <2>9, <2>10, <2>11, SeqEqual
  <2>13. Len(u) - Len(v) + 1 = o + 1
    BY <2>1, <2>5
  <2> QED BY <1>3, <2>1, <2>7, <2>12, <2>13 DEF EndsIn
<1>4. Len(n) <= Len(m) \/ Len(m) <= Len(n)
  BY <1>1
<1>5. Len(n) <= Len(m) => EndsIn(m, n)
  BY <1>1, <1>3, Zenon
<1>6. Len(m) <= Len(n) => EndsIn(n, m)
  BY <1>1, <1>3, Zenon
<1> QED BY <1>2, <1>4, <1>5, <1>6

\* What a submission is named by are names.
LEMMA SubmissionNames ==
    ASSUME NEW s, IsSubmission(s)
    PROVE  /\ s.id \in Names /\ s.id # <<>>
           /\ AnchorOf(s) \in Names \cup {None}
           /\ s.scaffold \in Names \cup {None}
           /\ s.case \in Names \cup {None}
           /\ Prefix(s) \in Names
           /\ Prefix(s) \o s.id \in Names
<1>1. /\ s.id \in Names /\ s.id # <<>> /\ AnchorOf(s) \in Names \cup {None}
      /\ s.scaffold \in Names \cup {None} /\ s.case \in Names \cup {None}
  BY NamesAssumption DEF IsSubmission, AnchorOf
<1>2. <<"request">> \in Names
  BY WordsAssumption DEF Names
<1>3. Prefix(s) \in Names
  BY <1>1, <1>2 DEF Prefix
<1>4. Prefix(s) \o s.id \in Names
  BY <1>1, <1>3, ConcatProperties DEF Names
<1> QED BY <1>1, <1>3, <1>4

\* The namespaces of a submission are well-formed, its own is request-scoped
\* and the shared ones never are.
LEMMA SaltsWellFormed ==
    ASSUME NEW s, IsSubmission(s)
    PROVE  /\ RequestScopedSalt(s) \in Salts
           /\ AnchorScopedSalt(s) \in Salts
           /\ PartialFallbackSalt(s) \in Salts
           /\ IsRequestScoped(RequestScopedSalt(s))
           /\ ~IsRequestScoped(AnchorScopedSalt(s))
           /\ ~IsRequestScoped(PartialFallbackSalt(s))
<1>1. ASSUME NEW kind \in Words, NEW name \in Names
      PROVE  /\ Salt(kind, name) \in Salts
             /\ IsRequestScoped(Salt(kind, name)) <=> kind = "recompute"
  <2>1. Salt(kind, name) \in Names /\ Salt(kind, name)[2] = kind
    BY SaltSpells
  <2> QED BY <2>1, NoneAssumption DEF Salts, IsRequestScoped
<1>2. RequestScopedSalt(s) \in Salts /\ IsRequestScoped(RequestScopedSalt(s))
  <2>1. "recompute" \in Words /\ Prefix(s) \o s.id \in Names
    BY WordsAssumption, SubmissionNames
  <2> QED BY <1>1, <2>1, Zenon DEF RequestScopedSalt
<1>3. ASSUME NEW a \in Names \cup {None}
      PROVE  /\ AnchorOrCaseSalt(a, s.case) \in Salts
             /\ ~IsRequestScoped(AnchorOrCaseSalt(a, s.case))
  <2>1. "anchor" \in Words /\ "case" \in Words /\ "anchor" # "recompute" /\ "case" # "recompute"
    BY WordsAssumption
  <2>2. CASE a # None
    BY <1>1, <2>1, <2>2 DEF AnchorOrCaseSalt
  <2>3. CASE a = None /\ s.case # None
    BY <1>1, <2>1, <2>3, SubmissionNames DEF AnchorOrCaseSalt
  <2>4. CASE a = None /\ s.case = None
    BY <2>4 DEF AnchorOrCaseSalt, IsRequestScoped, Salts
  <2> QED BY <2>2, <2>3, <2>4
<1>4. AnchorScopedSalt(s) \in Salts /\ ~IsRequestScoped(AnchorScopedSalt(s))
  BY <1>3, SubmissionNames DEF AnchorScopedSalt
<1>5. PartialFallbackSalt(s) \in Salts /\ ~IsRequestScoped(PartialFallbackSalt(s))
  BY <1>3, SubmissionNames DEF PartialFallbackSalt
<1> QED BY <1>2, <1>4, <1>5

\* compute_runtime_control: whatever the environment, the plan lowered from an
\* admissible outcome splits the prompt, is realizable and tells the truth.
LEMMA PlanFits ==
    ASSUME NEW e, IsEnvironment(e), NEW s, IsSubmission(s),
           NEW r \in Nat, r <= s.prompt,
           NEW o \in PolicyOutcomes(e, r), NEW p \in RuntimePlans(e, s, r, o)
    PROVE  /\ p \in Plans
           /\ SplitsPrompt(p, s, r)
           /\ Realizable(e, p, s, r)
           /\ Truthful(e, p, o)
<1>1. /\ o \in Outcomes
      /\ o.decision = "recompute" => o.reused = 0
      /\ o.decision = "full_reuse" => o.reused = r
      /\ o.decision = "partial_reuse" => 0 < o.reused /\ o.reused < r
  BY OutcomeFitsEstimate
<1>2. s.prompt \in Nat /\ o.reused \in Nat
  BY <1>1 DEF IsSubmission, Outcomes
<1>3. Lesser(o.reused, s.prompt) = o.reused
  BY <1>1, <1>2 DEF Lesser, Outcomes, Actions
<1> USE SaltsWellFormed DEF Plan, Plans, Actions, Reasons, TailAfter,
                            SplitsPrompt, Realizable, Truthful
<1>4. CASE o.decision = "recompute"
  <2>1. p = NativeRecomputePlan(s, 0)
    BY <1>1, <1>3, <1>4 DEF RuntimePlans
  <2> QED BY <1>2, <1>4, <2>1 DEF NativeRecomputePlan, RunsRecompute, Salts
<1>5. CASE o.decision = "full_reuse"
  <2>1. p = NativeFullReusePlan(s, r)
    BY <1>1, <1>3, <1>5 DEF RuntimePlans
  <2> QED BY <1>2, <1>5, <2>1 DEF NativeFullReusePlan, RunsFullReuse, Salts
<1>6. CASE o.decision = "partial_reuse"
  <2> DEFINE k == AlignRuntimeReuseTokens(e, o.reused)
  <2>1. /\ k \in Nat /\ k <= o.reused
        /\ e.block > 0 => o.reused < k + e.block
        /\ e.block > 0 => \E q \in 0 .. o.reused : k = q * e.block
    BY <1>2, AlignRoundsDown
  <2>2. Lesser(Lesser(k, r), s.prompt) = k
    BY <1>1, <1>2, <1>6, <2>1 DEF Lesser
  <2> HIDE DEF k
  <2>3. CASE p = AlignedPartialPlan(s, o.reused, k) /\ 0 < k /\ k < r /\ e.block # 0
    <3>1. e.block \in Nat /\ e.block > 0
      BY <2>3 DEF IsEnvironment
    <3>2. PICK q \in 0 .. o.reused : k = q * e.block
      BY <2>1, <3>1
    <3>3. q <= q * e.block
      BY <1>2, <3>1, <3>2
    <3>4. q \in 0 .. k
      BY <1>2, <3>2, <3>3
    <3> QED BY <1>2, <1>6, <2>1, <2>3, <3>1, <3>2, <3>4
            DEF AlignedPartialPlan, RunsPartialReuse, Salts
  <2>4. CASE p = RealignedRecomputePlan(s)
    BY <1>2, <1>6, <2>4 DEF RealignedRecomputePlan, RunsRecompute, Salts
  <2>5. CASE p = FallbackFullReusePlan(e, s, r)
    BY <1>2, <1>6, <2>5 DEF FallbackFullReusePlan, RunsFullReuse, Salts
  <2> QED BY <1>3, <1>6, <2>2, <2>3, <2>4, <2>5 DEF RuntimePlans, RealizableActions, k
<1> QED BY <1>1, <1>4, <1>5, <1>6 DEF Outcomes

\* The locals of a call that read (n, h) are well-typed and bounded by its prompt.
LEMMA LocalsFit ==
    ASSUME NEW s \in Submissions, NEW n \in Nat, NEW h \in HistoryEntry
    PROVE  /\ Locals(s, n, h) \in CallLocals
           /\ Locals(s, n, h).reusable <= s.prompt
<1>1. IsSubmission(s)
  BY SubmissionsAssumption
<1>2. DefaultReuseConfidence(n, TurnIndex(s, h), EstimateReusablePrefixTokens(s, h))
        \in {0, 35, 70, 95}
  BY DEF DefaultReuseConfidence
<1> QED BY <1>1, <1>2, EstimateBounded DEF Locals, CallLocals

-----------------------------------------------------------------------------
(* Type correctness and the plan invariants.                               *)

\* A call's estimate never exceeds its own prompt.
EstimatesFit == \A c \in Arrived : local[c].reusable <= local[c].sub.prompt

PlanInv == TypeOK /\ EstimatesFit /\ PlanAccounting /\ PlanRealizable /\ TruthfulSupport

LEMMA PlanInvInit == Init => PlanInv
<1> SUFFICES ASSUME Init PROVE PlanInv
  OBVIOUS
<1>1. Arrived = {} /\ Planned = {} /\ logged = {}
  BY DEF Init, Arrived, Planned
<1>2. NoHistory \in HistoryEntry
  BY DEF NoHistory, HistoryEntry
<1> QED BY <1>1, <1>2 DEF Init, PlanInv, TypeOK, Phases, EstimatesFit,
                          PlanAccounting, PlanRealizable, TruthfulSupport

LEMMA PlanInvNext == PlanInv /\ [Next]_vars => PlanInv'
<1> SUFFICES ASSUME PlanInv, [Next]_vars PROVE PlanInv'
  OBVIOUS
<1> USE DEF PlanInv, TypeOK, EstimatesFit, PlanAccounting, PlanRealizable,
            TruthfulSupport, Arrived, Planned, Answered, Phases
<1>1. ASSUME NEW c \in Calls, NEW s \in Submissions, Arrive(c, s) PROVE PlanInv'
  <2>1. PICK n \in Nat, h \in HistoryEntry : local' = [local EXCEPT ![c] = Locals(s, n, h)]
    <3>1. NoHistory \in HistoryEntry
      BY DEF NoHistory, HistoryEntry
    <3>2. AnchorOf(s) = None \/ AnchorOf(s) \in Anchors
      BY SubmissionsAssumption DEF IsSubmission, AnchorOf
    <3> QED BY <1>1, <3>1, <3>2 DEF Arrive
  <2>2. Locals(s, n, h) \in CallLocals /\ Locals(s, n, h).reusable <= s.prompt
        /\ Locals(s, n, h).sub = s
    BY LocalsFit DEF Locals
  <2>3. anchorSeen' \in [Anchors -> Nat]
    BY <1>1 DEF Arrive
  <2> QED BY <1>1, <2>1, <2>2, <2>3 DEF Arrive
<1>2. ASSUME NEW c \in Calls, NoteHistory(c) PROVE PlanInv'
  <2>1. local[c] \in CallLocals /\ IsSubmission(local[c].sub)
    BY <1>2, SubmissionsAssumption DEF NoteHistory, CallLocals
  <2>2. history' \in [Anchors -> HistoryEntry]
    BY <1>2, <2>1 DEF NoteHistory, CallLocals, IsSubmission, HistoryEntry
  <2> QED BY <1>2, <2>2 DEF NoteHistory
<1>3. ASSUME NEW c \in Calls, Decide(c) PROVE PlanInv'
  <2>1. /\ local[c] \in CallLocals
        /\ local[c].reusable \in Nat /\ local[c].reusable <= local[c].sub.prompt
        /\ IsSubmission(local[c].sub) /\ IsEnvironment(env)
    BY <1>3, SubmissionsAssumption, EnvironmentsAssumption DEF Decide, CallLocals
  <2>2. PICK o \in PolicyOutcomes(env, local[c].reusable) :
          \E p \in RuntimePlans(env, local[c].sub, local[c].reusable, o) :
             /\ local' = [local EXCEPT ![c].outcome = o]
             /\ plan' = [plan EXCEPT ![c] = p]
    BY <1>3 DEF Decide
  <2>3. PICK p \in RuntimePlans(env, local[c].sub, local[c].reusable, o) :
             /\ local' = [local EXCEPT ![c].outcome = o]
             /\ plan' = [plan EXCEPT ![c] = p]
    BY <2>2
  <2>4. /\ p \in Plans
        /\ SplitsPrompt(p, local[c].sub, local[c].reusable)
        /\ Realizable(env, p, local[c].sub, local[c].reusable)
        /\ Truthful(env, p, o)
    BY <2>1, PlanFits
  <2>5. o \in Outcomes
    BY <2>1, OutcomeFitsEstimate
  <2>6. /\ local'[c] \in CallLocals /\ local'[c].outcome = o
        /\ local'[c].sub = local[c].sub /\ local'[c].reusable = local[c].reusable
        /\ \A d \in Calls \ {c} : local'[d] = local[d]
        /\ local' \in [Calls -> CallLocals \cup {NotCalled}]
    BY <2>1, <2>3, <2>5 DEF CallLocals
  <2>7. plan'[c] = p /\ \A d \in Calls \ {c} : plan'[d] = plan[d]
    BY <2>3
  <2>8. plan' \in [Calls -> Plans \cup {None}]
    BY <2>3, <2>4
  <2> QED BY <1>3, <2>1, <2>4, <2>5, <2>6, <2>7, <2>8 DEF Decide
<1>4. ASSUME NEW c \in Calls, Reject(c) \/ Refuse(c) PROVE PlanInv'
  BY <1>4 DEF Reject, Refuse
<1>5. ASSUME NEW c \in Calls, Answer(c) PROVE PlanInv'
  BY <1>5 DEF Answer
<1>6. ASSUME NEW c \in Calls, LogFails(c) PROVE PlanInv'
  BY <1>6 DEF LogFails
<1>7. CASE UNCHANGED vars
  BY <1>7 DEF vars
<1> QED BY <1>1, <1>2, <1>3, <1>4, <1>5, <1>6, <1>7 DEF Next

\* The controller's maps, locals and plans keep their types in every environment.
THEOREM TypeCorrect == Spec => []TypeOK
<1>1. PlanInv => TypeOK
  BY DEF PlanInv
<1> QED BY PlanInvInit, PlanInvNext, <1>1, PTL DEF Spec

\* Every plan splits its prompt and reuses no more than was estimated.
THEOREM PlansAccount == Spec => []PlanAccounting
<1>1. PlanInv => PlanAccounting
  BY DEF PlanInv
<1> QED BY PlanInvInit, PlanInvNext, <1>1, PTL DEF Spec

\* Every plan's namespaces and boundary realize its effective action.
THEOREM PlansRealizable == Spec => []PlanRealizable
<1>1. PlanInv => PlanRealizable
  BY DEF PlanInv
<1> QED BY PlanInvInit, PlanInvNext, <1>1, PTL DEF Spec

\* Every plan reports its support and its realignment truthfully.
THEOREM PlansTruthful == Spec => []TruthfulSupport
<1>1. PlanInv => TruthfulSupport
  BY DEF PlanInv
<1> QED BY PlanInvInit, PlanInvNext, <1>1, PTL DEF Spec

\* A request-scoped namespace is joined from its plan's own prefix and id, so
\* two requests that the join tells apart never share one.
THEOREM NamespacesPrivate == Spec => []PrivateNamespaces
<1>1. PlanInv => PrivateNamespaces
  <2> SUFFICES ASSUME PlanInv,
                      NEW c \in Planned, NEW d \in Planned,
                      ToldApart(local[c].sub, local[d].sub),
                      NEW salt \in {plan[c].salt, plan[c].tailSalt},
                      IsRequestScoped(salt),
                      salt \in {plan[d].salt, plan[d].tailSalt}
               PROVE  FALSE
    BY DEF PrivateNamespaces
  <2>1. ASSUME NEW x \in Planned, salt \in {plan[x].salt, plan[x].tailSalt}
        PROVE  salt = RequestScopedSalt(local[x].sub)
    <3>1. ~IsRequestScoped(None)
      BY DEF IsRequestScoped
    <3> QED BY <2>1, <3>1 DEF PlanInv, PlanRealizable, Realizable, RunsRecompute,
                              RunsFullReuse, RunsPartialReuse
  <2>2. ASSUME NEW x \in Planned PROVE IsSubmission(local[x].sub)
    BY SubmissionsAssumption DEF PlanInv, TypeOK, Planned, Arrived, CallLocals
  <2>3. PICK s, t : s = local[c].sub /\ t = local[d].sub
    OBVIOUS
  <2>4. /\ Prefix(s) \in Names /\ s.id \in Names /\ Prefix(s) \o s.id \in Names
        /\ Prefix(t) \in Names /\ t.id \in Names /\ Prefix(t) \o t.id \in Names
    BY <2>2, <2>3, SubmissionNames
  <2>5. salt = RequestScopedSalt(s) /\ salt = RequestScopedSalt(t)
    BY <2>1, <2>3
  <2>6. Prefix(s) \o s.id = Prefix(t) \o t.id
    <3>1. PICK m, n : m = Prefix(s) \o s.id /\ n = Prefix(t) \o t.id
      OBVIOUS
    <3>2. IsSalt(salt, "recompute", m) /\ IsSalt(salt, "recompute", n)
      BY <2>4, <2>5, <3>1, WordsAssumption DEF RequestScopedSalt, IsSalt
    <3>3. m = n
      BY <3>2, SaltInjective
    <3> QED BY <3>1, <3>3
  <2>7. /\ Prefix(s) = Prefix(t) => s.id = t.id
        /\ EndsIn(s.id, t.id) \/ EndsIn(t.id, s.id)
    BY <2>4, <2>6, JoinedEnds
  <2> QED BY <2>3, <2>7 DEF ToldApart
<1> QED BY PlanInvInit, PlanInvNext, <1>1, PTL DEF Spec

-----------------------------------------------------------------------------
(* The shared maps under interleaved lock sections.                        *)

\* Whatever the maps hold for an anchor was noted by a call that had arrived on it.
HistoryHasSource == \A a \in Anchors : history[a] # NoHistory =>
    \E d \in Noted : AnchorOf(local[d].sub) = a /\ history[a] = NoteOf(d)

SharedInv == SeenRanksExact /\ HistoryHasSource /\ EstimateHasSource /\ TurnsNeverAhead

LEMMA SharedInvInit == Init => SharedInv
<1> SUFFICES ASSUME Init PROVE SharedInv
  OBVIOUS
<1>1. Arrived = {}
  BY DEF Init, Arrived
<1> QED BY <1>1 DEF Init, SharedInv, SeenRanksExact, ArrivalsOn, HistoryHasSource,
                    EstimateHasSource, TurnsNeverAhead, NoHistory

\* A step that leaves the two maps and what each call read alone, and takes no
\* call back before its second lock section, keeps the shared invariant.
LEMMA SharedInvFrame ==
    ASSUME SharedInv, TypeOK, UNCHANGED <<anchorSeen, history>>,
           Arrived' = Arrived, Noted' = Noted,
           \A c \in Arrived : /\ local'[c].sub = local[c].sub
                             /\ local'[c].seen = local[c].seen
                             /\ local'[c].previous = local[c].previous
                             /\ local'[c].turn = local[c].turn
    PROVE  SharedInv'
<1>1. Noted \subseteq Arrived
  BY DEF Noted, Arrived
<1>2. \A c \in Noted : NoteOf(c)' = NoteOf(c)
  BY <1>1 DEF NoteOf
<1>3. \A a \in Anchors : ArrivalsOn(a)' = ArrivalsOn(a)
  BY DEF ArrivalsOn
<1>4. \A a : ArrivalsOn(a) \subseteq Arrived
  BY DEF ArrivalsOn
<1>5. SeenRanksExact'
  BY <1>3, <1>4 DEF SharedInv, SeenRanksExact
<1>6. HistoryHasSource'
  BY <1>1, <1>2 DEF SharedInv, HistoryHasSource
<1>7. EstimateHasSource'
  BY <1>1, <1>2 DEF SharedInv, EstimateHasSource
<1>8. TurnsNeverAhead'
  BY <1>3, <1>4 DEF SharedInv, TurnsNeverAhead
<1> QED BY <1>5, <1>6, <1>7, <1>8 DEF SharedInv

LEMMA SharedInvArrive ==
    ASSUME SharedInv, TypeOK, NEW c \in Calls, NEW s \in Submissions, Arrive(c, s)
    PROVE  SharedInv'
<1>1. PICK b : b = AnchorOf(s)
  OBVIOUS
<1>2. b = None \/ b \in Anchors
  BY <1>1, SubmissionsAssumption DEF IsSubmission, AnchorOf
<1>3. /\ c \notin Arrived /\ Arrived' = Arrived \cup {c}
      /\ c \notin Noted /\ Noted' = Noted /\ Noted \subseteq Arrived
      /\ history' = history
  BY DEF Arrive, Arrived, Noted, TypeOK, Phases
<1>4. \A d \in Arrived : local'[d] = local[d]
  BY <1>3 DEF Arrive, TypeOK, Arrived
<1>5. \A d \in Noted : NoteOf(d)' = NoteOf(d)
  BY <1>3, <1>4 DEF NoteOf
<1>6. CASE b = None
  <2>1. local'[c].sub = s /\ local'[c].previous = NoHistory /\ anchorSeen' = anchorSeen
    BY <1>1, <1>6 DEF Arrive, TypeOK, Locals
  <2>2. \A a \in Anchors : ArrivalsOn(a)' = ArrivalsOn(a)
    BY <1>1, <1>3, <1>4, <1>6, <2>1, NoneIsNoAnchor DEF ArrivalsOn
  <2>3. SeenRanksExact'
    BY <1>4, <2>1, <2>2 DEF SharedInv, SeenRanksExact, ArrivalsOn
  <2>4. HistoryHasSource'
    BY <1>3, <1>4, <1>5 DEF SharedInv, HistoryHasSource
  <2>5. EstimateHasSource'
    BY <1>3, <1>4, <1>5, <2>1 DEF SharedInv, EstimateHasSource
  <2>6. TurnsNeverAhead'
    BY <1>3, <1>4, <2>1, <2>2 DEF SharedInv, TurnsNeverAhead, ArrivalsOn
  <2> QED BY <2>3, <2>4, <2>5, <2>6 DEF SharedInv
<1>7. CASE b \in Anchors
  <2>1. /\ local'[c] = Locals(s, anchorSeen[b], history[b])
        /\ anchorSeen' = [anchorSeen EXCEPT ![b] = @ + 1]
    BY <1>1, <1>7, NoneIsNoAnchor DEF Arrive, TypeOK
  <2>2. /\ local'[c].sub = s /\ local'[c].seen = anchorSeen[b]
        /\ local'[c].previous = history[b] /\ local'[c].turn = TurnIndex(s, history[b])
    BY <2>1 DEF Locals
  <2>3. /\ \A a \in Anchors \ {b} : ArrivalsOn(a)' = ArrivalsOn(a)
        /\ ArrivalsOn(b)' = ArrivalsOn(b) \cup {c}
        /\ c \notin ArrivalsOn(b)
        /\ \A a : ArrivalsOn(a) \subseteq Arrived
    BY <1>1, <1>3, <1>4, <2>2 DEF ArrivalsOn
  <2>4. /\ anchorSeen[b] \in Nat /\ anchorSeen'[b] = anchorSeen[b] + 1
        /\ \A a \in Anchors \ {b} : anchorSeen'[a] = anchorSeen[a]
    BY <1>7, <2>1 DEF TypeOK
  <2>5. \A d \in Arrived : local[d].seen \in Nat /\ local[d].turn \in Nat
    BY DEF TypeOK, CallLocals
  <2>6. SeenRanksExact'
    <3> SUFFICES ASSUME NEW a \in Anchors
        PROVE  /\ \A x, y \in ArrivalsOn(a)' : local'[x].seen = local'[y].seen => x = y
               /\ \A x \in ArrivalsOn(a)' : local'[x].seen < anchorSeen'[a]
               /\ \A k \in 0 .. anchorSeen'[a] - 1 :
                     \E x \in ArrivalsOn(a)' : local'[x].seen = k
      BY DEF SeenRanksExact
    <3>1. CASE a # b
      BY <1>4, <2>3, <2>4, <3>1 DEF SharedInv, SeenRanksExact
    <3>2. CASE a = b
      <4>1. \A x \in ArrivalsOn(b) : local'[x].seen = local[x].seen
                                     /\ local[x].seen < anchorSeen[b]
        BY <1>4, <1>7, <2>3 DEF SharedInv, SeenRanksExact
      <4>2. \A x, y \in ArrivalsOn(b)' : local'[x].seen = local'[y].seen => x = y
        BY <1>7, <2>2, <2>3, <2>4, <2>5, <4>1 DEF SharedInv, SeenRanksExact
      <4>3. \A x \in ArrivalsOn(b)' : local'[x].seen < anchorSeen'[b]
        BY <2>2, <2>3, <2>4, <2>5, <4>1
      <4>4. \A k \in 0 .. anchorSeen'[b] - 1 : \E x \in ArrivalsOn(b)' : local'[x].seen = k
        <5> TAKE k \in 0 .. anchorSeen'[b] - 1
        <5>1. CASE k = anchorSeen[b]
          BY <2>2, <2>3, <5>1
        <5>2. CASE k \in 0 .. anchorSeen[b] - 1
          BY <1>7, <2>3, <4>1, <5>2 DEF SharedInv, SeenRanksExact
        <5> QED BY <2>4, <5>1, <5>2
      <4> QED BY <3>2, <4>2, <4>3, <4>4
    <3> QED BY <3>1, <3>2
  <2>7. HistoryHasSource'
    BY <1>3, <1>4, <1>5 DEF SharedInv, HistoryHasSource
  <2>8. EstimateHasSource'
    <3> SUFFICES ASSUME NEW x \in Arrived', local'[x].previous # NoHistory
        PROVE  \E d \in Noted' : /\ AnchorOf(local'[d].sub) = AnchorOf(local'[x].sub)
                                  /\ local'[d].seen < local'[x].seen
                                  /\ local'[x].previous = NoteOf(d)'
      BY DEF EstimateHasSource
    <3>1. CASE x \in Arrived
      BY <1>3, <1>4, <1>5, <3>1 DEF SharedInv, EstimateHasSource
    <3>2. CASE x = c
      <4>1. PICK d \in Noted : AnchorOf(local[d].sub) = b /\ history[b] = NoteOf(d)
        BY <1>7, <2>2, <3>2 DEF SharedInv, HistoryHasSource
      <4>2. local[d].seen < anchorSeen[b]
        BY <1>3, <1>7, <4>1 DEF SharedInv, SeenRanksExact, ArrivalsOn
      <4> QED BY <1>1, <1>3, <1>4, <1>5, <2>2, <3>2, <4>1, <4>2
    <3> QED BY <1>3, <3>1, <3>2
  <2>9. TurnsNeverAhead'
    <3> SUFFICES ASSUME NEW a \in Anchors, Headerless(a)
        PROVE  /\ history'[a].turn < anchorSeen'[a]
               /\ \A x \in ArrivalsOn(a)' : local'[x].turn <= local'[x].seen
      BY DEF TurnsNeverAhead
    <3>1. /\ history[a].turn < anchorSeen[a] /\ history[a].turn \in Nat \cup {-1}
          /\ \A x \in ArrivalsOn(a) : local[x].turn <= local[x].seen
          /\ anchorSeen[a] \in Nat
      BY DEF SharedInv, TurnsNeverAhead, TypeOK, HistoryEntry
    <3>2. history'[a].turn < anchorSeen'[a]
      BY <1>3, <2>4, <3>1
    <3>3. a = b => local'[c].turn = history[a].turn + 1
      BY <1>1, <2>2 DEF Headerless, TurnIndex
    <3>4. \A x \in ArrivalsOn(a)' : local'[x].turn <= local'[x].seen
      BY <1>4, <2>2, <2>3, <3>1, <3>3
    <3> QED BY <3>2, <3>4
  <2> QED BY <2>6, <2>7, <2>8, <2>9 DEF SharedInv
<1> QED BY <1>2, <1>6, <1>7

LEMMA SharedInvNote ==
    ASSUME SharedInv, TypeOK, NEW c \in Calls, NoteHistory(c)
    PROVE  SharedInv'
<1>1. /\ c \in Arrived /\ Arrived' = Arrived
      /\ Noted' = Noted \cup {c} /\ Noted \subseteq Arrived
      /\ UNCHANGED <<anchorSeen, local>>
  BY DEF NoteHistory, Arrived, Noted, TypeOK, Phases
<1>2. \A d \in Arrived : NoteOf(d)' = NoteOf(d)
  BY <1>1 DEF NoteOf
<1>3. \A a : ArrivalsOn(a)' = ArrivalsOn(a)
  BY <1>1 DEF ArrivalsOn
<1>4. \A a \in Anchors :
        history'[a] = IF a = AnchorOf(local[c].sub) THEN NoteOf(c) ELSE history[a]
  BY NoneIsNoAnchor DEF NoteHistory, NoteOf, TypeOK
<1>5. SeenRanksExact'
  BY <1>1, <1>3 DEF SharedInv, SeenRanksExact
<1>6. HistoryHasSource'
  BY <1>1, <1>2, <1>4 DEF SharedInv, HistoryHasSource
<1>7. EstimateHasSource'
  BY <1>1, <1>2 DEF SharedInv, EstimateHasSource
<1>8. TurnsNeverAhead'
  <2> SUFFICES ASSUME NEW a \in Anchors, Headerless(a)
      PROVE  history'[a].turn < anchorSeen[a]
    BY <1>1, <1>3 DEF SharedInv, TurnsNeverAhead
  <2>1. CASE a = AnchorOf(local[c].sub)
    <3>1. c \in ArrivalsOn(a)
      BY <1>1, <2>1 DEF ArrivalsOn
    <3>2. local[c].turn <= local[c].seen /\ local[c].seen < anchorSeen[a]
      BY <3>1 DEF SharedInv, TurnsNeverAhead, SeenRanksExact
    <3>3. local[c].turn \in Nat /\ local[c].seen \in Nat /\ anchorSeen[a] \in Nat
      BY <1>1 DEF TypeOK, CallLocals
    <3> QED BY <1>4, <2>1, <3>2, <3>3 DEF NoteOf
  <2>2. CASE a # AnchorOf(local[c].sub)
    BY <1>4, <2>2 DEF SharedInv, TurnsNeverAhead
  <2> QED BY <2>1, <2>2
<1> QED BY <1>5, <1>6, <1>7, <1>8 DEF SharedInv

LEMMA SharedInvNext == TypeOK /\ SharedInv /\ [Next]_vars => SharedInv'
<1> SUFFICES ASSUME TypeOK, SharedInv, [Next]_vars PROVE SharedInv'
  OBVIOUS
<1>1. ASSUME NEW c \in Calls, NEW s \in Submissions, Arrive(c, s) PROVE SharedInv'
  BY <1>1, SharedInvArrive
<1>2. ASSUME NEW c \in Calls, NoteHistory(c) PROVE SharedInv'
  BY <1>2, SharedInvNote
<1>3. ASSUME NEW c \in Calls, Decide(c) PROVE SharedInv'
  <2>1. PICK o : local' = [local EXCEPT ![c].outcome = o]
    BY <1>3 DEF Decide
  <2>2. /\ UNCHANGED <<anchorSeen, history>>
        /\ Arrived' = Arrived /\ Noted' = Noted
    BY <1>3 DEF Decide, Arrived, Noted, TypeOK, Phases
  <2>3. \A d \in Arrived : /\ local'[d].sub = local[d].sub
                           /\ local'[d].seen = local[d].seen
                           /\ local'[d].previous = local[d].previous
                           /\ local'[d].turn = local[d].turn
    BY <2>1 DEF TypeOK, Arrived, CallLocals
  <2> QED BY <2>2, <2>3, SharedInvFrame
<1>4. ASSUME NEW c \in Calls, Reject(c) \/ Refuse(c) \/ Answer(c) \/ LogFails(c) PROVE SharedInv'
  <2>1. /\ UNCHANGED <<anchorSeen, history, local>>
        /\ Arrived' = Arrived /\ Noted' = Noted
    BY <1>4 DEF Reject, Refuse, Answer, LogFails, Arrived, Noted, TypeOK, Phases
  <2> QED BY <2>1, SharedInvFrame
<1>5. CASE UNCHANGED vars
  <2>1. /\ UNCHANGED <<anchorSeen, history, local>>
        /\ Arrived' = Arrived /\ Noted' = Noted
    BY <1>5 DEF vars, Arrived, Noted
  <2> QED BY <2>1, SharedInvFrame
<1> QED BY <1>1, <1>2, <1>3, <1>4, <1>5 DEF Next

LEMMA SharedInvHolds == Spec => []SharedInv
BY SharedInvInit, SharedInvNext, TypeCorrect, PTL DEF Spec

\* No interleaving of the lock sections loses or repeats a seen count.
THEOREM SeenCountsLoseNoUpdate == Spec => []SeenRanksExact
<1>1. SharedInv => SeenRanksExact
  BY DEF SharedInv
<1> QED BY SharedInvHolds, <1>1, PTL

\* Every estimate drawn from history stems from an earlier arrival of its anchor.
THEOREM EstimatesHaveSources == Spec => []EstimateHasSource
<1>1. SharedInv => EstimateHasSource
  BY DEF SharedInv
<1> QED BY SharedInvHolds, <1>1, PTL

\* Turn indices never overtake the seen counts, whatever the interleaving.
THEOREM TurnsBoundedBySeen == Spec => []TurnsNeverAhead
<1>1. SharedInv => TurnsNeverAhead
  BY DEF SharedInv
<1> QED BY SharedInvHolds, <1>1, PTL

-----------------------------------------------------------------------------
(* Hosts that run one call at a time.                                      *)

\* On a serial host at most one call is in flight, the call between its lock
\* sections is the latest arrival of its anchor, and otherwise the history of an
\* anchor is the note of its latest arrival.
SerialInv == env.serial =>
    /\ \A c, d \in InFlight : c = d
    /\ \A a \in Anchors : \A c \in ArrivalsOn(a) : local[c].seen + 1 = anchorSeen[a] =>
          (pc[c] = "read" \/ history[a] = NoteOf(c))
    /\ \A a \in Anchors : \A c \in ArrivalsOn(a) : pc[c] = "read" =>
          local[c].seen + 1 = anchorSeen[a]

LEMMA SerialInvInit == Init => SerialInv /\ SerialEstimateExact
<1> SUFFICES ASSUME Init PROVE SerialInv /\ SerialEstimateExact
  OBVIOUS
<1>1. Arrived = {} /\ InFlight = {}
  BY DEF Init, Arrived, InFlight
<1> QED BY <1>1 DEF SerialInv, SerialEstimateExact, ArrivalsOn

LEMMA SerialInvFrame ==
    ASSUME SerialInv, SerialEstimateExact,
           UNCHANGED <<env, anchorSeen, history>>,
           Arrived' = Arrived, InFlight' \subseteq InFlight,
           \A c \in Calls : pc'[c] = "read" <=> pc[c] = "read",
           \A c \in Arrived : /\ local'[c].sub = local[c].sub
                             /\ local'[c].seen = local[c].seen
                             /\ local'[c].previous = local[c].previous
                             /\ local'[c].turn = local[c].turn
    PROVE  SerialInv' /\ SerialEstimateExact'
<1>1. \A c \in Arrived : c \in Calls /\ NoteOf(c)' = NoteOf(c)
  BY DEF NoteOf, Arrived
<1>2. \A a : ArrivalsOn(a)' = ArrivalsOn(a) /\ ArrivalsOn(a) \subseteq Arrived
  BY DEF ArrivalsOn
<1>3. SerialInv'
  BY <1>1, <1>2 DEF SerialInv
<1>4. SerialEstimateExact'
  BY <1>1 DEF SerialEstimateExact
<1> QED BY <1>3, <1>4

LEMMA SerialInvArrive ==
    ASSUME TypeOK, SharedInv, SerialInv, SerialEstimateExact, env.serial,
           NEW c \in Calls, NEW s \in Submissions, Arrive(c, s)
    PROVE  SerialInv' /\ SerialEstimateExact'
<1>1. /\ InFlight = {} /\ env' = env /\ history' = history
      /\ c \notin Arrived /\ Arrived' = Arrived \cup {c}
      /\ InFlight' = {c} /\ pc'[c] = "read"
      /\ \A d \in Arrived : pc'[d] = pc[d] /\ pc[d] # "read"
  BY DEF Arrive, Arrived, InFlight, TypeOK, Phases
<1>2. PICK b : b = AnchorOf(s)
  OBVIOUS
<1>3. b = None \/ b \in Anchors
  BY <1>2, SubmissionsAssumption DEF IsSubmission, AnchorOf
<1>4. \A d \in Arrived : local'[d] = local[d]
  BY <1>1 DEF Arrive, TypeOK, Arrived
<1>5. \A d \in Arrived : NoteOf(d)' = NoteOf(d)
  BY <1>4 DEF NoteOf
<1>6. local'[c].sub = s
  BY <1>2, <1>3, NoneIsNoAnchor DEF Arrive, TypeOK, Locals
<1>7. b \in Anchors => /\ local'[c].seen = anchorSeen[b]
                       /\ local'[c].previous = history[b]
                       /\ anchorSeen'[b] = anchorSeen[b] + 1
  BY <1>2, NoneIsNoAnchor DEF Arrive, TypeOK, Locals
<1>8. \A a \in Anchors : a # b => anchorSeen'[a] = anchorSeen[a]
  BY <1>2, <1>3 DEF Arrive, TypeOK
<1>9. \A a : ArrivalsOn(a)' = IF a = b THEN ArrivalsOn(a) \cup {c} ELSE ArrivalsOn(a)
  BY <1>1, <1>2, <1>4, <1>6 DEF ArrivalsOn
<1>10. \A a \in Anchors : \A d \in ArrivalsOn(a) :
         /\ d \in Arrived
         /\ local[d].seen \in Nat /\ local[d].seen < anchorSeen[a] /\ anchorSeen[a] \in Nat
  BY DEF ArrivalsOn, SharedInv, SeenRanksExact, TypeOK, CallLocals
<1>11. SerialInv'
  <2>1. \A x, y \in InFlight' : x = y
    BY <1>1
  <2>2. ASSUME NEW a \in Anchors, NEW d \in ArrivalsOn(a)',
               local'[d].seen + 1 = anchorSeen'[a]
        PROVE  pc'[d] = "read" \/ history'[a] = NoteOf(d)'
    <3>1. CASE d = c
      BY <1>1, <3>1
    <3>2. CASE d \in ArrivalsOn(a) /\ a = b
      BY <1>4, <1>7, <1>10, <2>2, <3>2
    <3>3. CASE d \in ArrivalsOn(a) /\ a # b
      BY <1>1, <1>4, <1>5, <1>8, <1>10, <2>2, <3>3 DEF SerialInv
    <3> QED BY <1>9, <3>1, <3>2, <3>3
  <2>3. ASSUME NEW a \in Anchors, NEW d \in ArrivalsOn(a)', pc'[d] = "read"
        PROVE  local'[d].seen + 1 = anchorSeen'[a]
    BY <1>1, <1>7, <1>9, <1>10, <2>3
  <2> QED BY <2>1, <2>2, <2>3 DEF SerialInv
<1>12. SerialEstimateExact'
  <2> SUFFICES ASSUME NEW x \in Arrived', NEW y \in Arrived',
                      AnchorOf(local'[x].sub) # None,
                      AnchorOf(local'[y].sub) = AnchorOf(local'[x].sub),
                      local'[y].seen + 1 = local'[x].seen
               PROVE  local'[x].previous = NoteOf(y)'
    BY DEF SerialEstimateExact
  <2>1. CASE x \in Arrived /\ y \in Arrived
    BY <1>4, <1>5, <2>1 DEF SerialEstimateExact
  <2>2. CASE x = c /\ y \in Arrived
    <3>1. b \in Anchors /\ y \in ArrivalsOn(b)
      BY <1>2, <1>3, <1>4, <1>6, <2>2 DEF ArrivalsOn
    <3>2. local[y].seen + 1 = anchorSeen[b] /\ pc[y] # "read"
      BY <1>1, <1>4, <1>7, <2>2, <3>1
    <3>3. history[b] = NoteOf(y)
      BY <3>1, <3>2 DEF SerialInv
    <3> QED BY <1>5, <1>7, <2>2, <3>1, <3>3
  <2>3. CASE x \in Arrived /\ y = c
    <3>1. b \in Anchors /\ x \in ArrivalsOn(b)
      BY <1>2, <1>3, <1>4, <1>6, <2>3 DEF ArrivalsOn
    <3> QED BY <1>4, <1>7, <1>10, <2>3, <3>1
  <2>4. CASE x = c /\ y = c
    <3>1. b \in Anchors
      BY <1>2, <1>3, <1>6, <2>4
    <3> QED BY <1>7, <2>4, <3>1 DEF TypeOK
  <2> QED BY <1>1, <2>1, <2>2, <2>3, <2>4
<1> QED BY <1>11, <1>12

LEMMA SerialInvNote ==
    ASSUME TypeOK, SharedInv, SerialInv, SerialEstimateExact, env.serial,
           NEW c \in Calls, NoteHistory(c)
    PROVE  SerialInv' /\ SerialEstimateExact'
<1>1. /\ c \in Arrived /\ Arrived' = Arrived /\ InFlight' = InFlight
      /\ UNCHANGED <<env, anchorSeen, local>>
      /\ pc[c] = "read" /\ pc'[c] = "noted"
      /\ \A d \in Calls \ {c} : pc'[d] = pc[d]
  BY DEF NoteHistory, Arrived, InFlight, TypeOK, Phases
<1>2. \A d : NoteOf(d)' = NoteOf(d) /\ \A a : ArrivalsOn(a)' = ArrivalsOn(a)
  BY <1>1 DEF NoteOf, ArrivalsOn
<1>3. \A a \in Anchors :
        history'[a] = IF a = AnchorOf(local[c].sub) THEN NoteOf(c) ELSE history[a]
  BY NoneIsNoAnchor DEF NoteHistory, NoteOf, TypeOK
<1>4. ASSUME NEW a \in Anchors, NEW d \in ArrivalsOn(a), local[d].seen + 1 = anchorSeen[a]
      PROVE  pc'[d] = "read" \/ history'[a] = NoteOf(d)
  <2>1. CASE a = AnchorOf(local[c].sub)
    <3>1. c \in ArrivalsOn(a)
      BY <1>1, <2>1 DEF ArrivalsOn
    <3>2. local[c].seen + 1 = anchorSeen[a]
      BY <1>1, <3>1 DEF SerialInv
    <3>3. local[c].seen \in Nat /\ local[d].seen \in Nat
      BY <1>1 DEF ArrivalsOn, TypeOK, CallLocals
    <3>4. d = c
      BY <1>4, <3>1, <3>2, <3>3 DEF SharedInv, SeenRanksExact
    <3> QED BY <1>3, <2>1, <3>4
  <2>2. CASE a # AnchorOf(local[c].sub)
    <3>1. d \in Calls /\ d # c
      BY <2>2 DEF ArrivalsOn, Arrived
    <3> QED BY <1>1, <1>3, <1>4, <2>2, <3>1 DEF SerialInv
  <2> QED BY <2>1, <2>2
<1>5. SerialInv'
  <2>1. \A d : pc'[d] = "read" /\ d \in Calls => pc[d] = "read"
    BY <1>1
  <2>2. \A a : \A d \in ArrivalsOn(a) : d \in Calls
    BY DEF ArrivalsOn, Arrived
  <2> QED BY <1>1, <1>2, <1>4, <2>1, <2>2 DEF SerialInv
<1>6. SerialEstimateExact'
  BY <1>1, <1>2 DEF SerialEstimateExact
<1> QED BY <1>5, <1>6

LEMMA SerialInvNext ==
    TypeOK /\ SharedInv /\ SerialInv /\ SerialEstimateExact /\ [Next]_vars
      => SerialInv' /\ SerialEstimateExact'
<1> SUFFICES ASSUME TypeOK, SharedInv, SerialInv, SerialEstimateExact, [Next]_vars
             PROVE  SerialInv' /\ SerialEstimateExact'
  OBVIOUS
<1>1. CASE ~env.serial
  <2>1. env' = env
    BY DEF Next, Arrive, NoteHistory, Decide, Reject, Refuse, Answer, LogFails, vars
  <2> QED BY <1>1, <2>1 DEF SerialInv, SerialEstimateExact
<1>2. CASE env.serial
  <2>1. ASSUME NEW c \in Calls, NEW s \in Submissions, Arrive(c, s)
        PROVE  SerialInv' /\ SerialEstimateExact'
    BY <1>2, <2>1, SerialInvArrive
  <2>2. ASSUME NEW c \in Calls, NoteHistory(c) PROVE SerialInv' /\ SerialEstimateExact'
    BY <1>2, <2>2, SerialInvNote
  <2>3. ASSUME NEW c \in Calls, Decide(c) PROVE SerialInv' /\ SerialEstimateExact'
    <3>1. PICK o : local' = [local EXCEPT ![c].outcome = o]
      BY <2>3 DEF Decide
    <3>2. /\ UNCHANGED <<env, anchorSeen, history>>
          /\ Arrived' = Arrived /\ InFlight' \subseteq InFlight
          /\ \A d \in Calls : pc'[d] = "read" <=> pc[d] = "read"
      BY <2>3 DEF Decide, Arrived, InFlight, TypeOK, Phases
    <3>3. \A d \in Arrived : /\ local'[d].sub = local[d].sub
                             /\ local'[d].seen = local[d].seen
                             /\ local'[d].previous = local[d].previous
                             /\ local'[d].turn = local[d].turn
      BY <3>1 DEF TypeOK, Arrived, CallLocals
    <3> QED BY <3>2, <3>3, SerialInvFrame
  <2>4. ASSUME NEW c \in Calls, Reject(c) \/ Refuse(c) \/ Answer(c) \/ LogFails(c)
        PROVE  SerialInv' /\ SerialEstimateExact'
    <3>1. /\ UNCHANGED <<env, anchorSeen, history, local>>
          /\ Arrived' = Arrived /\ InFlight' \subseteq InFlight
          /\ \A d \in Calls : pc'[d] = "read" <=> pc[d] = "read"
      BY <2>4 DEF Reject, Refuse, Answer, LogFails, Arrived, InFlight, TypeOK, Phases
    <3> QED BY <3>1, SerialInvFrame
  <2>5. CASE UNCHANGED vars
    <3>1. /\ UNCHANGED <<env, anchorSeen, history, local, pc>>
          /\ Arrived' = Arrived /\ InFlight' \subseteq InFlight
      BY <2>5 DEF vars, Arrived, InFlight
    <3> QED BY <3>1, SerialInvFrame
  <2> QED BY <2>1, <2>2, <2>3, <2>4, <2>5 DEF Next
<1> QED BY <1>1, <1>2

\* On a serial host every estimate is exactly the previous request of its anchor.
THEOREM SerialEstimatesExact == Spec => []SerialEstimateExact
BY SerialInvInit, SerialInvNext, TypeCorrect, SharedInvHolds, PTL DEF Spec

-----------------------------------------------------------------------------
(* The namespaces of the plans, and the names behind them.                 *)

\* The namespace a plan may carry, by the action that runs.
SaltFits(p, s) ==
    /\ p.effective = "recompute" => p.salt = RequestScopedSalt(s)
    /\ p.effective = "partial_reuse" => p.salt = PartialFallbackSalt(s)
    /\ p.effective = "full_reuse" => p.salt \in {AnchorScopedSalt(s), PartialFallbackSalt(s)}

LEMMA PlanSalts ==
    ASSUME NEW e, NEW s, NEW r, NEW o, NEW p \in RuntimePlans(e, s, r, o)
    PROVE  SaltFits(p, s)
<1> USE DEF SaltFits, Plan
<1> DEFINE target == Lesser(o.reused, s.prompt)
<1>1. CASE p = NativeRecomputePlan(s, target)
  BY <1>1 DEF NativeRecomputePlan
<1>2. CASE p = NativeFullReusePlan(s, target)
  BY <1>2 DEF NativeFullReusePlan
<1>3. CASE \E k : p = AlignedPartialPlan(s, target, k)
  BY <1>3 DEF AlignedPartialPlan
<1>4. CASE p = RealignedRecomputePlan(s)
  BY <1>4 DEF RealignedRecomputePlan
<1>5. CASE p = FallbackFullReusePlan(e, s, r)
  BY <1>5 DEF FallbackFullReusePlan
<1> HIDE DEF target
<1> QED BY <1>1, <1>2, <1>3, <1>4, <1>5 DEF RuntimePlans, target

PlannedSaltsFit == \A c \in Planned : SaltFits(plan[c], local[c].sub)

LEMMA PlannedSaltsFitHolds == Spec => []PlannedSaltsFit
<1>1. Init => PlannedSaltsFit
  BY DEF Init, PlannedSaltsFit, Planned
<1>2. TypeOK /\ PlannedSaltsFit /\ [Next]_vars => PlannedSaltsFit'
  <2> SUFFICES ASSUME TypeOK, PlannedSaltsFit, [Next]_vars PROVE PlannedSaltsFit'
    OBVIOUS
  <2> USE DEF PlannedSaltsFit, Planned, TypeOK, Phases
  <2>1. ASSUME NEW c \in Calls, NEW s \in Submissions, Arrive(c, s) PROVE PlannedSaltsFit'
    <3>1. \A d \in Calls \ {c} : local'[d] = local[d]
      BY <2>1 DEF Arrive
    <3> QED BY <2>1, <3>1 DEF Arrive
  <2>2. ASSUME NEW c \in Calls, NoteHistory(c) PROVE PlannedSaltsFit'
    BY <2>2 DEF NoteHistory
  <2>3. ASSUME NEW c \in Calls, Decide(c) PROVE PlannedSaltsFit'
    <3>1. PICK o \in PolicyOutcomes(env, local[c].reusable) :
            \E p \in RuntimePlans(env, local[c].sub, local[c].reusable, o) :
               /\ local' = [local EXCEPT ![c].outcome = o]
               /\ plan' = [plan EXCEPT ![c] = p]
      BY <2>3 DEF Decide
    <3>2. PICK p \in RuntimePlans(env, local[c].sub, local[c].reusable, o) :
               /\ local' = [local EXCEPT ![c].outcome = o]
               /\ plan' = [plan EXCEPT ![c] = p]
      BY <3>1
    <3>3. SaltFits(p, local[c].sub)
      BY PlanSalts
    <3>4. local[c] \in CallLocals
      BY <2>3 DEF Decide, Arrived
    <3>5. \A d \in Calls : local'[d].sub = local[d].sub
      BY <3>2, <3>4 DEF CallLocals
    <3>6. plan'[c] = p /\ \A d \in Calls \ {c} : plan'[d] = plan[d] /\ pc'[d] = pc[d]
      BY <2>3, <3>2 DEF Decide
    <3> QED BY <3>3, <3>5, <3>6
  <2>4. ASSUME NEW c \in Calls, Reject(c) \/ Refuse(c) \/ Answer(c) \/ LogFails(c)
        PROVE  PlannedSaltsFit'
    BY <2>4 DEF Reject, Refuse, Answer, LogFails
  <2>5. CASE UNCHANGED vars
    BY <2>5 DEF vars
  <2> QED BY <2>1, <2>2, <2>3, <2>4, <2>5 DEF Next
<1> QED BY <1>1, <1>2, TypeCorrect, PTL DEF Spec

\* The name a shared namespace is built from, None when it is built from none.
BuiltFrom(salt, x) ==
    IF x = None THEN salt = None ELSE \E kind \in {"anchor", "case"} : salt = Salt(kind, x)

LEMMA BuiltFromOne ==
    ASSUME NEW salt, NEW x \in Names \cup {None}, NEW y \in Names \cup {None},
           BuiltFrom(salt, x), BuiltFrom(salt, y)
    PROVE  x = y
<1>1. ASSUME NEW z \in Names, BuiltFrom(salt, z)
      PROVE  \E kind : IsSalt(salt, kind, z) /\ salt # None
  <2>1. PICK kind \in {"anchor", "case"} : salt = Salt(kind, z)
    BY <1>1, NoneAssumption DEF BuiltFrom
  <2>2. kind \in Words
    BY <2>1, WordsAssumption
  <2>3. Salt(kind, z) \in Names
    BY <2>2, SaltSpells
  <2> QED BY <2>1, <2>2, <2>3, NoneAssumption DEF IsSalt
<1>2. CASE x \in Names /\ y \in Names
  <2>1. PICK k : IsSalt(salt, k, x)
    BY <1>1, <1>2
  <2>2. PICK l : IsSalt(salt, l, y)
    BY <1>1, <1>2
  <2> QED BY <2>1, <2>2, SaltInjective
<1>3. CASE x = None \/ y = None
  BY <1>1, <1>3 DEF BuiltFrom
<1> QED BY <1>2, <1>3

\* The shared namespace of a plan that does not recompute is built from a name
\* its request gave.
LEMMA SaltNamesIdentity ==
    ASSUME NEW s, IsSubmission(s), NEW p, p.effective \in Actions \ {"recompute"},
           SaltFits(p, s)
    PROVE  \E x \in Identities(s) : x \in Names \cup {None} /\ BuiltFrom(p.salt, x)
<1>1. /\ AnchorOf(s) \in Names \cup {None} /\ s.scaffold \in Names \cup {None}
      /\ s.case \in Names \cup {None}
  BY SubmissionNames
<1>2. ASSUME NEW a \in Names \cup {None}, a # None => a \in Identities(s),
             a = None => AnchorOf(s) = None
      PROVE  \E x \in Identities(s) : x \in Names \cup {None}
                                      /\ BuiltFrom(AnchorOrCaseSalt(a, s.case), x)
  <2>1. CASE a # None
    BY <1>2, <2>1 DEF AnchorOrCaseSalt, BuiltFrom
  <2>2. CASE a = None
    <3>1. s.case \in Identities(s)
      BY <1>2, <2>2 DEF Identities
    <3>2. BuiltFrom(AnchorOrCaseSalt(a, s.case), s.case)
      BY <2>2 DEF AnchorOrCaseSalt, BuiltFrom
    <3> QED BY <1>1, <3>1, <3>2
  <2> QED BY <2>1, <2>2
<1>3. CASE p.salt = AnchorScopedSalt(s)
  <2>1. AnchorOf(s) # None => AnchorOf(s) \in Identities(s)
    BY DEF Identities
  <2> QED BY <1>1, <1>2, <1>3, <2>1 DEF AnchorScopedSalt
<1>4. CASE p.salt = PartialFallbackSalt(s)
  <2>1. PICK a : a = IF s.scaffold # None THEN s.scaffold ELSE AnchorOf(s)
    OBVIOUS
  <2>2. /\ a \in Names \cup {None}
        /\ a # None => a \in Identities(s)
        /\ a = None => AnchorOf(s) = None
    BY <1>1, <2>1 DEF Identities
  <2> QED BY <1>2, <1>4, <2>1, <2>2 DEF PartialFallbackSalt
<1> QED BY <1>3, <1>4 DEF SaltFits, Actions

-----------------------------------------------------------------------------
(* Ids on the School host.                                                 *)

IdsDrawn == env.host = "school" => \A c, d \in Arrived :
    /\ Len(local[c].sub.id) = 1
    /\ c # d => local[c].sub.id # local[d].sub.id

LEMMA IdsDrawnHolds == Spec => []IdsDrawn
<1>1. Init => IdsDrawn
  BY DEF Init, IdsDrawn, Arrived
<1>2. TypeOK /\ IdsDrawn /\ [Next]_vars => IdsDrawn'
  <2> SUFFICES ASSUME TypeOK, IdsDrawn, [Next]_vars PROVE IdsDrawn'
    OBVIOUS
  <2>1. ASSUME NEW c \in Calls, NEW s \in Submissions, Arrive(c, s) PROVE IdsDrawn'
    <3>1. /\ env' = env /\ Arrived' = Arrived \cup {c} /\ c \notin Arrived
          /\ local'[c].sub = s /\ \A d \in Arrived : local'[d] = local[d]
      BY <2>1 DEF Arrive, Arrived, TypeOK, Phases, Locals
    <3>2. DrawnFresh(s)
      BY <2>1 DEF Arrive
    <3> QED BY <3>1, <3>2 DEF IdsDrawn, DrawnFresh
  <2>2. ASSUME NEW c \in Calls, NoteHistory(c) \/ Reject(c) \/ Refuse(c) \/ Answer(c) \/ LogFails(c)
        PROVE  IdsDrawn'
    <3>1. UNCHANGED <<env, local>> /\ Arrived' = Arrived
      BY <2>2 DEF NoteHistory, Reject, Refuse, Answer, LogFails, Arrived, TypeOK, Phases
    <3> QED BY <3>1 DEF IdsDrawn
  <2>3. ASSUME NEW c \in Calls, Decide(c) PROVE IdsDrawn'
    <3>1. PICK o : local' = [local EXCEPT ![c].outcome = o]
      BY <2>3 DEF Decide
    <3>2. env' = env /\ Arrived' = Arrived
      BY <2>3 DEF Decide, Arrived, TypeOK, Phases
    <3>3. \A d \in Arrived : local'[d].sub = local[d].sub
      BY <3>1 DEF TypeOK, Arrived, CallLocals
    <3> QED BY <3>2, <3>3 DEF IdsDrawn
  <2>4. CASE UNCHANGED vars
    BY <2>4 DEF vars, IdsDrawn, Arrived
  <2> QED BY <2>1, <2>2, <2>3, <2>4 DEF Next
<1> QED BY <1>1, <1>2, TypeCorrect, PTL DEF Spec

-----------------------------------------------------------------------------
(* The engine's prefix cache.                                              *)

Bypasses(c) == plan[c].effective = "recompute" /\ env.host = "native"

\* A block that call c may write or find: named under its namespace, no longer
\* than its partial boundary, and none at all when it bypasses the cache.
Admits(c, b) ==
    /\ b.key.root = plan[c].salt
    /\ plan[c].effective = "partial_reuse" => Len(b.key.chain) <= plan[c].reuse
    /\ ~Bypasses(c)

\* A block that some finished call wrote and was allowed to write.
Written(b) ==
    /\ b.by \in Calls
    /\ stage[b.by] = "finished"
    /\ Admits(b.by, b)

EngineStages ==
    /\ stage \in [Calls -> {"waiting", "running", "finished"}]
    /\ hits = [c \in Calls |-> hits[c]]
    /\ \A c \in Calls : stage[c] # "waiting" => pc[c] = "answered"
    /\ evictions \in 0 .. MaxEvictions

AnsweredLogged == \A c \in Calls : pc[c] = "answered" /\ env.log => c \in logged

\* A chain names at most one cached block.
KeysUnique == \A b, d \in cache : b.key = d.key => b = d

\* What the cache holds and what the calls found in it, before it was evicted
\* or not, was written within bounds; what a call found it was allowed to find,
\* and it had not written it itself.
BlocksWritten ==
    /\ \A b \in cache : Written(b)
    /\ \A c \in Calls : \A b \in hits[c] :
          stage[c] # "waiting" /\ b.by # c /\ Written(b) /\ Admits(c, b)

EngineInv == EngineStages /\ AnsweredLogged /\ KeysUnique /\ BlocksWritten

\* What is known of the controller while the engine runs.
ControlInv == PlanInv /\ PlannedSaltsFit /\ IdsDrawn

LEMMA AnsweredArePlanned ==
    ASSUME ControlInv, NEW c \in Calls, pc[c] = "answered"
    PROVE  /\ c \in Planned /\ plan[c] \in Plans /\ plan[c].effective \in Actions
           /\ local[c] \in CallLocals /\ local[c].sub \in Submissions
           /\ IsSubmission(local[c].sub)
           /\ plan[c].reuse \in Nat /\ plan[c].reuse <= local[c].sub.prompt
<1>1. c \in Planned /\ c \in Arrived
  BY DEF Planned, Arrived
<1>2. plan[c] \in Plans /\ local[c] \in CallLocals /\ SplitsPrompt(plan[c], local[c].sub, local[c].reusable)
      /\ local[c].reusable <= local[c].sub.prompt
  BY <1>1 DEF ControlInv, PlanInv, TypeOK, PlanAccounting, EstimatesFit
<1>3. local[c].sub \in Submissions /\ local[c].reusable \in Nat
  BY <1>2 DEF CallLocals
<1>4. IsSubmission(local[c].sub)
  BY <1>3, SubmissionsAssumption
<1> QED BY <1>1, <1>2, <1>3, <1>4 DEF Plans, SplitsPrompt, IsSubmission

\* What the controller settled for an answered call it never takes back.
LEMMA AnsweredStays ==
    ASSUME TypeOK, [Next]_vars
    PROVE  /\ env' = env
           /\ logged \subseteq logged'
           /\ \A c \in Calls : pc[c] = "answered" =>
                pc'[c] = "answered" /\ plan'[c] = plan[c] /\ local'[c] = local[c]
           /\ \A c \in Calls : pc'[c] = "answered" =>
                pc[c] = "answered" \/ (env.log => c \in logged')
<1> USE DEF TypeOK, Phases
<1>1. ASSUME NEW d \in Calls, NEW s \in Submissions, Arrive(d, s)
      PROVE  /\ UNCHANGED <<env, logged, plan>>
             /\ pc' = [pc EXCEPT ![d] = "read"] /\ pc[d] = "idle"
             /\ \A c \in Calls \ {d} : local'[c] = local[c]
  BY <1>1 DEF Arrive
<1>2. ASSUME NEW d \in Calls, NoteHistory(d)
      PROVE  /\ UNCHANGED <<env, logged, plan, local>>
             /\ pc' = [pc EXCEPT ![d] = "noted"] /\ pc[d] = "read"
  BY <1>2 DEF NoteHistory
<1>3. ASSUME NEW d \in Calls, Decide(d)
      PROVE  /\ UNCHANGED <<env, logged>>
             /\ pc' = [pc EXCEPT ![d] = "planned"] /\ pc[d] = "noted"
             /\ \A c \in Calls \ {d} : local'[c] = local[c] /\ plan'[c] = plan[c]
  BY <1>3 DEF Decide
<1>4. ASSUME NEW d \in Calls, Reject(d) \/ Refuse(d) \/ LogFails(d)
      PROVE  /\ UNCHANGED <<env, logged, plan, local>>
             /\ \E t \in {"rejected", "unlogged"} : pc' = [pc EXCEPT ![d] = t]
             /\ pc[d] # "answered"
  BY <1>4 DEF Reject, Refuse, LogFails
<1>5. ASSUME NEW d \in Calls, Answer(d)
      PROVE  /\ UNCHANGED <<env, plan, local>>
             /\ pc' = [pc EXCEPT ![d] = "answered"]
             /\ logged' = IF env.log THEN logged \cup {d} ELSE logged
  BY <1>5 DEF Answer
<1>6. CASE \E d \in Calls, s \in Submissions : Arrive(d, s)
  BY <1>1, <1>6
<1>7. CASE \E d \in Calls : NoteHistory(d)
  BY <1>2, <1>7
<1>8. CASE \E d \in Calls : Decide(d)
  BY <1>3, <1>8
<1>9. CASE \E d \in Calls : Reject(d) \/ Refuse(d) \/ LogFails(d)
  BY <1>4, <1>9
<1>10. CASE \E d \in Calls : Answer(d)
  BY <1>5, <1>10
<1>11. CASE UNCHANGED vars
  BY <1>11 DEF vars
<1> QED BY <1>6, <1>7, <1>8, <1>9, <1>10, <1>11 DEF Next

\* The full blocks of a call stay within its tokens and its partial boundary,
\* and a bypassing call has none.
LEMMA FullBlocksFit ==
    ASSUME ControlInv, NEW c \in Calls, pc[c] = "answered", NEW n \in Nat,
           NEW i \in FullBlocks(c, n)
    PROVE  /\ i \in Nat /\ i * EngineBlock \in Nat
           /\ 0 < i * EngineBlock /\ i * EngineBlock <= n
           /\ plan[c].effective = "partial_reuse" => i * EngineBlock <= plan[c].reuse
           /\ ~Bypasses(c)
<1>1. plan[c].reuse \in Nat /\ plan[c].effective \in Actions
  BY AnsweredArePlanned
<1>2. PICK k \in Nat : k = CacheableTokens(c, n)
  BY <1>1 DEF CacheableTokens, Lesser
<1>3. PICK B \in Nat : B = EngineBlock /\ B > 0
  BY EngineBlockAssumption
<1>4. PICK q \in Nat : q = k \div B
  BY <1>3, Division
<1>5. B * q <= k
  BY <1>3, <1>4, Division
<1>6. i \in Nat /\ 0 < i /\ i <= q
  BY <1>2, <1>3, <1>4 DEF FullBlocks
<1>7. i * B \in Nat /\ 0 < i * B /\ i * B <= B * q
  BY <1>3, <1>4, <1>6
<1>8. i * B <= k /\ 0 < k
  BY <1>2, <1>4, <1>5, <1>7, <1>3
<1>9. k <= n /\ (plan[c].effective = "partial_reuse" => k <= plan[c].reuse)
      /\ (Bypasses(c) => k = 0)
  BY <1>1, <1>2 DEF CacheableTokens, Lesser, Bypasses
<1> QED BY <1>1, <1>2, <1>3, <1>6, <1>7, <1>8, <1>9

\* A full block of a call is one it is allowed to write or find.
LEMMA FullBlocksAdmitted ==
    ASSUME ControlInv, NEW c \in Calls, pc[c] = "answered", NEW n \in Nat,
           n <= local[c].sub.prompt + local[c].sub.output,
           NEW i \in FullBlocks(c, n), NEW b, b.key = BlockKey(c, i)
    PROVE  Admits(c, b)
<1>1. /\ IsSubmission(local[c].sub) /\ local[c].sub \in Submissions
      /\ plan[c].reuse \in Nat
  BY AnsweredArePlanned
<1>2. PICK m \in Nat : m = i * EngineBlock
  BY FullBlocksFit
<1>3. /\ 0 < m /\ m <= n
      /\ plan[c].effective = "partial_reuse" => m <= plan[c].reuse
      /\ ~Bypasses(c)
  BY <1>2, FullBlocksFit
<1>4. local[c].sub.tokens \in Seq(Nat) /\ m <= Len(local[c].sub.tokens)
  BY <1>1, <1>3, TokensAssumption DEF IsSubmission
<1>5. Len(SubSeq(local[c].sub.tokens, 1, m)) = m
  BY <1>3, <1>4, SubSeqProperties
<1>6. BlockKey(c, i) = [root |-> plan[c].salt, chain |-> SubSeq(local[c].sub.tokens, 1, m)]
  BY <1>1, <1>2, <1>3 DEF BlockKey
<1> QED BY <1>3, <1>5, <1>6 DEF Admits

LEMMA EngineInvInit == EngineInit => EngineInv
<1> SUFFICES ASSUME EngineInit PROVE EngineInv
  OBVIOUS
<1>1. \A c \in Calls : pc[c] = "idle" /\ stage[c] = "waiting" /\ hits[c] = {}
  BY DEF EngineInit, Init
<1> QED BY <1>1, MaxEvictionsAssumption
        DEF EngineInit, EngineInv, EngineStages, AnsweredLogged, KeysUnique, BlocksWritten

LEMMA EngineInvControl ==
    ASSUME ControlInv, EngineInv, [Next]_vars, UNCHANGED engineVars
    PROVE  EngineInv'
<1> USE DEF engineVars
<1>1. /\ env' = env /\ logged \subseteq logged'
      /\ \A c \in Calls : pc[c] = "answered" =>
           pc'[c] = "answered" /\ plan'[c] = plan[c] /\ local'[c] = local[c]
      /\ \A c \in Calls : pc'[c] = "answered" =>
           pc[c] = "answered" \/ (env.log => c \in logged')
  BY AnsweredStays DEF ControlInv, PlanInv
<1>2. EngineStages' /\ AnsweredLogged' /\ KeysUnique'
  BY <1>1 DEF EngineInv, EngineStages, AnsweredLogged, KeysUnique
<1>3. ASSUME NEW c \in Calls, stage[c] # "waiting", NEW b, Admits(c, b) PROVE Admits(c, b)'
  BY <1>1, <1>3 DEF EngineInv, EngineStages, Admits, Bypasses
<1>4. ASSUME NEW b, Written(b) PROVE Written(b)'
  BY <1>3, <1>4 DEF Written
<1>5. BlocksWritten'
  BY <1>3, <1>4 DEF EngineInv, BlocksWritten
<1> QED BY <1>2, <1>5 DEF EngineInv

LEMMA EngineInvSchedule ==
    ASSUME ControlInv, EngineInv, NEW c \in Calls, Schedule(c)
    PROVE  EngineInv'
<1>1. /\ UNCHANGED <<env, pc, plan, local, logged, cache, evictions>>
      /\ pc[c] = "answered" /\ stage[c] = "waiting"
      /\ stage' = [stage EXCEPT ![c] = "running"]
  BY DEF Schedule, vars
<1>2. \A b, d : Admits(d, b)' = Admits(d, b)
  BY <1>1 DEF Admits, Bypasses
<1>3. \A b : Written(b) => Written(b)'
  BY <1>1, <1>2 DEF EngineInv, EngineStages, Written
<1>4. PICK h : hits' = [hits EXCEPT ![c] = h] /\
        \A b \in h : b \in cache /\
           \E i \in FullBlocks(c, local[c].sub.prompt) : b.key = BlockKey(c, i)
  <2> DEFINE run == {i \in FullBlocks(c, local[c].sub.prompt) :
                        \A j \in 1 .. i : Found(c, j) # {}}
             h == UNION {Found(c, i) : i \in run}
  <2>1. hits' = [hits EXCEPT ![c] = h]
    BY DEF Schedule
  <2>2. \A b \in h : \E i \in FullBlocks(c, local[c].sub.prompt) : b \in Found(c, i)
    OBVIOUS
  <2>3. \A b \in h : b \in cache /\
           \E i \in FullBlocks(c, local[c].sub.prompt) : b.key = BlockKey(c, i)
    BY <2>2 DEF Found
  <2> HIDE DEF h
  <2> QED BY <2>1, <2>3
<1>5. ASSUME NEW b \in h PROVE b.by # c /\ Written(b)' /\ Admits(c, b)'
  <2>1. PICK i \in FullBlocks(c, local[c].sub.prompt) : b.key = BlockKey(c, i)
    BY <1>4
  <2>2. local[c].sub.prompt \in Nat /\ local[c].sub.output \in Nat
    BY <1>1, AnsweredArePlanned DEF IsSubmission
  <2>3. local[c].sub.prompt <= local[c].sub.prompt + local[c].sub.output
    BY <2>2
  <2>4. Admits(c, b)
    BY <1>1, <2>1, <2>2, <2>3, FullBlocksAdmitted
  <2>5. Written(b)
    BY <1>4 DEF EngineInv, BlocksWritten
  <2>6. b.by # c
    BY <1>1, <2>5 DEF Written
  <2> QED BY <1>2, <1>3, <2>4, <2>5, <2>6
<1>6. hits' = [d \in Calls |-> hits'[d]] /\ hits'[c] = h
      /\ \A d \in Calls \ {c} : hits'[d] = hits[d] /\ stage'[d] = stage[d]
  BY <1>1, <1>4 DEF EngineInv, EngineStages
<1>7. BlocksWritten'
  <2>1. \A b \in cache' : Written(b)'
    BY <1>1, <1>3 DEF EngineInv, BlocksWritten
  <2>2. ASSUME NEW d \in Calls, NEW b \in hits'[d]
        PROVE  stage'[d] # "waiting" /\ b.by # d /\ Written(b)' /\ Admits(d, b)'
    BY <1>1, <1>2, <1>3, <1>5, <1>6, <2>2 DEF EngineInv, EngineStages, BlocksWritten
  <2> QED BY <2>1, <2>2 DEF BlocksWritten
<1>8. EngineStages'
  BY <1>1, <1>6 DEF EngineInv, EngineStages
<1> QED BY <1>1, <1>7, <1>8 DEF EngineInv, AnsweredLogged, KeysUnique

LEMMA EngineInvFinish ==
    ASSUME ControlInv, EngineInv, NEW c \in Calls, Finish(c)
    PROVE  EngineInv'
<1>1. /\ UNCHANGED <<env, pc, plan, local, logged, hits, evictions>>
      /\ stage[c] = "running" /\ stage' = [stage EXCEPT ![c] = "finished"]
  BY DEF Finish, vars
<1>2. pc[c] = "answered"
  BY <1>1 DEF EngineInv, EngineStages
<1>3. \A b, d : Admits(d, b)' = Admits(d, b)
  BY <1>1 DEF Admits, Bypasses
<1>4. \A b : Written(b) => Written(b)'
  BY <1>1, <1>3 DEF EngineInv, EngineStages, Written
<1>5. ASSUME NEW b \in cache'
      PROVE  b \in cache \/
             \E i \in FullBlocks(c, local[c].sub.prompt + local[c].sub.output) :
                Found(c, i) = {} /\ b = [key |-> BlockKey(c, i), by |-> c]
  BY DEF Finish
<1>6. ASSUME NEW b \in cache' PROVE Written(b)'
  <2>1. CASE b \in cache
    BY <1>4, <2>1 DEF EngineInv, BlocksWritten
  <2>2. CASE b \notin cache
    <3>1. PICK i \in FullBlocks(c, local[c].sub.prompt + local[c].sub.output) :
             b = [key |-> BlockKey(c, i), by |-> c]
      BY <1>5, <2>2
    <3>2. local[c].sub.prompt + local[c].sub.output \in Nat
      BY <1>2, AnsweredArePlanned DEF IsSubmission
    <3>3. Admits(c, b)
      BY <1>2, <3>1, <3>2, FullBlocksAdmitted
    <3> QED BY <1>1, <1>3, <3>1, <3>3 DEF Written, EngineInv, EngineStages
  <2> QED BY <2>1, <2>2
<1>7. KeysUnique'
  <2> SUFFICES ASSUME NEW b \in cache', NEW d \in cache', b.key = d.key PROVE b = d
    BY DEF KeysUnique
  <2>1. ASSUME NEW x \in cache', NEW y \in cache, x \notin cache PROVE x.key # y.key
    BY <1>5, <2>1 DEF Found
  <2>2. CASE b \notin cache /\ d \notin cache
    <3>1. b = [key |-> b.key, by |-> c] /\ d = [key |-> d.key, by |-> c]
      BY <1>5, <2>2
    <3> QED BY <3>1
  <2>3. CASE b \in cache /\ d \in cache
    BY <2>3 DEF EngineInv, KeysUnique
  <2> QED BY <2>1, <2>2, <2>3
<1>8. EngineStages' /\ AnsweredLogged'
  BY <1>1, <1>2 DEF EngineInv, EngineStages, AnsweredLogged
<1>9. BlocksWritten'
  BY <1>1, <1>3, <1>4, <1>6 DEF EngineInv, EngineStages, BlocksWritten
<1> QED BY <1>7, <1>8, <1>9 DEF EngineInv

LEMMA EngineInvEvict ==
    ASSUME EngineInv, NEW b \in cache, Evict(b)
    PROVE  EngineInv'
<1>1. /\ UNCHANGED <<env, pc, plan, local, logged, stage, hits>>
      /\ cache' \subseteq cache
      /\ evictions < MaxEvictions /\ evictions' = evictions + 1
  BY DEF Evict, vars
<1>2. \A x, d : Admits(d, x)' = Admits(d, x) /\ Written(x)' = Written(x)
  BY <1>1 DEF Admits, Bypasses, Written
<1>3. EngineStages'
  BY <1>1, MaxEvictionsAssumption DEF EngineInv, EngineStages
<1> QED BY <1>1, <1>2, <1>3 DEF EngineInv, AnsweredLogged, KeysUnique, BlocksWritten

\* Every step of the composition is a step of the controller or leaves it alone.
LEMMA EngineStepsAreControlSteps == EngineSpec => Spec
<1>1. EngineInit => Init
  BY DEF EngineInit
<1>2. [EngineNext]_allVars => [Next]_vars
  BY DEF EngineNext, allVars, engineVars, Schedule, Finish, Evict
<1> QED BY <1>1, <1>2, PTL DEF EngineSpec, Spec

LEMMA ControlInvHolds == Spec => []ControlInv
<1>1. PlanInv /\ PlannedSaltsFit /\ IdsDrawn => ControlInv
  BY DEF ControlInv
<1>2. Spec => []PlanInv
  BY PlanInvInit, PlanInvNext, PTL DEF Spec
<1> QED BY <1>1, <1>2, PlannedSaltsFitHolds, IdsDrawnHolds, PTL

LEMMA EngineInvNext == ControlInv /\ EngineInv /\ [EngineNext]_allVars => EngineInv'
<1> SUFFICES ASSUME ControlInv, EngineInv, [EngineNext]_allVars PROVE EngineInv'
  OBVIOUS
<1>1. CASE [Next]_vars /\ UNCHANGED engineVars
  BY <1>1, EngineInvControl
<1>2. ASSUME NEW c \in Calls, Schedule(c) PROVE EngineInv'
  BY <1>2, EngineInvSchedule
<1>3. ASSUME NEW c \in Calls, Finish(c) PROVE EngineInv'
  BY <1>3, EngineInvFinish
<1>4. ASSUME NEW b \in cache, Evict(b) PROVE EngineInv'
  BY <1>4, EngineInvEvict
<1> QED BY <1>1, <1>2, <1>3, <1>4 DEF EngineNext, allVars

\* The engine's invariant, with the controller's own, holds in every behaviour
\* of the composition.
THEOREM EngineInvariant == EngineSpec => [](ControlInv /\ EngineInv)
BY EngineInvInit, EngineInvNext, EngineStepsAreControlSteps, ControlInvHolds, PTL
   DEF EngineSpec

\* Cached blocks carry well-formed namespaces and unique chains, and only
\* answered calls run.
THEOREM EngineTypesHold == EngineSpec => []EngineTypeOK
<1>1. ControlInv /\ EngineInv => EngineTypeOK
  <2> SUFFICES ASSUME ControlInv, EngineInv PROVE EngineTypeOK
    OBVIOUS
  <2>1. ASSUME NEW b \in cache PROVE b.by \in Calls /\ b.key.root \in Salts
    <3>1. Written(b)
      BY DEF EngineInv, BlocksWritten
    <3>2. b.by \in Calls /\ pc[b.by] = "answered" /\ b.key.root = plan[b.by].salt
      BY <3>1 DEF Written, Admits, EngineInv, EngineStages
    <3> QED BY <3>2, AnsweredArePlanned DEF Plans
  <2> QED BY <2>1 DEF EngineTypeOK, EngineInv, EngineStages, KeysUnique
<1> QED BY <1>1, EngineInvariant, PTL

\* Whatever the engine runs was logged before, where observations are logged.
THEOREM EngineRunsLogged == EngineSpec => []EngineRunsOnlyLogged
<1>1. EngineInv => EngineRunsOnlyLogged
  BY DEF EngineInv, EngineStages, AnsweredLogged, EngineRunsOnlyLogged
<1> QED BY <1>1, EngineInvariant, PTL

\* A reused block was written by an answered call under the very namespace the
\* reusing call runs in.
LEMMA HitsShareNamespace ==
    ASSUME ControlInv, EngineInv, NEW c \in Planned, NEW b \in hits[c]
    PROVE  /\ c \in Calls /\ b.by \in Calls /\ b.by # c
           /\ pc[c] = "answered" /\ pc[b.by] = "answered"
           /\ plan[c].salt = plan[b.by].salt
           /\ ~Bypasses(c)
<1>1. c \in Calls
  BY DEF Planned
<1>2. Written(b) /\ Admits(c, b) /\ b.by # c /\ stage[c] # "waiting"
  BY <1>1 DEF EngineInv, BlocksWritten
<1> QED BY <1>1, <1>2 DEF Written, Admits, EngineInv, EngineStages

\* A recompute call reuses nothing: natively it bypasses the cache, and on the
\* School host its namespace ends in an id no other call was given.
THEOREM RecomputeIsolated == EngineSpec => []RecomputeReusesNothing
<1>1. ControlInv /\ EngineInv => RecomputeReusesNothing
  <2> SUFFICES ASSUME ControlInv, EngineInv, NEW c \in Planned,
                      plan[c].effective = "recompute", NEW b \in hits[c]
               PROVE  FALSE
    BY DEF RecomputeReusesNothing
  <2>1. PICK d : d = b.by
    OBVIOUS
  <2>2. /\ c \in Calls /\ d \in Calls /\ d # c
        /\ pc[c] = "answered" /\ pc[d] = "answered"
        /\ plan[c].salt = plan[d].salt
        /\ ~Bypasses(c)
    BY <2>1, HitsShareNamespace
  <2>3. env.host = "school"
    BY <2>2, EnvironmentsAssumption DEF Bypasses, ControlInv, PlanInv, TypeOK, IsEnvironment
  <2>4. PICK s, t : s = local[c].sub /\ t = local[d].sub
    OBVIOUS
  <2>5. d \in Planned /\ IsSubmission(s) /\ IsSubmission(t)
    BY <2>2, <2>4, AnsweredArePlanned
  <2>6. plan[c].salt = RequestScopedSalt(s)
    BY <2>4 DEF ControlInv, PlannedSaltsFit, SaltFits
  <2>7. IsRequestScoped(plan[d].salt)
    BY <2>2, <2>5, <2>6, SaltsWellFormed
  <2>8. plan[d].salt = RequestScopedSalt(t)
    BY <2>4, <2>5, <2>7 DEF ControlInv, PlanInv, PlanRealizable, Realizable, RunsRecompute,
                            RunsFullReuse, RunsPartialReuse
  <2>9. /\ Prefix(s) \in Names /\ s.id \in Names /\ Prefix(s) \o s.id \in Names
        /\ Prefix(t) \in Names /\ t.id \in Names /\ Prefix(t) \o t.id \in Names
    BY <2>5, SubmissionNames
  <2>10. PICK salt : salt = plan[c].salt
    OBVIOUS
  <2>11. Prefix(s) \o s.id = Prefix(t) \o t.id
    <3>1. PICK m, n : m = Prefix(s) \o s.id /\ n = Prefix(t) \o t.id
      OBVIOUS
    <3>2. IsSalt(salt, "recompute", m) /\ IsSalt(salt, "recompute", n)
      BY <2>2, <2>6, <2>8, <2>9, <2>10, <3>1, WordsAssumption DEF RequestScopedSalt, IsSalt
    <3>3. m = n
      BY <3>2, SaltInjective
    <3> QED BY <3>1, <3>3
  <2>12. EndsIn(s.id, t.id) \/ EndsIn(t.id, s.id)
    BY <2>9, <2>11, JoinedEnds
  <2>13. Len(s.id) = 1 /\ Len(t.id) = 1 /\ s.id # t.id
    BY <2>2, <2>3, <2>4 DEF ControlInv, IdsDrawn, Arrived
  <2>14. SubSeq(s.id, 1, 1) = s.id /\ SubSeq(t.id, 1, 1) = t.id
    BY <2>9, <2>13, SubSeqFull DEF Names
  <2> QED BY <2>12, <2>13, <2>14 DEF EndsIn
<1> QED BY <1>1, EngineInvariant, PTL

\* Blocks travel only between requests that share the name their common
\* namespace was built from.
THEOREM ReuseStaysWithinIdentity == EngineSpec => []ReuseWithinIdentity
<1>1. RecomputeReusesNothing /\ ControlInv /\ EngineInv => ReuseWithinIdentity
  <2> SUFFICES ASSUME RecomputeReusesNothing, ControlInv, EngineInv,
                      NEW c \in Planned, NEW b \in hits[c]
               PROVE  Identities(local[c].sub) \cap Identities(local[b.by].sub) # {}
    BY DEF ReuseWithinIdentity
  <2>1. PICK d : d = b.by
    OBVIOUS
  <2>2. /\ c \in Calls /\ d \in Calls
        /\ pc[c] = "answered" /\ pc[d] = "answered"
        /\ plan[c].salt = plan[d].salt
    BY <2>1, HitsShareNamespace
  <2>3. /\ IsSubmission(local[c].sub) /\ SaltFits(plan[c], local[c].sub)
        /\ IsSubmission(local[d].sub) /\ SaltFits(plan[d], local[d].sub)
        /\ plan[c].effective \in Actions /\ plan[d].effective \in Actions
        /\ d \in Planned
    BY <2>2, AnsweredArePlanned DEF ControlInv, PlannedSaltsFit
  <2>4. plan[c].effective # "recompute"
    BY DEF RecomputeReusesNothing
  <2>5. plan[d].effective # "recompute"
    <3>1. ~IsRequestScoped(plan[c].salt)
      BY <2>3, <2>4, SaltsWellFormed DEF SaltFits, Actions
    <3> QED BY <2>2, <2>3, <3>1, SaltsWellFormed DEF SaltFits
  <2>6. PICK x \in Identities(local[c].sub) : x \in Names \cup {None} /\ BuiltFrom(plan[c].salt, x)
    BY <2>3, <2>4, SaltNamesIdentity
  <2>7. PICK y \in Identities(local[d].sub) : y \in Names \cup {None} /\ BuiltFrom(plan[d].salt, y)
    BY <2>3, <2>5, SaltNamesIdentity
  <2>8. x = y
    BY <2>2, <2>6, <2>7, BuiltFromOne
  <2> QED BY <2>1, <2>6, <2>7, <2>8
<1> QED BY <1>1, RecomputeIsolated, EngineInvariant, PTL
=============================================================================
