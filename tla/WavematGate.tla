------------------------------ MODULE WavematGate ------------------------------
(***************************************************************************)
(* WavematGateState of wavemat_seam_gate.py: the host-side ownership and   *)
(* generation contract of a per-layer-group buffer.  Every method first    *)
(* walks its checks in order and either raises with the first code that    *)
(* applies, changing nothing but the rejection list, or replaces the slot. *)
(* Producers, consumers and recovery may call in any order, with stale or  *)
(* repeated arguments.                                                     *)
(***************************************************************************)
EXTENDS Integers

CONSTANTS
    Identities,   \* (request, cache, layer range) keys
    Generations,
    Digests,
    NoSlot,
    ReplayReady   \* a producer may announce a generation ready once more after
                  \* its consumer took it

ASSUME GenerationsAssumption == Generations \subseteq Nat \ {0}
ASSUME ReplayAssumption == ReplayReady \in BOOLEAN

VARIABLES
    slots,            \* _slots
    lastGeneration,   \* _last_generation, 0 when there is none
    last,             \* the last call: its name, its rejection code or "ok",
                      \* and the layer groups recover() returned
    readied,          \* history: <<identity, generation>> pairs announced ready,
    grants,           \* how often consume() returned for a pair,
    settled           \* and pairs acknowledged

gateVars == <<slots, lastGeneration, last, readied, grants, settled>>

Pairs == Identities \X Generations
Statuses == {"registered", "ready", "consumed", "acked", "load_failed"}
Slot(g, d, status) == [gen |-> g, digest |-> d, status |-> status]
Slots == [gen : Generations, digest : Digests, status : Statuses]

ASSUME NoSlotAssumption == NoSlot \notin Slots

GateInit ==
    /\ slots = [i \in Identities |-> NoSlot]
    /\ lastGeneration = [i \in Identities |-> 0]
    /\ last = [op |-> "none", code |-> "ok", orphans |-> {}]
    /\ readied = {}
    /\ grants = [p \in Pairs |-> 0]
    /\ settled = {}

-----------------------------------------------------------------------------
(* The checks of each method, in the order of the source.                  *)

\* Mutants: a failed slot may be reused, and the last generation may come back.
RegisterCodeReusesFailed(i, g) ==
    IF slots[i] # NoSlot /\ slots[i].status \notin {"acked", "load_failed"} THEN "reuse_before_ack"
    ELSE IF lastGeneration[i] # 0 /\ g <= lastGeneration[i] THEN "stale_generation"
    ELSE "ok"

RegisterCodeAllowsSame(i, g) ==
    IF slots[i] # NoSlot /\ slots[i].status # "acked" THEN "reuse_before_ack"
    ELSE IF lastGeneration[i] # 0 /\ g < lastGeneration[i] THEN "stale_generation"
    ELSE "ok"

RegisterCode(i, g) ==
    IF slots[i] # NoSlot /\ slots[i].status # "acked" THEN "reuse_before_ack"
    ELSE IF lastGeneration[i] # 0 /\ g = lastGeneration[i] THEN "aba_generation_reuse"
    ELSE IF lastGeneration[i] # 0 /\ g < lastGeneration[i] THEN "stale_generation"
    ELSE "ok"

Unknown(i, g) == slots[i] = NoSlot \/ slots[i].gen # g

LoadFailureCode(i, g) == IF Unknown(i, g) THEN "stale_generation" ELSE "ok"

\* Mutant: a failed load may still be announced ready.
ReadyCodeAfterFailure(i, g, d) ==
    IF Unknown(i, g) THEN "stale_generation"
    ELSE IF slots[i].digest # d THEN "digest_mismatch"
    ELSE "ok"

ReadyCode(i, g, d) ==
    IF Unknown(i, g) THEN "stale_generation"
    ELSE IF slots[i].status = "load_failed" THEN "load_failure"
    ELSE IF slots[i].digest # d THEN "digest_mismatch"
    ELSE "ok"

\* Mutants: the partial check is dropped, and so is the duplicate check.
ConsumeCodeBeforeReady(i, g, d) ==
    IF Unknown(i, g) THEN "stale_generation"
    ELSE IF slots[i].status = "load_failed" THEN "load_failure"
    ELSE IF slots[i].status \in {"consumed", "acked"} THEN "duplicate_consume"
    ELSE IF slots[i].digest # d THEN "digest_mismatch"
    ELSE "ok"

ConsumeCodeAgain(i, g, d) ==
    IF Unknown(i, g) THEN "stale_generation"
    ELSE IF slots[i].status = "load_failed" THEN "load_failure"
    ELSE IF slots[i].status = "registered" THEN "partial_layer_range"
    ELSE IF slots[i].status = "acked" THEN "aba_generation_reuse"
    ELSE IF slots[i].digest # d THEN "digest_mismatch"
    ELSE "ok"

ConsumeCode(i, g, d) ==
    IF Unknown(i, g) THEN "stale_generation"
    ELSE IF slots[i].status = "load_failed" THEN "load_failure"
    ELSE IF slots[i].status = "registered" THEN "partial_layer_range"
    ELSE IF slots[i].status = "consumed" THEN "duplicate_consume"
    ELSE IF slots[i].status = "acked" THEN "aba_generation_reuse"
    ELSE IF slots[i].digest # d THEN "digest_mismatch"
    ELSE "ok"

AckCode(i, g, d) ==
    IF Unknown(i, g) THEN "stale_generation"
    ELSE IF slots[i].status # "consumed" THEN "ack_without_consume"
    ELSE IF slots[i].digest # d THEN "digest_mismatch"
    ELSE "ok"

Report(op, code) == last' = [op |-> op, code |-> code, orphans |-> {}]

SetStatus(i, status) == slots' = [slots EXCEPT ![i].status = status]

-----------------------------------------------------------------------------
(* The methods.                                                            *)

\* Mutant: the next expected generation is stored instead of the last one.
RegisterExpectsNext(i, g, d) ==
    /\ Report("register", RegisterCode(i, g))
    /\ IF RegisterCode(i, g) = "ok"
       THEN /\ slots' = [slots EXCEPT ![i] = Slot(g, d, "registered")]
            /\ lastGeneration' = [lastGeneration EXCEPT ![i] = g + 1]
       ELSE UNCHANGED <<slots, lastGeneration>>
    /\ UNCHANGED <<readied, grants, settled>>

Register(i, g, d) ==
    /\ Report("register", RegisterCode(i, g))
    /\ IF RegisterCode(i, g) = "ok"
       THEN /\ slots' = [slots EXCEPT ![i] = Slot(g, d, "registered")]
            /\ lastGeneration' = [lastGeneration EXCEPT ![i] = g]
       ELSE UNCHANGED <<slots, lastGeneration>>
    /\ UNCHANGED <<readied, grants, settled>>

MarkLoadFailure(i, g) ==
    /\ Report("mark_load_failure", LoadFailureCode(i, g))
    /\ IF LoadFailureCode(i, g) = "ok" THEN SetStatus(i, "load_failed") ELSE UNCHANGED slots
    /\ UNCHANGED <<lastGeneration, readied, grants, settled>>

\* The consumer of the present generation has taken it already.
Taken(i) == slots[i] # NoSlot /\ slots[i].status \in {"consumed", "acked"}

\* The source does not look at the status beyond load_failed.
MarkReady(i, g, d) ==
    /\ ~ReplayReady => ~Taken(i)
    /\ Report("mark_ready", ReadyCode(i, g, d))
    /\ IF ReadyCode(i, g, d) = "ok"
       THEN SetStatus(i, "ready") /\ readied' = readied \cup {<<i, g>>}
       ELSE UNCHANGED <<slots, readied>>
    /\ UNCHANGED <<lastGeneration, grants, settled>>

Consume(i, g, d) ==
    /\ Report("consume", ConsumeCode(i, g, d))
    /\ IF ConsumeCode(i, g, d) = "ok"
       THEN SetStatus(i, "consumed") /\ grants' = [grants EXCEPT ![<<i, g>>] = @ + 1]
       ELSE UNCHANGED <<slots, grants>>
    /\ UNCHANGED <<lastGeneration, readied, settled>>

Ack(i, g, d) ==
    /\ Report("ack", AckCode(i, g, d))
    /\ IF AckCode(i, g, d) = "ok"
       THEN SetStatus(i, "acked") /\ settled' = settled \cup {<<i, g>>}
       ELSE UNCHANGED <<slots, settled>>
    /\ UNCHANGED <<lastGeneration, readied, grants>>

Orphans == {i \in Identities : slots[i] # NoSlot /\
                slots[i].status \in {"registered", "ready", "consumed"}}

Recover ==
    /\ last' = [op |-> "recover", orphans |-> Orphans,
                code |-> IF Orphans = {} THEN "ok" ELSE "orphan_after_recovery"]
    /\ UNCHANGED <<slots, lastGeneration, readied, grants, settled>>

GateNext ==
    \/ \E i \in Identities, g \in Generations :
         \/ MarkLoadFailure(i, g)
         \/ \E d \in Digests : \/ Register(i, g, d)
                               \/ MarkReady(i, g, d)
                               \/ Consume(i, g, d)
                               \/ Ack(i, g, d)
    \/ Recover

GateSpec == GateInit /\ [][GateNext]_gateVars

-----------------------------------------------------------------------------
(* Properties.                                                             *)

GateTypeOK ==
    /\ slots \in [Identities -> Slots \cup {NoSlot}]
    /\ lastGeneration \in [Identities -> Generations \cup {0}]
    /\ grants \in [Pairs -> Nat]
    /\ readied \subseteq Pairs /\ settled \subseteq Pairs
    /\ last.orphans \subseteq Identities

\* A generation is superseded only after its consumer consumed and acknowledged
\* it: every pair that was ever granted or readied and is no longer in the slot
\* has been settled, and nothing is settled that was not granted.
SupersededWereSettled == \A p \in Pairs :
    /\ (p \in readied \/ grants[p] > 0) /\ p \notin settled =>
          slots[p[1]] # NoSlot /\ slots[p[1]].gen = p[2]
    /\ p \in settled => grants[p] > 0

\* Whatever a consumer was granted had been announced ready under that very
\* generation, and generations still to come have no history at all.
GrantsFollowReady == \A p \in Pairs :
    /\ grants[p] > 0 => p \in readied
    /\ p \in readied => p[2] <= lastGeneration[p[1]]

\* A failed load is final: the layer group is never readied, granted,
\* acknowledged or registered again.
LoadFailureFinal == [][\A i \in Identities :
    slots[i] # NoSlot /\ slots[i].status = "load_failed" =>
        /\ slots'[i] = slots[i]
        /\ lastGeneration'[i] = lastGeneration[i]
        /\ \A g \in Generations : grants'[<<i, g>>] = grants[<<i, g>>]]_gateVars

\* No generation is handed to a consumer twice ("duplicate", "ABA").
ConsumeAtMostOnce == \A p \in Pairs : grants[p] <= 1

\* "Return non-acked slots; non-empty means an orphan-buffer violation": recover()
\* returns every layer group whose consumer took its generation and has not
\* acknowledged it.
RecoverFindsOrphans == last.op = "recover" =>
    \A i \in Identities : slots[i] # NoSlot =>
        LET p == <<i, slots[i].gen>>
        IN  grants[p] > 0 /\ p \notin settled => i \in last.orphans

-----------------------------------------------------------------------------
(* The gate implements its contract while producers do not replay ready.   *)

PhaseName == [registered |-> "offered", ready |-> "available", consumed |-> "granted",
              acked |-> "released", load_failed |-> "failed"]

PhaseOf(slot) == IF slot = NoSlot THEN "free" ELSE PhaseName[slot.status]

Contract == INSTANCE GateContract WITH
    phase <- [i \in Identities |-> PhaseOf(slots[i])],
    generation <- lastGeneration

ImplementsContract == Contract!ContractSpec
=============================================================================
