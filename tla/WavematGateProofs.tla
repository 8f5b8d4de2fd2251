--------------------------- MODULE WavematGateProofs ---------------------------
(***************************************************************************)
(* Machine-checked facts about the seam gate, for every set of layer       *)
(* groups, generations and digests, and whether or not producers replay    *)
(* ready announcements; only the at-most-once grant and the contract need  *)
(* the assumption that they do not.                                        *)
(***************************************************************************)
EXTENDS WavematGate, TLAPS

\* The slot holds the newest generation, and its status is backed by history.
SlotInv == \A i \in Identities :
    /\ slots[i] = NoSlot => lastGeneration[i] = 0
    /\ slots[i] # NoSlot =>
         /\ slots[i].gen = lastGeneration[i]
         /\ slots[i].status = "ready" => <<i, slots[i].gen>> \in readied
         /\ slots[i].status = "consumed" => grants[<<i, slots[i].gen>>] > 0
         /\ slots[i].status = "acked" => <<i, slots[i].gen>> \in settled

GateInv == GateTypeOK /\ SlotInv /\ SupersededWereSettled /\ GrantsFollowReady

LEMMA GenerationsAreNat ==
    ASSUME GateTypeOK
    PROVE  /\ \A g \in Generations : g \in Nat /\ g # 0
           /\ \A i \in Identities : lastGeneration[i] \in Nat
<1>1. lastGeneration \in [Identities -> Generations \cup {0}]
  BY DEF GateTypeOK
<1>2. \A g \in Generations : g \in Nat /\ g # 0
  BY GenerationsAssumption
<1> QED BY <1>1, <1>2

\* What a call that was not rejected does to the slot it names.
LEMMA RegisterEffect ==
    ASSUME GateTypeOK, NEW i \in Identities, NEW g \in Generations, NEW d \in Digests,
           Register(i, g, d), RegisterCode(i, g) = "ok"
    PROVE  /\ slots' = [slots EXCEPT ![i] = Slot(g, d, "registered")]
           /\ slots'[i] \in Slots /\ slots'[i] # NoSlot
           /\ slots'[i].gen = g /\ slots'[i].status = "registered"
           /\ \A j \in Identities \ {i} : slots'[j] = slots[j]
           /\ lastGeneration'[i] = g
           /\ \A j \in Identities \ {i} : lastGeneration'[j] = lastGeneration[j]
           /\ slots[i] = NoSlot \/ slots[i].status = "acked"
           /\ lastGeneration[i] = 0 \/ g > lastGeneration[i]
<1>1. Slot(g, d, "registered") \in Slots
  BY DEF Slot, Slots, Statuses
<1>2. lastGeneration[i] \in Nat /\ g \in Nat
  BY GenerationsAreNat
<1> QED BY <1>1, <1>2, NoSlotAssumption DEF Register, RegisterCode, GateTypeOK, Slot

LEMMA SetStatusEffect ==
    ASSUME GateTypeOK, NEW i \in Identities, NEW st \in Statuses,
           slots[i] # NoSlot, SetStatus(i, st)
    PROVE  /\ slots'[i] \in Slots /\ slots'[i] # NoSlot
           /\ slots'[i].gen = slots[i].gen /\ slots'[i].status = st
           /\ slots'[i].digest = slots[i].digest
           /\ \A j \in Identities \ {i} : slots'[j] = slots[j]
           /\ slots' \in [Identities -> Slots \cup {NoSlot}]
<1>1. slots[i] \in Slots
  BY DEF GateTypeOK
<1>2. slots'[i] = [slots[i] EXCEPT !.status = st] /\ \A j \in Identities \ {i} : slots'[j] = slots[j]
  BY DEF SetStatus, GateTypeOK
<1>3. [slots[i] EXCEPT !.status = st] \in Slots
  BY <1>1 DEF Slots
<1>4. slots' = [slots EXCEPT ![i] = [slots[i] EXCEPT !.status = st]]
  BY DEF SetStatus
<1> QED BY <1>1, <1>2, <1>3, <1>4, NoSlotAssumption DEF Slots, GateTypeOK

-----------------------------------------------------------------------------
(* The invariant.                                                          *)

LEMMA GateInvInit == GateInit => GateInv
BY DEF GateInit, GateInv, GateTypeOK, SlotInv, SupersededWereSettled, GrantsFollowReady,
       Pairs

LEMMA GateInvRegister ==
    ASSUME GateInv, NEW i \in Identities, NEW g \in Generations, NEW d \in Digests,
           Register(i, g, d)
    PROVE  GateInv'
<1> USE DEF GateInv
<1>1. CASE RegisterCode(i, g) # "ok"
  BY <1>1 DEF Register, Report, GateTypeOK, SlotInv, SupersededWereSettled, GrantsFollowReady
<1>2. CASE RegisterCode(i, g) = "ok"
  <2>1. /\ slots' = [slots EXCEPT ![i] = Slot(g, d, "registered")]
        /\ slots'[i] \in Slots /\ slots'[i] # NoSlot
        /\ slots'[i].gen = g /\ slots'[i].status = "registered"
        /\ \A j \in Identities \ {i} : slots'[j] = slots[j]
        /\ lastGeneration'[i] = g
        /\ \A j \in Identities \ {i} : lastGeneration'[j] = lastGeneration[j]
        /\ slots[i] = NoSlot \/ slots[i].status = "acked"
        /\ lastGeneration[i] = 0 \/ g > lastGeneration[i]
    BY <1>2, RegisterEffect
  <2>2. UNCHANGED <<readied, grants, settled>>
    BY DEF Register
  <2>3. GateTypeOK'
    BY <1>2, <2>1 DEF Register, Report, GateTypeOK
  <2>4. SlotInv'
    BY <2>1, <2>2 DEF SlotInv
  <2>5. GrantsFollowReady'
    <3> SUFFICES ASSUME NEW p \in Pairs, p \in readied PROVE p[2] <= lastGeneration'[p[1]]
      BY <2>2 DEF GrantsFollowReady
    <3>1. p[2] \in Nat /\ p[1] \in Identities /\ p[2] <= lastGeneration[p[1]]
      BY GenerationsAssumption DEF GrantsFollowReady, Pairs
    <3>2. lastGeneration[p[1]] \in Nat /\ g \in Nat
      BY <3>1, GenerationsAreNat
    <3> QED BY <2>1, <3>1, <3>2
  <2>6. SupersededWereSettled'
    <3> SUFFICES ASSUME NEW p \in Pairs, p \in readied \/ grants[p] > 0, p \notin settled
                 PROVE  slots'[p[1]] # NoSlot /\ slots'[p[1]].gen = p[2]
      BY <2>2 DEF SupersededWereSettled
    <3>1. /\ p[1] \in Identities /\ p = <<p[1], p[2]>>
          /\ slots[p[1]] # NoSlot /\ slots[p[1]].gen = p[2]
      BY DEF SupersededWereSettled, Pairs
    <3>2. p[1] # i
      BY <2>1, <3>1 DEF SlotInv
    <3> QED BY <2>1, <3>1, <3>2
  <2> QED BY <2>3, <2>4, <2>5, <2>6
<1> QED BY <1>1, <1>2

LEMMA GateInvMarkLoadFailure ==
    ASSUME GateInv, NEW i \in Identities, NEW g \in Generations, MarkLoadFailure(i, g)
    PROVE  GateInv'
<1> USE DEF GateInv
<1>1. CASE LoadFailureCode(i, g) # "ok"
  BY <1>1 DEF MarkLoadFailure, Report, GateTypeOK, SlotInv, SupersededWereSettled,
              GrantsFollowReady
<1>2. CASE LoadFailureCode(i, g) = "ok"
  <2>1. slots[i] # NoSlot /\ SetStatus(i, "load_failed")
    BY <1>2 DEF MarkLoadFailure, LoadFailureCode, Unknown
  <2>2. /\ slots'[i] # NoSlot
        /\ slots'[i].gen = slots[i].gen /\ slots'[i].status = "load_failed"
        /\ \A j \in Identities \ {i} : slots'[j] = slots[j]
        /\ slots' \in [Identities -> Slots \cup {NoSlot}]
    BY <2>1, SetStatusEffect DEF Statuses
  <2>3. UNCHANGED <<lastGeneration, readied, grants, settled>> /\ last'.orphans = {}
    BY DEF MarkLoadFailure, Report
  <2>4. GateTypeOK' /\ GrantsFollowReady'
    BY <2>2, <2>3 DEF GateTypeOK, GrantsFollowReady
  <2>5. SlotInv'
    BY <2>1, <2>2, <2>3 DEF SlotInv
  <2>6. SupersededWereSettled'
    BY <2>1, <2>2, <2>3 DEF SupersededWereSettled, Pairs
  <2> QED BY <2>4, <2>5, <2>6
<1> QED BY <1>1, <1>2

LEMMA GateInvMarkReady ==
    ASSUME GateInv, NEW i \in Identities, NEW g \in Generations, NEW d \in Digests,
           MarkReady(i, g, d)
    PROVE  GateInv'
<1> USE DEF GateInv
<1>1. CASE ReadyCode(i, g, d) # "ok"
  BY <1>1 DEF MarkReady, Report, GateTypeOK, SlotInv, SupersededWereSettled,
              GrantsFollowReady
<1>2. CASE ReadyCode(i, g, d) = "ok"
  <2>1. slots[i] # NoSlot /\ slots[i].gen = g /\ SetStatus(i, "ready")
    BY <1>2 DEF MarkReady, ReadyCode, Unknown
  <2>2. /\ slots'[i] # NoSlot
        /\ slots'[i].gen = slots[i].gen /\ slots'[i].status = "ready"
        /\ \A j \in Identities \ {i} : slots'[j] = slots[j]
        /\ slots' \in [Identities -> Slots \cup {NoSlot}]
    BY <2>1, SetStatusEffect DEF Statuses
  <2>3. /\ UNCHANGED <<lastGeneration, grants, settled>>
        /\ readied' = readied \cup {<<i, g>>} /\ last'.orphans = {}
    BY <1>2 DEF MarkReady, Report
  <2>4. <<i, g>> \in Pairs /\ g = lastGeneration[i] /\ g \in Nat
    BY <2>1, GenerationsAssumption DEF Pairs, SlotInv
  <2>5. GateTypeOK'
    BY <2>2, <2>3, <2>4 DEF GateTypeOK
  <2>6. GrantsFollowReady'
    BY <2>3, <2>4 DEF GrantsFollowReady
  <2>7. SlotInv'
    BY <2>1, <2>2, <2>3 DEF SlotInv
  <2>8. SupersededWereSettled'
    BY <2>1, <2>2, <2>3 DEF SupersededWereSettled, Pairs
  <2> QED BY <2>5, <2>6, <2>7, <2>8
<1> QED BY <1>1, <1>2

LEMMA GateInvConsume ==
    ASSUME GateInv, NEW i \in Identities, NEW g \in Generations, NEW d \in Digests,
           Consume(i, g, d)
    PROVE  GateInv'
<1> USE DEF GateInv
<1>1. CASE ConsumeCode(i, g, d) # "ok"
  BY <1>1 DEF Consume, Report, GateTypeOK, SlotInv, SupersededWereSettled, GrantsFollowReady
<1>2. CASE ConsumeCode(i, g, d) = "ok"
  <2>1. /\ slots[i] # NoSlot /\ slots[i].gen = g /\ slots[i].status = "ready"
        /\ SetStatus(i, "consumed")
    BY <1>2 DEF Consume, ConsumeCode, Unknown, GateTypeOK, Slots, Statuses
  <2>2. /\ slots'[i] # NoSlot
        /\ slots'[i].gen = slots[i].gen /\ slots'[i].status = "consumed"
        /\ \A j \in Identities \ {i} : slots'[j] = slots[j]
        /\ slots' \in [Identities -> Slots \cup {NoSlot}]
    BY <2>1, SetStatusEffect DEF Statuses
  <2>3. <<i, g>> \in Pairs /\ <<i, g>> \in readied
    BY <2>1 DEF Pairs, SlotInv
  <2>4. /\ UNCHANGED <<lastGeneration, readied, settled>> /\ last'.orphans = {}
        /\ grants'[<<i, g>>] = grants[<<i, g>>] + 1 /\ grants' \in [Pairs -> Nat]
        /\ \A p \in Pairs \ {<<i, g>>} : grants'[p] = grants[p]
    BY <1>2, <2>3 DEF Consume, Report, GateTypeOK
  <2>5. grants[<<i, g>>] \in Nat
    BY <2>3 DEF GateTypeOK
  <2>6. GateTypeOK'
    BY <2>2, <2>4 DEF GateTypeOK
  <2>7. GrantsFollowReady'
    BY <2>3, <2>4 DEF GrantsFollowReady
  <2>8. SlotInv'
    <3> SUFFICES ASSUME NEW j \in Identities
                 PROVE  /\ slots'[j] = NoSlot => lastGeneration'[j] = 0
                        /\ slots'[j] # NoSlot =>
                             /\ slots'[j].gen = lastGeneration'[j]
                             /\ slots'[j].status = "ready" => <<j, slots'[j].gen>> \in readied'
                             /\ slots'[j].status = "consumed" => grants'[<<j, slots'[j].gen>>] > 0
                             /\ slots'[j].status = "acked" => <<j, slots'[j].gen>> \in settled'
      BY DEF SlotInv
    <3>1. CASE j = i
      BY <2>1, <2>2, <2>4, <2>5, <3>1 DEF SlotInv
    <3>2. CASE j # i
      <4>1. slots'[j] = slots[j]
        BY <2>2, <3>2
      <4>2. slots[j] # NoSlot => /\ <<j, slots[j].gen>> \in Pairs
                                 /\ <<j, slots[j].gen>> # <<i, g>>
        BY <3>2 DEF GateTypeOK, Slots, Pairs
      <4> QED BY <2>4, <4>1, <4>2 DEF SlotInv
    <3> QED BY <3>1, <3>2
  <2>9. SupersededWereSettled'
    BY <2>1, <2>2, <2>3, <2>4, <2>5 DEF SupersededWereSettled, Pairs
  <2> QED BY <2>6, <2>7, <2>8, <2>9
<1> QED BY <1>1, <1>2

LEMMA GateInvAck ==
    ASSUME GateInv, NEW i \in Identities, NEW g \in Generations, NEW d \in Digests,
           Ack(i, g, d)
    PROVE  GateInv'
<1> USE DEF GateInv
<1>1. CASE AckCode(i, g, d) # "ok"
  BY <1>1 DEF Ack, Report, GateTypeOK, SlotInv, SupersededWereSettled, GrantsFollowReady
<1>2. CASE AckCode(i, g, d) = "ok"
  <2>1. /\ slots[i] # NoSlot /\ slots[i].gen = g /\ slots[i].status = "consumed"
        /\ SetStatus(i, "acked")
    BY <1>2 DEF Ack, AckCode, Unknown
  <2>2. /\ slots'[i] # NoSlot
        /\ slots'[i].gen = slots[i].gen /\ slots'[i].status = "acked"
        /\ \A j \in Identities \ {i} : slots'[j] = slots[j]
        /\ slots' \in [Identities -> Slots \cup {NoSlot}]
    BY <2>1, SetStatusEffect DEF Statuses
  <2>3. /\ UNCHANGED <<lastGeneration, readied, grants>> /\ last'.orphans = {}
        /\ settled' = settled \cup {<<i, g>>} /\ <<i, g>> \in Pairs
    BY <1>2 DEF Ack, Report, Pairs
  <2>4. grants[<<i, g>>] > 0
    BY <2>1 DEF SlotInv
  <2>5. GateTypeOK' /\ GrantsFollowReady'
    BY <2>2, <2>3 DEF GateTypeOK, GrantsFollowReady
  <2>6. SlotInv'
    BY <2>1, <2>2, <2>3 DEF SlotInv
  <2>7. SupersededWereSettled'
    BY <2>1, <2>2, <2>3, <2>4 DEF SupersededWereSettled, Pairs
  <2> QED BY <2>5, <2>6, <2>7
<1> QED BY <1>1, <1>2

LEMMA GateInvNext == GateInv /\ [GateNext]_gateVars => GateInv'
<1> SUFFICES ASSUME GateInv, [GateNext]_gateVars PROVE GateInv'
  OBVIOUS
<1>1. CASE Recover
  BY <1>1 DEF Recover, GateInv, GateTypeOK, SlotInv, SupersededWereSettled,
              GrantsFollowReady, Orphans
<1>2. CASE UNCHANGED gateVars
  BY <1>2 DEF gateVars, GateInv, GateTypeOK, SlotInv, SupersededWereSettled,
              GrantsFollowReady
<1> QED BY <1>1, <1>2, GateInvRegister, GateInvMarkLoadFailure, GateInvMarkReady,
           GateInvConsume, GateInvAck DEF GateNext

LEMMA GateInvHolds == GateSpec => []GateInv
BY GateInvInit, GateInvNext, PTL DEF GateSpec

\* The gate's slots, generations and histories keep their types.
THEOREM GateTypeCorrect == GateSpec => []GateTypeOK
<1>1. GateInv => GateTypeOK
  BY DEF GateInv
<1> QED BY GateInvHolds, <1>1, PTL

\* No generation is superseded before its consumer acknowledged it.
THEOREM GateSupersedesSettled == GateSpec => []SupersededWereSettled
<1>1. GateInv => SupersededWereSettled
  BY DEF GateInv
<1> QED BY GateInvHolds, <1>1, PTL

\* No generation is granted before it was announced ready.
THEOREM GateGrantsReady == GateSpec => []GrantsFollowReady
<1>1. GateInv => GrantsFollowReady
  BY DEF GateInv
<1> QED BY GateInvHolds, <1>1, PTL

-----------------------------------------------------------------------------
(* A failed load.                                                          *)

Untouched(i) == /\ slots'[i] = slots[i]
                /\ lastGeneration'[i] = lastGeneration[i]
                /\ \A g \in Generations : grants'[<<i, g>>] = grants[<<i, g>>]

LEMMA FailedSlotStays ==
    ASSUME GateInv, [GateNext]_gateVars, NEW i \in Identities,
           slots[i] # NoSlot, slots[i].status = "load_failed"
    PROVE  Untouched(i)
<1>1. GateTypeOK /\ slots[i] \in Slots
  BY DEF GateInv, GateTypeOK
<1>2. ASSUME NEW j \in Identities, NEW st \in Statuses, SetStatus(j, st), j # i
      PROVE  slots'[i] = slots[i]
  BY <1>1, <1>2 DEF SetStatus, GateTypeOK
<1>3. ASSUME NEW j \in Identities, NEW g \in Generations, NEW d \in Digests, Register(j, g, d)
      PROVE  Untouched(i)
  <2>1. CASE RegisterCode(j, g) = "ok"
    BY <1>1, <1>3, <2>1, RegisterEffect DEF Register, Untouched
  <2>2. CASE RegisterCode(j, g) # "ok"
    BY <1>3, <2>2 DEF Register, Untouched
  <2> QED BY <2>1, <2>2
<1>4. ASSUME NEW j \in Identities, NEW g \in Generations, MarkLoadFailure(j, g)
      PROVE  Untouched(i)
  <2>1. CASE LoadFailureCode(j, g) # "ok" \/ j # i
    BY <1>2, <1>4, <2>1 DEF MarkLoadFailure, Statuses, Untouched
  <2>2. CASE LoadFailureCode(j, g) = "ok" /\ j = i
    <3>1. slots' = [slots EXCEPT ![i] = [slots[i] EXCEPT !.status = "load_failed"]]
      BY <1>4, <2>2 DEF MarkLoadFailure, SetStatus
    <3>2. [slots[i] EXCEPT !.status = "load_failed"] = slots[i]
      BY <1>1 DEF Slots
    <3> QED BY <1>1, <3>1, <3>2, <1>4 DEF GateTypeOK, MarkLoadFailure, Untouched
  <2> QED BY <2>1, <2>2
<1>5. ASSUME NEW j \in Identities, NEW g \in Generations, NEW d \in Digests, MarkReady(j, g, d)
      PROVE  Untouched(i)
  BY <1>2, <1>5 DEF MarkReady, ReadyCode, Unknown, Statuses, Untouched
<1>6. ASSUME NEW j \in Identities, NEW g \in Generations, NEW d \in Digests, Ack(j, g, d)
      PROVE  Untouched(i)
  BY <1>2, <1>6 DEF Ack, AckCode, Unknown, Statuses, Untouched
<1>7. ASSUME NEW j \in Identities, NEW g \in Generations, NEW d \in Digests, Consume(j, g, d)
      PROVE  Untouched(i)
  <2>1. CASE ConsumeCode(j, g, d) = "ok"
    <3>1. j # i
      BY <2>1 DEF ConsumeCode, Unknown
    <3>2. SetStatus(j, "consumed") /\ grants' = [grants EXCEPT ![<<j, g>>] = @ + 1]
      BY <1>7, <2>1 DEF Consume
    <3>3. \A h \in Generations : <<i, h>> \in Pairs /\ <<i, h>> # <<j, g>>
      BY <3>1 DEF Pairs
    <3>4. grants \in [Pairs -> Nat]
      BY <1>1 DEF GateTypeOK
    <3> QED BY <1>2, <3>1, <3>2, <3>3, <3>4, <1>7 DEF Statuses, Consume, Untouched
  <2>2. CASE ConsumeCode(j, g, d) # "ok"
    BY <1>7, <2>2 DEF Consume, Untouched
  <2> QED BY <2>1, <2>2
<1>8. CASE Recover
  BY <1>8 DEF Recover, Untouched
<1>9. CASE UNCHANGED gateVars
  BY <1>9 DEF gateVars, Untouched
<1>10. ASSUME NEW j \in Identities, NEW g \in Generations,
              \/ MarkLoadFailure(j, g)
              \/ \E d \in Digests : \/ Register(j, g, d) \/ MarkReady(j, g, d)
                                    \/ Consume(j, g, d) \/ Ack(j, g, d)
       PROVE  Untouched(i)
  BY <1>3, <1>4, <1>5, <1>6, <1>7, <1>10
<1> QED BY <1>8, <1>9, <1>10 DEF GateNext

\* A layer group whose load failed is never readied, granted, acknowledged or
\* registered again.
THEOREM GateFailuresFinal == GateSpec => LoadFailureFinal
<1>1. GateInv /\ [GateNext]_gateVars =>
        [\A i \in Identities :
           slots[i] # NoSlot /\ slots[i].status = "load_failed" =>
             /\ slots'[i] = slots[i]
             /\ lastGeneration'[i] = lastGeneration[i]
             /\ \A g \in Generations : grants'[<<i, g>>] = grants[<<i, g>>]]_gateVars
  BY FailedSlotStays DEF Untouched
<1> QED BY <1>1, GateInvHolds, PTL DEF GateSpec, LoadFailureFinal

-----------------------------------------------------------------------------
(* At most one grant per generation, while producers do not replay ready.  *)

\* A generation that is still to be consumed has not been granted.
OnceInv ==
    /\ ConsumeAtMostOnce
    /\ \A i \in Identities :
         slots[i] # NoSlot /\ slots[i].status \in {"registered", "ready"} =>
           grants[<<i, slots[i].gen>>] = 0

LEMMA OnceConsume ==
    ASSUME GateInv, OnceInv, NEW i \in Identities, NEW g \in Generations,
           NEW d \in Digests, Consume(i, g, d)
    PROVE  OnceInv'
<1>1. CASE ConsumeCode(i, g, d) # "ok"
  BY <1>1 DEF Consume, OnceInv, ConsumeAtMostOnce
<1>2. CASE ConsumeCode(i, g, d) = "ok"
  <2>1. /\ slots[i] # NoSlot /\ slots[i].gen = g /\ slots[i].status = "ready"
        /\ SetStatus(i, "consumed")
    BY <1>2 DEF Consume, ConsumeCode, Unknown, GateInv, GateTypeOK, Slots, Statuses
  <2>2. /\ slots'[i].status = "consumed"
        /\ \A j \in Identities \ {i} : slots'[j] = slots[j]
    BY <2>1, SetStatusEffect DEF Statuses, GateInv
  <2>3. <<i, g>> \in Pairs /\ grants \in [Pairs -> Nat]
    BY DEF Pairs, GateInv, GateTypeOK
  <2>4. grants' = [grants EXCEPT ![<<i, g>>] = @ + 1] /\ grants[<<i, g>>] = 0
    BY <1>2, <2>1 DEF Consume, OnceInv
  <2>5. ConsumeAtMostOnce'
    BY <2>3, <2>4 DEF OnceInv, ConsumeAtMostOnce
  <2>6. ASSUME NEW j \in Identities, slots'[j] # NoSlot,
               slots'[j].status \in {"registered", "ready"}
        PROVE  grants'[<<j, slots'[j].gen>>] = 0
    <3>1. j # i /\ slots'[j] = slots[j]
      BY <2>2, <2>6
    <3>2. <<j, slots[j].gen>> \in Pairs /\ <<j, slots[j].gen>> # <<i, g>>
      BY <2>6, <3>1 DEF GateInv, GateTypeOK, Slots, Pairs
    <3> QED BY <2>3, <2>4, <2>6, <3>1, <3>2 DEF OnceInv
  <2> QED BY <2>5, <2>6 DEF OnceInv
<1> QED BY <1>1, <1>2

LEMMA OnceRegister ==
    ASSUME GateInv, OnceInv, NEW i \in Identities, NEW g \in Generations,
           NEW d \in Digests, Register(i, g, d)
    PROVE  OnceInv'
<1>1. CASE RegisterCode(i, g) # "ok"
  BY <1>1 DEF Register, OnceInv, ConsumeAtMostOnce
<1>2. CASE RegisterCode(i, g) = "ok"
  <2>1. /\ slots'[i].gen = g /\ \A j \in Identities \ {i} : slots'[j] = slots[j]
        /\ lastGeneration[i] = 0 \/ g > lastGeneration[i]
    BY <1>2, RegisterEffect DEF GateInv
  <2>2. grants' = grants
    BY DEF Register
  <2>3. grants[<<i, g>>] = 0
    <3>1. <<i, g>> \in Pairs /\ grants[<<i, g>>] \in Nat
      BY DEF Pairs, GateInv, GateTypeOK
    <3>2. g \in Nat /\ g # 0 /\ lastGeneration[i] \in Nat
      BY GenerationsAreNat DEF GateInv
    <3> QED BY <2>1, <3>1, <3>2 DEF GateInv, GrantsFollowReady
  <2> QED BY <2>1, <2>2, <2>3 DEF OnceInv, ConsumeAtMostOnce
<1> QED BY <1>1, <1>2

LEMMA OnceStatus ==
    ASSUME GateInv, OnceInv, NEW i \in Identities, NEW st \in Statuses,
           slots[i] # NoSlot, SetStatus(i, st), UNCHANGED grants,
           st \in {"registered", "ready"} => slots[i].status \in {"registered", "ready"}
    PROVE  OnceInv'
BY SetStatusEffect DEF GateInv, OnceInv, ConsumeAtMostOnce

LEMMA OnceMarkReady ==
    ASSUME ~ReplayReady, GateInv, OnceInv, NEW i \in Identities, NEW g \in Generations,
           NEW d \in Digests, MarkReady(i, g, d)
    PROVE  OnceInv'
<1>1. CASE ReadyCode(i, g, d) # "ok"
  BY <1>1 DEF MarkReady, OnceInv, ConsumeAtMostOnce
<1>2. CASE ReadyCode(i, g, d) = "ok"
  <2>1. slots[i] # NoSlot /\ SetStatus(i, "ready") /\ UNCHANGED grants
    BY <1>2 DEF MarkReady, ReadyCode, Unknown
  <2>2. slots[i].status \in {"registered", "ready"}
    BY <1>2, <2>1 DEF MarkReady, ReadyCode, Taken, GateInv, GateTypeOK, Slots, Statuses
  <2> QED BY <2>1, <2>2, OnceStatus DEF Statuses
<1> QED BY <1>1, <1>2

LEMMA OnceNext == ~ReplayReady /\ GateInv /\ OnceInv /\ [GateNext]_gateVars => OnceInv'
<1> SUFFICES ASSUME ~ReplayReady, GateInv, OnceInv, [GateNext]_gateVars PROVE OnceInv'
  OBVIOUS
<1>1. ASSUME NEW i \in Identities, NEW g \in Generations, MarkLoadFailure(i, g)
      PROVE  OnceInv'
  <2>1. CASE LoadFailureCode(i, g) # "ok"
    BY <1>1, <2>1 DEF MarkLoadFailure, OnceInv, ConsumeAtMostOnce
  <2>2. CASE LoadFailureCode(i, g) = "ok"
    BY <1>1, <2>2, OnceStatus DEF MarkLoadFailure, LoadFailureCode, Unknown, Statuses
  <2> QED BY <2>1, <2>2
<1>2. ASSUME NEW i \in Identities, NEW g \in Generations, NEW d \in Digests, Ack(i, g, d)
      PROVE  OnceInv'
  <2>1. CASE AckCode(i, g, d) # "ok"
    BY <1>2, <2>1 DEF Ack, OnceInv, ConsumeAtMostOnce
  <2>2. CASE AckCode(i, g, d) = "ok"
    BY <1>2, <2>2, OnceStatus DEF Ack, AckCode, Unknown, Statuses
  <2> QED BY <2>1, <2>2
<1>3. CASE Recover \/ UNCHANGED gateVars
  BY <1>3 DEF Recover, gateVars, OnceInv, ConsumeAtMostOnce
<1>4. ASSUME NEW i \in Identities, NEW g \in Generations,
             \/ MarkLoadFailure(i, g)
             \/ \E d \in Digests : \/ Register(i, g, d) \/ MarkReady(i, g, d)
                                   \/ Consume(i, g, d) \/ Ack(i, g, d)
      PROVE  OnceInv'
  BY <1>1, <1>2, <1>4, OnceRegister, OnceMarkReady, OnceConsume
<1> QED BY <1>3, <1>4 DEF GateNext

\* When no ready announcement follows its generation's consumption, a generation
\* is handed to a consumer at most once.
THEOREM GateConsumesOnce == ~ReplayReady /\ GateSpec => []ConsumeAtMostOnce
<1>1. GateInit => OnceInv
  BY DEF GateInit, OnceInv, ConsumeAtMostOnce, Pairs
<1>2. OnceInv => ConsumeAtMostOnce
  BY DEF OnceInv
<1>3. CASE ReplayReady
  BY <1>3
<1>4. CASE ~ReplayReady
  <2>1. GateInv /\ OnceInv /\ [GateNext]_gateVars => OnceInv'
    BY <1>4, OnceNext
  <2> QED BY <1>1, <1>2, <2>1, GateInvHolds, PTL DEF GateSpec
<1> QED BY <1>3, <1>4

-----------------------------------------------------------------------------
(* The gate implements its contract, while producers do not replay ready.  *)

PhaseMap == [i \in Identities |-> PhaseOf(slots[i])]

\* A status change of one slot is the same move of that layer group's phase.
LEMMA StatusMovesPhase ==
    ASSUME GateTypeOK, NEW i \in Identities, NEW st \in Statuses,
           slots[i] # NoSlot, SetStatus(i, st)
    PROVE  PhaseMap' = [PhaseMap EXCEPT ![i] = PhaseOf(slots'[i])]
BY SetStatusEffect DEF PhaseMap

LEMMA RegisterOffers ==
    ASSUME GateInv, NEW i \in Identities, NEW g \in Generations, NEW d \in Digests,
           Register(i, g, d)
    PROVE  [Contract!ContractNext]_<<PhaseMap, lastGeneration>>
<1>1. CASE RegisterCode(i, g) # "ok"
  BY <1>1 DEF Register, PhaseMap
<1>2. CASE RegisterCode(i, g) = "ok"
  <2>1. /\ slots'[i] # NoSlot /\ slots'[i].status = "registered"
        /\ \A j \in Identities \ {i} : slots'[j] = slots[j]
        /\ slots[i] = NoSlot \/ slots[i].status = "acked"
        /\ lastGeneration[i] = 0 \/ g > lastGeneration[i]
    BY <1>2, RegisterEffect DEF GateInv
  <2>2. PhaseMap' = [PhaseMap EXCEPT ![i] = "offered"]
    <3>1. PhaseOf(slots'[i]) = "offered"
      BY <2>1 DEF PhaseOf, PhaseName
    <3> QED BY <2>1, <3>1 DEF PhaseMap
  <2>3. PhaseMap[i] \in {"free", "released"}
    BY <2>1 DEF PhaseMap, PhaseOf, PhaseName
  <2>4. g > lastGeneration[i] /\ lastGeneration' = [lastGeneration EXCEPT ![i] = g]
    BY <1>2, <2>1, GenerationsAreNat DEF Register, GateInv
  <2>5. Contract!Offer(i, g)
    BY <2>2, <2>3, <2>4 DEF Contract!Offer, Contract!Move, PhaseMap
  <2> QED BY <2>5 DEF Contract!ContractNext
<1> QED BY <1>1, <1>2

LEMMA FailureFails ==
    ASSUME GateInv, NEW i \in Identities, NEW g \in Generations, MarkLoadFailure(i, g)
    PROVE  [Contract!ContractNext]_<<PhaseMap, lastGeneration>>
<1>1. CASE LoadFailureCode(i, g) # "ok"
  BY <1>1 DEF MarkLoadFailure, PhaseMap
<1>2. CASE LoadFailureCode(i, g) = "ok"
  <2>1. slots[i] # NoSlot /\ slots[i] \in Slots /\ SetStatus(i, "load_failed")
        /\ UNCHANGED lastGeneration
    BY <1>2 DEF MarkLoadFailure, LoadFailureCode, Unknown, GateInv, GateTypeOK
  <2>2. PhaseOf(slots'[i]) = "failed"
    BY <2>1, SetStatusEffect DEF PhaseOf, PhaseName, Statuses, GateInv
  <2>3. PhaseMap' = [PhaseMap EXCEPT ![i] = "failed"]
    BY <2>1, <2>2, StatusMovesPhase DEF Statuses, GateInv
  <2>4. CASE slots[i].status = "load_failed"
    <3>1. PhaseMap[i] = "failed"
      BY <2>1, <2>4 DEF PhaseMap, PhaseOf, PhaseName
    <3> QED BY <2>1, <2>3, <3>1 DEF PhaseMap
  <2>5. CASE slots[i].status # "load_failed"
    <3>1. PhaseMap[i] \in {"offered", "available", "granted", "released"}
      BY <2>1, <2>5 DEF PhaseMap, PhaseOf, PhaseName, Slots, Statuses
    <3>2. Contract!Fail(i)
      BY <2>1, <2>3, <3>1 DEF Contract!Fail, Contract!Move, PhaseMap
    <3> QED BY <3>2 DEF Contract!ContractNext
  <2> QED BY <2>4, <2>5
<1> QED BY <1>1, <1>2

LEMMA ReadyPublishes ==
    ASSUME ~ReplayReady, GateInv, NEW i \in Identities, NEW g \in Generations,
           NEW d \in Digests, MarkReady(i, g, d)
    PROVE  [Contract!ContractNext]_<<PhaseMap, lastGeneration>>
<1>1. CASE ReadyCode(i, g, d) # "ok"
  BY <1>1 DEF MarkReady, PhaseMap
<1>2. CASE ReadyCode(i, g, d) = "ok"
  <2>1. slots[i] # NoSlot /\ slots[i] \in Slots /\ SetStatus(i, "ready")
        /\ UNCHANGED lastGeneration
    BY <1>2 DEF MarkReady, ReadyCode, Unknown, GateInv, GateTypeOK
  <2>2. slots[i].status \in {"registered", "ready"}
    BY <1>2, <2>1 DEF MarkReady, ReadyCode, Taken, Slots, Statuses
  <2>3. PhaseOf(slots'[i]) = "available"
    BY <2>1, SetStatusEffect DEF PhaseOf, PhaseName, Statuses, GateInv
  <2>4. PhaseMap' = [PhaseMap EXCEPT ![i] = "available"]
    BY <2>1, <2>3, StatusMovesPhase DEF Statuses, GateInv
  <2>5. CASE slots[i].status = "ready"
    <3>1. PhaseMap[i] = "available"
      BY <2>1, <2>5 DEF PhaseMap, PhaseOf, PhaseName
    <3> QED BY <2>1, <2>4, <3>1 DEF PhaseMap
  <2>6. CASE slots[i].status = "registered"
    <3>1. PhaseMap[i] = "offered"
      BY <2>1, <2>6 DEF PhaseMap, PhaseOf, PhaseName
    <3>2. Contract!Publish(i)
      BY <2>1, <2>4, <3>1 DEF Contract!Publish, Contract!Move, PhaseMap
    <3> QED BY <3>2 DEF Contract!ContractNext
  <2> QED BY <2>2, <2>5, <2>6
<1> QED BY <1>1, <1>2

LEMMA ConsumeGrants ==
    ASSUME GateInv, NEW i \in Identities, NEW g \in Generations, NEW d \in Digests,
           Consume(i, g, d)
    PROVE  [Contract!ContractNext]_<<PhaseMap, lastGeneration>>
<1>1. CASE ConsumeCode(i, g, d) # "ok"
  BY <1>1 DEF Consume, PhaseMap
<1>2. CASE ConsumeCode(i, g, d) = "ok"
  <2>1. slots[i] # NoSlot /\ slots[i].status = "ready" /\ SetStatus(i, "consumed")
        /\ UNCHANGED lastGeneration
    BY <1>2 DEF Consume, ConsumeCode, Unknown, GateInv, GateTypeOK, Slots, Statuses
  <2>2. PhaseOf(slots'[i]) = "granted"
    BY <2>1, SetStatusEffect DEF PhaseOf, PhaseName, Statuses, GateInv
  <2>3. PhaseMap' = [PhaseMap EXCEPT ![i] = "granted"]
    BY <2>1, <2>2, StatusMovesPhase DEF Statuses, GateInv
  <2>4. PhaseMap[i] = "available"
    BY <2>1 DEF PhaseMap, PhaseOf, PhaseName
  <2>5. Contract!Grant(i)
    BY <2>1, <2>3, <2>4 DEF Contract!Grant, Contract!Move, PhaseMap
  <2> QED BY <2>5 DEF Contract!ContractNext
<1> QED BY <1>1, <1>2

LEMMA AckReleases ==
    ASSUME GateInv, NEW i \in Identities, NEW g \in Generations, NEW d \in Digests,
           Ack(i, g, d)
    PROVE  [Contract!ContractNext]_<<PhaseMap, lastGeneration>>
<1>1. CASE AckCode(i, g, d) # "ok"
  BY <1>1 DEF Ack, PhaseMap
<1>2. CASE AckCode(i, g, d) = "ok"
  <2>1. slots[i] # NoSlot /\ slots[i].status = "consumed" /\ SetStatus(i, "acked")
        /\ UNCHANGED lastGeneration
    BY <1>2 DEF Ack, AckCode, Unknown
  <2>2. PhaseOf(slots'[i]) = "released"
    BY <2>1, SetStatusEffect DEF PhaseOf, PhaseName, Statuses, GateInv
  <2>3. PhaseMap' = [PhaseMap EXCEPT ![i] = "released"]
    BY <2>1, <2>2, StatusMovesPhase DEF Statuses, GateInv
  <2>4. PhaseMap[i] = "granted"
    BY <2>1 DEF PhaseMap, PhaseOf, PhaseName
  <2>5. Contract!Release(i)
    BY <2>1, <2>3, <2>4 DEF Contract!Release, Contract!Move, PhaseMap
  <2> QED BY <2>5 DEF Contract!ContractNext
<1> QED BY <1>1, <1>2

LEMMA ContractStep ==
    ~ReplayReady /\ GateInv /\ [GateNext]_gateVars =>
      [Contract!ContractNext]_<<PhaseMap, lastGeneration>>
<1> SUFFICES ASSUME ~ReplayReady, GateInv, [GateNext]_gateVars
             PROVE  [Contract!ContractNext]_<<PhaseMap, lastGeneration>>
  OBVIOUS
<1>1. CASE Recover \/ UNCHANGED gateVars
  BY <1>1 DEF Recover, gateVars, PhaseMap
<1>2. ASSUME NEW i \in Identities, NEW g \in Generations,
             \/ MarkLoadFailure(i, g)
             \/ \E d \in Digests : \/ Register(i, g, d) \/ MarkReady(i, g, d)
                                   \/ Consume(i, g, d) \/ Ack(i, g, d)
      PROVE  [Contract!ContractNext]_<<PhaseMap, lastGeneration>>
  BY <1>2, RegisterOffers, FailureFails, ReadyPublishes, ConsumeGrants, AckReleases
<1> QED BY <1>1, <1>2 DEF GateNext

\* Every behaviour of the gate whose producers do not replay a ready
\* announcement is one the contract of GateContract allows.
THEOREM GateImplementsContract == ~ReplayReady /\ GateSpec => ImplementsContract
<1>1. GateInit => Contract!ContractInit
  BY DEF GateInit, Contract!ContractInit, PhaseOf
<1>2. CASE ReplayReady
  BY <1>2
<1>3. CASE ~ReplayReady
  <2>1. GateInv /\ [GateNext]_gateVars => [Contract!ContractNext]_(Contract!contractVars)
    BY <1>3, ContractStep DEF Contract!contractVars, PhaseMap
  <2> QED BY <1>1, <2>1, GateInvHolds, PTL
          DEF GateSpec, ImplementsContract, Contract!ContractSpec
<1> QED BY <1>2, <1>3
=============================================================================
