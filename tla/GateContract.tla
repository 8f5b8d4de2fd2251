----------------------------- MODULE GateContract -----------------------------
(***************************************************************************)
(* What the WaveMat seam gate promises its host, per layer group: a buffer *)
(* is offered under ever newer generations, each generation is granted to  *)
(* its consumer at most once and only after it became available, it is     *)
(* superseded only after the consumer released it, and a failed load ends  *)
(* the layer group.                                                        *)
(***************************************************************************)
EXTENDS Integers

CONSTANTS Identities,   \* layer groups
          Generations   \* the generations a producer may use

VARIABLES phase,        \* who holds the buffer of each layer group
          generation    \* its newest generation, 0 before the first

contractVars == <<phase, generation>>

ContractInit ==
    /\ phase = [i \in Identities |-> "free"]
    /\ generation = [i \in Identities |-> 0]

Move(i, from, to) == /\ phase[i] \in from
                     /\ phase' = [phase EXCEPT ![i] = to]

Offer(i, g) == /\ Move(i, {"free", "released"}, "offered")
               /\ g > generation[i]
               /\ generation' = [generation EXCEPT ![i] = g]

Publish(i) == Move(i, {"offered"}, "available") /\ UNCHANGED generation
Grant(i)   == Move(i, {"available"}, "granted") /\ UNCHANGED generation
Release(i) == Move(i, {"granted"}, "released") /\ UNCHANGED generation
Fail(i)    == Move(i, {"offered", "available", "granted", "released"}, "failed")
              /\ UNCHANGED generation

ContractNext == \E i \in Identities :
    \/ \E g \in Generations : Offer(i, g)
    \/ Publish(i) \/ Grant(i) \/ Release(i) \/ Fail(i)

ContractSpec == ContractInit /\ [][ContractNext]_contractVars
=============================================================================
