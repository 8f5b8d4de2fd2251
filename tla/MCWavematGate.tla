---------------------------- MODULE MCWavematGate ----------------------------
(* Small instances of WavematGate for TLC. *)
EXTENDS WavematGate, TLC

CONSTANTS i1, i2, d1, d2

IdentitySymmetry == Permutations(Identities)
DigestSymmetry == Permutations(Digests)
GateSymmetry == IdentitySymmetry \cup DigestSymmetry
=============================================================================
