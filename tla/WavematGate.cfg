SPECIFICATION GateSpec
CONSTANTS
    i1 = i1
    i2 = i2
    d1 = d1
    d2 = d2
    NoSlot = NoSlot
    Identities = {i1, i2}
    Generations = {1, 2, 3}
    Digests = {d1, d2}
    ReplayReady = FALSE
SYMMETRY GateSymmetry
INVARIANTS
    GateTypeOK
    SupersededWereSettled
    GrantsFollowReady
    ConsumeAtMostOnce
PROPERTIES
    LoadFailureFinal
    ImplementsContract
