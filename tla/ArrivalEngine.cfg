SPECIFICATION EngineSpec
CONSTANTS
    c1 = c1
    c2 = c2
    c3 = c3
    None = None
    NotCalled = NotCalled
    Words <- MCWords
    Anchors <- MCAnchors
    Cases <- MCCases
    RequestIds <- MCRequestIds
    Calls = {c1, c2, c3}
    Submissions <- MCSubmissions
    Environments <- MCEnvironments
    EngineBlock = 2
    MaxEvictions = 1
SYMMETRY CallSymmetry
INVARIANTS
    EngineTypeOK
    RecomputeReusesNothing
    ReuseWithinIdentity
    EngineRunsOnlyLogged
CHECK_DEADLOCK FALSE
