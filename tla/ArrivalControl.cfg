SPECIFICATION Spec
CONSTANTS
    c1 = c1
    c2 = c2
    c3 = c3
    None = None
    NotCalled = NotCalled
    Words <- MCWords
    Anchors <- MCAnchors
    Cases <- MCCases
    RequestIds <- MCRequestIds
    Calls = {c1, c2, c3}
    Submissions <- MCSubmissions
    Environments <- MCEnvironments
SYMMETRY CallSymmetry
INVARIANTS
    TypeOK
    SeenRanksExact
    EstimateHasSource
    TurnsNeverAhead
    SerialEstimateExact
    PlanAccounting
    PlanRealizable
    TruthfulSupport
    PrivateNamespaces
CHECK_DEADLOCK FALSE
