SPECIFICATION SuiteSpec
CONSTANTS
    NoCode = NoCode
    Missing = Missing
    Unit = 360
    Suites <- MCSuites
    Protocols = {before, after}
    MaxDrifts = 1
    MaxMistakes = 1
    Samples <- MCSamples
SYMMETRY ProtocolSymmetry
INVARIANTS
    LedgerTellsTheSuite
    AcceptedMeansProven
    ClaimsBeatEveryFixed
CHECK_DEADLOCK FALSE
