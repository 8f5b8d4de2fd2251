SPECIFICATION OnlineSpec
CONSTANTS
    Absent = Absent
    M2Labels = {}
    RunCount = 2
    Load <- MCLoad
    MaxCrashes = 1
    Concurrency = 2
    AllowDirty = FALSE
    MaxKills = 1
INVARIANTS
    OnlineTypeOK
    IsolatedEvidence
    ValidMeansReleased
PROPERTIES
    EveryRunEnds
    ImplementsRunContract
CHECK_DEADLOCK FALSE
