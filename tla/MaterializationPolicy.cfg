SPECIFICATION PolicySpec
CONSTANTS
    Signals <- MCSignals
    Floors = {0, 1, 4, 16}
INVARIANTS
    HonoursContract
    BoundedRegret
    SlowerLinkRecomputes
    TrustKeepsReuse
CHECK_DEADLOCK FALSE
