SPECIFICATION AdaptersSpec
CONSTANTS
    Tasks = {t1, t2}
    MaxRequests = 2
    MaxPrompts = 2
    Foreign = Foreign
SYMMETRY TaskSymmetry
INVARIANT PlansStayWithPrompts
CHECK_DEADLOCK FALSE
