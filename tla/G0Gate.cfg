SPECIFICATION G0Spec
CONSTANTS
    Absent = Absent
    Workloads <- MCWorkloads
    Intensities <- MCIntensities
    Repeats = 3
    Arms <- MCArms
    GenericArms = {"request_token_bucket"}
    Budgets <- MCBudgets
    MinCells = 2
    MinControls = 2
    Measurements <- MCMeasurements
    Faults = {"none", "crashed", "incorrect", "inactive", "misconfigured", "lost_bytes",
              "diverged"}
    Holdable = {5}
INVARIANTS
    InvalidNeverDecides
    GoMeetsThresholds
PROPERTY StopIsFinal
CHECK_DEADLOCK FALSE
