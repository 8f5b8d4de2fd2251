SPECIFICATION G0Spec
CONSTANTS
    Absent = Absent
    Workloads <- MCWorkloads
    Intensities <- MCIntensities
    Repeats = 3
    Arms <- MCArms
    GenericArms = {"request_token_bucket"}
    Budgets <- MCBudgets
    MinCells = 2
    MinControls = 2
    Measurements <- MCFavourable
    Faults = {"none", "unexposed"}
    Holdable = {5}
INVARIANT GoNeedsSignals
CHECK_DEADLOCK FALSE
