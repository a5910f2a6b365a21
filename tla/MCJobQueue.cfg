SPECIFICATION Spec
CONSTANTS
    Calls = {c1}
    NumStages = 3
    BranchStages = {2}
    Workers = {w1, w2}
    Operators = {o1}
    MaxAttempts = 2
    NoJob = NoJob
    MaxExpiries = 1
    MaxCrashes = 1
    MaxRequeues = 1
INVARIANTS TypeOK RetryBudget LeaseBound CommitsAreBounded NeverStranded DeadHasSpentRetries
PROPERTY RefinesStageOrder
SYMMETRY Symmetry
CHECK_DEADLOCK FALSE
