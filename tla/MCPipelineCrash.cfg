SPECIFICATION PipelineSpec
CONSTANTS
    Calls = {c1}
    NumStages = 6
    BranchStages = {4}
    Workers = {w1, w2}
    Operators = {o1}
    MaxAttempts = 1
    NoJob = NoJob
    MaxExpiries = 0
    MaxCrashes = 2
    MaxRequeues = 1
    d1 = d1
    d2 = d2
    Dimensions = {d1, d2}
    AnalysisResults <- MCAnalysisResults
    NotRead = NotRead
INVARIANTS PipelineTypeOK OneTranscript NonSalesNeverScored RolesMatchSwap LlmSeesOnlyRedacted ConfidenceIsMeasured SettledCallHasVerdict
PROPERTY VerdictIsFinal
SYMMETRY Symmetry
CHECK_DEADLOCK FALSE
