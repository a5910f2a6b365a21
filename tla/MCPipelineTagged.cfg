SPECIFICATION PipelineSpec
CONSTANTS
    Calls = {c1}
    NumStages = 6
    BranchStages = {4}
    Workers = {w1, w2}
    Operators = {o1}
    MaxAttempts = 2
    NoJob = NoJob
    MaxExpiries = 0
    MaxCrashes = 0
    MaxRequeues = 0
    d1 = d1
    d2 = d2
    Dimensions = {d1, d2}
    AnalysisResults <- MCAnalysisResults
    NotRead = NotRead
INVARIANT TaggedNeverScored
CHECK_DEADLOCK FALSE
