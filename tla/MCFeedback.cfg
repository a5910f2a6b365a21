SPECIFICATION FairSpec
CONSTANTS
    Flags = {f1, f2}
    Critical = {f1, f2}
    Quoted = {f1, f2}
    Requests = {r1, r2}
    MaxDisputes = 3
    MaxAborts = 1
INVARIANTS TypeOK DecisionsAreLearned DisputedIsInInbox
PROPERTY EveryDisputeIsDecided
CHECK_DEADLOCK FALSE
