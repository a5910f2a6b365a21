SPECIFICATION FairSpec
CONSTANTS
    Flags = {f1, f2}
    Critical = {f1}
    Quoted = {f1}
    Requests = {r1}
    MaxDisputes = 2
    MaxAborts = 0
PROPERTY EveryDisputeIsDecided
CHECK_DEADLOCK FALSE
