SPECIFICATION Spec
CONSTANTS
    Flags = {f1, f2, f3}
    Critical = {f1, f2}
    Quoted = {f1, f2}
    Requests = {r1}
    MaxDisputes = 3
    MaxAborts = 2
INVARIANT CapTracksFlags
PROPERTY ImplementsDesk
CHECK_DEADLOCK FALSE
