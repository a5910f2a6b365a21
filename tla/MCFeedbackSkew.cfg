SPECIFICATION Spec
CONSTANTS
    Flags = {f1, f2}
    Critical = {f1, f2}
    Quoted = {f1, f2}
    Requests = {r1, r2}
    MaxDisputes = 2
    MaxAborts = 0
INVARIANT CapTracksFlags
CHECK_DEADLOCK FALSE
