SPECIFICATION FairSpec
CONSTANTS
    r1 = r1
    r2 = r2
    Targets <- MCTargets
    Reqs = {r1, r2}
    Cors = TRUE
    MaxCalls = 1
INVARIANTS
    RequestsSafe
    Honest
    CleanShutdown
PROPERTIES
    WorkersEnd
    ShutdownEnds
CHECK_DEADLOCK FALSE
