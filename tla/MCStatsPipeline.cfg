SPECIFICATION FairSpec
CONSTANTS
    h1 = h1
    u1 = u1
    u2 = u2
    p1 = p1
    p2 = p2
    Hands = {h1}
    Users = {u1, u2}
    Procs = {p1, p2}
    Queue = 2
    Merge = 2
    Batch = 2
    PerPass = 1
    Deletable = {u1}
    MaxFails = 1
    MaxStops = 1
INVARIANTS
    ExactlyOnce
PROPERTIES
    Drained
    ReachesTheDatabase
CHECK_DEADLOCK FALSE
