SPECIFICATION Spec
CONSTANTS
    u1 = u1
    u2 = u2
    p1 = p1
    p2 = p2
    Users = {u1, u2}
    Procs = {p1, p2}
    Boot = 1
    Purse = 2
    MaxLives = 1
    MaxFails = 1
    MaxRefused = 2
    Attempts = 1
    NoRow = NoRow
SYMMETRY Symmetry
INVARIANTS
    OneEndingCreatesNoChips
    WrittenHasLanded
PROPERTIES
    ClaimHolds
CHECK_DEADLOCK FALSE
