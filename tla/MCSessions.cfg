SPECIFICATION Spec
CONSTANTS
    Sockets = {s1, s2}
    Rooms = {r1, r2}
    None = None
    Joins = {"join"}
    Overlap = FALSE
    MaxTimers = 4
    MaxAsks = 1
    MaxTaken = 1
SYMMETRY Either
INVARIANTS
    SeatIsWatched
    LapsedSeatIsOffered
PROPERTIES
    LapseSparesTheLive
CHECK_DEADLOCK FALSE
