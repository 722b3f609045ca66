SPECIFICATION Spec
CONSTANTS
    u1 = u1
    u2 = u2
    u3 = u3
    Users = {u1, u2, u3}
    N = 3
    Games = {"blinds", "draw", "house"}
    BoardStreets = 1
    Boot = 2
    Stacks <- MCStacks
    MaxHands = 1
    Bank = 11
INVARIANTS
    ChipsConserved
    PotsAreLayers
    NobodyRidesFree
    HandCanMove
CHECK_DEADLOCK FALSE
