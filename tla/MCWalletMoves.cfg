SPECIFICATION Spec
CONSTANTS
    None = None
    u1 = u1
    u2 = u2
    u3 = u3
    r1 = r1
    r2 = r2
    Users = {u1, u2, u3}
    Tables = {r1, r2}
    HandsPerTable = 1
    Boot = 1
    Purse = 1
    Packs = 2
    Refused = {"hand_packed", "hand_left"}
    Unheard = {}
    GivesUp = FALSE
    CanSwitch = TRUE
    CanDestroy = FALSE
SYMMETRY AlikeAll
INVARIANTS
    SeatIsReckoned
    SwitchCarriesTheStack
    NoChipsFromNothing
CHECK_DEADLOCK FALSE
