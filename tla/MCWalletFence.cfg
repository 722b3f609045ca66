SPECIFICATION Spec
CONSTANTS
    None = None
    u1 = u1
    u2 = u2
    r1 = r1
    r2 = r2
    Users = {u1, u2}
    Tables = {r1, r2}
    HandsPerTable = 1
    Boot = 1
    Purse = 1
    Packs = 1
    Refused = {"hand_packed", "hand_left", "settle"}
    Unheard = {"hand_left", "settle"}
    GivesUp = TRUE
    CanSwitch = FALSE
    CanDestroy = TRUE
SYMMETRY AlikeAll
INVARIANTS
    NoChipsFromNothing
    UnmarkedWalletIsFinal
    OneSeatPerPlayer
CHECK_DEADLOCK FALSE
