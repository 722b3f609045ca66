SPECIFICATION Spec
CONSTANTS
    None = None
    u1 = u1
    u2 = u2
    r1 = r1
    Users = {u1, u2}
    Tables = {r1}
    HandsPerTable = 2
    Boot = 1
    Purse = 2
    Packs = 0
    Refused = {"settle"}
    Unheard = {}
    GivesUp = FALSE
    CanSwitch = FALSE
    CanDestroy = FALSE
SYMMETRY AlikePlayers
INVARIANTS
    NoChipsFromNothing
CHECK_DEADLOCK FALSE
