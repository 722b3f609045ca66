SPECIFICATION Spec
CONSTANTS
    asha = asha
    bina = bina
    chand = chand
    Users <- MCUsers
    MaxPlayers = 3
    MinPlayers = 2
    Boot = 1
    MaxPot = 5
    MaxRaiseSteps = 2
    PotLimitMultiplier = 0
    MaxBetRounds = 2
    MaxBlindMoves = 1
    MaxMissedTurns = 1
    SideshowMinPlayers = 3
    HasGrace = TRUE
    Purse = 2
    Bank = 0
    MaxLate = 1
SYMMETRY Symmetry
INVARIANTS
    TypeOK
    HandCanMove
    CountdownIffDealable
    ChipsConserved
    FairRounds
PROPERTIES
    PotWithinCap
    TimedOutOnlyOnExpiredClock
CHECK_DEADLOCK FALSE
