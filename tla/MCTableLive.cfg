SPECIFICATION FairSpec
CONSTANTS
    asha = asha
    bina = bina
    chand = chand
    Users <- MCPair
    MaxPlayers = 2
    MinPlayers = 2
    Boot = 1
    MaxPot = 0
    MaxRaiseSteps = 2
    PotLimitMultiplier = 0
    MaxBetRounds = 0
    MaxBlindMoves = 0
    MaxMissedTurns = 1
    SideshowMinPlayers = 2
    HasGrace = TRUE
    Purse = 1
    Bank = 1
    MaxLate = 1
PROPERTIES
    EveryHandEnds
    BrokeAreShownOut
CHECK_DEADLOCK FALSE
