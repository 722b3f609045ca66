\* A turn timeout already on its way when the sideshow is asked.
SPECIFICATION FairSpec
CONSTANTS
    N = 3
    MaxHands = 1
    MaxBetRounds = 1
    SideshowMinPlayers = 2
    MaxRestarts = 1
    MaxLate = 1
    Overtakes = TRUE
INVARIANT
    SomethingWillCome
CHECK_DEADLOCK FALSE
