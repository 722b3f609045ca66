SPECIFICATION FairSpec
CONSTANTS
    N = 3
    MaxHands = 2
    MaxBetRounds = 1
    SideshowMinPlayers = 2
    MaxRestarts = 1
    MaxLate = 1
    Overtakes = FALSE
INVARIANTS
    SomethingWillCome
    SnapshotRestores
PROPERTIES
    ShowdownWaits
    EveryHandEnds
CHECK_DEADLOCK FALSE
