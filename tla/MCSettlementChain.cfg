SPECIFICATION FairSpec
CONSTANTS
    h1 = h1
    h2 = h2
    alice = alice
    bob = bob
    None = None
    Hands = {h1, h2}
    Players = {alice, bob}
    Moves <- MCMoves
    MaxAttempts = 2
INVARIANTS
    TypeOK
    OwedIsOpenChains
    PaidAtMostOnce
    WaitMissesNothing
PROPERTIES
    ReleasedIsFinal
    ImplementsContract
    EveryChainEnds
    WaitReturns
CHECK_DEADLOCK FALSE
