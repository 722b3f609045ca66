------------------------ MODULE MCSettlementChain ------------------------
\* Two hands that share one player: hand h1 moves both wallets, h2 only one.
EXTENDS SettlementChain, TLC

CONSTANTS h1, h2, alice, bob

MCMoves == (h1 :> {alice, bob}) @@ (h2 :> {alice})

=============================================================================
