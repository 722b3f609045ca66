--------------------------- MODULE MCTableEngine ---------------------------
(* Three players with two chips each at a table of three seats: room for a *)
(* full sideshow, a missile, blind and seen bets, a player gone broke and  *)
(* a departure in any of them.                                             *)
EXTENDS TableEngine, TLC

CONSTANTS asha, bina, chand

MCUsers == {asha, bina, chand}
MCPair == {asha, bina}
Symmetry == Permutations(MCUsers)
=============================================================================
