-------------------------- MODULE MCStatsPipeline --------------------------
(* Two processes, two players and the hand they play. *)
EXTENDS StatsPipeline

CONSTANTS h1, u1, u2, p1, p2
=============================================================================
