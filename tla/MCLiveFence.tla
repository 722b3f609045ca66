---------------------------- MODULE MCLiveFence ----------------------------
(* Players are alike, and so are processes. *)
EXTENDS LiveFence, TLC

Symmetry == Permutations(Users) \cup Permutations(Procs)
=============================================================================
