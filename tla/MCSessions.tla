---- MODULE MCSessions ----
(* Sessions on a small instance. *)
EXTENDS Sessions, TLC

Either == Permutations(Sockets) \cup Permutations(Rooms)
====
