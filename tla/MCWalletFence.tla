--------------------------- MODULE MCWalletFence ---------------------------
(* Players are alike, and so are rooms. *)
EXTENDS WalletFence, TLC

AlikePlayers == Permutations(Users)
AlikeAll == Permutations(Users) \cup Permutations(Tables)
=============================================================================
