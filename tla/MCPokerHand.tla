---------------------------- MODULE MCPokerHand ----------------------------
(* Three players of unequal stacks, each short of the next. *)
EXTENDS PokerHand

CONSTANTS u1, u2, u3

MCStacks == {u1 :> 2 @@ u2 :> 3 @@ u3 :> 5, u1 :> 3 @@ u2 :> 4 @@ u3 :> 6}
=============================================================================
