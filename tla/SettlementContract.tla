------------------------- MODULE SettlementContract -------------------------
(***************************************************************************)
(* What a room promises about the money of a finished hand, with nothing   *)
(* said of retries, timers or the room's own end (game/ledger.go, Settle;  *)
(* game/actor.go, Settler):                                                *)
(*                                                                         *)
(*   - the result of a hand moves the wallets it names at most once, all   *)
(*     of them in one step;                                                *)
(*   - the room stops waiting for a hand in one of two ways: it has landed *)
(*     (and then it has been paid), or it has been given up;               *)
(*   - after that the wallets are final: nothing pays the hand any more.   *)
(***************************************************************************)
EXTENDS Naturals

CONSTANT Hands

VARIABLES
    result,     \* per hand: "none" until it ends, then "due", then "paid"
    reported    \* per hand: "waiting", then "landed" or "givenUp"

vars == <<result, reported>>

Init ==
    /\ result = [h \in Hands |-> "none"]
    /\ reported = [h \in Hands |-> "waiting"]

End(h) ==
    /\ result[h] = "none"
    /\ result' = [result EXCEPT ![h] = "due"]
    /\ UNCHANGED reported

Pay(h) ==
    /\ result[h] = "due"
    /\ reported[h] = "waiting"
    /\ result' = [result EXCEPT ![h] = "paid"]
    /\ UNCHANGED reported

ReportLanded(h) ==
    /\ result[h] = "paid"
    /\ reported[h] = "waiting"
    /\ reported' = [reported EXCEPT ![h] = "landed"]
    /\ UNCHANGED result

GiveUp(h) ==
    /\ result[h] # "none"
    /\ reported[h] = "waiting"
    /\ reported' = [reported EXCEPT ![h] = "givenUp"]
    /\ UNCHANGED result

Next == \E h \in Hands : End(h) \/ Pay(h) \/ ReportLanded(h) \/ GiveUp(h)

Spec == Init /\ [][Next]_vars

=============================================================================
