---------------------------- MODULE WalletFence ----------------------------
(***************************************************************************)
(* Chips in two places: a player's wallet (PostgreSQL) and the seat that   *)
(* was filled from it.  The table writes the difference back at a pack, a  *)
(* leave and a hand end; any write may be refused, or land unheard; lobby  *)
(* spends, purchases, joins, switches and destroys run meanwhile.  What    *)
(* keeps the two together are the player's stripe, the RoomManager's owed  *)
(* and departing marks, and the table's chipsWritten                       *)
(* (game/roommanager.go, game/table.go, game/actor.go, db/ledger.go).      *)
(*                                                                         *)
(* Whose turn it is, and what the cards say, is TableEngine's business:    *)
(* any player in a hand may bet, pack or win here.                         *)
(***************************************************************************)
EXTENDS Integers, FiniteSets, FiniteSetsExt

CONSTANTS
    Users,          \* the accounts
    Tables,         \* the rooms
    HandsPerTable,  \* bound: hands a room deals
    Boot,           \* the boot of every room
    Purse,          \* chips in each wallet to begin with
    Packs,          \* bound: chip packs (of one chip) that can be bought
    Refused,        \* the writes the database may refuse
    Unheard,        \* the writes whose answer may be lost after they landed
    GivesUp,        \* whether a retry chain may reach its attempt cap
    CanSwitch,      \* whether players change tables with their stack
    CanDestroy,     \* whether rooms are destroyed under their players
    None            \* no room, no player

Writes == {"hand_packed", "hand_left", "settle"}
Hands == Tables \X (1 .. HandsPerTable)

ASSUME WalletAssumption ==
    /\ IsFiniteSet(Users) /\ IsFiniteSet(Tables)
    /\ {HandsPerTable, Purse, Packs} \subseteq Nat
    /\ Boot \in Nat \ {0}
    /\ Refused \subseteq Writes /\ Unheard \subseteq Writes
    /\ {GivesUp, CanSwitch, CanDestroy} \subseteq BOOLEAN
    /\ None \notin Tables \cup Users

VARIABLES
    wallet,     \* users.chips
    packs,      \* chip packs not yet bought
    spent,      \* chips spent in the lobby
    index,      \* RoomManager.playerRooms
    departing,  \* RoomManager.departing
    owed,       \* RoomManager.owed
    op,         \* per player: the operation that holds their stripe
    table,      \* per room: its seats, its live hand and its actor
    chain       \* per hand: its settlement request

vars == <<wallet, packs, spent, index, departing, owed, op, table, chain>>

money == <<wallet, packs, spent>>
marks == <<departing, owed>>

-----------------------------------------------------------------------------

Clamp(n) == IF n < 0 THEN 0 ELSE n
Total(f, S) == MapThenSumSet(LAMBDA x : f[x], S)

NoSeat  == [here |-> FALSE, active |-> FALSE, chips |-> 0]
NoEntry == [in |-> FALSE, left |-> FALSE, chips |-> 0, written |-> 0]
Idle    == [kind |-> "idle", at |-> None, to |-> None, chips |-> 0]

\* What PostgreSQL has not been given yet of a contribution.
Due(e) == e.chips - e.written

Active(t) == {u \in Users : t.seat[u].active}

\* The room's actor is between closures, and still takes them.
Runs(r) == ~table[r].busy /\ table[r].state \in {"open", "closing"}

\* RoomManager.tables holds the room.
Registered(r) == table[r].state = "open"

\* walletUnfinishedLocked.
Unfinished(u) == departing[u] > 0 \/ owed[u] > 0

\* settlementOwed: the players a request moves, one up or one down.
Owe(f, S) == [u \in Users |-> IF u \in S THEN f[u] + 1 ELSE f[u]]
Lift(f, S) == [u \in Users |-> IF u \in S /\ f[u] > 0 THEN f[u] - 1 ELSE f[u]]
Moved(h) == {u \in Users : chain[h].delta[u] # 0}

-----------------------------------------------------------------------------
(* The writes *)

\* db.Ledger.Checkpoint and Table.checkpoint: the wallets and contributions it
\* may leave.  A refused write leaves both; one that landed unheard leaves
\* chipsWritten.
Checkpoint(w, e, reason) ==
    LET new == Clamp(w + Due(e))
    IN  {<<new, [e EXCEPT !.written = e.chips]>>}
        \cup (IF reason \in Refused THEN {<<w, e>>} ELSE {})
        \cup (IF reason \in Unheard THEN {<<new, e>>} ELSE {})

\* Mutant: the pot is paid and stays on the table.
EndedPotLeft(t, winner) ==
    [t EXCEPT !.live = FALSE, !.busy = TRUE,
              !.seat = [u \in Users |->
                 [t.seat[u] EXCEPT !.active = FALSE,
                                   !.chips = IF u = winner THEN @ + t.pot ELSE @]],
              !.entry = [u \in Users |-> NoEntry]]

\* endHand up to its call of Ledger.Settle: the pot to the winner's seat ...
Ended(t, winner) ==
    [t EXCEPT !.live = FALSE, !.busy = TRUE, !.pot = 0,
              !.seat = [u \in Users |->
                 [t.seat[u] EXCEPT !.active = FALSE,
                                   !.chips = IF u = winner THEN @ + t.pot ELSE @]],
              !.entry = [u \in Users |-> NoEntry]]

\* Mutant: nobody who left is written at the hand end, whatever is still due.
RequestSkipsLeavers(c, t, winner) ==
    [c EXCEPT !.stage = "first",
              !.rows = {u \in Users : t.entry[u].in /\ ~t.entry[u].left},
              !.delta = [u \in Users |->
                           (IF t.entry[u].left THEN 0 ELSE Due(t.entry[u]))
                           + (IF u = winner THEN t.pot ELSE 0)]]

\* ... and the request: a row for every contributor, with whatever is still due,
\* but none for one who left and was written then.
Request(c, t, winner) ==
    [c EXCEPT !.stage = "first",
              !.rows = {u \in Users : t.entry[u].in
                           /\ ~(t.entry[u].left /\ Due(t.entry[u]) = 0)},
              !.delta = [u \in Users |->
                           Due(t.entry[u]) + (IF u = winner THEN t.pot ELSE 0)]]

EndHand(r, t, winner) ==
    /\ table' = [table EXCEPT ![r] = Ended(t, winner)]
    /\ chain' = [chain EXCEPT ![<<r, t.dealt>>] = Request(@, t, winner)]

\* resolveIfOnlyOneLeft: the closure goes on into endHand.
Resolve(r, t) ==
    IF Cardinality(Active(t)) = 1
    THEN \E w \in Active(t) : EndHand(r, t, w)
    ELSE table' = [table EXCEPT ![r] = t] /\ UNCHANGED chain

-----------------------------------------------------------------------------

Init ==
    /\ wallet = [u \in Users |-> Purse]
    /\ packs = Packs
    /\ spent = 0
    /\ index = [u \in Users |-> None]
    /\ departing = [u \in Users |-> 0]
    /\ owed = [u \in Users |-> 0]
    /\ op = [u \in Users |-> Idle]
    /\ table = [r \in Tables |->
                  [state |-> "open", busy |-> FALSE, by |-> None, live |-> FALSE,
                   dealt |-> 0, pot |-> 0, seat |-> [u \in Users |-> NoSeat],
                   entry |-> [u \in Users |-> NoEntry], marked |-> {},
                   unseated |-> {}]]
    /\ chain = [h \in Hands |->
                  [stage |-> "none", rows |-> {}, delta |-> [u \in Users |-> 0],
                   landed |-> FALSE, answer |-> "none",
                   balance |-> [u \in Users |-> 0]]]

(***************************************************************************)
(* The hand, on the room's actor.                                          *)
(***************************************************************************)

\* Mutant: chipsWritten starts at the stack after the boot.
StartHandBootForgotten(r) ==
    LET t == table[r]
        dealt == {u \in Users : t.seat[u].here /\ t.seat[u].chips >= Boot}
        stack(u) == t.seat[u].chips - Boot
    IN  /\ Runs(r) /\ ~t.live /\ t.dealt < HandsPerTable
        /\ Cardinality(dealt) >= 2
        /\ table' = [table EXCEPT ![r] =
             [t EXCEPT !.live = TRUE, !.dealt = @ + 1,
                       !.pot = Boot * Cardinality(dealt),
                       !.seat = [u \in Users |->
                          IF u \in dealt
                          THEN [here |-> TRUE, active |-> TRUE, chips |-> stack(u)]
                          ELSE t.seat[u]],
                       !.entry = [u \in Users |->
                          IF u \in dealt
                          THEN [in |-> TRUE, left |-> FALSE, chips |-> stack(u),
                                written |-> stack(u)]
                          ELSE NoEntry]]]
        /\ UNCHANGED <<money, marks, index, op, chain>>

\* startHand: nothing is written at the deal.
StartHand(r) ==
    LET t == table[r]
        dealt == {u \in Users : t.seat[u].here /\ t.seat[u].chips >= Boot}
        stack(u) == t.seat[u].chips - Boot
    IN  /\ Runs(r) /\ ~t.live /\ t.dealt < HandsPerTable
        /\ Cardinality(dealt) >= 2
        /\ table' = [table EXCEPT ![r] =
             [t EXCEPT !.live = TRUE, !.dealt = @ + 1,
                       !.pot = Boot * Cardinality(dealt),
                       !.seat = [u \in Users |->
                          IF u \in dealt
                          THEN [here |-> TRUE, active |-> TRUE, chips |-> stack(u)]
                          ELSE t.seat[u]],
                       !.entry = [u \in Users |->
                          IF u \in dealt
                          THEN [in |-> TRUE, left |-> FALSE, chips |-> stack(u),
                                written |-> t.seat[u].chips]
                          ELSE NoEntry]]]
        /\ UNCHANGED <<money, marks, index, op, chain>>

\* chargeToPot: the seat, the contribution and the pot; no write.
Chaal(r, u) ==
    /\ Runs(r) /\ table[r].seat[u].active /\ table[r].seat[u].chips > 0
    /\ table' = [table EXCEPT ![r].seat[u].chips = @ - 1,
                              ![r].entry[u].chips = table[r].seat[u].chips - 1,
                              ![r].pot = @ + 1]
    /\ UNCHANGED <<money, marks, index, op, chain>>

Pack(r, u) ==
    /\ Runs(r) /\ table[r].seat[u].active
    /\ \E out \in Checkpoint(wallet[u], table[r].entry[u], "hand_packed") :
         /\ wallet' = [wallet EXCEPT ![u] = out[1]]
         /\ Resolve(r, [table[r] EXCEPT !.seat[u].active = FALSE,
                                        !.entry[u] = out[2]])
    /\ UNCHANGED <<packs, spent, marks, index, op>>

\* A showdown; any hand still in may be the best.
Showdown(r) ==
    /\ Runs(r) /\ table[r].live
    /\ \E w \in Active(table[r]) : EndHand(r, table[r], w)
    /\ UNCHANGED <<money, marks, index, op>>

(***************************************************************************)
(* Settlements.                                                            *)
(***************************************************************************)

\* db.Ledger.Settle: every row in one transaction, clamped at zero; a replay is
\* refused whole.
DbSettles(h) ==
    LET c == chain[h]
        new == [u \in Users |-> Clamp(wallet[u] + c.delta[u])]
        heard(a) == {a} \cup (IF "settle" \in Unheard THEN {"error"} ELSE {})
    IN  /\ c.stage \in {"first", "retried", "detached"} /\ c.answer = "none"
        /\ \/ /\ ~c.landed
              /\ wallet' = new
              /\ \E a \in heard("ok") :
                   chain' = [chain EXCEPT ![h].landed = TRUE, ![h].answer = a,
                                          ![h].balance = new]
           \/ /\ c.landed
              /\ chain' = [chain EXCEPT ![h].answer = "duplicate_action"]
              /\ UNCHANGED wallet
           \/ /\ "settle" \in Refused
              /\ chain' = [chain EXCEPT ![h].answer = "error"]
              /\ UNCHANGED wallet
        /\ UNCHANGED <<packs, spent, marks, index, op, table>>

\* A chain between two attempts, or over: nothing of it is read again but, while
\* it is owed, its request.
Rested(c, stage) ==
    [c EXCEPT !.stage = stage, !.answer = "none",
              !.balance = [u \in Users |-> 0],
              !.rows = IF stage = "done" THEN {} ELSE @,
              !.delta = IF stage = "done" THEN [u \in Users |-> 0] ELSE @]

\* RemovePlayer has returned: a leave is over, a switch goes on with its chips.
Left(o) ==
    IF o.to = None THEN Idle
    ELSE [kind |-> "carry", at |-> o.to, to |-> o.at, chips |-> o.chips]

\* Mutant: the marks of players who had left go before the chain's own are set.
FirstReturnsUnmarked(r) ==
    LET h == <<r, table[r].dealt>>
        refused == chain[h].answer # "ok"
        by == table[r].by
    IN  /\ table[r].busy /\ chain[h].stage = "first" /\ chain[h].answer # "none"
        /\ chain' = [chain EXCEPT ![h] = Rested(@, IF refused THEN "owed" ELSE "done")]
        /\ owed' = Lift(owed, table[r].marked)
        /\ table' = [table EXCEPT
                       ![r].busy = FALSE, ![r].by = None, ![r].marked = {},
                       ![r].state = IF @ = "ending" THEN "gone" ELSE @]
        /\ op' = IF by = None THEN op ELSE [op EXCEPT ![by] = Left(@)]
        /\ UNCHANGED <<money, departing, index>>

\* endHand after Settle returned: written, or owed and its retries begun; the
\* marks of players who had left go last (ReleaseDeparted).  The closure ends,
\* and with it the leave, or the room's last closure, that it was part of.
FirstReturns(r) ==
    LET h == <<r, table[r].dealt>>
        refused == chain[h].answer # "ok"
        by == table[r].by
    IN  /\ table[r].busy /\ chain[h].stage = "first" /\ chain[h].answer # "none"
        /\ chain' = [chain EXCEPT ![h] = Rested(@, IF refused THEN "owed" ELSE "done")]
        /\ owed' = Lift(IF refused THEN Owe(owed, Moved(h)) ELSE owed, table[r].marked)
        /\ table' = [table EXCEPT
                       ![r].busy = FALSE, ![r].by = None, ![r].marked = {},
                       ![r].state = IF @ = "ending" THEN "gone" ELSE @]
        /\ op' = IF by = None THEN op ELSE [op EXCEPT ![by] = Left(@)]
        /\ UNCHANGED <<money, departing, index>>

\* A retry timer's callback: on the actor, or off it once the room is gone.
RetryRuns(h) ==
    /\ chain[h].stage = "owed"
    /\ \/ /\ Runs(h[1])
          /\ chain' = [chain EXCEPT ![h].stage = "retried"]
          /\ table' = [table EXCEPT ![h[1]].busy = TRUE]
       \/ /\ table[h[1]].state \in {"gone", "shut"}
          /\ chain' = [chain EXCEPT ![h].stage = "detached"]
          /\ UNCHANGED table
    /\ UNCHANGED <<money, marks, index, op>>

\* onSettleLanded: a write that was heard hands its balances to the seats of its
\* rows that are not active.
Adopted(t, c) ==
    [u \in Users |->
       IF c.answer = "ok" /\ u \in c.rows /\ t.seat[u].here /\ ~t.seat[u].active
       THEN [t.seat[u] EXCEPT !.chips = c.balance[u]]
       ELSE t.seat[u]]

\* Settler.Retry and settleDetachedFrom, after their Settle returned.
RetryReturns(h) ==
    LET c == chain[h]
        r == h[1]
    IN  /\ c.stage \in {"retried", "detached"} /\ c.answer # "none"
        /\ \E stage \in IF c.answer # "error" THEN {"done"}
                        ELSE {"owed"} \cup (IF GivesUp THEN {"done"} ELSE {}) :
             /\ chain' = [chain EXCEPT ![h] = Rested(@, stage)]
             /\ owed' = IF stage = "done" THEN Lift(owed, Moved(h)) ELSE owed
        /\ table' = IF c.stage = "detached" THEN table
                    ELSE [table EXCEPT ![r].busy = FALSE,
                                       ![r].seat = Adopted(table[r], c)]
        /\ UNCHANGED <<money, departing, index, op>>

(***************************************************************************)
(* The RoomManager, under the player's stripe.                             *)
(***************************************************************************)

\* freshPlayer and the index, looked at under the stripe: QuickJoin, JoinByCode,
\* CreateAndJoin.
JoinLooks(u, r) ==
    /\ op[u].kind = "idle" /\ index[u] = None /\ ~Unfinished(u) /\ Registered(r)
    /\ op' = [op EXCEPT ![u] = [Idle EXCEPT !.kind = "join", !.at = r]]
    /\ UNCHANGED <<money, marks, index, table, chain>>

\* LoadPlayer: the wallet the seat starts from.
JoinReads(u) ==
    /\ op[u].kind = "join"
    /\ op' = [op EXCEPT ![u] = IF wallet[u] < Boot THEN Idle
                               ELSE [@ EXCEPT !.kind = "carry", !.chips = wallet[u]]]
    /\ UNCHANGED <<money, marks, index, table, chain>>

\* A refused seat: a switch tries the room it came from, once.
Unseated(o) ==
    IF o.to = None THEN Idle
    ELSE [o EXCEPT !.kind = "carry", !.at = o.to, !.to = None]

\* seatHeld up to AddPlayer.
Reserves(u) ==
    LET r == op[u].at
    IN  /\ op[u].kind = "carry"
        /\ IF Registered(r)
           THEN /\ index' = [index EXCEPT ![u] = r]
                /\ op' = [op EXCEPT ![u].kind = "reserved"]
           ELSE /\ op' = [op EXCEPT ![u] = Unseated(@)]
                /\ UNCHANGED index
        /\ UNCHANGED <<money, marks, table, chain>>

\* AddPlayer, on the actor, and the rest of seatHeld.
Sits(u) ==
    LET r == op[u].at
    IN  /\ op[u].kind = "reserved"
        /\ \/ /\ Runs(r)
              /\ table' = [table EXCEPT ![r].seat[u] =
                            [NoSeat EXCEPT !.here = TRUE, !.chips = op[u].chips]]
              /\ op' = [op EXCEPT ![u] = Idle]
              /\ UNCHANGED index
           \/ /\ table[r].state \in {"gone", "shut"}
              /\ index' = [index EXCEPT ![u] = IF @ = r THEN None ELSE @]
              /\ op' = [op EXCEPT ![u] = Unseated(@)]
              /\ UNCHANGED table
        /\ UNCHANGED <<money, marks, chain>>

\* vacateFrom up to RemovePlayer, for a leave or a kick.
LeaveStarts(u) ==
    /\ op[u].kind = "idle" /\ index[u] # None
    /\ op' = [op EXCEPT ![u] = [Idle EXCEPT !.kind = "leave", !.at = index[u]]]
    /\ index' = [index EXCEPT ![u] = None]
    /\ UNCHANGED <<money, marks, table, chain>>

\* SwitchTable up to RemovePlayer; the wallet was read by its caller.
SwitchStarts(u, to) ==
    /\ CanSwitch
    /\ op[u].kind = "idle" /\ index[u] \notin {None, to} /\ Registered(to)
    /\ table[index[u]].seat[u].chips >= Boot
    /\ op' = [op EXCEPT ![u] = [kind |-> "leave", at |-> index[u], to |-> to,
                                chips |-> wallet[u]]]
    /\ index' = [index EXCEPT ![u] = None]
    /\ UNCHANGED <<money, marks, table, chain>>

\* Settler.OweDeparted: once per player and hand, for what is still due.
Departs(t, u, e) ==
    [t EXCEPT !.seat[u] = NoSeat, !.entry[u] = e,
              !.marked = IF Due(e) # 0 THEN @ \cup {u} ELSE @]

\* Mutant: a switch goes on with the wallet as read before it.
LeaveRunsStale(u) ==
    LET r == op[u].at
        t == table[r]
        s == t.seat[u]
        writes == IF s.active
                  THEN Checkpoint(wallet[u],
                                  [t.entry[u] EXCEPT !.left = TRUE, !.chips = s.chips],
                                  "hand_left")
                  ELSE {<<wallet[u], t.entry[u]>>}
    IN  /\ op[u].kind = "leave"
        /\ Runs(r) /\ s.here
        /\ \E out \in writes :
             LET after == Departs(t, u, out[2])
                 ends == Cardinality(Active(after)) = 1
             IN  /\ wallet' = [wallet EXCEPT ![u] = out[1]]
                 /\ owed' = Owe(owed, after.marked \ t.marked)
                 /\ Resolve(r, [after EXCEPT !.by = IF ends THEN u ELSE None])
                 /\ op' = [op EXCEPT ![u] = IF ends THEN @ ELSE Left(@)]
        /\ UNCHANGED <<packs, spent, departing, index>>

\* RemovePlayer, on the actor, to its end or to the Settle of the hand it ends.
LeaveRuns(u) ==
    LET r == op[u].at
        t == table[r]
        s == t.seat[u]
        gone == [op[u] EXCEPT !.chips = s.chips]
        writes == IF s.active
                  THEN Checkpoint(wallet[u],
                                  [t.entry[u] EXCEPT !.left = TRUE, !.chips = s.chips],
                                  "hand_left")
                  ELSE {<<wallet[u], t.entry[u]>>}
    IN  /\ op[u].kind = "leave"
        /\ Runs(r) /\ s.here
        /\ \E out \in writes :
             LET after == Departs(t, u, out[2])
                 ends == Cardinality(Active(after)) = 1
             IN  /\ wallet' = [wallet EXCEPT ![u] = out[1]]
                 /\ owed' = Owe(owed, after.marked \ t.marked)
                 /\ Resolve(r, [after EXCEPT !.by = IF ends THEN u ELSE None])
                 /\ op' = [op EXCEPT ![u] = IF ends THEN gone ELSE Left(gone)]
        /\ UNCHANGED <<packs, spent, departing, index>>

\* RemovePlayer of a room that was destroyed first: nobody was seated.
LeaveFindsNothing(u) ==
    /\ op[u].kind = "leave" /\ table[op[u].at].state \in {"gone", "shut"}
    /\ op' = [op EXCEPT ![u] = Left(@)]
    /\ UNCHANGED <<money, marks, index, table, chain>>

\* WhileUnseated looks ...
SpendLooks(u) ==
    /\ op[u].kind = "idle" /\ index[u] = None /\ ~Unfinished(u) /\ wallet[u] > 0
    /\ op' = [op EXCEPT ![u] = [Idle EXCEPT !.kind = "spend"]]
    /\ UNCHANGED <<money, marks, index, table, chain>>

\* ... and runs its fn, a transaction that spends what the wallet still has.
SpendCommits(u) ==
    /\ op[u].kind = "spend"
    /\ LET n == IF wallet[u] > 0 THEN 1 ELSE 0
       IN  /\ wallet' = [wallet EXCEPT ![u] = @ - n]
           /\ spent' = spent + n
    /\ op' = [op EXCEPT ![u] = Idle]
    /\ UNCHANGED <<packs, marks, index, table, chain>>

\* CreditBoughtChips: the database credit ...
BuyBanks(u) ==
    /\ op[u].kind = "idle" /\ packs > 0
    /\ packs' = packs - 1
    /\ wallet' = [wallet EXCEPT ![u] = @ + 1]
    /\ op' = [op EXCEPT ![u] = [Idle EXCEPT !.kind = "bought"]]
    /\ UNCHANGED <<spent, marks, index, table, chain>>

\* ... the index ...
BuyLooks(u) ==
    /\ op[u].kind = "bought"
    /\ op' = [op EXCEPT ![u] = IF index[u] = None THEN Idle
                               ELSE [@ EXCEPT !.kind = "credit", !.at = index[u]]]
    /\ UNCHANGED <<money, marks, index, table, chain>>

\* Mutant: the contribution gains the chips as if they had been won.
BuyTopsUpUnwritten(u) ==
    LET r == op[u].at
        e == table[r].entry[u]
    IN  /\ op[u].kind = "credit"
        /\ \/ /\ Runs(r) /\ table[r].seat[u].here
              /\ table' = [table EXCEPT
                     ![r].seat[u].chips = @ + 1,
                     ![r].entry[u] = IF e.in THEN [e EXCEPT !.chips = @ + 1] ELSE e]
           \/ /\ table[r].state \in {"gone", "shut"}
              /\ UNCHANGED table
        /\ op' = [op EXCEPT ![u] = Idle]
        /\ UNCHANGED <<money, marks, index, chain>>

\* ... and Table.CreditChips: the seat, and both sides of a contribution.
BuyTopsUp(u) ==
    LET r == op[u].at
        e == table[r].entry[u]
    IN  /\ op[u].kind = "credit"
        /\ \/ /\ Runs(r) /\ table[r].seat[u].here
              /\ table' = [table EXCEPT
                     ![r].seat[u].chips = @ + 1,
                     ![r].entry[u] =
                        IF e.in THEN [e EXCEPT !.chips = @ + 1, !.written = @ + 1] ELSE e]
           \/ /\ table[r].state \in {"gone", "shut"}
              /\ UNCHANGED table
        /\ op' = [op EXCEPT ![u] = Idle]
        /\ UNCHANGED <<money, marks, index, chain>>

(***************************************************************************)
(* DestroyTable, which takes no stripe.                                    *)
(***************************************************************************)

\* Mutant: the players taken off the index carry no mark.
DestroyStartsUnmarked(r) ==
    LET out == {u \in Users : index[u] = r}
    IN  /\ CanDestroy /\ Registered(r)
        /\ table' = [table EXCEPT ![r].state = "closing"]
        /\ index' = [u \in Users |-> IF u \in out THEN None ELSE index[u]]
        /\ UNCHANGED <<money, marks, op, chain>>

\* destroyTable up to Destroy: off the index, and departing.
DestroyStarts(r) ==
    LET out == {u \in Users : index[u] = r}
    IN  /\ CanDestroy /\ Registered(r)
        /\ table' = [table EXCEPT ![r].state = "closing", ![r].unseated = out]
        /\ index' = [u \in Users |-> IF u \in out THEN None ELSE index[u]]
        /\ departing' = Owe(departing, out)
        /\ UNCHANGED <<money, owed, op, chain>>

\* Table.destroy, on the actor: it settles a live hand first.
DestroyRuns(r) ==
    LET t == table[r]
    IN  /\ Runs(r) /\ t.state = "closing"
        /\ IF t.live
           THEN \E w \in Active(t) : EndHand(r, [t EXCEPT !.state = "ending"], w)
           ELSE /\ table' = [table EXCEPT ![r].state = "gone"]
                /\ UNCHANGED chain
        /\ UNCHANGED <<money, marks, index, op>>

\* clearDeparting, once Destroy has returned.
DestroyReturns(r) ==
    /\ table[r].state = "gone"
    /\ table' = [table EXCEPT ![r].state = "shut", ![r].unseated = {}]
    /\ departing' = Lift(departing, table[r].unseated)
    /\ UNCHANGED <<money, owed, index, op, chain>>

-----------------------------------------------------------------------------

OnTable(r) ==
    \/ StartHand(r) \/ Showdown(r) \/ FirstReturns(r)
    \/ DestroyStarts(r) \/ DestroyRuns(r) \/ DestroyReturns(r)
    \/ \E u \in Users : Chaal(r, u) \/ Pack(r, u)

Striped(u) ==
    \/ JoinReads(u) \/ Reserves(u) \/ Sits(u)
    \/ LeaveStarts(u) \/ LeaveRuns(u) \/ LeaveFindsNothing(u)
    \/ SpendLooks(u) \/ SpendCommits(u)
    \/ BuyBanks(u) \/ BuyLooks(u) \/ BuyTopsUp(u)
    \/ \E r \in Tables : JoinLooks(u, r) \/ SwitchStarts(u, r)

Next ==
    \/ \E r \in Tables : OnTable(r)
    \/ \E u \in Users : Striped(u)
    \/ \E h \in Hands : DbSettles(h) \/ RetryRuns(h) \/ RetryReturns(h)

Spec == Init /\ [][Next]_vars

(***************************************************************************)
(* Properties.                                                             *)
(***************************************************************************)

Kinds == {"idle", "join", "carry", "reserved", "leave", "spend", "bought", "credit"}

SeatRecords == [here : BOOLEAN, active : BOOLEAN, chips : Nat]
EntryRecords == [in : BOOLEAN, left : BOOLEAN, chips : Nat, written : Nat]

\* The types, and with them: no wallet, stack, contribution or mark is negative,
\* a player waited for in a closure is waiting, and only a live hand has stakes.
TypeOK ==
    /\ wallet \in [Users -> Nat] /\ packs \in Nat /\ spent \in Nat
    /\ index \in [Users -> Tables \cup {None}]
    /\ departing \in [Users -> Nat] /\ owed \in [Users -> Nat]
    /\ \A u \in Users : op[u] \in [kind : Kinds, at : Tables \cup {None},
                                    to : Tables \cup {None}, chips : Nat]
    /\ \A r \in Tables :
         LET t == table[r]
         IN  /\ t.state \in {"open", "closing", "ending", "gone", "shut"}
             /\ t.seat \in [Users -> SeatRecords] /\ t.entry \in [Users -> EntryRecords]
             /\ t.pot \in Nat /\ t.dealt \in 0 .. HandsPerTable
             /\ t.by # None => t.busy /\ op[t.by].kind = "leave" /\ op[t.by].at = r
             /\ ~t.live => t.pot = 0 /\ t.entry = [u \in Users |-> NoEntry]
    /\ \A h \in Hands :
         /\ chain[h].stage \in {"none", "first", "owed", "retried", "detached", "done"}
         /\ chain[h].delta \in [Users -> Int]
         /\ chain[h].rows \subseteq Users

\* What every write still on its way will make of a wallet: contributions of live
\* hands, and requests the database has not carried out.
Pending(u) ==
    Total([r \in Tables |-> Due(table[r].entry[u])], Tables)
    + Total([h \in Hands |-> chain[h].delta[u]], {h \in Hands : ~chain[h].landed})

\* Chips come from nowhere but a purchase: wallets, pots and what is on its way
\* to the wallets never add up to more than was put in, whatever writes are
\* refused, lost or clamped at zero (a refused write may cost chips, and never
\* makes any: Table.checkpoint, settlementOwed).
NoChipsFromNothing ==
    Total(wallet, Users) + packs + spent
    + Total([r \in Tables |-> table[r].pot], Tables)
    + Total([u \in Users |-> Pending(u)], Users)
        <= Cardinality(Users) * Purse + Packs

\* The argument of settlementOwed: a player who is off the index, not departing
\* and owed nothing, with the stripe free or held by whoever is looking, has no
\* debit on its way from any table, so that the lobby may use the wallet.
UnmarkedWalletIsFinal ==
    \A u \in Users :
        index[u] = None /\ ~Unfinished(u) /\ op[u].kind \in {"idle", "join", "spend"}
            => /\ \A r \in Tables : Due(table[r].entry[u]) >= 0
               /\ \A h \in Hands : ~chain[h].landed => chain[h].delta[u] >= 0

\* A seat and its wallet agree: the chips a seated player is shown are the
\* wallet's once every write on its way has landed, through packs, leaves,
\* refusals, retries, purchases and the balances a late settlement brings.
SeatIsReckoned ==
    \A r \in Tables, u \in Users :
        index[u] = r /\ table[r].seat[u].here /\ op[u] = Idle
            => table[r].seat[u].chips = wallet[u] + Pending(u)

\* No player has a seat in two rooms, nor is in two live hands' money at once by
\* sitting down: what the index, the stripe and departing are for.
OneSeatPerPlayer ==
    \A u \in Users :
        Cardinality({r \in Tables : table[r].state \notin {"gone", "shut"}
                                      /\ table[r].seat[u].here}) <= 1

\* SwitchTable: the chips that go to the next room are what the seat held, or, where
\* there was no seat to take them from and so nothing was staked, the wallet's.
SwitchCarriesTheStack ==
    \A u \in Users :
        op[u].kind = "carry" /\ op[u].to # None => op[u].chips = wallet[u] + Pending(u)
=============================================================================
