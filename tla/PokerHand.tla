------------------------------ MODULE PokerHand ------------------------------
(***************************************************************************)
(* A table of the poker family: the four games are one engine with blinds  *)
(* or antes, betting streets, a draw, or a decision against the house, and *)
(* a hand ends in side pots built from what everybody put in               *)
(* (poker/table.go, poker/hand.go, poker/pot.go, poker/flow_threecard.go). *)
(*                                                                         *)
(* Cards are left out: a showdown ranks the hands in any order.  Every     *)
(* ledger call lands (its failures are SettlementChain's and LiveFence's), *)
(* and a kick, idle or unfunded, is a departure like another.              *)
(***************************************************************************)
EXTENDS Integers, FiniteSets, Functions, SequencesExt, FiniteSetsExt

CONSTANTS
    Users,
    N,              \* MaxPlayers
    Games,          \* of {"blinds", "draw", "house"}
    BoardStreets,   \* betting streets after the first of a game with a board
    Boot,
    Stacks,         \* the wallets the players may bring
    MaxHands,       \* bound: hands dealt
    Bank            \* bound: the chips in play that a purchase may add to

Seats == 0 .. N - 1
MinPlayers == 2
NoSeat == -1
NoUser == "nobody"
Ranks == [Seats -> 1 .. N]
Orders == {r \in Ranks : IsInjective(r)}

ASSUME PokerAssumption ==
    /\ Games \subseteq {"blinds", "draw", "house"} /\ Games # {}
    /\ N \in Nat /\ N >= MinPlayers /\ IsFiniteSet(Users)
    /\ Boot \in Nat \ {0} /\ BoardStreets \in 0 .. 3 /\ {MaxHands, Bank} \subseteq Nat
    /\ Stacks \subseteq [Users -> Nat]
    /\ NoUser \notin Users

VARIABLES
    game,       \* the table's variant
    brought,    \* the chips of the wallets at the start, and those bought since
    wallet,     \* the chips PostgreSQL holds
    hands,      \* hands left to deal
    table       \* the actor's state

vars == <<game, brought, wallet, hands, table>>

-----------------------------------------------------------------------------

Empty == [user |-> NoUser, chips |-> 0, in |-> FALSE, streetBet |-> 0,
          allIn |-> FALSE, acted |-> FALSE]
NoEntry == [seat |-> NoSeat, chips |-> 0, written |-> 0, contributed |-> 0,
            out |-> FALSE, left |-> FALSE]
NoHand == [live |-> FALSE, street |-> 0, cur |-> 0, minRaise |-> 0, turn |-> NoSeat,
           entry |-> [u \in Users |-> NoEntry]]

\* acted stands for drew on the draw.  end: how the hand ends in this closure.
NewTable == [seat |-> [i \in Seats |-> Empty], h |-> NoHand, button |-> NoSeat,
             starting |-> FALSE, ticking |-> FALSE, late |-> FALSE, open |-> TRUE,
             end |-> "no"]

Occupied(x) == {i \in Seats : x.seat[i].user # NoUser}
SeatOf(x, u) == CHOOSE i \in Seats : x.seat[i].user = u
IsSeated(x, u) == \E i \in Seats : x.seat[i].user = u
InHand(x) == {i \in Seats : x.seat[i].in}
CanAct(x) == {i \in InHand(x) : ~x.seat[i].allIn}

\* dealInChips: at a dealer's table the play bet is covered too.
DealIn == IF game = "house" THEN 2 * Boot ELSE Boot
Funded(x) == {i \in Occupied(x) : x.seat[i].chips >= DealIn}

SmallBlind == IF game = "blinds" THEN Boot \div 2 ELSE 0
BigBlind == IF game = "blinds" THEN Boot ELSE 0
Ante == IF game = "blinds" THEN 0 ELSE Boot

\* The streets of VariantConfig, and the showdown after the last.
Street(i) ==
    CASE game = "blinds" -> IF i <= BoardStreets THEN "betting" ELSE "showdown"
      [] game = "draw" -> IF i < 3 THEN <<"betting", "draw", "betting">>[i + 1] ELSE "showdown"
      [] game = "house" -> IF i = 0 THEN "decision" ELSE "showdown"
Here(x) == Street(x.h.street)

\* nextSeat: from itself comes last.
NextSeat(S, from) ==
    IF S = {} THEN NoSeat
    ELSE CHOOSE i \in S : \A j \in S : (i - from - 1) % N <= (j - from - 1) % N

-----------------------------------------------------------------------------
(* The pots *)

Total(f, S) == MapThenSumSet(LAMBDA x : f[x], S)

DealtAt(x, i) == {u \in Users : x.h.entry[u].seat = i}
Contributed(x, i) ==
    IF DealtAt(x, i) = {} THEN 0
    ELSE x.h.entry[CHOOSE u \in DealtAt(x, i) : TRUE].contributed
StillIn(x) == {x.h.entry[u].seat : u \in {v \in Users :
                    LET e == x.h.entry[v] IN e.seat # NoSeat /\ ~e.out /\ ~e.left}}
Pot(x) == Total([u \in Users |-> x.h.entry[u].contributed], Users)

\* The pot between two levels of contribution.
Layer(c, in, low, high) ==
    [amount |-> (high - low) * Cardinality({i \in Seats : c[i] >= high}),
     open |-> {i \in in : c[i] >= high}]

\* Mutant: an orphaned pot is dropped.
JoinedOnly(pots, p) ==
    IF p.open = {} THEN pots
    ELSE IF pots # <<>> /\ Last(pots).open = p.open
    THEN [pots EXCEPT ![Len(pots)].amount = @ + p.amount]
    ELSE Append(pots, p)

\* A pot joins the one before it when it is open to the same seats, or to none.
Joined(pots, p) ==
    IF pots # <<>> /\ p.open \in {Last(pots).open, {}}
    THEN [pots EXCEPT ![Len(pots)].amount = @ + p.amount]
    ELSE Append(pots, p)

\* SidePots: the pots open to fewer and fewer seats, so only the last can be
\* orphaned; a pot nobody in the hand reached is open to everyone still in.
SidePots(c, in) ==
    LET levels == {c[i] : i \in Seats} \cup {0}
        upTo[v \in levels] ==
            IF v = 0 THEN <<>>
            ELSE LET low == Max({l \in levels : l < v})
                 IN  Joined(upTo[low], Layer(c, in, low, v))
        pots == upTo[Max(levels)]
    IN  IF pots # <<>> /\ Last(pots).open = {} THEN [pots EXCEPT ![1].open = in] ELSE pots

Best(open, rank) == {i \in open : \A j \in open : rank[j] <= rank[i]}

\* Mutant: the odd chips stay on the table.
ShareEven(pot, rank, button, i) ==
    LET winners == Best(pot.open, rank)
    IN  IF i \in winners THEN pot.amount \div Cardinality(winners) ELSE 0

\* Award: the odd chips go to the first winners after the button.
Share(pot, rank, button, i) ==
    LET winners == Best(pot.open, rank)
        k == Cardinality(winners)
        before == {j \in winners : (j - button - 1) % N < (i - button - 1) % N}
    IN  IF i \notin winners THEN 0
        ELSE pot.amount \div k + IF Cardinality(before) < pot.amount % k THEN 1 ELSE 0
Award(pots, rank, button) ==
    [i \in Seats |-> LET share == [k \in DOMAIN pots |-> Share(pots[k], rank, button, i)]
                     IN  Total(share, DOMAIN pots)]

-----------------------------------------------------------------------------
(* The turn and the streets *)

SetTurn(x, i) == [x EXCEPT !.h.turn = i, !.ticking = TRUE, !.late = FALSE]
NobodyOnTurn(x) == [x EXCEPT !.h.turn = NoSeat, !.ticking = FALSE, !.late = FALSE]

\* needsAction.
NeedsAction(x) ==
    {i \in CanAct(x) : ~x.seat[i].acted \/ x.seat[i].streetBet < x.h.cur}
Undecided(x) == {i \in InHand(x) : ~x.seat[i].acted}

\* Mutant: a lone player with chips behind owes no call.
WaitingLone(x) ==
    CASE Here(x) = "betting" -> IF Cardinality(CanAct(x)) < 2 THEN {} ELSE NeedsAction(x)
      [] Here(x) \in {"draw", "decision"} -> Undecided(x)
      [] OTHER -> {}

\* Whom the street still waits for: streetHasSomeoneToAct, and the seats
\* advanceAfter looks among.
Waiting(x) ==
    CASE Here(x) = "betting" ->
            IF Cardinality(InHand(x)) < 2 \/ CanAct(x) = {} THEN {}
            ELSE IF Cardinality(CanAct(x)) = 1
            THEN {i \in CanAct(x) : x.seat[i].streetBet < x.h.cur}
            ELSE NeedsAction(x)
      [] Here(x) \in {"draw", "decision"} -> Undecided(x)
      [] OTHER -> {}

Ends(x, how) == [NobodyOnTurn(x) EXCEPT !.end = how]

\* firstToAct: after the big blind on the first street, after the button later.
FirstToAct(x) ==
    LET first == NextSeat(InHand(x), x.button)
        bb == IF Cardinality(InHand(x)) = 2 THEN first ELSE NextSeat(InHand(x), first)
    IN  IF x.h.street = 0 /\ game = "blinds" THEN NextSeat(NeedsAction(x), bb)
        ELSE NextSeat(Waiting(x), x.button)

\* beginStreet of a later street: the streets with nobody to act are passed.
LaterStreet(x, i) ==
    LET y == [x EXCEPT !.h.street = i, !.h.cur = 0, !.h.minRaise = Boot,
                       !.seat = [s \in Seats |->
                          [x.seat[s] EXCEPT !.streetBet = 0, !.acted = @ /\ ~x.seat[s].in]]]
        j == CHOOSE k \in i .. 4 :
                /\ Street(k) = "showdown" \/ Waiting([y EXCEPT !.h.street = k]) # {}
                /\ \A l \in i .. k - 1 : Waiting([y EXCEPT !.h.street = l]) = {}
        z == [y EXCEPT !.h.street = j]
    IN  IF Street(j) = "showdown" THEN Ends(z, IF game = "house" THEN "house" ELSE "showdown")
        ELSE SetTurn(z, FirstToAct(z))
EndStreet(x) == LaterStreet(NobodyOnTurn(x), x.h.street + 1)

\* resolveIfOnlyOneLeft: against the house the last player plays on.
OnlyOneLeft(x) == InHand(x) = {} \/ (Cardinality(InHand(x)) = 1 /\ game # "house")
Resolved(x) ==
    Ends(x, IF game = "house" THEN "house" ELSE IF InHand(x) = {} THEN "refund" ELSE "showdown")

AdvanceAfter(x, from) ==
    IF OnlyOneLeft(x) THEN Resolved(x)
    ELSE IF Waiting(x) = {} THEN EndStreet(x)
    ELSE SetTurn(x, NextSeat(Waiting(x), from))

-----------------------------------------------------------------------------
(* The end of a hand *)

MaybeStart(x) == [x EXCEPT !.starting = @ \/ Cardinality(Funded(x)) >= MinPlayers]

\* What each seat takes at the end: the pots, the house's payments.
HouseTakes(x, qualified, luck) ==
    [i \in Seats |->
        LET put == Contributed(x, i)
        IN  IF i \notin InHand(x) THEN 0
            ELSE IF ~qualified THEN 2 * Ante + Max({0, put - Ante})
            ELSE CASE luck[i] = 3 -> 2 * put
                   [] luck[i] = 2 -> put
                   [] OTHER -> 0]

Takes(x) ==
    CASE x.end = "showdown" ->
            LET pots == SidePots([i \in Seats |-> Contributed(x, i)], StillIn(x))
            IN  {Award(pots, r, x.button) : r \in Ranks}
      [] x.end = "house" ->
            {HouseTakes(x, q, l) : q \in BOOLEAN, l \in [Seats -> 1 .. 3]}
      [] x.end = "refund" ->
            {[i \in Seats |-> 0]}

\* endHandRefunded: not to whoever walked out of the hand.
Refunded(x, u) == IF x.h.entry[u].left THEN 0 ELSE x.h.entry[u].contributed

\* The hand's accounts with the pots, the payments or the refunds in them.
Final(x, takes) ==
    [u \in Users |->
        LET e == x.h.entry[u]
        IN  IF e.seat = NoSeat THEN e
            ELSE IF x.end = "refund" THEN [e EXCEPT !.chips = e.chips + Refunded(x, u)]
            ELSE IF e.out \/ e.left THEN e
            ELSE [e EXCEPT !.chips = e.chips + takes[e.seat]]]

\* What a seat holds then: who is out of the hand, or not of it, keeps their chips.
Keeps(x, final, s) ==
    LET e == final[s.user]
    IN  IF e.seat = NoSeat \/ e.left \/ (e.out /\ x.end # "refund") THEN s.chips ELSE e.chips

Cleared(x, final) ==
    MaybeStart([x EXCEPT !.h = NoHand, !.end = "no",
        !.seat = [i \in Seats |->
            IF x.seat[i].user = NoUser THEN Empty
            ELSE [x.seat[i] EXCEPT !.chips = Keeps(x, final, x.seat[i]), !.in = FALSE]]])

\* endHandWithWinners, resolveDealer or endHandRefunded, and settle.
Settled(x, takes) ==
    LET final == Final(x, takes)
    IN  [paid |-> [u \in Users |-> final[u].chips - final[u].written],
         table |-> Cleared(x, final)]

\* A closure of the actor ends: with the hand over, its money has moved.
Becomes(x, paid) ==
    \/ /\ x.end = "no"
       /\ table' = x
       /\ wallet' = [u \in Users |-> wallet[u] + paid[u]]
    \/ /\ x.end # "no"
       /\ \E takes \in Takes(x) :
            LET s == Settled(x, takes)
            IN  /\ table' = s.table
                /\ wallet' = [u \in Users |-> wallet[u] + paid[u] + s.paid[u]]

Nothing == [u \in Users |-> 0]

\* checkpoint: what the player's wallet has not had yet.
Owed(x, u) == [Nothing EXCEPT ![u] = x.h.entry[u].chips - x.h.entry[u].written]
Written(x, u) == [x EXCEPT !.h.entry[u].written = x.h.entry[u].chips]

-----------------------------------------------------------------------------
(* The hand *)

Init ==
    /\ game \in Games /\ hands = MaxHands
    /\ \E w \in Stacks : wallet = w /\ brought = Total(w, Users)
    /\ table = NewTable

Least(a, b) == IF a < b THEN a ELSE b

\* Mutant: a call may be more than the player has.
StakeUnclamped(x, i, amount) ==
    LET u == x.seat[i].user
    IN  [x EXCEPT !.seat[i].chips = @ - amount, !.seat[i].streetBet = @ + amount,
                  !.h.entry[u].contributed = @ + amount,
                  !.h.entry[u].chips = x.seat[i].chips - amount]

\* stake: short, it is all the player has.
Stake(x, i, amount) ==
    LET s == x.seat[i]
        e == x.h.entry[s.user]
        taken == Least(amount, s.chips)
    IN  [x EXCEPT
          !.seat[i] = [s EXCEPT !.chips = s.chips - taken, !.streetBet = s.streetBet + taken,
                                !.allIn = s.allIn \/ taken = s.chips],
          !.h.entry[s.user] = [e EXCEPT !.contributed = e.contributed + taken,
                                        !.chips = s.chips - taken]]

\* post, at each seat alike: an ante is no bet of the street.
Antes(x) ==
    LET pays(u) == IsSeated(x, u) /\ SeatOf(x, u) \in InHand(x)
    IN  [x EXCEPT
          !.seat = [i \in Seats |-> IF i \notin InHand(x) THEN x.seat[i]
                                    ELSE [Stake(x, i, Ante).seat[i] EXCEPT !.streetBet = 0]],
          !.h.entry = [u \in Users |-> IF pays(u) THEN Stake(x, SeatOf(x, u), Ante).h.entry[u]
                                       ELSE x.h.entry[u]]]
Blinds(x) ==
    LET sb == IF Cardinality(InHand(x)) = 2 THEN x.button ELSE NextSeat(InHand(x), x.button)
    IN  Stake(Stake(x, sb, SmallBlind), NextSeat(InHand(x), sb), BigBlind)

\* startHand: everybody who can pay the stake is dealt in.
Dealt(x, button) ==
    LET players == Funded(x)
        users == {x.seat[i].user : i \in players}
    IN  [x EXCEPT
            !.starting = FALSE, !.button = button,
            !.h = [NoHand EXCEPT !.live = TRUE, !.minRaise = Boot, !.cur = BigBlind,
                    !.entry = [u \in Users |->
                        IF u \notin users THEN NoEntry
                        ELSE LET i == SeatOf(x, u) IN
                             [NoEntry EXCEPT !.seat = i, !.chips = x.seat[i].chips,
                                             !.written = x.seat[i].chips]]],
            !.seat = [i \in Seats |->
                [Empty EXCEPT !.user = x.seat[i].user, !.chips = x.seat[i].chips,
                              !.in = i \in players]]]

\* The countdown runs out.
StartHand ==
    LET players == Funded(table)
        dealt == Dealt(table, NextSeat(players, table.button))
        posted == IF game = "blinds" THEN Blinds(dealt) ELSE Antes(dealt)
    IN  /\ table.open /\ table.starting
        /\ IF Cardinality(players) < MinPlayers
           THEN Becomes([table EXCEPT !.starting = FALSE], Nothing) /\ UNCHANGED hands
           ELSE /\ hands > 0 /\ hands' = hands - 1
                /\ Becomes(IF Waiting(posted) = {} THEN EndStreet(posted)
                           ELSE SetTurn(posted, FirstToAct(posted)), Nothing)
        /\ UNCHANGED <<game, brought>>

\* act's guards.
OnTurn(i) == table.h.live /\ table.h.turn = i /\ table.seat[i].in

Folded(x, i) ==
    LET u == x.seat[i].user
    IN  Written([x EXCEPT !.seat[i].in = FALSE, !.seat[i].acted = TRUE,
                          !.h.entry[u].out = TRUE], u)
Fold(i) ==
    /\ OnTurn(i) /\ Here(table) # "draw"
    /\ Becomes(AdvanceAfter(Folded(table, i), i), Owed(table, table.seat[i].user))
    /\ UNCHANGED <<game, brought, hands>>

Acted(x, i) == [x EXCEPT !.seat[i].acted = TRUE]
ToCall(x, i) == x.h.cur - x.seat[i].streetBet
Check(i) ==
    /\ OnTurn(i) /\ Here(table) = "betting" /\ ToCall(table, i) <= 0
    /\ Becomes(AdvanceAfter(Acted(table, i), i), Nothing)
    /\ UNCHANGED <<game, brought, hands>>

Call(i) ==
    /\ OnTurn(i) /\ Here(table) = "betting" /\ ToCall(table, i) > 0
    /\ Becomes(AdvanceAfter(Acted(Stake(table, i, ToCall(table, i)), i), i), Nothing)
    /\ UNCHANGED <<game, brought, hands>>

\* options: what a bet or a raise may bring the street's bet to.
MayRaise(x, i) == ~x.seat[i].acted /\ CanAct(x) \ {i} # {}
BetTo(x, i) ==
    LET s == x.seat[i]
        least == IF x.h.cur = 0 THEN Boot ELSE x.h.cur + x.h.minRaise
        all == s.streetBet + s.chips
    IN  IF s.chips > Max({0, ToCall(x, i)}) /\ (x.h.cur > 0 => MayRaise(x, i))
        THEN Least(least, all) .. all ELSE {}

\* raiseTo: a full raise, and any opening bet, gives everyone another turn.
RaisedTo(x, i, bet) ==
    LET by == bet - x.h.cur
        full == x.h.cur = 0 \/ by >= x.h.minRaise
        y == Stake(x, i, bet - x.seat[i].streetBet)
    IN  Acted([y EXCEPT !.h.cur = bet, !.h.minRaise = Max({@, by}),
                        !.seat = [j \in Seats |->
                            [y.seat[j] EXCEPT !.acted = @ /\ ~(full /\ x.seat[j].in)]]], i)
Bet(i) ==
    /\ OnTurn(i) /\ Here(table) = "betting"
    /\ \E bet \in BetTo(table, i) :
          Becomes(AdvanceAfter(RaisedTo(table, i, bet), i), Nothing)
    /\ UNCHANGED <<game, brought, hands>>

Play(i) ==
    /\ OnTurn(i) /\ Here(table) = "decision" /\ table.seat[i].chips > 0
    /\ Becomes(AdvanceAfter(Acted(Stake(table, i, Ante), i), i), Nothing)
    /\ UNCHANGED <<game, brought, hands>>

\* applyDraw: the cards it changes are left out.
Draw(i) ==
    /\ OnTurn(i) /\ Here(table) = "draw"
    /\ Becomes(AdvanceAfter(Acted(table, i), i), Nothing)
    /\ UNCHANGED <<game, brought, hands>>

TurnClockFires ==
    /\ table.ticking
    /\ table' = [table EXCEPT !.ticking = FALSE, !.late = TRUE]
    /\ UNCHANGED <<game, brought, wallet, hands>>

\* onTurnTimeout; a callback whose token is no longer the turn's does nothing,
\* and late stands for one whose token is.
TurnTimeout ==
    LET i == table.h.turn
        x == [table EXCEPT !.late = FALSE]
    IN  /\ table.late
        /\ IF Here(table) = "draw" \/ (Here(table) = "betting" /\ ToCall(table, i) <= 0)
           THEN Becomes(AdvanceAfter(Acted(x, i), i), Nothing)
           ELSE Becomes(AdvanceAfter(Folded(x, i), i), Owed(x, table.seat[i].user))
        /\ UNCHANGED <<game, brought, hands>>

-----------------------------------------------------------------------------
(* Coming and going *)

\* addPlayer: the first free seat; the wallet must hold the boot (MinBuyIn).
Join(u) ==
    LET free == Seats \ Occupied(table)
        i == CHOOSE s \in free : \A j \in free : s <= j
    IN  /\ table.open /\ ~IsSeated(table, u) /\ free # {} /\ wallet[u] >= Boot
        /\ LET x == [table EXCEPT !.seat[i] = [Empty EXCEPT !.user = u, !.chips = wallet[u]]]
           IN  table' = IF x.h.live THEN x ELSE MaybeStart(x)
        /\ UNCHANGED <<game, brought, wallet, hands>>

\* Mutant: a player who leaves takes the turn with them.
DepartedAlone(x, i, wasOnTurn) == IF OnlyOneLeft(x) THEN Resolved(x) ELSE x

\* removePlayer, once the seat is empty and its stake is written.
Departed(x, i, wasOnTurn) ==
    IF OnlyOneLeft(x) THEN Resolved(x)
    ELSE IF wasOnTurn THEN AdvanceAfter(x, i)
    ELSE IF Waiting(x) = {} THEN EndStreet(x)
    ELSE x

Leave(u) ==
    LET i == SeatOf(table, u)
        gone == [table EXCEPT !.seat[i] = Empty]
        walked == Written([gone EXCEPT !.h.entry[u].left = TRUE], u)
    IN  /\ table.open /\ IsSeated(table, u)
        /\ IF table.seat[i].in
           THEN Becomes(Departed(walked, i, table.h.turn = i), Owed(table, u))
           ELSE /\ table' = IF table.h.live THEN gone
                            ELSE [gone EXCEPT !.starting =
                                    @ /\ Cardinality(Funded(gone)) >= MinPlayers]
                /\ UNCHANGED wallet
        /\ UNCHANGED <<game, brought, hands>>

\* CreditChips, once the purchase is in the wallet: a player who sits at the
\* table has it at the seat and, dealt in, in the hand's accounts.
Buy(u) ==
    LET i == SeatOf(table, u)
        e == table.h.entry[u]
        x == [table EXCEPT !.seat[i].chips = @ + 1,
                !.h.entry[u] = IF e.seat = NoSeat THEN e
                               ELSE [e EXCEPT !.chips = @ + 1, !.written = @ + 1]]
    IN  /\ table.open /\ IsSeated(table, u)
        /\ brought < Bank
        /\ brought' = brought + 1
        /\ wallet' = [wallet EXCEPT ![u] = @ + 1]
        /\ table' = IF x.h.live THEN x ELSE MaybeStart(x)
        /\ UNCHANGED <<game, hands>>

\* destroy, with the hand refunded; the players are seated nowhere after it.
Destroy ==
    LET done == IF table.h.live
                THEN Settled([table EXCEPT !.end = "refund"], [i \in Seats |-> 0])
                ELSE [paid |-> Nothing]
    IN  /\ table.open
        /\ table' = [NewTable EXCEPT !.open = FALSE]
        /\ wallet' = [u \in Users |-> wallet[u] + done.paid[u]]
        /\ UNCHANGED <<game, brought, hands>>

\* The process stops and another restores the table: resumeTimers gives the
\* player on turn a clock.
Restart ==
    /\ table.open /\ table.h.live
    /\ table' = [table EXCEPT !.ticking = TRUE, !.late = FALSE]
    /\ UNCHANGED <<game, brought, wallet, hands>>

Next ==
    \/ StartHand \/ TurnClockFires \/ TurnTimeout \/ Destroy \/ Restart
    \/ \E i \in Seats : Fold(i) \/ Check(i) \/ Call(i) \/ Bet(i) \/ Play(i) \/ Draw(i)
    \/ \E u \in Users : Join(u) \/ Leave(u) \/ Buy(u)

Spec == Init /\ [][Next]_vars

-----------------------------------------------------------------------------
(* Properties *)

\* Chips, at the seats, in the accounts and in the database, are never negative;
\* a player has one seat and the closure that ends a hand leaves none behind.
TypeOK ==
    /\ game \in Games /\ brought \in Nat /\ hands \in 0 .. MaxHands
    /\ wallet \in [Users -> Nat]
    /\ table.end = "no"
    /\ \A i \in Seats : LET s == table.seat[i] IN
          /\ s.user \in Users \cup {NoUser} /\ {s.chips, s.streetBet} \subseteq Nat
          /\ \A j \in Seats \ {i} : s.user # NoUser => table.seat[j].user # s.user
    /\ table.h.turn \in Seats \cup {NoSeat}
    /\ \A u \in Users : LET e == table.h.entry[u] IN
          {e.chips, e.written, e.contributed} \subseteq Nat
    /\ table.starting => ~table.h.live

Held(u) == IF IsSeated(table, u) THEN table.seat[SeatOf(table, u)].chips ELSE wallet[u]

\* Between players no hand makes or destroys a chip, however they bet, fold, walk
\* out, come back or buy while it is played, and between hands the database holds
\* what the seats do (stake, Award, checkpoint, settle).  Only a table destroyed
\* under a hand keeps the stakes of those who had walked out of it.
ChipsConserved ==
    /\ table.open /\ ~table.h.live => \A u \in Users : wallet[u] = Held(u)
    /\ game # "house" =>
         LET held == Total([u \in Users |-> Held(u)], Users)
         IN  IF table.open THEN held + Pot(table) = brought ELSE held <= brought

\* At every point of a hand the pots hold what was put in, and a showdown now
\* would give each chip to the best hand of those still in who put in as many -
\* or, of chips only players now out put in, to the best of those who put in most
\* (SidePots, Award).
PotsAreLayers ==
    LET c == [i \in Seats |-> Contributed(table, i)]
        in == StillIn(table)
        top == Max({0} \cup {c[i] : i \in in})
        reached(k) == {j \in in : c[j] >= Least(k, top)}
        highest == Max({c[i] : i \in Seats})
        due(rank, i) == Total(
            [k \in 1 .. highest |-> IF i \in Best(reached(k), rank)
                                    THEN Cardinality({j \in Seats : c[j] >= k}) ELSE 0],
            1 .. highest)
    IN  table.h.live =>
          \A rank \in Orders :
             Award(SidePots(c, in), rank, table.button) = [i \in Seats |-> due(rank, i)]

\* Whoever can still bet has matched, when a street closes, everything those still
\* in put in: what lies collected of theirs is never less than another's, so nobody
\* reaches a showdown for a bet they were not asked to call
\* (needsAction, streetHasSomeoneToAct).
NobodyRidesFree ==
    LET collected(i) == table.h.entry[table.seat[i].user].contributed - table.seat[i].streetBet
    IN  \A p \in CanAct(table), q \in InHand(table) : collected(q) <= collected(p)

\* A hand is never left waiting for nobody: the turn is with a player whose answer
\* the street needs, and their clock runs or its callback is on the way
\* (advanceAfter, removePlayer, beginStreet).
HandCanMove ==
    table.h.live => /\ table.h.turn \in Waiting(table)
                    /\ table.ticking \/ table.late
=============================================================================
