--------------------------- MODULE ChoiceWindows ---------------------------
(***************************************************************************)
(* The choices a hand waits for, and the clocks that close them: the       *)
(* variation window that holds back the first turn, the five-card pick of  *)
(* each player who looked, the sideshow, and the showdown of the server's  *)
(* that is deferred until every pick is in - through leaves, late timer    *)
(* callbacks and restarts, which re-arm every clock from the snapshot      *)
(* (game/table_variation.go, game/table_fivecard.go, game/table.go,        *)
(* game/livestate.go).                                                     *)
(*                                                                         *)
(* Chips and cards are left out: a bet only moves the turn, a comparison   *)
(* may go either way, and the pot may reach its cap at any bet.            *)
(***************************************************************************)
EXTENDS Integers, FiniteSets

CONSTANTS
    N,              \* seats, all of them taken when the table opens
    MaxHands,       \* bound: hands dealt
    MaxBetRounds,   \* the round cap, 0 for none
    SideshowMinPlayers,
    MaxRestarts,    \* bound: restarts of the process
    MaxLate,        \* bound: timer callbacks on their way to the actor at once
    Overtakes       \* whether a sideshow may be asked with the asker's own turn
                    \* timeout on its way

MissileMinPlayers == 3
Seats == 0 .. N - 1

ASSUME ChoiceAssumption ==
    /\ {N, MaxHands} \subseteq Nat \ {0}
    /\ {MaxBetRounds, SideshowMinPlayers, MaxRestarts, MaxLate} \subseteq Nat
    /\ Overtakes \in BOOLEAN

VARIABLES
    hand,       \* the hand and its seats, as a snapshot carries them
    armed,      \* the timers running
    late,       \* the callbacks of timers that fired, not run yet
    restarts    \* restarts left

vars == <<hand, armed, late, restarts>>

NoSeat == -1
NoSide == [from |-> NoSeat, to |-> NoSeat]
Clocks == {"window", "turn", "side", "pick"}

-----------------------------------------------------------------------------

\* The window, the sideshow and each pick carry a deadline: "lapsed" is open
\* past it.  longTurn: the turn's deadline lies beyond its player's pick.
NoHand == [no |-> 0, live |-> FALSE, dealer |-> NoSeat, start |-> NoSeat, round |-> 0,
           status |-> [s \in Seats |-> "waiting"], blind |-> [s \in Seats |-> TRUE],
           window |-> "none", chooser |-> NoSeat, five |-> FALSE,
           pick |-> [s \in Seats |-> "none"],
           turn |-> NoSeat, turnLapsed |-> FALSE, longTurn |-> FALSE, asked |-> FALSE,
           side |-> NoSide, sideLapsed |-> FALSE, deferred |-> FALSE]

\* A callback: the timer, and the hand it was armed for.
Callback(k) == [clock |-> k, no |-> hand.no]

TypeOK ==
    /\ hand.no \in 0 .. MaxHands /\ hand.live \in BOOLEAN
    /\ hand.round \in 0 .. IF MaxBetRounds = 0 THEN 0 ELSE MaxBetRounds
    /\ {hand.dealer, hand.start, hand.turn, hand.chooser, hand.side.from, hand.side.to}
         \subseteq Seats \cup {NoSeat}
    /\ hand.status \in [Seats -> {"waiting", "active", "packed", "gone"}]
    /\ hand.pick \in [Seats -> {"none", "open", "lapsed", "picked"}]
    /\ hand.window \in {"none", "open", "lapsed", "closed"}
    /\ armed \subseteq Clocks
    /\ late \subseteq [clock : Clocks, no : 1 .. MaxHands]
    /\ restarts \in 0 .. MaxRestarts

\* Where a closure stands: the hand and the clocks it has left so far.
Here == [h |-> hand, armed |-> armed, late |-> late]
Becomes(x) == hand' = x.h /\ armed' = x.armed /\ late' = x.late

Active(h) == {s \in Seats : h.status[s] = "active"}
Seated(h) == {s \in Seats : h.status[s] # "gone"}
Distance(from, to) == (to - from) % N
NextOf(S, from) == CHOOSE s \in S : \A t \in S : (s - from - 1) % N <= (t - from - 1) % N
RightActive(h, s) ==
    LET others == Active(h) \ {s}
    IN  IF others = {} THEN NoSeat
        ELSE CHOOSE o \in others : \A p \in others : Distance(o, s) <= Distance(p, s)

\* variationPending, pickPending.
Choosing(h) == h.window \in {"open", "lapsed"}
Picking(h, S) == \E s \in S \cap Active(h) : h.pick[s] \in {"open", "lapsed"}

-----------------------------------------------------------------------------
(* The clocks *)

Stop(x, k) == [x EXCEPT !.armed = @ \ {k}]
\* A new token, a new sideshow: callbacks of the old one will find they are stale.
Forget(x, k) == [x EXCEPT !.late = {c \in @ : c.clock # k}]

\* setTurn.
SetTurn(x, s, fresh) ==
    [Forget(x, "turn") EXCEPT
        !.h.turn = s, !.h.turnLapsed = FALSE, !.h.longTurn = FALSE,
        !.h.asked = IF fresh THEN FALSE ELSE @, !.armed = @ \cup {"turn"}]

\* extendTurn: the player's own turn, pushed out past their pick and a full
\* turn, unless a sideshow has stopped its clock.
ExtendTurnForPick(x, s) ==
    IF x.h.turn = s /\ x.h.side = NoSide /\ x.h.pick[s] = "open" /\ ~x.h.longTurn
    THEN [Forget(x, "turn") EXCEPT !.h.turnLapsed = FALSE, !.h.longTurn = TRUE,
                                   !.armed = @ \cup {"turn"}]
    ELSE x

\* armPickTimer: running while a seat's window is.
ArmPickTimer(x) ==
    [x EXCEPT !.armed =
        IF x.h.live /\ \E s \in Seated(x.h) : x.h.pick[s] \in {"open", "lapsed"}
        THEN @ \cup {"pick"} ELSE @ \ {"pick"}]

\* beginPick.
BeginPick(x, s) ==
    IF x.h.five /\ ~x.h.blind[s] /\ x.h.pick[s] = "none"
    THEN ArmPickTimer(ExtendTurnForPick([x EXCEPT !.h.pick[s] = "open"], s))
    ELSE x

\* dropPick.
DropPick(x, s) ==
    IF x.h.pick[s] \in {"open", "lapsed"}
    THEN ArmPickTimer([x EXCEPT !.h.pick[s] = "none"]) ELSE x

-----------------------------------------------------------------------------
(* The ends of a hand *)

\* endHand: every clock of the hand is stopped; callbacks stay on their way.
EndHand(x) ==
    [x EXCEPT !.h = [@ EXCEPT !.live = FALSE, !.side = NoSide, !.sideLapsed = FALSE,
                              !.turn = NoSeat, !.turnLapsed = FALSE, !.longTurn = FALSE,
                              !.window = IF Choosing(x.h) THEN "closed" ELSE x.h.window,
                              !.deferred = FALSE],
              !.armed = {},
              !.late = {c \in @ : c.clock \in {"window", "pick"}}]

\* Mutant: the deferred showdown leaves the turn where it was.
ServerShowdownKeepsTurn(x) ==
    IF Picking(x.h, Seats) THEN [Stop(Forget(x, "turn"), "turn") EXCEPT !.h.deferred = TRUE]
    ELSE EndHand(x)

\* serverShowdown: deferred, with nobody on turn, while a hand it compares is
\* still being chosen.
ServerShowdown(x) ==
    IF Picking(x.h, Seats)
    THEN [Stop(Forget(x, "turn"), "turn") EXCEPT
            !.h = [@ EXCEPT !.deferred = TRUE, !.turn = NoSeat, !.turnLapsed = FALSE,
                            !.longTurn = FALSE]]
    ELSE EndHand(x)

\* runDeferredShowdown.
DeferredDue(x) == x.h.live /\ x.h.deferred /\ ~Picking(x.h, Seats)
RunDeferred(x) == IF DeferredDue(x) THEN EndHand(x) ELSE x

\* Mutant: the cap is one round late.
RoundCapPassed(round) == round > MaxBetRounds

\* advanceTurn; capped is potCapReached.
RoundCapReached(round) == round >= MaxBetRounds
RoundOver(h, from, next) ==
    LET toStart == Distance(from, h.start)
    IN  toStart > 0 /\ toStart <= Distance(from, next)
AdvanceTurn(x, from, capped) ==
    LET next == NextOf(Active(x.h), from)
        round == IF RoundOver(x.h, from, next) /\ MaxBetRounds > 0
                 THEN x.h.round + 1 ELSE x.h.round
        y == [x EXCEPT !.h.round = round]
    IN  IF capped THEN ServerShowdown(x)
        ELSE IF round > x.h.round /\ RoundCapReached(round) THEN ServerShowdown(y)
        ELSE SetTurn(y, next, TRUE)

\* pack, with resolveIfOnlyOneLeft.
Pack(x, s, advance, capped) ==
    LET y == Stop(DropPick([x EXCEPT !.h.status[s] = "packed"], s), "turn")
    IN  IF Cardinality(Active(y.h)) <= 1 THEN EndHand(y)
        ELSE IF advance THEN AdvanceTurn(y, s, capped) ELSE y

\* settleSideshow: loser is NoSeat unless it was accepted with both in the hand.
SettleSideshow(x, side, loser, capped) ==
    LET y == IF loser = NoSeat THEN x ELSE Pack(x, loser, x.h.turn = loser, capped)
    IN  IF y.h.live /\ y.h.turn = side.from /\ y.h.status[side.from] = "active"
        THEN SetTurn(y, side.from, FALSE) ELSE y

Losers(h, side, accepted) ==
    IF accepted /\ {side.from, side.to} \subseteq Active(h) THEN {side.from, side.to}
    ELSE {NoSeat}

\* resolveSideshow up to settleSideshow.
CloseSideshow(x) ==
    [Stop(Forget(x, "side"), "side") EXCEPT !.h.side = NoSide, !.h.sideLapsed = FALSE]

\* closeVariation: the variation that asks for a pick was chosen, or another.
CloseVariation(x, five, startTurn) ==
    LET lookers == {s \in Active(x.h) : five /\ ~x.h.blind[s]}
        y == ArmPickTimer([Stop(x, "window") EXCEPT
                !.h = [@ EXCEPT !.window = "closed", !.five = five,
                                !.pick = [s \in Seats |-> IF s \in lookers THEN "open"
                                                                           ELSE x.h.pick[s]]]])
    IN  IF startTurn THEN ExtendTurnForPick(SetTurn(y, x.h.chooser, TRUE), x.h.chooser) ELSE y

-----------------------------------------------------------------------------
(* The players *)

Init ==
    /\ hand = NoHand /\ armed = {} /\ late = {} /\ restarts = MaxRestarts

\* startHand and beginVariation.
Deal ==
    LET players == Seated(hand)
        dealer == NextOf(players, hand.dealer)
        first == NextOf(players, dealer)
    IN  /\ ~hand.live /\ hand.no < MaxHands /\ Cardinality(players) >= 2
        /\ hand' = [NoHand EXCEPT
                      !.no = hand.no + 1, !.live = TRUE, !.dealer = dealer, !.start = first,
                      !.status = [s \in Seats |-> IF s \in players THEN "active" ELSE "gone"],
                      !.window = "open", !.chooser = first]
        /\ armed' = {"window"}
        /\ UNCHANGED <<late, restarts>>

SelectVariation(s) ==
    /\ hand.live /\ Choosing(hand) /\ hand.chooser = s
    /\ \/ /\ hand.window = "open"
          /\ \E five \in BOOLEAN : Becomes(CloseVariation(Here, five, TRUE))
       \/ /\ hand.window = "lapsed"
          /\ Becomes(CloseVariation(Here, FALSE, TRUE))
    /\ UNCHANGED restarts

See(s) ==
    /\ hand.live /\ s \in Active(hand) /\ hand.blind[s]
    /\ Becomes(BeginPick([Here EXCEPT !.h.blind[s] = FALSE], s))
    /\ UNCHANGED restarts

SelectCards(s) ==
    /\ hand.live /\ s \in Active(hand) /\ hand.five /\ ~hand.blind[s]
    /\ hand.pick[s] # "picked"
    /\ Becomes(RunDeferred(ArmPickTimer([Here EXCEPT !.h.pick[s] = "picked"])))
    /\ UNCHANGED restarts

\* act's guards, for every move but a look.
OnTurn(s) ==
    /\ hand.live /\ s \in Active(hand) /\ ~Choosing(hand)
    /\ hand.turn = s /\ hand.side = NoSide

Bet(s) ==
    /\ OnTurn(s)
    /\ \E capped \in BOOLEAN : Becomes(AdvanceTurn(Here, s, capped))
    /\ UNCHANGED restarts

PackMove(s) ==
    /\ OnTurn(s)
    /\ \E capped \in BOOLEAN : Becomes(Pack(Here, s, TRUE, capped))
    /\ UNCHANGED restarts

\* Mutant: a show takes the hands as they are.
CanShowUnpicked(s) == Cardinality(Active(hand)) = 2

\* show and fireMissile: everyone still in is compared.
CanShow(s) == Cardinality(Active(hand)) = 2 /\ ~Picking(hand, Seats)
CanFire(s) == Cardinality(Active(hand)) >= MissileMinPlayers /\ ~Picking(hand, Seats)
Show(s) ==
    /\ OnTurn(s) /\ (CanShow(s) \/ CanFire(s))
    /\ Becomes(EndHand(Here))
    /\ UNCHANGED restarts

\* sideshowBlockedReason.
CanSideshow(s) ==
    LET right == RightActive(hand, s)
    IN  /\ OnTurn(s) /\ ~hand.asked
        /\ Cardinality(Active(hand)) >= SideshowMinPlayers
        /\ right # NoSeat /\ ~Picking(hand, {s, right})
        /\ ~hand.blind[s] /\ ~hand.blind[right]

\* requestSideshow: the turn's clock is stopped, its token kept.
RequestSideshow(s) ==
    /\ CanSideshow(s)
    /\ Overtakes \/ Callback("turn") \notin late
    /\ Becomes([Stop(Here, "turn") EXCEPT
                  !.h.asked = TRUE, !.h.side = [from |-> s, to |-> RightActive(hand, s)],
                  !.armed = @ \cup {"side"}])
    /\ UNCHANGED restarts

ForceSideshow(s) ==
    LET side == [from |-> s, to |-> RightActive(hand, s)]
    IN  /\ CanSideshow(s)
        /\ \E loser \in Losers(hand, side, TRUE), capped \in BOOLEAN :
              Becomes(SettleSideshow(Stop([Here EXCEPT !.h.asked = TRUE], "turn"),
                                     side, loser, capped))
        /\ UNCHANGED restarts

RespondToSideshow(s) ==
    /\ hand.side.to = s /\ hand.side # NoSide
    /\ \E accepted, capped \in BOOLEAN : \E loser \in Losers(hand, hand.side, accepted) :
          Becomes(SettleSideshow(CloseSideshow(Here), hand.side, loser, capped))
    /\ UNCHANGED restarts

\* removePlayer: a chooser's window and a party's sideshow close first.
Leave(s) ==
    LET onTurn == hand.live /\ hand.turn = s
        choosing == hand.live /\ Choosing(hand) /\ hand.chooser = s
        a == IF choosing THEN CloseVariation(Here, FALSE, FALSE) ELSE Here
        b == IF s \in {hand.side.from, hand.side.to}
             THEN SettleSideshow(CloseSideshow(a), hand.side, NoSeat, FALSE) ELSE a
        c == [b EXCEPT !.h.status[s] = "gone", !.h.pick[s] = "none"]
    IN  /\ s \in Seated(hand)
        /\ \E capped \in BOOLEAN :
              Becomes(IF ~hand.live \/ s \notin Active(hand) THEN c
                      ELSE IF Cardinality(Active(c.h)) <= 1 \/ DeferredDue(c) THEN EndHand(c)
                      ELSE IF onTurn \/ choosing
                      THEN AdvanceTurn(Stop(c, "turn"), s, capped)
                      ELSE c)
        /\ UNCHANGED restarts

-----------------------------------------------------------------------------
(* Time and the timers *)

LapseWindow ==
    /\ hand.live /\ hand.window = "open"
    /\ hand' = [hand EXCEPT !.window = "lapsed"]
    /\ UNCHANGED <<armed, late, restarts>>

LapsePick(s) ==
    /\ hand.live /\ hand.pick[s] = "open"
    /\ hand' = [hand EXCEPT !.pick[s] = "lapsed"]
    /\ UNCHANGED <<armed, late, restarts>>

\* A turn that was extended for a pick outlives it.
LapseTurn ==
    /\ hand.turn # NoSeat /\ ~hand.turnLapsed
    /\ hand.longTurn => hand.pick[hand.turn] # "open"
    /\ hand' = [hand EXCEPT !.turnLapsed = TRUE]
    /\ UNCHANGED <<armed, late, restarts>>

LapseSide ==
    /\ hand.side # NoSide /\ ~hand.sideLapsed
    /\ hand' = [hand EXCEPT !.sideLapsed = TRUE]
    /\ UNCHANGED <<armed, late, restarts>>

Lapsed(k) ==
    CASE k = "window" -> hand.window = "lapsed"
      [] k = "turn"   -> hand.turnLapsed
      [] k = "side"   -> hand.sideLapsed
      [] k = "pick"   -> \E s \in Seats : hand.pick[s] = "lapsed"

Fire(k) ==
    /\ k \in armed /\ Lapsed(k)
    /\ Callback(k) \notin late /\ Cardinality(late) < MaxLate
    /\ armed' = armed \ {k}
    /\ late' = late \cup {Callback(k)}
    /\ UNCHANGED <<hand, restarts>>

Taken(c) == [Here EXCEPT !.late = @ \ {c}]

\* The guard of the window's and the picks' callbacks.
OfThisHand(c) == hand.live /\ c.no = hand.no

\* armVariationTimer's callback.
WindowTimeout(c) ==
    /\ c.clock = "window"
    /\ Becomes(IF OfThisHand(c) /\ Choosing(hand)
               THEN CloseVariation(Taken(c), FALSE, TRUE) ELSE Taken(c))
    /\ UNCHANGED restarts

\* onTurnTimeout: it does not ask about a sideshow.
TurnTimeout(c) ==
    /\ c.clock = "turn"
    /\ \E capped \in BOOLEAN :
          Becomes(IF hand.turn \in Active(hand) THEN Pack(Taken(c), hand.turn, TRUE, capped)
                  ELSE Taken(c))
    /\ UNCHANGED restarts

SideshowTimeout(c) ==
    /\ c.clock = "side"
    /\ Becomes(SettleSideshow(CloseSideshow(Taken(c)), hand.side, NoSeat, FALSE))
    /\ UNCHANGED restarts

\* Mutant: the showdown that waited is left to the players.
ExpirePicksOnly(x) ==
    ArmPickTimer([x EXCEPT !.h.pick =
        [s \in Seats |-> IF @[s] = "lapsed" THEN "picked" ELSE @[s]]])

\* expirePicks: the first three for every pick past its deadline.
ExpirePicks(x) ==
    RunDeferred(ArmPickTimer([x EXCEPT !.h.pick =
        [s \in Seats |-> IF @[s] = "lapsed" THEN "picked" ELSE @[s]]]))
PickTimeout(c) ==
    /\ c.clock = "pick"
    /\ Becomes(IF OfThisHand(c) THEN ExpirePicks(Taken(c)) ELSE Taken(c))
    /\ UNCHANGED restarts

-----------------------------------------------------------------------------
(* The restart *)

\* validateSnapshot, of the seats a hand names.
Restorable(h) ==
    h.live =>
        /\ h.turn \in Seated(h) \cup {NoSeat}
        /\ h.deferred => h.turn = NoSeat /\ h.side = NoSide
        /\ h.side # NoSide => {h.side.from, h.side.to} \subseteq Seated(h)
        /\ Choosing(h) => h.chooser \in Seated(h)

\* resumeTimers, once a window is not in the way.
ResumeHand(x) ==
    IF ~x.h.live THEN x
    ELSE IF x.h.deferred THEN RunDeferred(x)
    ELSE IF x.h.side # NoSide THEN
         IF x.h.sideLapsed THEN SettleSideshow(CloseSideshow(x), x.h.side, NoSeat, FALSE)
         ELSE [x EXCEPT !.armed = @ \cup {"side"}]
    ELSE IF x.h.turn # NoSeat THEN
         [x EXCEPT !.armed = @ \cup {"turn"}, !.h.turnLapsed = FALSE,
                   !.h.longTurn = @ /\ ~x.h.turnLapsed]
    ELSE SetTurn(x, NextOf(Active(x.h), x.h.dealer), TRUE)

\* Mutant: the clock of the picks is not armed again.
ResumeTimersNoPick(x) ==
    IF ~(x.h.live /\ Choosing(x.h)) THEN ResumeHand(x)
    ELSE IF x.h.window = "open" THEN [x EXCEPT !.armed = @ \cup {"window"}]
    ELSE ResumeHand(CloseVariation(x, FALSE, TRUE))

\* resumeTimers and resumeVariation.
ResumeTimers(x) ==
    LET y == ArmPickTimer(x)
    IN  IF ~(x.h.live /\ Choosing(x.h)) THEN ResumeHand(y)
        ELSE IF x.h.window = "open" THEN [y EXCEPT !.armed = @ \cup {"window"}]
        ELSE ResumeHand(CloseVariation(y, FALSE, TRUE))

\* The process stops and another restores the table; time may have passed.
Restart ==
    /\ restarts > 0 /\ hand.live /\ Restorable(hand)
    /\ restarts' = restarts - 1
    /\ Becomes(ResumeTimers([h |-> hand, armed |-> {}, late |-> {}]))

Timeout(c) == WindowTimeout(c) \/ TurnTimeout(c) \/ SideshowTimeout(c) \/ PickTimeout(c)

Next ==
    \/ Deal
    \/ \E s \in Seats :
        \/ SelectVariation(s) \/ See(s) \/ SelectCards(s)
        \/ Bet(s) \/ PackMove(s) \/ Show(s)
        \/ RequestSideshow(s) \/ ForceSideshow(s) \/ RespondToSideshow(s)
        \/ Leave(s)
        \/ LapsePick(s)
    \/ LapseWindow \/ LapseTurn \/ LapseSide
    \/ \E k \in Clocks : Fire(k)
    \/ \E c \in late : Timeout(c)
    \/ Restart

Spec == Init /\ [][Next]_vars

\* Time passes, timers fire and the actor runs; the players may do nothing.
FairSpec ==
    /\ Spec
    /\ WF_vars(LapseWindow) /\ WF_vars(LapseTurn) /\ WF_vars(LapseSide)
    /\ \A s \in Seats : WF_vars(LapsePick(s))
    /\ \A k \in Clocks : WF_vars(Fire(k))
    /\ \A c \in [clock : Clocks, no : 1 .. MaxHands] : WF_vars(c \in late /\ Timeout(c))

-----------------------------------------------------------------------------
(* Properties *)

\* A hand always waits for something that will come: a window, a turn, a
\* sideshow or a deferred showdown each have their clock running or its callback
\* on the way, after a restart too (resumeTimers, serverShowdown).
SomethingWillCome ==
    hand.live => \E k \in Clocks :
        /\ k \in armed \/ Callback(k) \in late
        /\ CASE k = "window" -> Choosing(hand)
             [] k = "turn"   -> hand.turn # NoSeat
             [] k = "side"   -> hand.side # NoSide
             [] k = "pick"   -> Picking(hand, Seats)

\* No comparison judges a player still inside the window they were given to
\* choose: a hand that ends with two players in it has no pick open among them
\* (serverShowdown, pickPending).
ShowdownWaits ==
    [][hand.live /\ ~hand'.live /\ hand'.no = hand.no
        => Cardinality(Active(hand')) <= 1 \/ ~Picking(hand', Seats)]_vars

\* Whatever closure ends last before the process stops, the next one can rebuild
\* the table from what was saved (validateSnapshot, RestoreTable).
SnapshotRestores == Restorable(hand)

\* With the clocks fair, a hand ends, whatever the players do not do
\* (closeVariation, expirePicks, runDeferredShowdown, resumeTimers).
EveryHandEnds == \A n \in 1 .. MaxHands : hand.no = n /\ hand.live ~> ~(hand.no = n /\ hand.live)
=============================================================================
