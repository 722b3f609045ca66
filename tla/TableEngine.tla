---------------------------- MODULE TableEngine ----------------------------
(***************************************************************************)
(* The hand engine of one Teen Patti table                                 *)
(* (go-server/internal/game/table.go): seats, the countdown, the deal, the *)
(* turn and its clock, bets, packs, sideshows, shows, missiles, the hand   *)
(* end, departures and kicks.                                              *)
(*                                                                         *)
(* Every method of the table runs as one closure on its actor, so every    *)
(* action below is one whole closure.  What interleaves with them is what  *)
(* the code runs elsewhere: a timer that has fired posts a callback to the *)
(* actor and cannot be recalled any more (tb.late), and a kick is carried  *)
(* out by a goroutine of the RoomManager (tb.kicks).                       *)
(*                                                                         *)
(* The table is one record; an operator takes a table and returns the SET  *)
(* of tables the method may leave, because which hand is best is not       *)
(* modelled: a showdown may be won by any hand it compares.  The variation *)
(* window, the five-card pick and the winning tax belong to other modules. *)
(***************************************************************************)
EXTENDS Integers, FiniteSets, FiniteSetsExt

CONSTANTS
    Users,              \* the players who may sit down
    MaxPlayers,         \* seats at the table
    MinPlayers,         \* funded seats a deal needs
    Boot,               \* BootAmount
    MaxPot,             \* the pot cap, 0 for none
    MaxRaiseSteps,      \* rungs of the bet ladder, 0 for as many as fit
    PotLimitMultiplier, \* the largest bet in boots, 0 for none
    MaxBetRounds,       \* rounds before a forced showdown, 0 for none
    MaxBlindMoves,      \* blind bets before the cards turn up, 0 for none
    MaxMissedTurns,     \* timeouts in a row before an idle kick, 0 for never
    SideshowMinPlayers, \* active seats an ordinary or forced sideshow needs
    HasGrace,           \* whether UnfundedGrace is above zero
    Purse,              \* chips each player has to start with
    Bank,               \* chips that can still be bought
    MaxLate             \* bound: callbacks waiting in the actor's mailbox

None == "none"
NoSeat == -1
Seats == 0 .. MaxPlayers - 1
MissileMinPlayers == 3

ASSUME TableAssumption ==
    /\ None \notin Users /\ IsFiniteSet(Users)
    /\ MaxPlayers \in Nat \ {0}
    /\ MinPlayers \in Nat /\ MinPlayers >= 2
    /\ Boot \in Nat \ {0}
    /\ {MaxPot, MaxRaiseSteps, PotLimitMultiplier, MaxBetRounds,
        MaxBlindMoves, MaxMissedTurns, SideshowMinPlayers, Purse, Bank,
        MaxLate} \subseteq Nat
    /\ HasGrace \in BOOLEAN

VARIABLES
    tb,     \* the table: the actor's state, its clocks and its mailbox
    purse,  \* [Users -> Nat]: what each player holds away from the table
    bank    \* chips nobody has bought yet

vars == <<tb, purse, bank>>

-----------------------------------------------------------------------------
(* The table's state *)

EmptySeat == [user |-> None, chips |-> 0, active |-> FALSE, blind |-> TRUE,
              moves |-> 0, missed |-> 0, asked |-> FALSE, grace |-> FALSE,
              kick |-> FALSE]

\* What a seat's status is read for: SeatActive or anything else.
Occupied(t) == {s \in Seats : t.seat[s].user # None}
Active(t)   == {s \in Occupied(t) : t.seat[s].active}
Funded(t)   == {s \in Occupied(t) : t.seat[s].chips >= Boot}
Live(t)     == t.phase = "betting"
SeatsOf(t, u) == {s \in Occupied(t) : t.seat[s].user = u}

\* Distance is the code's; Steps is how far a walk that starts at the next
\* seat goes, so a seat is a whole lap away from itself.
Distance(a, b) == (b - a) % MaxPlayers
Steps(a, b) == IF Distance(a, b) = 0 THEN MaxPlayers ELSE Distance(a, b)

NextOf(from, S) == CHOOSE s \in S : \A r \in S : Steps(from, s) <= Steps(from, r)
NextActive(t, from) == NextOf(from, Active(t))
Others(t, from) == Active(t) \ {from}
RightActive(t, from) ==
    CHOOSE s \in Others(t, from) :
        \A r \in Others(t, from) : Steps(s, from) <= Steps(r, from)

\* A callback already posted carries the turn token, the countdown generation
\* or the sideshow it was armed for; once that is replaced it is stale.
Callback(kind, seat) == [kind |-> kind, seat |-> seat, current |-> TRUE]
Stale(late, kind) ==
    {IF c.kind = kind THEN [c EXCEPT !.current = FALSE] ELSE c : c \in late}
Queued(t, kind) == \E c \in t.late : c.kind = kind /\ c.current

-----------------------------------------------------------------------------
(* Between hands *)

\* sweepUnfunded: every seat short of the boot gets its grace the first time
\* it is found short, or is asked to leave at once where there is no grace.
Swept(x) ==
    IF x.chips >= Boot THEN [x EXCEPT !.grace = FALSE]
    ELSE IF x.kick THEN x
    ELSE IF HasGrace THEN [x EXCEPT !.grace = TRUE]
    ELSE [x EXCEPT !.kick = TRUE]

SweepUnfunded(t) ==
    LET seat == [s \in Seats |-> IF s \in Occupied(t) THEN Swept(t.seat[s])
                                                       ELSE t.seat[s]]
    IN  [t EXCEPT !.seat = seat,
                  !.kicks = @ \cup {seat[s].user : s \in
                              {r \in Seats : seat[r].kick /\ ~t.seat[r].kick}}]

\* Mutant: counts the seats taken, not those that can pay the boot.
MaybeStartAnyone(t) ==
    IF t.phase # "waiting" THEN t
    ELSE LET swept == SweepUnfunded(t)
         IN  IF Cardinality(Occupied(swept)) < MinPlayers THEN swept
             ELSE [swept EXCEPT !.phase = "starting", !.startClock = TRUE,
                                !.late = Stale(@, "start")]

MaybeStart(t) ==
    IF t.phase # "waiting" THEN t
    ELSE LET swept == SweepUnfunded(t)
         IN  IF Cardinality(Funded(swept)) < MinPlayers THEN swept
             ELSE [swept EXCEPT !.phase = "starting", !.startClock = TRUE,
                                !.late = Stale(@, "start")]

CancelStart(t) ==
    [t EXCEPT !.phase = "waiting", !.startClock = FALSE,
              !.late = Stale(@, "start")]

-----------------------------------------------------------------------------
(* The turn *)

\* setTurn: a new token, so a timeout already posted is stale; a full clock.
\* turns is history: how many turns each seat has been given in this hand.
SetTurn(t, s, fresh) ==
    [t EXCEPT !.turn = s, !.turnClock = TRUE, !.late = Stale(@, "turn"),
              !.seat[s].asked = @ /\ ~fresh,
              !.turns[s] = IF fresh THEN @ + 1 ELSE @]

ClearTurnTimer(t) == [t EXCEPT !.turnClock = FALSE]

\* A seat out of the hand.  Whether it had looked, how often it had bet blind
\* and whether it had asked are not read again before the next deal (or the
\* next fresh turn) resets them, so they are reset here.
Out(x) == [x EXCEPT !.active = FALSE, !.blind = TRUE, !.moves = 0, !.asked = FALSE]

\* Mutants: the deal takes the boot from every seat; the pot counts a boot
\* for a seat that was not dealt in.
StartHandUnswept(t) ==
    LET swept  == SweepUnfunded(t)
        dealt  == Occupied(swept)
        dealer == NextOf(t.dealer, dealt)
        seat   == [s \in Seats |->
                     IF s \notin Occupied(swept) THEN swept.seat[s]
                     ELSE [Out(swept.seat[s]) EXCEPT
                             !.active = s \in dealt,
                             !.chips = IF s \in dealt THEN @ - Boot ELSE @]]
        first  == NextOf(dealer, dealt)
    IN  IF Cardinality(dealt) < MinPlayers
        THEN [swept EXCEPT !.phase = "waiting"]
        ELSE SetTurn([swept EXCEPT
                        !.phase = "betting", !.seat = seat, !.dealer = dealer,
                        !.pot = Boot * Cardinality(dealt), !.stake = Boot,
                        !.round = 0, !.start = first,
                        !.turns = [s \in Seats |-> 0]],
                     first, TRUE)

StartHandPotOfAll(t) ==
    LET swept  == SweepUnfunded(t)
        dealt  == Funded(swept)
        dealer == NextOf(t.dealer, dealt)
        seat   == [s \in Seats |->
                     IF s \notin Occupied(swept) THEN swept.seat[s]
                     ELSE [Out(swept.seat[s]) EXCEPT
                             !.active = s \in dealt,
                             !.chips = IF s \in dealt THEN @ - Boot ELSE @]]
        first  == NextOf(dealer, dealt)
    IN  IF Cardinality(dealt) < MinPlayers
        THEN [swept EXCEPT !.phase = "waiting"]
        ELSE SetTurn([swept EXCEPT
                        !.phase = "betting", !.seat = seat, !.dealer = dealer,
                        !.pot = Boot * Cardinality(Occupied(swept)), !.stake = Boot,
                        !.round = 0, !.start = first,
                        !.turns = [s \in Seats |-> 0]],
                     first, TRUE)

StartHand(t) ==
    LET swept  == SweepUnfunded(t)
        dealt  == Funded(swept)
        dealer == NextOf(t.dealer, dealt)
        seat   == [s \in Seats |->
                     IF s \notin Occupied(swept) THEN swept.seat[s]
                     ELSE [Out(swept.seat[s]) EXCEPT
                             !.active = s \in dealt,
                             !.chips = IF s \in dealt THEN @ - Boot ELSE @]]
        first  == NextOf(dealer, dealt)
    IN  IF Cardinality(dealt) < MinPlayers
        THEN [swept EXCEPT !.phase = "waiting"]
        ELSE SetTurn([swept EXCEPT
                        !.phase = "betting", !.seat = seat, !.dealer = dealer,
                        !.pot = Boot * Cardinality(dealt), !.stake = Boot,
                        !.round = 0, !.start = first,
                        !.turns = [s \in Seats |-> 0]],
                     first, TRUE)

\* endHand: the pot to the winner, every clock of the hand stopped, nobody in
\* a hand any more, and the table straight on to its next countdown.  (With
\* nobody left active the pot would go to the last player to leave;
\* HandCanMove shows that two are active for as long as a hand is live.)
EndHand(t, winner) ==
    MaybeStart([t EXCEPT
        !.phase = "waiting",
        !.seat = [s \in Seats |-> [Out(t.seat[s]) EXCEPT
                     !.chips = IF s = winner THEN @ + t.pot ELSE @]],
        !.pot = 0, !.stake = 0, !.round = 0, !.turn = NoSeat, !.start = NoSeat,
        !.side = {}, !.turnClock = FALSE, !.sideClock = FALSE,
        !.late = Stale(Stale(@, "turn"), "side"),
        !.turns = [s \in Seats |-> 0]])

\* resolveShowdown over every hand still in: any of them may be the best.
Showdown(t) == {EndHand(t, w) : w \in Active(t)}

PotCapReached(t) == MaxPot > 0 /\ t.pot + t.stake > MaxPot

\* Mutant: a round is over when the turn lands on the seat that opened.
RoundOverOnOpener(t, from) == NextActive(t, from) = t.start

\* A round is over whenever the turn steps over the seat that opened.
RoundOver(t, from) ==
    /\ Distance(from, t.start) > 0
    /\ Distance(from, t.start) <= Distance(from, NextActive(t, from))

AdvanceTurn(t, from) ==
    LET round == IF RoundOver(t, from) THEN t.round + 1 ELSE t.round
        next  == [t EXCEPT !.round = round]
    IN  IF Active(t) = {} THEN {t}
        ELSE IF PotCapReached(t) THEN Showdown(ClearTurnTimer(t))
        ELSE IF round > t.round /\ MaxBetRounds > 0 /\ round >= MaxBetRounds
             THEN Showdown(ClearTurnTimer(next))
        ELSE {SetTurn(next, NextActive(t, from), TRUE)}

\* pack, with resolveIfOnlyOneLeft: the last one standing takes the pot.
Fold(t, from, advance) ==
    IF Cardinality(Active(t)) = 1 THEN Showdown(t)
    ELSE IF advance THEN AdvanceTurn(t, from)
    ELSE {t}

Pack(t, s, advance) ==
    Fold(ClearTurnTimer([t EXCEPT !.seat[s] = Out(@)]), s, advance)

-----------------------------------------------------------------------------
(* The bet ladder *)

Headroom(t) == MaxPot - t.pot
UnitBet(t, s) ==
    LET base == IF t.seat[s].blind THEN t.stake ELSE 2 * t.stake
    IN  IF PotLimitMultiplier > 0 THEN Min({base, Boot * PotLimitMultiplier})
        ELSE base

\* Mutant: the pot cap forgotten.
FitsOverCap(t, s, a) ==
    /\ 0 < a /\ a <= t.seat[s].chips
    /\ PotLimitMultiplier > 0 => a <= Boot * PotLimitMultiplier

Fits(t, s, a) ==
    /\ 0 < a /\ a <= t.seat[s].chips
    /\ PotLimitMultiplier > 0 => a <= Boot * PotLimitMultiplier
    /\ MaxPot > 0 => a <= Headroom(t)

\* betOptions: the unit bet doubled for as long as it fits; when the cap alone
\* bars the first rung, what is left under it is offered instead.
Rungs(t, s) ==
    LET steps  == 0 .. (IF MaxRaiseSteps > 0 THEN MaxRaiseSteps - 1
                                             ELSE t.seat[s].chips)
        ladder == {a \in 1 .. t.seat[s].chips :
                     Fits(t, s, a) /\ \E k \in steps : a = UnitBet(t, s) * 2 ^ k}
        last   == Headroom(t)
    IN  IF /\ ladder = {} /\ MaxPot > 0
           /\ 0 < last /\ last < UnitBet(t, s) /\ last <= t.seat[s].chips
        THEN {last}
        ELSE ladder

Charge(t, s, a) == [t EXCEPT !.seat[s].chips = @ - a, !.pot = @ + a]

\* bet, once the rung is known: the stake is the blind unit, and the blind bet
\* that uses the last blind move turns the player's cards up.
Bet(t, s, a) ==
    LET blind == t.seat[s].blind
        moves == t.seat[s].moves + 1
        last  == MaxBlindMoves > 0 /\ moves >= MaxBlindMoves
        seat  == [t.seat[s] EXCEPT !.chips = @ - a,
                                   !.moves = IF blind THEN moves ELSE @,
                                   !.blind = blind /\ ~last]
        paid  == [t EXCEPT !.seat[s] = seat, !.pot = @ + a,
                           !.stake = IF blind THEN a ELSE a \div 2]
    IN  AdvanceTurn(ClearTurnTimer(paid), s)

-----------------------------------------------------------------------------
(* Sideshows *)

\* Mutant: the asker keeps the turn but the clock is not started again.
ResumeNoClock(t, from) == t

\* settleSideshow's last step: an asker who still holds the turn has it back
\* with a full clock, but not a fresh turn.
Resume(t, from) ==
    IF Live(t) /\ t.turn = from /\ t.seat[from].active
    THEN SetTurn(t, from, FALSE)
    ELSE t

\* Mutant: a pack by sideshow never moves the turn on.
SettleKeepsTurn(t, p, accepted) ==
    IF accepted /\ {p.from, p.to} \subseteq Active(t)
    THEN {Resume(r, p.from) :
            r \in UNION {Pack(t, loser, FALSE) : loser \in {p.from, p.to}}}
    ELSE {Resume(t, p.from)}

\* The weaker of the two hands packs; only whoever holds the turn moves it on.
Settle(t, p, accepted) ==
    IF accepted /\ {p.from, p.to} \subseteq Active(t)
    THEN {Resume(r, p.from) :
            r \in UNION {Pack(t, loser, t.turn = loser) : loser \in {p.from, p.to}}}
    ELSE {Resume(t, p.from)}

Closed(t) == [t EXCEPT !.side = {}, !.sideClock = FALSE, !.late = Stale(@, "side")]
ResolveSideshow(t, accepted) ==
    UNION {Settle(Closed(t), p, accepted) : p \in t.side}

CanSideshow(t, s) ==
    /\ t.side = {}
    /\ ~t.seat[s].asked
    /\ Cardinality(Active(t)) >= SideshowMinPlayers
    /\ Others(t, s) # {}
    /\ ~t.seat[s].blind
    /\ ~t.seat[RightActive(t, s)].blind

-----------------------------------------------------------------------------
(* Departures *)

\* removePlayer: a sideshow they were part of is dropped, the seat is freed,
\* and leaving a hand is a pack.
Vacated(t, s) == [t EXCEPT !.seat[s] = EmptySeat]
RemovePlayer(t, s) ==
    LET onTurn  == Live(t) /\ t.turn = s
        dropped == IF \E p \in t.side : s \in {p.from, p.to}
                   THEN ResolveSideshow(t, FALSE) ELSE {t}
        gone(r) == Vacated(r, s)
        left(r) == IF t.seat[s].active /\ Live(t)
                   THEN Fold(IF onTurn THEN ClearTurnTimer(gone(r)) ELSE gone(r),
                             s, onTurn)
                   ELSE IF t.phase = "starting" /\ Cardinality(Funded(gone(r))) < MinPlayers
                        THEN {CancelStart(gone(r))}
                   ELSE {MaybeStart(gone(r))}
    IN  UNION {left(r) : r \in dropped}

-----------------------------------------------------------------------------
Init ==
    /\ tb = [phase |-> "waiting", seat |-> [s \in Seats |-> EmptySeat],
             dealer |-> NoSeat, pot |-> 0, stake |-> 0, round |-> 0,
             turn |-> NoSeat, start |-> NoSeat, side |-> {},
             turnClock |-> FALSE, sideClock |-> FALSE, startClock |-> FALSE,
             late |-> {}, kicks |-> {}, turns |-> [s \in Seats |-> 0]]
    /\ purse = [u \in Users |-> Purse]
    /\ bank = Bank

(* Seats *)

\* AddPlayer, for a player RoomManager found able to pay the boot.
Join(u) ==
    /\ SeatsOf(tb, u) = {}
    /\ purse[u] >= Boot
    /\ Occupied(tb) # Seats
    /\ LET s == Min(Seats \ Occupied(tb))
       IN  tb' = MaybeStart([tb EXCEPT !.seat[s] =
                               [EmptySeat EXCEPT !.user = u, !.chips = purse[u]]])
    /\ purse' = [purse EXCEPT ![u] = 0]
    /\ UNCHANGED bank

Depart(u, s, t) ==
    /\ tb' \in RemovePlayer(t, s)
    /\ purse' = [purse EXCEPT ![u] = @ + t.seat[s].chips]
    /\ UNCHANGED bank

Leave(u) == \E s \in SeatsOf(tb, u) : Depart(u, s, tb)

\* kickHook's goroutine: removes the player only if they still sit here.
KickLands(u) ==
    /\ u \in tb.kicks
    /\ LET t == [tb EXCEPT !.kicks = @ \ {u}]
       IN  IF SeatsOf(t, u) = {}
           THEN tb' = t /\ UNCHANGED <<purse, bank>>
           ELSE \E s \in SeatsOf(t, u) : Depart(u, s, t)

\* CreditChips: a purchase already in the wallet reaches the seat.
CreditChips(u) ==
    /\ bank > 0
    /\ \E s \in SeatsOf(tb, u) :
         LET t == [tb EXCEPT !.seat[s].chips = @ + 1,
                             !.seat[s].grace = @ /\ tb.seat[s].chips + 1 < Boot]
         IN  tb' = IF Live(t) THEN t ELSE MaybeStart(t)
    /\ bank' = bank - 1
    /\ UNCHANGED purse

\* Mutant: the seat is marked as asked to leave, but nobody is told.
GraceExpiresSilently(s) ==
    /\ s \in Occupied(tb) /\ tb.seat[s].grace
    /\ ~tb.seat[s].active
    /\ tb' = [tb EXCEPT !.seat[s].grace = FALSE,
                        !.seat[s].kick = tb.seat[s].chips < Boot]
    /\ UNCHANGED <<purse, bank>>

\* expireUnfunded: the grace of one seat has run out.
GraceExpires(s) ==
    /\ s \in Occupied(tb) /\ tb.seat[s].grace
    /\ ~tb.seat[s].active
    /\ tb' = IF tb.seat[s].chips >= Boot
             THEN [tb EXCEPT !.seat[s].grace = FALSE]
             ELSE [tb EXCEPT !.seat[s].grace = FALSE, !.seat[s].kick = TRUE,
                             !.kicks = @ \cup {tb.seat[s].user}]
    /\ UNCHANGED <<purse, bank>>

(* Moves: act refuses everything but a look while a sideshow stands, and a *)
(* move that went through clears the missed turns first counted against it. *)

OnTurn(s) == Live(tb) /\ tb.turn = s /\ tb.seat[s].active /\ tb.side = {}
Present(t, s) == [t EXCEPT !.seat[s].missed = 0]
Moved(T) == tb' \in T /\ UNCHANGED <<purse, bank>>

See(s) ==
    /\ Live(tb) /\ tb.seat[s].active /\ tb.seat[s].blind
    /\ Moved({[tb EXCEPT !.seat[s].blind = FALSE]})

PlaceBet(s) ==
    /\ OnTurn(s)
    /\ \E a \in Rungs(tb, s) : Moved(Bet(Present(tb, s), s, a))

PackMove(s) ==
    /\ OnTurn(s)
    /\ Moved(Pack(Present(tb, s), s, TRUE))

Show(s) ==
    /\ OnTurn(s)
    /\ Cardinality(Active(tb)) = 2
    /\ Rungs(tb, s) # {}
    /\ Moved(Showdown(ClearTurnTimer(
                Charge(Present(tb, s), s, Min(Rungs(tb, s))))))

FireMissile(s) ==
    /\ OnTurn(s)
    /\ Cardinality(Active(tb)) >= MissileMinPlayers
    /\ Rungs(tb, s) # {}
    /\ Moved(Showdown(ClearTurnTimer(Present(tb, s))))

\* requestSideshow: the turn clock is stopped; the turn token stays.
RequestSideshow(s) ==
    /\ OnTurn(s)
    /\ CanSideshow(tb, s)
    /\ Moved({[ClearTurnTimer(Present(tb, s)) EXCEPT
                 !.seat[s].asked = TRUE,
                 !.side = {[from |-> s, to |-> RightActive(tb, s)]},
                 !.sideClock = TRUE]})

RespondToSideshow(accept) ==
    /\ Live(tb)
    /\ \E p \in tb.side : Moved(ResolveSideshow(Present(tb, p.to), accept))

ForceSideshow(s) ==
    /\ OnTurn(s)
    /\ CanSideshow(tb, s)
    /\ LET t == [ClearTurnTimer(Present(tb, s)) EXCEPT !.seat[s].asked = TRUE]
       IN  Moved(Settle(t, [from |-> s, to |-> RightActive(tb, s)], TRUE))

(* Clocks: one that runs out posts its callback, which runs some time later. *)

Post(t, c) ==
    /\ Cardinality(tb.late) < MaxLate
    /\ Moved({[t EXCEPT !.late = @ \cup {c}]})

TurnClockFires ==
    tb.turnClock /\ Post([tb EXCEPT !.turnClock = FALSE], Callback("turn", tb.turn))
SideClockFires ==
    tb.sideClock /\ Post([tb EXCEPT !.sideClock = FALSE], Callback("side", NoSeat))
StartClockFires ==
    tb.startClock /\ Post([tb EXCEPT !.startClock = FALSE], Callback("start", NoSeat))

Taken(c) == [tb EXCEPT !.late = @ \ {c}]

\* onTurnTimeout: a missed turn is a pack, and too many in a row a kick.
IdleKick(t, s, u) ==
    IF MaxMissedTurns > 0 /\ t.seat[s].missed >= MaxMissedTurns
    THEN [t EXCEPT !.kicks = @ \cup {u}] ELSE t
MissTurn(t, s) ==
    LET missed == [t EXCEPT !.seat[s].missed = Min({@ + 1, MaxMissedTurns})]
    IN  {IdleKick(r, s, t.seat[s].user) : r \in Pack(missed, s, TRUE)}

\* Mutant: the timeout does not check the turn token it was armed with.
TurnTimeoutAnyToken(c) ==
    /\ c.kind = "turn"
    /\ Moved(IF Live(tb) /\ tb.turn = c.seat /\ tb.seat[c.seat].active
             THEN MissTurn(Taken(c), c.seat)
             ELSE {Taken(c)})

TurnTimeout(c) ==
    /\ c.kind = "turn"
    /\ Moved(IF Live(tb) /\ tb.turn = c.seat /\ c.current /\ tb.seat[c.seat].active
             THEN MissTurn(Taken(c), c.seat)
             ELSE {Taken(c)})

SideshowTimeout(c) ==
    /\ c.kind = "side"
    /\ Moved(IF tb.side # {} /\ c.current THEN ResolveSideshow(Taken(c), FALSE)
             ELSE {Taken(c)})

Countdown(c) ==
    /\ c.kind = "start"
    /\ Moved({IF c.current THEN StartHand(Taken(c)) ELSE Taken(c)})

TurnTimeoutRuns == \E c \in tb.late : TurnTimeout(c)
SideTimeoutRuns == \E c \in tb.late : SideshowTimeout(c)
CountdownRuns   == \E c \in tb.late : Countdown(c)

Seating ==
    \/ \E u \in Users : Join(u) \/ Leave(u) \/ KickLands(u) \/ CreditChips(u)
    \/ \E s \in Seats : GraceExpires(s)
Moves ==
    \/ \E s \in Seats :
         \/ See(s) \/ PlaceBet(s) \/ PackMove(s) \/ Show(s) \/ FireMissile(s)
         \/ RequestSideshow(s) \/ ForceSideshow(s)
    \/ \E accept \in BOOLEAN : RespondToSideshow(accept)
Clocks ==
    \/ TurnClockFires \/ SideClockFires \/ StartClockFires
    \/ TurnTimeoutRuns \/ SideTimeoutRuns \/ CountdownRuns

Next == Seating \/ Moves \/ Clocks

Spec == Init /\ [][Next]_vars

\* Go's runtime fires an armed timer, the actor drains its mailbox, and a
\* goroutine that was started runs.  Nothing is assumed of the players.
Fairness ==
    /\ WF_vars(TurnClockFires) /\ WF_vars(SideClockFires) /\ WF_vars(StartClockFires)
    /\ WF_vars(TurnTimeoutRuns) /\ WF_vars(SideTimeoutRuns) /\ WF_vars(CountdownRuns)
    /\ \A u \in Users : WF_vars(KickLands(u))
    /\ \A s \in Seats : WF_vars(GraceExpires(s))
FairSpec == Spec /\ Fairness

-----------------------------------------------------------------------------
(* Properties *)

SeatType == [user : Users \cup {None}, chips : Nat, active : BOOLEAN,
             blind : BOOLEAN, moves : Nat, missed : 0 .. MaxMissedTurns,
             asked : BOOLEAN, grace : BOOLEAN, kick : BOOLEAN]
CallbackType == [kind : {"turn", "side", "start"}, seat : Seats \cup {NoSeat},
                 current : BOOLEAN]
TableType ==
    [phase : {"waiting", "starting", "betting"}, seat : [Seats -> SeatType],
     dealer : Seats \cup {NoSeat}, pot : Nat, stake : Nat, round : Nat,
     turn : Seats \cup {NoSeat}, start : Seats \cup {NoSeat},
     side : SUBSET [from : Seats, to : Seats],
     turnClock : BOOLEAN, sideClock : BOOLEAN, startClock : BOOLEAN,
     late : SUBSET CallbackType, kicks : SUBSET Users, turns : [Seats -> Nat]]

(* The table, the purses and the bank have their types, and at most one    *)
(* sideshow is pending.                                                    *)
TypeOK ==
    /\ tb \in TableType
    /\ Cardinality(tb.side) <= 1
    /\ purse \in [Users -> Nat]
    /\ bank \in Nat

(* A live hand can always move on by itself: at least two players are in,  *)
(* the turn is held by one of them, and either that player's clock is      *)
(* running (or its callback is on its way to the actor), or a sideshow is  *)
(* pending whose own clock will give the turn back.  No order of bets,     *)
(* packs, departures, late timeouts and answers may leave a hand frozen    *)
(* (setTurn, clearTurnTimer, settleSideshow, resolveIfOnlyOneLeft).        *)
HandCanMove ==
    Live(tb) =>
        /\ Cardinality(Active(tb)) >= 2
        /\ tb.turn \in Active(tb)
        /\ \/ tb.turnClock \/ Queued(tb, "turn")
           \/ tb.side # {} /\ (tb.sideClock \/ Queued(tb, "side"))

(* Between hands the countdown to the next deal is running exactly when    *)
(* enough seats can pay the boot, so a table is never left idle with       *)
(* players waiting and never counts down to a deal it cannot make          *)
(* (maybeStart, cancelStart and every path that must call them).           *)
CountdownIffDealable ==
    ~Live(tb) =>
        /\ tb.phase = "starting" <=> Cardinality(Funded(tb)) >= MinPlayers
        /\ tb.phase = "starting" => tb.startClock \/ Queued(tb, "start")

\* What the seats hold.
Stacks(t) == [s \in Seats |-> t.seat[s].chips]

(* Chips are neither made nor lost: seats, pot, purses and bank always add *)
(* up to what there was to begin with (chargeToPot, endHand, startHand's   *)
(* boots, removePlayer, CreditChips).                                      *)
ChipsConserved ==
    MapThenSumSet(LAMBDA s : Stacks(tb)[s], Seats) + tb.pot
      + MapThenSumSet(LAMBDA u : purse[u], Users) + bank
    = Cardinality(Users) * Purse + Bank

(* advanceTurn counts rounds fairly: a player still in has been given one  *)
(* turn per finished round, plus one if the turn has already reached them  *)
(* in this round.  So nobody acts twice in a round, and the round cap      *)
(* never forces a showdown on a player who is owed a turn, whoever packs   *)
(* or leaves, the opener included.                                         *)
FairRounds ==
    Live(tb) =>
        \A s \in Active(tb) :
            tb.turns[s] = tb.round +
                (IF Distance(tb.start, s) <= Distance(tb.start, tb.turn) THEN 1 ELSE 0)

(* No pot is ever worth more than its cap, when the cap is worth a boot per *)
(* seat: whatever ladder of bets, last rungs and shows led to it, a hand    *)
(* pays nobody more than MaxPot (betOptions' headroom, requirement 22).     *)
(* Stated of the payout, because the bet that would overfill the pot also   *)
(* ends the hand in the same closure (potCapReached).                       *)
PotWithinCap ==
    [][MaxPot >= Boot * MaxPlayers /\ Live(tb) =>
        \A s \in Occupied(tb) :
            tb'.seat[s].user = tb.seat[s].user =>
                tb'.seat[s].chips - tb.seat[s].chips <= MaxPot]_vars

(* A missed turn is only ever counted against a player whose clock is not  *)
(* running: a timeout that was already on its way when the turn was renewed *)
(* or handed on is ignored (setTurn's turnToken, onTurnTimeout).           *)
TimedOutOnlyOnExpiredClock ==
    [][\A s \in Seats : tb'.seat[s].missed > tb.seat[s].missed =>
            ~tb.turnClock /\ tb.turn = s]_vars

(* Every hand ends, whatever the players do or do not do: the clocks alone *)
(* bring it to an end (turn timeouts, sideshow timeouts, the round cap).   *)
EveryHandEnds == Live(tb) ~> ~Live(tb)

(* A player who cannot pay the boot does not keep a seat for ever while no *)
(* hand of theirs is live: they buy chips, are dealt back in by winning,   *)
(* leave, or are shown out when the grace is over (sweepUnfunded,          *)
(* expireUnfunded, kickHook).                                              *)
Broke(u) == \E s \in SeatsOf(tb, u) : tb.seat[s].chips < Boot /\ ~tb.seat[s].active
BrokeAreShownOut == \A u \in Users : Broke(u) ~> ~Broke(u)
=============================================================================
