------------------------- MODULE TableEngineProofs -------------------------
(***************************************************************************)
(* Proofs about the hand engine (TableEngine): its five invariants and its *)
(* two action properties, for any number of players, seats, chips and      *)
(* late callbacks and for every setting of its limits.                     *)
(*                                                                         *)
(* The invariant says of the table that it is one of two things (TabOK):   *)
(* a live hand that can move (LiveOK), or a table at rest whose countdown  *)
(* is right (RestOK).  A handler breaks either on its way, so the lemmas   *)
(* are about what holds in its middle: Playing, that a hand is live and    *)
(* nothing is broken; Mid, that the turns are counted too; Hand, that it   *)
(* lacks only a clock.  Each method of the table gets a lemma (EndHandOK,  *)
(* AdvanceOK, PackOK, SettleOK, ResolveOK, RemoveOK, StartHandOK, BetOK),  *)
(* whose conclusion is an Outcome: TabOK, the same chips in all, and       *)
(* nobody paid more than the cap or charged with a missed turn.            *)
(***************************************************************************)
EXTENDS TableEngine, Sums

\* Min of a finite set of numbers is its least member.
LEMMA MinIs ==
  ASSUME NEW X \in SUBSET Int, IsFiniteSet(X), X # {}
  PROVE  Min(X) \in X /\ \A x \in X : Min(X) <= x
<1> DEFINE f == [x \in X |-> x]
<1>1. \E m \in X : \A x \in X : f[m] <= f[x]
  <2>1. \A x \in X : f[x] \in Int
    OBVIOUS
  <2> HIDE DEF f
  <2> QED BY <2>1, Lowest
<1>2. \E m \in X : \A x \in X : m <= x
  BY <1>1
<1> QED BY <1>2, Zenon DEF Min

-----------------------------------------------------------------------------
(* Seats and laps *)

\* There are MaxPlayers seats, numbered from 0.
LEMMA SeatsAre == IsFiniteSet(Seats) /\ Cardinality(Seats) = MaxPlayers /\ Seats \subseteq Nat
<1>1. MaxPlayers \in Nat \ {0}
  BY TableAssumption
<1>2. IsFiniteSet(0 .. MaxPlayers - 1) /\ Cardinality(0 .. MaxPlayers - 1) = MaxPlayers
  BY <1>1, FS_Interval
<1> QED BY <1>1, <1>2 DEF Seats

\* Distance and Steps, without the remainder.
LEMMA DistanceIs ==
  ASSUME NEW a \in Seats, NEW b \in Seats
  PROVE  /\ Distance(a, b) = IF b >= a THEN b - a ELSE b - a + MaxPlayers
         /\ Distance(a, b) \in 0 .. MaxPlayers - 1
         /\ Steps(a, b) = IF b > a THEN b - a ELSE b - a + MaxPlayers
<1>1. MaxPlayers \in Nat \ {0} /\ a \in 0 .. MaxPlayers - 1 /\ b \in 0 .. MaxPlayers - 1
  BY TableAssumption DEF Seats
<1>2. \A n \in Nat \ {0} : \A x \in 0 .. n - 1 : x % n = x
  OBVIOUS
<1>3. \A n \in Nat \ {0} : \A x \in Int : -n <= x /\ x < 0 => x % n = x + n
  OBVIOUS
<1>4. Distance(a, b) = IF b >= a THEN b - a ELSE b - a + MaxPlayers
  <2> DEFINE d == b - a
  <2>1. d \in Int /\ -MaxPlayers <= d /\ d < MaxPlayers
    BY <1>1
  <2>2. Distance(a, b) = d % MaxPlayers
    BY DEF Distance
  <2>3. d >= 0 => d % MaxPlayers = d
    BY <1>1, <1>2, <2>1
  <2>4. d < 0 => d % MaxPlayers = d + MaxPlayers
    BY <1>1, <1>3, <2>1
  <2> QED BY <1>1, <2>2, <2>3, <2>4
<1> QED BY <1>1, <1>4 DEF Steps

\* Steps is a number wherever a lap starts.
LEMMA StepsInt == \A a \in Int : \A b \in Seats : Steps(a, b) \in Int
<1>1. MaxPlayers \in Nat \ {0}
  BY TableAssumption
<1>2. \A n \in Nat \ {0} : \A x \in Int : x % n \in Int
  OBVIOUS
<1> QED BY <1>1, <1>2 DEF Steps, Distance, Seats

\* NextOf finds the member reached first (nextOccupiedSeat, nextActiveSeat).
LEMMA NextOfIs ==
  ASSUME NEW from \in Int, NEW S \in SUBSET Seats, S # {}
  PROVE  /\ NextOf(from, S) \in S
         /\ \A r \in S : Steps(from, NextOf(from, S)) <= Steps(from, r)
<1> DEFINE f == [x \in S |-> Steps(from, x)]
<1>1. \E m \in S : \A x \in S : f[m] <= f[x]
  <2>1. \A x \in S : f[x] \in Int
    BY StepsInt
  <2>2. IsFiniteSet(S)
    BY SeatsAre, FS_Subset
  <2> HIDE DEF f
  <2> QED BY <2>1, <2>2, Lowest
<1>2. \E m \in S : \A x \in S : Steps(from, m) <= Steps(from, x)
  BY <1>1
<1> QED BY <1>2, Zenon DEF NextOf

\* RightActive finds another player who is in (rightActiveSeat).
LEMMA RightActiveIs ==
  ASSUME NEW t, NEW from \in Seats, Others(t, from) # {}
  PROVE  RightActive(t, from) \in Others(t, from)
<1> DEFINE S == Others(t, from)
           f == [x \in S |-> Steps(x, from)]
<1>0. S \in SUBSET Seats /\ S # {}
  BY DEF Others, Active, Occupied
<1> HIDE DEF S
<1>1. \E m \in S : \A x \in S : f[m] <= f[x]
  <2>1. \A x \in S : f[x] \in Int
    BY <1>0, StepsInt, SeatsAre
  <2>2. IsFiniteSet(S)
    BY <1>0, SeatsAre, FS_Subset
  <2> HIDE DEF f
  <2> QED BY <1>0, <2>1, <2>2, Lowest
<1>2. \E m \in S : \A x \in S : Steps(m, from) <= Steps(x, from)
  BY <1>1
<1> QED BY <1>2, Zenon DEF RightActive, S

-----------------------------------------------------------------------------
(* The inductive invariant *)

\* The cap of a pot is worth a boot per seat.
Capped == MaxPot >= Boot * MaxPlayers

\* A callback that is still current belongs to a clock that has run out.
Callbacks(t) ==
    \A c \in t.late :
        /\ c.kind # "turn" => c.seat = NoSeat
        /\ c.current =>
             /\ c.kind = "turn" => Live(t) /\ c.seat = t.turn /\ ~t.turnClock
             /\ c.kind = "start" => ~t.startClock

\* One sideshow at most, in a live hand, with a clock of its own; whoever
\* asked for it holds the turn or is out.
Sides(t) ==
    /\ \A p, q \in t.side : p = q
    /\ t.side # {} => Live(t) /\ (t.sideClock \/ Queued(t, "side"))
    /\ \A p \in t.side : p.from = t.turn \/ p.from \notin Active(t)

\* An empty seat holds nothing.
Nobodies(t) ==
    \A s \in Seats : t.seat[s].user = None => t.seat[s].chips = 0 /\ ~t.seat[s].active

IsTable(t) == t \in TableType
Core(t) == IsTable(t) /\ Callbacks(t) /\ Sides(t) /\ Nobodies(t)

\* Whoever is still in has had as many turns as there were rounds.
Fair(t) ==
    \A s \in Active(t) :
        t.turns[s] = t.round +
            (IF Distance(t.start, s) <= Distance(t.start, t.turn) THEN 1 ELSE 0)

\* The table in the middle of a handler's work on a live hand.
Playing(t) ==
    /\ Core(t) /\ Live(t)
    /\ ~t.startClock /\ ~Queued(t, "start")
    /\ Capped => t.pot <= MaxPot
Mid(t) == Playing(t) /\ t.turn \in Seats /\ t.start \in Seats /\ Fair(t)

\* Something will give the turn's holder their say.
Goes(t) ==
    \/ t.turnClock \/ Queued(t, "turn")
    \/ t.side # {} /\ \A p \in t.side : p.from = t.turn

\* Between two handlers: a live hand, or none.
Hand(t) == Mid(t) /\ t.turn \in Active(t) /\ \E x, y \in Active(t) : x # y
LiveOK(t) == Hand(t) /\ Goes(t)

Idle(t) ==
    /\ Core(t) /\ ~Live(t) /\ t.pot = 0 /\ ~t.turnClock
    /\ \A s \in Seats : ~t.seat[s].active
    /\ t.phase = "starting" => Cardinality(Funded(t)) >= MinPlayers
    /\ t.phase = "starting" <=> t.startClock \/ Queued(t, "start")

RestOK(t) ==
    /\ Idle(t)
    /\ Cardinality(Funded(t)) >= MinPlayers => t.phase = "starting"

TabOK(t) == LiveOK(t) \/ RestOK(t)

-----------------------------------------------------------------------------
(* Tables that differ in nothing the invariant reads *)

\* What the seats and the pot hold together.
Total(t) == SumOver(Stacks(t), Seats) + t.pot

Like(t, r) ==
    /\ IsTable(r)
    /\ r.phase = t.phase /\ r.pot = t.pot /\ r.round = t.round
    /\ r.turn = t.turn /\ r.start = t.start /\ r.side = t.side
    /\ r.turnClock = t.turnClock /\ r.sideClock = t.sideClock
    /\ r.startClock = t.startClock /\ r.late = t.late /\ r.turns = t.turns
    /\ \A s \in Seats :
         /\ r.seat[s].user = t.seat[s].user
         /\ r.seat[s].chips = t.seat[s].chips
         /\ r.seat[s].active = t.seat[s].active

\* Tables that are alike have the same players, callbacks and chips.
LEMMA LikeSame ==
  ASSUME NEW t, NEW r, Like(t, r)
  PROVE  /\ Active(r) = Active(t) /\ Occupied(r) = Occupied(t) /\ Funded(r) = Funded(t)
         /\ Live(r) <=> Live(t)
         /\ \A k : Queued(r, k) <=> Queued(t, k)
         /\ Stacks(r) = Stacks(t) /\ Total(r) = Total(t)
<1>1. Active(r) = Active(t) /\ Occupied(r) = Occupied(t) /\ Funded(r) = Funded(t)
  BY DEF Like, Active, Occupied, Funded
<1>2. Live(r) <=> Live(t)
  BY DEF Like, Live
<1>3. \A k : Queued(r, k) <=> Queued(t, k)
  BY DEF Like, Queued
<1>4. Stacks(r) = Stacks(t)
  BY DEF Like, Stacks
<1>5. Total(r) = Total(t)
  BY <1>4 DEF Like, Total
<1> QED BY <1>1, <1>2, <1>3, <1>4, <1>5

\* Core carries over to a table that is alike.
LEMMA LikeCore ==
  ASSUME NEW t, NEW r, Like(t, r), Core(t)
  PROVE  Core(r)
<1>1. IsTable(r)
  BY DEF Like
<1>2. Callbacks(r)
  BY LikeSame DEF Core, Callbacks, Like
<1>3. Sides(r)
  BY LikeSame DEF Core, Sides, Like
<1>4. Nobodies(r)
  BY DEF Core, Nobodies, Like
<1> QED BY <1>1, <1>2, <1>3, <1>4 DEF Core

\* So does Mid.
LEMMA LikeMid ==
  ASSUME NEW t, NEW r, Like(t, r), Mid(t)
  PROVE  Mid(r)
<1>1. Core(r)
  BY LikeCore DEF Mid, Playing
<1>2. Fair(r)
  BY LikeSame DEF Mid, Fair, Like
<1>3. Playing(r)
  BY <1>1, LikeSame DEF Mid, Playing, Like
<1> QED BY <1>2, <1>3 DEF Mid, Like

\* So do the two halves of the invariant.
LEMMA LikeOK ==
  ASSUME NEW t, NEW r, Like(t, r)
  PROVE  /\ LiveOK(t) => LiveOK(r)
         /\ Idle(t) => Idle(r)
         /\ RestOK(t) => RestOK(r)
<1>1. LiveOK(t) => LiveOK(r)
  <2>1. Goes(t) => Goes(r)
    BY LikeSame DEF Goes, Like
  <2>2. r.turn = t.turn
    BY DEF Like
  <2> QED BY <2>1, <2>2, LikeMid, LikeSame DEF LiveOK, Hand
<1>2. Idle(t) => Idle(r)
  BY LikeCore, LikeSame DEF Idle, Like
<1>3. r.phase = t.phase
  BY DEF Like
<1> QED BY <1>1, <1>2, <1>3, LikeSame DEF RestOK

-----------------------------------------------------------------------------
(* Callbacks that go stale, and the turn *)

LateOK(late) == late \in SUBSET CallbackType

\* What the seats of t and r agree on after a step that moves no chips.
SameSeats(t, r) ==
    \A x \in Seats :
        /\ r.seat[x].user = t.seat[x].user /\ r.seat[x].chips = t.seat[x].chips
        /\ r.seat[x].active = t.seat[x].active /\ r.seat[x].missed = t.seat[x].missed

\* Stale makes the callbacks of one kind stale and touches no other.
LEMMA StaleIs ==
  ASSUME NEW late, LateOK(late), NEW kind
  PROVE  /\ LateOK(Stale(late, kind))
         /\ \A c \in Stale(late, kind) :
              \E d \in late : /\ c.kind = d.kind /\ c.seat = d.seat
                              /\ c.current => d.current /\ d.kind # kind
         /\ \A k : (\E c \in Stale(late, kind) : c.kind = k /\ c.current)
                     <=> (k # kind /\ \E c \in late : c.kind = k /\ c.current)
<1>0. late \in SUBSET CallbackType
  BY DEF LateOK
<1>1. \A c \in late : /\ [c EXCEPT !.current = FALSE] \in CallbackType
                      /\ [c EXCEPT !.current = FALSE].kind = c.kind
                      /\ [c EXCEPT !.current = FALSE].seat = c.seat
                      /\ ~[c EXCEPT !.current = FALSE].current
  BY <1>0 DEF CallbackType
<1>2. \A c \in Stale(late, kind) :
        \E d \in late : c = IF d.kind = kind THEN [d EXCEPT !.current = FALSE] ELSE d
  BY DEF Stale
<1>3. \A d \in late : (IF d.kind = kind THEN [d EXCEPT !.current = FALSE] ELSE d) \in Stale(late, kind)
  BY DEF Stale
<1>4. LateOK(Stale(late, kind))
  BY <1>0, <1>1, <1>2 DEF LateOK
<1>5. \A c \in Stale(late, kind) :
              \E d \in late : /\ c.kind = d.kind /\ c.seat = d.seat
                              /\ c.current => d.current /\ d.kind # kind
  BY <1>1, <1>2
<1>6. ASSUME NEW k
      PROVE  (\E c \in Stale(late, kind) : c.kind = k /\ c.current)
                     <=> (k # kind /\ \E c \in late : c.kind = k /\ c.current)
  BY <1>1, <1>2, <1>3
<1> QED BY <1>4, <1>5, <1>6

\* What is left in the mailbox once the callbacks of one kind are stale.
LEMMA StaleQueued ==
  ASSUME NEW t, LateOK(t.late), NEW kind, NEW r, r.late = Stale(t.late, kind)
  PROVE  /\ LateOK(r.late)
         /\ \A k : Queued(r, k) <=> k # kind /\ Queued(t, k)
         /\ \A c \in r.late : \E d \in t.late :
              /\ c.kind = d.kind /\ c.seat = d.seat
              /\ c.current => d.current /\ d.kind # kind
<1>1. LateOK(r.late)
  BY StaleIs
<1>2. \A k : Queued(r, k) <=> k # kind /\ Queued(t, k)
  <2>1. \A k : (\E c \in Stale(t.late, kind) : c.kind = k /\ c.current)
                 <=> (k # kind /\ \E c \in t.late : c.kind = k /\ c.current)
    BY StaleIs
  <2> QED BY <2>1 DEF Queued
<1>3. ASSUME NEW c \in r.late
      PROVE  \E d \in t.late :
               /\ c.kind = d.kind /\ c.seat = d.seat
               /\ c.current => d.current /\ d.kind # kind
  BY StaleIs
<1> QED BY <1>1, <1>2, <1>3

\* A turn callback that went stale is no callback to worry about.
LEMMA TurnRenewed ==
  ASSUME NEW t, LateOK(t.late), Callbacks(t),
         NEW r, r.late = Stale(t.late, "turn"), ~t.startClock, ~r.startClock
  PROVE  Callbacks(r)
<1> SUFFICES ASSUME NEW c \in r.late
             PROVE  /\ c.kind # "turn" => c.seat = NoSeat
                    /\ ~(c.current /\ c.kind = "turn")
  BY DEF Callbacks
<1>1. PICK d \in t.late :
        /\ c.kind = d.kind /\ c.seat = d.seat
        /\ c.current => d.current /\ d.kind # "turn"
  BY StaleQueued
<1> QED BY <1>1 DEF Callbacks

\* Stopping the turn's clock.
LEMMA ClearIs ==
  ASSUME NEW t, Playing(t), NEW r, r = ClearTurnTimer(t)
  PROVE  /\ Playing(r) /\ (Mid(t) => Mid(r))
         /\ r.turn = t.turn /\ r.side = t.side /\ r.seat = t.seat
         /\ r.pot = t.pot /\ r.stake = t.stake /\ r.late = t.late
         /\ Active(r) = Active(t) /\ Total(r) = Total(t)
<1>0. IsTable(t)
  BY DEF Playing, Core
<1>1. /\ IsTable(r) /\ ~r.turnClock
      /\ r.phase = t.phase /\ r.pot = t.pot /\ r.round = t.round
      /\ r.turn = t.turn /\ r.start = t.start /\ r.side = t.side /\ r.seat = t.seat
      /\ r.sideClock = t.sideClock /\ r.stake = t.stake
      /\ r.startClock = t.startClock /\ r.late = t.late /\ r.turns = t.turns
  BY <1>0 DEF ClearTurnTimer, IsTable, TableType
<1>2. Active(r) = Active(t) /\ Stacks(r) = Stacks(t)
  BY <1>1 DEF Active, Occupied, Stacks
<1>3. (Live(r) <=> Live(t)) /\ \A k : Queued(r, k) <=> Queued(t, k)
  BY <1>1 DEF Live, Queued
<1>4. Callbacks(r)
  BY <1>1, <1>3 DEF Callbacks, Playing, Core
<1>5. Sides(r)
  BY <1>1, <1>2, <1>3 DEF Sides, Playing, Core
<1>6. Nobodies(r)
  BY <1>1 DEF Nobodies, Playing, Core
<1>7. Playing(r)
  BY <1>1, <1>3, <1>4, <1>5, <1>6 DEF Playing, Core
<1>8. Mid(t) => Mid(r)
  BY <1>1, <1>2, <1>7 DEF Mid, Fair
<1>9. Total(r) = Total(t)
  BY <1>1, <1>2 DEF Total
<1> QED BY <1>1, <1>2, <1>7, <1>8, <1>9

\* What SetTurn leaves (setTurn).
LEMMA SetTurnIs ==
  ASSUME NEW t, IsTable(t), NEW s \in Seats, NEW fresh \in BOOLEAN,
         NEW r, r = SetTurn(t, s, fresh)
  PROVE  /\ IsTable(r) /\ r.turnClock /\ r.turn = s
         /\ r.late = Stale(t.late, "turn")
         /\ r.phase = t.phase /\ r.pot = t.pot /\ r.round = t.round
         /\ r.start = t.start /\ r.side = t.side
         /\ r.sideClock = t.sideClock /\ r.startClock = t.startClock
         /\ \A x \in Seats :
              r.turns[x] = IF fresh /\ x = s THEN t.turns[x] + 1 ELSE t.turns[x]
         /\ SameSeats(t, r)
<1> DEFINE asked == t.seat[s].asked /\ ~fresh
           x0 == [t.seat[s] EXCEPT !.asked = asked]
           seat0 == [t.seat EXCEPT ![s] = x0]
           turns0 == [t.turns EXCEPT ![s] = IF fresh THEN t.turns[s] + 1 ELSE t.turns[s]]
           late0 == Stale(t.late, "turn")
<1>1. t.seat \in [Seats -> SeatType] /\ t.turns \in [Seats -> Nat] /\ LateOK(t.late)
  BY DEF IsTable, TableType, LateOK
<1>2. r = [t EXCEPT !.turn = s, !.turnClock = TRUE, !.late = late0, !.seat = seat0, !.turns = turns0]
  BY <1>1 DEF IsTable, SetTurn, TableType
<1>3. asked \in BOOLEAN
  OBVIOUS
<1>4. /\ x0 \in SeatType /\ x0.user = t.seat[s].user /\ x0.chips = t.seat[s].chips
      /\ x0.active = t.seat[s].active /\ x0.missed = t.seat[s].missed
  <2>1. t.seat[s] \in SeatType
    BY <1>1
  <2> HIDE DEF asked
  <2> QED BY <1>3, <2>1 DEF SeatType
<1> HIDE DEF asked, x0
<1>5. /\ seat0 \in [Seats -> SeatType]
      /\ \A x \in Seats :
              /\ seat0[x].user = t.seat[x].user /\ seat0[x].chips = t.seat[x].chips
              /\ seat0[x].active = t.seat[x].active /\ seat0[x].missed = t.seat[x].missed
  BY <1>1, <1>4
<1>6. /\ turns0 \in [Seats -> Nat]
      /\ turns0 = [x \in Seats |-> IF fresh /\ x = s THEN t.turns[x] + 1 ELSE t.turns[x]]
  BY <1>1
<1>7. late0 \in SUBSET CallbackType
  BY <1>1, StaleIs DEF LateOK
<1> HIDE DEF seat0, turns0, late0
<1>8. /\ IsTable(r) /\ r.turnClock /\ r.turn = s
      /\ r.late = late0 /\ r.phase = t.phase /\ r.pot = t.pot /\ r.round = t.round
      /\ r.start = t.start /\ r.side = t.side
      /\ r.sideClock = t.sideClock /\ r.startClock = t.startClock
      /\ r.turns = turns0 /\ r.seat = seat0
  BY <1>2, <1>5, <1>6, <1>7 DEF IsTable, TableType
<1> QED BY <1>5, <1>6, <1>8 DEF late0, SameSeats

\* With the turn at s the turns given so far are fair.
Counted(t, s, fresh) ==
    \A x \in Active(t) :
        (IF fresh /\ x = s THEN t.turns[x] + 1 ELSE t.turns[x])
           = t.round + (IF Distance(t.start, x) <= Distance(t.start, s) THEN 1 ELSE 0)

\* The turn of a live hand goes to a player who is in: the hand can go on.
LEMMA SetTurnOK ==
  ASSUME NEW t, Playing(t), NEW s \in Active(t), NEW fresh \in BOOLEAN,
         t.start \in Seats,
         \E x, y \in Active(t) : x # y,
         \A p \in t.side : p.from = s \/ p.from \notin Active(t),
         Counted(t, s, fresh),
         NEW r, r = SetTurn(t, s, fresh)
  PROVE  /\ LiveOK(r) /\ r.turn = s /\ Total(r) = Total(t) /\ Active(r) = Active(t)
         /\ r.side = t.side /\ SameSeats(t, r)
<1>0. IsTable(t) /\ s \in Seats /\ LateOK(t.late)
  BY DEF Playing, Core, IsTable, Active, Occupied, TableType, LateOK
<1>1. /\ IsTable(r) /\ r.turnClock /\ r.turn = s
      /\ r.late = Stale(t.late, "turn")
      /\ r.phase = t.phase /\ r.pot = t.pot /\ r.round = t.round
      /\ r.start = t.start /\ r.side = t.side
      /\ r.sideClock = t.sideClock /\ r.startClock = t.startClock
      /\ \A x \in Seats :
           r.turns[x] = IF fresh /\ x = s THEN t.turns[x] + 1 ELSE t.turns[x]
      /\ SameSeats(t, r)
  BY <1>0, SetTurnIs
<1>2. Active(r) = Active(t) /\ Stacks(r) = Stacks(t)
  BY <1>1 DEF Active, Occupied, Stacks, SameSeats
<1>3. Live(r)
  BY <1>1 DEF Playing, Live
<1>4. r.late = Stale(t.late, "turn")
  BY <1>1
<1>5. (\A k : Queued(r, k) <=> k # "turn" /\ Queued(t, k)) /\ Callbacks(r)
  <2>1. \A k : Queued(r, k) <=> k # "turn" /\ Queued(t, k)
    BY <1>0, <1>4, StaleQueued
  <2>2. Callbacks(r)
    <3>1. LateOK(t.late) /\ Callbacks(t) /\ ~t.startClock /\ ~r.startClock
      BY <1>0, <1>1 DEF Playing, Core
    <3> QED BY <1>4, <3>1, TurnRenewed
  <2> QED BY <2>1, <2>2
<1>6. Sides(r)
  BY <1>1, <1>2, <1>3, <1>5 DEF Sides, Playing, Core
<1>7. Nobodies(r)
  BY <1>1 DEF Nobodies, Playing, Core, SameSeats
<1>8. Fair(r)
  <2>1. \A x \in Active(t) : x \in Seats /\ r.turns[x] = IF fresh /\ x = s THEN t.turns[x] + 1 ELSE t.turns[x]
    BY <1>1 DEF Active, Occupied
  <2> QED BY <1>1, <1>2, <2>1 DEF Fair, Counted
<1>9. Mid(r)
  BY <1>0, <1>1, <1>3, <1>4, <1>5, <1>6, <1>7, <1>8 DEF Mid, Playing, Core
<1>10. LiveOK(r)
  BY <1>1, <1>2, <1>9 DEF LiveOK, Hand, Goes
<1>11. Total(r) = Total(t)
  BY <1>1, <1>2 DEF Total
<1> QED BY <1>1, <1>2, <1>10, <1>11

-----------------------------------------------------------------------------
(* Between hands *)

\* Swept changes whether a seat was warned or asked to leave, nothing else.
LEMMA SweptIs ==
  ASSUME NEW x \in SeatType, NEW y, y = Swept(x)
  PROVE  /\ y \in SeatType /\ y.user = x.user /\ y.chips = x.chips
         /\ y.active = x.active /\ y.missed = x.missed
BY DEF Swept, SeatType

\* A sweep changes nothing the invariant reads (sweepUnfunded).
LEMMA SweepIs ==
  ASSUME NEW t, IsTable(t), Nobodies(t), NEW r, r = SweepUnfunded(t)
  PROVE  Like(t, r) /\ SameSeats(t, r) /\ r.dealer = t.dealer
<1> DEFINE seat == [s \in Seats |-> IF s \in Occupied(t) THEN Swept(t.seat[s]) ELSE t.seat[s]]
           asked == {s \in Seats : seat[s].kick /\ ~t.seat[s].kick}
           kicks == t.kicks \cup {seat[s].user : s \in asked}
<1>1. t.seat \in [Seats -> SeatType] /\ t.kicks \in SUBSET Users
  BY DEF IsTable, TableType
<1>2. ASSUME NEW s \in Seats
      PROVE  /\ seat[s] \in SeatType /\ seat[s].user = t.seat[s].user
             /\ seat[s].chips = t.seat[s].chips
             /\ seat[s].active = t.seat[s].active /\ seat[s].missed = t.seat[s].missed
  <2>1. t.seat[s] \in SeatType /\ seat[s] = IF s \in Occupied(t) THEN Swept(t.seat[s]) ELSE t.seat[s]
    BY <1>1
  <2> HIDE DEF seat
  <2>2. CASE s \in Occupied(t)
    BY <2>1, <2>2, SweptIs
  <2>3. CASE s \notin Occupied(t)
    BY <2>1, <2>3
  <2> QED BY <2>2, <2>3
<1>3. seat \in [Seats -> SeatType]
  BY <1>2
<1>4. kicks \in SUBSET Users
  <2>1. ASSUME NEW s \in asked
        PROVE  seat[s].user \in Users
    <3>1. s \in Occupied(t)
      BY <2>1 DEF asked, seat
    <3>2. t.seat[s].user \in Users
      BY <1>1, <3>1 DEF Occupied, SeatType
    <3>3. s \in Seats
      BY DEF asked
    <3> QED BY <1>2, <3>2, <3>3
  <2> HIDE DEF asked, seat
  <2> QED BY <1>1, <2>1
<1>5. r = [t EXCEPT !.seat = seat, !.kicks = kicks]
  BY DEF SweepUnfunded
<1> HIDE DEF seat, kicks
<1>6. /\ IsTable(r) /\ r.seat = seat /\ r.dealer = t.dealer
      /\ r.phase = t.phase /\ r.pot = t.pot /\ r.round = t.round
      /\ r.turn = t.turn /\ r.start = t.start /\ r.side = t.side
      /\ r.turnClock = t.turnClock /\ r.sideClock = t.sideClock
      /\ r.startClock = t.startClock /\ r.late = t.late /\ r.turns = t.turns
  BY <1>3, <1>4, <1>5 DEF IsTable, TableType
<1> QED BY <1>2, <1>6 DEF Like, SameSeats

\* No hand, and nothing left of the last one.
Resting(t) ==
    /\ Core(t) /\ ~Live(t) /\ t.pot = 0 /\ ~t.turnClock
    /\ \A s \in Seats : ~t.seat[s].active

\* The countdown started or called off, as the seats that can pay demand.
LEMMA CountdownSet ==
  ASSUME NEW t, Resting(t), NEW r, IsTable(r), r.late = Stale(t.late, "start"),
         r.seat = t.seat, r.pot = t.pot, r.turn = t.turn, r.side = t.side,
         ~r.turnClock, r.sideClock = t.sideClock,
         \/ /\ r.phase = "starting" /\ r.startClock
            /\ Cardinality(Funded(t)) >= MinPlayers
         \/ /\ r.phase = "waiting" /\ ~r.startClock
            /\ ~(Cardinality(Funded(t)) >= MinPlayers)
  PROVE  RestOK(r) /\ SameSeats(t, r) /\ Total(r) = Total(t)
<1>30. LateOK(t.late)
  BY DEF Resting, Core, IsTable, LateOK, TableType
<1>4. \A k : Queued(r, k) <=> k # "start" /\ Queued(t, k)
  BY <1>30, StaleQueued
<1>5. ~Live(r)
  BY DEF Live
<1>6. Callbacks(r)
  <2> SUFFICES ASSUME NEW c \in r.late
               PROVE  /\ c.kind # "turn" => c.seat = NoSeat
                      /\ ~(c.current /\ c.kind \in {"turn", "start"})
    BY DEF Callbacks
  <2>1. PICK d \in t.late :
          /\ c.kind = d.kind /\ c.seat = d.seat
          /\ c.current => d.current /\ d.kind # "start"
    BY <1>30, StaleQueued
  <2> QED BY <2>1 DEF Resting, Core, Callbacks
<1>7. Sides(r)
  BY DEF Sides, Resting, Core
<1>8. Nobodies(r)
  BY DEF Nobodies, Resting, Core
<1>9. Core(r)
  BY <1>6, <1>7, <1>8 DEF Core
<1>10. Funded(r) = Funded(t) /\ Stacks(r) = Stacks(t)
  BY DEF Funded, Occupied, Stacks
<1>11. Idle(r)
  <2>1. r.phase = "starting" <=> r.startClock \/ Queued(r, "start")
    BY <1>4
  <2>2. r.phase = "starting" => Cardinality(Funded(r)) >= MinPlayers
    BY <1>10
  <2>3. r.pot = 0 /\ \A s \in Seats : ~r.seat[s].active
    BY DEF Resting
  <2> QED BY <1>5, <1>9, <2>1, <2>2, <2>3 DEF Idle
<1>12. RestOK(r)
  BY <1>5, <1>10, <1>11 DEF RestOK
<1>13. SameSeats(t, r) /\ Total(r) = Total(t)
  BY <1>10 DEF SameSeats, Total
<1> QED BY <1>12, <1>13

\* The phases a table may be in.
LEMMA PhaseIs ==
  ASSUME NEW t, IsTable(t)
  PROVE  t.phase \in {"waiting", "starting", "betting"}
BY DEF IsTable, TableType

\* Seats that are the same twice over are the same.
LEMMA SameSeatsTrans ==
  ASSUME NEW a, NEW b, NEW c, SameSeats(a, b), SameSeats(b, c)
  PROVE  SameSeats(a, c)
BY DEF SameSeats

\* Whenever no hand is on, maybeStart leaves the countdown as it must be.
LEMMA MaybeStartOK ==
  ASSUME NEW t, Idle(t), NEW r, r = MaybeStart(t)
  PROVE  RestOK(r) /\ SameSeats(t, r) /\ Total(r) = Total(t)
<1>0. IsTable(t) /\ Nobodies(t) /\ ~Live(t)
  BY DEF Idle, Core
<1>1. CASE t.phase # "waiting"
  <2>1. r = t /\ t.phase = "starting"
    BY <1>0, <1>1, PhaseIs DEF MaybeStart, Live
  <2> QED BY <2>1 DEF RestOK, SameSeats
<1>2. CASE t.phase = "waiting"
  <2> DEFINE swept == SweepUnfunded(t)
  <2>1. Like(t, swept) /\ SameSeats(t, swept)
    BY <1>0, SweepIs
  <2>2. r = IF Cardinality(Funded(swept)) < MinPlayers THEN swept
             ELSE [swept EXCEPT !.phase = "starting", !.startClock = TRUE,
                                !.late = Stale(@, "start")]
    BY <1>2 DEF MaybeStart
  <2> HIDE DEF swept
  <2>3. Idle(swept) /\ Total(swept) = Total(t) /\ swept.phase = "waiting"
    BY <1>2, <2>1, LikeOK, LikeSame DEF Like
  <2>4. Cardinality(Funded(swept)) \in Nat /\ MinPlayers \in Nat
    <3>1. Funded(swept) \in SUBSET Seats
      BY DEF Funded, Occupied
    <3> QED BY <3>1, SeatsAre, FS_Subset, FS_CardinalityType, TableAssumption
  <2>5. CASE Cardinality(Funded(swept)) < MinPlayers
    BY <2>1, <2>2, <2>3, <2>4, <2>5 DEF RestOK
  <2>6. CASE ~(Cardinality(Funded(swept)) < MinPlayers)
    <3>1. r = [swept EXCEPT !.phase = "starting", !.startClock = TRUE,
                            !.late = Stale(@, "start")]
      BY <2>2, <2>6
    <3>2. Resting(swept) /\ Cardinality(Funded(swept)) >= MinPlayers
      BY <2>3, <2>4, <2>6 DEF Idle, Resting
    <3>3. /\ IsTable(r) /\ r.late = Stale(swept.late, "start")
          /\ r.seat = swept.seat /\ r.pot = swept.pot /\ r.turn = swept.turn
          /\ r.side = swept.side /\ ~r.turnClock /\ r.sideClock = swept.sideClock
          /\ r.phase = "starting" /\ r.startClock
      <4>1. IsTable(swept) /\ LateOK(swept.late)
        BY <3>2 DEF Resting, Core, IsTable, TableType, LateOK
      <4> DEFINE late == Stale(swept.late, "start")
      <4>2. late \in SUBSET CallbackType
        BY <4>1, StaleIs DEF LateOK
      <4>3. r = [swept EXCEPT !.phase = "starting", !.startClock = TRUE, !.late = late]
        BY <3>1
      <4> HIDE DEF late
      <4>4. ~swept.turnClock
        BY <2>3 DEF Idle
      <4>5. /\ IsTable(r) /\ r.late = late
            /\ r.seat = swept.seat /\ r.pot = swept.pot /\ r.turn = swept.turn
            /\ r.side = swept.side /\ ~r.turnClock /\ r.sideClock = swept.sideClock
            /\ r.phase = "starting" /\ r.startClock
        BY <4>1, <4>2, <4>3, <4>4 DEF IsTable, TableType
      <4> QED BY <4>5 DEF late
    <3>4. RestOK(r) /\ SameSeats(swept, r) /\ Total(r) = Total(swept)
      BY <3>2, <3>3, CountdownSet
    <3> QED BY <2>1, <2>3, <3>4, SameSeatsTrans
  <2> QED BY <2>5, <2>6
<1> QED BY <1>1, <1>2

-----------------------------------------------------------------------------
(* The end of a hand *)

\* What every way out of a live hand leaves behind: no chips made or lost, no
\* seat more than the cap richer, no turn counted as missed.
Bounded(t, r) ==
    \A x \in Seats :
        /\ r.seat[x].missed <= t.seat[x].missed
        /\ Capped => r.seat[x].chips <= t.seat[x].chips + MaxPot
Outcome(t, r) == TabOK(r) /\ Total(r) = Total(t) /\ Bounded(t, r)

\* With both kinds made stale, no callback of either is current.
LEMMA StaleBoth ==
  ASSUME NEW late, LateOK(late), NEW both, both = Stale(Stale(late, "turn"), "side")
  PROVE  /\ LateOK(both)
         /\ \A c \in both : \E d \in late :
              /\ c.kind = d.kind /\ c.seat = d.seat
              /\ c.current => d.current /\ d.kind # "turn" /\ d.kind # "side"
<1> DEFINE one == Stale(late, "turn")
<1>1. /\ LateOK(one)
      /\ \A c \in one : \E d \in late :
           /\ c.kind = d.kind /\ c.seat = d.seat
           /\ c.current => d.current /\ d.kind # "turn"
  BY StaleIs
<1> HIDE DEF one
<1>2. /\ LateOK(Stale(one, "side"))
      /\ \A c \in Stale(one, "side") : \E d \in one :
           /\ c.kind = d.kind /\ c.seat = d.seat
           /\ c.current => d.current /\ d.kind # "side"
  BY <1>1, StaleIs
<1>3. both = Stale(one, "side")
  BY DEF one
<1> QED BY <1>1, <1>2, <1>3

\* The table endHand hands to maybeStart.
Ended(t, winner) ==
    [t EXCEPT
        !.phase = "waiting",
        !.seat = [s \in Seats |-> [Out(t.seat[s]) EXCEPT
                     !.chips = IF s = winner THEN @ + t.pot ELSE @]],
        !.pot = 0, !.stake = 0, !.round = 0, !.turn = NoSeat, !.start = NoSeat,
        !.side = {}, !.turnClock = FALSE, !.sideClock = FALSE,
        !.late = Stale(Stale(@, "turn"), "side"),
        !.turns = [s \in Seats |-> 0]]

\* A seat that is out keeps its player and its chips.
LEMMA OutIs ==
  ASSUME NEW x \in SeatType, NEW y, y = Out(x)
  PROVE  /\ y \in SeatType /\ y.user = x.user /\ y.chips = x.chips
         /\ ~y.active /\ y.missed = x.missed
BY DEF Out, SeatType

\* What Ended leaves.
LEMMA EndedIs ==
  ASSUME NEW t, IsTable(t), NEW w \in Seats, NEW r, r = Ended(t, w)
  PROVE  /\ IsTable(r) /\ r.phase = "waiting" /\ r.pot = 0 /\ r.turn = NoSeat
         /\ r.side = {} /\ ~r.turnClock /\ r.startClock = t.startClock
         /\ r.late = Stale(Stale(t.late, "turn"), "side")
         /\ \A x \in Seats :
              /\ r.seat[x].user = t.seat[x].user /\ ~r.seat[x].active
              /\ r.seat[x].missed = t.seat[x].missed
              /\ r.seat[x].chips = IF x = w THEN t.seat[x].chips + t.pot ELSE t.seat[x].chips
<1> DEFINE seat == [s \in Seats |-> [Out(t.seat[s]) EXCEPT
                     !.chips = IF s = w THEN @ + t.pot ELSE @]]
           both == Stale(Stale(t.late, "turn"), "side")
           turns == [s \in Seats |-> 0]
<1>1. /\ t.seat \in [Seats -> SeatType] /\ LateOK(t.late) /\ t.pot \in Nat
      /\ t.startClock \in BOOLEAN
  BY DEF IsTable, TableType, LateOK
<1>2. ASSUME NEW x \in Seats
      PROVE  /\ seat[x] \in SeatType
             /\ seat[x].user = t.seat[x].user /\ ~seat[x].active
             /\ seat[x].missed = t.seat[x].missed
             /\ seat[x].chips = IF x = w THEN t.seat[x].chips + t.pot ELSE t.seat[x].chips
  <2> DEFINE y == Out(t.seat[x])
             c == IF x = w THEN t.seat[x].chips + t.pot ELSE t.seat[x].chips
  <2>1. t.seat[x] \in SeatType /\ t.seat[x].chips \in Nat
    BY <1>1 DEF SeatType
  <2>2. /\ y \in SeatType /\ y.user = t.seat[x].user /\ y.chips = t.seat[x].chips
        /\ ~y.active /\ y.missed = t.seat[x].missed
    BY <2>1, OutIs
  <2>3. c \in Nat
    BY <1>1, <2>1
  <2>4. seat[x] = [y EXCEPT !.chips = c]
    BY <2>2
  <2> HIDE DEF y, c, seat
  <2>5. /\ seat[x] \in SeatType
        /\ seat[x].user = y.user /\ (seat[x].active <=> y.active)
        /\ seat[x].missed = y.missed /\ seat[x].chips = c
    BY <2>2, <2>3, <2>4 DEF SeatType
  <2> QED BY <2>2, <2>5 DEF c
<1>3. seat \in [Seats -> SeatType]
  BY <1>2
<1>4. both \in SUBSET CallbackType
  BY <1>1, StaleBoth DEF LateOK
<1>5. turns \in [Seats -> Nat]
  OBVIOUS
<1>6. r = [t EXCEPT !.phase = "waiting", !.seat = seat,
        !.pot = 0, !.stake = 0, !.round = 0, !.turn = NoSeat, !.start = NoSeat,
        !.side = {}, !.turnClock = FALSE, !.sideClock = FALSE,
        !.late = both, !.turns = turns]
  BY DEF Ended
<1> HIDE DEF seat, both, turns
<1>7. /\ IsTable(r) /\ r.phase = "waiting" /\ r.pot = 0 /\ r.turn = NoSeat
      /\ r.side = {} /\ ~r.turnClock /\ r.startClock = t.startClock
      /\ r.late = both /\ r.seat = seat
  <2>1. IsTable(r)
    <3> DEFINE a == [t EXCEPT !.phase = "waiting", !.seat = seat, !.pot = 0, !.stake = 0, !.round = 0]
               b == [a EXCEPT !.turn = NoSeat, !.start = NoSeat, !.side = {}]
               z == [b EXCEPT !.turnClock = FALSE, !.sideClock = FALSE, !.late = both, !.turns = turns]
    <3>1. IsTable(a)
      BY <1>3 DEF IsTable, TableType
    <3> HIDE DEF a
    <3>2. IsTable(b)
      BY <3>1 DEF IsTable, TableType
    <3> HIDE DEF b
    <3>3. IsTable(z)
      BY <3>2, <1>4, <1>5 DEF IsTable, TableType
    <3>4. r = z
      BY <1>6 DEF a, b
    <3> QED BY <3>3, <3>4
  <2>2. r.phase = "waiting" /\ r.pot = 0 /\ r.turn = NoSeat
    BY <1>6 DEF IsTable, TableType
  <2>3. r.side = {} /\ ~r.turnClock /\ r.startClock = t.startClock
    BY <1>6 DEF IsTable, TableType
  <2>4. r.late = both /\ r.seat = seat
    BY <1>6 DEF IsTable, TableType
  <2> QED BY <2>1, <2>2, <2>3, <2>4
<1> QED BY <1>2, <1>7 DEF both

\* A hand that ends leaves a table at rest with every chip accounted for (endHand).
LEMMA EndHandOK ==
  ASSUME NEW t, Playing(t), NEW w \in Active(t), NEW r, r = EndHand(t, w)
  PROVE  Outcome(t, r) /\ ~Live(r) /\ RestOK(r)
<1> DEFINE e == Ended(t, w)
<1>0. IsTable(t) /\ w \in Seats /\ LateOK(t.late) /\ t.pot \in Nat /\ t.seat \in [Seats -> SeatType]
  BY DEF Playing, Core, Active, Occupied, IsTable, TableType, LateOK
<1>1. r = MaybeStart(e)
  BY DEF EndHand, Ended
<1>2. /\ IsTable(e) /\ e.phase = "waiting" /\ e.pot = 0 /\ e.turn = NoSeat
      /\ e.side = {} /\ ~e.turnClock /\ e.startClock = t.startClock
      /\ e.late = Stale(Stale(t.late, "turn"), "side")
      /\ \A x \in Seats :
           /\ e.seat[x].user = t.seat[x].user /\ ~e.seat[x].active
           /\ e.seat[x].missed = t.seat[x].missed
           /\ e.seat[x].chips = IF x = w THEN t.seat[x].chips + t.pot ELSE t.seat[x].chips
  BY <1>0, EndedIs
<1> HIDE DEF e
<1>3. \A c \in e.late : (c.kind # "turn" => c.seat = NoSeat) /\ ~c.current
  <2> SUFFICES ASSUME NEW c \in e.late
               PROVE  (c.kind # "turn" => c.seat = NoSeat) /\ ~c.current
    OBVIOUS
  <2>1. PICK d \in t.late :
          /\ c.kind = d.kind /\ c.seat = d.seat
          /\ c.current => d.current /\ d.kind # "turn" /\ d.kind # "side"
    BY <1>0, <1>2, StaleBoth
  <2>2. d.kind \in {"turn", "side", "start"}
    BY <1>0 DEF LateOK, CallbackType
  <2>3. ~(d.current /\ d.kind = "start")
    BY DEF Playing, Queued
  <2>4. d.kind # "turn" => d.seat = NoSeat
    BY DEF Playing, Core, Callbacks
  <2> QED BY <2>1, <2>2, <2>3, <2>4
<1>4. Callbacks(e) /\ Sides(e) /\ ~Live(e) /\ ~Queued(e, "start")
  BY <1>2, <1>3 DEF Callbacks, Sides, Live, Queued
<1>5. Nobodies(e)
  <2>1. t.seat[w].user # None
    BY DEF Active, Occupied
  <2> QED BY <1>2, <2>1 DEF Nobodies, Playing, Core
<1>6. Idle(e)
  <2>1. ~e.startClock
    BY <1>2 DEF Playing
  <2> QED BY <1>2, <1>4, <1>5, <2>1 DEF Idle, Core
<1>7. RestOK(r) /\ SameSeats(e, r) /\ Total(r) = Total(e)
  BY <1>1, <1>6, MaybeStartOK
<1>8. \A x \in Seats : t.seat[x].chips \in Nat /\ t.seat[x].missed \in Int
  <2>1. \A y \in SeatType : y.chips \in Nat /\ y.missed \in Int
    BY TableAssumption DEF SeatType
  <2> QED BY <1>0, <2>1
<1>9. Total(e) = Total(t)
  <2> DEFINE f == Stacks(t)
             g == Stacks(e)
  <2>1. \A x \in Seats : f[x] = t.seat[x].chips /\ g[x] = e.seat[x].chips
    BY DEF Stacks
  <2> HIDE DEF f, g
  <2>2. \A x \in Seats : f[x] \in Int /\ g[x] \in Int /\ (x # w => f[x] = g[x])
    BY <1>0, <1>2, <1>8, <2>1
  <2>3. g[w] = f[w] + t.pot
    BY <1>0, <1>2, <2>1
  <2>4. SumOver(f, Seats) - f[w] = SumOver(g, Seats) - g[w]
    BY <1>0, <2>2, SeatsAre, SumOneMoved
  <2>5. SumOver(f, Seats) \in Int /\ SumOver(g, Seats) \in Int
    BY <2>2, SeatsAre, SumInt
  <2>6. f[w] \in Int /\ t.pot \in Int
    BY <1>0, <2>2
  <2>7. SumOver(g, Seats) + 0 = SumOver(f, Seats) + t.pot
    <3> DEFINE a == SumOver(f, Seats)
               b == SumOver(g, Seats)
    <3>1. a \in Int /\ b \in Int /\ a - f[w] = b - g[w]
      BY <2>4, <2>5
    <3> HIDE DEF a, b
    <3>2. b + 0 = a + t.pot
      BY <2>3, <2>6, <3>1
    <3> QED BY <3>2 DEF a, b
  <2> QED BY <1>2, <2>7 DEF Total, f, g
<1>10. Bounded(t, r)
  <2> SUFFICES ASSUME NEW x \in Seats
               PROVE  /\ r.seat[x].missed <= t.seat[x].missed
                      /\ Capped => r.seat[x].chips <= t.seat[x].chips + MaxPot
    BY DEF Bounded
  <2>1. r.seat[x].missed = t.seat[x].missed
    BY <1>2, <1>7 DEF SameSeats
  <2>2. r.seat[x].chips = IF x = w THEN t.seat[x].chips + t.pot ELSE t.seat[x].chips
    BY <1>2, <1>7 DEF SameSeats
  <2>3. Capped => t.pot <= MaxPot
    BY DEF Playing
  <2>4. MaxPot \in Nat
    BY TableAssumption
  <2> QED BY <1>0, <1>8, <2>1, <2>2, <2>3, <2>4
<1>11. ~Live(r)
  BY <1>7 DEF RestOK, Idle
<1> QED BY <1>7, <1>9, <1>10, <1>11 DEF Outcome, TabOK

-----------------------------------------------------------------------------
(* Showdowns, the turn handed on, packs *)

\* So does a showdown, whoever wins it (resolveShowdown).
LEMMA ShowdownOK ==
  ASSUME NEW t, Playing(t), NEW r \in Showdown(t)
  PROVE  Outcome(t, r) /\ ~Live(r) /\ RestOK(r)
<1>1. PICK w \in Active(t) : r = EndHand(t, w)
  BY DEF Showdown
<1> QED BY <1>1, EndHandOK

\* A table that is as it should be is a table.
LEMMA OutcomeTable ==
  ASSUME NEW r, TabOK(r)
  PROVE  IsTable(r)
BY DEF TabOK, LiveOK, Hand, RestOK, Idle, Mid, Playing, Core

\* The numbers of a seat.
LEMMA SeatNumbers ==
  ASSUME NEW t, IsTable(t), NEW x \in Seats
  PROVE  t.seat[x].missed \in Nat /\ t.seat[x].chips \in Nat
<1>1. t.seat \in [Seats -> SeatType]
  BY DEF IsTable, TableType
<1>2. t.seat[x] \in SeatType
  BY <1>1
<1> QED BY <1>2, TableAssumption DEF SeatType

\* Bounds add up over steps that make nobody richer.
LEMMA BoundedAfter ==
  ASSUME NEW a, NEW b, NEW r, IsTable(a), IsTable(b), IsTable(r), Bounded(b, r),
         \A x \in Seats : b.seat[x].missed <= a.seat[x].missed /\ b.seat[x].chips <= a.seat[x].chips
  PROVE  Bounded(a, r)
<1> SUFFICES ASSUME NEW x \in Seats
             PROVE  /\ r.seat[x].missed <= a.seat[x].missed
                    /\ Capped => r.seat[x].chips <= a.seat[x].chips + MaxPot
  BY DEF Bounded
<1>1. /\ r.seat[x].missed \in Nat /\ r.seat[x].chips \in Nat
      /\ a.seat[x].missed \in Nat /\ a.seat[x].chips \in Nat
      /\ b.seat[x].missed \in Nat /\ b.seat[x].chips \in Nat
      /\ MaxPot \in Nat
  BY SeatNumbers, TableAssumption
<1>2. b.seat[x].missed <= a.seat[x].missed /\ b.seat[x].chips <= a.seat[x].chips
  OBVIOUS
<1>3. r.seat[x].missed <= b.seat[x].missed
  BY DEF Bounded
<1>4. Capped => r.seat[x].chips <= b.seat[x].chips + MaxPot
  BY DEF Bounded
<1> QED BY <1>1, <1>2, <1>3, <1>4

\* An outcome seen from further back: what came before it raised nothing.
LEMMA OutcomeAfter ==
  ASSUME NEW a, NEW b, NEW r, IsTable(a), IsTable(b), Outcome(b, r),
         Total(b) = Total(a),
         \A x \in Seats : b.seat[x].missed <= a.seat[x].missed /\ b.seat[x].chips <= a.seat[x].chips
  PROVE  Outcome(a, r)
<1>1. IsTable(r) /\ Bounded(b, r)
  BY OutcomeTable DEF Outcome
<1>2. Bounded(a, r)
  BY <1>1, BoundedAfter
<1> QED BY <1>2 DEF Outcome

\* A table whose seats and pot are as they were is no richer.
LEMMA SameOutcome ==
  ASSUME NEW t, IsTable(t), NEW r, SameSeats(t, r), TabOK(r), Total(r) = Total(t)
  PROVE  Outcome(t, r)
<1> SUFFICES ASSUME NEW x \in Seats
             PROVE  /\ r.seat[x].missed <= t.seat[x].missed
                    /\ Capped => r.seat[x].chips <= t.seat[x].chips + MaxPot
  BY DEF Outcome, Bounded
<1>1. t.seat[x].missed \in Nat /\ t.seat[x].chips \in Nat /\ MaxPot \in Nat
  BY SeatNumbers, TableAssumption
<1>2. r.seat[x].missed = t.seat[x].missed /\ r.seat[x].chips = t.seat[x].chips
  BY DEF SameSeats
<1> QED BY <1>1, <1>2

\* A round more, or not: the rest of the table is as it was.
LEMMA RoundIs ==
  ASSUME NEW t, Playing(t), NEW round \in Nat, NEW r, r = [t EXCEPT !.round = round]
  PROVE  /\ Playing(r) /\ r.round = round /\ r.turn = t.turn /\ r.start = t.start
         /\ r.side = t.side /\ r.seat = t.seat /\ r.turns = t.turns
         /\ Active(r) = Active(t) /\ Total(r) = Total(t)
<1>0. IsTable(t)
  BY DEF Playing, Core
<1>1. /\ IsTable(r) /\ r.round = round /\ (r.turnClock <=> t.turnClock)
      /\ r.phase = t.phase /\ r.pot = t.pot
      /\ r.turn = t.turn /\ r.start = t.start /\ r.side = t.side /\ r.seat = t.seat
      /\ r.sideClock = t.sideClock
      /\ r.startClock = t.startClock /\ r.late = t.late /\ r.turns = t.turns
  BY <1>0 DEF IsTable, TableType
<1>2. Active(r) = Active(t) /\ Stacks(r) = Stacks(t)
  BY <1>1 DEF Active, Occupied, Stacks
<1>3. (Live(r) <=> Live(t)) /\ \A k : Queued(r, k) <=> Queued(t, k)
  BY <1>1 DEF Live, Queued
<1>4. Callbacks(r)
  BY <1>1, <1>3 DEF Callbacks, Playing, Core
<1>5. Sides(r)
  BY <1>1, <1>2, <1>3 DEF Sides, Playing, Core
<1>6. Nobodies(r)
  BY <1>1 DEF Nobodies, Playing, Core
<1>7. Playing(r)
  BY <1>1, <1>3, <1>4, <1>5, <1>6 DEF Playing, Core
<1>8. Total(r) = Total(t)
  BY <1>1, <1>2 DEF Total
<1> QED BY <1>1, <1>2, <1>7, <1>8

\* The turn goes to the next seat of those in: the counts of turns stay fair.
LEMMA FairNext ==
  ASSUME NEW t, Mid(t), NEW x \in Active(t), NEW y \in Active(t), x # y,
         NEW next, next = NextActive(t, t.turn),
         NEW more \in BOOLEAN, more <=> RoundOver(t, t.turn)
  PROVE  /\ next \in Active(t)
         /\ \A s \in Active(t) :
              (IF s = next THEN t.turns[s] + 1 ELSE t.turns[s])
                = (IF more THEN t.round + 1 ELSE t.round)
                    + (IF Distance(t.start, s) <= Distance(t.start, next) THEN 1 ELSE 0)
<1> DEFINE A == Active(t)
           start == t.start
           turn == t.turn
           turns == t.turns
           round == t.round
           nxt == next
           over == more
<1>a. /\ A \in SUBSET Seats /\ start \in Seats /\ turn \in Seats /\ round \in Nat
      /\ x \in A /\ y \in A /\ over \in BOOLEAN
  BY DEF Mid, Playing, Core, IsTable, TableType, Active, Occupied
<1>b. nxt = NextOf(turn, A)
  BY DEF NextActive
<1>c. over <=> Distance(turn, start) > 0 /\ Distance(turn, start) <= Distance(turn, nxt)
  BY DEF RoundOver
<1>d. \A s \in A : turns[s] = round + (IF Distance(start, s) <= Distance(start, turn) THEN 1 ELSE 0)
  BY DEF Mid, Fair
<1> HIDE DEF A, start, turn, turns, round, nxt, over
<1>1. MaxPlayers \in Nat \ {0} /\ Seats = 0 .. MaxPlayers - 1
  BY TableAssumption DEF Seats
<1>2. nxt \in A /\ \A r \in A : Steps(turn, nxt) <= Steps(turn, r)
  <2>1. turn \in Int /\ A \in SUBSET Seats /\ A # {}
    BY <1>1, <1>a
  <2>2. /\ NextOf(turn, A) \in A
        /\ \A r \in A : Steps(turn, NextOf(turn, A)) <= Steps(turn, r)
    BY <2>1, NextOfIs, Zenon
  <2> QED BY <1>b, <2>2
<1>3. nxt \in Seats /\ nxt # turn
  <2>1. nxt \in Seats
    BY <1>2, <1>a
  <2>2. PICK z \in A : z # turn
    BY <1>a
  <2>3. Steps(turn, z) < MaxPlayers /\ Steps(turn, nxt) <= Steps(turn, z)
    <3>1. z \in Seats /\ z # turn
      BY <1>a, <2>2
    <3>2. Steps(turn, z) = IF z > turn THEN z - turn ELSE z - turn + MaxPlayers
      BY <1>a, <3>1, DistanceIs
    <3> QED BY <1>1, <1>2, <1>a, <2>2, <3>1, <3>2
  <2>4. nxt = turn => Steps(turn, nxt) = MaxPlayers
    <3>1. Steps(turn, turn) = MaxPlayers
      BY <1>1, <1>a, DistanceIs
    <3> QED BY <3>1
  <2>5. Steps(turn, z) \in Int /\ MaxPlayers \in Int
    BY <1>1, <1>a, <2>2, StepsInt
  <2> QED BY <2>1, <2>3, <2>4, <2>5
<1>e. ASSUME NEW s \in A
      PROVE  (IF s = nxt THEN turns[s] + 1 ELSE turns[s])
               = (IF over THEN round + 1 ELSE round)
                   + (IF Distance(start, s) <= Distance(start, nxt) THEN 1 ELSE 0)
  <2>4. Steps(turn, nxt) <= Steps(turn, s) /\ s \in Seats
    BY <1>2, <1>a, <1>e
  <2>5. turns[s] = round + (IF Distance(start, s) <= Distance(start, turn) THEN 1 ELSE 0)
    BY <1>d, <1>e
  <2>6. /\ Distance(start, s) = IF s >= start THEN s - start ELSE s - start + MaxPlayers
        /\ Distance(start, turn) = IF turn >= start THEN turn - start ELSE turn - start + MaxPlayers
        /\ Distance(start, nxt) = IF nxt >= start THEN nxt - start ELSE nxt - start + MaxPlayers
        /\ Distance(turn, start) = IF start >= turn THEN start - turn ELSE start - turn + MaxPlayers
        /\ Distance(turn, nxt) = IF nxt >= turn THEN nxt - turn ELSE nxt - turn + MaxPlayers
        /\ Steps(turn, nxt) = IF nxt > turn THEN nxt - turn ELSE nxt - turn + MaxPlayers
        /\ Steps(turn, s) = IF s > turn THEN s - turn ELSE s - turn + MaxPlayers
    BY <1>3, <1>a, <2>4, DistanceIs
  <2>7. /\ start \in Int /\ turn \in Int /\ nxt \in Int /\ s \in Int /\ MaxPlayers \in Int
        /\ 0 <= start /\ start < MaxPlayers /\ 0 <= turn /\ turn < MaxPlayers
        /\ 0 <= nxt /\ nxt < MaxPlayers /\ 0 <= s /\ s < MaxPlayers
    BY <1>1, <1>3, <1>a, <2>4
  <2> DEFINE due == IF Distance(start, s) <= Distance(start, turn) THEN 1 ELSE 0
             now == IF Distance(start, s) <= Distance(start, nxt) THEN 1 ELSE 0
  <2>8. ~over /\ s = nxt => due = 0 /\ now = 1
    BY <1>3, <1>c, <2>4, <2>6, <2>7
  <2>9. ~over /\ s # nxt => due = now
    BY <1>3, <1>c, <2>4, <2>6, <2>7
  <2>10. over /\ s = nxt => due = 1 /\ now = 1
    BY <1>3, <1>c, <2>4, <2>6, <2>7
  <2>11. over /\ s # nxt => due = 1 /\ now = 0
    BY <1>3, <1>c, <2>4, <2>6, <2>7
  <2>12. turns[s] = round + due /\ due \in Int /\ now \in Int
    BY <2>5
  <2> HIDE DEF due
  <2>13. (IF s = nxt THEN turns[s] + 1 ELSE turns[s]) = (IF over THEN round + 1 ELSE round) + now
    <3> HIDE DEF now
    <3> QED BY <1>a, <2>8, <2>9, <2>10, <2>11, <2>12
  <2> QED BY <2>13
<1> QED BY <1>2, <1>e DEF A, start, turn, turns, round, nxt, over

\* The turn's holder is done: a showdown, or the next player's turn.
LEMMA AdvanceOK ==
  ASSUME NEW t, Mid(t), \E x, y \in Active(t) : x # y,
         \A p \in t.side : p.from \notin Active(t),
         NEW r \in AdvanceTurn(t, t.turn)
  PROVE  Outcome(t, r)
<1> DEFINE nxt == NextActive(t, t.turn)
           over == RoundOver(t, t.turn)
           round == IF over THEN t.round + 1 ELSE t.round
           next == [t EXCEPT !.round = round]
           yes == TRUE
<1>0. /\ Playing(t) /\ IsTable(t) /\ t.turn \in Seats /\ t.start \in Seats /\ t.round \in Nat
      /\ Active(t) \in SUBSET Seats /\ Active(t) # {}
  BY DEF Mid, Playing, Core, IsTable, TableType, Active, Occupied
<1>1. \/ r \in Showdown(ClearTurnTimer(t))
      \/ r \in Showdown(ClearTurnTimer(next))
      \/ r = SetTurn(next, nxt, yes)
  BY <1>0, Zenon DEF AdvanceTurn
<1>2. over \in BOOLEAN /\ yes \in BOOLEAN
  BY DEF RoundOver
<1> HIDE DEF over, yes
<1>3. round \in Nat
  BY <1>0
<1>4. /\ Playing(next) /\ next.round = round /\ next.turn = t.turn /\ next.start = t.start
      /\ next.side = t.side /\ next.seat = t.seat /\ next.turns = t.turns
      /\ Active(next) = Active(t) /\ Total(next) = Total(t)
  <2> HIDE DEF round
  <2> QED BY <1>0, <1>3, RoundIs
<1> HIDE DEF next
<1>5. ASSUME NEW u, Playing(u), u.seat = t.seat, Total(u) = Total(t),
             r \in Showdown(ClearTurnTimer(u))
      PROVE  Outcome(t, r)
  <2> DEFINE c == ClearTurnTimer(u)
  <2>1. Playing(c) /\ c.seat = t.seat /\ Total(c) = Total(t)
    BY <1>5, ClearIs
  <2>2. r \in Showdown(c)
    BY <1>5
  <2> HIDE DEF c
  <2>3. Outcome(c, r)
    BY <2>1, <2>2, ShowdownOK
  <2>4. IsTable(c)
    BY <2>1 DEF Playing, Core
  <2>5. \A x \in Seats : c.seat[x].missed <= t.seat[x].missed /\ c.seat[x].chips <= t.seat[x].chips
    BY <1>0, <2>1, SeatNumbers
  <2> QED BY <1>0, <2>1, <2>3, <2>4, <2>5, OutcomeAfter
<1>6. CASE r \in Showdown(ClearTurnTimer(t))
  BY <1>0, <1>5, <1>6
<1>7. CASE r \in Showdown(ClearTurnTimer(next))
  BY <1>4, <1>5, <1>7
<1>8. CASE r = SetTurn(next, nxt, yes)
  <2>1. PICK x \in Active(t), y \in Active(t) : x # y
    OBVIOUS
  <2>2. over <=> RoundOver(t, t.turn)
    BY DEF over
  <2>3. nxt \in Active(t) /\ \A s \in Active(t) :
            (IF s = nxt THEN t.turns[s] + 1 ELSE t.turns[s])
              = (IF over THEN t.round + 1 ELSE t.round)
                  + (IF Distance(t.start, s) <= Distance(t.start, nxt) THEN 1 ELSE 0)
    BY <1>2, <2>1, <2>2, FairNext
  <2> HIDE DEF nxt
  <2>5. Counted(next, nxt, yes)
    BY <1>4, <2>3 DEF Counted, yes
  <2>6. LiveOK(r) /\ Total(r) = Total(next) /\ SameSeats(next, r)
    <3>1. nxt \in Active(next) /\ next.start \in Seats /\ \E v, w \in Active(next) : v # w
      BY <1>0, <1>4, <2>3
    <3>2. \A p \in next.side : p.from = nxt \/ p.from \notin Active(next)
      BY <1>4
    <3> QED BY <1>2, <1>4, <1>8, <2>5, <3>1, <3>2, SetTurnOK
  <2>7. SameSeats(t, r)
    BY <1>4, <2>6 DEF SameSeats
  <2> QED BY <1>0, <1>4, <2>6, <2>7, SameOutcome DEF TabOK
<1> QED BY <1>1, <1>6, <1>7, <1>8

-----------------------------------------------------------------------------
(* One seat changed *)

\* Seat s of t becomes x; nothing else of the table changes.
SeatBecomes(t, r, s, x) ==
    /\ IsTable(t) /\ s \in Seats /\ IsTable(r)
    /\ r.phase = t.phase /\ r.pot = t.pot /\ r.round = t.round
    /\ r.turn = t.turn /\ r.start = t.start /\ r.side = t.side
    /\ r.turnClock = t.turnClock /\ r.sideClock = t.sideClock
    /\ r.startClock = t.startClock /\ r.late = t.late /\ r.turns = t.turns
    /\ r.seat[s] = x
    /\ \A y \in Seats \ {s} : r.seat[y] = t.seat[y]
    /\ x.active => s \in Active(t) /\ x.user # None
    /\ x.user = None => x.chips = 0

\* Replacing the record of a seat is a seat that becomes something else.
LEMMA SeatBecomesIs ==
  ASSUME NEW t, IsTable(t), NEW s \in Seats, NEW x \in SeatType,
         x.active => s \in Active(t) /\ x.user # None,
         x.user = None => x.chips = 0,
         NEW r, r = [t EXCEPT !.seat[s] = x]
  PROVE  SeatBecomes(t, r, s, x)
<1> DEFINE seat == [t.seat EXCEPT ![s] = x]
<1>1. t.seat \in [Seats -> SeatType]
  BY DEF IsTable, TableType
<1>2. /\ seat \in [Seats -> SeatType] /\ seat[s] = x
      /\ \A y \in Seats \ {s} : seat[y] = t.seat[y]
  BY <1>1
<1>3. r = [t EXCEPT !.seat = seat]
  OBVIOUS
<1> HIDE DEF seat
<1>4. /\ IsTable(r)
      /\ r.phase = t.phase /\ r.pot = t.pot /\ r.round = t.round
      /\ r.turn = t.turn /\ r.start = t.start /\ r.side = t.side
      /\ r.turnClock = t.turnClock /\ r.sideClock = t.sideClock
      /\ r.startClock = t.startClock /\ r.late = t.late /\ r.turns = t.turns
      /\ r.seat = seat
  BY <1>2, <1>3 DEF IsTable, TableType
<1> QED BY <1>2, <1>4 DEF SeatBecomes

\* Nobody gets into the hand by it.
LEMMA SeatBecomesActive ==
  ASSUME NEW t, NEW r, NEW s, NEW x, SeatBecomes(t, r, s, x)
  PROVE  /\ Active(r) \subseteq Active(t)
         /\ \A y \in Active(t) : y # s \/ x.active => y \in Active(r)
         /\ s \in Active(r) <=> x.active
         /\ Live(r) <=> Live(t)
         /\ \A k : Queued(r, k) <=> Queued(t, k)
<1>1. s \in Active(r) <=> x.active
  BY DEF SeatBecomes, Active, Occupied
<1>2. \A y \in Seats \ {s} : y \in Active(r) <=> y \in Active(t)
  BY DEF SeatBecomes, Active, Occupied
<1>3. x.active => s \in Active(t)
  BY DEF SeatBecomes
<1>4. Active(r) \subseteq Seats /\ Active(t) \subseteq Seats
  BY DEF Active, Occupied
<1>5. (Live(r) <=> Live(t)) /\ \A k : Queued(r, k) <=> Queued(t, k)
  BY DEF SeatBecomes, Live, Queued
<1> QED BY <1>1, <1>2, <1>3, <1>4, <1>5

\* The total moves by what the seat gained or lost.
LEMMA SeatBecomesTotal ==
  ASSUME NEW t, NEW r, NEW s, NEW x, SeatBecomes(t, r, s, x)
  PROVE  /\ Total(r) = Total(t) - t.seat[s].chips + x.chips
         /\ Total(t) \in Int /\ Total(r) \in Int
<1> DEFINE f == Stacks(t)
           g == Stacks(r)
<1>1. s \in Seats /\ IsTable(t) /\ IsTable(r) /\ r.pot = t.pot /\ r.seat[s] = x
  BY DEF SeatBecomes
<1>2. \A y \in Seats : f[y] = t.seat[y].chips /\ g[y] = r.seat[y].chips
  BY DEF Stacks
<1> HIDE DEF f, g
<1>3. \A y \in Seats : f[y] \in Int /\ g[y] \in Int
  BY <1>1, <1>2, SeatNumbers
<1>4. \A y \in Seats : y # s => f[y] = g[y]
  BY <1>2 DEF SeatBecomes
<1>5. SumOver(f, Seats) - f[s] = SumOver(g, Seats) - g[s]
  BY <1>1, <1>3, <1>4, SeatsAre, SumOneMoved
<1>6. SumOver(f, Seats) \in Int /\ SumOver(g, Seats) \in Int /\ t.pot \in Int
  <2>1. t.pot \in Int
    BY <1>1 DEF IsTable, TableType
  <2> QED BY <1>3, <2>1, SeatsAre, SumInt
<1>7. f[s] = t.seat[s].chips /\ g[s] = x.chips /\ f[s] \in Int /\ g[s] \in Int
  BY <1>1, <1>2, <1>3
<1>8. Total(t) = SumOver(f, Seats) + t.pot /\ Total(r) = SumOver(g, Seats) + t.pot
  BY <1>1 DEF Total, f, g
<1> QED BY <1>5, <1>6, <1>7, <1>8

\* Core survives it.
LEMMA SeatBecomesCore ==
  ASSUME NEW t, NEW r, NEW s, NEW x, SeatBecomes(t, r, s, x), Core(t)
  PROVE  Core(r)
<1>1. Callbacks(r)
  BY SeatBecomesActive DEF SeatBecomes, Callbacks, Core
<1>2. Sides(r)
  BY SeatBecomesActive DEF SeatBecomes, Sides, Core
<1>3. Nobodies(r)
  BY DEF SeatBecomes, Nobodies, Core
<1> QED BY <1>1, <1>2, <1>3 DEF Core, SeatBecomes

\* So do Playing and Mid.
LEMMA SeatBecomesPlaying ==
  ASSUME NEW t, NEW r, NEW s, NEW x, SeatBecomes(t, r, s, x)
  PROVE  (Playing(t) => Playing(r)) /\ (Mid(t) => Mid(r))
<1>1. Playing(t) => Playing(r)
  BY SeatBecomesActive, SeatBecomesCore DEF SeatBecomes, Playing
<1>2. Mid(t) => Mid(r)
  <2> SUFFICES ASSUME Mid(t) PROVE Mid(r)
    OBVIOUS
  <2>1. /\ Active(r) \subseteq Active(t) /\ r.turns = t.turns /\ r.round = t.round
        /\ r.start = t.start /\ r.turn = t.turn
    BY SeatBecomesActive DEF SeatBecomes
  <2>2. Fair(r)
    BY <2>1 DEF Mid, Fair
  <2> QED BY <1>1, <2>1, <2>2 DEF Mid
<1> QED BY <1>1, <1>2

\* The hand of t goes on when nobody in it has left.
LEMMA SeatBecomesLive ==
  ASSUME NEW t, NEW r, NEW s, NEW x, SeatBecomes(t, r, s, x), x.active \/ s \notin Active(t)
  PROVE  (Hand(t) => Hand(r)) /\ (LiveOK(t) => LiveOK(r))
<1>1. Active(r) = Active(t)
  BY SeatBecomesActive
<1>2. r.turn = t.turn /\ r.side = t.side /\ r.turnClock = t.turnClock
  BY DEF SeatBecomes
<1>3. Goes(t) => Goes(r)
  BY <1>2, SeatBecomesActive DEF Goes
<1>4. Hand(t) => Hand(r)
  BY <1>1, <1>2, SeatBecomesPlaying DEF Hand
<1> QED BY <1>3, <1>4 DEF LiveOK

\* And so does Resting.
LEMMA SeatBecomesResting ==
  ASSUME NEW t, NEW r, NEW s, NEW x, SeatBecomes(t, r, s, x), Resting(t)
  PROVE  Resting(r)
<1>1. Core(r) /\ ~Live(r)
  BY SeatBecomesCore, SeatBecomesActive DEF Resting
<1>2. ~x.active
  BY DEF Resting, SeatBecomes, Active, Occupied
<1> QED BY <1>1, <1>2 DEF SeatBecomes, Resting

-----------------------------------------------------------------------------
(* Packs and sideshows *)

\* Two different members, counted.
LEMMA TwoOf ==
  ASSUME NEW S \in SUBSET Seats
  PROVE  /\ \A a \in S : Cardinality(S) # 1 => \E x, y \in S : x # y
         /\ (\E x, y \in S : x # y) => Cardinality(S) >= 2
<1>1. IsFiniteSet(S) /\ Cardinality(S) \in Nat
  BY SeatsAre, FS_Subset, FS_CardinalityType
<1>2. ASSUME NEW a \in S, Cardinality(S) # 1 PROVE \E x, y \in S : x # y
  <2> SUFFICES ASSUME \A x, y \in S : x = y PROVE FALSE
    OBVIOUS
  <2>1. S = {a}
    BY <1>2
  <2> QED BY <1>2, <2>1, FS_Singleton
<1>3. ASSUME NEW x \in S, NEW y \in S, x # y PROVE Cardinality(S) >= 2
  <2>1. Cardinality(S) # 0
    BY <1>1, FS_EmptySet
  <2>2. Cardinality(S) # 1
    <3> SUFFICES ASSUME Cardinality(S) = 1 PROVE FALSE
      OBVIOUS
    <3>1. PICK z : S = {z}
      BY <1>1, FS_Singleton
    <3> QED BY <1>3, <3>1
  <2> QED BY <1>1, <2>1, <2>2
<1> QED BY <1>2, <1>3

\* A player in the hand is out of it, and the turn's clock stands.
LEMMA PackedIs ==
  ASSUME NEW t, Mid(t), NEW s \in Active(t),
         NEW c, c = ClearTurnTimer([t EXCEPT !.seat[s] = Out(@)])
  PROVE  /\ Mid(c) /\ Active(c) = Active(t) \ {s} /\ Total(c) = Total(t)
         /\ c.turn = t.turn /\ c.side = t.side
         /\ \A x \in Seats : /\ c.seat[x].user = t.seat[x].user
                             /\ c.seat[x].missed = t.seat[x].missed
                             /\ c.seat[x].chips = t.seat[x].chips
<1> DEFINE x == Out(t.seat[s])
           u == [t EXCEPT !.seat[s] = x]
<1>0. IsTable(t) /\ s \in Seats /\ t.seat \in [Seats -> SeatType] /\ t.seat[s].user # None
  BY DEF Mid, Playing, Core, IsTable, TableType, Active, Occupied
<1>1. /\ x \in SeatType /\ x.user = t.seat[s].user /\ x.chips = t.seat[s].chips
      /\ ~x.active /\ x.missed = t.seat[s].missed
  <2>1. t.seat[s] \in SeatType
    BY <1>0
  <2> QED BY <2>1, OutIs
<1>2. c = ClearTurnTimer(u)
  BY <1>0 DEF IsTable, TableType
<1> HIDE DEF x
<1>3. SeatBecomes(t, u, s, x)
  BY <1>0, <1>1, SeatBecomesIs
<1> HIDE DEF u
<1>4. Mid(u) /\ Playing(u)
  BY <1>3, SeatBecomesPlaying DEF Mid
<1>5. Active(u) = Active(t) \ {s}
  BY <1>1, <1>3, SeatBecomesActive
<1>6. Total(u) = Total(t)
  <2>1. Total(u) = Total(t) - t.seat[s].chips + t.seat[s].chips /\ Total(t) \in Int
    BY <1>1, <1>3, SeatBecomesTotal
  <2>2. t.seat[s].chips \in Int
    BY <1>0, SeatNumbers
  <2> QED BY <2>1, <2>2
<1>7. /\ Mid(c) /\ Active(c) = Active(u) /\ Total(c) = Total(u)
      /\ c.turn = u.turn /\ c.side = u.side /\ c.seat = u.seat
  BY <1>2, <1>4, ClearIs
<1>8. \A y \in Seats : /\ u.seat[y].user = t.seat[y].user
                       /\ u.seat[y].missed = t.seat[y].missed
                       /\ u.seat[y].chips = t.seat[y].chips
  BY <1>1, <1>3 DEF SeatBecomes
<1>9. u.turn = t.turn /\ u.side = t.side
  BY <1>3 DEF SeatBecomes
<1> QED BY <1>5, <1>6, <1>7, <1>8, <1>9

\* The turn's holder packs.
LEMMA PackOK ==
  ASSUME NEW t, Hand(t), NEW r \in Pack(t, t.turn, TRUE)
  PROVE  Outcome(t, r)
<1> DEFINE s == t.turn
           c == ClearTurnTimer([t EXCEPT !.seat[s] = Out(@)])
<1>0. Mid(t) /\ s \in Active(t) /\ IsTable(t)
  BY DEF Hand, Mid, Playing, Core
<1>1. \/ Cardinality(Active(c)) = 1 /\ r \in Showdown(c)
      \/ Cardinality(Active(c)) # 1 /\ r \in AdvanceTurn(c, s)
  BY Zenon DEF Pack, Fold
<1>2. /\ Mid(c) /\ Active(c) = Active(t) \ {s} /\ Total(c) = Total(t)
      /\ c.turn = s /\ c.side = t.side
      /\ \A x \in Seats : /\ c.seat[x].user = t.seat[x].user
                          /\ c.seat[x].missed = t.seat[x].missed
                          /\ c.seat[x].chips = t.seat[x].chips
  BY <1>0, PackedIs
<1> HIDE DEF c
<1>3. Outcome(c, r)
  <2>1. CASE Cardinality(Active(c)) = 1 /\ r \in Showdown(c)
    BY <1>2, <2>1, ShowdownOK DEF Mid
  <2>2. CASE Cardinality(Active(c)) # 1 /\ r \in AdvanceTurn(c, s)
    <3>1. PICK a \in Active(c) : TRUE
      BY <1>2 DEF Hand
    <3>2. \E x, y \in Active(c) : x # y
      <4>1. Active(c) \in SUBSET Seats
        BY DEF Active, Occupied
      <4> QED BY <2>2, <3>1, <4>1, TwoOf
    <3>3. \A p \in c.side : p.from \notin Active(c)
      BY <1>0, <1>2 DEF Mid, Playing, Core, Sides
    <3> QED BY <1>2, <2>2, <3>2, <3>3, AdvanceOK
  <2> QED BY <1>1, <2>1, <2>2
<1>4. IsTable(c)
  BY <1>2 DEF Mid, Playing, Core
<1>5. \A x \in Seats : c.seat[x].missed <= t.seat[x].missed /\ c.seat[x].chips <= t.seat[x].chips
  BY <1>0, <1>2, SeatNumbers
<1> QED BY <1>0, <1>2, <1>3, <1>4, <1>5, OutcomeAfter

\* The asker who still holds the turn has it back, or the hand goes on anyway.
LEMMA ResumeOK ==
  ASSUME NEW t, Hand(t), NEW from \in Seats, t.turn = from \/ Goes(t),
         NEW r, r = Resume(t, from)
  PROVE  LiveOK(r) /\ r.turn = t.turn /\ r.side = t.side /\ SameSeats(t, r) /\ Total(r) = Total(t)
<1> DEFINE no == FALSE
<1>1. \/ t.turn = from /\ r = SetTurn(t, from, no)
      \/ r = t /\ (t.turn = from => ~Live(t) \/ ~t.seat[from].active)
  BY Zenon DEF Resume
<1>2. Counted(t, t.turn, no)
  <2>1. \A x \in Active(t) :
          t.turns[x] = t.round + (IF Distance(t.start, x) <= Distance(t.start, t.turn) THEN 1 ELSE 0)
    BY DEF Hand, Mid, Fair
  <2> QED BY <2>1 DEF Counted
<1>3. no \in BOOLEAN
  OBVIOUS
<1> HIDE DEF no
<1>4. CASE t.turn = from /\ r = SetTurn(t, from, no)
  <2>1. Playing(t) /\ t.start \in Seats /\ \E x, y \in Active(t) : x # y
    BY DEF Hand, Mid
  <2>2. from \in Active(t) /\ Counted(t, from, no)
    BY <1>2, <1>4 DEF Hand
  <2>3. \A p \in t.side : p.from = from \/ p.from \notin Active(t)
    BY <1>4, <2>1 DEF Playing, Core, Sides
  <2>4. /\ LiveOK(r) /\ r.turn = from /\ Total(r) = Total(t)
        /\ r.side = t.side /\ SameSeats(t, r)
    BY <1>3, <1>4, <2>1, <2>2, <2>3, SetTurnOK
  <2> QED BY <1>4, <2>4
<1>5. CASE r = t /\ (t.turn = from => ~Live(t) \/ ~t.seat[from].active)
  <2>1. Live(t) /\ t.seat[t.turn].active
    BY DEF Hand, Mid, Playing, Active
  <2>2. Goes(t)
    BY <1>5, <2>1
  <2> QED BY <1>5, <2>2 DEF LiveOK, SameSeats
<1> QED BY <1>1, <1>4, <1>5

\* An asker who has the turn back adds nothing to the outcome.
LEMMA ResumeOutcome ==
  ASSUME NEW t, IsTable(t), NEW q, Outcome(t, q), NEW from \in Seats, NEW r, r = Resume(q, from)
  PROVE  Outcome(t, r)
<1>1. CASE RestOK(q)
  <2>1. ~Live(q)
    BY <1>1 DEF RestOK, Idle
  <2>2. r = q
    BY <2>1 DEF Resume
  <2> QED BY <2>2
<1>2. CASE LiveOK(q)
  <2>1. Hand(q) /\ Goes(q) /\ IsTable(q)
    BY <1>2 DEF LiveOK, Hand, Mid, Playing, Core
  <2>2. LiveOK(r) /\ SameSeats(q, r) /\ Total(r) = Total(q)
    BY <2>1, ResumeOK
  <2>3. Total(q) = Total(t) /\ Bounded(t, q)
    BY DEF Outcome
  <2>4. Bounded(t, r)
    BY <2>2, <2>3 DEF Bounded, SameSeats
  <2> QED BY <2>2, <2>3, <2>4 DEF Outcome, TabOK
<1> QED BY <1>1, <1>2 DEF Outcome, TabOK

\* A sideshow settled: the loser packs, the asker's turn goes on.
LEMMA SettleOK ==
  ASSUME NEW t, Hand(t), t.side = {}, NEW p \in [from : Seats, to : Seats],
         NEW accepted \in BOOLEAN,
         p.from = t.turn \/ (p.from \notin Active(t) /\ Goes(t)),
         NEW r \in Settle(t, p, accepted)
  PROVE  Outcome(t, r)
<1>0. /\ Mid(t) /\ Playing(t) /\ IsTable(t) /\ t.turn \in Active(t)
      /\ p.from \in Seats /\ p.to \in Seats
  BY DEF Hand, Mid, Playing, Core
<1>1. \/ /\ {p.from, p.to} \subseteq Active(t)
         /\ \E loser \in {p.from, p.to} :
              \E q \in Pack(t, loser, t.turn = loser) : r = Resume(q, p.from)
      \/ r = Resume(t, p.from)
  <2> DEFINE loses == {p.from, p.to}
             packed == UNION {Pack(t, loser, t.turn = loser) : loser \in loses}
  <2>1. CASE accepted /\ loses \subseteq Active(t)
    <3>1. r \in {Resume(q, p.from) : q \in packed}
      BY <2>1, Zenon DEF Settle
    <3>2. PICK q \in packed : r = Resume(q, p.from)
      BY <3>1, Zenon
    <3>3. PICK loser \in loses : q \in Pack(t, loser, t.turn = loser)
      BY <3>2, Zenon
    <3> QED BY <2>1, <3>2, <3>3, Zenon
  <2>2. CASE ~(accepted /\ loses \subseteq Active(t))
    <3>1. r \in {Resume(t, p.from)}
      BY <2>2, Zenon DEF Settle
    <3> QED BY <3>1
  <2> QED BY <2>1, <2>2
<1>2. CASE r = Resume(t, p.from)
  <2>0. t.turn = p.from \/ Goes(t)
    OBVIOUS
  <2>1. LiveOK(r) /\ SameSeats(t, r) /\ Total(r) = Total(t)
    BY <1>0, <1>2, <2>0, ResumeOK
  <2> QED BY <1>0, <2>1, SameOutcome DEF TabOK
<1>3. ASSUME {p.from, p.to} \subseteq Active(t),
             NEW s \in {p.from, p.to}, NEW q \in Pack(t, s, t.turn = s),
             r = Resume(q, p.from)
      PROVE  Outcome(t, r)
  <2>0. p.from = t.turn /\ s \in Active(t)
    BY <1>3
  <2>1. CASE s = t.turn
    <3>1. q \in Pack(t, t.turn, TRUE)
      BY <1>3, <2>1, Zenon DEF Pack, Fold
    <3>2. Outcome(t, q)
      BY <3>1, PackOK
    <3> QED BY <1>0, <1>3, <3>2, ResumeOutcome
  <2>2. CASE s # t.turn
    <3> DEFINE c == ClearTurnTimer([t EXCEPT !.seat[s] = Out(@)])
    <3>1. \/ Cardinality(Active(c)) = 1 /\ q \in Showdown(c)
          \/ Cardinality(Active(c)) # 1 /\ q = c
      BY <1>3, <2>2, Zenon DEF Pack, Fold
    <3>2. /\ Mid(c) /\ Active(c) = Active(t) \ {s} /\ Total(c) = Total(t)
          /\ c.turn = t.turn /\ c.side = t.side
          /\ \A x \in Seats : /\ c.seat[x].user = t.seat[x].user
                              /\ c.seat[x].missed = t.seat[x].missed
                              /\ c.seat[x].chips = t.seat[x].chips
      BY <1>0, <2>0, PackedIs
    <3> HIDE DEF c
    <3>3. IsTable(c)
      BY <3>2 DEF Mid, Playing, Core
    <3>4. \A x \in Seats : c.seat[x].missed <= t.seat[x].missed /\ c.seat[x].chips <= t.seat[x].chips
      BY <1>0, <3>2, SeatNumbers
    <3>5. CASE Cardinality(Active(c)) = 1 /\ q \in Showdown(c)
      <4>1. Outcome(c, q)
        BY <3>2, <3>5, ShowdownOK DEF Mid
      <4>2. Outcome(t, q)
        BY <1>0, <3>2, <3>3, <3>4, <4>1, OutcomeAfter
      <4> QED BY <1>0, <1>3, <4>2, ResumeOutcome
    <3>6. CASE Cardinality(Active(c)) # 1 /\ q = c
      <4>1. t.turn \in Active(c)
        BY <1>0, <2>2, <3>2
      <4>2. \E x, y \in Active(c) : x # y
        <5>1. Active(c) \in SUBSET Seats
          BY DEF Active, Occupied
        <5> QED BY <3>6, <4>1, <5>1, TwoOf
      <4>3. Hand(c)
        BY <3>2, <4>1, <4>2 DEF Hand
      <4>4. LiveOK(r) /\ SameSeats(c, r) /\ Total(r) = Total(c)
        BY <1>0, <1>3, <2>0, <3>2, <3>6, <4>3, ResumeOK
      <4>5. Outcome(c, r)
        BY <3>3, <4>4, SameOutcome DEF TabOK
      <4> QED BY <1>0, <3>2, <3>3, <3>4, <4>5, OutcomeAfter
    <3> QED BY <3>1, <3>5, <3>6
  <2> QED BY <2>1, <2>2
<1> QED BY <1>1, <1>2, <1>3

\* The sideshow taken off the table.
LEMMA ClosedIs ==
  ASSUME NEW t, Hand(t), NEW c, c = Closed(t)
  PROVE  /\ Hand(c) /\ c.side = {} /\ c.turn = t.turn /\ c.seat = t.seat
         /\ Active(c) = Active(t) /\ Total(c) = Total(t)
         /\ t.turnClock \/ Queued(t, "turn") => Goes(c)
<1>0. IsTable(t) /\ LateOK(t.late)
  BY DEF Hand, Mid, Playing, Core, IsTable, TableType, LateOK
<1> DEFINE late == Stale(t.late, "side")
<1>1. late \in SUBSET CallbackType
  BY <1>0, StaleIs DEF LateOK
<1>2. c = [t EXCEPT !.side = {}, !.sideClock = FALSE, !.late = late]
  BY DEF Closed
<1> HIDE DEF late
<1>3. /\ IsTable(c) /\ c.side = {} /\ c.late = late
      /\ c.phase = t.phase /\ c.pot = t.pot /\ c.round = t.round
      /\ c.turn = t.turn /\ c.start = t.start /\ c.seat = t.seat
      /\ c.turnClock = t.turnClock
      /\ c.startClock = t.startClock /\ c.turns = t.turns
  BY <1>0, <1>1, <1>2 DEF IsTable, TableType
<1>4. c.late = Stale(t.late, "side")
  BY <1>3 DEF late
<1> HIDE <1>2
<1>5. /\ \A k : Queued(c, k) <=> k # "side" /\ Queued(t, k)
      /\ \A a \in c.late : \E d \in t.late :
           /\ a.kind = d.kind /\ a.seat = d.seat
           /\ a.current => d.current /\ d.kind # "side"
  <2>1. \A k : Queued(c, k) <=> k # "side" /\ Queued(t, k)
    BY <1>0, <1>4, StaleQueued
  <2>2. ASSUME NEW a \in c.late
        PROVE  \E d \in t.late :
                 /\ a.kind = d.kind /\ a.seat = d.seat
                 /\ a.current => d.current /\ d.kind # "side"
    <3>1. a \in Stale(t.late, "side")
      BY <1>4, <2>2
    <3> QED BY <1>0, <3>1, StaleIs
  <2> QED BY <2>1, <2>2
<1>6. (Live(c) <=> Live(t)) /\ Active(c) = Active(t) /\ Stacks(c) = Stacks(t)
  BY <1>3 DEF Live, Active, Occupied, Stacks
<1>7. Callbacks(c)
  <2> SUFFICES ASSUME NEW a \in c.late
               PROVE  /\ a.kind # "turn" => a.seat = NoSeat
                      /\ a.current =>
                           /\ a.kind = "turn" => Live(t) /\ a.seat = t.turn /\ ~t.turnClock
                           /\ a.kind = "start" => ~t.startClock
    BY <1>3, <1>6 DEF Callbacks
  <2>1. PICK d \in t.late :
           /\ a.kind = d.kind /\ a.seat = d.seat
           /\ a.current => d.current /\ d.kind # "side"
    BY <1>5
  <2> QED BY <2>1 DEF Hand, Mid, Playing, Core, Callbacks
<1>8. Sides(c) /\ Nobodies(c) /\ Fair(c)
  BY <1>3, <1>6 DEF Sides, Nobodies, Fair, Hand, Mid, Playing, Core
<1>9. Hand(c)
  BY <1>3, <1>5, <1>6, <1>7, <1>8 DEF Hand, Mid, Playing, Core
<1>10. Total(c) = Total(t)
  BY <1>3, <1>6 DEF Total
<1>11. t.turnClock \/ Queued(t, "turn") => Goes(c)
  BY <1>3, <1>5 DEF Goes
<1> QED BY <1>3, <1>6, <1>9, <1>10, <1>11

\* What a sideshow stands for once it is off the table.
LEMMA SideStands ==
  ASSUME NEW t, LiveOK(t), NEW p \in t.side, NEW c, c = Closed(t)
  PROVE  /\ p \in [from : Seats, to : Seats] /\ p.from \in Seats
         /\ p.from = c.turn \/ (p.from \notin Active(c) /\ Goes(c))
<1>1. p \in [from : Seats, to : Seats] /\ p.from \in Seats
  <2>1. t.side \subseteq [from : Seats, to : Seats]
    BY DEF LiveOK, Hand, Mid, Playing, Core, IsTable, TableType
  <2> QED BY <2>1
<1>2. /\ c.turn = t.turn /\ Active(c) = Active(t)
      /\ t.turnClock \/ Queued(t, "turn") => Goes(c)
  BY ClosedIs DEF LiveOK
<1>3. p.from = t.turn \/ p.from \notin Active(t)
  BY DEF LiveOK, Hand, Mid, Playing, Core, Sides
<1>4. p.from # t.turn => t.turnClock \/ Queued(t, "turn")
  BY DEF LiveOK, Goes
<1> QED BY <1>1, <1>2, <1>3, <1>4

\* A sideshow that is answered or runs out (resolveSideshow).
LEMMA ResolveOK ==
  ASSUME NEW t, LiveOK(t), NEW accepted \in BOOLEAN, NEW r \in ResolveSideshow(t, accepted)
  PROVE  Outcome(t, r)
<1> DEFINE c == Closed(t)
<1>1. PICK p \in t.side : r \in Settle(c, p, accepted)
  BY Zenon DEF ResolveSideshow
<1>2. /\ Hand(c) /\ c.side = {} /\ c.turn = t.turn /\ c.seat = t.seat
      /\ Active(c) = Active(t) /\ Total(c) = Total(t)
  BY ClosedIs DEF LiveOK
<1>3. /\ p \in [from : Seats, to : Seats] /\ p.from \in Seats
      /\ p.from = c.turn \/ (p.from \notin Active(c) /\ Goes(c))
  BY SideStands
<1> HIDE DEF c
<1>4. Outcome(c, r)
  BY <1>1, <1>2, <1>3, SettleOK
<1>5. IsTable(c) /\ IsTable(t)
  BY <1>2 DEF LiveOK, Hand, Mid, Playing, Core
<1>6. \A x \in Seats : c.seat[x].missed <= t.seat[x].missed /\ c.seat[x].chips <= t.seat[x].chips
  BY <1>2, <1>5, SeatNumbers
<1> QED BY <1>2, <1>4, <1>5, <1>6, OutcomeAfter

\* A sideshow called off: nobody packs, and the hand goes on.
LEMMA DropOK ==
  ASSUME NEW t, LiveOK(t), NEW r \in ResolveSideshow(t, FALSE)
  PROVE  LiveOK(r) /\ r.turn = t.turn /\ r.side = {} /\ SameSeats(t, r) /\ Total(r) = Total(t)
<1> DEFINE c == Closed(t)
<1>1. PICK p \in t.side : r = Resume(c, p.from)
  BY Zenon DEF ResolveSideshow, Settle
<1>2. /\ Hand(c) /\ c.side = {} /\ c.turn = t.turn /\ c.seat = t.seat
      /\ Active(c) = Active(t) /\ Total(c) = Total(t)
  BY ClosedIs DEF LiveOK
<1>3. p.from \in Seats /\ (p.from = c.turn \/ Goes(c))
  BY SideStands
<1> HIDE DEF c
<1>4. LiveOK(r) /\ r.turn = c.turn /\ r.side = c.side /\ SameSeats(c, r) /\ Total(r) = Total(c)
  BY <1>1, <1>2, <1>3, ResumeOK
<1> QED BY <1>2, <1>4 DEF SameSeats

-----------------------------------------------------------------------------
(* Departures *)

\* A seat that has been vacated.
LEMMA VacatedIs ==
  ASSUME NEW t, IsTable(t), NEW s \in Seats, NEW g, g = Vacated(t, s)
  PROVE  /\ SeatBecomes(t, g, s, EmptySeat)
         /\ EmptySeat.chips = 0 /\ ~EmptySeat.active /\ EmptySeat.missed = 0
         /\ \A x \in Seats : g.seat[x].missed <= t.seat[x].missed /\ g.seat[x].chips <= t.seat[x].chips
<1>1. /\ EmptySeat \in SeatType /\ ~EmptySeat.active /\ EmptySeat.chips = 0
      /\ EmptySeat.user = None /\ EmptySeat.missed = 0
  BY TableAssumption DEF EmptySeat, SeatType
<1> DEFINE e == EmptySeat
<1>2. g = [t EXCEPT !.seat[s] = e]
  BY DEF Vacated
<1>3. e \in SeatType /\ ~e.active /\ e.chips = 0
  BY <1>1
<1> HIDE DEF e
<1>4. SeatBecomes(t, g, s, e)
  BY <1>2, <1>3, SeatBecomesIs
<1>5. ASSUME NEW x \in Seats
      PROVE  g.seat[x].missed <= t.seat[x].missed /\ g.seat[x].chips <= t.seat[x].chips
  <2>1. t.seat[x].missed \in Nat /\ t.seat[x].chips \in Nat
    BY SeatNumbers
  <2>2. CASE x = s
    <3>1. g.seat[x].missed = 0 /\ g.seat[x].chips = 0
      BY <1>1, <1>4, <2>2 DEF SeatBecomes, e
    <3> QED BY <2>1, <3>1
  <2>3. CASE x # s
    BY <1>4, <2>1, <2>3 DEF SeatBecomes
  <2> QED BY <2>2, <2>3
<1> QED BY <1>1, <1>4, <1>5 DEF e

\* What a departure leaves: the seat's chips are gone from the table.
Departed(t, s, r) ==
    TabOK(r) /\ Total(r) = Total(t) - t.seat[s].chips /\ Bounded(t, r)

\* A departure between hands.
LEMMA RemoveResting ==
  ASSUME NEW t, RestOK(t), NEW s \in Occupied(t), NEW r \in RemovePlayer(t, s)
  PROVE  Departed(t, s, r)
<1> DEFINE g == Vacated(t, s)
<1>0. /\ IsTable(t) /\ s \in Seats /\ t.side = {} /\ ~t.seat[s].active /\ ~Live(t)
      /\ Resting(t) /\ Idle(t)
  BY DEF RestOK, Idle, Resting, Core, Sides, Occupied
<1>1. \/ /\ t.phase = "starting" /\ Cardinality(Funded(g)) < MinPlayers
         /\ r = CancelStart(g)
      \/ /\ ~(t.phase = "starting" /\ Cardinality(Funded(g)) < MinPlayers)
         /\ r = MaybeStart(g)
  BY <1>0, Zenon DEF RemovePlayer
<1>2. /\ SeatBecomes(t, g, s, EmptySeat) /\ EmptySeat.chips = 0
      /\ \A x \in Seats : g.seat[x].missed <= t.seat[x].missed /\ g.seat[x].chips <= t.seat[x].chips
  BY <1>0, VacatedIs
<1> HIDE DEF g
<1>3. Resting(g) /\ IsTable(g) /\ g.phase = t.phase
  BY <1>0, <1>2, SeatBecomesResting DEF SeatBecomes
<1>4. Cardinality(Funded(g)) \in Nat /\ MinPlayers \in Nat
  <2>1. Funded(g) \in SUBSET Seats
    BY DEF Funded, Occupied
  <2> QED BY <2>1, SeatsAre, FS_Subset, FS_CardinalityType, TableAssumption
<1>5. RestOK(r) /\ SameSeats(g, r) /\ Total(r) = Total(g)
  <2>1. CASE /\ t.phase = "starting" /\ Cardinality(Funded(g)) < MinPlayers
             /\ r = CancelStart(g)
    <3> DEFINE late == Stale(g.late, "start")
    <3>1. LateOK(g.late) /\ late \in SUBSET CallbackType
      <4>1. LateOK(g.late)
        BY <1>3 DEF IsTable, TableType, LateOK
      <4> QED BY <4>1, StaleIs DEF LateOK
    <3>2. r = [g EXCEPT !.phase = "waiting", !.startClock = FALSE, !.late = late]
      BY <2>1 DEF CancelStart
    <3> HIDE DEF late
    <3>3. ~g.turnClock
      BY <1>3 DEF Resting
    <3>4. /\ IsTable(r) /\ r.late = late
          /\ r.seat = g.seat /\ r.pot = g.pot /\ r.turn = g.turn
          /\ r.side = g.side /\ ~r.turnClock /\ r.sideClock = g.sideClock
          /\ r.phase = "waiting" /\ ~r.startClock
      BY <1>3, <3>1, <3>2, <3>3 DEF IsTable, TableType
    <3>5. r.late = Stale(g.late, "start")
      BY <3>4 DEF late
    <3>6. ~(Cardinality(Funded(g)) >= MinPlayers)
      BY <1>4, <2>1
    <3> QED BY <1>3, <3>4, <3>5, <3>6, CountdownSet
  <2>2. CASE /\ ~(t.phase = "starting" /\ Cardinality(Funded(g)) < MinPlayers)
             /\ r = MaybeStart(g)
    <3>1. g.phase = "starting" => Cardinality(Funded(g)) >= MinPlayers
      BY <1>3, <1>4, <2>2
    <3>2. g.phase = "starting" <=> g.startClock \/ Queued(g, "start")
      <4>1. g.phase = t.phase /\ g.startClock = t.startClock
        BY <1>2 DEF SeatBecomes
      <4>2. Queued(g, "start") <=> Queued(t, "start")
        BY <1>2, SeatBecomesActive
      <4>3. t.phase = "starting" <=> t.startClock \/ Queued(t, "start")
        BY <1>0 DEF Idle
      <4> QED BY <4>1, <4>2, <4>3
    <3>3. Idle(g)
      BY <1>3, <3>1, <3>2 DEF Resting, Idle
    <3> QED BY <2>2, <3>3, MaybeStartOK
  <2> QED BY <1>1, <2>1, <2>2
<1>6. Total(r) = Total(t) - t.seat[s].chips
  <2>1. Total(g) = Total(t) - t.seat[s].chips + 0 /\ Total(t) \in Int /\ t.seat[s].chips \in Int
    BY <1>0, <1>2, SeatBecomesTotal, SeatNumbers
  <2> QED BY <1>5, <2>1
<1>7. Bounded(t, r)
  <2>1. TabOK(r) /\ IsTable(r)
    BY <1>5, OutcomeTable DEF TabOK
  <2>2. Bounded(g, r)
    BY <1>3, <1>5, <2>1, SameOutcome DEF Outcome
  <2> QED BY <1>0, <1>2, <1>3, <2>1, <2>2, BoundedAfter
<1> QED BY <1>5, <1>6, <1>7 DEF Departed, TabOK

\* A departure from a live hand.
LEMMA RemoveLive ==
  ASSUME NEW t, LiveOK(t), NEW s \in Occupied(t), NEW r \in RemovePlayer(t, s)
  PROVE  Departed(t, s, r)
<1>0. s \in Seats /\ Live(t) /\ IsTable(t) /\ t.phase = "betting"
  BY DEF LiveOK, Hand, Mid, Playing, Core, Occupied, Live
<1> DEFINE dropped == IF \E p \in t.side : s \in {p.from, p.to}
                      THEN ResolveSideshow(t, FALSE) ELSE {t}
           c(q) == IF t.turn = s THEN ClearTurnTimer(Vacated(q, s)) ELSE Vacated(q, s)
<1>1. PICK q \in dropped :
        \/ t.seat[s].active /\ r \in Fold(c(q), s, Live(t) /\ t.turn = s)
        \/ ~t.seat[s].active /\ r = MaybeStart(Vacated(q, s))
  <2>1. \E q \in dropped :
          r \in IF t.seat[s].active /\ Live(t)
                THEN Fold(IF Live(t) /\ t.turn = s THEN ClearTurnTimer(Vacated(q, s))
                                                   ELSE Vacated(q, s), s, Live(t) /\ t.turn = s)
                ELSE IF t.phase = "starting" /\ Cardinality(Funded(Vacated(q, s))) < MinPlayers
                     THEN {CancelStart(Vacated(q, s))}
                ELSE {MaybeStart(Vacated(q, s))}
    BY Zenon DEF RemovePlayer
  <2>2. PICK q \in dropped :
          r \in IF t.seat[s].active /\ Live(t)
                THEN Fold(IF Live(t) /\ t.turn = s THEN ClearTurnTimer(Vacated(q, s))
                                                   ELSE Vacated(q, s), s, Live(t) /\ t.turn = s)
                ELSE IF t.phase = "starting" /\ Cardinality(Funded(Vacated(q, s))) < MinPlayers
                     THEN {CancelStart(Vacated(q, s))}
                ELSE {MaybeStart(Vacated(q, s))}
    BY <2>1, Zenon
  <2>3. t.phase # "starting"
    BY <1>0
  <2>4. CASE t.seat[s].active
    <3>1. r \in Fold(IF Live(t) /\ t.turn = s THEN ClearTurnTimer(Vacated(q, s))
                                              ELSE Vacated(q, s), s, Live(t) /\ t.turn = s)
      BY <1>0, <2>2, <2>4, Zenon
    <3>2. (IF Live(t) /\ t.turn = s THEN ClearTurnTimer(Vacated(q, s)) ELSE Vacated(q, s)) = c(q)
      BY <1>0, Zenon
    <3> QED BY <2>4, <3>1, <3>2, Zenon
  <2>5. CASE ~t.seat[s].active
    <3>1. r \in {MaybeStart(Vacated(q, s))}
      BY <2>2, <2>3, <2>5, Zenon
    <3> QED BY <2>5, <3>1
  <2> QED BY <2>4, <2>5
<1>2. /\ LiveOK(q) /\ q.turn = t.turn /\ SameSeats(t, q) /\ Total(q) = Total(t)
      /\ \A p \in q.side : p.from # s
  <2>1. CASE \E p \in t.side : s \in {p.from, p.to}
    <3>1. q \in ResolveSideshow(t, FALSE)
      BY <1>1, <2>1, Zenon
    <3> QED BY <3>1, DropOK
  <2>2. CASE ~ \E p \in t.side : s \in {p.from, p.to}
    <3>1. q = t
      BY <1>1, <2>2
    <3> QED BY <2>2, <3>1 DEF SameSeats
  <2> QED BY <2>1, <2>2
<1>3. IsTable(q) /\ Hand(q) /\ Goes(q) /\ Mid(q) /\ Playing(q)
  BY <1>2 DEF LiveOK, Hand, Mid, Playing, Core
<1> DEFINE g == Vacated(q, s)
<1>4. /\ SeatBecomes(q, g, s, EmptySeat) /\ EmptySeat.chips = 0 /\ ~EmptySeat.active
      /\ \A x \in Seats : g.seat[x].missed <= q.seat[x].missed /\ g.seat[x].chips <= q.seat[x].chips
  BY <1>0, <1>3, VacatedIs
<1>5. /\ t.seat[s].active =>
           r \in Fold(IF t.turn = s THEN ClearTurnTimer(g) ELSE g, s, Live(t) /\ t.turn = s)
      /\ ~t.seat[s].active => r = MaybeStart(g)
  BY <1>1, Zenon
<1> HIDE DEF g
<1>6. /\ Mid(g) /\ Playing(g) /\ IsTable(g) /\ g.turn = t.turn /\ g.side = q.side
      /\ g.phase = "betting" /\ Live(g)
  <2>1. Mid(g) /\ g.turn = t.turn /\ g.side = q.side
    BY <1>2, <1>3, <1>4, SeatBecomesPlaying DEF SeatBecomes
  <2> QED BY <2>1 DEF Mid, Playing, Core, Live
<1>7. /\ Total(g) = Total(t) - t.seat[s].chips
      /\ \A x \in Seats : g.seat[x].missed <= t.seat[x].missed /\ g.seat[x].chips <= t.seat[x].chips
  <2>1. Total(g) = Total(q) - q.seat[s].chips + 0 /\ Total(q) \in Int /\ q.seat[s].chips \in Int
    BY <1>0, <1>3, <1>4, SeatBecomesTotal, SeatNumbers
  <2> QED BY <1>0, <1>2, <1>4, <2>1 DEF SameSeats
<1>8. \A x \in Active(g) : x # s
  BY <1>4, SeatBecomesActive
<1>9. t.seat[s].active <=> s \in Active(q)
  BY <1>0, <1>2 DEF SameSeats, Active, Occupied
<1>10. \A x \in Active(q) : x # s => x \in Active(g)
  BY <1>4, SeatBecomesActive
<1>11. Active(g) \in SUBSET Seats
  BY DEF Active, Occupied
<1>12. \E x \in Active(g) : TRUE
  BY <1>3, <1>10 DEF Hand
<1>13. ASSUME Outcome(g, r)
       PROVE  Departed(t, s, r)
  <2>1. IsTable(r) /\ TabOK(r) /\ Total(r) = Total(g) /\ Bounded(g, r)
    BY <1>13, OutcomeTable DEF Outcome
  <2>2. Bounded(t, r)
    BY <1>0, <1>6, <1>7, <2>1, BoundedAfter
  <2> QED BY <1>7, <2>1, <2>2 DEF Departed
<1>14. CASE ~t.seat[s].active
  <2>1. r = g
    BY <1>5, <1>6, <1>14 DEF MaybeStart
  <2>2. LiveOK(g)
    BY <1>2, <1>4, <1>9, <1>14, SeatBecomesLive
  <2> QED BY <1>6, <1>13, <2>1, <2>2, SameOutcome DEF SameSeats, TabOK
<1>15. CASE t.seat[s].active /\ t.turn # s
  <2>1. \/ Cardinality(Active(g)) = 1 /\ r \in Showdown(g)
        \/ Cardinality(Active(g)) # 1 /\ r = g
    <3>1. r \in Fold(g, s, Live(t) /\ t.turn = s)
      BY <1>5, <1>15, Zenon
    <3>2. ~(Live(t) /\ t.turn = s)
      BY <1>15
    <3> QED BY <3>1, <3>2, Zenon DEF Fold
  <2>2. CASE Cardinality(Active(g)) = 1 /\ r \in Showdown(g)
    BY <1>6, <1>13, <2>2, ShowdownOK
  <2>3. CASE Cardinality(Active(g)) # 1 /\ r = g
    <3>1. \E x, y \in Active(g) : x # y
      BY <1>11, <1>12, <2>3, TwoOf
    <3>2. g.turn \in Active(g)
      BY <1>2, <1>3, <1>6, <1>10, <1>15 DEF Hand
    <3>3. Goes(g)
      <4>1. g.turnClock = q.turnClock /\ g.turn = q.turn
        BY <1>4 DEF SeatBecomes
      <4>2. Queued(g, "turn") <=> Queued(q, "turn")
        BY <1>4, SeatBecomesActive
      <4> QED BY <1>3, <1>6, <4>1, <4>2 DEF Goes
    <3>4. LiveOK(g)
      BY <1>6, <3>1, <3>2, <3>3 DEF LiveOK, Hand
    <3> QED BY <1>6, <1>13, <2>3, <3>4, SameOutcome DEF SameSeats, TabOK
  <2> QED BY <2>1, <2>2, <2>3
<1>16. CASE t.seat[s].active /\ t.turn = s
  <2> DEFINE gc == ClearTurnTimer(g)
  <2>1. \/ Cardinality(Active(gc)) = 1 /\ r \in Showdown(gc)
        \/ Cardinality(Active(gc)) # 1 /\ r \in AdvanceTurn(gc, s)
    <3>1. r \in Fold(gc, s, Live(t) /\ t.turn = s)
      BY <1>5, <1>16, Zenon
    <3>2. Live(t) /\ t.turn = s
      BY <1>0, <1>16
    <3> QED BY <3>1, <3>2, Zenon DEF Fold
  <2>2. /\ Mid(gc) /\ Playing(gc) /\ IsTable(gc) /\ gc.turn = s /\ gc.side = q.side /\ gc.seat = g.seat
        /\ Active(gc) = Active(g) /\ Total(gc) = Total(g)
    <3>1. /\ Mid(gc) /\ gc.turn = g.turn /\ gc.side = g.side /\ gc.seat = g.seat
          /\ Active(gc) = Active(g) /\ Total(gc) = Total(g)
      BY <1>6, ClearIs
    <3> QED BY <1>6, <1>16, <3>1 DEF Mid, Playing, Core
  <2> HIDE DEF gc
  <2>3. Outcome(gc, r)
    <3>1. CASE Cardinality(Active(gc)) = 1 /\ r \in Showdown(gc)
      BY <2>2, <3>1, ShowdownOK
    <3>2. CASE Cardinality(Active(gc)) # 1 /\ r \in AdvanceTurn(gc, s)
      <4>1. \E x, y \in Active(gc) : x # y
        BY <1>11, <1>12, <2>2, <3>2, TwoOf
      <4>2. \A p \in gc.side : p.from \notin Active(gc)
        BY <1>8, <2>2 DEF Mid, Playing, Core, Sides
      <4> QED BY <2>2, <3>2, <4>1, <4>2, AdvanceOK
    <3> QED BY <2>1, <3>1, <3>2
  <2>4. \A x \in Seats : gc.seat[x].missed <= g.seat[x].missed /\ gc.seat[x].chips <= g.seat[x].chips
    BY <1>6, <2>2, SeatNumbers
  <2> QED BY <1>6, <1>13, <2>2, <2>3, <2>4, OutcomeAfter
<1> QED BY <1>14, <1>15, <1>16

\* A player who leaves takes their chips and leaves the rest as it should be (removePlayer).
LEMMA RemoveOK ==
  ASSUME NEW t, TabOK(t), NEW s \in Occupied(t), NEW r \in RemovePlayer(t, s)
  PROVE  Departed(t, s, r)
BY RemoveResting, RemoveLive DEF TabOK

-----------------------------------------------------------------------------
(* The deal *)

\* The table with the boots taken, before the first turn is given.
Dealt(swept, dealer, first) ==
    LET dealt  == Funded(swept)
        seat   == [s \in Seats |->
                     IF s \notin Occupied(swept) THEN swept.seat[s]
                     ELSE [Out(swept.seat[s]) EXCEPT
                             !.active = s \in dealt,
                             !.chips = IF s \in dealt THEN @ - Boot ELSE @]]
    IN  [swept EXCEPT
                        !.phase = "betting", !.seat = seat, !.dealer = dealer,
                        !.pot = Boot * Cardinality(dealt), !.stake = Boot,
                        !.round = 0, !.start = first,
                        !.turns = [s \in Seats |-> 0]]

\* What Dealt leaves.
LEMMA DealtIs ==
  ASSUME NEW w, IsTable(w), \A s \in Seats : ~w.seat[s].active,
         NEW dealer \in Seats, NEW first \in Seats, NEW h, h = Dealt(w, dealer, first)
  PROVE  /\ IsTable(h) /\ h.phase = "betting" /\ h.pot = Boot * Cardinality(Funded(w))
         /\ h.round = 0 /\ h.start = first /\ h.late = w.late /\ h.side = w.side
         /\ h.turn = w.turn /\ h.turnClock = w.turnClock /\ h.startClock = w.startClock
         /\ \A x \in Seats :
              /\ h.turns[x] = 0 /\ h.seat[x].user = w.seat[x].user
              /\ h.seat[x].missed = w.seat[x].missed
              /\ h.seat[x].active <=> x \in Funded(w)
              /\ h.seat[x].chips = IF x \in Funded(w) THEN w.seat[x].chips - Boot
                                                     ELSE w.seat[x].chips
<1> DEFINE dealt == Funded(w)
           seat == [s \in Seats |->
                     IF s \notin Occupied(w) THEN w.seat[s]
                     ELSE [Out(w.seat[s]) EXCEPT
                             !.active = s \in dealt,
                             !.chips = IF s \in dealt THEN @ - Boot ELSE @]]
           pot == Boot * Cardinality(dealt)
           turns == [s \in Seats |-> 0]
<1>1. w.seat \in [Seats -> SeatType] /\ Boot \in Nat
  BY TableAssumption DEF IsTable, TableType
<1>2. ASSUME NEW x \in Seats
      PROVE  /\ seat[x] \in SeatType
             /\ seat[x].user = w.seat[x].user
             /\ seat[x].missed = w.seat[x].missed
             /\ seat[x].active <=> x \in dealt
             /\ seat[x].chips = IF x \in dealt THEN w.seat[x].chips - Boot ELSE w.seat[x].chips
  <2> DEFINE y == Out(w.seat[x])
             c == IF x \in dealt THEN w.seat[x].chips - Boot ELSE w.seat[x].chips
             in == x \in dealt
  <2>1. w.seat[x] \in SeatType /\ w.seat[x].chips \in Nat
    BY <1>1 DEF SeatType
  <2>2. /\ y \in SeatType /\ y.user = w.seat[x].user /\ y.chips = w.seat[x].chips
        /\ ~y.active /\ y.missed = w.seat[x].missed
    BY <2>1, OutIs
  <2>3. c \in Nat /\ in \in BOOLEAN
    BY <1>1, <2>1 DEF Funded
  <2>4. CASE x \in Occupied(w)
    <3>1. seat[x] = [y EXCEPT !.active = in, !.chips = c]
      BY <2>2, <2>4
    <3> HIDE DEF y, c, seat, in
    <3>2. /\ seat[x] \in SeatType
          /\ seat[x].user = y.user /\ (seat[x].active <=> in)
          /\ seat[x].missed = y.missed /\ seat[x].chips = c
      BY <2>2, <2>3, <3>1 DEF SeatType
    <3> QED BY <2>2, <3>2 DEF c, in
  <2>5. CASE x \notin Occupied(w)
    <3>1. seat[x] = w.seat[x] /\ x \notin dealt
      BY <2>5 DEF Funded
    <3> HIDE DEF seat, dealt
    <3> QED BY <2>1, <3>1
  <2> QED BY <2>4, <2>5
<1>3. seat \in [Seats -> SeatType]
  BY <1>2
<1>4. pot \in Nat
  <2>1. dealt \in SUBSET Seats
    BY DEF Funded, Occupied
  <2>2. Cardinality(dealt) \in Nat
    BY <2>1, SeatsAre, FS_Subset, FS_CardinalityType
  <2> QED BY <1>1, <2>2
<1>5. turns \in [Seats -> Nat] /\ \A x \in Seats : turns[x] = 0
  OBVIOUS
<1>6. h = [w EXCEPT !.phase = "betting", !.seat = seat, !.dealer = dealer,
                    !.pot = pot, !.stake = Boot, !.round = 0, !.start = first,
                    !.turns = turns]
  BY DEF Dealt
<1> HIDE DEF seat, pot, turns
<1> DEFINE a == [w EXCEPT !.phase = "betting", !.seat = seat, !.dealer = dealer, !.pot = pot]
           b == [a EXCEPT !.stake = Boot, !.round = 0, !.start = first, !.turns = turns]
<1>7. /\ IsTable(a) /\ a.phase = "betting" /\ a.seat = seat /\ a.pot = pot
      /\ a.late = w.late /\ a.side = w.side /\ a.turn = w.turn
      /\ a.turnClock = w.turnClock /\ a.startClock = w.startClock
  BY <1>3, <1>4 DEF IsTable, TableType
<1>8. h = b
  BY <1>6
<1> HIDE DEF a
<1>9. /\ IsTable(b) /\ b.phase = a.phase /\ b.seat = a.seat /\ b.pot = a.pot
      /\ b.round = 0 /\ b.start = first /\ b.turns = turns
      /\ b.late = a.late /\ b.side = a.side /\ b.turn = a.turn
      /\ b.turnClock = a.turnClock /\ b.startClock = a.startClock
  BY <1>1, <1>5, <1>7 DEF IsTable, TableType
<1> HIDE DEF b
<1>10. h.pot = Boot * Cardinality(Funded(w))
  BY <1>7, <1>8, <1>9 DEF pot
<1> QED BY <1>2, <1>5, <1>7, <1>8, <1>9, <1>10

\* The boots leave the seats for the pot.
LEMMA BootsTaken ==
  ASSUME NEW w, IsTable(w), NEW h, IsTable(h), h.pot = Boot * Cardinality(Funded(w)), w.pot = 0,
         \A x \in Seats :
            h.seat[x].chips = IF x \in Funded(w) THEN w.seat[x].chips - Boot ELSE w.seat[x].chips
  PROVE  /\ Total(h) = Total(w)
         /\ Capped => h.pot <= MaxPot
<1> DEFINE dealt == Funded(w)
           cut == [x \in Seats |-> IF x \in dealt THEN Boot ELSE 0]
<1>1. /\ dealt \in SUBSET Seats /\ IsFiniteSet(dealt) /\ IsFiniteSet(Seats)
      /\ Cardinality(dealt) \in Nat /\ Cardinality(dealt) <= MaxPlayers
  <2>1. dealt \in SUBSET Seats
    BY DEF Funded, Occupied
  <2> HIDE DEF dealt
  <2> QED BY <2>1, SeatsAre, FS_Subset, FS_CardinalityType
<1>2. Boot \in Nat /\ MaxPlayers \in Nat /\ MaxPot \in Nat
  BY TableAssumption
<1>3. \A x \in Seats : w.seat[x].chips \in Int /\ h.seat[x].chips \in Int
  BY SeatNumbers
<1>4. \A x \in Seats : Stacks(h)[x] \in Int /\ cut[x] \in Int
                       /\ Stacks(w)[x] = Stacks(h)[x] + cut[x]
  BY <1>2, <1>3 DEF Stacks
<1>5. SumOver(Stacks(w), Seats) = SumOver(Stacks(h), Seats) + SumOver(cut, Seats)
  <2> HIDE DEF cut
  <2> QED BY <1>1, <1>4, SumPlus
<1>6. SumOver(cut, Seats) = Boot * Cardinality(dealt)
  <2>1. \A x \in dealt : cut[x] = Boot
    BY <1>1
  <2>2. \A x \in Seats : cut[x] \in Int
    BY <1>4
  <2>3. \A x \in Seats \ dealt : cut[x] = 0
    OBVIOUS
  <2> HIDE DEF cut, dealt
  <2>4. SumOver(cut, Seats) = SumOver(cut, dealt)
    BY <1>1, <2>2, <2>3, SumOutside
  <2>5. SumOver(cut, dealt) = Boot * Cardinality(dealt)
    BY <1>1, <1>2, <2>1, SumConstant
  <2> QED BY <2>4, <2>5
<1>7. h.pot = Boot * Cardinality(dealt)
  OBVIOUS
<1> DEFINE a == SumOver(Stacks(w), Seats)
           b == SumOver(Stacks(h), Seats)
           c == SumOver(cut, Seats)
<1>8. a \in Int /\ b \in Int
  <2>1. \A x \in Seats : Stacks(w)[x] \in Int
    BY <1>3 DEF Stacks
  <2> QED BY <1>1, <1>4, <2>1, SumInt
<1>9. c = h.pot /\ c \in Int
  <2>1. Boot * Cardinality(dealt) \in Int
    BY <1>1, <1>2
  <2> QED BY <1>6, <1>7, <2>1
<1>10. Total(h) = Total(w)
  <2>1. Total(h) = b + h.pot /\ Total(w) = a + w.pot
    BY DEF Total
  <2>2. a = b + c
    BY <1>5
  <2> HIDE DEF a, b, c
  <2> QED BY <1>8, <1>9, <2>1, <2>2
<1>11. ASSUME Capped PROVE h.pot <= MaxPot
  <2>1. \A x, y, z \in Nat : y <= z => x * y <= z * x
    OBVIOUS
  <2>2. Boot * Cardinality(dealt) <= MaxPlayers * Boot
    <3> DEFINE n == Cardinality(dealt)
    <3>1. n \in Nat /\ n <= MaxPlayers
      BY <1>1
    <3>2. Boot * n <= MaxPlayers * Boot
      <4> HIDE DEF n
      <4> QED BY <1>2, <2>1, <3>1
    <3> QED BY <3>2
  <2>3. MaxPlayers * Boot = Boot * MaxPlayers
    BY <1>2
  <2> QED BY <1>1, <1>2, <1>7, <1>11, <2>2, <2>3 DEF Capped
<1> QED BY <1>10, <1>11

\* What is dealt is a hand in play.
LEMMA DealtPlays ==
  ASSUME NEW w, Resting(w), ~w.startClock, ~Queued(w, "start"),
         NEW dealer \in Seats, NEW first \in Seats, NEW h, h = Dealt(w, dealer, first)
  PROVE  /\ Playing(h) /\ h.start = first /\ h.round = 0 /\ h.side = {}
         /\ Active(h) = Funded(w) /\ Total(h) = Total(w)
         /\ \A x \in Seats : /\ h.turns[x] = 0
                             /\ h.seat[x].missed = w.seat[x].missed
                             /\ h.seat[x].chips <= w.seat[x].chips
<1>1. /\ IsTable(w) /\ Callbacks(w) /\ Sides(w) /\ Nobodies(w) /\ ~Live(w) /\ w.pot = 0
      /\ \A s \in Seats : ~w.seat[s].active
  BY DEF Resting, Core
<1>2. /\ IsTable(h) /\ h.phase = "betting" /\ h.pot = Boot * Cardinality(Funded(w))
      /\ h.round = 0 /\ h.start = first /\ h.late = w.late /\ h.side = w.side
      /\ h.turn = w.turn /\ h.turnClock = w.turnClock /\ h.startClock = w.startClock
      /\ \A x \in Seats :
              /\ h.turns[x] = 0 /\ h.seat[x].user = w.seat[x].user
              /\ h.seat[x].missed = w.seat[x].missed
              /\ h.seat[x].active <=> x \in Funded(w)
              /\ h.seat[x].chips = IF x \in Funded(w) THEN w.seat[x].chips - Boot
                                                     ELSE w.seat[x].chips
  BY <1>1, DealtIs
<1> HIDE DEF Dealt
<1>3. h.side = {}
  BY <1>1, <1>2 DEF Sides
<1>4. Active(h) = Funded(w)
  <2>1. \A x \in Seats : x \in Active(h) <=> x \in Funded(w)
    BY <1>2 DEF Active, Funded, Occupied
  <2>2. Active(h) \subseteq Seats /\ Funded(w) \subseteq Seats
    BY DEF Active, Funded, Occupied
  <2> QED BY <2>1, <2>2
<1>5. Live(h)
  BY <1>2 DEF Live
<1>6. Callbacks(h)
  <2> SUFFICES ASSUME NEW c \in h.late
      PROVE  /\ c.kind # "turn" => c.seat = NoSeat
             /\ c.current =>
                  /\ c.kind = "turn" => Live(h) /\ c.seat = h.turn /\ ~h.turnClock
                  /\ c.kind = "start" => ~h.startClock
    BY DEF Callbacks
  <2> QED BY <1>1, <1>2 DEF Callbacks
<1>7. Sides(h)
  BY <1>3 DEF Sides
<1>8. Nobodies(h)
  BY <1>1, <1>2 DEF Nobodies, Funded, Occupied
<1>9. ~Queued(h, "start")
  BY <1>2 DEF Queued
<1>10. (Capped => h.pot <= MaxPot) /\ Total(h) = Total(w)
  BY <1>1, <1>2, BootsTaken
<1>11. Playing(h)
  BY <1>2, <1>5, <1>6, <1>7, <1>8, <1>9, <1>10 DEF Playing, Core
<1>12. \A x \in Seats : h.seat[x].chips <= w.seat[x].chips
  <2>1. Boot \in Nat
    BY TableAssumption
  <2>2. \A x \in Seats : w.seat[x].chips \in Nat
    BY <1>1, SeatNumbers
  <2> QED BY <1>2, <2>1, <2>2
<1> QED BY <1>2, <1>3, <1>4, <1>10, <1>11, <1>12

\* A countdown that has run out deals a hand as it should be (startHand).
LEMMA StartHandOK ==
  ASSUME NEW t, Resting(t), ~t.startClock, ~Queued(t, "start"),
         Cardinality(Funded(t)) >= MinPlayers, NEW r, r = StartHand(t)
  PROVE  Outcome(t, r)
<1> DEFINE w == SweepUnfunded(t)
           dealt == Funded(w)
           dealer == NextOf(t.dealer, dealt)
           first == NextOf(dealer, dealt)
           h == Dealt(w, dealer, first)
           yes == TRUE
<1>1. Like(t, w) /\ SameSeats(t, w) /\ IsTable(t) /\ IsTable(w)
  BY SweepIs DEF Resting, Core, Like
<1>2. /\ Resting(w) /\ ~w.startClock /\ ~Queued(w, "start")
      /\ Funded(w) = Funded(t) /\ Total(w) = Total(t)
  <2> HIDE DEF w
  <2>1. /\ Funded(w) = Funded(t) /\ Total(w) = Total(t) /\ (Live(w) <=> Live(t))
        /\ ~Queued(w, "start")
    BY <1>1, LikeSame
  <2>2. Core(w)
    BY <1>1, LikeCore DEF Resting
  <2> QED BY <1>1, <2>1, <2>2 DEF Resting, Like
<1>3. dealt \in SUBSET Seats /\ (\E x, y \in dealt : x # y)
  <2>1. dealt \in SUBSET Seats
    BY DEF Funded, Occupied
  <2>2. Cardinality(dealt) >= MinPlayers /\ MinPlayers \in Nat /\ MinPlayers >= 2
    BY <1>2, TableAssumption
  <2>3. dealt # {}
    BY <2>2, FS_EmptySet
  <2>4. PICK a \in dealt : TRUE
    BY <2>3
  <2>5. Cardinality(dealt) # 1
    BY <2>2
  <2> HIDE DEF dealt
  <2> QED BY <2>1, <2>4, <2>5, TwoOf
<1>4. dealer \in dealt /\ first \in dealt /\ dealer \in Seats /\ first \in Seats
  <2>1. t.dealer \in Int
    <3>1. t.dealer \in Seats \cup {NoSeat}
      BY <1>1 DEF IsTable, TableType
    <3>2. NoSeat \in Int /\ Seats \subseteq Int
      BY SeatsAre DEF NoSeat
    <3> QED BY <3>1, <3>2
  <2> HIDE DEF w, dealt
  <2>2. dealt # {}
    BY <1>3
  <2>3. dealer \in dealt /\ dealer \in Seats
    BY <1>3, <2>1, <2>2, NextOfIs
  <2> HIDE DEF dealer
  <2>4. dealer \in Int
    BY <2>3, SeatsAre
  <2>5. first \in dealt
    BY <1>3, <2>2, <2>4, NextOfIs
  <2> QED BY <1>3, <2>3, <2>5
<1>5. r = SetTurn(h, first, TRUE)
  <2>1. ~(Cardinality(dealt) < MinPlayers)
    <3>1. Cardinality(dealt) \in Nat
      <4> HIDE DEF dealt
      <4> QED BY <1>3, SeatsAre, FS_Subset, FS_CardinalityType
    <3> QED BY <1>2, <3>1, TableAssumption
  <2> QED BY <2>1, Zenon DEF StartHand, Dealt
<1>6. yes \in BOOLEAN /\ r = SetTurn(h, first, yes)
  BY <1>5
<1> HIDE DEF w, dealer, first, h
<1>7. /\ Playing(h) /\ h.start = first /\ h.round = 0 /\ h.side = {}
      /\ Active(h) = Funded(w) /\ Total(h) = Total(w)
      /\ \A x \in Seats : /\ h.turns[x] = 0
                          /\ h.seat[x].missed = w.seat[x].missed
                          /\ h.seat[x].chips <= w.seat[x].chips
  BY <1>2, <1>4, DealtPlays DEF h
<1>8. Counted(h, first, yes)
  <2> SUFFICES ASSUME NEW x \in Active(h)
      PROVE  (IF yes /\ x = first THEN h.turns[x] + 1 ELSE h.turns[x])
               = h.round + (IF Distance(h.start, x) <= Distance(h.start, first) THEN 1 ELSE 0)
    BY DEF Counted
  <2>1. x \in Seats /\ h.turns[x] = 0
    BY <1>7 DEF Active, Occupied
  <2>2. Distance(first, first) = 0 /\ (Distance(first, x) <= 0 <=> x = first)
    <3>1. MaxPlayers \in Nat \ {0} /\ first \in Int /\ x \in Int /\ first < MaxPlayers /\ x >= 0
      BY <1>4, <2>1, TableAssumption DEF Seats
    <3>2. Distance(first, first) = first - first
      BY <1>4, <3>1, DistanceIs
    <3>3. Distance(first, x) = IF x >= first THEN x - first ELSE x - first + MaxPlayers
      BY <1>4, <2>1, DistanceIs
    <3> QED BY <3>1, <3>2, <3>3
  <2> QED BY <1>7, <2>1, <2>2
<1> HIDE DEF yes
<1>9. /\ LiveOK(r) /\ Total(r) = Total(h) /\ SameSeats(h, r)
  <2>1. first \in Active(h) /\ h.start \in Seats /\ (\E x, y \in Active(h) : x # y)
    BY <1>3, <1>4, <1>7
  <2>2. \A p \in h.side : p.from = first \/ p.from \notin Active(h)
    BY <1>7
  <2> QED BY <1>6, <1>7, <1>8, <2>1, <2>2, SetTurnOK
<1>10. IsTable(h)
  BY <1>7 DEF Playing, Core
<1>11. Outcome(h, r)
  BY <1>7, <1>9, <1>10, SameOutcome DEF TabOK
<1>12. Total(h) = Total(t)
  BY <1>2, <1>7
<1>13. \A x \in Seats : h.seat[x].missed <= t.seat[x].missed /\ h.seat[x].chips <= t.seat[x].chips
  <2>1. \A x \in Seats : t.seat[x].missed \in Nat
    BY <1>1, SeatNumbers
  <2> QED BY <1>1, <1>7, <2>1 DEF SameSeats
<1> QED BY <1>1, <1>10, <1>11, <1>12, <1>13, OutcomeAfter

-----------------------------------------------------------------------------
(* Bets and shows *)

\* What a player may bet of what they hold, under the cap.
Affordable(t, s, a) ==
    /\ a \in Nat /\ a > 0 /\ a <= t.seat[s].chips
    /\ Capped => t.pot + a <= MaxPot

\* A rung of the ladder is affordable.
LEMMA RungFits ==
  ASSUME NEW t, IsTable(t), NEW s \in Seats, NEW a \in Rungs(t, s)
  PROVE  Affordable(t, s, a)
<1> DEFINE last == Headroom(t)
           steps == 0 .. (IF MaxRaiseSteps > 0 THEN MaxRaiseSteps - 1 ELSE t.seat[s].chips)
           ladder == {b \in 1 .. t.seat[s].chips :
                        Fits(t, s, b) /\ \E k \in steps : b = UnitBet(t, s) * 2 ^ k}
<1>1. t.seat[s].chips \in Nat /\ t.pot \in Nat /\ MaxPot \in Nat
  BY SeatNumbers, TableAssumption DEF IsTable, TableType
<1>2. Capped => MaxPot > 0
  <2>1. Boot \in Nat \ {0} /\ MaxPlayers \in Nat \ {0} /\ MaxPot \in Nat
    BY TableAssumption
  <2>2. \A x, y \in Nat \ {0} : x * y > 0
    OBVIOUS
  <2> QED BY <2>1, <2>2 DEF Capped
<1>3. CASE a \in ladder
  <2>1. a \in 1 .. t.seat[s].chips /\ Fits(t, s, a)
    BY <1>3, Zenon
  <2> HIDE DEF ladder
  <2> QED BY <1>1, <1>2, <2>1 DEF Affordable, Fits, Headroom
<1>4. CASE a \notin ladder
  <2>1. /\ a = last /\ 0 < last /\ last <= t.seat[s].chips
    BY <1>4, Zenon DEF Rungs
  <2> HIDE DEF ladder
  <2> QED BY <1>1, <2>1 DEF Affordable, Headroom
<1> QED BY <1>3, <1>4

\* The lowest rung is a rung.
LEMMA LowestRung ==
  ASSUME NEW t, IsTable(t), NEW s \in Seats, Rungs(t, s) # {}
  PROVE  Min(Rungs(t, s)) \in Rungs(t, s)
<1> DEFINE R == Rungs(t, s)
           n == t.seat[s].chips
<1>1. n \in Nat
  BY SeatNumbers
<1>2. \A a \in R : a \in 1 .. n
  BY <1>1, RungFits DEF Affordable
<1> HIDE DEF R, n
<1>3. IsFiniteSet(1 .. n)
  BY <1>1, FS_Interval
<1>4. R \subseteq 1 .. n /\ R \in SUBSET Int
  BY <1>1, <1>2
<1>5. IsFiniteSet(R)
  BY <1>3, <1>4, FS_Subset
<1>6. R # {}
  BY DEF R
<1> QED BY <1>4, <1>5, <1>6, MinIs DEF R

\* Chips of a seat that stays in the hand go to the pot.
LEMMA PaidIs ==
  ASSUME NEW t, Playing(t), NEW s \in Active(t), NEW a, Affordable(t, s, a),
         NEW q, NEW x, SeatBecomes(t, q, s, x), x.active,
         x.chips = t.seat[s].chips - a, x.missed = t.seat[s].missed,
         NEW r, IsTable(r), r.seat = q.seat, r.pot = t.pot + a,
         r.phase = q.phase, r.round = q.round, r.turn = q.turn, r.start = q.start,
         r.side = q.side, r.turnClock = q.turnClock, r.sideClock = q.sideClock,
         r.startClock = q.startClock, r.late = q.late, r.turns = q.turns
  PROVE  /\ Playing(r) /\ (Mid(t) => Mid(r))
         /\ r.turn = t.turn /\ r.side = t.side /\ Active(r) = Active(t)
         /\ Total(r) = Total(t)
         /\ \A y \in Seats : /\ r.seat[y].missed <= t.seat[y].missed
                             /\ r.seat[y].chips <= t.seat[y].chips
<1>1. Playing(q) /\ (Mid(t) => Mid(q))
  BY SeatBecomesPlaying
<1>2. /\ IsTable(t) /\ IsTable(q) /\ q.turn = t.turn /\ q.side = t.side /\ q.pot = t.pot
      /\ s \in Seats /\ q.seat[s] = x /\ \A y \in Seats \ {s} : q.seat[y] = t.seat[y]
  BY DEF SeatBecomes
<1>3. Active(q) = Active(t)
  <2>1. Active(q) \subseteq Active(t) /\ \A y \in Active(t) : y \in Active(q)
    BY SeatBecomesActive
  <2> QED BY <2>1
<1>4. Total(q) = Total(t) - t.seat[s].chips + x.chips /\ Total(t) \in Int
  BY SeatBecomesTotal
<1>5. /\ a \in Nat /\ t.pot \in Nat /\ MaxPot \in Nat /\ (Capped => r.pot <= MaxPot)
      /\ t.seat[s].chips \in Nat
  BY <1>2, SeatNumbers, TableAssumption DEF Affordable, IsTable, TableType
<1>6. Active(r) = Active(q) /\ (Live(r) <=> Live(q)) /\ (\A k : Queued(r, k) <=> Queued(q, k))
      /\ Stacks(r) = Stacks(q)
  BY DEF Active, Occupied, Live, Queued, Stacks
<1>7. Callbacks(r)
  BY <1>1, <1>6 DEF Playing, Core, Callbacks
<1>8. Sides(r)
  BY <1>1, <1>6 DEF Playing, Core, Sides
<1>9. Nobodies(r)
  BY <1>1 DEF Playing, Core, Nobodies
<1>10. Playing(r)
  BY <1>1, <1>5, <1>6, <1>7, <1>8, <1>9 DEF Playing, Core
<1>11. Mid(q) => Mid(r)
  <2>1. Fair(q) => Fair(r)
    BY <1>6 DEF Fair
  <2> QED BY <1>10, <2>1 DEF Mid
<1>12. Total(r) = Total(t)
  <2> DEFINE z == SumOver(Stacks(q), Seats)
  <2>1. Total(q) = z + t.pot /\ Total(r) = z + (t.pot + a)
    BY <1>2, <1>6 DEF Total
  <2>2. z \in Int
    <3>1. \A y \in Seats : Stacks(q)[y] \in Int
      BY <1>2, SeatNumbers DEF Stacks
    <3> QED BY <3>1, SeatsAre, SumInt
  <2> HIDE DEF z
  <2> QED BY <1>4, <1>5, <2>1, <2>2
<1>13. ASSUME NEW y \in Seats
       PROVE  r.seat[y].missed <= t.seat[y].missed /\ r.seat[y].chips <= t.seat[y].chips
  <2>1. t.seat[y].missed \in Nat /\ t.seat[y].chips \in Nat
    BY <1>2, SeatNumbers
  <2>2. CASE y = s
    BY <1>2, <1>5, <2>1, <2>2
  <2>3. CASE y # s
    BY <1>2, <2>1, <2>3
  <2> QED BY <2>2, <2>3
<1> QED BY <1>1, <1>2, <1>3, <1>6, <1>10, <1>11, <1>12, <1>13

\* A charge is chips for the pot (chargeToPot).
LEMMA ChargeOK ==
  ASSUME NEW t, Playing(t), NEW s \in Active(t), NEW a, Affordable(t, s, a),
         NEW r, r = Charge(t, s, a)
  PROVE  /\ Playing(r) /\ (Mid(t) => Mid(r))
         /\ r.turn = t.turn /\ r.side = t.side /\ Active(r) = Active(t)
         /\ Total(r) = Total(t)
         /\ \A y \in Seats : /\ r.seat[y].missed <= t.seat[y].missed
                             /\ r.seat[y].chips <= t.seat[y].chips
<1> DEFINE c == t.seat[s].chips - a
           x == [t.seat[s] EXCEPT !.chips = c]
           q == [t EXCEPT !.seat[s] = x]
           pot == t.pot + a
<1>1. /\ IsTable(t) /\ s \in Seats /\ t.seat[s] \in SeatType /\ t.pot \in Nat
      /\ t.seat[s].active /\ t.seat[s].user # None /\ t.seat[s].chips \in Nat
  BY SeatNumbers DEF Playing, Core, Active, Occupied, IsTable, TableType
<1>2. c \in Nat /\ pot \in Nat
  BY <1>1 DEF Affordable
<1>3. q.pot = t.pot
  OBVIOUS
<1>4. r = [q EXCEPT !.pot = pot]
  BY DEF Charge
<1> HIDE DEF c, pot
<1>5. /\ x \in SeatType /\ x.active /\ x.user # None /\ x.chips = c
      /\ x.missed = t.seat[s].missed
  BY <1>1, <1>2 DEF SeatType
<1> HIDE DEF x
<1>6. SeatBecomes(t, q, s, x)
  BY <1>1, <1>5, SeatBecomesIs
<1>7. IsTable(q)
  BY <1>6 DEF SeatBecomes
<1> HIDE DEF q
<1>8. /\ IsTable(r) /\ r.seat = q.seat /\ r.pot = pot
      /\ r.phase = q.phase /\ r.round = q.round /\ r.turn = q.turn /\ r.start = q.start
      /\ r.side = q.side /\ r.turnClock = q.turnClock /\ r.sideClock = q.sideClock
      /\ r.startClock = q.startClock /\ r.late = q.late /\ r.turns = q.turns
  BY <1>2, <1>4, <1>7 DEF IsTable, TableType
<1>9. x.chips = t.seat[s].chips - a /\ r.pot = t.pot + a
  BY <1>5, <1>8 DEF c, pot
<1> QED BY <1>5, <1>6, <1>8, <1>9, PaidIs

\* A bet, once the rung is known.
LEMMA BetOK ==
  ASSUME NEW t, Hand(t), t.side = {}, NEW s, s = t.turn, NEW a, Affordable(t, s, a),
         NEW r \in Bet(t, s, a)
  PROVE  Outcome(t, r)
<1> DEFINE blind == t.seat[s].blind
           moves == t.seat[s].moves + 1
           last == MaxBlindMoves > 0 /\ moves >= MaxBlindMoves
           c == t.seat[s].chips - a
           m == IF blind THEN moves ELSE t.seat[s].moves
           b == blind /\ ~last
           k == IF blind THEN a ELSE a \div 2
           pot == t.pot + a
           v == [t.seat[s] EXCEPT !.chips = c, !.moves = m]
           x == [v EXCEPT !.blind = b]
           q == [t EXCEPT !.seat[s] = x]
           paid == [q EXCEPT !.pot = pot, !.stake = k]
           d == ClearTurnTimer(paid)
<1>1. /\ Mid(t) /\ Playing(t) /\ s \in Active(t) /\ (\E y, z \in Active(t) : y # z)
  BY DEF Hand, Mid
<1>2. /\ IsTable(t) /\ s \in Seats /\ t.seat[s] \in SeatType /\ t.pot \in Nat
      /\ t.seat[s].active /\ t.seat[s].user # None /\ t.seat[s].chips \in Nat
  BY <1>1, SeatNumbers DEF Playing, Core, Active, Occupied, IsTable, TableType
<1>3. c \in Nat /\ pot \in Nat /\ m \in Nat /\ b \in BOOLEAN /\ k \in Nat
  <2>1. t.seat[s].moves \in Nat /\ blind \in BOOLEAN /\ a \in Nat /\ a <= t.seat[s].chips
    BY <1>2 DEF SeatType, Affordable
  <2>2. \A n \in Nat : n \div 2 \in Nat
    OBVIOUS
  <2>3. c \in Nat /\ pot \in Nat
    BY <1>2, <2>1
  <2>4. m \in Nat
    BY <2>1
  <2>5. b \in BOOLEAN
    OBVIOUS
  <2>6. k \in Nat
    <3>1. a \div 2 \in Nat
      BY <2>1, <2>2
    <3> QED BY <2>1, <3>1
  <2> QED BY <2>3, <2>4, <2>5, <2>6
<1>4. r \in AdvanceTurn(d, s)
  <2>1. [t EXCEPT !.seat[s] = x, !.pot = t.pot + a,
                  !.stake = IF blind THEN a ELSE a \div 2] = paid
    OBVIOUS
  <2> QED BY <2>1, Zenon DEF Bet
<1> HIDE DEF c, m, b, k, pot
<1>5. /\ x \in SeatType /\ x.active /\ x.user # None /\ x.chips = c
      /\ x.missed = t.seat[s].missed
  <2>1. /\ v \in SeatType /\ v.active /\ v.user # None /\ v.chips = c
        /\ v.missed = t.seat[s].missed
    BY <1>2, <1>3 DEF SeatType
  <2> HIDE DEF v
  <2> QED BY <1>3, <2>1 DEF SeatType
<1> HIDE DEF x
<1>6. SeatBecomes(t, q, s, x)
  BY <1>1, <1>2, <1>5, SeatBecomesIs
<1>7. IsTable(q)
  BY <1>6 DEF SeatBecomes
<1> HIDE DEF q
<1>8. /\ IsTable(paid) /\ paid.seat = q.seat /\ paid.pot = pot
      /\ paid.phase = q.phase /\ paid.round = q.round /\ paid.turn = q.turn
      /\ paid.start = q.start /\ paid.side = q.side /\ paid.turnClock = q.turnClock
      /\ paid.sideClock = q.sideClock /\ paid.startClock = q.startClock
      /\ paid.late = q.late /\ paid.turns = q.turns
  BY <1>3, <1>7 DEF IsTable, TableType
<1>9. x.chips = t.seat[s].chips - a /\ paid.pot = t.pot + a
  BY <1>5, <1>8 DEF c, pot
<1> HIDE DEF paid
<1>10. /\ Playing(paid) /\ Mid(paid) /\ paid.turn = t.turn /\ paid.side = t.side
       /\ Active(paid) = Active(t) /\ Total(paid) = Total(t)
       /\ \A y \in Seats : /\ paid.seat[y].missed <= t.seat[y].missed
                           /\ paid.seat[y].chips <= t.seat[y].chips
  BY <1>1, <1>5, <1>6, <1>8, <1>9, PaidIs
<1>11. /\ Playing(d) /\ Mid(d) /\ d.turn = t.turn /\ d.side = {} /\ d.seat = paid.seat
       /\ Active(d) = Active(t) /\ Total(d) = Total(t)
  BY <1>10, ClearIs
<1> HIDE DEF d
<1>12. Outcome(d, r)
  <2>1. r \in AdvanceTurn(d, d.turn)
    BY <1>4, <1>11
  <2>2. \E y, z \in Active(d) : y # z
    BY <1>1, <1>11
  <2>3. \A p \in d.side : p.from \notin Active(d)
    BY <1>11
  <2> QED BY <1>11, <2>1, <2>2, <2>3, AdvanceOK
<1>13. IsTable(d)
  BY <1>11 DEF Playing, Core
<1> QED BY <1>2, <1>10, <1>11, <1>12, <1>13, OutcomeAfter

-----------------------------------------------------------------------------
(* What a step must keep *)

Good(t, p, b) == TabOK(t) /\ p \in [Users -> Nat] /\ b \in Nat
Worth(t, p, b) == Total(t) + SumOver(p, Users) + b

\* The two action properties, of one table and the next.
Lawful(t, r) ==
    /\ Capped /\ Live(t) =>
         \A s \in Occupied(t) :
            r.seat[s].user = t.seat[s].user => r.seat[s].chips - t.seat[s].chips <= MaxPot
    /\ \A s \in Seats : r.seat[s].missed > t.seat[s].missed => ~t.turnClock /\ t.turn = s

StepOK ==
    /\ Good(tb', purse', bank')
    /\ Worth(tb', purse', bank') = Worth(tb, purse, bank)
    /\ Lawful(tb, tb')

\* An outcome within bounds breaks neither action property.
LEMMA BoundedLawful ==
  ASSUME NEW t, IsTable(t), NEW r, IsTable(r), Bounded(t, r)
  PROVE  Lawful(t, r)
<1>1. /\ MaxPot \in Nat
      /\ \A s \in Seats : /\ t.seat[s].chips \in Nat /\ r.seat[s].chips \in Nat
                          /\ t.seat[s].missed \in Nat /\ r.seat[s].missed \in Nat
  BY SeatNumbers, TableAssumption
<1>2. \A s \in Seats : ~(r.seat[s].missed > t.seat[s].missed)
  BY <1>1 DEF Bounded
<1>3. ASSUME Capped PROVE \A s \in Occupied(t) : r.seat[s].chips - t.seat[s].chips <= MaxPot
  BY <1>1, <1>3 DEF Bounded, Occupied
<1> QED BY <1>2, <1>3 DEF Lawful

\* A move whose outcome is right is a step that keeps everything.
LEMMA MovedOK ==
  ASSUME Good(tb, purse, bank), Outcome(tb, tb'), UNCHANGED <<purse, bank>>
  PROVE  StepOK
<1>1. IsTable(tb) /\ IsTable(tb')
  BY OutcomeTable DEF Good, Outcome
<1>2. Lawful(tb, tb')
  BY <1>1, BoundedLawful DEF Outcome
<1>3. purse' = purse /\ bank' = bank /\ Total(tb') = Total(tb) /\ TabOK(tb')
  BY DEF Outcome
<1> QED BY <1>2, <1>3 DEF StepOK, Good, Worth

\* The move comes after something that left the table as good.
LEMMA MovedAfter ==
  ASSUME Good(tb, purse, bank), NEW m, IsTable(m), Total(m) = Total(tb), Outcome(m, tb'),
         \A x \in Seats : m.seat[x].missed <= tb.seat[x].missed
                          /\ m.seat[x].chips <= tb.seat[x].chips,
         UNCHANGED <<purse, bank>>
  PROVE  StepOK
<1>1. IsTable(tb)
  BY OutcomeTable DEF Good
<1>2. Outcome(tb, tb')
  BY <1>1, OutcomeAfter
<1> QED BY <1>2, MovedOK

\* A move that leaves the table as it was in all that counts.
LEMMA MovedLike ==
  ASSUME Good(tb, purse, bank), Like(tb, tb'),
         \A x \in Seats : tb'.seat[x].missed <= tb.seat[x].missed,
         UNCHANGED <<purse, bank>>
  PROVE  StepOK
<1>1. IsTable(tb) /\ IsTable(tb')
  BY OutcomeTable DEF Good, Like
<1>2. TabOK(tb') /\ Total(tb') = Total(tb)
  BY LikeOK, LikeSame DEF Good, TabOK
<1>3. Bounded(tb, tb')
  <2>1. MaxPot \in Nat /\ \A s \in Seats : tb.seat[s].chips \in Nat
    BY <1>1, SeatNumbers, TableAssumption
  <2> QED BY <2>1 DEF Bounded, Like
<1> QED BY <1>2, <1>3, MovedOK DEF Outcome

-----------------------------------------------------------------------------
(* What comes before a move *)

\* A player marked present has only lost missed turns.
LEMMA PresentIs ==
  ASSUME NEW t, IsTable(t), Nobodies(t), NEW s \in Seats, NEW q, q = Present(t, s)
  PROVE  /\ IsTable(q) /\ Total(q) = Total(t) /\ Active(q) = Active(t)
         /\ (LiveOK(t) => LiveOK(q)) /\ (Hand(t) => Hand(q))
         /\ q.turn = t.turn /\ q.side = t.side /\ q.pot = t.pot /\ q.turnClock = t.turnClock
         /\ \A x \in Seats : /\ q.seat[x].missed <= t.seat[x].missed
                             /\ q.seat[x].chips = t.seat[x].chips
<1> DEFINE x == [t.seat[s] EXCEPT !.missed = 0]
<1>1. t.seat[s] \in SeatType /\ MaxMissedTurns \in Nat
  BY TableAssumption DEF IsTable, TableType
<1>2. /\ x \in SeatType /\ x.missed = 0 /\ x.chips = t.seat[s].chips
      /\ (x.active <=> t.seat[s].active) /\ x.user = t.seat[s].user
  BY <1>1 DEF SeatType
<1>3. q = [t EXCEPT !.seat[s] = x]
  BY DEF Present
<1> HIDE DEF x
<1>4. /\ x.active => s \in Active(t) /\ x.user # None
      /\ x.user = None => x.chips = 0
  BY <1>2 DEF Nobodies, Active, Occupied
<1>5. SeatBecomes(t, q, s, x)
  BY <1>2, <1>3, <1>4, SeatBecomesIs
<1>6. x.active \/ s \notin Active(t)
  BY <1>2 DEF Active
<1>7. (Hand(t) => Hand(q)) /\ (LiveOK(t) => LiveOK(q))
  BY <1>5, <1>6, SeatBecomesLive
<1>8. Active(q) = Active(t)
  BY <1>5, <1>6, SeatBecomesActive
<1>9. Total(q) = Total(t)
  <2>1. Total(q) = Total(t) - t.seat[s].chips + x.chips /\ Total(t) \in Int
    BY <1>5, SeatBecomesTotal
  <2>2. t.seat[s].chips \in Nat
    BY SeatNumbers
  <2> QED BY <1>2, <2>1, <2>2
<1>10. \A y \in Seats : q.seat[y].missed <= t.seat[y].missed /\ q.seat[y].chips = t.seat[y].chips
  <2>1. \A y \in Seats : t.seat[y].missed \in Nat
    BY SeatNumbers
  <2> QED BY <1>2, <1>5, <2>1 DEF SeatBecomes
<1> QED BY <1>5, <1>7, <1>8, <1>9, <1>10 DEF SeatBecomes

\* A player whose turn it is, who has been marked present.
LEMMA OnTurnIs ==
  ASSUME Good(tb, purse, bank), NEW s \in Seats, OnTurn(s), NEW q, q = Present(tb, s)
  PROVE  /\ LiveOK(tb) /\ IsTable(tb) /\ tb.turn = s /\ s \in Active(tb) /\ tb.side = {}
         /\ LiveOK(q) /\ Hand(q) /\ Playing(q) /\ IsTable(q) /\ q.turn = s /\ q.side = {}
         /\ s \in Active(q) /\ Active(q) = Active(tb) /\ Total(q) = Total(tb) /\ q.pot = tb.pot
         /\ \A x \in Seats : /\ q.seat[x].missed <= tb.seat[x].missed
                             /\ q.seat[x].chips = tb.seat[x].chips
                             /\ q.seat[x].chips <= tb.seat[x].chips
<1>1. Live(tb) /\ tb.turn = s /\ tb.side = {}
  BY DEF OnTurn
<1>2. LiveOK(tb)
  BY <1>1 DEF Good, TabOK, RestOK, Idle
<1>3. IsTable(tb) /\ Nobodies(tb) /\ s \in Active(tb)
  BY <1>1, <1>2 DEF LiveOK, Hand, Mid, Playing, Core
<1>4. /\ IsTable(q) /\ Total(q) = Total(tb) /\ Active(q) = Active(tb) /\ LiveOK(q)
      /\ q.turn = tb.turn /\ q.side = tb.side /\ q.pot = tb.pot
      /\ \A x \in Seats : /\ q.seat[x].missed <= tb.seat[x].missed
                          /\ q.seat[x].chips = tb.seat[x].chips
  BY <1>2, <1>3, PresentIs
<1>5. Hand(q) /\ Playing(q)
  BY <1>4 DEF LiveOK, Hand, Mid
<1>6. \A x \in Seats : q.seat[x].chips <= tb.seat[x].chips
  <2>1. \A x \in Seats : tb.seat[x].chips \in Nat
    BY <1>3, SeatNumbers
  <2> QED BY <1>4, <2>1
<1> QED BY <1>1, <1>2, <1>3, <1>4, <1>5, <1>6

\* A rung is affordable on any table with the same pot and stack.
LEMMA RungStands ==
  ASSUME NEW t, IsTable(t), NEW s \in Seats, NEW a \in Rungs(t, s), NEW q,
         q.pot = t.pot, q.seat[s].chips = t.seat[s].chips
  PROVE  Affordable(q, s, a)
BY RungFits DEF Affordable

-----------------------------------------------------------------------------
(* A callback taken from the mailbox *)

\* A callback taken from the mailbox: nothing else changes.
LEMMA TakenIs ==
  ASSUME NEW t, IsTable(t), NEW c \in t.late, NEW r, r = [t EXCEPT !.late = @ \ {c}]
  PROVE  /\ IsTable(r) /\ r.late = t.late \ {c}
         /\ r.phase = t.phase /\ r.seat = t.seat /\ r.pot = t.pot /\ r.round = t.round
         /\ r.turn = t.turn /\ r.start = t.start /\ r.side = t.side
         /\ r.turnClock = t.turnClock /\ r.sideClock = t.sideClock
         /\ r.startClock = t.startClock /\ r.turns = t.turns
         /\ Active(r) = Active(t) /\ Funded(r) = Funded(t) /\ (Live(r) <=> Live(t))
         /\ Total(r) = Total(t)
         /\ \A k : Queued(r, k) => Queued(t, k)
         /\ \A k : Queued(t, k) /\ (~c.current \/ c.kind # k) => Queued(r, k)
         /\ Callbacks(t) => Callbacks(r)
         /\ Nobodies(t) => Nobodies(r)
<1> DEFINE late == t.late \ {c}
<1>1. late \in SUBSET CallbackType
  BY DEF IsTable, TableType
<1> HIDE DEF late
<1>2. r = [t EXCEPT !.late = late]
  BY DEF late
<1>3. /\ IsTable(r) /\ r.late = late
      /\ r.phase = t.phase /\ r.seat = t.seat /\ r.pot = t.pot /\ r.round = t.round
      /\ r.turn = t.turn /\ r.start = t.start /\ r.side = t.side
      /\ r.turnClock = t.turnClock /\ r.sideClock = t.sideClock
      /\ r.startClock = t.startClock /\ r.turns = t.turns
  BY <1>1, <1>2 DEF IsTable, TableType
<1>4. /\ Active(r) = Active(t) /\ Funded(r) = Funded(t) /\ (Live(r) <=> Live(t))
      /\ Total(r) = Total(t)
  BY <1>3 DEF Active, Funded, Occupied, Live, Total, Stacks
<1>5. r.late = t.late \ {c}
  BY <1>3 DEF late
<1>6. \A k : Queued(r, k) => Queued(t, k)
  BY <1>5 DEF Queued
<1>7. \A k : Queued(t, k) /\ (~c.current \/ c.kind # k) => Queued(r, k)
  BY <1>5 DEF Queued
<1>8. Callbacks(t) => Callbacks(r)
  BY <1>3, <1>4, <1>5 DEF Callbacks
<1>9. Nobodies(t) => Nobodies(r)
  BY <1>3 DEF Nobodies
<1> QED BY <1>3, <1>4, <1>5, <1>6, <1>7, <1>8, <1>9

\* A callback that no longer counts changes nothing.
LEMMA StaleTaken ==
  ASSUME NEW t, TabOK(t), NEW c \in t.late, ~c.current \/ (c.kind = "side" /\ t.side = {}),
         NEW r, r = [t EXCEPT !.late = @ \ {c}]
  PROVE  Outcome(t, r)
<1>1. IsTable(t)
  BY OutcomeTable
<1>2. /\ IsTable(r)
      /\ r.phase = t.phase /\ r.seat = t.seat /\ r.pot = t.pot /\ r.round = t.round
      /\ r.turn = t.turn /\ r.start = t.start /\ r.side = t.side
      /\ r.turnClock = t.turnClock /\ r.sideClock = t.sideClock
      /\ r.startClock = t.startClock /\ r.turns = t.turns
      /\ Active(r) = Active(t) /\ Funded(r) = Funded(t) /\ (Live(r) <=> Live(t))
      /\ Total(r) = Total(t)
      /\ \A k : Queued(r, k) => Queued(t, k)
      /\ \A k : Queued(t, k) /\ (~c.current \/ c.kind # k) => Queued(r, k)
      /\ Callbacks(t) => Callbacks(r)
      /\ Nobodies(t) => Nobodies(r)
  BY <1>1, TakenIs
<1>3. (Queued(t, "start") <=> Queued(r, "start")) /\ (Queued(t, "turn") => Queued(r, "turn"))
  BY <1>2
<1>4. Sides(t) => Sides(r)
  <2>1. t.side # {} /\ Queued(t, "side") => Queued(r, "side")
    BY <1>2
  <2> QED BY <1>2, <2>1 DEF Sides
<1>5. Core(t) => Core(r)
  BY <1>2, <1>4 DEF Core
<1>6. LiveOK(t) => LiveOK(r)
  <2>1. Goes(t) => Goes(r)
    BY <1>2, <1>3 DEF Goes
  <2>2. Fair(t) => Fair(r)
    BY <1>2 DEF Fair
  <2>3. Playing(t) => Playing(r)
    BY <1>2, <1>3, <1>5 DEF Playing
  <2> QED BY <1>2, <2>1, <2>2, <2>3 DEF LiveOK, Hand, Mid
<1>7. RestOK(t) => RestOK(r)
  BY <1>2, <1>3, <1>5 DEF RestOK, Idle
<1>8. TabOK(r)
  BY <1>6, <1>7 DEF TabOK
<1>9. SameSeats(t, r)
  BY <1>2 DEF SameSeats
<1> QED BY <1>1, <1>2, <1>8, <1>9, SameOutcome

\* The timeout of the turn taken from the mailbox: the hand still stands.
LEMMA TakenHand ==
  ASSUME NEW t, LiveOK(t), NEW c \in t.late, c.current, c.kind = "turn",
         NEW r, r = [t EXCEPT !.late = @ \ {c}]
  PROVE  /\ Hand(r) /\ r.turn = t.turn /\ r.turn \in Active(r) /\ r.seat = t.seat
         /\ Total(r) = Total(t) /\ ~t.turnClock /\ c.seat = t.turn
<1>1. /\ IsTable(t) /\ Callbacks(t) /\ Sides(t) /\ Nobodies(t) /\ Playing(t) /\ Mid(t)
      /\ Hand(t) /\ ~Queued(t, "start") /\ Live(t)
  BY DEF LiveOK, Hand, Mid, Playing, Core
<1>2. /\ IsTable(r)
      /\ r.phase = t.phase /\ r.seat = t.seat /\ r.pot = t.pot /\ r.round = t.round
      /\ r.turn = t.turn /\ r.start = t.start /\ r.side = t.side
      /\ r.turnClock = t.turnClock /\ r.sideClock = t.sideClock
      /\ r.startClock = t.startClock /\ r.turns = t.turns
      /\ Active(r) = Active(t) /\ Funded(r) = Funded(t) /\ (Live(r) <=> Live(t))
      /\ Total(r) = Total(t)
      /\ \A k : Queued(r, k) => Queued(t, k)
      /\ \A k : Queued(t, k) /\ (~c.current \/ c.kind # k) => Queued(r, k)
      /\ Callbacks(t) => Callbacks(r)
      /\ Nobodies(t) => Nobodies(r)
  BY <1>1, TakenIs
<1>3. Sides(r)
  <2>1. Queued(t, "side") => Queued(r, "side")
    BY <1>2
  <2> QED BY <1>1, <1>2, <2>1 DEF Sides
<1>4. Core(r)
  BY <1>1, <1>2, <1>3 DEF Core
<1>5. Playing(r)
  BY <1>1, <1>2, <1>4 DEF Playing
<1>6. Fair(r)
  BY <1>1, <1>2 DEF Fair, Mid
<1>7. Hand(r)
  BY <1>1, <1>2, <1>5, <1>6 DEF Hand, Mid
<1>8. ~t.turnClock /\ c.seat = t.turn
  BY <1>1 DEF Callbacks
<1> QED BY <1>2, <1>7, <1>8 DEF Hand

-----------------------------------------------------------------------------
(* One lemma per action *)

\* See.
LEMMA SeeOK ==
  ASSUME Good(tb, purse, bank), NEW s \in Seats, See(s)
  PROVE  StepOK
<1> DEFINE x == [tb.seat[s] EXCEPT !.blind = FALSE]
           seat == [tb.seat EXCEPT ![s] = x]
<1>1. IsTable(tb)
  BY OutcomeTable DEF Good
<1>2. tb.seat \in [Seats -> SeatType]
  BY <1>1 DEF IsTable, TableType
<1>3. /\ x \in SeatType /\ x.user = tb.seat[s].user /\ x.chips = tb.seat[s].chips
      /\ x.active = tb.seat[s].active /\ x.missed = tb.seat[s].missed
  BY <1>2 DEF SeatType
<1>4. tb' = [tb EXCEPT !.seat = seat] /\ UNCHANGED <<purse, bank>>
  BY DEF See, Moved
<1> HIDE DEF x
<1>5. /\ seat \in [Seats -> SeatType] /\ seat[s] = x
      /\ \A y \in Seats \ {s} : seat[y] = tb.seat[y]
  BY <1>2, <1>3
<1> HIDE DEF seat
<1>6. /\ IsTable(tb') /\ tb'.seat = seat
      /\ tb'.phase = tb.phase /\ tb'.pot = tb.pot /\ tb'.round = tb.round
      /\ tb'.turn = tb.turn /\ tb'.start = tb.start /\ tb'.side = tb.side
      /\ tb'.turnClock = tb.turnClock /\ tb'.sideClock = tb.sideClock
      /\ tb'.startClock = tb.startClock /\ tb'.late = tb.late /\ tb'.turns = tb.turns
  BY <1>1, <1>4, <1>5 DEF IsTable, TableType
<1>7. \A y \in Seats : /\ seat[y].user = tb.seat[y].user /\ seat[y].chips = tb.seat[y].chips
                       /\ seat[y].active = tb.seat[y].active
                       /\ seat[y].missed = tb.seat[y].missed
  BY <1>3, <1>5
<1>8. Like(tb, tb')
  BY <1>6, <1>7 DEF Like
<1>9. \A y \in Seats : tb'.seat[y].missed <= tb.seat[y].missed
  <2>1. \A y \in Seats : tb.seat[y].missed \in Nat
    BY <1>1, SeatNumbers
  <2> QED BY <1>6, <1>7, <2>1
<1> QED BY <1>4, <1>8, <1>9, MovedLike

\* PlaceBet.
LEMMA PlaceBetOK ==
  ASSUME Good(tb, purse, bank), NEW s \in Seats, PlaceBet(s)
  PROVE  StepOK
<1> DEFINE q == Present(tb, s)
<1>1. OnTurn(s) /\ UNCHANGED <<purse, bank>>
  BY DEF PlaceBet, Moved
<1>2. PICK a \in Rungs(tb, s) : tb' \in Bet(q, s, a)
  BY DEF PlaceBet, Moved
<1>3. /\ IsTable(tb) /\ Hand(q) /\ IsTable(q) /\ q.turn = s /\ q.side = {}
      /\ Total(q) = Total(tb) /\ q.pot = tb.pot
      /\ \A x \in Seats : /\ q.seat[x].missed <= tb.seat[x].missed
                          /\ q.seat[x].chips = tb.seat[x].chips
                          /\ q.seat[x].chips <= tb.seat[x].chips
  BY <1>1, OnTurnIs
<1> HIDE DEF q
<1>4. Affordable(q, s, a)
  BY <1>2, <1>3, RungStands
<1>5. Outcome(q, tb')
  BY <1>2, <1>3, <1>4, BetOK
<1> QED BY <1>1, <1>3, <1>5, MovedAfter

\* PackMove.
LEMMA PackMoveOK ==
  ASSUME Good(tb, purse, bank), NEW s \in Seats, PackMove(s)
  PROVE  StepOK
<1> DEFINE q == Present(tb, s)
<1>1. OnTurn(s) /\ UNCHANGED <<purse, bank>> /\ tb' \in Pack(q, s, TRUE)
  BY Zenon DEF PackMove, Moved
<1>3. /\ Hand(q) /\ IsTable(q) /\ q.turn = s /\ Total(q) = Total(tb)
      /\ \A x \in Seats : /\ q.seat[x].missed <= tb.seat[x].missed
                          /\ q.seat[x].chips <= tb.seat[x].chips
  BY <1>1, OnTurnIs
<1> HIDE DEF q
<1>4. Outcome(q, tb')
  BY <1>1, <1>3, PackOK, Zenon
<1> QED BY <1>1, <1>3, <1>4, MovedAfter

\* Show.
LEMMA ShowOK ==
  ASSUME Good(tb, purse, bank), NEW s \in Seats, Show(s)
  PROVE  StepOK
<1> DEFINE q == Present(tb, s)
           a == Min(Rungs(tb, s))
           c == Charge(q, s, a)
           d == ClearTurnTimer(c)
<1>1. OnTurn(s) /\ UNCHANGED <<purse, bank>> /\ tb' \in Showdown(d) /\ Rungs(tb, s) # {}
  BY DEF Show, Moved
<1>3. /\ IsTable(tb) /\ Playing(q) /\ IsTable(q) /\ s \in Active(q)
      /\ Total(q) = Total(tb) /\ q.pot = tb.pot
      /\ \A x \in Seats : /\ q.seat[x].missed <= tb.seat[x].missed
                          /\ q.seat[x].chips = tb.seat[x].chips
  BY <1>1, OnTurnIs
<1> HIDE DEF q
<1>4. a \in Rungs(tb, s)
  BY <1>1, <1>3, LowestRung
<1> HIDE DEF a
<1>5. Affordable(q, s, a)
  BY <1>3, <1>4, RungStands
<1>6. /\ Playing(c) /\ Total(c) = Total(q)
      /\ \A y \in Seats : c.seat[y].missed <= q.seat[y].missed
                          /\ c.seat[y].chips <= q.seat[y].chips
  BY <1>3, <1>5, ChargeOK
<1> HIDE DEF c
<1>7. Playing(d) /\ Total(d) = Total(c) /\ d.seat = c.seat
  BY <1>6, ClearIs
<1> HIDE DEF d
<1>8. Outcome(d, tb')
  BY <1>1, <1>7, ShowdownOK
<1>9. IsTable(d) /\ IsTable(c)
  BY <1>6, <1>7 DEF Playing, Core
<1>10. ASSUME NEW x \in Seats
       PROVE  d.seat[x].missed <= tb.seat[x].missed /\ d.seat[x].chips <= tb.seat[x].chips
  <2>1. /\ c.seat[x].missed \in Nat /\ q.seat[x].missed \in Nat /\ tb.seat[x].missed \in Nat
        /\ c.seat[x].chips \in Nat /\ q.seat[x].chips \in Nat /\ tb.seat[x].chips \in Nat
    BY <1>3, <1>9, SeatNumbers
  <2> QED BY <1>3, <1>6, <1>7, <2>1
<1>11. Total(d) = Total(tb)
  BY <1>3, <1>6, <1>7
<1> QED BY <1>1, <1>8, <1>9, <1>10, <1>11, MovedAfter

\* FireMissile.
LEMMA FireMissileOK ==
  ASSUME Good(tb, purse, bank), NEW s \in Seats, FireMissile(s)
  PROVE  StepOK
<1> DEFINE q == Present(tb, s)
           d == ClearTurnTimer(q)
<1>1. OnTurn(s) /\ UNCHANGED <<purse, bank>> /\ tb' \in Showdown(d)
  BY DEF FireMissile, Moved
<1>3. /\ IsTable(tb) /\ Playing(q) /\ Total(q) = Total(tb)
      /\ \A x \in Seats : /\ q.seat[x].missed <= tb.seat[x].missed
                          /\ q.seat[x].chips <= tb.seat[x].chips
  BY <1>1, OnTurnIs
<1> HIDE DEF q
<1>7. Playing(d) /\ Total(d) = Total(q) /\ d.seat = q.seat
  BY <1>3, ClearIs
<1> HIDE DEF d
<1>8. Outcome(d, tb') /\ IsTable(d)
  BY <1>1, <1>7, ShowdownOK DEF Playing, Core
<1> QED BY <1>1, <1>3, <1>7, <1>8, MovedAfter

\* The asker has asked, and their clock is stopped.
Asked(t, s) == [ClearTurnTimer(Present(t, s)) EXCEPT !.seat[s].asked = TRUE]

\* What Asked leaves.
LEMMA AskedIs ==
  ASSUME Good(tb, purse, bank), NEW s \in Seats, OnTurn(s), NEW d, d = Asked(tb, s)
  PROVE  /\ Hand(d) /\ IsTable(d) /\ d.turn = s /\ d.side = {} /\ ~d.turnClock
         /\ s \in Active(d) /\ Active(d) = Active(tb) /\ Total(d) = Total(tb)
         /\ \A x \in Seats : /\ d.seat[x].missed <= tb.seat[x].missed
                             /\ d.seat[x].chips <= tb.seat[x].chips
<1> DEFINE q == Present(tb, s)
           c == ClearTurnTimer(q)
           x == [c.seat[s] EXCEPT !.asked = TRUE]
<1>1. /\ IsTable(tb) /\ Playing(q) /\ Hand(q) /\ q.turn = s /\ q.side = {} /\ Total(q) = Total(tb)
      /\ Active(q) = Active(tb)
      /\ \A y \in Seats : /\ q.seat[y].missed <= tb.seat[y].missed
                          /\ q.seat[y].chips <= tb.seat[y].chips
  BY OnTurnIs
<1>2. d = [c EXCEPT !.seat[s] = x]
  BY DEF Asked
<1> HIDE DEF q
<1>3. /\ Playing(c) /\ Mid(c) /\ c.turn = s /\ c.side = {} /\ c.seat = q.seat
      /\ Active(c) = Active(q) /\ Total(c) = Total(q)
  BY <1>1, ClearIs DEF Hand
<1>4. ~c.turnClock
  <2>1. IsTable(q)
    BY <1>1 DEF Playing, Core
  <2> QED BY <2>1 DEF ClearTurnTimer, IsTable, TableType
<1> HIDE DEF c
<1>5. Hand(c)
  BY <1>1, <1>3 DEF Hand
<1>6. IsTable(c) /\ s \in Active(c)
  BY <1>3, <1>5 DEF Playing, Core, Hand
<1>7. c.seat[s] \in SeatType /\ c.seat[s].active /\ c.seat[s].user # None
  BY <1>6 DEF IsTable, TableType, Active, Occupied
<1>8. /\ x \in SeatType /\ x.active /\ x.user # None /\ x.chips = c.seat[s].chips
      /\ x.missed = c.seat[s].missed
  BY <1>7 DEF SeatType
<1> HIDE DEF x
<1>9. SeatBecomes(c, d, s, x)
  BY <1>2, <1>6, <1>8, SeatBecomesIs
<1>10. Hand(d)
  BY <1>5, <1>8, <1>9, SeatBecomesLive
<1>11. Active(d) = Active(c)
  BY <1>8, <1>9, SeatBecomesActive
<1>12. Total(d) = Total(c)
  <2>1. Total(d) = Total(c) - c.seat[s].chips + x.chips /\ Total(c) \in Int
    BY <1>9, SeatBecomesTotal
  <2>2. c.seat[s].chips \in Nat
    BY <1>6, SeatNumbers
  <2> QED BY <1>8, <2>1, <2>2
<1>13. \A y \in Seats : d.seat[y].missed = q.seat[y].missed /\ d.seat[y].chips = q.seat[y].chips
  BY <1>3, <1>8, <1>9 DEF SeatBecomes
<1>14. d.turn = s /\ d.side = {} /\ ~d.turnClock /\ IsTable(d)
  BY <1>3, <1>4, <1>9 DEF SeatBecomes
<1> QED BY <1>1, <1>3, <1>6, <1>10, <1>11, <1>12, <1>13, <1>14

\* RequestSideshow: the sideshow's own clock takes over from the turn's.
LEMMA RequestSideshowOK ==
  ASSUME Good(tb, purse, bank), NEW s \in Seats, RequestSideshow(s)
  PROVE  StepOK
<1> DEFINE d == Asked(tb, s)
           to == RightActive(tb, s)
           p == [from |-> s, to |-> to]
           side == {p}
<1>1. OnTurn(s) /\ UNCHANGED <<purse, bank>> /\ CanSideshow(tb, s)
  BY DEF RequestSideshow, Moved
<1>2. /\ Hand(d) /\ IsTable(d) /\ d.turn = s /\ d.side = {} /\ ~d.turnClock
      /\ s \in Active(d) /\ Total(d) = Total(tb)
      /\ \A x \in Seats : /\ d.seat[x].missed <= tb.seat[x].missed
                          /\ d.seat[x].chips <= tb.seat[x].chips
  BY <1>1, AskedIs
<1>3. to \in Seats
  <2>1. Others(tb, s) # {}
    BY <1>1 DEF CanSideshow
  <2>2. to \in Others(tb, s)
    BY <2>1, RightActiveIs
  <2> QED BY <2>2 DEF Others, Active, Occupied
<1> HIDE DEF to
<1>4. side \in SUBSET [from : Seats, to : Seats] /\ p.from = s
  BY <1>3
<1>5. tb' = [[ClearTurnTimer(Present(tb, s)) EXCEPT !.seat[s].asked = TRUE]
               EXCEPT !.side = side, !.sideClock = TRUE]
  BY DEF RequestSideshow, Moved, to
<1>6. tb' = [d EXCEPT !.side = side, !.sideClock = TRUE]
  BY <1>5 DEF Asked
<1> HIDE DEF d
<1>7. side = {p}
  OBVIOUS
<1> HIDE DEF side, p
<1>8. /\ IsTable(tb') /\ tb'.seat = d.seat /\ tb'.side = side /\ tb'.sideClock
      /\ tb'.phase = d.phase /\ tb'.pot = d.pot /\ tb'.round = d.round
      /\ tb'.turn = d.turn /\ tb'.start = d.start
      /\ tb'.turnClock = d.turnClock
      /\ tb'.startClock = d.startClock /\ tb'.late = d.late /\ tb'.turns = d.turns
  BY <1>2, <1>4, <1>6 DEF IsTable, TableType
<1> DEFINE r == tb'
<1> HIDE DEF r
<1>9. /\ IsTable(r) /\ r.seat = d.seat /\ r.side = side /\ r.sideClock
      /\ r.phase = d.phase /\ r.pot = d.pot /\ r.round = d.round
      /\ r.turn = d.turn /\ r.start = d.start
      /\ r.turnClock = d.turnClock
      /\ r.startClock = d.startClock /\ r.late = d.late /\ r.turns = d.turns
  BY <1>8 DEF r
<1>10. /\ Active(r) = Active(d) /\ (Live(r) <=> Live(d)) /\ Stacks(r) = Stacks(d)
       /\ \A k : Queued(r, k) <=> Queued(d, k)
  BY <1>9 DEF Active, Occupied, Live, Stacks, Queued
<1>11. Total(r) = Total(d)
  BY <1>9, <1>10 DEF Total
<1>12. Mid(d) /\ Playing(d) /\ Core(d) /\ Live(d) /\ \E x, y \in Active(d) : x # y
  BY <1>2 DEF Hand, Mid, Playing
<1>13. Callbacks(r)
  BY <1>9, <1>10, <1>12 DEF Core, Callbacks
<1>14. Sides(r)
  BY <1>2, <1>4, <1>7, <1>9, <1>10, <1>12 DEF Sides
<1>15. Nobodies(r)
  BY <1>9, <1>12 DEF Core, Nobodies
<1>16. Playing(r)
  BY <1>9, <1>10, <1>12, <1>13, <1>14, <1>15 DEF Playing, Core
<1>17. Fair(r)
  BY <1>9, <1>10, <1>12 DEF Mid, Fair
<1>18. Hand(r)
  BY <1>2, <1>9, <1>10, <1>12, <1>16, <1>17 DEF Hand, Mid
<1>19. Goes(r)
  BY <1>2, <1>4, <1>7, <1>9 DEF Goes
<1>20. SameSeats(d, r)
  BY <1>9 DEF SameSeats
<1>21. Outcome(d, r)
  BY <1>2, <1>11, <1>18, <1>19, <1>20, SameOutcome DEF LiveOK, TabOK
<1>22. Outcome(d, tb')
  BY <1>21 DEF r
<1> QED BY <1>1, <1>2, <1>22, MovedAfter

\* ForceSideshow.
LEMMA ForceSideshowOK ==
  ASSUME Good(tb, purse, bank), NEW s \in Seats, ForceSideshow(s)
  PROVE  StepOK
<1> DEFINE d == Asked(tb, s)
           to == RightActive(tb, s)
           p == [from |-> s, to |-> to]
           yes == TRUE
<1>1. OnTurn(s) /\ UNCHANGED <<purse, bank>> /\ CanSideshow(tb, s) /\ tb' \in Settle(d, p, TRUE)
  BY Zenon DEF ForceSideshow, Moved, Asked
<1>2. /\ Hand(d) /\ IsTable(d) /\ d.turn = s /\ d.side = {} /\ Total(d) = Total(tb)
      /\ \A x \in Seats : /\ d.seat[x].missed <= tb.seat[x].missed
                          /\ d.seat[x].chips <= tb.seat[x].chips
  <2>1. OnTurn(s)
    BY <1>1, Zenon
  <2> QED BY <2>1, AskedIs
<1>3. to \in Seats
  <2>1. Others(tb, s) # {}
    <3>1. CanSideshow(tb, s)
      BY <1>1, Zenon
    <3> QED BY <3>1 DEF CanSideshow
  <2>2. to \in Others(tb, s)
    BY <2>1, RightActiveIs
  <2> QED BY <2>2 DEF Others, Active, Occupied
<1> HIDE DEF to
<1>4. p \in [from : Seats, to : Seats] /\ p.from = s
  BY <1>3
<1>5. yes \in BOOLEAN /\ tb' \in Settle(d, p, yes)
  BY <1>1, Zenon
<1> HIDE DEF d, p, yes
<1>6. Outcome(d, tb')
  BY <1>2, <1>4, <1>5, SettleOK
<1>7. UNCHANGED <<purse, bank>>
  BY <1>1, Zenon
<1> QED BY <1>2, <1>6, <1>7, MovedAfter

\* RespondToSideshow.
LEMMA RespondOK ==
  ASSUME Good(tb, purse, bank), NEW accept \in BOOLEAN, RespondToSideshow(accept)
  PROVE  StepOK
<1>1. PICK p \in tb.side : tb' \in ResolveSideshow(Present(tb, p.to), accept)
                           /\ UNCHANGED <<purse, bank>>
  BY DEF RespondToSideshow, Moved
<1> DEFINE q == Present(tb, p.to)
<1>2. LiveOK(tb)
  BY DEF RespondToSideshow, Good, TabOK, RestOK, Idle
<1>3. IsTable(tb) /\ Nobodies(tb)
  BY <1>2 DEF LiveOK, Hand, Mid, Playing, Core
<1>4. p.to \in Seats
  <2>1. p \in [from : Seats, to : Seats]
    BY <1>1, <1>3 DEF IsTable, TableType
  <2> QED BY <2>1
<1>5. /\ IsTable(q) /\ Total(q) = Total(tb) /\ LiveOK(q)
      /\ \A x \in Seats : /\ q.seat[x].missed <= tb.seat[x].missed
                          /\ q.seat[x].chips = tb.seat[x].chips
  BY <1>2, <1>3, <1>4, PresentIs
<1> HIDE DEF q
<1>6. \A x \in Seats : q.seat[x].chips <= tb.seat[x].chips
  <2>1. \A x \in Seats : tb.seat[x].chips \in Nat
    BY <1>3, SeatNumbers
  <2> QED BY <1>5, <2>1
<1>7. tb' \in ResolveSideshow(q, accept) /\ UNCHANGED <<purse, bank>>
  BY <1>1 DEF q
<1>8. Outcome(q, tb')
  BY <1>5, <1>7, ResolveOK
<1> QED BY <1>5, <1>6, <1>7, <1>8, MovedAfter

-----------------------------------------------------------------------------
(* Clocks *)

\* A clock that has run out has posted its callback.
LEMMA PostedIs ==
  ASSUME NEW t, IsTable(t), NEW c \in CallbackType, NEW r, IsTable(r),
         r.late = t.late \cup {c}, r.seat = t.seat, r.pot = t.pot
  PROVE  /\ Active(r) = Active(t) /\ Funded(r) = Funded(t) /\ Total(r) = Total(t)
         /\ SameSeats(t, r)
         /\ \A k : Queued(r, k) <=> Queued(t, k) \/ (c.kind = k /\ c.current)
<1>1. Active(r) = Active(t) /\ Funded(r) = Funded(t) /\ Total(r) = Total(t)
  BY DEF Active, Funded, Occupied, Total, Stacks
<1>2. SameSeats(t, r)
  BY DEF SameSeats
<1>3. \A k : Queued(r, k) <=> Queued(t, k) \/ (c.kind = k /\ c.current)
  BY DEF Queued
<1> QED BY <1>1, <1>2, <1>3

\* A callback that has just been posted is current.
LEMMA CallbackIs ==
  ASSUME NEW kind \in {"turn", "side", "start"}, NEW seat \in Seats \cup {NoSeat}
  PROVE  /\ Callback(kind, seat) \in CallbackType
         /\ Callback(kind, seat).kind = kind /\ Callback(kind, seat).seat = seat
         /\ Callback(kind, seat).current
BY DEF Callback, CallbackType

\* TurnClockFires.
LEMMA TurnClockOK ==
  ASSUME Good(tb, purse, bank), TurnClockFires
  PROVE  StepOK
<1> DEFINE t == tb
           r == tb'
           c == Callback("turn", t.turn)
           late == t.late \cup {c}
<1>1. /\ t.turnClock /\ UNCHANGED <<purse, bank>>
      /\ r = [t EXCEPT !.turnClock = FALSE, !.late = late]
  BY DEF TurnClockFires, Post, Moved
<1>2. LiveOK(t)
  BY <1>1 DEF Good, TabOK, RestOK, Idle
<1>3. /\ IsTable(t) /\ Callbacks(t) /\ Sides(t) /\ Nobodies(t) /\ Playing(t) /\ Mid(t)
      /\ Hand(t) /\ ~Queued(t, "start") /\ Live(t) /\ ~t.startClock /\ t.turn \in Seats
  BY <1>2 DEF LiveOK, Hand, Mid, Playing, Core
<1>4. /\ c \in CallbackType /\ c.kind = "turn" /\ c.seat = t.turn /\ c.current
  BY <1>3, CallbackIs
<1> HIDE DEF c
<1>5. late \in SUBSET CallbackType
  BY <1>3, <1>4 DEF IsTable, TableType
<1> HIDE DEF late
<1>6. /\ IsTable(r) /\ r.late = late /\ ~r.turnClock
      /\ r.phase = t.phase /\ r.seat = t.seat /\ r.pot = t.pot /\ r.round = t.round
      /\ r.turn = t.turn /\ r.start = t.start /\ r.side = t.side
      /\ r.sideClock = t.sideClock
      /\ r.startClock = t.startClock /\ r.turns = t.turns
  BY <1>1, <1>3, <1>5 DEF IsTable, TableType
<1>7. r.late = t.late \cup {c}
  BY <1>6 DEF late
<1> HIDE DEF r
<1>8. /\ Active(r) = Active(t) /\ Total(r) = Total(t) /\ SameSeats(t, r)
      /\ \A k : Queued(r, k) <=> Queued(t, k) \/ (c.kind = k /\ c.current)
  BY <1>3, <1>4, <1>6, <1>7, PostedIs
<1>9. Live(r) /\ ~Queued(r, "start") /\ Queued(r, "turn")
  BY <1>3, <1>4, <1>6, <1>8 DEF Live
<1>10. Callbacks(r)
  BY <1>3, <1>4, <1>6, <1>7, <1>9 DEF Callbacks
<1>11. Sides(r)
  BY <1>3, <1>6, <1>8, <1>9 DEF Sides
<1>12. Nobodies(r)
  BY <1>3, <1>6 DEF Nobodies
<1>13. Fair(r)
  BY <1>3, <1>6, <1>8 DEF Mid, Fair
<1>14. Playing(r)
  BY <1>3, <1>6, <1>9, <1>10, <1>11, <1>12 DEF Playing, Core
<1>15. LiveOK(r)
  BY <1>3, <1>6, <1>8, <1>9, <1>13, <1>14 DEF LiveOK, Hand, Mid, Goes
<1>16. Outcome(t, r)
  BY <1>3, <1>8, <1>15, SameOutcome DEF TabOK
<1> QED BY <1>1, <1>16, MovedOK DEF r

\* SideClockFires.
LEMMA SideClockOK ==
  ASSUME Good(tb, purse, bank), SideClockFires
  PROVE  StepOK
<1> DEFINE t == tb
           r == tb'
           c == Callback("side", NoSeat)
           late == t.late \cup {c}
<1>1. /\ t.sideClock /\ UNCHANGED <<purse, bank>>
      /\ r = [t EXCEPT !.sideClock = FALSE, !.late = late]
  BY DEF SideClockFires, Post, Moved
<1>2. IsTable(t)
  BY OutcomeTable DEF Good
<1>4. c \in CallbackType /\ c.kind = "side" /\ c.seat = NoSeat /\ c.current
  BY CallbackIs
<1> HIDE DEF c
<1>5. late \in SUBSET CallbackType
  BY <1>2, <1>4 DEF IsTable, TableType
<1> HIDE DEF late
<1>6. /\ IsTable(r) /\ r.late = late
      /\ r.phase = t.phase /\ r.seat = t.seat /\ r.pot = t.pot /\ r.round = t.round
      /\ r.turn = t.turn /\ r.start = t.start /\ r.side = t.side
      /\ r.turnClock = t.turnClock
      /\ r.startClock = t.startClock /\ r.turns = t.turns
  BY <1>1, <1>2, <1>5 DEF IsTable, TableType
<1>7. r.late = t.late \cup {c}
  BY <1>6 DEF late
<1> HIDE DEF r
<1>8. /\ Active(r) = Active(t) /\ Funded(r) = Funded(t) /\ Total(r) = Total(t)
      /\ SameSeats(t, r)
      /\ \A k : Queued(r, k) <=> Queued(t, k) \/ (c.kind = k /\ c.current)
  BY <1>2, <1>4, <1>6, <1>7, PostedIs
<1>9. /\ Live(r) <=> Live(t)
      /\ Queued(r, "start") <=> Queued(t, "start")
      /\ Queued(r, "turn") <=> Queued(t, "turn")
      /\ Queued(r, "side")
  BY <1>4, <1>6, <1>8 DEF Live
<1>10. Callbacks(t) => Callbacks(r)
  BY <1>4, <1>6, <1>7, <1>9 DEF Callbacks
<1>11. Sides(t) => Sides(r)
  BY <1>6, <1>8, <1>9 DEF Sides
<1>12. Nobodies(t) => Nobodies(r)
  BY <1>6 DEF Nobodies
<1>13. Core(t) => Core(r)
  BY <1>6, <1>10, <1>11, <1>12 DEF Core
<1>14. LiveOK(t) => LiveOK(r)
  <2>1. Fair(t) => Fair(r)
    BY <1>6, <1>8 DEF Fair
  <2>2. Playing(t) => Playing(r)
    BY <1>6, <1>9, <1>13 DEF Playing
  <2>3. Goes(t) => Goes(r)
    BY <1>6, <1>9 DEF Goes
  <2> QED BY <1>6, <1>8, <2>1, <2>2, <2>3 DEF LiveOK, Hand, Mid
<1>15. RestOK(t) => RestOK(r)
  BY <1>6, <1>8, <1>9, <1>13 DEF RestOK, Idle
<1>16. Outcome(t, r)
  BY <1>2, <1>8, <1>14, <1>15, SameOutcome DEF TabOK, Good
<1> QED BY <1>1, <1>16, MovedOK DEF r

\* StartClockFires.
LEMMA StartClockOK ==
  ASSUME Good(tb, purse, bank), StartClockFires
  PROVE  StepOK
<1> DEFINE t == tb
           r == tb'
           c == Callback("start", NoSeat)
           late == t.late \cup {c}
<1>1. /\ t.startClock /\ UNCHANGED <<purse, bank>>
      /\ r = [t EXCEPT !.startClock = FALSE, !.late = late]
  BY DEF StartClockFires, Post, Moved
<1>2. RestOK(t)
  BY <1>1 DEF Good, TabOK, LiveOK, Hand, Mid, Playing
<1>3. /\ IsTable(t) /\ Callbacks(t) /\ Sides(t) /\ Nobodies(t) /\ ~Live(t) /\ Idle(t)
      /\ t.phase = "starting" /\ t.side = {}
  BY <1>1, <1>2 DEF RestOK, Idle, Core, Sides
<1>4. c \in CallbackType /\ c.kind = "start" /\ c.seat = NoSeat /\ c.current
  BY CallbackIs
<1> HIDE DEF c
<1>5. late \in SUBSET CallbackType
  BY <1>3, <1>4 DEF IsTable, TableType
<1> HIDE DEF late
<1>6. /\ IsTable(r) /\ r.late = late /\ ~r.startClock
      /\ r.phase = t.phase /\ r.seat = t.seat /\ r.pot = t.pot
      /\ r.turn = t.turn /\ r.side = t.side
      /\ r.turnClock = t.turnClock
  BY <1>1, <1>3, <1>5 DEF IsTable, TableType
<1>7. r.late = t.late \cup {c}
  BY <1>6 DEF late
<1> HIDE DEF r
<1>8. /\ Active(r) = Active(t) /\ Funded(r) = Funded(t) /\ Total(r) = Total(t)
      /\ SameSeats(t, r)
      /\ \A k : Queued(r, k) <=> Queued(t, k) \/ (c.kind = k /\ c.current)
  BY <1>3, <1>4, <1>6, <1>7, PostedIs
<1>9. ~Live(r) /\ Queued(r, "start")
  BY <1>3, <1>4, <1>6, <1>8 DEF Live
<1>10. Callbacks(r)
  BY <1>3, <1>4, <1>6, <1>7 DEF Callbacks
<1>11. Sides(r)
  BY <1>3, <1>6 DEF Sides
<1>12. Nobodies(r)
  BY <1>3, <1>6 DEF Nobodies
<1>13. RestOK(r)
  BY <1>3, <1>6, <1>8, <1>9, <1>10, <1>11, <1>12 DEF RestOK, Idle, Core
<1>14. Outcome(t, r)
  BY <1>3, <1>8, <1>13, SameOutcome DEF TabOK
<1> QED BY <1>1, <1>14, MovedOK DEF r

-----------------------------------------------------------------------------
(* Timeouts *)

\* A missed turn is counted, and packs.
LEMMA MissTurnOK ==
  ASSUME NEW t, Hand(t), NEW s, s = t.turn, NEW r \in MissTurn(t, s)
  PROVE  /\ TabOK(r) /\ Total(r) = Total(t)
         /\ \A x \in Seats :
              /\ x # s => r.seat[x].missed <= t.seat[x].missed
              /\ Capped => r.seat[x].chips <= t.seat[x].chips + MaxPot
<1> DEFINE n == Min({t.seat[s].missed + 1, MaxMissedTurns})
           x == [t.seat[s] EXCEPT !.missed = n]
           q == [t EXCEPT !.seat[s] = x]
           u == t.seat[s].user
<1>1. PICK p \in Pack(q, s, TRUE) : r = IdleKick(p, s, u)
  BY Zenon DEF MissTurn
<1>2. IsTable(t) /\ s \in Seats /\ s \in Active(t)
  BY DEF Hand, Mid, Playing, Core
<1>3. t.seat[s] \in SeatType /\ t.seat[s].active /\ t.seat[s].user # None
  BY <1>2 DEF IsTable, TableType, Active, Occupied
<1>4. n \in 0 .. MaxMissedTurns
  <2> DEFINE m == t.seat[s].missed
             S == {m + 1, MaxMissedTurns}
  <2>1. m \in 0 .. MaxMissedTurns /\ MaxMissedTurns \in Nat
    BY <1>3, TableAssumption DEF SeatType
  <2> HIDE DEF m
  <2>2. S \in SUBSET Int /\ S # {} /\ IsFiniteSet(S)
    <3>1. IsFiniteSet({m + 1}) /\ IsFiniteSet({MaxMissedTurns})
      BY FS_Singleton
    <3>2. S = {m + 1} \cup {MaxMissedTurns}
      OBVIOUS
    <3>3. IsFiniteSet(S)
      BY <3>1, <3>2, FS_Union
    <3> QED BY <2>1, <3>3
  <2>3. S = {m + 1, MaxMissedTurns}
    OBVIOUS
  <2> HIDE DEF S
  <2>4. Min(S) \in S /\ Min(S) <= MaxMissedTurns
    BY <2>2, <2>3, MinIs
  <2>5. Min(S) \in 0 .. MaxMissedTurns
    BY <2>1, <2>3, <2>4
  <2> QED BY <2>5 DEF S, m
<1> HIDE DEF n
<1>5. /\ x \in SeatType /\ x.active /\ x.user # None /\ x.chips = t.seat[s].chips
  BY <1>3, <1>4 DEF SeatType
<1> HIDE DEF x
<1>6. SeatBecomes(t, q, s, x)
  BY <1>2, <1>5, SeatBecomesIs
<1> HIDE DEF q
<1>7. Hand(q)
  BY <1>5, <1>6, SeatBecomesLive
<1>8. q.turn = t.turn /\ IsTable(q) /\ q.seat[s] = x
      /\ \A y \in Seats \ {s} : q.seat[y] = t.seat[y]
  BY <1>6 DEF SeatBecomes
<1>9. Total(q) = Total(t)
  <2>1. Total(q) = Total(t) - t.seat[s].chips + x.chips /\ Total(t) \in Int
    BY <1>6, SeatBecomesTotal
  <2>2. t.seat[s].chips \in Nat
    BY <1>2, SeatNumbers
  <2> QED BY <1>5, <2>1, <2>2
<1>10. Outcome(q, p)
  <2>1. p \in Pack(q, q.turn, TRUE)
    BY <1>1, <1>8, Zenon
  <2> QED BY <1>7, <2>1, PackOK, Zenon
<1>11. IsTable(p) /\ TabOK(p) /\ Total(p) = Total(q) /\ Bounded(q, p)
  BY <1>10, OutcomeTable DEF Outcome
<1>12. Like(p, r) /\ SameSeats(p, r)
  <2>1. CASE MaxMissedTurns > 0 /\ p.seat[s].missed >= MaxMissedTurns
    <3> DEFINE kicks == p.kicks \cup {u}
    <3>1. kicks \in SUBSET Users
      BY <1>3, <1>11 DEF IsTable, TableType, SeatType
    <3>2. r = [p EXCEPT !.kicks = kicks]
      BY <1>1, <2>1 DEF IdleKick
    <3> HIDE DEF kicks
    <3>3. IsTable(r) /\ r.phase = p.phase /\ r.pot = p.pot /\ r.round = p.round
          /\ r.turn = p.turn /\ r.start = p.start /\ r.side = p.side
          /\ r.turnClock = p.turnClock /\ r.sideClock = p.sideClock
          /\ r.startClock = p.startClock /\ r.late = p.late /\ r.turns = p.turns
          /\ r.seat = p.seat
      BY <1>11, <3>1, <3>2 DEF IsTable, TableType
    <3> QED BY <3>3 DEF Like, SameSeats
  <2>2. CASE ~(MaxMissedTurns > 0 /\ p.seat[s].missed >= MaxMissedTurns)
    <3>1. r = p
      BY <1>1, <2>2 DEF IdleKick
    <3> QED BY <1>11, <3>1 DEF Like, SameSeats
  <2> QED BY <2>1, <2>2
<1>13. TabOK(r) /\ Total(r) = Total(p)
  BY <1>11, <1>12, LikeOK, LikeSame DEF TabOK
<1>14. ASSUME NEW y \in Seats
       PROVE  /\ y # s => r.seat[y].missed <= t.seat[y].missed
              /\ Capped => r.seat[y].chips <= t.seat[y].chips + MaxPot
  <2>1. q.seat[y].chips = t.seat[y].chips /\ (y # s => q.seat[y].missed = t.seat[y].missed)
    BY <1>5, <1>8
  <2> QED BY <1>11, <1>12, <2>1 DEF Bounded, SameSeats
<1> QED BY <1>9, <1>11, <1>13, <1>14

\* TurnTimeout: a current one finds the turn as it was armed for; any other does nothing.
LEMMA TurnTimeoutOK ==
  ASSUME Good(tb, purse, bank), NEW c \in tb.late, TurnTimeout(c)
  PROVE  StepOK
<1> DEFINE t == Taken(c)
<1>1. /\ c.kind = "turn" /\ UNCHANGED <<purse, bank>>
      /\ tb' \in IF Live(tb) /\ tb.turn = c.seat /\ c.current /\ tb.seat[c.seat].active
                 THEN MissTurn(t, c.seat) ELSE {t}
  BY DEF TurnTimeout, Moved
<1>2. TabOK(tb) /\ IsTable(tb)
  BY OutcomeTable DEF Good
<1>3. t = [tb EXCEPT !.late = @ \ {c}]
  BY DEF Taken
<1>4. c.current \in BOOLEAN
  BY <1>2 DEF IsTable, TableType, CallbackType
<1>5. CASE c.current
  <2>1. Live(tb) /\ LiveOK(tb)
    BY <1>1, <1>2, <1>5 DEF TabOK, RestOK, Idle, LiveOK, Hand, Mid, Playing, Core, Callbacks
  <2>2. /\ Hand(t) /\ t.turn = tb.turn /\ t.turn \in Active(t) /\ t.seat = tb.seat
        /\ Total(t) = Total(tb) /\ ~tb.turnClock /\ c.seat = tb.turn
    BY <1>1, <1>3, <1>5, <2>1, TakenHand
  <2>3. tb.seat[c.seat].active
    BY <2>2 DEF Active
  <2>4. tb' \in MissTurn(t, c.seat)
    BY <1>1, <1>5, <2>1, <2>2, <2>3
  <2> HIDE DEF t
  <2>5. /\ TabOK(tb') /\ Total(tb') = Total(t)
        /\ \A x \in Seats :
              /\ x # c.seat => tb'.seat[x].missed <= t.seat[x].missed
              /\ Capped => tb'.seat[x].chips <= t.seat[x].chips + MaxPot
    BY <2>2, <2>4, MissTurnOK
  <2>6. Lawful(tb, tb')
    <3>1. IsTable(tb')
      BY <2>5, OutcomeTable
    <3>2. /\ MaxPot \in Nat
          /\ \A s \in Seats : /\ tb.seat[s].chips \in Nat /\ tb'.seat[s].chips \in Nat
                              /\ tb.seat[s].missed \in Nat /\ tb'.seat[s].missed \in Nat
      BY <1>2, <3>1, SeatNumbers, TableAssumption
    <3>3. ASSUME NEW s \in Seats, tb'.seat[s].missed > tb.seat[s].missed
          PROVE  ~tb.turnClock /\ tb.turn = s
      BY <2>2, <2>5, <3>2, <3>3
    <3>4. ASSUME Capped, NEW s \in Occupied(tb)
          PROVE  tb'.seat[s].chips - tb.seat[s].chips <= MaxPot
      BY <2>2, <2>5, <3>2, <3>4 DEF Occupied
    <3> QED BY <3>3, <3>4 DEF Lawful
  <2>7. purse' = purse /\ bank' = bank /\ Total(tb') = Total(tb)
    BY <1>1, <2>2, <2>5
  <2> QED BY <2>5, <2>6, <2>7 DEF StepOK, Good, Worth
<1>6. CASE ~c.current
  <2>1. tb' = t
    BY <1>1, <1>6
  <2>2. Outcome(tb, t)
    BY <1>2, <1>3, <1>6, StaleTaken
  <2> QED BY <1>1, <2>1, <2>2, MovedOK
<1> QED BY <1>4, <1>5, <1>6

\* SideshowTimeout.
LEMMA SideTimeoutOK ==
  ASSUME Good(tb, purse, bank), NEW c \in tb.late, SideshowTimeout(c)
  PROVE  StepOK
<1> DEFINE t == Taken(c)
<1>1. /\ c.kind = "side" /\ UNCHANGED <<purse, bank>>
      /\ tb' \in IF tb.side # {} /\ c.current THEN ResolveSideshow(t, FALSE) ELSE {t}
  BY DEF SideshowTimeout, Moved
<1>2. TabOK(tb) /\ IsTable(tb)
  BY OutcomeTable DEF Good
<1>3. t = [tb EXCEPT !.late = @ \ {c}]
  BY DEF Taken
<1>4. CASE tb.side # {} /\ c.current
  <2> DEFINE r == [t EXCEPT !.sideClock = TRUE]
  <2>1. /\ IsTable(t)
        /\ t.phase = tb.phase /\ t.seat = tb.seat /\ t.pot = tb.pot /\ t.round = tb.round
        /\ t.turn = tb.turn /\ t.start = tb.start /\ t.side = tb.side
        /\ t.turnClock = tb.turnClock
        /\ t.startClock = tb.startClock /\ t.turns = tb.turns
        /\ Active(t) = Active(tb) /\ (Live(t) <=> Live(tb))
        /\ Total(t) = Total(tb)
        /\ \A k : Queued(t, k) => Queued(tb, k)
        /\ \A k : Queued(tb, k) /\ (~c.current \/ c.kind # k) => Queued(t, k)
        /\ Callbacks(tb) => Callbacks(t)
        /\ Nobodies(tb) => Nobodies(t)
    BY <1>2, <1>3, TakenIs
  <2>2. LiveOK(tb) /\ Sides(tb)
    BY <1>2, <1>4 DEF TabOK, RestOK, Idle, Core, Sides, LiveOK, Hand, Mid, Playing
  <2>3. tb' \in ResolveSideshow(t, FALSE)
    BY <1>1, <1>4
  <2>4. Closed(r) = Closed(t) /\ r.side = t.side
    BY <2>1 DEF Closed, IsTable, TableType
  <2>5. tb' \in ResolveSideshow(r, FALSE)
    BY <2>3, <2>4, Zenon DEF ResolveSideshow
  <2> HIDE DEF t
  <2>6. /\ IsTable(r) /\ r.sideClock
        /\ r.phase = t.phase /\ r.seat = t.seat /\ r.pot = t.pot /\ r.round = t.round
        /\ r.turn = t.turn /\ r.start = t.start /\ r.side = t.side
        /\ r.turnClock = t.turnClock /\ r.late = t.late
        /\ r.startClock = t.startClock /\ r.turns = t.turns
    BY <2>1 DEF IsTable, TableType
  <2> HIDE DEF r
  <2>7. /\ Active(r) = Active(tb) /\ (Live(r) <=> Live(tb)) /\ Total(r) = Total(tb)
        /\ \A k : Queued(r, k) <=> Queued(t, k)
    BY <2>1, <2>6 DEF Active, Occupied, Live, Total, Stacks, Queued
  <2>8. Callbacks(r)
    <3>1. Callbacks(t)
      BY <2>1, <2>2 DEF LiveOK, Hand, Mid, Playing, Core
    <3> QED BY <2>1, <2>6, <2>7, <3>1 DEF Callbacks
  <2>9. Sides(r)
    BY <2>1, <2>2, <2>6, <2>7 DEF Sides, LiveOK, Hand, Mid, Playing
  <2>10. Nobodies(r)
    BY <2>1, <2>2, <2>6 DEF Nobodies, LiveOK, Hand, Mid, Playing, Core
  <2>11. Playing(r)
    BY <2>1, <2>2, <2>6, <2>7, <2>8, <2>9, <2>10 DEF LiveOK, Hand, Mid, Playing, Core
  <2>12. Goes(r)
    <3>1. Queued(tb, "turn") => Queued(t, "turn")
      BY <1>1, <2>1
    <3> QED BY <2>1, <2>2, <2>6, <2>7, <3>1 DEF LiveOK, Goes
  <2>13. Fair(r)
    BY <2>1, <2>2, <2>6, <2>7 DEF LiveOK, Hand, Mid, Fair
  <2>14. LiveOK(r)
    BY <2>1, <2>2, <2>6, <2>7, <2>11, <2>12, <2>13 DEF LiveOK, Hand, Mid
  <2>15. Outcome(r, tb')
    <3> DEFINE no == FALSE
    <3>1. no \in BOOLEAN /\ tb' \in ResolveSideshow(r, no)
      BY <2>5, Zenon
    <3> HIDE DEF no
    <3> QED BY <2>14, <3>1, ResolveOK
  <2>16. \A x \in Seats : r.seat[x].missed <= tb.seat[x].missed
                          /\ r.seat[x].chips <= tb.seat[x].chips
    <3>1. \A x \in Seats : tb.seat[x].missed \in Nat /\ tb.seat[x].chips \in Nat
      BY <1>2, SeatNumbers
    <3> QED BY <2>1, <2>6, <3>1
  <2> QED BY <1>1, <2>6, <2>7, <2>15, <2>16, MovedAfter
<1>5. CASE ~(tb.side # {} /\ c.current)
  <2>1. tb' = t
    BY <1>1, <1>5
  <2>2. Outcome(tb, t)
    BY <1>1, <1>2, <1>3, <1>5, StaleTaken
  <2> QED BY <1>1, <2>1, <2>2, MovedOK
<1> QED BY <1>4, <1>5

\* Countdown: a current one is the only one, and finds enough funded seats.
LEMMA CountdownOK ==
  ASSUME Good(tb, purse, bank), NEW c \in tb.late, Countdown(c)
  PROVE  StepOK
<1> DEFINE t == Taken(c)
<1>1. /\ c.kind = "start" /\ UNCHANGED <<purse, bank>>
      /\ tb' = IF c.current THEN StartHand(t) ELSE t
  BY DEF Countdown, Moved
<1>2. TabOK(tb) /\ IsTable(tb)
  BY OutcomeTable DEF Good
<1>3. t = [tb EXCEPT !.late = @ \ {c}]
  BY DEF Taken
<1>4. CASE c.current
  <2>1. Queued(tb, "start")
    BY <1>1, <1>4 DEF Queued
  <2>2. RestOK(tb)
    BY <1>2, <2>1 DEF TabOK, LiveOK, Hand, Mid, Playing
  <2>3. /\ Callbacks(tb) /\ Sides(tb) /\ Nobodies(tb) /\ ~Live(tb) /\ tb.side = {}
        /\ Cardinality(Funded(tb)) >= MinPlayers /\ ~tb.startClock
    <3>1. Callbacks(tb) /\ Sides(tb) /\ Nobodies(tb) /\ ~Live(tb)
      BY <2>2 DEF RestOK, Idle, Core
    <3>2. ~tb.startClock
      BY <1>1, <1>4, <3>1 DEF Callbacks
    <3> QED BY <2>1, <2>2, <3>1, <3>2 DEF RestOK, Idle, Sides
  <2>4. /\ IsTable(t) /\ t.late = tb.late \ {c}
        /\ t.phase = tb.phase /\ t.seat = tb.seat /\ t.pot = tb.pot
        /\ t.side = tb.side /\ t.turnClock = tb.turnClock /\ t.startClock = tb.startClock
        /\ Funded(t) = Funded(tb) /\ (Live(t) <=> Live(tb)) /\ Total(t) = Total(tb)
        /\ Callbacks(t) /\ Nobodies(t)
    BY <1>2, <1>3, <2>3, TakenIs
  <2>5. ~Queued(t, "start")
    <3> SUFFICES ASSUME NEW d \in tb.late, d # c, d.kind = "start", d.current PROVE FALSE
      BY <2>4 DEF Queued
    <3>1. d.seat = NoSeat /\ c.seat = NoSeat
      BY <1>1, <2>3 DEF Callbacks
    <3>2. c \in CallbackType /\ d \in CallbackType
      BY <1>2 DEF IsTable, TableType
    <3>3. c.current = TRUE /\ d.current = TRUE
      BY <1>4, <3>2 DEF CallbackType
    <3>4. c = d
      BY <1>1, <3>1, <3>2, <3>3 DEF CallbackType
    <3> QED BY <3>4
  <2>6. Resting(t)
    <3>1. Sides(t)
      BY <2>3, <2>4 DEF Sides
    <3> QED BY <2>2, <2>3, <2>4, <3>1 DEF RestOK, Idle, Resting, Core
  <2>7. tb' = StartHand(t)
    BY <1>1, <1>4
  <2> HIDE DEF t
  <2>8. Outcome(t, tb')
    BY <2>3, <2>4, <2>5, <2>6, <2>7, StartHandOK
  <2>9. \A x \in Seats : t.seat[x].missed <= tb.seat[x].missed
                         /\ t.seat[x].chips <= tb.seat[x].chips
    <3>1. \A x \in Seats : tb.seat[x].missed \in Nat /\ tb.seat[x].chips \in Nat
      BY <1>2, SeatNumbers
    <3> QED BY <2>4, <3>1
  <2> QED BY <1>1, <2>4, <2>8, <2>9, MovedAfter
<1>5. CASE ~c.current
  <2>1. tb' = t
    BY <1>1, <1>5
  <2>2. Outcome(tb, t)
    BY <1>2, <1>3, <1>5, StaleTaken
  <2> QED BY <1>1, <2>1, <2>2, MovedOK
<1> QED BY <1>4, <1>5

-----------------------------------------------------------------------------
(* Seats *)

\* A table at rest where one seat has more than it had.
LEMMA MorePlayersOK ==
  ASSUME NEW t, RestOK(t), NEW q, NEW s, NEW x, SeatBecomes(t, q, s, x),
         x.user # None /\ x.chips >= t.seat[s].chips, NEW r, r = MaybeStart(q)
  PROVE  RestOK(r) /\ SameSeats(q, r) /\ Total(r) = Total(q)
<1>1. /\ Idle(t) /\ Core(t) /\ IsTable(t) /\ Nobodies(t) /\ Resting(t)
      /\ \A y \in Seats : ~t.seat[y].active
  BY DEF RestOK, Idle, Core, Resting
<1>2. Resting(q)
  BY <1>1, SeatBecomesResting
<1>3. /\ IsTable(q) /\ q.phase = t.phase /\ q.startClock = t.startClock
      /\ s \in Seats /\ q.seat[s] = x /\ \A y \in Seats \ {s} : q.seat[y] = t.seat[y]
  BY DEF SeatBecomes
<1>4. Queued(q, "start") <=> Queued(t, "start")
  BY SeatBecomesActive
<1>5. Funded(t) \subseteq Funded(q)
  <2> SUFFICES ASSUME NEW y \in Funded(t) PROVE y \in Funded(q)
    OBVIOUS
  <2>1. y \in Seats /\ t.seat[y].user # None /\ t.seat[y].chips >= Boot
    BY DEF Funded, Occupied
  <2>2. CASE y = s
    <3>1. Boot \in Nat /\ t.seat[s].chips \in Nat /\ q.seat[s].chips \in Nat
      BY <1>1, <1>3, SeatNumbers, TableAssumption
    <3> QED BY <1>3, <2>1, <2>2, <3>1 DEF Funded, Occupied
  <2>3. CASE y # s
    BY <1>3, <2>1, <2>3 DEF Funded, Occupied
  <2> QED BY <2>2, <2>3
<1>6. Cardinality(Funded(t)) >= MinPlayers => Cardinality(Funded(q)) >= MinPlayers
  <2> DEFINE A == Funded(t)
             B == Funded(q)
  <2>1. A \subseteq B /\ B \subseteq Seats
    BY <1>5 DEF Funded, Occupied
  <2> HIDE DEF A, B
  <2>2. IsFiniteSet(B) /\ IsFiniteSet(A)
    BY <2>1, SeatsAre, FS_Subset
  <2>3. Cardinality(A) <= Cardinality(B) /\ Cardinality(A) \in Nat /\ Cardinality(B) \in Nat
    BY <2>1, <2>2, FS_Subset, FS_CardinalityType
  <2>4. MinPlayers \in Nat
    BY TableAssumption
  <2>5. Cardinality(A) >= MinPlayers => Cardinality(B) >= MinPlayers
    BY <2>3, <2>4
  <2> QED BY <2>5 DEF A, B
<1>7. Idle(q)
  BY <1>1, <1>2, <1>3, <1>4, <1>6 DEF Idle, Resting
<1> QED BY <1>7, MaybeStartOK

\* Nothing is started while a hand is live.
LEMMA LiveWaits ==
  ASSUME NEW t, Live(t)
  PROVE  MaybeStart(t) = t
BY DEF Live, MaybeStart

\* Join.
LEMMA JoinOK ==
  ASSUME Good(tb, purse, bank), NEW u \in Users, Join(u)
  PROVE  StepOK
<1> DEFINE s == Min(Seats \ Occupied(tb))
           x == [EmptySeat EXCEPT !.user = u, !.chips = purse[u]]
           q == [tb EXCEPT !.seat[s] = x]
<1>1. /\ Occupied(tb) # Seats /\ tb' = MaybeStart(q)
      /\ purse' = [purse EXCEPT ![u] = 0] /\ bank' = bank
  BY DEF Join
<1>2. s \in Seats \ Occupied(tb)
  <2> DEFINE S == Seats \ Occupied(tb)
  <2>1. S # {} /\ S \subseteq Seats
    BY <1>1 DEF Occupied
  <2> HIDE DEF S
  <2>2. IsFiniteSet(S) /\ S \in SUBSET Int
    <3>1. IsFiniteSet(Seats) /\ Seats \subseteq Int
      BY SeatsAre
    <3>2. IsFiniteSet(S)
      BY <2>1, <3>1, FS_Subset
    <3> QED BY <2>1, <3>1, <3>2
  <2>3. Min(S) \in S
    BY <2>1, <2>2, MinIs
  <2> QED BY <2>3 DEF S
<1> HIDE DEF s
<1>3. TabOK(tb) /\ IsTable(tb) /\ Nobodies(tb)
  BY OutcomeTable DEF Good, TabOK, LiveOK, RestOK, Idle, Hand, Mid, Playing, Core
<1>4. s \in Seats /\ tb.seat[s].chips = 0 /\ s \notin Active(tb)
  BY <1>2, <1>3 DEF Nobodies, Occupied, Active
<1>5. purse \in [Users -> Nat] /\ bank \in Nat
  BY DEF Good
<1>6. /\ x \in SeatType /\ x.user = u /\ x.chips = purse[u] /\ ~x.active /\ x.missed = 0
      /\ u # None
  <2> DEFINE e == EmptySeat
             c == purse[u]
  <2>1. MaxMissedTurns \in Nat /\ None \notin Users
    BY TableAssumption
  <2>2. e \in SeatType /\ ~e.active /\ e.missed = 0
    BY <2>1 DEF EmptySeat, SeatType
  <2>3. c \in Nat
    BY <1>5
  <2>4. x = [e EXCEPT !.user = u, !.chips = c]
    OBVIOUS
  <2>5. u # None
    BY <2>1
  <2> HIDE DEF e, c, x
  <2>6. x \in SeatType /\ x.user = u /\ x.chips = c /\ ~x.active /\ x.missed = 0
    BY <2>2, <2>3, <2>4 DEF SeatType
  <2> QED BY <2>5, <2>6 DEF c
<1> HIDE DEF x
<1>7. SeatBecomes(tb, q, s, x)
  BY <1>3, <1>4, <1>6, SeatBecomesIs
<1> HIDE DEF q
<1>8. /\ IsTable(q) /\ q.seat[s] = x /\ \A y \in Seats \ {s} : q.seat[y] = tb.seat[y]
      /\ Live(q) <=> Live(tb)
  BY <1>7, SeatBecomesActive DEF SeatBecomes
<1>9. TabOK(tb') /\ SameSeats(q, tb') /\ Total(tb') = Total(q)
  <2>1. CASE LiveOK(tb)
    <3>1. LiveOK(q)
      BY <1>4, <1>7, <2>1, SeatBecomesLive
    <3>2. Live(q)
      BY <3>1 DEF LiveOK, Hand, Mid, Playing
    <3>3. tb' = q
      BY <1>1, <3>2, LiveWaits
    <3> QED BY <3>1, <3>3 DEF TabOK, SameSeats
  <2>2. CASE RestOK(tb)
    <3>1. x.user # None /\ x.chips >= tb.seat[s].chips
      BY <1>4, <1>5, <1>6
    <3> QED BY <1>1, <1>7, <2>2, <3>1, MorePlayersOK DEF TabOK
  <2> QED BY <1>3, <2>1, <2>2 DEF TabOK
<1>10. Total(q) = Total(tb) + purse[u] /\ Total(tb) \in Int
  BY <1>4, <1>5, <1>6, <1>7, SeatBecomesTotal
<1>11. purse' \in [Users -> Nat] /\ purse'[u] = 0 /\ \A v \in Users \ {u} : purse'[v] = purse[v]
  BY <1>1, <1>5
<1>12. SumOver(purse', Users) = SumOver(purse, Users) - purse[u]
  <2> DEFINE p == purse'
  <2>1. IsFiniteSet(Users)
    BY TableAssumption
  <2>2. /\ \A v \in Users : p[v] \in Int /\ purse[v] \in Int /\ (v # u => p[v] = purse[v])
        /\ p[u] = 0
    BY <1>5, <1>11
  <2> HIDE DEF p
  <2>3. SumOver(p, Users) - p[u] = SumOver(purse, Users) - purse[u]
    BY <2>1, <2>2, SumOneMoved
  <2>4. SumOver(p, Users) \in Int
    BY <2>1, <2>2, SumInt
  <2>5. SumOver(p, Users) = SumOver(purse, Users) - purse[u]
    BY <2>2, <2>3, <2>4
  <2> QED BY <2>5 DEF p
<1>13. Worth(tb', purse', bank') = Worth(tb, purse, bank)
  <2> DEFINE a == SumOver(purse, Users)
             b == Total(tb)
  <2>1. a \in Int
    <3>1. IsFiniteSet(Users) /\ \A v \in Users : purse[v] \in Int
      BY <1>5, TableAssumption
    <3> QED BY <3>1, SumInt
  <2>2. /\ Worth(tb', purse', bank') = (b + purse[u]) + (a - purse[u]) + bank
        /\ Worth(tb, purse, bank) = b + a + bank
    BY <1>1, <1>9, <1>10, <1>12 DEF Worth
  <2>3. b \in Int /\ purse[u] \in Int /\ bank \in Int
    BY <1>5, <1>10
  <2> HIDE DEF a, b
  <2> QED BY <2>1, <2>2, <2>3
<1>14. Lawful(tb, tb')
  <2>1. /\ MaxPot \in Nat
        /\ \A y \in Seats : tb.seat[y].chips \in Nat /\ tb.seat[y].missed \in Nat
    BY <1>3, SeatNumbers, TableAssumption
  <2>2. \A y \in Seats : tb'.seat[y].missed <= tb.seat[y].missed
    BY <1>6, <1>8, <1>9, <2>1 DEF SameSeats
  <2>3. IsTable(tb')
    BY <1>9, OutcomeTable
  <2>4. \A y \in Seats : tb'.seat[y].missed \in Nat
    BY <2>3, SeatNumbers
  <2>5. \A y \in Seats : ~(tb'.seat[y].missed > tb.seat[y].missed)
    BY <2>1, <2>2, <2>4
  <2>6. \A y \in Occupied(tb) : tb'.seat[y].chips - tb.seat[y].chips <= MaxPot
    BY <1>2, <1>8, <1>9, <2>1 DEF SameSeats, Occupied
  <2> QED BY <2>5, <2>6 DEF Lawful
<1> QED BY <1>1, <1>5, <1>9, <1>11, <1>13, <1>14 DEF StepOK, Good

\* What a seat held goes back to its player's purse.
LEMMA DepartOK ==
  ASSUME Good(tb, purse, bank), NEW t, TabOK(t), Total(t) = Total(tb), SameSeats(tb, t),
         NEW u \in Users, NEW s \in SeatsOf(t, u), Depart(u, s, t)
  PROVE  StepOK
<1>1. /\ tb' \in RemovePlayer(t, s) /\ purse' = [purse EXCEPT ![u] = @ + t.seat[s].chips]
      /\ bank' = bank
  BY DEF Depart
<1>2. s \in Occupied(t) /\ s \in Seats
  BY DEF SeatsOf, Occupied
<1>3. TabOK(tb') /\ Total(tb') = Total(t) - t.seat[s].chips /\ Bounded(t, tb')
  BY <1>1, <1>2, RemoveOK DEF Departed
<1>4. IsTable(t) /\ IsTable(tb) /\ IsTable(tb')
  BY <1>3, OutcomeTable DEF Good
<1>5. purse \in [Users -> Nat] /\ bank \in Nat /\ t.seat[s].chips \in Nat
  BY <1>2, <1>4, SeatNumbers DEF Good
<1> DEFINE c == t.seat[s].chips
<1>6. /\ purse' \in [Users -> Nat] /\ purse'[u] = purse[u] + c
      /\ \A v \in Users \ {u} : purse'[v] = purse[v]
  BY <1>1, <1>5
<1>7. SumOver(purse', Users) = SumOver(purse, Users) + c /\ SumOver(purse, Users) \in Int
  <2> DEFINE p == purse'
  <2>1. IsFiniteSet(Users)
    BY TableAssumption
  <2>2. /\ \A v \in Users : p[v] \in Int /\ purse[v] \in Int /\ (v # u => p[v] = purse[v])
        /\ p[u] = purse[u] + c /\ c \in Int
    BY <1>5, <1>6
  <2> HIDE DEF p, c
  <2>3. SumOver(p, Users) - p[u] = SumOver(purse, Users) - purse[u]
    BY <2>1, <2>2, SumOneMoved
  <2>4. SumOver(p, Users) \in Int /\ SumOver(purse, Users) \in Int
    BY <2>1, <2>2, SumInt
  <2>5. SumOver(p, Users) = SumOver(purse, Users) + c
    BY <2>2, <2>3, <2>4
  <2> QED BY <2>4, <2>5 DEF p
<1>8. Total(tb) \in Int
  <2>1. \A y \in Seats : Stacks(tb)[y] \in Int
    BY <1>4, SeatNumbers DEF Stacks
  <2>2. SumOver(Stacks(tb), Seats) \in Int
    BY <2>1, SeatsAre, SumInt
  <2>3. tb.pot \in Int
    BY <1>4 DEF IsTable, TableType
  <2> QED BY <2>2, <2>3 DEF Total
<1>9. Worth(tb', purse', bank') = Worth(tb, purse, bank)
  <2> DEFINE a == SumOver(purse, Users)
             b == Total(tb)
  <2>1. /\ Worth(tb', purse', bank') = (b - c) + (a + c) + bank
        /\ Worth(tb, purse, bank) = b + a + bank
    BY <1>1, <1>3, <1>7 DEF Worth
  <2>2. a \in Int /\ b \in Int /\ c \in Int /\ bank \in Int
    BY <1>5, <1>7, <1>8
  <2> HIDE DEF a, b, c
  <2> QED BY <2>1, <2>2
<1>10. Bounded(tb, tb')
  BY <1>3 DEF Bounded, SameSeats
<1>11. Lawful(tb, tb')
  BY <1>4, <1>10, BoundedLawful
<1> QED BY <1>1, <1>3, <1>5, <1>6, <1>9, <1>11 DEF StepOK, Good

\* Leave.
LEMMA LeaveOK ==
  ASSUME Good(tb, purse, bank), NEW u \in Users, Leave(u)
  PROVE  StepOK
<1>1. PICK s \in SeatsOf(tb, u) : Depart(u, s, tb)
  BY DEF Leave
<1>2. TabOK(tb) /\ SameSeats(tb, tb)
  BY DEF Good, SameSeats
<1> QED BY <1>1, <1>2, DepartOK

\* KickLands.
LEMMA KickLandsOK ==
  ASSUME Good(tb, purse, bank), NEW u \in Users, KickLands(u)
  PROVE  StepOK
<1> DEFINE kicks == tb.kicks \ {u}
           t == [tb EXCEPT !.kicks = kicks]
<1>1. IF SeatsOf(t, u) = {} THEN tb' = t /\ UNCHANGED <<purse, bank>>
      ELSE \E s \in SeatsOf(t, u) : Depart(u, s, t)
  BY DEF KickLands
<1>2. TabOK(tb) /\ IsTable(tb)
  BY OutcomeTable DEF Good
<1>3. kicks \in SUBSET Users
  BY <1>2 DEF IsTable, TableType
<1> HIDE DEF kicks
<1>4. /\ IsTable(t) /\ t.phase = tb.phase /\ t.pot = tb.pot /\ t.round = tb.round
      /\ t.turn = tb.turn /\ t.start = tb.start /\ t.side = tb.side
      /\ t.turnClock = tb.turnClock /\ t.sideClock = tb.sideClock
      /\ t.startClock = tb.startClock /\ t.late = tb.late /\ t.turns = tb.turns
      /\ t.seat = tb.seat
  BY <1>2, <1>3 DEF IsTable, TableType
<1> HIDE DEF t
<1>5. Like(tb, t) /\ SameSeats(tb, t)
  BY <1>4 DEF Like, SameSeats
<1>6. TabOK(t) /\ Total(t) = Total(tb)
  BY <1>2, <1>5, LikeOK, LikeSame DEF TabOK
<1>7. CASE SeatsOf(t, u) = {}
  <2>1. tb' = t /\ UNCHANGED <<purse, bank>>
    BY <1>1, <1>7
  <2>2. Outcome(tb, t)
    BY <1>2, <1>5, <1>6, SameOutcome
  <2> QED BY <2>1, <2>2, MovedOK
<1>8. CASE SeatsOf(t, u) # {}
  <2>1. PICK s \in SeatsOf(t, u) : Depart(u, s, t)
    BY <1>1, <1>8
  <2> QED BY <1>5, <1>6, <2>1, DepartOK
<1> QED BY <1>7, <1>8

\* CreditChips.
LEMMA CreditChipsOK ==
  ASSUME Good(tb, purse, bank), NEW u \in Users, CreditChips(u)
  PROVE  StepOK
<1>1. PICK s \in SeatsOf(tb, u) :
         LET t == [tb EXCEPT !.seat[s].chips = @ + 1,
                             !.seat[s].grace = @ /\ tb.seat[s].chips + 1 < Boot]
         IN  tb' = IF Live(t) THEN t ELSE MaybeStart(t)
  BY DEF CreditChips
<1>2. bank > 0 /\ bank' = bank - 1 /\ purse' = purse
  BY DEF CreditChips
<1> DEFINE c == tb.seat[s].chips + 1
           g == tb.seat[s].grace /\ c < Boot
           x == [tb.seat[s] EXCEPT !.chips = c, !.grace = g]
           q == [tb EXCEPT !.seat[s] = x]
<1>3. /\ TabOK(tb) /\ IsTable(tb) /\ s \in Seats /\ tb.seat[s].user # None
      /\ purse \in [Users -> Nat] /\ bank \in Nat
  BY OutcomeTable DEF Good, SeatsOf, Occupied
<1>4. tb.seat \in [Seats -> SeatType] /\ tb.seat[s] \in SeatType /\ tb.seat[s].chips \in Nat
  BY <1>3, SeatNumbers DEF IsTable, TableType
<1>5. tb' = IF Live(q) THEN q ELSE MaybeStart(q)
  <2>1. [tb EXCEPT !.seat[s].chips = @ + 1,
                   !.seat[s].grace = @ /\ tb.seat[s].chips + 1 < Boot] = q
    BY <1>3, <1>4 DEF IsTable, TableType, SeatType
  <2> HIDE DEF q
  <2> QED BY <1>1, <2>1
<1>6. c \in Nat /\ g \in BOOLEAN
  BY <1>4
<1> HIDE DEF g
<1>7. /\ x \in SeatType /\ x.user = tb.seat[s].user /\ x.chips = c
      /\ (x.active <=> tb.seat[s].active) /\ x.missed = tb.seat[s].missed
  BY <1>4, <1>6 DEF SeatType
<1> HIDE DEF x
<1>8. SeatBecomes(tb, q, s, x)
  <2>1. x.active => s \in Active(tb) /\ x.user # None
    BY <1>3, <1>7 DEF Active, Occupied
  <2> QED BY <1>3, <1>7, <2>1, SeatBecomesIs
<1> HIDE DEF q
<1>9. /\ IsTable(q) /\ q.seat[s] = x /\ \A y \in Seats \ {s} : q.seat[y] = tb.seat[y]
      /\ Live(q) <=> Live(tb)
  BY <1>8, SeatBecomesActive DEF SeatBecomes
<1>10. TabOK(tb') /\ SameSeats(q, tb') /\ Total(tb') = Total(q)
  <2>1. CASE LiveOK(tb)
    <3>1. LiveOK(q)
      <4>1. x.active \/ s \notin Active(tb)
        BY <1>7 DEF Active
      <4> QED BY <1>8, <2>1, <4>1, SeatBecomesLive
    <3>2. Live(q)
      BY <3>1 DEF LiveOK, Hand, Mid, Playing
    <3>3. tb' = q
      BY <1>5, <3>2
    <3> QED BY <3>1, <3>3 DEF TabOK, SameSeats
  <2>2. CASE RestOK(tb)
    <3>1. x.user # None /\ x.chips >= tb.seat[s].chips
      BY <1>3, <1>4, <1>7
    <3>2. tb' = MaybeStart(q)
      BY <1>5, <1>9, <2>2 DEF RestOK, Idle
    <3> QED BY <1>8, <2>2, <3>1, <3>2, MorePlayersOK DEF TabOK
  <2> QED BY <1>3, <2>1, <2>2 DEF TabOK
<1>11. Total(q) = Total(tb) + 1 /\ Total(tb) \in Int
  <2>1. Total(q) = Total(tb) - tb.seat[s].chips + x.chips /\ Total(tb) \in Int
    BY <1>8, SeatBecomesTotal
  <2> QED BY <1>4, <1>7, <2>1
<1>12. Worth(tb', purse', bank') = Worth(tb, purse, bank)
  <2> DEFINE a == SumOver(purse, Users)
             b == Total(tb)
  <2>1. a \in Int
    <3>1. IsFiniteSet(Users) /\ \A v \in Users : purse[v] \in Int
      BY <1>3, TableAssumption
    <3> QED BY <3>1, SumInt
  <2>2. /\ Worth(tb', purse', bank') = (b + 1) + a + (bank - 1)
        /\ Worth(tb, purse, bank) = b + a + bank
    BY <1>2, <1>10, <1>11 DEF Worth
  <2>3. b \in Int /\ bank \in Int
    BY <1>3, <1>11
  <2> HIDE DEF a, b
  <2> QED BY <2>1, <2>2, <2>3
<1>13. Lawful(tb, tb')
  <2>1. /\ MaxPot \in Nat
        /\ \A y \in Seats : tb.seat[y].chips \in Nat /\ tb.seat[y].missed \in Nat
    BY <1>3, SeatNumbers, TableAssumption
  <2>2. \A y \in Seats : tb'.seat[y].missed = tb.seat[y].missed
    BY <1>7, <1>9, <1>10 DEF SameSeats
  <2>3. \A y \in Seats : tb'.seat[y].chips <= tb.seat[y].chips + 1 /\ tb'.seat[y].chips \in Int
    <3> SUFFICES ASSUME NEW y \in Seats
                 PROVE  tb'.seat[y].chips <= tb.seat[y].chips + 1 /\ tb'.seat[y].chips \in Int
      OBVIOUS
    <3>1. tb'.seat[y].chips = q.seat[y].chips
      BY <1>10 DEF SameSeats
    <3>2. CASE y = s
      BY <1>4, <1>7, <1>9, <3>1, <3>2
    <3>3. CASE y # s
      BY <1>9, <2>1, <3>1, <3>3
    <3> QED BY <3>2, <3>3
  <2>4. Capped => MaxPot >= 1
    <3>1. Boot \in Nat \ {0} /\ MaxPlayers \in Nat \ {0}
      BY TableAssumption
    <3>2. \A y, z \in Nat \ {0} : y * z >= 1
      OBVIOUS
    <3>3. Boot * MaxPlayers \in Nat
      BY <3>1
    <3> QED BY <2>1, <3>1, <3>2, <3>3 DEF Capped
  <2>5. ASSUME Capped, NEW y \in Occupied(tb)
        PROVE  tb'.seat[y].chips - tb.seat[y].chips <= MaxPot
    BY <2>1, <2>3, <2>4, <2>5 DEF Occupied
  <2>6. \A y \in Seats : ~(tb'.seat[y].missed > tb.seat[y].missed)
    BY <2>1, <2>2
  <2> QED BY <2>5, <2>6 DEF Lawful
<1>14. bank' \in Nat
  BY <1>2, <1>3
<1> QED BY <1>2, <1>3, <1>10, <1>12, <1>13, <1>14 DEF StepOK, Good

\* GraceExpires.
LEMMA GraceExpiresOK ==
  ASSUME Good(tb, purse, bank), NEW s \in Seats, GraceExpires(s)
  PROVE  StepOK
<1> DEFINE k == tb.seat[s].chips < Boot
           x == [tb.seat[s] EXCEPT !.grace = FALSE, !.kick = IF k THEN TRUE ELSE @]
           seat == [tb.seat EXCEPT ![s] = x]
           kicks == IF k THEN tb.kicks \cup {tb.seat[s].user} ELSE tb.kicks
<1>1. /\ s \in Occupied(tb) /\ UNCHANGED <<purse, bank>>
      /\ tb' = IF tb.seat[s].chips >= Boot
               THEN [tb EXCEPT !.seat[s].grace = FALSE]
               ELSE [tb EXCEPT !.seat[s].grace = FALSE, !.seat[s].kick = TRUE,
                               !.kicks = @ \cup {tb.seat[s].user}]
  BY DEF GraceExpires
<1>2. TabOK(tb) /\ IsTable(tb) /\ Boot \in Nat
  BY OutcomeTable, TableAssumption DEF Good
<1>3. /\ tb.seat \in [Seats -> SeatType] /\ tb.seat[s] \in SeatType
      /\ tb.seat[s].chips \in Nat /\ tb.seat[s].user \in Users /\ tb.kicks \in SUBSET Users
  BY <1>1, <1>2, SeatNumbers DEF IsTable, TableType, SeatType, Occupied
<1>4. /\ x \in SeatType /\ x.user = tb.seat[s].user /\ x.chips = tb.seat[s].chips
      /\ (x.active <=> tb.seat[s].active) /\ x.missed = tb.seat[s].missed
      /\ kicks \in SUBSET Users
  BY <1>3 DEF SeatType
<1>5. tb' = [tb EXCEPT !.seat = seat, !.kicks = kicks]
  <2>1. CASE k
    <3> DEFINE y == [tb.seat[s] EXCEPT !.grace = FALSE, !.kick = TRUE]
    <3>1. x = y /\ kicks = tb.kicks \cup {tb.seat[s].user}
      BY <2>1
    <3>2. tb' = [tb EXCEPT !.seat[s].grace = FALSE, !.seat[s].kick = TRUE,
                           !.kicks = tb.kicks \cup {tb.seat[s].user}]
      BY <1>1, <1>2, <1>3, <2>1
    <3> HIDE DEF x, kicks, k
    <3>3. tb' = [tb EXCEPT !.seat = [tb.seat EXCEPT ![s] = y],
                           !.kicks = tb.kicks \cup {tb.seat[s].user}]
      BY <1>2, <1>3, <3>2 DEF IsTable, TableType, SeatType
    <3> QED BY <3>1, <3>3
  <2>2. CASE ~k
    <3> DEFINE y == [tb.seat[s] EXCEPT !.grace = FALSE]
    <3>1. x = y /\ kicks = tb.kicks
      BY <1>3, <2>2 DEF SeatType
    <3>2. tb' = [tb EXCEPT !.seat[s].grace = FALSE]
      BY <1>1, <1>2, <1>3, <2>2
    <3> HIDE DEF x, kicks, k
    <3>3. tb' = [tb EXCEPT !.seat = [tb.seat EXCEPT ![s] = y], !.kicks = tb.kicks]
      BY <1>2, <1>3, <3>2 DEF IsTable, TableType, SeatType
    <3> QED BY <3>1, <3>3
  <2> QED BY <2>1, <2>2
<1> HIDE DEF x, kicks
<1>6. /\ seat \in [Seats -> SeatType] /\ seat[s] = x
      /\ \A y \in Seats \ {s} : seat[y] = tb.seat[y]
  BY <1>3, <1>4
<1> HIDE DEF seat
<1>7. /\ IsTable(tb') /\ tb'.phase = tb.phase /\ tb'.pot = tb.pot /\ tb'.round = tb.round
      /\ tb'.turn = tb.turn /\ tb'.start = tb.start /\ tb'.side = tb.side
      /\ tb'.turnClock = tb.turnClock /\ tb'.sideClock = tb.sideClock
      /\ tb'.startClock = tb.startClock /\ tb'.late = tb.late /\ tb'.turns = tb.turns
      /\ tb'.seat = seat
  BY <1>2, <1>4, <1>5, <1>6 DEF IsTable, TableType
<1>8. \A y \in Seats : /\ seat[y].user = tb.seat[y].user /\ seat[y].chips = tb.seat[y].chips
                       /\ (seat[y].active <=> tb.seat[y].active)
                       /\ seat[y].missed = tb.seat[y].missed
  BY <1>4, <1>6
<1>9. \A y \in Seats : seat[y].active = tb.seat[y].active
  <2> SUFFICES ASSUME NEW y \in Seats PROVE seat[y].active = tb.seat[y].active
    OBVIOUS
  <2>1. seat[y] \in SeatType /\ tb.seat[y] \in SeatType
    BY <1>3, <1>6
  <2>2. seat[y].active \in BOOLEAN /\ tb.seat[y].active \in BOOLEAN
    BY <2>1 DEF SeatType
  <2> QED BY <1>8, <2>2
<1>10. Like(tb, tb')
  BY <1>7, <1>8, <1>9 DEF Like
<1>11. \A y \in Seats : tb'.seat[y].missed <= tb.seat[y].missed
  <2>1. \A y \in Seats : tb.seat[y].missed \in Nat
    BY <1>2, SeatNumbers
  <2> QED BY <1>7, <1>8, <2>1
<1> QED BY <1>1, <1>10, <1>11, MovedLike

-----------------------------------------------------------------------------
(* The invariant *)

IInv == Good(tb, purse, bank)
        /\ Worth(tb, purse, bank) = Cardinality(Users) * Purse + Bank

\* The empty table.
LEMMA NobodyThere ==
  ASSUME Init
  PROVE  /\ IsTable(tb) /\ tb.phase = "waiting" /\ tb.pot = 0 /\ tb.side = {}
         /\ ~tb.turnClock /\ ~tb.startClock /\ tb.late = {}
         /\ \A s \in Seats : /\ tb.seat[s].user = None /\ ~tb.seat[s].active
                             /\ tb.seat[s].chips = 0
         /\ purse = [u \in Users |-> Purse] /\ bank = Bank
<1> DEFINE e == EmptySeat
           seat == [s \in Seats |-> e]
           turns == [s \in Seats |-> 0]
<1>1. MaxMissedTurns \in Nat
  BY TableAssumption
<1>2. e \in SeatType /\ e.user = None /\ ~e.active /\ e.chips = 0
  BY <1>1 DEF EmptySeat, SeatType
<1>3. tb = [phase |-> "waiting", seat |-> seat,
             dealer |-> NoSeat, pot |-> 0, stake |-> 0, round |-> 0,
             turn |-> NoSeat, start |-> NoSeat, side |-> {},
             turnClock |-> FALSE, sideClock |-> FALSE, startClock |-> FALSE,
             late |-> {}, kicks |-> {}, turns |-> turns]
      /\ purse = [u \in Users |-> Purse] /\ bank = Bank
  BY DEF Init
<1> HIDE DEF e
<1>4. seat \in [Seats -> SeatType] /\ turns \in [Seats -> Nat] /\ \A s \in Seats : seat[s] = e
  BY <1>2
<1> HIDE DEF seat, turns
<1>5. IsTable(tb)
  BY <1>3, <1>4 DEF IsTable, TableType
<1> QED BY <1>2, <1>3, <1>4, <1>5

\* The invariant holds of it.
LEMMA Starts == Init => IInv
<1> SUFFICES ASSUME Init PROVE IInv
  OBVIOUS
<1>1. /\ IsTable(tb) /\ tb.phase = "waiting" /\ tb.pot = 0 /\ tb.side = {}
      /\ ~tb.turnClock /\ ~tb.startClock /\ tb.late = {}
      /\ \A s \in Seats : /\ tb.seat[s].user = None /\ ~tb.seat[s].active
                          /\ tb.seat[s].chips = 0
      /\ purse = [u \in Users |-> Purse] /\ bank = Bank
  BY NobodyThere
<1>2. /\ Purse \in Nat /\ Bank \in Nat /\ IsFiniteSet(Users)
      /\ MinPlayers \in Nat /\ MinPlayers >= 2
  BY TableAssumption
<1>3. ~Live(tb) /\ Funded(tb) = {} /\ \A k : ~Queued(tb, k)
  BY <1>1 DEF Live, Funded, Occupied, Queued
<1>4. Core(tb)
  BY <1>1, <1>3 DEF Core, Callbacks, Sides, Nobodies
<1>5. ~(Cardinality(Funded(tb)) >= MinPlayers)
  BY <1>2, <1>3, FS_EmptySet
<1>6. RestOK(tb)
  BY <1>1, <1>3, <1>4, <1>5 DEF RestOK, Idle
<1>7. Good(tb, purse, bank)
  BY <1>1, <1>2, <1>6 DEF Good, TabOK
<1>8. Total(tb) = 0
  <2> DEFINE f == Stacks(tb)
             z == 0
  <2>1. z \in Int /\ \A s \in Seats : f[s] = z
    BY <1>1 DEF Stacks
  <2> HIDE DEF f, z
  <2>2. SumOver(f, Seats) = z * Cardinality(Seats)
    BY <2>1, SeatsAre, SumConstant
  <2>3. Cardinality(Seats) \in Nat
    BY SeatsAre, FS_CardinalityType
  <2>4. SumOver(f, Seats) = 0
    BY <2>2, <2>3 DEF z
  <2> QED BY <1>1, <2>4 DEF f, Total
<1>9. SumOver(purse, Users) = Purse * Cardinality(Users)
  BY <1>1, <1>2, SumConstant
<1>10. Worth(tb, purse, bank) = Cardinality(Users) * Purse + Bank
  <2> DEFINE n == Cardinality(Users)
  <2>1. n \in Nat
    BY <1>2, FS_CardinalityType
  <2>2. Worth(tb, purse, bank) = 0 + Purse * n + Bank
    BY <1>1, <1>8, <1>9 DEF Worth
  <2> HIDE DEF n
  <2>3. 0 + Purse * n + Bank = n * Purse + Bank
    BY <1>2, <2>1
  <2> QED BY <2>2, <2>3 DEF n
<1> QED BY <1>7, <1>10 DEF IInv

\* Stuttering keeps everything.
LEMMA NothingHappens ==
  ASSUME Good(tb, purse, bank), UNCHANGED vars
  PROVE  StepOK
<1>1. tb' = tb /\ purse' = purse /\ bank' = bank
  BY DEF vars
<1>2. IsTable(tb) /\ TabOK(tb)
  BY OutcomeTable DEF Good
<1>3. Outcome(tb, tb)
  BY <1>2, SameOutcome DEF SameSeats
<1> QED BY <1>1, <1>3, MovedOK

\* Every step keeps everything.
LEMMA EveryStep ==
  ASSUME Good(tb, purse, bank), [Next]_vars
  PROVE  StepOK
<1>1. CASE Seating
  <2>1. CASE \E u \in Users : Join(u) \/ Leave(u) \/ KickLands(u) \/ CreditChips(u)
    BY <2>1, JoinOK, LeaveOK, KickLandsOK, CreditChipsOK
  <2>2. CASE \E s \in Seats : GraceExpires(s)
    BY <2>2, GraceExpiresOK
  <2> QED BY <1>1, <2>1, <2>2 DEF Seating
<1>2. CASE Moves
  <2>1. CASE \E s \in Seats :
               \/ See(s) \/ PlaceBet(s) \/ PackMove(s) \/ Show(s) \/ FireMissile(s)
               \/ RequestSideshow(s) \/ ForceSideshow(s)
    BY <2>1, SeeOK, PlaceBetOK, PackMoveOK, ShowOK, FireMissileOK, RequestSideshowOK,
       ForceSideshowOK
  <2>2. CASE \E accept \in BOOLEAN : RespondToSideshow(accept)
    BY <2>2, RespondOK
  <2> QED BY <1>2, <2>1, <2>2 DEF Moves
<1>3. CASE Clocks
  <2>1. CASE TurnClockFires \/ SideClockFires \/ StartClockFires
    BY <2>1, TurnClockOK, SideClockOK, StartClockOK
  <2>2. CASE TurnTimeoutRuns
    BY <2>2, TurnTimeoutOK DEF TurnTimeoutRuns
  <2>3. CASE SideTimeoutRuns
    BY <2>3, SideTimeoutOK DEF SideTimeoutRuns
  <2>4. CASE CountdownRuns
    BY <2>4, CountdownOK DEF CountdownRuns
  <2> QED BY <1>3, <2>1, <2>2, <2>3, <2>4 DEF Clocks
<1>4. CASE UNCHANGED vars
  BY <1>4, NothingHappens
<1> QED BY <1>1, <1>2, <1>3, <1>4 DEF Next

\* The invariant holds of every state of every run, for any number of players, seats,
\* chips and callbacks in the mailbox, and any limits.
THEOREM Inductive == Spec => []IInv
<1>1. IInv /\ [Next]_vars => IInv'
  <2> SUFFICES ASSUME IInv, [Next]_vars PROVE IInv'
    OBVIOUS
  <2>1. StepOK
    BY EveryStep DEF IInv
  <2> QED BY <2>1 DEF StepOK, IInv
<1> QED BY <1>1, Starts, PTL DEF Spec

\* What the runs check follows from the invariant: types and at most one sideshow;
LEMMA TypesFollow == IInv => TypeOK
<1> SUFFICES ASSUME IInv PROVE TypeOK
  OBVIOUS
<1>1. TabOK(tb) /\ purse \in [Users -> Nat] /\ bank \in Nat
  BY DEF IInv, Good
<1>2. tb \in TableType
  BY <1>1, OutcomeTable DEF IsTable
<1>3. \A p, q \in tb.side : p = q
  BY <1>1 DEF TabOK, LiveOK, RestOK, Idle, Hand, Mid, Playing, Core, Sides
<1>4. Cardinality(tb.side) <= 1
  <2>1. CASE tb.side = {}
    BY <2>1, FS_EmptySet
  <2>2. CASE tb.side # {}
    <3>1. PICK p \in tb.side : TRUE
      BY <2>2
    <3>2. tb.side = {p}
      BY <1>3, <3>1
    <3>3. Cardinality({p}) = 1
      BY FS_Singleton
    <3> QED BY <3>2, <3>3
  <2> QED BY <2>1, <2>2
<1> QED BY <1>1, <1>2, <1>4 DEF TypeOK

\* The table, the purses and the bank keep their types, and at most one sideshow is pending.
THEOREM TypesHold == Spec => []TypeOK
BY Inductive, TypesFollow, PTL

\* two players in, one of them on turn, and a clock or a callback to come;
LEMMA HandFollows == IInv => HandCanMove
<1> SUFFICES ASSUME IInv, Live(tb)
    PROVE  /\ Cardinality(Active(tb)) >= 2
           /\ tb.turn \in Active(tb)
           /\ \/ tb.turnClock \/ Queued(tb, "turn")
              \/ tb.side # {} /\ (tb.sideClock \/ Queued(tb, "side"))
  BY DEF HandCanMove
<1>1. LiveOK(tb)
  BY DEF IInv, Good, TabOK, RestOK, Idle
<1>2. Cardinality(Active(tb)) >= 2
  <2>1. Active(tb) \in SUBSET Seats
    BY DEF Active, Occupied
  <2>2. \E x, y \in Active(tb) : x # y
    BY <1>1 DEF LiveOK, Hand
  <2> QED BY <2>1, <2>2, TwoOf
<1>3. tb.turn \in Active(tb)
  BY <1>1 DEF LiveOK, Hand
<1>4. \/ tb.turnClock \/ Queued(tb, "turn")
      \/ tb.side # {} /\ (tb.sideClock \/ Queued(tb, "side"))
  BY <1>1 DEF LiveOK, Goes, Hand, Mid, Playing, Core, Sides
<1> QED BY <1>2, <1>3, <1>4

\* A live hand can always move on: whatever the order of bets, packs, departures, late
\* timeouts and answers, something will give the turn's holder their say (setTurn,
\* settleSideshow, resolveIfOnlyOneLeft).
THEOREM HandsMove == Spec => []HandCanMove
BY Inductive, HandFollows, PTL

\* a countdown exactly where a deal can be made;
LEMMA CountdownFollows == IInv => CountdownIffDealable
<1> SUFFICES ASSUME IInv, ~Live(tb)
    PROVE  /\ tb.phase = "starting" <=> Cardinality(Funded(tb)) >= MinPlayers
           /\ tb.phase = "starting" => tb.startClock \/ Queued(tb, "start")
  BY DEF CountdownIffDealable
<1>1. RestOK(tb)
  BY DEF IInv, Good, TabOK, LiveOK, Hand, Mid, Playing
<1> QED BY <1>1 DEF RestOK, Idle

\* Between hands the countdown runs exactly when enough seats can pay the boot
\* (maybeStart, cancelStart).
THEOREM CountdownRight == Spec => []CountdownIffDealable
BY Inductive, CountdownFollows, PTL

\* the sum of all chips;
LEMMA ChipsFollow == IInv => ChipsConserved
BY DEF IInv, ChipsConserved, Worth, Total, SumOver

\* No chip is made or lost by any bet, win, departure, kick or purchase (chargeToPot,
\* endHand, startHand, removePlayer, CreditChips).
THEOREM ChipsKept == Spec => []ChipsConserved
BY Inductive, ChipsFollow, PTL

\* and the count of turns.
LEMMA RoundsFollow == IInv => FairRounds
<1> SUFFICES ASSUME IInv, Live(tb), NEW s \in Active(tb)
    PROVE  tb.turns[s] = tb.round +
                (IF Distance(tb.start, s) <= Distance(tb.start, tb.turn) THEN 1 ELSE 0)
  BY DEF FairRounds
<1>1. LiveOK(tb)
  BY DEF IInv, Good, TabOK, RestOK, Idle
<1> QED BY <1>1 DEF LiveOK, Hand, Mid, Fair

\* Nobody acts twice in a round and nobody still in is passed over (advanceTurn).
THEOREM RoundsFair == Spec => []FairRounds
BY Inductive, RoundsFollow, PTL

\* No hand pays anybody more than the cap, where the cap is worth a boot per seat
\* (betOptions, potCapReached).
THEOREM PotCapped == Spec => PotWithinCap
<1> DEFINE Paid == MaxPot >= Boot * MaxPlayers /\ Live(tb) =>
                     \A s \in Occupied(tb) :
                        tb'.seat[s].user = tb.seat[s].user =>
                            tb'.seat[s].chips - tb.seat[s].chips <= MaxPot
<1>1. IInv /\ [Next]_vars => Paid
  BY EveryStep DEF IInv, StepOK, Lawful, Capped
<1>2. PotWithinCap <=> [][Paid]_vars
  BY PTL DEF PotWithinCap
<1> HIDE DEF Paid
<1> QED BY <1>1, <1>2, Inductive, PTL DEF Spec

\* A missed turn is counted only against the player whose own clock has run out
\* (setTurn's token, onTurnTimeout).
THEOREM TimeoutsRight == Spec => TimedOutOnlyOnExpiredClock
<1> DEFINE Kept == \A s \in Seats : tb'.seat[s].missed > tb.seat[s].missed =>
                        ~tb.turnClock /\ tb.turn = s
<1>1. IInv /\ [Next]_vars => Kept
  BY EveryStep DEF IInv, StepOK, Lawful
<1>2. TimedOutOnlyOnExpiredClock <=> [][Kept]_vars
  BY PTL DEF TimedOutOnlyOnExpiredClock
<1> HIDE DEF Kept
<1> QED BY <1>1, <1>2, Inductive, PTL DEF Spec
=============================================================================
