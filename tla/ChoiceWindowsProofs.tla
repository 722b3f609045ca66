------------------------ MODULE ChoiceWindowsProofs ------------------------
(***************************************************************************)
(* Proofs about ChoiceWindows, for any number of seats and hands, any      *)
(* round cap, any number of late callbacks and of restarts.                *)
(*                                                                         *)
(* Sound is what the records of a table say of one another between two     *)
(* closures of the actor, whatever overtakes what.  Clocked is that the    *)
(* hand is in one mode at a time, a window, a turn, a sideshow or a        *)
(* showdown put off, and that the mode has its clock armed or its callback *)
(* on the way; it is not kept when a sideshow is asked with the asker's    *)
(* own timeout on its way, which is why it is stated under ~Overtakes.     *)
(***************************************************************************)
EXTENDS ChoiceWindows, Sums

-----------------------------------------------------------------------------
(* The records *)

Places == Seats \cup {NoSeat}
Windows == {"none", "open", "lapsed", "closed"}
Statuses == {"waiting", "active", "packed", "gone"}
Picks == {"none", "open", "lapsed", "picked"}
HandRecords ==
    [no : 0 .. MaxHands, live : BOOLEAN, dealer : Places, start : Places,
     round : 0 .. MaxBetRounds, status : [Seats -> Statuses], blind : [Seats -> BOOLEAN],
     window : Windows, chooser : Places, five : BOOLEAN, pick : [Seats -> Picks],
     turn : Places, turnLapsed : BOOLEAN, longTurn : BOOLEAN, asked : BOOLEAN,
     side : [from : Places, to : Places], sideLapsed : BOOLEAN, deferred : BOOLEAN]
Callbacks == [clock : Clocks, no : 1 .. MaxHands]
Positions == [h : HandRecords, armed : SUBSET Clocks, late : SUBSET Callbacks]

-----------------------------------------------------------------------------
(* The invariant *)

Undecided(h, s) == h.pick[s] \in {"open", "lapsed"}
Two(h) == \E a, b \in Active(h) : a # b
NoneOpen(h) == \A s \in Seats : ~Undecided(h, s)

\* A clock of this hand, or of any, is running or has fired.
On(x, k) == k \in x.armed \/ [clock |-> k, no |-> x.h.no] \in x.late
Pending(x, k) == k \in x.armed \/ \E c \in x.late : c.clock = k

\* Only those who are in have something to pick.
PicksOK(h) == \A s \in Seats : Undecided(h, s) => h.status[s] = "active"
\* A hand that ended compared nobody who had yet to choose.
Ended(h) == /\ h.turn = NoSeat /\ h.side = NoSide /\ ~h.deferred /\ ~Choosing(h)
            /\ ~Two(h) \/ NoneOpen(h)
\* Nothing goes on while the variation is being chosen.
Waiting(h) == /\ h.chooser \in Active(h) /\ h.turn = NoSeat /\ h.side = NoSide
              /\ ~h.deferred /\ ~h.five /\ NoneOpen(h)
RoundGoes(h) == MaxBetRounds = 0 \/ h.round < MaxBetRounds
Sided(h) ==
    h.side # NoSide => /\ h.side.from \in Seats /\ h.side.to \in Seats
                       /\ h.side.from # h.side.to

Sound(x) ==
    /\ x \in Positions /\ PicksOK(x.h)
    /\ Pending(x, "side") => x.h.side # NoSide
    /\ ~x.h.live => Ended(x.h) /\ x.armed = {}
    /\ x.h.live => /\ x.h.no >= 1 /\ Two(x.h) /\ Sided(x.h)
                   /\ Choosing(x.h) => Waiting(x.h)
                   /\ x.h.deferred => x.h.turn = NoSeat
                   /\ ~x.h.deferred => RoundGoes(x.h)

\* The picks have their clock.
PickOn(x) == x.h.live => NoneOpen(x.h) \/ On(x, "pick")
\* The turn has its clock exactly while no sideshow holds it up.
Turns(x) ==
    /\ Pending(x, "turn") => x.h.live /\ x.h.turn # NoSeat /\ x.h.side = NoSide
    /\ x.h.turn # NoSeat /\ x.h.side = NoSide => x.h.turn \in Active(x.h) /\ On(x, "turn")
\* A sideshow has its clock, is its asker's turn, and both parties are in.
Sides(x) ==
    x.h.side # NoSide => /\ On(x, "side") /\ x.h.turn = x.h.side.from
                         /\ {x.h.side.from, x.h.side.to} \subseteq Active(x.h)
\* No callback of an earlier hand's turn or sideshow is left.
Numbered(x) == \A c \in x.late : c.clock \in {"turn", "side"} => c.no = x.h.no
\* A live hand is in one of its modes.
Moves(x) == x.h.live => /\ Choosing(x.h) => On(x, "window")
                        /\ x.h.deferred => ~NoneOpen(x.h) /\ x.h.side = NoSide
                        /\ Choosing(x.h) \/ x.h.deferred \/ x.h.turn # NoSeat
Clocked(x) == PickOn(x) /\ Turns(x) /\ Sides(x) /\ Numbered(x) /\ Moves(x)

Good(x) == Sound(x) /\ (~Overtakes => Clocked(x))
IInv == Good(Here)

-----------------------------------------------------------------------------
(* The seats *)

\* There are N seats, numbered from 0; none is NoSeat.
LEMMA SeatsAre == /\ IsFiniteSet(Seats) /\ Seats \subseteq Nat /\ NoSeat \notin Seats
                  /\ \A a, b \in Int : (a - b) % N \in Int /\ (a - b - 1) % N \in Int
<1>1. N \in Nat \ {0}
  BY ChoiceAssumption
<1>2. IsFiniteSet(0 .. N - 1)
  BY <1>1, FS_Interval
<1>3. \A n \in Nat \ {0} : \A x \in Int : x % n \in Int
  OBVIOUS
<1>4. \A a, b \in Int : (a - b) % N \in Int /\ (a - b - 1) % N \in Int
  BY <1>1, <1>3
<1> QED BY <1>1, <1>2, <1>4 DEF Seats, NoSeat

\* NextOf finds a member (nextOccupiedSeat, nextActiveSeat).
LEMMA NextOfIs ==
  ASSUME NEW S \in SUBSET Seats, S # {}, NEW from \in Places
  PROVE  NextOf(S, from) \in S
<1> DEFINE f == [s \in S |-> (s - from - 1) % N]
<1>0. from \in Int /\ S \subseteq Int /\ IsFiniteSet(S)
  <2>1. IsFiniteSet(S)
    BY SeatsAre, FS_Subset
  <2>2. from \in Int /\ S \subseteq Int
    BY SeatsAre DEF Places, NoSeat
  <2> QED BY <2>1, <2>2
<1>1. \E s \in S : \A t \in S : f[s] <= f[t]
  <2>1. \A x \in S : f[x] \in Int
    BY <1>0, SeatsAre
  <2> HIDE DEF f
  <2> QED BY <1>0, <2>1, Lowest
<1>2. \E s \in S : \A t \in S : (s - from - 1) % N <= (t - from - 1) % N
  BY <1>1
<1> QED BY <1>2, Zenon DEF NextOf

\* RightActive finds another player who is in (rightActiveSeat).
LEMMA RightActiveIs ==
  ASSUME NEW h, NEW s \in Seats, RightActive(h, s) # NoSeat
  PROVE  RightActive(h, s) \in Active(h) \ {s}
<1> DEFINE S == Active(h) \ {s}
           f == [o \in S |-> Distance(o, s)]
<1>0. S \in SUBSET Seats /\ S \subseteq Int /\ s \in Int /\ IsFiniteSet(S)
  <2>1. S \in SUBSET Seats
    BY DEF Active
  <2> HIDE DEF S
  <2>2. IsFiniteSet(S)
    BY <2>1, SeatsAre, FS_Subset
  <2>3. S \subseteq Int /\ s \in Int
    BY <2>1, SeatsAre
  <2> QED BY <2>1, <2>2, <2>3
<1>1. S # {}
  BY DEF RightActive
<1> HIDE DEF S
<1>2. \E o \in S : \A p \in S : f[o] <= f[p]
  <2>1. \A x \in S : f[x] \in Int
    BY <1>0, SeatsAre DEF Distance
  <2> HIDE DEF f
  <2> QED BY <1>0, <1>1, <2>1, Lowest
<1>3. \E o \in S : \A p \in S : Distance(o, s) <= Distance(p, s)
  BY <1>2
<1>4. RightActive(h, s) = CHOOSE o \in S : \A p \in S : Distance(o, s) <= Distance(p, s)
  BY <1>1, Zenon DEF RightActive, S
<1> QED BY <1>3, <1>4, Zenon DEF S

\* Fewer than two players are in, or there are two.
LEMMA TwoIs ==
  ASSUME NEW h
  PROVE  /\ Cardinality(Active(h)) <= 1 <=> ~Two(h)
         /\ Cardinality(Active(h)) = 2 => Two(h)
         /\ Two(h) => Active(h) # {}
<1>1. IsFiniteSet(Active(h))
  <2>1. Active(h) \subseteq Seats
    BY DEF Active
  <2> QED BY <2>1, SeatsAre, FS_Subset
<1>2. Cardinality(Active(h)) \in Nat
  BY <1>1, FS_CardinalityType
<1>3. ASSUME Two(h) PROVE Cardinality(Active(h)) > 1
  <2>1. PICK a, b \in Active(h) : a # b
    BY <1>3 DEF Two
  <2>2. {a, b} \subseteq Active(h)
    BY <2>1
  <2>3. Cardinality({a, b}) <= Cardinality(Active(h)) /\ IsFiniteSet({a, b})
    BY <1>1, <2>2, FS_Subset
  <2>4. Cardinality({a}) = 1 /\ IsFiniteSet({a})
    BY FS_Singleton
  <2>5. Cardinality({a} \cup {b}) = 2
    BY <2>1, <2>4, FS_AddElement
  <2>6. {a} \cup {b} = {a, b}
    OBVIOUS
  <2> QED BY <1>2, <2>3, <2>5, <2>6
<1>4. ASSUME ~Two(h) PROVE Cardinality(Active(h)) <= 1
  <2>1. CASE Active(h) = {}
    BY <2>1, FS_EmptySet
  <2>2. CASE Active(h) # {}
    <3>1. PICK a : Active(h) = {a}
      BY <1>4, <2>2 DEF Two
    <3> QED BY <3>1, FS_Singleton
  <2> QED BY <2>1, <2>2
<1>5. Two(h) => Active(h) # {}
  BY DEF Two
<1> QED BY <1>2, <1>3, <1>4, <1>5

-----------------------------------------------------------------------------
(* The fields a method leaves alone, and those it sets *)

SameHand(h, g) == /\ g.no = h.no /\ (g.live <=> h.live) /\ g.window = h.window
                  /\ g.chooser = h.chooser /\ (g.five <=> h.five)
SameSeats(h, g) == g.status = h.status /\ g.pick = h.pick
SameGoing(h, g) == g.side = h.side /\ (g.deferred <=> h.deferred) /\ g.round = h.round

Dropped(callbacks, k) == {c \in callbacks : c.clock # k}

\* The fields of a hand.
LEMMA HandFields ==
  ASSUME NEW h \in HandRecords
  PROVE  /\ h.no \in 0 .. MaxHands /\ h.live \in BOOLEAN
         /\ h.dealer \in Places /\ h.start \in Places /\ h.round \in 0 .. MaxBetRounds
         /\ h.status \in [Seats -> Statuses] /\ h.blind \in [Seats -> BOOLEAN]
         /\ h.window \in Windows /\ h.chooser \in Places /\ h.five \in BOOLEAN
         /\ h.pick \in [Seats -> Picks] /\ h.turn \in Places
         /\ h.turnLapsed \in BOOLEAN /\ h.longTurn \in BOOLEAN /\ h.asked \in BOOLEAN
         /\ h.side \in [from : Places, to : Places]
         /\ h.sideLapsed \in BOOLEAN /\ h.deferred \in BOOLEAN
BY DEF HandRecords

\* The fields of a position.
LEMMA PositionFields ==
  ASSUME NEW x \in Positions
  PROVE  /\ x.h \in HandRecords /\ x.armed \in SUBSET Clocks /\ x.late \in SUBSET Callbacks
         /\ x = [h |-> x.h, armed |-> x.armed, late |-> x.late]
BY DEF Positions

\* A position from its parts.
LEMMA PositionIs ==
  ASSUME NEW g \in HandRecords, NEW a \in SUBSET Clocks, NEW l \in SUBSET Callbacks,
         NEW r, r = [h |-> g, armed |-> a, late |-> l]
  PROVE  r \in Positions /\ r.h = g /\ r.armed = a /\ r.late = l
BY DEF Positions

\* Who has the turn (setTurn).
Turned(h, s, lapsed, long, asked) ==
    [h EXCEPT !.turn = s, !.turnLapsed = lapsed, !.longTurn = long, !.asked = asked]
\* It changes nothing else the invariant reads.
LEMMA TurnedIs ==
  ASSUME NEW h \in HandRecords, NEW s \in Places, NEW lapsed \in BOOLEAN, NEW long \in BOOLEAN,
         NEW asked \in BOOLEAN,
         NEW g, g = Turned(h, s, lapsed, long, asked)
  PROVE  /\ g \in HandRecords /\ SameHand(h, g) /\ SameSeats(h, g) /\ SameGoing(h, g)
         /\ g.turn = s
BY DEF HandRecords, SameHand, SameSeats, SameGoing, Turned

\* The turn is set, with its clock, and the callbacks of the last one are forgotten (setTurn).
LEMMA SetTurnIs ==
  ASSUME NEW x \in Positions, NEW s \in Seats, NEW fresh \in BOOLEAN,
         NEW r, r = SetTurn(x, s, fresh)
  PROVE  /\ r \in Positions /\ SameHand(x.h, r.h) /\ SameSeats(x.h, r.h) /\ SameGoing(x.h, r.h)
         /\ r.h.turn = s
         /\ r.armed = x.armed \cup {"turn"} /\ r.late = Dropped(x.late, "turn")
<1> DEFINE no == FALSE
           asked == IF fresh THEN no ELSE x.h.asked
           g == Turned(x.h, s, no, no, asked)
           a == x.armed \cup {"turn"}
           l == Dropped(x.late, "turn")
<1>1. /\ x.h \in HandRecords /\ x.armed \in SUBSET Clocks /\ x.late \in SUBSET Callbacks
      /\ x = [h |-> x.h, armed |-> x.armed, late |-> x.late]
  BY PositionFields
<1>2. r = [h |-> g, armed |-> a, late |-> l]
  BY <1>1 DEF SetTurn, Forget, Dropped, Turned
<1>3. no \in BOOLEAN /\ asked \in BOOLEAN /\ s \in Places
  BY <1>1, HandFields DEF Places
<1>4. a \in SUBSET Clocks /\ l \in SUBSET Callbacks
  BY <1>1 DEF Clocks, Dropped
<1> HIDE DEF no, asked
<1>5. /\ g \in HandRecords /\ SameHand(x.h, g) /\ SameSeats(x.h, g) /\ SameGoing(x.h, g)
      /\ g.turn = s
  BY <1>1, <1>3, TurnedIs
<1> HIDE DEF g, a, l
<1>6. r \in Positions /\ r.h = g /\ r.armed = a /\ r.late = l
  BY <1>2, <1>4, <1>5, PositionIs
<1> QED BY <1>5, <1>6 DEF a, l

\* A timer stopped.
LEMMA StopIs ==
  ASSUME NEW x \in Positions, NEW k, NEW r, r = Stop(x, k)
  PROVE  r \in Positions /\ r.h = x.h /\ r.late = x.late /\ r.armed = x.armed \ {k}
<1>1. /\ x.h \in HandRecords /\ x.armed \in SUBSET Clocks /\ x.late \in SUBSET Callbacks
      /\ x = [h |-> x.h, armed |-> x.armed, late |-> x.late]
  BY PositionFields
<1>2. r = [h |-> x.h, armed |-> x.armed \ {k}, late |-> x.late]
  BY <1>1 DEF Stop
<1>3. x.armed \ {k} \in SUBSET Clocks
  BY <1>1
<1> QED BY <1>1, <1>2, <1>3, PositionIs

\* The clock of the picks runs exactly while somebody who sits has one open (armPickTimer).
LEMMA ArmPickIs ==
  ASSUME NEW x \in Positions, NEW r, r = ArmPickTimer(x)
  PROVE  /\ r \in Positions /\ r.h = x.h /\ r.late = x.late
         /\ "pick" \in r.armed <=> x.h.live /\ \E s \in Seated(x.h) : Undecided(x.h, s)
         /\ \A k : k # "pick" => (k \in r.armed <=> k \in x.armed)
<1> DEFINE some == x.h.live /\ \E s \in Seated(x.h) : Undecided(x.h, s)
           a == IF some THEN x.armed \cup {"pick"} ELSE x.armed \ {"pick"}
<1>1. /\ x.h \in HandRecords /\ x.armed \in SUBSET Clocks /\ x.late \in SUBSET Callbacks
      /\ x = [h |-> x.h, armed |-> x.armed, late |-> x.late]
  BY PositionFields
<1>2. r = [h |-> x.h, armed |-> a, late |-> x.late]
  BY <1>1 DEF ArmPickTimer, Undecided
<1>3. a \in SUBSET Clocks
  BY <1>1 DEF Clocks
<1>4. /\ "pick" \in a <=> some
      /\ \A k : k # "pick" => (k \in a <=> k \in x.armed)
  OBVIOUS
<1> HIDE DEF a
<1>5. r \in Positions /\ r.h = x.h /\ r.armed = a /\ r.late = x.late
  BY <1>1, <1>2, <1>3, PositionIs
<1> QED BY <1>4, <1>5

\* With it the picks have their clock.
LEMMA ArmPickOn ==
  ASSUME NEW x \in Positions, PicksOK(x.h), NEW r, r = ArmPickTimer(x)
  PROVE  PickOn(r)
<1>1. /\ r.h = x.h /\ r.late = x.late
      /\ "pick" \in r.armed <=> x.h.live /\ \E s \in Seated(x.h) : Undecided(x.h, s)
  BY ArmPickIs
<1>2. \A s \in Seats : Undecided(x.h, s) => s \in Seated(x.h)
  BY DEF PicksOK, Seated
<1> QED BY <1>1, <1>2 DEF PickOn, On, NoneOpen

\* What becomes of a seat.
Put(h, s, v) == [h EXCEPT !.status[s] = v]
\* Nothing else of the hand changes.
LEMMA PutIs ==
  ASSUME NEW h \in HandRecords, NEW s \in Seats, NEW v \in Statuses, NEW g, g = Put(h, s, v)
  PROVE  /\ g \in HandRecords /\ SameHand(h, g) /\ SameGoing(h, g) /\ g.turn = h.turn
         /\ g.pick = h.pick /\ g.status = [h.status EXCEPT ![s] = v]
<1>1. h.status \in [Seats -> Statuses]
  BY HandFields
<1>2. [h.status EXCEPT ![s] = v] \in [Seats -> Statuses]
  BY <1>1
<1> DEFINE f == [h.status EXCEPT ![s] = v]
<1>3. g = [h EXCEPT !.status = f]
  BY DEF Put
<1> HIDE DEF f
<1>4. /\ g \in HandRecords /\ SameHand(h, g) /\ SameGoing(h, g) /\ g.turn = h.turn
      /\ g.pick = h.pick /\ g.status = f
  BY <1>2, <1>3 DEF f, HandRecords, SameHand, SameGoing
<1> QED BY <1>4 DEF f

\* What becomes of the picks.
Chosen(h, p) == [h EXCEPT !.pick = p]
\* Nothing else of the hand changes.
LEMMA ChosenIs ==
  ASSUME NEW h \in HandRecords, NEW p \in [Seats -> Picks], NEW g, g = Chosen(h, p)
  PROVE  /\ g \in HandRecords /\ SameHand(h, g) /\ SameGoing(h, g) /\ g.turn = h.turn
         /\ g.pick = p /\ g.status = h.status
BY DEF HandRecords, SameHand, SameGoing, Chosen

\* A pick that is dropped (dropPick), and its clock.
LEMMA DropPickIs ==
  ASSUME NEW x \in Positions, NEW s \in Seats, NEW r, r = DropPick(x, s)
  PROVE  /\ r \in Positions /\ r.late = x.late
         /\ SameHand(x.h, r.h) /\ SameGoing(x.h, r.h) /\ r.h.turn = x.h.turn
         /\ r.h.status = x.h.status /\ ~Undecided(r.h, s)
         /\ \A t \in Seats \ {s} : r.h.pick[t] = x.h.pick[t]
         /\ \A k : k # "pick" => (k \in r.armed <=> k \in x.armed)
         /\ \/ r.armed = x.armed /\ r.h.pick = x.h.pick
            \/ "pick" \in r.armed <=> r.h.live /\ \E t \in Seated(r.h) : Undecided(r.h, t)
<1>1. /\ x.h \in HandRecords /\ x.armed \in SUBSET Clocks /\ x.late \in SUBSET Callbacks
      /\ x = [h |-> x.h, armed |-> x.armed, late |-> x.late]
  BY PositionFields
<1>2. CASE ~Undecided(x.h, s)
  <2>1. r = x
    BY <1>2 DEF DropPick, Undecided
  <2> QED BY <1>1, <1>2, <2>1, HandFields DEF SameHand, SameGoing
<1>3. CASE Undecided(x.h, s)
  <2> DEFINE p == [x.h.pick EXCEPT ![s] = "none"]
             g == Chosen(x.h, p)
             y == [h |-> g, armed |-> x.armed, late |-> x.late]
  <2>1. x.h.pick \in [Seats -> Picks]
    BY <1>1, HandFields
  <2>2. p \in [Seats -> Picks] /\ p[s] = "none" /\ \A t \in Seats \ {s} : p[t] = x.h.pick[t]
    BY <2>1 DEF Picks
  <2>3. r = ArmPickTimer(y)
    BY <1>1, <1>3 DEF DropPick, Undecided, Chosen
  <2> HIDE DEF p
  <2>4. /\ g \in HandRecords /\ SameHand(x.h, g) /\ SameGoing(x.h, g) /\ g.turn = x.h.turn
        /\ g.pick = p /\ g.status = x.h.status
    BY <1>1, <2>2, ChosenIs
  <2> HIDE DEF g
  <2>5. y \in Positions /\ y.h = g /\ y.armed = x.armed /\ y.late = x.late
    BY <1>1, <2>4, PositionIs
  <2> HIDE DEF y
  <2>6. /\ r \in Positions /\ r.h = y.h /\ r.late = y.late
        /\ "pick" \in r.armed <=> y.h.live /\ \E t \in Seated(y.h) : Undecided(y.h, t)
        /\ \A k : k # "pick" => (k \in r.armed <=> k \in y.armed)
    BY <2>3, <2>5, ArmPickIs
  <2>7. ~Undecided(r.h, s)
    BY <2>2, <2>4, <2>5, <2>6 DEF Undecided
  <2> QED BY <2>2, <2>4, <2>5, <2>6, <2>7
<1> QED BY <1>2, <1>3

-----------------------------------------------------------------------------
(* A hand in the middle of a handler *)

\* A live hand with nothing broken but, perhaps, its turn's clock and how many
\* are in.
Base(x) ==
    /\ x \in Positions /\ PicksOK(x.h)
    /\ Pending(x, "side") => x.h.side # NoSide
    /\ x.h.live /\ x.h.no >= 1 /\ Sided(x.h) /\ ~Choosing(x.h)
    /\ x.h.deferred => x.h.turn = NoSeat
Tight(x) == PickOn(x) /\ x.h.side = NoSide /\ ~x.h.deferred /\ Numbered(x)
Mid(x) == Base(x) /\ (~Overtakes => Tight(x))

\* Two hands that say the same about who is in.
LEMMA SameIn ==
  ASSUME NEW h, NEW g, SameSeats(h, g)
  PROVE  /\ Active(g) = Active(h) /\ Seated(g) = Seated(h) /\ (Two(g) <=> Two(h))
         /\ (PicksOK(g) <=> PicksOK(h)) /\ (NoneOpen(g) <=> NoneOpen(h))
BY DEF SameSeats, Active, Seated, Two, PicksOK, NoneOpen, Undecided

\* Those who pick are in.
LEMMA PickingIs ==
  ASSUME NEW h, PicksOK(h)
  PROVE  Picking(h, Seats) <=> ~NoneOpen(h)
BY DEF PicksOK, Picking, NoneOpen, Undecided, Active

\* Whoever is in can be given the turn (setTurn).
LEMMA SetTurnOK ==
  ASSUME NEW x, Mid(x), Two(x.h), RoundGoes(x.h), ~x.h.deferred, NEW s \in Active(x.h),
         NEW fresh \in BOOLEAN, NEW r, r = SetTurn(x, s, fresh)
  PROVE  Good(r) /\ r.h.live /\ r.h.side = x.h.side
<1>1. x \in Positions /\ s \in Seats /\ s # NoSeat
  BY SeatsAre DEF Mid, Base, Active
<1>2. /\ r \in Positions /\ SameHand(x.h, r.h) /\ SameSeats(x.h, r.h) /\ SameGoing(x.h, r.h)
      /\ r.h.turn = s
      /\ r.armed = x.armed \cup {"turn"} /\ r.late = Dropped(x.late, "turn")
  BY <1>1, SetTurnIs
<1>3. /\ Active(r.h) = Active(x.h) /\ Two(r.h) /\ PicksOK(r.h)
      /\ (NoneOpen(r.h) <=> NoneOpen(x.h))
  BY <1>2, SameIn DEF Mid, Base
<1>4. r.h.live /\ r.h.side = x.h.side /\ ~r.h.deferred /\ r.h.no = x.h.no /\ ~Choosing(r.h)
  BY <1>2 DEF SameHand, SameGoing, Mid, Base, Choosing
<1>5. \A k : k # "turn" => (On(r, k) <=> On(x, k)) /\ (Pending(r, k) <=> Pending(x, k))
  BY <1>2, <1>4 DEF On, Pending, Dropped
<1>6. Sound(r)
  <2>1. Sided(r.h) /\ RoundGoes(r.h)
    BY <1>2, <1>4 DEF Mid, Base, Sided, RoundGoes, SameGoing
  <2> QED BY <1>2, <1>3, <1>4, <1>5, <2>1 DEF Sound, Mid, Base
<1>7. ASSUME ~Overtakes PROVE Clocked(r)
  <2>1. PickOn(x) /\ x.h.side = NoSide /\ Numbered(x)
    BY <1>7 DEF Mid, Tight
  <2>2. PickOn(r)
    BY <1>3, <1>4, <1>5, <2>1 DEF PickOn, Mid, Base
  <2>3. Turns(r)
    BY <1>1, <1>2, <1>3, <1>4, <2>1 DEF Turns, On
  <2>4. Sides(r)
    BY <1>4, <2>1 DEF Sides
  <2>5. Numbered(r)
    BY <1>2, <1>4, <2>1 DEF Numbered, Dropped
  <2>6. Moves(r)
    BY <1>1, <1>2, <1>4 DEF Moves
  <2> QED BY <2>2, <2>3, <2>4, <2>5, <2>6 DEF Clocked
<1> QED BY <1>4, <1>6, <1>7 DEF Good

\* A hand that is over.
Over(h, live, side, no, turn, no1, no2, window, no3) ==
    [h EXCEPT !.live = live, !.side = side, !.sideLapsed = no, !.turn = turn,
              !.turnLapsed = no1, !.longTurn = no2, !.window = window, !.deferred = no3]
\* It has no turn, no sideshow, no window and no showdown to come.
LEMMA OverIs ==
  ASSUME NEW h \in HandRecords, NEW f \in BOOLEAN, NEW w \in Windows,
         NEW g, g = Over(h, f, NoSide, f, NoSeat, f, f, w, f)
  PROVE  /\ g \in HandRecords /\ (g.live <=> f) /\ g.side = NoSide /\ g.turn = NoSeat
         /\ g.window = w /\ (g.deferred <=> f) /\ SameSeats(h, g) /\ g.no = h.no
<1> DEFINE side == NoSide
<1>1. side \in [from : Places, to : Places] /\ side = NoSide
  BY DEF NoSide, Places
<1>2. NoSeat \in Places
  BY DEF Places
<1> DEFINE a == [h EXCEPT !.live = f, !.side = side, !.sideLapsed = f, !.turn = NoSeat]
           b == [a EXCEPT !.turnLapsed = f, !.longTurn = f, !.window = w, !.deferred = f]
<1>3. b = g
  BY DEF Over
<1> HIDE DEF side
<1>4. /\ a \in HandRecords /\ (a.live <=> f) /\ a.side = side /\ a.turn = NoSeat
      /\ SameSeats(h, a) /\ a.no = h.no
  BY <1>1, <1>2 DEF HandRecords, SameSeats
<1> HIDE DEF a
<1>5. /\ b \in HandRecords /\ (b.live <=> f) /\ b.side = side /\ b.turn = NoSeat
      /\ SameSeats(h, b) /\ b.no = h.no /\ b.window = w /\ (b.deferred <=> f)
  BY <1>2, <1>4 DEF HandRecords, SameSeats
<1> QED BY <1>1, <1>3, <1>5

\* A hand ends with one player in, or with every hand to compare chosen (endHand).
LEMMA EndHandOK ==
  ASSUME NEW x \in Positions, PicksOK(x.h), ~Two(x.h) \/ NoneOpen(x.h),
         NEW r, r = EndHand(x)
  PROVE  Good(r) /\ ~r.h.live
<1> DEFINE no == FALSE
           w == IF Choosing(x.h) THEN "closed" ELSE x.h.window
           g == Over(x.h, no, NoSide, no, NoSeat, no, no, w, no)
           a == {}
           l == {c \in x.late : c.clock \in {"window", "pick"}}
<1>1. /\ x.h \in HandRecords /\ x.armed \in SUBSET Clocks /\ x.late \in SUBSET Callbacks
      /\ x = [h |-> x.h, armed |-> x.armed, late |-> x.late]
  BY PositionFields
<1>2. r = [h |-> g, armed |-> a, late |-> l]
  <2>1. r = [x EXCEPT !.h = g, !.armed = a, !.late = l]
    BY DEF EndHand, Over
  <2> HIDE DEF g, a, l
  <2> QED BY <1>1, <2>1
<1>3. w \in Windows /\ w \notin {"open", "lapsed"}
  BY <1>1, HandFields DEF Windows, Choosing
<1>4. no \in BOOLEAN /\ ~no /\ a \in SUBSET Clocks /\ l \in SUBSET Callbacks
  BY <1>1
<1> HIDE DEF no, w
<1>5. /\ g \in HandRecords /\ (g.live <=> no) /\ g.side = NoSide /\ g.turn = NoSeat
      /\ g.window = w /\ (g.deferred <=> no) /\ SameSeats(x.h, g) /\ g.no = x.h.no
  BY <1>1, <1>3, <1>4, OverIs
<1> HIDE DEF g
<1>6. r \in Positions /\ r.h = g /\ r.armed = {} /\ r.late = l
  BY <1>2, <1>4, <1>5, PositionIs
<1>7. (Two(g) <=> Two(x.h)) /\ PicksOK(g) /\ (NoneOpen(g) <=> NoneOpen(x.h))
  BY <1>5, SameIn
<1>8. ~Pending(r, "turn") /\ ~Pending(r, "side")
  BY <1>6 DEF Pending
<1>9. Sound(r)
  BY <1>3, <1>4, <1>5, <1>6, <1>7, <1>8 DEF Sound, Ended, Choosing
<1>10. Clocked(r)
  <2>1. PickOn(r) /\ Moves(r)
    BY <1>4, <1>5, <1>6 DEF PickOn, Moves
  <2>2. Turns(r) /\ Sides(r)
    BY <1>5, <1>6, <1>8 DEF Turns, Sides
  <2>3. Numbered(r)
    BY <1>6 DEF Numbered
  <2> QED BY <2>1, <2>2, <2>3 DEF Clocked
<1> QED BY <1>4, <1>5, <1>6, <1>9, <1>10 DEF Good

-----------------------------------------------------------------------------
(* Showdowns, the turn handed on, packs *)

\* What a method leaves: all is well, and the sideshow stands unless the hand ended.
Outcome(x, r) == Good(r) /\ (r.h.live => r.h.side = x.h.side)

\* A hand whose showdown waits.
Deferring(h, d, s, no) == [h EXCEPT !.deferred = d, !.turn = s, !.turnLapsed = no, !.longTurn = no]
\* Nobody has the turn.
LEMMA PutOffIs ==
  ASSUME NEW h \in HandRecords, NEW d \in BOOLEAN, NEW no \in BOOLEAN,
         NEW g, g = Deferring(h, d, NoSeat, no)
  PROVE  /\ g \in HandRecords /\ SameHand(h, g) /\ SameSeats(h, g) /\ g.turn = NoSeat
         /\ (g.deferred <=> d) /\ g.side = h.side /\ g.round = h.round
<1>1. NoSeat \in Places
  BY DEF Places
<1> QED BY <1>1 DEF HandRecords, SameHand, SameSeats, Deferring

\* The server's showdown ends the hand, or waits for the picks (serverShowdown).
LEMMA ServerShowdownOK ==
  ASSUME NEW x, Mid(x), Two(x.h), NEW r, r = ServerShowdown(x)
  PROVE  Outcome(x, r)
<1>0. x \in Positions /\ PicksOK(x.h)
  BY DEF Mid, Base
<1>1. CASE NoneOpen(x.h)
  <2>1. r = EndHand(x)
    BY <1>0, <1>1, PickingIs DEF ServerShowdown
  <2> QED BY <1>0, <1>1, <2>1, EndHandOK DEF Outcome
<1>2. CASE ~NoneOpen(x.h)
  <2> DEFINE no == FALSE
             yes == TRUE
             g == Deferring(x.h, yes, NoSeat, no)
             a == x.armed \ {"turn"}
             l == Dropped(x.late, "turn")
  <2>1. /\ x.h \in HandRecords /\ x.armed \in SUBSET Clocks /\ x.late \in SUBSET Callbacks
        /\ x = [h |-> x.h, armed |-> x.armed, late |-> x.late]
    BY <1>0, PositionFields
  <2>2. r = [h |-> g, armed |-> a, late |-> l]
    BY <1>0, <1>2, <2>1, PickingIs DEF ServerShowdown, Deferring, Stop, Forget, Dropped
  <2>3. a \in SUBSET Clocks /\ l \in SUBSET Callbacks
    BY <2>1 DEF Dropped
  <2>11. no \in BOOLEAN /\ yes \in BOOLEAN
    OBVIOUS
  <2>12. yes
    OBVIOUS
  <2> HIDE DEF no, yes
  <2>4. /\ g \in HandRecords /\ SameHand(x.h, g) /\ SameSeats(x.h, g) /\ g.turn = NoSeat
        /\ (g.deferred <=> yes) /\ g.side = x.h.side /\ g.round = x.h.round
    BY <2>1, <2>11, PutOffIs
  <2> HIDE DEF g
  <2>5. r \in Positions /\ r.h = g /\ r.armed = a /\ r.late = l
    BY <2>2, <2>3, <2>4, PositionIs
  <2>6. /\ Active(g) = Active(x.h) /\ Two(g) /\ PicksOK(g) /\ ~NoneOpen(g)
    BY <1>0, <1>2, <2>4, SameIn
  <2>7. g.live /\ g.no = x.h.no /\ ~Choosing(g) /\ g.deferred
    BY <2>4, <2>12 DEF SameHand, Mid, Base, Choosing
  <2>8. /\ \A k : k # "turn" => (On(r, k) <=> On(x, k)) /\ (Pending(r, k) <=> Pending(x, k))
        /\ ~Pending(r, "turn")
    BY <2>5, <2>7 DEF On, Pending, Dropped
  <2>9. Sound(r)
    <3>1. Sided(g)
      BY <2>4 DEF Mid, Base, Sided
    <3> QED BY <2>4, <2>5, <2>6, <2>7, <2>8, <3>1 DEF Sound, Mid, Base
  <2>10. ASSUME ~Overtakes PROVE Clocked(r)
    <3>1. PickOn(x) /\ x.h.side = NoSide /\ Numbered(x) /\ x.h.live
      BY <2>10 DEF Mid, Tight, Base
    <3>2. PickOn(r)
      BY <1>2, <2>8, <3>1 DEF PickOn
    <3>3. Turns(r) /\ Sides(r)
      BY <2>4, <2>5, <2>8, <3>1 DEF Turns, Sides
    <3>4. Numbered(r)
      BY <2>5, <2>7, <3>1 DEF Numbered, Dropped
    <3>5. Moves(r)
      BY <2>4, <2>5, <2>6, <2>7, <3>1 DEF Moves
    <3> QED BY <3>2, <3>3, <3>4, <3>5 DEF Clocked
  <2> QED BY <2>4, <2>5, <2>9, <2>10 DEF Good, Outcome
<1> QED BY <1>1, <1>2

\* A round that is counted.
Rounded(h, n) == [h EXCEPT !.round = n]
Counted(x, n) == [x EXCEPT !.h.round = n]
\* Only the round changes.
LEMMA RoundedIs ==
  ASSUME NEW x \in Positions, NEW n \in 0 .. MaxBetRounds,
         NEW y, y = Counted(x, n)
  PROVE  /\ y \in Positions /\ SameHand(x.h, y.h) /\ SameSeats(x.h, y.h) /\ y.h.round = n
         /\ y.h.turn = x.h.turn /\ y.h.side = x.h.side /\ (y.h.deferred <=> x.h.deferred)
         /\ y.armed = x.armed /\ y.late = x.late
<1> DEFINE g == Rounded(x.h, n)
<1>1. /\ x.h \in HandRecords /\ x.armed \in SUBSET Clocks /\ x.late \in SUBSET Callbacks
      /\ x = [h |-> x.h, armed |-> x.armed, late |-> x.late]
  BY PositionFields
<1>2. y = [h |-> g, armed |-> x.armed, late |-> x.late]
  BY <1>1 DEF Rounded, Counted
<1>3. /\ g \in HandRecords /\ SameHand(x.h, g) /\ SameSeats(x.h, g) /\ g.round = n
      /\ g.turn = x.h.turn /\ g.side = x.h.side /\ (g.deferred <=> x.h.deferred)
  BY <1>1 DEF Rounded, HandRecords, SameHand, SameSeats
<1> HIDE DEF g
<1> QED BY <1>1, <1>2, <1>3, PositionIs

\* A count of the rounds breaks nothing.
LEMMA RoundedMid ==
  ASSUME NEW x, Mid(x), Two(x.h), NEW n \in 0 .. MaxBetRounds,
         NEW y, y = Counted(x, n)
  PROVE  /\ Mid(y) /\ Two(y.h) /\ y.h.round = n /\ Active(y.h) = Active(x.h)
         /\ y.h.side = x.h.side /\ (y.h.deferred <=> x.h.deferred)
<1>1. /\ y \in Positions /\ SameHand(x.h, y.h) /\ SameSeats(x.h, y.h) /\ y.h.round = n
      /\ y.h.turn = x.h.turn /\ y.h.side = x.h.side /\ (y.h.deferred <=> x.h.deferred)
      /\ y.armed = x.armed /\ y.late = x.late
  BY RoundedIs DEF Mid, Base
<1>2. /\ Active(y.h) = Active(x.h) /\ Two(y.h) /\ PicksOK(y.h)
      /\ (NoneOpen(y.h) <=> NoneOpen(x.h))
  BY <1>1, SameIn DEF Mid, Base
<1>3. Base(y)
  BY <1>1, <1>2 DEF Mid, Base, SameHand, Choosing, Sided, Pending
<1>4. Tight(x) => Tight(y)
  BY <1>1, <1>2 DEF Tight, PickOn, Numbered, On, SameHand
<1> QED BY <1>1, <1>2, <1>3, <1>4 DEF Mid

\* The turn goes on, or the showdown comes (advanceTurn).
LEMMA AdvanceOK ==
  ASSUME NEW x, Mid(x), Two(x.h), RoundGoes(x.h), ~x.h.deferred,
         NEW from \in Places, NEW capped \in BOOLEAN, NEW r, r = AdvanceTurn(x, from, capped)
  PROVE  Outcome(x, r)
<1> DEFINE next == NextOf(Active(x.h), from)
           up == RoundOver(x.h, from, next) /\ MaxBetRounds > 0
           round == IF up THEN x.h.round + 1 ELSE x.h.round
           y == Counted(x, round)
           yes == TRUE
<1>1. next \in Active(x.h)
  <2>1. Active(x.h) \in SUBSET Seats /\ Active(x.h) # {}
    BY TwoIs DEF Active
  <2> QED BY <2>1, NextOfIs
<1>2. r = IF capped THEN ServerShowdown(x)
          ELSE IF round > x.h.round /\ RoundCapReached(round) THEN ServerShowdown(y)
          ELSE SetTurn(y, next, yes)
  BY DEF AdvanceTurn, Counted
<1>3. x.h.round \in 0 .. MaxBetRounds /\ MaxBetRounds \in Nat
  BY PositionFields, HandFields, ChoiceAssumption DEF Mid, Base
<1>4. round \in 0 .. MaxBetRounds
  <2> HIDE DEF next
  <2> QED BY <1>3 DEF RoundGoes
<1>5. ~(round > x.h.round /\ RoundCapReached(round)) => MaxBetRounds = 0 \/ round < MaxBetRounds
  <2> HIDE DEF next
  <2>1. up \in BOOLEAN
    BY <1>3 DEF RoundOver
  <2> HIDE DEF up
  <2> QED BY <1>3, <2>1 DEF RoundGoes, RoundCapReached
<1> HIDE DEF round, next
<1>6. /\ Mid(y) /\ Two(y.h) /\ y.h.round = round /\ Active(y.h) = Active(x.h)
      /\ y.h.side = x.h.side /\ (y.h.deferred <=> x.h.deferred)
  BY <1>4, RoundedMid
<1> HIDE DEF y
<1>7. CASE capped
  BY <1>2, <1>7, ServerShowdownOK
<1>8. CASE ~capped /\ round > x.h.round /\ RoundCapReached(round)
  <2>1. Outcome(y, r)
    BY <1>2, <1>6, <1>8, ServerShowdownOK
  <2> QED BY <1>6, <2>1 DEF Outcome
<1>9. CASE ~capped /\ ~(round > x.h.round /\ RoundCapReached(round))
  <2>1. RoundGoes(y.h)
    BY <1>5, <1>6, <1>9 DEF RoundGoes
  <2>2. r = SetTurn(y, next, yes) /\ yes \in BOOLEAN
    BY <1>2, <1>9
  <2> HIDE DEF yes
  <2>3. Good(r) /\ r.h.live /\ r.h.side = y.h.side
    BY <1>1, <1>6, <2>1, <2>2, SetTurnOK
  <2> QED BY <1>6, <2>3 DEF Outcome
<1> QED BY <1>7, <1>8, <1>9

\* A player who is out, with their pick dropped and the turn's clock stopped.
Packed(x, s) == Stop(DropPick([x EXCEPT !.h.status[s] = "packed"], s), "turn")
\* Nothing else of a hand in the middle of a handler is disturbed.
LEMMA PackedIs ==
  ASSUME NEW x, Mid(x), NEW s \in Active(x.h), NEW y, y = Packed(x, s)
  PROVE  /\ Mid(y) /\ Active(y.h) = Active(x.h) \ {s} /\ y.h.turn = x.h.turn
         /\ SameGoing(x.h, y.h)
<1> DEFINE z == [x EXCEPT !.h.status[s] = "packed"]
           g == Put(x.h, s, "packed")
           d == DropPick(z, s)
<1>1. /\ x \in Positions /\ s \in Seats
      /\ x.h \in HandRecords /\ x.armed \in SUBSET Clocks /\ x.late \in SUBSET Callbacks
      /\ x = [h |-> x.h, armed |-> x.armed, late |-> x.late]
  BY PositionFields DEF Mid, Base, Active
<1>2. z = [h |-> g, armed |-> x.armed, late |-> x.late]
  BY <1>1 DEF Put
<1>3. x.h.status \in [Seats -> Statuses] /\ x.h.pick \in [Seats -> Picks]
  BY <1>1, HandFields
<1>4. /\ g \in HandRecords /\ SameHand(x.h, g) /\ SameGoing(x.h, g) /\ g.turn = x.h.turn
      /\ g.pick = x.h.pick /\ g.status = [x.h.status EXCEPT ![s] = "packed"]
  <2> DEFINE v == "packed"
  <2>1. v \in Statuses
    BY DEF Statuses
  <2> HIDE DEF v
  <2>2. /\ Put(x.h, s, v) \in HandRecords /\ SameHand(x.h, Put(x.h, s, v))
        /\ SameGoing(x.h, Put(x.h, s, v)) /\ Put(x.h, s, v).turn = x.h.turn
        /\ Put(x.h, s, v).pick = x.h.pick
        /\ Put(x.h, s, v).status = [x.h.status EXCEPT ![s] = v]
    BY <1>1, <2>1, PutIs
  <2> QED BY <2>2 DEF v
<1>5. y = Stop(d, "turn")
  BY DEF Packed
<1> HIDE DEF z, g
<1>6. z \in Positions /\ z.h = g /\ z.armed = x.armed /\ z.late = x.late
  BY <1>1, <1>2, <1>4, PositionIs
<1>7. /\ d \in Positions /\ d.late = z.late
      /\ SameHand(z.h, d.h) /\ SameGoing(z.h, d.h) /\ d.h.turn = z.h.turn
      /\ d.h.status = z.h.status /\ ~Undecided(d.h, s)
      /\ \A t \in Seats \ {s} : d.h.pick[t] = z.h.pick[t]
      /\ \A k : k # "pick" => (k \in d.armed <=> k \in z.armed)
      /\ \/ d.armed = z.armed /\ d.h.pick = z.h.pick
         \/ "pick" \in d.armed <=> d.h.live /\ \E t \in Seated(d.h) : Undecided(d.h, t)
  BY <1>1, <1>6, DropPickIs
<1> HIDE DEF d
<1>8. y \in Positions /\ y.h = d.h /\ y.late = d.late /\ y.armed = d.armed \ {"turn"}
  BY <1>5, <1>7, StopIs
<1>9. /\ y.h.status = [x.h.status EXCEPT ![s] = "packed"] /\ y.h.turn = x.h.turn
      /\ SameHand(x.h, y.h) /\ SameGoing(x.h, y.h) /\ y.late = x.late
  BY <1>4, <1>6, <1>7, <1>8 DEF SameHand, SameGoing
<1>10. Active(y.h) = Active(x.h) \ {s}
  BY <1>3, <1>9 DEF Active
<1>11. PicksOK(y.h)
  <2> SUFFICES ASSUME NEW t \in Seats, Undecided(y.h, t) PROVE y.h.status[t] = "active"
    BY DEF PicksOK
  <2>1. t # s /\ Undecided(x.h, t)
    BY <1>4, <1>6, <1>7, <1>8 DEF Undecided
  <2>2. x.h.status[t] = "active"
    BY <2>1 DEF Mid, Base, PicksOK
  <2> QED BY <1>3, <1>9, <2>1, <2>2
<1>12. y.h.live /\ y.h.no = x.h.no /\ y.h.side = x.h.side /\ ~Choosing(y.h)
  BY <1>9 DEF SameHand, SameGoing, Mid, Base, Choosing
<1>13. Base(y)
  <2>1. Pending(y, "side") => Pending(x, "side")
    BY <1>6, <1>7, <1>8, <1>9 DEF Pending
  <2>2. Sided(y.h) /\ (y.h.deferred => y.h.turn = NoSeat) /\ y.h.no >= 1
    BY <1>9, <1>12 DEF Mid, Base, Sided, SameGoing
  <2>3. Pending(y, "side") => y.h.side # NoSide
    BY <1>12, <2>1 DEF Mid, Base
  <2> QED BY <1>8, <1>11, <1>12, <2>2, <2>3 DEF Base
<1>14. ASSUME Tight(x) PROVE Tight(y)
  <2>1. PickOn(y)
    <3>1. CASE d.armed = z.armed /\ d.h.pick = z.h.pick
      <4>1. y.h.pick = x.h.pick /\ y.armed = x.armed \ {"turn"}
        BY <1>4, <1>6, <1>8, <3>1
      <4>2. (NoneOpen(y.h) <=> NoneOpen(x.h)) /\ (On(y, "pick") <=> On(x, "pick"))
        BY <1>9, <1>12, <4>1 DEF NoneOpen, Undecided, On
      <4> QED BY <1>14, <4>2 DEF Tight, PickOn, Mid, Base
    <3>2. CASE "pick" \in d.armed <=> d.h.live /\ \E t \in Seated(d.h) : Undecided(d.h, t)
      <4>1. \A t \in Seats : Undecided(d.h, t) => t \in Seated(d.h)
        BY <1>8, <1>11 DEF PicksOK, Seated
      <4>2. "pick" \in y.armed \/ NoneOpen(y.h)
        BY <1>8, <1>12, <3>2, <4>1 DEF NoneOpen
      <4> QED BY <4>2 DEF PickOn, On
    <3> QED BY <1>7, <3>1, <3>2
  <2>2. y.h.side = NoSide /\ ~y.h.deferred
    BY <1>9, <1>14 DEF Tight, SameGoing
  <2>3. Numbered(y)
    BY <1>9, <1>12, <1>14 DEF Tight, Numbered
  <2> QED BY <2>1, <2>2, <2>3 DEF Tight
<1> QED BY <1>9, <1>10, <1>13, <1>14 DEF Mid

\* Two are in, and the turn may be given on.
Half(x) == Mid(x) /\ Two(x.h) /\ (~x.h.deferred => RoundGoes(x.h))

\* A player packs, and the turn goes on (pack, resolveIfOnlyOneLeft).
LEMMA PackAdvance ==
  ASSUME NEW x, Mid(x), RoundGoes(x.h), ~x.h.deferred, NEW s \in Active(x.h),
         NEW capped \in BOOLEAN, NEW r, r = Pack(x, s, TRUE, capped)
  PROVE  Outcome(x, r)
<1> DEFINE y == Packed(x, s)
<1>1. r = IF Cardinality(Active(y.h)) <= 1 THEN EndHand(y) ELSE AdvanceTurn(y, s, capped)
  BY DEF Pack, Packed
<1> HIDE DEF y
<1>2. Mid(y) /\ SameGoing(x.h, y.h)
  BY PackedIs DEF y
<1>3. RoundGoes(y.h) /\ ~y.h.deferred /\ s \in Places /\ y.h.side = x.h.side
  BY <1>2 DEF RoundGoes, SameGoing, Active, Places
<1>4. CASE ~Two(y.h)
  <2>1. r = EndHand(y)
    BY <1>1, <1>4, TwoIs
  <2> QED BY <1>2, <1>4, <2>1, EndHandOK DEF Outcome, Mid, Base
<1>5. CASE Two(y.h)
  <2>1. r = AdvanceTurn(y, s, capped)
    BY <1>1, <1>5, TwoIs
  <2>2. Outcome(y, r)
    BY <1>2, <1>3, <1>5, <2>1, AdvanceOK
  <2> QED BY <1>3, <2>2 DEF Outcome
<1> QED BY <1>4, <1>5

\* A player packs off turn: the hand ends, or it is left as it was, without them.
PackOff(x, s, capped) == Pack(x, s, FALSE, capped)
\* Either the hand ended, or two are still in.
LEMMA PackStay ==
  ASSUME NEW x, Half(x), NEW s \in Active(x.h),
         NEW capped \in BOOLEAN, NEW r, r = PackOff(x, s, capped)
  PROVE  \/ Good(r) /\ ~r.h.live
         \/ Half(r) /\ Active(r.h) = Active(x.h) \ {s} /\ r.h.turn = x.h.turn
            /\ r.h.side = x.h.side
<1> DEFINE y == Packed(x, s)
<1>1. r = IF Cardinality(Active(y.h)) <= 1 THEN EndHand(y) ELSE y
  BY DEF PackOff, Pack, Packed
<1> HIDE DEF y
<1>2. /\ Mid(y) /\ SameGoing(x.h, y.h) /\ Active(y.h) = Active(x.h) \ {s}
      /\ y.h.turn = x.h.turn
  BY PackedIs DEF y, Half
<1>3. CASE ~Two(y.h)
  <2>1. r = EndHand(y)
    BY <1>1, <1>3, TwoIs
  <2> QED BY <1>2, <1>3, <2>1, EndHandOK DEF Mid, Base
<1>4. CASE Two(y.h)
  <2>1. r = y
    BY <1>1, <1>4, TwoIs
  <2> QED BY <1>2, <1>4, <2>1 DEF Half, RoundGoes, SameGoing
<1> QED BY <1>3, <1>4

\* A hand that is half done but for the turn of one who has it.
Resumed(y, from) == IF y.h.live /\ y.h.turn = from /\ y.h.status[from] = "active"
                    THEN SetTurn(y, from, FALSE) ELSE y
\* Whoever asked for the sideshow has the turn and its clock again.
LEMMA ResumeOK ==
  ASSUME NEW y, Half(y), NEW from \in Seats,
         ~Overtakes => y.h.turn = from /\ from \in Active(y.h),
         NEW r, r = Resumed(y, from)
  PROVE  Good(r) /\ r.h.side = y.h.side
<1> DEFINE no == FALSE
<1>1. CASE y.h.turn = from /\ from \in Active(y.h)
  <2>1. r = SetTurn(y, from, no)
    BY <1>1 DEF Half, Mid, Base, Active, Resumed
  <2>2. no \in BOOLEAN
    OBVIOUS
  <2> HIDE DEF no
  <2>3. ~y.h.deferred
    BY <1>1, SeatsAre DEF Half, Mid, Base
  <2> QED BY <1>1, <2>1, <2>2, <2>3, SetTurnOK DEF Half
<1>2. CASE ~(y.h.turn = from /\ from \in Active(y.h))
  <2>1. r = y /\ Overtakes
    BY <1>2, ChoiceAssumption DEF Active, Resumed
  <2> QED BY <2>1 DEF Half, Mid, Base, Sound, Good
<1> QED BY <1>1, <1>2

\* The sideshow is settled: its loser packs, if it has one, and whoever asked
\* has the turn again (settleSideshow).
LEMMA SettleOK ==
  ASSUME NEW x, Half(x), NEW side, side.from \in Seats,
         NEW loser, loser = NoSeat \/ loser \in Active(x.h),
         ~Overtakes => x.h.turn = side.from /\ side.from \in Active(x.h),
         NEW capped \in BOOLEAN, NEW r, r = SettleSideshow(x, side, loser, capped)
  PROVE  Outcome(x, r)
<1> DEFINE y == IF loser = NoSeat THEN x ELSE Pack(x, loser, x.h.turn = loser, capped)
           from == side.from
<1>1. r = Resumed(y, from)
  BY DEF SettleSideshow, Resumed
<1>2. from \in Seats /\ from # NoSeat
  BY SeatsAre
<1>3. CASE loser = NoSeat
  <2>1. y = x
    BY <1>3
  <2> HIDE DEF y, from
  <2>2. ~Overtakes => y.h.turn = from /\ from \in Active(y.h)
    BY <2>1 DEF from
  <2>3. Good(r) /\ r.h.side = y.h.side
    BY <1>1, <1>2, <2>1, <2>2, ResumeOK
  <2> QED BY <2>1, <2>3 DEF Outcome
<1>4. CASE loser # NoSeat /\ x.h.turn = loser
  <2>1. y = Pack(x, loser, TRUE, capped) /\ loser \in Active(x.h)
    BY <1>4
  <2>2. ~x.h.deferred /\ RoundGoes(x.h)
    BY <1>4 DEF Half, Mid, Base
  <2> HIDE DEF y
  <2>3. Outcome(x, y)
    BY <2>1, <2>2, PackAdvance DEF Half
  <2>4. CASE y.h.live /\ y.h.turn = from /\ y.h.status[from] = "active"
    <3>1. Sound(y) /\ y.h.side = x.h.side /\ y.h.live
      BY <2>3, <2>4 DEF Outcome, Good
    <3>2. ~y.h.deferred /\ ~Choosing(y.h)
      BY <1>2, <2>4, <3>1 DEF Sound, Waiting
    <3>3. ~Overtakes => Tight(y)
      BY <2>3, <3>1, <3>2 DEF Outcome, Good, Clocked, Tight, Half, Mid
    <3>4. Half(y)
      BY <3>1, <3>2, <3>3 DEF Half, Mid, Base, Sound
    <3>5. from \in Active(y.h)
      BY <1>2, <2>4 DEF Active
    <3> HIDE DEF from
    <3>6. Good(r) /\ r.h.side = y.h.side
      BY <1>1, <1>2, <2>4, <3>4, <3>5, ResumeOK
    <3> QED BY <3>1, <3>6 DEF Outcome
  <2>5. CASE ~(y.h.live /\ y.h.turn = from /\ y.h.status[from] = "active")
    BY <1>1, <2>3, <2>5 DEF Resumed
  <2> QED BY <2>4, <2>5
<1>5. CASE loser # NoSeat /\ x.h.turn # loser
  <2>1. y = PackOff(x, loser, capped) /\ loser \in Active(x.h)
    BY <1>5 DEF PackOff
  <2> HIDE DEF y
  <2>2. \/ Good(y) /\ ~y.h.live
        \/ Half(y) /\ Active(y.h) = Active(x.h) \ {loser} /\ y.h.turn = x.h.turn
           /\ y.h.side = x.h.side
    BY <2>1, PackStay
  <2>3. CASE Good(y) /\ ~y.h.live
    BY <1>1, <2>3 DEF Outcome, Resumed
  <2>4. CASE Half(y) /\ Active(y.h) = Active(x.h) \ {loser} /\ y.h.turn = x.h.turn
             /\ y.h.side = x.h.side
    <3>1. ~Overtakes => y.h.turn = from /\ from \in Active(y.h)
      BY <1>5, <2>4
    <3> HIDE DEF from
    <3>2. Good(r) /\ r.h.side = y.h.side
      BY <1>1, <1>2, <2>4, <3>1, ResumeOK
    <3> QED BY <2>4, <3>2 DEF Outcome
  <2> QED BY <2>2, <2>3, <2>4
<1> QED BY <1>3, <1>4, <1>5

-----------------------------------------------------------------------------
(* Sideshows, windows and picks that open or close *)

\* All but the clock of the picks.
Loose(x) == Turns(x) /\ Sides(x) /\ Numbered(x) /\ Moves(x)

\* Some callbacks of one clock have been taken: the closure runs on.
Took(w, x, k) == /\ x \in Positions /\ x.h = w.h /\ x.armed = w.armed /\ x.late \subseteq w.late
                 /\ Dropped(x.late, k) = Dropped(w.late, k)

Unsided(h, side, no) == [h EXCEPT !.side = side, !.sideLapsed = no]
\* Nothing else of the hand changes.
LEMMA UnsidedIs ==
  ASSUME NEW h \in HandRecords, NEW no \in BOOLEAN, NEW g, g = Unsided(h, NoSide, no)
  PROVE  /\ g \in HandRecords /\ SameHand(h, g) /\ SameSeats(h, g) /\ g.turn = h.turn
         /\ (g.deferred <=> h.deferred) /\ g.side = NoSide /\ g.round = h.round
<1> DEFINE side == NoSide
<1>1. side \in [from : Places, to : Places]
  BY DEF NoSide, Places
<1> HIDE DEF side
<1>2. LET f == Unsided(h, side, no)
      IN  /\ f \in HandRecords /\ SameHand(h, f) /\ SameSeats(h, f) /\ f.turn = h.turn
          /\ (f.deferred <=> h.deferred) /\ f.side = side /\ f.round = h.round
  BY <1>1 DEF HandRecords, SameHand, SameSeats, Unsided
<1> QED BY <1>2 DEF side

\* A sideshow is over (resolveSideshow): whoever asked can have the turn again.
LEMMA ClosedOK ==
  ASSUME NEW w, Good(w), w.h.live, w.h.side # NoSide, NEW x, Took(w, x, "side"),
         NEW r, r = CloseSideshow(x)
  PROVE  /\ Half(r) /\ r.h.turn = w.h.turn /\ SameSeats(w.h, r.h) /\ r.h.side = NoSide
         /\ SameHand(w.h, r.h) /\ (r.h.deferred <=> w.h.deferred) /\ Active(r.h) = Active(w.h)
         /\ w.h.side.from \in Seats /\ w.h.side.to \in Seats /\ w.h.side.from # w.h.side.to
         /\ ~Overtakes => /\ r.h.turn = w.h.side.from
                          /\ {w.h.side.from, w.h.side.to} \subseteq Active(r.h)
<1> DEFINE no == FALSE
           g == Unsided(x.h, NoSide, no)
           a == x.armed \ {"side"}
           l == Dropped(x.late, "side")
<1>1. /\ x \in Positions
      /\ x.h \in HandRecords /\ x.armed \in SUBSET Clocks /\ x.late \in SUBSET Callbacks
      /\ x = [h |-> x.h, armed |-> x.armed, late |-> x.late]
  BY PositionFields DEF Took
<1>2. r = [h |-> g, armed |-> a, late |-> l]
  BY <1>1 DEF CloseSideshow, Unsided, Stop, Forget, Dropped
<1>3. a \in SUBSET Clocks /\ l \in SUBSET Callbacks /\ no \in BOOLEAN
  BY <1>1 DEF Dropped
<1> HIDE DEF no
<1>4. /\ g \in HandRecords /\ SameHand(x.h, g) /\ SameSeats(x.h, g) /\ g.turn = x.h.turn
      /\ (g.deferred <=> x.h.deferred) /\ g.side = NoSide /\ g.round = x.h.round
  BY <1>1, <1>3, UnsidedIs
<1> HIDE DEF g
<1>5. r \in Positions /\ r.h = g /\ r.armed = a /\ r.late = l
  BY <1>2, <1>3, <1>4, PositionIs
<1>6. /\ SameHand(w.h, g) /\ SameSeats(w.h, g) /\ g.turn = w.h.turn /\ g.round = w.h.round
      /\ (g.deferred <=> w.h.deferred)
  BY <1>4 DEF Took
<1>7. /\ Active(g) = Active(w.h) /\ (Two(g) <=> Two(w.h)) /\ (PicksOK(g) <=> PicksOK(w.h))
      /\ (NoneOpen(g) <=> NoneOpen(w.h))
  BY <1>6, SameIn
<1>8. Sound(w) /\ ~Choosing(w.h)
  BY DEF Good, Sound, Waiting
<1>9. g.live /\ g.no = w.h.no /\ ~Choosing(g)
  BY <1>6, <1>8 DEF SameHand, Choosing
<1>10. ~Pending(r, "side")
  BY <1>5 DEF Pending, Dropped
<1>11. Base(r)
  BY <1>4, <1>5, <1>6, <1>7, <1>8, <1>9, <1>10 DEF Base, Sound, Sided
<1>12. ASSUME ~Overtakes PROVE Tight(r)
  <2>1. PickOn(w) /\ Numbered(w) /\ Moves(w)
    BY <1>12 DEF Good, Clocked
  <2>2. On(w, "pick") => On(r, "pick")
    <3>1. r.late = Dropped(w.late, "side") /\ r.armed = w.armed \ {"side"}
      BY <1>5 DEF Took
    <3> QED BY <1>5, <1>9, <3>1 DEF On, Dropped
  <2>3. PickOn(r)
    BY <1>5, <1>7, <1>9, <2>1, <2>2 DEF PickOn
  <2>4. Numbered(r)
    BY <1>5, <1>9, <2>1 DEF Numbered, Dropped, Took
  <2>5. ~g.deferred
    BY <1>6, <2>1 DEF Moves
  <2> QED BY <1>4, <1>5, <2>3, <2>4, <2>5 DEF Tight
<1>13. Half(r)
  BY <1>5, <1>6, <1>7, <1>8, <1>11, <1>12 DEF Half, Mid, Sound, RoundGoes
<1>14. ~Overtakes => /\ w.h.turn = w.h.side.from
                     /\ {w.h.side.from, w.h.side.to} \subseteq Active(w.h)
  BY DEF Good, Clocked, Sides
<1> QED BY <1>4, <1>5, <1>6, <1>7, <1>8, <1>13, <1>14 DEF Sound, Sided

\* The turn of a player who picks is pushed out (extendTurn).
LEMMA ExtendIs ==
  ASSUME NEW x \in Positions, NEW s \in Seats, NEW r, r = ExtendTurnForPick(x, s)
  PROVE  /\ r \in Positions /\ SameHand(x.h, r.h) /\ SameSeats(x.h, r.h) /\ SameGoing(x.h, r.h)
         /\ r.h.turn = x.h.turn
         /\ \/ r = x
            \/ /\ x.h.turn = s /\ x.h.side = NoSide
               /\ r.armed = x.armed \cup {"turn"} /\ r.late = Dropped(x.late, "turn")
<1> DEFINE no == FALSE
           yes == TRUE
           long == x.h.turn = s /\ x.h.side = NoSide /\ x.h.pick[s] = "open" /\ ~x.h.longTurn
           g == Turned(x.h, x.h.turn, no, yes, x.h.asked)
           a == x.armed \cup {"turn"}
           l == Dropped(x.late, "turn")
<1>1. /\ x.h \in HandRecords /\ x.armed \in SUBSET Clocks /\ x.late \in SUBSET Callbacks
      /\ x = [h |-> x.h, armed |-> x.armed, late |-> x.late]
  BY PositionFields
<1>2. CASE ~long
  <2>1. r = x
    BY <1>2 DEF ExtendTurnForPick
  <2> QED BY <1>1, <2>1 DEF SameHand, SameSeats, SameGoing
<1>3. CASE long
  <2>0. /\ x.h.turn \in Places /\ x.h.asked \in BOOLEAN /\ x.h.turn = s /\ x.h.side = NoSide
    BY <1>1, <1>3, HandFields
  <2>1. g = [x.h EXCEPT !.turnLapsed = no, !.longTurn = yes]
    BY <1>1 DEF Turned, HandRecords
  <2>2. r = [h |-> g, armed |-> a, late |-> l]
    BY <1>1, <1>3, <2>1 DEF ExtendTurnForPick, Forget, Dropped
  <2>3. a \in SUBSET Clocks /\ l \in SUBSET Callbacks
    BY <1>1 DEF Clocks, Dropped
  <2>4. no \in BOOLEAN /\ yes \in BOOLEAN
    OBVIOUS
  <2> HIDE DEF no, yes
  <2>5. /\ g \in HandRecords /\ SameHand(x.h, g) /\ SameSeats(x.h, g) /\ SameGoing(x.h, g)
        /\ g.turn = x.h.turn
    BY <1>1, <2>0, <2>4, TurnedIs
  <2> HIDE DEF g, a, l
  <2>6. r \in Positions /\ r.h = g /\ r.armed = a /\ r.late = l
    BY <2>2, <2>3, <2>5, PositionIs
  <2> QED BY <2>0, <2>5, <2>6 DEF a, l
<1> QED BY <1>2, <1>3

\* The turn has its clock before and after.
LEMMA ExtendOK ==
  ASSUME NEW x, Sound(x), ~Overtakes => Loose(x), x.h.live,
         NEW s \in Seats, NEW r, r = ExtendTurnForPick(x, s)
  PROVE  /\ Sound(r) /\ (~Overtakes => Loose(r)) /\ (PickOn(x) => PickOn(r))
         /\ r.h.live /\ r.h.side = x.h.side
<1>1. /\ r \in Positions /\ SameHand(x.h, r.h) /\ SameSeats(x.h, r.h) /\ SameGoing(x.h, r.h)
      /\ r.h.turn = x.h.turn
      /\ \/ r = x
         \/ /\ x.h.turn = s /\ x.h.side = NoSide
            /\ r.armed = x.armed \cup {"turn"} /\ r.late = Dropped(x.late, "turn")
  BY ExtendIs DEF Sound
<1>2. CASE r = x
  BY <1>2
<1>3. CASE /\ x.h.turn = s /\ x.h.side = NoSide
           /\ r.armed = x.armed \cup {"turn"} /\ r.late = Dropped(x.late, "turn")
  <2>1. /\ Active(r.h) = Active(x.h) /\ (Two(r.h) <=> Two(x.h)) /\ (PicksOK(r.h) <=> PicksOK(x.h))
        /\ (NoneOpen(r.h) <=> NoneOpen(x.h))
    BY <1>1, SameIn
  <2>2. /\ r.h.live /\ r.h.side = NoSide /\ r.h.no = x.h.no /\ (Choosing(r.h) <=> Choosing(x.h))
        /\ r.h.turn = s /\ s # NoSeat
    BY <1>1, <1>3, SeatsAre DEF SameHand, SameGoing, Choosing
  <2>3. \A k : k # "turn" => (On(r, k) <=> On(x, k)) /\ (Pending(r, k) <=> Pending(x, k))
    BY <1>3, <2>2 DEF On, Pending, Dropped
  <2>4. ~Choosing(x.h) /\ ~x.h.deferred
    BY <1>3, <2>2 DEF Sound, Waiting
  <2>5. Sound(r)
    BY <1>1, <1>3, <2>1, <2>2, <2>3, <2>4 DEF Sound, Sided, SameGoing, RoundGoes
  <2>6. ASSUME ~Overtakes PROVE Loose(r)
    <3>1. Turns(x) /\ Numbered(x)
      BY <2>6 DEF Loose
    <3>2. Turns(r)
      BY <1>3, <2>1, <2>2, <3>1 DEF Turns, On
    <3>3. Sides(r)
      BY <2>2 DEF Sides
    <3>4. Numbered(r)
      BY <1>3, <2>2, <3>1 DEF Numbered, Dropped
    <3>5. Moves(r)
      BY <1>1, <2>2, <2>4 DEF Moves, SameGoing
    <3> QED BY <3>2, <3>3, <3>4, <3>5 DEF Loose
  <2>7. PickOn(x) => PickOn(r)
    BY <2>1, <2>2, <2>3 DEF PickOn
  <2> QED BY <1>3, <2>2, <2>5, <2>6, <2>7
<1> QED BY <1>1, <1>2, <1>3

\* The clock of the picks is set right (armPickTimer).
LEMMA ArmPickOK ==
  ASSUME NEW x, Sound(x), ~Overtakes => Loose(x), NEW r, r = ArmPickTimer(x)
  PROVE  Good(r) /\ r.h = x.h
<1>1. /\ r \in Positions /\ r.h = x.h /\ r.late = x.late
      /\ "pick" \in r.armed <=> x.h.live /\ \E s \in Seated(x.h) : Undecided(x.h, s)
      /\ \A k : k # "pick" => (k \in r.armed <=> k \in x.armed)
  BY ArmPickIs DEF Sound
<1>2. \A k : k # "pick" => (On(r, k) <=> On(x, k)) /\ (Pending(r, k) <=> Pending(x, k))
  BY <1>1 DEF On, Pending
<1>3. ~x.h.live /\ x.armed = {} => r.armed = {}
  BY <1>1
<1>4. Sound(r)
  BY <1>1, <1>2, <1>3 DEF Sound
<1>5. PickOn(r)
  BY ArmPickOn DEF Sound
<1>6. ASSUME ~Overtakes PROVE Loose(r)
  BY <1>1, <1>2, <1>6 DEF Loose, Turns, Sides, Numbered, Moves
<1> QED BY <1>1, <1>4, <1>5, <1>6 DEF Good, Clocked, Loose

\* A player who looks begins to pick, if the variation asks for it (beginPick).
LEMMA BeginPickOK ==
  ASSUME NEW x, Good(x), x.h.live, NEW s \in Active(x.h), NEW r, r = BeginPick(x, s)
  PROVE  Good(r)
<1> DEFINE p == [x.h.pick EXCEPT ![s] = "open"]
           g == Chosen(x.h, p)
           y == [h |-> g, armed |-> x.armed, late |-> x.late]
           z == ExtendTurnForPick(y, s)
           opens == x.h.five /\ ~x.h.blind[s] /\ x.h.pick[s] = "none"
<1>1. /\ x \in Positions /\ s \in Seats
      /\ x.h \in HandRecords /\ x.armed \in SUBSET Clocks /\ x.late \in SUBSET Callbacks
      /\ x = [h |-> x.h, armed |-> x.armed, late |-> x.late]
  BY PositionFields DEF Good, Sound, Active
<1>2. CASE ~opens
  <2>1. r = x
    BY <1>2 DEF BeginPick
  <2> QED BY <2>1
<1>3. CASE opens
  <2>0. x.h.status \in [Seats -> Statuses] /\ x.h.pick \in [Seats -> Picks]
    BY <1>1, HandFields
  <2>1. p \in [Seats -> Picks] /\ p = [t \in Seats |-> IF t = s THEN "open" ELSE x.h.pick[t]]
    BY <2>0 DEF Picks
  <2>2. r = ArmPickTimer(z)
    <3>1. [x EXCEPT !.h.pick[s] = "open"] = y
      BY <1>1 DEF Chosen
    <3> HIDE DEF y
    <3> QED BY <1>3, <3>1 DEF BeginPick
  <2>9. ~Choosing(x.h)
    BY <1>3 DEF Good, Sound, Waiting
  <2> HIDE DEF p, z, opens
  <2>3. /\ g \in HandRecords /\ SameHand(x.h, g) /\ SameGoing(x.h, g) /\ g.turn = x.h.turn
        /\ g.pick = p /\ g.status = x.h.status
    BY <1>1, <2>1, ChosenIs
  <2> HIDE DEF g
  <2>4. y \in Positions /\ y.h = g /\ y.armed = x.armed /\ y.late = x.late
    BY <1>1, <2>3, PositionIs
  <2> HIDE DEF y
  <2>5. /\ Active(g) = Active(x.h) /\ (Two(g) <=> Two(x.h)) /\ ~NoneOpen(g)
    BY <1>1, <2>1, <2>3 DEF Active, Two, NoneOpen, Undecided
  <2>6. PicksOK(g)
    <3> SUFFICES ASSUME NEW t \in Seats, Undecided(g, t) PROVE g.status[t] = "active"
      BY DEF PicksOK
    <3>1. CASE t = s
      BY <2>3, <3>1 DEF Active
    <3>2. CASE t # s
      <4>1. Undecided(x.h, t)
        BY <2>1, <2>3, <3>2 DEF Undecided
      <4> QED BY <2>3, <4>1 DEF Good, Sound, PicksOK
    <3> QED BY <3>1, <3>2
  <2>7. /\ g.live /\ g.side = x.h.side /\ g.no = x.h.no /\ ~Choosing(g)
        /\ (g.deferred <=> x.h.deferred) /\ g.round = x.h.round
    BY <2>3, <2>9 DEF SameHand, SameGoing, Choosing
  <2>8. Sound(y)
    BY <2>3, <2>4, <2>5, <2>6, <2>7 DEF Good, Sound, Sided, RoundGoes, Pending
  <2>10. ASSUME ~Overtakes PROVE Loose(y)
    <3>1. Turns(x) /\ Sides(x) /\ Numbered(x) /\ Moves(x)
      BY <2>10 DEF Good, Clocked
    <3>2. \A k : (On(y, k) <=> On(x, k)) /\ (Pending(y, k) <=> Pending(x, k))
      BY <2>4, <2>7 DEF On, Pending
    <3>3. Turns(y) /\ Sides(y)
      BY <2>3, <2>4, <2>5, <2>7, <3>1, <3>2 DEF Turns, Sides
    <3>4. Numbered(y)
      BY <2>4, <2>7, <3>1 DEF Numbered
    <3>5. Moves(y)
      BY <2>3, <2>4, <2>5, <2>7, <2>9, <3>1 DEF Moves
    <3> QED BY <3>3, <3>4, <3>5 DEF Loose
  <2>11. Sound(z) /\ (~Overtakes => Loose(z))
    BY <1>1, <2>4, <2>7, <2>8, <2>10, ExtendOK DEF z
  <2> QED BY <2>2, <2>11, ArmPickOK
<1> QED BY <1>2, <1>3

\* The window is closed on a variation; nobody has the turn yet.
Closing(h, w, five, p) == [h EXCEPT !.window = w, !.five = five, !.pick = p]
Closed(x, five) == CloseVariation(x, five, FALSE)
\* Nobody has a pick but those who looked, and then only if the variation asks for it.
LEMMA ClosedWindow ==
  ASSUME NEW w, Good(w), w.h.live, Choosing(w.h), NEW x, Took(w, x, "window"),
         NEW five \in BOOLEAN, NEW r, r = Closed(x, five)
  PROVE  /\ Half(r) /\ r.h.turn = NoSeat /\ r.h.side = NoSide /\ ~r.h.deferred
         /\ Active(r.h) = Active(w.h) /\ r.h.status = w.h.status
         /\ ~five => NoneOpen(r.h)
<1> DEFINE lookers == {s \in Active(x.h) : five /\ ~x.h.blind[s]}
           p == [s \in Seats |-> IF s \in lookers THEN "open" ELSE x.h.pick[s]]
           v == "closed"
           g == Closing(x.h, v, five, p)
           y == [h |-> g, armed |-> x.armed \ {"window"}, late |-> x.late]
<1>1. /\ x \in Positions
      /\ x.h \in HandRecords /\ x.armed \in SUBSET Clocks /\ x.late \in SUBSET Callbacks
      /\ x = [h |-> x.h, armed |-> x.armed, late |-> x.late]
  BY PositionFields DEF Took
<1>2. r = ArmPickTimer(y)
  <2> DEFINE z == Stop(x, "window")
             q == [z.h EXCEPT !.window = "closed", !.five = five, !.pick = p]
  <2>0. z = [h |-> x.h, armed |-> x.armed \ {"window"}, late |-> x.late]
    BY <1>1 DEF Stop
  <2>1. Closed(x, five) = ArmPickTimer([z EXCEPT !.h = q])
    BY DEF Closed, CloseVariation
  <2> HIDE DEF z
  <2>2. q = g
    BY <2>0 DEF Closing
  <2> HIDE DEF q, g
  <2>3. [z EXCEPT !.h = q] = y
    BY <2>0, <2>2
  <2> QED BY <2>1, <2>3
<1>3. x.h.pick \in [Seats -> Picks] /\ p \in [Seats -> Picks] /\ v \in Windows
  BY <1>1, HandFields DEF Picks, Windows
<1>4. \A s \in Seats : p[s] = IF s \in lookers THEN "open" ELSE x.h.pick[s]
  OBVIOUS
<1>5. lookers \subseteq Active(x.h) /\ (~five => lookers = {}) /\ v \notin {"open", "lapsed"}
  OBVIOUS
<1> HIDE DEF p, lookers, v
<1>6. /\ g \in HandRecords /\ g.no = x.h.no /\ (g.live <=> x.h.live) /\ g.window = v
      /\ SameGoing(x.h, g) /\ g.turn = x.h.turn /\ g.pick = p /\ g.status = x.h.status
  BY <1>1, <1>3 DEF Closing, HandRecords, SameGoing
<1> HIDE DEF g
<1>7. /\ y \in Positions /\ y.h = g /\ y.armed = x.armed \ {"window"} /\ y.late = x.late
  <2>1. x.armed \ {"window"} \in SUBSET Clocks
    BY <1>1
  <2> QED BY <1>1, <1>6, <2>1, PositionIs
<1> HIDE DEF y
<1>8. /\ r \in Positions /\ r.h = g /\ r.late = x.late
      /\ \A k : k # "pick" => (k \in r.armed <=> k \in y.armed)
  BY <1>2, <1>7, ArmPickIs
<1>9. Sound(w) /\ Waiting(w.h) /\ x.h = w.h
  BY DEF Good, Sound, Took
<1>10. Active(g) = Active(w.h) /\ Two(g) /\ (~five => NoneOpen(g))
  BY <1>4, <1>5, <1>6, <1>9 DEF Active, Two, Sound, Waiting, NoneOpen, Undecided
<1>11. PicksOK(g)
  <2> SUFFICES ASSUME NEW t \in Seats, Undecided(g, t) PROVE g.status[t] = "active"
    BY DEF PicksOK
  <2>1. t \in lookers
    BY <1>4, <1>6, <1>9 DEF Undecided, Waiting, NoneOpen
  <2> QED BY <1>5, <1>6, <2>1 DEF Active
<1>12. /\ g.live /\ g.no = w.h.no /\ ~Choosing(g) /\ g.turn = NoSeat /\ g.side = NoSide
       /\ ~g.deferred /\ g.round = w.h.round
  BY <1>5, <1>6, <1>9 DEF Choosing, Waiting, SameGoing
<1>13. ~Pending(r, "side")
  <2>1. Pending(r, "side") => Pending(w, "side")
    BY <1>7, <1>8 DEF Pending, Took
  <2> QED BY <1>9, <2>1 DEF Sound, Waiting
<1>14. Base(r)
  BY <1>8, <1>9, <1>11, <1>12, <1>13 DEF Base, Sound, Sided
<1>15. ASSUME ~Overtakes PROVE Tight(r)
  <2>1. PickOn(r)
    BY <1>2, <1>7, <1>11, ArmPickOn
  <2>2. Numbered(r)
    BY <1>8, <1>12, <1>15 DEF Numbered, Took, Good, Clocked
  <2> QED BY <1>8, <1>12, <2>1, <2>2 DEF Tight
<1>16. Half(r)
  BY <1>8, <1>9, <1>10, <1>12, <1>14, <1>15 DEF Half, Mid, Sound, RoundGoes, Waiting
<1> QED BY <1>6, <1>8, <1>9, <1>10, <1>12, <1>16

\* The chooser has the first turn (closeVariation).
Opened(x, five) == CloseVariation(x, five, TRUE)
\* The turn has its clock, and so have the picks.
LEMMA OpenedOK ==
  ASSUME NEW w, Good(w), w.h.live, Choosing(w.h), NEW x, Took(w, x, "window"),
         NEW five \in BOOLEAN, NEW r, r = Opened(x, five)
  PROVE  /\ Good(r) /\ r.h.live /\ r.h.side = NoSide /\ r.h.turn \in Seats /\ ~r.h.deferred
         /\ ~Choosing(r.h)
<1> DEFINE y == Closed(x, five)
           yes == TRUE
           z == SetTurn(y, x.h.chooser, yes)
<1>1. r = ExtendTurnForPick(z, x.h.chooser)
  BY DEF Opened, Closed, CloseVariation
<1>2. yes \in BOOLEAN
  OBVIOUS
<1> HIDE DEF y, yes
<1>3. /\ Half(y) /\ y.h.side = NoSide /\ ~y.h.deferred /\ Active(y.h) = Active(w.h)
  BY ClosedWindow DEF y
<1>4. x.h.chooser \in Active(y.h) /\ x.h.chooser \in Seats
  BY <1>3 DEF Good, Sound, Waiting, Took, Active
<1>5. Good(z) /\ z.h.live /\ z.h.side = NoSide
  BY <1>2, <1>3, <1>4, SetTurnOK DEF Half
<1>6. z.h.turn = x.h.chooser
  BY <1>2, <1>3, <1>4, SetTurnIs DEF Half, Mid, Base
<1> HIDE DEF z
<1>7. /\ Sound(r) /\ (~Overtakes => Loose(r)) /\ (PickOn(z) => PickOn(r))
      /\ r.h.live /\ r.h.side = z.h.side
  BY <1>1, <1>4, <1>5, ExtendOK DEF Good, Clocked, Loose
<1>8. r.h.turn = z.h.turn
  BY <1>1, <1>4, <1>5, ExtendIs DEF Good, Sound
<1>9. Good(r)
  BY <1>5, <1>7 DEF Good, Clocked, Loose
<1>10. ~r.h.deferred /\ ~Choosing(r.h)
  BY <1>4, <1>6, <1>7, <1>8, SeatsAre DEF Sound, Waiting
<1> QED BY <1>4, <1>5, <1>6, <1>7, <1>8, <1>9, <1>10

-----------------------------------------------------------------------------
(* The players *)

\* The position a closure starts from.
LEMMA HereIs ==
  ASSUME IInv
  PROVE  /\ Here \in Positions /\ Here.h = hand /\ Here.armed = armed /\ Here.late = late
         /\ Sound(Here) /\ hand \in HandRecords /\ armed \in SUBSET Clocks
         /\ late \in SUBSET Callbacks /\ PicksOK(hand)
<1>1. Here.h = hand /\ Here.armed = armed /\ Here.late = late
  BY DEF Here
<1>2. Sound(Here) /\ Here \in Positions /\ PicksOK(Here.h)
  BY DEF IInv, Good, Sound
<1> QED BY <1>1, <1>2, PositionFields

\* What is right where a closure ends is right in the next state.
LEMMA Stepped ==
  ASSUME NEW r, Good(r), Becomes(r)
  PROVE  IInv'
<1>1. Here' = r
  <2>1. r = [h |-> r.h, armed |-> r.armed, late |-> r.late]
    BY PositionFields DEF Good, Sound
  <2>2. hand' = r.h /\ armed' = r.armed /\ late' = r.late
    BY DEF Becomes
  <2> QED BY <2>1, <2>2 DEF Here
<1> QED BY <1>1 DEF IInv

\* The chooser chooses, in time or past the deadline (selectVariation).
LEMMA SelectVariationOK ==
  ASSUME IInv, NEW s \in Seats, SelectVariation(s)
  PROVE  IInv'
<1> DEFINE no == FALSE
<1>1. Took(Here, Here, "window") /\ Here.h = hand
  BY HereIs DEF Took
<1>2. PICK five \in BOOLEAN : Becomes(Opened(Here, five))
  <2>1. CASE \E five \in BOOLEAN : Becomes(CloseVariation(Here, five, TRUE))
    BY <2>1 DEF Opened
  <2>2. CASE Becomes(CloseVariation(Here, FALSE, TRUE))
    BY <2>2 DEF Opened
  <2> QED BY <2>1, <2>2 DEF SelectVariation
<1>3. hand.live /\ Choosing(hand)
  BY DEF SelectVariation
<1>4. Good(Opened(Here, five))
  BY <1>1, <1>3, OpenedOK DEF IInv
<1> QED BY <1>2, <1>4, Stepped

\* A move that needs the turn.
LEMMA OnTurnIs ==
  ASSUME IInv, NEW s \in Seats, OnTurn(s)
  PROVE  /\ Half(Here) /\ RoundGoes(Here.h) /\ ~Here.h.deferred /\ Here.h.side = NoSide
         /\ s \in Active(Here.h) /\ Here.h.turn = s
<1>1. Here.h = hand /\ Sound(Here)
  BY HereIs
<1>2. /\ hand.live /\ s \in Active(hand) /\ ~Choosing(hand) /\ hand.turn = s
      /\ hand.side = NoSide /\ s # NoSeat
  BY SeatsAre DEF OnTurn
<1>3. ~hand.deferred /\ RoundGoes(hand)
  BY <1>1, <1>2 DEF Sound
<1>4. Base(Here)
  BY <1>1, <1>2, <1>3 DEF Base, Sound
<1>5. ~Overtakes => Tight(Here)
  BY <1>1, <1>2, <1>3 DEF IInv, Good, Clocked, Tight
<1> QED BY <1>1, <1>2, <1>3, <1>4, <1>5 DEF Half, Mid, Sound

\* A bet moves the turn on (bet).
LEMMA BetOK ==
  ASSUME IInv, NEW s \in Seats, Bet(s)
  PROVE  IInv'
<1>1. PICK capped \in BOOLEAN : Becomes(AdvanceTurn(Here, s, capped))
  BY DEF Bet
<1>2. /\ Half(Here) /\ RoundGoes(Here.h) /\ ~Here.h.deferred /\ s \in Places
  BY OnTurnIs DEF Bet, Places
<1>3. Good(AdvanceTurn(Here, s, capped))
  BY <1>2, AdvanceOK DEF Half, Outcome
<1> QED BY <1>1, <1>3, Stepped

\* A player packs on their turn (pack).
LEMMA PackMoveOK ==
  ASSUME IInv, NEW s \in Seats, PackMove(s)
  PROVE  IInv'
<1>1. PICK capped \in BOOLEAN : Becomes(Pack(Here, s, TRUE, capped))
  BY DEF PackMove
<1>2. /\ Half(Here) /\ RoundGoes(Here.h) /\ ~Here.h.deferred /\ s \in Active(Here.h)
  BY OnTurnIs DEF PackMove
<1>3. Good(Pack(Here, s, TRUE, capped))
  BY <1>2, PackAdvance DEF Half, Outcome
<1> QED BY <1>1, <1>3, Stepped

\* A show or a missile ends the hand, with every hand it compares chosen (show, fireMissile).
LEMMA ShowOK ==
  ASSUME IInv, NEW s \in Seats, Show(s)
  PROVE  IInv'
<1>1. Becomes(EndHand(Here)) /\ ~Picking(hand, Seats)
  BY DEF Show, CanShow, CanFire
<1>2. Here \in Positions /\ PicksOK(Here.h) /\ NoneOpen(Here.h)
  BY <1>1, HereIs, PickingIs
<1>3. Good(EndHand(Here))
  BY <1>2, EndHandOK
<1> QED BY <1>1, <1>3, Stepped

\* A sideshow has two parties, both in (sideshowBlockedReason).
LEMMA CanSideshowIs ==
  ASSUME IInv, NEW s \in Seats, CanSideshow(s)
  PROVE  /\ OnTurn(s) /\ RightActive(hand, s) \in Active(hand) /\ RightActive(hand, s) # s
         /\ RightActive(hand, s) \in Seats
<1>1. OnTurn(s) /\ RightActive(hand, s) # NoSeat
  BY DEF CanSideshow
<1>2. RightActive(hand, s) \in Active(hand) \ {s}
  BY <1>1, RightActiveIs
<1> QED BY <1>1, <1>2 DEF Active

\* A sideshow asked for, or forced.
Asked(h, yes) == [h EXCEPT !.asked = yes]
AskedFor(h, yes, side) == [h EXCEPT !.asked = yes, !.side = side]

\* The sideshow's clock takes the place of the turn's (requestSideshow).
LEMMA RequestSideshowOK ==
  ASSUME IInv, NEW s \in Seats, RequestSideshow(s)
  PROVE  IInv'
<1> DEFINE yes == TRUE
           to == RightActive(hand, s)
           side == [from |-> s, to |-> to]
           g == AskedFor(hand, yes, side)
           a == (armed \ {"turn"}) \cup {"side"}
           r == [h |-> g, armed |-> a, late |-> late]
<1>1. /\ CanSideshow(s) /\ (Overtakes \/ Callback("turn") \notin late)
      /\ Becomes([Stop(Here, "turn") EXCEPT
                  !.h.asked = TRUE, !.h.side = [from |-> s, to |-> RightActive(hand, s)],
                  !.armed = @ \cup {"side"}])
  BY DEF RequestSideshow
<1>2. /\ Half(Here) /\ RoundGoes(hand) /\ ~hand.deferred /\ hand.side = NoSide
      /\ s \in Active(hand) /\ hand.turn = s /\ to \in Active(hand) /\ to # s /\ to \in Seats
  BY <1>1, OnTurnIs, CanSideshowIs, HereIs
<1>3. /\ hand \in HandRecords /\ armed \in SUBSET Clocks /\ late \in SUBSET Callbacks
      /\ Here = [h |-> hand, armed |-> armed, late |-> late]
  BY HereIs DEF Here
<1>4. hand' = g /\ armed' = a /\ late' = late
  <2>1. Stop(Here, "turn") = [h |-> hand, armed |-> armed \ {"turn"}, late |-> late]
    BY <1>3 DEF Stop
  <2> DEFINE z == Stop(Here, "turn")
  <2>2. [z EXCEPT !.h.asked = TRUE, !.h.side = side, !.armed = @ \cup {"side"}] = r
    <3> DEFINE b == armed \ {"turn"}
               h1 == Asked(hand, yes)
               q == [z EXCEPT !.h.asked = yes]
               p == [q EXCEPT !.h.side = side]
    <3>1. z = [h |-> hand, armed |-> b, late |-> late]
      BY <2>1
    <3>2. h1 = [hand EXCEPT !.asked = yes] /\ g = [h1 EXCEPT !.side = side]
      BY DEF Asked, AskedFor
    <3>3. q = [z EXCEPT !.h.asked = yes] /\ p = [q EXCEPT !.h.side = side]
      OBVIOUS
    <3> HIDE DEF z, side, to, b, yes, h1, g
    <3>4. q = [h |-> h1, armed |-> b, late |-> late]
      BY <3>1, <3>2
    <3> HIDE DEF q
    <3>5. p = [h |-> g, armed |-> b, late |-> late]
      BY <3>2, <3>4
    <3> HIDE DEF p
    <3>6. [p EXCEPT !.armed = @ \cup {"side"}] = r
      BY <3>5 DEF b
    <3> QED BY <3>6 DEF p, q, yes
  <2>3. Becomes(r)
    BY <1>1, <2>2
  <2> HIDE DEF g, a
  <2> QED BY <2>3 DEF Becomes
<1>5. yes \in BOOLEAN /\ side \in [from : Places, to : Places] /\ side.from = s /\ side.to = to
  BY <1>2 DEF Places
<1>6. side # NoSide
  BY <1>2, SeatsAre DEF NoSide
<1> HIDE DEF yes, side, to
<1>7. /\ g \in HandRecords /\ SameHand(hand, g) /\ SameSeats(hand, g) /\ g.turn = hand.turn
      /\ g.round = hand.round /\ (g.deferred <=> hand.deferred) /\ g.side = side
  BY <1>3, <1>5 DEF AskedFor, HandRecords, SameHand, SameSeats
<1>8. a \in SUBSET Clocks
  BY <1>3 DEF Clocks
<1> HIDE DEF g
<1>9. r \in Positions /\ r.h = g /\ r.armed = a /\ r.late = late
  BY <1>3, <1>7, <1>8, PositionIs
<1> HIDE DEF r
<1>10. /\ Active(g) = Active(hand) /\ Two(g) /\ PicksOK(g)
       /\ (NoneOpen(g) <=> NoneOpen(hand))
  BY <1>2, <1>7, HereIs, SameIn DEF Half
<1>11. g.live /\ g.no = hand.no /\ ~Choosing(g) /\ g.no >= 1
  BY <1>2, <1>7, HereIs DEF Half, Mid, Base, SameHand, Choosing
<1>12. Sound(r)
  <2>1. Sided(g) /\ ~g.deferred /\ RoundGoes(g)
    BY <1>2, <1>5, <1>7 DEF Sided, RoundGoes, Active
  <2> QED BY <1>6, <1>7, <1>9, <1>10, <1>11, <2>1 DEF Sound
<1>13. ASSUME ~Overtakes PROVE Clocked(r)
  <2>1. PickOn(Here) /\ Turns(Here) /\ Numbered(Here) /\ hand.live
    BY <1>2, <1>13, HereIs DEF IInv, Good, Clocked, Half, Mid, Base
  <2>2. PickOn(r)
    BY <1>9, <1>10, <1>11, <2>1, HereIs DEF PickOn, On
  <2>3. ~Pending(r, "turn")
    <3>1. ~ \E c \in late : c.clock = "turn"
      <4> SUFFICES ASSUME NEW c \in late, c.clock = "turn" PROVE FALSE
        OBVIOUS
      <4>1. c.no = hand.no
        BY <2>1, HereIs DEF Numbered
      <4>2. c = Callback("turn")
        BY <1>3, <4>1 DEF Callbacks, Callback
      <4> QED BY <1>1, <1>13, <4>2
    <3> QED BY <1>9, <3>1 DEF Pending
  <2>4. Turns(r)
    BY <1>6, <1>7, <1>9, <2>3 DEF Turns
  <2>5. Sides(r)
    BY <1>2, <1>5, <1>6, <1>7, <1>9, <1>10 DEF Sides, On
  <2>6. Numbered(r)
    BY <1>9, <1>11, <2>1, HereIs DEF Numbered
  <2>7. Moves(r)
    BY <1>2, <1>7, <1>9, <1>11, SeatsAre DEF Moves, Active
  <2> QED BY <2>2, <2>4, <2>5, <2>6, <2>7 DEF Clocked
<1>14. Becomes(r)
  BY <1>4, <1>9 DEF Becomes
<1> QED BY <1>12, <1>13, <1>14, Stepped DEF Good

\* A change the invariant does not read.
Alike(x, y) ==
    /\ y \in Positions /\ y.h.no = x.h.no /\ (y.h.live <=> x.h.live)
    /\ (Choosing(y.h) <=> Choosing(x.h)) /\ y.h.chooser = x.h.chooser /\ (y.h.five <=> x.h.five)
    /\ y.h.status = x.h.status /\ \A s \in Seats : Undecided(y.h, s) <=> Undecided(x.h, s)
    /\ SameGoing(x.h, y.h) /\ y.h.turn = x.h.turn
    /\ y.armed = x.armed /\ y.late = x.late

\* One is a hand that keeps its window and its picks.
LEMMA AlikeIs ==
  ASSUME NEW x, NEW y \in Positions, SameHand(x.h, y.h), SameSeats(x.h, y.h), SameGoing(x.h, y.h),
         y.h.turn = x.h.turn, y.armed = x.armed, y.late = x.late
  PROVE  Alike(x, y)
BY DEF Alike, SameHand, SameSeats, Choosing, Undecided

\* What holds of a position holds of one that is alike.
LEMMA AlikeOK ==
  ASSUME NEW x, NEW y, Alike(x, y)
  PROVE  /\ (Good(x) => Good(y)) /\ (Half(x) => Half(y))
         /\ Active(y.h) = Active(x.h)
<1>1. /\ Active(y.h) = Active(x.h) /\ (Two(y.h) <=> Two(x.h)) /\ (PicksOK(y.h) <=> PicksOK(x.h))
      /\ (NoneOpen(y.h) <=> NoneOpen(x.h))
  BY DEF Alike, Active, Two, PicksOK, NoneOpen
<1>2. /\ (y.h.live <=> x.h.live) /\ y.h.no = x.h.no /\ (Choosing(y.h) <=> Choosing(x.h))
      /\ y.h.turn = x.h.turn /\ y.h.side = x.h.side /\ (y.h.deferred <=> x.h.deferred)
      /\ y.h.round = x.h.round /\ y.h.chooser = x.h.chooser /\ (y.h.five <=> x.h.five)
  BY DEF Alike, SameGoing
<1>3. \A k : (On(y, k) <=> On(x, k)) /\ (Pending(y, k) <=> Pending(x, k))
  BY <1>2 DEF On, Pending, Alike
<1>4. /\ (Numbered(x) => Numbered(y)) /\ (PickOn(x) => PickOn(y))
  BY <1>1, <1>2, <1>3 DEF Numbered, PickOn, Alike
<1>5. Sound(x) => Sound(y)
  <2>1. /\ (Ended(x.h) => Ended(y.h)) /\ (Waiting(x.h) => Waiting(y.h))
        /\ (Sided(x.h) => Sided(y.h)) /\ (RoundGoes(x.h) => RoundGoes(y.h))
    BY <1>1, <1>2 DEF Ended, Waiting, Sided, RoundGoes
  <2> QED BY <1>1, <1>2, <1>3, <2>1 DEF Sound, Alike
<1>6. Clocked(x) => Clocked(y)
  <2>1. (Turns(x) => Turns(y)) /\ (Sides(x) => Sides(y)) /\ (Moves(x) => Moves(y))
    BY <1>1, <1>2, <1>3 DEF Turns, Sides, Moves
  <2> QED BY <1>4, <2>1 DEF Clocked
<1>7. Half(x) => Half(y)
  <2>1. (Sided(x.h) => Sided(y.h)) /\ (RoundGoes(x.h) => RoundGoes(y.h))
    BY <1>2 DEF Sided, RoundGoes
  <2>2. Base(x) => Base(y)
    BY <1>1, <1>2, <1>3, <2>1 DEF Base, Alike
  <2>3. Tight(x) => Tight(y)
    BY <1>2, <1>4 DEF Tight
  <2> QED BY <1>1, <1>2, <2>1, <2>2, <2>3 DEF Half, Mid
<1> QED BY <1>1, <1>5, <1>6, <1>7 DEF Good

\* A player looks (see).
LEMMA SeeOK ==
  ASSUME IInv, NEW s \in Seats, See(s)
  PROVE  IInv'
<1> DEFINE no == FALSE
           f == [hand.blind EXCEPT ![s] = no]
           g == [hand EXCEPT !.blind = f]
           y == [h |-> g, armed |-> armed, late |-> late]
<1>1. /\ hand.live /\ s \in Active(hand)
      /\ Becomes(BeginPick([Here EXCEPT !.h.blind[s] = FALSE], s))
  BY DEF See
<1>2. /\ hand \in HandRecords /\ armed \in SUBSET Clocks /\ late \in SUBSET Callbacks
      /\ Here = [h |-> hand, armed |-> armed, late |-> late] /\ hand.blind \in [Seats -> BOOLEAN]
  BY HereIs, HandFields DEF Here
<1>3. [Here EXCEPT !.h.blind[s] = FALSE] = y
  <2>1. [Here EXCEPT !.h.blind[s] = no] = y
    <3> HIDE DEF no
    <3> QED BY <1>2
  <2> QED BY <2>1
<1>4. f \in [Seats -> BOOLEAN]
  <2>1. no \in BOOLEAN
    OBVIOUS
  <2> HIDE DEF no
  <2> QED BY <1>2, <2>1
<1> HIDE DEF f
<1>5. /\ g \in HandRecords /\ SameHand(hand, g) /\ SameSeats(hand, g) /\ SameGoing(hand, g)
      /\ g.turn = hand.turn
  BY <1>2, <1>4 DEF HandRecords, SameHand, SameSeats, SameGoing
<1> HIDE DEF g
<1>6. y \in Positions /\ y.h = g /\ y.armed = armed /\ y.late = late
  BY <1>2, <1>5, PositionIs
<1> HIDE DEF y
<1>7. Alike(Here, y)
  BY <1>5, <1>6, HereIs, AlikeIs
<1>8. Good(y) /\ y.h.live /\ s \in Active(y.h)
  BY <1>1, <1>5, <1>6, <1>7, AlikeOK, HereIs DEF IInv, SameHand
<1>9. Good(BeginPick(y, s))
  BY <1>8, BeginPickOK
<1> QED BY <1>1, <1>3, <1>9, Stepped

\* Picks are made, and the showdown that waited for them comes
\* (selectCards, expirePicks, runDeferredShowdown).
LEMMA PickedOK ==
  ASSUME NEW w, Good(w), w.h.live, NEW y \in Positions,
         y.armed = w.armed, y.late \subseteq w.late,
         Dropped(y.late, "pick") = Dropped(w.late, "pick"),
         SameHand(w.h, y.h), SameGoing(w.h, y.h), y.h.turn = w.h.turn, y.h.status = w.h.status,
         \A s \in Seats : Undecided(y.h, s) => Undecided(w.h, s),
         NEW r, r = RunDeferred(ArmPickTimer(y))
  PROVE  Good(r)
<1> DEFINE z == ArmPickTimer(y)
<1>1. /\ z \in Positions /\ z.h = y.h /\ z.late = y.late
      /\ \A k : k # "pick" => (k \in z.armed <=> k \in y.armed)
  BY ArmPickIs
<1>2. r = IF DeferredDue(z) THEN EndHand(z) ELSE z
  BY DEF RunDeferred
<1>3. Sound(w)
  BY DEF Good
<1>4. PicksOK(y.h) /\ (NoneOpen(w.h) => NoneOpen(y.h))
  BY <1>3 DEF PicksOK, NoneOpen, Sound
<1>5. PickOn(z)
  BY <1>4, ArmPickOn
<1> HIDE DEF z
<1>6. CASE DeferredDue(z)
  <2>1. NoneOpen(z.h) /\ PicksOK(z.h)
    BY <1>1, <1>4, <1>6, PickingIs DEF DeferredDue
  <2> QED BY <1>1, <1>2, <1>6, <2>1, EndHandOK
<1>7. CASE ~DeferredDue(z)
  <2>1. r = z
    BY <1>2, <1>7
  <2>2. /\ Active(y.h) = Active(w.h) /\ (Two(y.h) <=> Two(w.h))
    BY DEF Active, Two
  <2>3. /\ y.h.live /\ y.h.no = w.h.no /\ (Choosing(y.h) <=> Choosing(w.h))
        /\ y.h.side = w.h.side /\ (y.h.deferred <=> w.h.deferred)
        /\ y.h.round = w.h.round /\ y.h.chooser = w.h.chooser /\ (y.h.five <=> w.h.five)
    BY DEF SameHand, SameGoing, Choosing
  <2>4. \A k : k # "pick" => (On(z, k) <=> On(w, k)) /\ (Pending(z, k) <=> Pending(w, k))
    <3> SUFFICES ASSUME NEW k, k # "pick"
                 PROVE  (On(z, k) <=> On(w, k)) /\ (Pending(z, k) <=> Pending(w, k))
      OBVIOUS
    <3>1. \A c : c.clock = k => (c \in y.late <=> c \in w.late)
      BY DEF Dropped
    <3>2. [clock |-> k, no |-> w.h.no].clock = k
      OBVIOUS
    <3> QED BY <1>1, <2>3, <3>1, <3>2 DEF On, Pending
  <2>5. Sound(z)
    <3>1. /\ (Waiting(w.h) => Waiting(y.h))
          /\ (Sided(w.h) => Sided(y.h)) /\ (RoundGoes(w.h) => RoundGoes(y.h))
      BY <1>4, <2>2, <2>3 DEF Waiting, Sided, RoundGoes
    <3> QED BY <1>1, <1>3, <1>4, <2>2, <2>3, <2>4, <3>1 DEF Sound
  <2>6. ASSUME ~Overtakes PROVE Clocked(z)
    <3>1. Turns(w) /\ Sides(w) /\ Numbered(w) /\ Moves(w)
      BY <2>6 DEF Good, Clocked
    <3>2. Turns(z) /\ Sides(z)
      BY <1>1, <2>2, <2>3, <2>4, <3>1 DEF Turns, Sides
    <3>3. Numbered(z)
      BY <1>1, <2>3, <3>1 DEF Numbered
    <3>4. y.h.deferred => ~NoneOpen(y.h)
      BY <1>1, <1>4, <1>7, <2>3, PickingIs DEF DeferredDue
    <3>5. Moves(z)
      BY <1>1, <2>3, <2>4, <3>1, <3>4 DEF Moves
    <3> QED BY <1>5, <3>2, <3>3, <3>5 DEF Clocked
  <2> QED BY <2>1, <2>5, <2>6 DEF Good
<1> QED BY <1>6, <1>7

\* A player chooses their cards (selectCards).
LEMMA SelectCardsOK ==
  ASSUME IInv, NEW s \in Seats, SelectCards(s)
  PROVE  IInv'
<1> DEFINE p == [hand.pick EXCEPT ![s] = "picked"]
           g == Chosen(hand, p)
           y == [h |-> g, armed |-> armed, late |-> late]
<1>1. /\ hand.live
      /\ Becomes(RunDeferred(ArmPickTimer([Here EXCEPT !.h.pick[s] = "picked"])))
  BY DEF SelectCards
<1>2. /\ hand \in HandRecords /\ armed \in SUBSET Clocks /\ late \in SUBSET Callbacks
      /\ Here = [h |-> hand, armed |-> armed, late |-> late] /\ hand.pick \in [Seats -> Picks]
  BY HereIs, HandFields DEF Here
<1>3. [Here EXCEPT !.h.pick[s] = "picked"] = y
  BY <1>2 DEF Chosen
<1>4. p \in [Seats -> Picks] /\ \A t \in Seats : p[t] = IF t = s THEN "picked" ELSE hand.pick[t]
  BY <1>2 DEF Picks
<1> HIDE DEF p
<1>5. /\ g \in HandRecords /\ SameHand(hand, g) /\ SameGoing(hand, g) /\ g.turn = hand.turn
      /\ g.pick = p /\ g.status = hand.status
  BY <1>2, <1>4, ChosenIs
<1> HIDE DEF g
<1>6. y \in Positions /\ y.h = g /\ y.armed = armed /\ y.late = late
  BY <1>2, <1>5, PositionIs
<1> HIDE DEF y
<1>7. \A t \in Seats : Undecided(g, t) => Undecided(hand, t)
  BY <1>4, <1>5 DEF Undecided
<1>8. Good(RunDeferred(ArmPickTimer(y)))
  BY <1>1, <1>5, <1>6, <1>7, HereIs, PickedOK DEF IInv
<1> QED BY <1>1, <1>3, <1>8, Stepped

\* The turn's clock stopped in the middle of a handler.
LEMMA StopOK ==
  ASSUME NEW x, Half(x), NEW r, r = Stop(x, "turn")
  PROVE  Half(r) /\ r.h = x.h
<1>1. r \in Positions /\ r.h = x.h /\ r.late = x.late /\ r.armed = x.armed \ {"turn"}
  BY StopIs DEF Half, Mid, Base
<1>2. \A k : k # "turn" => (On(r, k) <=> On(x, k)) /\ (Pending(r, k) <=> Pending(x, k))
  BY <1>1 DEF On, Pending
<1>3. Base(r)
  BY <1>1, <1>2 DEF Half, Mid, Base
<1>4. Tight(x) => Tight(r)
  BY <1>1, <1>2 DEF Tight, PickOn, Numbered
<1> QED BY <1>1, <1>3, <1>4 DEF Half, Mid

\* The sideshow of a player who need not ask (forceSideshow).
LEMMA ForceSideshowOK ==
  ASSUME IInv, NEW s \in Seats, ForceSideshow(s)
  PROVE  IInv'
<1> DEFINE yes == TRUE
           side == [from |-> s, to |-> RightActive(hand, s)]
           g == Asked(hand, yes)
           y == [h |-> g, armed |-> armed, late |-> late]
           z == Stop(y, "turn")
<1>1. /\ CanSideshow(s)
      /\ \E loser \in Losers(hand, side, TRUE), capped \in BOOLEAN :
            Becomes(SettleSideshow(Stop([Here EXCEPT !.h.asked = TRUE], "turn"),
                                   side, loser, capped))
  BY DEF ForceSideshow
<1>2. /\ Half(Here) /\ Here.h.turn = s /\ s \in Active(hand)
      /\ RightActive(hand, s) \in Active(hand)
  BY <1>1, OnTurnIs, CanSideshowIs, HereIs
<1>3. /\ hand \in HandRecords /\ armed \in SUBSET Clocks /\ late \in SUBSET Callbacks
      /\ Here = [h |-> hand, armed |-> armed, late |-> late]
  BY HereIs DEF Here
<1>4. [Here EXCEPT !.h.asked = TRUE] = y
  <2>1. [Here EXCEPT !.h.asked = yes] = y
    <3> HIDE DEF yes
    <3> QED BY <1>3 DEF Asked
  <2> QED BY <2>1
<1>5. PICK loser \in {s, RightActive(hand, s)}, capped \in BOOLEAN :
         Becomes(SettleSideshow(z, side, loser, capped))
  <2>1. Losers(hand, side, TRUE) = {s, RightActive(hand, s)}
    BY <1>2 DEF Losers
  <2> QED BY <1>1, <1>4, <2>1
<1>6. yes \in BOOLEAN
  OBVIOUS
<1> HIDE DEF yes
<1>7. /\ g \in HandRecords /\ SameHand(hand, g) /\ SameSeats(hand, g) /\ SameGoing(hand, g)
      /\ g.turn = hand.turn
  BY <1>3, <1>6 DEF Asked, HandRecords, SameHand, SameSeats, SameGoing
<1> HIDE DEF g
<1>8. y \in Positions /\ y.h = g /\ y.armed = armed /\ y.late = late
  BY <1>3, <1>7, PositionIs
<1> HIDE DEF y
<1>9. Alike(Here, y)
  BY <1>7, <1>8, HereIs, AlikeIs
<1>10. Half(y) /\ Active(y.h) = Active(hand) /\ y.h.turn = s
  BY <1>2, <1>7, <1>8, <1>9, AlikeOK, HereIs
<1>11. Half(z) /\ z.h = y.h
  BY <1>10, StopOK
<1> HIDE DEF z
<1>12. side.from = s /\ s \in Active(hand) /\ loser \in Active(z.h)
  BY <1>2, <1>5, <1>10, <1>11
<1> HIDE DEF side
<1>13. Good(SettleSideshow(z, side, loser, capped))
  BY <1>10, <1>11, <1>12, SettleOK DEF Outcome
<1> QED BY <1>5, <1>13, Stepped

\* The sideshow that was asked for is answered, or its clock runs out.
Settled(x, w, loser, capped) == SettleSideshow(CloseSideshow(x), w.h.side, loser, capped)
\* It leaves a hand that is whole, with no sideshow.
LEMMA SettledOK ==
  ASSUME NEW w, Good(w), w.h.side # NoSide, NEW x, Took(w, x, "side"),
         NEW loser, loser = NoSeat \/ loser \in Active(w.h),
         NEW capped \in BOOLEAN, NEW r, r = Settled(x, w, loser, capped)
  PROVE  w.h.live /\ Good(r) /\ (r.h.live => r.h.side = NoSide)
<1> DEFINE c == CloseSideshow(x)
           side == w.h.side
<1>1. w.h.live
  BY DEF Good, Sound, Ended
<1>2. /\ Half(c) /\ c.h.turn = w.h.turn /\ c.h.side = NoSide /\ Active(c.h) = Active(w.h)
      /\ side.from \in Seats
      /\ ~Overtakes => c.h.turn = side.from /\ {side.from, side.to} \subseteq Active(c.h)
  BY <1>1, ClosedOK
<1>3. r = SettleSideshow(c, side, loser, capped)
  BY DEF Settled
<1> HIDE DEF c, side
<1>4. Outcome(c, r)
  BY <1>2, <1>3, SettleOK
<1> QED BY <1>1, <1>2, <1>4 DEF Outcome

\* The one who was asked answers (RespondToSideshow).
LEMMA RespondToSideshowOK ==
  ASSUME IInv, NEW s \in Seats, RespondToSideshow(s)
  PROVE  IInv'
<1>1. PICK accepted \in BOOLEAN, capped \in BOOLEAN :
         \E loser \in Losers(hand, hand.side, accepted) :
         Becomes(Settled(Here, Here, loser, capped))
  BY HereIs DEF RespondToSideshow, Settled
<1>2. PICK loser \in Losers(hand, hand.side, accepted) : Becomes(Settled(Here, Here, loser, capped))
  BY <1>1
<1>3. loser = NoSeat \/ loser \in Active(hand)
  BY DEF Losers
<1>4. Took(Here, Here, "side") /\ Here.h = hand /\ hand.side # NoSide
  BY HereIs DEF Took, RespondToSideshow
<1>5. Good(Settled(Here, Here, loser, capped))
  BY <1>3, <1>4, SettledOK DEF IInv
<1> QED BY <1>2, <1>5, Stepped

-----------------------------------------------------------------------------
(* A player leaves *)

\* The seat a leave empties.
Left(x, s) == [x EXCEPT !.h.status[s] = "gone", !.h.pick[s] = "none"]
\* Its player is no longer in, and has nothing to pick; all else is as it was.
LEMMA LeftIs ==
  ASSUME NEW x \in Positions, NEW s \in Seats, NEW r, r = Left(x, s)
  PROVE  /\ r \in Positions /\ SameHand(x.h, r.h) /\ SameGoing(x.h, r.h) /\ r.h.turn = x.h.turn
         /\ r.armed = x.armed /\ r.late = x.late
         /\ Active(r.h) = Active(x.h) \ {s}
         /\ \A t \in Seats : Undecided(r.h, t) <=> t # s /\ Undecided(x.h, t)
         /\ PicksOK(x.h) => PicksOK(r.h)
<1> DEFINE v == "gone"
           p == [x.h.pick EXCEPT ![s] = "none"]
           f == Put(x.h, s, v)
           g == Chosen(f, p)
           y == [x EXCEPT !.h.status[s] = v]
<1>1. /\ x.h \in HandRecords /\ x.armed \in SUBSET Clocks /\ x.late \in SUBSET Callbacks
      /\ x = [h |-> x.h, armed |-> x.armed, late |-> x.late]
  BY PositionFields
<1>2. x.h.status \in [Seats -> Statuses] /\ x.h.pick \in [Seats -> Picks]
  BY <1>1, HandFields
<1>3. y = [h |-> f, armed |-> x.armed, late |-> x.late]
  <2> HIDE DEF v
  <2> QED BY <1>1 DEF Put
<1>4. v \in Statuses /\ v # "active" /\ p \in [Seats -> Picks]
      /\ \A t \in Seats : p[t] = IF t = s THEN "none" ELSE x.h.pick[t]
  BY <1>2 DEF Statuses, Picks
<1>5. r = [y EXCEPT !.h.pick[s] = "none"]
  BY DEF Left
<1> HIDE DEF v
<1>6. /\ f \in HandRecords /\ SameHand(x.h, f) /\ SameGoing(x.h, f) /\ f.turn = x.h.turn
      /\ f.pick = x.h.pick /\ f.status = [x.h.status EXCEPT ![s] = v]
  BY <1>1, <1>4, PutIs
<1> HIDE DEF y, f
<1>7. r = [h |-> g, armed |-> x.armed, late |-> x.late]
  BY <1>3, <1>5, <1>6 DEF Chosen
<1> HIDE DEF p
<1>8. /\ g \in HandRecords /\ SameHand(f, g) /\ SameGoing(f, g) /\ g.turn = f.turn
      /\ g.pick = p /\ g.status = f.status
  BY <1>4, <1>6, ChosenIs
<1> HIDE DEF g
<1>9. r \in Positions /\ r.h = g /\ r.armed = x.armed /\ r.late = x.late
  BY <1>1, <1>7, <1>8, PositionIs
<1>10. /\ SameHand(x.h, g) /\ SameGoing(x.h, g) /\ g.turn = x.h.turn
       /\ g.status = [x.h.status EXCEPT ![s] = v]
  BY <1>6, <1>8 DEF SameHand, SameGoing
<1>11. Active(g) = Active(x.h) \ {s}
  BY <1>2, <1>4, <1>10 DEF Active
<1>12. \A t \in Seats : Undecided(g, t) <=> t # s /\ Undecided(x.h, t)
  BY <1>4, <1>8 DEF Undecided
<1>13. PicksOK(x.h) => PicksOK(g)
  BY <1>2, <1>10, <1>12 DEF PicksOK
<1> QED BY <1>9, <1>10, <1>11, <1>12, <1>13

\* A seat nothing waits for can be emptied.
LEMMA LeftOK ==
  ASSUME NEW x, Good(x), NEW s \in Seats, NEW r, r = Left(x, s),
         x.h.live => Two(r.h), x.h.live /\ Choosing(x.h) => x.h.chooser # s,
         ~Overtakes => x.h.turn # s /\ s \notin {x.h.side.from, x.h.side.to} /\ ~DeferredDue(r)
  PROVE  Good(r)
<1>1. Sound(x)
  BY DEF Good
<1>2. /\ r \in Positions /\ SameHand(x.h, r.h) /\ SameGoing(x.h, r.h) /\ r.h.turn = x.h.turn
      /\ r.armed = x.armed /\ r.late = x.late
      /\ Active(r.h) = Active(x.h) \ {s}
      /\ \A t \in Seats : Undecided(r.h, t) <=> t # s /\ Undecided(x.h, t)
      /\ PicksOK(r.h)
  BY <1>1, LeftIs DEF Sound
<1>3. /\ (r.h.live <=> x.h.live) /\ r.h.no = x.h.no /\ (Choosing(r.h) <=> Choosing(x.h))
      /\ r.h.side = x.h.side /\ (r.h.deferred <=> x.h.deferred)
      /\ r.h.round = x.h.round /\ r.h.chooser = x.h.chooser /\ (r.h.five <=> x.h.five)
  BY <1>2 DEF SameHand, SameGoing, Choosing
<1>4. (NoneOpen(x.h) => NoneOpen(r.h)) /\ (Two(r.h) => Two(x.h))
  BY <1>2 DEF NoneOpen, Two
<1>5. \A k : (On(r, k) <=> On(x, k)) /\ (Pending(r, k) <=> Pending(x, k))
  BY <1>2, <1>3 DEF On, Pending
<1>6. Sound(r)
  <2>1. ~r.h.live => Ended(r.h)
    BY <1>1, <1>2, <1>3, <1>4 DEF Sound, Ended
  <2>2. r.h.live /\ Choosing(r.h) => Waiting(r.h)
    BY <1>1, <1>2, <1>3, <1>4 DEF Sound, Waiting
  <2>3. (Sided(x.h) => Sided(r.h)) /\ (RoundGoes(x.h) => RoundGoes(r.h))
    BY <1>3 DEF Sided, RoundGoes
  <2> QED BY <1>1, <1>2, <1>3, <1>5, <2>1, <2>2, <2>3 DEF Sound
<1>7. ASSUME ~Overtakes PROVE Clocked(r)
  <2>1. PickOn(x) /\ Turns(x) /\ Sides(x) /\ Numbered(x) /\ Moves(x)
    BY <1>7 DEF Good, Clocked
  <2>2. PickOn(r)
    BY <1>3, <1>4, <1>5, <2>1 DEF PickOn
  <2>3. Turns(r)
    BY <1>2, <1>3, <1>5, <1>7, <2>1 DEF Turns
  <2>4. Sides(r)
    BY <1>2, <1>3, <1>5, <1>7, <2>1 DEF Sides
  <2>5. Numbered(r)
    BY <1>2, <1>3, <2>1 DEF Numbered
  <2>6. r.h.live /\ r.h.deferred => ~NoneOpen(r.h)
    BY <1>2, <1>7, PickingIs DEF DeferredDue
  <2>7. Moves(r)
    BY <1>2, <1>3, <1>5, <2>1, <2>6 DEF Moves
  <2> QED BY <2>2, <2>3, <2>4, <2>5, <2>7 DEF Clocked
<1> QED BY <1>6, <1>7 DEF Good

\* A seat emptied in the middle of a handler.
LEMMA LeftMid ==
  ASSUME NEW x, Mid(x), ~x.h.deferred => RoundGoes(x.h),
         NEW s \in Seats, NEW r, r = Left(x, s), Two(r.h)
  PROVE  Half(r)
<1>1. /\ r \in Positions /\ SameHand(x.h, r.h) /\ SameGoing(x.h, r.h) /\ r.h.turn = x.h.turn
      /\ r.armed = x.armed /\ r.late = x.late
      /\ \A t \in Seats : Undecided(r.h, t) <=> t # s /\ Undecided(x.h, t)
      /\ PicksOK(r.h)
  BY LeftIs DEF Mid, Base
<1>2. /\ (r.h.live <=> x.h.live) /\ r.h.no = x.h.no /\ (Choosing(r.h) <=> Choosing(x.h))
      /\ r.h.side = x.h.side /\ (r.h.deferred <=> x.h.deferred) /\ r.h.round = x.h.round
  BY <1>1 DEF SameHand, SameGoing, Choosing
<1>3. NoneOpen(x.h) => NoneOpen(r.h)
  BY <1>1 DEF NoneOpen
<1>4. \A k : (On(r, k) <=> On(x, k)) /\ (Pending(r, k) <=> Pending(x, k))
  BY <1>1, <1>2 DEF On, Pending
<1>5. (Sided(x.h) => Sided(r.h)) /\ (RoundGoes(x.h) => RoundGoes(r.h))
  BY <1>2 DEF Sided, RoundGoes
<1>6. Base(r)
  BY <1>1, <1>2, <1>4, <1>5 DEF Mid, Base
<1>7. Tight(x) => Tight(r)
  BY <1>1, <1>2, <1>3, <1>4 DEF Tight, PickOn, Numbered
<1> QED BY <1>2, <1>5, <1>6, <1>7 DEF Half, Mid

\* A sideshow that nobody loses leaves the hand as it was.
Unsettled(x, w) == SettleSideshow(CloseSideshow(x), w.h.side, NoSeat, FALSE)
\* The clocks and, if it has one, the turn of who asked are set right.
LEMMA UnsettledOK ==
  ASSUME NEW w, Good(w), w.h.side # NoSide, NEW x, Took(w, x, "side"),
         NEW r, r = Unsettled(x, w)
  PROVE  /\ w.h.live /\ Good(r) /\ r.h.live /\ r.h.side = NoSide /\ r.h.status = w.h.status
         /\ r.h.turn = w.h.turn /\ (Choosing(r.h) <=> Choosing(w.h))
<1> DEFINE no == FALSE
           c == CloseSideshow(x)
           from == w.h.side.from
           none == NoSeat
<1>1. no \in BOOLEAN /\ none = NoSeat
  OBVIOUS
<1>2. r = Settled(x, w, none, no)
  BY DEF Settled, Unsettled
<1>3. r = IF c.h.live /\ c.h.turn = from /\ c.h.status[from] = "active"
          THEN SetTurn(c, from, no) ELSE c
  BY DEF Unsettled, SettleSideshow
<1> HIDE DEF no, none, c
<1>4. w.h.live /\ Good(r) /\ (r.h.live => r.h.side = NoSide)
  BY <1>1, <1>2, SettledOK
<1>5. /\ c \in Positions /\ c.h.turn = w.h.turn /\ SameSeats(w.h, c.h) /\ SameHand(w.h, c.h)
      /\ from \in Seats
  BY <1>4, ClosedOK DEF c, Half, Mid, Base
<1> HIDE DEF from
<1>6. CASE c.h.live /\ c.h.turn = from /\ c.h.status[from] = "active"
  <2>1. SameHand(c.h, r.h) /\ SameSeats(c.h, r.h) /\ r.h.turn = from
    BY <1>1, <1>3, <1>5, <1>6, SetTurnIs
  <2> QED BY <1>4, <1>5, <1>6, <2>1 DEF SameHand, SameSeats, Choosing
<1>7. CASE ~(c.h.live /\ c.h.turn = from /\ c.h.status[from] = "active")
  <2>1. r = c
    BY <1>3, <1>7
  <2> QED BY <1>4, <1>5, <2>1 DEF SameHand, SameSeats, Choosing
<1> QED BY <1>6, <1>7

\* What a leave finds when nobody waits for the variation the leaver was to
\* choose: the sideshow of a party has closed.
Parted(s) == IF s \in {hand.side.from, hand.side.to} THEN Unsettled(Here, Here) ELSE Here
\* It leaves a hand that is whole, in which the leaver is no party.
LEMMA PartedOK ==
  ASSUME IInv, NEW s \in Seats, NEW b, b = Parted(s)
  PROVE  /\ Good(b) /\ b.h.status = hand.status /\ b.h.turn = hand.turn
         /\ (b.h.live <=> hand.live) /\ s \notin {b.h.side.from, b.h.side.to}
         /\ b.h.side \in {NoSide, hand.side} /\ (Choosing(b.h) <=> Choosing(hand))
         /\ b.h.chooser = hand.chooser \/ ~Choosing(hand)
<1>1. Good(Here) /\ Here.h = hand /\ Took(Here, Here, "side") /\ s # NoSeat
  BY HereIs, SeatsAre DEF IInv, Took
<1>2. CASE s \in {hand.side.from, hand.side.to}
  <2>1. hand.side # NoSide /\ b = Unsettled(Here, Here)
    BY <1>1, <1>2 DEF NoSide, Parted
  <2>2. /\ hand.live /\ Good(b) /\ b.h.live /\ b.h.side = NoSide /\ b.h.status = hand.status
        /\ b.h.turn = hand.turn /\ (Choosing(b.h) <=> Choosing(hand))
    BY <1>1, <2>1, UnsettledOK
  <2>3. ~Choosing(hand)
    BY <1>1, <2>1, <2>2 DEF Good, Sound, Waiting
  <2> QED BY <1>1, <2>2, <2>3 DEF NoSide
<1>3. CASE s \notin {hand.side.from, hand.side.to}
  BY <1>1, <1>3 DEF Parted
<1> QED BY <1>2, <1>3

\* A leave that changes nobody's turn, or the turn of who leaves (removePlayer).
Leaving(c, turns, s, capped) ==
    IF ~hand.live \/ s \notin Active(hand) THEN c
    ELSE IF Cardinality(Active(c.h)) <= 1 \/ DeferredDue(c) THEN EndHand(c)
    ELSE IF turns THEN AdvanceTurn(Stop(c, "turn"), s, capped)
    ELSE c
\* A player leaves in whatever a hand waits for (removePlayer).
LEMMA LeaveOK ==
  ASSUME IInv, NEW s \in Seats, Leave(s)
  PROVE  IInv'
<1> DEFINE onTurn == hand.live /\ hand.turn = s
           choosing == hand.live /\ Choosing(hand) /\ hand.chooser = s
           no == FALSE
           a == IF choosing THEN Closed(Here, no) ELSE Here
           b == IF s \in {hand.side.from, hand.side.to}
                THEN SettleSideshow(CloseSideshow(a), hand.side, NoSeat, FALSE) ELSE a
           c == Left(b, s)
           turns == onTurn \/ choosing
<1>1. PICK capped \in BOOLEAN : Becomes(Leaving(c, turns, s, capped))
  BY DEF Leave, Leaving, Left, Closed
<1> SUFFICES Good(Leaving(c, turns, s, capped))
  BY <1>1, Stepped
<1>2. /\ Good(Here) /\ Here.h = hand /\ Sound(Here) /\ s \in Places /\ s # NoSeat
      /\ hand \in HandRecords
  BY HereIs, SeatsAre DEF IInv, Places
<1>3. no \in BOOLEAN /\ ~no
  OBVIOUS
<1> HIDE DEF no
<1>4. CASE choosing
  <2>0. Waiting(hand)
    BY <1>2, <1>4 DEF Sound
  <2>1. a = Closed(Here, no) /\ b = a
    <3>1. hand.side.from = NoSeat /\ hand.side.to = NoSeat
      BY <2>0 DEF NoSide, Waiting
    <3> HIDE DEF a
    <3>2. b = a
      BY <1>2, <3>1
    <3> QED BY <1>4, <3>2 DEF a
  <2> HIDE DEF a, b
  <2>2. /\ Half(b) /\ b.h.turn = NoSeat /\ b.h.side = NoSide /\ ~b.h.deferred
        /\ Active(b.h) = Active(hand) /\ NoneOpen(b.h)
    <3>1. Took(Here, Here, "window")
      BY HereIs DEF Took
    <3>2. b = Closed(Here, no) /\ Here.h.live /\ Choosing(Here.h)
      BY <1>2, <1>4, <2>1
    <3> HIDE DEF choosing
    <3> QED BY <1>2, <1>3, <3>1, <3>2, ClosedWindow
  <2>3. turns /\ hand.live /\ s \in Active(hand)
    BY <1>4, <2>0 DEF Waiting
  <2> HIDE DEF c
  <2>4. /\ c \in Positions /\ SameGoing(b.h, c.h) /\ PicksOK(c.h)
        /\ \A t \in Seats : Undecided(c.h, t) <=> t # s /\ Undecided(b.h, t)
    BY <2>2, LeftIs DEF c, Half, Mid, Base
  <2>5. NoneOpen(c.h) /\ ~c.h.deferred /\ ~DeferredDue(c)
    BY <2>2, <2>4 DEF NoneOpen, SameGoing, DeferredDue
  <2>6. CASE ~Two(c.h)
    <3>1. Leaving(c, turns, s, capped) = EndHand(c)
      BY <2>3, <2>6, TwoIs DEF Leaving
    <3> QED BY <2>4, <2>6, <3>1, EndHandOK
  <2>7. CASE Two(c.h)
    <3>1. Leaving(c, turns, s, capped) = AdvanceTurn(Stop(c, "turn"), s, capped)
      BY <2>3, <2>5, <2>7, TwoIs DEF Leaving
    <3>2. Half(c)
      BY <2>2, <2>7, LeftMid DEF c, Half
    <3>3. Half(Stop(c, "turn")) /\ Stop(c, "turn").h = c.h
      BY <3>2, StopOK
    <3> QED BY <1>2, <2>5, <3>1, <3>3, AdvanceOK DEF Half, Outcome
  <2> QED BY <2>6, <2>7
<1>5. CASE ~choosing
  <2>1. b = Parted(s)
    BY <1>5 DEF Parted, Unsettled, Here
  <2> HIDE DEF a, b
  <2>2. /\ Good(b) /\ b.h.status = hand.status /\ b.h.turn = hand.turn
        /\ (b.h.live <=> hand.live) /\ s \notin {b.h.side.from, b.h.side.to}
        /\ b.h.side \in {NoSide, hand.side} /\ (Choosing(b.h) <=> Choosing(hand))
        /\ b.h.chooser = hand.chooser \/ ~Choosing(hand)
    BY <2>1, PartedOK
  <2> HIDE DEF c
  <2>3. /\ c \in Positions /\ SameHand(b.h, c.h) /\ SameGoing(b.h, c.h) /\ c.h.turn = b.h.turn
        /\ Active(c.h) = Active(b.h) \ {s} /\ PicksOK(c.h)
        /\ \A t \in Seats : Undecided(c.h, t) <=> t # s /\ Undecided(b.h, t)
    BY <2>2, LeftIs DEF c, Good, Sound
  <2>4. Active(b.h) = Active(hand)
    BY <2>2 DEF Active
  <2>5. hand.live /\ Choosing(b.h) => b.h.chooser # s
    BY <1>5, <2>2
  <2>6. CASE ~hand.live \/ s \notin Active(hand)
    <3>1. Leaving(c, turns, s, capped) = c
      BY <2>6 DEF Leaving
    <3>2. b.h.live => s \notin Active(b.h) /\ Two(b.h) /\ Active(c.h) = Active(b.h)
      BY <2>2, <2>3, <2>4, <2>6 DEF Good, Sound
    <3>3. b.h.live => Two(c.h)
      BY <3>2 DEF Two
    <3>4. ASSUME ~Overtakes PROVE b.h.turn # s /\ ~DeferredDue(c)
      <4>1. Sound(b) /\ Turns(b) /\ Sides(b) /\ Moves(b)
        BY <2>2, <3>4 DEF Good, Clocked
      <4>2. CASE ~b.h.live
        BY <1>2, <2>3, <4>1, <4>2 DEF Sound, Ended, DeferredDue, SameHand
      <4>3. CASE b.h.live
        <5>1. b.h.turn # s
          BY <1>2, <3>2, <4>1, <4>3 DEF Turns, Sides
        <5>2. b.h.deferred => ~NoneOpen(b.h)
          BY <4>1, <4>3 DEF Moves
        <5>3. \A t \in Seats : Undecided(b.h, t) => t # s
          BY <3>2, <4>1, <4>3 DEF Sound, PicksOK, Active
        <5>4. c.h.deferred => ~NoneOpen(c.h)
          BY <2>3, <5>2, <5>3 DEF NoneOpen, SameGoing
        <5> QED BY <2>3, <5>1, <5>4, PickingIs DEF DeferredDue
      <4> QED BY <4>2, <4>3
    <3>5. Good(c)
      BY <2>2, <2>5, <3>3, <3>4, LeftOK DEF c
    <3> QED BY <3>1, <3>5
  <2>7. CASE hand.live /\ s \in Active(hand)
    <3>1. CASE ~Two(c.h) \/ DeferredDue(c)
      <4>1. Leaving(c, turns, s, capped) = EndHand(c)
        BY <2>7, <3>1, TwoIs DEF Leaving
      <4>2. ~Two(c.h) \/ NoneOpen(c.h)
        BY <2>3, <3>1, PickingIs DEF DeferredDue
      <4> QED BY <2>3, <4>1, <4>2, EndHandOK
    <3>2. CASE Two(c.h) /\ ~DeferredDue(c) /\ hand.turn = s
      <4>1. Leaving(c, turns, s, capped) = AdvanceTurn(Stop(c, "turn"), s, capped)
        BY <2>7, <3>2, TwoIs DEF Leaving
      <4>2. Sound(b) /\ b.h.live /\ ~b.h.deferred /\ ~Choosing(b.h) /\ RoundGoes(b.h)
        BY <1>2, <2>2, <2>7, <3>2 DEF Good, Sound, Waiting
      <4>3. ASSUME ~Overtakes PROVE Tight(b)
        <5>1. PickOn(b) /\ Numbered(b) /\ Sides(b)
          BY <2>2, <4>3 DEF Good, Clocked
        <5>2. b.h.side = NoSide
          BY <2>2, <3>2, <5>1 DEF Sides
        <5> QED BY <4>2, <5>1, <5>2 DEF Tight
      <4>4. Mid(b)
        BY <4>2, <4>3 DEF Mid, Base, Sound
      <4>5. Half(c) /\ ~c.h.deferred
        BY <2>3, <3>2, <4>2, <4>4, LeftMid DEF c, SameGoing
      <4>6. Half(Stop(c, "turn")) /\ Stop(c, "turn").h = c.h
        BY <4>5, StopOK
      <4> QED BY <1>2, <4>1, <4>5, <4>6, AdvanceOK DEF Half, Outcome
    <3>3. CASE Two(c.h) /\ ~DeferredDue(c) /\ hand.turn # s
      <4>1. Leaving(c, turns, s, capped) = c
        BY <1>5, <2>7, <3>3, TwoIs DEF Leaving
      <4>2. Good(c)
        BY <2>2, <2>5, <3>3, LeftOK DEF c
      <4> QED BY <4>1, <4>2
    <3> QED BY <3>1, <3>2, <3>3
  <2> QED BY <2>6, <2>7
<1> QED BY <1>4, <1>5

-----------------------------------------------------------------------------
(* Time and the timers *)

\* Time passes: a window, a pick, a turn or a sideshow is past its deadline.
Lapse(g) == hand' = g /\ UNCHANGED <<armed, late>>
\* The invariant does not read a deadline.
LEMMA LapseOK ==
  ASSUME IInv, NEW g \in HandRecords, Lapse(g),
         g.no = hand.no, g.live <=> hand.live, Choosing(g) <=> Choosing(hand),
         g.chooser = hand.chooser, g.five <=> hand.five, g.status = hand.status,
         \A s \in Seats : Undecided(g, s) <=> Undecided(hand, s),
         SameGoing(hand, g), g.turn = hand.turn
  PROVE  IInv'
<1> DEFINE y == [h |-> g, armed |-> armed, late |-> late]
<1>1. y \in Positions /\ y.h = g /\ y.armed = armed /\ y.late = late
  BY HereIs, PositionIs
<1>2. Becomes(y)
  BY DEF Lapse, Becomes
<1> HIDE DEF y
<1>3. Alike(Here, y)
  BY <1>1, HereIs DEF Alike
<1>4. Good(y)
  BY <1>3, AlikeOK DEF IInv
<1> QED BY <1>2, <1>4, Stepped

\* The window's deadline passes.
LEMMA LapseWindowOK ==
  ASSUME IInv, LapseWindow
  PROVE  IInv'
<1> DEFINE g == [hand EXCEPT !.window = "lapsed"]
<1>1. hand \in HandRecords /\ hand.window = "open" /\ Lapse(g)
  BY HereIs DEF LapseWindow, Lapse
<1>2. /\ g \in HandRecords /\ g.window = "lapsed" /\ g.no = hand.no /\ (g.live <=> hand.live)
      /\ g.chooser = hand.chooser /\ (g.five <=> hand.five) /\ SameSeats(hand, g)
      /\ SameGoing(hand, g) /\ g.turn = hand.turn
  BY <1>1 DEF HandRecords, Windows, SameSeats, SameGoing
<1>3. Choosing(g) <=> Choosing(hand)
  BY <1>1, <1>2 DEF Choosing
<1> HIDE DEF g
<1> QED BY <1>1, <1>2, <1>3, LapseOK DEF SameSeats, Undecided

\* A pick's deadline passes.
LEMMA LapsePickOK ==
  ASSUME IInv, NEW s \in Seats, LapsePick(s)
  PROVE  IInv'
<1> DEFINE p == [hand.pick EXCEPT ![s] = "lapsed"]
           g == Chosen(hand, p)
<1>1. hand \in HandRecords /\ hand.pick[s] = "open" /\ Lapse(g)
      /\ hand.pick \in [Seats -> Picks]
  BY HereIs, HandFields DEF LapsePick, Lapse, Chosen
<1>2. p \in [Seats -> Picks] /\ \A t \in Seats : p[t] = IF t = s THEN "lapsed" ELSE hand.pick[t]
  BY <1>1 DEF Picks
<1> HIDE DEF p
<1>3. /\ g \in HandRecords /\ SameHand(hand, g) /\ SameGoing(hand, g) /\ g.turn = hand.turn
      /\ g.pick = p /\ g.status = hand.status
  BY <1>1, <1>2, ChosenIs
<1>4. \A t \in Seats : Undecided(g, t) <=> Undecided(hand, t)
  BY <1>1, <1>2, <1>3 DEF Undecided
<1> HIDE DEF g
<1> QED BY <1>1, <1>3, <1>4, LapseOK DEF SameHand, Choosing

\* The turn's deadline passes.
LEMMA LapseTurnOK ==
  ASSUME IInv, LapseTurn
  PROVE  IInv'
<1> DEFINE yes == TRUE
           g == [hand EXCEPT !.turnLapsed = yes]
<1>1. hand \in HandRecords /\ Lapse(g) /\ yes \in BOOLEAN
  BY HereIs DEF LapseTurn, Lapse
<1> HIDE DEF yes
<1>2. /\ g \in HandRecords /\ SameHand(hand, g) /\ SameSeats(hand, g) /\ SameGoing(hand, g)
      /\ g.turn = hand.turn
  BY <1>1 DEF HandRecords, SameHand, SameSeats, SameGoing
<1> HIDE DEF g
<1> QED BY <1>1, <1>2, LapseOK DEF SameHand, SameSeats, Choosing, Undecided

\* The sideshow's deadline passes.
LEMMA LapseSideOK ==
  ASSUME IInv, LapseSide
  PROVE  IInv'
<1> DEFINE yes == TRUE
           g == [hand EXCEPT !.sideLapsed = yes]
<1>1. hand \in HandRecords /\ Lapse(g) /\ yes \in BOOLEAN
  BY HereIs DEF LapseSide, Lapse
<1> HIDE DEF yes
<1>2. /\ g \in HandRecords /\ SameHand(hand, g) /\ SameSeats(hand, g) /\ SameGoing(hand, g)
      /\ g.turn = hand.turn
  BY <1>1 DEF HandRecords, SameHand, SameSeats, SameGoing
<1> HIDE DEF g
<1> QED BY <1>1, <1>2, LapseOK DEF SameHand, SameSeats, Choosing, Undecided

\* A timer fires: its clock is no longer armed, but its callback is on its way.
LEMMA FireOK ==
  ASSUME IInv, NEW k \in Clocks, Fire(k)
  PROVE  IInv'
<1> DEFINE r == [h |-> hand, armed |-> armed \ {k}, late |-> late \cup {Callback(k)}]
<1>1. /\ k \in armed /\ hand' = hand /\ armed' = armed \ {k} /\ late' = late \cup {Callback(k)}
  BY DEF Fire
<1>2. /\ hand \in HandRecords /\ armed \in SUBSET Clocks /\ late \in SUBSET Callbacks
      /\ Here.h = hand /\ Here.armed = armed /\ Here.late = late /\ Sound(Here)
  BY HereIs
<1>3. hand.live /\ hand.no \in 1 .. MaxHands
  <2>1. hand.live /\ hand.no >= 1
    BY <1>1, <1>2 DEF Sound
  <2>2. hand.no \in 0 .. MaxHands /\ MaxHands \in Nat
    BY <1>2, HandFields, ChoiceAssumption
  <2> QED BY <2>1, <2>2
<1>4. Callback(k) \in Callbacks /\ Callback(k).clock = k /\ Callback(k).no = hand.no
      /\ Callback(k) = [clock |-> k, no |-> hand.no]
  BY <1>3 DEF Callback, Callbacks
<1>5. r \in Positions /\ r.h = hand /\ r.armed = armed \ {k} /\ r.late = late \cup {Callback(k)}
  <2>1. armed \ {k} \in SUBSET Clocks /\ late \cup {Callback(k)} \in SUBSET Callbacks
    BY <1>2, <1>4
  <2> QED BY <1>2, <2>1, PositionIs
<1>6. Becomes(r)
  BY <1>1 DEF Becomes
<1> HIDE DEF r
<1>7. \A j : (On(r, j) <=> On(Here, j)) /\ (Pending(r, j) <=> Pending(Here, j))
  BY <1>1, <1>2, <1>4, <1>5 DEF On, Pending
<1>8. Sound(r)
  BY <1>2, <1>3, <1>5, <1>7 DEF Sound
<1>9. Clocked(Here) => Clocked(r)
  BY <1>2, <1>4, <1>5, <1>7 DEF Clocked, PickOn, Turns, Sides, Numbered, Moves
<1>10. Good(r)
  BY <1>8, <1>9 DEF IInv, Good
<1> QED BY <1>6, <1>10, Stepped

\* A callback that is taken.
LEMMA TakenIs ==
  ASSUME IInv, NEW c \in late, NEW y, y = Taken(c)
  PROVE  /\ y = [h |-> hand, armed |-> armed, late |-> late \ {c}]
         /\ y \in Positions /\ y.h = hand /\ y.armed = armed /\ y.late = late \ {c}
         /\ Took(Here, y, c.clock)
<1>1. /\ hand \in HandRecords /\ armed \in SUBSET Clocks /\ late \in SUBSET Callbacks
      /\ Here.h = hand /\ Here.armed = armed /\ Here.late = late
  BY HereIs
<1>2. y = [h |-> hand, armed |-> armed, late |-> late \ {c}]
  BY DEF Taken, Here
<1>3. late \ {c} \in SUBSET Callbacks
  BY <1>1
<1>4. y \in Positions /\ y.h = hand /\ y.armed = armed /\ y.late = late \ {c}
  BY <1>1, <1>2, <1>3, PositionIs
<1> QED BY <1>1, <1>2, <1>4 DEF Took, Dropped

\* One that finds it is stale leaves all as it was.
LEMMA StaleOK ==
  ASSUME IInv, NEW c \in late,
         ~Overtakes => \/ c.clock = "window" /\ ~(OfThisHand(c) /\ Choosing(hand))
                       \/ c.clock = "pick" /\ ~OfThisHand(c)
  PROVE  Good(Taken(c))
<1> DEFINE y == Taken(c)
<1>1. y \in Positions /\ y.h = hand /\ y.armed = armed /\ y.late = late \ {c}
  BY TakenIs
<1>2. Sound(Here) /\ Here.h = hand /\ Here.armed = armed /\ Here.late = late
  BY HereIs
<1> HIDE DEF y
<1>3. \A k : Pending(y, k) => Pending(Here, k)
  BY <1>1, <1>2 DEF Pending
<1>4. Sound(y)
  BY <1>1, <1>2, <1>3 DEF Sound
<1>5. ASSUME ~Overtakes PROVE Clocked(y)
  <2>1. PickOn(Here) /\ Turns(Here) /\ Sides(Here) /\ Numbered(Here) /\ Moves(Here)
    BY <1>5 DEF IInv, Good, Clocked
  <2>2. \A k : k # c.clock => (On(Here, k) => On(y, k))
    BY <1>1, <1>2 DEF On
  <2>3. c.no # hand.no => \A k : On(Here, k) => On(y, k)
    BY <1>1, <1>2 DEF On
  <2>4. c.clock \in {"window", "pick"}
    BY <1>5
  <2>5. Turns(y) /\ Sides(y)
    BY <1>1, <1>2, <1>3, <2>1, <2>2, <2>4 DEF Turns, Sides
  <2>6. Numbered(y)
    BY <1>1, <1>2, <2>1 DEF Numbered
  <2>7. PickOn(y) /\ Moves(y)
    <3>1. CASE c.clock = "window" /\ ~(OfThisHand(c) /\ Choosing(hand))
      BY <1>1, <1>2, <2>1, <2>2, <2>3, <3>1 DEF PickOn, Moves, OfThisHand
    <3>2. CASE c.clock = "pick" /\ ~OfThisHand(c)
      BY <1>1, <1>2, <2>1, <2>2, <2>3, <3>2 DEF PickOn, Moves, OfThisHand
    <3> QED BY <1>5, <3>1, <3>2
  <2> QED BY <2>5, <2>6, <2>7 DEF Clocked
<1> QED BY <1>4, <1>5 DEF Good, y

\* The window's callback (armVariationTimer).
LEMMA WindowTimeoutOK ==
  ASSUME IInv, NEW c \in late, WindowTimeout(c)
  PROVE  IInv'
<1> DEFINE no == FALSE
           y == Taken(c)
<1>1. Took(Here, y, "window") /\ Good(Here) /\ Here.h = hand /\ c.clock = "window"
  BY TakenIs, HereIs DEF WindowTimeout, IInv
<1>2. CASE OfThisHand(c) /\ Choosing(hand)
  <2>1. Becomes(Opened(y, no)) /\ no \in BOOLEAN
    BY <1>2 DEF WindowTimeout, Opened
  <2> HIDE DEF no, y
  <2>2. Good(Opened(y, no))
    BY <1>1, <1>2, <2>1, OpenedOK DEF OfThisHand
  <2> QED BY <2>1, <2>2, Stepped
<1>3. CASE ~(OfThisHand(c) /\ Choosing(hand))
  <2>1. Becomes(y)
    BY <1>3 DEF WindowTimeout
  <2>2. Good(y)
    BY <1>1, <1>3, StaleOK
  <2> QED BY <2>1, <2>2, Stepped
<1> QED BY <1>2, <1>3

\* The turn's callback packs whoever has the turn (onTurnTimeout).
LEMMA TurnTimeoutOK ==
  ASSUME IInv, NEW c \in late, TurnTimeout(c)
  PROVE  IInv'
<1> DEFINE y == Taken(c)
<1>1. PICK capped \in BOOLEAN : Becomes(IF hand.turn \in Active(hand)
                                        THEN Pack(y, hand.turn, TRUE, capped) ELSE y)
  BY DEF TurnTimeout
<1>2. /\ c.clock = "turn" /\ Here.h = hand /\ Here.armed = armed /\ Here.late = late
      /\ Sound(Here)
  BY HereIs DEF TurnTimeout
<1>3. Pending(Here, "turn")
  BY <1>2 DEF Pending
<1>4. y \in Positions /\ y.h = hand /\ y.armed = armed /\ y.late = late \ {c}
  BY TakenIs
<1>5. CASE hand.turn \in Active(hand)
  <2> HIDE DEF y
  <2>1. hand.turn # NoSeat
    BY <1>5, SeatsAre DEF Active
  <2>2. hand.live /\ ~hand.deferred /\ ~Choosing(hand) /\ RoundGoes(hand)
    BY <1>2, <2>1 DEF Sound, Ended, Waiting
  <2>3. Base(y)
    <3>1. Pending(y, "side") => Pending(Here, "side")
      BY <1>2, <1>4 DEF Pending
    <3> QED BY <1>2, <1>4, <2>2, <3>1 DEF Base, Sound
  <2>4. ASSUME ~Overtakes PROVE Tight(y)
    <3>1. PickOn(Here) /\ Turns(Here) /\ Numbered(Here)
      BY <2>4 DEF IInv, Good, Clocked
    <3>2. hand.side = NoSide
      BY <1>2, <1>3, <3>1 DEF Turns
    <3>3. On(Here, "pick") => On(y, "pick")
      BY <1>2, <1>4 DEF On
    <3>4. PickOn(y) /\ Numbered(y)
      BY <1>2, <1>4, <3>1, <3>3 DEF PickOn, Numbered
    <3> QED BY <1>4, <2>2, <3>2, <3>4 DEF Tight
  <2>5. Mid(y)
    BY <2>3, <2>4 DEF Mid
  <2>6. Good(Pack(y, hand.turn, TRUE, capped))
    BY <1>4, <1>5, <2>2, <2>5, PackAdvance DEF Outcome
  <2> QED BY <1>1, <1>5, <2>6, Stepped
<1>6. CASE hand.turn \notin Active(hand)
  <2>1. Overtakes
    BY <1>2, <1>3, <1>6, HereIs DEF IInv, Good, Clocked, Turns
  <2>2. Good(y)
    BY <2>1, StaleOK
  <2> QED BY <1>1, <1>6, <2>2, Stepped
<1> QED BY <1>5, <1>6

\* The sideshow's callback finds the sideshow it was armed for (armSideshowTimer).
LEMMA SideshowTimeoutOK ==
  ASSUME IInv, NEW c \in late, SideshowTimeout(c)
  PROVE  IInv'
<1> DEFINE y == Taken(c)
<1>1. /\ c.clock = "side" /\ Here.h = hand /\ Here.late = late /\ Sound(Here) /\ Good(Here)
      /\ Took(Here, y, "side")
  BY HereIs, TakenIs DEF SideshowTimeout, IInv
<1>2. hand.side # NoSide
  BY <1>1 DEF Sound, Pending
<1>3. Becomes(Unsettled(y, Here))
  BY <1>1 DEF SideshowTimeout, Unsettled
<1> HIDE DEF y
<1>4. Good(Unsettled(y, Here))
  BY <1>1, <1>2, UnsettledOK
<1> QED BY <1>3, <1>4, Stepped

\* The picks' callback (expirePicks).
LEMMA PickTimeoutOK ==
  ASSUME IInv, NEW c \in late, PickTimeout(c)
  PROVE  IInv'
<1> DEFINE p == [s \in Seats |-> IF hand.pick[s] = "lapsed" THEN "picked" ELSE hand.pick[s]]
           g == Chosen(hand, p)
           y == [h |-> g, armed |-> armed, late |-> late \ {c}]
<1>1. /\ hand \in HandRecords /\ armed \in SUBSET Clocks /\ late \ {c} \in SUBSET Callbacks
      /\ Taken(c) = [h |-> hand, armed |-> armed, late |-> late \ {c}]
      /\ hand.pick \in [Seats -> Picks] /\ c.clock = "pick"
      /\ Here.h = hand /\ Here.armed = armed /\ Here.late = late
  BY HereIs, TakenIs, HandFields DEF PickTimeout
<1>2. CASE OfThisHand(c)
  <2>1. ExpirePicks(Taken(c)) = RunDeferred(ArmPickTimer(y))
    <3> DEFINE x == Taken(c)
               q == [s \in Seats |-> IF x.h.pick[s] = "lapsed" THEN "picked" ELSE x.h.pick[s]]
    <3>1. ExpirePicks(x) = RunDeferred(ArmPickTimer([x EXCEPT !.h.pick = q]))
      BY DEF ExpirePicks
    <3>2. q = p
      BY <1>1
    <3> HIDE DEF q, p
    <3>3. [x EXCEPT !.h.pick = q] = y
      BY <1>1, <3>2 DEF Chosen
    <3> QED BY <3>1, <3>3
  <2>2. p \in [Seats -> Picks]
    BY <1>1 DEF Picks
  <2>3. \A s \in Seats : p[s] \in {"open", "lapsed"} => hand.pick[s] \in {"open", "lapsed"}
    OBVIOUS
  <2> HIDE DEF p
  <2>4. /\ g \in HandRecords /\ SameHand(hand, g) /\ SameGoing(hand, g) /\ g.turn = hand.turn
        /\ g.pick = p /\ g.status = hand.status
    BY <1>1, <2>2, ChosenIs
  <2> HIDE DEF g
  <2>5. y \in Positions /\ y.h = g /\ y.armed = armed /\ y.late = late \ {c}
    BY <1>1, <2>4, PositionIs
  <2> HIDE DEF y
  <2>6. \A s \in Seats : Undecided(g, s) => Undecided(hand, s)
    BY <2>3, <2>4 DEF Undecided
  <2>7. y.late \subseteq Here.late /\ Dropped(y.late, "pick") = Dropped(Here.late, "pick")
    BY <1>1, <2>5 DEF Dropped
  <2>8. Good(RunDeferred(ArmPickTimer(y)))
    BY <1>1, <1>2, <2>4, <2>5, <2>6, <2>7, PickedOK DEF IInv, OfThisHand
  <2> QED BY <1>2, <2>1, <2>8, Stepped DEF PickTimeout
<1>3. CASE ~OfThisHand(c)
  <2>1. Becomes(Taken(c))
    BY <1>3 DEF PickTimeout
  <2>2. Good(Taken(c))
    BY <1>1, <1>3, StaleOK
  <2> QED BY <2>1, <2>2, Stepped
<1> QED BY <1>2, <1>3

-----------------------------------------------------------------------------
(* Deals and restarts *)

\* No hand yet.
LEMMA NoHandIs ==
  /\ NoHand \in HandRecords /\ ~NoHand.live /\ NoHand.no = 0 /\ NoHand.round = 0
  /\ NoHand.turn = NoSeat /\ NoHand.side = NoSide /\ ~NoHand.deferred /\ ~NoHand.five
  /\ NoHand.window = "none" /\ NoneOpen(NoHand) /\ PicksOK(NoHand)
<1> DEFINE no == FALSE
           w == "none"
           zero == 0
           st == [s \in Seats |-> "waiting"]
           bl == [s \in Seats |-> TRUE]
           pk == [s \in Seats |-> "none"]
           side == NoSide
           seat == NoSeat
           h == [no |-> zero, live |-> no, dealer |-> seat, start |-> seat, round |-> zero,
                 status |-> st, blind |-> bl, window |-> w, chooser |-> seat, five |-> no,
                 pick |-> pk, turn |-> seat, turnLapsed |-> no, longTurn |-> no, asked |-> no,
                 side |-> side, sideLapsed |-> no, deferred |-> no]
<1>1. h = NoHand
  BY DEF NoHand
<1>2. no \in BOOLEAN /\ ~no /\ w \in Windows /\ seat \in Places /\ w = "none" /\ zero = 0
  BY DEF Windows, Places
<1>3. zero \in 0 .. MaxHands /\ zero \in 0 .. MaxBetRounds
  BY ChoiceAssumption
<1>4. side \in [from : Places, to : Places]
  BY DEF NoSide, Places
<1>5. st \in [Seats -> Statuses] /\ bl \in [Seats -> BOOLEAN] /\ pk \in [Seats -> Picks]
  BY DEF Statuses, Picks
<1>6. \A s \in Seats : pk[s] \notin {"open", "lapsed"}
  OBVIOUS
<1> HIDE DEF no, w, zero, st, bl, pk, side, seat
<1>7. h \in HandRecords
  BY <1>2, <1>3, <1>4, <1>5 DEF HandRecords
<1>8. /\ (h.live <=> no) /\ h.no = zero /\ h.round = zero /\ h.turn = seat /\ h.side = side
      /\ (h.deferred <=> no) /\ (h.five <=> no) /\ h.window = w /\ h.pick = pk
  OBVIOUS
<1> HIDE DEF h
<1>9. NoneOpen(h) /\ PicksOK(h)
  BY <1>6, <1>8 DEF NoneOpen, PicksOK, Undecided
<1> QED BY <1>1, <1>2, <1>7, <1>8, <1>9 DEF side, seat

\* A hand that is dealt (startHand, beginVariation).
Dealt(n, yes, dealer, first, st, w) ==
    [NoHand EXCEPT !.no = n, !.live = yes, !.dealer = dealer, !.start = first,
                   !.status = st, !.window = w, !.chooser = first]
\* Everybody who sits is in, and the chooser's window is open.
LEMMA DealtIs ==
  ASSUME NEW n \in 0 .. MaxHands, NEW yes \in BOOLEAN, NEW dealer \in Places, NEW first \in Places,
         NEW st \in [Seats -> Statuses], NEW w \in Windows,
         NEW g, g = Dealt(n, yes, dealer, first, st, w)
  PROVE  /\ g \in HandRecords /\ g.no = n /\ (g.live <=> yes) /\ g.status = st /\ g.window = w
         /\ g.chooser = first /\ SameGoing(NoHand, g) /\ g.turn = NoHand.turn
         /\ g.pick = NoHand.pick /\ (g.five <=> NoHand.five)
<1> DEFINE h == NoHand
<1>1. h \in HandRecords
  BY NoHandIs
<1>2. g = [h EXCEPT !.no = n, !.live = yes, !.dealer = dealer, !.start = first,
                    !.status = st, !.window = w, !.chooser = first]
  BY DEF Dealt
<1> HIDE DEF h
<1> DEFINE f == [h EXCEPT !.no = n, !.live = yes, !.dealer = dealer, !.start = first]
<1>4. g = [f EXCEPT !.status = st, !.window = w, !.chooser = first]
  BY <1>2
<1>5. /\ f \in HandRecords /\ f.no = n /\ (f.live <=> yes) /\ SameGoing(h, f) /\ f.turn = h.turn
      /\ f.pick = h.pick /\ (f.five <=> h.five)
  BY <1>1 DEF HandRecords, SameGoing
<1> HIDE DEF f
<1>3. /\ g \in HandRecords /\ g.no = n /\ (g.live <=> yes) /\ g.status = st /\ g.window = w
      /\ g.chooser = first /\ SameGoing(h, g) /\ g.turn = h.turn
      /\ g.pick = h.pick /\ (g.five <=> h.five)
  BY <1>4, <1>5 DEF HandRecords, SameGoing
<1> QED BY <1>3 DEF h

\* A deal starts from a hand that ended, with callbacks of its window and picks still on their way.
LEMMA DealOK ==
  ASSUME IInv, Deal
  PROVE  IInv'
<1> DEFINE players == Seated(hand)
           dealer == NextOf(players, hand.dealer)
           first == NextOf(players, dealer)
           yes == TRUE
           n == hand.no + 1
           w == "open"
           st == [s \in Seats |-> IF s \in players THEN "active" ELSE "gone"]
           g == Dealt(n, yes, dealer, first, st, w)
           r == [h |-> g, armed |-> {"window"}, late |-> late]
<1>1. /\ ~hand.live /\ hand.no < MaxHands /\ Cardinality(players) >= 2
      /\ hand' = g /\ armed' = {"window"} /\ late' = late
  BY DEF Deal, Dealt
<1>2. /\ hand \in HandRecords /\ late \in SUBSET Callbacks /\ Sound(Here)
      /\ Here.h = hand /\ Here.armed = armed /\ Here.late = late
  BY HereIs
<1>3. /\ players \in SUBSET Seats /\ IsFiniteSet(players)
      /\ \E a, b \in players : a # b
  <2>1. players \in SUBSET Seats
    BY DEF Seated
  <2> HIDE DEF players
  <2>2. IsFiniteSet(players)
    BY <2>1, SeatsAre, FS_Subset
  <2>3. ASSUME ~ \E a, b \in players : a # b PROVE FALSE
    <3>1. players # {}
      BY <1>1, FS_EmptySet
    <3>2. PICK a : players = {a}
      BY <2>3, <3>1
    <3>3. Cardinality({a}) = 1
      BY FS_Singleton
    <3> QED BY <1>1, <3>2, <3>3
  <2> QED BY <2>1, <2>2, <2>3
<1>4. dealer \in players /\ first \in players /\ dealer \in Places /\ first \in Places
  <2>1. hand.dealer \in Places
    BY <1>2, HandFields
  <2>2. dealer \in players
    BY <1>3, <2>1, NextOfIs
  <2>3. dealer \in Places
    BY <1>3, <2>2 DEF Places
  <2>4. first \in players
    BY <1>3, <2>3, NextOfIs
  <2> QED BY <1>3, <2>2, <2>3, <2>4 DEF Places
<1>17. yes
  OBVIOUS
<1>5. /\ n \in 0 .. MaxHands /\ n >= 1 /\ yes \in BOOLEAN /\ w \in Windows /\ w = "open"
      /\ st \in [Seats -> Statuses]
  BY <1>1, <1>2, HandFields, ChoiceAssumption DEF Windows, Statuses
<1>6. \A s \in Seats : st[s] = "active" <=> s \in players
  OBVIOUS
<1> HIDE DEF players, dealer, first, yes, n, w, st
<1>7. /\ g \in HandRecords /\ g.no = n /\ (g.live <=> yes) /\ g.status = st /\ g.window = w
      /\ g.chooser = first /\ SameGoing(NoHand, g) /\ g.turn = NoHand.turn
      /\ g.pick = NoHand.pick /\ (g.five <=> NoHand.five)
  BY <1>4, <1>5, DealtIs
<1> HIDE DEF g
<1>8. r \in Positions /\ r.h = g /\ r.armed = {"window"} /\ r.late = late
  <2>1. {"window"} \in SUBSET Clocks
    BY DEF Clocks
  <2> QED BY <1>2, <1>7, <2>1, PositionIs
<1>9. Becomes(r)
  BY <1>1 DEF Becomes
<1> HIDE DEF r
<1>10. /\ g.turn = NoSeat /\ g.side = NoSide /\ ~g.deferred /\ ~g.five /\ g.round = 0
       /\ g.live /\ Choosing(g)
  BY <1>5, <1>7, <1>17, NoHandIs DEF SameGoing, Choosing
<1>11. NoneOpen(g) /\ PicksOK(g)
  BY <1>7, NoHandIs DEF NoneOpen, PicksOK, Undecided
<1>12. Active(g) = players
  BY <1>3, <1>6, <1>7 DEF Active
<1>13. Two(g) /\ g.chooser \in Active(g)
  BY <1>3, <1>4, <1>7, <1>12 DEF Two
<1>14. ~Pending(r, "side")
  <2>1. hand.side = NoSide
    BY <1>1, <1>2 DEF Sound, Ended
  <2>2. Pending(r, "side") => Pending(Here, "side")
    BY <1>2, <1>8 DEF Pending
  <2> QED BY <1>2, <2>1, <2>2 DEF Sound
<1>15. Sound(r)
  <2>1. Sided(g) /\ RoundGoes(g)
    BY <1>10, ChoiceAssumption DEF Sided, RoundGoes
  <2> QED BY <1>5, <1>7, <1>8, <1>10, <1>11, <1>13, <1>14, <2>1 DEF Sound, Waiting
<1>16. ASSUME ~Overtakes PROVE Clocked(r)
  <2>1. ~Pending(r, "turn")
    <3>1. Pending(r, "turn") => Pending(Here, "turn")
      BY <1>2, <1>8 DEF Pending
    <3> QED BY <1>1, <1>2, <1>16, <3>1 DEF IInv, Good, Clocked, Turns
  <2>2. Turns(r) /\ Sides(r)
    BY <1>8, <1>10, <2>1 DEF Turns, Sides
  <2>3. Numbered(r)
    BY <1>14, <2>1 DEF Numbered, Pending
  <2>4. PickOn(r) /\ Moves(r)
    BY <1>8, <1>10, <1>11 DEF PickOn, Moves, On
  <2> QED BY <2>2, <2>3, <2>4 DEF Clocked
<1> QED BY <1>9, <1>15, <1>16, Stepped DEF Good

\* A table that wakes: the clocks of the picks and of what it waits for are set.
Woken(z, k) == /\ z \in Positions /\ z.h = hand /\ PickOn(z) /\ On(z, k) /\ Numbered(z)
               /\ \A j : Pending(z, j) => j \in {"pick", k}
\* Nothing else is asked of it.
LEMMA WokenOK ==
  ASSUME IInv, hand.live, NEW z, NEW k, Woken(z, k),
         \/ k = "window" /\ Choosing(hand)
         \/ k = "side" /\ hand.side # NoSide
         \/ k = "pick" /\ hand.deferred /\ ~NoneOpen(hand)
  PROVE  Good(z)
<1>1. Sound(Here) /\ Here.h = hand
  BY HereIs
<1>2. Pending(z, "side") => hand.side # NoSide
  BY DEF Woken
<1>3. Sound(z)
  BY <1>1, <1>2 DEF Sound, Woken
<1>4. ASSUME ~Overtakes PROVE Clocked(z)
  <2>1. Turns(Here) /\ Sides(Here) /\ Moves(Here)
    BY <1>4 DEF IInv, Good, Clocked
  <2>2. ~Pending(z, "turn")
    BY DEF Woken
  <2>3. CASE k = "window" /\ Choosing(hand)
    <3>1. hand.turn = NoSeat /\ hand.side = NoSide /\ ~hand.deferred
      BY <1>1, <2>3 DEF Sound, Waiting
    <3> QED BY <2>2, <2>3, <3>1 DEF Clocked, Woken, Turns, Sides, Moves
  <2>4. CASE k = "side" /\ hand.side # NoSide
    <3>1. ~Choosing(hand)
      BY <1>1, <2>4 DEF Sound, Waiting
    <3> QED BY <1>1, <2>1, <2>2, <2>4, <3>1 DEF Clocked, Woken, Turns, Sides, Moves
  <2>5. CASE k = "pick" /\ hand.deferred /\ ~NoneOpen(hand)
    <3>1. hand.turn = NoSeat /\ hand.side = NoSide /\ ~Choosing(hand)
      BY <1>1, <2>1, <2>5 DEF Sound, Waiting, Moves
    <3> QED BY <2>2, <2>5, <3>1 DEF Clocked, Woken, Turns, Sides, Moves
  <2> QED BY <2>3, <2>4, <2>5
<1> QED BY <1>3, <1>4 DEF Good

\* The turn is resumed with a clock of its own (resumeTimers).
Rearmed(x) == [x EXCEPT !.armed = @ \cup {"turn"}, !.h.turnLapsed = FALSE,
                        !.h.longTurn = @ /\ ~x.h.turnLapsed]
\* The player who has the turn is in, and has its clock again.
LEMMA RearmedOK ==
  ASSUME NEW x, Half(x), x.h.turn # NoSeat, ~Overtakes => x.h.turn \in Active(x.h),
         NEW r, r = Rearmed(x)
  PROVE  Good(r)
<1> DEFINE no == FALSE
           long == x.h.longTurn /\ ~x.h.turnLapsed
           g == Turned(x.h, x.h.turn, no, long, x.h.asked)
           a == x.armed \cup {"turn"}
<1>1. /\ x \in Positions
      /\ x.h \in HandRecords /\ x.armed \in SUBSET Clocks /\ x.late \in SUBSET Callbacks
      /\ x = [h |-> x.h, armed |-> x.armed, late |-> x.late]
  BY PositionFields DEF Half, Mid, Base
<1>2. x.h.turn \in Places /\ x.h.asked \in BOOLEAN /\ long \in BOOLEAN /\ no \in BOOLEAN
  BY <1>1, HandFields
<1>3. r = [h |-> g, armed |-> a, late |-> x.late]
  <2> DEFINE y == [x EXCEPT !.armed = @ \cup {"turn"}]
             f == [x.h EXCEPT !.turnLapsed = no]
             z == [y EXCEPT !.h.turnLapsed = no]
             h2 == [f EXCEPT !.longTurn = @ /\ ~x.h.turnLapsed]
  <2>1. y = [h |-> x.h, armed |-> a, late |-> x.late]
    BY <1>1
  <2>2. r = [z EXCEPT !.h.longTurn = @ /\ ~x.h.turnLapsed]
    BY DEF Rearmed
  <2> HIDE DEF y, a, no
  <2>3. z = [h |-> f, armed |-> a, late |-> x.late]
    BY <2>1
  <2>5. f.longTurn = x.h.longTurn
    BY <1>1 DEF HandRecords
  <2>6. h2 = [f EXCEPT !.longTurn = long]
    BY <2>5
  <2>7. g = [f EXCEPT !.longTurn = long]
    BY <1>1 DEF Turned, HandRecords
  <2> HIDE DEF z, f, long
  <2>8. r = [h |-> h2, armed |-> a, late |-> x.late]
    BY <2>2, <2>3
  <2> QED BY <2>6, <2>7, <2>8
<1>4. a \in SUBSET Clocks
  BY <1>1 DEF Clocks
<1> HIDE DEF no, long
<1>5. /\ g \in HandRecords /\ SameHand(x.h, g) /\ SameSeats(x.h, g) /\ SameGoing(x.h, g)
      /\ g.turn = x.h.turn
  BY <1>1, <1>2, TurnedIs
<1> HIDE DEF g
<1>6. r \in Positions /\ r.h = g /\ r.armed = a /\ r.late = x.late
  BY <1>1, <1>3, <1>4, <1>5, PositionIs
<1>7. /\ Active(g) = Active(x.h) /\ (Two(g) <=> Two(x.h)) /\ (PicksOK(g) <=> PicksOK(x.h))
      /\ (NoneOpen(g) <=> NoneOpen(x.h))
  BY <1>5, SameIn
<1>8. /\ (g.live <=> x.h.live) /\ g.no = x.h.no /\ (Choosing(g) <=> Choosing(x.h))
      /\ g.side = x.h.side /\ (g.deferred <=> x.h.deferred) /\ g.round = x.h.round
  BY <1>5 DEF SameHand, SameGoing, Choosing
<1>9. \A k : k # "turn" => (On(r, k) <=> On(x, k)) /\ (Pending(r, k) <=> Pending(x, k))
  BY <1>6, <1>8 DEF On, Pending
<1>10. Sound(r)
  <2>1. (Sided(x.h) => Sided(g)) /\ (RoundGoes(x.h) => RoundGoes(g))
    BY <1>8 DEF Sided, RoundGoes
  <2> QED BY <1>5, <1>6, <1>7, <1>8, <1>9, <2>1 DEF Sound, Half, Mid, Base
<1>11. ASSUME ~Overtakes PROVE Clocked(r)
  <2>1. Base(x) /\ PickOn(x) /\ x.h.side = NoSide /\ ~x.h.deferred /\ Numbered(x)
    BY <1>11 DEF Half, Mid, Tight
  <2>2. PickOn(r)
    BY <1>6, <1>7, <1>8, <1>9, <2>1 DEF PickOn
  <2>3. On(r, "turn")
    BY <1>6 DEF On
  <2>4. Turns(r) /\ Sides(r)
    BY <1>5, <1>6, <1>7, <1>8, <1>11, <2>1, <2>3 DEF Turns, Sides, Base
  <2>5. Numbered(r)
    BY <1>6, <1>8, <2>1 DEF Numbered
  <2>6. Moves(r)
    BY <1>5, <1>6, <1>8, <2>1 DEF Moves, Base
  <2> QED BY <2>2, <2>4, <2>5, <2>6 DEF Clocked
<1> QED BY <1>10, <1>11 DEF Good

\* A table whose variation is chosen, or that waits for none, goes on (resumeTimers).
LEMMA ResumeChosenOK ==
  ASSUME NEW x, Good(x), x.h.live, x.h.side = NoSide, x.h.turn \in Seats, ~x.h.deferred,
         ~Choosing(x.h), NEW r, r = ResumeHand(x)
  PROVE  Good(r)
<1>1. r = Rearmed(x) /\ x.h.turn # NoSeat
  BY SeatsAre DEF ResumeHand, Rearmed
<1>2. Base(x) /\ Two(x.h) /\ RoundGoes(x.h)
  BY DEF Good, Sound, Base
<1>3. ~Overtakes => Tight(x) /\ x.h.turn \in Active(x.h)
  BY <1>1 DEF Good, Clocked, Tight, Turns
<1> QED BY <1>1, <1>2, <1>3, RearmedOK DEF Half, Mid

\* The same after a restart (resumeTimers).
LEMMA ResumeHandOK ==
  ASSUME IInv, hand.live, ~Choosing(hand), NEW y \in Positions, y.h = hand, y.late = {},
         PickOn(y), \A k : k # "pick" => k \notin y.armed, NEW r, r = ResumeHand(y)
  PROVE  Good(r)
<1>1. Sound(Here) /\ Here.h = hand /\ Good(Here)
  BY HereIs DEF IInv
<1>2. Numbered(y) /\ \A k : k # "pick" => ~Pending(y, k)
  BY DEF Numbered, Pending
<1>3. Base(y) /\ Two(hand) /\ (~hand.deferred => RoundGoes(hand))
  BY <1>1, <1>2 DEF Sound, Base
<1>4. CASE hand.deferred
  <2>1. r = IF DeferredDue(y) THEN EndHand(y) ELSE y
    BY <1>4 DEF ResumeHand, RunDeferred
  <2>2. CASE DeferredDue(y)
    <3>1. NoneOpen(y.h) /\ PicksOK(y.h)
      BY <1>3, <2>2, PickingIs DEF DeferredDue, Base
    <3> QED BY <2>1, <2>2, <3>1, EndHandOK
  <2>3. CASE ~DeferredDue(y)
    <3>1. ~NoneOpen(hand)
      BY <1>3, <1>4, <2>3, PickingIs DEF DeferredDue, Base
    <3>2. Woken(y, "pick")
      BY <1>2, <3>1 DEF Woken, PickOn
    <3> QED BY <1>4, <2>1, <2>3, <3>1, <3>2, WokenOK
  <2> QED BY <2>2, <2>3
<1>5. CASE ~hand.deferred /\ hand.side # NoSide /\ hand.sideLapsed
  <2> DEFINE c == [clock |-> "side", no |-> hand.no]
             l == {c}
             w == [h |-> hand, armed |-> y.armed, late |-> l]
  <2>1. r = Unsettled(y, w)
    BY <1>5 DEF ResumeHand, Unsettled
  <2>2. /\ w \in Positions /\ w.h = hand /\ w.armed = y.armed /\ w.late = l /\ c \in l
        /\ \A d \in l : d = c
    <3>1. hand.no \in 1 .. MaxHands
      <4>1. hand.no \in 0 .. MaxHands /\ hand.no >= 1 /\ MaxHands \in Nat
        BY <1>3, HandFields, HereIs, ChoiceAssumption DEF Base
      <4> QED BY <4>1
    <3>2. c \in Callbacks
      BY <3>1 DEF Callbacks, Clocks
    <3>3. l \in SUBSET Callbacks
      BY <3>2
    <3> QED BY <3>3, HereIs, PositionFields, PositionIs
  <2>3. c.clock = "side" /\ c.no = hand.no /\ c = [clock |-> "side", no |-> hand.no]
    OBVIOUS
  <2> HIDE DEF w, c, l
  <2>4. PickOn(w)
    BY <2>2 DEF PickOn, On
  <2>5. On(w, "side") /\ Numbered(w)
    BY <2>2, <2>3 DEF On, Numbered
  <2>6. \A j : Pending(w, j) => j \in {"pick", "side"}
    BY <2>2, <2>3 DEF Pending
  <2>7. Good(w)
    BY <1>5, <2>2, <2>4, <2>5, <2>6, WokenOK DEF Woken
  <2>8. Took(w, y, "side")
    BY <2>2, <2>3 DEF Took, Dropped
  <2> QED BY <1>5, <2>1, <2>2, <2>7, <2>8, UnsettledOK
<1>6. CASE ~hand.deferred /\ hand.side # NoSide /\ ~hand.sideLapsed
  <2> DEFINE a == y.armed \cup {"side"}
             z == [h |-> hand, armed |-> a, late |-> y.late]
  <2>1. r = z
    <3>1. r = [y EXCEPT !.armed = @ \cup {"side"}]
      BY <1>6 DEF ResumeHand
    <3> QED BY <3>1, PositionFields
  <2>2. z \in Positions /\ z.h = hand /\ z.armed = a /\ z.late = y.late
    <3>1. a \in SUBSET Clocks
      BY PositionFields DEF Clocks
    <3> QED BY <3>1, HereIs, PositionFields, PositionIs
  <2> HIDE DEF z
  <2>3. PickOn(z) /\ On(z, "side") /\ Numbered(z)
    BY <2>2 DEF PickOn, On, Numbered
  <2>4. \A j : Pending(z, j) => j \in {"pick", "side"}
    BY <2>2 DEF Pending
  <2> QED BY <1>6, <2>1, <2>2, <2>3, <2>4, WokenOK DEF Woken
<1>7. ASSUME ~hand.deferred, hand.side = NoSide PROVE Half(y)
  BY <1>2, <1>3, <1>7 DEF Half, Mid, Tight
<1>8. CASE ~hand.deferred /\ hand.side = NoSide /\ hand.turn # NoSeat
  <2>1. r = Rearmed(y)
    BY <1>8 DEF ResumeHand, Rearmed
  <2>2. ~Overtakes => hand.turn \in Active(hand)
    BY <1>1, <1>8 DEF Good, Clocked, Turns
  <2> QED BY <1>7, <1>8, <2>1, <2>2, RearmedOK
<1>9. CASE ~hand.deferred /\ hand.side = NoSide /\ hand.turn = NoSeat
  <2> DEFINE yes == TRUE
             s == NextOf(Active(hand), hand.dealer)
  <2>1. r = SetTurn(y, s, yes) /\ yes \in BOOLEAN
    BY <1>9 DEF ResumeHand
  <2>2. s \in Active(hand)
    <3>1. Active(hand) \in SUBSET Seats /\ Active(hand) # {}
      BY <1>3, TwoIs DEF Active
    <3>2. hand.dealer \in Places
      BY HereIs, HandFields
    <3> QED BY <3>1, <3>2, NextOfIs
  <2> HIDE DEF yes, s
  <2> QED BY <1>3, <1>7, <1>9, <2>1, <2>2, SetTurnOK DEF Half
<1> QED BY <1>4, <1>5, <1>6, <1>8, <1>9

\* Another process restores the table from what was saved, and sets its clocks
\* again (resumeTimers, resumeVariation).
LEMMA RestartOK ==
  ASSUME IInv, Restart
  PROVE  IInv'
<1> DEFINE e == {}
           x == [h |-> hand, armed |-> e, late |-> e]
           y == ArmPickTimer(x)
           no == FALSE
<1>1. hand.live /\ Becomes(ResumeTimers(x))
  BY DEF Restart
<1>2. Sound(Here) /\ Here.h = hand /\ hand \in HandRecords /\ PicksOK(hand)
  BY HereIs
<1>3. x \in Positions /\ x.h = hand /\ x.armed = {} /\ x.late = {}
  <2>1. e \in SUBSET Clocks /\ e \in SUBSET Callbacks /\ e = {}
    OBVIOUS
  <2> HIDE DEF e
  <2> QED BY <1>2, <2>1, PositionIs
<1>4. ResumeTimers(x) = IF ~Choosing(hand) THEN ResumeHand(y)
                        ELSE IF hand.window = "open" THEN [y EXCEPT !.armed = @ \cup {"window"}]
                        ELSE ResumeHand(Opened(y, no))
  BY <1>1, <1>3 DEF ResumeTimers, Opened
<1> HIDE DEF x
<1>5. /\ y \in Positions /\ y.h = hand /\ y.late = {} /\ PickOn(y)
      /\ \A k : k # "pick" => k \notin y.armed
  BY <1>2, <1>3, ArmPickIs, ArmPickOn
<1>12. no \in BOOLEAN
  OBVIOUS
<1> HIDE DEF y, no
<1>6. SUFFICES Good(ResumeTimers(x))
  BY <1>1, Stepped
<1>7. CASE ~Choosing(hand)
  BY <1>1, <1>4, <1>5, <1>7, ResumeHandOK
<1>8. CASE Choosing(hand) /\ hand.window = "open"
  <2> DEFINE a == y.armed \cup {"window"}
             z == [h |-> hand, armed |-> a, late |-> y.late]
  <2>1. ResumeTimers(x) = z
    <3>1. [y EXCEPT !.armed = @ \cup {"window"}] = z
      BY <1>5, PositionFields
    <3> QED BY <1>4, <1>8, <3>1
  <2>2. z \in Positions /\ z.h = hand /\ z.armed = a /\ z.late = y.late
    <3>1. a \in SUBSET Clocks
      BY <1>5, PositionFields DEF Clocks
    <3> QED BY <1>2, <1>5, <3>1, PositionFields, PositionIs
  <2> HIDE DEF z
  <2>3. PickOn(z) /\ On(z, "window") /\ Numbered(z)
    BY <1>5, <2>2 DEF PickOn, On, Numbered
  <2>4. \A j : Pending(z, j) => j \in {"pick", "window"}
    BY <1>5, <2>2 DEF Pending
  <2> QED BY <1>1, <1>8, <2>1, <2>2, <2>3, <2>4, WokenOK DEF Woken
<1>9. CASE Choosing(hand) /\ hand.window # "open"
  <2> DEFINE c == [clock |-> "window", no |-> hand.no]
             l == {c}
             w == [h |-> hand, armed |-> y.armed, late |-> l]
             o == Opened(y, no)
  <2>1. ResumeTimers(x) = ResumeHand(o)
    BY <1>4, <1>9
  <2>2. /\ w \in Positions /\ w.h = hand /\ w.armed = y.armed /\ w.late = l /\ c \in l
        /\ \A d \in l : d = c
    <3>1. hand.no \in 1 .. MaxHands
      <4>1. hand.no \in 0 .. MaxHands /\ hand.no >= 1 /\ MaxHands \in Nat
        BY <1>1, <1>2, HandFields, ChoiceAssumption DEF Sound
      <4> QED BY <4>1
    <3>2. c \in Callbacks
      BY <3>1 DEF Callbacks, Clocks
    <3>3. l \in SUBSET Callbacks
      BY <3>2
    <3> QED BY <1>2, <1>5, <3>3, PositionFields, PositionIs
  <2>3. c.clock = "window" /\ c.no = hand.no /\ c = [clock |-> "window", no |-> hand.no]
    OBVIOUS
  <2> HIDE DEF w, c, l, o
  <2>4. PickOn(w)
    BY <1>5, <2>2 DEF PickOn, On
  <2>5. On(w, "window") /\ Numbered(w)
    BY <2>2, <2>3 DEF On, Numbered
  <2>6. \A j : Pending(w, j) => j \in {"pick", "window"}
    BY <1>5, <2>2, <2>3 DEF Pending
  <2>7. Good(w)
    BY <1>1, <1>9, <2>2, <2>4, <2>5, <2>6, WokenOK DEF Woken
  <2>8. Took(w, y, "window")
    BY <1>5, <2>2, <2>3 DEF Took, Dropped
  <2>9. /\ Good(o) /\ o.h.live /\ o.h.side = NoSide /\ o.h.turn \in Seats /\ ~o.h.deferred
        /\ ~Choosing(o.h)
    BY <1>1, <1>9, <1>12, <2>2, <2>7, <2>8, OpenedOK DEF o
  <2> QED BY <2>1, <2>9, ResumeChosenOK
<1> QED BY <1>7, <1>8, <1>9

-----------------------------------------------------------------------------
(* The theorems *)

\* The invariant holds of an empty table.
LEMMA IndInit ==
  ASSUME Init
  PROVE  IInv
<1> DEFINE e == {}
           h == NoHand
           r == [h |-> h, armed |-> e, late |-> e]
<1>1. Here = r
  BY DEF Init, Here
<1>2. e \in SUBSET Clocks /\ e \in SUBSET Callbacks /\ e = {} /\ h \in HandRecords
  BY NoHandIs
<1>3. /\ ~h.live /\ h.turn = NoSeat /\ h.side = NoSide /\ ~h.deferred /\ ~Choosing(h)
      /\ NoneOpen(h) /\ PicksOK(h)
  BY NoHandIs DEF Choosing
<1> HIDE DEF e, h
<1>4. r \in Positions /\ r.h = h /\ r.armed = {} /\ r.late = {}
  BY <1>2, PositionIs
<1> HIDE DEF r
<1>5. \A k : ~Pending(r, k)
  BY <1>4 DEF Pending
<1>6. Sound(r)
  BY <1>3, <1>4, <1>5 DEF Sound, Ended
<1>7. Clocked(r)
  BY <1>3, <1>4, <1>5 DEF Clocked, PickOn, Turns, Sides, Numbered, Moves
<1> QED BY <1>1, <1>6, <1>7 DEF IInv, Good

\* Every step keeps it.
LEMMA IndStep ==
  ASSUME IInv, [Next]_vars
  PROVE  IInv'
<1>1. CASE Deal
  BY <1>1, DealOK
<1>2. ASSUME NEW s \in Seats, SelectVariation(s) PROVE IInv'
  BY <1>2, SelectVariationOK
<1>3. ASSUME NEW s \in Seats, See(s) PROVE IInv'
  BY <1>3, SeeOK
<1>4. ASSUME NEW s \in Seats, SelectCards(s) PROVE IInv'
  BY <1>4, SelectCardsOK
<1>5. ASSUME NEW s \in Seats, Bet(s) PROVE IInv'
  BY <1>5, BetOK
<1>6. ASSUME NEW s \in Seats, PackMove(s) PROVE IInv'
  BY <1>6, PackMoveOK
<1>7. ASSUME NEW s \in Seats, Show(s) PROVE IInv'
  BY <1>7, ShowOK
<1>8. ASSUME NEW s \in Seats, RequestSideshow(s) PROVE IInv'
  BY <1>8, RequestSideshowOK
<1>9. ASSUME NEW s \in Seats, ForceSideshow(s) PROVE IInv'
  BY <1>9, ForceSideshowOK
<1>10. ASSUME NEW s \in Seats, RespondToSideshow(s) PROVE IInv'
  BY <1>10, RespondToSideshowOK
<1>11. ASSUME NEW s \in Seats, Leave(s) PROVE IInv'
  BY <1>11, LeaveOK
<1>12. ASSUME NEW s \in Seats, LapsePick(s) PROVE IInv'
  BY <1>12, LapsePickOK
<1>13. CASE LapseWindow
  BY <1>13, LapseWindowOK
<1>14. CASE LapseTurn
  BY <1>14, LapseTurnOK
<1>15. CASE LapseSide
  BY <1>15, LapseSideOK
<1>16. ASSUME NEW k \in Clocks, Fire(k) PROVE IInv'
  BY <1>16, FireOK
<1>17. ASSUME NEW c \in late, Timeout(c) PROVE IInv'
  BY <1>17, WindowTimeoutOK, TurnTimeoutOK, SideshowTimeoutOK, PickTimeoutOK DEF Timeout
<1>18. CASE Restart
  BY <1>18, RestartOK
<1>19. CASE UNCHANGED vars
  <2>1. Becomes(Here)
    BY <1>19, HereIs DEF vars, Becomes
  <2> QED BY <2>1, Stepped DEF IInv
<1> QED
  BY <1>1, <1>2, <1>3, <1>4, <1>5, <1>6, <1>7, <1>8, <1>9, <1>10, <1>11, <1>12, <1>13, <1>14,
     <1>15, <1>16, <1>17, <1>18, <1>19 DEF Next

\* In every state that is reached, the records of a hand agree with one another;
\* and the hand is in one mode, with its clock on its way, unless a sideshow may
\* overtake its asker's timeout.
THEOREM Inductive == Spec => []IInv
<1>1. Init => IInv
  BY IndInit
<1>2. IInv /\ [Next]_vars => IInv'
  BY IndStep
<1> QED BY <1>1, <1>2, PTL DEF Spec

\* Restarts are used up one at a time.
LEMMA RestartsLeft == Spec => [](restarts \in 0 .. MaxRestarts)
<1>1. Init => restarts \in 0 .. MaxRestarts
  BY ChoiceAssumption DEF Init
<1>2. restarts \in 0 .. MaxRestarts /\ [Next]_vars => (restarts \in 0 .. MaxRestarts)'
  <2> SUFFICES ASSUME restarts \in 0 .. MaxRestarts, [Next]_vars
               PROVE  restarts' \in 0 .. MaxRestarts
    OBVIOUS
  <2>1. CASE Restart
    BY <2>1, ChoiceAssumption DEF Restart
  <2>2. CASE ~Restart
    <3>1. restarts' = restarts
      BY <2>2 DEF Next, vars, Deal, SelectVariation, See, SelectCards, Bet, PackMove, Show,
                  RequestSideshow, ForceSideshow, RespondToSideshow, Leave, LapsePick,
                  LapseWindow, LapseTurn, LapseSide, Fire, Timeout, WindowTimeout, TurnTimeout,
                  SideshowTimeout, PickTimeout
    <3> QED BY <3>1
  <2> QED BY <2>1, <2>2
<1> QED BY <1>1, <1>2, PTL DEF Spec

\* Every variable keeps to its type.
THEOREM TypesHold == Spec => []TypeOK
<1>1. IInv /\ restarts \in 0 .. MaxRestarts => TypeOK
  <2> SUFFICES ASSUME IInv, restarts \in 0 .. MaxRestarts PROVE TypeOK
    OBVIOUS
  <2>1. hand \in HandRecords /\ armed \in SUBSET Clocks /\ late \in SUBSET Callbacks
    BY HereIs
  <2>2. /\ hand.no \in 0 .. MaxHands /\ hand.live \in BOOLEAN
        /\ hand.dealer \in Places /\ hand.start \in Places /\ hand.round \in 0 .. MaxBetRounds
        /\ hand.status \in [Seats -> Statuses] /\ hand.window \in Windows
        /\ hand.chooser \in Places /\ hand.pick \in [Seats -> Picks] /\ hand.turn \in Places
        /\ hand.side \in [from : Places, to : Places]
    BY <2>1, HandFields
  <2>3. hand.side.from \in Places /\ hand.side.to \in Places
    BY <2>2
  <2>4. hand.round \in 0 .. IF MaxBetRounds = 0 THEN 0 ELSE MaxBetRounds
    BY <2>2
  <2> QED BY <2>1, <2>2, <2>3, <2>4
          DEF TypeOK, Places, Statuses, Windows, Picks, Callbacks
<1> QED BY <1>1, Inductive, RestartsLeft, PTL

\* A live hand always waits for something whose clock runs or whose callback is
\* on its way, after a restart too (resumeTimers, serverShowdown).
THEOREM SomethingComes == ~Overtakes => (Spec => []SomethingWillCome)
<1> SUFFICES ASSUME ~Overtakes PROVE Spec => []SomethingWillCome
  OBVIOUS
<1>1. IInv => SomethingWillCome
  <2> SUFFICES ASSUME IInv, hand.live
               PROVE  \E k \in Clocks :
                         /\ k \in armed \/ Callback(k) \in late
                         /\ CASE k = "window" -> Choosing(hand)
                              [] k = "turn"   -> hand.turn # NoSeat
                              [] k = "side"   -> hand.side # NoSide
                              [] k = "pick"   -> Picking(hand, Seats)
    BY DEF SomethingWillCome
  <2>1. /\ PickOn(Here) /\ Turns(Here) /\ Sides(Here) /\ Moves(Here)
        /\ Here.h = hand /\ Here.armed = armed /\ Here.late = late /\ PicksOK(hand)
    BY HereIs DEF IInv, Good, Clocked
  <2>2. \A k : On(Here, k) <=> k \in armed \/ Callback(k) \in late
    BY <2>1 DEF On, Callback
  <2>3. CASE Choosing(hand)
    <3>1. On(Here, "window")
      BY <2>1, <2>3 DEF Moves
    <3> "window" \in Clocks
      BY DEF Clocks
    <3> WITNESS "window" \in Clocks
    <3> QED BY <2>2, <2>3, <3>1
  <2>4. CASE hand.deferred
    <3>1. On(Here, "pick") /\ Picking(hand, Seats)
      BY <2>1, <2>4, PickingIs DEF Moves, PickOn
    <3> "pick" \in Clocks
      BY DEF Clocks
    <3> WITNESS "pick" \in Clocks
    <3> QED BY <2>2, <3>1
  <2>5. CASE hand.side # NoSide
    <3>1. On(Here, "side")
      BY <2>1, <2>5 DEF Sides
    <3> "side" \in Clocks
      BY DEF Clocks
    <3> WITNESS "side" \in Clocks
    <3> QED BY <2>2, <2>5, <3>1
  <2>6. CASE hand.side = NoSide /\ hand.turn # NoSeat
    <3>1. On(Here, "turn")
      BY <2>1, <2>6 DEF Turns
    <3> "turn" \in Clocks
      BY DEF Clocks
    <3> WITNESS "turn" \in Clocks
    <3> QED BY <2>2, <2>6, <3>1
  <2> QED BY <2>1, <2>3, <2>4, <2>5, <2>6 DEF Moves
<1> QED BY <1>1, Inductive, PTL

\* Whatever closure runs last, what it saved can be restored (validateSnapshot).
THEOREM Restores == ~Overtakes => (Spec => []SnapshotRestores)
<1> SUFFICES ASSUME ~Overtakes PROVE Spec => []SnapshotRestores
  OBVIOUS
<1>1. IInv => SnapshotRestores
  <2> SUFFICES ASSUME IInv, hand.live
               PROVE  /\ hand.turn \in Seated(hand) \cup {NoSeat}
                      /\ hand.deferred => hand.turn = NoSeat /\ hand.side = NoSide
                      /\ hand.side # NoSide => {hand.side.from, hand.side.to} \subseteq Seated(hand)
                      /\ Choosing(hand) => hand.chooser \in Seated(hand)
    BY DEF SnapshotRestores, Restorable
  <2>1. /\ Sound(Here) /\ Turns(Here) /\ Sides(Here) /\ Moves(Here) /\ Here.h = hand
    BY HereIs DEF IInv, Good, Clocked
  <2>2. Active(hand) \subseteq Seated(hand)
    BY DEF Active, Seated
  <2>3. hand.turn \in Active(hand) \cup {NoSeat}
    BY <2>1 DEF Turns, Sides
  <2> QED BY <2>1, <2>2, <2>3 DEF Sound, Waiting, Sides, Moves
<1> QED BY <1>1, Inductive, PTL

\* No comparison judges a player who is still to choose their cards, whatever
\* overtakes what (serverShowdown, pickPending).
THEOREM ShowdownsWait == Spec => ShowdownWaits
<1> DEFINE Waits == hand.live /\ ~hand'.live /\ hand'.no = hand.no
                      => Cardinality(Active(hand')) <= 1 \/ ~Picking(hand', Seats)
<1>1. IInv' => Waits
  <2> SUFFICES ASSUME IInv', ~hand'.live
               PROVE  Cardinality(Active(hand')) <= 1 \/ ~Picking(hand', Seats)
    OBVIOUS
  <2>1. Here'.h = hand' /\ Sound(Here')
    BY DEF IInv, Good, Here
  <2>2. PicksOK(hand') /\ (~Two(hand') \/ NoneOpen(hand'))
    BY <2>1 DEF Sound, Ended
  <2> QED BY <2>2, TwoIs, PickingIs
<1>2. ShowdownWaits <=> [][Waits]_vars
  BY PTL DEF ShowdownWaits
<1> HIDE DEF Waits
<1> QED BY <1>1, <1>2, Inductive, PTL
=============================================================================
