-------------------------- MODULE PokerHandProofs --------------------------
(***************************************************************************)
(* What holds of PokerHand for every set of players, any number of seats,  *)
(* every boot, stacks and streets, and any number of hands and purchases.  *)
(*                                                                         *)
(* IInv says what a table is between two closures.  It rests (Rest) or a   *)
(* hand is played (Good): the seats in the hand and its accounts are each  *)
(* other's (Matched), nobody in has collected more than a player who can   *)
(* still bet (Even), and whose turn it is is somebody the street waits for.*)
(* Books ties the wallets to the seats through the accounts.  Within a     *)
(* closure a hand may also be over and unpaid (Ending); SettledIs pays it. *)
(***************************************************************************)
EXTENDS PokerHand, Sums, SequenceTheorems

-----------------------------------------------------------------------------
(* Seats *)

\* There are N seats, numbered from 0.
LEMMA SeatsAre ==
  IsFiniteSet(Seats) /\ Cardinality(Seats) = N /\ Seats \subseteq Nat /\ NoSeat \notin Seats
<1>1. N \in Nat
  BY PokerAssumption
<1>2. IsFiniteSet(0 .. N - 1) /\ Cardinality(0 .. N - 1) = N
  BY <1>1, FS_Interval
<1> QED BY <1>1, <1>2 DEF Seats, NoSeat

\* Remainders.
LEMMA Remainders ==
  /\ \A a \in Int : a % N \in 0 .. N - 1
  /\ \A a \in 0 .. N - 1 : a % N = a
  /\ \A a \in Int : -N <= a /\ a < 0 => a % N = a + N
<1>1. N \in Nat \ {0}
  BY PokerAssumption DEF MinPlayers
<1>2. \A n \in Nat \ {0} : \A x \in Int : x % n \in 0 .. n - 1
  OBVIOUS
<1>3. \A n \in Nat \ {0} : \A x \in 0 .. n - 1 : x % n = x
  OBVIOUS
<1>4. \A n \in Nat \ {0} : \A x \in Int : -n <= x /\ x < 0 => x % n = x + n
  OBVIOUS
<1> QED BY <1>1, <1>2, <1>3, <1>4

\* NextSeat finds a seat; from one of the seats it looks among, the first other one.
LEMMA NextSeatIs ==
  ASSUME NEW S \in SUBSET Seats, S # {}, NEW from \in Int
  PROVE  /\ NextSeat(S, from) \in S
         /\ from \in S /\ S # {from} => NextSeat(S, from) # from
<1> DEFINE f == [i \in S |-> (i - from - 1) % N]
<1>1. \A i \in S : i \in Int /\ i - from - 1 \in Int
  BY SeatsAre
<1>2. \A i \in S : f[i] \in Int
  BY <1>1, Remainders
<1>3. IsFiniteSet(S)
  BY SeatsAre, FS_Subset
<1>4. \E i \in S : \A j \in S : f[i] <= f[j]
  <2> HIDE DEF f
  <2> QED BY <1>2, <1>3, Lowest
<1>5. \E i \in S : \A j \in S : (i - from - 1) % N <= (j - from - 1) % N
  BY <1>4
<1> DEFINE n == NextSeat(S, from)
<1>6. n \in S /\ \A j \in S : (n - from - 1) % N <= (j - from - 1) % N
  BY <1>5, Zenon DEF NextSeat
<1>7. ASSUME from \in S, S # {from}, n = from PROVE FALSE
  <2>1. PICK j \in S : j # from
    BY <1>7
  <2>2. N \in Nat /\ from \in 0 .. N - 1 /\ j \in 0 .. N - 1
    BY PokerAssumption, <1>7, <2>1 DEF Seats
  <2>3. (from - from - 1) % N = N - 1
    <3>1. from - from - 1 = -1 /\ -1 \in Int /\ -N <= -1 /\ -1 < 0 /\ -1 + N = N - 1
      BY <2>2
    <3>2. (-1) % N = -1 + N
      BY <3>1, Remainders
    <3> QED BY <3>1, <3>2
  <2>4. (j - from - 1) % N < N - 1
    <3>1. CASE j > from
      <4>1. j - from - 1 \in 0 .. N - 1 /\ j - from - 1 < N - 1
        BY <2>2, <3>1
      <4> QED BY <4>1, Remainders
    <3>2. CASE j < from
      <4>1. j - from - 1 \in Int /\ -N <= j - from - 1 /\ j - from - 1 < 0 /\ j - from - 1 + N < N - 1
        BY <2>2, <3>2
      <4> QED BY <4>1, Remainders
    <3> QED BY <2>1, <2>2, <3>1, <3>2
  <2>5. (n - from - 1) % N <= (j - from - 1) % N
    BY <1>6, <2>1
  <2>6. (j - from - 1) % N \in Int /\ N \in Int
    BY <2>2, Remainders
  <2> HIDE DEF n
  <2> QED BY <1>7, <2>3, <2>4, <2>5, <2>6
<1> QED BY <1>6, <1>7

-----------------------------------------------------------------------------
(* What a table is, between its closures and within one *)

SeatRecords == [user : Users \cup {NoUser}, chips : Nat, in : BOOLEAN, streetBet : Nat,
                allIn : BOOLEAN, acted : BOOLEAN]
EntryRecords == [seat : Seats \cup {NoSeat}, chips : Nat, written : Nat, contributed : Nat,
                 out : BOOLEAN, left : BOOLEAN]
HandRecords == [live : BOOLEAN, street : 0 .. 4, cur : Nat, minRaise : Nat,
                turn : Seats \cup {NoSeat}, entry : [Users -> EntryRecords]]
TableRecords == [seat : [Seats -> SeatRecords], h : HandRecords, button : Seats \cup {NoSeat},
                 starting : BOOLEAN, ticking : BOOLEAN, late : BOOLEAN, open : BOOLEAN,
                 end : {"no", "showdown", "house", "refund"}]

\* The street that is the showdown.
LastStreet == CASE game = "blinds" -> BoardStreets + 1
                [] game = "draw" -> 3
                [] game = "house" -> 1

OneSeat(x) ==
    \A i, j \in Seats : x.seat[i].user # NoUser /\ x.seat[i].user = x.seat[j].user => i = j

\* The players in the hand, and the accounts of those in it, are each other's.
Matched(x) ==
    /\ \A i \in InHand(x) : LET u == x.seat[i].user
                                e == x.h.entry[u]
                            IN  /\ u \in Users /\ e.seat = i /\ ~e.out /\ ~e.left
                                /\ e.chips = x.seat[i].chips
    /\ \A u \in Users : LET e == x.h.entry[u]
                        IN  e.seat # NoSeat /\ ~e.out /\ ~e.left =>
                              e.seat \in InHand(x) /\ x.seat[e.seat].user = u

\* What a player has put in on the streets before this one.
Collected(x, i) == x.h.entry[x.seat[i].user].contributed - x.seat[i].streetBet

\* Nobody in has collected more than a player who can still bet, or bet more than is asked.
Even(x) ==
    /\ \A p \in CanAct(x), q \in InHand(x) : Collected(x, q) <= Collected(x, p)
    /\ game # "house" => \A q \in InHand(x) : x.seat[q].streetBet <= x.h.cur
    /\ Here(x) = "draw" => x.h.cur = 0

\* A hand is played, and whose turn it is may be open.
Playing(x) ==
    /\ x \in TableRecords /\ x.open /\ ~x.starting /\ x.end = "no"
    /\ x.h.live /\ x.h.street \in 0 .. LastStreet - 1
    /\ OneSeat(x) /\ Matched(x) /\ Even(x)

Enough(x) == game # "house" => Cardinality(InHand(x)) >= 2

\* A hand between two closures.
Good(x) ==
    /\ Playing(x) /\ Enough(x)
    /\ x.h.turn \in Waiting(x) /\ (x.ticking \/ x.late)

\* A hand that is over, its money not yet moved.
Ending(x) ==
    /\ x \in TableRecords /\ x.open /\ ~x.starting /\ ~x.ticking /\ ~x.late
    /\ OneSeat(x) /\ Matched(x)
    /\ IF game = "house" THEN x.end = "house" ELSE x.end = "showdown" /\ InHand(x) # {}

\* No hand.
Rest(x) ==
    /\ x \in TableRecords /\ x.end = "no" /\ x.h = NoHand /\ ~x.ticking /\ ~x.late
    /\ OneSeat(x) /\ InHand(x) = {}

Outcome(x) == Good(x) \/ Ending(x)

-----------------------------------------------------------------------------
(* Streets and turns *)

\* What the streets are.
LEMMA StreetsAre ==
  ASSUME game \in Games
  PROVE  /\ LastStreet \in 1 .. 4 /\ \A k \in LastStreet .. 4 : Street(k) = "showdown"
         /\ game = "house" => LastStreet = 1
         /\ \A k \in 0 .. LastStreet - 1 :
               /\ Street(k) \in {"betting", "draw", "decision"}
               /\ Street(k) = "decision" <=> game = "house"
               /\ k = 0 => Street(k) # "draw"
<1>1. game \in {"blinds", "draw", "house"} /\ BoardStreets \in 0 .. 3
  BY PokerAssumption
<1>2. CASE game = "blinds"
  <2>1. LastStreet = BoardStreets + 1
    BY <1>2 DEF LastStreet
  <2>2. \A k \in 0 .. 4 : Street(k) = IF k <= BoardStreets THEN "betting" ELSE "showdown"
    BY <1>2 DEF Street
  <2> QED BY <1>1, <1>2, <2>1, <2>2
<1>3. CASE game = "draw"
  <2>1. LastStreet = 3
    BY <1>3 DEF LastStreet
  <2>2. /\ Street(0) = "betting" /\ Street(1) = "draw" /\ Street(2) = "betting"
        /\ Street(3) = "showdown" /\ Street(4) = "showdown"
    BY <1>3 DEF Street
  <2> QED BY <1>3, <2>1, <2>2
<1>4. CASE game = "house"
  <2>1. LastStreet = 1
    BY <1>4 DEF LastStreet
  <2>2. Street(0) = "decision" /\ \A k \in 1 .. 4 : Street(k) = "showdown"
    BY <1>4 DEF Street
  <2> QED BY <1>4, <2>1, <2>2
<1> QED BY <1>1, <1>2, <1>3, <1>4

\* Whom a street waits for is in the hand; where nobody can bet, it waits for nobody.
LEMMA WaitingIn ==
  ASSUME NEW x
  PROVE  /\ Waiting(x) \subseteq InHand(x) /\ InHand(x) \subseteq Seats
         /\ CanAct(x) \subseteq InHand(x) /\ NeedsAction(x) \subseteq CanAct(x)
         /\ IsFiniteSet(InHand(x)) /\ IsFiniteSet(CanAct(x))
<1>1. /\ InHand(x) \subseteq Seats /\ CanAct(x) \subseteq InHand(x)
      /\ NeedsAction(x) \subseteq CanAct(x) /\ Undecided(x) \subseteq InHand(x)
  BY DEF InHand, CanAct, NeedsAction, Undecided
<1>2. Waiting(x) \subseteq InHand(x)
  BY <1>1 DEF Waiting
<1> QED BY <1>1, <1>2, SeatsAre, FS_Subset

\* It is the seats, the street and its bet that say whom.
LEMMA WaitingSame ==
  ASSUME NEW x, NEW y, x.seat = y.seat, x.h.street = y.h.street, x.h.cur = y.h.cur
  PROVE  /\ Waiting(x) = Waiting(y) /\ InHand(x) = InHand(y) /\ CanAct(x) = CanAct(y)
         /\ Here(x) = Here(y)
<1>1. InHand(x) = InHand(y) /\ Here(x) = Here(y)
  BY DEF InHand, Here
<1>2. CanAct(x) = CanAct(y)
  BY <1>1 DEF CanAct
<1>3. NeedsAction(x) = NeedsAction(y) /\ Undecided(x) = Undecided(y)
  BY <1>1, <1>2 DEF NeedsAction, Undecided
<1> QED BY <1>1, <1>2, <1>3, Zenon DEF Waiting

\* The two counts Waiting takes of those who can bet.
LEMMA Counts ==
  ASSUME NEW S, IsFiniteSet(S)
  PROVE  /\ Cardinality(S) \in Nat
         /\ Cardinality(S) = 0 <=> S = {}
         /\ Cardinality(S) = 1 <=> \E i \in S : S = {i}
<1>1. Cardinality(S) \in Nat /\ (Cardinality(S) = 0 <=> S = {})
  BY FS_CardinalityType, FS_EmptySet
<1>2. Cardinality(S) = 1 <=> \E i : S = {i}
  BY FS_Singleton
<1> QED BY <1>1, <1>2

\* The first to act of a street that waits for somebody is one of them.
LEMMA FirstIsWaiting ==
  ASSUME NEW x, x.button \in Int, game \in Games, Waiting(x) # {}, x.h.street \in 0 .. LastStreet - 1
  PROVE  FirstToAct(x) \in Waiting(x)
<1> DEFINE first == NextSeat(InHand(x), x.button)
           bb == IF Cardinality(InHand(x)) = 2 THEN first ELSE NextSeat(InHand(x), first)
<1>1. InHand(x) # {} /\ InHand(x) \in SUBSET Seats /\ Seats \subseteq Int
  BY WaitingIn, SeatsAre
<1>2. first \in Int /\ bb \in Int
  <2>1. first \in InHand(x) /\ first \in Int
    BY <1>1, NextSeatIs
  <2>2. NextSeat(InHand(x), first) \in Int
    BY <1>1, <2>1, NextSeatIs
  <2> QED BY <2>1, <2>2
<1>3. NextSeat(Waiting(x), x.button) \in Waiting(x)
  <2>1. Waiting(x) \in SUBSET Seats
    BY WaitingIn
  <2> QED BY <2>1, NextSeatIs
<1>4. ASSUME x.h.street = 0, game = "blinds"
      PROVE  NextSeat(NeedsAction(x), bb) \in Waiting(x)
  <2>1. Here(x) = "betting"
    <3>1. Here(x) \in {"betting", "draw", "decision"} /\ Here(x) # "decision" /\ Here(x) # "draw"
      BY <1>4, StreetsAre DEF Here
    <3> QED BY <3>1
  <2>2. CanAct(x) # {} /\ Cardinality(InHand(x)) >= 2
    BY <2>1, WaitingIn, Counts DEF Waiting
  <2>3. CASE Cardinality(CanAct(x)) = 1
    <3>1. Waiting(x) = {i \in CanAct(x) : x.seat[i].streetBet < x.h.cur}
      BY <2>1, <2>2, <2>3, WaitingIn, Counts DEF Waiting
    <3>2. NeedsAction(x) = Waiting(x)
      <4>1. PICK i \in CanAct(x) : CanAct(x) = {i}
        BY <2>3, WaitingIn, Counts
      <4>2. x.seat[i].streetBet < x.h.cur
        BY <3>1, <4>1
      <4> QED BY <3>1, <4>1, <4>2 DEF NeedsAction
    <3>3. NeedsAction(x) \in SUBSET Seats
      BY WaitingIn
    <3> QED BY <1>2, <3>2, <3>3, NextSeatIs
  <2>4. CASE Cardinality(CanAct(x)) # 1
    <3>1. Waiting(x) = NeedsAction(x)
      BY <2>1, <2>2, <2>4, WaitingIn, Counts DEF Waiting
    <3>3. NeedsAction(x) \in SUBSET Seats
      BY WaitingIn
    <3> QED BY <1>2, <3>1, <3>3, NextSeatIs
  <2> QED BY <2>3, <2>4
<1> QED BY <1>3, <1>4 DEF FirstToAct

\* A turn given to one the street waits for.
LEMMA TurnGiven ==
  ASSUME NEW x, Playing(x), Enough(x), NEW i \in Waiting(x)
  PROVE  Good(SetTurn(x, i))
<1> DEFINE y == SetTurn(x, i)
<1>1. x \in TableRecords /\ i \in Seats
  BY WaitingIn DEF Playing
<1>2. /\ y \in TableRecords /\ y.seat = x.seat /\ y.h.street = x.h.street /\ y.h.cur = x.h.cur
      /\ y.h.entry = x.h.entry /\ y.h.live = x.h.live /\ y.h.turn = i /\ y.ticking
      /\ y.open = x.open /\ y.starting = x.starting /\ y.end = x.end
  BY <1>1 DEF SetTurn, TableRecords, HandRecords
<1> HIDE DEF y
<1>3. Waiting(x) = Waiting(y) /\ InHand(x) = InHand(y) /\ CanAct(x) = CanAct(y) /\ Here(x) = Here(y)
  BY <1>2, WaitingSame
<1>4. Even(y) /\ Matched(y) /\ OneSeat(y) /\ Enough(y)
  <2>1. Even(x) /\ Matched(x) /\ OneSeat(x)
    BY DEF Playing
  <2>2. Even(y)
    BY <1>2, <1>3, <2>1 DEF Even, Collected
  <2>3. Matched(y)
    BY <1>2, <1>3, <2>1 DEF Matched
  <2>4. OneSeat(y)
    BY <1>2, <2>1 DEF OneSeat
  <2>5. Enough(y)
    BY <1>3 DEF Enough
  <2> QED BY <2>2, <2>3, <2>4, <2>5
<1>5. Playing(y)
  BY <1>2, <1>4 DEF Playing
<1> QED BY <1>2, <1>3, <1>4, <1>5 DEF Good, y

\* The chips of nobody's bet are asked of a street that closes.
LEMMA ClosedEven ==
  ASSUME game \in Games, NEW x, Playing(x), Enough(x), game # "house", Waiting(x) = {},
         NEW p \in CanAct(x), NEW q \in InHand(x)
  PROVE  x.h.entry[x.seat[q].user].contributed <= x.h.entry[x.seat[p].user].contributed
<1>1. Here(x) \in {"betting", "draw"}
  BY StreetsAre DEF Here, Playing
<1>2. p \in InHand(x) /\ p \in Seats /\ q \in Seats /\ CanAct(x) # {}
  BY WaitingIn
<1>3. x.seat[p].streetBet >= x.h.cur
  <2>0. x.seat[p].streetBet \in Nat /\ x.h.cur \in Nat
    BY <1>2 DEF Playing, TableRecords, SeatRecords, HandRecords
  <2>1. CASE Here(x) = "betting"
    <3>1. Cardinality(InHand(x)) >= 2 /\ Cardinality(InHand(x)) \in Nat
      BY WaitingIn, Counts DEF Enough
    <3>2. CASE Cardinality(CanAct(x)) = 1
      <4>1. Waiting(x) = {i \in CanAct(x) : x.seat[i].streetBet < x.h.cur}
        BY <1>2, <2>1, <3>1, <3>2 DEF Waiting
      <4> QED BY <2>0, <4>1
    <3>3. CASE Cardinality(CanAct(x)) # 1
      <4>1. Waiting(x) = NeedsAction(x)
        BY <1>2, <2>1, <3>1, <3>3 DEF Waiting
      <4> QED BY <2>0, <4>1 DEF NeedsAction
    <3> QED BY <3>2, <3>3
  <2>2. CASE Here(x) = "draw"
    BY <2>0, <2>2 DEF Playing, Even
  <2> QED BY <1>1, <2>1, <2>2
<1>4. Collected(x, q) <= Collected(x, p) /\ x.seat[q].streetBet <= x.h.cur
  BY <1>2 DEF Playing, Even
<1>5. /\ x.seat[p].user \in Users /\ x.seat[q].user \in Users
      /\ x.h.entry \in [Users -> EntryRecords] /\ x.h.cur \in Nat
      /\ x.seat[p].streetBet \in Nat /\ x.seat[q].streetBet \in Nat
  BY <1>2 DEF Playing, Matched, TableRecords, SeatRecords, HandRecords
<1>6. \A u \in Users : x.h.entry[u].contributed \in Nat
  BY <1>5 DEF EntryRecords
<1> QED BY <1>3, <1>4, <1>5, <1>6 DEF Collected

\* The next street, after a street that has closed.
LEMMA LaterStreetIs ==
  ASSUME game \in Games, NEW x, Playing(x), Enough(x), Waiting(x) = {},
         InHand(x) # {}, ~x.ticking, ~x.late
  PROVE  Outcome(LaterStreet(x, x.h.street + 1))
<1> DEFINE i == x.h.street + 1
           y == [x EXCEPT !.h.street = i, !.h.cur = 0, !.h.minRaise = Boot,
                       !.seat = [s \in Seats |->
                          [x.seat[s] EXCEPT !.streetBet = 0, !.acted = @ /\ ~x.seat[s].in]]]
           P(k) == /\ Street(k) = "showdown" \/ Waiting([y EXCEPT !.h.street = k]) # {}
                   /\ \A l \in i .. k - 1 : Waiting([y EXCEPT !.h.street = l]) = {}
           j == CHOOSE k \in i .. 4 : P(k)
           z == [y EXCEPT !.h.street = j]
<1>1. /\ x \in TableRecords /\ LastStreet \in 1 .. 4 /\ i \in 1 .. LastStreet /\ i \in 1 .. 4
      /\ x.h.street \in Nat
  BY StreetsAre DEF Playing
<1>2. \E k \in i .. 4 : P(k)
  <2> DEFINE X == {k \in i .. LastStreet : Street(k) = "showdown"
                                            \/ Waiting([y EXCEPT !.h.street = k]) # {}}
             f == [k \in X |-> k]
  <2>1. LastStreet \in X /\ X \subseteq i .. LastStreet /\ X \subseteq i .. 4 /\ X \subseteq Int
    <3>1. Street(LastStreet) = "showdown"
      BY <1>1, StreetsAre
    <3> HIDE DEF i, y
    <3>2. LastStreet \in i .. LastStreet /\ i .. LastStreet \subseteq i .. 4 /\ i .. 4 \subseteq Int
      BY <1>1
    <3> QED BY <3>1, <3>2
  <2>2. IsFiniteSet(X)
    <3>1. IsFiniteSet(i .. LastStreet)
      BY <1>1, FS_Interval
    <3> QED BY <2>1, <3>1, FS_Subset, Zenon
  <2>3. \E m \in X : \A k \in X : f[m] <= f[k]
    <3>1. \A k \in X : f[k] \in Int
      BY <2>1, Zenon
    <3> HIDE DEF X, f
    <3> QED BY <2>1, <2>2, <3>1, Lowest, Zenon
  <2>4. PICK m \in X : \A k \in X : m <= k
    BY <2>3, Zenon
  <2>5. \A l \in i .. m - 1 : l \in i .. LastStreet /\ l \notin X
    <3>1. m \in i .. LastStreet
      OBVIOUS
    <3> HIDE DEF X, i
    <3> QED BY <1>1, <2>4, <3>1
  <2>6. \A l \in i .. m - 1 : Waiting([y EXCEPT !.h.street = l]) = {}
    <3> HIDE DEF y, i
    <3> QED BY <2>5
  <2>7. P(m)
    <3> HIDE DEF y, i
    <3> QED BY <2>6
  <2> HIDE DEF P, X
  <2> QED BY <2>1, <2>7
<1>3. j \in i .. 4 /\ P(j)
  <2> HIDE DEF P, i
  <2> QED BY <1>2
<1>4. LaterStreet(x, i) =
        IF Street(j) = "showdown"
        THEN Ends(z, IF game = "house" THEN "house" ELSE "showdown")
        ELSE SetTurn(z, FirstToAct(z))
  BY DEF LaterStreet
<1> DEFINE S == [s \in Seats |-> [x.seat[s] EXCEPT !.streetBet = 0, !.acted = @ /\ ~x.seat[s].in]]
<1>12. /\ S \in [Seats -> SeatRecords]
       /\ \A s \in Seats : /\ S[s].user = x.seat[s].user /\ S[s].chips = x.seat[s].chips
                           /\ S[s].in = x.seat[s].in /\ S[s].allIn = x.seat[s].allIn
                           /\ S[s].streetBet = 0
  <2>1. \A s \in Seats : x.seat[s] \in SeatRecords
    BY <1>1 DEF TableRecords
  <2>2. \A s \in Seats : S[s] = [x.seat[s] EXCEPT !.streetBet = 0, !.acted = @ /\ ~x.seat[s].in]
    OBVIOUS
  <2>3. \A s \in Seats : /\ S[s] \in SeatRecords
                          /\ S[s].user = x.seat[s].user /\ S[s].chips = x.seat[s].chips
                          /\ S[s].in = x.seat[s].in /\ S[s].allIn = x.seat[s].allIn
                          /\ S[s].streetBet = 0
    <3> SUFFICES ASSUME NEW s \in Seats
                 PROVE  /\ S[s] \in SeatRecords
                        /\ S[s].user = x.seat[s].user /\ S[s].chips = x.seat[s].chips
                        /\ S[s].in = x.seat[s].in /\ S[s].allIn = x.seat[s].allIn
                        /\ S[s].streetBet = 0
      OBVIOUS
    <3> DEFINE r == x.seat[s]
               b == r.acted /\ ~r.in
    <3>1. r \in SeatRecords /\ b \in BOOLEAN /\ S[s] = [r EXCEPT !.streetBet = 0, !.acted = b]
      BY <2>1, <2>2
    <3> HIDE DEF S, r, b
    <3>2. S[s] \in SeatRecords
      <4>1. 0 \in Nat
        OBVIOUS
      <4> QED BY <3>1, <4>1, Zenon DEF SeatRecords
    <3>3. /\ S[s].user = r.user /\ S[s].chips = r.chips
          /\ S[s].in = r.in /\ S[s].allIn = r.allIn /\ S[s].streetBet = 0
      BY <3>1 DEF SeatRecords
    <3> QED BY <3>2, <3>3 DEF r
  <2> QED BY <2>3, Zenon
<1>5. /\ y \in TableRecords /\ y.seat = S
      /\ y.h.cur = 0 /\ y.h.entry = x.h.entry /\ y.h.live = x.h.live /\ y.button = x.button
      /\ y.open = x.open /\ y.starting = x.starting /\ y.end = x.end
      /\ y.ticking = x.ticking /\ y.late = x.late
  <2>1. y = [x EXCEPT !.h.street = i, !.h.cur = 0, !.h.minRaise = Boot, !.seat = S]
    OBVIOUS
  <2>2. i \in 0 .. 4 /\ Boot \in Nat /\ 0 \in Nat
    BY <1>1, PokerAssumption
  <2> HIDE DEF y, S, i
  <2> QED BY <1>1, <1>12, <2>1, <2>2 DEF TableRecords, HandRecords
<1> HIDE DEF y, S
<1>6. /\ z \in TableRecords /\ z.seat = y.seat /\ z.h.street = j
      /\ z.h.cur = 0 /\ z.h.entry = x.h.entry /\ z.h.live = x.h.live /\ z.button = x.button
      /\ z.open = x.open /\ z.starting = x.starting /\ z.end = x.end
      /\ z.ticking = x.ticking /\ z.late = x.late
  <2>1. j \in 0 .. 4
    <3> HIDE DEF j, i
    <3> QED BY <1>1, <1>3
  <2> HIDE DEF j, i
  <2> QED BY <1>5, <2>1 DEF TableRecords, HandRecords
<1> HIDE DEF j
<1>7. /\ \A s \in Seats : /\ z.seat[s].user = x.seat[s].user /\ z.seat[s].chips = x.seat[s].chips
                          /\ z.seat[s].in = x.seat[s].in /\ z.seat[s].allIn = x.seat[s].allIn
                          /\ z.seat[s].streetBet = 0
      /\ z.seat \in [Seats -> SeatRecords]
  BY <1>5, <1>6, <1>12
<1> HIDE DEF z
<1>8. InHand(z) = InHand(x) /\ CanAct(z) = CanAct(x)
  BY <1>7 DEF InHand, CanAct
<1>9. OneSeat(z) /\ Matched(z)
  <2>1. OneSeat(z)
    BY <1>7 DEF Playing, OneSeat
  <2>2. \A u \in Users : x.h.entry[u].seat \in Seats \cup {NoSeat}
    BY <1>1 DEF TableRecords, HandRecords, EntryRecords
  <2>3. Matched(x) /\ InHand(x) \subseteq Seats
    BY WaitingIn DEF Playing
  <2>4. Matched(z)
    BY <1>6, <1>7, <1>8, <2>2, <2>3, SMTT(30) DEF Matched
  <2> QED BY <2>1, <2>4
<1>10. CASE Street(j) = "showdown"
  <2> DEFINE e == Ends(z, IF game = "house" THEN "house" ELSE "showdown")
  <2>1. /\ e \in TableRecords /\ e.seat = z.seat /\ e.h.entry = z.h.entry /\ e.open = z.open
        /\ e.starting = z.starting /\ ~e.ticking /\ ~e.late
        /\ e.end = IF game = "house" THEN "house" ELSE "showdown"
    BY <1>6, ZenonT(60) DEF Ends, NobodyOnTurn, TableRecords, HandRecords
  <2> HIDE DEF e
  <2>2. InHand(e) = InHand(z)
    BY <2>1 DEF InHand
  <2>3. OneSeat(e) /\ Matched(e)
    BY <1>9, <2>1, <2>2 DEF OneSeat, Matched
  <2>4. Ending(e)
    BY <1>6, <1>8, <2>1, <2>2, <2>3 DEF Ending, Playing
  <2> QED BY <1>4, <1>10, <2>4 DEF Outcome, e
<1>11. CASE Street(j) # "showdown"
  <2>1. Waiting(z) # {}
    BY <1>3, <1>11 DEF z
  <2>2. j \in 1 .. LastStreet - 1
    <3>1. ~(j \in LastStreet .. 4)
      BY <1>11, StreetsAre
    <3> HIDE DEF i
    <3> QED BY <1>1, <1>3, <3>1
  <2>3. game # "house"
    BY <1>1, <2>2, StreetsAre
  <2>4. Even(z)
    <3>1. \A p \in CanAct(z), q \in InHand(z) : Collected(z, q) <= Collected(z, p)
      <4> SUFFICES ASSUME NEW p \in CanAct(x), NEW q \in InHand(x)
                   PROVE  Collected(z, q) <= Collected(z, p)
        BY <1>8
      <4>1. x.h.entry[x.seat[q].user].contributed <= x.h.entry[x.seat[p].user].contributed
        BY <2>3, ClosedEven
      <4>2. /\ p \in Seats /\ q \in Seats /\ p \in InHand(x)
            /\ x.seat[q].user \in Users /\ x.seat[p].user \in Users
        BY WaitingIn DEF Playing, Matched
      <4>3. /\ x.h.entry[x.seat[q].user].contributed \in Nat
            /\ x.h.entry[x.seat[p].user].contributed \in Nat
        BY <1>1, <4>2 DEF TableRecords, HandRecords, EntryRecords
      <4> QED BY <1>6, <1>7, <4>1, <4>2, <4>3, SMTT(30) DEF Collected
    <3>2. \A q \in InHand(z) : z.seat[q].streetBet <= z.h.cur
      BY <1>6, <1>7, WaitingIn
    <3> QED BY <1>6, <3>1, <3>2 DEF Even
  <2>5. Playing(z) /\ Enough(z)
    <3>1. z.h.street \in 0 .. LastStreet - 1
      BY <1>1, <1>6, <2>2
    <3> QED BY <1>6, <1>8, <1>9, <2>4, <3>1 DEF Playing, Enough
  <2>6. FirstToAct(z) \in Waiting(z)
    <3>1. z.button \in Int
      <4>1. z.button \in Seats \cup {NoSeat}
        BY <1>6 DEF TableRecords
      <4>2. NoSeat \in Int
        BY DEF NoSeat
      <4>3. Seats \subseteq Int
        BY SeatsAre
      <4> QED BY <4>1, <4>2, <4>3, Zenon
    <3> QED BY <2>1, <2>5, <3>1, FirstIsWaiting DEF Playing
  <2> QED BY <1>4, <1>11, <2>5, <2>6, TurnGiven DEF Outcome
<1> QED BY <1>10, <1>11

\* A street that closes is followed by another one, or by the showdown.
LEMMA EndStreetIs ==
  ASSUME game \in Games, NEW x, Playing(x), ~OnlyOneLeft(x), Waiting(x) = {}
  PROVE  Outcome(EndStreet(x))
<1> DEFINE y == NobodyOnTurn(x)
<1>1. x \in TableRecords
  BY DEF Playing
<1>2. /\ y \in TableRecords /\ y.seat = x.seat /\ y.h.street = x.h.street /\ y.h.cur = x.h.cur
      /\ y.h.entry = x.h.entry /\ y.h.live = x.h.live /\ ~y.ticking /\ ~y.late
      /\ y.open = x.open /\ y.starting = x.starting /\ y.end = x.end
  BY <1>1, Zenon DEF NobodyOnTurn, TableRecords, HandRecords
<1>3. EndStreet(x) = LaterStreet(y, y.h.street + 1)
  BY <1>2 DEF EndStreet
<1> HIDE DEF y
<1>4. Waiting(x) = Waiting(y) /\ InHand(x) = InHand(y) /\ CanAct(x) = CanAct(y) /\ Here(x) = Here(y)
  BY <1>2, WaitingSame
<1>5. Even(y) /\ Matched(y) /\ OneSeat(y)
  <2>1. \A i \in Seats : Collected(y, i) = Collected(x, i)
    BY <1>2, Zenon DEF Collected
  <2>2. CanAct(x) \subseteq Seats /\ InHand(x) \subseteq Seats
    BY Zenon DEF CanAct, InHand, Occupied
  <2>3. Even(x) /\ Matched(x) /\ OneSeat(x)
    BY DEF Playing
  <2>4. Even(y)
    BY <1>2, <1>4, <2>1, <2>2, <2>3 DEF Even
  <2>5. Matched(y)
    BY <1>2, <1>4, <2>3, ZenonT(60) DEF Matched
  <2>6. OneSeat(y)
    BY <1>2, <2>3, Zenon DEF OneSeat
  <2> QED BY <2>4, <2>5, <2>6
<1>6. InHand(y) # {} /\ Enough(y)
  BY <1>4, WaitingIn, Counts DEF OnlyOneLeft, Enough
<1>7. Playing(y)
  BY <1>2, <1>5 DEF Playing
<1> QED BY <1>2, <1>3, <1>4, <1>6, <1>7, LaterStreetIs

\* A hand that one player is left in is over.
LEMMA ResolvedIs ==
  ASSUME NEW x, Playing(x), OnlyOneLeft(x), game # "house" => InHand(x) # {}
  PROVE  Outcome(Resolved(x))
<1> DEFINE how == IF game = "house" THEN "house" ELSE IF InHand(x) = {} THEN "refund" ELSE "showdown"
           y == Ends(x, how)
<1>1. x \in TableRecords /\ how \in {"no", "showdown", "house", "refund"}
  BY DEF Playing
<1> HIDE DEF how
<1>2. /\ y \in TableRecords /\ y.seat = x.seat /\ y.h.entry = x.h.entry /\ y.open = x.open
      /\ y.starting = x.starting /\ ~y.ticking /\ ~y.late /\ y.end = how
  BY <1>1 DEF Ends, NobodyOnTurn, TableRecords, HandRecords
<1>3. Resolved(x) = y
  BY Zenon DEF Resolved, how
<1> HIDE DEF y
<1>4. InHand(y) = InHand(x)
  BY <1>2 DEF InHand
<1>5. OneSeat(y) /\ Matched(y)
  BY <1>2, <1>4 DEF OneSeat, Matched, Playing
<1>6. IF game = "house" THEN y.end = "house" ELSE y.end = "showdown" /\ InHand(y) # {}
  BY <1>2, <1>4 DEF how
<1> QED BY <1>2, <1>3, <1>5, <1>6 DEF Ending, Playing, Outcome

\* Once an action is in, somebody else is asked, or the street or the hand is over.
LEMMA AdvanceIs ==
  ASSUME game \in Games, NEW x, Playing(x), game # "house" => InHand(x) # {}, NEW from \in Seats
  PROVE  Outcome(AdvanceAfter(x, from))
<1>1. CASE OnlyOneLeft(x)
  BY <1>1, ResolvedIs DEF AdvanceAfter
<1>2. CASE ~OnlyOneLeft(x) /\ Waiting(x) = {}
  BY <1>2, EndStreetIs DEF AdvanceAfter
<1>3. CASE ~OnlyOneLeft(x) /\ Waiting(x) # {}
  <2>1. NextSeat(Waiting(x), from) \in Waiting(x)
    <3>1. from \in Int
      BY SeatsAre
    <3> QED BY <1>3, <3>1, WaitingIn, NextSeatIs
  <2>2. Enough(x)
    BY <1>3, WaitingIn, Counts DEF OnlyOneLeft, Enough
  <2> QED BY <1>3, <2>1, <2>2, TurnGiven DEF AdvanceAfter, Outcome
<1> QED BY <1>1, <1>2, <1>3

-----------------------------------------------------------------------------
(* What players do in a hand *)

\* The fields of a seat, of an account and of a hand.
LEMMA SeatFields ==
  ASSUME NEW x \in TableRecords, NEW i \in Seats
  PROVE  /\ x.seat[i] \in SeatRecords /\ x.seat[i].user \in Users \cup {NoUser}
         /\ x.seat[i].chips \in Nat /\ x.seat[i].streetBet \in Nat
         /\ x.seat[i].in \in BOOLEAN /\ x.seat[i].allIn \in BOOLEAN /\ x.seat[i].acted \in BOOLEAN
BY DEF TableRecords, SeatRecords

\* The same of an account of the hand.
LEMMA EntryFields ==
  ASSUME NEW x \in TableRecords, NEW u \in Users
  PROVE  /\ x.h.entry[u] \in EntryRecords /\ x.h.entry[u].seat \in Seats \cup {NoSeat}
         /\ x.h.entry[u].chips \in Nat /\ x.h.entry[u].written \in Nat
         /\ x.h.entry[u].contributed \in Nat
         /\ x.h.entry[u].out \in BOOLEAN /\ x.h.entry[u].left \in BOOLEAN
BY DEF TableRecords, HandRecords, EntryRecords

\* And of the hand itself.
LEMMA HandFields ==
  ASSUME NEW x \in TableRecords
  PROVE  /\ x.h \in HandRecords /\ x.h.live \in BOOLEAN /\ x.h.street \in 0 .. 4
         /\ x.h.cur \in Nat /\ x.h.minRaise \in Nat /\ x.h.turn \in Seats \cup {NoSeat}
BY DEF TableRecords, HandRecords

\* What a step leaves alone of the table and of the hand.
SameTable(x, y) ==
    /\ y.open = x.open /\ y.starting = x.starting /\ y.end = x.end
    /\ y.h.live = x.h.live /\ y.h.street = x.h.street
SameSeat(x, y, s) ==
    /\ y.seat[s].user = x.seat[s].user /\ y.seat[s].in = x.seat[s].in
    /\ y.seat[s].chips = x.seat[s].chips /\ y.seat[s].streetBet = x.seat[s].streetBet
    /\ x.seat[s].allIn => y.seat[s].allIn

\* Who has acted and what a raise must be are no matter of the accounts.
LEMMA PlayingSame ==
  ASSUME NEW x, NEW y, Playing(x), y \in TableRecords, SameTable(x, y), y.h.cur = x.h.cur,
         y.h.entry = x.h.entry, \A s \in Seats : SameSeat(x, y, s)
  PROVE  Playing(y) /\ InHand(y) = InHand(x)
<1>1. InHand(y) = InHand(x) /\ Here(y) = Here(x)
  BY DEF InHand, Here, SameSeat, SameTable
<1>2. CanAct(y) \subseteq CanAct(x)
  BY <1>1, WaitingIn DEF CanAct, SameSeat
<1>3. \A s \in Seats : Collected(y, s) = Collected(x, s)
  BY DEF Collected, SameSeat
<1>4. OneSeat(y)
  BY DEF Playing, OneSeat, SameSeat
<1>5. Matched(y)
  <2>1. \A u \in Users : x.h.entry[u].seat \in Seats \cup {NoSeat}
    BY EntryFields DEF Playing
  <2>2. Matched(x) /\ InHand(x) \subseteq Seats
    BY WaitingIn DEF Playing
  <2> QED BY <1>1, <2>1, <2>2, SMTT(30) DEF Matched, SameSeat
<1>6. Even(y)
  <2>1. \A p \in CanAct(y), q \in InHand(y) : Collected(y, q) <= Collected(y, p)
    <3>1. CanAct(x) \subseteq Seats /\ InHand(x) \subseteq Seats
      BY WaitingIn
    <3> QED BY <1>1, <1>2, <1>3, <3>1 DEF Playing, Even
  <2>2. game # "house" => \A q \in InHand(y) : y.seat[q].streetBet <= y.h.cur
    BY <1>1, WaitingIn DEF Playing, Even, SameSeat
  <2> QED BY <1>1, <2>1, <2>2 DEF Even, Playing
<1> QED BY <1>1, <1>4, <1>5, <1>6 DEF Playing, SameTable

\* An action that is no bet.
LEMMA ActedIs ==
  ASSUME NEW x, Playing(x), NEW i \in Seats
  PROVE  Playing(Acted(x, i)) /\ InHand(Acted(x, i)) = InHand(x)
<1> DEFINE y == Acted(x, i)
<1>1. /\ y \in TableRecords /\ SameTable(x, y) /\ y.h = x.h
      /\ \A s \in Seats : SameSeat(x, y, s)
  <2>1. y = [x EXCEPT !.seat[i].acted = TRUE]
    BY DEF Acted
  <2>2. x \in TableRecords
    BY DEF Playing
  <2> HIDE DEF y
  <2>3. y \in TableRecords /\ y.h = x.h /\ y.seat = [x.seat EXCEPT ![i].acted = TRUE]
    <3> DEFINE S == [x.seat EXCEPT ![i].acted = TRUE]
    <3>1. x.seat \in [Seats -> SeatRecords] /\ x.seat[i] \in SeatRecords
      BY <2>2, SeatFields DEF TableRecords
    <3>2. [x.seat[i] EXCEPT !.acted = TRUE] \in SeatRecords
      BY <3>1 DEF SeatRecords
    <3>3. S \in [Seats -> SeatRecords]
      BY <3>1, <3>2
    <3>4. y = [x EXCEPT !.seat = S]
      BY <2>1
    <3> HIDE DEF S
    <3> QED BY <2>2, <3>3, <3>4 DEF S, TableRecords
  <2>4. \A s \in Seats : SameSeat(x, y, s)
    BY <2>2, <2>3 DEF SameSeat, TableRecords, SeatRecords
  <2>5. SameTable(x, y)
    BY <2>1, <2>2 DEF SameTable, TableRecords
  <2> QED BY <2>3, <2>4, <2>5
<1> HIDE DEF y
<1> QED BY <1>1, PlayingSame DEF y

\* A stake: what it moves, and that nothing else is.
LEMMA StakeFields ==
  ASSUME NEW x, Playing(x), NEW i \in InHand(x), NEW amount \in Nat
  PROVE  LET y == Stake(x, i, amount)
             u == x.seat[i].user
             n == Least(amount, x.seat[i].chips)
         IN  /\ n \in Nat /\ n <= amount /\ n <= x.seat[i].chips /\ u \in Users /\ i \in Seats
             /\ y \in TableRecords /\ SameTable(x, y)
             /\ y.h.cur = x.h.cur /\ y.h.minRaise = x.h.minRaise /\ y.h.turn = x.h.turn
             /\ y.ticking = x.ticking /\ y.late = x.late /\ y.button = x.button
             /\ \A s \in Seats \ {i} : y.seat[s] = x.seat[s]
             /\ y.seat[i].user = u /\ y.seat[i].in = x.seat[i].in /\ y.seat[i].acted = x.seat[i].acted
             /\ x.seat[i].allIn => y.seat[i].allIn
             /\ y.seat[i].chips = x.seat[i].chips - n
             /\ y.seat[i].streetBet = x.seat[i].streetBet + n
             /\ \A v \in Users \ {u} : y.h.entry[v] = x.h.entry[v]
             /\ y.h.entry[u].seat = x.h.entry[u].seat
             /\ y.h.entry[u].out = x.h.entry[u].out /\ y.h.entry[u].left = x.h.entry[u].left
             /\ y.h.entry[u].written = x.h.entry[u].written
             /\ y.h.entry[u].chips = x.seat[i].chips - n
             /\ y.h.entry[u].contributed = x.h.entry[u].contributed + n
<1> DEFINE u == x.seat[i].user
           n == Least(amount, x.seat[i].chips)
           y == Stake(x, i, amount)
           r == x.seat[i]
           a == r.allIn \/ n = r.chips
           c == r.chips - n
           b == r.streetBet + n
           e == x.h.entry[u]
           k == e.contributed + n
           S == [r EXCEPT !.chips = c, !.streetBet = b, !.allIn = a]
           E == [e EXCEPT !.contributed = k, !.chips = c]
<1>1. x \in TableRecords /\ i \in Seats /\ u \in Users
  BY WaitingIn DEF Playing, Matched
<1>2. r \in SeatRecords /\ e \in EntryRecords /\ r.chips \in Nat /\ r.streetBet \in Nat /\ e.contributed \in Nat
  BY <1>1, SeatFields, EntryFields
<1>3. n \in Nat /\ n <= amount /\ n <= r.chips
  BY <1>2 DEF Least
<1>4. y = [x EXCEPT !.seat[i] = S, !.h.entry[u] = E]
  BY DEF Stake
<1>5. a \in BOOLEAN /\ c \in Nat /\ b \in Nat /\ k \in Nat
  BY <1>2, <1>3
<1> HIDE DEF a, b, c, k, y
<1>6. S \in SeatRecords /\ E \in EntryRecords
  BY <1>2, <1>5, Zenon DEF SeatRecords, EntryRecords
<1>8. /\ S.user = u /\ S.in = r.in /\ S.acted = r.acted /\ S.chips = c /\ S.streetBet = b /\ S.allIn = a
      /\ E.seat = e.seat /\ E.out = e.out /\ E.left = e.left /\ E.written = e.written
      /\ E.chips = c /\ E.contributed = k
  BY <1>2, <1>6 DEF SeatRecords, EntryRecords
<1> HIDE DEF S, E
<1>9. /\ y \in TableRecords /\ y.seat = [x.seat EXCEPT ![i] = S]
      /\ y.h.entry = [x.h.entry EXCEPT ![u] = E]
      /\ y.h.live = x.h.live /\ y.h.street = x.h.street /\ y.h.cur = x.h.cur
      /\ y.h.minRaise = x.h.minRaise /\ y.h.turn = x.h.turn
      /\ y.ticking = x.ticking /\ y.late = x.late /\ y.button = x.button
      /\ y.open = x.open /\ y.starting = x.starting /\ y.end = x.end
  BY <1>1, <1>4, <1>6 DEF TableRecords, HandRecords
<1>10. /\ y.seat[i] = S /\ \A s \in Seats \ {i} : y.seat[s] = x.seat[s]
       /\ y.h.entry[u] = E /\ \A v \in Users \ {u} : y.h.entry[v] = x.h.entry[v]
  BY <1>1, <1>9 DEF TableRecords, HandRecords
<1>11. SameTable(x, y)
  BY <1>9 DEF SameTable
<1>12. x.seat[i].allIn => S.allIn
  BY <1>8 DEF a
<1> QED BY <1>1, <1>3, <1>8, <1>9, <1>10, <1>11, <1>12, Zenon DEF y, b, c, k

\* A stake that is no more than the street asks for.
LEMMA StakeIs ==
  ASSUME NEW x, Playing(x), NEW i \in InHand(x), NEW amount \in Nat,
         game # "house" => x.seat[i].streetBet + amount <= x.h.cur
  PROVE  Playing(Stake(x, i, amount)) /\ InHand(Stake(x, i, amount)) = InHand(x)
<1> DEFINE y == Stake(x, i, amount)
           u == x.seat[i].user
           n == Least(amount, x.seat[i].chips)
<1>1. /\ n \in Nat /\ n <= amount /\ n <= x.seat[i].chips /\ u \in Users /\ i \in Seats
      /\ y \in TableRecords /\ SameTable(x, y) /\ y.h.cur = x.h.cur
      /\ \A s \in Seats \ {i} : y.seat[s] = x.seat[s]
      /\ y.seat[i].user = u /\ y.seat[i].in = x.seat[i].in
      /\ x.seat[i].allIn => y.seat[i].allIn
      /\ y.seat[i].chips = x.seat[i].chips - n
      /\ y.seat[i].streetBet = x.seat[i].streetBet + n
      /\ \A v \in Users \ {u} : y.h.entry[v] = x.h.entry[v]
      /\ y.h.entry[u].seat = x.h.entry[u].seat
      /\ y.h.entry[u].out = x.h.entry[u].out /\ y.h.entry[u].left = x.h.entry[u].left
      /\ y.h.entry[u].chips = x.seat[i].chips - n
      /\ y.h.entry[u].contributed = x.h.entry[u].contributed + n
  <2>1. /\ n \in Nat /\ n <= amount /\ n <= x.seat[i].chips /\ u \in Users /\ i \in Seats
        /\ y \in TableRecords /\ SameTable(x, y) /\ y.h.cur = x.h.cur
    BY StakeFields
  <2>2. /\ \A s \in Seats \ {i} : y.seat[s] = x.seat[s]
        /\ y.seat[i].user = u /\ y.seat[i].in = x.seat[i].in
        /\ y.seat[i].chips = x.seat[i].chips - n
        /\ y.seat[i].streetBet = x.seat[i].streetBet + n
    BY StakeFields
  <2>3. x.seat[i].allIn => y.seat[i].allIn
    BY StakeFields
  <2>4. /\ \A v \in Users \ {u} : y.h.entry[v] = x.h.entry[v]
        /\ y.h.entry[u].seat = x.h.entry[u].seat
        /\ y.h.entry[u].chips = x.seat[i].chips - n
        /\ y.h.entry[u].contributed = x.h.entry[u].contributed + n
    BY StakeFields
  <2>5. y.h.entry[u].out = x.h.entry[u].out
    BY StakeFields
  <2>6. y.h.entry[u].left = x.h.entry[u].left
    BY StakeFields
  <2> HIDE DEF y, n, u
  <2> QED BY <2>1, <2>2, <2>3, <2>4, <2>5, <2>6
<1> HIDE DEF y, n
<1>2. x \in TableRecords /\ OneSeat(x) /\ Matched(x)
  BY DEF Playing
<1>3. \A s \in Seats : y.seat[s].user = x.seat[s].user /\ y.seat[s].in = x.seat[s].in
  BY <1>1
<1>4. InHand(y) = InHand(x) /\ Here(y) = Here(x)
  BY <1>1, <1>3, Zenon DEF InHand, Here, SameTable
<1>5. CanAct(y) \subseteq CanAct(x)
  <2>1. \A s \in Seats : x.seat[s].allIn => y.seat[s].allIn
    BY <1>1
  <2> QED BY <1>4, <2>1, WaitingIn DEF CanAct
<1>6. \A s \in InHand(x) \ {i} : x.seat[s].user \in Users \ {u} /\ s \in Seats
  BY <1>1, <1>2, WaitingIn, PokerAssumption, Zenon DEF OneSeat, Matched
<1>7. \A s \in InHand(x) : Collected(y, s) = Collected(x, s)
  <2>1. Collected(y, i) = Collected(x, i)
    <3>1. x.h.entry[u].contributed \in Nat /\ x.seat[i].streetBet \in Nat
      BY <1>1, <1>2, EntryFields, SeatFields, Zenon
    <3> QED BY <1>1, <3>1 DEF Collected
  <2>2. ASSUME NEW s \in InHand(x) \ {i} PROVE Collected(y, s) = Collected(x, s)
    BY <1>1, <1>6, ZenonT(60) DEF Collected
  <2> QED BY <2>1, <2>2
<1>8. OneSeat(y)
  BY <1>2, <1>3 DEF OneSeat
<1>9. Matched(y)
  <2>1. ASSUME NEW s \in InHand(x)
        PROVE  LET v == y.seat[s].user
                   e == y.h.entry[v]
               IN  v \in Users /\ e.seat = s /\ ~e.out /\ ~e.left /\ e.chips = y.seat[s].chips
    <3>1. LET v == x.seat[s].user
              e == x.h.entry[v]
          IN  v \in Users /\ e.seat = s /\ ~e.out /\ ~e.left /\ e.chips = x.seat[s].chips
      BY <1>2 DEF Matched
    <3>2. CASE s = i
      BY <1>1, <3>1, <3>2
    <3>3. CASE s # i
      <4>1. x.seat[s].user \in Users \ {u} /\ s \in Seats \ {i}
        BY <1>6, <3>3
      <4>2. y.seat[s] = x.seat[s] /\ y.h.entry[x.seat[s].user] = x.h.entry[x.seat[s].user]
        BY <1>1, <4>1
      <4> QED BY <3>1, <4>2
    <3> QED BY <3>2, <3>3
  <2>2. ASSUME NEW v \in Users, y.h.entry[v].seat # NoSeat, ~y.h.entry[v].out, ~y.h.entry[v].left
        PROVE  y.h.entry[v].seat \in InHand(x) /\ y.seat[y.h.entry[v].seat].user = v
    <3>1. /\ x.h.entry[v].seat = y.h.entry[v].seat /\ x.h.entry[v].out = y.h.entry[v].out
          /\ x.h.entry[v].left = y.h.entry[v].left
      BY <1>1
    <3>2. x.h.entry[v].seat \in InHand(x) /\ x.seat[x.h.entry[v].seat].user = v
      BY <1>2, <2>2, <3>1 DEF Matched
    <3> QED BY <1>3, <3>1, <3>2, WaitingIn
  <2> QED BY <1>4, <2>1, <2>2 DEF Matched
<1>10. Even(y)
  <2>1. \A p \in CanAct(y), q \in InHand(y) : Collected(y, q) <= Collected(y, p)
    <3>1. CanAct(x) \subseteq InHand(x)
      BY WaitingIn
    <3> QED BY <1>4, <1>5, <1>7, <3>1 DEF Playing, Even
  <2>2. ASSUME game # "house", NEW q \in InHand(y) PROVE y.seat[q].streetBet <= y.h.cur
    <3>1. CASE q = i
      <4>1. x.seat[i].streetBet \in Nat /\ x.h.cur \in Nat
        BY <1>1, <1>2, SeatFields, HandFields, Zenon
      <4> QED BY <1>1, <2>2, <3>1, <4>1
    <3>2. CASE q # i
      BY <1>1, <1>4, <2>2, <3>2, WaitingIn DEF Playing, Even
    <3> QED BY <3>1, <3>2
  <2>3. Here(y) = "draw" => y.h.cur = 0
    BY <1>1, <1>4 DEF Playing, Even
  <2> QED BY <2>1, <2>2, <2>3 DEF Even
<1>11. Playing(y)
  BY <1>1, <1>8, <1>9, <1>10 DEF Playing, SameTable
<1> QED BY <1>4, <1>11 DEF y

\* No chips move.
SameChips(x, y) ==
    /\ y.h.entry = x.h.entry
    /\ \A s \in Seats : y.seat[s].user = x.seat[s].user /\ y.seat[s].chips = x.seat[s].chips

\* Having acted is no chip.
LEMMA ActedKeeps ==
  ASSUME NEW x \in TableRecords, NEW i \in Seats
  PROVE  SameChips(x, Acted(x, i))
<1>1. Acted(x, i).h = x.h /\ \A s \in Seats :
        /\ Acted(x, i).seat[s].user = x.seat[s].user /\ Acted(x, i).seat[s].chips = x.seat[s].chips
  BY DEF Acted, TableRecords, SeatRecords
<1> QED BY <1>1 DEF SameChips

\* A raise, of what the options allow: a stake, and the bet it brings the street to.
LEMMA RaisedIs ==
  ASSUME game \in Games, NEW x, Playing(x), NEW i \in InHand(x), Here(x) = "betting",
         NEW bet \in BetTo(x, i)
  PROVE  /\ Playing(RaisedTo(x, i, bet)) /\ InHand(RaisedTo(x, i, bet)) = InHand(x)
         /\ bet - x.seat[i].streetBet \in Nat
         /\ Matched(Stake(x, i, bet - x.seat[i].streetBet))
         /\ SameChips(Stake(x, i, bet - x.seat[i].streetBet), RaisedTo(x, i, bet))
<1> DEFINE s == x.seat[i]
           z == [x EXCEPT !.h.cur = bet]
           amount == bet - s.streetBet
           by == bet - x.h.cur
           full == x.h.cur = 0 \/ by >= x.h.minRaise
           y == Stake(x, i, amount)
           w == Stake(z, i, amount)
           r == RaisedTo(x, i, bet)
<1>1. x \in TableRecords /\ i \in Seats /\ Here(x) # "draw" /\ game # "house"
  <2>1. x.h.street \in 0 .. LastStreet - 1 /\ Here(x) = Street(x.h.street)
    BY DEF Playing, Here
  <2> QED BY <2>1, WaitingIn, StreetsAre DEF Playing
<1>2. /\ s.chips \in Nat /\ s.streetBet \in Nat /\ x.h.cur \in Nat /\ x.h.minRaise \in Nat
      /\ s.streetBet <= x.h.cur /\ Boot \in Nat
  BY <1>1, SeatFields, HandFields, PokerAssumption DEF Playing, Even
<1>3. bet \in Nat /\ bet >= x.h.cur /\ amount \in Nat /\ by \in Nat
  <2> DEFINE least == IF x.h.cur = 0 THEN Boot ELSE x.h.cur + x.h.minRaise
             all == s.streetBet + s.chips
  <2>1. s.chips > Max({0, ToCall(x, i)}) /\ bet \in Least(least, all) .. all
    BY DEF BetTo
  <2>2. Max({0, ToCall(x, i)}) \in {0, ToCall(x, i)}
        /\ Max({0, ToCall(x, i)}) >= 0 /\ Max({0, ToCall(x, i)}) >= ToCall(x, i)
    <3>1. ToCall(x, i) \in Int
      BY <1>2 DEF ToCall
    <3>2. \E m \in {0, ToCall(x, i)} : \A n \in {0, ToCall(x, i)} : m >= n
      BY <3>1
    <3> QED BY <3>2, Zenon DEF Max
  <2>3. all > x.h.cur
    BY <1>2, <2>1, <2>2 DEF ToCall
  <2>4. least \in Nat /\ all \in Nat /\ least >= x.h.cur
    BY <1>2
  <2> HIDE DEF least, all
  <2> QED BY <1>2, <2>1, <2>3, <2>4 DEF Least
<1>4. /\ z \in TableRecords /\ z.seat = x.seat /\ z.h.entry = x.h.entry /\ z.h.cur = bet
      /\ SameTable(x, z)
  BY <1>1, <1>3 DEF TableRecords, HandRecords, SameTable
<1> HIDE DEF z
<1>5. Playing(z) /\ InHand(z) = InHand(x)
  <2>1. InHand(z) = InHand(x) /\ CanAct(z) = CanAct(x) /\ Here(z) = Here(x)
    BY <1>4 DEF InHand, CanAct, Here, SameTable
  <2>2. Even(z)
    <3>1. \A p \in CanAct(z), q \in InHand(z) : Collected(z, q) <= Collected(z, p)
      BY <1>4, <2>1 DEF Playing, Even, Collected
    <3>2. ASSUME NEW q \in InHand(z) PROVE z.seat[q].streetBet <= z.h.cur
      <4>1. x.seat[q].streetBet <= x.h.cur /\ x.seat[q].streetBet \in Nat
        BY <1>1, <2>1, WaitingIn, SeatFields DEF Playing, Even
      <4> QED BY <1>2, <1>3, <1>4, <4>1
    <3> QED BY <1>1, <2>1, <3>1, <3>2 DEF Even
  <2>3. OneSeat(z) /\ Matched(z)
    BY <1>4, <2>1 DEF Playing, OneSeat, Matched
  <2> QED BY <1>4, <2>1, <2>2, <2>3 DEF Playing, SameTable
<1>6. Playing(w) /\ InHand(w) = InHand(x)
  <2>1. z.seat[i].streetBet + amount <= z.h.cur
    BY <1>2, <1>3, <1>4
  <2> HIDE DEF amount
  <2> QED BY <1>3, <1>5, <2>1, StakeIs
<1>7. w.seat = y.seat /\ w.h.entry = y.h.entry
  BY <1>1, <1>4, ZenonT(60) DEF Stake, TableRecords, HandRecords
<1>8. /\ y \in TableRecords /\ SameTable(x, y) /\ i \in Seats
  <2> HIDE DEF amount
  <2> QED BY <1>3, StakeFields
<1>9. w.h.cur = bet /\ SameTable(x, w)
  <2>1. w.h.cur = z.h.cur /\ SameTable(z, w)
    <3> HIDE DEF amount
    <3> QED BY <1>3, <1>5, StakeFields
  <2> QED BY <1>4, <2>1 DEF SameTable
<1> HIDE DEF w, y
<1> DEFINE m == Max({y.h.minRaise, by})
           T == [j \in Seats |-> [y.seat[j] EXCEPT !.acted = @ /\ ~(full /\ x.seat[j].in)]]
           v == [y EXCEPT !.h.cur = bet, !.h.minRaise = m, !.seat = T]
<1>10. r = Acted(v, i)
  BY DEF RaisedTo, y
<1>11. m \in Nat
  <2>1. y.h.minRaise \in Nat
    BY <1>8, HandFields
  <2>2. \E k \in {y.h.minRaise, by} : \A l \in {y.h.minRaise, by} : k >= l
    BY <1>3, <2>1
  <2>3. m \in {y.h.minRaise, by}
    BY <2>2, Zenon DEF Max
  <2> QED BY <1>3, <2>1, <2>3
<1>12. /\ T \in [Seats -> SeatRecords]
       /\ \A j \in Seats : /\ T[j].user = y.seat[j].user /\ T[j].in = y.seat[j].in
                           /\ T[j].chips = y.seat[j].chips /\ T[j].streetBet = y.seat[j].streetBet
                           /\ T[j].allIn = y.seat[j].allIn
  <2> SUFFICES ASSUME NEW j \in Seats
               PROVE  /\ T[j] \in SeatRecords
                      /\ T[j].user = y.seat[j].user /\ T[j].in = y.seat[j].in
                      /\ T[j].chips = y.seat[j].chips /\ T[j].streetBet = y.seat[j].streetBet
                      /\ T[j].allIn = y.seat[j].allIn
    OBVIOUS
  <2> DEFINE c == y.seat[j]
             b == c.acted /\ ~(full /\ x.seat[j].in)
  <2>1. c \in SeatRecords /\ b \in BOOLEAN /\ T[j] = [c EXCEPT !.acted = b]
    BY <1>8, SeatFields
  <2> HIDE DEF T, c, b
  <2>2. T[j] \in SeatRecords
    BY <2>1, Zenon DEF SeatRecords
  <2>3. /\ T[j].user = c.user /\ T[j].in = c.in /\ T[j].chips = c.chips
        /\ T[j].streetBet = c.streetBet /\ T[j].allIn = c.allIn
    BY <2>1 DEF SeatRecords
  <2> QED BY <2>2, <2>3 DEF c
<1> HIDE DEF m, T
<1>13. /\ v \in TableRecords /\ SameTable(y, v) /\ v.h.cur = bet /\ v.h.entry = y.h.entry
       /\ v.seat = T
  BY <1>3, <1>8, <1>11, <1>12 DEF TableRecords, HandRecords, SameTable
<1> HIDE DEF v, r
<1>14. Playing(v) /\ InHand(v) = InHand(x)
  <2>1. \A j \in Seats : SameSeat(w, v, j)
    BY <1>7, <1>12, <1>13 DEF SameSeat
  <2>2. SameTable(w, v)
    BY <1>8, <1>9, <1>13 DEF SameTable
  <2> QED BY <1>6, <1>7, <1>9, <1>13, <2>1, <2>2, PlayingSame
<1>15. SameChips(y, r)
  <2>1. SameChips(y, v)
    BY <1>12, <1>13 DEF SameChips
  <2>2. SameChips(v, Acted(v, i))
    BY <1>1, <1>13, ActedKeeps
  <2> QED BY <1>10, <2>1, <2>2 DEF SameChips
<1>16. Matched(y)
  <2>1. InHand(w) = InHand(y)
    BY <1>7 DEF InHand
  <2>2. Matched(w)
    BY <1>6 DEF Playing
  <2> QED BY <1>7, <2>1, <2>2, Zenon DEF Matched
<1> QED BY <1>1, <1>3, <1>10, <1>14, <1>15, <1>16, ActedIs DEF r, y

-----------------------------------------------------------------------------
(* Leaving a hand *)

\* A player is out of the hand, folded or gone from the table.
Out(x, y, i) ==
    LET u == x.seat[i].user
    IN  /\ y \in TableRecords /\ SameTable(x, y)
        /\ y.h.cur = x.h.cur /\ y.h.minRaise = x.h.minRaise /\ y.h.turn = x.h.turn
        /\ y.ticking = x.ticking /\ y.late = x.late /\ y.button = x.button
        /\ \A s \in Seats \ {i} : y.seat[s] = x.seat[s]
        /\ y.seat[i].user \in {u, NoUser} /\ ~y.seat[i].in
        /\ y.seat[i].user # NoUser => y.seat[i].chips = x.seat[i].chips
        /\ \A v \in Users \ {u} : y.h.entry[v] = x.h.entry[v]
        /\ y.h.entry[u].seat = x.h.entry[u].seat
        /\ y.h.entry[u].chips = x.h.entry[u].chips
        /\ y.h.entry[u].written = x.h.entry[u].chips
        /\ y.h.entry[u].contributed = x.h.entry[u].contributed
        /\ y.h.entry[u].out \/ y.h.entry[u].left

\* The hand goes on with the others.
LEMMA OutIs ==
  ASSUME NEW x, Playing(x), NEW i \in InHand(x), NEW y, Out(x, y, i)
  PROVE  /\ Playing(y) /\ InHand(y) = InHand(x) \ {i}
         /\ CanAct(y) = CanAct(x) \ {i} /\ NeedsAction(y) = NeedsAction(x) \ {i}
         /\ Undecided(y) = Undecided(x) \ {i} /\ Here(y) = Here(x)
<1> DEFINE u == x.seat[i].user
<1>1. x \in TableRecords /\ OneSeat(x) /\ Matched(x) /\ i \in Seats /\ u \in Users
  BY WaitingIn DEF Playing, Matched
<1>2. /\ \A s \in Seats \ {i} : y.seat[s] = x.seat[s]
      /\ \A v \in Users \ {u} : y.h.entry[v] = x.h.entry[v]
      /\ ~y.seat[i].in /\ y.seat[i].user \in {u, NoUser} /\ y.h.cur = x.h.cur
      /\ y.h.entry[u].out \/ y.h.entry[u].left
      /\ y \in TableRecords /\ SameTable(x, y)
  BY Zenon DEF Out
<1>3. InHand(y) = InHand(x) \ {i} /\ Here(y) = Here(x)
  BY <1>2 DEF InHand, Here, SameTable
<1>4. CanAct(y) = CanAct(x) \ {i}
  BY <1>2, <1>3, WaitingIn DEF CanAct
<1>5. NeedsAction(y) = NeedsAction(x) \ {i}
  BY <1>2, <1>4, WaitingIn DEF NeedsAction
<1>6. Undecided(y) = Undecided(x) \ {i}
  BY <1>2, <1>3, WaitingIn DEF Undecided
<1>7. \A s \in InHand(y) : /\ s \in InHand(x) /\ s \in Seats \ {i} /\ x.seat[s].user \in Users \ {u}
                           /\ y.seat[s] = x.seat[s]
                           /\ y.h.entry[x.seat[s].user] = x.h.entry[x.seat[s].user]
  BY <1>1, <1>2, <1>3, WaitingIn, PokerAssumption DEF OneSeat, Matched
<1>8. OneSeat(y)
  BY <1>1, <1>2 DEF OneSeat
<1>9. Matched(y)
  <2>1. ASSUME NEW s \in InHand(y)
        PROVE  LET v == y.seat[s].user
                   e == y.h.entry[v]
               IN  v \in Users /\ e.seat = s /\ ~e.out /\ ~e.left /\ e.chips = y.seat[s].chips
    <3>1. LET v == x.seat[s].user
              e == x.h.entry[v]
          IN  v \in Users /\ e.seat = s /\ ~e.out /\ ~e.left /\ e.chips = x.seat[s].chips
      BY <1>1, <1>7 DEF Matched
    <3> QED BY <1>7, <3>1
  <2>2. ASSUME NEW v \in Users, y.h.entry[v].seat # NoSeat, ~y.h.entry[v].out, ~y.h.entry[v].left
        PROVE  y.h.entry[v].seat \in InHand(y) /\ y.seat[y.h.entry[v].seat].user = v
    <3>1. v # u /\ x.h.entry[v] = y.h.entry[v]
      BY <1>2, <2>2
    <3>2. x.h.entry[v].seat \in InHand(x) /\ x.seat[x.h.entry[v].seat].user = v
      BY <1>1, <2>2, <3>1 DEF Matched
    <3>3. x.h.entry[v].seat # i
      BY <3>1, <3>2
    <3> QED BY <1>2, <1>3, <3>1, <3>2, <3>3, WaitingIn
  <2> QED BY <2>1, <2>2 DEF Matched
<1>10. Even(y)
  <2>1. \A s \in InHand(y) : Collected(y, s) = Collected(x, s)
    BY <1>7 DEF Collected
  <2>2. \A p \in CanAct(y), q \in InHand(y) : Collected(y, q) <= Collected(y, p)
    BY <1>3, <1>4, <2>1, WaitingIn DEF Playing, Even
  <2>3. game # "house" => \A q \in InHand(y) : y.seat[q].streetBet <= y.h.cur
    BY <1>2, <1>7 DEF Playing, Even
  <2> QED BY <1>2, <1>3, <2>2, <2>3 DEF Playing, Even
<1>11. Playing(y)
  BY <1>2, <1>8, <1>9, <1>10 DEF Playing, SameTable
<1> QED BY <1>3, <1>4, <1>5, <1>6, <1>11

\* A fold.
LEMMA FoldedIs ==
  ASSUME NEW x, Playing(x), NEW i \in InHand(x)
  PROVE  Out(x, Folded(x, i), i)
<1> DEFINE u == x.seat[i].user
           s == x.seat[i]
           e == x.h.entry[u]
           t == [s EXCEPT !.in = FALSE, !.acted = TRUE]
           f == [e EXCEPT !.out = TRUE, !.written = e.chips]
           y == Folded(x, i)
<1>1. x \in TableRecords /\ i \in Seats /\ u \in Users
  BY WaitingIn DEF Playing, Matched
<1>2. s \in SeatRecords /\ e \in EntryRecords /\ e.chips \in Nat
  BY <1>1, SeatFields, EntryFields
<1>3. t \in SeatRecords /\ t.user = s.user /\ ~t.in /\ t.chips = s.chips
  <2> HIDE DEF s
  <2>1. t \in SeatRecords
    BY <1>2, Zenon DEF SeatRecords
  <2> QED BY <1>2, <2>1 DEF SeatRecords
<1>4. /\ f \in EntryRecords /\ f.seat = e.seat /\ f.chips = e.chips /\ f.written = e.chips
      /\ f.contributed = e.contributed /\ f.out /\ f.left = e.left
  <2> HIDE DEF e
  <2>1. f \in EntryRecords
    BY <1>2, Zenon DEF EntryRecords
  <2> QED BY <1>2, <2>1 DEF EntryRecords
<1>5. y = [x EXCEPT !.seat = [x.seat EXCEPT ![i] = t],
                    !.h = [x.h EXCEPT !.entry = [x.h.entry EXCEPT ![u] = f]]]
  <2> DEFINE a == [x EXCEPT !.seat[i].in = FALSE, !.seat[i].acted = TRUE, !.h.entry[u].out = TRUE]
             g == [e EXCEPT !.out = TRUE]
  <2>1. a = [x EXCEPT !.seat = [x.seat EXCEPT ![i] = t],
                      !.h = [x.h EXCEPT !.entry = [x.h.entry EXCEPT ![u] = g]]]
    BY <1>1, <1>2, ZenonT(60) DEF TableRecords, HandRecords
  <2>2. y = Written(a, u)
    BY DEF Folded
  <2> HIDE DEF a, y, t
  <2>3. a.h = [x.h EXCEPT !.entry = [x.h.entry EXCEPT ![u] = g]]
    BY <1>1, <2>1 DEF TableRecords
  <2>4. a.h.entry[u] = g /\ g.chips = e.chips
    BY <1>1, <1>2, <2>3 DEF TableRecords, HandRecords, EntryRecords
  <2>5. [g EXCEPT !.written = e.chips] = f
    BY <1>2 DEF EntryRecords
  <2>6. y = [a EXCEPT !.h = [a.h EXCEPT !.entry = [a.h.entry EXCEPT ![u] = f]]]
    BY <2>2, <2>4, <2>5 DEF Written
  <2> HIDE DEF f, g
  <2>7. [a.h EXCEPT !.entry = [a.h.entry EXCEPT ![u] = f]]
          = [x.h EXCEPT !.entry = [x.h.entry EXCEPT ![u] = f]]
    BY <1>1, <2>3 DEF TableRecords, HandRecords
  <2> QED BY <1>1, <2>1, <2>6, <2>7 DEF TableRecords
<1> HIDE DEF t, f, y
<1>6. [x.seat EXCEPT ![i] = t] \in [Seats -> SeatRecords]
      /\ [x.h.entry EXCEPT ![u] = f] \in [Users -> EntryRecords]
  BY <1>1, <1>3, <1>4 DEF TableRecords, HandRecords
<1>7. /\ y \in TableRecords /\ y.seat = [x.seat EXCEPT ![i] = t]
      /\ y.h.entry = [x.h.entry EXCEPT ![u] = f] /\ SameTable(x, y)
      /\ y.h.cur = x.h.cur /\ y.h.minRaise = x.h.minRaise /\ y.h.turn = x.h.turn
      /\ y.ticking = x.ticking /\ y.late = x.late /\ y.button = x.button
  BY <1>1, <1>5, <1>6 DEF TableRecords, HandRecords, SameTable
<1>8. y.seat[i] = t /\ y.h.entry[u] = f
  BY <1>1, <1>7 DEF TableRecords, HandRecords
<1>9. \A j \in Seats \ {i} : y.seat[j] = x.seat[j]
  BY <1>1, <1>7 DEF TableRecords
<1>10. \A v \in Users \ {u} : y.h.entry[v] = x.h.entry[v]
  BY <1>1, <1>7 DEF TableRecords, HandRecords
<1> QED BY <1>1, <1>3, <1>4, <1>7, <1>8, <1>9, <1>10, Zenon DEF Out, y

\* Leave: the table without the player, and the hand of one who was in it.
Gone(x, i) == [x EXCEPT !.seat[i] = Empty]
Walked(x, i, u) == Written([Gone(x, i) EXCEPT !.h.entry[u].left = TRUE], u)

\* A departure from the hand.
LEMMA WalkedIs ==
  ASSUME NEW x, Playing(x), NEW i \in InHand(x), NEW u, u = x.seat[i].user
  PROVE  Out(x, Walked(x, i, u), i) /\ Walked(x, i, u).seat = [x.seat EXCEPT ![i] = Empty]
<1> DEFINE e == x.h.entry[u]
           f == [e EXCEPT !.left = TRUE, !.written = e.chips]
           y == Walked(x, i, u)
<1>1. x \in TableRecords /\ i \in Seats /\ u \in Users
  BY WaitingIn DEF Playing, Matched
<1>2. e \in EntryRecords /\ e.chips \in Nat
  BY <1>1, EntryFields
<1>3. Empty \in SeatRecords /\ Empty.user = NoUser /\ ~Empty.in
  BY DEF Empty, SeatRecords
<1>4. /\ f \in EntryRecords /\ f.seat = e.seat /\ f.chips = e.chips /\ f.written = e.chips
      /\ f.contributed = e.contributed /\ f.left /\ f.out = e.out
  <2> HIDE DEF e
  <2>1. f \in EntryRecords
    BY <1>2, Zenon DEF EntryRecords
  <2> QED BY <1>2, <2>1 DEF EntryRecords
<1>5. y = [x EXCEPT !.seat = [x.seat EXCEPT ![i] = Empty],
                    !.h = [x.h EXCEPT !.entry = [x.h.entry EXCEPT ![u] = f]]]
  <2> DEFINE g == [e EXCEPT !.left = TRUE]
             a == [Gone(x, i) EXCEPT !.h.entry[u].left = TRUE]
  <2>1. a = [x EXCEPT !.seat = [x.seat EXCEPT ![i] = Empty],
                      !.h = [x.h EXCEPT !.entry = [x.h.entry EXCEPT ![u] = g]]]
    BY <1>1, <1>2 DEF Gone, TableRecords, HandRecords
  <2>2. y = Written(a, u)
    BY DEF Walked
  <2> HIDE DEF a, y
  <2>3. a.h = [x.h EXCEPT !.entry = [x.h.entry EXCEPT ![u] = g]]
    BY <1>1, <2>1 DEF TableRecords
  <2>4. a.h.entry[u] = g /\ g.chips = e.chips
    BY <1>1, <1>2, <2>3 DEF TableRecords, HandRecords, EntryRecords
  <2>5. [g EXCEPT !.written = e.chips] = f
    BY <1>2 DEF EntryRecords
  <2>6. y = [a EXCEPT !.h = [a.h EXCEPT !.entry = [a.h.entry EXCEPT ![u] = f]]]
    BY <2>2, <2>4, <2>5 DEF Written
  <2> HIDE DEF f, g
  <2>7. [a.h EXCEPT !.entry = [a.h.entry EXCEPT ![u] = f]]
          = [x.h EXCEPT !.entry = [x.h.entry EXCEPT ![u] = f]]
    BY <1>1, <2>3, ZenonT(60) DEF TableRecords, HandRecords
  <2> QED BY <1>1, <2>1, <2>6, <2>7 DEF TableRecords
<1> HIDE DEF f, y
<1>6. [x.seat EXCEPT ![i] = Empty] \in [Seats -> SeatRecords]
      /\ [x.h.entry EXCEPT ![u] = f] \in [Users -> EntryRecords]
  BY <1>1, <1>3, <1>4 DEF TableRecords, HandRecords
<1>7. /\ y \in TableRecords /\ y.seat = [x.seat EXCEPT ![i] = Empty]
      /\ y.h.entry = [x.h.entry EXCEPT ![u] = f] /\ SameTable(x, y)
      /\ y.h.cur = x.h.cur /\ y.h.minRaise = x.h.minRaise /\ y.h.turn = x.h.turn
      /\ y.ticking = x.ticking /\ y.late = x.late /\ y.button = x.button
  BY <1>1, <1>5, <1>6 DEF TableRecords, HandRecords, SameTable
<1>8. y.seat[i] = Empty /\ y.h.entry[u] = f
  BY <1>1, <1>7 DEF TableRecords, HandRecords
<1>9. \A j \in Seats \ {i} : y.seat[j] = x.seat[j]
  BY <1>1, <1>7 DEF TableRecords
<1>10. \A v \in Users \ {u} : y.h.entry[v] = x.h.entry[v]
  BY <1>1, <1>7 DEF TableRecords, HandRecords
<1> QED BY <1>1, <1>3, <1>4, <1>7, <1>8, <1>9, <1>10, Zenon DEF Out, y

\* Between players somebody is still in.
LEMMA OthersStay ==
  ASSUME NEW x, Enough(x), NEW i
  PROVE  game # "house" => InHand(x) \ {i} # {}
<1> SUFFICES ASSUME game # "house", InHand(x) \ {i} = {} PROVE FALSE
  OBVIOUS
<1>1. InHand(x) = {} \/ InHand(x) = {i}
  OBVIOUS
<1>2. Cardinality(InHand(x)) <= 1
  <2>1. CASE InHand(x) = {}
    BY <2>1, WaitingIn, Counts
  <2>2. CASE InHand(x) = {i}
    <3>1. \E j \in InHand(x) : InHand(x) = {j}
      BY <2>2
    <3>2. Cardinality(InHand(x)) = 1
      BY <3>1, WaitingIn, Counts
    <3> QED BY <3>2
  <2> QED BY <1>1, <2>1, <2>2
<1>3. Cardinality(InHand(x)) >= 2 /\ Cardinality(InHand(x)) \in Nat
  BY WaitingIn, Counts DEF Enough
<1> QED BY <1>2, <1>3

\* A street that waited for a player does, whoever else leaves, if it waits at all.
LEMMA TurnKept ==
  ASSUME NEW x, Playing(x), NEW i \in InHand(x), NEW y, Out(x, y, i),
         NEW j \in Waiting(x), j # i, Waiting(y) # {}
  PROVE  j \in Waiting(y)
<1>1. /\ CanAct(y) = CanAct(x) \ {i} /\ NeedsAction(y) = NeedsAction(x) \ {i}
      /\ Undecided(y) = Undecided(x) \ {i} /\ Here(y) = Here(x)
  BY OutIs
<1>2. CASE Here(x) = "betting"
  <2>1. /\ Waiting(x) = IF Cardinality(InHand(x)) < 2 \/ CanAct(x) = {} THEN {}
                        ELSE IF Cardinality(CanAct(x)) = 1
                        THEN {p \in CanAct(x) : x.seat[p].streetBet < x.h.cur}
                        ELSE NeedsAction(x)
        /\ Waiting(y) = IF Cardinality(InHand(y)) < 2 \/ CanAct(y) = {} THEN {}
                        ELSE IF Cardinality(CanAct(y)) = 1
                        THEN {p \in CanAct(y) : y.seat[p].streetBet < y.h.cur}
                        ELSE NeedsAction(y)
    BY <1>1, <1>2 DEF Waiting
  <2>2. j \in NeedsAction(x) /\ j \in CanAct(x)
    BY <2>1 DEF NeedsAction
  <2>3. j \in NeedsAction(y) /\ j \in CanAct(y)
    BY <1>1, <2>2
  <2>4. CASE Cardinality(CanAct(y)) = 1
    <3>1. PICK p : CanAct(y) = {p}
      BY <2>4, WaitingIn, Counts
    <3> QED BY <2>1, <2>3, <2>4, <3>1
  <2> QED BY <2>1, <2>3, <2>4
<1>3. CASE Here(x) \in {"draw", "decision"}
  BY <1>1, <1>3 DEF Waiting
<1>4. CASE Here(x) \notin {"betting", "draw", "decision"}
  BY <1>4 DEF Waiting
<1> QED BY <1>2, <1>3, <1>4

\* What a departure leaves.
LEMMA DepartedIs ==
  ASSUME game \in Games, NEW x, Good(x), NEW i \in InHand(x), NEW y, Out(x, y, i)
  PROVE  Outcome(Departed(y, i, x.h.turn = i))
<1>1. Playing(x) /\ i \in Seats
  BY WaitingIn DEF Good
<1>2. Playing(y) /\ (game # "house" => InHand(y) # {})
  BY <1>1, OutIs, OthersStay DEF Good
<1>3. CASE OnlyOneLeft(y)
  BY <1>2, <1>3, ResolvedIs DEF Departed
<1>4. CASE ~OnlyOneLeft(y) /\ x.h.turn = i
  BY <1>1, <1>2, <1>4, AdvanceIs DEF Departed
<1>5. CASE ~OnlyOneLeft(y) /\ x.h.turn # i /\ Waiting(y) = {}
  BY <1>2, <1>5, EndStreetIs DEF Departed
<1>6. CASE ~OnlyOneLeft(y) /\ x.h.turn # i /\ Waiting(y) # {}
  <2>1. Departed(y, i, x.h.turn = i) = y
    BY <1>6 DEF Departed
  <2>2. y.h.turn \in Waiting(y)
    <3>1. y.h.turn = x.h.turn
      BY DEF Out
    <3>2. x.h.turn \in Waiting(x)
      BY DEF Good
    <3> QED BY <1>1, <1>6, <3>1, <3>2, TurnKept
  <2>3. y.ticking \/ y.late
    BY DEF Good, Out
  <2>4. Enough(y)
    BY <1>6, WaitingIn, Counts DEF OnlyOneLeft, Enough
  <2> QED BY <1>2, <2>1, <2>2, <2>3, <2>4 DEF Outcome, Good
<1> QED BY <1>3, <1>4, <1>5, <1>6

\* The seats are finitely many.
LEMMA SeatsFinite == IsFiniteSet(Seats) /\ N \in Nat
  BY PokerAssumption, FS_Interval DEF Seats

-----------------------------------------------------------------------------
(* The side pots *)

PotRecords == [amount : Nat, open : SUBSET Seats]
Puts == [Seats -> Nat]

Levels(c) == {c[i] : i \in Seats} \cup {0}
Below(c, v) == Max({l \in Levels(c) : l < v})

\* The levels of the contributions are finitely many.
LEMMA LevelsAre ==
  ASSUME NEW c \in Puts
  PROVE  Levels(c) \subseteq Nat /\ IsFiniteSet(Levels(c)) /\ 0 \in Levels(c)
<1> DEFINE T == {c[i] : i \in Seats}
<1>1. T \subseteq Nat
  BY DEF Puts
<1>2. IsFiniteSet(T)
  <2>1. c \in Surjection(Seats, T)
    BY DEF Puts, Surjection
  <2> QED BY <2>1, SeatsFinite, FS_Surjection
<1>3. IsFiniteSet(T \cup {0})
  BY <1>2, FS_AddElement
<1> QED BY <1>1, <1>3 DEF Levels

\* A finite set of numbers has a greatest.
LEMMA MaxIs ==
  ASSUME NEW S \in SUBSET Int, IsFiniteSet(S), S # {}
  PROVE  Max(S) \in S /\ \A s \in S : s <= Max(S)
<1> DEFINE f == [s \in S |-> -s]
<1>0. \A s \in S : f[s] \in Int
  OBVIOUS
<1>1. PICK m \in S : \A s \in S : f[m] <= f[s]
  <2> HIDE DEF f
  <2> QED BY <1>0, Lowest
<1>2. \A s \in S : m >= s
  <2> TAKE s \in S
  <2>1. m \in Int /\ s \in Int /\ f[m] = -m /\ f[s] = -s
    OBVIOUS
  <2>2. f[m] <= f[s]
    BY <1>1
  <2> QED BY <2>1, <2>2
<1>3. Max(S) \in S /\ \A s \in S : Max(S) >= s
  BY <1>2 DEF Max
<1> QED BY <1>3

\* The next level down.
LEMMA BelowIs ==
  ASSUME NEW c \in Puts, NEW v \in Levels(c), v # 0
  PROVE  /\ Below(c, v) \in Levels(c) /\ Below(c, v) < v
         /\ \A l \in Levels(c) : l < v => l <= Below(c, v)
<1> DEFINE S == {l \in Levels(c) : l < v}
<1>1. S \subseteq Levels(c) /\ S \subseteq Int /\ v \in Nat /\ 0 \in S
  BY LevelsAre
<1>2. IsFiniteSet(S)
  BY <1>1, LevelsAre, FS_Subset
<1>3. Max(S) \in S /\ \A s \in S : s <= Max(S)
  BY <1>1, <1>2, MaxIs
<1> QED BY <1>3 DEF Below

\* What the function SidePots builds satisfies, on the levels D.
UpTo(g, c, in, D) ==
    g = [v \in D |-> IF v = 0 THEN <<>>
                     ELSE Joined(g[Below(c, v)], Layer(c, in, Below(c, v), v))]

\* There is such a function.
LEMMA UpToExists ==
  ASSUME NEW c \in Puts, NEW in
  PROVE  \E g : UpTo(g, c, in, Levels(c))
<1> DEFINE L == Levels(c)
           D(v) == {l \in L : l <= v}
           Bad == {v \in L : ~\E g : UpTo(g, c, in, D(v))}
<1>1. L \subseteq Nat /\ IsFiniteSet(L) /\ 0 \in L
  BY LevelsAre
<1>2. Bad = {}
  <2> SUFFICES ASSUME Bad # {} PROVE FALSE
    OBVIOUS
  <2> DEFINE f == [s \in Bad |-> s]
  <2>1. PICK v \in Bad : \A s \in Bad : f[v] <= f[s]
    <3>1. IsFiniteSet(Bad)
      BY <1>1, FS_Subset
    <3>2. \A s \in Bad : f[s] \in Int
      BY <1>1
    <3> QED BY <3>1, <3>2, Lowest
  <2>2. v \in L /\ \A l \in L : l < v => \E g : UpTo(g, c, in, D(l))
    <3>1. v \in L
      OBVIOUS
    <3>2. ASSUME NEW l \in L, l < v, ~\E g : UpTo(g, c, in, D(l)) PROVE FALSE
      <4>1. l \in Bad
        BY <3>2
      <4>2. f[v] <= f[l] /\ f[v] = v /\ f[l] = l
        BY <2>1, <4>1
      <4> QED BY <1>1, <3>1, <3>2, <4>2
    <3> QED BY <3>1, <3>2
  <2>3. CASE v = 0
    <3> DEFINE g == [l \in D(0) |-> <<>>]
    <3>1. \A l \in D(0) : l = 0
      BY <1>1
    <3>2. g = [l \in D(0) |-> IF l = 0 THEN <<>>
                               ELSE Joined(g[Below(c, l)], Layer(c, in, Below(c, l), l))]
      BY <3>1, Zenon
    <3>3. UpTo(g, c, in, D(0))
      BY <3>2 DEF UpTo
    <3> QED BY <2>1, <2>3, <3>3
  <2>4. CASE v # 0
    <3> DEFINE low == Below(c, v)
    <3>1. low \in L /\ low < v /\ \A l \in L : l < v => l <= low
      BY <2>2, <2>4, BelowIs
    <3>2. PICK g : UpTo(g, c, in, D(low))
      BY <2>2, <3>1
    <3> HIDE DEF low
    <3> DEFINE h == [l \in D(v) |-> IF l = v THEN Joined(g[low], Layer(c, in, low, v)) ELSE g[l]]
    <3>3. \A l \in D(v) : l # v => l \in D(low)
      BY <1>1, <2>2, <3>1
    <3>4. low \in D(v) /\ low # v
      BY <1>1, <2>2, <3>1
    <3>5. ASSUME NEW l \in D(v)
          PROVE  h[l] = IF l = 0 THEN <<>> ELSE Joined(h[Below(c, l)], Layer(c, in, Below(c, l), l))
      <4>1. CASE l = v
        <5>1. h[v] = Joined(g[low], Layer(c, in, low, v))
          BY <2>2, <4>1
        <5>2. h[low] = g[low]
          BY <3>4
        <5> QED BY <2>4, <4>1, <5>1, <5>2 DEF low
      <4>2. CASE l # v
        <5>1. l \in D(low) /\ h[l] = g[l]
          BY <3>3, <4>2
        <5>2. g[l] = IF l = 0 THEN <<>> ELSE Joined(g[Below(c, l)], Layer(c, in, Below(c, l), l))
          BY <3>2, <5>1 DEF UpTo
        <5>3. CASE l = 0
          BY <5>1, <5>2, <5>3
        <5>4. CASE l # 0
          <6>1. Below(c, l) \in L /\ Below(c, l) < l
            BY <5>4, BelowIs
          <6>2. Below(c, l) \in D(v) /\ Below(c, l) # v
            BY <1>1, <2>2, <3>1, <5>1, <6>1
          <6>3. h[Below(c, l)] = g[Below(c, l)]
            BY <6>2
          <6> QED BY <5>1, <5>2, <6>3
        <5> QED BY <5>3, <5>4
      <4> QED BY <4>1, <4>2
    <3>6. UpTo(h, c, in, D(v))
      <4> DEFINE H(l) == IF l = 0 THEN <<>> ELSE Joined(h[Below(c, l)], Layer(c, in, Below(c, l), l))
      <4>1. \A l \in D(v) : h[l] = H(l)
        BY <3>5
      <4>2. h = [l \in D(v) |-> h[l]]
        OBVIOUS
      <4> HIDE DEF h
      <4>3. h = [l \in D(v) |-> H(l)]
        BY <4>1, <4>2
      <4> QED BY <4>3 DEF UpTo
    <3> QED BY <2>1, <3>6
  <2> QED BY <2>3, <2>4
<1>3. Max(L) \in L /\ \A l \in L : l <= Max(L)
  BY <1>1, MaxIs
<1>4. D(Max(L)) = L
  BY <1>3
<1> QED BY <1>2, <1>3, <1>4

\* SidePots is its value at the highest level.
LEMMA SidePotsIs ==
  ASSUME NEW c \in Puts, NEW in
  PROVE  \E g : /\ UpTo(g, c, in, Levels(c))
                /\ SidePots(c, in) = LET pots == g[Max(Levels(c))]
                                     IN  IF pots # <<>> /\ Last(pots).open = {}
                                         THEN [pots EXCEPT ![1].open = in] ELSE pots
<1> DEFINE g == CHOOSE h : UpTo(h, c, in, Levels(c))
<1>1. UpTo(g, c, in, Levels(c))
  BY UpToExists
<1>2. SidePots(c, in) = LET pots == g[Max(Levels(c))]
                        IN  IF pots # <<>> /\ Last(pots).open = {}
                            THEN [pots EXCEPT ![1].open = in] ELSE pots
  BY DEF SidePots, UpTo, Levels, Below
<1> QED BY <1>1, <1>2

\* The chips of the pots open to a set of seats that belongs to A.
Worth(pots, A) == [k \in DOMAIN pots |-> IF pots[k].open \in A THEN pots[k].amount ELSE 0]
Chips(pots, A) == SumOver(Worth(pots, A), DOMAIN pots)

\* The pots of the levels up to one that the seats r of those in the hand reached.
Layered(pots, in, r) ==
    /\ pots \in Seq(PotRecords)
    /\ \A k \in 1 .. Len(pots) : pots[k].open \subseteq in
    /\ \A k \in 1 .. Len(pots) : pots[k].open = {} => Len(pots) = 1
    /\ pots # <<>> => r \subseteq pots[Len(pots)].open

\* To whom a pot that joins the others is open.
OpenTo(pots, p) == IF pots # <<>> /\ p.open = {} THEN pots[Len(pots)].open ELSE p.open

\* The terms of the chips of well-formed pots.
LEMMA WorthIs ==
  ASSUME NEW pots \in Seq(PotRecords), NEW A
  PROVE  /\ DOMAIN pots = 1 .. Len(pots) /\ Len(pots) \in Nat /\ IsFiniteSet(1 .. Len(pots))
         /\ Worth(pots, A) \in [1 .. Len(pots) -> Nat]
         /\ Chips(pots, A) \in Nat
<1>1. DOMAIN pots = 1 .. Len(pots) /\ Len(pots) \in Nat
  BY LenProperties
<1>2. IsFiniteSet(1 .. Len(pots))
  BY <1>1, FS_Interval
<1>3. \A k \in 1 .. Len(pots) : pots[k] \in PotRecords /\ pots[k].amount \in Nat
  <2> TAKE k \in 1 .. Len(pots)
  <2>1. pots[k] \in PotRecords
    BY ElementOfSeq
  <2> QED BY <2>1 DEF PotRecords
<1>4. Worth(pots, A) \in [1 .. Len(pots) -> Nat]
  BY <1>1, <1>3 DEF Worth
<1>5. Chips(pots, A) \in Nat
  BY <1>1, <1>2, <1>4, SumNat DEF Chips
<1> QED BY <1>1, <1>2, <1>4, <1>5

\* A pot more: it joins the last one or follows it, and no chip is lost.
LEMMA JoinedIs ==
  ASSUME NEW pots, NEW in \in SUBSET Seats, NEW r, Layered(pots, in, r),
         NEW p \in PotRecords, p.open \subseteq in, pots # <<>> => p.open \subseteq r
  PROVE  /\ Layered(Joined(pots, p), in, p.open) /\ Joined(pots, p) # <<>>
         /\ \A A : Chips(Joined(pots, p), A)
                     = Chips(pots, A) + IF OpenTo(pots, p) \in A THEN p.amount ELSE 0
<1> DEFINE n == Len(pots)
           q == Joined(pots, p)
<1>1. pots \in Seq(PotRecords) /\ n \in Nat /\ DOMAIN pots = 1 .. n /\ p.amount \in Nat
  BY LenProperties DEF Layered, PotRecords
<1>2. CASE pots # <<>> /\ p.open \in {pots[n].open, {}}
  <2> DEFINE l == pots[n]
             e == [l EXCEPT !.amount = l.amount + p.amount]
  <2>1. n \in 1 .. n /\ l \in PotRecords /\ l.amount \in Nat
    <3>1. n \in 1 .. n
      BY <1>1, <1>2, EmptySeq
    <3>2. l \in PotRecords
      BY <1>1, <3>1, ElementOfSeq
    <3> QED BY <3>1, <3>2 DEF PotRecords
  <2>2. q = [pots EXCEPT ![n] = e]
    BY <1>1, <1>2, <2>1 DEF Joined, Last
  <2>3. e \in PotRecords /\ e.open = l.open /\ e.amount = l.amount + p.amount
    <3> HIDE DEF l
    <3> QED BY <1>1, <2>1, SMTT(30) DEF PotRecords
  <2> HIDE DEF e, q
  <2>4. /\ q \in Seq(PotRecords) /\ Len(q) = n
        /\ \A k \in 1 .. n : q[k] = IF k = n THEN e ELSE pots[k]
    BY <1>1, <2>1, <2>2, <2>3, ExceptSeq
  <2>5. \A k \in 1 .. n : q[k].open = pots[k].open
    BY <2>3, <2>4
  <2>6. q # <<>>
    BY <2>1, <2>4, EmptySeq
  <2>7. Layered(q, in, p.open)
    <3>1. p.open \subseteq q[n].open
      BY <1>2, <2>1, <2>5
    <3> QED BY <2>4, <2>5, <3>1 DEF Layered
  <2>8. ASSUME NEW A
        PROVE  Chips(q, A) = Chips(pots, A) + IF OpenTo(pots, p) \in A THEN p.amount ELSE 0
    <3> DEFINE f == Worth(pots, A)
               g == Worth(q, A)
               d == IF OpenTo(pots, p) \in A THEN p.amount ELSE 0
    <3>1. /\ f \in [1 .. n -> Nat] /\ g \in [1 .. n -> Nat] /\ IsFiniteSet(1 .. n)
          /\ DOMAIN q = 1 .. n /\ Chips(pots, A) = SumOver(f, 1 .. n)
          /\ Chips(q, A) = SumOver(g, 1 .. n)
      BY <1>1, <2>4, WorthIs DEF Chips
    <3>2. /\ \A k \in 1 .. n : k # n => f[k] = g[k]
          /\ g[n] = f[n] + d
      <4>1. \A k \in 1 .. n : k # n => f[k] = g[k]
        BY <1>1, <2>4, <3>1, Zenon DEF Worth
      <4>2. f[n] = IF l.open \in A THEN l.amount ELSE 0
        BY <1>1, <2>1 DEF Worth
      <4>3. g[n] = IF l.open \in A THEN l.amount + p.amount ELSE 0
        BY <2>1, <2>3, <2>4, <3>1, Zenon DEF Worth
      <4>4. OpenTo(pots, p) = l.open
        BY <1>2 DEF OpenTo
      <4> HIDE DEF l, f, g
      <4>5. CASE l.open \in A
        BY <1>1, <2>1, <4>1, <4>2, <4>3, <4>4, <4>5, Zenon
      <4>6. CASE l.open \notin A
        <5>1. f[n] = 0 /\ g[n] = 0 /\ d = 0
          BY <4>2, <4>3, <4>4, <4>6
        <5> QED BY <4>1, <5>1
      <4> QED BY <4>1, <4>5, <4>6
    <3>0. d \in Nat
      BY <1>1
    <3> HIDE DEF f, g, d
    <3>3. SumOver(f, 1 .. n) - f[n] = SumOver(g, 1 .. n) - g[n]
      <4>1. \A k \in 1 .. n : f[k] \in Int /\ g[k] \in Int /\ (k # n => f[k] = g[k])
        BY <3>1, <3>2
      <4> QED BY <2>1, <3>1, <4>1, SumOneMoved
    <3>4. SumOver(f, 1 .. n) \in Int /\ SumOver(g, 1 .. n) \in Int
      BY <3>1, SumInt
    <3>5. f[n] \in Int
      BY <2>1, <3>1
    <3>6. Chips(q, A) = Chips(pots, A) + d
      BY <3>0, <3>1, <3>2, <3>3, <3>4, <3>5
    <3> QED BY <3>6 DEF d
  <2> QED BY <2>6, <2>7, <2>8 DEF q
<1>3. CASE ~(pots # <<>> /\ p.open \in {pots[n].open, {}})
  <2>1. q = Append(pots, p)
    BY <1>1, <1>3 DEF Joined, Last
  <2> HIDE DEF q
  <2>2. /\ q \in Seq(PotRecords) /\ Len(q) = n + 1 /\ q[n + 1] = p
        /\ \A k \in 1 .. n : q[k] = pots[k]
    BY <1>1, <2>1, AppendProperties
  <2>3. q # <<>>
    BY <1>1, <2>2, EmptySeq
  <2>4. n # 0 => pots # <<>> /\ n \in 1 .. n
    BY <1>1, EmptySeq
  <2>5. Layered(q, in, p.open)
    <3>1. \A k \in 1 .. n + 1 : k = n + 1 \/ k \in 1 .. n
      BY <1>1
    <3>2. \A k \in 1 .. n + 1 : q[k].open \subseteq in
      BY <2>2, <3>1 DEF Layered
    <3>3. ASSUME NEW k \in 1 .. n + 1, q[k].open = {} PROVE n + 1 = 1
      <4>1. CASE n = 0
        BY <4>1
      <4>2. CASE n # 0
        <5>1. p.open # {} /\ p.open \subseteq pots[n].open
          BY <1>3, <2>4, <4>2 DEF Layered
        <5>2. k \in 1 .. n /\ pots[k].open = {}
          BY <2>2, <3>1, <3>3, <5>1
        <5>3. n = 1
          BY <5>2 DEF Layered
        <5> QED BY <5>1, <5>2, <5>3
      <4> QED BY <4>1, <4>2
    <3>4. p.open \subseteq q[n + 1].open
      BY <2>2
    <3> QED BY <2>2, <3>2, <3>3, <3>4 DEF Layered
  <2>6. ASSUME NEW A
        PROVE  Chips(q, A) = Chips(pots, A) + IF OpenTo(pots, p) \in A THEN p.amount ELSE 0
    <3> DEFINE f == Worth(pots, A)
               g == Worth(q, A)
               d == IF OpenTo(pots, p) \in A THEN p.amount ELSE 0
    <3>1. /\ f \in [1 .. n -> Nat] /\ g \in [1 .. n + 1 -> Nat] /\ IsFiniteSet(1 .. n)
          /\ DOMAIN q = 1 .. n + 1 /\ Chips(pots, A) = SumOver(f, 1 .. n)
          /\ Chips(q, A) = SumOver(g, 1 .. n + 1) /\ IsFiniteSet(1 .. n + 1)
      BY <1>1, <2>2, WorthIs DEF Chips
    <3>2. \A k \in 1 .. n : f[k] = g[k]
      BY <1>1, <2>2, <3>1 DEF Worth
    <3>3. g[n + 1] = d
      <4>1. OpenTo(pots, p) = p.open
        BY <1>3 DEF OpenTo
      <4>2. g[n + 1] = IF p.open \in A THEN p.amount ELSE 0
        BY <1>1, <2>2, <3>1 DEF Worth
      <4> QED BY <4>1, <4>2
    <3>0. d \in Nat
      BY <1>1
    <3> HIDE DEF f, g, d
    <3>4. SumOver(g, 1 .. n + 1) = g[n + 1] + SumOver(g, (1 .. n + 1) \ {n + 1})
      <4>1. n + 1 \in 1 .. n + 1 /\ \A k \in 1 .. n + 1 : g[k] \in Int
        BY <1>1, <3>1
      <4> QED BY <3>1, <4>1, SumSplit
    <3>5. (1 .. n + 1) \ {n + 1} = 1 .. n
      BY <1>1
    <3>6. SumOver(g, 1 .. n) = SumOver(f, 1 .. n)
      <4>1. \A k \in 1 .. n : f[k] \in Int /\ f[k] = g[k]
        BY <3>1, <3>2
      <4> QED BY <3>1, <4>1, SumSame
    <3>7. SumOver(f, 1 .. n) \in Int
      BY <3>1, SumInt
    <3>8. Chips(q, A) = Chips(pots, A) + d
      <4>1. SumOver(g, 1 .. n + 1) = d + SumOver(f, 1 .. n)
        BY <3>3, <3>4, <3>5, <3>6, Zenon
      <4>2. Chips(q, A) = d + Chips(pots, A) /\ Chips(pots, A) \in Int
        BY <3>1, <3>7, <4>1, Zenon
      <4> QED BY <3>0, <4>2
    <3> QED BY <3>8 DEF d
  <2> QED BY <2>3, <2>5, <2>6 DEF q
<1> QED BY <1>2, <1>3

\* The last pot, then, is open to whom the new one is.
LEMMA LastOpen ==
  ASSUME NEW pots, NEW in, NEW r, Layered(pots, in, r), NEW p \in PotRecords
  PROVE  LET q == Joined(pots, p) IN q[Len(q)].open = OpenTo(pots, p)
<1> DEFINE n == Len(pots)
           q == Joined(pots, p)
<1>1. pots \in Seq(PotRecords) /\ n \in Nat /\ p.amount \in Nat
  BY LenProperties DEF Layered, PotRecords
<1>2. CASE pots # <<>> /\ p.open \in {pots[n].open, {}}
  <2> DEFINE l == pots[n]
             e == [l EXCEPT !.amount = l.amount + p.amount]
  <2>1. n \in 1 .. n /\ l \in PotRecords /\ l.amount \in Nat
    <3>1. n \in 1 .. n
      BY <1>1, <1>2, EmptySeq
    <3>2. l \in PotRecords
      BY <1>1, <3>1, ElementOfSeq
    <3> QED BY <3>1, <3>2 DEF PotRecords
  <2>2. q = [pots EXCEPT ![n] = e]
    BY <1>1, <1>2, <2>1 DEF Joined, Last
  <2>3. e \in PotRecords /\ e.open = l.open
    <3> HIDE DEF l
    <3> QED BY <1>1, <2>1, SMTT(30) DEF PotRecords
  <2>4. OpenTo(pots, p) = l.open
    BY <1>2 DEF OpenTo
  <2> HIDE DEF e, q, l
  <2>5. Len(q) = n /\ q[n] = e
    BY <1>1, <2>1, <2>2, <2>3, ExceptSeq
  <2> QED BY <2>3, <2>4, <2>5 DEF q
<1>3. CASE ~(pots # <<>> /\ p.open \in {pots[n].open, {}})
  <2>1. q = Append(pots, p)
    BY <1>1, <1>3 DEF Joined, Last
  <2>2. OpenTo(pots, p) = p.open
    BY <1>3 DEF OpenTo
  <2> HIDE DEF q
  <2>3. Len(q) = n + 1 /\ q[n + 1] = p
    BY <1>1, <2>1, AppendProperties
  <2> QED BY <2>2, <2>3 DEF q
<1> QED BY <1>2, <1>3

\* The most that a seat still in has put in, and the seats still in that compete for a chip
\* at height k: those who put in as many, or the most.
Top(c, in) == Max({0} \cup {c[i] : i \in in})
Reached(c, in, k) == {i \in in : c[i] >= Least(k, Top(c, in))}
Holders(c, k) == {i \in Seats : c[i] >= k}

\* The most that anybody still in has put in is one of the levels.
LEMMA TopIs ==
  ASSUME NEW c \in Puts, NEW in \in SUBSET Seats
  PROVE  /\ Top(c, in) \in Levels(c) /\ Top(c, in) \in Nat /\ \A i \in in : c[i] <= Top(c, in)
         /\ Top(c, in) # 0 => \E i \in in : c[i] = Top(c, in)
<1> DEFINE S == {0} \cup {c[i] : i \in in}
<1>1. S \subseteq Levels(c) /\ S # {}
  BY DEF Levels
<1>2. S \in SUBSET Int /\ IsFiniteSet(S)
  BY <1>1, LevelsAre, FS_Subset
<1>3. Max(S) \in S /\ \A s \in S : s <= Max(S)
  BY <1>1, <1>2, MaxIs
<1>4. Top(c, in) = Max(S)
  BY DEF Top
<1> HIDE DEF S
<1>5. Top(c, in) \in S /\ \A s \in S : s <= Top(c, in)
  BY <1>3, <1>4
<1>6. \A i \in in : c[i] \in S
  BY DEF S
<1>7. Top(c, in) # 0 => \E i \in in : c[i] = Top(c, in)
  BY <1>5 DEF S
<1> QED BY <1>1, <1>5, <1>6, <1>7, LevelsAre

\* A level is what every seat that put in more than the one below put in at least.
LEMMA LevelIs ==
  ASSUME NEW c \in Puts, NEW v \in Levels(c), v # 0, NEW k \in Nat, Below(c, v) < k, k <= v,
         NEW i \in Seats
  PROVE  c[i] >= k <=> c[i] >= v
<1>1. v \in Nat /\ Below(c, v) \in Nat /\ \A l \in Levels(c) : l < v => l <= Below(c, v)
  BY LevelsAre, BelowIs
<1>2. c[i] \in Levels(c) /\ c[i] \in Nat
  BY DEF Levels, Puts
<1>3. c[i] < v => c[i] <= Below(c, v)
  BY <1>1, <1>2
<1> QED BY <1>1, <1>2, <1>3

\* What the layer under a level adds to the pots.
LayerAdds(g, c, in, v, A) ==
    Chips(g[v], A) = Chips(g[Below(c, v)], A)
        + IF (IF Top(c, in) = 0 THEN {} ELSE Reached(c, in, v)) \in A
          THEN (v - Below(c, v)) * Cardinality(Holders(c, v)) ELSE 0

\* The pots up to each level.
LEMMA UpToIs ==
  ASSUME NEW c \in Puts, NEW in \in SUBSET Seats, NEW g, UpTo(g, c, in, Levels(c)),
         NEW v \in Levels(c)
  PROVE  /\ Layered(g[v], in, {i \in in : c[i] >= v})
         /\ v = 0 => g[v] = <<>>
         /\ v # 0 => /\ g[v] # <<>>
                     /\ g[v][Len(g[v])].open
                          = IF Top(c, in) = 0 THEN {} ELSE Reached(c, in, v)
                     /\ \A A : LayerAdds(g, c, in, v, A)
<1> DEFINE L == Levels(c)
           R(w) == {i \in in : c[i] >= w}
           O(w) == IF Top(c, in) = 0 THEN {} ELSE Reached(c, in, w)
           lay(w) == Layer(c, in, Below(c, w), w)
           J(w) == /\ Layered(g[w], in, R(w))
                   /\ w # 0 => g[w] # <<>> /\ g[w][Len(g[w])].open = O(w)
           K(w) == w # 0 => /\ lay(w) \in PotRecords /\ Layered(g[Below(c, w)], in, R(Below(c, w)))
                            /\ lay(w).open = R(w) /\ R(w) \subseteq R(Below(c, w))
                            /\ OpenTo(g[Below(c, w)], lay(w)) = O(w)
           Bad == {w \in L : ~(J(w) /\ K(w))}
<1>1. L \subseteq Nat /\ IsFiniteSet(L) /\ 0 \in L
  BY LevelsAre
<1>2. g[0] = <<>> /\ \A w \in L : w # 0 => g[w] = Joined(g[Below(c, w)], lay(w))
  BY <1>1 DEF UpTo
<1>3. \A w \in L : w # 0 =>
        lay(w) \in PotRecords /\ lay(w).open = R(w)
        /\ lay(w).amount = (w - Below(c, w)) * Cardinality(Holders(c, w))
  <2> TAKE w \in L
  <2> HAVE w # 0
  <2>1. Below(c, w) \in Nat /\ w \in Nat /\ Below(c, w) < w
    BY <1>1, BelowIs
  <2>2. Holders(c, w) \subseteq Seats
    BY DEF Holders
  <2>3. Cardinality(Holders(c, w)) \in Nat
    BY <2>2, SeatsFinite, FS_Subset, FS_CardinalityType
  <2>4. /\ lay(w).amount = (w - Below(c, w)) * Cardinality(Holders(c, w))
        /\ lay(w).open = R(w)
        /\ lay(w) = [amount |-> (w - Below(c, w)) * Cardinality(Holders(c, w)), open |-> R(w)]
    BY DEF Layer, Holders
  <2>5. \A m \in Nat, n \in Nat : m * n \in Nat
    OBVIOUS
  <2>6. w - Below(c, w) \in Nat
    BY <2>1
  <2>7. (w - Below(c, w)) * Cardinality(Holders(c, w)) \in Nat
    BY <2>3, <2>5, <2>6
  <2>8. R(w) \subseteq Seats
    OBVIOUS
  <2> QED BY <2>4, <2>7, <2>8 DEF PotRecords
<1>4. Bad = {}
  <2> SUFFICES ASSUME Bad # {} PROVE FALSE
    OBVIOUS
  <2> DEFINE f == [s \in Bad |-> s]
  <2>1. PICK w \in Bad : \A s \in Bad : f[w] <= f[s]
    <3> HIDE DEF J, K
    <3>1. IsFiniteSet(Bad)
      BY <1>1, FS_Subset
    <3>2. \A s \in Bad : f[s] \in Int
      BY <1>1
    <3> HIDE DEF Bad, f
    <3> QED BY <3>1, <3>2, Lowest
  <2>2. w \in L /\ ~(J(w) /\ K(w)) /\ \A l \in L : l < w => J(l) /\ K(l)
    <3> HIDE DEF J, K
    <3>1. w \in L /\ ~(J(w) /\ K(w))
      BY <2>1
    <3>2. ASSUME NEW l \in L, l < w, ~(J(l) /\ K(l)) PROVE FALSE
      <4>1. l \in Bad
        BY <3>2
      <4>2. f[w] <= f[l] /\ f[w] = w /\ f[l] = l
        BY <2>1, <4>1
      <4> QED BY <1>1, <3>1, <3>2, <4>2
    <3> QED BY <3>1, <3>2
  <2>3. CASE w = 0
    <3>1. Layered(<<>>, in, R(0))
      <4>1. <<>> \in Seq(PotRecords) /\ Len(<<>>) = 0
        BY EmptySeq
      <4> QED BY <4>1 DEF Layered
    <3>2. J(0) /\ K(0)
      BY <1>2, <3>1
    <3> QED BY <2>2, <2>3, <3>2
  <2>4. CASE w # 0
    <3> DEFINE low == Below(c, w)
               p == lay(w)
    <3>1. low \in L /\ low < w /\ low \in Nat /\ w \in Nat /\ \A l \in L : l < w => l <= low
      BY <1>1, <2>2, <2>4, BelowIs
    <3>2. J(low)
      BY <2>2, <3>1
    <3>3. p \in PotRecords /\ p.open = R(w)
      BY <1>3, <2>2, <2>4
    <3>4. R(w) \subseteq R(low) /\ R(w) \subseteq in
      BY <3>1 DEF Puts
    <3>5. g[w] = Joined(g[low], p)
      BY <1>2, <2>2, <2>4
    <3>6. low = 0 => g[low] = <<>>
      BY <1>2
    <3>7. low # 0 => g[low] # <<>> /\ g[low][Len(g[low])].open = O(low)
      BY <3>2
    <3>8. Layered(g[low], in, R(low))
      BY <3>2
    <3> HIDE DEF low, p
    <3>9. Layered(g[w], in, R(w)) /\ g[w] # <<>>
      <4> HIDE DEF R
      <4>1. p.open \subseteq in /\ p.open \subseteq R(low)
        BY <3>3, <3>4
      <4>2. Layered(Joined(g[low], p), in, p.open) /\ Joined(g[low], p) # <<>>
        BY <3>3, <3>8, <4>1, JoinedIs
      <4> QED BY <3>3, <3>5, <4>2
    <3>10. /\ Top(c, in) \in L /\ Top(c, in) \in Nat /\ \A i \in in : c[i] \in Nat /\ c[i] <= Top(c, in)
           /\ Top(c, in) # 0 => \E i \in in : c[i] = Top(c, in)
      BY TopIs DEF Puts
    <3>11. OpenTo(g[low], p) = O(w)
      <4>1. CASE w <= Top(c, in)
        <5>1. R(w) # {} /\ Top(c, in) # 0
          BY <2>4, <3>1, <3>10, <4>1
        <5>2. Reached(c, in, w) = R(w)
          BY <3>1, <3>10, <4>1 DEF Reached, Least
        <5> QED BY <3>3, <5>1, <5>2 DEF OpenTo
      <4>2. CASE w > Top(c, in)
        <5>1. R(w) = {}
          BY <3>1, <3>10, <4>2
        <5>2. Top(c, in) <= low
          BY <3>1, <3>10, <4>2
        <5>3. CASE Top(c, in) = 0
          <6>1. O(w) = {} /\ O(low) = {}
            BY <5>3
          <6> HIDE DEF O
          <6>2. CASE g[low] = <<>>
            BY <3>3, <5>1, <6>1, <6>2 DEF OpenTo
          <6>3. CASE g[low] # <<>>
            BY <3>3, <3>6, <3>7, <5>1, <6>1, <6>3 DEF OpenTo
          <6> QED BY <6>2, <6>3
        <5>4. CASE Top(c, in) # 0
          <6>1. low # 0
            BY <3>1, <3>10, <5>2, <5>4
          <6>2. Least(low, Top(c, in)) = Top(c, in) /\ Least(w, Top(c, in)) = Top(c, in)
            BY <3>1, <3>10, <4>2, <5>2 DEF Least
          <6>3. O(low) = O(w)
            BY <5>4, <6>2 DEF Reached
          <6> HIDE DEF O
          <6> QED BY <3>3, <3>7, <5>1, <6>1, <6>3 DEF OpenTo
        <5> QED BY <5>3, <5>4
      <4> QED BY <3>1, <3>10, <4>1, <4>2
    <3>12. g[w][Len(g[w])].open = O(w)
      <4> HIDE DEF O
      <4> QED BY <3>3, <3>5, <3>8, <3>11, LastOpen
    <3> QED BY <2>2, <2>4, <3>3, <3>4, <3>8, <3>9, <3>11, <3>12 DEF low, p
  <2> QED BY <2>3, <2>4
<1>5. J(v) /\ K(v)
  <2> HIDE DEF J, K
  <2> QED BY <1>4
<1>6. ASSUME v # 0, NEW A
      PROVE  Chips(g[v], A) = Chips(g[Below(c, v)], A)
                + IF O(v) \in A THEN (v - Below(c, v)) * Cardinality(Holders(c, v)) ELSE 0
  <2> DEFINE low == Below(c, v)
             p == lay(v)
  <2>1. /\ p \in PotRecords /\ p.open = R(v) /\ R(v) \subseteq R(low) /\ R(v) \subseteq in
        /\ p.amount = (v - low) * Cardinality(Holders(c, v)) /\ OpenTo(g[low], p) = O(v)
        /\ Layered(g[low], in, R(low)) /\ g[v] = Joined(g[low], p)
    BY <1>2, <1>3, <1>5, <1>6
  <2> HIDE DEF low, p, O
  <2>2. Chips(g[v], A) = Chips(g[low], A) + IF O(v) \in A THEN p.amount ELSE 0
    BY <2>1, JoinedIs
  <2> QED BY <2>1, <2>2 DEF low
<1>7. v # 0 => \A A : LayerAdds(g, c, in, v, A)
  BY <1>6 DEF LayerAdds
<1> QED BY <1>2, <1>5, <1>7

\* One level: what its layer adds.
LEMMA UpToStep ==
  ASSUME NEW c \in Puts, NEW in \in SUBSET Seats, NEW g, UpTo(g, c, in, Levels(c)),
         NEW v \in Levels(c), v # 0, NEW A
  PROVE  Chips(g[v], A) = Chips(g[Below(c, v)], A)
            + IF (IF Top(c, in) = 0 THEN {} ELSE Reached(c, in, v)) \in A
              THEN (v - Below(c, v)) * Cardinality(Holders(c, v)) ELSE 0
<1>1. LayerAdds(g, c, in, v, A)
  BY UpToIs
<1> QED BY <1>1 DEF LayerAdds

\* A set of levels that has 0, and with the next level down each one, has them all.
LEMMA LevelInduction ==
  ASSUME NEW c \in Puts, NEW B \in SUBSET Levels(c), 0 \in B,
         \A v \in Levels(c) : v # 0 /\ Below(c, v) \in B => v \in B
  PROVE  B = Levels(c)
<1> DEFINE X == Levels(c) \ B
           f == [s \in X |-> s]
<1> SUFFICES ASSUME X # {} PROVE FALSE
  OBVIOUS
<1>1. Levels(c) \subseteq Nat /\ IsFiniteSet(Levels(c))
  BY LevelsAre
<1>2. PICK v \in X : \A s \in X : f[v] <= f[s]
  <2>1. IsFiniteSet(X)
    BY <1>1, FS_Subset
  <2>2. \A s \in X : f[s] \in Int
    BY <1>1
  <2> HIDE DEF X, f
  <2> QED BY <2>1, <2>2, Lowest
<1>3. v \in Levels(c) /\ v # 0
  OBVIOUS
<1>4. Below(c, v) \in Levels(c) /\ Below(c, v) < v
  BY <1>3, BelowIs
<1>5. Below(c, v) \in X => f[v] = v /\ f[Below(c, v)] = Below(c, v) /\ f[v] <= f[Below(c, v)]
  BY <1>2
<1>6. Below(c, v) \in B
  BY <1>1, <1>3, <1>4, <1>5
<1> QED BY <1>2, <1>3, <1>6

\* What the seats put in up to a height.
UpToHeight(c, v) == [i \in Seats |-> Least(c[i], v)]

\* The pots up to a level hold what was put in up to it.
LEMMA PotsHold ==
  ASSUME NEW c \in Puts, NEW in \in SUBSET Seats, NEW g, UpTo(g, c, in, Levels(c)),
         NEW v \in Levels(c)
  PROVE  Chips(g[v], SUBSET Seats) = SumOver(UpToHeight(c, v), Seats)
<1> DEFINE L == Levels(c)
           B == {w \in L : Chips(g[w], SUBSET Seats) = SumOver(UpToHeight(c, w), Seats)}
<1>1. L \subseteq Nat /\ 0 \in L
  BY LevelsAre
<1>2. 0 \in B
  <2>1. g[0] = <<>>
    BY <1>1 DEF UpTo
  <2>2. Chips(<<>>, SUBSET Seats) = 0
    <3>1. DOMAIN <<>> = {}
      OBVIOUS
    <3> QED BY <3>1, SumEmpty DEF Chips
  <2>3. \A i \in Seats : UpToHeight(c, 0)[i] = 0
    BY DEF UpToHeight, Least, Puts
  <2>4. SumOver(UpToHeight(c, 0), Seats) = 0 * Cardinality(Seats)
    BY <2>3, SeatsFinite, SumConstant
  <2>5. Cardinality(Seats) \in Nat
    BY SeatsFinite, FS_CardinalityType
  <2> QED BY <1>1, <2>1, <2>2, <2>4, <2>5
<1>3. ASSUME NEW w \in L, w # 0, Below(c, w) \in B PROVE w \in B
  <2> DEFINE low == Below(c, w)
             H == Holders(c, w)
             f == UpToHeight(c, low)
             d == [i \in Seats |-> IF i \in H THEN w - low ELSE 0]
             h == UpToHeight(c, w)
  <2>1. low \in Nat /\ w \in Nat /\ low < w
    BY <1>1, <1>3, BelowIs
  <2>2. Chips(g[w], SUBSET Seats) = Chips(g[low], SUBSET Seats) + (w - low) * Cardinality(H)
    <3>1. (IF Top(c, in) = 0 THEN {} ELSE Reached(c, in, w)) \in SUBSET Seats
      BY DEF Reached
    <3>2. w \in Levels(c) /\ w # 0
      BY <1>3
    <3> HIDE DEF low, H, L, B
    <3>3. Chips(g[w], SUBSET Seats) = Chips(g[Below(c, w)], SUBSET Seats)
            + (w - Below(c, w)) * Cardinality(Holders(c, w))
      BY <3>1, <3>2, UpToStep
    <3> QED BY <3>3 DEF low, H
  <2>3. Chips(g[low], SUBSET Seats) = SumOver(f, Seats)
    BY <1>3
  <2>4. H \subseteq Seats /\ IsFiniteSet(H)
    BY SeatsFinite, FS_Subset DEF Holders
  <2>5. ASSUME NEW i \in Seats
        PROVE  /\ f[i] \in Int /\ d[i] \in Int /\ h[i] = f[i] + d[i]
               /\ i \in H => d[i] = w - low
               /\ i \notin H => d[i] = 0
    <3>1. c[i] \in Nat /\ f[i] = Least(c[i], low) /\ h[i] = Least(c[i], w)
          /\ d[i] = IF i \in H THEN w - low ELSE 0
      BY DEF Puts, UpToHeight
    <3>2. i \in H <=> c[i] >= w
      BY DEF Holders
    <3>3. c[i] < w => c[i] <= low
      <4>1. c[i] \in Levels(c)
        BY DEF Levels
      <4> QED BY <1>3, <4>1, BelowIs
    <3> HIDE DEF low, H, f, d, h
    <3> QED BY <2>1, <3>1, <3>2, <3>3 DEF Least
  <2> HIDE DEF low, H, f, d, h
  <2>6. SumOver(h, Seats) = SumOver(f, Seats) + SumOver(d, Seats)
    BY <2>5, SeatsFinite, SumPlus
  <2>7. SumOver(d, Seats) = SumOver(d, H)
    BY <2>4, <2>5, SeatsFinite, SumOutside
  <2>8. SumOver(d, H) = (w - low) * Cardinality(H)
    <3>1. w - low \in Int /\ \A i \in H : d[i] = w - low
      BY <2>1, <2>4, <2>5
    <3> QED BY <2>4, <3>1, SumConstant
  <2>9. Chips(g[w], SUBSET Seats) = SumOver(h, Seats)
    BY <2>2, <2>3, <2>6, <2>7, <2>8
  <2> QED BY <1>3, <2>9 DEF h
<1>4. B = L
  <2> HIDE DEF B
  <2>1. B \in SUBSET Levels(c)
    BY DEF B
  <2> QED BY <1>2, <1>3, <2>1, LevelInduction
<1> QED BY <1>4

\* Whom the pot of a height is open to, before what nobody in the hand reached is theirs.
OpenAt(c, in, k) == IF Top(c, in) = 0 THEN {} ELSE Reached(c, in, k)
HeightWorth(c, in, A, n) ==
    [k \in 1 .. n |-> IF OpenAt(c, in, k) \in A THEN Cardinality(Holders(c, k)) ELSE 0]

\* At any height somebody or nobody is counted.
LEMMA HoldersNat == ASSUME NEW c, NEW k PROVE Cardinality(Holders(c, k)) \in Nat
<1>1. Holders(c, k) \subseteq Seats
  BY DEF Holders
<1> QED BY <1>1, SeatsFinite, FS_Subset, FS_CardinalityType

\* Height by height the pots open to given sets of seats hold a chip of everybody who put
\* in as much.
LEMMA PotsByHeight ==
  ASSUME NEW c \in Puts, NEW in \in SUBSET Seats, NEW g, UpTo(g, c, in, Levels(c)),
         NEW A, NEW v \in Levels(c)
  PROVE  Chips(g[v], A) = SumOver(HeightWorth(c, in, A, v), 1 .. v)
<1> DEFINE L == Levels(c)
           B == {w \in L : Chips(g[w], A) = SumOver(HeightWorth(c, in, A, w), 1 .. w)}
<1>1. L \subseteq Nat /\ 0 \in L
  BY LevelsAre
<1>2. 0 \in B
  <2>1. g[0] = <<>>
    BY <1>1 DEF UpTo
  <2>2. Chips(<<>>, A) = 0
    <3>1. DOMAIN <<>> = {}
      OBVIOUS
    <3> QED BY <3>1, SumEmpty DEF Chips
  <2>3. 1 .. 0 = {}
    OBVIOUS
  <2> QED BY <1>1, <2>1, <2>2, <2>3, SumEmpty
<1>3. ASSUME NEW w \in L, w # 0, Below(c, w) \in B PROVE w \in B
  <2> DEFINE low == Below(c, w)
             m == IF OpenAt(c, in, w) \in A THEN Cardinality(Holders(c, w)) ELSE 0
             h == HeightWorth(c, in, A, w)
             e == HeightWorth(c, in, A, low)
             U == (low + 1) .. w
             f == [k \in 1 .. w |-> IF k <= low THEN h[k] ELSE 0]
             d == [k \in 1 .. w |-> IF k <= low THEN 0 ELSE m]
  <2>1. low \in Nat /\ w \in Nat /\ low < w
    BY <1>1, <1>3, BelowIs
  <2>2. Chips(g[w], A) = Chips(g[low], A)
          + IF OpenAt(c, in, w) \in A THEN (w - low) * Cardinality(Holders(c, w)) ELSE 0
    <3>1. w \in Levels(c) /\ w # 0
      BY <1>3
    <3>2. Chips(g[w], A) = Chips(g[Below(c, w)], A)
            + IF (IF Top(c, in) = 0 THEN {} ELSE Reached(c, in, w)) \in A
              THEN (w - Below(c, w)) * Cardinality(Holders(c, w)) ELSE 0
      BY <3>1, UpToStep
    <3> QED BY <3>2, Zenon DEF OpenAt
  <2>3. m \in Nat
    BY HoldersNat
  <2>4. Chips(g[w], A) = Chips(g[low], A) + (w - low) * m
    <3>1. CASE OpenAt(c, in, w) \in A
      BY <2>2, <3>1
    <3>2. CASE OpenAt(c, in, w) \notin A
      <4>1. m = 0 /\ Chips(g[w], A) = Chips(g[low], A) + 0 /\ (w - low) * 0 = 0
        BY <2>1, <2>2, <3>2
      <4> QED BY <4>1
    <3> QED BY <3>1, <3>2
  <2>5. Chips(g[low], A) = SumOver(e, 1 .. low)
    BY <1>3
  <2>6. ASSUME NEW k \in 1 .. w, k > low
        PROVE  h[k] = m
    <3>1. \A i \in Seats : c[i] >= k <=> c[i] >= w
      BY <1>1, <1>3, <2>1, <2>6, LevelIs
    <3>2. Holders(c, k) = Holders(c, w)
      BY <3>1 DEF Holders
    <3>3. Reached(c, in, k) = Reached(c, in, w)
      <4>1. Top(c, in) \in L /\ Top(c, in) \in Nat
        BY TopIs
      <4>2. Top(c, in) < w => Top(c, in) <= low
        BY <1>3, <4>1, BelowIs
      <4>3. CASE Top(c, in) < w
        BY <2>1, <2>6, <4>1, <4>2, <4>3 DEF Reached, Least
      <4>4. CASE Top(c, in) >= w
        <5>1. Least(w, Top(c, in)) = w
          BY <2>1, <4>1, <4>4 DEF Least
        <5>2. Least(k, Top(c, in)) = k
          BY <2>1, <4>1, <4>4, <2>6 DEF Least
        <5> QED BY <3>1, <5>1, <5>2 DEF Reached
      <4> QED BY <2>1, <4>1, <4>3, <4>4
    <3>4. OpenAt(c, in, k) = OpenAt(c, in, w)
      BY <3>3 DEF OpenAt
    <3> QED BY <3>2, <3>4 DEF HeightWorth
  <2>7. ASSUME NEW k \in 1 .. w
        PROVE  h[k] \in Int /\ h[k] = IF OpenAt(c, in, k) \in A THEN Cardinality(Holders(c, k)) ELSE 0
    BY HoldersNat DEF HeightWorth
  <2>8. \A k \in 1 .. w : f[k] \in Int /\ d[k] \in Int /\ h[k] = f[k] + d[k]
    <3> TAKE k \in 1 .. w
    <3>1. h[k] \in Int /\ f[k] = (IF k <= low THEN h[k] ELSE 0) /\ d[k] = IF k <= low THEN 0 ELSE m
      BY <2>7
    <3>2. k > low => h[k] = m
      BY <2>6
    <3> HIDE DEF low, m, h, f, d
    <3> QED BY <2>1, <2>3, <3>1, <3>2
  <2>9. \A k \in 1 .. low : k \in 1 .. w /\ e[k] \in Int /\ f[k] = e[k]
    <3> TAKE k \in 1 .. low
    <3>1. k \in 1 .. w /\ k <= low
      BY <2>1
    <3>2. e[k] = IF OpenAt(c, in, k) \in A THEN Cardinality(Holders(c, k)) ELSE 0
      BY DEF HeightWorth
    <3> QED BY <2>7, <3>1, <3>2
  <2>10. IsFiniteSet(1 .. w) /\ IsFiniteSet(1 .. low) /\ IsFiniteSet(U)
         /\ Cardinality(U) = w - low /\ U \subseteq 1 .. w /\ 1 .. low \subseteq 1 .. w
    <3>1. low + 1 \in Int /\ w \in Int /\ 1 \in Int /\ low \in Int
      BY <2>1
    <3>2. IsFiniteSet(1 .. w) /\ IsFiniteSet(1 .. low) /\ IsFiniteSet(U)
          /\ Cardinality(U) = IF low + 1 > w THEN 0 ELSE w - (low + 1) + 1
      <4> HIDE DEF low
      <4> QED BY <3>1, FS_Interval
    <3> HIDE DEF low
    <3> QED BY <2>1, <3>2
  <2>11. \A k \in (1 .. w) \ U : d[k] = 0
    BY <2>1
  <2>12. \A k \in U : d[k] = m
    BY <2>1
  <2>13. \A k \in (1 .. w) \ (1 .. low) : f[k] = 0
    BY <2>1
  <2> HIDE DEF low, m, h, e, U, f, d
  <2>14. SumOver(h, 1 .. w) = SumOver(f, 1 .. w) + SumOver(d, 1 .. w)
    BY <2>8, <2>10, SumPlus
  <2>15. SumOver(d, 1 .. w) = SumOver(d, U)
    BY <2>8, <2>10, <2>11, SumOutside
  <2>16. SumOver(d, U) = m * (w - low)
    <3>1. m \in Int
      BY <2>3
    <3>2. SumOver(d, U) = m * Cardinality(U)
      BY <2>10, <2>12, <3>1, SumConstant
    <3> QED BY <2>10, <3>2
  <2>17. SumOver(f, 1 .. w) = SumOver(f, 1 .. low)
    BY <2>8, <2>10, <2>13, SumOutside
  <2>18. SumOver(f, 1 .. low) = SumOver(e, 1 .. low)
    <3>1. \A k \in 1 .. low : f[k] \in Int /\ f[k] = e[k]
      BY <2>9
    <3> QED BY <2>10, <3>1, SumSame
  <2>19. m * (w - low) = (w - low) * m
    BY <2>1, <2>3
  <2>20. Chips(g[w], A) = SumOver(h, 1 .. w)
    BY <2>4, <2>5, <2>14, <2>15, <2>16, <2>17, <2>18, <2>19
  <2> QED BY <1>3, <2>20 DEF h
<1>4. B = L
  <2> HIDE DEF B
  <2>1. B \in SUBSET Levels(c)
    BY DEF B
  <2> QED BY <1>2, <1>3, <2>1, LevelInduction
<1> QED BY <1>4

\* What is due at each height to the seats that compete for it.
DueIn(c, in, A, n) ==
    [k \in 1 .. n |-> IF Reached(c, in, k) \in A THEN Cardinality(Holders(c, k)) ELSE 0]

\* The side pots: all that was put in, each open to somebody still in, and the chips open
\* to a set of seats are those of the heights it competes for.
LEMMA SidePotsAre ==
  ASSUME NEW c \in Puts, NEW in \in SUBSET Seats
  PROVE  LET pots == SidePots(c, in)
             top == Max(Levels(c))
         IN  /\ pots \in Seq(PotRecords) /\ top \in Nat
             /\ \A k \in 1 .. Len(pots) : pots[k].open \subseteq in /\ (in # {} => pots[k].open # {})
             /\ Chips(pots, SUBSET Seats) = SumOver(c, Seats)
             /\ \A A : Chips(pots, A) = SumOver(DueIn(c, in, A, top), 1 .. top)
<1> DEFINE m == Max(Levels(c))
           pots == SidePots(c, in)
           all == SUBSET Seats
<1>1. PICK g : /\ UpTo(g, c, in, Levels(c))
               /\ pots = LET p == g[m] IN IF p # <<>> /\ Last(p).open = {}
                                          THEN [p EXCEPT ![1].open = in] ELSE p
  BY SidePotsIs
<1>2. m \in Levels(c) /\ m \in Nat /\ (\A i \in Seats : c[i] \in Nat /\ c[i] <= m)
  <2>1. \A i \in Seats : c[i] \in Levels(c)
    BY DEF Levels
  <2> QED BY <2>1, LevelsAre, MaxIs
<1> DEFINE P == g[m]
<1>3. Layered(P, in, {i \in in : c[i] >= m}) /\ P \in Seq(PotRecords)
  <2>1. Layered(P, in, {i \in in : c[i] >= m})
    BY <1>1, <1>2, UpToIs
  <2> QED BY <2>1 DEF Layered
<1>4. m = 0 => P = <<>>
  BY <1>1, <1>2 DEF UpTo
<1>5. m # 0 => P # <<>> /\ P[Len(P)].open = OpenAt(c, in, m)
  BY <1>1, <1>2, UpToIs DEF OpenAt
<1>6. Chips(P, all) = SumOver(c, Seats)
  <2>1. Chips(P, all) = SumOver(UpToHeight(c, m), Seats)
    BY <1>1, <1>2, PotsHold
  <2>2. \A i \in Seats : UpToHeight(c, m)[i] \in Int /\ UpToHeight(c, m)[i] = c[i]
    BY <1>2 DEF UpToHeight, Least
  <2> HIDE DEF m
  <2>3. SumOver(UpToHeight(c, m), Seats) = SumOver(c, Seats)
    BY <2>2, SeatsFinite, SumSame
  <2> QED BY <2>1, <2>3
<1>7. \A A : Chips(P, A) = SumOver(HeightWorth(c, in, A, m), 1 .. m)
  <2> SUFFICES ASSUME NEW A PROVE Chips(g[m], A) = SumOver(HeightWorth(c, in, A, m), 1 .. m)
    OBVIOUS
  <2>1. UpTo(g, c, in, Levels(c)) /\ m \in Levels(c)
    BY <1>1, <1>2
  <2> HIDE DEF m
  <2> QED BY <2>1, PotsByHeight, SMTT(30)
<1>8. IsFiniteSet(1 .. m)
  BY <1>2, FS_Interval
<1>9. /\ Top(c, in) \in Nat /\ (\A i \in in : c[i] \in Nat /\ c[i] <= Top(c, in))
      /\ Top(c, in) # 0 => \E i \in in : c[i] = Top(c, in)
  BY TopIs DEF Puts
<1> HIDE DEF m, P, pots
<1>10. P # <<>> => Last(P) = P[Len(P)] /\ Len(P) \in 1 .. Len(P) /\ Len(P) \in Nat
  BY <1>3, EmptySeq DEF Last
<1>11. CASE Top(c, in) # 0
  <2>1. m # 0 /\ P # <<>>
    BY <1>2, <1>5, <1>9, <1>11
  <2>2. Reached(c, in, m) # {}
    BY <1>2, <1>9, <1>11 DEF Reached, Least
  <2>3. P[Len(P)].open # {}
    BY <1>5, <1>11, <2>1, <2>2 DEF OpenAt
  <2>4. pots = P
    BY <1>1, <1>10, <2>1, <2>3 DEF P
  <2>5. \A k \in 1 .. Len(P) : P[k].open \subseteq in /\ P[k].open # {}
    <3> TAKE k \in 1 .. Len(P)
    <3>1. P[k].open \subseteq in
      BY <1>3 DEF Layered
    <3>2. P[k].open = {} => Len(P) = 1
      BY <1>3 DEF Layered
    <3> QED BY <2>3, <3>1, <3>2
  <2>6. ASSUME NEW A PROVE Chips(pots, A) = SumOver(DueIn(c, in, A, m), 1 .. m)
    <3>1. \A k \in 1 .. m : OpenAt(c, in, k) = Reached(c, in, k)
      BY <1>11 DEF OpenAt
    <3>2. HeightWorth(c, in, A, m) = DueIn(c, in, A, m)
      BY <3>1 DEF HeightWorth, DueIn
    <3> QED BY <1>7, <2>4, <3>2
  <2> QED BY <1>2, <1>3, <1>6, <2>4, <2>5, <2>6 DEF pots, m
<1>12. CASE Top(c, in) = 0 /\ m = 0
  <2>1. P = <<>> /\ pots = <<>> /\ Len(<<>>) = 0
    BY <1>1, <1>4, <1>12, EmptySeq DEF P
  <2>2. 1 .. m = {}
    BY <1>12
  <2>3. ASSUME NEW A PROVE Chips(pots, A) = SumOver(DueIn(c, in, A, m), 1 .. m)
    BY <1>7, <2>1, <2>2, SumEmpty
  <2> QED BY <1>2, <1>3, <1>6, <2>1, <2>3 DEF pots, m
<1>13. CASE Top(c, in) = 0 /\ m # 0
  <2> DEFINE l == P[1]
             e == [l EXCEPT !.open = in]
  <2>1. P # <<>> /\ P[Len(P)].open = {}
    BY <1>5, <1>13 DEF OpenAt
  <2>2. Len(P) = 1
    BY <1>3, <1>10, <2>1 DEF Layered
  <2>3. l \in PotRecords /\ l.amount \in Nat /\ l.open = {}
    <3>1. l \in PotRecords
      BY <1>3, <2>2, ElementOfSeq
    <3> QED BY <2>1, <2>2, <3>1 DEF PotRecords
  <2>4. pots = [P EXCEPT ![1] = e]
    BY <1>1, <1>10, <2>1 DEF P
  <2>5. e \in PotRecords /\ e.amount = l.amount /\ e.open = in
    <3> HIDE DEF l
    <3> QED BY <2>3 DEF PotRecords
  <2> HIDE DEF e, l
  <2>6. pots \in Seq(PotRecords) /\ Len(pots) = 1 /\ pots[1] = e
    <3>1. 1 \in 1 .. Len(P)
      BY <2>2
    <3>2. /\ [P EXCEPT ![1] = e] \in Seq(PotRecords) /\ Len([P EXCEPT ![1] = e]) = Len(P)
          /\ \A j \in 1 .. Len(P) : [P EXCEPT ![1] = e][j] = IF j = 1 THEN e ELSE P[j]
      BY <1>3, <2>5, <3>1, ExceptSeq
    <3> QED BY <2>2, <2>4, <3>1, <3>2
  <2>7. ASSUME NEW q \in Seq(PotRecords), Len(q) = 1, NEW A
        PROVE  Chips(q, A) = IF q[1].open \in A THEN q[1].amount ELSE 0
    <3> DEFINE f == Worth(q, A)
    <3>1. DOMAIN q = 1 .. 1 /\ f \in [1 .. 1 -> Nat]
      BY <2>7, WorthIs
    <3>2. DOMAIN q = {1} /\ Chips(q, A) = SumOver(f, {1})
      BY <3>1 DEF Chips
    <3>3. f[1] = IF q[1].open \in A THEN q[1].amount ELSE 0
      BY <3>2 DEF Worth
    <3> HIDE DEF f
    <3>4. f[1] \in Int /\ \A k \in {1} : f[k] = f[1]
      BY <3>1
    <3>5. SumOver(f, {1}) = f[1] * Cardinality({1}) /\ Cardinality({1}) = 1
      BY <3>4, FS_Singleton, SumConstant
    <3> QED BY <3>2, <3>3, <3>4, <3>5
  <2>8. P[1] = l
    BY DEF l
  <2>9. l.amount = Chips(P, all) /\ l.amount = Chips(P, {{}})
    <3>1. {} \in all /\ {} \in {{}}
      OBVIOUS
    <3> QED BY <1>3, <2>2, <2>3, <2>7, <2>8, <3>1
  <2>10. \A A : Chips(pots, A) = IF in \in A THEN l.amount ELSE 0
    BY <2>5, <2>6, <2>7
  <2>11. Chips(pots, all) = SumOver(c, Seats)
    <3>1. in \in all
      OBVIOUS
    <3> QED BY <1>6, <2>9, <2>10, <3>1
  <2>12. ASSUME NEW A PROVE Chips(pots, A) = SumOver(DueIn(c, in, A, m), 1 .. m)
    <3> DEFINE f == HeightWorth(c, in, {{}}, m)
               h == DueIn(c, in, A, m)
    <3>1. \A k \in 1 .. m : Reached(c, in, k) = in
      BY <1>9, <1>13 DEF Reached, Least
    <3>2. \A k \in 1 .. m : f[k] = Cardinality(Holders(c, k)) /\ f[k] \in Int
      BY <1>13, HoldersNat DEF HeightWorth, OpenAt
    <3>3. \A k \in 1 .. m : h[k] = IF in \in A THEN Cardinality(Holders(c, k)) ELSE 0
      BY <3>1 DEF DueIn
    <3>4. l.amount = SumOver(f, 1 .. m)
      BY <1>7, <2>9
    <3> HIDE DEF f, h
    <3>5. CASE in \in A
      <4>1. \A k \in 1 .. m : f[k] \in Int /\ f[k] = h[k]
        BY <3>2, <3>3, <3>5
      <4>2. SumOver(f, 1 .. m) = SumOver(h, 1 .. m)
        BY <1>8, <4>1, SumSame
      <4> QED BY <2>10, <3>4, <3>5, <4>2 DEF h
    <3>6. CASE in \notin A
      <4>1. \A k \in 1 .. m : h[k] = 0
        BY <3>3, <3>6
      <4>2. SumOver(h, 1 .. m) = 0 * Cardinality(1 .. m) /\ Cardinality(1 .. m) \in Nat
        <5>1. Cardinality(1 .. m) \in Nat
          BY <1>8, FS_CardinalityType
        <5>2. 0 \in Int
          OBVIOUS
        <5> HIDE DEF m
        <5>3. SumOver(h, 1 .. m) = 0 * Cardinality(1 .. m)
          BY <1>8, <4>1, <5>2, SumConstant
        <5> QED BY <5>1, <5>3
      <4> QED BY <2>10, <3>6, <4>2 DEF h
    <3> QED BY <3>5, <3>6
  <2> QED BY <1>2, <2>5, <2>6, <2>11, <2>12 DEF pots, m
<1> QED BY <1>11, <1>12, <1>13

-----------------------------------------------------------------------------
(* What the pots pay *)

\* Sums of sums, in either order.
LEMMA SumSwap ==
  ASSUME NEW S, IsFiniteSet(S), NEW T, IsFiniteSet(T), NEW F,
         \A x \in S, y \in T : F[x][y] \in Int
  PROVE  SumOver([x \in S |-> SumOver([y \in T |-> F[x][y]], T)], S)
           = SumOver([y \in T |-> SumOver([x \in S |-> F[x][y]], S)], T)
<1> DEFINE row == [x \in S |-> SumOver([y \in T |-> F[x][y]], T)]
           col(U) == [y \in T |-> SumOver([x \in S |-> F[x][y]], U)]
           Bad == {U \in SUBSET S : SumOver(row, U) # SumOver(col(U), T)}
<1>1. \A x \in S : row[x] \in Int
  <2> TAKE x \in S
  <2> DEFINE f == [y \in T |-> F[x][y]]
  <2>1. \A y \in T : f[y] \in Int
    OBVIOUS
  <2>2. row[x] = SumOver(f, T)
    OBVIOUS
  <2> HIDE DEF f, row
  <2> QED BY <2>1, <2>2, SumInt
<1>2. \A U \in SUBSET S : IsFiniteSet(U) /\ \A y \in T : col(U)[y] \in Int
  <2> TAKE U \in SUBSET S
  <2>1. IsFiniteSet(U)
    BY FS_Subset
  <2>2. ASSUME NEW y \in T PROVE col(U)[y] \in Int
    <3> DEFINE f == [x \in S |-> F[x][y]]
    <3>1. \A x \in U : f[x] \in Int
      OBVIOUS
    <3>2. col(U)[y] = SumOver(f, U)
      OBVIOUS
    <3> HIDE DEF f, col
    <3> QED BY <2>1, <3>1, <3>2, SumInt
  <2> QED BY <2>1, <2>2
<1>3. Bad = {}
  <2> SUFFICES ASSUME Bad # {} PROVE FALSE
    OBVIOUS
  <2>1. PICK U \in Bad : \A y \in SUBSET U : y # U => y \notin Bad
    <3> HIDE DEF row, col
    <3>1. Bad \subseteq SUBSET S
      OBVIOUS
    <3> HIDE DEF Bad
    <3> QED BY <3>1, Smallest
  <2>2. U \in SUBSET S /\ SumOver(row, U) # SumOver(col(U), T)
    OBVIOUS
  <2>3. CASE U = {}
    <3>1. SumOver(row, U) = 0
      BY <2>3, SumEmpty
    <3>2. \A y \in T : col(U)[y] = 0
      BY <2>3, SumEmpty
    <3> HIDE DEF row, col
    <3>3. SumOver(col(U), T) = 0 * Cardinality(T)
      BY <3>2, SumConstant
    <3>4. Cardinality(T) \in Nat
      BY FS_CardinalityType
    <3> QED BY <2>2, <3>1, <3>3, <3>4
  <2>4. CASE U # {}
    <3>1. PICK e \in U : TRUE
      BY <2>4
    <3> DEFINE V == U \ {e}
    <3>2. V \in SUBSET S /\ V \in SUBSET U /\ V # U /\ e \in S
      BY <2>2
    <3>3. SumOver(row, V) = SumOver(col(V), T)
      <4> HIDE DEF row, col, V
      <4> QED BY <2>1, <3>2
    <3>4. SumOver(row, U) = row[e] + SumOver(row, V)
      <4>1. \A x \in U : row[x] \in Int
        BY <1>1, <2>2
      <4> HIDE DEF row
      <4> QED BY <1>2, <2>2, <4>1, SumSplit
    <3>5. \A y \in T : col(U)[y] = F[e][y] + col(V)[y]
      <4> TAKE y \in T
      <4> DEFINE f == [x \in S |-> F[x][y]]
      <4>1. \A x \in U : f[x] \in Int
        BY <2>2
      <4>2. f[e] = F[e][y]
        BY <3>2
      <4>3. col(U)[y] = SumOver(f, U) /\ col(V)[y] = SumOver(f, V)
        OBVIOUS
      <4> HIDE DEF f, col
      <4>4. SumOver(f, U) = f[e] + SumOver(f, U \ {e})
        BY <1>2, <2>2, <4>1, SumSplit
      <4> QED BY <4>2, <4>3, <4>4
    <3> DEFINE r == [y \in T |-> F[e][y]]
    <3>6. row[e] = SumOver(r, T)
      BY <3>2
    <3>7. \A y \in T : r[y] \in Int /\ col(V)[y] \in Int /\ col(U)[y] = r[y] + col(V)[y]
      BY <1>2, <3>2, <3>5
    <3> HIDE DEF row, col, r, V
    <3>8. SumOver(col(U), T) = SumOver(r, T) + SumOver(col(V), T)
      BY <3>7, SumPlus
    <3> QED BY <2>2, <3>3, <3>4, <3>6, <3>8
  <2> QED BY <2>3, <2>4
<1>4. SumOver(row, S) = SumOver(col(S), T)
  <2> HIDE DEF row, col
  <2> QED BY <1>3
<1> QED BY <1>4

\* The winners of a pot before a seat, going round from the button.
Dist(button, i) == (i - button - 1) % N
Before(W, button, i) == {j \in W : Dist(button, j) < Dist(button, i)}

\* Distances from the button: each seat has its own, all below N.
LEMMA DistIs ==
  ASSUME NEW button \in Int
  PROVE  /\ \A i \in Seats : Dist(button, i) \in Int
         /\ \A i, j \in Seats : Dist(button, i) = Dist(button, j) => i = j
<1>1. N \in Nat /\ N > 0
  BY PokerAssumption DEF MinPlayers
<1>2. ASSUME NEW i \in Seats, NEW j \in Seats, Dist(button, i) = Dist(button, j)
      PROVE  i = j
  <2> DEFINE a == i - button - 1
             b == j - button - 1
  <2>1. a \in Int /\ b \in Int /\ a - b < N /\ b - a < N /\ i - j = a - b
    BY <1>1 DEF Seats
  <2>2. a % N = b % N
    BY <1>2 DEF Dist
  <2> HIDE DEF a, b
  <2>3. a = N * (a \div N) + (a % N) /\ b = N * (b \div N) + (b % N)
        /\ a \div N \in Int /\ b \div N \in Int
    BY <1>1, <2>1
  <2> DEFINE q == a \div N - b \div N
  <2>4. a - b = N * q /\ q \in Int
    BY <1>1, <2>1, <2>2, <2>3
  <2> HIDE DEF q
  <2>5. q = 0
    <3>1. q >= 1 => N * q >= N
      BY <1>1, <2>4
    <3>2. q <= -1 => N * q <= -N
      BY <1>1, <2>4
    <3> QED BY <1>1, <2>1, <2>4, <3>1, <3>2
  <2> QED BY <1>1, <2>1, <2>4, <2>5 DEF Seats
<1>3. \A i \in Seats : Dist(button, i) \in Int
  BY <1>1 DEF Dist, Seats
<1> QED BY <1>2, <1>3

\* So many of them have fewer than m before them: m.
LEMMA OddChips ==
  ASSUME NEW W \in SUBSET Seats, NEW button \in Int, NEW m \in 0 .. Cardinality(W)
  PROVE  Cardinality({i \in W : Cardinality(Before(W, button, i)) < m}) = m
<1> DEFINE First(V, n) == {i \in V : Cardinality(Before(V, button, i)) < n}
           Bad == {V \in SUBSET Seats :
                     \E n \in 0 .. Cardinality(V) : Cardinality(First(V, n)) # n}
<1>1. Bad = {}
  <2> SUFFICES ASSUME Bad # {} PROVE FALSE
    OBVIOUS
  <2>1. PICK V \in Bad : \A y \in SUBSET V : y # V => y \notin Bad
    <3> HIDE DEF First
    <3>1. Bad \subseteq SUBSET Seats
      OBVIOUS
    <3> HIDE DEF Bad
    <3> QED BY <3>1, SeatsFinite, Smallest
  <2>2. V \in SUBSET Seats /\ \E n \in 0 .. Cardinality(V) : Cardinality(First(V, n)) # n
    OBVIOUS
  <2>3. PICK n \in 0 .. Cardinality(V) : Cardinality(First(V, n)) # n
    BY <2>2
  <2>4. IsFiniteSet(V) /\ Cardinality(V) \in Nat /\ n \in Nat
    BY <2>2, SeatsFinite, FS_Subset, FS_CardinalityType
  <2>5. CASE V = {}
    <3>1. First(V, n) = {} /\ Cardinality(V) = 0
      BY <2>5, FS_EmptySet
    <3> QED BY <2>3, <2>4, <3>1, FS_EmptySet
  <2>6. CASE V # {}
    <3> DEFINE f == [i \in V |-> -Dist(button, i)]
    <3>1. PICK e \in V : \A i \in V : f[e] <= f[i]
      <4>1. \A i \in V : f[i] \in Int
        BY <2>2, DistIs
      <4> HIDE DEF f
      <4> QED BY <2>4, <2>6, <4>1, Lowest
    <3>2. \A i \in V \ {e} : Dist(button, i) < Dist(button, e)
      <4> TAKE i \in V \ {e}
      <4>1. Dist(button, i) \in Int /\ Dist(button, e) \in Int /\ Dist(button, i) # Dist(button, e)
        BY <2>2, DistIs
      <4>2. f[e] <= f[i] /\ f[e] = -Dist(button, e) /\ f[i] = -Dist(button, i)
        BY <3>1
      <4> QED BY <4>1, <4>2
    <3> DEFINE U == V \ {e}
    <3>3. U \in SUBSET Seats /\ U \in SUBSET V /\ U # V /\ e \in Seats
      BY <2>2
    <3>4. IsFiniteSet(U) /\ Cardinality(U) = Cardinality(V) - 1 /\ Cardinality(U) \in Nat
      BY <2>4, FS_RemoveElement, FS_CardinalityType
    <3>5. \A i \in U : Before(V, button, i) = Before(U, button, i)
      <4> TAKE i \in U
      <4>1. Dist(button, i) < Dist(button, e) /\ Dist(button, i) \in Int /\ Dist(button, e) \in Int
        BY <2>2, <3>2, DistIs
      <4> QED BY <4>1 DEF Before
    <3>6. Before(V, button, e) = U
      <4>1. Dist(button, e) \in Int
        BY <3>3, DistIs
      <4> QED BY <3>2, <4>1 DEF Before
    <3>7. \A k \in 0 .. Cardinality(U) : Cardinality(First(U, k)) = k
      <4> HIDE DEF First, U
      <4> QED BY <2>1, <3>3
    <3>8. CASE n <= Cardinality(U)
      <4>1. First(V, n) = First(U, n)
        <5>1. ~(Cardinality(Before(V, button, e)) < n)
          BY <2>4, <3>4, <3>6, <3>8
        <5>2. \A i \in U : Cardinality(Before(V, button, i)) = Cardinality(Before(U, button, i))
          BY <3>5
        <5>3. \A i \in V : i \in U \/ i = e
          OBVIOUS
        <5> HIDE DEF U
        <5>4. e \notin U /\ U \subseteq V
          BY DEF U
        <5> QED BY <5>1, <5>2, <5>3, <5>4
      <4>2. n \in 0 .. Cardinality(U)
        BY <2>4, <3>4, <3>8
      <4> HIDE DEF First, U
      <4> QED BY <2>3, <3>7, <4>1, <4>2
    <3>9. CASE n > Cardinality(U)
      <4>1. n = Cardinality(V)
        BY <2>3, <2>4, <3>4, <3>9
      <4>2. First(V, n) = V
        <5>1. ASSUME NEW i \in U PROVE Cardinality(Before(U, button, i)) < n
          <6>1. Before(U, button, i) \subseteq U
            BY DEF Before
          <6>2. Cardinality(Before(U, button, i)) <= Cardinality(U)
                /\ Cardinality(Before(U, button, i)) \in Nat
            BY <3>4, <6>1, FS_Subset, FS_CardinalityType
          <6> QED BY <2>4, <3>4, <3>9, <6>2
        <5> QED BY <2>4, <3>4, <3>5, <3>6, <3>9, <5>1
      <4> QED BY <2>3, <4>1, <4>2
    <3> QED BY <2>4, <3>4, <3>8, <3>9
  <2> QED BY <2>5, <2>6
<1> HIDE DEF First
<1>2. \A n \in 0 .. Cardinality(W) : Cardinality(First(W, n)) = n
  BY <1>1
<1> QED BY <1>2 DEF First

\* Somebody has the best hand, and one only when no two hands are equal.
LEMMA BestIs ==
  ASSUME NEW open \in SUBSET Seats, open # {}, NEW rank \in Ranks
  PROVE  /\ Best(open, rank) \subseteq open /\ Best(open, rank) # {}
         /\ rank \in Orders => \A i, j \in Best(open, rank) : i = j
<1> DEFINE f == [i \in open |-> -rank[i]]
<1>1. \A i \in open : rank[i] \in Int /\ f[i] = -rank[i] /\ f[i] \in Int
  BY SeatsFinite DEF Ranks
<1>2. PICK e \in open : \A i \in open : f[e] <= f[i]
  <2>1. IsFiniteSet(open)
    BY SeatsFinite, FS_Subset
  <2> HIDE DEF f
  <2> QED BY <1>1, <2>1, Lowest
<1>3. e \in Best(open, rank)
  <2>1. \A i \in open : rank[i] <= rank[e]
    <3> TAKE i \in open
    <3>1. f[e] <= f[i]
      BY <1>2
    <3> QED BY <1>1, <3>1
  <2> QED BY <2>1 DEF Best
<1>4. ASSUME rank \in Orders, NEW i \in Best(open, rank), NEW j \in Best(open, rank)
      PROVE  i = j
  <2>1. rank[i] = rank[j] /\ i \in Seats /\ j \in Seats
    BY <1>1 DEF Best
  <2> QED BY <1>4, <2>1 DEF Orders, Ranks, IsInjective
<1> QED BY <1>3, <1>4 DEF Best

\* The shares of a pot: its winners' alone, and together the whole of it.
LEMMA ShareIs ==
  ASSUME NEW pot \in PotRecords, pot.open # {}, NEW rank \in Ranks, NEW button \in Int
  PROVE  /\ \A i \in Seats : /\ Share(pot, rank, button, i) \in Nat
                             /\ i \notin pot.open => Share(pot, rank, button, i) = 0
         /\ SumOver([i \in Seats |-> Share(pot, rank, button, i)], Seats) = pot.amount
         /\ rank \in Orders => \A i \in Seats :
              Share(pot, rank, button, i)
                = IF i \in Best(pot.open, rank) THEN pot.amount ELSE 0
<1> DEFINE W == Best(pot.open, rank)
           a == pot.amount
           k == Cardinality(W)
           O == {i \in W : Cardinality(Before(W, button, i)) < a % k}
           sh == [i \in Seats |-> Share(pot, rank, button, i)]
           q == [i \in Seats |-> IF i \in W THEN a \div k ELSE 0]
           o == [i \in Seats |-> IF i \in O THEN 1 ELSE 0]
<1>1. /\ W \subseteq pot.open /\ pot.open \subseteq Seats /\ W # {} /\ a \in Nat
      /\ rank \in Orders => \A i, j \in W : i = j
  <2>1. pot.open \in SUBSET Seats /\ a \in Nat
    BY DEF PotRecords
  <2> QED BY <2>1, BestIs
<1>2. W \in SUBSET Seats /\ IsFiniteSet(W) /\ k \in Nat /\ k >= 1
  <2>1. W \in SUBSET Seats
    BY <1>1
  <2>2. IsFiniteSet(W)
    BY <2>1, SeatsFinite, FS_Subset
  <2> HIDE DEF W
  <2>3. k \in Nat /\ k # 0
    BY <1>1, <2>2, FS_CardinalityType, FS_EmptySet
  <2> QED BY <2>1, <2>2, <2>3
<1>3. a \div k \in Nat /\ a % k \in 0 .. k - 1 /\ a = k * (a \div k) + (a % k)
  <2> HIDE DEF a, k
  <2>1. a \div k \in Int /\ a % k \in 0 .. k - 1 /\ a = k * (a \div k) + (a % k)
    BY <1>1, <1>2
  <2> DEFINE d == a \div k
  <2> HIDE DEF d
  <2>2. d \in Int /\ k * d > -k
    BY <1>1, <1>2, <2>1 DEF d
  <2>3. d < 0 => k * d <= -k
    BY <1>2, <2>2
  <2>4. d >= 0
    BY <1>2, <2>2, <2>3
  <2> QED BY <2>1, <2>2, <2>4 DEF d
<1>4. \A i \in W : i \in O <=> Cardinality(Before(W, button, i)) < a % k
  OBVIOUS
<1>5. Cardinality(O) = a % k /\ O \subseteq W
  <2>1. a % k \in 0 .. k
    BY <1>2, <1>3
  <2> HIDE DEF W, a
  <2> QED BY <1>2, <2>1, OddChips
<1>6. ASSUME NEW i \in Seats
      PROVE  Share(pot, rank, button, i)
               = IF i \notin W THEN 0 ELSE (a \div k) + (IF i \in O THEN 1 ELSE 0)
  <2>1. Share(pot, rank, button, i)
          = IF i \notin W THEN 0
            ELSE (a \div k) + (IF Cardinality(Before(W, button, i)) < a % k THEN 1 ELSE 0)
    BY DEF Share, Before, Dist
  <2> HIDE DEF O
  <2> QED BY <1>4, <2>1
<1> HIDE DEF W, a, k, O
<1>7. ASSUME NEW i \in Seats
      PROVE  /\ sh[i] \in Nat /\ q[i] \in Int /\ o[i] \in Int /\ sh[i] = q[i] + o[i]
             /\ i \in W => q[i] = a \div k
             /\ i \notin W => q[i] = 0
             /\ i \in O => o[i] = 1
             /\ i \notin O => o[i] = 0
             /\ i \notin W => sh[i] = 0
  BY <1>3, <1>5, <1>6
<1>8. sh = [i \in Seats |-> Share(pot, rank, button, i)]
  OBVIOUS
<1>9. \A i \in Seats : sh[i] = Share(pot, rank, button, i)
  OBVIOUS
<1> HIDE DEF sh, q, o
<1>10. SumOver(sh, Seats) = SumOver(q, Seats) + SumOver(o, Seats)
  BY <1>7, SeatsFinite, SumPlus
<1>11. SumOver(q, Seats) = (a \div k) * k
  <2>1. SumOver(q, Seats) = SumOver(q, W)
    BY <1>2, <1>7, SeatsFinite, SumOutside
  <2>2. a \div k \in Int /\ \A i \in W : q[i] = a \div k
    BY <1>2, <1>3, <1>7
  <2>3. SumOver(q, W) = (a \div k) * Cardinality(W)
    BY <1>2, <2>2, SumConstant
  <2> QED BY <2>1, <2>3 DEF k
<1>12. SumOver(o, Seats) = a % k
  <2>1. O \in SUBSET Seats
    BY <1>2, <1>5
  <2>2. SumOver(o, Seats) = SumOver(o, O) /\ IsFiniteSet(O)
    BY <1>7, <2>1, SeatsFinite, SumOutside, FS_Subset
  <2>3. 1 \in Int /\ \A i \in O : o[i] = 1
    BY <1>7, <2>1
  <2>4. SumOver(o, O) = 1 * Cardinality(O)
    BY <2>2, <2>3, SumConstant
  <2> QED BY <1>3, <1>5, <2>2, <2>4
<1>13. SumOver(sh, Seats) = a
  <2>1. (a \div k) * k = k * (a \div k)
    BY <1>2, <1>3
  <2> QED BY <1>3, <1>10, <1>11, <1>12, <2>1
<1>14. ASSUME rank \in Orders, NEW i \in Seats
       PROVE  sh[i] = IF i \in W THEN a ELSE 0
  <2>1. k = 1
    <3>1. PICK e \in W : TRUE
      BY <1>1
    <3>2. W = {e}
      BY <1>1, <1>14, <3>1
    <3> QED BY <3>2, FS_Singleton DEF k
  <2>2. a % k = 0
    BY <1>3, <2>1
  <2>3. a \div k = a
    BY <1>1, <1>3, <2>1, <2>2
  <2>4. O = {}
    <3>1. O \in SUBSET Seats
      BY <1>2, <1>5
    <3>2. IsFiniteSet(O)
      BY <3>1, SeatsFinite, FS_Subset
    <3> QED BY <1>5, <2>2, <3>2, FS_EmptySet
  <2> QED BY <1>1, <1>7, <2>3, <2>4
<1> QED BY <1>1, <1>7, <1>8, <1>9, <1>13, <1>14 DEF W, a

\* A showdown pays out the pots, to players still in; with no two hands equal, what is due
\* at each height to the best of those who compete for it.
LEMMA AwardIs ==
  ASSUME NEW c \in Puts, NEW in \in SUBSET Seats, in # {}, NEW rank \in Ranks, NEW button \in Int
  PROVE  LET a == Award(SidePots(c, in), rank, button)
             top == Max(Levels(c))
             won(i) == {o \in SUBSET Seats : i \in Best(o, rank)}
         IN  /\ a \in [Seats -> Nat] /\ \A i \in Seats \ in : a[i] = 0
             /\ SumOver(a, Seats) = SumOver(c, Seats)
             /\ rank \in Orders =>
                  \A i \in Seats : a[i] = SumOver(DueIn(c, in, won(i), top), 1 .. top)
<1> DEFINE pots == SidePots(c, in)
           n == Len(pots)
           a == Award(pots, rank, button)
           top == Max(Levels(c))
           won(i) == {o \in SUBSET Seats : i \in Best(o, rank)}
           sh(i) == [k \in 1 .. n |-> Share(pots[k], rank, button, i)]
           F == [i \in Seats |-> sh(i)]
           am == [k \in 1 .. n |-> pots[k].amount]
<1>1. /\ pots \in Seq(PotRecords) /\ top \in Nat
      /\ \A k \in 1 .. n : pots[k].open \subseteq in /\ pots[k].open # {}
      /\ Chips(pots, SUBSET Seats) = SumOver(c, Seats)
      /\ \A A : Chips(pots, A) = SumOver(DueIn(c, in, A, top), 1 .. top)
  BY SidePotsAre
<1> HIDE DEF top
<1>2. n \in Nat /\ DOMAIN pots = 1 .. n /\ IsFiniteSet(1 .. n)
  <2> HIDE DEF pots
  <2>1. n \in Nat /\ DOMAIN pots = 1 .. n
    BY <1>1, LenProperties
  <2> QED BY <2>1, FS_Interval
<1>3. \A k \in 1 .. n : pots[k] \in PotRecords /\ pots[k].open # {} /\ pots[k].open \subseteq in
                        /\ pots[k].amount \in Nat /\ pots[k].open \in SUBSET Seats
  <2> HIDE DEF pots
  <2> TAKE k \in 1 .. n
  <2>1. pots[k] \in PotRecords
    BY <1>1, ElementOfSeq
  <2> QED BY <1>1, <2>1 DEF PotRecords
<1>4. a = [i \in Seats |-> SumOver(sh(i), 1 .. n)]
  BY <1>2 DEF Award, Total, SumOver
<1> HIDE DEF pots, n, a
<1>5. \A i \in Seats, k \in 1 .. n : /\ Share(pots[k], rank, button, i) \in Nat
                                     /\ i \notin in => Share(pots[k], rank, button, i) = 0
  BY <1>3, ShareIs
<1>6. a \in [Seats -> Nat]
  <2>1. ASSUME NEW i \in Seats PROVE SumOver(sh(i), 1 .. n) \in Nat
    <3>1. \A k \in 1 .. n : sh(i)[k] \in Nat
      BY <1>5
    <3> HIDE DEF sh
    <3> QED BY <1>2, <3>1, SumNat
  <2> HIDE DEF sh
  <2> QED BY <1>4, <2>1
<1>7. ASSUME NEW i \in Seats \ in PROVE a[i] = 0
  <2>1. \A k \in 1 .. n : sh(i)[k] = 0
    BY <1>5
  <2>2. a[i] = SumOver(sh(i), 1 .. n)
    BY <1>4
  <2> HIDE DEF sh
  <2>3. SumOver(sh(i), 1 .. n) = 0 * Cardinality(1 .. n)
    BY <1>2, <2>1, SumConstant
  <2>4. Cardinality(1 .. n) \in Nat
    BY <1>2, FS_CardinalityType
  <2> QED BY <2>2, <2>3, <2>4
<1>8. Chips(pots, SUBSET Seats) = SumOver(am, 1 .. n)
  <2>1. Worth(pots, SUBSET Seats) = am
    BY <1>2, <1>3 DEF Worth
  <2> QED BY <1>2, <2>1 DEF Chips
<1>9. SumOver(a, Seats) = SumOver(am, 1 .. n)
  <2> DEFINE col == [k \in 1 .. n |-> SumOver([i \in Seats |-> F[i][k]], Seats)]
             row == [i \in Seats |-> SumOver([k \in 1 .. n |-> F[i][k]], 1 .. n)]
  <2>1. \A i \in Seats, k \in 1 .. n : F[i][k] = Share(pots[k], rank, button, i)
    OBVIOUS
  <2>2. \A i \in Seats, k \in 1 .. n : F[i][k] \in Int
    BY <1>5, <2>1
  <2>3. SumOver(row, Seats) = SumOver(col, 1 .. n)
    <3> HIDE DEF F
    <3> QED BY <1>2, <2>2, SeatsFinite, SumSwap, ZenonT(60)
  <2>4. row = a
    <3>1. \A i \in Seats : [k \in 1 .. n |-> F[i][k]] = sh(i)
      OBVIOUS
    <3> HIDE DEF F, sh
    <3> QED BY <1>4, <3>1
  <2>5. col = am
    <3>1. ASSUME NEW k \in 1 .. n
          PROVE  SumOver([i \in Seats |-> F[i][k]], Seats) = pots[k].amount
      <4>1. [i \in Seats |-> F[i][k]] = [i \in Seats |-> Share(pots[k], rank, button, i)]
        BY <2>1
      <4>2. SumOver([i \in Seats |-> Share(pots[k], rank, button, i)], Seats) = pots[k].amount
        BY <1>3, ShareIs
      <4> QED BY <4>1, <4>2
    <3> HIDE DEF F
    <3> QED BY <3>1
  <2> QED BY <2>3, <2>4, <2>5
<1>10. ASSUME rank \in Orders, NEW i \in Seats
       PROVE  a[i] = SumOver(DueIn(c, in, won(i), top), 1 .. top)
  <2>1. \A k \in 1 .. n : sh(i)[k] = IF pots[k].open \in won(i) THEN pots[k].amount ELSE 0
    <3> TAKE k \in 1 .. n
    <3>1. Share(pots[k], rank, button, i) = IF i \in Best(pots[k].open, rank) THEN pots[k].amount ELSE 0
      BY <1>3, <1>10, ShareIs
    <3> QED BY <1>3, <3>1
  <2>2. sh(i) = Worth(pots, won(i))
    BY <1>2, <2>1 DEF Worth
  <2>3. a[i] = SumOver(sh(i), 1 .. n)
    BY <1>4
  <2> HIDE DEF sh, won
  <2> QED BY <1>1, <1>2, <2>2, <2>3 DEF Chips
<1> QED BY <1>1, <1>6, <1>7, <1>8, <1>9, <1>10 DEF pots, a, top

-----------------------------------------------------------------------------
(* The end of a hand *)

Contributions(x) == [i \in Seats |-> Contributed(x, i)]

\* What the seats put in, and who is still in, by the accounts.
LEMMA ContributionsAre ==
  ASSUME NEW x \in TableRecords, Matched(x)
  PROVE  Contributions(x) \in Puts /\ StillIn(x) = InHand(x)
<1>1. ASSUME NEW i \in Seats PROVE Contributed(x, i) \in Nat
  <2>1. CASE DealtAt(x, i) = {}
    BY <2>1 DEF Contributed
  <2>2. CASE DealtAt(x, i) # {}
    <3>1. (CHOOSE u \in DealtAt(x, i) : TRUE) \in DealtAt(x, i)
      BY <2>2
    <3>2. (CHOOSE u \in DealtAt(x, i) : TRUE) \in Users
      BY <3>1 DEF DealtAt
    <3> QED BY <2>2, <3>2, EntryFields DEF Contributed
  <2> QED BY <2>1, <2>2
<1>2. StillIn(x) \subseteq InHand(x)
  BY DEF StillIn, Matched
<1>3. ASSUME NEW i \in InHand(x) PROVE i \in StillIn(x)
  <2> DEFINE u == x.seat[i].user
             e == x.h.entry[u]
  <2>1. u \in Users /\ e.seat = i /\ ~e.out /\ ~e.left /\ i # NoSeat
    BY SeatsAre, WaitingIn DEF Matched
  <2> QED BY <2>1 DEF StillIn
<1> QED BY <1>1, <1>2, <1>3 DEF Contributions, Puts

\* What a hand's end gives the seats: nothing to who is out, and between players what
\* was put in, no more and no less.
LEMMA TakesAre ==
  ASSUME game \in Games, NEW x, Ending(x), NEW takes \in Takes(x)
  PROVE  /\ takes \in [Seats -> Nat]
         /\ \A i \in Seats \ InHand(x) : takes[i] = 0
         /\ game # "house" => SumOver(takes, Seats) = SumOver(Contributions(x), Seats)
<1>1. x \in TableRecords /\ Matched(x) /\ x.button \in Int
  <2>1. x \in TableRecords /\ Matched(x)
    BY DEF Ending
  <2>2. x.button \in Seats \cup {NoSeat}
    BY <2>1 DEF TableRecords
  <2>3. NoSeat \in Int /\ Seats \subseteq Int
    BY SeatsAre DEF NoSeat
  <2>4. x.button \in Int
    BY <2>2, <2>3
  <2> QED BY <2>1, <2>4
<1>2. Contributions(x) \in Puts /\ StillIn(x) = InHand(x) /\ InHand(x) \in SUBSET Seats
  BY <1>1, ContributionsAre, WaitingIn
<1>3. CASE game # "house"
  <2>1. x.end = "showdown" /\ InHand(x) # {}
    BY <1>3 DEF Ending
  <2>2. PICK r \in Ranks : takes = Award(SidePots(Contributions(x), StillIn(x)), r, x.button)
    BY <2>1 DEF Takes, Contributions
  <2> QED BY <1>1, <1>2, <2>1, <2>2, AwardIs
<1>4. CASE game = "house"
  <2>1. x.end = "house"
    BY <1>4 DEF Ending
  <2>2. PICK q \in BOOLEAN, l \in [Seats -> 1 .. 3] : takes = HouseTakes(x, q, l)
    BY <2>1 DEF Takes
  <2>3. Ante \in Nat
    BY PokerAssumption DEF Ante
  <2>4. ASSUME NEW i \in Seats
        PROVE  takes[i] \in Nat /\ (i \notin InHand(x) => takes[i] = 0)
    <3> DEFINE put == Contributed(x, i)
    <3>1. put \in Nat
      BY <1>2 DEF Contributions, Puts
    <3>2. takes[i] = IF i \notin InHand(x) THEN 0
                     ELSE IF ~q THEN 2 * Ante + Max({0, put - Ante})
                     ELSE CASE l[i] = 3 -> 2 * put
                            [] l[i] = 2 -> put
                            [] OTHER -> 0
      BY <2>2 DEF HouseTakes
    <3> HIDE DEF put
    <3>3. Max({0, put - Ante}) \in Nat
      <4>1. put - Ante \in Int
        BY <2>3, <3>1
      <4>2. IsFiniteSet({0, put - Ante})
        <5> DEFINE d == put - Ante
        <5> HIDE DEF d
        <5>1. IsFiniteSet({0} \cup {d})
          BY FS_Singleton, FS_AddElement
        <5>2. {0, d} = {0} \cup {d}
          OBVIOUS
        <5> QED BY <5>1, <5>2 DEF d
      <4>3. Max({0, put - Ante}) \in {0, put - Ante} /\ \A s \in {0, put - Ante} : s <= Max({0, put - Ante})
        <5>1. {0, put - Ante} \in SUBSET Int /\ {0, put - Ante} # {}
          BY <4>1
        <5> QED BY <4>2, <5>1, MaxIs
      <4>4. 0 <= Max({0, put - Ante}) /\ Max({0, put - Ante}) \in Int
        BY <4>1, <4>3
      <4> QED BY <4>4
    <3> DEFINE m == Max({0, put - Ante})
    <3> HIDE DEF m
    <3>4. m \in Nat /\ takes[i] = IF i \notin InHand(x) THEN 0
                                  ELSE IF ~q THEN 2 * Ante + m
                                  ELSE CASE l[i] = 3 -> 2 * put
                                         [] l[i] = 2 -> put
                                         [] OTHER -> 0
      BY <3>2, <3>3 DEF m
    <3>5. CASE i \notin InHand(x)
      BY <3>4, <3>5
    <3>6. CASE i \in InHand(x)
      <4>1. takes[i] \in {2 * Ante + m, 2 * put, put, 0}
        BY <3>4, <3>6
      <4>2. 2 * Ante + m \in Nat /\ 2 * put \in Nat /\ 0 \in Nat
        BY <2>3, <3>1, <3>4
      <4> QED BY <3>1, <3>6, <4>1, <4>2
    <3> QED BY <3>5, <3>6
  <2>5. takes = [i \in Seats |-> takes[i]]
    BY <2>2 DEF HouseTakes
  <2>6. takes \in [Seats -> Nat]
    BY <2>4, <2>5
  <2> QED BY <1>4, <2>4, <2>6
<1> QED BY <1>3, <1>4

\* A sum with one term.
LEMMA SumPoint ==
  ASSUME NEW S, IsFiniteSet(S), NEW e \in S, NEW f, f[e] \in Int, \A x \in S \ {e} : f[x] = 0
  PROVE  SumOver(f, S) = f[e]
<1>1. \A x \in S : f[x] \in Int
  OBVIOUS
<1>2. SumOver(f, S) = f[e] + SumOver(f, S \ {e})
  BY <1>1, SumSplit
<1>3. IsFiniteSet(S \ {e}) /\ Cardinality(S \ {e}) \in Nat
  BY FS_RemoveElement, FS_CardinalityType
<1>4. SumOver(f, S \ {e}) = 0 * Cardinality(S \ {e})
  BY <1>3, SumConstant
<1> QED BY <1>2, <1>3, <1>4

\* What each of D has at its own place of T adds up to what there is at the places.
LEMMA SumAlong ==
  ASSUME NEW S, IsFiniteSet(S), NEW T, IsFiniteSet(T), NEW D \in SUBSET S, NEW p, NEW t,
         \A x \in D : p[x] \in T, \A x, y \in D : p[x] = p[y] => x = y,
         \A i \in T : t[i] \in Int, \A i \in T : t[i] # 0 => \E x \in D : p[x] = i
  PROVE  SumOver([x \in S |-> IF x \in D THEN t[p[x]] ELSE 0], S) = SumOver(t, T)
<1> DEFINE F == [x \in S |-> [i \in T |-> IF x \in D /\ p[x] = i THEN t[i] ELSE 0]]
           row == [x \in S |-> SumOver([i \in T |-> F[x][i]], T)]
           col == [i \in T |-> SumOver([x \in S |-> F[x][i]], S)]
           g == [x \in S |-> IF x \in D THEN t[p[x]] ELSE 0]
<1>1. \A x \in S, i \in T : F[x][i] = IF x \in D /\ p[x] = i THEN t[i] ELSE 0
  OBVIOUS
<1>2. \A x \in S, i \in T : F[x][i] \in Int
  BY <1>1
<1> HIDE DEF F
<1>3. SumOver(row, S) = SumOver(col, T)
  BY <1>2, SumSwap
<1>4. ASSUME NEW x \in S PROVE row[x] = g[x] /\ g[x] \in Int
  <2> DEFINE f == [i \in T |-> F[x][i]]
  <2>1. row[x] = SumOver(f, T) /\ \A i \in T : f[i] = IF x \in D /\ p[x] = i THEN t[i] ELSE 0
    BY <1>1
  <2>2. g[x] = IF x \in D THEN t[p[x]] ELSE 0
    OBVIOUS
  <2> HIDE DEF f, row, g
  <2>3. CASE x \in D
    <3>1. p[x] \in T /\ f[p[x]] = t[p[x]] /\ f[p[x]] \in Int /\ \A i \in T \ {p[x]} : f[i] = 0
      BY <2>1, <2>3
    <3>2. SumOver(f, T) = f[p[x]]
      BY <3>1, SumPoint
    <3> QED BY <2>1, <2>2, <2>3, <3>1, <3>2
  <2>4. CASE x \notin D
    <3>1. SumOver(f, T) = 0 * Cardinality(T)
      BY <2>1, <2>4, SumConstant
    <3>2. Cardinality(T) \in Nat
      BY FS_CardinalityType
    <3> QED BY <2>1, <2>2, <2>4, <3>1, <3>2
  <2> QED BY <2>3, <2>4
<1>5. ASSUME NEW i \in T PROVE col[i] = t[i]
  <2> DEFINE f == [x \in S |-> F[x][i]]
  <2>1. col[i] = SumOver(f, S) /\ \A x \in S : f[x] = IF x \in D /\ p[x] = i THEN t[i] ELSE 0
    BY <1>1
  <2> HIDE DEF f, col
  <2>2. CASE \E x \in D : p[x] = i
    <3>1. PICK e \in D : p[e] = i
      BY <2>2
    <3>2. e \in S /\ f[e] = t[i] /\ f[e] \in Int /\ \A x \in S \ {e} : f[x] = 0
      BY <2>1, <3>1
    <3>3. SumOver(f, S) = f[e]
      BY <3>2, SumPoint
    <3> QED BY <2>1, <3>2, <3>3
  <2>3. CASE ~\E x \in D : p[x] = i
    <3>1. \A x \in S : f[x] = 0
      BY <2>1, <2>3
    <3>2. SumOver(f, S) = 0 * Cardinality(S)
      BY <3>1, SumConstant
    <3>3. Cardinality(S) \in Nat
      BY FS_CardinalityType
    <3> QED BY <2>1, <2>3, <3>2, <3>3
  <2> QED BY <2>2, <2>3
<1>6. row = g /\ col = [i \in T |-> t[i]]
  BY <1>4, <1>5
<1>7. SumOver(col, T) = SumOver(t, T)
  <2>1. \A i \in T : col[i] \in Int /\ col[i] = t[i]
    BY <1>5
  <2> HIDE DEF col
  <2> QED BY <2>1, SumSame
<1> HIDE DEF row, col
<1> QED BY <1>3, <1>6, <1>7

-----------------------------------------------------------------------------
(* The money *)

\* What a player owns apart from what is in the pot, when the wallets are w: the wallet,
\* and what the hand's account has that the wallet has not had yet.
Acc(x, w, u) == w[u] + (x.h.entry[u].chips - x.h.entry[u].written)
Accounts(x, w) == [u \in Users |-> Acc(x, w, u)]
PutIn(x) == [u \in Users |-> x.h.entry[u].contributed]

Live(x, u) == x.h.entry[u].seat # NoSeat /\ ~x.h.entry[u].out /\ ~x.h.entry[u].left

Books(x, w) ==
    /\ w \in [Users -> Nat]
    /\ \A i \in Seats : x.seat[i].user # NoUser => Acc(x, w, x.seat[i].user) = x.seat[i].chips
    /\ \A u \in Users :
          /\ ~Live(x, u) => x.h.entry[u].chips = x.h.entry[u].written
          /\ x.h.entry[u].seat = NoSeat => x.h.entry[u].contributed = 0
    /\ \A u, v \in Users : x.h.entry[u].seat # NoSeat /\ x.h.entry[u].seat = x.h.entry[v].seat
                             => u = v

\* The chips of the players and of the pot.
InPlay(x, w) == SumOver(Accounts(x, w), Users) + SumOver(PutIn(x), Users)

\* Nobody owns less than nothing.
LEMMA AccIs ==
  ASSUME NEW x \in TableRecords, Matched(x), NEW w, Books(x, w), NEW u \in Users
  PROVE  Acc(x, w, u) \in Nat /\ (~Live(x, u) => Acc(x, w, u) = w[u])
<1>1. x.h.entry[u].chips \in Nat /\ x.h.entry[u].written \in Nat /\ w[u] \in Nat
  BY EntryFields DEF Books
<1>2. CASE Live(x, u)
  <2> DEFINE i == x.h.entry[u].seat
  <2>1. i \in InHand(x) /\ x.seat[i].user = u
    BY <1>2 DEF Live, Matched
  <2>2. i \in Seats /\ u # NoUser
    BY <2>1, WaitingIn, PokerAssumption
  <2>3. Acc(x, w, u) = x.seat[i].chips
    BY <2>1, <2>2 DEF Books
  <2> QED BY <1>2, <2>2, <2>3, SeatFields
<1>3. CASE ~Live(x, u)
  BY <1>1, <1>3 DEF Books, Acc
<1> QED BY <1>2, <1>3

\* What was put in is what the seats put in.
LEMMA PutInIs ==
  ASSUME NEW x \in TableRecords, Matched(x), NEW w, Books(x, w)
  PROVE  SumOver(PutIn(x), Users) = SumOver(Contributions(x), Seats)
<1> DEFINE D == {u \in Users : x.h.entry[u].seat # NoSeat}
           p == [u \in Users |-> x.h.entry[u].seat]
           t == Contributions(x)
           g == [u \in Users |-> IF u \in D THEN t[p[u]] ELSE 0]
<1>1. \A u \in D : u \in Users /\ p[u] \in Seats /\ p[u] = x.h.entry[u].seat /\ p[u] # NoSeat
  BY EntryFields
<1>2. \A u, v \in D : p[u] = p[v] => u = v
  BY DEF Books
<1>3. ASSUME NEW u \in D PROVE t[p[u]] = x.h.entry[u].contributed
  <2>1. DealtAt(x, p[u]) = {u}
    BY <1>1 DEF DealtAt, Books
  <2>2. (CHOOSE v \in DealtAt(x, p[u]) : TRUE) = u
    BY <2>1
  <2> HIDE DEF p
  <2> QED BY <1>1, <2>1, <2>2 DEF Contributions, Contributed
<1>4. ASSUME NEW i \in Seats, t[i] # 0 PROVE \E u \in D : p[u] = i
  <2>1. DealtAt(x, i) # {}
    BY <1>4 DEF Contributions, Contributed
  <2>2. PICK u \in Users : x.h.entry[u].seat = i
    BY <2>1 DEF DealtAt
  <2> QED BY <2>2, SeatsAre
<1>5. \A i \in Seats : t[i] \in Int
  BY ContributionsAre DEF Puts
<1>6. SumOver(g, Users) = SumOver(t, Seats)
  <2>1. D \in SUBSET Users /\ IsFiniteSet(Users)
    BY PokerAssumption
  <2>2. \A i \in Seats : t[i] # 0 => \E u \in D : p[u] = i
    BY <1>4
  <2>3. \A u \in D : p[u] \in Seats
    BY <1>1
  <2> HIDE DEF D, p, t
  <2>4. SumOver([u \in Users |-> IF u \in D THEN t[p[u]] ELSE 0], Users) = SumOver(t, Seats)
    BY <1>2, <1>5, <2>1, <2>2, <2>3, SeatsFinite, SumAlong
  <2> QED BY <2>4
<1>7. \A u \in Users : PutIn(x)[u] \in Int /\ PutIn(x)[u] = g[u]
  <2> TAKE u \in Users
  <2>1. PutIn(x)[u] = x.h.entry[u].contributed /\ x.h.entry[u].contributed \in Nat
    BY EntryFields DEF PutIn
  <2>2. CASE u \in D
    BY <1>3, <2>1, <2>2
  <2>3. CASE u \notin D
    BY <2>1, <2>3 DEF Books
  <2> QED BY <2>2, <2>3
<1> HIDE DEF g
<1>8. SumOver(PutIn(x), Users) = SumOver(g, Users)
  BY <1>7, PokerAssumption, SumSame
<1> QED BY <1>6, <1>8

\* A hand's end: what the seats take goes to the wallets and the accounts are closed.
LEMMA SettledIs ==
  ASSUME game \in Games, NEW x, Ending(x), NEW w, Books(x, w), NEW takes \in Takes(x)
  PROVE  LET s == Settled(x, takes)
             v == [u \in Users |-> w[u] + s.paid[u]]
         IN  /\ Rest(s.table) /\ s.table.open /\ Books(s.table, v)
             /\ game # "house" => InPlay(s.table, v) = InPlay(x, w)
<1> DEFINE s == Settled(x, takes)
           v == [u \in Users |-> w[u] + s.paid[u]]
           g == [u \in Users |-> IF Live(x, u) THEN takes[x.h.entry[u].seat] ELSE 0]
           after == Final(x, takes)
           has(c) == Keeps(x, after, c)
           T == [i \in Seats |-> IF x.seat[i].user = NoUser THEN Empty
                                 ELSE [x.seat[i] EXCEPT !.chips = has(x.seat[i]), !.in = FALSE]]
           y == [x EXCEPT !.h = NoHand, !.end = "no", !.seat = T]
<1>1. /\ x \in TableRecords /\ Matched(x) /\ OneSeat(x) /\ x.end # "refund"
      /\ x.open /\ ~x.ticking /\ ~x.late
  BY DEF Ending
<1>2. /\ takes \in [Seats -> Nat] /\ \A i \in Seats \ InHand(x) : takes[i] = 0
      /\ game # "house" => SumOver(takes, Seats) = SumOver(Contributions(x), Seats)
  BY TakesAre
<1>3. s.paid = [u \in Users |-> after[u].chips - after[u].written] /\ s.table = MaybeStart(y)
  BY DEF Settled, Cleared
<1>4. ASSUME NEW u \in Users
      PROVE  /\ after[u].chips = x.h.entry[u].chips + g[u] /\ after[u].seat = x.h.entry[u].seat
             /\ after[u].out = x.h.entry[u].out /\ after[u].left = x.h.entry[u].left
             /\ after[u].written = x.h.entry[u].written
             /\ g[u] \in Nat
  <2> DEFINE e == x.h.entry[u]
  <2>1. e \in EntryRecords /\ e.chips \in Nat /\ e.seat \in Seats \cup {NoSeat}
    BY <1>1, EntryFields
  <2>2. after[u] = IF e.seat = NoSeat THEN e ELSE IF e.out \/ e.left THEN e
                   ELSE [e EXCEPT !.chips = e.chips + takes[e.seat]]
    BY <1>1 DEF Final
  <2>3. g[u] = IF e.seat # NoSeat /\ ~e.out /\ ~e.left THEN takes[e.seat] ELSE 0
    BY DEF Live
  <2> HIDE DEF e, g, after
  <2>4. g[u] \in Nat
    BY <1>2, <2>1, <2>3
  <2>5. CASE e.seat # NoSeat /\ ~e.out /\ ~e.left
    <3>1. after[u] = [e EXCEPT !.chips = e.chips + takes[e.seat]]
      BY <2>2, <2>5
    <3>2. after[u].chips = e.chips + takes[e.seat] /\ after[u].seat = e.seat
          /\ after[u].out = e.out /\ after[u].left = e.left /\ after[u].written = e.written
      BY <2>1, <3>1 DEF EntryRecords
    <3> QED BY <2>3, <2>4, <2>5, <3>2 DEF e
  <2>6. CASE ~(e.seat # NoSeat /\ ~e.out /\ ~e.left)
    <3>1. after[u] = e /\ g[u] = 0
      BY <2>2, <2>3, <2>6
    <3>2. e.chips + 0 = e.chips
      BY <2>1
    <3> QED BY <2>4, <3>1, <3>2 DEF e
  <2> QED BY <2>5, <2>6
<1>5. ASSUME NEW u \in Users
      PROVE  v[u] = Acc(x, w, u) + g[u] /\ v[u] \in Nat /\ Acc(x, w, u) \in Nat /\ g[u] \in Nat
  <2>1. Acc(x, w, u) \in Nat /\ g[u] \in Nat
    BY <1>1, <1>4, AccIs
  <2>2. v[u] = w[u] + (after[u].chips - x.h.entry[u].written)
    BY <1>3, <1>4
  <2>3. w[u] \in Nat /\ x.h.entry[u].chips \in Nat /\ x.h.entry[u].written \in Nat
    BY <1>1, EntryFields DEF Books
  <2>4. after[u].chips = x.h.entry[u].chips + g[u]
    BY <1>4
  <2> HIDE DEF v, g, after
  <2>5. v[u] = Acc(x, w, u) + g[u]
    BY <2>1, <2>2, <2>3, <2>4 DEF Acc
  <2> QED BY <2>1, <2>5
<1> HIDE DEF after, v, g, s
<1>6. ASSUME NEW i \in Seats, x.seat[i].user # NoUser
      PROVE  x.seat[i].user \in Users /\ has(x.seat[i]) = v[x.seat[i].user]
  <2> DEFINE u == x.seat[i].user
             e == x.h.entry[u]
  <2>1. u \in Users
    BY <1>1, <1>6, SeatFields
  <2>2. Acc(x, w, u) = x.seat[i].chips /\ x.seat[i].chips \in Nat
    BY <1>1, <1>6, SeatFields DEF Books
  <2>3. has(x.seat[i]) = IF Live(x, u) THEN e.chips + g[u] ELSE x.seat[i].chips
    <3>1. has(x.seat[i]) = IF after[u].seat = NoSeat \/ after[u].left \/ (after[u].out /\ x.end # "refund")
                           THEN x.seat[i].chips ELSE after[u].chips
      BY DEF Keeps
    <3> HIDE DEF has
    <3> QED BY <1>1, <1>4, <2>1, <3>1 DEF Live
  <2> HIDE DEF has
  <2>4. CASE Live(x, u)
    <3>1. e.seat \in InHand(x) /\ x.seat[e.seat].user = u
      BY <1>1, <2>1, <2>4 DEF Live, Matched
    <3>2. e.seat = i
      BY <1>1, <1>6, <3>1, WaitingIn DEF OneSeat
    <3>3. e.chips = x.seat[i].chips
      BY <1>1, <3>1, <3>2 DEF Matched
    <3> QED BY <1>5, <2>1, <2>2, <2>3, <2>4, <3>3
  <2>5. CASE ~Live(x, u)
    <3>1. g[u] = 0
      BY <2>1, <2>5 DEF g
    <3> QED BY <1>5, <2>1, <2>2, <2>3, <2>5, <3>1
  <2> QED BY <2>1, <2>4, <2>5
<1> HIDE DEF has
<1>7. ASSUME NEW i \in Seats
      PROVE  /\ T[i] \in SeatRecords /\ T[i].user = x.seat[i].user /\ ~T[i].in
             /\ T[i].user # NoUser => T[i].chips = v[T[i].user]
  <2>1. CASE x.seat[i].user = NoUser
    <3>1. T[i] = Empty
      BY <2>1
    <3> QED BY <2>1, <3>1 DEF Empty, SeatRecords
  <2>2. CASE x.seat[i].user # NoUser
    <3> DEFINE c == x.seat[i]
               n == has(x.seat[i])
    <3>1. c.user \in Users /\ n = v[c.user] /\ v[c.user] \in Nat
      BY <1>5, <1>6, <2>2
    <3>2. T[i] = [c EXCEPT !.chips = n, !.in = FALSE] /\ c \in SeatRecords
      BY <1>1, <2>2, SeatFields
    <3> HIDE DEF c, n, T
    <3>3. T[i] \in SeatRecords
      BY <3>1, <3>2, Zenon DEF SeatRecords
    <3>4. T[i].user = c.user /\ T[i].chips = n /\ ~T[i].in
      BY <3>2 DEF SeatRecords
    <3> QED BY <3>1, <3>3, <3>4 DEF c
  <2> QED BY <2>1, <2>2
<1> HIDE DEF T
<1>8. T \in [Seats -> SeatRecords]
  BY <1>7, Zenon DEF T
<1>9. NoHand \in HandRecords
  BY DEF NoHand, NoEntry, HandRecords, EntryRecords
<1>10. /\ y \in TableRecords /\ y.seat = T /\ y.h = NoHand /\ y.end = "no" /\ ~y.ticking /\ ~y.late
       /\ y.open
  BY <1>1, <1>8, <1>9 DEF TableRecords
<1> HIDE DEF y
<1> DEFINE z == MaybeStart(y)
<1>11. /\ z \in TableRecords /\ z.seat = T /\ z.h = NoHand /\ z.end = "no" /\ ~z.ticking /\ ~z.late
       /\ z.open
  BY <1>10 DEF MaybeStart, TableRecords
<1>12. z = s.table
  BY <1>3
<1> HIDE DEF z
<1>13. Rest(z)
  <2>1. InHand(z) = {}
    BY <1>7, <1>11 DEF InHand
  <2>2. OneSeat(z)
    BY <1>1, <1>7, <1>11 DEF OneSeat
  <2> QED BY <1>11, <2>1, <2>2 DEF Rest
<1>14. \A u \in Users : z.h.entry[u] = NoEntry /\ Acc(z, v, u) = v[u]
  <2> TAKE u \in Users
  <2>1. z.h.entry[u] = NoEntry
    BY <1>11 DEF NoHand
  <2> QED BY <1>5, <2>1 DEF Acc, NoEntry
<1>15. Books(z, v)
  <2>1. v \in [Users -> Nat]
    <3>1. v = [u \in Users |-> v[u]]
      BY DEF v
    <3> QED BY <1>5, <3>1
  <2>2. \A i \in Seats : z.seat[i].user # NoUser => Acc(z, v, z.seat[i].user) = z.seat[i].chips
    <3> TAKE i \in Seats
    <3> HAVE z.seat[i].user # NoUser
    <3>1. z.seat[i].user \in Users
      BY <1>11, SeatFields
    <3> QED BY <1>7, <1>11, <1>14, <3>1
  <2>3. \A u \in Users : /\ z.h.entry[u].chips = z.h.entry[u].written
                         /\ z.h.entry[u].contributed = 0 /\ z.h.entry[u].seat = NoSeat
    BY <1>14 DEF NoEntry
  <2> QED BY <2>1, <2>2, <2>3 DEF Books
<1>16. ASSUME game # "house" PROVE InPlay(z, v) = InPlay(x, w)
  <2>1. SumOver(Accounts(z, v), Users) = SumOver(Accounts(x, w), Users) + SumOver(g, Users)
    <3>1. \A u \in Users : /\ Accounts(x, w)[u] \in Int /\ g[u] \in Int
                           /\ Accounts(z, v)[u] = Accounts(x, w)[u] + g[u]
      BY <1>5, <1>14 DEF Accounts
    <3> QED BY <3>1, PokerAssumption, SumPlus
  <2>2. SumOver(g, Users) = SumOver(takes, Seats)
    <3> DEFINE D == {u \in Users : Live(x, u)}
               p == [u \in Users |-> x.h.entry[u].seat]
    <3>1. \A u \in D : u \in Users /\ p[u] \in Seats /\ p[u] # NoSeat /\ p[u] = x.h.entry[u].seat
      BY <1>1, EntryFields DEF Live
    <3>2. \A u, t \in D : p[u] = p[t] => u = t
      BY <3>1 DEF Books
    <3>3. \A i \in Seats : takes[i] \in Int
      BY <1>2
    <3>4. \A i \in Seats : takes[i] # 0 => \E u \in D : p[u] = i
      <4> TAKE i \in Seats
      <4> HAVE takes[i] # 0
      <4>1. i \in InHand(x)
        BY <1>2
      <4>2. LET u == x.seat[i].user
                e == x.h.entry[u]
            IN  u \in Users /\ e.seat = i /\ ~e.out /\ ~e.left
        BY <1>1, <4>1 DEF Matched
      <4>3. i # NoSeat
        BY SeatsAre
      <4> QED BY <4>2, <4>3 DEF Live
    <3>5. D \in SUBSET Users /\ IsFiniteSet(Users)
      BY PokerAssumption
    <3>6. g = [u \in Users |-> IF u \in D THEN takes[p[u]] ELSE 0]
      BY DEF g
    <3>7. \A u \in D : p[u] \in Seats
      BY <3>1
    <3> HIDE DEF D, p
    <3>8. SumOver([u \in Users |-> IF u \in D THEN takes[p[u]] ELSE 0], Users) = SumOver(takes, Seats)
      BY <3>2, <3>3, <3>4, <3>5, <3>7, SeatsFinite, SumAlong
    <3> QED BY <3>6, <3>8
  <2>3. SumOver(takes, Seats) = SumOver(PutIn(x), Users)
    BY <1>1, <1>2, <1>16, PutInIs
  <2>4. SumOver(PutIn(z), Users) = 0
    <3>1. \A u \in Users : PutIn(z)[u] = 0
      BY <1>14 DEF PutIn, NoEntry
    <3>2. SumOver(PutIn(z), Users) = 0 * Cardinality(Users)
      BY <3>1, PokerAssumption, SumConstant
    <3>3. Cardinality(Users) \in Nat
      BY PokerAssumption, FS_CardinalityType
    <3> QED BY <3>2, <3>3
  <2>5. SumOver(Accounts(x, w), Users) \in Int /\ SumOver(PutIn(x), Users) \in Int
    <3>1. \A u \in Users : Accounts(x, w)[u] \in Int /\ PutIn(x)[u] \in Int
      BY <1>1, <1>5, EntryFields DEF Accounts, PutIn
    <3> QED BY <3>1, PokerAssumption, SumInt
  <2> QED BY <2>1, <2>2, <2>3, <2>4, <2>5 DEF InPlay
<1> QED BY <1>11, <1>12, <1>13, <1>15, <1>16 DEF v, s

-----------------------------------------------------------------------------
(* What moves no chips *)

\* The books are of the accounts, the players and their chips.
LEMMA SameBooks ==
  ASSUME NEW x, NEW y, SameChips(x, y), NEW w, Books(x, w)
  PROVE  Books(y, w) /\ InPlay(y, w) = InPlay(x, w)
<1>1. y.h.entry = x.h.entry
  BY DEF SameChips
<1>2. \A u : Acc(y, w, u) = Acc(x, w, u) /\ (Live(y, u) <=> Live(x, u))
  BY <1>1 DEF Acc, Live
<1>3. Books(y, w)
  BY <1>1, <1>2 DEF Books, SameChips
<1>4. Accounts(y, w) = Accounts(x, w) /\ PutIn(y) = PutIn(x)
  BY <1>1, <1>2 DEF Accounts, PutIn
<1> QED BY <1>3, <1>4 DEF InPlay

\* Two moves of no chip are one.
LEMMA SameChipsTrans ==
  ASSUME NEW x, NEW y, NEW z, SameChips(x, y), SameChips(y, z)
  PROVE  SameChips(x, z)
BY DEF SameChips

\* Turns.
LEMMA TurnKeeps ==
  ASSUME NEW x \in TableRecords, NEW i
  PROVE  SameChips(x, SetTurn(x, i)) /\ SameChips(x, NobodyOnTurn(x))
<1>1. /\ SetTurn(x, i).h.entry = x.h.entry /\ SetTurn(x, i).seat = x.seat
      /\ NobodyOnTurn(x).h.entry = x.h.entry /\ NobodyOnTurn(x).seat = x.seat
  BY DEF SetTurn, NobodyOnTurn, TableRecords, HandRecords
<1> QED BY <1>1 DEF SameChips

\* That a hand is over has moved no chip yet.
LEMMA EndsKeeps ==
  ASSUME NEW x \in TableRecords, NEW how
  PROVE  SameChips(x, Ends(x, how))
<1>1. Ends(x, how).h.entry = x.h.entry /\ Ends(x, how).seat = x.seat
  BY DEF Ends, NobodyOnTurn, TableRecords, HandRecords
<1> QED BY <1>1 DEF SameChips

\* A table with nobody on turn is a table.
LEMMA NobodyTyped ==
  ASSUME NEW x \in TableRecords
  PROVE  NobodyOnTurn(x) \in TableRecords
<1>1. NoSeat \in Seats \cup {NoSeat}
  OBVIOUS
<1> QED BY <1>1 DEF NobodyOnTurn, TableRecords, HandRecords

\* Streets.
LEMMA StreetKeeps ==
  ASSUME NEW x \in TableRecords, NEW i
  PROVE  SameChips(x, LaterStreet(x, i))
<1> DEFINE T == [s \in Seats |->
                   [x.seat[s] EXCEPT !.streetBet = 0, !.acted = @ /\ ~x.seat[s].in]]
           y == [x EXCEPT !.h.street = i, !.h.cur = 0, !.h.minRaise = Boot, !.seat = T]
           j == CHOOSE k \in i .. 4 :
                  /\ Street(k) = "showdown" \/ Waiting([y EXCEPT !.h.street = k]) # {}
                  /\ \A l \in i .. k - 1 : Waiting([y EXCEPT !.h.street = l]) = {}
           z == [y EXCEPT !.h.street = j]
           f == FirstToAct(z)
<1>1. LaterStreet(x, i) = IF Street(j) = "showdown"
                          THEN Ends(z, IF game = "house" THEN "house" ELSE "showdown")
                          ELSE SetTurn(z, f)
  BY DEF LaterStreet
<1>2. \A s \in Seats : T[s].user = x.seat[s].user /\ T[s].chips = x.seat[s].chips
  <2> TAKE s \in Seats
  <2>1. x.seat[s] \in SeatRecords
    BY SeatFields
  <2>2. T[s] = [x.seat[s] EXCEPT !.streetBet = 0, !.acted = x.seat[s].acted /\ ~x.seat[s].in]
    BY <2>1 DEF SeatRecords
  <2> HIDE DEF T
  <2> QED BY <2>1, <2>2 DEF SeatRecords
<1> HIDE DEF T, j, f
<1>3. /\ z.seat = T /\ z.h.entry = x.h.entry
      /\ \A h : Ends(z, h).seat = T /\ Ends(z, h).h.entry = x.h.entry
      /\ SetTurn(z, f).seat = T /\ SetTurn(z, f).h.entry = x.h.entry
  BY DEF TableRecords, HandRecords, Ends, NobodyOnTurn, SetTurn
<1> HIDE DEF z
<1>4. LaterStreet(x, i).seat = T /\ LaterStreet(x, i).h.entry = x.h.entry
  BY <1>1, <1>3
<1> QED BY <1>2, <1>4 DEF SameChips

\* Nor does the turn, the end of a street or the end of the hand, until it is settled.
LEMMA AdvanceKeeps ==
  ASSUME NEW x \in TableRecords, NEW i
  PROVE  SameChips(x, AdvanceAfter(x, i)) /\ SameChips(x, EndStreet(x)) /\ SameChips(x, Resolved(x))
<1>1. SameChips(x, EndStreet(x))
  BY TurnKeeps, NobodyTyped, StreetKeeps, SameChipsTrans DEF EndStreet
<1>2. SameChips(x, Resolved(x))
  BY EndsKeeps DEF Resolved
<1> QED BY <1>1, <1>2, TurnKeeps DEF AdvanceAfter

\* Nor what follows a departure.
LEMMA DepartureKeeps ==
  ASSUME NEW x \in TableRecords, NEW i, NEW b
  PROVE  SameChips(x, Departed(x, i, b))
<1>1. SameChips(x, x)
  BY DEF SameChips
<1> QED BY <1>1, AdvanceKeeps DEF Departed

-----------------------------------------------------------------------------
(* What moves chips *)

\* A table and the wallets beside it, between two closures.
Sound(x, w) == (Rest(x) \/ Good(x)) /\ x.open /\ Books(x, w)

\* A closure ends: the hand goes on, or its money has moved and there is none.
LEMMA BecomesIs ==
  ASSUME game \in Games, NEW x, Outcome(x) \/ (Rest(x) /\ x.open), NEW paid, NEW w,
         w = [u \in Users |-> wallet[u] + paid[u]], Books(x, w), Becomes(x, paid)
  PROVE  Sound(table', wallet') /\ (game # "house" => InPlay(table', wallet') = InPlay(x, w))
<1>1. CASE x.end = "no"
  <2>1. table' = x /\ wallet' = w
    BY <1>1 DEF Becomes
  <2>2. ~Ending(x) /\ (Good(x) => x.open)
    BY <1>1 DEF Ending, Good, Playing
  <2>3. Sound(x, w)
    BY <2>2 DEF Outcome, Sound
  <2> QED BY <2>1, <2>3
<1>2. CASE x.end # "no"
  <2>1. Ending(x)
    BY <1>2 DEF Outcome, Good, Playing, Rest
  <2>2. PICK takes \in Takes(x) :
           LET s == Settled(x, takes)
           IN  /\ table' = s.table
               /\ wallet' = [u \in Users |-> wallet[u] + paid[u] + s.paid[u]]
    BY <1>2 DEF Becomes
  <2> DEFINE s == Settled(x, takes)
  <2>3. table' = s.table /\ wallet' = [u \in Users |-> w[u] + s.paid[u]]
    BY <2>2
  <2>4. LET v == [u \in Users |-> w[u] + s.paid[u]]
        IN  /\ Rest(s.table) /\ s.table.open /\ Books(s.table, v)
            /\ game # "house" => InPlay(s.table, v) = InPlay(x, w)
    BY <2>1, SettledIs
  <2> HIDE DEF s
  <2> QED BY <2>3, <2>4 DEF Sound
<1> QED BY <1>1, <1>2

\* What everybody has, with what they have put in.
Own(x, w) == [u \in Users |-> Acc(x, w, u) + x.h.entry[u].contributed]

\* What is in play is just that.
LEMMA InPlayIs ==
  ASSUME NEW x \in TableRecords, Matched(x), NEW w, Books(x, w)
  PROVE  /\ InPlay(x, w) = SumOver(Own(x, w), Users)
         /\ \A u \in Users : Own(x, w)[u] \in Nat
<1>1. \A u \in Users : /\ Accounts(x, w)[u] \in Nat /\ PutIn(x)[u] \in Nat
                       /\ Own(x, w)[u] = Accounts(x, w)[u] + PutIn(x)[u]
  BY AccIs, EntryFields DEF Accounts, PutIn, Own
<1>2. \A u \in Users : Own(x, w)[u] \in Nat
  BY <1>1
<1>3. SumOver(Own(x, w), Users) = SumOver(Accounts(x, w), Users) + SumOver(PutIn(x), Users)
  BY <1>1, PokerAssumption, SumPlus
<1> QED BY <1>2, <1>3 DEF InPlay

\* A step that changes nobody's total keeps what is in play.
LEMMA InPlaySame ==
  ASSUME NEW x \in TableRecords, Matched(x), NEW w, Books(x, w),
         NEW y \in TableRecords, Matched(y), NEW v, Books(y, v),
         \A u \in Users : Own(y, v)[u] = Own(x, w)[u]
  PROVE  InPlay(y, v) = InPlay(x, w)
<1>1. SumOver(Own(y, v), Users) = SumOver(Own(x, w), Users)
  <2>1. \A u \in Users : Own(y, v)[u] \in Int /\ Own(y, v)[u] = Own(x, w)[u]
    BY InPlayIs
  <2> QED BY <2>1, PokerAssumption, SumSame
<1> QED BY <1>1, InPlayIs

\* A stake.
LEMMA StakeBooks ==
  ASSUME NEW x, Playing(x), NEW i \in InHand(x), NEW amount \in Nat, NEW w, Books(x, w),
         Matched(Stake(x, i, amount))
  PROVE  Books(Stake(x, i, amount), w) /\ InPlay(Stake(x, i, amount), w) = InPlay(x, w)
<1> DEFINE u == x.seat[i].user
           y == Stake(x, i, amount)
           n == Least(amount, x.seat[i].chips)
<1>1. /\ n \in Nat /\ u \in Users /\ i \in Seats /\ y \in TableRecords
      /\ \A s \in Seats \ {i} : y.seat[s] = x.seat[s]
      /\ y.seat[i].user = u /\ y.seat[i].chips = x.seat[i].chips - n
      /\ \A v \in Users \ {u} : y.h.entry[v] = x.h.entry[v]
      /\ y.h.entry[u].seat = x.h.entry[u].seat
      /\ y.h.entry[u].out = x.h.entry[u].out /\ y.h.entry[u].left = x.h.entry[u].left
      /\ y.h.entry[u].written = x.h.entry[u].written
      /\ y.h.entry[u].chips = x.seat[i].chips - n
      /\ y.h.entry[u].contributed = x.h.entry[u].contributed + n
  <2>1. /\ n \in Nat /\ u \in Users /\ i \in Seats /\ y \in TableRecords
        /\ \A s \in Seats \ {i} : y.seat[s] = x.seat[s]
        /\ y.seat[i].user = u /\ y.seat[i].chips = x.seat[i].chips - n
        /\ \A v \in Users \ {u} : y.h.entry[v] = x.h.entry[v]
    BY StakeFields
  <2>4. y.h.entry[u].out = x.h.entry[u].out
    BY StakeFields
  <2>5. y.h.entry[u].left = x.h.entry[u].left
    BY StakeFields
  <2>2. /\ y.h.entry[u].seat = x.h.entry[u].seat
        /\ y.h.entry[u].chips = x.seat[i].chips - n
        /\ y.h.entry[u].contributed = x.h.entry[u].contributed + n
    BY StakeFields
  <2>3. y.h.entry[u].written = x.h.entry[u].written
    BY StakeFields
  <2> QED BY <2>1, <2>2, <2>3, <2>4, <2>5, Zenon
<1>0. Matched(y)
  OBVIOUS
<1> HIDE DEF n, y
<1>2. x \in TableRecords /\ OneSeat(x) /\ Matched(x)
  BY DEF Playing
<1>3. Live(x, u) /\ x.h.entry[u].chips = x.seat[i].chips
  <2>1. LET e == x.h.entry[u]
        IN  e.seat = i /\ ~e.out /\ ~e.left /\ e.chips = x.seat[i].chips
    BY <1>2 DEF Matched
  <2> QED BY <1>1, <2>1, SeatsAre DEF Live
<1>4. /\ x.h.entry[u].written \in Nat /\ x.seat[i].chips \in Nat /\ w[u] \in Nat
      /\ x.h.entry[u].contributed \in Nat
  BY <1>1, <1>2, EntryFields, SeatFields, Zenon DEF Books
<1>5. u # NoUser
  BY <1>1, PokerAssumption
<1>6. Acc(x, w, u) = x.seat[i].chips /\ Acc(y, w, u) = y.seat[i].chips
  <2>1. Acc(x, w, u) = x.seat[i].chips
    BY <1>1, <1>5, Zenon DEF Books
  <2>2. Acc(y, w, u) = Acc(x, w, u) - n
    <3>1. /\ y.h.entry[u].chips = x.seat[i].chips - n /\ n \in Nat
          /\ y.h.entry[u].written = x.h.entry[u].written
      BY <1>1
    <3> HIDE DEF u
    <3> QED BY <1>3, <1>4, <3>1 DEF Acc
  <2> QED BY <1>1, <2>1, <2>2
<1>7. \A v \in Users \ {u} : Acc(y, w, v) = Acc(x, w, v) /\ (Live(y, v) <=> Live(x, v))
  BY <1>1 DEF Acc, Live
<1>8. Live(y, u)
  BY <1>1, <1>3, Zenon DEF Live
<1>9. Books(y, w)
  <2>1. ASSUME NEW s \in Seats, y.seat[s].user # NoUser
        PROVE  Acc(y, w, y.seat[s].user) = y.seat[s].chips
    <3>1. CASE s = i
      BY <1>1, <1>6, <3>1
    <3>2. CASE s # i
      <4>1. y.seat[s] = x.seat[s] /\ x.seat[s].user # u
        BY <1>1, <1>2, <1>5, <2>1, <3>2, Zenon DEF OneSeat
      <4>2. x.seat[s].user \in Users \ {u}
        BY <1>2, <2>1, <4>1, SeatFields
      <4> QED BY <1>7, <2>1, <4>1, <4>2 DEF Books
    <3> QED BY <3>1, <3>2
  <2>2. \A v \in Users :
          /\ ~Live(y, v) => y.h.entry[v].chips = y.h.entry[v].written
          /\ y.h.entry[v].seat = NoSeat => y.h.entry[v].contributed = 0
    BY <1>1, <1>3, <1>7, <1>8, ZenonT(60) DEF Books, Live
  <2>3. \A v \in Users : y.h.entry[v].seat = x.h.entry[v].seat
    BY <1>1
  <2> QED BY <2>1, <2>2, <2>3 DEF Books
<1>10. \A v \in Users : Own(y, w)[v] = Own(x, w)[v]
  <2>1. Own(y, w)[u] = Own(x, w)[u]
    <3>1. /\ y.h.entry[u].contributed = x.h.entry[u].contributed + n /\ n \in Nat
          /\ y.seat[i].chips = x.seat[i].chips - n /\ u \in Users
      BY <1>1
    <3> HIDE DEF u
    <3> QED BY <1>4, <1>6, <3>1 DEF Own
  <2>2. \A v \in Users \ {u} : Own(y, w)[v] = Own(x, w)[v]
    BY <1>1, <1>7 DEF Own
  <2> QED BY <2>1, <2>2
<1> QED BY <1>0, <1>1, <1>2, <1>9, <1>10, InPlaySame DEF y

\* A player out of the hand has their account in the wallet.
LEMMA OutBooks ==
  ASSUME NEW x, Playing(x), NEW i \in InHand(x), NEW w, Books(x, w), NEW y, Out(x, y, i),
         NEW v, v = [t \in Users |-> w[t] + Owed(x, x.seat[i].user)[t]]
  PROVE  Books(y, v) /\ InPlay(y, v) = InPlay(x, w)
<1> DEFINE u == x.seat[i].user
<1>1. /\ u \in Users /\ i \in Seats /\ y \in TableRecords
      /\ \A s \in Seats \ {i} : y.seat[s] = x.seat[s]
      /\ y.seat[i].user \in {u, NoUser}
      /\ y.seat[i].user # NoUser => y.seat[i].chips = x.seat[i].chips
      /\ \A t \in Users \ {u} : y.h.entry[t] = x.h.entry[t]
      /\ y.h.entry[u].seat = x.h.entry[u].seat
      /\ y.h.entry[u].out \/ y.h.entry[u].left
      /\ y.h.entry[u].chips = x.h.entry[u].chips
      /\ y.h.entry[u].written = x.h.entry[u].chips
      /\ y.h.entry[u].contributed = x.h.entry[u].contributed
  BY WaitingIn, Zenon DEF Out, Playing, Matched
<1>2. x \in TableRecords /\ OneSeat(x) /\ Matched(x) /\ Matched(y)
  BY OutIs DEF Playing
<1>3. u # NoUser
  BY <1>1, PokerAssumption
<1>4. v[u] = Acc(x, w, u) /\ \A t \in Users \ {u} : v[t] = w[t]
  <2>1. Owed(x, u)[u] = x.h.entry[u].chips - x.h.entry[u].written
    BY <1>1, Zenon DEF Owed, Nothing
  <2>2. \A t \in Users \ {u} : Owed(x, u)[t] = 0
    BY <1>1, Zenon DEF Owed, Nothing
  <2>3. \A t \in Users : w[t] \in Nat
    BY DEF Books
  <2>4. \A t \in Users : v[t] = w[t] + Owed(x, u)[t]
    OBVIOUS
  <2>5. v[u] = w[u] + (x.h.entry[u].chips - x.h.entry[u].written)
    BY <1>1, <2>1, <2>4, Zenon
  <2>6. \A t \in Users \ {u} : v[t] = w[t] + 0
    BY <2>2, <2>4
  <2>7. \A t \in Users \ {u} : v[t] = w[t]
    BY <2>3, <2>6
  <2> QED BY <2>5, <2>7 DEF Acc
<1>5. v \in [Users -> Nat]
  <2>1. \A t \in Users : w[t] \in Nat
    BY DEF Books
  <2>2. Acc(x, w, u) \in Nat
    BY <1>1, <1>2, AccIs, Zenon
  <2>3. \A t \in Users : v[t] \in Nat
    BY <1>4, <2>1, <2>2
  <2>4. v = [t \in Users |-> v[t]]
    OBVIOUS
  <2> HIDE DEF u
  <2> QED BY <2>3, <2>4
<1>6. \A t \in Users : Acc(y, v, t) = Acc(x, w, t)
  <2>1. Acc(y, v, u) = Acc(x, w, u)
    <3>1. x.h.entry[u].chips \in Nat /\ v[u] \in Nat
      BY <1>1, <1>2, <1>5, EntryFields, Zenon
    <3>2. y.h.entry[u].chips = x.h.entry[u].chips /\ y.h.entry[u].written = x.h.entry[u].chips
      BY <1>1
    <3>3. Acc(y, v, u) = v[u] + (x.h.entry[u].chips - x.h.entry[u].chips)
      BY <3>2 DEF Acc
    <3>4. Acc(y, v, u) = v[u]
      <4> HIDE DEF u
      <4> QED BY <3>1, <3>3
    <3> QED BY <1>4, <3>4
  <2>2. \A t \in Users \ {u} : Acc(y, v, t) = Acc(x, w, t)
    BY <1>1, <1>4, Zenon DEF Acc
  <2> QED BY <2>1, <2>2
<1>7. Books(y, v)
  <2>1. ASSUME NEW s \in Seats, y.seat[s].user # NoUser
        PROVE  Acc(y, v, y.seat[s].user) = y.seat[s].chips
    <3>1. /\ y.seat[s].user = x.seat[s].user /\ y.seat[s].chips = x.seat[s].chips
          /\ x.seat[s].user \in Users
      BY <1>1, <1>2, <2>1, SeatFields, Zenon
    <3> QED BY <1>6, <2>1, <3>1 DEF Books
  <2>2. \A t \in Users :
          /\ ~Live(y, t) => y.h.entry[t].chips = y.h.entry[t].written
          /\ y.h.entry[t].seat = NoSeat => y.h.entry[t].contributed = 0
    <3>1. \A t \in Users \ {u} : (Live(y, t) <=> Live(x, t)) /\ y.h.entry[t] = x.h.entry[t]
      BY <1>1 DEF Live
    <3>2. y.h.entry[u].chips = y.h.entry[u].written
      BY <1>1
    <3>3. y.h.entry[u].seat = NoSeat => y.h.entry[u].contributed = 0
      BY <1>1, Zenon DEF Books
    <3>4. \A t \in Users \ {u} :
            /\ ~Live(y, t) => y.h.entry[t].chips = y.h.entry[t].written
            /\ y.h.entry[t].seat = NoSeat => y.h.entry[t].contributed = 0
      BY <3>1 DEF Books
    <3> QED BY <3>2, <3>3, <3>4
  <2>3. \A t \in Users : y.h.entry[t].seat = x.h.entry[t].seat
    BY <1>1
  <2> QED BY <1>5, <2>1, <2>2, <2>3 DEF Books
<1>8. \A t \in Users : Own(y, v)[t] = Own(x, w)[t]
  <2>1. \A t \in Users : y.h.entry[t].contributed = x.h.entry[t].contributed
    BY <1>1, Zenon
  <2> QED BY <1>6, <2>1 DEF Own
<1>9. y \in TableRecords
  BY <1>1, Zenon
<1> HIDE DEF u
<1>10. InPlay(y, v) = InPlay(x, w)
  BY <1>2, <1>7, <1>8, <1>9, InPlaySame, ZenonT(60)
<1> QED BY <1>7, <1>10

-----------------------------------------------------------------------------
(* The actions of a hand *)

\* A step keeps the table sound and, between players, what is in play.
Kept ==
    /\ Sound(table', wallet')
    /\ game # "house" => InPlay(table', wallet') = InPlay(table, wallet)

\* A closure that pays nothing.
LEMMA PaidNothing ==
  ASSUME NEW w \in [Users -> Nat]
  PROVE  w = [u \in Users |-> w[u] + Nothing[u]]
<1>1. \A u \in Users : w[u] + Nothing[u] = w[u]
  BY DEF Nothing
<1> QED BY <1>1

\* Whose turn it is is in a hand that is played.
LEMMA OnTurnIs ==
  ASSUME Sound(table, wallet), NEW i \in Seats, OnTurn(i)
  PROVE  /\ Good(table) /\ Playing(table) /\ i \in InHand(table) /\ wallet \in [Users -> Nat]
         /\ table \in TableRecords /\ Books(table, wallet) /\ InHand(table) # {}
<1>1. Good(table)
  BY DEF Sound, OnTurn, Rest, NoHand
<1> QED BY <1>1 DEF Sound, Good, Playing, OnTurn, InHand, Books

\* An action is in, and the turn passes on.
LEMMA TurnOver ==
  ASSUME game \in Games, NEW x, Playing(x), game # "house" => InHand(x) # {}, NEW i \in Seats,
         NEW paid, NEW w, w = [u \in Users |-> wallet[u] + paid[u]], Books(x, w),
         InPlay(x, w) = InPlay(table, wallet), Becomes(AdvanceAfter(x, i), paid)
  PROVE  Kept
<1> DEFINE y == AdvanceAfter(x, i)
<1>1. Outcome(y)
  BY AdvanceIs
<1>2. Books(y, w) /\ InPlay(y, w) = InPlay(x, w)
  <2>1. SameChips(x, y)
    BY AdvanceKeeps DEF Playing
  <2> HIDE DEF y
  <2> QED BY <2>1, SameBooks
<1>3. Becomes(y, paid)
  OBVIOUS
<1> HIDE DEF y
<1>4. Sound(table', wallet') /\ (game # "house" => InPlay(table', wallet') = InPlay(y, w))
  BY <1>1, <1>2, <1>3, BecomesIs
<1> QED BY <1>2, <1>4 DEF Kept

\* An action without a bet.
LEMMA NoBetKeeps ==
  ASSUME game \in Games, Sound(table, wallet), NEW i \in Seats, OnTurn(i),
         Becomes(AdvanceAfter(Acted(table, i), i), Nothing)
  PROVE  Kept
<1>1. /\ Playing(table) /\ wallet \in [Users -> Nat] /\ table \in TableRecords
      /\ Books(table, wallet) /\ InHand(table) # {}
  BY OnTurnIs
<1>2. Playing(Acted(table, i)) /\ InHand(Acted(table, i)) # {}
  BY <1>1, ActedIs
<1>3. Books(Acted(table, i), wallet) /\ InPlay(Acted(table, i), wallet) = InPlay(table, wallet)
  BY <1>1, ActedKeeps, SameBooks
<1>4. wallet = [u \in Users |-> wallet[u] + Nothing[u]]
  BY <1>1, PaidNothing
<1> QED BY <1>2, <1>3, <1>4, TurnOver

\* Check and Draw.
LEMMA CheckKeeps ==
  ASSUME game \in Games, Sound(table, wallet), NEW i \in Seats, Check(i) \/ Draw(i)
  PROVE  Kept
BY NoBetKeeps DEF Check, Draw

\* A stake and the turn passes on.
LEMMA StakedKeeps ==
  ASSUME game \in Games, Sound(table, wallet), NEW i \in Seats, OnTurn(i), NEW amount \in Nat,
         game # "house" => table.seat[i].streetBet + amount <= table.h.cur,
         Becomes(AdvanceAfter(Acted(Stake(table, i, amount), i), i), Nothing)
  PROVE  Kept
<1> DEFINE y == Stake(table, i, amount)
<1>1. /\ Playing(table) /\ wallet \in [Users -> Nat] /\ table \in TableRecords
      /\ i \in InHand(table) /\ Books(table, wallet) /\ InHand(table) # {}
  BY OnTurnIs
<1>2. Playing(y) /\ InHand(y) # {}
  BY <1>1, StakeIs
<1>3. Books(y, wallet) /\ InPlay(y, wallet) = InPlay(table, wallet)
  <2>1. Matched(Stake(table, i, amount))
    BY <1>2 DEF Playing
  <2> QED BY <1>1, <2>1, StakeBooks
<1>4. Becomes(AdvanceAfter(Acted(y, i), i), Nothing)
  OBVIOUS
<1> HIDE DEF y
<1>5. Playing(Acted(y, i)) /\ InHand(Acted(y, i)) # {}
  BY <1>2, ActedIs
<1>6. Books(Acted(y, i), wallet) /\ InPlay(Acted(y, i), wallet) = InPlay(table, wallet)
  BY <1>2, <1>3, ActedKeeps, SameBooks DEF Playing
<1>7. wallet = [u \in Users |-> wallet[u] + Nothing[u]]
  BY <1>1, PaidNothing
<1> QED BY <1>4, <1>5, <1>6, <1>7, TurnOver

\* A call asks for no more than the street's bet.
LEMMA CallKeeps ==
  ASSUME game \in Games, Sound(table, wallet), NEW i \in Seats, Call(i)
  PROVE  Kept
<1> DEFINE amount == ToCall(table, i)
<1>1. OnTurn(i) /\ amount > 0 /\ Becomes(AdvanceAfter(Acted(Stake(table, i, amount), i), i), Nothing)
  BY DEF Call
<1>2. table \in TableRecords
  BY <1>1, OnTurnIs
<1>3. amount \in Nat /\ table.seat[i].streetBet + amount <= table.h.cur
  <2>1. table.h.cur \in Nat /\ table.seat[i].streetBet \in Nat
    BY <1>2, SeatFields, HandFields
  <2> QED BY <1>1, <2>1 DEF ToCall
<1> HIDE DEF amount
<1> QED BY <1>1, <1>3, StakedKeeps

\* Against the house alone: a player plays on.
LEMMA PlayKeeps ==
  ASSUME game \in Games, Sound(table, wallet), NEW i \in Seats, Play(i)
  PROVE  Kept
<1>1. /\ OnTurn(i) /\ Here(table) = "decision"
      /\ Becomes(AdvanceAfter(Acted(Stake(table, i, Ante), i), i), Nothing)
  BY DEF Play
<1>2. game = "house"
  <2>1. Playing(table)
    BY <1>1, OnTurnIs
  <2> QED BY <1>1, <2>1, StreetsAre DEF Playing, Here
<1>3. Ante \in Nat
  BY PokerAssumption DEF Ante
<1> HIDE DEF Ante
<1> QED BY <1>1, <1>2, <1>3, StakedKeeps

\* A bet and a raise set it to what the player then has on the street.
LEMMA BetKeeps ==
  ASSUME game \in Games, Sound(table, wallet), NEW i \in Seats, Bet(i)
  PROVE  Kept
<1>1. PICK bet \in BetTo(table, i) : Becomes(AdvanceAfter(RaisedTo(table, i, bet), i), Nothing)
  BY DEF Bet
<1>2. OnTurn(i) /\ Here(table) = "betting"
  BY DEF Bet
<1>3. /\ Playing(table) /\ wallet \in [Users -> Nat] /\ table \in TableRecords
      /\ i \in InHand(table) /\ Books(table, wallet) /\ InHand(table) # {}
  BY <1>2, OnTurnIs
<1> DEFINE n == bet - table.seat[i].streetBet
           s == Stake(table, i, n)
           y == RaisedTo(table, i, bet)
<1>4. Playing(y) /\ InHand(y) # {} /\ n \in Nat /\ SameChips(s, y) /\ Matched(s)
  BY <1>2, <1>3, RaisedIs
<1>5. Books(s, wallet) /\ InPlay(s, wallet) = InPlay(table, wallet)
  <2> HIDE DEF n
  <2> QED BY <1>3, <1>4, StakeBooks
<1> HIDE DEF s, y, n
<1>6. Books(y, wallet) /\ InPlay(y, wallet) = InPlay(table, wallet)
  BY <1>4, <1>5, SameBooks
<1>7. wallet = [u \in Users |-> wallet[u] + Nothing[u]]
  BY <1>3, PaidNothing
<1>8. Becomes(AdvanceAfter(y, i), Nothing)
  BY <1>1 DEF y
<1> QED BY <1>4, <1>6, <1>7, <1>8, TurnOver

\* A fold, of the player on turn.
LEMMA FoldedKeeps ==
  ASSUME game \in Games, NEW x, Playing(x), Enough(x), NEW i \in InHand(x), Books(x, wallet),
         InPlay(x, wallet) = InPlay(table, wallet),
         Becomes(AdvanceAfter(Folded(x, i), i), Owed(x, x.seat[i].user))
  PROVE  Kept
<1> DEFINE y == Folded(x, i)
           paid == Owed(x, x.seat[i].user)
           w == [u \in Users |-> wallet[u] + paid[u]]
<1>1. i \in Seats
  BY WaitingIn
<1>2. Out(x, y, i)
  BY <1>1, FoldedIs
<1>3. Becomes(AdvanceAfter(y, i), paid)
  OBVIOUS
<1> HIDE DEF y
<1>4. Playing(y) /\ (game # "house" => InHand(y) # {})
  <2>1. Playing(y) /\ InHand(y) = InHand(x) \ {i}
    BY <1>1, <1>2, OutIs
  <2>2. game # "house" => InHand(x) \ {i} # {}
    BY <1>1, OthersStay
  <2> QED BY <2>1, <2>2
<1>5. Books(y, w) /\ InPlay(y, w) = InPlay(table, wallet)
  <2>1. w = [t \in Users |-> wallet[t] + Owed(x, x.seat[i].user)[t]]
    OBVIOUS
  <2> HIDE DEF w
  <2> QED BY <1>1, <1>2, <2>1, OutBooks
<1>6. w = [u \in Users |-> wallet[u] + paid[u]]
  OBVIOUS
<1> HIDE DEF w, paid
<1> QED BY <1>1, <1>3, <1>4, <1>5, <1>6, TurnOver

\* A fold writes the player's stake to their wallet.
LEMMA FoldKeeps ==
  ASSUME game \in Games, Sound(table, wallet), NEW i \in Seats, Fold(i)
  PROVE  Kept
<1>1. OnTurn(i) /\ Becomes(AdvanceAfter(Folded(table, i), i), Owed(table, table.seat[i].user))
  BY DEF Fold
<1>2. Good(table) /\ Playing(table) /\ i \in InHand(table) /\ Books(table, wallet)
  BY <1>1, OnTurnIs
<1>3. Enough(table)
  BY <1>2 DEF Good
<1> QED BY <1>1, <1>2, <1>3, FoldedKeeps

\* The table with its clock stopped or run out.
LEMMA ClockIs ==
  ASSUME Sound(table, wallet), NEW x \in TableRecords, x.seat = table.seat, x.h = table.h,
         SameTable(table, x), x.button = table.button
  PROVE  /\ Playing(table) => Playing(x)
         /\ InHand(x) = InHand(table) /\ Waiting(x) = Waiting(table)
         /\ Good(table) /\ (x.ticking \/ x.late) => Good(x)
         /\ Books(x, wallet) /\ InPlay(x, wallet) = InPlay(table, wallet)
<1>1. InHand(x) = InHand(table) /\ Waiting(x) = Waiting(table)
  BY WaitingSame
<1>2. Playing(table) => Playing(x)
  <2>1. \A s \in Seats : SameSeat(table, x, s)
    BY DEF SameSeat
  <2> QED BY <2>1, PlayingSame
<1>3. Good(table) /\ (x.ticking \/ x.late) => Good(x)
  BY <1>1, <1>2 DEF Good, Enough
<1>4. Books(x, wallet) /\ InPlay(x, wallet) = InPlay(table, wallet)
  <2>1. SameChips(table, x)
    BY DEF SameChips
  <2> QED BY <2>1, SameBooks DEF Sound
<1> QED BY <1>1, <1>2, <1>3, <1>4

\* A turn that runs out checks, draws nothing or folds.
LEMMA TimeoutKeeps ==
  ASSUME game \in Games, Sound(table, wallet), TurnTimeout
  PROVE  Kept
<1> DEFINE i == table.h.turn
           x == [table EXCEPT !.late = FALSE]
           z == [table EXCEPT !.late = FALSE, !.ticking = TRUE]
<1>1. /\ table.late
      /\ \/ Becomes(AdvanceAfter(Acted(x, i), i), Nothing)
         \/ Becomes(AdvanceAfter(Folded(x, i), i), Owed(x, table.seat[i].user))
  BY DEF TurnTimeout
<1>2. Good(table) /\ Playing(table) /\ table \in TableRecords /\ wallet \in [Users -> Nat]
  BY <1>1 DEF Sound, Rest, Good, Playing, Books
<1>3. i \in InHand(table) /\ i \in Seats /\ Enough(table) /\ InHand(table) # {}
  BY <1>2, WaitingIn DEF Good
<1>4. /\ x \in TableRecords /\ x.seat = table.seat /\ x.h = table.h
      /\ SameTable(table, x) /\ x.button = table.button
  BY <1>2 DEF TableRecords, SameTable
<1> HIDE DEF x, i
<1>5. /\ Playing(x) /\ InHand(x) = InHand(table)
      /\ Books(x, wallet) /\ InPlay(x, wallet) = InPlay(table, wallet)
  BY <1>2, <1>4, ClockIs
<1>6. CASE Becomes(AdvanceAfter(Acted(x, i), i), Nothing)
  <2>1. Playing(Acted(x, i)) /\ InHand(Acted(x, i)) # {}
    BY <1>3, <1>5, ActedIs
  <2>2. Books(Acted(x, i), wallet) /\ InPlay(Acted(x, i), wallet) = InPlay(table, wallet)
    BY <1>3, <1>4, <1>5, ActedKeeps, SameBooks
  <2>3. wallet = [u \in Users |-> wallet[u] + Nothing[u]]
    BY <1>2, PaidNothing
  <2> QED BY <1>3, <1>6, <2>1, <2>2, <2>3, TurnOver
<1>7. CASE Becomes(AdvanceAfter(Folded(x, i), i), Owed(x, table.seat[i].user))
  <2>1. Enough(x)
    BY <1>3, <1>5 DEF Enough
  <2> QED BY <1>3, <1>4, <1>5, <1>7, <2>1, FoldedKeeps
<1> QED BY <1>1, <1>6, <1>7

-----------------------------------------------------------------------------
(* Coming and going *)

\* A seat out of the hand is taken, left or changed: the hand goes on.
LEMMA AsideIs ==
  ASSUME NEW x, Rest(x) \/ Good(x), NEW i \in Seats \ InHand(x), NEW c \in SeatRecords, ~c.in,
         c.user # NoUser => \A s \in Seats \ {i} : x.seat[s].user # c.user,
         NEW y \in TableRecords, y.seat = [x.seat EXCEPT ![i] = c], y.h = x.h,
         y.open = x.open, y.end = x.end, y.ticking = x.ticking, y.late = x.late,
         Good(x) => y.starting = x.starting
  PROVE  /\ Good(x) => Good(y)
         /\ Rest(x) => Rest(y)
<1>1. x \in TableRecords /\ OneSeat(x) /\ x.seat \in [Seats -> SeatRecords]
  BY DEF Rest, Good, Playing, TableRecords
<1>2. y.seat[i] = c /\ \A s \in Seats \ {i} : y.seat[s] = x.seat[s]
  BY <1>1
<1>3. InHand(y) = InHand(x)
  BY <1>2 DEF InHand
<1>4. \A s \in InHand(x) : s \in Seats /\ y.seat[s] = x.seat[s]
  BY <1>2, WaitingIn
<1>5. CanAct(y) = CanAct(x)
  BY <1>3, <1>4 DEF CanAct
<1>6. NeedsAction(y) = NeedsAction(x)
  BY <1>4, <1>5, WaitingIn DEF NeedsAction
<1>7. Undecided(y) = Undecided(x)
  BY <1>3, <1>4 DEF Undecided
<1>8. Here(y) = Here(x)
  BY DEF Here
<1>9. {s \in CanAct(y) : y.seat[s].streetBet < y.h.cur} = {s \in CanAct(x) : x.seat[s].streetBet < x.h.cur}
  BY <1>4, <1>5, WaitingIn
<1>10. Waiting(y) = Waiting(x)
  BY <1>3, <1>5, <1>6, <1>7, <1>8, <1>9 DEF Waiting
<1>11. OneSeat(y)
  BY <1>1, <1>2 DEF OneSeat
<1>12. ASSUME Good(x) PROVE Good(y)
  <2>1. Matched(x) /\ Even(x) /\ Playing(x)
    BY <1>12 DEF Good, Playing
  <2>2. Matched(y)
    <3>1. ASSUME NEW s \in InHand(y)
          PROVE  LET u == y.seat[s].user
                     e == y.h.entry[u]
                 IN  u \in Users /\ e.seat = s /\ ~e.out /\ ~e.left /\ e.chips = y.seat[s].chips
      <4>1. LET u == x.seat[s].user
                e == x.h.entry[u]
            IN  u \in Users /\ e.seat = s /\ ~e.out /\ ~e.left /\ e.chips = x.seat[s].chips
        BY <1>3, <2>1 DEF Matched
      <4> QED BY <1>3, <1>4, <4>1
    <3>2. ASSUME NEW u \in Users, x.h.entry[u].seat # NoSeat, ~x.h.entry[u].out, ~x.h.entry[u].left
          PROVE  x.h.entry[u].seat \in InHand(y) /\ y.seat[x.h.entry[u].seat].user = u
      <4>1. x.h.entry[u].seat \in InHand(x) /\ x.seat[x.h.entry[u].seat].user = u
        BY <2>1, <3>2 DEF Matched
      <4> QED BY <1>3, <1>4, <4>1
    <3> QED BY <3>1, <3>2 DEF Matched
  <2>3. \A s \in InHand(x) : Collected(y, s) = Collected(x, s)
    BY <1>4 DEF Collected
  <2>4. Even(y)
    <3>1. \A p \in CanAct(y), q \in InHand(y) : Collected(y, q) <= Collected(y, p)
      BY <1>3, <1>5, <2>1, <2>3, WaitingIn DEF Even
    <3>2. game # "house" => \A q \in InHand(y) : y.seat[q].streetBet <= y.h.cur
      BY <1>3, <1>4, <2>1 DEF Even
    <3> QED BY <1>8, <2>1, <3>1, <3>2 DEF Even
  <2>5. Playing(y)
    BY <1>11, <1>12, <2>1, <2>2, <2>4 DEF Playing
  <2> QED BY <1>3, <1>10, <1>12, <2>5 DEF Good, Enough
<1>13. ASSUME Rest(x) PROVE Rest(y)
  BY <1>3, <1>11, <1>13 DEF Rest
<1> QED BY <1>12, <1>13

\* The countdown starts, or not.
LEMMA MaybeStartIs ==
  ASSUME NEW x \in TableRecords
  PROVE  LET y == MaybeStart(x)
         IN  /\ y \in TableRecords /\ y.seat = x.seat /\ y.h = x.h
             /\ y.open = x.open /\ y.end = x.end /\ y.ticking = x.ticking /\ y.late = x.late
BY Zenon DEF MaybeStart, TableRecords

\* An account that is not in the hand is all in the wallet.
LEMMA NotLive ==
  ASSUME NEW x, Rest(x) \/ Good(x), NEW u \in Users, \A s \in InHand(x) : x.seat[s].user # u
  PROVE  ~Live(x, u)
<1>1. CASE Rest(x)
  BY <1>1 DEF Rest, NoHand, NoEntry, Live
<1>2. CASE Good(x)
  BY <1>2, Zenon DEF Good, Playing, Matched, Live
<1> QED BY <1>1, <1>2

\* Who plays the table is matched with the accounts, whether a hand is played or not.
LEMMA SoundIs ==
  ASSUME NEW x, Rest(x) \/ Good(x)
  PROVE  /\ x \in TableRecords /\ OneSeat(x) /\ Matched(x) /\ x.end = "no"
         /\ Rest(x) <=> ~x.h.live
<1>1. CASE Rest(x)
  <2>1. x \in TableRecords /\ OneSeat(x) /\ x.end = "no" /\ x.h = NoHand /\ InHand(x) = {}
    BY <1>1 DEF Rest
  <2>2. \A u \in Users : x.h.entry[u].seat = NoSeat
    BY <2>1 DEF NoHand, NoEntry
  <2>3. Matched(x)
    BY <2>1, <2>2 DEF Matched
  <2> QED BY <1>1, <2>1, <2>3 DEF NoHand
<1>2. CASE Good(x)
  <2>1. x.h.live /\ x.h # NoHand
    BY <1>2 DEF Good, Playing, NoHand
  <2> QED BY <1>2, <2>1 DEF Good, Playing, Rest
<1> QED BY <1>1, <1>2

\* A player sits down with what the wallet has.
LEMMA JoinKeeps ==
  ASSUME Sound(table, wallet), NEW u \in Users, Join(u)
  PROVE  Kept
<1> DEFINE free == Seats \ Occupied(table)
           i == CHOOSE s \in free : \A j \in free : s <= j
           c == [Empty EXCEPT !.user = u, !.chips = wallet[u]]
           x == [table EXCEPT !.seat[i] = c]
           y == IF x.h.live THEN x ELSE MaybeStart(x)
<1>1. /\ table.open /\ ~IsSeated(table, u) /\ free # {} /\ table' = y /\ wallet' = wallet
  BY DEF Join
<1>2. /\ table \in TableRecords /\ OneSeat(table) /\ Matched(table)
      /\ Rest(table) <=> ~table.h.live
      /\ Rest(table) \/ Good(table)
  BY SoundIs DEF Sound
<1>3. i \in free
  <2> DEFINE f == [s \in free |-> s]
  <2>0. free \subseteq Seats
    OBVIOUS
  <2>1. IsFiniteSet(free) /\ free \subseteq Int
    <3> HIDE DEF free
    <3>1. IsFiniteSet(Seats) /\ Seats \subseteq Nat
      BY SeatsAre
    <3>2. IsFiniteSet(free)
      BY <2>0, <3>1, FS_Subset
    <3>3. free \subseteq Int
      BY <2>0, <3>1
    <3> QED BY <3>2, <3>3
  <2>2. \A s \in free : f[s] \in Int
    BY <2>1
  <2>3. \E s \in free : \A j \in free : f[s] <= f[j]
    <3> HIDE DEF f, free
    <3> QED BY <1>1, <2>1, <2>2, Lowest
  <2>4. \E s \in free : \A j \in free : s <= j
    BY <2>3
  <2> HIDE DEF free
  <2> QED BY <2>4
<1> HIDE DEF i
<1>4. i \in Seats /\ table.seat[i].user = NoUser /\ wallet[u] \in Nat /\ u # NoUser
  BY <1>3, PokerAssumption DEF Occupied, Sound, Books
<1>5. i \notin InHand(table)
  BY <1>2, <1>4, PokerAssumption DEF Matched
<1>6. c \in SeatRecords /\ ~c.in /\ c.user = u /\ c.chips = wallet[u]
  BY <1>4 DEF Empty, SeatRecords
<1> HIDE DEF c
<1>7. /\ x \in TableRecords /\ x.seat = [table.seat EXCEPT ![i] = c] /\ x.h = table.h
      /\ x.open = table.open /\ x.end = table.end /\ x.ticking = table.ticking
      /\ x.late = table.late /\ x.starting = table.starting
  BY <1>2, <1>4, <1>6 DEF TableRecords
<1> HIDE DEF x
<1>8. /\ y \in TableRecords /\ y.seat = [table.seat EXCEPT ![i] = c] /\ y.h = table.h
      /\ y.open = table.open /\ y.end = table.end /\ y.ticking = table.ticking
      /\ y.late = table.late /\ (table.h.live => y.starting = table.starting)
  BY <1>7, MaybeStartIs
<1> HIDE DEF y
<1>9. (Good(table) => Good(y)) /\ (Rest(table) => Rest(y))
  <2>1. Good(table) => y.starting = table.starting
    BY <1>8 DEF Good, Playing
  <2>2. \A s \in Seats \ {i} : table.seat[s].user # c.user
    BY <1>1, <1>6 DEF IsSeated
  <2> QED BY <1>2, <1>4, <1>5, <1>6, <1>8, <2>1, <2>2, AsideIs
<1>10. \A t : Acc(y, wallet, t) = Acc(table, wallet, t) /\ (Live(y, t) <=> Live(table, t))
  BY <1>8 DEF Acc, Live
<1>11. Books(y, wallet)
  <2>1. Acc(table, wallet, u) = wallet[u]
    <3>1. ~Live(table, u)
      BY <1>1, <1>2, WaitingIn, NotLive DEF IsSeated
    <3> QED BY <1>2, <3>1, AccIs DEF Sound
  <2>2. ASSUME NEW s \in Seats, y.seat[s].user # NoUser
        PROVE  Acc(y, wallet, y.seat[s].user) = y.seat[s].chips
    <3>1. CASE s = i
      <4>1. y.seat[s] = c
        BY <1>2, <1>4, <1>8, <3>1 DEF TableRecords
      <4> QED BY <1>6, <1>10, <2>1, <4>1
    <3>2. CASE s # i
      <4>1. y.seat[s] = table.seat[s]
        BY <1>2, <1>8, <3>2 DEF TableRecords
      <4> QED BY <1>10, <2>2, <4>1 DEF Sound, Books
    <3> QED BY <3>1, <3>2
  <2> QED BY <1>8, <1>10, <2>2 DEF Sound, Books
<1>12. InPlay(y, wallet) = InPlay(table, wallet)
  BY <1>8, <1>10 DEF InPlay, Accounts, PutIn
<1>13. Sound(y, wallet)
  BY <1>1, <1>2, <1>8, <1>9, <1>11 DEF Sound
<1> QED BY <1>1, <1>12, <1>13 DEF Kept

\* Where a player sits.
LEMMA SeatOfIs ==
  ASSUME NEW x, NEW u, IsSeated(x, u)
  PROVE  SeatOf(x, u) \in Seats /\ x.seat[SeatOf(x, u)].user = u
BY DEF IsSeated, SeatOf

\* A player walks out of the hand.
LEMMA WalkKeeps ==
  ASSUME game \in Games, Good(table), Books(table, wallet), NEW i \in InHand(table),
         NEW u, u = table.seat[i].user,
         Becomes(Departed(Walked(table, i, u), i, table.h.turn = i), Owed(table, u))
  PROVE  Kept
<1> DEFINE b == table.h.turn = i
           y == Walked(table, i, u)
           z == Departed(y, i, b)
           paid == Owed(table, u)
           w == [t \in Users |-> wallet[t] + paid[t]]
<1>1. Playing(table) /\ Out(table, y, i)
  BY WalkedIs DEF Good
<1>2. Becomes(z, paid)
  OBVIOUS
<1> HIDE DEF y
<1>3. Outcome(z)
  BY <1>1, DepartedIs
<1>4. Books(y, w) /\ InPlay(y, w) = InPlay(table, wallet)
  <2>1. w = [t \in Users |-> wallet[t] + Owed(table, table.seat[i].user)[t]]
    OBVIOUS
  <2> HIDE DEF w
  <2> QED BY <1>1, <2>1, OutBooks
<1>5. SameChips(y, z)
  BY <1>1, DepartureKeeps DEF Out
<1>6. w = [t \in Users |-> wallet[t] + paid[t]]
  OBVIOUS
<1> HIDE DEF w, z, paid, b
<1>7. Books(z, w) /\ InPlay(z, w) = InPlay(table, wallet)
  BY <1>4, <1>5, SameBooks
<1>8. Sound(table', wallet') /\ (game # "house" => InPlay(table', wallet') = InPlay(z, w))
  BY <1>2, <1>3, <1>6, <1>7, BecomesIs
<1> QED BY <1>7, <1>8 DEF Kept

\* A player who is not in the hand gets up.
LEMMA GetUpKeeps ==
  ASSUME Sound(table, wallet), NEW i \in Seats \ InHand(table), wallet' = wallet,
         NEW b \in BOOLEAN,
         table' = IF table.h.live THEN Gone(table, i)
                  ELSE [Gone(table, i) EXCEPT !.starting = @ /\ b]
  PROVE  Kept
<1> DEFINE y == table'
<1>1. table \in TableRecords /\ (Rest(table) \/ Good(table)) /\ (Rest(table) <=> ~table.h.live)
  BY SoundIs DEF Sound
<1>2. Empty \in SeatRecords /\ ~Empty.in /\ Empty.user = NoUser
  BY DEF Empty, SeatRecords
<1>3. /\ Gone(table, i) \in TableRecords /\ Gone(table, i).seat = [table.seat EXCEPT ![i] = Empty]
      /\ Gone(table, i).h = table.h /\ Gone(table, i).open = table.open
      /\ Gone(table, i).end = table.end /\ Gone(table, i).ticking = table.ticking
      /\ Gone(table, i).late = table.late /\ Gone(table, i).starting = table.starting
  BY <1>1, <1>2 DEF Gone, TableRecords
<1>4. /\ y \in TableRecords /\ y.seat = [table.seat EXCEPT ![i] = Empty] /\ y.h = table.h
      /\ y.open = table.open /\ y.end = table.end /\ y.ticking = table.ticking
      /\ y.late = table.late /\ (table.h.live => y.starting = table.starting)
  <2> DEFINE g == Gone(table, i)
  <2> HIDE DEF g
  <2>1. CASE table.h.live
    BY <1>3, <2>1
  <2>2. CASE ~table.h.live
    <3>1. table' = [g EXCEPT !.starting = g.starting /\ b]
      BY <2>2 DEF g
    <3>2. g \in TableRecords
      BY <1>3 DEF g
    <3>3. (g.starting /\ b) \in BOOLEAN
      OBVIOUS
    <3>4. table' \in TableRecords
      BY <3>1, <3>2, <3>3, Zenon DEF TableRecords
    <3>5. /\ table'.seat = g.seat /\ table'.h = g.h /\ table'.open = g.open
          /\ table'.end = g.end /\ table'.ticking = g.ticking /\ table'.late = g.late
      BY <3>1, <3>2 DEF TableRecords
    <3> QED BY <1>3, <2>2, <3>4, <3>5 DEF g
  <2> QED BY <2>1, <2>2
<1> HIDE DEF y
<1>5. (Good(table) => Good(y)) /\ (Rest(table) => Rest(y))
  <2>1. Good(table) => y.starting = table.starting
    BY <1>4 DEF Good, Playing
  <2> QED BY <1>1, <1>2, <1>4, <2>1, AsideIs
<1>6. \A t : Acc(y, wallet, t) = Acc(table, wallet, t) /\ (Live(y, t) <=> Live(table, t))
  BY <1>4 DEF Acc, Live
<1>7. Books(y, wallet)
  <2>1. ASSUME NEW s \in Seats, y.seat[s].user # NoUser
        PROVE  Acc(y, wallet, y.seat[s].user) = y.seat[s].chips
    <3>1. CASE s = i
      <4>1. y.seat[s] = Empty
        BY <1>1, <1>4, <3>1 DEF TableRecords
      <4> QED BY <1>2, <2>1, <4>1
    <3>2. CASE s # i
      <4>1. y.seat[s] = table.seat[s]
        BY <1>1, <1>4, <3>2 DEF TableRecords
      <4> QED BY <1>6, <2>1, <4>1 DEF Sound, Books
    <3> QED BY <3>1, <3>2
  <2> QED BY <1>4, <1>6, <2>1 DEF Sound, Books
<1>8. InPlay(y, wallet) = InPlay(table, wallet)
  BY <1>4, <1>6 DEF InPlay, Accounts, PutIn
<1>9. Sound(y, wallet)
  BY <1>1, <1>4, <1>5, <1>7 DEF Sound
<1> QED BY <1>8, <1>9 DEF Kept, y

\* A player leaves, of a hand or beside it.
LEMMA LeaveKeeps ==
  ASSUME game \in Games, Sound(table, wallet), NEW u \in Users, Leave(u)
  PROVE  Kept
<1> DEFINE i == SeatOf(table, u)
           gone == [table EXCEPT !.seat[i] = Empty]
           walked == Written([gone EXCEPT !.h.entry[u].left = TRUE], u)
           b == Cardinality(Funded(gone)) >= MinPlayers
<1>1. /\ table.open /\ IsSeated(table, u)
      /\ IF table.seat[i].in
         THEN Becomes(Departed(walked, i, table.h.turn = i), Owed(table, u))
         ELSE /\ table' = IF table.h.live THEN gone ELSE [gone EXCEPT !.starting = @ /\ b]
              /\ UNCHANGED wallet
  BY DEF Leave
<1>2. i \in Seats /\ table.seat[i].user = u
  BY <1>1, SeatOfIs
<1>3. gone = Gone(table, i) /\ walked = Walked(table, i, u) /\ b \in BOOLEAN
  BY DEF Gone, Walked
<1> HIDE DEF i, gone, walked, b
<1>4. CASE table.seat[i].in
  <2>1. i \in InHand(table)
    BY <1>2, <1>4 DEF InHand
  <2>2. Good(table) /\ Books(table, wallet)
    BY <2>1 DEF Sound, Rest
  <2> QED BY <1>1, <1>2, <1>3, <1>4, <2>1, <2>2, WalkKeeps
<1>5. CASE ~table.seat[i].in
  <2>1. i \in Seats \ InHand(table)
    BY <1>2, <1>5 DEF InHand
  <2> QED BY <1>1, <1>3, <1>5, <2>1, GetUpKeeps
<1> QED BY <1>4, <1>5

\* CreditChips: a chip more at the seat and, for a player with an account, in it.
Bought(x, i, u) ==
    LET e == x.h.entry[u]
    IN  [x EXCEPT !.seat[i].chips = @ + 1,
                  !.h.entry[u] = IF e.seat = NoSeat THEN e
                                 ELSE [e EXCEPT !.chips = @ + 1, !.written = @ + 1]]

\* What a purchase changes: one chip at the seat and, dealt in, in the hand's accounts.
LEMMA BoughtFields ==
  ASSUME NEW x \in TableRecords, NEW i \in Seats, NEW u \in Users
  PROVE  LET y == Bought(x, i, u)
             e == x.h.entry[u]
             f == y.h.entry[u]
         IN  /\ y \in TableRecords /\ SameTable(x, y) /\ y.h.cur = x.h.cur /\ y.h.turn = x.h.turn
             /\ y.ticking = x.ticking /\ y.late = x.late
             /\ \A s \in Seats \ {i} : y.seat[s] = x.seat[s]
             /\ y.seat[i].acted = x.seat[i].acted
             /\ y.seat[i].allIn = x.seat[i].allIn /\ y.seat[i].in = x.seat[i].in
             /\ y.seat[i].user = x.seat[i].user /\ y.seat[i].streetBet = x.seat[i].streetBet
             /\ y.seat[i].chips = x.seat[i].chips + 1
             /\ \A v \in Users \ {u} : y.h.entry[v] = x.h.entry[v]
             /\ f.seat = e.seat /\ f.out = e.out /\ f.left = e.left /\ f.contributed = e.contributed
             /\ IF e.seat = NoSeat THEN f = e ELSE f.chips = e.chips + 1 /\ f.written = e.written + 1
             /\ x.h = NoHand => y.h = x.h
<1> DEFINE s == x.seat[i]
           e == x.h.entry[u]
           a == s.chips + 1
           b == e.chips + 1
           d == e.written + 1
           C == [s EXCEPT !.chips = a]
           E == IF e.seat = NoSeat THEN e ELSE [e EXCEPT !.chips = b, !.written = d]
           y == Bought(x, i, u)
<1>1. s \in SeatRecords /\ e \in EntryRecords /\ s.chips \in Nat /\ e.chips \in Nat /\ e.written \in Nat
  BY SeatFields, EntryFields
<1>2. a \in Nat /\ b \in Nat /\ d \in Nat
  BY <1>1
<1>3. y = [x EXCEPT !.seat = [x.seat EXCEPT ![i] = C],
                    !.h = [x.h EXCEPT !.entry = [x.h.entry EXCEPT ![u] = E]]]
  <2>1. y = [x EXCEPT !.seat[i].chips = a, !.h.entry[u] = E]
    BY DEF Bought
  <2> HIDE DEF y, E, a
  <2> QED BY <1>1, <2>1 DEF TableRecords, HandRecords
<1>4. /\ C \in SeatRecords /\ C.user = s.user /\ C.in = s.in /\ C.chips = a
      /\ C.streetBet = s.streetBet /\ C.allIn = s.allIn /\ C.acted = s.acted
  <2> HIDE DEF s, a
  <2>1. C \in SeatRecords
    BY <1>1, <1>2, Zenon DEF SeatRecords
  <2> QED BY <1>1, <2>1 DEF SeatRecords
<1>5. /\ E \in EntryRecords /\ E.seat = e.seat /\ E.out = e.out /\ E.left = e.left
      /\ E.contributed = e.contributed
      /\ IF e.seat = NoSeat THEN E = e ELSE E.chips = b /\ E.written = d
  <2> HIDE DEF e, b, d
  <2>1. CASE e.seat = NoSeat
    BY <1>1, <2>1
  <2>2. CASE e.seat # NoSeat
    <3>1. E = [e EXCEPT !.chips = b, !.written = d]
      BY <2>2
    <3> HIDE DEF E
    <3>2. E \in EntryRecords
      BY <1>1, <1>2, <3>1, Zenon DEF EntryRecords
    <3>3. E.seat = e.seat /\ E.contributed = e.contributed /\ E.chips = b /\ E.written = d
      BY <1>1, <3>1 DEF EntryRecords
    <3>4. E.out = e.out /\ E.left = e.left
      BY <1>1, <3>1 DEF EntryRecords
    <3> QED BY <2>2, <3>2, <3>3, <3>4
  <2> QED BY <2>1, <2>2
<1> HIDE DEF C, E, y
<1>6. /\ y \in TableRecords /\ y.seat = [x.seat EXCEPT ![i] = C]
      /\ y.h = [x.h EXCEPT !.entry = [x.h.entry EXCEPT ![u] = E]]
      /\ y.ticking = x.ticking /\ y.late = x.late
      /\ y.open = x.open /\ y.starting = x.starting /\ y.end = x.end
  BY <1>3, <1>4, <1>5 DEF TableRecords, HandRecords
<1>7. /\ y.h.entry = [x.h.entry EXCEPT ![u] = E]
      /\ y.h.live = x.h.live /\ y.h.street = x.h.street /\ y.h.cur = x.h.cur /\ y.h.turn = x.h.turn
  BY <1>6 DEF TableRecords, HandRecords
<1>8. /\ y.seat[i] = C /\ \A r \in Seats \ {i} : y.seat[r] = x.seat[r]
      /\ y.h.entry[u] = E /\ \A v \in Users \ {u} : y.h.entry[v] = x.h.entry[v]
  BY <1>6, <1>7 DEF TableRecords, HandRecords
<1>9. SameTable(x, y)
  BY <1>6, <1>7 DEF SameTable
<1>10. ASSUME x.h = NoHand PROVE y.h = x.h
  <2>1. e.seat = NoSeat
    BY <1>10 DEF NoHand, NoEntry
  <2>2. E = e
    BY <1>5, <2>1
  <2>3. [x.h.entry EXCEPT ![u] = E] = x.h.entry
    BY <2>2 DEF TableRecords, HandRecords
  <2> QED BY <1>6, <2>3 DEF TableRecords, HandRecords
<1> QED BY <1>4, <1>5, <1>6, <1>7, <1>8, <1>9, <1>10 DEF y, a, b, d

\* The hand, or the table at rest, with a chip more.
LEMMA BoughtIs ==
  ASSUME NEW x, Rest(x) \/ Good(x), NEW i \in Seats, NEW u \in Users, x.seat[i].user = u
  PROVE  LET y == Bought(x, i, u)
         IN  (Good(x) => Good(y)) /\ (Rest(x) => Rest(y)) /\ Matched(y)
<1> DEFINE y == Bought(x, i, u)
           e == x.h.entry[u]
           f == y.h.entry[u]
<1>1. x \in TableRecords /\ OneSeat(x) /\ Matched(x) /\ u # NoUser
  BY SoundIs, PokerAssumption
<1>2. /\ y \in TableRecords /\ SameTable(x, y) /\ y.h.cur = x.h.cur /\ y.h.turn = x.h.turn
      /\ y.ticking = x.ticking /\ y.late = x.late
      /\ \A s \in Seats \ {i} : y.seat[s] = x.seat[s]
      /\ y.seat[i].acted = x.seat[i].acted
      /\ y.seat[i].allIn = x.seat[i].allIn /\ y.seat[i].in = x.seat[i].in
      /\ y.seat[i].user = x.seat[i].user /\ y.seat[i].streetBet = x.seat[i].streetBet
      /\ y.seat[i].chips = x.seat[i].chips + 1
      /\ \A v \in Users \ {u} : y.h.entry[v] = x.h.entry[v]
      /\ x.h = NoHand => y.h = x.h
  BY <1>1, BoughtFields
<1>3. f.seat = e.seat /\ f.contributed = e.contributed
  BY <1>1, BoughtFields
<1>4. f.out = e.out
  BY <1>1, BoughtFields
<1>5. f.left = e.left
  BY <1>1, BoughtFields
<1>6. e.seat # NoSeat => f.chips = e.chips + 1
  BY <1>1, BoughtFields
<1> HIDE DEF y
<1>7. \A s \in Seats :
        /\ y.seat[s].user = x.seat[s].user /\ y.seat[s].in = x.seat[s].in
        /\ y.seat[s].allIn = x.seat[s].allIn /\ y.seat[s].acted = x.seat[s].acted
        /\ y.seat[s].streetBet = x.seat[s].streetBet
  BY <1>2
<1>8. InHand(y) = InHand(x) /\ Here(y) = Here(x)
  BY <1>2, <1>7 DEF InHand, Here, SameTable
<1>9. CanAct(y) = CanAct(x)
  BY <1>7, <1>8, WaitingIn DEF CanAct
<1>10. NeedsAction(y) = NeedsAction(x)
  BY <1>2, <1>7, <1>9, WaitingIn DEF NeedsAction
<1>11. Undecided(y) = Undecided(x)
  BY <1>7, <1>8, WaitingIn DEF Undecided
<1>12. {s \in CanAct(y) : y.seat[s].streetBet < y.h.cur} = {s \in CanAct(x) : x.seat[s].streetBet < x.h.cur}
  BY <1>2, <1>7, <1>9, WaitingIn
<1>13. Waiting(y) = Waiting(x)
  BY <1>8, <1>9, <1>10, <1>11, <1>12 DEF Waiting
<1>14. OneSeat(y)
  BY <1>1, <1>7 DEF OneSeat
<1>15. \A v \in Users : /\ y.h.entry[v].seat = x.h.entry[v].seat
                        /\ y.h.entry[v].contributed = x.h.entry[v].contributed
  BY <1>2, <1>3
<1>16. \A v \in Users : y.h.entry[v].out = x.h.entry[v].out /\ y.h.entry[v].left = x.h.entry[v].left
  BY <1>2, <1>4, <1>5
<1>17. Matched(y)
  <2>1. ASSUME NEW s \in InHand(y)
        PROVE  LET v == y.seat[s].user
                   d == y.h.entry[v]
               IN  v \in Users /\ d.seat = s /\ ~d.out /\ ~d.left /\ d.chips = y.seat[s].chips
    <3> DEFINE v == x.seat[s].user
               d == x.h.entry[v]
    <3>1. s \in InHand(x) /\ s \in Seats /\ y.seat[s].user = v
      BY <1>7, <1>8, <2>1, WaitingIn
    <3>2. v \in Users /\ d.seat = s /\ ~d.out /\ ~d.left /\ d.chips = x.seat[s].chips
      BY <1>1, <3>1 DEF Matched
    <3>3. y.h.entry[v].chips = y.seat[s].chips
      <4>1. CASE s = i
        <5>1. v = u /\ e.seat # NoSeat
          BY <3>2, <4>1, SeatsAre
        <5> QED BY <1>2, <1>6, <3>2, <4>1, <5>1
      <4>2. CASE s # i
        <5>1. v # u
          BY <1>1, <3>1, <4>2 DEF OneSeat
        <5> QED BY <1>2, <3>1, <3>2, <4>2, <5>1
      <4> QED BY <4>1, <4>2
    <3>4. y.h.entry[v].seat = s /\ ~y.h.entry[v].out /\ ~y.h.entry[v].left
      BY <1>15, <1>16, <3>2
    <3> QED BY <3>1, <3>2, <3>3, <3>4
  <2>2. ASSUME NEW v \in Users, y.h.entry[v].seat # NoSeat, ~y.h.entry[v].out, ~y.h.entry[v].left
        PROVE  y.h.entry[v].seat \in InHand(y) /\ y.seat[y.h.entry[v].seat].user = v
    <3>1. x.h.entry[v].seat # NoSeat /\ ~x.h.entry[v].out /\ ~x.h.entry[v].left
      BY <1>15, <1>16, <2>2
    <3>2. x.h.entry[v].seat \in InHand(x) /\ x.seat[x.h.entry[v].seat].user = v
      BY <1>1, <3>1 DEF Matched
    <3> QED BY <1>7, <1>8, <1>15, <3>2, WaitingIn, ZenonT(60)
  <2> QED BY <2>1, <2>2 DEF Matched
<1>18. ASSUME Good(x) PROVE Good(y)
  <2>1. Even(x) /\ Playing(x)
    BY <1>18 DEF Good, Playing
  <2>2. \A s \in InHand(x) : Collected(y, s) = Collected(x, s)
    <3> TAKE s \in InHand(x)
    <3>1. s \in Seats /\ x.seat[s].user \in Users
      BY <1>1, WaitingIn DEF Matched
    <3>2. y.seat[s].user = x.seat[s].user /\ y.seat[s].streetBet = x.seat[s].streetBet
      BY <1>7, <3>1
    <3>3. y.h.entry[x.seat[s].user].contributed = x.h.entry[x.seat[s].user].contributed
      BY <1>15, <3>1
    <3> QED BY <3>2, <3>3 DEF Collected
  <2>3. Even(y)
    <3>1. \A p \in CanAct(y), q \in InHand(y) : Collected(y, q) <= Collected(y, p)
      BY <1>8, <1>9, <2>1, <2>2, WaitingIn DEF Even
    <3>2. game # "house" => \A q \in InHand(y) : y.seat[q].streetBet <= y.h.cur
      BY <1>2, <1>7, <1>8, <2>1, WaitingIn DEF Even
    <3> QED BY <1>2, <1>8, <2>1, <3>1, <3>2 DEF Even
  <2>4. Playing(y)
    BY <1>2, <1>14, <1>17, <2>1, <2>3 DEF Playing, SameTable
  <2>5. Enough(y) /\ y.h.turn \in Waiting(y) /\ (y.ticking \/ y.late)
    BY <1>2, <1>8, <1>13, <1>18 DEF Good, Enough
  <2> QED BY <2>4, <2>5 DEF Good
<1>19. ASSUME Rest(x) PROVE Rest(y)
  BY <1>2, <1>8, <1>14, <1>19 DEF Rest, SameTable
<1> QED BY <1>17, <1>18, <1>19 DEF y

\* A purchase adds its chip to what is in play and nothing else.
LEMMA BuyKeeps ==
  ASSUME Sound(table, wallet), NEW u \in Users, Buy(u)
  PROVE  Sound(table', wallet') /\ InPlay(table', wallet') = InPlay(table, wallet) + 1
<1> DEFINE i == SeatOf(table, u)
           x == Bought(table, i, u)
           y == table'
           v == wallet'
           e == table.h.entry[u]
           f == x.h.entry[u]
<1>1. /\ table.open /\ IsSeated(table, u) /\ y = (IF x.h.live THEN x ELSE MaybeStart(x))
      /\ v = [wallet EXCEPT ![u] = @ + 1]
  BY DEF Buy, Bought
<1>2. i \in Seats /\ table.seat[i].user = u /\ u # NoUser
  BY <1>1, SeatOfIs, PokerAssumption
<1>3. /\ table \in TableRecords /\ OneSeat(table) /\ Matched(table) /\ wallet \in [Users -> Nat]
      /\ (Rest(table) \/ Good(table)) /\ Books(table, wallet)
  BY SoundIs DEF Sound, Books
<1> HIDE DEF i
<1>4. /\ x \in TableRecords /\ x.open = table.open
      /\ \A s \in Seats \ {i} : x.seat[s] = table.seat[s]
      /\ x.seat[i].user = u /\ x.seat[i].chips = table.seat[i].chips + 1
      /\ \A t \in Users \ {u} : x.h.entry[t] = table.h.entry[t]
  BY <1>2, <1>3, BoughtFields DEF SameTable
<1>5. f.seat = e.seat /\ f.contributed = e.contributed
  BY <1>2, <1>3, BoughtFields
<1>6. f.out = e.out
  BY <1>2, <1>3, BoughtFields
<1>7. f.left = e.left
  BY <1>2, <1>3, BoughtFields
<1>8. IF e.seat = NoSeat THEN f = e ELSE f.chips = e.chips + 1 /\ f.written = e.written + 1
  BY <1>2, <1>3, BoughtFields
<1>9. (Good(table) => Good(x)) /\ (Rest(table) => Rest(x)) /\ Matched(x)
  BY <1>2, <1>3, BoughtIs
<1> HIDE DEF x
<1>10. /\ y \in TableRecords /\ y.seat = x.seat /\ y.h = x.h /\ y.open = x.open /\ y.end = x.end
       /\ y.ticking = x.ticking /\ y.late = x.late /\ (x.h.live => y = x)
  BY <1>1, <1>4, MaybeStartIs
<1> HIDE DEF y, v
<1>11. (Rest(y) \/ Good(y)) /\ Matched(y) /\ y.open
  <2>1. InHand(y) = InHand(x)
    BY <1>10 DEF InHand
  <2>2. Matched(y)
    BY <1>9, <1>10, <2>1 DEF Matched
  <2>3. CASE x.h.live
    BY <1>1, <1>3, <1>4, <1>9, <1>10, <2>2, <2>3
  <2>4. CASE ~x.h.live
    <3>1. Rest(x)
      BY <1>3, <1>9, <2>4, SoundIs
    <3>2. Rest(y)
      BY <1>10, <2>1, <3>1 DEF Rest, OneSeat
    <3> QED BY <1>1, <1>4, <1>10, <2>2, <3>2
  <2> QED BY <2>3, <2>4
<1>12. v \in [Users -> Nat] /\ v[u] = wallet[u] + 1 /\ \A t \in Users \ {u} : v[t] = wallet[t]
  BY <1>1, <1>3
<1>13. Acc(y, v, u) = Acc(table, wallet, u) + 1 /\ Acc(table, wallet, u) = table.seat[i].chips
  <2>1. wallet[u] \in Nat /\ e.chips \in Nat /\ e.written \in Nat
    BY <1>3, EntryFields
  <2>2. v[u] = wallet[u] + 1 /\ y.h.entry[u] = f
    BY <1>10, <1>12
  <2>3. Acc(y, v, u) = v[u] + (f.chips - f.written) /\ Acc(table, wallet, u) = wallet[u] + (e.chips - e.written)
    BY <2>2 DEF Acc
  <2>4. f.chips - f.written = e.chips - e.written
    <3> HIDE DEF e, f
    <3>1. CASE e.seat = NoSeat
      BY <1>8, <3>1
    <3>2. CASE e.seat # NoSeat
      BY <1>8, <2>1, <3>2
    <3> QED BY <3>1, <3>2
  <2>5. Acc(table, wallet, u) = table.seat[i].chips
    BY <1>2, <1>3 DEF Books
  <2> HIDE DEF e, f
  <2> QED BY <2>1, <2>2, <2>3, <2>4, <2>5
<1>14. \A t \in Users \ {u} : Acc(y, v, t) = Acc(table, wallet, t) /\ (Live(y, t) <=> Live(table, t))
  BY <1>4, <1>10, <1>12 DEF Acc, Live
<1>15. Live(y, u) <=> Live(table, u)
  BY <1>5, <1>6, <1>7, <1>10 DEF Live
<1>16. Books(y, v)
  <2>1. ASSUME NEW s \in Seats, y.seat[s].user # NoUser
        PROVE  Acc(y, v, y.seat[s].user) = y.seat[s].chips
    <3>1. CASE s = i
      BY <1>4, <1>10, <1>13, <3>1
    <3>2. CASE s # i
      <4>1. y.seat[s] = table.seat[s] /\ table.seat[s].user # u
        BY <1>2, <1>3, <1>4, <1>10, <3>2 DEF OneSeat
      <4>2. table.seat[s].user \in Users \ {u}
        BY <1>3, <2>1, <4>1, SeatFields
      <4> QED BY <1>3, <1>14, <2>1, <4>1, <4>2 DEF Books
    <3> QED BY <3>1, <3>2
  <2>2. ASSUME NEW t \in Users
        PROVE  /\ ~Live(y, t) => y.h.entry[t].chips = y.h.entry[t].written
               /\ y.h.entry[t].seat = NoSeat => y.h.entry[t].contributed = 0
    <3>1. CASE t = u
      <4>1. ~Live(table, u) => e.chips = e.written
        BY <1>3 DEF Books
      <4>2. e.seat = NoSeat => e.contributed = 0
        BY <1>3 DEF Books
      <4>3. y.h.entry[u] = f
        BY <1>10
      <4>4. ~Live(y, u) => f.chips = f.written
        <5> HIDE DEF e, f
        <5> QED BY <1>8, <1>15, <4>1
      <4> QED BY <1>5, <3>1, <4>2, <4>3, <4>4
    <3>2. CASE t # u
      BY <1>3, <1>4, <1>10, <1>14, <3>2 DEF Books
    <3> QED BY <3>1, <3>2
  <2>3. \A t \in Users : y.h.entry[t].seat = table.h.entry[t].seat
    BY <1>4, <1>5, <1>10
  <2> QED BY <1>3, <1>12, <2>1, <2>2, <2>3 DEF Books
<1>17. InPlay(y, v) = InPlay(table, wallet) + 1
  <2> DEFINE p == Own(table, wallet)
             q == Own(y, v)
  <2>1. \A t \in Users : p[t] \in Nat /\ q[t] \in Nat
    BY <1>3, <1>10, <1>11, <1>16, InPlayIs
  <2>2. \A t \in Users \ {u} : q[t] = p[t]
    BY <1>4, <1>10, <1>14 DEF Own
  <2>3. q[u] = p[u] + 1
    <3>1. y.h.entry[u].contributed = e.contributed /\ e.contributed \in Nat
      BY <1>3, <1>5, <1>10, EntryFields
    <3>2. table.seat[i].chips \in Nat
      BY <1>2, <1>3, SeatFields
    <3>3. q[u] = Acc(y, v, u) + y.h.entry[u].contributed /\ p[u] = Acc(table, wallet, u) + e.contributed
      BY DEF Own
    <3> HIDE DEF p, q, e
    <3> QED BY <1>13, <3>1, <3>2, <3>3
  <2>4. InPlay(table, wallet) = SumOver(p, Users) /\ InPlay(y, v) = SumOver(q, Users)
    BY <1>3, <1>10, <1>11, <1>16, InPlayIs
  <2> HIDE DEF p, q
  <2>5. SumOver(p, Users) - p[u] = SumOver(q, Users) - q[u]
    <3>1. \A t \in Users : p[t] \in Int /\ q[t] \in Int /\ (t # u => p[t] = q[t])
      BY <2>1, <2>2
    <3> QED BY <3>1, PokerAssumption, SumOneMoved
  <2>6. SumOver(p, Users) \in Int /\ SumOver(q, Users) \in Int
    <3>1. \A t \in Users : p[t] \in Int /\ q[t] \in Int
      BY <2>1
    <3> QED BY <3>1, PokerAssumption, SumInt
  <2> QED BY <2>1, <2>3, <2>4, <2>5, <2>6
<1>18. Sound(y, v)
  BY <1>11, <1>16 DEF Sound
<1> QED BY <1>17, <1>18 DEF y, v

\* The turn's clock runs out, or is given again by the next process.
LEMMA ClocksKeep ==
  ASSUME Sound(table, wallet), TurnClockFires \/ Restart
  PROVE  Kept
<1> DEFINE y == table'
<1>1. /\ wallet' = wallet /\ (table.ticking \/ table.h.live)
      /\ \E a, b \in BOOLEAN : y = [table EXCEPT !.ticking = a, !.late = b] /\ (a \/ b)
  BY DEF TurnClockFires, Restart
<1>2. Good(table) /\ table \in TableRecords /\ table.open
  BY <1>1, SoundIs DEF Sound, Rest
<1>3. PICK a \in BOOLEAN, b \in BOOLEAN : y = [table EXCEPT !.ticking = a, !.late = b] /\ (a \/ b)
  BY <1>1
<1> HIDE DEF y
<1>4. /\ y \in TableRecords /\ y.seat = table.seat /\ y.h = table.h /\ SameTable(table, y)
      /\ y.button = table.button /\ (y.ticking \/ y.late)
  BY <1>2, <1>3 DEF TableRecords, SameTable
<1>5. Good(y) /\ Books(y, wallet) /\ InPlay(y, wallet) = InPlay(table, wallet)
  BY <1>2, <1>4, ClockIs
<1>6. Sound(y, wallet)
  BY <1>2, <1>4, <1>5 DEF Sound, SameTable
<1> QED BY <1>1, <1>5, <1>6 DEF Kept, y

\* A table that is gone: nobody is seated and no hand is played.
Closed(x, w) == /\ x = [NewTable EXCEPT !.open = FALSE]
                /\ w \in [Users -> Nat]

\* The table is destroyed: everybody has what they had, and of what they put in some or all.
LEMMA DestroyIs ==
  ASSUME Sound(table, wallet), Destroy
  PROVE  /\ Closed(table', wallet')
         /\ SumOver(wallet', Users) <= InPlay(table, wallet)
<1> DEFINE x == [table EXCEPT !.end = "refund"]
           s == Settled(x, [i \in Seats |-> 0])
           v == wallet'
           own == Own(table, wallet)
<1>1. /\ table \in TableRecords /\ Matched(table) /\ wallet \in [Users -> Nat]
      /\ Rest(table) <=> ~table.h.live
      /\ Books(table, wallet)
  BY SoundIs DEF Sound, Books
<1>2. /\ table' = [NewTable EXCEPT !.open = FALSE]
      /\ v = [u \in Users |-> wallet[u] + (IF table.h.live THEN s ELSE [paid |-> Nothing]).paid[u]]
  BY DEF Destroy
<1>3. x.h = table.h /\ x.end = "refund"
  BY <1>1 DEF TableRecords
<1>4. \A u \in Users : own[u] = Acc(table, wallet, u) + table.h.entry[u].contributed
  BY DEF Own
<1> HIDE DEF x, own
<1>5. ASSUME NEW u \in Users PROVE v[u] \in Nat /\ v[u] <= own[u] /\ own[u] \in Nat
  <2> DEFINE e == table.h.entry[u]
  <2>1. /\ e \in EntryRecords /\ e.chips \in Nat /\ e.written \in Nat /\ e.contributed \in Nat
        /\ e.left \in BOOLEAN /\ wallet[u] \in Nat /\ Acc(table, wallet, u) \in Nat
    BY <1>1, EntryFields, AccIs
  <2>2. own[u] = Acc(table, wallet, u) + e.contributed /\ own[u] \in Nat
    BY <1>4, <2>1
  <2>3. Acc(table, wallet, u) = wallet[u] + (e.chips - e.written)
    BY DEF Acc
  <2>4. CASE table.h.live
    <3> DEFINE f == Final(x, [i \in Seats |-> 0])[u]
               r == Refunded(x, u)
    <3>1. v[u] = wallet[u] + (f.chips - f.written)
      BY <1>2, <2>4 DEF Settled
    <3>2. r \in Nat /\ r <= e.contributed
      BY <1>3, <2>1 DEF Refunded
    <3>3. f = IF e.seat = NoSeat THEN e ELSE [e EXCEPT !.chips = e.chips + r]
      BY <1>3 DEF Final
    <3> HIDE DEF f, r, e
    <3>4. CASE e.seat = NoSeat
      BY <2>1, <2>2, <2>3, <3>1, <3>3, <3>4
    <3>5. CASE e.seat # NoSeat
      <4>1. f = [e EXCEPT !.chips = e.chips + r]
        BY <3>3, <3>5
      <4>2. f.chips = e.chips + r /\ f.written = e.written
        BY <2>1, <4>1 DEF EntryRecords
      <4> QED BY <2>1, <2>2, <2>3, <3>1, <3>2, <4>2
    <3> QED BY <3>4, <3>5
  <2>5. CASE ~table.h.live
    <3>1. v[u] = wallet[u] + 0
      BY <1>2, <2>5 DEF Nothing
    <3>2. e.chips = 0 /\ e.written = 0
      BY <1>1, <2>5 DEF Rest, NoHand, NoEntry
    <3> HIDE DEF e, v
    <3> QED BY <2>1, <2>2, <2>3, <3>1, <3>2
  <2> QED BY <2>4, <2>5
<1>6. v \in [Users -> Nat]
  <2>1. v = [u \in Users |-> v[u]]
    BY <1>2
  <2> HIDE DEF v
  <2> QED BY <1>5, <2>1
<1> HIDE DEF v
<1>7. SumOver(v, Users) <= SumOver(own, Users)
  <2>1. \A u \in Users : v[u] \in Int /\ own[u] \in Int /\ v[u] <= own[u]
    BY <1>5
  <2> QED BY <2>1, PokerAssumption, SumMonotone
<1>8. InPlay(table, wallet) = SumOver(own, Users)
  BY <1>1, InPlayIs DEF own
<1> QED BY <1>2, <1>6, <1>7, <1>8 DEF Closed, v

-----------------------------------------------------------------------------
(* The deal *)

\* Nothing is put in yet.
Fresh(x) ==
    /\ \A i \in Seats : x.seat[i].streetBet = 0 /\ ~x.seat[i].allIn
    /\ \A u \in Users : x.h.entry[u].contributed = 0
    /\ x.h.street = 0 /\ x.h.cur = BigBlind /\ x.button \in InHand(x)

\* The players of a table at rest who can pay the stake.
LEMMA FundedAre ==
  ASSUME NEW x \in TableRecords
  PROVE  /\ Funded(x) \subseteq Seats
         /\ \A i \in Funded(x) : x.seat[i].user \in Users /\ x.seat[i].chips >= Boot
<1>1. Funded(x) \subseteq Seats
  BY DEF Funded, Occupied
<1>2. ASSUME NEW i \in Funded(x) PROVE x.seat[i].user \in Users /\ x.seat[i].chips >= Boot
  <2>1. x.seat[i].user # NoUser /\ x.seat[i].chips >= DealIn
    BY <1>2 DEF Funded, Occupied
  <2>2. x.seat[i].user \in Users /\ x.seat[i].chips \in Nat
    BY <1>1, <2>1, SeatFields
  <2>3. DealIn \in Nat /\ DealIn >= Boot /\ Boot \in Nat
    BY PokerAssumption DEF DealIn
  <2> HIDE DEF DealIn
  <2> QED BY <2>1, <2>2, <2>3
<1> QED BY <1>1, <1>2

\* A hand as it is dealt.
LEMMA DealtIs ==
  ASSUME game \in Games, NEW x, Rest(x), x.open, NEW w, Books(x, w), NEW b \in Funded(x)
  PROVE  LET y == Dealt(x, b)
         IN  /\ Playing(y) /\ InHand(y) = Funded(x) /\ Fresh(y)
             /\ \A i \in InHand(y) : y.seat[i].chips >= Boot
             /\ Books(y, w) /\ InPlay(y, w) = InPlay(x, w)
<1> DEFINE P == Funded(x)
           U == {x.seat[i].user : i \in P}
           S == [i \in Seats |-> [Empty EXCEPT !.user = x.seat[i].user, !.chips = x.seat[i].chips,
                                               !.in = i \in P]]
           E == [u \in Users |->
                    IF u \notin U THEN NoEntry
                    ELSE LET i == SeatOf(x, u) IN
                         [NoEntry EXCEPT !.seat = i, !.chips = x.seat[i].chips,
                                         !.written = x.seat[i].chips]]
           H == [NoHand EXCEPT !.live = TRUE, !.minRaise = Boot, !.cur = BigBlind, !.entry = E]
           y == Dealt(x, b)
<1>1. y = [x EXCEPT !.starting = FALSE, !.button = b, !.h = H, !.seat = S]
  BY DEF Dealt
<1>2. x \in TableRecords /\ OneSeat(x) /\ Matched(x) /\ x.end = "no" /\ x.h = NoHand
  BY SoundIs DEF Rest
<1>3. b \in P /\ P \subseteq Seats /\ \A i \in P : x.seat[i].user \in Users /\ x.seat[i].chips >= Boot
  BY <1>2, FundedAre
<1> HIDE DEF P
<1>4. ASSUME NEW i \in Seats
      PROVE  /\ S[i] \in SeatRecords /\ S[i].user = x.seat[i].user /\ S[i].chips = x.seat[i].chips
             /\ S[i].streetBet = 0 /\ ~S[i].allIn /\ (S[i].in <=> i \in P)
  <2> DEFINE c == x.seat[i].user
             n == x.seat[i].chips
             d == i \in P
  <2>1. c \in Users \cup {NoUser} /\ n \in Nat /\ d \in BOOLEAN
    BY <1>2, SeatFields
  <2>2. S[i] = [Empty EXCEPT !.user = c, !.chips = n, !.in = d]
    OBVIOUS
  <2> HIDE DEF S, c, n, d
  <2>3. S[i] = [user |-> c, chips |-> n, in |-> d, streetBet |-> 0, allIn |-> FALSE, acted |-> FALSE]
    BY <2>2, ZenonT(60) DEF Empty
  <2>4. S[i] \in SeatRecords
    BY <2>1, <2>3 DEF SeatRecords
  <2>5. S[i].user = c /\ S[i].chips = n /\ S[i].streetBet = 0 /\ ~S[i].allIn /\ (S[i].in <=> d)
    BY <2>3
  <2> QED BY <2>4, <2>5 DEF c, n, d
<1>5. S \in [Seats -> SeatRecords]
  BY <1>4
<1>6. ASSUME NEW u \in Users
      PROVE  /\ E[u] \in EntryRecords /\ E[u].contributed = 0 /\ ~E[u].out /\ ~E[u].left
             /\ E[u].chips = E[u].written
             /\ u \notin U => E[u].seat = NoSeat
             /\ u \in U => /\ E[u].seat \in P /\ x.seat[E[u].seat].user = u
                           /\ E[u].chips = x.seat[E[u].seat].chips
  <2>1. CASE u \notin U
    <3>1. E[u] = NoEntry
      BY <2>1
    <3> QED BY <2>1, <3>1 DEF NoEntry, EntryRecords
  <2>2. CASE u \in U
    <3> DEFINE i == SeatOf(x, u)
               n == x.seat[i].chips
    <3>1. PICK j \in P : x.seat[j].user = u
      BY <2>2
    <3>2. i \in Seats /\ x.seat[i].user = u
      BY <1>3, <3>1, SeatOfIs DEF IsSeated
    <3>3. i = j
      BY <1>2, <1>3, <3>1, <3>2, PokerAssumption DEF OneSeat
    <3>4. n \in Nat
      BY <1>2, <3>2, SeatFields
    <3>5. E[u] = [NoEntry EXCEPT !.seat = i, !.chips = n, !.written = n]
      BY <2>2
    <3> HIDE DEF E, i, n
    <3>6. E[u] = [seat |-> i, chips |-> n, written |-> n, contributed |-> 0,
                  out |-> FALSE, left |-> FALSE]
      BY <3>5, ZenonT(60) DEF NoEntry
    <3>7. E[u] \in EntryRecords
      BY <3>2, <3>4, <3>6 DEF EntryRecords
    <3>8. E[u].seat = i /\ E[u].chips = n /\ E[u].written = n /\ E[u].contributed = 0
          /\ ~E[u].out /\ ~E[u].left
      BY <3>6
    <3> QED BY <2>2, <3>1, <3>2, <3>3, <3>7, <3>8 DEF n
  <2> QED BY <2>1, <2>2
<1>7. E \in [Users -> EntryRecords]
  BY <1>6, Zenon
<1>8. BigBlind \in Nat /\ Boot \in Nat
  BY PokerAssumption DEF BigBlind
<1> HIDE DEF S, E
<1>9. H = [NoHand EXCEPT !.live = TRUE, !.minRaise = Boot, !.cur = BigBlind, !.entry = E]
  OBVIOUS
<1> HIDE DEF H
<1>10. H \in HandRecords /\ H.live /\ H.street = 0 /\ H.cur = BigBlind /\ H.entry = E
  <2>1. NoHand \in HandRecords /\ NoHand.street = 0
    BY DEF NoHand, NoEntry, HandRecords, EntryRecords
  <2> QED BY <1>7, <1>8, <1>9, <2>1 DEF HandRecords
<1> HIDE DEF y
<1>11. /\ y \in TableRecords /\ y.seat = S /\ y.h = H /\ y.button = b
       /\ y.open = x.open /\ ~y.starting /\ y.end = x.end
  <2>1. b \in Seats
    BY <1>3
  <2>2. b \in Int
    BY <2>1, SeatsAre
  <2> QED BY <1>1, <1>2, <1>5, <1>10, <2>1, <2>2 DEF TableRecords
<1>12. y.h.live /\ y.h.street = 0 /\ y.h.cur = BigBlind /\ y.h.entry = E
  BY <1>10, <1>11
<1>13. InHand(y) = P
  BY <1>3, <1>4, <1>11 DEF InHand
<1>14. OneSeat(y)
  BY <1>2, <1>4, <1>11 DEF OneSeat
<1>15. Matched(y)
  <2>1. ASSUME NEW i \in P
        PROVE  LET u == y.seat[i].user
                   e == y.h.entry[u]
               IN  u \in Users /\ e.seat = i /\ ~e.out /\ ~e.left /\ e.chips = y.seat[i].chips
    <3> DEFINE u == x.seat[i].user
    <3>1. u \in Users /\ u \in U /\ i \in Seats /\ u # NoUser
      BY <1>3, PokerAssumption
    <3>2. E[u].seat = i
      BY <1>2, <1>3, <1>6, <3>1 DEF OneSeat
    <3>3. y.seat[i].user = u /\ y.seat[i].chips = x.seat[i].chips
      BY <1>4, <1>11, <3>1
    <3> HIDE DEF U
    <3> QED BY <1>6, <1>12, <3>1, <3>2, <3>3
  <2>2. ASSUME NEW u \in Users, y.h.entry[u].seat # NoSeat
        PROVE  y.h.entry[u].seat \in P /\ y.seat[y.h.entry[u].seat].user = u
    <3> HIDE DEF U
    <3>1. u \in U
      BY <1>6, <1>12, <2>2
    <3> QED BY <1>3, <1>4, <1>6, <1>11, <1>12, <3>1
  <2> QED BY <1>13, <2>1, <2>2 DEF Matched
<1>16. Even(y)
  <2>1. \A i \in P : Collected(y, i) = 0 /\ y.seat[i].streetBet = 0
    <3> TAKE i \in P
    <3>1. i \in Seats /\ x.seat[i].user \in Users
      BY <1>3
    <3>2. y.seat[i].user = x.seat[i].user /\ y.seat[i].streetBet = 0
      BY <1>4, <1>11, <3>1
    <3>3. E[x.seat[i].user].contributed = 0
      BY <1>6, <3>1
    <3> QED BY <1>12, <3>2, <3>3 DEF Collected
  <2>2. Here(y) # "draw"
    BY <1>12, StreetsAre DEF Here
  <2> QED BY <1>8, <1>12, <1>13, <2>1, <2>2, WaitingIn DEF Even
<1>17. Playing(y)
  <2>1. 0 \in 0 .. LastStreet - 1
    BY StreetsAre
  <2> QED BY <1>2, <1>11, <1>12, <1>14, <1>15, <1>16, <2>1 DEF Playing
<1>18. Fresh(y)
  <2>1. \A i \in Seats : y.seat[i].streetBet = 0 /\ ~y.seat[i].allIn
    BY <1>4, <1>11
  <2>2. \A u \in Users : y.h.entry[u].contributed = 0
    BY <1>6, <1>12
  <2>3. y.button \in InHand(y)
    BY <1>3, <1>11, <1>13
  <2> QED BY <1>12, <2>1, <2>2, <2>3 DEF Fresh
<1>19. \A i \in P : y.seat[i].chips >= Boot
  BY <1>3, <1>4, <1>11
<1>20. \A u \in Users : Acc(y, w, u) = w[u] /\ Acc(x, w, u) = w[u]
  <2> TAKE u \in Users
  <2>1. E[u].chips = E[u].written /\ E[u].chips \in Nat /\ w[u] \in Nat
    BY <1>6 DEF EntryRecords, Books
  <2>2. Acc(y, w, u) = w[u] + (E[u].chips - E[u].written)
    BY <1>12 DEF Acc
  <2>3. Acc(x, w, u) = w[u] + (0 - 0)
    BY <1>2 DEF Acc, NoHand, NoEntry
  <2> QED BY <2>1, <2>2, <2>3
<1>21. Books(y, w)
  <2>1. ASSUME NEW s \in Seats, y.seat[s].user # NoUser
        PROVE  Acc(y, w, y.seat[s].user) = y.seat[s].chips
    <3>1. y.seat[s].user = x.seat[s].user /\ y.seat[s].chips = x.seat[s].chips
      BY <1>4, <1>11
    <3>2. x.seat[s].user \in Users /\ x.seat[s].user # NoUser
      BY <1>2, <2>1, <3>1, SeatFields
    <3> QED BY <1>20, <3>1, <3>2 DEF Books
  <2>2. \A u \in Users : y.h.entry[u].chips = y.h.entry[u].written /\ y.h.entry[u].contributed = 0
    BY <1>6, <1>12
  <2>3. \A u, t \in Users : y.h.entry[u].seat # NoSeat /\ y.h.entry[u].seat = y.h.entry[t].seat => u = t
    <3> SUFFICES ASSUME NEW u \in Users, NEW t \in Users, E[u].seat # NoSeat, E[u].seat = E[t].seat
                 PROVE  u = t
      BY <1>12
    <3> HIDE DEF U
    <3>1. u \in U /\ t \in U
      BY <1>6
    <3> QED BY <1>6, <3>1
  <2> QED BY <2>1, <2>2, <2>3 DEF Books
<1>22. InPlay(y, w) = InPlay(x, w)
  <2>1. \A u \in Users : y.h.entry[u].contributed = 0 /\ x.h.entry[u].contributed = 0
    BY <1>2, <1>6, <1>12 DEF NoHand, NoEntry
  <2>2. \A u \in Users : Own(y, w)[u] = Own(x, w)[u]
    BY <1>20, <2>1 DEF Own
  <2> QED BY <1>2, <1>11, <1>15, <1>21, <2>2, InPlaySame
<1> QED BY <1>13, <1>17, <1>18, <1>19, <1>21, <1>22 DEF y, P

\* The blinds are posted by two players.
LEMMA BlindsAre ==
  ASSUME game = "blinds", game \in Games, NEW x, Playing(x), Fresh(x), Enough(x),
         NEW w, Books(x, w)
  PROVE  LET y == Blinds(x)
         IN  /\ Playing(y) /\ InHand(y) = InHand(x) /\ y.button = x.button /\ y.h.street = 0
             /\ Books(y, w) /\ InPlay(y, w) = InPlay(x, w)
<1> DEFINE sb == IF Cardinality(InHand(x)) = 2 THEN x.button ELSE NextSeat(InHand(x), x.button)
           bb == NextSeat(InHand(x), sb)
           z == Stake(x, sb, SmallBlind)
           y == Stake(z, bb, BigBlind)
<1>1. Blinds(x) = y
  BY DEF Blinds
<1>2. BigBlind = Boot /\ BigBlind \in Nat /\ SmallBlind \in Nat /\ SmallBlind <= BigBlind
  <2>1. \A n \in Nat : n \div 2 \in Nat /\ n \div 2 <= n
    OBVIOUS
  <2> QED BY <2>1, PokerAssumption DEF BigBlind, SmallBlind
<1>3. InHand(x) # {} /\ InHand(x) \in SUBSET Seats /\ \A i : InHand(x) # {i}
  <2>1. Cardinality(InHand(x)) >= 2 /\ Cardinality(InHand(x)) \in Nat
    BY WaitingIn, Counts DEF Enough
  <2>2. ASSUME NEW i, InHand(x) = {i} PROVE FALSE
    <3>1. Cardinality(InHand(x)) = 1
      <4>1. \E j \in InHand(x) : InHand(x) = {j}
        BY <2>2
      <4> QED BY <4>1, WaitingIn, Counts
    <3> QED BY <2>1, <3>1
  <2>3. InHand(x) # {}
    BY <2>1, WaitingIn, Counts
  <2> QED BY <2>2, <2>3, WaitingIn
<1>4. Seats \subseteq Int
  BY SeatsAre
<1>5. sb \in InHand(x)
  <2>1. x.button \in InHand(x)
    BY DEF Fresh
  <2>2. NextSeat(InHand(x), x.button) \in InHand(x)
    BY <1>3, <1>4, <2>1, NextSeatIs
  <2> QED BY <2>1, <2>2
<1>6. bb \in InHand(x) /\ bb # sb
  <2>1. sb \in Int /\ InHand(x) # {sb}
    BY <1>3, <1>4, <1>5
  <2> HIDE DEF sb
  <2> QED BY <1>3, <1>5, <2>1, NextSeatIs
<1> HIDE DEF sb, bb
<1>7. sb \in Seats /\ bb \in Seats /\ x.seat[sb].streetBet = 0 /\ x.seat[bb].streetBet = 0 /\ x.h.cur = BigBlind
  BY <1>3, <1>5, <1>6 DEF Fresh
<1>8. Playing(z) /\ InHand(z) = InHand(x)
  <2>1. x.seat[sb].streetBet + SmallBlind <= x.h.cur
    BY <1>2, <1>7
  <2> QED BY <1>2, <1>5, <2>1, StakeIs
<1>9. Books(z, w) /\ InPlay(z, w) = InPlay(x, w)
  <2>1. Matched(z)
    BY <1>8 DEF Playing
  <2> QED BY <1>2, <1>5, <2>1, StakeBooks
<1>10. z.h.cur = BigBlind /\ z.seat[bb].streetBet = 0 /\ z.button = x.button /\ z.h.street = x.h.street
  <2>1. SameTable(x, z) /\ z.h.cur = x.h.cur /\ z.button = x.button
    BY <1>2, <1>5, StakeFields
  <2>2. z.seat[bb] = x.seat[bb]
    BY <1>2, <1>5, <1>6, <1>7, StakeFields
  <2> HIDE DEF z
  <2> QED BY <1>7, <2>1, <2>2 DEF SameTable
<1> HIDE DEF z
<1>11. Playing(y) /\ InHand(y) = InHand(x)
  <2>1. z.seat[bb].streetBet + BigBlind <= z.h.cur
    BY <1>2, <1>10
  <2> QED BY <1>2, <1>6, <1>8, <2>1, StakeIs
<1>12. Books(y, w) /\ InPlay(y, w) = InPlay(x, w)
  <2>1. Matched(y)
    BY <1>11 DEF Playing
  <2> QED BY <1>2, <1>6, <1>8, <1>9, <2>1, StakeBooks
<1>13. y.button = x.button /\ y.h.street = 0
  <2>1. y.button = z.button /\ y.h.street = z.h.street
    BY <1>2, <1>6, <1>8, StakeFields DEF SameTable
  <2> QED BY <1>10, <2>1 DEF Fresh
<1> QED BY <1>1, <1>11, <1>12, <1>13

\* The antes are put in by everybody dealt in, and are no bet of the street.
LEMMA AntesAre ==
  ASSUME game # "blinds", game \in Games, NEW x, Playing(x), Fresh(x),
         \A i \in InHand(x) : x.seat[i].chips >= Boot, NEW w, Books(x, w)
  PROVE  LET y == Antes(x)
         IN  /\ Playing(y) /\ InHand(y) = InHand(x) /\ y.button = x.button /\ y.h.street = 0
             /\ Books(y, w) /\ InPlay(y, w) = InPlay(x, w)
<1> DEFINE y == Antes(x)
           S == [i \in Seats |-> IF i \notin InHand(x) THEN x.seat[i]
                                 ELSE [Stake(x, i, Ante).seat[i] EXCEPT !.streetBet = 0]]
           pays(u) == IsSeated(x, u) /\ SeatOf(x, u) \in InHand(x)
           E == [u \in Users |-> IF pays(u) THEN Stake(x, SeatOf(x, u), Ante).h.entry[u]
                                 ELSE x.h.entry[u]]
<1>1. y = [x EXCEPT !.seat = S, !.h.entry = E]
  BY DEF Antes
<1>2. Ante = Boot /\ Ante \in Nat /\ BigBlind = 0
  BY PokerAssumption DEF Ante, BigBlind
<1>3. x \in TableRecords /\ OneSeat(x) /\ Matched(x) /\ InHand(x) \subseteq Seats
  BY WaitingIn DEF Playing
<1>4. ASSUME NEW i \in InHand(x)
      PROVE  LET k == Stake(x, i, Ante)
                 u == x.seat[i].user
             IN  /\ i \in Seats /\ u \in Users /\ u # NoUser /\ k \in TableRecords
                 /\ x.seat[i].chips \in Nat /\ x.seat[i].chips >= Ante
                 /\ k.seat[i].user = u /\ k.seat[i].in = x.seat[i].in
                 /\ k.seat[i].chips = x.seat[i].chips - Ante
                 /\ k.h.entry[u].seat = x.h.entry[u].seat
                 /\ k.h.entry[u].written = x.h.entry[u].written
                 /\ k.h.entry[u].chips = x.seat[i].chips - Ante
                 /\ k.h.entry[u].contributed = x.h.entry[u].contributed + Ante
  <2> DEFINE k == Stake(x, i, Ante)
             u == x.seat[i].user
             n == Least(Ante, x.seat[i].chips)
  <2>1. i \in Seats /\ x.seat[i].chips \in Nat /\ x.seat[i].chips >= Ante
    BY <1>2, <1>3, SeatFields
  <2>2. n = Ante
    BY <1>2, <2>1 DEF Least
  <2>3. /\ u \in Users /\ k \in TableRecords
        /\ k.seat[i].user = u /\ k.seat[i].in = x.seat[i].in
        /\ k.seat[i].chips = x.seat[i].chips - n
        /\ k.h.entry[u].seat = x.h.entry[u].seat
        /\ k.h.entry[u].written = x.h.entry[u].written
        /\ k.h.entry[u].chips = x.seat[i].chips - n
        /\ k.h.entry[u].contributed = x.h.entry[u].contributed + n
    BY <1>2, StakeFields
  <2>4. u # NoUser
    BY <2>3, PokerAssumption
  <2> HIDE DEF n, k, u
  <2> QED BY <2>1, <2>2, <2>3, <2>4 DEF k, u

<1>5. ASSUME NEW i \in InHand(x)
      PROVE  Stake(x, i, Ante).h.entry[x.seat[i].user].out = x.h.entry[x.seat[i].user].out
  BY <1>2, StakeFields
<1>6. ASSUME NEW i \in InHand(x)
      PROVE  Stake(x, i, Ante).h.entry[x.seat[i].user].left = x.h.entry[x.seat[i].user].left
  BY <1>2, StakeFields
<1>7. ASSUME NEW i \in InHand(x)
      PROVE  /\ S[i] \in SeatRecords /\ S[i].user = x.seat[i].user /\ S[i].in = x.seat[i].in
             /\ S[i].chips = x.seat[i].chips - Ante /\ S[i].streetBet = 0
  <2> DEFINE c == Stake(x, i, Ante).seat[i]
  <2>1. /\ i \in Seats /\ c \in SeatRecords
        /\ c.user = x.seat[i].user /\ c.in = x.seat[i].in /\ c.chips = x.seat[i].chips - Ante
    BY <1>4, SeatFields
  <2>2. S[i] = [c EXCEPT !.streetBet = 0]
    BY <2>1
  <2> HIDE DEF c, S
  <2>3. S[i] \in SeatRecords
    <3>1. 0 \in Nat
      OBVIOUS
    <3> QED BY <2>1, <2>2, <3>1, Zenon DEF SeatRecords
  <2> QED BY <2>1, <2>2, <2>3 DEF SeatRecords
<1>8. \A i \in Seats \ InHand(x) : S[i] = x.seat[i]
  OBVIOUS
<1>9. S \in [Seats -> SeatRecords]
  <2>1. \A i \in Seats : S[i] \in SeatRecords
    <3> HIDE DEF S
    <3> QED BY <1>3, <1>7, <1>8, SeatFields
  <2> QED BY <2>1
<1>10. ASSUME NEW u \in Users, pays(u)
       PROVE  LET i == SeatOf(x, u)
              IN  /\ i \in InHand(x) /\ x.seat[i].user = u
                  /\ E[u] = Stake(x, i, Ante).h.entry[u]
  BY <1>10, SeatOfIs
<1>11. ASSUME NEW u \in Users, ~pays(u) PROVE E[u] = x.h.entry[u]
  BY <1>11
<1>12. ASSUME NEW i \in InHand(x)
       PROVE  pays(x.seat[i].user) /\ SeatOf(x, x.seat[i].user) = i
  <2> DEFINE u == x.seat[i].user
  <2>1. i \in Seats /\ u # NoUser
    BY <1>4
  <2>2. IsSeated(x, u)
    BY <2>1 DEF IsSeated
  <2>3. SeatOf(x, u) \in Seats /\ x.seat[SeatOf(x, u)].user = u
    BY <2>2, SeatOfIs
  <2>4. SeatOf(x, u) = i
    BY <1>3, <2>1, <2>3 DEF OneSeat
  <2> QED BY <2>2, <2>4
<1> HIDE DEF S, E, pays
<1>13. ASSUME NEW u \in Users
       PROVE  /\ E[u] \in EntryRecords /\ E[u].seat = x.h.entry[u].seat
              /\ E[u].written = x.h.entry[u].written
              /\ E[u].contributed = IF pays(u) THEN Ante ELSE 0
              /\ E[u].contributed = 0 \/ E[u].seat # NoSeat
  <2>1. x.h.entry[u].contributed = 0
    BY DEF Fresh
  <2>2. CASE pays(u)
    <3> DEFINE i == SeatOf(x, u)
    <3>1. i \in InHand(x) /\ x.seat[i].user = u /\ E[u] = Stake(x, i, Ante).h.entry[u]
      BY <1>10, <2>2
    <3>2. /\ Stake(x, i, Ante) \in TableRecords
          /\ E[u].seat = x.h.entry[u].seat /\ E[u].written = x.h.entry[u].written
          /\ E[u].contributed = x.h.entry[u].contributed + Ante
      BY <1>4, <3>1
    <3>3. E[u] \in EntryRecords
      BY <3>1, <3>2, EntryFields
    <3>4. x.h.entry[u].seat = i
      BY <1>3, <3>1 DEF Matched
    <3> QED BY <1>2, <1>3, <2>1, <2>2, <3>1, <3>2, <3>3, <3>4, SeatsAre
  <2>3. CASE ~pays(u)
    BY <1>3, <1>11, <2>1, <2>3, EntryFields
  <2> QED BY <2>2, <2>3
<1>14. ASSUME NEW u \in Users PROVE E[u].out = x.h.entry[u].out
  BY <1>5, <1>10, <1>11, SMTT(30)
<1>15. ASSUME NEW u \in Users PROVE E[u].left = x.h.entry[u].left
  BY <1>6, <1>10, <1>11, SMTT(30)
<1>16. ASSUME NEW u \in Users
       PROVE  E[u].chips = x.h.entry[u].chips - (IF pays(u) THEN Ante ELSE 0)
  <2>1. x.h.entry[u].chips \in Nat
    BY <1>3, EntryFields
  <2>2. CASE pays(u)
    <3> DEFINE i == SeatOf(x, u)
    <3>1. i \in InHand(x) /\ x.seat[i].user = u /\ E[u] = Stake(x, i, Ante).h.entry[u]
      BY <1>10, <2>2
    <3>2. E[u].chips = x.seat[i].chips - Ante
      BY <1>4, <3>1
    <3>3. x.h.entry[u].chips = x.seat[i].chips
      BY <1>3, <3>1 DEF Matched
    <3> QED BY <2>2, <3>2, <3>3
  <2>3. CASE ~pays(u)
    BY <1>11, <2>1, <2>3
  <2> QED BY <2>2, <2>3
<1>17. E \in [Users -> EntryRecords]
  <2>1. E = [u \in Users |-> E[u]]
    BY DEF E
  <2> QED BY <1>13, <2>1
<1> HIDE DEF y
<1>18. /\ y \in TableRecords /\ y.seat = S /\ y.h.entry = E /\ SameTable(x, y)
       /\ y.h.cur = x.h.cur /\ y.button = x.button
  BY <1>1, <1>3, <1>9, <1>17 DEF TableRecords, HandRecords, SameTable
<1>19. \A i \in Seats : y.seat[i].user = x.seat[i].user /\ y.seat[i].in = x.seat[i].in /\ y.seat[i].streetBet = 0
  BY <1>7, <1>8, <1>18 DEF Fresh
<1>20. InHand(y) = InHand(x) /\ Here(y) = Here(x)
  BY <1>18, <1>19 DEF InHand, Here, SameTable
<1>21. OneSeat(y)
  BY <1>3, <1>19 DEF OneSeat
<1>22. Matched(y)
  <2>1. ASSUME NEW i \in InHand(x)
        PROVE  LET u == y.seat[i].user
                   e == y.h.entry[u]
               IN  u \in Users /\ e.seat = i /\ ~e.out /\ ~e.left /\ e.chips = y.seat[i].chips
    <3> DEFINE u == x.seat[i].user
               d == x.h.entry[u]
    <3>1. u \in Users /\ d.seat = i /\ ~d.out /\ ~d.left /\ d.chips = x.seat[i].chips
      BY <1>3 DEF Matched
    <3>2. y.seat[i].user = u /\ y.seat[i].chips = x.seat[i].chips - Ante
      BY <1>3, <1>7, <1>18, <1>19
    <3>3. E[u].seat = i /\ E[u].chips = x.seat[i].chips - Ante
      BY <1>12, <1>13, <1>16, <3>1
    <3>4. ~E[u].out /\ ~E[u].left
      BY <1>14, <1>15, <3>1
    <3> QED BY <1>18, <3>1, <3>2, <3>3, <3>4
  <2>2. ASSUME NEW u \in Users, E[u].seat # NoSeat, ~E[u].out, ~E[u].left
        PROVE  E[u].seat \in InHand(x) /\ y.seat[E[u].seat].user = u
    <3>1. x.h.entry[u].seat # NoSeat /\ ~x.h.entry[u].out /\ ~x.h.entry[u].left
      BY <1>13, <1>14, <1>15, <2>2
    <3>2. x.h.entry[u].seat \in InHand(x) /\ x.seat[x.h.entry[u].seat].user = u
      BY <1>3, <3>1 DEF Matched
    <3> QED BY <1>3, <1>13, <1>19, <3>2
  <2> QED BY <1>18, <1>20, <2>1, <2>2 DEF Matched
<1>23. Even(y)
  <2>1. ASSUME NEW i \in InHand(x) PROVE Collected(y, i) = Ante /\ y.seat[i].streetBet = 0
    <3>1. i \in Seats /\ x.seat[i].user \in Users /\ E[x.seat[i].user].contributed = Ante
      BY <1>4, <1>12, <1>13
    <3>2. y.seat[i].user = x.seat[i].user /\ y.seat[i].streetBet = 0
      BY <1>19, <3>1
    <3> QED BY <1>2, <1>18, <3>1, <3>2 DEF Collected
  <2>2. y.h.cur = 0
    BY <1>2, <1>18 DEF Fresh
  <2>3. CanAct(y) \subseteq InHand(x)
    BY <1>20, WaitingIn
  <2>4. \A p \in CanAct(y), q \in InHand(y) : Collected(y, q) <= Collected(y, p)
    BY <1>2, <1>20, <2>1, <2>3
  <2> QED BY <1>20, <2>1, <2>2, <2>4 DEF Even
<1>24. Playing(y)
  BY <1>18, <1>21, <1>22, <1>23 DEF Playing, SameTable
<1>25. \A u \in Users :
         /\ Acc(y, w, u) = Acc(x, w, u) - (IF pays(u) THEN Ante ELSE 0)
         /\ Acc(x, w, u) \in Nat
  <2> TAKE u \in Users
  <2> DEFINE a == IF pays(u) THEN Ante ELSE 0
             e == x.h.entry[u]
  <2>1. /\ e.chips \in Nat /\ e.written \in Nat /\ w[u] \in Nat /\ a \in Nat
        /\ Acc(x, w, u) \in Nat
    BY <1>2, <1>3, EntryFields, AccIs DEF Books
  <2>2. E[u].chips = e.chips - a /\ E[u].written = e.written
    BY <1>13, <1>16
  <2>3. Acc(x, w, u) = w[u] + (e.chips - e.written)
    BY DEF Acc
  <2>4. Acc(y, w, u) = w[u] + (E[u].chips - E[u].written)
    BY <1>18 DEF Acc
  <2> HIDE DEF a, e
  <2>5. Acc(y, w, u) = Acc(x, w, u) - a
    BY <2>1, <2>2, <2>3, <2>4
  <2> QED BY <2>1, <2>5 DEF a
<1>26. \A u \in Users : Live(y, u) <=> Live(x, u)
  BY <1>13, <1>14, <1>15, <1>18 DEF Live
<1>27. Books(y, w)
  <2>1. ASSUME NEW s \in Seats, y.seat[s].user # NoUser
        PROVE  Acc(y, w, y.seat[s].user) = y.seat[s].chips
    <3> DEFINE u == x.seat[s].user
    <3>1. y.seat[s].user = u /\ u \in Users /\ Acc(x, w, u) = x.seat[s].chips
      BY <1>3, <1>19, <2>1, SeatFields DEF Books
    <3>2. CASE s \in InHand(x)
      BY <1>7, <1>12, <1>18, <1>25, <3>1, <3>2
    <3>3. CASE s \notin InHand(x)
      <4>1. ~pays(u)
        <5>1. pays(u) => SeatOf(x, u) = s
          <6>1. pays(u) => SeatOf(x, u) \in Seats /\ x.seat[SeatOf(x, u)].user = u
            BY <1>3, <1>10, <3>1
          <6> QED BY <1>3, <2>1, <3>1, <6>1 DEF OneSeat
        <5>2. pays(u) => SeatOf(x, u) \in InHand(x)
          BY <1>10, <3>1
        <5> QED BY <3>3, <5>1, <5>2
      <4>2. y.seat[s].chips = x.seat[s].chips
        BY <1>8, <1>18, <3>3
      <4> QED BY <1>25, <3>1, <4>1, <4>2
    <3> QED BY <3>2, <3>3
  <2>2. ASSUME NEW u \in Users
        PROVE  /\ ~Live(y, u) => y.h.entry[u].chips = y.h.entry[u].written
               /\ y.h.entry[u].seat = NoSeat => y.h.entry[u].contributed = 0
    <3>1. E[u].seat = NoSeat => E[u].contributed = 0
      BY <1>13
    <3>2. ASSUME ~Live(y, u) PROVE E[u].chips = E[u].written
      <4>1. ~Live(x, u)
        BY <1>26, <3>2
      <4>2. ~pays(u)
        <5> SUFFICES ASSUME pays(u) PROVE FALSE
          OBVIOUS
        <5>1. SeatOf(x, u) \in InHand(x) /\ x.seat[SeatOf(x, u)].user = u
          BY <1>10
        <5>2. LET e == x.h.entry[u] IN e.seat = SeatOf(x, u) /\ ~e.out /\ ~e.left
          BY <1>3, <5>1 DEF Matched
        <5>3. SeatOf(x, u) # NoSeat
          BY <1>3, <5>1, SeatsAre
        <5> QED BY <4>1, <5>2, <5>3 DEF Live
      <4>3. E[u].chips = x.h.entry[u].chips
        BY <1>11, <4>2
      <4> QED BY <1>13, <4>1, <4>3 DEF Books
    <3> QED BY <1>18, <3>1, <3>2
  <2>3. \A u \in Users : y.h.entry[u].seat = x.h.entry[u].seat
    BY <1>13, <1>18
  <2> QED BY <2>1, <2>2, <2>3 DEF Books
<1>28. InPlay(y, w) = InPlay(x, w)
  <2>1. ASSUME NEW u \in Users PROVE Own(y, w)[u] = Own(x, w)[u]
    <3>1. Own(y, w)[u] = Acc(y, w, u) + E[u].contributed
      BY <1>18 DEF Own
    <3>2. Own(x, w)[u] = Acc(x, w, u) + 0
      BY DEF Own, Fresh
    <3> QED BY <1>2, <1>13, <1>25, <3>1, <3>2
  <2> QED BY <1>3, <1>18, <1>22, <1>27, <2>1, InPlaySame
<1>29. y.h.street = 0
  BY <1>18 DEF SameTable, Fresh
<1> QED BY <1>18, <1>20, <1>24, <1>27, <1>28, <1>29 DEF y

\* A hand is dealt, or the countdown stops for want of players.
LEMMA StartHandKeeps ==
  ASSUME game \in Games, Sound(table, wallet), StartHand
  PROVE  Kept
<1> DEFINE players == Funded(table)
           b == NextSeat(players, table.button)
           x == Dealt(table, b)
           y == IF game = "blinds" THEN Blinds(x) ELSE Antes(x)
           w == wallet
<1>1. /\ table.open /\ table.starting
      /\ IF Cardinality(players) < MinPlayers
         THEN Becomes([table EXCEPT !.starting = FALSE], Nothing)
         ELSE Becomes(IF Waiting(y) = {} THEN EndStreet(y)
                      ELSE SetTurn(y, FirstToAct(y)), Nothing)
  BY DEF StartHand
<1>2. Rest(table) /\ table \in TableRecords /\ Books(table, w) /\ w \in [Users -> Nat]
  <2>1. ~Good(table)
    BY <1>1 DEF Good, Playing
  <2> QED BY <2>1, SoundIs DEF Sound, Books
<1>3. w = [u \in Users |-> wallet[u] + Nothing[u]]
  BY <1>2, PaidNothing
<1>4. CASE Cardinality(players) < MinPlayers
  <2> DEFINE z == [table EXCEPT !.starting = FALSE]
  <2>1. Becomes(z, Nothing)
    BY <1>1, <1>4
  <2>2. z \in TableRecords /\ z.seat = table.seat /\ z.h = table.h /\ SameChips(table, z)
    BY <1>2 DEF TableRecords, SameChips
  <2>3. /\ z.end = table.end /\ z.ticking = table.ticking /\ z.late = table.late
        /\ z.open = table.open
    BY <1>2 DEF TableRecords
  <2> HIDE DEF z
  <2>4. Rest(z) /\ z.open
    BY <1>1, <1>2, <2>2, <2>3 DEF Rest, OneSeat, InHand
  <2>5. Books(z, w) /\ InPlay(z, w) = InPlay(table, w)
    BY <1>2, <2>2, SameBooks
  <2> HIDE DEF w
  <2>6. Sound(table', wallet') /\ (game # "house" => InPlay(table', wallet') = InPlay(z, w))
    BY <1>3, <2>1, <2>4, <2>5, BecomesIs
  <2> QED BY <2>5, <2>6 DEF Kept, w
<1>5. CASE ~(Cardinality(players) < MinPlayers)
  <2>1. players \in SUBSET Seats /\ players # {} /\ Cardinality(players) >= 2
    <3>1. players \in SUBSET Seats /\ IsFiniteSet(players)
      BY <1>2, FundedAre, SeatsAre, FS_Subset
    <3>2. Cardinality(players) \in Nat /\ (Cardinality(players) = 0 <=> players = {})
      BY <3>1, Counts
    <3> HIDE DEF players
    <3> QED BY <1>5, <3>1, <3>2 DEF MinPlayers
  <2>2. table.button \in Int
    <3>1. table.button \in Seats \cup {NoSeat}
      BY <1>2, Zenon DEF TableRecords
    <3>2. Seats \subseteq Int /\ NoSeat \in Int
      BY SeatsAre DEF NoSeat
    <3> QED BY <3>1, <3>2
  <2>3. b \in Funded(table)
    BY <2>1, <2>2, NextSeatIs
  <2>4. /\ Playing(x) /\ InHand(x) = players /\ Fresh(x)
        /\ \A i \in InHand(x) : x.seat[i].chips >= Boot
        /\ Books(x, w) /\ InPlay(x, w) = InPlay(table, w)
    <3> HIDE DEF b
    <3> QED BY <1>1, <1>2, <2>3, DealtIs
  <2> HIDE DEF x, b
  <2>5. Enough(x)
    BY <2>1, <2>4 DEF Enough
  <2>6. /\ Playing(y) /\ InHand(y) = players /\ y.button = x.button /\ y.h.street = 0
        /\ Books(y, w) /\ InPlay(y, w) = InPlay(table, w)
    <3>1. CASE game = "blinds"
      BY <2>4, <2>5, <3>1, BlindsAre
    <3>2. CASE game # "blinds"
      BY <2>4, <3>2, AntesAre
    <3> QED BY <3>1, <3>2
  <2>7. y.button \in Int
    <3>1. y.button \in players
      BY <2>4, <2>6 DEF Fresh
    <3>2. Seats \subseteq Int
      BY SeatsAre
    <3> HIDE DEF y, players
    <3> QED BY <2>1, <3>1, <3>2
  <2> HIDE DEF y
  <2>8. Enough(y) /\ ~OnlyOneLeft(y) /\ y \in TableRecords
    <3>1. Cardinality(InHand(y)) # 1 /\ InHand(y) # {}
      BY <2>1, <2>6
    <3>2. Enough(y)
      BY <2>1, <2>6 DEF Enough
    <3> QED BY <2>6, <3>1, <3>2 DEF OnlyOneLeft, Playing
  <2> DEFINE z == IF Waiting(y) = {} THEN EndStreet(y) ELSE SetTurn(y, FirstToAct(y))
  <2>9. Outcome(z) /\ SameChips(y, z)
    <3>1. CASE Waiting(y) = {}
      BY <2>6, <2>8, <3>1, EndStreetIs, AdvanceKeeps
    <3>2. CASE Waiting(y) # {}
      <4>1. 0 \in 0 .. LastStreet - 1
        BY StreetsAre
      <4>2. FirstToAct(y) \in Waiting(y)
        BY <2>6, <2>7, <3>2, <4>1, FirstIsWaiting
      <4> QED BY <2>6, <2>8, <3>2, <4>2, TurnGiven, TurnKeeps DEF Outcome
    <3> QED BY <3>1, <3>2
  <2>10. Becomes(z, Nothing)
    BY <1>1, <1>5
  <2> HIDE DEF z
  <2>11. Books(z, w) /\ InPlay(z, w) = InPlay(y, w)
    BY <2>6, <2>9, SameBooks
  <2> HIDE DEF w
  <2>12. Sound(table', wallet') /\ (game # "house" => InPlay(table', wallet') = InPlay(z, w))
    BY <1>3, <2>9, <2>10, <2>11, BecomesIs
  <2> QED BY <2>6, <2>11, <2>12 DEF Kept, w
<1> QED BY <1>4, <1>5

-----------------------------------------------------------------------------
(* What the game settles once *)

\* The streets are the game's, and the game is the table's for good.
LEMMA SameStreets ==
  ASSUME game' = game, NEW i
  PROVE  Street(i)' = Street(i) /\ LastStreet' = LastStreet
<1>1. Street(i)' = Street(i)
  BY DEF Street
<1>2. LastStreet' = LastStreet
  BY DEF LastStreet
<1> QED BY <1>1, <1>2

\* So are those a street waits for.
LEMMA SameWaiting ==
  ASSUME game' = game, NEW x
  PROVE  /\ Here(x)' = Here(x) /\ InHand(x)' = InHand(x) /\ CanAct(x)' = CanAct(x)
         /\ Waiting(x)' = Waiting(x)
<1>1. Here(x)' = Here(x)
  BY SameStreets DEF Here
<1>2. InHand(x)' = InHand(x) /\ CanAct(x)' = CanAct(x) /\ NeedsAction(x)' = NeedsAction(x)
      /\ Undecided(x)' = Undecided(x)
  BY DEF InHand, CanAct, NeedsAction, Undecided
<1> QED BY <1>1, <1>2 DEF Waiting

\* And what a hand and a table are.
LEMMA SameHand ==
  ASSUME game' = game, NEW x
  PROVE  Good(x)' = Good(x) /\ Rest(x)' = Rest(x)
<1>1. OneSeat(x)' = OneSeat(x) /\ Matched(x)' = Matched(x)
  BY DEF OneSeat, Matched, InHand
<1>2. Even(x)' = Even(x)
  BY SameWaiting DEF Even, Collected
<1>3. Playing(x)' = Playing(x)
  BY <1>1, <1>2, SameStreets DEF Playing, TableRecords, HandRecords, SeatRecords, EntryRecords, Seats
<1>4. Enough(x)' = Enough(x)
  BY SameWaiting DEF Enough
<1>5. Good(x)' = Good(x)
  BY <1>3, <1>4, SameWaiting DEF Good
<1>6. Rest(x)' = Rest(x)
  BY <1>1, SameWaiting DEF Rest
<1> QED BY <1>5, <1>6

\* The chips in play are the wallets' and the hand's, whatever the game.
LEMMA SameSound ==
  ASSUME game' = game, NEW x, NEW w
  PROVE  Sound(x, w)' = Sound(x, w) /\ InPlay(x, w)' = InPlay(x, w)
<1>1. Books(x, w)' = Books(x, w)
  BY DEF Books, Acc, Live
<1>2. InPlay(x, w)' = InPlay(x, w)
  BY DEF InPlay, Accounts, PutIn, Acc
<1> QED BY <1>1, <1>2, SameHand DEF Sound

-----------------------------------------------------------------------------
(* The invariant *)

\* While the table is open its hand is sound and nothing is lost of what was brought;
\* once it is gone nobody is seated, and no more is in the wallets than was brought.
IInv ==
    /\ game \in Games /\ brought \in Nat /\ hands \in 0 .. MaxHands
    /\ IF table.open
       THEN Sound(table, wallet) /\ (game # "house" => InPlay(table, wallet) = brought)
       ELSE Closed(table, wallet) /\ (game # "house" => SumOver(wallet, Users) <= brought)

\* A step that keeps the table sound keeps the invariant.
LEMMA KeptIs ==
  ASSUME IInv, table.open, Kept, UNCHANGED <<game, brought>>, hands' \in 0 .. MaxHands
  PROVE  IInv'
<1>1. /\ Sound(table', wallet') /\ table'.open
      /\ game # "house" => InPlay(table', wallet') = brought
      /\ game \in Games /\ brought \in Nat
  BY DEF IInv, Kept, Sound
<1>2. Sound(table, wallet)' /\ (game # "house" => InPlay(table, wallet)' = brought)
  BY <1>1, SameSound
<1> QED BY <1>1, <1>2 DEF IInv

\* Nothing happens at a table that is gone.
LEMMA ClosedStays ==
  ASSUME IInv, ~table.open, Next
  PROVE  FALSE
<1>1. ~table.ticking /\ ~table.late /\ ~table.h.live
  BY DEF IInv, Closed, NewTable, NoHand
<1> QED
  BY <1>1, Zenon DEF Next, StartHand, TurnClockFires, TurnTimeout, Destroy, Restart,
              Fold, Check, Call, Bet, Play, Draw, OnTurn, Join, Leave, Buy

\* Every operation of a table that is open keeps it sound, or adds what was bought, or ends it.
LEMMA StepKeeps ==
  ASSUME IInv, table.open, Next
  PROVE  IInv'
<1>1. /\ game \in Games /\ Sound(table, wallet) /\ hands \in 0 .. MaxHands /\ brought \in Nat
      /\ game # "house" => InPlay(table, wallet) = brought
  BY DEF IInv
<1>2. MaxHands \in Nat
  BY PokerAssumption
<1>3. CASE StartHand
  <2>1. UNCHANGED <<game, brought>> /\ hands' \in 0 .. MaxHands
    BY <1>1, <1>2, <1>3 DEF StartHand
  <2> QED BY <1>1, <1>3, <2>1, StartHandKeeps, KeptIs
<1>4. CASE TurnClockFires \/ Restart
  <2>1. UNCHANGED <<game, brought, hands>>
    BY <1>4 DEF TurnClockFires, Restart
  <2> QED BY <1>1, <1>4, <2>1, ClocksKeep, KeptIs
<1>5. CASE TurnTimeout
  <2>1. UNCHANGED <<game, brought, hands>>
    BY <1>5 DEF TurnTimeout
  <2> QED BY <1>1, <1>5, <2>1, TimeoutKeeps, KeptIs
<1>6. CASE Destroy
  <2>1. UNCHANGED <<game, brought, hands>>
    BY <1>6 DEF Destroy
  <2>2. Closed(table', wallet') /\ SumOver(wallet', Users) <= InPlay(table, wallet)
    BY <1>1, <1>6, DestroyIs
  <2>3. Closed(table, wallet)' /\ ~table'.open
    BY <2>2 DEF Closed, NewTable, NoHand, NoEntry, Seats
  <2>4. game # "house" => SumOver(wallet', Users) <= brought
    BY <1>1, <2>2
  <2>5. game # "house" => SumOver(wallet, Users)' <= brought
    BY <2>4
  <2> QED BY <1>1, <2>1, <2>3, <2>5 DEF IInv
<1>7. ASSUME NEW i \in Seats, Fold(i) \/ Check(i) \/ Call(i) \/ Bet(i) \/ Play(i) \/ Draw(i)
      PROVE  IInv'
  <2>1. UNCHANGED <<game, brought, hands>>
    BY <1>7 DEF Fold, Check, Call, Bet, Play, Draw
  <2>2. Kept
    BY <1>1, <1>7, FoldKeeps, CheckKeeps, CallKeeps, BetKeeps, PlayKeeps
  <2> QED BY <1>1, <2>1, <2>2, KeptIs
<1>8. ASSUME NEW u \in Users, Join(u) \/ Leave(u)
      PROVE  IInv'
  <2>1. UNCHANGED <<game, brought, hands>>
    BY <1>8 DEF Join, Leave
  <2>2. Kept
    BY <1>1, <1>8, JoinKeeps, LeaveKeeps
  <2> QED BY <1>1, <2>1, <2>2, KeptIs
<1>9. ASSUME NEW u \in Users, Buy(u)
      PROVE  IInv'
  <2>1. UNCHANGED <<game, hands>> /\ brought' = brought + 1
    BY <1>9 DEF Buy
  <2>2. Sound(table', wallet') /\ InPlay(table', wallet') = InPlay(table, wallet) + 1
    BY <1>1, <1>9, BuyKeeps
  <2>3. table'.open
    BY <2>2 DEF Sound
  <2>4. Sound(table, wallet)' /\ InPlay(table, wallet)' = InPlay(table, wallet) + 1
    BY <2>1, <2>2, SameSound
  <2>5. brought' \in Nat /\ (game # "house" => InPlay(table, wallet)' = brought')
    BY <1>1, <2>1, <2>4
  <2> QED BY <1>1, <2>1, <2>3, <2>4, <2>5 DEF IInv
<1> QED BY <1>3, <1>4, <1>5, <1>6, <1>7, <1>8, <1>9 DEF Next

\* A new table is at rest, and all the chips are in the wallets.
LEMMA InitKeeps ==
  ASSUME Init
  PROVE  IInv
<1>1. game \in Games /\ hands = MaxHands /\ MaxHands \in Nat /\ table = NewTable
  BY PokerAssumption DEF Init
<1>2. wallet \in [Users -> Nat] /\ brought = SumOver(wallet, Users)
  <2>1. PICK w \in Stacks : wallet = w /\ brought = Total(w, Users)
    BY DEF Init
  <2> QED BY <2>1, PokerAssumption DEF Total, SumOver
<1>3. brought \in Nat
  BY <1>2, PokerAssumption, SumNat
<1>4. NewTable \in TableRecords
  <2>1. Empty \in SeatRecords /\ NoHand \in HandRecords
    BY DEF Empty, NoHand, NoEntry, SeatRecords, HandRecords, EntryRecords
  <2> QED BY <2>1 DEF NewTable, TableRecords
<1>5. /\ table.end = "no" /\ table.h = NoHand /\ ~table.ticking /\ ~table.late /\ table.open
      /\ \A i \in Seats : table.seat[i] = Empty
  BY <1>1 DEF NewTable
<1>6. \A i \in Seats : table.seat[i].user = NoUser /\ ~table.seat[i].in
  BY <1>5 DEF Empty
<1>7. Rest(table)
  BY <1>1, <1>4, <1>5, <1>6 DEF Rest, OneSeat, InHand
<1>8. ASSUME NEW u \in Users PROVE table.h.entry[u] = NoEntry
  BY <1>5 DEF NoHand
<1>9. \A u \in Users : LET e == table.h.entry[u]
                       IN  e.seat = NoSeat /\ e.chips = 0 /\ e.written = 0 /\ e.contributed = 0
  BY <1>8 DEF NoEntry
<1>10. Books(table, wallet)
  BY <1>2, <1>6, <1>9 DEF Books
<1>11. InPlay(table, wallet) = brought
  <2>1. ASSUME NEW u \in Users PROVE Own(table, wallet)[u] = wallet[u]
    <3>1. wallet[u] \in Nat /\ Own(table, wallet)[u] = wallet[u] + (0 - 0) + 0
      BY <1>2, <1>9 DEF Own, Acc
    <3> QED BY <3>1
  <2>2. Own(table, wallet) = wallet
    BY <1>2, <2>1 DEF Own
  <2>3. table \in TableRecords /\ Matched(table)
    BY <1>7, SoundIs
  <2> QED BY <1>2, <1>10, <2>2, <2>3, InPlayIs
<1> QED BY <1>1, <1>3, <1>5, <1>7, <1>10, <1>11 DEF IInv, Sound

\* The invariant holds, whatever the players do and whenever the process stops.
THEOREM Inductive == Spec => []IInv
<1>1. Init => IInv
  BY InitKeeps
<1>2. IInv /\ [Next]_vars => IInv'
  <2> SUFFICES ASSUME IInv, [Next]_vars PROVE IInv'
    OBVIOUS
  <2>1. CASE Next
    BY <2>1, ClosedStays, StepKeeps
  <2>2. CASE UNCHANGED vars
    <3>1. UNCHANGED <<game, brought, wallet, hands, table>>
      BY <2>2 DEF vars
    <3>2. Sound(table, wallet)' = Sound(table', wallet') /\ InPlay(table, wallet)' = InPlay(table', wallet')
      BY <3>1, SameSound
    <3>3. Closed(table, wallet)' = Closed(table', wallet') /\ SumOver(wallet, Users)' = SumOver(wallet', Users)
      BY DEF Closed, NewTable, NoHand, NoEntry, Seats
    <3> QED BY <3>1, <3>2, <3>3 DEF IInv
  <2> QED BY <2>1, <2>2
<1> QED BY <1>1, <1>2, PTL DEF Spec

-----------------------------------------------------------------------------
(* What the invariant says *)

\* An open table is sound, a closed one is empty.
LEMMA OpenOrClosed ==
  ASSUME IInv
  PROVE  /\ game \in Games /\ wallet \in [Users -> Nat]
         /\ table.open => Sound(table, wallet)
         /\ ~table.open => /\ Closed(table, wallet) /\ ~table.h.live /\ ~table.starting
                           /\ table.end = "no" /\ table.h = NoHand /\ table.seat = [i \in Seats |-> Empty]
<1>1. game \in Games /\ IF table.open THEN Sound(table, wallet) ELSE Closed(table, wallet)
  BY DEF IInv
<1>2. wallet \in [Users -> Nat]
  BY <1>1 DEF Sound, Books, Closed
<1>3. Closed(table, wallet) => /\ ~table.h.live /\ ~table.starting /\ table.end = "no"
                               /\ table.h = NoHand /\ table.seat = [i \in Seats |-> Empty]
  BY DEF Closed, NewTable, NoHand
<1> QED BY <1>1, <1>2, <1>3

\* Types: no balance is ever negative, nobody has two seats, and no closure leaves an end behind.
THEOREM TypeCorrect == Spec => []TypeOK
<1>1. IInv => TypeOK
  <2> SUFFICES ASSUME IInv PROVE TypeOK
    OBVIOUS
  <2>1. /\ game \in Games /\ brought \in Nat /\ hands \in 0 .. MaxHands
        /\ wallet \in [Users -> Nat]
    BY OpenOrClosed DEF IInv
  <2>2. CASE table.open
    <3>1. /\ table \in TableRecords /\ OneSeat(table) /\ table.end = "no"
          /\ Rest(table) \/ Good(table)
      BY <2>2, OpenOrClosed, SoundIs DEF Sound
    <3>2. table.starting => ~table.h.live
      BY <3>1 DEF Rest, Good, Playing, NoHand
    <3>3. \A i \in Seats : LET s == table.seat[i] IN
             /\ s.user \in Users \cup {NoUser} /\ {s.chips, s.streetBet} \subseteq Nat
             /\ \A j \in Seats \ {i} : s.user # NoUser => table.seat[j].user # s.user
      <4> TAKE i \in Seats
      <4>1. /\ table.seat[i].user \in Users \cup {NoUser}
            /\ table.seat[i].chips \in Nat /\ table.seat[i].streetBet \in Nat
        BY <3>1, SeatFields
      <4>2. \A j \in Seats \ {i} : table.seat[i].user # NoUser
                                     => table.seat[j].user # table.seat[i].user
        BY <3>1 DEF OneSeat
      <4> QED BY <4>1, <4>2
    <3>4. table.h.turn \in Seats \cup {NoSeat}
      BY <3>1, HandFields
    <3>5. \A u \in Users : LET e == table.h.entry[u] IN
             {e.chips, e.written, e.contributed} \subseteq Nat
      BY <3>1, EntryFields
    <3> QED BY <2>1, <3>1, <3>2, <3>3, <3>4, <3>5 DEF TypeOK
  <2>3. CASE ~table.open
    <3>1. /\ table.end = "no" /\ ~table.starting /\ table.h = NoHand
          /\ table.seat = [i \in Seats |-> Empty]
      BY <2>3, OpenOrClosed
    <3>2. \A i \in Seats : table.seat[i] = Empty
      BY <3>1
    <3>3. table.h.turn = NoSeat /\ \A u \in Users : table.h.entry[u] = NoEntry
      BY <3>1 DEF NoHand
    <3>4. \A u \in Users : LET e == table.h.entry[u] IN e.chips = 0 /\ e.written = 0 /\ e.contributed = 0
      BY <3>3 DEF NoEntry
    <3>5. \A i \in Seats : LET s == table.seat[i] IN s.user = NoUser /\ s.chips = 0 /\ s.streetBet = 0
      BY <3>2 DEF Empty
    <3> QED BY <2>1, <3>1, <3>3, <3>4, <3>5 DEF TypeOK
  <2> QED BY <2>2, <2>3
<1> QED BY <1>1, Inductive, PTL

\* A hand always waits for somebody whose answer its street needs, with a clock that
\* runs or a callback on the way.
THEOREM HandsCanMove == Spec => []HandCanMove
<1>1. IInv => HandCanMove
  <2> SUFFICES ASSUME IInv, table.h.live PROVE HandCanMove
    BY DEF HandCanMove
  <2>1. Good(table)
    BY OpenOrClosed DEF Sound, Rest, NoHand
  <2> QED BY <2>1 DEF Good, HandCanMove
<1> QED BY <1>1, Inductive, PTL

\* Nobody who can still bet has less collected than another who is in: no showdown is
\* reached for a bet one was not asked to call.
THEOREM NoFreeRides == Spec => []NobodyRidesFree
<1>1. IInv => NobodyRidesFree
  <2> SUFFICES ASSUME IInv PROVE NobodyRidesFree
    OBVIOUS
  <2>1. CASE Good(table)
    <3>1. \A p \in CanAct(table), q \in InHand(table) : Collected(table, q) <= Collected(table, p)
      BY <2>1 DEF Good, Playing, Even
    <3> QED BY <3>1 DEF NobodyRidesFree, Collected
  <2>2. CASE ~Good(table)
    <3>1. InHand(table) = {}
      <4>1. CASE table.open
        BY <2>2, <4>1, OpenOrClosed DEF Sound, Rest
      <4>2. CASE ~table.open
        <5>1. \A i \in Seats : table.seat[i] = Empty
          BY <4>2, OpenOrClosed
        <5> QED BY <5>1 DEF InHand, Empty
      <4> QED BY <4>1, <4>2
    <3> QED BY <3>1 DEF NobodyRidesFree
  <2> QED BY <2>1, <2>2
<1> QED BY <1>1, Inductive, PTL

\* A total is a sum.
LEMMA TotalIs == \A f, S : Total(f, S) = SumOver(f, S)
BY DEF Total, SumOver

\* What a player holds at a sound table is what the books say.
LEMMA HeldIs ==
  ASSUME Sound(table, wallet), NEW u \in Users
  PROVE  Held(u) = Acc(table, wallet, u) /\ (~table.h.live => Held(u) = wallet[u])
<1>1. /\ table \in TableRecords /\ OneSeat(table) /\ Matched(table) /\ Books(table, wallet)
      /\ Rest(table) \/ Good(table)
      /\ ~table.h.live => Rest(table)
      /\ wallet[u] \in Nat /\ u # NoUser
  <2>1. Rest(table) \/ Good(table)
    BY DEF Sound
  <2>2. Books(table, wallet) /\ wallet \in [Users -> Nat]
    BY DEF Sound, Books
  <2>3. u # NoUser
    BY PokerAssumption
  <2> QED BY <2>1, <2>2, <2>3, SoundIs
<1>2. ASSUME IsSeated(table, u) PROVE Held(u) = Acc(table, wallet, u)
  <2>1. SeatOf(table, u) \in Seats /\ table.seat[SeatOf(table, u)].user = u
    BY <1>2, SeatOfIs
  <2> QED BY <1>1, <1>2, <2>1 DEF Held, Books
<1>3. ASSUME ~IsSeated(table, u) PROVE Held(u) = Acc(table, wallet, u)
  <2>1. \A s \in InHand(table) : table.seat[s].user # u
    BY <1>3, WaitingIn DEF IsSeated
  <2>2. Held(u) = wallet[u] /\ ~Live(table, u)
    BY <1>1, <1>3, <2>1, NotLive DEF Held, Sound
  <2> QED BY <1>1, <2>2, AccIs
<1>4. ~table.h.live => Acc(table, wallet, u) = wallet[u]
  <2> SUFFICES ASSUME ~table.h.live PROVE Acc(table, wallet, u) = wallet[u]
    OBVIOUS
  <2>1. table.h.entry[u] = NoEntry
    BY <1>1 DEF Rest, NoHand
  <2>2. Acc(table, wallet, u) = wallet[u] + (0 - 0)
    BY <2>1 DEF Acc, NoEntry
  <2> QED BY <1>1, <2>2
<1> QED BY <1>2, <1>3, <1>4

\* Between players no hand makes or destroys a chip, and between hands the wallets hold
\* what the seats do.
THEOREM ChipsAreConserved == Spec => []ChipsConserved
<1>1. IInv => ChipsConserved
  <2> SUFFICES ASSUME IInv PROVE ChipsConserved
    OBVIOUS
  <2> DEFINE H == [u \in Users |-> Held(u)]
  <2>1. CASE table.open
    <3>1. Sound(table, wallet) /\ (game # "house" => InPlay(table, wallet) = brought)
      BY <2>1 DEF IInv
    <3>2. H = Accounts(table, wallet)
      BY <3>1, HeldIs DEF Accounts
    <3>3. InPlay(table, wallet) = Total(H, Users) + Pot(table)
      BY <3>2, TotalIs DEF InPlay, Pot, PutIn
    <3> HIDE DEF H
    <3>4. ~table.h.live => \A u \in Users : wallet[u] = Held(u)
      BY <3>1, HeldIs
    <3> QED BY <2>1, <3>1, <3>3, <3>4 DEF ChipsConserved, H
  <2>2. CASE ~table.open
    <3>1. Closed(table, wallet) /\ table.seat = [i \in Seats |-> Empty]
          /\ (game # "house" => SumOver(wallet, Users) <= brought)
      BY <2>2, OpenOrClosed DEF IInv
    <3>2. \A u \in Users : Held(u) = wallet[u]
      <4>1. \A i \in Seats : table.seat[i].user = NoUser
        BY <3>1 DEF Empty
      <4> QED BY <4>1, PokerAssumption DEF Held, IsSeated
    <3>3. H = wallet
      BY <3>1, <3>2 DEF Closed
    <3>4. Total(H, Users) = SumOver(wallet, Users)
      BY <3>3, TotalIs
    <3> HIDE DEF H
    <3> QED BY <2>2, <3>1, <3>4 DEF ChipsConserved, H
  <2> QED BY <2>1, <2>2
<1> QED BY <1>1, Inductive, PTL

\* At every point of a hand a showdown would give each chip to the best of those still in
\* who put in as many, and of the chips only others put in, to the best of those who put in
\* most.
THEOREM PotsLayered == Spec => []PotsAreLayers
<1> DEFINE c == [i \in Seats |-> Contributed(table, i)]
           in == StillIn(table)
           top == Max({0} \cup {c[i] : i \in in})
           reached(k) == {j \in in : c[j] >= Least(k, top)}
           highest == Max({c[i] : i \in Seats})
           worth(rank, i) == [k \in 1 .. highest |-> IF i \in Best(reached(k), rank)
                                THEN Cardinality({j \in Seats : c[j] >= k}) ELSE 0]
           award(rank) == Award(SidePots(c, in), rank, table.button)
<1>1. ASSUME IInv, table.h.live, NEW rank \in Orders
      PROVE  award(rank) = [i \in Seats |-> Total(worth(rank, i), 1 .. highest)]
  <2>1. Good(table) /\ table \in TableRecords /\ Matched(table)
    BY <1>1, OpenOrClosed DEF Sound, Rest, NoHand, Good, Playing
  <2>2. c \in Puts /\ in = InHand(table)
    BY <2>1, ContributionsAre DEF Contributions
  <2>3. in \in SUBSET Seats /\ in # {}
    BY <2>1, <2>2, WaitingIn DEF Good
  <2>4. table.button \in Int
    <3>1. table.button \in Seats \cup {NoSeat}
      BY <2>1, Zenon DEF TableRecords
    <3>2. Seats \subseteq Int /\ NoSeat \in Int
      BY SeatsAre DEF NoSeat
    <3> QED BY <3>1, <3>2
  <2>5. rank \in Ranks
    BY DEF Orders
  <2>6. top = Top(c, in)
    BY DEF Top
  <2>7. \A k : reached(k) = Reached(c, in, k)
    BY <2>6 DEF Reached
  <2> HIDE DEF c, in, top, reached
  <2>8. highest = Max(Levels(c))
    <3> DEFINE V == {c[i] : i \in Seats}
    <3>1. V \subseteq Nat /\ V # {} /\ IsFiniteSet(V)
      <4>1. Seats # {}
        BY <2>3
      <4>2. V \subseteq Nat /\ V # {}
        BY <2>2, <4>1 DEF Puts
      <4>3. V \subseteq Levels(c) /\ IsFiniteSet(Levels(c))
        BY <2>2, LevelsAre DEF Levels
      <4> QED BY <4>2, <4>3, FS_Subset
    <3>2. Levels(c) = V \cup {0} /\ Levels(c) \subseteq Nat /\ IsFiniteSet(Levels(c))
      BY <2>2, LevelsAre DEF Levels
    <3> HIDE DEF V
    <3>3. Max(V) \in V /\ \A v \in V : v <= Max(V)
      BY <3>1, MaxIs
    <3>4. Max(Levels(c)) \in Levels(c) /\ \A v \in Levels(c) : v <= Max(Levels(c))
      BY <3>2, MaxIs
    <3>5. Max(V) = Max(Levels(c))
      <4>1. Max(V) \in Nat /\ Max(Levels(c)) \in Nat
        BY <3>1, <3>2, <3>3, <3>4
      <4>2. Max(V) <= Max(Levels(c))
        BY <3>2, <3>3, <3>4
      <4>3. Max(Levels(c)) <= Max(V)
        BY <3>2, <3>3, <3>4, <4>1
      <4> QED BY <4>1, <4>2, <4>3
    <3> QED BY <3>5 DEF V
  <2> HIDE DEF highest
  <2>9. /\ award(rank) \in [Seats -> Nat]
        /\ \A i \in Seats :
             award(rank)[i] = SumOver(DueIn(c, in, {o \in SUBSET Seats : i \in Best(o, rank)}, highest),
                                      1 .. highest)
    BY <2>2, <2>3, <2>4, <2>5, <2>8, AwardIs
  <2> HIDE DEF award
  <2>10. ASSUME NEW i \in Seats PROVE award(rank)[i] = Total(worth(rank, i), 1 .. highest)
    <3> DEFINE A == {o \in SUBSET Seats : i \in Best(o, rank)}
    <3>1. \A k : Reached(c, in, k) \in SUBSET Seats
      BY <2>3 DEF Reached
    <3>2. \A k : Reached(c, in, k) \in A <=> i \in Best(reached(k), rank)
      BY <2>7, <3>1
    <3>3. \A k : Holders(c, k) = {j \in Seats : c[j] >= k}
      BY DEF Holders
    <3> HIDE DEF A
    <3>4. DueIn(c, in, A, highest) = worth(rank, i)
      BY <3>2, <3>3 DEF DueIn
    <3>5. award(rank)[i] = SumOver(DueIn(c, in, A, highest), 1 .. highest)
      BY <2>9 DEF A
    <3> HIDE DEF worth
    <3> QED BY <3>4, <3>5, TotalIs
  <2> HIDE DEF worth
  <2> QED BY <2>9, <2>10
<1>2. IInv => PotsAreLayers
  BY <1>1 DEF PotsAreLayers
<1> QED BY <1>2, Inductive, PTL

=============================================================================
