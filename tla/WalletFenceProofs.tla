-------------------------- MODULE WalletFenceProofs --------------------------
(***************************************************************************)
(* Proofs about WalletFence, for every set of players and rooms, any       *)
(* number of hands, any boot, and every choice of what the database        *)
(* refuses, what goes unheard, and of switches and destroys: where a       *)
(* player is, what the marks cover, and that the lobby may use a wallet.   *)
(*                                                                         *)
(* The last part accounts for every chip, and needs a database that writes *)
(* and answers every settlement (Exact): with a settlement refused, chips  *)
(* that the wallet never had are played with.                              *)
(***************************************************************************)
EXTENDS WalletFence, Sums

-----------------------------------------------------------------------------
(* The records, and what a step makes of one of them *)

Rooms == Tables \cup {None}
Ops == [kind : Kinds, at : Rooms, to : Rooms, chips : Nat]
States == {"open", "closing", "ending", "gone", "shut"}
Numbers == 1 .. HandsPerTable
RoomRecords == [state : States, busy : BOOLEAN, by : Users \cup {None}, live : BOOLEAN,
         dealt : 0 .. HandsPerTable, pot : Nat, seat : [Users -> SeatRecords],
         entry : [Users -> EntryRecords], marked : SUBSET Users, unseated : SUBSET Users]
Stages == {"none", "first", "owed", "retried", "detached", "done"}
Answers == {"none", "ok", "error", "duplicate_action"}
Requests == [stage : Stages, rows : SUBSET Users, delta : [Users -> Int],
             landed : BOOLEAN, answer : Answers, balance : [Users -> Nat]]

Types ==
    /\ wallet \in [Users -> Nat] /\ packs \in Nat /\ spent \in Nat
    /\ index \in [Users -> Rooms]
    /\ departing \in [Users -> Nat] /\ owed \in [Users -> Nat]
    /\ op \in [Users -> Ops]
    /\ table \in [Tables -> RoomRecords]
    /\ chain \in [Hands -> Requests]

\* What a step makes of one room, of one hand's request and of one player's
\* operation.
Room(r, x) == /\ x \in RoomRecords /\ table' \in [Tables -> RoomRecords]
              /\ table'[r] = x /\ \A q \in Tables \ {r} : table'[q] = table[q]
Chain(h, c) == /\ c \in Requests /\ chain' \in [Hands -> Requests]
               /\ chain'[h] = c /\ \A g \in Hands \ {h} : chain'[g] = chain[g]
Turn(u, o) == /\ o \in Ops /\ op' \in [Users -> Ops]
              /\ op'[u] = o /\ \A v \in Users \ {u} : op'[v] = op[v]

\* The fields a step leaves alone.
SameHand(t, x) == x.live = t.live /\ x.dealt = t.dealt /\ x.marked = t.marked
SameRoom(t, x) == x.state = t.state /\ x.unseated = t.unseated
SameActor(t, x) == x.busy = t.busy /\ x.by = t.by
SameHere(t, x) == \A v \in Users : x.seat[v].here = t.seat[v].here
SameActive(t, x) == \A v \in Users : x.seat[v].active = t.seat[v].active

\* The fields of a room.
LEMMA RoomFields ==
  ASSUME NEW t \in RoomRecords
  PROVE  /\ t.state \in States /\ t.busy \in BOOLEAN /\ t.by \in Users \cup {None}
         /\ t.live \in BOOLEAN /\ t.dealt \in 0 .. HandsPerTable /\ t.pot \in Nat
         /\ t.marked \subseteq Users /\ t.unseated \subseteq Users
         /\ t.seat \in [Users -> SeatRecords] /\ t.entry \in [Users -> EntryRecords]
         /\ \A u \in Users :
              /\ t.seat[u] \in SeatRecords /\ t.entry[u] \in EntryRecords
              /\ t.seat[u].here \in BOOLEAN /\ t.seat[u].active \in BOOLEAN
              /\ t.seat[u].chips \in Nat
              /\ t.entry[u].in \in BOOLEAN /\ t.entry[u].left \in BOOLEAN
              /\ t.entry[u].chips \in Nat /\ t.entry[u].written \in Nat
              /\ Due(t.entry[u]) \in Int
<1>1. /\ t.state \in States /\ t.busy \in BOOLEAN /\ t.by \in Users \cup {None}
      /\ t.live \in BOOLEAN /\ t.dealt \in 0 .. HandsPerTable /\ t.pot \in Nat
      /\ t.marked \subseteq Users /\ t.unseated \subseteq Users
      /\ t.seat \in [Users -> SeatRecords] /\ t.entry \in [Users -> EntryRecords]
  BY DEF RoomRecords
<1>2. ASSUME NEW u \in Users
      PROVE  /\ t.seat[u] \in SeatRecords /\ t.entry[u] \in EntryRecords
             /\ t.seat[u].here \in BOOLEAN /\ t.seat[u].active \in BOOLEAN
             /\ t.seat[u].chips \in Nat
             /\ t.entry[u].in \in BOOLEAN /\ t.entry[u].left \in BOOLEAN
             /\ t.entry[u].chips \in Nat /\ t.entry[u].written \in Nat
             /\ Due(t.entry[u]) \in Int
  BY <1>1 DEF SeatRecords, EntryRecords, Due
<1> QED BY <1>1, <1>2

\* The empty seat and contribution.
LEMMA Nothing ==
  /\ NoSeat \in SeatRecords /\ ~NoSeat.here /\ ~NoSeat.active
  /\ NoEntry \in EntryRecords /\ Due(NoEntry) = 0
  /\ Idle \in Ops /\ Idle.kind = "idle" /\ Idle.at = None /\ Idle.to = None /\ Idle.chips = 0
BY DEF NoSeat, NoEntry, SeatRecords, EntryRecords, Due, Idle, Ops, Kinds, Rooms

\* A room that is written is that room.
LEMMA RoomIs ==
  ASSUME Types, NEW r \in Tables, NEW x \in RoomRecords, table' = [table EXCEPT ![r] = x]
  PROVE  Room(r, x)
BY DEF Room, Types

\* So is a request,
LEMMA ChainIs ==
  ASSUME Types, NEW h \in Hands, NEW c \in Requests, chain' = [chain EXCEPT ![h] = c]
  PROVE  Chain(h, c)
BY DEF Chain, Types

\* and an operation.
LEMMA TurnIs ==
  ASSUME Types, NEW u \in Users, NEW o \in Ops, op' = [op EXCEPT ![u] = o]
  PROVE  Turn(u, o)
BY DEF Turn, Types

-----------------------------------------------------------------------------
(* What each closure makes of its room *)

\* A deal.
LEMMA StartHandIs ==
  ASSUME Types, NEW r \in Tables, StartHand(r)
  PROVE  \E x : /\ Room(r, x) /\ SameRoom(table[r], x) /\ SameActor(table[r], x)
                /\ SameHere(table[r], x) /\ x.live /\ x.dealt = table[r].dealt + 1
                /\ x.marked = table[r].marked
                /\ \A v \in Users :
                     /\ x.seat[v].active => x.seat[v].here \/ table[r].seat[v].active
                     /\ Due(x.entry[v]) # 0 => x.seat[v].here
<1> DEFINE t == table[r]
           dealt == {u \in Users : t.seat[u].here /\ t.seat[u].chips >= Boot}
           stack(u) == t.seat[u].chips - Boot
           yes == TRUE
           no == FALSE
           s == [u \in Users |-> IF u \in dealt
                                 THEN [here |-> yes, active |-> yes, chips |-> stack(u)]
                                 ELSE t.seat[u]]
           e == [u \in Users |-> IF u \in dealt
                                 THEN [in |-> yes, left |-> no, chips |-> stack(u),
                                       written |-> t.seat[u].chips]
                                 ELSE NoEntry]
           p == Boot * Cardinality(dealt)
           x == [t EXCEPT !.live = yes, !.dealt = @ + 1, !.pot = p, !.seat = s, !.entry = e]
<1>1. t \in RoomRecords
  BY DEF Types
<1>2. yes \in BOOLEAN /\ no \in BOOLEAN /\ yes
  OBVIOUS
<1>3. Boot \in Nat /\ HandsPerTable \in Nat /\ IsFiniteSet(Users)
  BY WalletAssumption
<1>4. ASSUME NEW u \in Users
      PROVE  /\ s[u] \in SeatRecords /\ (s[u].here = t.seat[u].here)
             /\ s[u].active => s[u].here \/ t.seat[u].active
             /\ e[u] \in EntryRecords /\ (Due(e[u]) # 0 => s[u].here)
  <2>1. CASE u \in dealt
    <3>1. stack(u) \in Nat /\ t.seat[u].chips \in Nat /\ t.seat[u].here
      BY <1>1, <1>3, <2>1, RoomFields
    <3>2. s[u] = [here |-> yes, active |-> yes, chips |-> stack(u)]
      BY <2>1
    <3>3. e[u] = [in |-> yes, left |-> no, chips |-> stack(u), written |-> t.seat[u].chips]
      BY <2>1
    <3> HIDE DEF s, e, stack, yes, no
    <3>4. s[u] \in SeatRecords /\ (s[u].here = yes)
      BY <3>1, <3>2, <1>2 DEF SeatRecords
    <3>5. e[u] \in EntryRecords
      BY <3>1, <3>3, <1>2 DEF EntryRecords
    <3>6. t.seat[u].here = yes
      BY <3>1, <1>1, <1>2, RoomFields
    <3> QED BY <1>2, <3>1, <3>4, <3>5, <3>6
  <2>2. CASE u \notin dealt
    <3>1. s[u] = t.seat[u] /\ e[u] = NoEntry
      BY <2>2
    <3> HIDE DEF s, e
    <3> QED BY <1>1, <3>1, RoomFields, Nothing
  <2> QED BY <2>1, <2>2
<1>5. s \in [Users -> SeatRecords] /\ e \in [Users -> EntryRecords]
  BY <1>4
<1>6. p \in Nat
  <2>1. IsFiniteSet(dealt)
    BY <1>3, FS_Subset
  <2>2. Cardinality(dealt) \in Nat
    BY <2>1, FS_CardinalityType
  <2> QED BY <1>3, <2>2
<1>7. t.dealt + 1 \in 0 .. HandsPerTable
  BY <1>1, <1>3, RoomFields DEF StartHand
<1>8. table' = [table EXCEPT ![r] = x]
  BY DEF StartHand
<1> HIDE DEF s, e, p, yes, no
<1>9. x \in RoomRecords
  BY <1>1, <1>2, <1>5, <1>6, <1>7 DEF RoomRecords
<1>10. /\ x.state = t.state /\ x.unseated = t.unseated /\ x.busy = t.busy /\ x.by = t.by
       /\ x.live = yes /\ x.dealt = t.dealt + 1 /\ x.marked = t.marked
       /\ x.seat = s /\ x.entry = e
  BY <1>1 DEF RoomRecords
<1> HIDE DEF x
<1>11. Room(r, x)
  BY <1>8, <1>9, RoomIs
<1>12. SameRoom(t, x) /\ SameActor(t, x) /\ SameHere(t, x)
  BY <1>4, <1>10 DEF SameRoom, SameActor, SameHere
<1> QED BY <1>2, <1>4, <1>10, <1>11, <1>12

\* A hand without stakes.
Emptied(t) == t.pot = 0 /\ t.entry = [v \in Users |-> NoEntry]

\* A closure that leaves the players where they are: nobody comes into the hand, and
\* nothing is due of anybody but u that was not.
Moves(t, x, u) ==
    /\ SameRoom(t, x) /\ SameActor(t, x) /\ SameHand(t, x) /\ SameHere(t, x)
    /\ \A v \in Users :
         /\ x.seat[v].active => t.seat[v].active
         /\ Due(x.entry[v]) # 0 => Due(t.entry[v]) # 0 \/ v = u
    /\ ~t.live /\ Emptied(t) => Emptied(x)

\* A bet.
LEMMA ChaalIs ==
  ASSUME Types, NEW r \in Tables, NEW u \in Users, Chaal(r, u), table[r].live
  PROVE  \E x : Room(r, x) /\ Moves(table[r], x, u)
<1> DEFINE t == table[r]
           n == t.seat[u].chips - 1
           s == [t.seat EXCEPT ![u].chips = @ - 1]
           e == [t.entry EXCEPT ![u].chips = n]
           x == [t EXCEPT !.seat = s, !.entry = e, !.pot = @ + 1]
<1>1. t \in RoomRecords /\ t.seat[u].chips > 0
  BY DEF Types, Chaal
<1>2. n \in Nat /\ t.pot + 1 \in Nat
  BY <1>1, RoomFields
<1>3. /\ s \in [Users -> SeatRecords]
      /\ \A v \in Users : s[v].here = t.seat[v].here /\ s[v].active = t.seat[v].active
  <2>1. [t.seat[u] EXCEPT !.chips = @ - 1] \in SeatRecords
        /\ [t.seat[u] EXCEPT !.chips = @ - 1].here = t.seat[u].here
        /\ [t.seat[u] EXCEPT !.chips = @ - 1].active = t.seat[u].active
    BY <1>1, <1>2, RoomFields DEF SeatRecords
  <2> QED BY <1>1, <2>1, RoomFields
<1>4. /\ e \in [Users -> EntryRecords]
      /\ \A v \in Users : v # u => e[v] = t.entry[v]
  <2>1. [t.entry[u] EXCEPT !.chips = n] \in EntryRecords
    BY <1>1, <1>2, RoomFields DEF EntryRecords
  <2> HIDE DEF n
  <2> QED BY <1>1, <2>1, RoomFields
<1>5. table' = [table EXCEPT ![r] = x]
  BY <1>1 DEF Chaal, Types, RoomRecords
<1> HIDE DEF s, e, n
<1>6. x \in RoomRecords
  BY <1>1, <1>2, <1>3, <1>4 DEF RoomRecords
<1>7. /\ x.state = t.state /\ x.unseated = t.unseated /\ x.busy = t.busy /\ x.by = t.by
      /\ x.live = t.live /\ x.dealt = t.dealt /\ x.marked = t.marked
      /\ x.seat = s /\ x.entry = e
  BY <1>1 DEF RoomRecords
<1> HIDE DEF x
<1>8. Room(r, x)
  BY <1>5, <1>6, RoomIs
<1>9. Moves(t, x, u)
  BY <1>3, <1>4, <1>7 DEF Moves, SameRoom, SameActor, SameHand, SameHere
<1> QED BY <1>8, <1>9

\* What a checkpoint leaves of a contribution is one.
LEMMA CheckpointIs ==
  ASSUME NEW w \in Nat, NEW e \in EntryRecords, NEW reason, NEW out \in Checkpoint(w, e, reason)
  PROVE  out[1] \in Nat /\ out[2] \in EntryRecords
<1>1. Clamp(w + Due(e)) \in Nat
  BY DEF Clamp, Due, EntryRecords
<1>2. [e EXCEPT !.written = e.chips] \in EntryRecords
  BY DEF EntryRecords
<1>3. \/ out = <<Clamp(w + Due(e)), [e EXCEPT !.written = e.chips]>>
      \/ out = <<w, e>>
      \/ out = <<Clamp(w + Due(e)), e>>
  BY DEF Checkpoint
<1> QED BY <1>1, <1>2, <1>3

\* A pack, up to the end of the hand that it may bring.
LEMMA PackIs ==
  ASSUME Types, NEW r \in Tables, NEW u \in Users, Pack(r, u), table[r].live
  PROVE  /\ \E y \in RoomRecords : Moves(table[r], y, u) /\ Resolve(r, y)
         /\ wallet' \in [Users -> Nat]
<1> DEFINE t == table[r]
<1>1. t \in RoomRecords /\ wallet[u] \in Nat
  BY DEF Types
<1>2. PICK out \in Checkpoint(wallet[u], t.entry[u], "hand_packed") :
         /\ wallet' = [wallet EXCEPT ![u] = out[1]]
         /\ Resolve(r, [t EXCEPT !.seat[u].active = FALSE, !.entry[u] = out[2]])
  BY DEF Pack
<1>3. out[1] \in Nat /\ out[2] \in EntryRecords
  BY <1>1, CheckpointIs, RoomFields
<1> DEFINE no == FALSE
           s == [t.seat EXCEPT ![u].active = no]
           e == [t.entry EXCEPT ![u] = out[2]]
           y == [t EXCEPT !.seat[u].active = no, !.entry[u] = out[2]]
<1>4. no \in BOOLEAN /\ ~no
  OBVIOUS
<1>5. Resolve(r, y)
  BY <1>2
<1> HIDE DEF no
<1>6. /\ s \in [Users -> SeatRecords]
      /\ \A v \in Users : s[v].here = t.seat[v].here /\ (s[v].active => t.seat[v].active)
  <2>1. [t.seat[u] EXCEPT !.active = no] \in SeatRecords
        /\ [t.seat[u] EXCEPT !.active = no].here = t.seat[u].here
        /\ [t.seat[u] EXCEPT !.active = no].active = no
    BY <1>1, <1>4, RoomFields DEF SeatRecords
  <2> QED BY <1>1, <1>4, <2>1, RoomFields
<1>7. e \in [Users -> EntryRecords] /\ \A v \in Users : v # u => e[v] = t.entry[v]
  BY <1>1, <1>3, RoomFields
<1>8. y = [t EXCEPT !.seat = s, !.entry = e]
  BY <1>1 DEF RoomRecords
<1> HIDE DEF s, e, y
<1>9. y \in RoomRecords
  BY <1>1, <1>6, <1>7, <1>8 DEF RoomRecords
<1>10. /\ y.state = t.state /\ y.unseated = t.unseated /\ y.busy = t.busy /\ y.by = t.by
       /\ y.live = t.live /\ y.dealt = t.dealt /\ y.marked = t.marked
       /\ y.seat = s /\ y.entry = e
  BY <1>1, <1>8 DEF RoomRecords
<1>11. Moves(t, y, u)
  BY <1>6, <1>7, <1>10 DEF Moves, SameRoom, SameActor, SameHand, SameHere
<1>12. wallet' \in [Users -> Nat]
  BY <1>2, <1>3 DEF Types
<1> QED BY <1>5, <1>9, <1>11, <1>12

\* The hand's end: everybody's part is in the request, and the closure waits.
Closed(y, x) ==
    /\ SameRoom(y, x) /\ x.busy /\ x.by = y.by /\ SameHere(y, x)
    /\ ~x.live /\ x.dealt = y.dealt /\ x.marked = y.marked
    /\ Emptied(x) /\ \A v \in Users : ~x.seat[v].active
Asks(y, c, w) ==
    c.stage = "first" /\ \A v \in Users : c.delta[v] # 0 => Due(y.entry[v]) # 0 \/ v = w

\* The hand's end makes that of the room, and makes the request.
LEMMA EndHandIs ==
  ASSUME Types, NEW r \in Tables, NEW y \in RoomRecords, NEW w \in Users,
         y.dealt \in Numbers, EndHand(r, y, w)
  PROVE  \E x, c : Room(r, x) /\ Closed(y, x)
                   /\ Chain(<<r, y.dealt>>, c) /\ Asks(y, c, w)
<1> DEFINE no == FALSE
           yes == TRUE
           h == <<r, y.dealt>>
           s == [u \in Users |->
                   [y.seat[u] EXCEPT !.active = no,
                                     !.chips = IF u = w THEN @ + y.pot ELSE @]]
           e == [u \in Users |-> NoEntry]
           x == [y EXCEPT !.live = no, !.busy = yes, !.pot = 0, !.seat = s, !.entry = e]
           d == [u \in Users |-> Due(y.entry[u]) + (IF u = w THEN y.pot ELSE 0)]
           R == {u \in Users : y.entry[u].in /\ ~(y.entry[u].left /\ Due(y.entry[u]) = 0)}
           c == [chain[h] EXCEPT !.stage = "first", !.rows = R, !.delta = d]
<1>1. no \in BOOLEAN /\ yes \in BOOLEAN /\ yes /\ ~no
  OBVIOUS
<1>2. table' = [table EXCEPT ![r] = x] /\ chain' = [chain EXCEPT ![h] = c]
  BY DEF EndHand, Ended, Request
<1> HIDE DEF no, yes
<1>3. ASSUME NEW u \in Users
      PROVE  s[u] \in SeatRecords /\ (s[u].here = y.seat[u].here) /\ ~s[u].active
  <2>1. /\ y.seat[u] \in SeatRecords /\ y.seat[u].chips \in Nat /\ y.pot \in Nat
        /\ y.seat[u].here \in BOOLEAN
    BY RoomFields
  <2> DEFINE n == IF u = w THEN y.seat[u].chips + y.pot ELSE y.seat[u].chips
  <2>2. s[u] = [y.seat[u] EXCEPT !.active = no, !.chips = n]
    BY <2>1 DEF SeatRecords
  <2>3. n \in Nat
    BY <2>1
  <2> HIDE DEF s, n
  <2> QED BY <2>1, <2>2, <2>3, <1>1 DEF SeatRecords
<1>4. s \in [Users -> SeatRecords]
  BY <1>3
<1>5. e \in [Users -> EntryRecords]
  BY Nothing
<1>6. d \in [Users -> Int] /\ \A v \in Users : d[v] # 0 => Due(y.entry[v]) # 0 \/ v = w
  <2>1. ASSUME NEW v \in Users PROVE Due(y.entry[v]) \in Int /\ y.pot \in Int
    BY RoomFields
  <2> QED BY <2>1
<1>7. h \in Hands /\ chain[h] \in Requests
  BY Zenon DEF Hands, Numbers, Types
<1> HIDE DEF s, d, h
<1>8. c \in Requests /\ c.stage = "first" /\ c.delta = d
  BY <1>6, <1>7 DEF Requests, Stages
<1>9. x \in RoomRecords
  BY <1>1, <1>4, <1>5 DEF RoomRecords
<1>10. /\ x.state = y.state /\ x.unseated = y.unseated /\ x.busy = yes /\ x.by = y.by
       /\ x.live = no /\ x.dealt = y.dealt /\ x.marked = y.marked
       /\ x.seat = s /\ x.entry = e /\ x.pot = 0
  BY DEF RoomRecords
<1>11. e = [v \in Users |-> NoEntry]
  OBVIOUS
<1> HIDE DEF x, c, e
<1>12. Room(r, x) /\ Chain(h, c)
  BY <1>2, <1>7, <1>8, <1>9, RoomIs, ChainIs
<1>13. Closed(y, x)
  BY <1>1, <1>3, <1>10, <1>11 DEF Closed, SameRoom, SameHere, Emptied
<1>14. Asks(y, c, w)
  BY <1>6, <1>8 DEF Asks
<1> QED BY <1>12, <1>13, <1>14 DEF h

\* The ledger's answer to the hand's end: the room goes on, or is gone.
Freed(t, x) ==
    /\ x.state = (IF t.state = "ending" THEN "gone" ELSE t.state)
    /\ ~x.busy /\ x.by = None /\ x.marked = {}
    /\ x.live = t.live /\ x.dealt = t.dealt /\ x.unseated = t.unseated
    /\ x.pot = t.pot /\ x.entry = t.entry /\ SameHere(t, x) /\ SameActive(t, x)

\* Between two attempts a request stays what it was; it is over with nothing left to pay.
Rests(c, d, stage) ==
    /\ d.stage = stage
    /\ \A v \in Users : d.delta[v] = IF stage = "done" THEN 0 ELSE c.delta[v]

\* Whatever stage a request goes to, it is still one.
LEMMA RestedIs ==
  ASSUME NEW c \in Requests, NEW stage \in Stages
  PROVE  Rested(c, stage) \in Requests /\ Rests(c, Rested(c, stage), stage)
<1> DEFINE b == [u \in Users |-> 0]
           R == IF stage = "done" THEN {} ELSE c.rows
           d == IF stage = "done" THEN [u \in Users |-> 0] ELSE c.delta
           x == [c EXCEPT !.stage = stage, !.answer = "none", !.balance = b,
                          !.rows = R, !.delta = d]
<1>1. c.rows \subseteq Users /\ c.delta \in [Users -> Int]
  BY DEF Requests
<1>2. /\ b \in [Users -> Nat] /\ R \subseteq Users /\ d \in [Users -> Int]
      /\ \A v \in Users : d[v] = IF stage = "done" THEN 0 ELSE c.delta[v]
  BY <1>1
<1>3. Rested(c, stage) = x
  BY DEF Rested, Requests
<1> HIDE DEF b, R, d
<1>4. x \in Requests /\ x.stage = stage /\ x.delta = d
  BY <1>2 DEF Requests, Answers
<1> QED BY <1>2, <1>3, <1>4 DEF Rests

\* The answer to a hand's end, when that was a hand that was dealt.
LEMMA FirstReturnsIs ==
  ASSUME Types, NEW r \in Tables, FirstReturns(r), table[r].dealt \in Numbers
  PROVE  /\ \E x : Room(r, x) /\ Freed(table[r], x)
         /\ \E c, stage : /\ Chain(<<r, table[r].dealt>>, c) /\ stage \in {"owed", "done"}
                          /\ Rests(chain[<<r, table[r].dealt>>], c, stage)
                          /\ owed' = Lift(IF stage = "owed"
                                          THEN Owe(owed, Moved(<<r, table[r].dealt>>))
                                          ELSE owed, table[r].marked)
<1> DEFINE t == table[r]
           h == <<r, t.dealt>>
           st == IF t.state = "ending" THEN "gone" ELSE t.state
           no == FALSE
           x == [t EXCEPT !.busy = no, !.by = None, !.marked = {}, !.state = st]
           stage == IF chain[h].answer # "ok" THEN "owed" ELSE "done"
<1>1. t \in RoomRecords /\ h \in Hands /\ chain[h] \in Requests
  BY DEF Types, Hands, Numbers
<1>2. no \in BOOLEAN /\ ~no
  OBVIOUS
<1>3. table' = [table EXCEPT ![r] = x]
  BY <1>1 DEF FirstReturns, Types, RoomRecords
<1>4. st \in States
  BY <1>1, RoomFields DEF States
<1>5. chain' = [chain EXCEPT ![h] = Rested(chain[h], stage)] /\ stage \in {"owed", "done"}
      /\ owed' = Lift(IF stage = "owed" THEN Owe(owed, Moved(h)) ELSE owed, t.marked)
  BY DEF FirstReturns
<1>6. /\ stage \in Stages
      /\ Rested(chain[h], stage) \in Requests /\ Rests(chain[h], Rested(chain[h], stage), stage)
  BY <1>1, <1>5, RestedIs DEF Stages
<1> HIDE DEF no, stage, h
<1>7. x \in RoomRecords
  BY <1>1, <1>2, <1>4 DEF RoomRecords
<1>8. /\ x.state = st /\ x.unseated = t.unseated /\ x.busy = no /\ x.by = None
      /\ x.live = t.live /\ x.dealt = t.dealt /\ x.marked = {}
      /\ x.seat = t.seat /\ x.entry = t.entry /\ x.pot = t.pot
  BY <1>1 DEF RoomRecords
<1> HIDE DEF x
<1>9. Room(r, x) /\ Freed(t, x)
  BY <1>2, <1>3, <1>7, <1>8, RoomIs DEF Freed, SameHere, SameActive
<1>10. Chain(h, Rested(chain[h], stage))
  BY <1>1, <1>5, <1>6, ChainIs
<1> QED BY <1>5, <1>6, <1>9, <1>10 DEF h

\* What changes of a request while the database has it.
Alike(c, d) == d.stage = c.stage /\ d.delta = c.delta

\* The database carries a request out, or refuses it.
LEMMA DbSettlesIs ==
  ASSUME Types, NEW h \in Hands, DbSettles(h)
  PROVE  /\ \E c : Chain(h, c) /\ Alike(chain[h], c)
         /\ wallet' \in [Users -> Nat]
<1> DEFINE c == chain[h]
           new == [u \in Users |-> Clamp(wallet[u] + c.delta[u])]
           yes == TRUE
<1>1. c \in Requests /\ yes \in BOOLEAN
  BY DEF Types
<1>2. new \in [Users -> Nat] /\ wallet \in [Users -> Nat]
  BY <1>1 DEF Types, Requests, Clamp
<1>3. \/ \E a \in {"ok", "error"} :
             chain' = [chain EXCEPT ![h].landed = yes, ![h].answer = a, ![h].balance = new]
      \/ chain' = [chain EXCEPT ![h].answer = "duplicate_action"]
      \/ chain' = [chain EXCEPT ![h].answer = "error"]
  BY DEF DbSettles
<1>4. wallet' = new \/ wallet' = wallet
  BY DEF DbSettles
<1> HIDE DEF new, yes
<1>5. ASSUME NEW a \in Answers, chain' = [chain EXCEPT ![h].answer = a]
      PROVE  \E d : Chain(h, d) /\ Alike(c, d)
  <2> DEFINE d == [c EXCEPT !.answer = a]
  <2>1. d \in Requests /\ Alike(c, d)
    BY <1>1 DEF Requests, Alike
  <2>2. chain' = [chain EXCEPT ![h] = d]
    BY <1>5 DEF Types
  <2> HIDE DEF d
  <2> QED BY <2>1, <2>2, ChainIs
<1>6. ASSUME NEW a \in Answers,
             chain' = [chain EXCEPT ![h].landed = yes, ![h].answer = a, ![h].balance = new]
      PROVE  \E d : Chain(h, d) /\ Alike(c, d)
  <2> DEFINE d == [c EXCEPT !.landed = yes, !.answer = a, !.balance = new]
  <2>1. d \in Requests /\ Alike(c, d)
    BY <1>1, <1>2 DEF Requests, Alike
  <2>2. chain' = [chain EXCEPT ![h] = d]
    BY <1>1, <1>6 DEF Types, Requests
  <2> HIDE DEF d
  <2> QED BY <2>1, <2>2, ChainIs
<1>7. {"ok", "error", "duplicate_action"} \subseteq Answers
  BY DEF Answers
<1> QED BY <1>2, <1>3, <1>4, <1>5, <1>6, <1>7

\* A retry begins,
LEMMA RetryRunsIs ==
  ASSUME Types, NEW h \in Hands, RetryRuns(h)
  PROVE  /\ h[1] \in Tables /\ chain[h].stage = "owed"
         /\ \E c : /\ Chain(h, c) /\ c.delta = chain[h].delta
                   /\ \/ /\ c.stage = "retried" /\ Runs(h[1])
                         /\ \E x : /\ Room(h[1], x) /\ x.busy /\ x.by = table[h[1]].by
                                   /\ x.pot = table[h[1]].pot /\ x.entry = table[h[1]].entry
                                   /\ x.seat = table[h[1]].seat
                                   /\ SameRoom(table[h[1]], x) /\ SameHand(table[h[1]], x)
                      \/ /\ c.stage = "detached" /\ UNCHANGED table
<1> DEFINE r == h[1]
           t == table[r]
           c == chain[h]
           yes == TRUE
<1>1. r \in Tables /\ c \in Requests
  BY DEF Types, Hands
<1>2. t \in RoomRecords /\ yes \in BOOLEAN /\ yes
  BY <1>1 DEF Types
<1>3. c.stage = "owed"
  BY DEF RetryRuns
<1>4. ASSUME NEW s \in Stages, chain' = [chain EXCEPT ![h].stage = s]
      PROVE  \E d : Chain(h, d) /\ d.delta = c.delta /\ d.stage = s
  <2> DEFINE d == [c EXCEPT !.stage = s]
  <2>1. d \in Requests /\ d.delta = c.delta /\ d.stage = s
    BY <1>1 DEF Requests
  <2>2. chain' = [chain EXCEPT ![h] = d]
    BY <1>4 DEF Types
  <2> HIDE DEF d
  <2> QED BY <2>1, <2>2, ChainIs
<1>5. CASE Runs(r) /\ chain' = [chain EXCEPT ![h].stage = "retried"]
           /\ table' = [table EXCEPT ![r].busy = yes]
  <2> HIDE DEF yes
  <2> DEFINE x == [t EXCEPT !.busy = yes]
  <2>1. x \in RoomRecords
    BY <1>2 DEF RoomRecords
  <2>2. /\ x.busy = yes /\ x.by = t.by /\ x.pot = t.pot /\ x.entry = t.entry /\ x.seat = t.seat
        /\ x.state = t.state /\ x.unseated = t.unseated
        /\ x.live = t.live /\ x.dealt = t.dealt /\ x.marked = t.marked
    BY <1>2 DEF RoomRecords
  <2>3. table' = [table EXCEPT ![r] = x]
    BY <1>5
  <2> HIDE DEF x
  <2>4. Room(r, x)
    BY <1>1, <2>1, <2>3, RoomIs
  <2>5. "retried" \in Stages
    BY DEF Stages
  <2>6. PICK d : Chain(h, d) /\ d.delta = c.delta /\ d.stage = "retried"
    BY <1>4, <1>5, <2>5
  <2>7. SameRoom(t, x) /\ SameHand(t, x)
    BY <2>2 DEF SameRoom, SameHand
  <2> HIDE DEF r, t, c
  <2> QED BY <1>1, <1>2, <1>3, <1>5, <2>2, <2>4, <2>6, <2>7 DEF r, t, c
<1>6. CASE chain' = [chain EXCEPT ![h].stage = "detached"] /\ UNCHANGED table
  <2>1. "detached" \in Stages
    BY DEF Stages
  <2> QED BY <1>1, <1>3, <1>4, <1>6, <2>1
<1> QED BY <1>5, <1>6 DEF RetryRuns

\* and the answer to one.
LEMMA RetryReturnsIs ==
  ASSUME Types, NEW h \in Hands, RetryReturns(h)
  PROVE  /\ h[1] \in Tables /\ chain[h].stage \in {"retried", "detached"}
         /\ \E c, stage : /\ Chain(h, c) /\ stage \in {"owed", "done"}
                          /\ Rests(chain[h], c, stage)
                          /\ owed' = IF stage = "done" THEN Lift(owed, Moved(h)) ELSE owed
         /\ \/ chain[h].stage = "detached" /\ UNCHANGED table
            \/ /\ chain[h].stage = "retried"
               /\ \E x : /\ Room(h[1], x) /\ ~x.busy /\ x.by = table[h[1]].by
                         /\ x.pot = table[h[1]].pot /\ x.entry = table[h[1]].entry
                         /\ SameHere(table[h[1]], x) /\ SameActive(table[h[1]], x)
                         /\ SameRoom(table[h[1]], x) /\ SameHand(table[h[1]], x)
<1> DEFINE r == h[1]
           t == table[r]
           c == chain[h]
           s == Adopted(t, c)
           no == FALSE
<1>1. r \in Tables /\ c \in Requests /\ c.stage \in {"retried", "detached"}
  BY DEF Types, Hands, RetryReturns
<1>2. t \in RoomRecords /\ no \in BOOLEAN /\ ~no
  BY <1>1 DEF Types
<1>3. PICK stage \in {"owed", "done"} :
         /\ chain' = [chain EXCEPT ![h] = Rested(c, stage)]
         /\ owed' = IF stage = "done" THEN Lift(owed, Moved(h)) ELSE owed
  BY DEF RetryReturns
<1>4. stage \in Stages
  BY DEF Stages
<1>5. Chain(h, Rested(c, stage)) /\ Rests(c, Rested(c, stage), stage)
  BY <1>1, <1>3, <1>4, RestedIs, ChainIs
<1>6. ASSUME NEW u \in Users
      PROVE  /\ s[u] \in SeatRecords
             /\ s[u].here = t.seat[u].here /\ s[u].active = t.seat[u].active
  <2>1. t.seat[u] \in SeatRecords /\ c.balance[u] \in Nat
    BY <1>1, <1>2, RoomFields DEF Requests
  <2>2. \/ s[u] = t.seat[u]
        \/ s[u] = [t.seat[u] EXCEPT !.chips = c.balance[u]]
    BY DEF Adopted
  <2> HIDE DEF s
  <2> QED BY <2>1, <2>2 DEF SeatRecords
<1>7. s \in [Users -> SeatRecords]
  <2>1. s = [u \in Users |-> s[u]]
    BY DEF Adopted
  <2> HIDE DEF s
  <2> QED BY <1>6, <2>1
<1>8. CASE c.stage = "detached"
  <2>1. UNCHANGED table
    BY <1>8 DEF RetryReturns
  <2> HIDE DEF r, t, c
  <2> QED BY <1>1, <1>3, <1>5, <1>8, <2>1 DEF r, t, c
<1>9. CASE c.stage = "retried"
  <2>1. table' = [table EXCEPT ![r].busy = no, ![r].seat = s]
    BY <1>9 DEF RetryReturns
  <2> HIDE DEF no, s
  <2> DEFINE x == [t EXCEPT !.busy = no, !.seat = s]
  <2>2. x \in RoomRecords
    BY <1>2, <1>7 DEF RoomRecords
  <2>3. /\ x.busy = no /\ x.by = t.by /\ x.pot = t.pot /\ x.entry = t.entry /\ x.seat = s
        /\ x.state = t.state /\ x.unseated = t.unseated
        /\ x.live = t.live /\ x.dealt = t.dealt /\ x.marked = t.marked
    BY <1>2 DEF RoomRecords
  <2>4. table' = [table EXCEPT ![r] = x]
    BY <1>1, <1>2, <2>1 DEF Types, RoomRecords
  <2> HIDE DEF x
  <2>5. Room(r, x)
    BY <1>1, <2>2, <2>4, RoomIs
  <2>6. SameRoom(t, x) /\ SameHand(t, x) /\ SameHere(t, x) /\ SameActive(t, x)
    BY <1>6, <2>3 DEF SameRoom, SameHand, SameHere, SameActive
  <2> HIDE DEF r, t, c
  <2> QED BY <1>1, <1>2, <1>3, <1>5, <1>9, <2>3, <2>5, <2>6 DEF r, t, c
<1> QED BY <1>1, <1>8, <1>9

\* A player sits down.
Seated(t, x, u) ==
    /\ SameRoom(t, x) /\ SameActor(t, x) /\ SameHand(t, x)
    /\ x.pot = t.pot /\ x.entry = t.entry
    /\ \A v \in Users : /\ x.seat[v].here => t.seat[v].here \/ v = u
                        /\ t.seat[v].here => x.seat[v].here
                        /\ x.seat[v].active => t.seat[v].active

\* That is what sitting down makes of the room.
LEMMA SitsIs ==
  ASSUME Types, NEW u \in Users, NEW r \in Tables,
         table' = [table EXCEPT ![r].seat[u] = [NoSeat EXCEPT !.here = TRUE, !.chips = op[u].chips]]
  PROVE  \E x : Room(r, x) /\ Seated(table[r], x, u)
<1> DEFINE t == table[r]
           yes == TRUE
           a == [NoSeat EXCEPT !.here = yes, !.chips = op[u].chips]
           s == [t.seat EXCEPT ![u] = a]
           x == [t EXCEPT !.seat = s]
<1>1. t \in RoomRecords /\ op[u].chips \in Nat /\ yes \in BOOLEAN /\ yes
  BY DEF Types, Ops
<1>2. table' = [table EXCEPT ![r].seat[u] = a]
  OBVIOUS
<1> HIDE DEF yes
<1>3. a \in SeatRecords /\ a.here = yes /\ ~a.active
  BY <1>1 DEF NoSeat, SeatRecords
<1> HIDE DEF a
<1>4. table' = [table EXCEPT ![r] = x]
  BY <1>2
<1>5. /\ s \in [Users -> SeatRecords]
      /\ \A v \in Users : /\ s[v].here => t.seat[v].here \/ v = u
                          /\ t.seat[v].here => s[v].here
                          /\ s[v].active => t.seat[v].active
  BY <1>1, <1>3, RoomFields
<1> HIDE DEF s
<1>6. x \in RoomRecords
  BY <1>1, <1>5 DEF RoomRecords
<1>7. /\ x.state = t.state /\ x.unseated = t.unseated /\ x.busy = t.busy /\ x.by = t.by
      /\ x.live = t.live /\ x.dealt = t.dealt /\ x.marked = t.marked
      /\ x.seat = s /\ x.entry = t.entry /\ x.pot = t.pot
  BY <1>1 DEF RoomRecords
<1> HIDE DEF x
<1>8. Room(r, x)
  BY <1>4, <1>6, RoomIs
<1> QED BY <1>5, <1>7, <1>8 DEF Seated, SameRoom, SameActor, SameHand

\* A player leaves, up to the end of the hand that it may bring: off the seat, and
\* marked if anything is still due of them.
Parts(t, y, u) ==
    /\ SameRoom(t, y) /\ y.busy = t.busy /\ y.by \in {u, None}
    /\ y.live = t.live /\ y.dealt = t.dealt
    /\ ~y.seat[u].here /\ ~y.seat[u].active
    /\ \A v \in Users \ {u} : y.seat[v] = t.seat[v] /\ y.entry[v] = t.entry[v]
    /\ y.marked = IF Due(y.entry[u]) # 0 THEN t.marked \cup {u} ELSE t.marked
    /\ ~t.live /\ Emptied(t) => Emptied(y)

\* That is what a leave makes of it, with the marks and the operation it leaves.
LEMMA LeaveRunsIs ==
  ASSUME Types, NEW u \in Users, LeaveRuns(u), op[u].at \in Tables,
         table[op[u].at].seat[u].active => table[op[u].at].live
  PROVE  /\ wallet' \in [Users -> Nat]
         /\ \E y \in RoomRecords :
              /\ Parts(table[op[u].at], y, u) /\ Resolve(op[u].at, y)
              /\ owed' = Owe(owed, y.marked \ table[op[u].at].marked)
              /\ \/ Cardinality(Active(y)) = 1 /\ y.by = u
                    /\ \E n \in Nat : op' = [op EXCEPT ![u].chips = n]
                 \/ Cardinality(Active(y)) # 1 /\ y.by = None
                    /\ \E n \in Nat : op' = [op EXCEPT ![u] = Left([op[u] EXCEPT !.chips = n])]
<1> DEFINE r == op[u].at
           t == table[r]
           n == t.seat[u].chips
           left == [t.entry[u] EXCEPT !.left = TRUE, !.chips = n]
           writes == IF t.seat[u].active THEN Checkpoint(wallet[u], left, "hand_left")
                     ELSE {<<wallet[u], t.entry[u]>>}
<1>1. t \in RoomRecords /\ wallet[u] \in Nat /\ op[u] \in Ops
  BY DEF Types
<1>2. n \in Nat /\ t.entry[u] \in EntryRecords
  BY <1>1, RoomFields
<1>3. left \in EntryRecords
  BY <1>2, Zenon DEF EntryRecords
<1>4. PICK out \in writes :
         LET after == Departs(t, u, out[2])
             ends == Cardinality(Active(after)) = 1
             gone == [op[u] EXCEPT !.chips = n]
         IN  /\ wallet' = [wallet EXCEPT ![u] = out[1]]
             /\ owed' = Owe(owed, after.marked \ t.marked)
             /\ Resolve(r, [after EXCEPT !.by = IF ends THEN u ELSE None])
             /\ op' = [op EXCEPT ![u] = IF ends THEN gone ELSE Left(gone)]
  BY Zenon DEF LeaveRuns
<1>5. /\ out[1] \in Nat /\ out[2] \in EntryRecords
      /\ ~t.seat[u].active => out[2] = t.entry[u]
  <2> HIDE DEF left, n
  <2> QED BY <1>1, <1>2, <1>3, CheckpointIs
<1> HIDE DEF left, writes
<1> DEFINE e == out[2]
           after == Departs(t, u, e)
           ends == Cardinality(Active(after)) = 1
           by == IF ends THEN u ELSE None
           y == [after EXCEPT !.by = by]
           m == IF Due(e) # 0 THEN t.marked \cup {u} ELSE t.marked
           s == [t.seat EXCEPT ![u] = NoSeat]
           f == [t.entry EXCEPT ![u] = e]
<1>6. Resolve(r, y) /\ owed' = Owe(owed, after.marked \ t.marked)
  BY <1>4, Zenon
<1>7. \/ ends /\ op' = [op EXCEPT ![u].chips = n]
      \/ ~ends /\ op' = [op EXCEPT ![u] = Left([op[u] EXCEPT !.chips = n])]
  BY <1>4
<1>8. /\ s \in [Users -> SeatRecords] /\ s[u] = NoSeat /\ \A v \in Users \ {u} : s[v] = t.seat[v]
      /\ f \in [Users -> EntryRecords] /\ f[u] = e /\ \A v \in Users \ {u} : f[v] = t.entry[v]
  BY <1>1, <1>5, RoomFields, Nothing
<1>9. m \subseteq Users
  BY <1>1, RoomFields
<1>10. after = [t EXCEPT !.seat = s, !.entry = f, !.marked = m]
  BY <1>1 DEF Departs, RoomRecords
<1>11. by \in {u, None} /\ by \in Users \cup {None} /\ (ends => by = u) /\ (~ends => by = None)
  OBVIOUS
<1> HIDE DEF s, f, m, after, by, e
<1>12. /\ after \in RoomRecords /\ y \in RoomRecords
  BY <1>1, <1>8, <1>9, <1>10, <1>11 DEF RoomRecords
<1>13. after.marked = m /\ after.seat = s
  BY <1>1, <1>10 DEF RoomRecords
<1>14. /\ y.state = t.state /\ y.unseated = t.unseated /\ y.busy = t.busy /\ y.by = by
       /\ y.live = t.live /\ y.dealt = t.dealt /\ y.marked = m
       /\ y.seat = s /\ y.entry = f /\ y.pot = t.pot
  BY <1>1, <1>10, <1>12 DEF RoomRecords
<1>15. Active(y) = Active(after)
  BY <1>13, <1>14 DEF Active
<1> HIDE DEF y
<1>16. ~y.seat[u].here /\ ~y.seat[u].active
  BY <1>8, <1>14, Nothing
<1>17. y.marked = IF Due(y.entry[u]) # 0 THEN t.marked \cup {u} ELSE t.marked
  BY <1>8, <1>14 DEF m
<1>18. ASSUME ~t.live, Emptied(t) PROVE Emptied(y)
  <2>1. ~t.seat[u].active
    BY <1>18
  <2>2. e = NoEntry
    BY <1>5, <1>18, <2>1 DEF e, Emptied
  <2>3. f = t.entry
    BY <1>8, <1>18, <2>2, Zenon DEF f, Emptied
  <2> QED BY <1>14, <1>18, <2>3 DEF Emptied
<1>19. Parts(t, y, u)
  BY <1>8, <1>11, <1>14, <1>16, <1>17, <1>18 DEF Parts, SameRoom
<1>20. owed' = Owe(owed, y.marked \ t.marked)
  BY <1>6, <1>13, <1>14
<1>21. wallet' \in [Users -> Nat]
  BY <1>4, <1>5 DEF Types
<1>22. \/ Cardinality(Active(y)) = 1 /\ y.by = u
          /\ \E k \in Nat : op' = [op EXCEPT ![u].chips = k]
       \/ Cardinality(Active(y)) # 1 /\ y.by = None
          /\ \E k \in Nat : op' = [op EXCEPT ![u] = Left([op[u] EXCEPT !.chips = k])]
  <2> HIDE DEF n
  <2>1. ends => y.by = u
    BY <1>11, <1>14
  <2>2. ~ends => y.by = None
    BY <1>11, <1>14
  <2> QED BY <1>2, <1>7, <1>15, <2>1, <2>2
<1> HIDE DEF t, r, n, ends
<1> QED BY <1>6, <1>12, <1>19, <1>20, <1>21, <1>22 DEF t, r

\* A purchase reaches a seat.
LEMMA BuyTopsUpIs ==
  ASSUME Types, NEW u \in Users, NEW r \in Tables, table[r].seat[u].here,
         LET e == table[r].entry[u]
         IN  table' = [table EXCEPT
                         ![r].seat[u].chips = @ + 1,
                         ![r].entry[u] =
                            IF e.in THEN [e EXCEPT !.chips = @ + 1, !.written = @ + 1] ELSE e]
  PROVE  \E x : Room(r, x) /\ Moves(table[r], x, u)
<1> DEFINE t == table[r]
           e == t.entry[u]
           a == [t.seat[u] EXCEPT !.chips = @ + 1]
           b == IF e.in THEN [e EXCEPT !.chips = @ + 1, !.written = @ + 1] ELSE e
           s == [t.seat EXCEPT ![u] = a]
           f == [t.entry EXCEPT ![u] = b]
           x == [t EXCEPT !.seat = s, !.entry = f]
<1>1. t \in RoomRecords /\ t.seat \in [Users -> SeatRecords] /\ t.entry \in [Users -> EntryRecords]
  BY RoomFields DEF Types
<1>2. /\ a \in SeatRecords /\ a.here = t.seat[u].here /\ a.active = t.seat[u].active
  <2>1. t.seat[u] \in SeatRecords /\ t.seat[u].chips + 1 \in Nat
    BY <1>1, RoomFields
  <2> QED BY <2>1 DEF SeatRecords
<1>3. b \in EntryRecords
  <2>1. e \in EntryRecords /\ e.chips + 1 \in Nat /\ e.written + 1 \in Nat
    BY <1>1, RoomFields
  <2> HIDE DEF e
  <2> QED BY <2>1 DEF EntryRecords
<1>4. table' = [table EXCEPT ![r].seat[u].chips = @ + 1, ![r].entry[u] = b]
  OBVIOUS
<1> HIDE DEF b
<1>5. table' = [table EXCEPT ![r] = x]
  BY <1>1, <1>4 DEF Types, RoomRecords
<1> HIDE DEF a
<1>6. /\ s \in [Users -> SeatRecords]
      /\ \A v \in Users : s[v].here = t.seat[v].here /\ s[v].active = t.seat[v].active
  BY <1>1, <1>2, RoomFields
<1>7. f \in [Users -> EntryRecords] /\ \A v \in Users : v # u => f[v] = t.entry[v]
  BY <1>1, <1>3, RoomFields
<1>8. Emptied(t) => f = t.entry
  <2> SUFFICES ASSUME Emptied(t) PROVE f = t.entry
    OBVIOUS
  <2>1. e = NoEntry
    BY DEF Emptied
  <2>2. b = e
    BY <2>1 DEF b, NoEntry
  <2> QED BY <1>1, <2>2
<1> HIDE DEF s, f
<1>9. x \in RoomRecords
  BY <1>1, <1>6, <1>7 DEF RoomRecords
<1>10. /\ x.state = t.state /\ x.unseated = t.unseated /\ x.busy = t.busy /\ x.by = t.by
       /\ x.live = t.live /\ x.dealt = t.dealt /\ x.marked = t.marked
       /\ x.seat = s /\ x.entry = f /\ x.pot = t.pot
  BY <1>1 DEF RoomRecords
<1> HIDE DEF x
<1>11. Room(r, x)
  BY <1>5, <1>9, RoomIs
<1>12. Moves(t, x, u)
  BY <1>6, <1>7, <1>8, <1>10 DEF Moves, SameRoom, SameActor, SameHand, SameHere, Emptied
<1> QED BY <1>11, <1>12

\* A destroy changes nothing but where it is itself.
Same(t, x) ==
    SameActor(t, x) /\ SameHand(t, x) /\ x.pot = t.pot /\ x.entry = t.entry /\ x.seat = t.seat

\* A room that only changes its state.
LEMMA StateIs ==
  ASSUME NEW t \in RoomRecords, NEW s \in States,
         NEW x, x = [t EXCEPT !.state = s]
  PROVE  x \in RoomRecords /\ Same(t, x) /\ x.state = s /\ x.unseated = t.unseated
<1>1. x \in RoomRecords
  BY DEF RoomRecords
<1> QED BY <1>1 DEF RoomRecords, Same, SameActor, SameHand

\* A destroy begins with everybody whom the index has in the room,
LEMMA DestroyStartsIs ==
  ASSUME Types, NEW r \in Tables, DestroyStarts(r)
  PROVE  \E x : /\ Room(r, x) /\ Same(table[r], x) /\ x.state = "closing"
                /\ x.unseated = {v \in Users : index[v] = r}
<1> DEFINE t == table[r]
           W == {v \in Users : index[v] = r}
           x == [t EXCEPT !.state = "closing", !.unseated = W]
<1>1. t \in RoomRecords /\ "closing" \in States /\ W \in SUBSET Users
  BY Zenon DEF Types, States
<1>2. x \in RoomRecords /\ Same(t, x) /\ x.state = "closing" /\ x.unseated = W
  <2>1. x \in RoomRecords
    BY <1>1 DEF RoomRecords
  <2> QED BY <1>1, <2>1 DEF RoomRecords, Same, SameActor, SameHand
<1>3. table' = [table EXCEPT ![r] = x]
  BY <1>1 DEF DestroyStarts, Types, RoomRecords
<1> HIDE DEF x
<1>4. Room(r, x)
  BY <1>2, <1>3, RoomIs
<1> QED BY <1>2, <1>4

\* ends with nobody,
LEMMA DestroyReturnsIs ==
  ASSUME Types, NEW r \in Tables, DestroyReturns(r)
  PROVE  \E x : /\ Room(r, x) /\ Same(table[r], x) /\ x.state = "shut" /\ x.unseated = {}
<1> DEFINE t == table[r]
           x == [t EXCEPT !.state = "shut", !.unseated = {}]
<1>1. t \in RoomRecords /\ "shut" \in States /\ {} \in SUBSET Users
  BY DEF Types, States
<1>2. x \in RoomRecords /\ Same(t, x) /\ x.state = "shut" /\ x.unseated = {}
  <2>1. x \in RoomRecords
    BY <1>1 DEF RoomRecords
  <2> QED BY <1>1, <2>1 DEF RoomRecords, Same, SameActor, SameHand
<1>3. table' = [table EXCEPT ![r] = x]
  BY <1>1 DEF DestroyReturns, Types, RoomRecords
<1> HIDE DEF x
<1>4. Room(r, x)
  BY <1>2, <1>3, RoomIs
<1> QED BY <1>2, <1>4

\* and in between ends the hand, if there is one, or closes the room.
LEMMA DestroyRunsIs ==
  ASSUME Types, NEW r \in Tables, DestroyRuns(r)
  PROVE  \/ /\ ~table[r].live /\ UNCHANGED chain
            /\ \E x : /\ Room(r, x) /\ Same(table[r], x) /\ x.state = "gone"
                      /\ x.unseated = table[r].unseated
         \/ /\ table[r].live
            /\ \E y \in RoomRecords, w \in Active(table[r]) :
                  /\ EndHand(r, y, w) /\ Same(table[r], y) /\ y.state = "ending"
                  /\ y.unseated = table[r].unseated
<1> DEFINE t == table[r]
           x == [t EXCEPT !.state = "gone"]
           y == [t EXCEPT !.state = "ending"]
<1>1. t \in RoomRecords /\ "gone" \in States /\ "ending" \in States
  BY DEF Types, States
<1>2. x \in RoomRecords /\ Same(t, x) /\ x.state = "gone" /\ x.unseated = t.unseated
  BY <1>1, StateIs
<1>3. y \in RoomRecords /\ Same(t, y) /\ y.state = "ending" /\ y.unseated = t.unseated
  BY <1>1, StateIs
<1>4. CASE t.live
  <2>1. \E w \in Active(t) : EndHand(r, y, w)
    BY <1>4 DEF DestroyRuns
  <2> HIDE DEF y
  <2> QED BY <1>3, <1>4, <2>1
<1>5. CASE ~t.live
  <2>1. table' = [table EXCEPT ![r] = x] /\ UNCHANGED chain
    BY <1>1, <1>5 DEF DestroyRuns, Types, RoomRecords
  <2> HIDE DEF x
  <2>2. Room(r, x)
    BY <1>2, <2>1, RoomIs
  <2> QED BY <1>2, <1>5, <2>1, <2>2
<1> QED BY <1>4, <1>5

-----------------------------------------------------------------------------
(* What each step makes of the operation of its player *)

\* An operation begins as its kind, there.
Begun(k, a) == [Idle EXCEPT !.kind = k, !.at = a]

\* That is an operation.
LEMMA BegunIs ==
  ASSUME NEW k \in Kinds, NEW a \in Rooms
  PROVE  Begun(k, a) \in Ops /\ Begun(k, a).kind = k /\ Begun(k, a).at = a
BY DEF Begun, Idle, Ops, Rooms

\* So do a spend and a purchase, which are nowhere, and a switch.
Started(k) == [Idle EXCEPT !.kind = k]

\* That is one too,
LEMMA StartedIs ==
  ASSUME Types, NEW u \in Users, NEW k \in Kinds, op' = [op EXCEPT ![u] = Started(k)]
  PROVE  \E p : Turn(u, p) /\ p.kind = k
<1>1. Started(k) \in Ops /\ Started(k).kind = k
  BY DEF Started, Idle, Ops, Rooms
<1>2. Turn(u, Started(k))
  BY <1>1, TurnIs
<1> QED BY <1>1, <1>2

Switching(a, b, n) == [kind |-> "leave", at |-> a, to |-> b, chips |-> n]

\* and so is a switch.
LEMMA SwitchingIs ==
  ASSUME Types, NEW u \in Users, NEW a \in Rooms, NEW b \in Rooms, NEW n \in Nat,
         op' = [op EXCEPT ![u] = Switching(a, b, n)]
  PROVE  \E p : Turn(u, p) /\ p.kind = "leave" /\ p.at = a
<1>1. Switching(a, b, n) \in Ops /\ Switching(a, b, n).kind = "leave" /\ Switching(a, b, n).at = a
  BY DEF Switching, Ops, Kinds
<1>2. Turn(u, Switching(a, b, n))
  BY <1>1, TurnIs
<1> QED BY <1>1, <1>2

\* The fields of an operation.
LEMMA OpFields ==
  ASSUME NEW o \in Ops
  PROVE  o.kind \in Kinds /\ o.at \in Rooms /\ o.to \in Rooms /\ o.chips \in Nat
BY DEF Ops

\* A leave that is over goes on as a switch, or is over.
LEMMA LeftIs ==
  ASSUME NEW o \in Ops, o.kind = "leave", o.at # None
  PROVE  /\ Left(o) \in Ops
         /\ \/ o.to = None /\ Left(o) = Idle
            \/ o.to # None /\ Left(o).kind = "carry" /\ Left(o).at = o.to
<1>1. o.chips \in Nat /\ o.at \in Rooms /\ o.to \in Rooms
  BY OpFields
<1>2. CASE o.to = None
  BY <1>2, Nothing DEF Left
<1>3. CASE o.to # None
  <2>1. Left(o) = [kind |-> "carry", at |-> o.to, to |-> o.at, chips |-> o.chips]
    BY <1>3 DEF Left
  <2> QED BY <1>1, <1>3, <2>1 DEF Ops, Kinds
<1> QED BY <1>2, <1>3

\* So does a seat that was refused.
LEMMA UnseatedIs ==
  ASSUME NEW o \in Ops
  PROVE  /\ Unseated(o) \in Ops
         /\ \/ o.to = None /\ Unseated(o) = Idle
            \/ o.to # None /\ Unseated(o).kind = "carry" /\ Unseated(o).at = o.to
<1>1. o.chips \in Nat /\ o.at \in Rooms /\ o.to \in Rooms /\ None \in Rooms /\ "carry" \in Kinds
  BY OpFields DEF Rooms, Kinds
<1>2. CASE o.to = None
  BY <1>2, Nothing DEF Unseated
<1>3. CASE o.to # None
  <2>1. Unseated(o) = [kind |-> "carry", at |-> o.to, to |-> None, chips |-> o.chips]
    BY <1>3 DEF Unseated, Ops
  <2> QED BY <1>1, <1>3, <2>1 DEF Ops
<1> QED BY <1>2, <1>3

-----------------------------------------------------------------------------
(* The inductive invariant *)

\* The room may still have players and a hand.
Up(t) == t.state \in {"open", "closing", "ending"}

\* An operation that leaves the player where they are, and one that took them
\* off the index.
Resting(o) == o.kind \in {"idle", "bought", "credit"}
Away(o) == o.kind \in {"join", "carry", "leave", "spend"}

\* Where a player is, from their operation o and index entry i: a seat in a room
\* that is up is the index entry's, or that of a leave on its way, or is being
\* destroyed under a player who waits for nothing.
Indexed(T, u, o, i) ==
    /\ Away(o) => i = None
    /\ o.kind \in {"join", "carry", "reserved", "leave", "credit"} => o.at \in Tables
    /\ i # None => T[i].state = "open"
Reserved(T, u, o, i) ==
    o.kind = "reserved" =>
        /\ T[o.at].state = "open" => i = o.at
        /\ i \in {None, o.at}
        /\ T[o.at].state \in {"closing", "ending"} => u \in T[o.at].unseated
SeatOf(T, u, o, i) ==
    \A r \in Tables : Up(T[r]) /\ T[r].seat[u].here =>
        \/ Resting(o) /\ i = r
        \/ Resting(o) /\ i = None /\ u \in T[r].unseated
        \/ o.kind = "leave" /\ o.at = r /\ i = None
UnseatedOf(T, u, o, i) ==
    \A r \in Tables : Up(T[r]) /\ u \in T[r].unseated =>
        i = None /\ (Resting(o) \/ (o.kind = "reserved" /\ o.at = r))
Placed(T, u, o, i) ==
    Indexed(T, u, o, i) /\ Reserved(T, u, o, i) /\ SeatOf(T, u, o, i) /\ UnseatedOf(T, u, o, i)

\* Only a destroy unseats, and one at a time.
Unseating(T) ==
    /\ \A r \in Tables : T[r].unseated # {} => T[r].state \in {"closing", "ending", "gone"}
    /\ \A r, q \in Tables, u \in Users :
          /\ Up(T[r]) /\ Up(T[q]) /\ u \in T[r].unseated /\ u \in T[q].unseated
          => r = q

WhereOK == Unseating(table) /\ \A u \in Users : Placed(table, u, op[u], index[u])

\* A departing mark for every room that is being destroyed under a player.
DepartingOf(T, u) == {r \in Tables : u \in T[r].unseated}
DepartingOK == \A u \in Users : departing[u] >= Cardinality(DepartingOf(table, u))

\* Nobody is in a hand without a seat; what is due of a player who has none is marked.
CoveredBy(t, u) == t.seat[u].here \/ u \in t.marked
StakesOK(t) ==
    /\ t.live => t.state \in {"open", "closing"} /\ t.dealt >= 1
    /\ ~t.live => Emptied(t)
    /\ \A u \in Users : /\ t.seat[u].active => t.seat[u].here /\ t.live
                        /\ Due(t.entry[u]) # 0 => CoveredBy(t, u)

\* The actor waits for one request at most, and exactly while it is busy.
Awaited(c) == c.stage \in {"first", "retried"}
Waits(t, r, C) ==
    /\ \A n \in Numbers : Awaited(C[<<r, n>>]) => t.busy /\ Up(t)
    /\ \A n, m \in Numbers : Awaited(C[<<r, n>>]) /\ Awaited(C[<<r, m>>]) => n = m
    /\ t.busy => \E n \in Numbers : Awaited(C[<<r, n>>])

\* A request is made at its hand's end; what it moves is covered by a seat or a
\* mark, and by the chain's own once it is retried.
Retrying(c) == c.stage \in {"owed", "retried", "detached"}
Requested(t, r, C) ==
    \A n \in Numbers :
        /\ C[<<r, n>>].stage = "first" => n = t.dealt /\ ~t.live
        /\ n > t.dealt \/ (n = t.dealt /\ t.live) => C[<<r, n>>].stage = "none"
        /\ \A u \in Users : C[<<r, n>>].delta[u] # 0 =>
             Retrying(C[<<r, n>>]) \/ (C[<<r, n>>].stage = "first" /\ CoveredBy(t, u))

\* A closure that is a leave's is the end of a hand, and its player is out.
LeaverOut(t, r, C, O) ==
    t.by # None => /\ O[t.by].kind = "leave" /\ O[t.by].at = r /\ ~t.seat[t.by].here
                   /\ t.dealt \in Numbers /\ C[<<r, t.dealt>>].stage = "first"

HandOK(t, r, C, O) ==
    StakesOK(t) /\ Waits(t, r, C) /\ Requested(t, r, C) /\ LeaverOut(t, r, C, O)
HandsOK == \A r \in Tables : HandOK(table[r], r, chain, op)

\* An owed mark for every room and every request that has one to lift.
MarkedOf(T, u) == {r \in Tables : u \in T[r].marked}
OpenOf(C, u) == {h \in Hands : Retrying(C[h]) /\ C[h].delta[u] # 0}
OwedOK ==
    \A u \in Users :
        owed[u] >= Cardinality(MarkedOf(table, u)) + Cardinality(OpenOf(chain, u))

IInv == Types /\ WhereOK /\ DepartingOK /\ HandsOK /\ OwedOK

-----------------------------------------------------------------------------
(* Where players are *)

\* A closure that seats nobody but u.
Quiet(t, x, u) ==
    /\ x.unseated = t.unseated
    /\ \/ x.state = t.state
       \/ t.state \in {"closing", "ending"} /\ x.state \in {"ending", "gone"}
    /\ \A v \in Users \ {u} : x.seat[v].here => t.seat[v].here

\* Such a closure leaves everybody else where they are,
LEMMA QuietPlaced ==
  ASSUME NEW r \in Tables, NEW x, Room(r, x), NEW u, Quiet(table[r], x, u),
         NEW v \in Users \ {u}, NEW o, NEW i \in Rooms, Placed(table, v, o, i)
  PROVE  Placed(table', v, o, i)
<1>1. \A q \in Tables : q # r => table'[q] = table[q]
  BY DEF Room
<1>2. /\ table'[r].unseated = table[r].unseated
      /\ table'[r].seat[v].here => table[r].seat[v].here
      /\ \/ table'[r].state = table[r].state
         \/ table[r].state \in {"closing", "ending"} /\ table'[r].state \in {"ending", "gone"}
  BY DEF Room, Quiet
<1>3. Indexed(table', v, o, i)
  BY <1>1, <1>2 DEF Placed, Indexed, Rooms
<1>4. Reserved(table', v, o, i)
  BY <1>1, <1>2 DEF Placed, Reserved, Indexed
<1>5. \A q \in Tables : /\ table'[q].unseated = table[q].unseated
                        /\ table'[q].seat[v].here => table[q].seat[v].here
                        /\ Up(table'[q]) => Up(table[q])
  BY <1>1, <1>2 DEF Up
<1>6. SeatOf(table', v, o, i)
  BY <1>5 DEF Placed, SeatOf
<1>7. UnseatedOf(table', v, o, i)
  BY <1>5 DEF Placed, UnseatedOf
<1> QED BY <1>3, <1>4, <1>6, <1>7 DEF Placed

\* and unseats nobody.
LEMMA QuietUnseating ==
  ASSUME NEW r \in Tables, NEW x, Room(r, x), NEW u, Quiet(table[r], x, u), Unseating(table)
  PROVE  Unseating(table')
<1>1. \A q \in Tables : /\ table'[q].unseated = table[q].unseated
                        /\ Up(table'[q]) => Up(table[q])
                        /\ table[q].state \in {"closing", "ending", "gone"}
                             => table'[q].state \in {"closing", "ending", "gone"}
  BY DEF Room, Quiet, Up
<1> QED BY <1>1 DEF Unseating

\* A closure of which no operation hears.
LEMMA QuietWhere ==
  ASSUME NEW r \in Tables, NEW x, Room(r, x), Quiet(table[r], x, None),
         Types, WhereOK, UNCHANGED <<op, index>>
  PROVE  WhereOK'
<1>1. ASSUME NEW v \in Users PROVE Placed(table', v, op[v], index[v])
  <2>1. v \in Users \ {None} /\ index[v] \in Rooms
    BY WalletAssumption DEF Types
  <2> QED BY <2>1, QuietPlaced DEF WhereOK
<1>2. Unseating(table')
  BY QuietUnseating DEF WhereOK
<1> QED BY <1>1, <1>2 DEF WhereOK

\* A step of one operation, which says where its player is now.
LEMMA TurnWhere ==
  ASSUME WhereOK, UNCHANGED table, NEW u \in Users, NEW p, Turn(u, p),
         NEW i, index'[u] = i, \A v \in Users \ {u} : index'[v] = index[v],
         Placed(table, u, p, i)
  PROVE  WhereOK'
<1>1. ASSUME NEW v \in Users PROVE Placed(table', v, op'[v], index'[v])
  <2>1. CASE v = u
    BY <2>1 DEF Turn
  <2>2. CASE v # u
    <3>1. op'[v] = op[v] /\ index'[v] = index[v]
      BY <2>2 DEF Turn
    <3> QED BY <3>1 DEF WhereOK
  <2> QED BY <2>1, <2>2
<1> QED BY <1>1 DEF WhereOK

\* Operations that leave a player where they are;
LEMMA RestPlaced ==
  ASSUME NEW T, NEW u, NEW o, NEW p, NEW i, Placed(T, u, o, i), Resting(o), Resting(p),
         p.kind = "credit" => p.at \in Tables
  PROVE  Placed(T, u, p, i)
<1>1. Indexed(T, u, p, i) /\ Reserved(T, u, p, i)
  BY DEF Placed, Indexed, Reserved, Resting, Away
<1>2. SeatOf(T, u, p, i)
  BY DEF Placed, SeatOf, Resting
<1>3. UnseatedOf(T, u, p, i)
  BY DEF Placed, UnseatedOf, Resting
<1> QED BY <1>1, <1>2, <1>3 DEF Placed

\* those of a player who has no seat in any room that is up;
Nowhere(T, u) == \A r \in Tables : Up(T[r]) => ~T[r].seat[u].here /\ u \notin T[r].unseated

\* Whatever such a player does next, they are where they should be;
LEMMA NowherePlaced ==
  ASSUME NEW T, NEW u, NEW p, Nowhere(T, u), p.kind # "reserved",
         p.kind \in {"join", "carry", "leave", "credit"} => p.at \in Tables
  PROVE  Placed(T, u, p, None)
BY DEF Placed, Indexed, Reserved, SeatOf, UnseatedOf, Nowhere

\* and who they are: those whose operation took them off the index and is no leave,
LEMMA AwayNowhere ==
  ASSUME NEW T, NEW u, NEW o, NEW i, Placed(T, u, o, i), Away(o),
         o.kind = "leave" => ~(Up(T[o.at]) /\ T[o.at].seat[u].here)
  PROVE  Nowhere(T, u) /\ i = None
BY DEF Placed, SeatOf, UnseatedOf, Indexed, Nowhere, Away, Resting

\* and those who wait for nothing, are off the index and not departing.
LEMMA FreeNowhere ==
  ASSUME NEW u \in Users, Types, WhereOK, DepartingOK, Resting(op[u]), index[u] = None,
         ~Unfinished(u)
  PROVE  Nowhere(table, u)
<1>1. departing[u] = 0
  BY DEF Types, Unfinished
<1>2. Cardinality(DepartingOf(table, u)) = 0
  <2>1. IsFiniteSet(DepartingOf(table, u))
    BY WalletAssumption, FS_Subset DEF DepartingOf
  <2>2. Cardinality(DepartingOf(table, u)) \in Nat
    BY <2>1, FS_CardinalityType
  <2> QED BY <1>1, <2>2 DEF DepartingOK
<1>3. DepartingOf(table, u) = {}
  <2>1. IsFiniteSet(DepartingOf(table, u))
    BY WalletAssumption, FS_Subset DEF DepartingOf
  <2> QED BY <1>2, <2>1, FS_EmptySet
<1>4. \A r \in Tables : u \notin table[r].unseated
  BY <1>3 DEF DepartingOf
<1>5. SeatOf(table, u, op[u], None)
  BY DEF WhereOK, Placed
<1>6. \A r \in Tables : r # None
  BY WalletAssumption
<1> QED BY <1>4, <1>5, <1>6 DEF SeatOf, Nowhere, Resting

\* Every step of an operation leaves its player where the index and the stripe say.
LEMMA JoinsWhere ==
  ASSUME IInv, NEW u \in Users,
         \/ \E r \in Tables : JoinLooks(u, r)
         \/ JoinReads(u) \/ Reserves(u) \/ SpendLooks(u) \/ SpendCommits(u)
  PROVE  WhereOK'
<1>0. Types /\ WhereOK /\ DepartingOK /\ Placed(table, u, op[u], index[u])
      /\ None \in Rooms /\ Tables \subseteq Rooms
      /\ {"join", "spend", "carry", "reserved", "idle"} \subseteq Kinds
  BY DEF IInv, WhereOK, Rooms, Kinds
<1>01. op[u] \in Ops /\ index[u] \in Rooms /\ wallet[u] \in Nat
  BY <1>0 DEF Types
<1>02. op[u].kind \in Kinds /\ op[u].at \in Rooms /\ op[u].to \in Rooms /\ op[u].chips \in Nat
  BY <1>01, OpFields
<1>1. ASSUME NEW r \in Tables, JoinLooks(u, r) PROVE WhereOK'
  <2>1. Nowhere(table, u)
    BY <1>0, <1>1, FreeNowhere DEF JoinLooks, Resting
  <2> DEFINE p == Begun("join", r)
  <2>2. op' = [op EXCEPT ![u] = p]
    BY <1>1 DEF JoinLooks, Begun
  <2>5. p \in Ops /\ p.kind = "join" /\ p.at = r
    BY <1>0, BegunIs
  <2> HIDE DEF p
  <2>3. Turn(u, p) /\ p.kind = "join" /\ p.at = r
    BY <1>0, <2>2, <2>5, TurnIs
  <2>4. Placed(table, u, p, None)
    BY <2>1, <2>3, NowherePlaced
  <2> QED BY <1>0, <1>1, <2>3, <2>4, TurnWhere DEF JoinLooks
<1>2. CASE SpendLooks(u)
  <2>1. Nowhere(table, u)
    BY <1>0, <1>2, FreeNowhere DEF SpendLooks, Resting
  <2>2. op' = [op EXCEPT ![u] = Started("spend")]
    BY <1>2 DEF SpendLooks, Started
  <2>3. PICK p : Turn(u, p) /\ p.kind = "spend"
    BY <1>0, <2>2, StartedIs
  <2>4. Placed(table, u, p, None)
    BY <2>1, <2>3, NowherePlaced
  <2> QED BY <1>0, <1>2, <2>3, <2>4, TurnWhere DEF SpendLooks
<1>3. CASE SpendCommits(u)
  <2>1. Nowhere(table, u) /\ index[u] = None
    BY <1>0, <1>3, AwayNowhere DEF SpendCommits, Away
  <2>2. Turn(u, Idle)
    BY <1>0, <1>3, TurnIs, Nothing DEF SpendCommits
  <2>3. Placed(table, u, Idle, None)
    BY <2>1, NowherePlaced, Nothing
  <2> QED BY <1>0, <1>3, <2>1, <2>2, <2>3, TurnWhere DEF SpendCommits
<1>4. CASE JoinReads(u)
  <2>1. Nowhere(table, u) /\ index[u] = None
    BY <1>0, <1>4, AwayNowhere DEF JoinReads, Away
  <2>2. op[u].at \in Tables
    BY <1>0, <1>4 DEF JoinReads, Placed, Indexed
  <2>3. \/ op' = [op EXCEPT ![u] = Idle]
        \/ op' = [op EXCEPT ![u] = [@ EXCEPT !.kind = "carry", !.chips = wallet[u]]]
    BY <1>4 DEF JoinReads
  <2>4. \E p : Turn(u, p) /\ (p = Idle \/ (p.kind = "carry" /\ p.at \in Tables))
    <3>1. CASE op' = [op EXCEPT ![u] = Idle]
      BY <1>0, <3>1, TurnIs, Nothing
    <3>2. CASE op' = [op EXCEPT ![u] = [@ EXCEPT !.kind = "carry", !.chips = wallet[u]]]
      <4> DEFINE p == [op[u] EXCEPT !.kind = "carry", !.chips = wallet[u]]
      <4>1. p \in Ops /\ p.kind = "carry" /\ p.at = op[u].at
        BY <1>0, <1>01 DEF Ops
      <4>2. op' = [op EXCEPT ![u] = p]
        BY <3>2
      <4> HIDE DEF p
      <4>3. Turn(u, p)
        BY <1>0, <4>1, <4>2, TurnIs
      <4> QED BY <2>2, <4>1, <4>3
    <3> QED BY <2>3, <3>1, <3>2
  <2>5. PICK p : Turn(u, p) /\ (p = Idle \/ (p.kind = "carry" /\ p.at \in Tables))
    BY <2>4
  <2>6. Placed(table, u, p, None)
    BY <2>1, <2>5, NowherePlaced, Nothing
  <2> QED BY <1>0, <1>4, <2>1, <2>5, <2>6, TurnWhere DEF JoinReads
<1>5. CASE Reserves(u)
  <2>1. Nowhere(table, u) /\ index[u] = None
    BY <1>0, <1>5, AwayNowhere DEF Reserves, Away
  <2>2. op[u].at \in Tables
    BY <1>0, <1>5 DEF Reserves, Placed, Indexed
  <2>3. CASE Registered(op[u].at)
    <3> DEFINE p == [op[u] EXCEPT !.kind = "reserved"]
    <3>1. p \in Ops /\ p.kind = "reserved" /\ p.at = op[u].at
      BY <1>0, <1>01 DEF Ops
    <3>2. op' = [op EXCEPT ![u] = p] /\ index' = [index EXCEPT ![u] = op[u].at]
      BY <1>5, <2>3 DEF Reserves
    <3> HIDE DEF p
    <3>3. Turn(u, p)
      BY <1>0, <3>1, <3>2, TurnIs
    <3>4. Placed(table, u, p, op[u].at)
      BY <2>1, <2>2, <2>3, <3>1
         DEF Placed, Indexed, Reserved, SeatOf, UnseatedOf, Nowhere, Registered, Away
    <3>5. index'[u] = op[u].at /\ \A v \in Users \ {u} : index'[v] = index[v]
      BY <1>0, <3>2 DEF Types
    <3> QED BY <1>0, <1>5, <3>3, <3>4, <3>5, TurnWhere DEF Reserves
  <2>4. CASE ~Registered(op[u].at)
    <3> DEFINE p == Unseated(op[u])
    <3>1. op' = [op EXCEPT ![u] = p] /\ UNCHANGED index
      BY <1>5, <2>4 DEF Reserves
    <3>2. p \in Ops /\ (p = Idle \/ (p.kind = "carry" /\ p.at = op[u].to /\ op[u].to # None))
      BY <1>01, UnseatedIs
    <3> HIDE DEF p
    <3>3. Turn(u, p)
      BY <1>0, <3>1, <3>2, TurnIs
    <3>4. p = Idle \/ (p.kind = "carry" /\ p.at \in Tables)
      BY <1>02, <3>2 DEF Rooms
    <3>5. Placed(table, u, p, None)
      BY <2>1, <3>4, NowherePlaced, Nothing
    <3> QED BY <1>0, <1>5, <2>1, <3>1, <3>3, <3>5, TurnWhere DEF Reserves
  <2> QED BY <2>3, <2>4
<1> QED BY <1>1, <1>2, <1>3, <1>4, <1>5

\* A player who leaves is off the index, and looks after the seat.
LEMMA LeavingPlaced ==
  ASSUME NEW T, NEW u, NEW o, NEW p, NEW r \in Tables, r # None,
         Placed(T, u, o, r), Resting(o), p.kind = "leave", p.at = r,
         \A q \in Tables : q # None
  PROVE  Placed(T, u, p, None)
<1>1. \A q \in Tables : Up(T[q]) /\ T[q].seat[u].here => q = r
  BY DEF Placed, SeatOf, Resting
<1>2. \A q \in Tables : Up(T[q]) => u \notin T[q].unseated
  BY DEF Placed, UnseatedOf
<1>3. SeatOf(T, u, p, None) /\ UnseatedOf(T, u, p, None)
  BY <1>1, <1>2 DEF SeatOf, UnseatedOf
<1> QED BY <1>3 DEF Placed, Indexed, Reserved

\* So does every step of a leave, up to the actor's part, and of a purchase.
LEMMA LeavesWhere ==
  ASSUME IInv, NEW u \in Users,
         \/ LeaveStarts(u) \/ LeaveFindsNothing(u) \/ BuyBanks(u) \/ BuyLooks(u)
         \/ \E r \in Tables : SwitchStarts(u, r)
  PROVE  WhereOK'
<1>0. Types /\ WhereOK /\ Placed(table, u, op[u], index[u])
      /\ None \in Rooms /\ Tables \subseteq Rooms
      /\ {"leave", "bought", "credit", "idle"} \subseteq Kinds
      /\ \A q \in Tables : q # None
  BY WalletAssumption DEF IInv, WhereOK, Rooms, Kinds
<1>01. op[u] \in Ops /\ index[u] \in Rooms /\ wallet[u] \in Nat
  BY <1>0 DEF Types
<1>02. op[u].kind \in Kinds /\ op[u].at \in Rooms /\ op[u].to \in Rooms /\ op[u].chips \in Nat
  BY <1>01, OpFields
<1>03. ASSUME NEW p, Turn(u, p), p.kind = "leave", p.at = index[u], index[u] # None,
              op[u].kind = "idle", index' = [index EXCEPT ![u] = None], UNCHANGED table
       PROVE  WhereOK'
  <2>1. index[u] \in Tables
    BY <1>01, <1>03 DEF Rooms
  <2>2. Placed(table, u, p, None)
    BY <1>0, <1>03, <2>1, LeavingPlaced DEF Resting
  <2>3. index'[u] = None /\ \A v \in Users \ {u} : index'[v] = index[v]
    BY <1>0, <1>03 DEF Types
  <2> QED BY <1>0, <1>03, <2>2, <2>3, TurnWhere
<1>1. CASE LeaveStarts(u)
  <2> DEFINE p == Begun("leave", index[u])
  <2>1. op' = [op EXCEPT ![u] = p]
    BY <1>1 DEF LeaveStarts, Begun
  <2>3. p \in Ops /\ p.kind = "leave" /\ p.at = index[u]
    BY <1>0, <1>01, BegunIs
  <2> HIDE DEF p
  <2>2. Turn(u, p) /\ p.kind = "leave" /\ p.at = index[u]
    BY <1>0, <2>1, <2>3, TurnIs
  <2> QED BY <1>03, <1>1, <2>2 DEF LeaveStarts
<1>2. ASSUME NEW r \in Tables, SwitchStarts(u, r) PROVE WhereOK'
  <2>1. op' = [op EXCEPT ![u] = Switching(index[u], r, wallet[u])]
    BY <1>2 DEF SwitchStarts, Switching
  <2>2. PICK p : Turn(u, p) /\ p.kind = "leave" /\ p.at = index[u]
    BY <1>0, <1>01, <2>1, SwitchingIs
  <2> QED BY <1>03, <1>2, <2>2 DEF SwitchStarts
<1>3. CASE LeaveFindsNothing(u)
  <2>1. op[u].at \in Tables /\ op[u].kind = "leave"
    BY <1>0, <1>3 DEF LeaveFindsNothing, Placed, Indexed
  <2>2. Nowhere(table, u) /\ index[u] = None
    BY <1>0, <1>3, <2>1, AwayNowhere DEF LeaveFindsNothing, Away, Up
  <2> DEFINE p == Left(op[u])
  <2>3. op' = [op EXCEPT ![u] = p]
    BY <1>3 DEF LeaveFindsNothing
  <2>4. p \in Ops /\ (p = Idle \/ (p.kind = "carry" /\ p.at = op[u].to /\ op[u].to # None))
    BY <1>0, <1>01, <2>1, LeftIs
  <2> HIDE DEF p
  <2>5. Turn(u, p)
    BY <1>0, <2>3, <2>4, TurnIs
  <2>6. p = Idle \/ (p.kind = "carry" /\ p.at \in Tables)
    BY <1>02, <2>4 DEF Rooms
  <2>7. Placed(table, u, p, None)
    BY <2>2, <2>6, NowherePlaced, Nothing
  <2> QED BY <1>0, <1>3, <2>2, <2>5, <2>7, TurnWhere DEF LeaveFindsNothing
<1>4. CASE BuyBanks(u)
  <2>1. op' = [op EXCEPT ![u] = Started("bought")]
    BY <1>4 DEF BuyBanks, Started
  <2>2. PICK p : Turn(u, p) /\ p.kind = "bought"
    BY <1>0, <2>1, StartedIs
  <2>3. Placed(table, u, p, index[u])
    BY <1>0, <1>4, <2>2, RestPlaced DEF BuyBanks, Resting
  <2> QED BY <1>0, <1>4, <2>2, <2>3, TurnWhere DEF BuyBanks
<1>5. CASE BuyLooks(u)
  <2>1. CASE index[u] = None
    <3>1. Turn(u, Idle)
      BY <1>0, <1>5, <2>1, TurnIs, Nothing DEF BuyLooks
    <3>2. Placed(table, u, Idle, index[u])
      BY <1>0, <1>5, RestPlaced, Nothing DEF BuyLooks, Resting
    <3> QED BY <1>0, <1>5, <3>1, <3>2, TurnWhere DEF BuyLooks
  <2>2. CASE index[u] # None
    <3> DEFINE p == [op[u] EXCEPT !.kind = "credit", !.at = index[u]]
    <3>1. p \in Ops /\ p.kind = "credit" /\ p.at = index[u]
      BY <1>0, <1>01 DEF Ops
    <3>2. op' = [op EXCEPT ![u] = p]
      BY <1>5, <2>2 DEF BuyLooks
    <3> HIDE DEF p
    <3>3. Turn(u, p)
      BY <1>0, <3>1, <3>2, TurnIs
    <3>4. index[u] \in Tables
      BY <1>01, <2>2 DEF Rooms
    <3>5. Placed(table, u, p, index[u])
      BY <1>0, <1>5, <3>1, <3>4, RestPlaced DEF BuyLooks, Resting
    <3> QED BY <1>0, <1>5, <3>3, <3>5, TurnWhere DEF BuyLooks
  <2> QED BY <2>1, <2>2
<1> QED BY <1>1, <1>2, <1>3, <1>4, <1>5

\* A closure up to its end, or into the end of the hand.
Ends(r, y, x) ==
    \E c : \E w \in Active(y) : Closed(y, x) /\ Chain(<<r, y.dealt>>, c) /\ Asks(y, c, w)

\* The end of a closure, whichever it is.
LEMMA ResolveIs ==
  ASSUME Types, NEW r \in Tables, NEW y \in RoomRecords, Resolve(r, y),
         Active(y) # {} => y.dealt \in Numbers
  PROVE  \E x : /\ Room(r, x) /\ SameRoom(y, x) /\ SameHere(y, x)
                /\ \/ Cardinality(Active(y)) # 1 /\ x = y /\ UNCHANGED chain
                   \/ Cardinality(Active(y)) = 1 /\ Ends(r, y, x)
<1>1. CASE Cardinality(Active(y)) = 1
  <2>1. PICK w \in Active(y) : EndHand(r, y, w)
    BY <1>1 DEF Resolve
  <2>2. w \in Users /\ y.dealt \in Numbers
    BY <2>1 DEF Active
  <2>3. PICK x, c : Room(r, x) /\ Closed(y, x) /\ Chain(<<r, y.dealt>>, c) /\ Asks(y, c, w)
    BY <2>1, <2>2, EndHandIs
  <2>4. SameRoom(y, x) /\ SameHere(y, x)
    BY <2>3 DEF Closed
  <2> QED BY <1>1, <2>1, <2>3, <2>4 DEF Ends
<1>2. CASE Cardinality(Active(y)) # 1
  <2>1. table' = [table EXCEPT ![r] = y] /\ UNCHANGED chain
    BY <1>2 DEF Resolve
  <2>2. Room(r, y)
    BY <2>1, RoomIs
  <2>3. SameRoom(y, y) /\ SameHere(y, y)
    BY DEF SameRoom, SameHere
  <2> QED BY <1>2, <2>1, <2>2, <2>3
<1> QED BY <1>1, <1>2

\* What a hand has, seen from its seats.
LEMMA InHand ==
  ASSUME IInv, NEW r \in Tables
  PROVE  /\ table[r] \in RoomRecords
         /\ table[r].live => table[r].dealt \in Numbers
         /\ ~table[r].live => Emptied(table[r])
         /\ \A u \in Users : table[r].seat[u].active => table[r].live /\ table[r].seat[u].here
         /\ \A u \in Users : Due(table[r].entry[u]) # 0 => CoveredBy(table[r], u)
<1>1. table[r] \in RoomRecords /\ StakesOK(table[r])
  BY DEF IInv, Types, HandsOK, HandOK
<1>2. table[r].dealt \in 0 .. HandsPerTable /\ HandsPerTable \in Nat
  BY <1>1, RoomFields, WalletAssumption
<1> QED BY <1>1, <1>2 DEF StakesOK, Numbers

\* A closure, and what it makes of one operation.
LEMMA MovesWhere ==
  ASSUME Types, WhereOK, NEW r \in Tables, NEW x, Room(r, x),
         NEW u \in Users, Quiet(table[r], x, u), NEW p, Turn(u, p),
         \A v \in Users \ {u} : index'[v] = index[v], Placed(table', u, p, index'[u])
  PROVE  WhereOK'
<1>1. ASSUME NEW v \in Users PROVE Placed(table', v, op'[v], index'[v])
  <2>1. CASE v = u
    BY <2>1 DEF Turn
  <2>2. CASE v # u
    <3>1. op'[v] = op[v] /\ index'[v] = index[v] /\ v \in Users \ {u}
      BY <2>2 DEF Turn
    <3>2. index[v] \in Rooms /\ Placed(table, v, op[v], index[v])
      BY DEF Types, WhereOK
    <3> QED BY <3>1, <3>2, QuietPlaced
  <2> QED BY <2>1, <2>2
<1>2. Unseating(table')
  BY QuietUnseating DEF WhereOK
<1> QED BY <1>1, <1>2 DEF WhereOK

\* Sitting down.
LEMMA SitsWhere ==
  ASSUME IInv, NEW u \in Users, Sits(u)
  PROVE  WhereOK'
<1> DEFINE r == op[u].at
           t == table[r]
           i == index[u]
<1>0. Types /\ WhereOK /\ Placed(table, u, op[u], i) /\ \A q \in Tables : q # None
  BY WalletAssumption DEF IInv, WhereOK
<1>1. op[u].kind = "reserved" /\ op[u] \in Ops /\ i \in Rooms
  BY <1>0 DEF Types, Sits
<1>2. r \in Tables
  BY <1>0, <1>1 DEF Placed, Indexed
<1>3. t \in RoomRecords
  BY <1>0, <1>2 DEF Types
<1>4. \A q \in Tables : Up(table[q]) => ~table[q].seat[u].here
  BY <1>0, <1>1 DEF Placed, SeatOf, Resting
<1>5. i \in {None, r}
  BY <1>0, <1>1 DEF Placed, Reserved
<1>6. CASE /\ Runs(r)
           /\ table' = [table EXCEPT ![r].seat[u] = [NoSeat EXCEPT !.here = TRUE, !.chips = op[u].chips]]
           /\ op' = [op EXCEPT ![u] = Idle] /\ UNCHANGED index
  <2>1. PICK x : Room(r, x) /\ Seated(t, x, u)
    BY <1>0, <1>2, <1>6, SitsIs
  <2>2. Turn(u, Idle)
    BY <1>0, <1>6, TurnIs, Nothing
  <2>3. Quiet(t, x, u)
    BY <2>1 DEF Quiet, Seated, SameRoom
  <2>4. table'[r] = x /\ x.state = t.state /\ x.unseated = t.unseated
    BY <2>1 DEF Room, Seated, SameRoom
  <2>5. \A q \in Tables : q # r => table'[q] = table[q]
    BY <2>1 DEF Room
  <2>6. t.state = "open" \/ t.state = "closing"
    BY <1>6 DEF Runs
  <2>7. i = r \/ (i = None /\ u \in t.unseated)
    <3>1. t.state = "open" => i = r
      BY <1>0, <1>1 DEF Placed, Reserved
    <3>2. t.state = "closing" => u \in t.unseated /\ i = None
      BY <1>0, <1>1, <1>2, <1>5 DEF Placed, Reserved, Indexed
    <3> QED BY <2>6, <3>1, <3>2
  <2>8. Indexed(table', u, Idle, i) /\ Reserved(table', u, Idle, i)
    <3>1. i # None => table'[i].state = "open"
      BY <1>0, <1>5, <2>4 DEF Placed, Indexed
    <3> QED BY <3>1, Nothing DEF Indexed, Reserved, Away
  <2>9. SeatOf(table', u, Idle, i)
    <3>1. \A q \in Tables : Up(table'[q]) /\ table'[q].seat[u].here => q = r
      BY <1>4, <2>5
    <3>2. Resting(Idle)
      BY Nothing DEF Resting
    <3> QED BY <2>4, <2>7, <3>1, <3>2 DEF SeatOf
  <2>10. UnseatedOf(table', u, Idle, i)
    <3>1. \A q \in Tables : Up(table'[q]) /\ u \in table'[q].unseated
                              => Up(table[q]) /\ u \in table[q].unseated
      BY <2>4, <2>5 DEF Up
    <3>2. Resting(Idle)
      BY Nothing DEF Resting
    <3> QED BY <1>0, <3>1, <3>2 DEF Placed, UnseatedOf
  <2>11. Placed(table', u, Idle, i)
    BY <2>8, <2>9, <2>10 DEF Placed
  <2>12. index' = index
    BY <1>6
  <2> HIDE DEF r, t, i
  <2> QED BY <1>0, <1>2, <2>1, <2>2, <2>3, <2>11, <2>12, MovesWhere DEF t, i
<1>7. CASE /\ t.state \in {"gone", "shut"}
           /\ index' = [index EXCEPT ![u] = IF @ = r THEN None ELSE @]
           /\ op' = [op EXCEPT ![u] = Unseated(@)] /\ UNCHANGED table
  <2> DEFINE p == Unseated(op[u])
  <2>1. p \in Ops /\ (p = Idle \/ (p.kind = "carry" /\ p.at = op[u].to /\ op[u].to # None))
    BY <1>1, UnseatedIs
  <2>2. op' = [op EXCEPT ![u] = p]
    BY <1>7
  <2>3. ~Up(t)
    BY <1>7 DEF Up
  <2>4. Nowhere(table, u)
    BY <1>0, <1>1, <1>4, <2>3 DEF Nowhere, Placed, UnseatedOf, Resting
  <2>5. op[u].to \in Rooms
    BY <1>1, OpFields
  <2> HIDE DEF p
  <2>6. Turn(u, p)
    BY <1>0, <2>1, <2>2, TurnIs
  <2>7. Placed(table, u, p, None)
    BY <2>1, <2>4, <2>5, NowherePlaced, Nothing DEF Rooms
  <2>8. index'[u] = None /\ \A v \in Users \ {u} : index'[v] = index[v]
    BY <1>0, <1>5, <1>7 DEF Types
  <2> QED BY <1>0, <1>7, <2>6, <2>7, <2>8, TurnWhere
<1> QED BY <1>6, <1>7 DEF Sits

\* A purchase that reaches the seat, or no seat.
LEMMA TopsUpWhere ==
  ASSUME IInv, NEW u \in Users, BuyTopsUp(u)
  PROVE  WhereOK'
<1> DEFINE r == op[u].at
           t == table[r]
<1>0. Types /\ WhereOK /\ Placed(table, u, op[u], index[u])
  BY Zenon DEF IInv, WhereOK
<1>1. op[u].kind = "credit" /\ UNCHANGED index /\ op' = [op EXCEPT ![u] = Idle] /\ index[u] \in Rooms
  BY <1>0 DEF BuyTopsUp, Types
<1>2. r \in Tables
  BY <1>0, <1>1 DEF Placed, Indexed
<1>3. Turn(u, Idle) /\ Resting(Idle) /\ Resting(op[u]) /\ Idle.kind # "credit"
  BY <1>0, <1>1, TurnIs, Nothing DEF Resting
<1>4. CASE UNCHANGED table
  <2>1. Placed(table, u, Idle, index[u])
    BY <1>0, <1>3, RestPlaced
  <2> QED BY <1>0, <1>1, <1>3, <1>4, <2>1, TurnWhere
<1>5. CASE /\ t.seat[u].here
           /\ LET e == t.entry[u]
              IN  table' = [table EXCEPT
                     ![r].seat[u].chips = @ + 1,
                     ![r].entry[u] =
                        IF e.in THEN [e EXCEPT !.chips = @ + 1, !.written = @ + 1] ELSE e]
  <2>1. PICK x : Room(r, x) /\ Moves(t, x, u)
    BY <1>0, <1>2, <1>5, BuyTopsUpIs, Zenon
  <2>2. Quiet(t, x, u) /\ Quiet(t, x, None)
    BY <2>1 DEF Quiet, Moves, SameRoom, SameHere
  <2>3. Placed(table', u, op[u], index[u])
    <3>1. u \in Users \ {None}
      BY WalletAssumption
    <3> HIDE DEF r
    <3> QED BY <1>0, <1>1, <1>2, <2>1, <2>2, <3>1, QuietPlaced
  <2>4. Placed(table', u, Idle, index[u])
    BY <1>3, <2>3, RestPlaced
  <2> HIDE DEF r, t
  <2> QED BY <1>0, <1>1, <1>2, <1>3, <2>1, <2>2, <2>4, MovesWhere, Zenon DEF t
<1> QED BY <1>4, <1>5, Zenon DEF BuyTopsUp

\* Leaving the seat.
LEMMA LeaveRunsWhere ==
  ASSUME IInv, NEW u \in Users, LeaveRuns(u)
  PROVE  WhereOK'
<1> DEFINE r == op[u].at
           t == table[r]
<1>0. Types /\ WhereOK /\ Placed(table, u, op[u], index[u]) /\ \A q \in Tables : q # None
  BY WalletAssumption, Zenon DEF IInv, WhereOK
<1>1. op[u].kind = "leave" /\ op[u] \in Ops /\ UNCHANGED index
  BY <1>0 DEF Types, LeaveRuns
<1>2. r \in Tables /\ index[u] = None
  BY <1>0, <1>1 DEF Placed, Indexed, Away
<1>3. /\ t.live => t.dealt \in Numbers
      /\ \A v \in Users : t.seat[v].active => t.live
  BY <1>2, InHand
<1>4. PICK y \in RoomRecords :
         /\ Parts(t, y, u) /\ Resolve(r, y)
         /\ \/ Cardinality(Active(y)) = 1 /\ y.by = u
               /\ \E n \in Nat : op' = [op EXCEPT ![u].chips = n]
            \/ Cardinality(Active(y)) # 1 /\ y.by = None
               /\ \E n \in Nat : op' = [op EXCEPT ![u] = Left([op[u] EXCEPT !.chips = n])]
  BY <1>0, <1>2, <1>3, LeaveRunsIs
<1>5. Active(y) # {} => y.dealt \in Numbers
  <2>1. \A v \in Users : y.seat[v].active => t.seat[v].active
    BY <1>4 DEF Parts
  <2> QED BY <1>3, <1>4, <2>1 DEF Parts, Active
<1>6. PICK x : Room(r, x) /\ SameRoom(y, x) /\ SameHere(y, x)
  BY <1>0, <1>2, <1>4, <1>5, ResolveIs, Zenon
<1>7. Quiet(t, x, u) /\ ~x.seat[u].here /\ SameRoom(t, x)
  BY <1>4, <1>6 DEF Quiet, Parts, SameRoom, SameHere
<1>8. \E p : Turn(u, p) /\ p.kind # "reserved"
             /\ (p.kind \in {"join", "carry", "leave", "credit"} => p.at \in Tables)
  <2>1. ASSUME NEW n \in Nat, op' = [op EXCEPT ![u].chips = n]
        PROVE  \E p : Turn(u, p) /\ p.kind = "leave" /\ p.at = r
    <3> DEFINE p == [op[u] EXCEPT !.chips = n]
    <3>1. p \in Ops /\ p.kind = "leave" /\ p.at = r
      BY <1>1 DEF Ops
    <3>2. op' = [op EXCEPT ![u] = p]
      BY <2>1
    <3> HIDE DEF p, r
    <3>3. Turn(u, p)
      BY <1>0, <3>1, <3>2, TurnIs
    <3> QED BY <3>1, <3>3
  <2>2. ASSUME NEW n \in Nat, op' = [op EXCEPT ![u] = Left([op[u] EXCEPT !.chips = n])]
        PROVE  \E p : Turn(u, p) /\ (p = Idle \/ (p.kind = "carry" /\ p.at \in Tables))
    <3> DEFINE o == [op[u] EXCEPT !.chips = n]
    <3>1. o \in Ops /\ o.kind = "leave" /\ o.at = r /\ o.to \in Rooms
      BY <1>1 DEF Ops
    <3>2. op' = [op EXCEPT ![u] = Left(o)]
      BY <2>2
    <3> HIDE DEF o, r
    <3>3. /\ Left(o) \in Ops
          /\ Left(o) = Idle \/ (Left(o).kind = "carry" /\ Left(o).at = o.to /\ o.to # None)
      BY <1>0, <1>2, <3>1, LeftIs
    <3>4. Turn(u, Left(o))
      BY <1>0, <3>2, <3>3, TurnIs
    <3> QED BY <3>1, <3>3, <3>4 DEF Rooms
  <2> HIDE DEF r
  <2> QED BY <1>2, <1>4, <2>1, <2>2, Nothing
<1>9. PICK p : Turn(u, p) /\ p.kind # "reserved"
             /\ (p.kind \in {"join", "carry", "leave", "credit"} => p.at \in Tables)
  BY <1>8
<1>10. Nowhere(table', u)
  <2>1. \A q \in Tables : Up(table[q]) =>
          /\ table[q].seat[u].here => q = r
          /\ u \notin table[q].unseated
    BY <1>0, <1>1, <1>2 DEF Placed, SeatOf, UnseatedOf, Resting
  <2>2. \A q \in Tables : q # r => table'[q] = table[q]
    BY <1>6 DEF Room
  <2>3. table'[r] = x /\ ~x.seat[u].here /\ x.unseated = t.unseated /\ x.state = t.state
    BY <1>6, <1>7 DEF Room, SameRoom
  <2> QED BY <1>2, <2>1, <2>2, <2>3 DEF Nowhere, Up
<1>11. Placed(table', u, p, None)
  BY <1>9, <1>10, NowherePlaced
<1> HIDE DEF r, t
<1> QED BY <1>0, <1>1, <1>2, <1>6, <1>7, <1>9, <1>11, MovesWhere DEF t

\* The hand whose end is being written is one that was dealt.
LEMMA FirstIsDealt ==
  ASSUME IInv, NEW r \in Tables, FirstReturns(r)
  PROVE  table[r].dealt \in Numbers
<1> DEFINE t == table[r]
<1>1. HandOK(t, r, chain, op) /\ t \in RoomRecords
  BY DEF IInv, HandsOK, Types
<1>2. t.busy /\ t.dealt \in 0 .. HandsPerTable
  BY <1>1, RoomFields DEF FirstReturns
<1>3. CASE t.dealt # 0
  BY <1>2, <1>3, WalletAssumption DEF Numbers
<1>4. CASE t.dealt = 0
  <2>1. PICK n \in Numbers : Awaited(chain[<<r, n>>])
    BY <1>1, <1>2 DEF HandOK, Waits
  <2>2. n > t.dealt
    BY <1>4, <2>1, WalletAssumption DEF Numbers
  <2> QED BY <1>1, <2>1, <2>2 DEF HandOK, Requested, Awaited
<1> QED BY <1>3, <1>4

\* The last of a leave that ended the hand, or of a hand that nobody left.
LEMMA FirstReturnsWhere ==
  ASSUME IInv, NEW r \in Tables, FirstReturns(r)
  PROVE  WhereOK'
<1> DEFINE t == table[r]
           u == t.by
<1>0. Types /\ WhereOK /\ LeaverOut(t, r, chain, op)
      /\ \A q \in Tables : q # None
  BY WalletAssumption DEF IInv, HandsOK, HandOK
<1>1. t \in RoomRecords /\ UNCHANGED index
  BY <1>0 DEF Types, FirstReturns
<1>2. t.dealt \in Numbers
  BY FirstIsDealt
<1>3. PICK x : Room(r, x) /\ Freed(t, x)
  BY <1>0, <1>2, FirstReturnsIs
<1>4. Up(x) => Up(t)
  BY <1>3 DEF Freed, Up
<1>4a. Quiet(t, x, u) /\ Quiet(t, x, None)
  <2>1. x.state = t.state \/ (t.state = "ending" /\ x.state = "gone")
    BY <1>3 DEF Freed
  <2> QED BY <1>3, <2>1 DEF Quiet, Freed, SameHere
<1>5. CASE u = None
  <2>1. UNCHANGED op
    BY <1>5 DEF FirstReturns
  <2> HIDE DEF t, u
  <2> QED BY <1>0, <1>1, <1>3, <1>4a, <2>1, QuietWhere DEF t
<1>6. CASE u # None
  <2>1. u \in Users /\ op[u].kind = "leave" /\ op[u].at = r /\ ~t.seat[u].here
    BY <1>0, <1>1, <1>6, RoomFields DEF LeaverOut
  <2>2. op' = [op EXCEPT ![u] = Left(op[u])]
    BY <1>6 DEF FirstReturns
  <2>3. op[u] \in Ops /\ op[u].to \in Rooms
    BY <1>0, <2>1, OpFields DEF Types
  <2> DEFINE p == Left(op[u])
  <2>4. p \in Ops /\ (p = Idle \/ (p.kind = "carry" /\ p.at = op[u].to /\ op[u].to # None))
    <3>1. op[u].at # None
      BY <1>0, <2>1
    <3> HIDE DEF u, t
    <3> QED BY <2>1, <2>3, <3>1, LeftIs
  <2>5. Nowhere(table, u) /\ index[u] = None
    <3>1. Placed(table, u, op[u], index[u])
      BY <1>0, <2>1 DEF WhereOK
    <3> QED BY <2>1, <3>1, AwayNowhere DEF Away
  <2>6. Nowhere(table', u)
    <3>1. \A q \in Tables : q # r => table'[q] = table[q]
      BY <1>3 DEF Room
    <3>2. table'[r] = x /\ ~x.seat[u].here /\ x.unseated = t.unseated
      BY <1>3, <2>1 DEF Room, Freed, SameHere
    <3> HIDE DEF u
    <3> QED BY <1>4, <2>1, <2>5, <3>1, <3>2, <1>4a DEF Nowhere
  <2> HIDE DEF p, u, t
  <2>7. Turn(u, p)
    BY <1>0, <2>1, <2>2, <2>4, TurnIs DEF p
  <2>8. Placed(table', u, p, None)
    BY <2>3, <2>4, <2>6, NowherePlaced, Nothing DEF Rooms
  <2>9. \A v \in Users : index'[v] = index[v]
    BY <1>1
  <2> QED BY <1>0, <1>3, <1>4a, <2>1, <2>5, <2>7, <2>8, <2>9, MovesWhere DEF t
<1> QED BY <1>5, <1>6

\* A destroy begins: it unseats everybody the index has there.
LEMMA DestroyStartsWhere ==
  ASSUME IInv, NEW r \in Tables, DestroyStarts(r)
  PROVE  WhereOK'
<1> DEFINE t == table[r]
           W == {v \in Users : index[v] = r}
<1>0. Types /\ WhereOK /\ \A q \in Tables : q # None
  BY WalletAssumption DEF IInv, WhereOK
<1>1. t.state = "open" /\ UNCHANGED op
      /\ index' = [v \in Users |-> IF v \in W THEN None ELSE index[v]]
  BY DEF DestroyStarts, Registered
<1>2. t.unseated = {}
  BY <1>0, <1>1 DEF WhereOK, Unseating
<1>3. PICK x : Room(r, x) /\ Same(t, x) /\ x.state = "closing" /\ x.unseated = W
  BY <1>0, DestroyStartsIs
<1>4. /\ \A q \in Tables : q # r => table'[q] = table[q]
      /\ table'[r] = x /\ x.seat = t.seat
  BY <1>3 DEF Room, Same
<1>6. ASSUME NEW v \in Users PROVE Placed(table', v, op'[v], index'[v])
  <2> DEFINE o == op[v]
             i == index[v]
  <2>1. Placed(table, v, o, i) /\ o \in Ops /\ i \in Rooms /\ o.kind \in Kinds
    BY <1>0, OpFields DEF WhereOK, Types
  <2>2. op'[v] = o /\ index'[v] = (IF v \in W THEN None ELSE i)
    BY <1>1
  <2>3. (v \in W) <=> (i = r)
    OBVIOUS
  <2> HIDE DEF o, i, W, t
  <2>4. CASE i = r
    <3>1. Resting(o) \/ (o.kind = "reserved" /\ o.at = r)
      BY <1>0, <2>1, <2>4 DEF Placed, Indexed, Reserved, Resting, Away, Kinds
    <3>2. Indexed(table', v, o, None)
      BY <2>1 DEF Placed, Indexed
    <3>3. Reserved(table', v, o, None)
      BY <1>3, <1>4, <2>3, <2>4, <3>1 DEF Reserved, Resting
    <3>4. SeatOf(table', v, o, None)
      BY <1>0, <1>1, <1>3, <1>4, <2>1, <2>3, <2>4, <3>1 DEF Placed, SeatOf, Resting, Up, t
    <3>5. UnseatedOf(table', v, o, None)
      BY <1>0, <1>3, <1>4, <2>1, <2>4, <3>1 DEF Placed, UnseatedOf, Resting, Up
    <3> QED BY <2>2, <2>3, <2>4, <3>2, <3>3, <3>4, <3>5 DEF Placed
  <2>5. CASE i # r
    <3>1. Indexed(table', v, o, i)
      BY <1>4, <2>1, <2>5 DEF Placed, Indexed, Rooms
    <3>2. Reserved(table', v, o, i)
      BY <1>1, <1>4, <2>1, <2>5 DEF Placed, Reserved, Indexed, t
    <3>3. SeatOf(table', v, o, i)
      BY <1>1, <1>2, <1>3, <1>4, <2>1, <2>5 DEF Placed, SeatOf, Up, t
    <3>4. UnseatedOf(table', v, o, i)
      BY <1>3, <1>4, <2>1, <2>3, <2>5 DEF Placed, UnseatedOf, Up
    <3> QED BY <2>2, <2>3, <2>5, <3>1, <3>2, <3>3, <3>4 DEF Placed
  <2> QED BY <2>4, <2>5
<1>7. Unseating(table')
  <2>1. \A v \in W, q \in Tables : Up(table[q]) => v \notin table[q].unseated
    <3> SUFFICES ASSUME NEW v \in Users, index[v] = r, NEW q \in Tables, Up(table[q])
                 PROVE  v \notin table[q].unseated
      OBVIOUS
    <3>1. Placed(table, v, op[v], index[v])
      BY <1>0 DEF WhereOK
    <3> QED BY <1>0, <3>1 DEF Placed, UnseatedOf
  <2>2. \A q \in Tables : table'[q].unseated # {}
                            => table'[q].state \in {"closing", "ending", "gone"}
    BY <1>0, <1>3, <1>4 DEF WhereOK, Unseating
  <2>3. ASSUME NEW p \in Tables, NEW q \in Tables, NEW v \in Users,
               Up(table'[p]), Up(table'[q]), v \in table'[p].unseated, v \in table'[q].unseated
        PROVE  p = q
    BY <1>0, <1>3, <1>4, <2>1, <2>3 DEF WhereOK, Unseating, Up
  <2> QED BY <2>2, <2>3 DEF Unseating
<1> QED BY <1>6, <1>7 DEF WhereOK

\* A destroy returns: the room was down already.
LEMMA DestroyReturnsWhere ==
  ASSUME IInv, NEW r \in Tables, DestroyReturns(r)
  PROVE  WhereOK'
<1>0. Types /\ WhereOK
  BY DEF IInv
<1>1. table[r].state = "gone" /\ UNCHANGED <<op, index>>
  BY DEF DestroyReturns
<1>2. PICK x : Room(r, x) /\ x.state = "shut" /\ x.unseated = {}
  BY <1>0, DestroyReturnsIs
<1>3. /\ \A q \in Tables : q # r => table'[q] = table[q]
      /\ ~Up(table'[r]) /\ ~Up(table[r]) /\ table'[r].unseated = {} /\ table'[r].state = "shut"
  BY <1>1, <1>2 DEF Room, Up
<1>4. ASSUME NEW v \in Users PROVE Placed(table', v, op'[v], index'[v])
  <2>1. Placed(table, v, op[v], index[v]) /\ index[v] \in Rooms
    BY <1>0 DEF WhereOK, Types
  <2>2. Placed(table', v, op[v], index[v])
    <3>1. Indexed(table', v, op[v], index[v])
      BY <1>1, <1>3, <2>1 DEF Placed, Indexed, Rooms
    <3>2. Reserved(table', v, op[v], index[v])
      BY <1>1, <1>3, <2>1 DEF Placed, Reserved, Indexed
    <3>3. SeatOf(table', v, op[v], index[v])
      BY <1>3, <2>1 DEF Placed, SeatOf
    <3>4. UnseatedOf(table', v, op[v], index[v])
      BY <1>3, <2>1 DEF Placed, UnseatedOf
    <3> QED BY <3>1, <3>2, <3>3, <3>4 DEF Placed
  <2> QED BY <1>1, <2>2
<1>5. Unseating(table')
  BY <1>0, <1>3 DEF WhereOK, Unseating
<1> QED BY <1>4, <1>5 DEF WhereOK

\* The closures that no operation is part of.
LEMMA TableWhere ==
  ASSUME IInv, NEW r \in Tables,
         \/ StartHand(r) \/ Showdown(r) \/ DestroyRuns(r)
         \/ \E u \in Users : Chaal(r, u) \/ Pack(r, u)
  PROVE  WhereOK'
<1> DEFINE t == table[r]
<1>0. Types /\ WhereOK /\ UNCHANGED <<op, index>>
  BY Zenon DEF IInv, StartHand, Showdown, DestroyRuns, Chaal, Pack
<1>1. /\ t \in RoomRecords
      /\ t.live => t.dealt \in Numbers
      /\ \A v \in Users : t.seat[v].active => t.live
  BY InHand
<1>2. ASSUME NEW x, Room(r, x), SameRoom(t, x), SameHere(t, x) PROVE WhereOK'
  <2>1. Quiet(t, x, None)
    BY <1>2 DEF Quiet, SameRoom, SameHere
  <2> HIDE DEF t
  <2> QED BY <1>0, <1>2, <2>1, QuietWhere DEF t
<1>3. CASE StartHand(r)
  BY <1>0, <1>2, <1>3, StartHandIs
<1>4. ASSUME NEW u \in Users, Chaal(r, u) PROVE WhereOK'
  <2>1. t.live
    BY <1>1, <1>4, Zenon DEF Chaal
  <2>2. PICK x : Room(r, x) /\ Moves(t, x, u)
    BY <1>0, <1>4, <2>1, ChaalIs
  <2> QED BY <1>2, <2>2, Zenon DEF Moves
<1>5. ASSUME NEW u \in Users, Pack(r, u) PROVE WhereOK'
  <2>1. t.live
    BY <1>1, <1>5 DEF Pack
  <2>2. PICK y \in RoomRecords : Moves(t, y, u) /\ Resolve(r, y)
    BY <1>0, <1>5, <2>1, PackIs
  <2>3. y.dealt \in Numbers
    BY <1>1, <2>1, <2>2 DEF Moves, SameHand
  <2>4. PICK x : Room(r, x) /\ SameRoom(y, x) /\ SameHere(y, x)
    BY <1>0, <2>2, <2>3, ResolveIs
  <2>5. SameRoom(t, x) /\ SameHere(t, x)
    BY <2>2, <2>4 DEF Moves, SameRoom, SameHere
  <2> QED BY <1>2, <2>4, <2>5
<1>6. CASE Showdown(r)
  <2>1. PICK w \in Active(t) : EndHand(r, t, w)
    BY <1>6 DEF Showdown
  <2>2. w \in Users /\ t.dealt \in Numbers
    BY <1>1, <1>6 DEF Showdown, Active
  <2>3. PICK x, c : Room(r, x) /\ Closed(t, x)
    BY <1>0, <1>1, <2>1, <2>2, EndHandIs
  <2> QED BY <1>2, <2>3 DEF Closed
<1>7. CASE DestroyRuns(r)
  <2>0. t.state = "closing"
    BY <1>7 DEF DestroyRuns
  <2>1. CASE ~t.live
    <3>1. PICK x : Room(r, x) /\ Same(t, x) /\ x.state = "gone" /\ x.unseated = t.unseated
      BY <1>0, <1>7, <2>1, DestroyRunsIs
    <3>2. Quiet(t, x, None)
      BY <2>0, <3>1 DEF Quiet, Same
    <3> HIDE DEF t
    <3> QED BY <1>0, <3>1, <3>2, QuietWhere DEF t
  <2>2. CASE t.live
    <3>1. PICK y \in RoomRecords, w \in Active(t) :
             EndHand(r, y, w) /\ Same(t, y) /\ y.state = "ending" /\ y.unseated = t.unseated
      BY <1>0, <1>7, <2>2, DestroyRunsIs
    <3>2. w \in Users /\ y.dealt \in Numbers
      BY <1>1, <2>2, <3>1 DEF Active, Same, SameHand
    <3>3. PICK x, c : Room(r, x) /\ Closed(y, x)
      BY <1>0, <3>1, <3>2, EndHandIs
    <3>4. Quiet(t, x, None)
      BY <2>0, <3>1, <3>3 DEF Quiet, Same, Closed, SameRoom, SameHere
    <3> HIDE DEF t
    <3> QED BY <1>0, <3>3, <3>4, QuietWhere DEF t
  <2> QED BY <2>1, <2>2
<1> QED BY <1>3, <1>4, <1>5, <1>6, <1>7, Zenon

\* The database and the retries, which know of no seat but by their balances.
LEMMA ChainWhere ==
  ASSUME IInv, NEW h \in Hands, DbSettles(h) \/ RetryRuns(h) \/ RetryReturns(h)
  PROVE  WhereOK'
<1> DEFINE r == h[1]
           t == table[r]
<1>0. Types /\ WhereOK /\ UNCHANGED <<op, index>>
  BY DEF IInv, DbSettles, RetryRuns, RetryReturns
<1>1. CASE UNCHANGED table
  BY <1>0, <1>1 DEF WhereOK
<1>2. ASSUME r \in Tables, NEW x, Room(r, x), SameRoom(t, x),
             x.seat = t.seat \/ SameHere(t, x)
      PROVE  WhereOK'
  <2>1. Quiet(t, x, None)
    BY <1>2 DEF Quiet, SameRoom, SameHere
  <2> HIDE DEF t, r
  <2> QED BY <1>0, <1>2, <2>1, QuietWhere DEF t
<1>3. CASE DbSettles(h)
  BY <1>1, <1>3 DEF DbSettles
<1>4. CASE RetryRuns(h)
  <2>1. r \in Tables /\ (UNCHANGED table \/ \E x : Room(r, x) /\ x.seat = t.seat /\ SameRoom(t, x))
    BY <1>0, <1>4, RetryRunsIs
  <2> HIDE DEF r, t
  <2> QED BY <1>1, <1>2, <2>1
<1>5. CASE RetryReturns(h)
  <2>1. r \in Tables /\ (UNCHANGED table \/ \E x : Room(r, x) /\ SameHere(t, x) /\ SameRoom(t, x))
    BY <1>0, <1>5, RetryReturnsIs
  <2> HIDE DEF r, t
  <2> QED BY <1>1, <1>2, <2>1
<1> QED BY <1>3, <1>4, <1>5

\* Players are where the index, their operations and the destroys say, after any step.
LEMMA WhereStep ==
  ASSUME IInv, Next
  PROVE  WhereOK'
<1>1. ASSUME NEW r \in Tables, OnTable(r) PROVE WhereOK'
  BY <1>1, TableWhere, FirstReturnsWhere, DestroyStartsWhere, DestroyReturnsWhere DEF OnTable
<1>2. ASSUME NEW u \in Users, Striped(u) PROVE WhereOK'
  BY <1>2, JoinsWhere, LeavesWhere, SitsWhere, TopsUpWhere, LeaveRunsWhere DEF Striped
<1> QED BY <1>1, <1>2, ChainWhere DEF Next

-----------------------------------------------------------------------------
(* Hands, requests and the closure that waits *)

\* A closure that is a leave's still waits, for the answer to that hand's end.
LEMMA LeaverWaits ==
  ASSUME NEW t, NEW r, NEW C, NEW O, HandOK(t, r, C, O), t.by # None
  PROVE  /\ t.busy /\ Up(t) /\ O[t.by].kind = "leave" /\ O[t.by].at = r
         /\ t.dealt \in Numbers /\ C[<<r, t.dealt>>].stage = "first"
<1>1. /\ O[t.by].kind = "leave" /\ O[t.by].at = r
      /\ t.dealt \in Numbers /\ C[<<r, t.dealt>>].stage = "first"
  BY DEF HandOK, LeaverOut
<1>2. Awaited(C[<<r, t.dealt>>])
  BY <1>1 DEF Awaited
<1> QED BY <1>1, <1>2 DEF HandOK, Waits

\* Between two closures nothing is awaited, and no leave is on its way.
LEMMA RunsQuiet ==
  ASSUME IInv, NEW r \in Tables, Runs(r)
  PROVE  /\ ~table[r].busy /\ table[r].state \in {"open", "closing"} /\ table[r].by = None
         /\ \A n \in Numbers : ~Awaited(chain[<<r, n>>])
<1>1. HandOK(table[r], r, chain, op)
  BY DEF IInv, HandsOK
<1>2. ~table[r].busy /\ table[r].state \in {"open", "closing"}
  BY DEF Runs
<1>3. table[r].by = None
  BY <1>1, <1>2, LeaverWaits
<1> QED BY <1>1, <1>2, <1>3 DEF HandOK, Waits

\* A room that is left alone is as well as it was.
LEMMA FarHand ==
  ASSUME NEW t, NEW r, NEW C, NEW D, NEW O, NEW P, HandOK(t, r, C, O),
         \A n \in Numbers : Alike(C[<<r, n>>], D[<<r, n>>]),
         t.by # None => P[t.by] = O[t.by]
  PROVE  HandOK(t, r, D, P)
<1>1. Waits(t, r, D)
  BY DEF HandOK, Waits, Awaited, Alike
<1>2. Requested(t, r, D)
  BY DEF HandOK, Requested, Retrying, Alike
<1>3. LeaverOut(t, r, D, P)
  BY DEF HandOK, LeaverOut, Alike
<1> QED BY <1>1, <1>2, <1>3 DEF HandOK

\* So only the room of the step is to be looked at.
LEMMA HandsFrom ==
  ASSUME IInv, NEW r \in Tables, HandOK(table'[r], r, chain', op'),
         \A q \in Tables \ {r} : table'[q] = table[q],
         \A q \in Tables \ {r}, n \in Numbers : Alike(chain[<<q, n>>], chain'[<<q, n>>]),
         \A q \in Tables \ {r} : table[q].by # None => op'[table[q].by] = op[table[q].by]
  PROVE  HandsOK'
<1> SUFFICES ASSUME NEW q \in Tables PROVE HandOK(table'[q], q, chain', op')
  BY DEF HandsOK
<1>1. HandOK(table[q], q, chain, op)
  BY DEF IInv, HandsOK
<1>2. CASE q # r
  <2>1. table'[q] = table[q] /\ \A n \in Numbers : Alike(chain[<<q, n>>], chain'[<<q, n>>])
    BY <1>2
  <2>2. table[q].by # None => op'[table[q].by] = op[table[q].by]
    BY <1>2
  <2> QED BY <1>1, <2>1, <2>2, FarHand
<1> QED BY <1>2

\* A step of one player's operation: if that was a leave's, no closure waits for it
\* but in room r.
LEMMA OthersKept ==
  ASSUME IInv, NEW u \in Users, \A v \in Users \ {u} : op'[v] = op[v], NEW r,
         op[u].kind = "leave" /\ op[u].at \in Tables
            => op[u].at = r \/ ~table[op[u].at].busy \/ ~Up(table[op[u].at])
  PROVE  \A q \in Tables \ {r} : table[q].by # None => op'[table[q].by] = op[table[q].by]
<1> SUFFICES ASSUME NEW q \in Tables, q # r, table[q].by # None
             PROVE  op'[table[q].by] = op[table[q].by]
  OBVIOUS
<1>1. HandOK(table[q], q, chain, op) /\ table[q] \in RoomRecords
  BY DEF IInv, HandsOK, Types
<1> DEFINE t == table[q]
<1>2. t.busy /\ Up(t) /\ op[t.by].kind = "leave" /\ op[t.by].at = q
  <2>1. HandOK(t, q, chain, op) /\ t.by # None
    BY <1>1
  <2> HIDE DEF t
  <2>2. LeaverOut(t, q, chain, op) /\ Waits(t, q, chain)
    BY <2>1 DEF HandOK
  <2>3. /\ op[t.by].kind = "leave" /\ op[t.by].at = q
        /\ t.dealt \in Numbers /\ Awaited(chain[<<q, t.dealt>>])
    BY <2>1, <2>2 DEF LeaverOut, Awaited
  <2> QED BY <2>2, <2>3 DEF Waits
<1>3. table[q].by \in Users
  BY <1>1, RoomFields
<1> QED BY <1>2, <1>3

\* Steps that change no room and no request.
LEMMA IdleHands ==
  ASSUME IInv, UNCHANGED <<table, chain>>, NEW u \in Users,
         \A v \in Users \ {u} : op'[v] = op[v],
         op[u].kind = "leave" /\ op[u].at \in Tables
            => ~table[op[u].at].busy \/ ~Up(table[op[u].at])
  PROVE  HandsOK'
<1> SUFFICES ASSUME NEW q \in Tables PROVE HandOK(table'[q], q, chain', op')
  BY DEF HandsOK
<1>1. HandOK(table[q], q, chain, op) /\ q # None
  BY WalletAssumption DEF IInv, HandsOK
<1>2. \A p \in Tables \ {None} : table[p].by # None => op'[table[p].by] = op[table[p].by]
  BY OthersKept
<1>3. \A n \in Numbers : Alike(chain[<<q, n>>], chain'[<<q, n>>])
  BY DEF Alike
<1>4. table'[q] = table[q] /\ (table[q].by # None => op'[table[q].by] = op[table[q].by])
  BY <1>1, <1>2
<1> QED BY <1>1, <1>3, <1>4, FarHand

\* That covers all the steps of the stripe that stay off the actor.
LEMMA OperationHands ==
  ASSUME IInv, NEW u \in Users,
         \/ JoinReads(u) \/ Reserves(u) \/ SpendLooks(u) \/ SpendCommits(u)
         \/ LeaveStarts(u) \/ LeaveFindsNothing(u) \/ BuyBanks(u) \/ BuyLooks(u)
         \/ \E r \in Tables : JoinLooks(u, r) \/ SwitchStarts(u, r)
  PROVE  HandsOK'
<1>1. UNCHANGED <<table, chain>> /\ \E o : op' = [op EXCEPT ![u] = o]
  <2>1. CASE Reserves(u)
    <3>1. CASE Registered(op[u].at)
      <4>1. op' = [op EXCEPT ![u] = [op[u] EXCEPT !.kind = "reserved"]]
        BY <2>1, <3>1 DEF Reserves
      <4> QED BY <2>1, <4>1 DEF Reserves
    <3>2. CASE ~Registered(op[u].at)
      BY <2>1, <3>2 DEF Reserves
    <3> QED BY <3>1, <3>2
  <2>2. CASE ~Reserves(u)
    BY <2>2 DEF JoinReads, SpendLooks, SpendCommits, LeaveStarts, LeaveFindsNothing, BuyBanks,
                BuyLooks, JoinLooks, SwitchStarts
  <2> QED BY <2>1, <2>2
<1>2. \A v \in Users \ {u} : op'[v] = op[v]
  BY <1>1 DEF IInv, Types
<1>3. \/ op[u].kind # "leave"
      \/ table[op[u].at].state \in {"gone", "shut"}
  BY DEF JoinReads, Reserves, SpendLooks, SpendCommits, LeaveStarts, LeaveFindsNothing, BuyBanks,
         BuyLooks, JoinLooks, SwitchStarts
<1>4. op[u].kind = "leave" => ~Up(table[op[u].at])
  BY <1>3 DEF Up
<1> QED BY <1>1, <1>2, <1>4, IdleHands

\* Closures that move chips about among players who are there.
LEMMA MovesHand ==
  ASSUME NEW t, NEW x, NEW u \in Users, NEW r, NEW C, NEW O, HandOK(t, r, C, O),
         Moves(t, x, u), t.seat[u].here,
         t.by \in Users \cup {None}
  PROVE  HandOK(x, r, C, O)
<1>1. \A v \in Users : CoveredBy(t, v) => CoveredBy(x, v)
  BY DEF Moves, SameHere, SameHand, CoveredBy
<1>2. CoveredBy(x, u)
  BY <1>1 DEF CoveredBy
<1>3. StakesOK(x)
  BY <1>1, <1>2 DEF HandOK, StakesOK, Moves, SameRoom, SameHand, SameHere
<1>4. Waits(x, r, C)
  BY DEF HandOK, Waits, Moves, SameRoom, SameActor, Up
<1>5. Requested(x, r, C)
  BY <1>1 DEF HandOK, Requested, Moves, SameHand
<1>6. LeaverOut(x, r, C, O)
  BY DEF HandOK, LeaverOut, Moves, SameActor, SameHand, SameHere
<1> QED BY <1>3, <1>4, <1>5, <1>6 DEF HandOK

\* The hand's end, in a room where nothing is awaited.
LEMMA EndsHand ==
  ASSUME NEW r \in Tables, NEW y, NEW x, NEW c, NEW w \in Users,
         y.live, y.dealt \in Numbers, Up(y), CoveredBy(y, w),
         \A v \in Users : Due(y.entry[v]) # 0 => CoveredBy(y, v),
         \A n \in Numbers : ~Awaited(chain[<<r, n>>]),
         Requested(y, r, chain), Closed(y, x), Asks(y, c, w),
         chain'[<<r, y.dealt>>] = c,
         \A n \in Numbers : n # y.dealt => chain'[<<r, n>>] = chain[<<r, n>>]
  PROVE  StakesOK(x) /\ Waits(x, r, chain') /\ Requested(x, r, chain')
<1>1. \A v \in Users : CoveredBy(y, v) => CoveredBy(x, v)
  BY DEF Closed, SameHere, CoveredBy
<1>2. StakesOK(x)
  <2>1. \A v \in Users : x.entry[v] = NoEntry
    BY DEF Closed, Emptied
  <2> QED BY <2>1, Nothing DEF Closed, StakesOK
<1>3. Awaited(c) /\ c.stage = "first" /\ x.busy /\ Up(x) /\ ~x.live /\ x.dealt = y.dealt
  BY DEF Asks, Awaited, Closed, SameRoom, Up
<1>4. Waits(x, r, chain')
  BY <1>3 DEF Waits
<1>5. Requested(x, r, chain')
  <2> SUFFICES ASSUME NEW n \in Numbers
               PROVE  /\ chain'[<<r, n>>].stage = "first" => n = x.dealt /\ ~x.live
                      /\ n > x.dealt \/ (n = x.dealt /\ x.live) => chain'[<<r, n>>].stage = "none"
                      /\ \A u \in Users : chain'[<<r, n>>].delta[u] # 0 =>
                           \/ Retrying(chain'[<<r, n>>])
                           \/ chain'[<<r, n>>].stage = "first" /\ CoveredBy(x, u)
    BY DEF Requested
  <2>1. CASE n = y.dealt
    <3>1. ~(n > x.dealt) /\ chain'[<<r, n>>] = c
      BY <1>3, <2>1, WalletAssumption DEF Numbers
    <3>2. \A u \in Users : c.delta[u] # 0 => CoveredBy(x, u)
      BY <1>1 DEF Asks
    <3> QED BY <1>3, <2>1, <3>1, <3>2
  <2>2. CASE n # y.dealt
    <3>1. chain'[<<r, n>>] = chain[<<r, n>>] /\ chain[<<r, n>>].stage # "first"
      BY <2>2, Zenon DEF Awaited
    <3> QED BY <1>3, <2>2, <3>1 DEF Requested
  <2> QED BY <2>1, <2>2
<1> QED BY <1>2, <1>4, <1>5

\* Sitting down, and a purchase.
LEMMA SitsHands ==
  ASSUME IInv, NEW u \in Users, Sits(u) \/ BuyTopsUp(u)
  PROVE  HandsOK'
<1> DEFINE r == op[u].at
           t == table[r]
<1>0. Types /\ Placed(table, u, op[u], index[u])
  BY Zenon DEF IInv, WhereOK
<1>1. op[u].kind \in {"reserved", "credit"} /\ UNCHANGED chain
      /\ \A v \in Users \ {u} : op'[v] = op[v]
  BY <1>0 DEF Types, Sits, BuyTopsUp
<1>2. r \in Tables
  BY <1>0, <1>1 DEF Placed, Indexed
<1>3. t \in RoomRecords /\ HandOK(t, r, chain, op)
  BY <1>2 DEF IInv, HandsOK, Types
<1>4. CASE UNCHANGED table
  BY <1>1, <1>4, IdleHands
<1>5. ASSUME NEW x, Room(r, x), Runs(r), HandOK(x, r, chain, op')
      PROVE  HandsOK'
  <2>1. HandOK(table'[r], r, chain', op')
    BY <1>1, <1>5 DEF Room
  <2>2. \A q \in Tables \ {r} : table'[q] = table[q]
    BY <1>5 DEF Room
  <2>3. \A q \in Tables \ {r}, n \in Numbers : Alike(chain[<<q, n>>], chain'[<<q, n>>])
    BY <1>1 DEF Alike
  <2>4. \A q \in Tables \ {r} : table[q].by # None => op'[table[q].by] = op[table[q].by]
    BY <1>1, OthersKept
  <2> HIDE DEF r
  <2> QED BY <1>2, <2>1, <2>2, <2>3, <2>4, HandsFrom
<1>6. ASSUME Sits(u), Runs(r),
             table' = [table EXCEPT ![r].seat[u] = [NoSeat EXCEPT !.here = TRUE, !.chips = op[u].chips]]
      PROVE  HandsOK'
  <2>1. PICK x : Room(r, x) /\ Seated(t, x, u)
    BY <1>0, <1>2, <1>6, SitsIs
  <2>2. t.by = None
    BY <1>2, <1>6, RunsQuiet
  <2>3. \A v \in Users : CoveredBy(t, v) => CoveredBy(x, v)
    BY <2>1, Zenon DEF Seated, SameHand, CoveredBy
  <2>4. StakesOK(x)
    BY <1>3, <2>1, <2>3, Zenon DEF HandOK, StakesOK, Seated, SameRoom, SameHand, Emptied
  <2>5. Waits(x, r, chain)
    BY <1>3, <2>1, Zenon DEF HandOK, Waits, Seated, SameRoom, SameActor, Up
  <2>6. Requested(x, r, chain)
    BY <1>3, <2>1, <2>3 DEF HandOK, Requested, Seated, SameHand
  <2>7. LeaverOut(x, r, chain, op')
    BY <2>1, <2>2 DEF LeaverOut, Seated, SameActor
  <2> HIDE DEF r, t
  <2> QED BY <1>5, <1>6, <2>1, <2>4, <2>5, <2>6, <2>7 DEF HandOK
<1>7. ASSUME Runs(r), t.seat[u].here,
             LET e == t.entry[u]
             IN  table' = [table EXCEPT
                     ![r].seat[u].chips = @ + 1,
                     ![r].entry[u] =
                        IF e.in THEN [e EXCEPT !.chips = @ + 1, !.written = @ + 1] ELSE e]
      PROVE  HandsOK'
  <2>1. PICK x : Room(r, x) /\ Moves(t, x, u)
    BY <1>0, <1>2, <1>7, BuyTopsUpIs, Zenon
  <2>2. t.by = None
    BY <1>2, <1>7, RunsQuiet
  <2> HIDE DEF t, r
  <2>3. HandOK(x, r, chain, op)
    BY <1>3, <1>7, <2>1, <2>2, MovesHand
  <2>4. x.by = None
    BY <2>1, <2>2 DEF Moves, SameActor
  <2>5. HandOK(x, r, chain, op')
    BY <2>3, <2>4 DEF HandOK, LeaverOut
  <2> QED BY <1>5, <1>7, <2>1, <2>5, Zenon
<1> QED BY <1>4, <1>6, <1>7, Zenon DEF Sits, BuyTopsUp

\* The hand's end, from wherever it came.
LEMMA EndsHands ==
  ASSUME IInv, NEW r \in Tables, Runs(r), NEW y \in RoomRecords, NEW x,
         Room(r, x), Ends(r, y, x),
         y.live, y.dealt \in Numbers, Up(y),
         \A v \in Users : Due(y.entry[v]) # 0 => CoveredBy(y, v),
         \A v \in Users : y.seat[v].active => y.seat[v].here,
         Requested(y, r, chain),
         y.by # None => op'[y.by].kind = "leave" /\ op'[y.by].at = r /\ ~y.seat[y.by].here,
         y.by \in Users \cup {None},
         \A q \in Tables \ {r} : table[q].by # None => op'[table[q].by] = op[table[q].by]
  PROVE  HandsOK'
<1>0. PICK c : \E w \in Active(y) : Closed(y, x) /\ Chain(<<r, y.dealt>>, c) /\ Asks(y, c, w)
  BY DEF Ends
<1>1. PICK w \in Active(y) : Closed(y, x) /\ Chain(<<r, y.dealt>>, c) /\ Asks(y, c, w)
  BY <1>0
<1>2. w \in Users /\ CoveredBy(y, w)
  BY <1>1 DEF Active, CoveredBy
<1>3. \A n \in Numbers : ~Awaited(chain[<<r, n>>])
  BY RunsQuiet
<1>4. /\ chain'[<<r, y.dealt>>] = c
      /\ \A n \in Numbers : n # y.dealt => chain'[<<r, n>>] = chain[<<r, n>>]
      /\ \A q \in Tables \ {r}, n \in Numbers : chain'[<<q, n>>] = chain[<<q, n>>]
  <2>1. \A q \in Tables, n \in Numbers : <<q, n>> \in Hands
    BY DEF Hands, Numbers
  <2> QED BY <1>1, <2>1 DEF Chain
<1>5. StakesOK(x) /\ Waits(x, r, chain') /\ Requested(x, r, chain')
  BY <1>1, <1>2, <1>3, <1>4, EndsHand
<1>6. LeaverOut(x, r, chain', op')
  BY <1>1, <1>4 DEF LeaverOut, Closed, SameHere, Asks
<1>7. HandOK(table'[r], r, chain', op')
  BY <1>5, <1>6 DEF HandOK, Room
<1>8. \A q \in Tables \ {r} : table'[q] = table[q]
  BY DEF Room
<1>9. \A q \in Tables \ {r}, n \in Numbers : Alike(chain[<<q, n>>], chain'[<<q, n>>])
  BY <1>4 DEF Alike
<1> QED BY <1>7, <1>8, <1>9, HandsFrom

\* A closure of the room that no operation is part of, and that ends no hand.
LEMMA RoomHands ==
  ASSUME IInv, NEW r \in Tables, NEW x, Room(r, x), UNCHANGED <<op, chain>>,
         HandOK(x, r, chain, op)
  PROVE  HandsOK'
<1>1. HandOK(table'[r], r, chain', op')
  BY DEF Room
<1>2. \A q \in Tables \ {r} : table'[q] = table[q]
  BY DEF Room
<1>3. \A q \in Tables \ {r}, n \in Numbers : Alike(chain[<<q, n>>], chain'[<<q, n>>])
  BY DEF Alike
<1>4. \A q \in Tables \ {r} : table[q].by # None => op'[table[q].by] = op[table[q].by]
  OBVIOUS
<1> QED BY <1>1, <1>2, <1>3, <1>4, HandsFrom

\* A deal.
LEMMA DealHands ==
  ASSUME IInv, NEW r \in Tables, StartHand(r)
  PROVE  HandsOK'
<1> DEFINE t == table[r]
<1>0. Types /\ t \in RoomRecords /\ HandOK(t, r, chain, op)
  BY DEF IInv, HandsOK, Types
<1>1. Runs(r) /\ ~t.live /\ UNCHANGED <<op, chain>>
  BY DEF StartHand
<1>2. PICK x : /\ Room(r, x) /\ SameRoom(t, x) /\ SameActor(t, x)
               /\ SameHere(t, x) /\ x.live /\ x.dealt = t.dealt + 1
               /\ x.marked = t.marked
               /\ \A v \in Users :
                    /\ x.seat[v].active => x.seat[v].here \/ t.seat[v].active
                    /\ Due(x.entry[v]) # 0 => x.seat[v].here
  BY <1>0, StartHandIs
<1>3. /\ t.state \in {"open", "closing"} /\ t.by = None
      /\ \A n \in Numbers : ~Awaited(chain[<<r, n>>])
  BY <1>1, RunsQuiet
<1>4. t.dealt \in Nat
  BY <1>0, RoomFields, WalletAssumption
<1>5. StakesOK(x)
  <2>1. x.dealt >= 1 /\ x.state \in {"open", "closing"}
    BY <1>2, <1>3, <1>4 DEF SameRoom
  <2>2. \A v \in Users : x.seat[v].active => x.seat[v].here
    BY <1>0, <1>1, <1>2 DEF HandOK, StakesOK
  <2>3. \A v \in Users : Due(x.entry[v]) # 0 => CoveredBy(x, v)
    BY <1>2 DEF CoveredBy
  <2> QED BY <1>2, <2>1, <2>2, <2>3 DEF StakesOK
<1>6. Waits(x, r, chain)
  BY <1>0, <1>2 DEF HandOK, Waits, SameActor, SameRoom, Up
<1>7. Requested(x, r, chain)
  <2> SUFFICES ASSUME NEW n \in Numbers
               PROVE  /\ chain[<<r, n>>].stage # "first"
                      /\ n > t.dealt => chain[<<r, n>>].stage = "none"
                      /\ \A v \in Users : chain[<<r, n>>].delta[v] # 0 => Retrying(chain[<<r, n>>])
    <3>1. \A n \in Numbers : n \in Nat
      BY DEF Numbers
    <3> QED BY <1>2, <1>4, <3>1 DEF Requested
  <2>1. chain[<<r, n>>].stage # "first"
    BY <1>3 DEF Awaited
  <2> QED BY <1>0, <2>1 DEF HandOK, Requested
<1>8. LeaverOut(x, r, chain, op)
  BY <1>2, <1>3 DEF LeaverOut, SameActor
<1> HIDE DEF t
<1> QED BY <1>1, <1>2, <1>5, <1>6, <1>7, <1>8, RoomHands DEF HandOK

\* Bets, packs and a showdown.
LEMMA PlayHands ==
  ASSUME IInv, NEW r \in Tables,
         Showdown(r) \/ \E u \in Users : Chaal(r, u) \/ Pack(r, u)
  PROVE  HandsOK'
<1> DEFINE t == table[r]
<1>0. Types /\ t \in RoomRecords /\ HandOK(t, r, chain, op) /\ UNCHANGED op
  BY Zenon DEF IInv, HandsOK, Types, Showdown, Chaal, Pack
<1>1. Runs(r)
  BY Zenon DEF Showdown, Chaal, Pack
<1>2. /\ t.live => t.dealt \in Numbers
      /\ \A v \in Users : t.seat[v].active => t.live /\ t.seat[v].here
      /\ \A v \in Users : Due(t.entry[v]) # 0 => CoveredBy(t, v)
  BY InHand
<1>3. /\ t.by = None /\ Up(t)
      /\ \A q \in Tables \ {r} : table[q].by # None => op'[table[q].by] = op[table[q].by]
  BY <1>0, <1>1, RunsQuiet DEF Up
<1>4. CASE Showdown(r)
  <2>1. PICK w \in Active(t) : EndHand(r, t, w)
    BY <1>4 DEF Showdown
  <2>2. w \in Users /\ t.live /\ t.dealt \in Numbers
    BY <1>2, <1>4 DEF Showdown, Active
  <2>3. PICK x, c : Room(r, x) /\ Closed(t, x) /\ Chain(<<r, t.dealt>>, c) /\ Asks(t, c, w)
    BY <1>0, <2>1, <2>2, EndHandIs
  <2>4. Ends(r, t, x)
    BY <2>1, <2>3 DEF Ends
  <2>5. Requested(t, r, chain)
    BY <1>0 DEF HandOK
  <2> HIDE DEF t
  <2> QED BY <1>0, <1>1, <1>2, <1>3, <2>2, <2>3, <2>4, <2>5, EndsHands
<1>5. ASSUME NEW u \in Users, Chaal(r, u) PROVE HandsOK'
  <2>1. t.live /\ t.seat[u].here /\ UNCHANGED chain
    BY <1>2, <1>5, Zenon DEF Chaal
  <2>2. PICK x : Room(r, x) /\ Moves(t, x, u)
    BY <1>0, <1>5, <2>1, ChaalIs
  <2> HIDE DEF t
  <2>3. HandOK(x, r, chain, op)
    BY <1>0, <1>3, <2>1, <2>2, MovesHand
  <2> QED BY <1>0, <2>1, <2>2, <2>3, RoomHands, Zenon
<1>6. ASSUME NEW u \in Users, Pack(r, u) PROVE HandsOK'
  <2>1. t.live /\ t.seat[u].here
    BY <1>2, <1>6 DEF Pack
  <2>2. PICK y \in RoomRecords : Moves(t, y, u) /\ Resolve(r, y)
    BY <1>0, <1>6, <2>1, PackIs
  <2>3. y.live /\ y.dealt \in Numbers /\ y.by = None /\ Up(y)
    BY <1>2, <1>3, <2>1, <2>2 DEF Moves, SameHand, SameActor, SameRoom, Up
  <2>4. HandOK(y, r, chain, op)
    <3> HIDE DEF t
    <3> QED BY <1>0, <1>3, <2>1, <2>2, MovesHand
  <2>5. PICK x : /\ Room(r, x)
                 /\ \/ x = y /\ UNCHANGED chain
                    \/ Ends(r, y, x)
    BY <1>0, <2>2, <2>3, ResolveIs
  <2>6. CASE x = y /\ UNCHANGED chain
    BY <1>0, <2>4, <2>5, <2>6, RoomHands
  <2>7. CASE Ends(r, y, x)
    <3>1. /\ \A v \in Users : Due(y.entry[v]) # 0 => CoveredBy(y, v)
          /\ \A v \in Users : y.seat[v].active => y.seat[v].here
          /\ Requested(y, r, chain)
      BY <2>4 DEF HandOK, StakesOK
    <3> QED BY <1>1, <1>3, <2>2, <2>3, <2>5, <2>7, <3>1, EndsHands
  <2> QED BY <2>5, <2>6, <2>7
<1> QED BY <1>4, <1>5, <1>6, Zenon

\* Destroys.
LEMMA DestroyHands ==
  ASSUME IInv, NEW r \in Tables, DestroyStarts(r) \/ DestroyRuns(r) \/ DestroyReturns(r)
  PROVE  HandsOK'
<1> DEFINE t == table[r]
<1>0. Types /\ t \in RoomRecords /\ HandOK(t, r, chain, op) /\ UNCHANGED op
  BY DEF IInv, HandsOK, Types, DestroyStarts, DestroyRuns, DestroyReturns
<1>1. ASSUME NEW x, Room(r, x), Same(t, x), UNCHANGED chain,
             t.live => x.state \in {"open", "closing"},
             t.busy => Up(x)
      PROVE  HandsOK'
  <2>1. \A v \in Users : CoveredBy(t, v) => CoveredBy(x, v)
    BY <1>1 DEF Same, SameHand, CoveredBy
  <2>2. StakesOK(x)
    BY <1>0, <1>1, <2>1 DEF HandOK, StakesOK, Same, SameHand, Emptied
  <2>3. Waits(x, r, chain)
    BY <1>0, <1>1 DEF HandOK, Waits, Same, SameActor
  <2>4. Requested(x, r, chain)
    BY <1>0, <1>1, <2>1 DEF HandOK, Requested, Same, SameHand
  <2>5. LeaverOut(x, r, chain, op)
    BY <1>0, <1>1 DEF HandOK, LeaverOut, Same, SameActor, SameHand
  <2> HIDE DEF t
  <2> QED BY <1>0, <1>1, <2>2, <2>3, <2>4, <2>5, RoomHands DEF HandOK
<1>2. CASE DestroyStarts(r)
  <2>1. PICK x : Room(r, x) /\ Same(t, x) /\ x.state = "closing"
    BY <1>0, <1>2, DestroyStartsIs
  <2>2. UNCHANGED chain /\ Up(x)
    BY <1>2, <2>1 DEF DestroyStarts, Up
  <2> QED BY <1>1, <2>1, <2>2
<1>3. CASE DestroyReturns(r)
  <2>1. PICK x : Room(r, x) /\ Same(t, x) /\ x.state = "shut"
    BY <1>0, <1>3, DestroyReturnsIs
  <2>2. UNCHANGED chain /\ t.state = "gone"
    BY <1>3 DEF DestroyReturns
  <2>3. ~t.live /\ ~t.busy
    <3>1. ~Up(t)
      BY <2>2 DEF Up
    <3> QED BY <1>0, <2>2, <3>1 DEF HandOK, StakesOK, Waits
  <2> QED BY <1>1, <2>1, <2>2, <2>3
<1>4. CASE DestroyRuns(r)
  <2>0. Runs(r)
    BY <1>4 DEF DestroyRuns
  <2>1. t.by = None /\ ~t.busy
    BY <2>0, RunsQuiet
  <2>2. CASE ~t.live
    <3>1. PICK x : Room(r, x) /\ Same(t, x)
      BY <1>0, <1>4, <2>2, DestroyRunsIs
    <3>2. UNCHANGED chain
      BY <1>4, <2>2 DEF DestroyRuns
    <3> QED BY <1>1, <2>1, <2>2, <3>1, <3>2
  <2>3. CASE t.live
    <3>1. PICK y \in RoomRecords, w \in Active(t) :
             EndHand(r, y, w) /\ Same(t, y) /\ y.state = "ending"
      BY <1>0, <1>4, <2>3, DestroyRunsIs
    <3>2. w \in Users /\ y.dealt \in Numbers /\ y.live /\ y.by = None /\ Up(y)
      <4>1. t.dealt \in Numbers
        BY <2>3, InHand
      <4> QED BY <2>1, <2>3, <3>1, <4>1 DEF Active, Same, SameHand, SameActor, Up
    <3>3. PICK x, c : Room(r, x) /\ Closed(y, x) /\ Chain(<<r, y.dealt>>, c) /\ Asks(y, c, w)
      BY <1>0, <3>1, <3>2, EndHandIs
    <3>4. Ends(r, y, x)
      BY <3>1, <3>3 DEF Ends, Active, Same
    <3>5. /\ \A v \in Users : Due(y.entry[v]) # 0 => CoveredBy(y, v)
          /\ \A v \in Users : y.seat[v].active => y.seat[v].here
          /\ Requested(y, r, chain)
      <4>1. \A v \in Users : CoveredBy(t, v) <=> CoveredBy(y, v)
        BY <3>1 DEF Same, SameHand, CoveredBy
      <4>2. StakesOK(t) /\ Requested(t, r, chain)
        BY <1>0 DEF HandOK
      <4>3. Requested(y, r, chain)
        BY <3>1, <4>1, <4>2 DEF Requested, Same, SameHand
      <4> QED BY <3>1, <4>1, <4>2, <4>3 DEF StakesOK, Same
    <3>6. \A q \in Tables \ {r} : table[q].by # None => op'[table[q].by] = op[table[q].by]
      BY <1>0
    <3> QED BY <2>0, <3>1, <3>2, <3>3, <3>4, <3>5, <3>6, EndsHands
  <2> QED BY <2>2, <2>3
<1> QED BY <1>2, <1>3, <1>4

\* Leaving the seat.
LEMMA LeaveHands ==
  ASSUME IInv, NEW u \in Users, LeaveRuns(u)
  PROVE  HandsOK'
<1> DEFINE r == op[u].at
           t == table[r]
<1>0. Types /\ Placed(table, u, op[u], index[u]) /\ u # None /\ op[u] \in Ops
  BY WalletAssumption, Zenon DEF IInv, WhereOK, Types
<1>1. op[u].kind = "leave" /\ Runs(r)
  BY DEF LeaveRuns
<1>2. r \in Tables
  BY <1>0, <1>1 DEF Placed, Indexed
<1>3. t \in RoomRecords /\ HandOK(t, r, chain, op)
  BY <1>2 DEF IInv, HandsOK, Types
<1>4. /\ t.live => t.dealt \in Numbers
      /\ \A v \in Users : t.seat[v].active => t.live /\ t.seat[v].here
      /\ \A v \in Users : Due(t.entry[v]) # 0 => CoveredBy(t, v)
  BY <1>2, InHand
<1>5. /\ t.by = None /\ Up(t) /\ ~t.busy
      /\ \A n \in Numbers : ~Awaited(chain[<<r, n>>])
  BY <1>1, <1>2, RunsQuiet DEF Up
<1>6. PICK y \in RoomRecords :
         /\ Parts(t, y, u) /\ Resolve(r, y)
         /\ \/ Cardinality(Active(y)) = 1 /\ y.by = u
               /\ \E n \in Nat : op' = [op EXCEPT ![u].chips = n]
            \/ Cardinality(Active(y)) # 1 /\ y.by = None
               /\ \E n \in Nat : op' = [op EXCEPT ![u] = Left([op[u] EXCEPT !.chips = n])]
  BY <1>0, <1>2, <1>4, LeaveRunsIs
<1>7. \A v \in Users \ {u} : op'[v] = op[v]
  BY <1>0, <1>6 DEF Types
<1>8. \A q \in Tables \ {r} : table[q].by # None => op'[table[q].by] = op[table[q].by]
  <2>1. op[u].at = r
    BY Zenon
  <2> HIDE DEF r
  <2> QED BY <1>7, <2>1, OthersKept
<1>9. /\ \A v \in Users : y.seat[v].active => t.seat[v].active /\ y.live /\ y.seat[v].here
      /\ y.live = t.live /\ y.dealt = t.dealt /\ y.busy = t.busy /\ y.state = t.state /\ Up(y)
      /\ ~y.seat[u].here
  BY <1>4, <1>5, <1>6, Zenon DEF Parts, SameRoom, Up
<1>10. \A v \in Users : Due(y.entry[v]) # 0 => CoveredBy(y, v)
  BY <1>4, <1>6 DEF Parts, CoveredBy
<1>11. Requested(y, r, chain)
  BY <1>3, <1>5, <1>9 DEF HandOK, Requested, Awaited
<1>12. Active(y) # {} => y.live /\ y.dealt \in Numbers
  BY <1>4, <1>9 DEF Active
<1>13. PICK x : /\ Room(r, x)
                /\ \/ Cardinality(Active(y)) # 1 /\ x = y /\ UNCHANGED chain
                   \/ Cardinality(Active(y)) = 1 /\ Ends(r, y, x)
  BY <1>0, <1>2, <1>6, <1>12, ResolveIs
<1>14. CASE Cardinality(Active(y)) = 1
  <2>1. Ends(r, y, x) /\ y.live /\ y.dealt \in Numbers
    BY <1>12, <1>13, <1>14 DEF Ends
  <2>2. y.by = u
    BY <1>6, <1>14
  <2>3. op'[u].kind = "leave" /\ op'[u].at = r
    <3>1. PICK n \in Nat : op' = [op EXCEPT ![u].chips = n]
      BY <1>6, <1>14
    <3>2. op'[u] = [op[u] EXCEPT !.chips = n]
      BY <1>0, <3>1 DEF Types
    <3> QED BY <1>0, <1>1, <3>2 DEF Ops
  <2> HIDE DEF r, t
  <2>4. y.by # None => op'[y.by].kind = "leave" /\ op'[y.by].at = r /\ ~y.seat[y.by].here
    BY <1>9, <2>2, <2>3
  <2>5. y.by \in Users \cup {None}
    BY <2>2
  <2>6. \A v \in Users : y.seat[v].active => y.seat[v].here
    BY <1>9
  <2> QED BY <1>1, <1>2, <1>8, <1>9, <1>10, <1>11, <1>13, <2>1, <2>4, <2>5, <2>6, EndsHands
<1>15. CASE Cardinality(Active(y)) # 1
  <2>1. x = y /\ UNCHANGED chain /\ y.by = None
    BY <1>6, <1>13, <1>15
  <2>2. StakesOK(y)
    <3>1. ~y.live => Emptied(y)
      BY <1>3, <1>6 DEF HandOK, StakesOK, Parts
    <3>2. y.live => y.state \in {"open", "closing"} /\ y.dealt >= 1
      BY <1>3, <1>9 DEF HandOK, StakesOK
    <3> QED BY <1>9, <1>10, <3>1, <3>2, Zenon DEF StakesOK
  <2>3. Waits(y, r, chain)
    BY <1>5, <1>9 DEF Waits
  <2>4. HandOK(table'[r], r, chain', op')
    BY <1>11, <1>13, <2>1, <2>2, <2>3 DEF HandOK, LeaverOut, Room
  <2>5. \A q \in Tables \ {r} : table'[q] = table[q]
    BY <1>13 DEF Room
  <2>6. \A q \in Tables \ {r}, n \in Numbers : Alike(chain[<<q, n>>], chain'[<<q, n>>])
    BY <2>1 DEF Alike
  <2> HIDE DEF r, t
  <2> QED BY <1>2, <1>8, <2>4, <2>5, <2>6, HandsFrom
<1> QED BY <1>14, <1>15

\* A request that changes in its room.
LEMMA ChainFar ==
  ASSUME NEW r \in Tables, NEW m \in Numbers, NEW c, Chain(<<r, m>>, c)
  PROVE  /\ chain'[<<r, m>>] = c
         /\ \A n \in Numbers : n # m => chain'[<<r, n>>] = chain[<<r, n>>]
         /\ \A q \in Tables \ {r}, n \in Numbers : Alike(chain[<<q, n>>], chain'[<<q, n>>])
<1>1. \A q \in Tables, n \in Numbers : <<q, n>> \in Hands
  BY DEF Hands, Numbers
<1> QED BY <1>1 DEF Chain, Alike

\* The hand's end returns.
LEMMA FirstReturnsHands ==
  ASSUME IInv, NEW r \in Tables, FirstReturns(r), table[r].dealt \in Numbers
  PROVE  HandsOK'
<1> DEFINE t == table[r]
           m == t.dealt
<1>0. Types /\ t \in RoomRecords /\ HandOK(t, r, chain, op)
  BY DEF IInv, HandsOK, Types
<1>1. t.busy /\ chain[<<r, m>>].stage = "first"
  BY DEF FirstReturns
<1>2. PICK x : Room(r, x) /\ Freed(t, x)
  BY <1>0, FirstReturnsIs
<1>3. PICK c : Chain(<<r, m>>, c) /\ \E s \in {"owed", "done"} : Rests(chain[<<r, m>>], c, s)
  BY <1>0, FirstReturnsIs
<1>4. /\ c.stage \in {"owed", "done"}
      /\ \A v \in Users : c.delta[v] # 0 => c.stage = "owed"
  BY <1>3 DEF Rests
<1>5. /\ chain'[<<r, m>>] = c
      /\ \A n \in Numbers : n # m => chain'[<<r, n>>] = chain[<<r, n>>]
      /\ \A q \in Tables \ {r}, n \in Numbers : Alike(chain[<<q, n>>], chain'[<<q, n>>])
  BY <1>3, ChainFar
<1>6. \A n \in Numbers : n # m => ~Awaited(chain[<<r, n>>])
  BY <1>0, <1>1 DEF HandOK, Waits, Awaited
<1>7. ~t.live
  BY <1>0, <1>1 DEF HandOK, Requested
<1>8. StakesOK(x)
  <2>1. Emptied(x)
    BY <1>0, <1>2, <1>7 DEF HandOK, StakesOK, Freed, Emptied
  <2>2. \A v \in Users : ~x.seat[v].active
    BY <1>0, <1>2, <1>7 DEF HandOK, StakesOK, Freed, SameActive
  <2>3. \A v \in Users : Due(x.entry[v]) = 0
    BY <2>1, Nothing DEF Emptied
  <2> QED BY <1>2, <1>7, <2>1, <2>2, <2>3 DEF StakesOK, Freed
<1>9. Waits(x, r, chain')
  <2>1. \A n \in Numbers : ~Awaited(chain'[<<r, n>>])
    BY <1>4, <1>5, <1>6 DEF Awaited
  <2> QED BY <1>2, <2>1 DEF Waits, Freed
<1>10. Requested(x, r, chain')
  <2> SUFFICES ASSUME NEW n \in Numbers
               PROVE  /\ chain'[<<r, n>>].stage # "first"
                      /\ n > t.dealt => chain'[<<r, n>>].stage = "none"
                      /\ \A v \in Users : chain'[<<r, n>>].delta[v] # 0 => Retrying(chain'[<<r, n>>])
    BY <1>2, <1>7 DEF Requested, Freed
  <2>1. CASE n = m
    <3>1. ~(n > m)
      BY <2>1, WalletAssumption DEF Numbers
    <3> QED BY <1>4, <1>5, <2>1, <3>1 DEF Retrying
  <2>2. CASE n # m
    <3>1. chain'[<<r, n>>] = chain[<<r, n>>] /\ chain[<<r, n>>].stage # "first"
      BY <1>5, <1>6, <2>2 DEF Awaited
    <3> QED BY <1>0, <3>1 DEF HandOK, Requested
  <2> QED BY <2>1, <2>2
<1>11. LeaverOut(x, r, chain', op')
  BY <1>2 DEF LeaverOut, Freed
<1>12. \A q \in Tables \ {r} : table[q].by # None => op'[table[q].by] = op[table[q].by]
  <2>1. CASE t.by = None
    BY <2>1 DEF FirstReturns
  <2>2. CASE t.by # None
    <3>1. t.by \in Users /\ op[t.by].kind = "leave" /\ op[t.by].at = r
      BY <1>0, <2>2, RoomFields DEF HandOK, LeaverOut
    <3>2. \A v \in Users \ {t.by} : op'[v] = op[v]
      BY <1>0, <2>2 DEF FirstReturns, Types
    <3> HIDE DEF t
    <3> QED BY <3>1, <3>2, OthersKept
  <2> QED BY <2>1, <2>2
<1>13. HandOK(table'[r], r, chain', op') /\ \A q \in Tables \ {r} : table'[q] = table[q]
  BY <1>2, <1>8, <1>9, <1>10, <1>11 DEF HandOK, Room
<1> QED BY <1>5, <1>12, <1>13, HandsFrom

\* The database and the retries.
LEMMA ChainHands ==
  ASSUME IInv, NEW h \in Hands, DbSettles(h) \/ RetryRuns(h) \/ RetryReturns(h)
  PROVE  HandsOK'
<1>0. Types /\ UNCHANGED op
  BY DEF IInv, DbSettles, RetryRuns, RetryReturns
<1>1. PICK r \in Tables, m \in Numbers : h = <<r, m>>
  BY DEF Hands, Numbers
<1> DEFINE t == table[r]
<1>2. t \in RoomRecords /\ HandOK(t, r, chain, op) /\ h[1] = r
  BY <1>0, <1>1 DEF IInv, HandsOK, Types
<1>3. CASE DbSettles(h)
  <2>1. PICK c : Chain(h, c) /\ Alike(chain[h], c)
    BY <1>0, <1>3, DbSettlesIs
  <2>2. \A q \in Tables, n \in Numbers : Alike(chain[<<q, n>>], chain'[<<q, n>>])
    <3>1. \A q \in Tables, n \in Numbers : <<q, n>> \in Hands
      BY DEF Hands, Numbers
    <3> QED BY <2>1, <3>1 DEF Chain, Alike
  <2>3. UNCHANGED table
    BY <1>3 DEF DbSettles
  <2>4. HandOK(t, r, chain', op')
    BY <1>0, <1>2, <2>2, FarHand
  <2> QED BY <1>0, <2>2, <2>3, <2>4, HandsFrom
<1>4. ASSUME NEW c, Chain(h, c), chain[h].stage \in {"owed", "retried", "detached"},
             c.stage \in {"owed", "retried", "detached", "done"},
             \A v \in Users : c.delta[v] # 0 => Retrying(c),
             NEW x, table'[r] = x, \A q \in Tables \ {r} : table'[q] = table[q],
             SameHand(t, x), x.by = None, x.pot = t.pot, x.entry = t.entry,
             x.state = t.state, SameHere(t, x), SameActive(t, x),
             Waits(x, r, chain')
      PROVE  HandsOK'
  <2>1. /\ chain'[<<r, m>>] = c
        /\ \A n \in Numbers : n # m => chain'[<<r, n>>] = chain[<<r, n>>]
        /\ \A q \in Tables \ {r}, n \in Numbers : Alike(chain[<<q, n>>], chain'[<<q, n>>])
    BY <1>1, <1>4, ChainFar
  <2>2. \A v \in Users : CoveredBy(t, v) => CoveredBy(x, v)
    BY <1>4 DEF SameHand, SameHere, CoveredBy
  <2>3. StakesOK(x)
    BY <1>2, <1>4, <2>2 DEF HandOK, StakesOK, SameHand, SameHere, SameActive, Emptied
  <2>4. Requested(x, r, chain')
    <3> SUFFICES ASSUME NEW n \in Numbers
                 PROVE  /\ chain'[<<r, n>>].stage = "first" => n = t.dealt /\ ~t.live
                        /\ n > t.dealt \/ (n = t.dealt /\ t.live) => chain'[<<r, n>>].stage = "none"
                        /\ \A v \in Users : chain'[<<r, n>>].delta[v] # 0 =>
                             \/ Retrying(chain'[<<r, n>>])
                             \/ chain'[<<r, n>>].stage = "first" /\ CoveredBy(x, v)
      BY <1>4 DEF Requested, SameHand
    <3>1. CASE n = m
      BY <1>1, <1>2, <1>4, <2>1, <3>1 DEF HandOK, Requested
    <3>2. CASE n # m
      BY <1>2, <2>1, <2>2, <3>2 DEF HandOK, Requested
    <3> QED BY <3>1, <3>2
  <2>5. LeaverOut(x, r, chain', op')
    BY <1>4 DEF LeaverOut
  <2> HIDE DEF t
  <2> QED BY <1>0, <1>4, <2>1, <2>3, <2>4, <2>5, HandsFrom DEF HandOK
<1>5. CASE RetryRuns(h)
  <2>1. chain[h].stage = "owed"
    BY <1>5 DEF RetryRuns
  <2>2. \A v \in Users : chain[h].delta[v] # 0 => Retrying(chain[h])
    BY <1>1, <1>2, <2>1 DEF HandOK, Requested, Retrying
  <2>3. PICK c : /\ Chain(h, c) /\ c.delta = chain[h].delta
                 /\ \/ /\ c.stage = "retried" /\ Runs(r)
                       /\ \E x : /\ Room(r, x) /\ x.busy /\ x.by = t.by
                                 /\ x.pot = t.pot /\ x.entry = t.entry
                                 /\ x.seat = t.seat /\ SameRoom(t, x) /\ SameHand(t, x)
                    \/ /\ c.stage = "detached" /\ UNCHANGED table
    BY <1>0, <1>2, <1>5, RetryRunsIs
  <2>4. /\ chain'[<<r, m>>] = c
        /\ \A n \in Numbers : n # m => chain'[<<r, n>>] = chain[<<r, n>>]
    BY <1>1, <2>3, ChainFar
  <2>5. \A v \in Users : c.delta[v] # 0 => Retrying(c)
    BY <2>3 DEF Retrying
  <2>6. CASE c.stage = "retried"
    <3>1. PICK x : /\ Room(r, x) /\ x.busy /\ x.by = t.by
                   /\ x.pot = t.pot /\ x.entry = t.entry
                   /\ x.seat = t.seat /\ SameRoom(t, x) /\ SameHand(t, x)
      BY <2>3, <2>6
    <3>2. Runs(r)
      BY <2>3, <2>6
    <3>3. /\ t.state \in {"open", "closing"} /\ t.by = None
          /\ \A n \in Numbers : ~Awaited(chain[<<r, n>>])
      BY <3>2, RunsQuiet
    <3>4. Waits(x, r, chain')
      <4>1. Up(x) /\ Awaited(c) /\ \A n \in Numbers : Awaited(chain'[<<r, n>>]) => n = m
        BY <2>4, <2>6, <3>1, <3>3 DEF SameRoom, Up, Awaited
      <4> QED BY <2>4, <3>1, <4>1 DEF Waits
    <3>5. SameHere(t, x) /\ SameActive(t, x) /\ x.state = t.state
      BY <3>1 DEF SameHere, SameActive, SameRoom
    <3>6. table'[r] = x /\ \A q \in Tables \ {r} : table'[q] = table[q]
      BY <3>1 DEF Room
    <3> HIDE DEF t
    <3> QED BY <1>4, <2>1, <2>3, <2>5, <2>6, <3>1, <3>3, <3>4, <3>5, <3>6
  <2>7. CASE c.stage = "detached" /\ UNCHANGED table
    <3>1. Waits(t, r, chain')
      <4>1. \A n \in Numbers : Awaited(chain'[<<r, n>>]) <=> Awaited(chain[<<r, n>>])
        BY <1>1, <2>1, <2>4, <2>7 DEF Awaited
      <4> QED BY <1>2, <4>1 DEF HandOK, Waits
    <3>2. t.by = None
      <4>1. table[r].state \in {"gone", "shut"}
        <5>1. chain[h].stage = "owed" /\ Chain(h, c) /\ chain[h] \in Requests
          BY <1>0, <2>1, <2>3 DEF Types
        <5>2. ~(chain' = [chain EXCEPT ![h].stage = "retried"])
          BY <1>0, <2>7, <5>1 DEF Chain, Types, Requests
        <5> QED BY <1>2, <1>5, <5>2 DEF RetryRuns
      <4>2. ~Up(t)
        BY <4>1 DEF Up
      <4> HIDE DEF t
      <4> QED BY <1>2, <4>2, LeaverWaits
    <3>3. SameHere(t, t) /\ SameActive(t, t) /\ SameHand(t, t)
      BY DEF SameHere, SameActive, SameHand
    <3>4. table'[r] = t /\ \A q \in Tables \ {r} : table'[q] = table[q]
      BY <2>7
    <3> HIDE DEF t
    <3> QED BY <1>4, <2>1, <2>3, <2>5, <2>7, <3>1, <3>2, <3>3, <3>4
  <2> QED BY <2>3, <2>6, <2>7
<1>6. CASE RetryReturns(h)
  <2>1. PICK c, s : Chain(h, c) /\ s \in {"owed", "done"} /\ Rests(chain[h], c, s)
    BY <1>0, <1>6, RetryReturnsIs
  <2>2. c.stage = s /\ \A v \in Users : c.delta[v] # 0 => Retrying(c)
    BY <2>1 DEF Rests, Retrying
  <2>3. /\ chain'[<<r, m>>] = c
        /\ \A n \in Numbers : n # m => chain'[<<r, n>>] = chain[<<r, n>>]
    BY <1>1, <2>1, ChainFar
  <2>4. ~Awaited(c)
    BY <2>1, <2>2 DEF Awaited
  <2>5. \/ chain[h].stage = "detached" /\ UNCHANGED table
        \/ /\ chain[h].stage = "retried"
           /\ \E x : /\ Room(r, x) /\ ~x.busy /\ x.by = t.by
                     /\ x.pot = t.pot /\ x.entry = t.entry
                     /\ SameHere(t, x) /\ SameActive(t, x)
                     /\ SameRoom(t, x) /\ SameHand(t, x)
    BY <1>0, <1>2, <1>6, RetryReturnsIs
  <2>6. CASE chain[h].stage = "detached" /\ UNCHANGED table
    <3>2. Waits(t, r, chain')
      <4>1. \A n \in Numbers : Awaited(chain'[<<r, n>>]) <=> Awaited(chain[<<r, n>>])
        BY <1>1, <2>3, <2>4, <2>6 DEF Awaited
      <4> QED BY <1>2, <4>1 DEF HandOK, Waits
    <3>3. chain'[<<r, m>>].stage # "first" /\ chain[<<r, m>>].stage # "first"
      BY <1>1, <2>1, <2>2, <2>3, <2>6
    <3>4. LeaverOut(t, r, chain', op')
      BY <1>0, <1>2, <2>3, <3>3 DEF HandOK, LeaverOut
    <3>5. Requested(t, r, chain')
      <4> SUFFICES ASSUME NEW n \in Numbers
                   PROVE  /\ chain'[<<r, n>>].stage = "first" => n = t.dealt /\ ~t.live
                          /\ n > t.dealt \/ (n = t.dealt /\ t.live) => chain'[<<r, n>>].stage = "none"
                          /\ \A v \in Users : chain'[<<r, n>>].delta[v] # 0 =>
                               \/ Retrying(chain'[<<r, n>>])
                               \/ chain'[<<r, n>>].stage = "first" /\ CoveredBy(t, v)
        BY DEF Requested
      <4>1. CASE n = m
        BY <1>1, <1>2, <2>1, <2>2, <2>3, <2>6, <4>1 DEF HandOK, Requested
      <4>2. CASE n # m
        BY <1>2, <2>3, <4>2 DEF HandOK, Requested
      <4> QED BY <4>1, <4>2
    <3>6. HandOK(table'[r], r, chain', op') /\ \A q \in Tables \ {r} : table'[q] = table[q]
      BY <1>2, <2>6, <3>2, <3>4, <3>5 DEF HandOK
    <3>7. \A q \in Tables \ {r}, n \in Numbers : Alike(chain[<<q, n>>], chain'[<<q, n>>])
      BY <1>1, <2>1, ChainFar
    <3> QED BY <1>0, <3>6, <3>7, HandsFrom
  <2>7. CASE chain[h].stage = "retried"
    <3>1. PICK x : /\ Room(r, x) /\ ~x.busy /\ x.by = t.by
                   /\ x.pot = t.pot /\ x.entry = t.entry
                   /\ SameHere(t, x) /\ SameActive(t, x)
                   /\ SameRoom(t, x) /\ SameHand(t, x)
      BY <2>5, <2>7
    <3>2. \A n \in Numbers : n # m => ~Awaited(chain[<<r, n>>])
      BY <1>1, <1>2, <2>7 DEF HandOK, Waits, Awaited
    <3>3. Waits(x, r, chain')
      <4>1. \A n \in Numbers : ~Awaited(chain'[<<r, n>>])
        BY <2>3, <2>4, <3>2 DEF Awaited
      <4> QED BY <3>1, <4>1 DEF Waits
    <3>4. x.by = None
      <4>1. t.by # None => t.dealt \in Numbers /\ chain[<<r, t.dealt>>].stage = "first"
        BY <1>2 DEF HandOK, LeaverOut
      <4>2. t.by # None => t.dealt # m
        BY <1>1, <2>7, <4>1
      <4> QED BY <3>1, <3>2, <4>1, <4>2 DEF Awaited
    <3>5. x.state = t.state /\ table'[r] = x /\ \A q \in Tables \ {r} : table'[q] = table[q]
      BY <3>1 DEF Room, SameRoom
    <3> HIDE DEF t
    <3> QED BY <1>4, <2>1, <2>2, <2>7, <3>1, <3>3, <3>4, <3>5
  <2> QED BY <2>5, <2>6, <2>7
<1> QED BY <1>3, <1>5, <1>6

\* Hands and requests are well after any step.
LEMMA HandsStep ==
  ASSUME IInv, Next
  PROVE  HandsOK'
<1>1. ASSUME NEW r \in Tables, OnTable(r) PROVE HandsOK'
  BY <1>1, DealHands, PlayHands, FirstIsDealt, FirstReturnsHands, DestroyHands DEF OnTable
<1>2. ASSUME NEW u \in Users, Striped(u) PROVE HandsOK'
  BY <1>2, OperationHands, SitsHands, LeaveHands DEF Striped
<1> QED BY <1>1, <1>2, ChainHands DEF Next

-----------------------------------------------------------------------------
(* The marks *)

\* The rooms and requests that a mark stands for, and the types, after a step.
StillRooms ==
    /\ table' \in [Tables -> RoomRecords]
    /\ \A q \in Tables : table'[q].unseated = table[q].unseated /\ table'[q].marked = table[q].marked
StillChain ==
    /\ chain' \in [Hands -> Requests]
    /\ \A h \in Hands : /\ Retrying(chain'[h]) <=> Retrying(chain[h])
                        /\ Retrying(chain[h]) => chain'[h].delta = chain[h].delta

\* A room that stays as marked as it was.
LEMMA RoomStill ==
  ASSUME NEW r \in Tables, NEW x, Room(r, x),
         x.unseated = table[r].unseated, x.marked = table[r].marked
  PROVE  StillRooms
BY DEF Room, StillRooms

\* A hand's end makes a request, which no mark stands for yet.
LEMMA EndStill ==
  ASSUME IInv, NEW r \in Tables, NEW n \in Numbers, table[r].dealt = n, table[r].live,
         NEW c, Chain(<<r, n>>, c), c.stage = "first"
  PROVE  StillChain
<1>1. chain[<<r, n>>].stage = "none"
  BY DEF IInv, HandsOK, HandOK, Requested
<1> QED BY <1>1 DEF StillChain, Chain, Retrying

\* The closures that change no mark.
LEMMA TableStill ==
  ASSUME IInv, NEW r \in Tables,
         \/ StartHand(r) \/ Showdown(r) \/ DestroyRuns(r)
         \/ \E u \in Users : Chaal(r, u) \/ Pack(r, u)
  PROVE  StillRooms /\ StillChain
<1> DEFINE t == table[r]
<1>0. Types /\ t \in RoomRecords
  BY DEF IInv, Types
<1>1. /\ t.live => t.dealt \in Numbers
      /\ \A v \in Users : t.seat[v].active => t.live
  BY InHand
<1>2. UNCHANGED chain => StillChain
  BY <1>0 DEF Types, StillChain
<1>3. CASE StartHand(r)
  <2>1. PICK x : Room(r, x) /\ SameRoom(t, x) /\ x.marked = t.marked
    BY <1>0, <1>3, StartHandIs
  <2>2. UNCHANGED chain
    BY <1>3 DEF StartHand
  <2> QED BY <1>2, <2>1, <2>2, RoomStill DEF SameRoom
<1>4. ASSUME NEW u \in Users, Chaal(r, u) PROVE StillRooms /\ StillChain
  <2>1. t.live /\ UNCHANGED chain
    BY <1>1, <1>4, Zenon DEF Chaal
  <2>2. PICK x : Room(r, x) /\ Moves(t, x, u)
    BY <1>0, <1>4, <2>1, ChaalIs
  <2> QED BY <1>2, <2>1, <2>2, RoomStill, Zenon DEF Moves, SameRoom, SameHand
<1>5. ASSUME NEW u \in Users, Pack(r, u) PROVE StillRooms /\ StillChain
  <2>1. t.live
    BY <1>1, <1>5 DEF Pack
  <2>2. PICK y \in RoomRecords : Moves(t, y, u) /\ Resolve(r, y)
    BY <1>0, <1>5, <2>1, PackIs
  <2>3. y.dealt = t.dealt /\ y.dealt \in Numbers
    BY <1>1, <2>1, <2>2 DEF Moves, SameHand
  <2>4. PICK x : /\ Room(r, x)
                 /\ \/ x = y /\ UNCHANGED chain
                    \/ Ends(r, y, x)
    BY <1>0, <2>2, <2>3, ResolveIs
  <2>5. CASE x = y /\ UNCHANGED chain
    BY <1>2, <2>2, <2>4, <2>5, RoomStill DEF Moves, SameRoom, SameHand
  <2>6. CASE Ends(r, y, x)
    <3>1. PICK c : Closed(y, x) /\ Chain(<<r, y.dealt>>, c) /\ c.stage = "first"
      BY <2>6 DEF Ends, Asks
    <3>2. x.unseated = t.unseated /\ x.marked = t.marked
      BY <2>2, <3>1 DEF Closed, Moves, SameRoom, SameHand
    <3>3. StillChain
      BY <2>1, <2>3, <3>1, EndStill
    <3> QED BY <2>4, <3>2, <3>3, RoomStill
  <2> QED BY <2>4, <2>5, <2>6
<1>6. CASE Showdown(r)
  <2>1. PICK w \in Active(t) : EndHand(r, t, w)
    BY <1>6 DEF Showdown
  <2>2. w \in Users /\ t.live /\ t.dealt \in Numbers
    BY <1>1, <1>6 DEF Showdown, Active
  <2>3. PICK x, c : Room(r, x) /\ Closed(t, x) /\ Chain(<<r, t.dealt>>, c) /\ c.stage = "first"
    BY <1>0, <2>1, <2>2, EndHandIs DEF Asks
  <2>4. StillChain
    BY <2>2, <2>3, EndStill
  <2> QED BY <2>3, <2>4, RoomStill DEF Closed, SameRoom
<1>7. CASE DestroyRuns(r)
  <2>1. CASE ~t.live
    <3>1. PICK x : Room(r, x) /\ Same(t, x) /\ x.unseated = t.unseated
      BY <1>0, <1>7, <2>1, DestroyRunsIs
    <3>2. UNCHANGED chain
      BY <1>7, <2>1 DEF DestroyRuns
    <3> QED BY <1>2, <3>1, <3>2, RoomStill DEF Same, SameHand
  <2>2. CASE t.live
    <3>1. PICK y \in RoomRecords, w \in Active(t) :
             EndHand(r, y, w) /\ Same(t, y) /\ y.unseated = t.unseated
      BY <1>0, <1>7, <2>2, DestroyRunsIs
    <3>2. w \in Users /\ y.dealt = t.dealt /\ y.dealt \in Numbers
      BY <1>1, <2>2, <3>1 DEF Active, Same, SameHand
    <3>3. PICK x, c : Room(r, x) /\ Closed(y, x) /\ Chain(<<r, y.dealt>>, c) /\ c.stage = "first"
      BY <1>0, <3>1, <3>2, EndHandIs DEF Asks
    <3>4. StillChain
      BY <2>2, <3>2, <3>3, EndStill
    <3>5. x.unseated = t.unseated /\ x.marked = t.marked
      BY <3>1, <3>3 DEF Closed, Same, SameRoom, SameHand
    <3> QED BY <3>3, <3>4, <3>5, RoomStill
  <2> QED BY <2>1, <2>2
<1> QED BY <1>3, <1>4, <1>5, <1>6, <1>7

\* The operations that change no mark.
LEMMA OperationStill ==
  ASSUME IInv, NEW u \in Users, Striped(u), ~LeaveRuns(u)
  PROVE  StillRooms /\ StillChain
<1>0. Types /\ Placed(table, u, op[u], index[u])
  BY Zenon DEF IInv, WhereOK
<1>1. UNCHANGED chain
  BY Zenon DEF Striped, JoinReads, Reserves, Sits, LeaveStarts, LeaveFindsNothing, SpendLooks,
         SpendCommits, BuyBanks, BuyLooks, BuyTopsUp, JoinLooks, SwitchStarts
<1>2. StillChain
  BY <1>0, <1>1 DEF Types, StillChain
<1>3. UNCHANGED table => StillRooms
  BY <1>0 DEF Types, StillRooms
<1> DEFINE r == op[u].at
           t == table[r]
<1>4. CASE Sits(u)
  <2>1. r \in Tables
    BY <1>0, <1>4 DEF Placed, Indexed, Sits
  <2>2. CASE table' = [table EXCEPT ![r].seat[u] = [NoSeat EXCEPT !.here = TRUE, !.chips = op[u].chips]]
    <3>1. PICK x : Room(r, x) /\ Seated(t, x, u)
      BY <1>0, <2>1, <2>2, SitsIs
    <3> HIDE DEF r
    <3> QED BY <1>2, <2>1, <3>1, RoomStill DEF Seated, SameRoom, SameHand
  <2> QED BY <1>2, <1>3, <1>4, <2>2 DEF Sits
<1>5. CASE BuyTopsUp(u)
  <2>1. r \in Tables
    BY <1>0, <1>5 DEF Placed, Indexed, BuyTopsUp
  <2>2. CASE /\ t.seat[u].here
             /\ LET e == t.entry[u]
                IN  table' = [table EXCEPT
                     ![r].seat[u].chips = @ + 1,
                     ![r].entry[u] =
                        IF e.in THEN [e EXCEPT !.chips = @ + 1, !.written = @ + 1] ELSE e]
    <3>1. PICK x : Room(r, x) /\ Moves(t, x, u)
      BY <1>0, <2>1, <2>2, BuyTopsUpIs, Zenon
    <3> HIDE DEF r
    <3> QED BY <1>2, <2>1, <3>1, RoomStill, Zenon DEF Moves, SameRoom, SameHand
  <2> QED BY <1>2, <1>3, <1>5, <2>2, Zenon DEF BuyTopsUp
<1>6. CASE ~Sits(u) /\ ~BuyTopsUp(u)
  <2>1. UNCHANGED table
    BY <1>6 DEF Striped, JoinReads, Reserves, LeaveStarts, LeaveFindsNothing, SpendLooks,
         SpendCommits, BuyBanks, BuyLooks, JoinLooks, SwitchStarts
  <2> QED BY <1>2, <1>3, <2>1
<1> QED BY <1>4, <1>5, <1>6

\* The database, and a retry that begins.
LEMMA ChainStill ==
  ASSUME IInv, NEW h \in Hands, DbSettles(h) \/ RetryRuns(h)
  PROVE  StillRooms /\ StillChain
<1>0. Types
  BY DEF IInv
<1>1. UNCHANGED table => StillRooms
  BY <1>0 DEF Types, StillRooms
<1>2. CASE DbSettles(h)
  <2>1. PICK c : Chain(h, c) /\ Alike(chain[h], c)
    BY <1>0, <1>2, DbSettlesIs
  <2>2. StillChain
    BY <2>1 DEF Chain, Alike, StillChain, Retrying
  <2> QED BY <1>1, <1>2, <2>2 DEF DbSettles
<1>3. CASE RetryRuns(h)
  <2> DEFINE r == h[1]
             t == table[r]
  <2>1. r \in Tables /\ chain[h].stage = "owed"
    BY <1>0, <1>3, RetryRunsIs
  <2>2. PICK c : /\ Chain(h, c) /\ c.delta = chain[h].delta
                 /\ \/ /\ c.stage = "retried"
                       /\ \E x : Room(r, x) /\ SameRoom(t, x) /\ SameHand(t, x)
                    \/ /\ c.stage = "detached" /\ UNCHANGED table
    BY <1>0, <1>3, RetryRunsIs
  <2>3. StillChain
    BY <2>1, <2>2 DEF Chain, StillChain, Retrying
  <2>4. StillRooms
    <3> HIDE DEF r
    <3> QED BY <1>1, <2>1, <2>2, RoomStill DEF SameRoom, SameHand
  <2> QED BY <2>3, <2>4
<1> QED BY <1>2, <1>3

\* There are finitely many hands.
LEMMA HandsFinite == IsFiniteSet(Hands)
<1>1. IsFiniteSet(1 .. HandsPerTable) /\ IsFiniteSet(Tables)
  BY FS_Interval, WalletAssumption
<1> QED BY <1>1, FS_Product DEF Hands

\* The rooms and requests that marks stand for are finitely many;
LEMMA Countable ==
  ASSUME NEW T, NEW C, NEW u
  PROVE  /\ IsFiniteSet(DepartingOf(T, u)) /\ Cardinality(DepartingOf(T, u)) \in Nat
         /\ IsFiniteSet(MarkedOf(T, u)) /\ Cardinality(MarkedOf(T, u)) \in Nat
         /\ IsFiniteSet(OpenOf(C, u)) /\ Cardinality(OpenOf(C, u)) \in Nat
<1>1. IsFiniteSet(DepartingOf(T, u)) /\ IsFiniteSet(MarkedOf(T, u))
  BY WalletAssumption, FS_Subset DEF DepartingOf, MarkedOf
<1>2. IsFiniteSet(OpenOf(C, u))
  BY HandsFinite, FS_Subset DEF OpenOf
<1> QED BY <1>1, <1>2, FS_CardinalityType

\* one more counts one more at most,
LEMMA OneMore ==
  ASSUME NEW S, IsFiniteSet(S), NEW a, NEW R \in SUBSET (S \cup {a})
  PROVE  Cardinality(R) <= Cardinality(S) + 1
<1>1. /\ IsFiniteSet(S \cup {a})
      /\ Cardinality(S \cup {a}) = Cardinality(S) \/ Cardinality(S \cup {a}) = Cardinality(S) + 1
  BY FS_AddElement
<1>2. Cardinality(R) <= Cardinality(S \cup {a}) /\ Cardinality(R) \in Nat
  BY <1>1, FS_Subset, FS_CardinalityType
<1>3. Cardinality(S) \in Nat
  BY FS_CardinalityType
<1> QED BY <1>1, <1>2, <1>3

\* without one of them one less,
LEMMA OneLess ==
  ASSUME NEW S, IsFiniteSet(S), NEW a \in S, NEW R \in SUBSET (S \ {a})
  PROVE  Cardinality(R) <= Cardinality(S) - 1 /\ Cardinality(S) >= 1
<1>1. IsFiniteSet(S \ {a}) /\ Cardinality(S \ {a}) = Cardinality(S) - 1
  BY FS_RemoveElement
<1>2. Cardinality(R) <= Cardinality(S \ {a}) /\ Cardinality(S \ {a}) \in Nat
  BY <1>1, FS_Subset, FS_CardinalityType
<1>3. Cardinality(S) \in Nat
  BY FS_CardinalityType
<1> QED BY <1>1, <1>2, <1>3

\* and a part counts no more than the whole.
LEMMA NoMore ==
  ASSUME NEW S, IsFiniteSet(S), NEW R \in SUBSET S
  PROVE  Cardinality(R) <= Cardinality(S)
BY FS_Subset

\* The departing marks are enough after any step.
LEMMA DepartingStill ==
  ASSUME DepartingOK, UNCHANGED departing,
         \A q \in Tables : table'[q].unseated = table[q].unseated
  PROVE  DepartingOK'
<1>1. \A u \in Users : DepartingOf(table', u) = DepartingOf(table, u)
  BY DEF DepartingOf
<1> QED BY <1>1 DEF DepartingOK

\* A destroy adds a mark for each it unseats, and lifts it when it has returned.
LEMMA DepartingDestroys ==
  ASSUME IInv, NEW r \in Tables, DestroyStarts(r) \/ DestroyReturns(r)
  PROVE  DepartingOK'
<1>0. Types /\ DepartingOK
  BY DEF IInv
<1> SUFFICES ASSUME NEW u \in Users
             PROVE  departing'[u] >= Cardinality(DepartingOf(table', u))
  BY DEF DepartingOK
<1> DEFINE A == DepartingOf(table, u)
           B == DepartingOf(table', u)
<1>1. /\ departing[u] \in Nat /\ departing[u] >= Cardinality(A)
      /\ IsFiniteSet(A) /\ Cardinality(A) \in Nat /\ Cardinality(B) \in Nat
  BY <1>0, Countable DEF Types, DepartingOK
<1>2. CASE DestroyStarts(r)
  <2> DEFINE W == {v \in Users : index[v] = r}
  <2>1. PICK x : Room(r, x) /\ x.unseated = W
    BY <1>0, <1>2, DestroyStartsIs
  <2>2. departing'[u] = IF u \in W THEN departing[u] + 1 ELSE departing[u]
    BY <1>2 DEF DestroyStarts, Owe
  <2> HIDE DEF W
  <2>3. CASE u \in W
    <3>1. B \subseteq A \cup {r}
      BY <2>1 DEF DepartingOf, Room
    <3> HIDE DEF A, B
    <3>2. Cardinality(B) <= Cardinality(A) + 1
      BY <1>1, <3>1, OneMore
    <3> QED BY <1>1, <2>2, <2>3, <3>2 DEF B
  <2>4. CASE u \notin W
    <3>1. B \subseteq A
      BY <2>1, <2>4 DEF DepartingOf, Room
    <3> HIDE DEF A, B
    <3>2. Cardinality(B) <= Cardinality(A)
      BY <1>1, <3>1, NoMore
    <3> QED BY <1>1, <2>2, <2>4, <3>2 DEF B
  <2> QED BY <2>3, <2>4
<1>3. CASE DestroyReturns(r)
  <2>1. PICK x : Room(r, x) /\ x.unseated = {}
    BY <1>0, <1>3, DestroyReturnsIs
  <2>2. departing'[u] = IF u \in table[r].unseated /\ departing[u] > 0
                        THEN departing[u] - 1 ELSE departing[u]
    BY <1>3 DEF DestroyReturns, Lift
  <2>3. CASE u \in table[r].unseated
    <3>1. B \subseteq A \ {r} /\ r \in A
      BY <2>1, <2>3 DEF DepartingOf, Room
    <3> HIDE DEF A, B
    <3>2. Cardinality(B) <= Cardinality(A) - 1 /\ Cardinality(A) >= 1
      BY <1>1, <3>1, OneLess
    <3> QED BY <1>1, <2>2, <2>3, <3>2 DEF B
  <2>4. CASE u \notin table[r].unseated
    <3>1. B \subseteq A
      BY <2>1 DEF DepartingOf, Room
    <3> HIDE DEF A, B
    <3>2. Cardinality(B) <= Cardinality(A)
      BY <1>1, <3>1, NoMore
    <3> QED BY <1>1, <2>2, <2>4, <3>2 DEF B
  <2> QED BY <2>3, <2>4
<1> QED BY <1>2, <1>3

\* The owed marks are enough after a step that changes none of what they stand for,
LEMMA OwedStill ==
  ASSUME OwedOK, UNCHANGED owed, \A q \in Tables : table'[q].marked = table[q].marked, StillChain
  PROVE  OwedOK'
<1> SUFFICES ASSUME NEW u \in Users
             PROVE  owed'[u] >= Cardinality(MarkedOf(table', u)) + Cardinality(OpenOf(chain', u))
  BY DEF OwedOK
<1>1. MarkedOf(table', u) = MarkedOf(table, u)
  BY DEF MarkedOf
<1>2. OpenOf(chain', u) = OpenOf(chain, u)
  BY DEF OpenOf, StillChain
<1> QED BY <1>1, <1>2 DEF OwedOK

\* after a leave, which marks its player at most,
LEMMA LeaveMarks ==
  ASSUME IInv, NEW u \in Users, LeaveRuns(u)
  PROVE  /\ OwedOK' /\ StillChain /\ table' \in [Tables -> RoomRecords]
         /\ \A q \in Tables : table'[q].unseated = table[q].unseated
<1> DEFINE r == op[u].at
           t == table[r]
<1>0. Types /\ OwedOK /\ Placed(table, u, op[u], index[u])
  BY Zenon DEF IInv, WhereOK
<1>1. op[u].kind = "leave"
  BY DEF LeaveRuns
<1>2. r \in Tables
  BY <1>0, <1>1 DEF Placed, Indexed
<1>3. /\ t.live => t.dealt \in Numbers
      /\ \A v \in Users : t.seat[v].active => t.live
  BY <1>2, InHand
<1>4. PICK y \in RoomRecords :
         /\ Parts(t, y, u) /\ Resolve(r, y) /\ owed' = Owe(owed, y.marked \ t.marked)
  BY <1>0, <1>2, <1>3, LeaveRunsIs
<1>5. Active(y) # {} => y.dealt = t.dealt /\ t.live /\ y.dealt \in Numbers
  <2>1. \A v \in Users : y.seat[v].active => t.seat[v].active
    BY <1>4 DEF Parts
  <2> QED BY <1>3, <1>4, <2>1 DEF Parts, Active
<1>6. PICK x : /\ Room(r, x)
               /\ \/ x = y /\ UNCHANGED chain
                  \/ Ends(r, y, x)
  BY <1>0, <1>2, <1>4, <1>5, ResolveIs
<1>7. StillChain
  <2>1. CASE UNCHANGED chain
    BY <1>0, <2>1 DEF Types, StillChain
  <2>2. CASE Ends(r, y, x)
    <3>1. PICK c : Chain(<<r, y.dealt>>, c) /\ c.stage = "first" /\ Active(y) # {}
      BY <2>2 DEF Ends, Asks
    <3>2. y.dealt = t.dealt /\ t.live /\ y.dealt \in Numbers
      BY <1>5, <3>1, Zenon
    <3> HIDE DEF r
    <3> QED BY <1>2, <3>1, <3>2, EndStill DEF t
  <2> QED BY <1>6, <2>1, <2>2
<1>8. x.unseated = t.unseated /\ x.marked = y.marked /\ y.marked \in {t.marked, t.marked \cup {u}}
  BY <1>4, <1>6 DEF Parts, Ends, Closed, SameRoom
<1>9. OwedOK'
  <2> SUFFICES ASSUME NEW v \in Users
               PROVE  owed'[v] >= Cardinality(MarkedOf(table', v)) + Cardinality(OpenOf(chain', v))
    BY DEF OwedOK
  <2> DEFINE A == MarkedOf(table, v)
             B == MarkedOf(table', v)
             m == Cardinality(OpenOf(chain, v))
  <2>1. OpenOf(chain', v) = OpenOf(chain, v)
    BY <1>7 DEF OpenOf, StillChain
  <2>2. /\ owed[v] \in Nat /\ owed[v] >= Cardinality(A) + m
        /\ IsFiniteSet(A) /\ Cardinality(A) \in Nat /\ Cardinality(B) \in Nat /\ m \in Nat
    BY <1>0, Countable DEF Types, OwedOK
  <2>3. owed'[v] = IF v \in y.marked \ t.marked THEN owed[v] + 1 ELSE owed[v]
    BY <1>4 DEF Owe
  <2>4. CASE v \in y.marked \ t.marked
    <3>1. B \subseteq A \cup {r}
      BY <1>6 DEF MarkedOf, Room
    <3> HIDE DEF A, B, m, r, t
    <3>2. Cardinality(B) <= Cardinality(A) + 1
      BY <2>2, <3>1, OneMore
    <3> QED BY <2>1, <2>2, <2>3, <2>4, <3>2 DEF B, m
  <2>5. CASE v \notin y.marked \ t.marked
    <3>1. B \subseteq A
      BY <1>6, <1>8, <2>5 DEF MarkedOf, Room
    <3> HIDE DEF A, B, m, r, t
    <3>2. Cardinality(B) <= Cardinality(A)
      BY <2>2, <3>1, NoMore
    <3> QED BY <2>1, <2>2, <2>3, <2>5, <3>2 DEF B, m
  <2> QED BY <2>4, <2>5
<1>10. \A q \in Tables : table'[q].unseated = table[q].unseated
  BY <1>6, <1>8 DEF Room
<1> QED BY <1>6, <1>7, <1>9, <1>10 DEF Room

\* after the answer to a hand's end, which lifts the marks of those who had left
\* once the request, if it is still open, has marks of its own,
LEMMA FirstMarks ==
  ASSUME IInv, NEW r \in Tables, FirstReturns(r)
  PROVE  /\ OwedOK' /\ chain' \in [Hands -> Requests] /\ table' \in [Tables -> RoomRecords]
         /\ owed' \in [Users -> Nat]
         /\ \A q \in Tables : table'[q].unseated = table[q].unseated
<1> DEFINE t == table[r]
           h == <<r, t.dealt>>
<1>0. Types /\ OwedOK /\ t.dealt \in Numbers
  BY FirstIsDealt DEF IInv
<1>1. h \in Hands /\ chain[h].stage = "first"
  BY <1>0 DEF Hands, Numbers, FirstReturns
<1>2. PICK x : Room(r, x) /\ Freed(t, x)
  BY <1>0, FirstReturnsIs
<1>3. PICK c, s : /\ Chain(h, c) /\ s \in {"owed", "done"} /\ Rests(chain[h], c, s)
                  /\ owed' = Lift(IF s = "owed" THEN Owe(owed, Moved(h)) ELSE owed, t.marked)
  BY <1>0, FirstReturnsIs
<1> DEFINE o == IF s = "owed" THEN Owe(owed, Moved(h)) ELSE owed
<1>4. /\ o \in [Users -> Nat]
      /\ \A v \in Users : o[v] = IF s = "owed" /\ v \in Moved(h) THEN owed[v] + 1 ELSE owed[v]
  BY <1>0 DEF Types, Owe
<1>5. owed' = [v \in Users |-> IF v \in t.marked /\ o[v] > 0 THEN o[v] - 1 ELSE o[v]]
  BY <1>3 DEF Lift
<1> HIDE DEF o
<1>6. owed' \in [Users -> Nat]
  BY <1>4, <1>5
<1>7. OwedOK'
  <2> SUFFICES ASSUME NEW v \in Users
               PROVE  owed'[v] >= Cardinality(MarkedOf(table', v)) + Cardinality(OpenOf(chain', v))
    BY DEF OwedOK
  <2> DEFINE A == MarkedOf(table, v)
             B == MarkedOf(table', v)
             D == OpenOf(chain, v)
             E == OpenOf(chain', v)
  <2>1. /\ owed[v] \in Nat /\ owed[v] >= Cardinality(A) + Cardinality(D)
        /\ IsFiniteSet(A) /\ Cardinality(A) \in Nat /\ Cardinality(B) \in Nat
        /\ IsFiniteSet(D) /\ Cardinality(D) \in Nat /\ Cardinality(E) \in Nat
    BY <1>0, Countable DEF Types, OwedOK
  <2>2. \/ Cardinality(E) <= Cardinality(D) + 1 /\ o[v] = owed[v] + 1
        \/ Cardinality(E) <= Cardinality(D) /\ o[v] = owed[v]
    <3>1. CASE s = "owed" /\ v \in Moved(h)
      <4>1. E \subseteq D \cup {h}
        BY <1>3 DEF OpenOf, Chain
      <4> HIDE DEF D, E, h
      <4>2. Cardinality(E) <= Cardinality(D) + 1
        BY <2>1, <4>1, OneMore
      <4> QED BY <1>4, <3>1, <4>2
    <3>2. CASE ~(s = "owed" /\ v \in Moved(h))
      <4>1. c.delta[v] = 0
        BY <1>3, <3>2 DEF Rests, Moved
      <4>2. E \subseteq D
        BY <1>3, <4>1 DEF OpenOf, Chain
      <4> HIDE DEF D, E, h
      <4>3. Cardinality(E) <= Cardinality(D)
        BY <2>1, <4>2, NoMore
      <4> QED BY <1>4, <3>2, <4>3
    <3> QED BY <3>1, <3>2
  <2>3. CASE v \in t.marked
    <3>1. B \subseteq A \ {r} /\ r \in A
      BY <1>2, <2>3 DEF MarkedOf, Room, Freed
    <3> HIDE DEF A, B
    <3>2. Cardinality(B) <= Cardinality(A) - 1 /\ Cardinality(A) >= 1
      BY <2>1, <3>1, OneLess
    <3>3. owed'[v] = o[v] - 1
      <4> HIDE DEF D, E
      <4> QED BY <1>4, <1>5, <2>1, <2>2, <2>3, <3>2
    <3> HIDE DEF D, E
    <3> QED BY <2>1, <2>2, <3>2, <3>3 DEF B, E
  <2>4. CASE v \notin t.marked
    <3>1. B \subseteq A
      BY <1>2, <2>4 DEF MarkedOf, Room, Freed
    <3> HIDE DEF A, B
    <3>2. Cardinality(B) <= Cardinality(A)
      BY <2>1, <3>1, NoMore
    <3>3. owed'[v] = o[v]
      BY <1>5, <2>4
    <3> HIDE DEF D, E
    <3> QED BY <2>1, <2>2, <3>2, <3>3 DEF B, E
  <2> QED BY <2>3, <2>4
<1>8. \A q \in Tables : table'[q].unseated = table[q].unseated
  BY <1>2 DEF Room, Freed
<1> QED BY <1>2, <1>3, <1>6, <1>7, <1>8 DEF Room, Chain

\* and after the answer to a retry, which lifts the request's own if it is over.
LEMMA RetryMarks ==
  ASSUME IInv, NEW h \in Hands, RetryReturns(h)
  PROVE  /\ OwedOK' /\ chain' \in [Hands -> Requests] /\ StillRooms
         /\ owed' \in [Users -> Nat]
<1>0. Types /\ OwedOK
  BY DEF IInv
<1>1. h[1] \in Tables /\ chain[h].stage \in {"retried", "detached"}
  BY <1>0, RetryReturnsIs
<1>2. StillRooms
  <2>1. UNCHANGED table => StillRooms
    BY <1>0 DEF Types, StillRooms
  <2> DEFINE r == h[1]
  <2>2. \/ UNCHANGED table
        \/ \E x : Room(r, x) /\ SameRoom(table[r], x) /\ SameHand(table[r], x)
    BY <1>0, RetryReturnsIs
  <2>3. r \in Tables
    BY <1>1
  <2> HIDE DEF r
  <2> QED BY <2>1, <2>2, <2>3, RoomStill DEF SameRoom, SameHand
<1>3. PICK c, s : /\ Chain(h, c) /\ s \in {"owed", "done"} /\ Rests(chain[h], c, s)
                  /\ owed' = IF s = "done" THEN Lift(owed, Moved(h)) ELSE owed
  BY <1>0, RetryReturnsIs
<1>4. /\ owed' \in [Users -> Nat]
      /\ \A v \in Users : owed'[v] = IF s = "done" /\ v \in Moved(h) /\ owed[v] > 0
                                     THEN owed[v] - 1 ELSE owed[v]
  <2>1. owed \in [Users -> Nat]
    BY <1>0 DEF Types
  <2>2. CASE s = "done"
    <3>1. owed' = [v \in Users |-> IF v \in Moved(h) /\ owed[v] > 0 THEN owed[v] - 1 ELSE owed[v]]
      BY <1>3, <2>2 DEF Lift
    <3> QED BY <2>1, <2>2, <3>1
  <2>3. CASE s # "done"
    BY <1>3, <2>1, <2>3
  <2> QED BY <2>2, <2>3
<1>5. OwedOK'
  <2> SUFFICES ASSUME NEW v \in Users
               PROVE  owed'[v] >= Cardinality(MarkedOf(table', v)) + Cardinality(OpenOf(chain', v))
    BY DEF OwedOK
  <2> DEFINE n == Cardinality(MarkedOf(table, v))
             D == OpenOf(chain, v)
             E == OpenOf(chain', v)
  <2>0. MarkedOf(table', v) = MarkedOf(table, v)
    BY <1>2 DEF MarkedOf, StillRooms
  <2>1. /\ owed[v] \in Nat /\ owed[v] >= n + Cardinality(D) /\ n \in Nat
        /\ IsFiniteSet(D) /\ Cardinality(D) \in Nat /\ Cardinality(E) \in Nat
    BY <1>0, Countable DEF Types, OwedOK
  <2>2. CASE s = "done" /\ v \in Moved(h)
    <3>1. h \in D
      BY <1>1, <2>2 DEF OpenOf, Retrying, Moved
    <3>2. E \subseteq D \ {h}
      BY <1>3, <2>2 DEF OpenOf, Chain, Rests
    <3> HIDE DEF D, E, n
    <3>3. Cardinality(E) <= Cardinality(D) - 1 /\ Cardinality(D) >= 1
      BY <2>1, <3>1, <3>2, OneLess
    <3>4. owed'[v] = owed[v] - 1
      BY <1>4, <2>1, <2>2, <3>3
    <3> QED BY <2>0, <2>1, <3>3, <3>4 DEF n, E
  <2>3. CASE ~(s = "done" /\ v \in Moved(h))
    <3>1. h \in E => h \in D
      BY <1>1, <1>3, <2>3 DEF OpenOf, Retrying, Chain, Rests, Moved
    <3>2. E \subseteq D
      BY <1>3, <3>1 DEF OpenOf, Chain
    <3> HIDE DEF D, E, n
    <3>3. Cardinality(E) <= Cardinality(D)
      BY <2>1, <3>2, NoMore
    <3>4. owed'[v] = owed[v]
      BY <1>4, <2>3
    <3> QED BY <2>0, <2>1, <3>3, <3>4 DEF n, E
  <2> QED BY <2>2, <2>3
<1> QED BY <1>2, <1>3, <1>4, <1>5 DEF Chain

-----------------------------------------------------------------------------
(* The types, and the invariant, after any step *)

\* The operations of players are operations after any step of one.
LEMMA OperationTypes ==
  ASSUME IInv, NEW u \in Users, Striped(u)
  PROVE  op' \in [Users -> Ops]
<1>0. Types /\ Placed(table, u, op[u], index[u])
  BY DEF IInv, WhereOK
<1>1. /\ op[u] \in Ops /\ index[u] \in Rooms /\ wallet[u] \in Nat
      /\ op[u].kind \in Kinds /\ op[u].at \in Rooms /\ op[u].to \in Rooms /\ op[u].chips \in Nat
  BY <1>0, OpFields DEF Types
<1>2. /\ {"join", "spend", "carry", "reserved", "idle", "leave", "bought", "credit"} \subseteq Kinds
      /\ Tables \subseteq Rooms /\ None \in Rooms
  BY DEF Kinds, Rooms
<1>3. ASSUME NEW p \in Ops, op' = [op EXCEPT ![u] = p] PROVE op' \in [Users -> Ops]
  BY <1>0, <1>3 DEF Types
<1>4. ASSUME NEW r \in Tables, JoinLooks(u, r) PROVE op' \in [Users -> Ops]
  <2>1. Begun("join", r) \in Ops
    BY <1>2, BegunIs
  <2> QED BY <1>3, <1>4, <2>1 DEF JoinLooks, Begun
<1>5. ASSUME NEW r \in Tables, SwitchStarts(u, r) PROVE op' \in [Users -> Ops]
  <2>1. Switching(index[u], r, wallet[u]) \in Ops
    BY <1>1, <1>2 DEF Switching, Ops
  <2> QED BY <1>3, <1>5, <2>1 DEF SwitchStarts, Switching
<1>6. CASE JoinReads(u)
  <2> DEFINE p == [op[u] EXCEPT !.kind = "carry", !.chips = wallet[u]]
  <2>1. p \in Ops
    BY <1>1, <1>2 DEF Ops
  <2>2. op' = [op EXCEPT ![u] = Idle] \/ op' = [op EXCEPT ![u] = p]
    BY <1>6 DEF JoinReads
  <2> HIDE DEF p
  <2> QED BY <1>3, <2>1, <2>2, Nothing
<1>7. CASE Reserves(u)
  <2> DEFINE p == [op[u] EXCEPT !.kind = "reserved"]
  <2>1. p \in Ops /\ Unseated(op[u]) \in Ops
    BY <1>1, <1>2, UnseatedIs DEF Ops
  <2>2. op' = [op EXCEPT ![u] = p] \/ op' = [op EXCEPT ![u] = Unseated(op[u])]
    <3>1. CASE Registered(op[u].at)
      BY <1>7, <3>1 DEF Reserves
    <3>2. CASE ~Registered(op[u].at)
      BY <1>7, <3>2 DEF Reserves
    <3> QED BY <3>1, <3>2
  <2> HIDE DEF p
  <2> QED BY <1>3, <2>1, <2>2
<1>8. CASE Sits(u)
  <2>1. Unseated(op[u]) \in Ops
    BY <1>1, UnseatedIs
  <2> QED BY <1>3, <1>8, <2>1, Nothing DEF Sits
<1>9. CASE LeaveStarts(u)
  <2>1. Begun("leave", index[u]) \in Ops
    BY <1>1, <1>2, BegunIs
  <2> QED BY <1>3, <1>9, <2>1 DEF LeaveStarts, Begun
<1>10. ASSUME NEW o \in Ops, o.kind = "leave", o.at = op[u].at, op[u].kind = "leave"
       PROVE  Left(o) \in Ops
  <2>1. op[u].at \in Tables /\ None \notin Tables
    BY <1>0, <1>10, WalletAssumption DEF Placed, Indexed
  <2> QED BY <1>10, <2>1, LeftIs
<1>11. CASE LeaveFindsNothing(u)
  <2>1. Left(op[u]) \in Ops
    BY <1>1, <1>10, <1>11 DEF LeaveFindsNothing
  <2> QED BY <1>3, <1>11, <2>1 DEF LeaveFindsNothing
<1>12. CASE LeaveRuns(u)
  <2> DEFINE r == op[u].at
             t == table[r]
  <2>1. op[u].kind = "leave" /\ r \in Tables
    BY <1>0, <1>12 DEF LeaveRuns, Placed, Indexed
  <2>2. \A v \in Users : t.seat[v].active => t.live
    BY <2>1, InHand
  <2>3. PICK n \in Nat : \/ op' = [op EXCEPT ![u].chips = n]
                         \/ op' = [op EXCEPT ![u] = Left([op[u] EXCEPT !.chips = n])]
    BY <1>0, <1>12, <2>1, <2>2, LeaveRunsIs
  <2> DEFINE o == [op[u] EXCEPT !.chips = n]
  <2>4. o \in Ops /\ o.kind = "leave" /\ o.at = op[u].at
    BY <1>1, <2>1 DEF Ops
  <2>5. op' = [op EXCEPT ![u] = o] \/ op' = [op EXCEPT ![u] = Left(o)]
    BY <2>3
  <2> HIDE DEF o
  <2>6. Left(o) \in Ops
    BY <1>10, <2>1, <2>4
  <2> QED BY <1>3, <2>4, <2>5, <2>6
<1>13. CASE SpendLooks(u) \/ BuyBanks(u)
  <2>1. Started("spend") \in Ops /\ Started("bought") \in Ops
    BY <1>2 DEF Started, Idle, Ops
  <2>2. op' = [op EXCEPT ![u] = Started("spend")] \/ op' = [op EXCEPT ![u] = Started("bought")]
    BY <1>13, Zenon DEF SpendLooks, BuyBanks, Started
  <2> QED BY <1>3, <2>1, <2>2
<1>14. CASE SpendCommits(u) \/ BuyTopsUp(u)
  BY <1>3, <1>14, Nothing DEF SpendCommits, BuyTopsUp
<1>15. CASE BuyLooks(u)
  <2> DEFINE p == [op[u] EXCEPT !.kind = "credit", !.at = index[u]]
  <2>1. p \in Ops
    BY <1>1, <1>2 DEF Ops
  <2>2. op' = [op EXCEPT ![u] = Idle] \/ op' = [op EXCEPT ![u] = p]
    BY <1>15 DEF BuyLooks
  <2> HIDE DEF p
  <2> QED BY <1>3, <2>1, <2>2, Nothing
<1> QED BY <1>4, <1>5, <1>6, <1>7, <1>8, <1>9, <1>11, <1>12, <1>13, <1>14, <1>15 DEF Striped

\* Money and the index, for an operation.
LEMMA OperationMoney ==
  ASSUME IInv, NEW u \in Users, Striped(u)
  PROVE  /\ wallet' \in [Users -> Nat] /\ packs' \in Nat /\ spent' \in Nat
         /\ index' \in [Users -> Rooms] /\ UNCHANGED departing
         /\ LeaveRuns(u) \/ UNCHANGED owed
<1>0. Types /\ Placed(table, u, op[u], index[u])
  BY DEF IInv, WhereOK
<1>1. index[u] \in Rooms /\ wallet[u] \in Nat /\ op[u].at \in Rooms /\ None \in Rooms
  BY <1>0, OpFields, Zenon DEF Types, Rooms
<1>2. UNCHANGED departing /\ (LeaveRuns(u) \/ UNCHANGED owed)
  BY Zenon DEF Striped, JoinReads, Reserves, Sits, LeaveStarts, LeaveRuns, LeaveFindsNothing, SpendLooks,
         SpendCommits, BuyBanks, BuyLooks, BuyTopsUp, JoinLooks, SwitchStarts, marks
<1>3. index' \in [Users -> Rooms]
  <2>1. \/ UNCHANGED index
        \/ \E i \in Rooms : index' = [index EXCEPT ![u] = i]
    <3>1. CASE Reserves(u) /\ Registered(op[u].at)
      BY <1>1, <3>1 DEF Reserves
    <3>2. CASE Reserves(u) /\ ~Registered(op[u].at)
      BY <3>2 DEF Reserves
    <3>3. CASE Sits(u)
      <4>1. (IF index[u] = op[u].at THEN None ELSE index[u]) \in Rooms
        BY <1>1, Zenon
      <4> QED BY <3>3, <4>1 DEF Sits
    <3>4. CASE ~Reserves(u) /\ ~Sits(u)
      BY <1>1, <3>4, Zenon DEF Striped, JoinReads, LeaveStarts, LeaveRuns, LeaveFindsNothing, SpendLooks,
         SpendCommits, BuyBanks, BuyLooks, BuyTopsUp, JoinLooks, SwitchStarts
    <3> QED BY <3>1, <3>2, <3>3, <3>4
  <2> QED BY <1>0, <2>1 DEF Types
<1>4. CASE LeaveRuns(u)
  <2> DEFINE r == op[u].at
             t == table[r]
  <2>1. r \in Tables
    BY <1>0, <1>4 DEF LeaveRuns, Placed, Indexed
  <2>2. \A v \in Users : t.seat[v].active => t.live
    BY <2>1, InHand
  <2>3. wallet' \in [Users -> Nat]
    BY <1>0, <1>4, <2>1, <2>2, LeaveRunsIs
  <2> QED BY <1>0, <1>2, <1>3, <1>4, <2>3, Zenon DEF LeaveRuns, Types
<1>5. CASE SpendCommits(u)
  <2> DEFINE n == IF wallet[u] > 0 THEN 1 ELSE 0
  <2>1. wallet' = [wallet EXCEPT ![u] = @ - n] /\ spent' = spent + n /\ UNCHANGED packs
    BY <1>5 DEF SpendCommits
  <2>2. wallet[u] - n \in Nat /\ n \in Nat
    BY <1>1
  <2> HIDE DEF n
  <2> QED BY <1>0, <1>2, <1>3, <2>1, <2>2 DEF Types
<1>6. CASE BuyBanks(u)
  <2>1. wallet' = [wallet EXCEPT ![u] = @ + 1] /\ packs' = packs - 1 /\ packs > 0 /\ UNCHANGED spent
    BY <1>6 DEF BuyBanks
  <2>2. wallet[u] + 1 \in Nat
    BY <1>1
  <2> QED BY <1>0, <1>2, <1>3, <2>1, <2>2 DEF Types
<1>7. CASE ~LeaveRuns(u) /\ ~SpendCommits(u) /\ ~BuyBanks(u)
  <2>1. UNCHANGED money
    BY <1>7, Zenon DEF Striped, JoinReads, Reserves, Sits, LeaveStarts, LeaveFindsNothing, SpendLooks,
         BuyLooks, BuyTopsUp, JoinLooks, SwitchStarts
  <2> QED BY <1>0, <1>2, <1>3, <2>1, Zenon DEF money, Types
<1> QED BY <1>4, <1>5, <1>6, <1>7

\* The marks and the types after any step.
LEMMA MarksStep ==
  ASSUME IInv, Next
  PROVE  Types' /\ DepartingOK' /\ OwedOK'
<1>0. Types /\ DepartingOK /\ OwedOK
  BY DEF IInv
<1>1. ASSUME NEW u \in Users, Striped(u) PROVE Types' /\ DepartingOK' /\ OwedOK'
  <2>1. /\ op' \in [Users -> Ops]
        /\ wallet' \in [Users -> Nat] /\ packs' \in Nat /\ spent' \in Nat
        /\ index' \in [Users -> Rooms] /\ UNCHANGED departing
        /\ LeaveRuns(u) \/ UNCHANGED owed
    BY <1>1, OperationTypes, OperationMoney
  <2>2. CASE LeaveRuns(u)
    <3>1. /\ OwedOK' /\ StillChain /\ table' \in [Tables -> RoomRecords]
          /\ \A q \in Tables : table'[q].unseated = table[q].unseated
      BY <2>2, LeaveMarks, Zenon
    <3>2. \E S : owed' = Owe(owed, S)
      BY <2>2 DEF LeaveRuns
    <3>3. owed' \in [Users -> Nat]
      BY <1>0, <3>2 DEF Owe, Types
    <3>4. DepartingOK'
      BY <1>0, <2>1, <3>1, DepartingStill
    <3> QED BY <1>0, <2>1, <3>1, <3>3, <3>4 DEF Types, StillChain
  <2>3. CASE ~LeaveRuns(u)
    <3>1. StillRooms /\ StillChain
      BY <1>1, <2>3, OperationStill
    <3>2. DepartingOK' /\ OwedOK'
      BY <1>0, <2>1, <2>3, <3>1, DepartingStill, OwedStill DEF StillRooms
    <3> QED BY <1>0, <2>1, <2>3, <3>1, <3>2 DEF Types, StillRooms, StillChain
  <2> QED BY <2>2, <2>3
<1>2. ASSUME NEW r \in Tables, OnTable(r) PROVE Types' /\ DepartingOK' /\ OwedOK'
  <2>1. CASE DestroyStarts(r) \/ DestroyReturns(r)
    <3>1. DepartingOK' /\ UNCHANGED <<money, owed, op, chain>>
      BY <2>1, DepartingDestroys DEF DestroyStarts, DestroyReturns
    <3>2. PICK x : Room(r, x) /\ Same(table[r], x)
      BY <1>0, <2>1, DestroyStartsIs, DestroyReturnsIs
    <3>3. table' \in [Tables -> RoomRecords] /\ \A q \in Tables : table'[q].marked = table[q].marked
      BY <3>2 DEF Room, Same, SameHand
    <3>4. StillChain
      BY <1>0, <3>1 DEF Types, StillChain
    <3>5. OwedOK'
      BY <1>0, <3>1, <3>3, <3>4, OwedStill
    <3>6. index' \in [Users -> Rooms] /\ departing' \in [Users -> Nat]
      <4>1. CASE DestroyStarts(r)
        <5>1. /\ index' = [u \in Users |-> IF u \in {v \in Users : index[v] = r} THEN None ELSE index[u]]
              /\ \E S : departing' = Owe(departing, S)
          BY <4>1 DEF DestroyStarts
        <5> QED BY <1>0, <5>1 DEF Types, Owe, Rooms
      <4>2. CASE DestroyReturns(r)
        <5>1. UNCHANGED index /\ departing' = Lift(departing, table[r].unseated)
          BY <4>2 DEF DestroyReturns
        <5> QED BY <1>0, <5>1 DEF Types, Lift
      <4> QED BY <2>1, <4>1, <4>2
    <3> QED BY <1>0, <3>1, <3>3, <3>5, <3>6 DEF Types, money
  <2>2. CASE FirstReturns(r)
    <3>1. /\ OwedOK' /\ chain' \in [Hands -> Requests] /\ table' \in [Tables -> RoomRecords]
          /\ owed' \in [Users -> Nat]
          /\ \A q \in Tables : table'[q].unseated = table[q].unseated
      BY <2>2, FirstMarks
    <3>2. UNCHANGED <<money, departing, index>>
      BY <2>2 DEF FirstReturns
    <3>3. DepartingOK'
      BY <1>0, <3>1, <3>2, DepartingStill
    <3>4. op' \in [Users -> Ops]
      <4> DEFINE by == table[r].by
      <4>1. CASE by = None
        BY <1>0, <2>2, <4>1 DEF FirstReturns, Types
      <4>2. CASE by # None
        <5>1. op' = [op EXCEPT ![by] = Left(op[by])]
          BY <2>2, <4>2 DEF FirstReturns
        <5>2. by \in Users
          BY <1>0, <4>2, RoomFields DEF Types
        <5>3. op[by].kind = "leave" /\ op[by].at = r /\ r # None
          BY <4>2, WalletAssumption DEF IInv, HandsOK, HandOK, LeaverOut
        <5> HIDE DEF by
        <5>4. op[by] \in Ops
          BY <1>0, <5>2 DEF Types
        <5>5. Left(op[by]) \in Ops
          BY <5>3, <5>4, LeftIs
        <5> QED BY <1>0, <5>1, <5>2, <5>5 DEF Types
      <4> QED BY <4>1, <4>2
    <3> QED BY <1>0, <3>1, <3>2, <3>3, <3>4 DEF Types, money
  <2>3. CASE \/ StartHand(r) \/ Showdown(r) \/ DestroyRuns(r)
             \/ \E u \in Users : Chaal(r, u) \/ Pack(r, u)
    <3>1. StillRooms /\ StillChain
      BY <2>3, TableStill
    <3>2. UNCHANGED <<packs, spent, marks, index, op>>
      BY <2>3, Zenon DEF StartHand, Showdown, DestroyRuns, Chaal, Pack, money
    <3>3. wallet' \in [Users -> Nat]
      <4>1. ASSUME NEW u \in Users, Pack(r, u) PROVE wallet' \in [Users -> Nat]
        <5>1. table[r].live
          BY <4>1, InHand, Zenon DEF Pack
        <5> QED BY <1>0, <4>1, <5>1, PackIs
      <4>2. CASE ~\E u \in Users : Pack(r, u)
        BY <1>0, <2>3, <4>2, Zenon DEF StartHand, Showdown, DestroyRuns, Chaal, money, Types
      <4> QED BY <4>1, <4>2
    <3>4. DepartingOK' /\ OwedOK'
      BY <1>0, <3>1, <3>2, DepartingStill, OwedStill DEF StillRooms, marks
    <3> QED BY <1>0, <3>1, <3>2, <3>3, <3>4 DEF Types, StillRooms, StillChain, marks
  <2> QED BY <1>2, <2>1, <2>2, <2>3 DEF OnTable
<1>3. ASSUME NEW h \in Hands, DbSettles(h) \/ RetryRuns(h) PROVE Types' /\ DepartingOK' /\ OwedOK'
  <2>1. StillRooms /\ StillChain
    BY <1>3, ChainStill
  <2>2. UNCHANGED <<packs, spent, marks, index, op>>
    BY <1>3 DEF DbSettles, RetryRuns, money
  <2>3. wallet' \in [Users -> Nat]
    <3>1. CASE DbSettles(h)
      BY <1>0, <3>1, DbSettlesIs
    <3>2. CASE RetryRuns(h)
      BY <1>0, <3>2 DEF RetryRuns, money, Types
    <3> QED BY <1>3, <3>1, <3>2
  <2>4. DepartingOK' /\ OwedOK'
    BY <1>0, <2>1, <2>2, DepartingStill, OwedStill DEF StillRooms, marks
  <2> QED BY <1>0, <2>1, <2>2, <2>3, <2>4 DEF Types, StillRooms, StillChain, marks
<1>4. ASSUME NEW h \in Hands, RetryReturns(h) PROVE Types' /\ DepartingOK' /\ OwedOK'
  <2>1. /\ OwedOK' /\ chain' \in [Hands -> Requests] /\ StillRooms
        /\ owed' \in [Users -> Nat]
    BY <1>4, RetryMarks
  <2>2. UNCHANGED <<money, departing, index, op>>
    BY <1>4 DEF RetryReturns
  <2>3. DepartingOK'
    BY <1>0, <2>1, <2>2, DepartingStill DEF StillRooms
  <2> QED BY <1>0, <2>1, <2>2, <2>3 DEF Types, StillRooms, money
<1> QED BY <1>1, <1>2, <1>3, <1>4 DEF Next

\* The invariant holds at first ...
LEMMA IndInit ==
  ASSUME Init
  PROVE  IInv
<1> DEFINE no == FALSE
           s == [u \in Users |-> NoSeat]
           e == [u \in Users |-> NoEntry]
           t == [state |-> "open", busy |-> no, by |-> None, live |-> no,
                 dealt |-> 0, pot |-> 0, seat |-> s, entry |-> e, marked |-> {}, unseated |-> {}]
           d == [u \in Users |-> 0]
           c == [stage |-> "none", rows |-> {}, delta |-> d, landed |-> no, answer |-> "none",
                 balance |-> d]
<1>1. no \in BOOLEAN /\ ~no
  OBVIOUS
<1>2. /\ table = [r \in Tables |-> t] /\ chain = [h \in Hands |-> c]
      /\ op = [u \in Users |-> Idle] /\ index = [u \in Users |-> None]
      /\ departing = [u \in Users |-> 0] /\ owed = [u \in Users |-> 0]
      /\ wallet = [u \in Users |-> Purse] /\ packs = Packs /\ spent = 0
  BY DEF Init
<1>3. HandsPerTable \in Nat /\ Purse \in Nat /\ Packs \in Nat
  BY WalletAssumption
<1> HIDE DEF no
<1>4. /\ s \in [Users -> SeatRecords] /\ e \in [Users -> EntryRecords]
      /\ d \in [Users -> Int] /\ d \in [Users -> Nat]
      /\ \A u \in Users : s[u] = NoSeat /\ e[u] = NoEntry /\ d[u] = 0
  BY Nothing
<1>5. e = [u \in Users |-> NoEntry]
  OBVIOUS
<1> HIDE DEF s, e, d
<1>6. t \in RoomRecords /\ c \in Requests
  BY <1>1, <1>3, <1>4 DEF RoomRecords, States, Requests, Stages, Answers
<1>7. /\ t.state = "open" /\ t.busy = no /\ t.by = None /\ t.live = no /\ t.dealt = 0
      /\ t.pot = 0 /\ t.seat = s /\ t.entry = e /\ t.marked = {} /\ t.unseated = {}
      /\ c.stage = "none" /\ c.delta = d
  OBVIOUS
<1> HIDE DEF t, c
<1>8. Types
  BY <1>2, <1>3, <1>6, Nothing DEF Types, Rooms
<1>9. WhereOK
  <2>1. \A r \in Tables : table[r] = t
    BY <1>2
  <2>2. Unseating(table)
    BY <1>7, <2>1 DEF Unseating
  <2>3. ASSUME NEW u \in Users PROVE Placed(table, u, op[u], index[u])
    <3>1. op[u] = Idle /\ index[u] = None
      BY <1>2
    <3>2. Nowhere(table, u)
      BY <1>4, <1>7, <2>1, Nothing DEF Nowhere
    <3> QED BY <3>1, <3>2, NowherePlaced, Nothing
  <2> QED BY <2>2, <2>3 DEF WhereOK
<1>10. ASSUME NEW u \in Users
       PROVE  DepartingOf(table, u) = {} /\ MarkedOf(table, u) = {} /\ OpenOf(chain, u) = {}
  BY <1>2, <1>4, <1>7 DEF DepartingOf, MarkedOf, OpenOf
<1>11. DepartingOK /\ OwedOK
  BY <1>2, <1>10, FS_EmptySet DEF DepartingOK, OwedOK
<1>12. HandsOK
  <2> SUFFICES ASSUME NEW r \in Tables PROVE HandOK(table[r], r, chain, op)
    BY DEF HandsOK
  <2>1. table[r] = t /\ \A n \in Numbers : chain[<<r, n>>] = c
    BY <1>2 DEF Hands, Numbers
  <2>2. StakesOK(t)
    BY <1>1, <1>4, <1>5, <1>7, Nothing DEF StakesOK, Emptied
  <2>3. Waits(t, r, chain)
    BY <1>1, <1>7, <2>1 DEF Waits, Awaited
  <2>4. Requested(t, r, chain)
    BY <1>1, <1>4, <1>7, <2>1 DEF Requested
  <2>5. LeaverOut(t, r, chain, op)
    BY <1>7 DEF LeaverOut
  <2> QED BY <2>1, <2>2, <2>3, <2>4, <2>5 DEF HandOK
<1> QED BY <1>8, <1>9, <1>11, <1>12 DEF IInv

\* ... and after any step.
LEMMA IndStep ==
  ASSUME IInv, [Next]_vars
  PROVE  IInv'
<1>1. CASE Next
  BY <1>1, WhereStep, HandsStep, MarksStep DEF IInv
<1>2. CASE UNCHANGED vars
  <2>1. UNCHANGED <<wallet, packs, spent, index, departing, owed, op, table, chain>>
    BY <1>2 DEF vars
  <2>2. Types' /\ WhereOK' /\ DepartingOK' /\ HandsOK' /\ OwedOK'
    BY <2>1 DEF IInv, Types, WhereOK, DepartingOK, HandsOK, OwedOK
  <2> QED BY <2>2 DEF IInv
<1> QED BY <1>1, <1>2

\* The inductive invariant of every run of the model.
THEOREM Inductive == Spec => []IInv
<1>1. Init => IInv
  BY IndInit
<1>2. IInv /\ [Next]_vars => IInv'
  BY IndStep
<1> QED BY <1>1, <1>2, PTL DEF Spec

-----------------------------------------------------------------------------
(* What it says *)

\* No wallet, stack, contribution or mark is ever negative, a player for whom a
\* closure waits is leaving, and a hand that is over has no stakes left.
THEOREM TypesHold == Spec => []TypeOK
<1>1. ASSUME IInv PROVE TypeOK
  <2>1. Types /\ HandsOK
    BY <1>1 DEF IInv
  <2>2. ASSUME NEW r \in Tables
        PROVE  /\ table[r].state \in {"open", "closing", "ending", "gone", "shut"}
               /\ table[r].seat \in [Users -> SeatRecords]
               /\ table[r].entry \in [Users -> EntryRecords]
               /\ table[r].pot \in Nat /\ table[r].dealt \in 0 .. HandsPerTable
               /\ table[r].by # None => /\ table[r].busy /\ op[table[r].by].kind = "leave"
                                        /\ op[table[r].by].at = r
               /\ ~table[r].live => table[r].pot = 0 /\ table[r].entry = [u \in Users |-> NoEntry]
    <3> DEFINE t == table[r]
    <3>1. t \in RoomRecords /\ HandOK(t, r, chain, op)
      BY <2>1 DEF Types, HandsOK
    <3>2. t.by # None => t.busy /\ op[t.by].kind = "leave" /\ op[t.by].at = r
      <4>1. LeaverOut(t, r, chain, op) /\ Waits(t, r, chain)
        BY <3>1 DEF HandOK
      <4> HIDE DEF t
      <4> QED BY <4>1 DEF LeaverOut, Waits, Awaited
    <3>3. ~t.live => t.pot = 0 /\ t.entry = [u \in Users |-> NoEntry]
      BY <3>1 DEF HandOK, StakesOK, Emptied
    <3>4. t.state \in {"open", "closing", "ending", "gone", "shut"}
      BY <3>1, RoomFields DEF States
    <3> HIDE DEF t
    <3>5. t.seat \in [Users -> SeatRecords] /\ t.entry \in [Users -> EntryRecords]
          /\ t.pot \in Nat /\ t.dealt \in 0 .. HandsPerTable
      BY <3>1, RoomFields
    <3> QED BY <3>2, <3>3, <3>4, <3>5 DEF t
  <2>3. ASSUME NEW h \in Hands
        PROVE  /\ chain[h].stage \in {"none", "first", "owed", "retried", "detached", "done"}
               /\ chain[h].delta \in [Users -> Int] /\ chain[h].rows \subseteq Users
    <3>1. chain[h] \in Requests
      BY <2>1 DEF Types
    <3> QED BY <3>1 DEF Requests, Stages
  <2>4. \A u \in Users : op[u] \in [kind : Kinds, at : Tables \cup {None},
                                    to : Tables \cup {None}, chips : Nat]
    BY <2>1 DEF Types, Ops, Rooms
  <2>5. /\ wallet \in [Users -> Nat] /\ packs \in Nat /\ spent \in Nat
        /\ index \in [Users -> Tables \cup {None}]
        /\ departing \in [Users -> Nat] /\ owed \in [Users -> Nat]
    BY <2>1 DEF Types, Rooms
  <2> QED BY <2>2, <2>3, <2>4, <2>5 DEF TypeOK
<1>2. IInv => TypeOK
  BY <1>1
<1> QED BY <1>2, Inductive, PTL

\* No player ever has a seat in two rooms that are up (RoomManager: the index under
\* the stripe, the departing mark under a destroy).
THEOREM SeatIsOne == Spec => []OneSeatPerPlayer
<1>1. ASSUME IInv PROVE OneSeatPerPlayer
  <2> SUFFICES ASSUME NEW u \in Users
               PROVE  Cardinality({r \in Tables : table[r].state \notin {"gone", "shut"}
                                                    /\ table[r].seat[u].here}) <= 1
    BY DEF OneSeatPerPlayer
  <2> DEFINE S == {r \in Tables : table[r].state \notin {"gone", "shut"} /\ table[r].seat[u].here}
  <2>1. Placed(table, u, op[u], index[u]) /\ Unseating(table) /\ Types /\ None \notin Tables
    BY <1>1, WalletAssumption DEF IInv, WhereOK
  <2>2. \A r \in S : r \in Tables /\ Up(table[r]) /\ table[r].seat[u].here
    <3> SUFFICES ASSUME NEW r \in S PROVE r \in Tables /\ Up(table[r]) /\ table[r].seat[u].here
      OBVIOUS
    <3>1. table[r].state \in States
      BY <2>1, RoomFields DEF Types
    <3> QED BY <3>1 DEF Up, States
  <2> HIDE DEF S
  <2>3. ASSUME NEW r \in S, NEW q \in S PROVE r = q
    <3> DEFINE o == op[u]
               i == index[u]
    <3>1. \/ Resting(o) /\ i = r
          \/ Resting(o) /\ i = None /\ u \in table[r].unseated
          \/ o.kind = "leave" /\ o.at = r /\ i = None
      BY <2>1, <2>2 DEF Placed, SeatOf
    <3>2. \/ Resting(o) /\ i = q
          \/ Resting(o) /\ i = None /\ u \in table[q].unseated
          \/ o.kind = "leave" /\ o.at = q /\ i = None
      BY <2>1, <2>2 DEF Placed, SeatOf
    <3>3. r # None /\ q # None /\ ~(Resting(o) /\ o.kind = "leave")
      BY <2>1, <2>2 DEF Resting
    <3> HIDE DEF o, i
    <3> QED BY <2>1, <2>2, <3>1, <3>2, <3>3 DEF Unseating
  <2>4. CASE S = {}
    BY <2>4, FS_EmptySet DEF S
  <2>5. CASE S # {}
    <3>1. PICK r \in S : S = {r}
      BY <2>3, <2>5
    <3>2. Cardinality({r}) = 1
      BY FS_Singleton
    <3> QED BY <3>1, <3>2 DEF S
  <2> QED BY <2>4, <2>5
<1>2. IInv => OneSeatPerPlayer
  BY <1>1
<1> QED BY <1>2, Inductive, PTL

\* A player who is off the index, not departing and owed nothing, and whose stripe is
\* free or looked at, has nothing at all on its way.
LEMMA Unmarked ==
  ASSUME IInv, NEW u \in Users, index[u] = None, ~Unfinished(u),
         op[u].kind \in {"idle", "join", "spend"}
  PROVE  /\ \A r \in Tables : Due(table[r].entry[u]) = 0
         /\ \A h \in Hands : chain[h].delta[u] = 0
<1>1. /\ Types /\ Placed(table, u, op[u], index[u]) /\ DepartingOK /\ OwedOK
      /\ None \notin Tables
  BY WalletAssumption DEF IInv, WhereOK
<1>2. departing[u] = 0 /\ owed[u] = 0
  BY <1>1 DEF Types, Unfinished
<1>3. DepartingOf(table, u) = {} /\ MarkedOf(table, u) = {} /\ OpenOf(chain, u) = {}
  <2> DEFINE a == Cardinality(DepartingOf(table, u))
             b == Cardinality(MarkedOf(table, u))
             c == Cardinality(OpenOf(chain, u))
  <2>1. a \in Nat /\ b \in Nat /\ c \in Nat
    BY Countable
  <2>2. 0 >= a /\ 0 >= b + c
    BY <1>1, <1>2 DEF DepartingOK, OwedOK
  <2>3. a = 0 /\ b = 0 /\ c = 0
    <3> HIDE DEF a, b, c
    <3> QED BY <2>1, <2>2
  <2>4. /\ IsFiniteSet(DepartingOf(table, u)) /\ IsFiniteSet(MarkedOf(table, u))
        /\ IsFiniteSet(OpenOf(chain, u))
    BY Countable
  <2> QED BY <2>3, <2>4, FS_EmptySet
<1>4. \A r \in Tables : Up(table[r]) => ~CoveredBy(table[r], u)
  <2>1. \A r \in Tables : u \notin table[r].unseated /\ u \notin table[r].marked
    BY <1>3 DEF DepartingOf, MarkedOf
  <2>2. \A r \in Tables : Up(table[r]) => ~table[r].seat[u].here
    BY <1>1, <2>1 DEF Placed, SeatOf
  <2> QED BY <2>1, <2>2 DEF CoveredBy
<1>5. ASSUME NEW r \in Tables PROVE Due(table[r].entry[u]) = 0
  <2>1. StakesOK(table[r])
    BY DEF IInv, HandsOK, HandOK
  <2>2. CASE table[r].live
    <3>1. Up(table[r])
      BY <2>1, <2>2 DEF StakesOK, Up
    <3> QED BY <1>4, <2>1, <3>1 DEF StakesOK
  <2>3. CASE ~table[r].live
    BY <2>1, <2>3, Nothing DEF StakesOK, Emptied
  <2> QED BY <2>2, <2>3
<1>6. ASSUME NEW h \in Hands PROVE chain[h].delta[u] = 0
  <2>1. PICK r \in Tables, n \in Numbers : h = <<r, n>>
    BY DEF Hands, Numbers
  <2>2. Requested(table[r], r, chain) /\ Waits(table[r], r, chain)
    BY DEF IInv, HandsOK, HandOK
  <2>3. ~(Retrying(chain[h]) /\ chain[h].delta[u] # 0)
    BY <1>3 DEF OpenOf
  <2>4. ~(chain[h].stage = "first" /\ CoveredBy(table[r], u))
    BY <1>4, <2>1, <2>2 DEF Waits, Awaited
  <2> QED BY <2>1, <2>2, <2>3, <2>4 DEF Requested
<1> QED BY <1>5, <1>6

\* A player who is off the index, not departing and owed nothing, and whose stripe
\* is free or looked at, has nothing at all on its way: the lobby may spend the
\* wallet (settlementOwed, walletUnfinishedLocked).
THEOREM UnmarkedIsFinal == Spec => []UnmarkedWalletIsFinal
<1>1. ASSUME IInv PROVE UnmarkedWalletIsFinal
  <2> SUFFICES ASSUME NEW u \in Users, index[u] = None, ~Unfinished(u),
                      op[u].kind \in {"idle", "join", "spend"}
               PROVE  /\ \A r \in Tables : Due(table[r].entry[u]) >= 0
                      /\ \A h \in Hands : ~chain[h].landed => chain[h].delta[u] >= 0
    BY DEF UnmarkedWalletIsFinal
  <2> QED BY <1>1, Unmarked
<1>2. IInv => UnmarkedWalletIsFinal
  BY <1>1
<1> QED BY <1>2, Inductive, PTL

-----------------------------------------------------------------------------
(* The chips *)

\* Where the accounts are exact: every write is answered and no settlement refused
\* (a checkpoint may be), and nobody switches away from a room that may be destroyed.
\* A settlement that is refused leaves chips at the seats which the wallet has not
\* had, and a checkpoint that is not heard of is made again with the hand's end.
Exact == "settle" \notin Refused /\ Unheard = {} /\ ~(CanSwitch /\ CanDestroy)

\* What a request will still make of a wallet, and the part of it that is lost.
Pays(c, u) == IF c.landed THEN 0 ELSE c.delta[u]
Neg(n) == IF n < 0 THEN n ELSE 0
DueOf(T, u) == SumOver([r \in Tables |-> Due(T[r].entry[u])], Tables)
PayOf(C, u) == SumOver([h \in Hands |-> Pays(C[h], u)], Hands)
NegOf(C, u) == SumOver([h \in Hands |-> Neg(Pays(C[h], u))], Hands)

\* What a player will have once every write has landed, and before any gain has.
Value(w, T, C, u) == w[u] + DueOf(T, u) + PayOf(C, u)
Low(w, T, C, u) == w[u] + DueOf(T, u) + NegOf(C, u)

\* The chips of a purchase that are in the wallet and not yet at the seat.
Bought(o) == IF o.kind \in {"bought", "credit"} THEN 1 ELSE 0

\* A player's account, with n in the wallet, v to come to and l at the least: a seat
\* has what the player will have, or less where a purchase could not find it any
\* more; what is carried to a seat, or looked at in the wallet, is that as well.
AccountOK(T, u, o, n, v, l) ==
    /\ l >= 0
    /\ \A r \in Tables : Up(T[r]) /\ T[r].seat[u].here =>
          /\ T[r].seat[u].chips + Bought(o) <= v
          /\ u \notin T[r].unseated => T[r].seat[u].chips + Bought(o) = v
          /\ o.kind = "credit" => o.at = r
    /\ o.kind \in {"carry", "reserved"} => o.chips = v
    /\ o.kind \in {"join", "spend"} => n = v
    /\ \A r \in Tables : T[r].by = u => o.chips = v
Accounts(w, T, C, O) ==
    \A u \in Users : AccountOK(T, u, O[u], w[u], Value(w, T, C, u), Low(w, T, C, u))

\* A stake is never a gain, and is what the seat of a player in the hand says.
BetsOK(t) ==
    \A u \in Users :
        /\ t.entry[u].chips <= t.entry[u].written
        /\ t.seat[u].active => t.entry[u].in /\ t.entry[u].chips = t.seat[u].chips

\* A request has landed when it is answered, and is not retried.
AnswerOK(c) ==
    /\ c.stage \in {"none", "first", "done"} /\ c.answer \in {"none", "ok"}
    /\ c.stage # "done" => (c.answer = "ok" <=> c.landed)
    /\ c.stage = "none" => c.answer = "none"

\* Who is to be paid is at the table.
PaidSit(T, C) ==
    \A r \in Tables, n \in Numbers, u \in Users :
        Pays(C[<<r, n>>], u) > 0 => T[r].seat[u].here

\* Who switches, and what is destroyed.
Leavings(T, O) ==
    /\ \A u \in Users : O[u].to # None => CanSwitch
    /\ \A r \in Tables : T[r].state # "open" => CanDestroy

\* Every chip is somewhere.
Chips(w, T, C) == SumOver([u \in Users |-> Value(w, T, C, u)], Users)
Pots(T) == SumOver([r \in Tables |-> T[r].pot], Tables)
Books(w, T, C, p, s) ==
    Chips(w, T, C) + p + s + Pots(T) = Cardinality(Users) * Purse + Packs

Money(w, T, C, O, p, s) ==
    /\ Accounts(w, T, C, O) /\ \A r \in Tables : BetsOK(T[r])
    /\ \A h \in Hands : AnswerOK(C[h])
    /\ PaidSit(T, C) /\ Leavings(T, O) /\ Books(w, T, C, p, s)
MoneyOK == Money(wallet, table, chain, op, packs, spent)

-----------------------------------------------------------------------------
(* Sums of what is due *)

\* No part of a sum of losses is more than the sum.
LEMMA SumBelow ==
  ASSUME NEW S, IsFiniteSet(S), NEW f, \A x \in S : f[x] \in Int /\ f[x] <= 0, NEW e \in S
  PROVE  SumOver(f, S) <= f[e] /\ SumOver(f, S) <= 0
<1> DEFINE z == [x \in S |-> 0]
<1>1. IsFiniteSet(S \ {e})
  BY FS_Subset
<1>2. SumOver(z, S \ {e}) = 0
  <2>1. SumOver(z, S \ {e}) = 0 * Cardinality(S \ {e})
    BY <1>1, SumConstant
  <2>2. Cardinality(S \ {e}) \in Nat
    BY <1>1, FS_CardinalityType
  <2> HIDE DEF z
  <2> QED BY <2>1, <2>2
<1>3. SumOver(f, S \ {e}) <= SumOver(z, S \ {e})
  <2>1. \A x \in S \ {e} : f[x] \in Int /\ z[x] \in Int /\ f[x] <= z[x]
    OBVIOUS
  <2> HIDE DEF z
  <2> QED BY <1>1, <2>1, SumMonotone
<1>4. SumOver(f, S) = f[e] + SumOver(f, S \ {e})
  BY SumSplit
<1>5. SumOver(f, S \ {e}) \in Int /\ f[e] \in Int
  BY <1>1, SumInt
<1> HIDE DEF z
<1> QED BY <1>2, <1>3, <1>4, <1>5

\* The terms and the sums are numbers.
LEMMA DueInt ==
  ASSUME NEW T \in [Tables -> RoomRecords], NEW u \in Users
  PROVE  DueOf(T, u) \in Int /\ \A r \in Tables : Due(T[r].entry[u]) \in Int
<1> DEFINE f == [r \in Tables |-> Due(T[r].entry[u])]
<1>1. ASSUME NEW r \in Tables PROVE Due(T[r].entry[u]) \in Int
  BY RoomFields
<1>2. \A r \in Tables : f[r] \in Int
  BY <1>1
<1> HIDE DEF f
<1>3. SumOver(f, Tables) \in Int
  BY <1>2, SumInt, WalletAssumption
<1> QED BY <1>1, <1>3 DEF DueOf, f

\* So are those of the requests.
LEMMA PayInt ==
  ASSUME NEW C \in [Hands -> Requests], NEW u \in Users
  PROVE  /\ PayOf(C, u) \in Int /\ NegOf(C, u) \in Int
         /\ \A h \in Hands : /\ Pays(C[h], u) \in Int /\ Neg(Pays(C[h], u)) \in Int
                             /\ Neg(Pays(C[h], u)) <= 0
<1> DEFINE f == [h \in Hands |-> Pays(C[h], u)]
           g == [h \in Hands |-> Neg(Pays(C[h], u))]
<1>1. ASSUME NEW h \in Hands
      PROVE  Pays(C[h], u) \in Int /\ Neg(Pays(C[h], u)) \in Int /\ Neg(Pays(C[h], u)) <= 0
  <2>1. C[h].delta[u] \in Int
    BY DEF Requests
  <2>2. Pays(C[h], u) \in Int
    BY <2>1 DEF Pays
  <2> QED BY <2>2 DEF Neg
<1>2. \A h \in Hands : f[h] \in Int /\ g[h] \in Int
  BY <1>1
<1> HIDE DEF f, g
<1>3. SumOver(f, Hands) \in Int /\ SumOver(g, Hands) \in Int
  BY <1>2, SumInt, HandsFinite
<1> QED BY <1>1, <1>3 DEF PayOf, NegOf, f, g

\* When one room is another, what is due moves by its difference,
LEMMA DueMoves ==
  ASSUME NEW T \in [Tables -> RoomRecords], NEW U \in [Tables -> RoomRecords],
         NEW r \in Tables, \A q \in Tables \ {r} : U[q] = T[q], NEW u \in Users
  PROVE  DueOf(U, u) = DueOf(T, u) + Due(U[r].entry[u]) - Due(T[r].entry[u])
<1> DEFINE f == [q \in Tables |-> Due(T[q].entry[u])]
           g == [q \in Tables |-> Due(U[q].entry[u])]
<1>1. \A q \in Tables : f[q] \in Int /\ g[q] \in Int /\ (q # r => f[q] = g[q])
  BY DueInt
<1>2. f[r] = Due(T[r].entry[u]) /\ g[r] = Due(U[r].entry[u])
  OBVIOUS
<1> HIDE DEF f, g
<1>3. SumOver(f, Tables) - f[r] = SumOver(g, Tables) - g[r]
  BY <1>1, SumOneMoved, WalletAssumption
<1>4. SumOver(f, Tables) = DueOf(T, u) /\ SumOver(g, Tables) = DueOf(U, u)
  BY DEF DueOf, f, g
<1>5. /\ DueOf(T, u) \in Int /\ DueOf(U, u) \in Int
      /\ Due(T[r].entry[u]) \in Int /\ Due(U[r].entry[u]) \in Int
  BY DueInt
<1> QED BY <1>2, <1>3, <1>4, <1>5

\* and so do the payments when one request is.
LEMMA PayMoves ==
  ASSUME NEW C \in [Hands -> Requests], NEW D \in [Hands -> Requests],
         NEW h \in Hands, \A g \in Hands \ {h} : D[g] = C[g], NEW u \in Users
  PROVE  /\ PayOf(D, u) = PayOf(C, u) + Pays(D[h], u) - Pays(C[h], u)
         /\ NegOf(D, u) = NegOf(C, u) + Neg(Pays(D[h], u)) - Neg(Pays(C[h], u))
<1> DEFINE f == [k \in Hands |-> Pays(C[k], u)]
           g == [k \in Hands |-> Pays(D[k], u)]
           m == [k \in Hands |-> Neg(Pays(C[k], u))]
           n == [k \in Hands |-> Neg(Pays(D[k], u))]
<1>1. \A k \in Hands : /\ f[k] \in Int /\ g[k] \in Int /\ (k # h => f[k] = g[k])
                       /\ m[k] \in Int /\ n[k] \in Int /\ (k # h => m[k] = n[k])
  BY PayInt
<1>2. /\ f[h] = Pays(C[h], u) /\ g[h] = Pays(D[h], u)
      /\ m[h] = Neg(Pays(C[h], u)) /\ n[h] = Neg(Pays(D[h], u))
  OBVIOUS
<1> HIDE DEF f, g, m, n
<1>3. /\ SumOver(f, Hands) - f[h] = SumOver(g, Hands) - g[h]
      /\ SumOver(m, Hands) - m[h] = SumOver(n, Hands) - n[h]
  BY <1>1, SumOneMoved, HandsFinite
<1>4. /\ SumOver(f, Hands) = PayOf(C, u) /\ SumOver(g, Hands) = PayOf(D, u)
      /\ SumOver(m, Hands) = NegOf(C, u) /\ SumOver(n, Hands) = NegOf(D, u)
  BY DEF PayOf, NegOf, f, g, m, n
<1> QED BY <1>2, <1>3, <1>4, PayInt

\* The accounts are numbers.
LEMMA ValueInt ==
  ASSUME NEW w \in [Users -> Nat], NEW T \in [Tables -> RoomRecords],
         NEW C \in [Hands -> Requests], NEW u \in Users
  PROVE  Value(w, T, C, u) \in Int /\ Low(w, T, C, u) \in Int
BY DueInt, PayInt DEF Value, Low

\* A wallet can pay what is due of a room, or what a request takes.
LEMMA LowIsLeast ==
  ASSUME NEW w \in [Users -> Nat], NEW T \in [Tables -> RoomRecords],
         NEW C \in [Hands -> Requests], NEW u \in Users,
         \A r \in Tables : BetsOK(T[r])
  PROVE  /\ \A r \in Tables : Low(w, T, C, u) <= w[u] + Due(T[r].entry[u])
         /\ \A h \in Hands : Low(w, T, C, u) <= w[u] + Neg(Pays(C[h], u))
         /\ DueOf(T, u) <= 0
<1> DEFINE f == [r \in Tables |-> Due(T[r].entry[u])]
           g == [h \in Hands |-> Neg(Pays(C[h], u))]
<1>1. \A r \in Tables : Due(T[r].entry[u]) \in Int /\ Due(T[r].entry[u]) <= 0
  <2> SUFFICES ASSUME NEW r \in Tables
               PROVE  Due(T[r].entry[u]) \in Int /\ Due(T[r].entry[u]) <= 0
    OBVIOUS
  <2>1. /\ T[r].entry[u].chips \in Nat /\ T[r].entry[u].written \in Nat
        /\ T[r].entry[u].chips <= T[r].entry[u].written
    BY RoomFields DEF BetsOK
  <2> QED BY <2>1 DEF Due
<1>2. \A h \in Hands : Neg(Pays(C[h], u)) \in Int /\ Neg(Pays(C[h], u)) <= 0
  BY PayInt
<1>3. \A r \in Tables : f[r] \in Int /\ f[r] <= 0
  BY <1>1
<1>4. \A h \in Hands : g[h] \in Int /\ g[h] <= 0
  BY <1>2
<1>5. SumOver(f, Tables) = DueOf(T, u) /\ SumOver(g, Hands) = NegOf(C, u)
  BY DEF DueOf, NegOf
<1>6. /\ \A r \in Tables : f[r] = Due(T[r].entry[u])
      /\ \A h \in Hands : g[h] = Neg(Pays(C[h], u))
  OBVIOUS
<1> HIDE DEF f, g
<1>7. /\ IsFiniteSet(Tables) /\ IsFiniteSet(Hands)
      /\ DueOf(T, u) \in Int /\ NegOf(C, u) \in Int /\ w[u] \in Int
  BY HandsFinite, WalletAssumption, DueInt, PayInt
<1>8. \A r \in Tables : DueOf(T, u) <= f[r]
  BY <1>3, <1>5, <1>7, SumBelow
<1>9. \A h \in Hands : NegOf(C, u) <= g[h]
  BY <1>4, <1>5, <1>7, SumBelow
<1>10. DueOf(T, u) <= 0
  <2>1. CASE Tables = {}
    BY <1>5, <2>1, SumEmpty
  <2>2. CASE Tables # {}
    BY <1>3, <1>7, <1>8, <2>2
  <2> QED BY <2>1, <2>2
<1>11. NegOf(C, u) <= 0
  <2>1. CASE Hands = {}
    BY <1>5, <2>1, SumEmpty
  <2>2. CASE Hands # {}
    BY <1>4, <1>7, <1>9, <2>2
  <2> QED BY <2>1, <2>2
<1>12. \A r \in Tables : DueOf(T, u) + NegOf(C, u) <= f[r]
  BY <1>3, <1>7, <1>8, <1>11
<1>13. \A h \in Hands : DueOf(T, u) + NegOf(C, u) <= g[h]
  BY <1>4, <1>7, <1>9, <1>10
<1> QED BY <1>1, <1>2, <1>6, <1>7, <1>10, <1>12, <1>13 DEF Low

\* Nothing is to be gained where no request pays.
LEMMA LowIsValue ==
  ASSUME NEW w \in [Users -> Nat], NEW T \in [Tables -> RoomRecords],
         NEW C \in [Hands -> Requests], NEW u \in Users,
         \A h \in Hands : Pays(C[h], u) <= 0
  PROVE  Low(w, T, C, u) = Value(w, T, C, u)
<1> DEFINE f == [h \in Hands |-> Pays(C[h], u)]
           g == [h \in Hands |-> Neg(Pays(C[h], u))]
<1>1. ASSUME NEW h \in Hands PROVE f[h] \in Int /\ f[h] = g[h]
  <2>1. Pays(C[h], u) \in Int /\ Pays(C[h], u) <= 0
    BY PayInt
  <2> QED BY <2>1 DEF Neg
<1> HIDE DEF f, g
<1>2. SumOver(f, Hands) = SumOver(g, Hands)
  BY <1>1, SumSame, HandsFinite
<1> QED BY <1>2 DEF Low, Value, PayOf, NegOf, f, g

-----------------------------------------------------------------------------
(* Accounts and books *)

\* A player whose account a room's step leaves alone.
Apart(t, x, u) ==
    /\ Up(x) /\ x.seat[u].here =>
          /\ Up(t) /\ t.seat[u].here /\ x.seat[u].chips = t.seat[u].chips
          /\ u \in t.unseated => u \in x.unseated
    /\ x.by = u => t.by = u

\* Their account is good as long as the wallet has what is read from it.
LEMMA ApartAccount ==
  ASSUME NEW T, NEW U, NEW r \in Tables, \A q \in Tables \ {r} : U[q] = T[q],
         NEW u \in Users, Apart(T[r], U[r], u),
         NEW o, NEW n, NEW m, NEW v, NEW l, NEW k \in Int,
         AccountOK(T, u, o, n, v, l), k >= 0, o.kind \in {"join", "spend"} => m = v
  PROVE  AccountOK(U, u, o, m, v, k)
<1>1. ASSUME NEW q \in Tables
      PROVE  /\ Up(U[q]) /\ U[q].seat[u].here =>
                  /\ U[q].seat[u].chips + Bought(o) <= v
                  /\ u \notin U[q].unseated => U[q].seat[u].chips + Bought(o) = v
                  /\ o.kind = "credit" => o.at = q
             /\ U[q].by = u => o.chips = v
  <2>1. CASE q # r
    <3>1. U[q] = T[q]
      BY <2>1
    <3> QED BY <3>1 DEF AccountOK
  <2>2. CASE q = r
    BY <2>2 DEF AccountOK, Apart
  <2> QED BY <2>1, <2>2
<1> QED BY <1>1 DEF AccountOK

\* A player who has a seat in room r is seated nowhere else, and waits for no closure.
Only(T, r, o, u) ==
    /\ o.kind \in {"idle", "bought", "credit", "leave"}
    /\ \A q \in Tables \ {r} : ~(Up(T[q]) /\ T[q].seat[u].here)
    /\ \A q \in Tables : T[q].by # u

\* What is won and lost at that seat is won and lost to the account.
LEMMA SeatAccount ==
  ASSUME NEW T, NEW U, NEW r \in Tables, \A q \in Tables \ {r} : U[q] = T[q],
         NEW u \in Users, NEW o, Only(T, r, o, u), U[r].by # u,
         NEW d \in Int, T[r].seat[u].chips \in Int, NEW v \in Int,
         Up(U[r]) /\ U[r].seat[u].here =>
             /\ Up(T[r]) /\ T[r].seat[u].here /\ U[r].unseated = T[r].unseated
             /\ U[r].seat[u].chips = T[r].seat[u].chips + d,
         NEW n, NEW m, NEW l, NEW k \in Int, AccountOK(T, u, o, n, v, l), k >= 0
  PROVE  AccountOK(U, u, o, m, v + d, k)
<1>0. Bought(o) \in Int
  BY DEF Bought
<1>1. \A q \in Tables : ~(U[q].by = u)
  BY DEF Only
<1>2. ASSUME NEW q \in Tables, Up(U[q]), U[q].seat[u].here
      PROVE  /\ U[q].seat[u].chips + Bought(o) <= v + d
             /\ u \notin U[q].unseated => U[q].seat[u].chips + Bought(o) = v + d
             /\ o.kind = "credit" => o.at = q
  <2>1. q = r
    BY <1>2 DEF Only
  <2>2. /\ T[r].seat[u].chips + Bought(o) <= v
        /\ u \notin T[r].unseated => T[r].seat[u].chips + Bought(o) = v
        /\ o.kind = "credit" => o.at = r
    BY <1>2, <2>1 DEF AccountOK
  <2> QED BY <1>0, <1>2, <2>1, <2>2
<1>3. o.kind \notin {"carry", "reserved", "join", "spend"}
  BY DEF Only
<1> QED BY <1>1, <1>2, <1>3 DEF AccountOK

\* Whoever has a seat that is up has no other.
LEMMA SeatIsOnly ==
  ASSUME IInv, NEW r \in Tables, NEW u \in Users, Up(table[r]), table[r].seat[u].here
  PROVE  Only(table, r, op[u], u)
<1>1. /\ Placed(table, u, op[u], index[u]) /\ Unseating(table) /\ HandsOK
      /\ None \notin Tables \cup Users
  BY WalletAssumption DEF IInv, WhereOK
<1>2. \/ Resting(op[u]) /\ index[u] = r
      \/ Resting(op[u]) /\ index[u] = None /\ u \in table[r].unseated
      \/ op[u].kind = "leave" /\ op[u].at = r /\ index[u] = None
  BY <1>1 DEF Placed, SeatOf
<1>3. ASSUME NEW q \in Tables, q # r, Up(table[q]), table[q].seat[u].here PROVE FALSE
  <2>1. \/ Resting(op[u]) /\ index[u] = q
        \/ Resting(op[u]) /\ index[u] = None /\ u \in table[q].unseated
        \/ op[u].kind = "leave" /\ op[u].at = q /\ index[u] = None
    BY <1>1, <1>3 DEF Placed, SeatOf
  <2> QED BY <1>1, <1>2, <1>3, <2>1 DEF Unseating, Resting
<1>4. ASSUME NEW q \in Tables, table[q].by = u PROVE FALSE
  <2>1. LeaverOut(table[q], q, chain, op) /\ table[q].by # None
    BY <1>1, <1>4 DEF HandsOK, HandOK
  <2>2. op[u].kind = "leave" /\ op[u].at = q /\ ~table[q].seat[u].here
    BY <1>4, <2>1 DEF LeaverOut
  <2> QED BY <1>2, <2>2 DEF Resting
<1>5. op[u].kind \in {"idle", "bought", "credit", "leave"}
  BY <1>2 DEF Resting
<1> QED BY <1>3, <1>4, <1>5 DEF Only

\* Whoever is to be paid is at a table whose actor waits for it.
LEMMA PaidIsSeated ==
  ASSUME IInv, MoneyOK, NEW h \in Hands, NEW u \in Users, ~(Pays(chain[h], u) <= 0)
  PROVE  \E q \in Tables : table[q].busy /\ Up(table[q]) /\ table[q].seat[u].here
<1>1. PICK q \in Tables, n \in Numbers : h = <<q, n>>
  BY DEF Hands, Numbers
<1>2. Pays(chain[h], u) \in Int
  BY PayInt DEF IInv, Types
<1>3. Pays(chain[h], u) > 0
  BY <1>2
<1>4. table[q].seat[u].here
  BY <1>1, <1>3 DEF MoneyOK, Money, PaidSit
<1>5. chain[h].delta[u] # 0
  BY <1>3 DEF Pays
<1>6. Requested(table[q], q, chain) /\ Waits(table[q], q, chain) /\ AnswerOK(chain[h])
  BY DEF IInv, HandsOK, HandOK, MoneyOK, Money
<1>7. chain[h].stage = "first"
  BY <1>1, <1>5, <1>6 DEF Requested, Retrying, AnswerOK
<1>8. table[q].busy /\ Up(table[q])
  BY <1>1, <1>6, <1>7 DEF Waits, Awaited
<1> QED BY <1>4, <1>8

\* At an actor between closures nobody who is seated waits to be paid,
LEMMA SeatIsPaid ==
  ASSUME IInv, MoneyOK, NEW r \in Tables, Runs(r), NEW u \in Users, table[r].seat[u].here
  PROVE  Low(wallet, table, chain, u) = Value(wallet, table, chain, u)
<1>1. Up(table[r]) /\ ~table[r].busy
  BY DEF Runs, Up
<1>2. Only(table, r, op[u], u)
  BY <1>1, SeatIsOnly
<1>3. \A h \in Hands : Pays(chain[h], u) <= 0
  BY <1>1, <1>2, PaidIsSeated DEF Only
<1> QED BY <1>3, LowIsValue DEF IInv, Types

\* nor does anybody without a seat.
LEMMA NowhereIsPaid ==
  ASSUME IInv, MoneyOK, NEW u \in Users, Nowhere(table, u)
  PROVE  Low(wallet, table, chain, u) = Value(wallet, table, chain, u)
<1>1. \A h \in Hands : Pays(chain[h], u) <= 0
  BY PaidIsSeated DEF Nowhere
<1> QED BY <1>1, LowIsValue DEF IInv, Types

\* The chips of all move by what each gains.
LEMMA ChipsMove ==
  ASSUME NEW w \in [Users -> Nat], NEW y \in [Users -> Nat],
         NEW T \in [Tables -> RoomRecords], NEW U \in [Tables -> RoomRecords],
         NEW C \in [Hands -> Requests], NEW D \in [Hands -> Requests],
         NEW g, \A u \in Users : g[u] \in Int /\ Value(y, U, D, u) = Value(w, T, C, u) + g[u]
  PROVE  Chips(y, U, D) = Chips(w, T, C) + SumOver(g, Users)
<1> DEFINE a == [u \in Users |-> Value(w, T, C, u)]
           b == [u \in Users |-> Value(y, U, D, u)]
<1>1. \A u \in Users : a[u] \in Int /\ g[u] \in Int /\ b[u] = a[u] + g[u]
  BY ValueInt
<1> HIDE DEF a, b
<1>2. SumOver(b, Users) = SumOver(a, Users) + SumOver(g, Users)
  BY <1>1, SumPlus, WalletAssumption
<1> QED BY <1>2 DEF Chips, a, b

\* Nobody gains.
LEMMA ChipsStay ==
  ASSUME NEW w \in [Users -> Nat], NEW y \in [Users -> Nat],
         NEW T \in [Tables -> RoomRecords], NEW U \in [Tables -> RoomRecords],
         NEW C \in [Hands -> Requests], NEW D \in [Hands -> Requests],
         \A u \in Users : Value(y, U, D, u) = Value(w, T, C, u)
  PROVE  Chips(y, U, D) = Chips(w, T, C)
<1> DEFINE a == [u \in Users |-> Value(w, T, C, u)]
           b == [u \in Users |-> Value(y, U, D, u)]
<1>1. \A u \in Users : a[u] \in Int /\ a[u] = b[u]
  BY ValueInt
<1> HIDE DEF a, b
<1>2. SumOver(a, Users) = SumOver(b, Users)
  BY <1>1, SumSame, WalletAssumption
<1> QED BY <1>2 DEF Chips, a, b

\* One player gains.
LEMMA ChipsGain ==
  ASSUME NEW w \in [Users -> Nat], NEW y \in [Users -> Nat],
         NEW T \in [Tables -> RoomRecords], NEW U \in [Tables -> RoomRecords],
         NEW C \in [Hands -> Requests], NEW D \in [Hands -> Requests],
         NEW e \in Users, NEW d \in Int, Value(y, U, D, e) = Value(w, T, C, e) + d,
         \A u \in Users \ {e} : Value(y, U, D, u) = Value(w, T, C, u)
  PROVE  Chips(y, U, D) = Chips(w, T, C) + d
<1> DEFINE a == [u \in Users |-> Value(w, T, C, u)]
           b == [u \in Users |-> Value(y, U, D, u)]
<1>1. \A u \in Users : a[u] \in Int /\ b[u] \in Int /\ (u # e => a[u] = b[u])
  BY ValueInt
<1>2. b[e] = a[e] + d
  OBVIOUS
<1> HIDE DEF a, b
<1>3. SumOver(a, Users) - a[e] = SumOver(b, Users) - b[e]
  BY <1>1, SumOneMoved, WalletAssumption
<1>4. SumOver(a, Users) \in Int /\ SumOver(b, Users) \in Int
  BY <1>1, SumInt, WalletAssumption
<1>5. a[e] \in Int
  BY <1>1
<1>6. SumOver(b, Users) = SumOver(a, Users) + d
  BY <1>2, <1>3, <1>4, <1>5
<1> QED BY <1>6 DEF Chips, a, b

\* The sums of the books are numbers.
LEMMA BooksInt ==
  ASSUME NEW w \in [Users -> Nat], NEW T \in [Tables -> RoomRecords],
         NEW C \in [Hands -> Requests]
  PROVE  Chips(w, T, C) \in Int /\ Pots(T) \in Nat
<1> DEFINE a == [u \in Users |-> Value(w, T, C, u)]
           b == [r \in Tables |-> T[r].pot]
<1>1. \A u \in Users : a[u] \in Int
  BY ValueInt
<1>2. \A r \in Tables : b[r] \in Nat
  BY RoomFields
<1> HIDE DEF a, b
<1>3. SumOver(a, Users) \in Int
  BY <1>1, SumInt, WalletAssumption
<1>4. SumOver(b, Tables) \in Nat
  BY <1>2, SumNat, WalletAssumption
<1> QED BY <1>3, <1>4 DEF Chips, Pots, a, b

\* The pots move by that of the room of the step.
LEMMA PotsMove ==
  ASSUME NEW T \in [Tables -> RoomRecords], NEW U \in [Tables -> RoomRecords],
         NEW r \in Tables, \A q \in Tables \ {r} : U[q] = T[q]
  PROVE  Pots(U) = Pots(T) + U[r].pot - T[r].pot
<1> DEFINE a == [q \in Tables |-> T[q].pot]
           b == [q \in Tables |-> U[q].pot]
<1>1. \A q \in Tables : a[q] \in Int /\ b[q] \in Int /\ (q # r => a[q] = b[q])
  <2> SUFFICES ASSUME NEW q \in Tables
               PROVE  T[q].pot \in Int /\ U[q].pot \in Int /\ (q # r => T[q].pot = U[q].pot)
    OBVIOUS
  <2>1. T[q].pot \in Nat /\ U[q].pot \in Nat
    BY RoomFields
  <2> QED BY <2>1
<1>2. a[r] = T[r].pot /\ b[r] = U[r].pot
  OBVIOUS
<1> HIDE DEF a, b
<1>3. SumOver(a, Tables) - a[r] = SumOver(b, Tables) - b[r]
  BY <1>1, SumOneMoved, WalletAssumption
<1>4. SumOver(a, Tables) \in Int /\ SumOver(b, Tables) \in Int
  BY <1>1, SumInt, WalletAssumption
<1>5. a[r] \in Int /\ b[r] \in Int
  BY <1>1
<1>6. SumOver(b, Tables) = SumOver(a, Tables) + b[r] - a[r]
  BY <1>3, <1>4, <1>5
<1> QED BY <1>2, <1>6 DEF Pots, a, b

-----------------------------------------------------------------------------
(* The operations that no room hears of *)

\* A step of one operation, by which its player gains d.
LEMMA TurnMoney ==
  ASSUME IInv, MoneyOK, UNCHANGED <<table, chain>>, NEW u \in Users, NEW p, Turn(u, p),
         NEW d \in Int, wallet' \in [Users -> Nat], wallet'[u] = wallet[u] + d,
         \A v \in Users \ {u} : wallet'[v] = wallet[v],
         packs \in Nat, spent \in Nat, packs' \in Nat, spent' \in Nat,
         packs' + spent' = packs + spent - d,
         p.to # None => CanSwitch,
         AccountOK(table, u, p, wallet'[u],
                   Value(wallet, table, chain, u) + d, Low(wallet, table, chain, u) + d)
  PROVE  MoneyOK'
<1>0. Types /\ Money(wallet, table, chain, op, packs, spent)
  BY DEF IInv, MoneyOK
<1>1. /\ wallet \in [Users -> Nat] /\ table \in [Tables -> RoomRecords]
      /\ chain \in [Hands -> Requests]
  BY <1>0 DEF Types
<1>2. /\ Value(wallet', table, chain, u) = Value(wallet, table, chain, u) + d
      /\ Low(wallet', table, chain, u) = Low(wallet, table, chain, u) + d
  <2>1. DueOf(table, u) \in Int /\ PayOf(chain, u) \in Int /\ NegOf(chain, u) \in Int
        /\ wallet[u] \in Int
    BY <1>1, DueInt, PayInt
  <2> QED BY <2>1 DEF Value, Low
<1>3. \A v \in Users \ {u} : /\ Value(wallet', table, chain, v) = Value(wallet, table, chain, v)
                             /\ Low(wallet', table, chain, v) = Low(wallet, table, chain, v)
  BY DEF Value, Low
<1>4. Accounts(wallet', table, chain, op')
  <2> SUFFICES ASSUME NEW v \in Users
               PROVE  AccountOK(table, v, op'[v], wallet'[v],
                                Value(wallet', table, chain, v), Low(wallet', table, chain, v))
    BY DEF Accounts
  <2>1. CASE v = u
    BY <2>1, <1>2 DEF Turn
  <2>2. CASE v # u
    <3>1. op'[v] = op[v]
      BY <2>2 DEF Turn
    <3> QED BY <2>2, <3>1, <1>0, <1>3 DEF Money, Accounts
  <2> QED BY <2>1, <2>2
<1>5. Leavings(table, op')
  <2>1. Leavings(table, op)
    BY <1>0 DEF Money
  <2> QED BY <2>1 DEF Leavings, Turn
<1>6. Chips(wallet', table, chain) = Chips(wallet, table, chain) + d
  BY <1>1, <1>2, <1>3, ChipsGain
<1>7. Chips(wallet, table, chain) \in Int /\ Pots(table) \in Int
  BY <1>1, BooksInt
<1>8. Books(wallet, table, chain, packs, spent)
  BY <1>0 DEF Money
<1>9. Books(wallet', table, chain, packs', spent')
  BY <1>6, <1>7, <1>8 DEF Books
<1>10. Money(wallet', table, chain, op', packs', spent')
  BY <1>0, <1>4, <1>5, <1>9 DEF Money
<1> QED BY <1>10 DEF MoneyOK

\* A step of one operation that moves no chips.
LEMMA TurnStill ==
  ASSUME IInv, MoneyOK, UNCHANGED <<wallet, packs, spent, table, chain>>,
         NEW u \in Users, NEW p, Turn(u, p), p.to # None => CanSwitch,
         AccountOK(table, u, p, wallet[u],
                   Value(wallet, table, chain, u), Low(wallet, table, chain, u))
  PROVE  MoneyOK'
<1>1. /\ wallet \in [Users -> Nat] /\ table \in [Tables -> RoomRecords]
      /\ chain \in [Hands -> Requests] /\ packs \in Nat /\ spent \in Nat
  BY DEF IInv, Types
<1> DEFINE v == Value(wallet, table, chain, u)
           l == Low(wallet, table, chain, u)
<1>2. v \in Int /\ l \in Int
  BY <1>1, ValueInt
<1>3. AccountOK(table, u, p, wallet[u], v, l) /\ v + 0 = v /\ l + 0 = l
  BY <1>2
<1>4. AccountOK(table, u, p, wallet[u], v + 0, l + 0)
  BY <1>3
<1>5. 0 \in Int /\ wallet'[u] = wallet[u] + 0 /\ packs' + spent' = packs + spent - 0
      /\ AccountOK(table, u, p, wallet'[u], v + 0, l + 0)
      /\ wallet' \in [Users -> Nat] /\ packs' \in Nat /\ spent' \in Nat
      /\ \A q \in Users \ {u} : wallet'[q] = wallet[q]
  BY <1>1, <1>4
<1> HIDE DEF v, l
<1> QED BY <1>1, <1>5, TurnMoney DEF v, l

\* The account of a player as the invariant has it.
LEMMA AccountIs ==
  ASSUME IInv, MoneyOK, NEW u \in Users
  PROVE  /\ AccountOK(table, u, op[u], wallet[u],
                      Value(wallet, table, chain, u), Low(wallet, table, chain, u))
         /\ Value(wallet, table, chain, u) \in Int /\ Low(wallet, table, chain, u) \in Int
         /\ wallet[u] \in Nat /\ op[u] \in Ops
         /\ Placed(table, u, op[u], index[u])
         /\ op[u].to # None => CanSwitch
<1>1. Types /\ WhereOK /\ Money(wallet, table, chain, op, packs, spent)
  BY DEF IInv, MoneyOK
<1>2. Value(wallet, table, chain, u) \in Int /\ Low(wallet, table, chain, u) \in Int
  BY <1>1, ValueInt DEF Types
<1> QED BY <1>1, <1>2 DEF Types, WhereOK, Money, Accounts, Leavings

\* An account of a player without a seat.
LEMMA NoSeatAccount ==
  ASSUME NEW T, NEW u, Nowhere(T, u), NEW o, NEW n, NEW v, NEW l, l >= 0,
         \A r \in Tables : T[r].by # u,
         o.kind \in {"carry", "reserved"} => o.chips = v,
         o.kind \in {"join", "spend"} => n = v
  PROVE  AccountOK(T, u, o, n, v, l)
BY DEF AccountOK, Nowhere

\* A player whom no leave has waiting.
LEMMA NotWaiting ==
  ASSUME IInv, NEW u \in Users, op[u].kind # "leave"
  PROVE  \A r \in Tables : table[r].by # u
<1> SUFFICES ASSUME NEW r \in Tables, table[r].by = u PROVE FALSE
  OBVIOUS
<1>1. LeaverOut(table[r], r, chain, op) /\ u # None
  BY WalletAssumption DEF IInv, HandsOK, HandOK
<1> QED BY <1>1 DEF LeaverOut

\* With nothing on its way, the wallet is all a player has.
LEMMA ClearValue ==
  ASSUME NEW w \in [Users -> Nat], NEW T \in [Tables -> RoomRecords],
         NEW C \in [Hands -> Requests], NEW u \in Users,
         \A r \in Tables : Due(T[r].entry[u]) = 0,
         \A h \in Hands : Pays(C[h], u) = 0
  PROVE  Value(w, T, C, u) = w[u] /\ Low(w, T, C, u) = w[u]
<1> DEFINE f == [r \in Tables |-> Due(T[r].entry[u])]
           g == [h \in Hands |-> Pays(C[h], u)]
<1>1. (\A r \in Tables : f[r] = 0) /\ (\A h \in Hands : g[h] = 0)
  OBVIOUS
<1> HIDE DEF f, g
<1>2. SumOver(f, Tables) = 0 * Cardinality(Tables) /\ SumOver(g, Hands) = 0 * Cardinality(Hands)
  BY <1>1, SumConstant, HandsFinite, WalletAssumption
<1>3. Cardinality(Tables) \in Nat /\ Cardinality(Hands) \in Nat
  BY FS_CardinalityType, HandsFinite, WalletAssumption
<1>4. DueOf(T, u) = 0 /\ PayOf(C, u) = 0
  BY <1>2, <1>3 DEF DueOf, PayOf, f, g
<1>5. Low(w, T, C, u) = Value(w, T, C, u)
  <2>1. \A h \in Hands : Pays(C[h], u) <= 0
    OBVIOUS
  <2> QED BY <2>1, LowIsValue
<1> QED BY <1>4, <1>5 DEF Value

\* A player with no mark, whose stripe is free, has nothing on its way.
LEMMA UnmarkedValue ==
  ASSUME IInv, MoneyOK, NEW u \in Users, index[u] = None, ~Unfinished(u), op[u].kind = "idle"
  PROVE  Nowhere(table, u) /\ Value(wallet, table, chain, u) = wallet[u]
<1>1. Nowhere(table, u)
  BY FreeNowhere DEF IInv, Resting
<1>2. /\ \A r \in Tables : Due(table[r].entry[u]) = 0
      /\ \A h \in Hands : Pays(chain[h], u) = 0
  BY Unmarked DEF Pays
<1>3. /\ wallet \in [Users -> Nat] /\ table \in [Tables -> RoomRecords]
      /\ chain \in [Hands -> Requests]
  BY DEF IInv, Types
<1> QED BY <1>1, <1>2, <1>3, ClearValue

\* Nor does it change an account that the player waits, or leaves.
LEMMA RestAccount ==
  ASSUME NEW T, NEW u, NEW o, NEW p, NEW n, NEW m, NEW v \in Int, NEW l,
         AccountOK(T, u, o, n, v, l),
         o.kind \notin {"bought", "credit"}, p.kind \in {"idle", "leave"},
         \A r \in Tables : T[r].by # u
  PROVE  AccountOK(T, u, p, m, v, l)
<1>1. Bought(o) = 0 /\ Bought(p) = 0
  BY DEF Bought
<1> QED BY <1>1 DEF AccountOK

\* The operations that look, and that move nothing.
LEMMA LooksMoney ==
  ASSUME IInv, MoneyOK, NEW u \in Users,
         \/ \E r \in Tables : JoinLooks(u, r)
         \/ SpendLooks(u) \/ JoinReads(u)
  PROVE  MoneyOK'
<1>0. /\ Types /\ None \in Rooms /\ Tables \subseteq Rooms
      /\ {"join", "spend", "carry", "reserved", "idle"} \subseteq Kinds
  BY DEF IInv, Rooms, Kinds
<1> DEFINE v == Value(wallet, table, chain, u)
           l == Low(wallet, table, chain, u)
<1>1. /\ AccountOK(table, u, op[u], wallet[u], v, l)
      /\ v \in Int /\ l \in Int /\ wallet[u] \in Nat /\ op[u] \in Ops
      /\ Placed(table, u, op[u], index[u]) /\ (op[u].to # None => CanSwitch) /\ l >= 0
  BY AccountIs DEF AccountOK
<1> HIDE DEF v, l
<1>2. ASSUME NEW p, Turn(u, p), p.kind \in {"join", "spend"}, p.to = None,
             index[u] = None, ~Unfinished(u), op[u].kind = "idle",
             UNCHANGED <<wallet, packs, spent, table, chain>>
      PROVE  MoneyOK'
  <2>1. Nowhere(table, u) /\ v = wallet[u]
    BY <1>2, UnmarkedValue DEF v
  <2>2. \A r \in Tables : table[r].by # u
    BY <1>2, NotWaiting
  <2>3. AccountOK(table, u, p, wallet[u], v, l)
    BY <1>1, <1>2, <2>1, <2>2, NoSeatAccount
  <2> QED BY <1>2, <2>3, TurnStill DEF v, l
<1>3. ASSUME NEW r \in Tables, JoinLooks(u, r) PROVE MoneyOK'
  <2> DEFINE p == Begun("join", r)
  <2>1. op' = [op EXCEPT ![u] = p]
    BY <1>3 DEF JoinLooks, Begun
  <2>2. p \in Ops /\ p.kind = "join" /\ p.to = None
    BY <1>0, BegunIs, Nothing DEF Begun, Idle
  <2> HIDE DEF p
  <2>3. Turn(u, p)
    BY <1>0, <2>1, <2>2, TurnIs
  <2> QED BY <1>2, <1>3, <2>2, <2>3 DEF JoinLooks, money
<1>4. CASE SpendLooks(u)
  <2> DEFINE p == Started("spend")
  <2>1. op' = [op EXCEPT ![u] = p]
    BY <1>4 DEF SpendLooks, Started
  <2>2. p \in Ops /\ p.kind = "spend" /\ p.to = None
    BY <1>0, Nothing DEF Started, Idle, Ops
  <2> HIDE DEF p
  <2>3. Turn(u, p)
    BY <1>0, <2>1, <2>2, TurnIs
  <2> QED BY <1>2, <1>4, <2>2, <2>3 DEF SpendLooks, money
<1>5. CASE JoinReads(u)
  <2>0. op[u].kind = "join" /\ UNCHANGED <<wallet, packs, spent, table, chain>>
    BY <1>5 DEF JoinReads, money
  <2>1. /\ \A r \in Tables : table[r].by # u
        /\ wallet[u] = v
    BY <1>1, <2>0, NotWaiting DEF AccountOK
  <2>2. Nowhere(table, u)
    BY <1>1, <2>0, AwayNowhere DEF Away
  <2>3. CASE wallet[u] < Boot
    <3>1. Turn(u, Idle)
      BY <1>0, <1>5, <2>3, Nothing, TurnIs DEF JoinReads
    <3>2. AccountOK(table, u, Idle, wallet[u], v, l) /\ Idle.to = None
      BY <1>1, <2>1, <2>2, Nothing, NoSeatAccount
    <3> QED BY <2>0, <3>1, <3>2, TurnStill DEF v, l
  <2>4. CASE ~(wallet[u] < Boot)
    <3> DEFINE p == [op[u] EXCEPT !.kind = "carry", !.chips = wallet[u]]
    <3>1. op' = [op EXCEPT ![u] = p]
      BY <1>5, <2>4 DEF JoinReads
    <3>2. p \in Ops /\ p.kind = "carry" /\ p.chips = wallet[u] /\ p.to = op[u].to
      BY <1>0, <1>1 DEF Ops
    <3> HIDE DEF p
    <3>3. Turn(u, p)
      BY <1>0, <3>1, <3>2, TurnIs
    <3>4. AccountOK(table, u, p, wallet[u], v, l)
      BY <1>1, <2>1, <2>2, <3>2, NoSeatAccount
    <3> QED BY <1>1, <2>0, <3>2, <3>3, <3>4, TurnStill DEF v, l
  <2> QED BY <2>3, <2>4
<1> QED BY <1>3, <1>4, <1>5

\* A seat that is taken or refused, and a leave that begins.
LEMMA SeekingMoney ==
  ASSUME IInv, MoneyOK, NEW u \in Users,
         \/ Reserves(u) \/ LeaveStarts(u)
         \/ \E to \in Tables : SwitchStarts(u, to)
  PROVE  MoneyOK'
<1>0. /\ Types /\ None \in Rooms /\ Tables \subseteq Rooms
      /\ {"reserved", "leave"} \subseteq Kinds
  BY DEF IInv, Rooms, Kinds
<1> DEFINE v == Value(wallet, table, chain, u)
           l == Low(wallet, table, chain, u)
           o == op[u]
<1>1. /\ AccountOK(table, u, o, wallet[u], v, l)
      /\ v \in Int /\ l \in Int /\ wallet[u] \in Nat /\ o \in Ops
      /\ Placed(table, u, o, index[u]) /\ (o.to # None => CanSwitch) /\ l >= 0
  BY AccountIs DEF AccountOK
<1>01. index[u] \in Rooms
  BY <1>0 DEF Types
<1> HIDE DEF v, l
<1>2. CASE Reserves(u)
  <2>0. o.kind = "carry" /\ UNCHANGED <<wallet, packs, spent, table, chain>>
    BY <1>2 DEF Reserves, money
  <2>1. (\A r \in Tables : table[r].by # u) /\ o.chips = v
    BY <1>1, <2>0, NotWaiting DEF AccountOK
  <2>2. Nowhere(table, u)
    BY <1>1, <2>0, AwayNowhere DEF Away
  <2>3. ASSUME NEW p \in Ops, op' = [op EXCEPT ![u] = p], p.kind \notin {"join", "spend"},
               p.kind \in {"carry", "reserved"} => p.chips = o.chips,
               p.to # None => o.to # None
        PROVE  MoneyOK'
    <3>1. Turn(u, p)
      BY <1>0, <2>3, TurnIs
    <3>2. AccountOK(table, u, p, wallet[u], v, l)
      BY <1>1, <2>1, <2>2, <2>3, NoSeatAccount
    <3> QED BY <1>1, <2>0, <2>3, <3>1, <3>2, TurnStill DEF v, l
  <2>4. CASE Registered(o.at)
    <3> DEFINE p == [o EXCEPT !.kind = "reserved"]
    <3>1. op' = [op EXCEPT ![u] = p]
      BY <1>0, <1>2, <2>4 DEF Reserves, Types
    <3>2. p \in Ops /\ p.kind = "reserved" /\ p.chips = o.chips /\ p.to = o.to
      BY <1>0, <1>1 DEF Ops
    <3> HIDE DEF p, o
    <3> QED BY <2>3, <3>1, <3>2
  <2>5. CASE ~Registered(o.at)
    <3>1. op' = [op EXCEPT ![u] = Unseated(o)]
      BY <1>2, <2>5 DEF Reserves
    <3>2. Unseated(o) \in Ops
      BY <1>1, UnseatedIs
    <3>3. CASE o.to = None
      BY <2>3, <3>1, <3>2, <3>3, Nothing DEF Unseated
    <3>4. CASE o.to # None
      <4>1. Unseated(o) = [kind |-> "carry", at |-> o.to, to |-> None, chips |-> o.chips]
        BY <1>1, <3>4 DEF Unseated, Ops
      <4> HIDE DEF o
      <4> QED BY <2>3, <3>1, <3>2, <3>4, <4>1
    <3> QED BY <3>3, <3>4
  <2> QED BY <2>4, <2>5
<1>3. ASSUME NEW p \in Ops, op' = [op EXCEPT ![u] = p], p.kind = "leave",
             p.to # None => CanSwitch, o.kind = "idle",
             UNCHANGED <<wallet, packs, spent, table, chain>>
      PROVE  MoneyOK'
  <2>1. Turn(u, p)
    BY <1>0, <1>3, TurnIs
  <2>2. \A r \in Tables : table[r].by # u
    BY <1>3, NotWaiting
  <2>3. AccountOK(table, u, p, wallet[u], v, l)
    BY <1>1, <1>3, <2>2, RestAccount
  <2> QED BY <1>3, <2>1, <2>3, TurnStill DEF v, l
<1>4. CASE LeaveStarts(u)
  <2> DEFINE p == Begun("leave", index[u])
  <2>1. op' = [op EXCEPT ![u] = p]
    BY <1>4 DEF LeaveStarts, Begun
  <2>2. p \in Ops /\ p.kind = "leave" /\ p.to = None
    BY <1>0, <1>01, BegunIs, Nothing DEF Begun, Idle
  <2> HIDE DEF p, o
  <2> QED BY <1>3, <1>4, <2>1, <2>2 DEF LeaveStarts, money, o
<1>5. ASSUME NEW to \in Tables, SwitchStarts(u, to) PROVE MoneyOK'
  <2> DEFINE p == Switching(index[u], to, wallet[u])
  <2>1. op' = [op EXCEPT ![u] = p] /\ CanSwitch
    BY <1>5 DEF SwitchStarts, Switching
  <2>2. p \in Ops /\ p.kind = "leave"
    BY <1>0, <1>01, <1>1 DEF Switching, Ops
  <2> HIDE DEF p, o
  <2> QED BY <1>3, <1>5, <2>1, <2>2 DEF SwitchStarts, money, o
<1> QED BY <1>2, <1>4, <1>5

\* A leave from a room that is gone.
LEMMA NothingMoney ==
  ASSUME Exact, IInv, MoneyOK, NEW u \in Users, LeaveFindsNothing(u)
  PROVE  MoneyOK'
<1> DEFINE v == Value(wallet, table, chain, u)
           l == Low(wallet, table, chain, u)
           o == op[u]
<1>1. /\ AccountOK(table, u, o, wallet[u], v, l)
      /\ v \in Int /\ l \in Int /\ wallet[u] \in Nat /\ o \in Ops
      /\ Placed(table, u, o, index[u]) /\ (o.to # None => CanSwitch) /\ l >= 0
  BY AccountIs DEF AccountOK
<1> HIDE DEF v, l
<1>2. /\ o.kind = "leave" /\ table[o.at].state \in {"gone", "shut"}
      /\ op' = [op EXCEPT ![u] = Left(o)]
      /\ UNCHANGED <<wallet, packs, spent, table, chain>>
  BY DEF LeaveFindsNothing, money
<1>3. o.at \in Tables
  BY <1>1, <1>2 DEF Placed, Indexed
<1>4. o.to = None
  <2>1. Leavings(table, op)
    BY DEF MoneyOK, Money
  <2> QED BY <1>1, <1>2, <1>3, <2>1 DEF Leavings, Exact
<1>5. Turn(u, Idle)
  BY <1>2, <1>4, Nothing, TurnIs DEF Left, IInv
<1>6. \A r \in Tables : table[r].by # u
  <2> SUFFICES ASSUME NEW r \in Tables, table[r].by = u PROVE FALSE
    OBVIOUS
  <2>1. HandOK(table[r], r, chain, op) /\ u # None
    BY WalletAssumption DEF IInv, HandsOK
  <2>2. LeaverOut(table[r], r, chain, op) /\ Waits(table[r], r, chain) /\ table[r].by # None
    BY <2>1 DEF HandOK
  <2>3. o.at = r /\ table[r].dealt \in Numbers /\ Awaited(chain[<<r, table[r].dealt>>])
    BY <2>2 DEF LeaverOut, Awaited
  <2>4. Up(table[r])
    BY <2>2, <2>3 DEF Waits
  <2> QED BY <1>2, <2>3, <2>4 DEF Up
<1>7. AccountOK(table, u, Idle, wallet[u], v, l) /\ Idle.to = None
  BY <1>1, <1>2, <1>6, Nothing, RestAccount
<1> QED BY <1>2, <1>5, <1>7, TurnStill DEF v, l

\* A spend, and a purchase up to the room.
LEMMA LobbyMoney ==
  ASSUME IInv, MoneyOK, NEW u \in Users, SpendCommits(u) \/ BuyBanks(u) \/ BuyLooks(u)
  PROVE  MoneyOK'
<1>0. /\ Types /\ None \in Rooms /\ Tables \subseteq Rooms /\ None \notin Tables
      /\ {"bought", "credit", "idle"} \subseteq Kinds
      /\ wallet \in [Users -> Nat] /\ packs \in Nat /\ spent \in Nat /\ index[u] \in Rooms
  BY WalletAssumption DEF IInv, Types, Rooms, Kinds
<1> DEFINE v == Value(wallet, table, chain, u)
           l == Low(wallet, table, chain, u)
           o == op[u]
<1>1. /\ AccountOK(table, u, o, wallet[u], v, l)
      /\ v \in Int /\ l \in Int /\ wallet[u] \in Nat /\ o \in Ops
      /\ Placed(table, u, o, index[u]) /\ (o.to # None => CanSwitch) /\ l >= 0
  BY AccountIs DEF AccountOK
<1>01. o.kind # "leave" => \A r \in Tables : table[r].by # u
  BY NotWaiting
<1> HIDE DEF v, l
<1>2. CASE SpendCommits(u)
  <2> DEFINE n == IF wallet[u] > 0 THEN 1 ELSE 0
  <2>1. /\ o.kind = "spend" /\ wallet' = [wallet EXCEPT ![u] = @ - n] /\ spent' = spent + n
        /\ op' = [op EXCEPT ![u] = Idle] /\ UNCHANGED <<packs, table, chain>>
    BY <1>2 DEF SpendCommits
  <2>2. n \in Nat /\ wallet[u] - n \in Nat
    BY <1>1
  <2> HIDE DEF n
  <2>3. Nowhere(table, u)
    BY <1>1, <2>1, AwayNowhere DEF Away
  <2>4. l = v /\ wallet[u] = v
    BY <1>1, <2>1, <2>3, NowhereIsPaid DEF v, l, AccountOK
  <2>5. AccountOK(table, u, Idle, wallet[u] - n, v + (-n), l + (-n))
    <3>1. l + (-n) >= 0
      BY <1>1, <2>2, <2>4
    <3> QED BY <1>01, <2>1, <2>3, <3>1, NoSeatAccount, Nothing
  <2>6. /\ -n \in Int /\ wallet' \in [Users -> Nat] /\ wallet'[u] = wallet[u] + (-n)
        /\ wallet'[u] = wallet[u] - n
        /\ \A q \in Users \ {u} : wallet'[q] = wallet[q]
        /\ packs' \in Nat /\ spent' \in Nat /\ packs' + spent' = packs + spent - (-n)
    BY <1>0, <1>1, <2>1, <2>2
  <2>7. Turn(u, Idle) /\ Idle.to = None
    BY <1>0, <2>1, Nothing, TurnIs
  <2>8. AccountOK(table, u, Idle, wallet'[u], v + (-n), l + (-n))
    BY <2>5, <2>6
  <2> DEFINE d == -n
  <2>9. /\ d \in Int /\ wallet'[u] = wallet[u] + d /\ packs' + spent' = packs + spent - d
        /\ AccountOK(table, u, Idle, wallet'[u], v + d, l + d)
    BY <2>6, <2>8
  <2> HIDE DEF d
  <2> QED BY <1>0, <2>1, <2>6, <2>7, <2>9, TurnMoney DEF v, l
<1>3. CASE BuyBanks(u)
  <2> DEFINE p == Started("bought")
  <2>1. /\ o.kind = "idle" /\ packs > 0 /\ packs' = packs - 1
        /\ wallet' = [wallet EXCEPT ![u] = @ + 1]
        /\ op' = [op EXCEPT ![u] = p] /\ UNCHANGED <<spent, table, chain>>
    BY <1>3 DEF BuyBanks, Started
  <2>2. p \in Ops /\ p.kind = "bought" /\ p.to = None
    BY <1>0, Nothing DEF Started, Idle, Ops
  <2> HIDE DEF p
  <2>3. Turn(u, p)
    BY <1>0, <2>1, <2>2, TurnIs
  <2>4. /\ wallet' \in [Users -> Nat] /\ wallet'[u] = wallet[u] + 1
        /\ \A q \in Users \ {u} : wallet'[q] = wallet[q]
        /\ packs' \in Nat /\ spent' \in Nat /\ packs' + spent' = packs + spent - 1
    BY <1>0, <2>1
  <2>5. AccountOK(table, u, p, wallet'[u], v + 1, l + 1)
    <3>1. Bought(o) = 0 /\ Bought(p) = 1
      BY <2>1, <2>2 DEF Bought
    <3>2. ASSUME NEW r \in Tables, Up(table[r]), table[r].seat[u].here
          PROVE  /\ table[r].seat[u].chips + 1 <= v + 1
                 /\ u \notin table[r].unseated => table[r].seat[u].chips + 1 = v + 1
      <4>1. table[r].seat[u].chips \in Int
        BY <1>0, RoomFields DEF Types
      <4>2. /\ table[r].seat[u].chips + Bought(o) <= v
            /\ u \notin table[r].unseated => table[r].seat[u].chips + Bought(o) = v
        BY <1>1, <3>2 DEF AccountOK
      <4> QED BY <1>1, <3>1, <4>1, <4>2
    <3>3. l + 1 >= 0
      BY <1>1
    <3> QED BY <1>01, <2>1, <2>2, <3>1, <3>2, <3>3 DEF AccountOK
  <2> QED BY <1>0, <2>1, <2>2, <2>3, <2>4, <2>5, TurnMoney DEF v, l
<1>4. CASE BuyLooks(u)
  <2>0. o.kind = "bought" /\ UNCHANGED <<wallet, packs, spent, table, chain>>
    BY <1>4 DEF BuyLooks, money
  <2>1. /\ \A r \in Tables : Up(table[r]) /\ table[r].seat[u].here =>
             \/ index[u] = r
             \/ index[u] = None /\ u \in table[r].unseated
    BY <1>1, <2>0 DEF Placed, SeatOf
  <2>2. ASSUME NEW r \in Tables, Up(table[r]), table[r].seat[u].here
        PROVE  /\ table[r].seat[u].chips + 1 <= v
               /\ table[r].seat[u].chips + 0 <= v
               /\ u \notin table[r].unseated => table[r].seat[u].chips + 1 = v
    <3>1. table[r].seat[u].chips \in Int
      BY <1>0, RoomFields DEF Types
    <3>2. Bought(o) = 1
      BY <2>0 DEF Bought
    <3>3. /\ table[r].seat[u].chips + Bought(o) <= v
          /\ u \notin table[r].unseated => table[r].seat[u].chips + Bought(o) = v
      BY <1>1, <2>2 DEF AccountOK
    <3> QED BY <1>1, <3>1, <3>2, <3>3
  <2>3. CASE index[u] = None
    <3>1. op' = [op EXCEPT ![u] = Idle]
      BY <1>4, <2>3 DEF BuyLooks
    <3>2. Turn(u, Idle) /\ Idle.to = None /\ Idle.kind = "idle" /\ Bought(Idle) = 0
      BY <1>0, <3>1, Nothing, TurnIs DEF Bought
    <3>3. AccountOK(table, u, Idle, wallet[u], v, l)
      BY <1>0, <1>01, <1>1, <2>0, <2>1, <2>2, <2>3, <3>2 DEF AccountOK
    <3> QED BY <2>0, <3>2, <3>3, TurnStill DEF v, l
  <2>4. CASE index[u] # None
    <3> DEFINE p == [o EXCEPT !.kind = "credit", !.at = index[u]]
    <3>1. op' = [op EXCEPT ![u] = p]
      BY <1>4, <2>4 DEF BuyLooks
    <3>2. p \in Ops /\ p.kind = "credit" /\ p.at = index[u] /\ p.to = o.to
      BY <1>0, <1>1 DEF Ops
    <3> HIDE DEF p
    <3>3. Turn(u, p) /\ Bought(p) = 1
      BY <1>0, <3>1, <3>2, TurnIs DEF Bought
    <3>4. AccountOK(table, u, p, wallet[u], v, l)
      BY <1>0, <1>01, <1>1, <2>0, <2>1, <2>2, <2>4, <3>2, <3>3 DEF AccountOK
    <3> QED BY <1>1, <2>0, <3>2, <3>3, <3>4, TurnStill DEF v, l
  <2> QED BY <2>3, <2>4
<1> QED BY <1>2, <1>3, <1>4

-----------------------------------------------------------------------------
(* The closures that no ledger hears of *)

\* A room's step moves the accounts with the wallet and what is due.
LEMMA RoomValue ==
  ASSUME NEW w \in [Users -> Nat], NEW y \in [Users -> Nat],
         NEW T \in [Tables -> RoomRecords], NEW U \in [Tables -> RoomRecords],
         NEW r \in Tables, \A q \in Tables \ {r} : U[q] = T[q],
         NEW C \in [Hands -> Requests], NEW u \in Users,
         NEW d \in Int, d = (y[u] - w[u]) + (Due(U[r].entry[u]) - Due(T[r].entry[u]))
  PROVE  /\ Value(y, U, C, u) = Value(w, T, C, u) + d
         /\ Low(y, U, C, u) = Low(w, T, C, u) + d
<1>1. DueOf(U, u) = DueOf(T, u) + Due(U[r].entry[u]) - Due(T[r].entry[u])
  BY DueMoves
<1>2. /\ DueOf(T, u) \in Int /\ Due(U[r].entry[u]) \in Int /\ Due(T[r].entry[u]) \in Int
      /\ PayOf(C, u) \in Int /\ NegOf(C, u) \in Int /\ w[u] \in Int /\ y[u] \in Int
  BY DueInt, PayInt
<1> QED BY <1>1, <1>2 DEF Value, Low

\* The invariant from the room of the step.
LEMMA RoomMoney ==
  ASSUME IInv, MoneyOK, NEW r \in Tables,
         NEW U \in [Tables -> RoomRecords], \A q \in Tables \ {r} : U[q] = table[q],
         NEW w \in [Users -> Nat], NEW O, \A u \in Users : O[u].to # None => CanSwitch,
         BetsOK(U[r]), U[r].state # "open" => CanDestroy,
         \A n \in Numbers, u \in Users :
            Pays(chain[<<r, n>>], u) > 0 => U[r].seat[u].here,
         \A u \in Users :
            AccountOK(U, u, O[u], w[u], Value(w, U, chain, u), Low(w, U, chain, u)),
         Chips(w, U, chain) + U[r].pot = Chips(wallet, table, chain) + table[r].pot
  PROVE  Money(w, U, chain, O, packs, spent)
<1>0. Types /\ Money(wallet, table, chain, op, packs, spent)
  BY DEF IInv, MoneyOK
<1>1. Accounts(w, U, chain, O)
  BY DEF Accounts
<1>2. \A q \in Tables : BetsOK(U[q])
  <2>1. \A q \in Tables : BetsOK(table[q])
    BY <1>0 DEF Money
  <2> QED BY <2>1
<1>3. PaidSit(U, chain)
  <2>1. PaidSit(table, chain)
    BY <1>0 DEF Money
  <2> QED BY <2>1 DEF PaidSit
<1>4. Leavings(U, O)
  <2>1. Leavings(table, op)
    BY <1>0 DEF Money
  <2> QED BY <2>1 DEF Leavings
<1>5. Books(w, U, chain, packs, spent)
  <2>1. Books(wallet, table, chain, packs, spent)
    BY <1>0 DEF Money
  <2>2. Pots(U) = Pots(table) + U[r].pot - table[r].pot
    BY <1>0, PotsMove DEF Types
  <2>3. /\ Chips(w, U, chain) \in Int /\ Chips(wallet, table, chain) \in Int
        /\ Pots(U) \in Nat /\ Pots(table) \in Nat /\ packs \in Nat /\ spent \in Nat
    BY <1>0, BooksInt DEF Types
  <2>4. U[r].pot \in Nat /\ table[r].pot \in Nat
    BY <1>0, RoomFields DEF Types
  <2> QED BY <2>1, <2>2, <2>3, <2>4 DEF Books
<1> QED BY <1>0, <1>1, <1>2, <1>3, <1>4, <1>5 DEF Money

\* Between closures no request of the room pays.
LEMMA RunsUnpaid ==
  ASSUME IInv, MoneyOK, NEW r \in Tables, Runs(r), NEW n \in Numbers, NEW u \in Users
  PROVE  ~(Pays(chain[<<r, n>>], u) > 0)
<1> SUFFICES ASSUME Pays(chain[<<r, n>>], u) > 0 PROVE FALSE
  OBVIOUS
<1>1. <<r, n>> \in Hands
  BY DEF Hands, Numbers
<1>2. chain[<<r, n>>].delta[u] # 0
  BY DEF Pays
<1>3. Requested(table[r], r, chain) /\ AnswerOK(chain[<<r, n>>])
  BY <1>1 DEF IInv, HandsOK, HandOK, MoneyOK, Money
<1>4. chain[<<r, n>>].stage = "first"
  BY <1>2, <1>3 DEF Requested, Retrying, AnswerOK
<1> QED BY <1>4, RunsQuiet DEF Awaited

\* The state and the stakes of a room, as the invariants have them.
LEMMA RoomIsOK ==
  ASSUME IInv, MoneyOK, NEW r \in Tables
  PROVE  /\ table \in [Tables -> RoomRecords] /\ table[r] \in RoomRecords
         /\ wallet \in [Users -> Nat] /\ chain \in [Hands -> Requests]
         /\ BetsOK(table[r]) /\ (table[r].state # "open" => CanDestroy)
         /\ Leavings(table, op)
BY DEF IInv, Types, MoneyOK, Money, Leavings

\* What a deal makes of the stacks.
LEMMA DealMakes ==
  ASSUME Types, NEW r \in Tables, StartHand(r)
  PROVE  LET t == table[r]
             x == table'[r]
             dealt == {u \in Users : t.seat[u].here /\ t.seat[u].chips >= Boot}
         IN  /\ x.state = t.state /\ x.unseated = t.unseated /\ x.by = t.by
             /\ x.pot = Boot * Cardinality(dealt)
             /\ \A u \in Users :
                  IF u \in dealt
                  THEN /\ x.seat[u].here /\ x.seat[u].chips = t.seat[u].chips - Boot
                       /\ x.entry[u].in /\ x.entry[u].chips = t.seat[u].chips - Boot
                       /\ x.entry[u].written = t.seat[u].chips
                  ELSE x.seat[u] = t.seat[u] /\ x.entry[u] = NoEntry
<1> DEFINE t == table[r]
           x == table'[r]
           dealt == {u \in Users : t.seat[u].here /\ t.seat[u].chips >= Boot}
           yes == TRUE
           no == FALSE
           s == [u \in Users |-> IF u \in dealt
                                 THEN [here |-> yes, active |-> yes, chips |-> t.seat[u].chips - Boot]
                                 ELSE t.seat[u]]
           e == [u \in Users |-> IF u \in dealt
                                 THEN [in |-> yes, left |-> no, chips |-> t.seat[u].chips - Boot,
                                       written |-> t.seat[u].chips]
                                 ELSE NoEntry]
           p == Boot * Cardinality(dealt)
<1>1. t \in RoomRecords /\ yes
  BY DEF Types
<1>2. x = [t EXCEPT !.live = yes, !.dealt = @ + 1, !.pot = p, !.seat = s, !.entry = e]
  BY DEF StartHand, Types
<1> HIDE DEF x, s, e, p
<1>3. /\ x.state = t.state /\ x.unseated = t.unseated /\ x.by = t.by
      /\ x.pot = p /\ x.seat = s /\ x.entry = e
  BY <1>1, <1>2 DEF RoomRecords
<1>4. ASSUME NEW u \in Users
      PROVE  IF u \in dealt
             THEN /\ s[u].here /\ s[u].chips = t.seat[u].chips - Boot
                  /\ e[u].in /\ e[u].chips = t.seat[u].chips - Boot
                  /\ e[u].written = t.seat[u].chips
             ELSE s[u] = t.seat[u] /\ e[u] = NoEntry
  <2>1. CASE u \in dealt
    <3>1. s[u] = [here |-> yes, active |-> yes, chips |-> t.seat[u].chips - Boot]
      BY <2>1 DEF s
    <3>2. e[u] = [in |-> yes, left |-> no, chips |-> t.seat[u].chips - Boot,
                  written |-> t.seat[u].chips]
      BY <2>1 DEF e
    <3> HIDE DEF yes, no, t, dealt
    <3> QED BY <1>1, <2>1, <3>1, <3>2
  <2>2. CASE u \notin dealt
    <3>1. s[u] = t.seat[u] /\ e[u] = NoEntry
      BY <2>2 DEF s, e
    <3> QED BY <2>2, <3>1
  <2> QED BY <2>1, <2>2
<1>5. \A u \in Users :
         IF u \in dealt
         THEN /\ x.seat[u].here /\ x.seat[u].chips = t.seat[u].chips - Boot
              /\ x.entry[u].in /\ x.entry[u].chips = t.seat[u].chips - Boot
              /\ x.entry[u].written = t.seat[u].chips
         ELSE x.seat[u] = t.seat[u] /\ x.entry[u] = NoEntry
  BY <1>3, <1>4
<1> QED BY <1>3, <1>5 DEF x, p

\* The boots of a hand go from the accounts to the pot.
LEMMA DealMoney ==
  ASSUME IInv, MoneyOK, NEW r \in Tables, StartHand(r)
  PROVE  MoneyOK'
<1> DEFINE t == table[r]
           x == table'[r]
           dealt == {u \in Users : t.seat[u].here /\ t.seat[u].chips >= Boot}
           g == [u \in Users |-> IF u \in dealt THEN -Boot ELSE 0]
<1>0. /\ table \in [Tables -> RoomRecords] /\ t \in RoomRecords
      /\ wallet \in [Users -> Nat] /\ chain \in [Hands -> Requests]
      /\ BetsOK(t) /\ (t.state # "open" => CanDestroy) /\ Leavings(table, op)
      /\ IInv' /\ table' \in [Tables -> RoomRecords] /\ x \in RoomRecords
      /\ Boot \in Nat /\ IsFiniteSet(Users)
  <2>1. Next
    BY DEF Next, OnTable
  <2>2. IInv'
    BY <2>1, IndStep
  <2> QED BY <2>2, RoomIsOK, WalletAssumption DEF IInv, Types
<1>1. /\ Runs(r) /\ ~t.live
      /\ UNCHANGED <<wallet, packs, spent, op, chain>>
      /\ \A q \in Tables \ {r} : table'[q] = table[q]
  <2>1. \A q \in Tables \ {r} : table'[q] = table[q]
    BY <1>0 DEF StartHand
  <2> QED BY <2>1, Zenon DEF StartHand, money
<1>2. /\ x.state = t.state /\ x.unseated = t.unseated /\ x.by = t.by
      /\ x.pot = Boot * Cardinality(dealt)
      /\ \A u \in Users :
           IF u \in dealt
           THEN /\ x.seat[u].here /\ x.seat[u].chips = t.seat[u].chips - Boot
                /\ x.entry[u].in /\ x.entry[u].chips = t.seat[u].chips - Boot
                /\ x.entry[u].written = t.seat[u].chips
           ELSE x.seat[u] = t.seat[u] /\ x.entry[u] = NoEntry
  BY <1>0, DealMakes DEF IInv
<1>3. /\ t.pot = 0 /\ \A u \in Users : /\ Due(t.entry[u]) = 0 /\ ~t.seat[u].active
                                       /\ t.seat[u].chips \in Nat
  <2>1. Emptied(t) /\ \A u \in Users : ~t.seat[u].active
    BY <1>1, InHand
  <2> QED BY <1>0, <2>1, Nothing, RoomFields DEF Emptied
<1>4. Up(t) /\ Up(x)
  BY <1>1, <1>2 DEF Runs, Up
<1> HIDE DEF x, t
<1>5. ASSUME NEW u \in Users
      PROVE  /\ g[u] \in Int
             /\ Value(wallet, table', chain, u) = Value(wallet, table, chain, u) + g[u]
             /\ Low(wallet, table', chain, u) = Low(wallet, table, chain, u) + g[u]
  <2>1. Due(x.entry[u]) = g[u]
    <3>1. CASE u \in dealt
      <4>1. /\ x.entry[u].chips = t.seat[u].chips - Boot /\ x.entry[u].written = t.seat[u].chips
            /\ t.seat[u].chips \in Nat
        BY <1>2, <1>3, <3>1
      <4> HIDE DEF dealt
      <4> QED BY <1>0, <3>1, <4>1 DEF Due
    <3>2. CASE u \notin dealt
      BY <1>2, <3>2, Nothing
    <3> QED BY <3>1, <3>2
  <2>2. g[u] \in Int /\ wallet[u] \in Nat
    BY <1>0
  <2> DEFINE d == g[u]
  <2>3. d \in Int /\ d = (wallet[u] - wallet[u]) + (Due(table'[r].entry[u]) - Due(table[r].entry[u]))
    BY <1>3, <2>1, <2>2 DEF x, t
  <2> HIDE DEF d
  <2>4. /\ Value(wallet, table', chain, u) = Value(wallet, table, chain, u) + d
        /\ Low(wallet, table', chain, u) = Low(wallet, table, chain, u) + d
    BY <1>0, <1>1, <2>3, RoomValue
  <2> QED BY <2>2, <2>4 DEF d
<1>6. ASSUME NEW u \in Users
      PROVE  AccountOK(table', u, op[u], wallet[u],
                       Value(wallet, table', chain, u), Low(wallet, table', chain, u))
  <2> DEFINE v == Value(wallet, table, chain, u)
             l == Low(wallet, table, chain, u)
  <2>1. AccountOK(table, u, op[u], wallet[u], v, l) /\ v \in Int /\ l \in Int /\ l >= 0
    BY AccountIs DEF AccountOK
  <2>2. Value(wallet, table', chain, u) = v + g[u] /\ Low(wallet, table', chain, u) = l + g[u]
    BY <1>5
  <2>3. ASSUME u \in dealt
        PROVE  AccountOK(table', u, op[u], wallet[u], v + (-Boot), l + (-Boot))
    <3>1. t.seat[u].here /\ t.seat[u].chips >= Boot /\ t.seat[u].chips \in Int
      BY <1>3, <2>3
    <3>2. Only(table, r, op[u], u)
      BY <1>4, <3>1, SeatIsOnly DEF t
    <3>3. l = v
      BY <1>1, <3>1, SeatIsPaid DEF t
    <3>4. t.seat[u].chips + Bought(op[u]) <= v /\ Bought(op[u]) \in Nat
      BY <1>4, <2>1, <3>1 DEF AccountOK, Bought, t
    <3>5. l + (-Boot) \in Int /\ l + (-Boot) >= 0 /\ -Boot \in Int
      BY <1>0, <2>1, <3>1, <3>3, <3>4
    <3>6. /\ x.unseated = t.unseated /\ x.seat[u].chips = t.seat[u].chips + (-Boot)
          /\ x.by # u
      <4>1. x.seat[u].chips = t.seat[u].chips - Boot
        BY <1>2, <2>3
      <4>2. t.by # u
        BY <3>2 DEF Only, t
      <4> QED BY <1>0, <1>2, <3>1, <4>1, <4>2
    <3> DEFINE d == -Boot
               k == l + d
    <3>7. k \in Int /\ k >= 0 /\ d \in Int /\ x.seat[u].chips = t.seat[u].chips + d
      BY <3>5, <3>6
    <3> HIDE DEF d, k, v, l, dealt, g
    <3>8. AccountOK(table', u, op[u], wallet[u], v + d, k)
      BY <1>1, <1>4, <2>1, <3>1, <3>2, <3>6, <3>7, SeatAccount DEF x, t
    <3> QED BY <3>8 DEF d, k
  <2>4. ASSUME u \notin dealt
        PROVE  AccountOK(table', u, op[u], wallet[u], v, l)
    <3>1. Apart(t, x, u)
      BY <1>2, <1>4, <2>4 DEF Apart
    <3>2. op[u].kind \in {"join", "spend"} => wallet[u] = v
      BY <2>1 DEF AccountOK
    <3> HIDE DEF v, l
    <3> QED BY <1>1, <2>1, <3>1, <3>2, ApartAccount DEF x, t
  <2>5. v + 0 = v /\ l + 0 = l
    BY <2>1
  <2> HIDE DEF v, l
  <2> QED BY <2>2, <2>3, <2>4, <2>5
<1>7. BetsOK(x)
  <2> SUFFICES ASSUME NEW u \in Users
               PROVE  /\ x.entry[u].chips <= x.entry[u].written
                      /\ x.seat[u].active => x.entry[u].in /\ x.entry[u].chips = x.seat[u].chips
    BY DEF BetsOK
  <2>1. CASE u \in dealt
    <3>1. /\ x.seat[u].chips = t.seat[u].chips - Boot /\ x.entry[u].in
          /\ x.entry[u].chips = t.seat[u].chips - Boot /\ x.entry[u].written = t.seat[u].chips
      BY <1>2, <2>1
    <3> QED BY <1>0, <1>3, <3>1
  <2>2. CASE u \notin dealt
    <3>1. x.seat[u] = t.seat[u] /\ x.entry[u] = NoEntry
      BY <1>2, <2>2
    <3> QED BY <1>3, <3>1 DEF NoEntry
  <2> QED BY <2>1, <2>2
<1>8. Chips(wallet, table', chain) + x.pot = Chips(wallet, table, chain) + t.pot
  <2>1. Chips(wallet, table', chain) = Chips(wallet, table, chain) + SumOver(g, Users)
    <3> HIDE DEF g
    <3> QED BY <1>0, <1>5, ChipsMove
  <2>2. SumOver(g, Users) = SumOver(g, dealt)
    <3>1. dealt \in SUBSET Users /\ \A u \in Users \ dealt : g[u] = 0
      OBVIOUS
    <3>2. \A u \in Users : g[u] \in Int
      BY <1>5
    <3> HIDE DEF g, dealt
    <3> QED BY <1>0, <3>1, <3>2, SumOutside
  <2>3. IsFiniteSet(dealt) /\ Cardinality(dealt) \in Nat
    <3>1. IsFiniteSet(dealt)
      BY <1>0, FS_Subset
    <3> QED BY <3>1, FS_CardinalityType
  <2>4. SumOver(g, dealt) = (-Boot) * Cardinality(dealt)
    <3>1. (\A u \in dealt : g[u] = -Boot) /\ -Boot \in Int
      BY <1>0
    <3> HIDE DEF g, dealt
    <3> QED BY <2>3, <3>1, SumConstant
  <2>5. Chips(wallet, table, chain) \in Int
    BY <1>0, BooksInt
  <2>6. (-Boot) * Cardinality(dealt) + Boot * Cardinality(dealt) = 0
        /\ (-Boot) * Cardinality(dealt) \in Int /\ Boot * Cardinality(dealt) \in Int
    <3> HIDE DEF dealt
    <3> QED BY <1>0, <2>3
  <2> HIDE DEF g, dealt
  <2> QED BY <1>2, <1>3, <2>1, <2>2, <2>4, <2>5, <2>6
<1>9. \A n \in Numbers, u \in Users : ~(Pays(chain[<<r, n>>], u) > 0)
  BY <1>1, RunsUnpaid
<1>10. Money(wallet, table', chain, op, packs, spent)
  <2> HIDE DEF g, dealt
  <2>1. BetsOK(table'[r]) /\ (table'[r].state # "open" => CanDestroy)
    BY <1>0, <1>2, <1>7 DEF x
  <2>2. \A u \in Users : op[u].to # None => CanSwitch
    BY <1>0 DEF Leavings
  <2>3. Chips(wallet, table', chain) + table'[r].pot = Chips(wallet, table, chain) + table[r].pot
    BY <1>8 DEF x, t
  <2> QED BY <1>0, <1>1, <1>6, <1>9, <2>1, <2>2, <2>3, RoomMoney
<1> QED BY <1>1, <1>10 DEF MoneyOK

-----------------------------------------------------------------------------
(* A closure, and one player's account *)

\* A closure by which one player gains d, out of the pot or into it.
LEMMA OneMoney ==
  ASSUME IInv, MoneyOK, NEW r \in Tables, NEW u \in Users,
         NEW U \in [Tables -> RoomRecords], \A q \in Tables \ {r} : U[q] = table[q],
         NEW w \in [Users -> Nat], \A v \in Users \ {u} : w[v] = wallet[v],
         NEW O, \A v \in Users \ {u} : O[v] = op[v], O[u].to # None => CanSwitch,
         BetsOK(U[r]), U[r].state # "open" => CanDestroy,
         \A n \in Numbers, v \in Users :
            Pays(chain[<<r, n>>], v) > 0 => U[r].seat[v].here,
         \A v \in Users \ {u} :
            Apart(table[r], U[r], v) /\ Due(U[r].entry[v]) = Due(table[r].entry[v]),
         NEW d \in Int,
         d = (w[u] - wallet[u]) + (Due(U[r].entry[u]) - Due(table[r].entry[u])),
         AccountOK(U, u, O[u], w[u],
                   Value(wallet, table, chain, u) + d, Low(wallet, table, chain, u) + d),
         U[r].pot = table[r].pot - d
  PROVE  Money(w, U, chain, O, packs, spent)
<1>1. /\ table \in [Tables -> RoomRecords] /\ wallet \in [Users -> Nat]
      /\ chain \in [Hands -> Requests] /\ Leavings(table, op)
  BY RoomIsOK
<1>2. /\ Value(w, U, chain, u) = Value(wallet, table, chain, u) + d
      /\ Low(w, U, chain, u) = Low(wallet, table, chain, u) + d
  BY <1>1, RoomValue
<1>3. ASSUME NEW v \in Users \ {u}
      PROVE  /\ Value(w, U, chain, v) = Value(wallet, table, chain, v)
             /\ Low(w, U, chain, v) = Low(wallet, table, chain, v)
             /\ Value(wallet, table, chain, v) \in Int /\ Low(wallet, table, chain, v) \in Int
  <2>1. /\ wallet[v] \in Nat /\ Due(table[r].entry[v]) \in Int
        /\ w[v] = wallet[v] /\ Due(U[r].entry[v]) = Due(table[r].entry[v])
    BY <1>1, DueInt
  <2>2. 0 \in Int /\ 0 = (w[v] - wallet[v]) + (Due(U[r].entry[v]) - Due(table[r].entry[v]))
    BY <2>1
  <2>3. /\ Value(w, U, chain, v) = Value(wallet, table, chain, v) + 0
        /\ Low(w, U, chain, v) = Low(wallet, table, chain, v) + 0
    BY <1>1, <2>2, RoomValue
  <2>4. Value(wallet, table, chain, v) \in Int /\ Low(wallet, table, chain, v) \in Int
    BY <1>1, ValueInt
  <2> QED BY <2>3, <2>4
<1>4. ASSUME NEW v \in Users
      PROVE  AccountOK(U, v, O[v], w[v], Value(w, U, chain, v), Low(w, U, chain, v))
  <2>1. CASE v = u
    BY <1>2, <2>1
  <2>2. CASE v # u
    <3> DEFINE a == Value(wallet, table, chain, v)
               b == Low(wallet, table, chain, v)
    <3>1. AccountOK(table, v, op[v], wallet[v], a, b)
      BY AccountIs
    <3>2. b >= 0 /\ (op[v].kind \in {"join", "spend"} => wallet[v] = a)
      BY <3>1 DEF AccountOK
    <3>3. Apart(table[r], U[r], v) /\ O[v] = op[v] /\ w[v] = wallet[v] /\ b \in Int
      BY <1>3, <2>2
    <3>4. Value(w, U, chain, v) = a /\ Low(w, U, chain, v) = b
      BY <1>3, <2>2
    <3> HIDE DEF a, b
    <3>5. AccountOK(U, v, op[v], wallet[v], a, b)
      BY <3>1, <3>2, <3>3, ApartAccount
    <3> QED BY <3>3, <3>4, <3>5
  <2> QED BY <2>1, <2>2
<1>5. Chips(w, U, chain) + U[r].pot = Chips(wallet, table, chain) + table[r].pot
  <2>1. Chips(w, U, chain) = Chips(wallet, table, chain) + d
    BY <1>1, <1>2, <1>3, ChipsGain
  <2>2. Chips(wallet, table, chain) \in Int
    BY <1>1, BooksInt
  <2>3. table[r].pot \in Nat
    BY <1>1, RoomFields
  <2> QED BY <2>1, <2>2, <2>3
<1>6. \A v \in Users : O[v].to # None => CanSwitch
  BY <1>1 DEF Leavings
<1> QED BY <1>1, <1>4, <1>5, <1>6, RoomMoney

\* A closure by which nobody gains.
LEMMA StillMoney ==
  ASSUME IInv, MoneyOK, NEW r \in Tables, NEW x, Room(r, x),
         UNCHANGED <<wallet, packs, spent, op, chain>>,
         BetsOK(x), x.state # "open" => CanDestroy, x.pot = table[r].pot,
         \A n \in Numbers, v \in Users : Pays(chain[<<r, n>>], v) > 0 => x.seat[v].here,
         \A v \in Users : Apart(table[r], x, v) /\ Due(x.entry[v]) = Due(table[r].entry[v])
  PROVE  MoneyOK'
<1>1. /\ table \in [Tables -> RoomRecords] /\ wallet \in [Users -> Nat]
      /\ chain \in [Hands -> Requests] /\ Leavings(table, op)
      /\ table' \in [Tables -> RoomRecords] /\ table'[r] = x
      /\ \A q \in Tables \ {r} : table'[q] = table[q]
  BY RoomIsOK DEF Room
<1>2. ASSUME NEW v \in Users
      PROVE  /\ Value(wallet, table', chain, v) = Value(wallet, table, chain, v)
             /\ Low(wallet, table', chain, v) = Low(wallet, table, chain, v)
             /\ Value(wallet, table, chain, v) \in Int /\ Low(wallet, table, chain, v) \in Int
  <2>1. /\ wallet[v] \in Nat /\ Due(table[r].entry[v]) \in Int
        /\ Due(table'[r].entry[v]) = Due(table[r].entry[v])
    BY <1>1, DueInt
  <2>2. 0 \in Int /\ 0 = (wallet[v] - wallet[v])
                        + (Due(table'[r].entry[v]) - Due(table[r].entry[v]))
    BY <2>1
  <2>3. /\ Value(wallet, table', chain, v) = Value(wallet, table, chain, v) + 0
        /\ Low(wallet, table', chain, v) = Low(wallet, table, chain, v) + 0
    BY <1>1, <2>2, RoomValue
  <2>4. Value(wallet, table, chain, v) \in Int /\ Low(wallet, table, chain, v) \in Int
    BY <1>1, ValueInt
  <2> QED BY <2>3, <2>4
<1>3. ASSUME NEW v \in Users
      PROVE  AccountOK(table', v, op[v], wallet[v], Value(wallet, table', chain, v),
                       Low(wallet, table', chain, v))
  <2> DEFINE a == Value(wallet, table, chain, v)
             b == Low(wallet, table, chain, v)
  <2>1. AccountOK(table, v, op[v], wallet[v], a, b)
    BY AccountIs
  <2>2. b >= 0 /\ (op[v].kind \in {"join", "spend"} => wallet[v] = a)
    BY <2>1 DEF AccountOK
  <2>3. Apart(table[r], table'[r], v) /\ b \in Int
    BY <1>1, <1>2
  <2>4. Value(wallet, table', chain, v) = a /\ Low(wallet, table', chain, v) = b
    BY <1>2
  <2> HIDE DEF a, b
  <2>5. AccountOK(table', v, op[v], wallet[v], a, b)
    BY <1>1, <2>1, <2>2, <2>3, ApartAccount
  <2> QED BY <2>4, <2>5
<1>4. Chips(wallet, table', chain) = Chips(wallet, table, chain)
  BY <1>1, <1>2, ChipsStay
<1>5. Money(wallet, table', chain, op, packs, spent)
  <2>1. \A v \in Users : op[v].to # None => CanSwitch
    BY <1>1 DEF Leavings
  <2>2. Chips(wallet, table', chain) + table'[r].pot = Chips(wallet, table, chain) + table[r].pot
    BY <1>1, <1>4
  <2> QED BY <1>1, <1>3, <2>1, <2>2, RoomMoney
<1> QED BY <1>5 DEF MoneyOK

\* What a bet makes of the room.
LEMMA ChaalMakes ==
  ASSUME Types, NEW r \in Tables, NEW u \in Users, Chaal(r, u)
  PROVE  LET t == table[r]
             x == table'[r]
         IN  /\ Room(r, x) /\ SameRoom(t, x) /\ x.by = t.by /\ x.pot = t.pot + 1
             /\ x.seat[u].here = t.seat[u].here /\ x.seat[u].active = t.seat[u].active
             /\ x.seat[u].chips = t.seat[u].chips - 1
             /\ x.entry[u].in = t.entry[u].in /\ x.entry[u].written = t.entry[u].written
             /\ x.entry[u].chips = t.seat[u].chips - 1
             /\ \A v \in Users \ {u} : x.seat[v] = t.seat[v] /\ x.entry[v] = t.entry[v]
<1> DEFINE t == table[r]
           x == table'[r]
           n == t.seat[u].chips - 1
           a == [t.seat[u] EXCEPT !.chips = n]
           b == [t.entry[u] EXCEPT !.chips = n]
           s == [t.seat EXCEPT ![u] = a]
           e == [t.entry EXCEPT ![u] = b]
           y == [t EXCEPT !.seat = s, !.entry = e, !.pot = @ + 1]
<1>1. t \in RoomRecords /\ t.seat[u].chips > 0
  BY DEF Types, Chaal
<1>2. n \in Nat /\ t.pot + 1 \in Nat
  BY <1>1, RoomFields
<1>3. table' = [table EXCEPT ![r] = y]
  BY <1>1 DEF Chaal, Types, RoomRecords
<1> HIDE DEF n
<1>4. /\ a \in SeatRecords /\ a.here = t.seat[u].here /\ a.active = t.seat[u].active
      /\ a.chips = n /\ b \in EntryRecords /\ b.in = t.entry[u].in
      /\ b.written = t.entry[u].written /\ b.chips = n
  <2>1. t.seat[u] \in SeatRecords /\ t.entry[u] \in EntryRecords
    BY <1>1, RoomFields
  <2> QED BY <1>2, <2>1 DEF SeatRecords, EntryRecords
<1> HIDE DEF a, b
<1>5. /\ s \in [Users -> SeatRecords] /\ s[u] = a /\ \A v \in Users \ {u} : s[v] = t.seat[v]
      /\ e \in [Users -> EntryRecords] /\ e[u] = b /\ \A v \in Users \ {u} : e[v] = t.entry[v]
  BY <1>1, <1>4, RoomFields
<1> HIDE DEF s, e
<1>6. y \in RoomRecords
  BY <1>1, <1>2, <1>5 DEF RoomRecords
<1>7. /\ y.state = t.state /\ y.unseated = t.unseated /\ y.by = t.by /\ y.pot = t.pot + 1
      /\ y.seat = s /\ y.entry = e
  BY <1>1 DEF RoomRecords
<1> HIDE DEF y
<1>8. Room(r, x) /\ x = y
  BY <1>3, <1>6, RoomIs DEF Room
<1> QED BY <1>4, <1>5, <1>7, <1>8 DEF SameRoom, n

\* A bet goes from the account to the pot.
LEMMA ChaalMoney ==
  ASSUME IInv, MoneyOK, NEW r \in Tables, NEW u \in Users, Chaal(r, u)
  PROVE  MoneyOK'
<1> DEFINE t == table[r]
           x == table'[r]
           d == -1
           v == Value(wallet, table, chain, u)
           l == Low(wallet, table, chain, u)
<1>1. /\ table \in [Tables -> RoomRecords] /\ t \in RoomRecords /\ wallet \in [Users -> Nat]
      /\ BetsOK(t) /\ (t.state # "open" => CanDestroy)
  BY RoomIsOK
<1>2. /\ Runs(r) /\ t.seat[u].active /\ t.seat[u].chips > 0
      /\ UNCHANGED <<wallet, packs, spent, op, chain>>
  BY DEF Chaal, money
<1>3. /\ Room(r, x) /\ SameRoom(t, x) /\ x.by = t.by /\ x.pot = t.pot + 1
      /\ x.seat[u].here = t.seat[u].here /\ x.seat[u].active = t.seat[u].active
      /\ x.seat[u].chips = t.seat[u].chips - 1
      /\ x.entry[u].in = t.entry[u].in /\ x.entry[u].written = t.entry[u].written
      /\ x.entry[u].chips = t.seat[u].chips - 1
      /\ \A q \in Users \ {u} : x.seat[q] = t.seat[q] /\ x.entry[q] = t.entry[q]
  BY ChaalMakes DEF IInv
<1>4. /\ t.seat[u].here /\ Up(t) /\ Up(x) /\ t.seat[u].chips \in Nat /\ t.pot \in Nat
      /\ t.entry[u].chips \in Nat /\ t.entry[u].written \in Nat
      /\ t.entry[u].in /\ t.entry[u].chips = t.seat[u].chips
      /\ t.entry[u].chips <= t.entry[u].written
  <2>1. t.seat[u].here
    BY <1>2, InHand
  <2>2. Up(t) /\ Up(x)
    BY <1>2, <1>3 DEF Runs, Up, SameRoom
  <2> QED BY <1>1, <1>2, <2>1, <2>2, RoomFields DEF BetsOK
<1>5. d \in Int /\ d = (wallet[u] - wallet[u]) + (Due(x.entry[u]) - Due(t.entry[u]))
  <2>1. wallet[u] \in Nat
    BY <1>1
  <2> QED BY <1>3, <1>4, <2>1 DEF Due
<1>6. BetsOK(x)
  <2> SUFFICES ASSUME NEW q \in Users
               PROVE  /\ x.entry[q].chips <= x.entry[q].written
                      /\ x.seat[q].active => x.entry[q].in /\ x.entry[q].chips = x.seat[q].chips
    BY DEF BetsOK
  <2>1. CASE q = u
    <3>1. x.entry[u].chips <= x.entry[u].written /\ x.entry[u].chips = x.seat[u].chips
      BY <1>3, <1>4
    <3>2. x.entry[u].in
      BY <1>3, <1>4
    <3> QED BY <2>1, <3>1, <3>2
  <2>2. CASE q # u
    <3>1. x.seat[q] = t.seat[q] /\ x.entry[q] = t.entry[q]
      BY <1>3, <2>2
    <3> QED BY <1>1, <3>1 DEF BetsOK
  <2> QED BY <2>1, <2>2
<1>7. \A q \in Users \ {u} : Apart(t, x, q) /\ Due(x.entry[q]) = Due(t.entry[q])
  BY <1>3, <1>4 DEF Apart, SameRoom
<1>8. \A n \in Numbers, q \in Users : ~(Pays(chain[<<r, n>>], q) > 0)
  BY <1>2, RunsUnpaid
<1>9. AccountOK(table, u, op[u], wallet[u], v, l) /\ v \in Int /\ l \in Int /\ l >= 0
  BY AccountIs DEF AccountOK
<1>10. Only(table, r, op[u], u)
  BY <1>4, SeatIsOnly
<1>11. l + d \in Int /\ l + d >= 0
  <2>1. l = v
    BY <1>2, <1>4, SeatIsPaid
  <2>2. t.seat[u].chips + Bought(op[u]) <= v /\ Bought(op[u]) \in Nat
    BY <1>4, <1>9 DEF AccountOK, Bought
  <2> HIDE DEF v, l, t
  <2> QED BY <1>2, <1>4, <1>9, <2>1, <2>2
<1>12. \A q \in Tables \ {r} : table'[q] = table[q]
  BY <1>3 DEF Room
<1>13. AccountOK(table', u, op[u], wallet[u], v + d, l + d)
  <2> DEFINE k == l + d
  <2>1. x.by # u /\ x.unseated = t.unseated /\ x.seat[u].chips = t.seat[u].chips + d
    BY <1>3, <1>4, <1>10 DEF Only, SameRoom
  <2>2. k \in Int /\ k >= 0 /\ t.seat[u].chips \in Int
    BY <1>4, <1>11
  <2> HIDE DEF v, l, k, d
  <2>3. AccountOK(table', u, op[u], wallet[u], v + d, k)
    BY <1>4, <1>5, <1>9, <1>10, <1>12, <2>1, <2>2, SeatAccount
  <2> QED BY <2>3 DEF k
<1>14. x.pot = t.pot - d
  BY <1>3, <1>4
<1>15. op[u].to # None => CanSwitch
  BY AccountIs
<1> HIDE DEF v, l, d
<1>16. Money(wallet, table', chain, op, packs, spent)
  <2>1. table' \in [Tables -> RoomRecords] /\ (x.state # "open" => CanDestroy)
    BY <1>1, <1>3 DEF Room, SameRoom
  <2> QED BY <1>1, <1>5, <1>6, <1>7, <1>8, <1>12, <1>13, <1>14, <1>15, <2>1, OneMoney DEF v, l
<1> QED BY <1>2, <1>16 DEF MoneyOK

\* What sitting down makes of the room.
LEMMA SitsMakes ==
  ASSUME Types, NEW u \in Users, NEW r \in Tables,
         table' = [table EXCEPT ![r].seat[u] = [NoSeat EXCEPT !.here = TRUE, !.chips = op[u].chips]]
  PROVE  LET t == table[r]
             x == table'[r]
         IN  /\ Room(r, x) /\ SameRoom(t, x) /\ x.by = t.by /\ x.pot = t.pot /\ x.entry = t.entry
             /\ ~x.seat[u].active /\ x.seat[u].chips = op[u].chips
             /\ \A v \in Users \ {u} : x.seat[v] = t.seat[v]
<1> DEFINE t == table[r]
           x == table'[r]
           a == [NoSeat EXCEPT !.here = TRUE, !.chips = op[u].chips]
           s == [t.seat EXCEPT ![u] = a]
           y == [t EXCEPT !.seat = s]
<1>1. t \in RoomRecords /\ op[u].chips \in Nat
  BY DEF Types, Ops
<1>2. a \in SeatRecords /\ ~a.active /\ a.chips = op[u].chips
  BY <1>1 DEF NoSeat, SeatRecords
<1>3. table' = [table EXCEPT ![r] = y]
  OBVIOUS
<1> HIDE DEF a
<1>4. s \in [Users -> SeatRecords] /\ s[u] = a /\ \A v \in Users \ {u} : s[v] = t.seat[v]
  BY <1>1, <1>2, RoomFields
<1> HIDE DEF s
<1>5. y \in RoomRecords
  BY <1>1, <1>4 DEF RoomRecords
<1>6. /\ y.state = t.state /\ y.unseated = t.unseated /\ y.by = t.by /\ y.pot = t.pot
      /\ y.seat = s /\ y.entry = t.entry
  BY <1>1 DEF RoomRecords
<1> HIDE DEF y
<1>7. Room(r, x) /\ x = y
  BY <1>3, <1>5, RoomIs DEF Room
<1> QED BY <1>2, <1>4, <1>6, <1>7 DEF SameRoom

\* Whoever sits down brings what their account comes to.
LEMMA SitsMoney ==
  ASSUME IInv, MoneyOK, NEW u \in Users, Sits(u)
  PROVE  MoneyOK'
<1> DEFINE o == op[u]
           r == o.at
           t == table[r]
           x == table'[r]
           v == Value(wallet, table, chain, u)
           l == Low(wallet, table, chain, u)
<1>1. /\ AccountOK(table, u, o, wallet[u], v, l)
      /\ v \in Int /\ l \in Int /\ wallet[u] \in Nat /\ o \in Ops
      /\ Placed(table, u, o, index[u]) /\ (o.to # None => CanSwitch) /\ l >= 0 /\ Types
  BY AccountIs DEF AccountOK, IInv
<1>2. o.kind = "reserved" /\ UNCHANGED <<wallet, packs, spent, chain>>
  BY DEF Sits, money
<1>3. /\ r \in Tables /\ o.chips = v /\ \A q \in Tables : table[q].by # u
      /\ \A q \in Tables : Up(table[q]) => ~table[q].seat[u].here
  <2>1. \A q \in Tables : table[q].by # u
    BY <1>2, NotWaiting
  <2> QED BY <1>1, <1>2, <2>1 DEF Placed, Indexed, SeatOf, Resting, AccountOK
<1>4. CASE /\ Runs(r) /\ op' = [op EXCEPT ![u] = Idle]
           /\ table' = [table EXCEPT ![r].seat[u] = [NoSeat EXCEPT !.here = TRUE, !.chips = op[u].chips]]
  <2>1. /\ Room(r, x) /\ SameRoom(t, x) /\ x.by = t.by /\ x.pot = t.pot /\ x.entry = t.entry
        /\ ~x.seat[u].active /\ x.seat[u].chips = op[u].chips
        /\ \A q \in Users \ {u} : x.seat[q] = t.seat[q]
    <3> HIDE DEF r
    <3> QED BY <1>1, <1>3, <1>4, SitsMakes
  <2>2. /\ table \in [Tables -> RoomRecords] /\ t \in RoomRecords /\ wallet \in [Users -> Nat]
        /\ BetsOK(t) /\ (t.state # "open" => CanDestroy) /\ t.pot \in Nat
    <3> HIDE DEF r
    <3>1. /\ table \in [Tables -> RoomRecords] /\ t \in RoomRecords /\ wallet \in [Users -> Nat]
          /\ BetsOK(t) /\ (t.state # "open" => CanDestroy)
      BY <1>3, RoomIsOK
    <3> QED BY <3>1, RoomFields
  <2>3. BetsOK(x)
    <3> SUFFICES ASSUME NEW q \in Users
                 PROVE  /\ x.entry[q].chips <= x.entry[q].written
                        /\ x.seat[q].active => x.entry[q].in /\ x.entry[q].chips = x.seat[q].chips
      BY Zenon DEF BetsOK
    <3>1. x.entry[q].chips <= x.entry[q].written
      BY <2>1, <2>2, Zenon DEF BetsOK
    <3>2. ASSUME x.seat[q].active
          PROVE  x.entry[q].in /\ x.entry[q].chips = x.seat[q].chips
      <4>1. x.seat[q] = t.seat[q]
        BY <2>1, <3>2
      <4> QED BY <2>1, <2>2, <3>2, <4>1, Zenon DEF BetsOK
    <3> QED BY <3>1, <3>2
  <2>4. Up(t) /\ Up(x)
    BY <1>4, <2>1 DEF Runs, Up, SameRoom
  <2>5. \A q \in Users \ {u} : Apart(t, x, q) /\ Due(x.entry[q]) = Due(t.entry[q])
    BY <2>1, <2>4 DEF Apart, SameRoom
  <2>6. \A n \in Numbers, q \in Users : ~(Pays(chain[<<r, n>>], q) > 0)
    <3> HIDE DEF r
    <3> QED BY <1>3, <1>4, RunsUnpaid
  <2>7. /\ \A q \in Tables \ {r} : table'[q] = table[q]
        /\ table' \in [Tables -> RoomRecords]
    BY <2>1 DEF Room
  <2>8. AccountOK(table', u, Idle, wallet[u], v, l)
    <3>1. Bought(Idle) = 0 /\ Idle.kind = "idle"
      BY Nothing DEF Bought
    <3>2. ASSUME NEW q \in Tables, Up(table'[q]), table'[q].seat[u].here
          PROVE  table'[q].seat[u].chips = v
      <4>1. q = r
        BY <1>3, <2>7, <3>2
      <4> QED BY <1>3, <2>1, <4>1
    <3>3. \A q \in Tables : table'[q].by # u
      BY <1>3, <2>1, <2>7
    <3> HIDE DEF r, v, l, x
    <3> QED BY <1>1, <3>1, <3>2, <3>3 DEF AccountOK
  <2>9. /\ \A q \in Users \ {u} : op'[q] = op[q]
        /\ op'[u] = Idle
    BY <1>1, <1>4 DEF Types
  <2>10. v + 0 = v /\ l + 0 = l /\ Due(x.entry[u]) - Due(t.entry[u]) = 0
    <3>1. Due(x.entry[u]) = Due(t.entry[u])
      BY <2>1
    <3>2. Due(t.entry[u]) \in Int
      <4> HIDE DEF r, t
      <4> QED BY <2>2, RoomFields, Zenon
    <3> QED BY <1>1, <3>1, <3>2
  <2> DEFINE d == 0
  <2>11. /\ d \in Int /\ d = (wallet[u] - wallet[u]) + (Due(x.entry[u]) - Due(t.entry[u]))
         /\ AccountOK(table', u, op'[u], wallet[u], v + d, l + d)
         /\ x.pot = t.pot - d /\ (op'[u].to # None => CanSwitch)
    BY <1>1, <2>1, <2>2, <2>8, <2>9, <2>10, Nothing
  <2> HIDE DEF d, v, l, r, o
  <2>12. Money(wallet, table', chain, op', packs, spent)
    <3>1. x.state # "open" => CanDestroy
      BY <2>1, <2>2 DEF SameRoom
    <3> QED BY <1>3, <2>2, <2>3, <2>5, <2>6, <2>7, <2>9, <2>11, <3>1, OneMoney DEF v, l
  <2> QED BY <1>2, <2>12 DEF MoneyOK
<1>5. CASE /\ t.state \in {"gone", "shut"}
           /\ op' = [op EXCEPT ![u] = Unseated(@)] /\ UNCHANGED table
  <2> DEFINE p == Unseated(o)
  <2>1. Turn(u, p) /\ p \in Ops
    <3>1. p \in Ops
      BY <1>1, UnseatedIs
    <3> QED BY <1>1, <1>5, <3>1, TurnIs
  <2>2. /\ p.kind \notin {"join", "spend"} /\ (p.kind \in {"carry", "reserved"} => p.chips = v)
        /\ p.to = None
    <3>1. CASE o.to = None
      BY <3>1, Nothing DEF Unseated
    <3>2. CASE o.to # None
      <4>1. Unseated(o) = [kind |-> "carry", at |-> o.to, to |-> None, chips |-> o.chips]
        BY <1>1, <3>2 DEF Unseated, Ops
      <4> HIDE DEF o, v
      <4> QED BY <1>3, <4>1
    <3> QED BY <3>1, <3>2
  <2>3. ~Up(t)
    BY <1>5 DEF Up
  <2>4. Nowhere(table, u)
    BY <1>1, <1>2, <1>3, <2>3 DEF Nowhere, Placed, UnseatedOf, Resting
  <2> HIDE DEF p
  <2>5. AccountOK(table, u, p, wallet[u], v, l)
    <3> HIDE DEF v, l
    <3> QED BY <1>1, <1>3, <2>2, <2>4, NoSeatAccount, Zenon
  <2> HIDE DEF o, r
  <2> QED BY <1>2, <1>5, <2>1, <2>2, <2>5, TurnStill
<1> QED BY <1>4, <1>5 DEF Sits

\* What a purchase makes of the room.
LEMMA TopsUpMakes ==
  ASSUME Types, NEW u \in Users, NEW r \in Tables,
         LET e == table[r].entry[u]
         IN  table' = [table EXCEPT
                         ![r].seat[u].chips = @ + 1,
                         ![r].entry[u] =
                            IF e.in THEN [e EXCEPT !.chips = @ + 1, !.written = @ + 1] ELSE e]
  PROVE  LET t == table[r]
             x == table'[r]
         IN  /\ Room(r, x) /\ SameRoom(t, x) /\ x.by = t.by /\ x.pot = t.pot
             /\ x.seat[u].here = t.seat[u].here /\ x.seat[u].active = t.seat[u].active
             /\ x.seat[u].chips = t.seat[u].chips + 1
             /\ x.entry[u].in = t.entry[u].in /\ Due(x.entry[u]) = Due(t.entry[u])
             /\ t.entry[u].in => x.entry[u].chips = t.entry[u].chips + 1
             /\ \A v \in Users \ {u} : x.seat[v] = t.seat[v] /\ x.entry[v] = t.entry[v]
<1> DEFINE t == table[r]
           x == table'[r]
           e == t.entry[u]
           a == [t.seat[u] EXCEPT !.chips = @ + 1]
           b == IF e.in THEN [e EXCEPT !.chips = @ + 1, !.written = @ + 1] ELSE e
           s == [t.seat EXCEPT ![u] = a]
           f == [t.entry EXCEPT ![u] = b]
           y == [t EXCEPT !.seat = s, !.entry = f]
<1>1. t \in RoomRecords /\ t.seat \in [Users -> SeatRecords] /\ t.entry \in [Users -> EntryRecords]
  BY RoomFields DEF Types
<1>2. /\ a \in SeatRecords /\ a.here = t.seat[u].here /\ a.active = t.seat[u].active
      /\ a.chips = t.seat[u].chips + 1
  <2>1. t.seat[u] \in SeatRecords /\ t.seat[u].chips + 1 \in Nat
    BY <1>1, RoomFields
  <2> QED BY <2>1 DEF SeatRecords
<1>3. /\ b \in EntryRecords /\ b.in = e.in /\ Due(b) = Due(e)
      /\ e.in => b.chips = e.chips + 1
  <2>1. /\ e \in EntryRecords /\ e.chips \in Nat /\ e.written \in Nat
    BY <1>1, RoomFields
  <2> HIDE DEF e
  <2>2. CASE e.in
    <3>1. b = [e EXCEPT !.chips = @ + 1, !.written = @ + 1]
      BY <2>2
    <3> HIDE DEF b
    <3>2. e.chips + 1 \in Nat /\ e.written + 1 \in Nat
      BY <2>1
    <3>3. b \in EntryRecords /\ b.chips = e.chips + 1 /\ b.written = e.written + 1
      BY <2>1, <3>1, <3>2 DEF EntryRecords
    <3>4. b.in = e.in
      BY <2>1, <3>1 DEF EntryRecords
    <3> QED BY <2>1, <2>2, <3>3, <3>4 DEF Due
  <2>3. CASE ~e.in
    BY <2>1, <2>3
  <2> QED BY <2>2, <2>3
<1>4. table' = [table EXCEPT ![r].seat[u].chips = @ + 1, ![r].entry[u] = b]
  OBVIOUS
<1> HIDE DEF b
<1>5. table' = [table EXCEPT ![r] = y]
  BY <1>1, <1>4 DEF Types, RoomRecords
<1> HIDE DEF a
<1>6. /\ s \in [Users -> SeatRecords] /\ s[u] = a /\ \A v \in Users \ {u} : s[v] = t.seat[v]
      /\ f \in [Users -> EntryRecords] /\ f[u] = b /\ \A v \in Users \ {u} : f[v] = t.entry[v]
  BY <1>1, <1>2, <1>3, RoomFields
<1> HIDE DEF s, f
<1>7. y \in RoomRecords
  BY <1>1, <1>6 DEF RoomRecords
<1>8. /\ y.state = t.state /\ y.unseated = t.unseated /\ y.by = t.by /\ y.pot = t.pot
      /\ y.seat = s /\ y.entry = f
  BY <1>1 DEF RoomRecords
<1> HIDE DEF y
<1>9. Room(r, x) /\ x = y
  BY <1>5, <1>7, RoomIs, Zenon DEF Room
<1> QED BY <1>2, <1>3, <1>6, <1>8, <1>9, Zenon DEF SameRoom

\* A purchase brings to the seat what the wallet has had.
LEMMA TopsUpMoney ==
  ASSUME IInv, MoneyOK, NEW u \in Users, BuyTopsUp(u)
  PROVE  MoneyOK'
<1> DEFINE o == op[u]
           r == o.at
           t == table[r]
           x == table'[r]
           v == Value(wallet, table, chain, u)
           l == Low(wallet, table, chain, u)
<1>1. /\ AccountOK(table, u, o, wallet[u], v, l)
      /\ v \in Int /\ l \in Int /\ wallet[u] \in Nat /\ o \in Ops
      /\ Placed(table, u, o, index[u]) /\ (o.to # None => CanSwitch) /\ l >= 0 /\ Types
  BY AccountIs DEF AccountOK, IInv
<1>2. /\ o.kind = "credit" /\ UNCHANGED <<wallet, packs, spent, chain>>
      /\ op' = [op EXCEPT ![u] = Idle]
  BY DEF BuyTopsUp, money
<1>3. r \in Tables /\ (\A q \in Tables : table[q].by # u) /\ Bought(o) = 1
  <2>1. \A q \in Tables : table[q].by # u
    BY <1>2, NotWaiting
  <2> QED BY <1>1, <1>2, <2>1 DEF Placed, Indexed, Bought
<1>4. Bought(Idle) = 0 /\ Idle.kind = "idle" /\ Idle.to = None
  BY Nothing DEF Bought
<1>5. ASSUME Runs(r), t.seat[u].here,
             LET e == t.entry[u]
             IN  table' = [table EXCEPT
                     ![r].seat[u].chips = @ + 1,
                     ![r].entry[u] =
                        IF e.in THEN [e EXCEPT !.chips = @ + 1, !.written = @ + 1] ELSE e]
      PROVE  MoneyOK'
  <2>1. /\ Room(r, x) /\ SameRoom(t, x) /\ x.by = t.by /\ x.pot = t.pot
        /\ x.seat[u].here = t.seat[u].here /\ x.seat[u].active = t.seat[u].active
        /\ x.seat[u].chips = t.seat[u].chips + 1
        /\ x.entry[u].in = t.entry[u].in /\ Due(x.entry[u]) = Due(t.entry[u])
        /\ t.entry[u].in => x.entry[u].chips = t.entry[u].chips + 1
        /\ \A q \in Users \ {u} : x.seat[q] = t.seat[q] /\ x.entry[q] = t.entry[q]
    <3> HIDE DEF r
    <3> QED BY <1>1, <1>3, <1>5, TopsUpMakes, Zenon
  <2>2. /\ table \in [Tables -> RoomRecords] /\ t \in RoomRecords /\ wallet \in [Users -> Nat]
        /\ BetsOK(t) /\ (t.state # "open" => CanDestroy) /\ t.pot \in Nat
        /\ t.seat[u].chips \in Nat
    <3> HIDE DEF r
    <3>1. /\ table \in [Tables -> RoomRecords] /\ t \in RoomRecords /\ wallet \in [Users -> Nat]
          /\ BetsOK(t) /\ (t.state # "open" => CanDestroy)
      BY <1>3, RoomIsOK
    <3> QED BY <3>1, RoomFields
  <2>3. x \in RoomRecords
    BY <2>1, Zenon DEF Room
  <2>4. BetsOK(x)
    <3> SUFFICES ASSUME NEW q \in Users
                 PROVE  /\ x.entry[q].chips <= x.entry[q].written
                        /\ x.seat[q].active => x.entry[q].in /\ x.entry[q].chips = x.seat[q].chips
      BY DEF BetsOK
    <3>1. CASE q = u
      <4>1. x.entry[u].chips <= x.entry[u].written
        <5>1. /\ x.entry[u].chips \in Nat /\ x.entry[u].written \in Nat
              /\ t.entry[u].chips \in Nat /\ t.entry[u].written \in Nat
              /\ t.entry[u].chips <= t.entry[u].written
          <6> HIDE DEF t, x
          <6> QED BY <2>2, <2>3, RoomFields DEF BetsOK
        <5> HIDE DEF t, x
        <5> QED BY <2>1, <5>1 DEF Due
      <4>2. t.seat[u].active => t.entry[u].in /\ t.entry[u].chips = t.seat[u].chips
        BY <2>2 DEF BetsOK
      <4>3. ASSUME x.seat[u].active
            PROVE  x.entry[u].in /\ x.entry[u].chips = x.seat[u].chips
        <5>1. t.entry[u].in /\ t.entry[u].chips = t.seat[u].chips
          BY <2>1, <4>2, <4>3, Zenon
        <5>2. x.entry[u].in
          BY <2>1, <5>1, Zenon
        <5> HIDE DEF t, x
        <5> QED BY <2>1, <5>1, <5>2, Zenon
      <4> QED BY <3>1, <4>1, <4>3
    <3>2. CASE q # u
      <4>1. x.seat[q] = t.seat[q] /\ x.entry[q] = t.entry[q]
        BY <2>1, <3>2, Zenon
      <4> QED BY <2>2, <4>1, Zenon DEF BetsOK
    <3> QED BY <3>1, <3>2
  <2>5. Up(t) /\ Up(x)
    BY <1>5, <2>1, Zenon DEF Runs, Up, SameRoom
  <2>6. \A q \in Users \ {u} : Apart(t, x, q) /\ Due(x.entry[q]) = Due(t.entry[q])
    BY <2>1, <2>5, Zenon DEF Apart, SameRoom
  <2>7. \A n \in Numbers, q \in Users : ~(Pays(chain[<<r, n>>], q) > 0)
    <3> HIDE DEF r
    <3> QED BY <1>3, <1>5, RunsUnpaid, Zenon
  <2>8. /\ \A q \in Tables \ {r} : table'[q] = table[q]
        /\ table' \in [Tables -> RoomRecords]
    BY <2>1, Zenon DEF Room
  <2>9. Only(table, r, o, u)
    <3> HIDE DEF r
    <3> QED BY <1>3, <1>5, <2>5, SeatIsOnly
  <2>10. AccountOK(table', u, Idle, wallet[u], v, l)
    <3>1. ASSUME NEW q \in Tables, Up(table'[q]), table'[q].seat[u].here
          PROVE  /\ table'[q].seat[u].chips <= v
                 /\ u \notin table'[q].unseated => table'[q].seat[u].chips = v
                 /\ table'[q].seat[u].chips \in Int
      <4>1. q = r
        BY <2>8, <2>9, <3>1, Zenon DEF Only
      <4>2. /\ t.seat[u].chips + 1 <= v
            /\ u \notin t.unseated => t.seat[u].chips + 1 = v
        BY <1>1, <1>3, <1>5, <2>5, Zenon DEF AccountOK
      <4>3. x.seat[u].chips = t.seat[u].chips + 1 /\ x.unseated = t.unseated
        BY <2>1, Zenon DEF SameRoom
      <4> HIDE DEF t, v
      <4> QED BY <2>2, <4>1, <4>2, <4>3
    <3>2. \A q \in Tables : table'[q].by # u
      BY <1>3, <2>1, <2>8, Zenon
    <3> HIDE DEF r, v, l, x
    <3> QED BY <1>1, <1>4, <3>1, <3>2 DEF AccountOK
  <2>11. /\ \A q \in Users \ {u} : op'[q] = op[q]
         /\ op'[u] = Idle
    BY <1>1, <1>2 DEF Types
  <2>12. v + 0 = v /\ l + 0 = l /\ Due(x.entry[u]) - Due(t.entry[u]) = 0
    <3>1. Due(t.entry[u]) \in Int
      <4> HIDE DEF r, t
      <4> QED BY <2>2, RoomFields
    <3>2. Due(x.entry[u]) = Due(t.entry[u])
      BY <2>1, Zenon
    <3>3. v + 0 = v /\ l + 0 = l
      BY <1>1
    <3> HIDE DEF t, x, v, l
    <3> QED BY <3>1, <3>2, <3>3
  <2> DEFINE d == 0
  <2>13. /\ d \in Int /\ d = (wallet[u] - wallet[u]) + (Due(x.entry[u]) - Due(t.entry[u]))
         /\ AccountOK(table', u, op'[u], wallet[u], v + d, l + d)
         /\ x.pot = t.pot - d /\ (op'[u].to # None => CanSwitch)
    <3>1. x.pot = t.pot
      BY <2>1, Zenon
    <3> HIDE DEF t, x, v, l, r, o
    <3> QED BY <1>1, <1>4, <2>2, <2>10, <2>11, <2>12, <3>1
  <2> HIDE DEF d, v, l, r, o
  <2>14. Money(wallet, table', chain, op', packs, spent)
    <3>1. x.state # "open" => CanDestroy
      BY <2>1, <2>2 DEF SameRoom
    <3> QED BY <1>3, <2>2, <2>4, <2>6, <2>7, <2>8, <2>11, <2>13, <3>1, OneMoney DEF v, l
  <2> QED BY <1>2, <2>14, Zenon DEF MoneyOK
<1>6. CASE t.state \in {"gone", "shut"} /\ UNCHANGED table
  <2>1. Turn(u, Idle)
    BY <1>1, <1>2, Nothing, TurnIs
  <2>2. \A q \in Tables : ~(Up(table[q]) /\ table[q].seat[u].here)
    BY <1>1, <1>2, <1>6 DEF AccountOK, Up
  <2>3. AccountOK(table, u, Idle, wallet[u], v, l)
    BY <1>1, <1>3, <1>4, <2>2 DEF AccountOK
  <2> HIDE DEF o, r
  <2> QED BY <1>2, <1>4, <1>6, <2>1, <2>3, TurnStill
<1> QED BY <1>5, <1>6, Zenon DEF BuyTopsUp

\* A destroy that ends no hand moves no chips.
LEMMA DestroyMoney ==
  ASSUME IInv, MoneyOK, NEW r \in Tables,
         DestroyStarts(r) \/ DestroyReturns(r) \/ (DestroyRuns(r) /\ ~table[r].live)
  PROVE  MoneyOK'
<1> DEFINE t == table[r]
<1>1. /\ table \in [Tables -> RoomRecords] /\ t \in RoomRecords
      /\ BetsOK(t) /\ (t.state # "open" => CanDestroy)
      /\ Types /\ Unseating(table) /\ PaidSit(table, chain)
  BY RoomIsOK DEF IInv, WhereOK, MoneyOK, Money
<1>2. ASSUME NEW x, Room(r, x), Same(t, x), CanDestroy,
             UNCHANGED <<wallet, packs, spent, op, chain>>,
             Up(x) => Up(t) /\ t.unseated = {}
      PROVE  MoneyOK'
  <2>1. BetsOK(x) /\ x.pot = t.pot
    BY <1>1, <1>2 DEF BetsOK, Same
  <2>2. \A n \in Numbers, v \in Users : Pays(chain[<<r, n>>], v) > 0 => x.seat[v].here
    BY <1>1, <1>2 DEF PaidSit, Same
  <2>3. \A v \in Users : Apart(t, x, v) /\ Due(x.entry[v]) = Due(t.entry[v])
    BY <1>2 DEF Apart, Same, SameActor
  <2> QED BY <1>2, <2>1, <2>2, <2>3, StillMoney
<1>3. CASE DestroyStarts(r)
  <2>1. PICK x : Room(r, x) /\ Same(t, x)
    BY <1>1, <1>3, DestroyStartsIs
  <2>2. t.state = "open" /\ CanDestroy
    BY <1>3 DEF DestroyStarts, Registered
  <2>3. Up(t) /\ t.unseated = {}
    BY <1>1, <2>2 DEF Unseating, Up
  <2> QED BY <1>2, <1>3, <2>1, <2>2, <2>3 DEF DestroyStarts, money
<1>4. CASE DestroyReturns(r)
  <2>1. PICK x : Room(r, x) /\ Same(t, x) /\ x.state = "shut"
    BY <1>1, <1>4, DestroyReturnsIs
  <2>2. CanDestroy /\ ~Up(x)
    BY <1>1, <1>4, <2>1 DEF DestroyReturns, Up
  <2> QED BY <1>2, <1>4, <2>1, <2>2 DEF DestroyReturns, money
<1>5. CASE DestroyRuns(r) /\ ~t.live
  <2>1. PICK x : Room(r, x) /\ Same(t, x) /\ x.state = "gone"
    BY <1>1, <1>5, DestroyRunsIs
  <2>2. CanDestroy /\ ~Up(x) /\ UNCHANGED <<wallet, packs, spent, op, chain>>
    BY <1>1, <1>5, <2>1 DEF DestroyRuns, Up, money
  <2> QED BY <1>2, <2>1, <2>2
<1> QED BY <1>3, <1>4, <1>5

-----------------------------------------------------------------------------
(* The end of a hand *)

\* What the end of a hand makes of the room and of the hand's request.
LEMMA EndHandMakes ==
  ASSUME Types, NEW r \in Tables, NEW y \in RoomRecords, NEW w \in Users,
         y.dealt \in Numbers, EndHand(r, y, w)
  PROVE  LET h == <<r, y.dealt>>
             x == table'[r]
             c == chain'[h]
         IN  /\ Room(r, x) /\ Chain(h, c)
             /\ SameRoom(y, x) /\ x.by = y.by /\ x.pot = 0
             /\ \A v \in Users :
                  /\ x.seat[v].here = y.seat[v].here /\ ~x.seat[v].active
                  /\ x.seat[v].chips = y.seat[v].chips + (IF v = w THEN y.pot ELSE 0)
                  /\ x.entry[v] = NoEntry
                  /\ c.delta[v] = Due(y.entry[v]) + (IF v = w THEN y.pot ELSE 0)
             /\ c.stage = "first" /\ c.landed = chain[h].landed /\ c.answer = chain[h].answer
<1> DEFINE h == <<r, y.dealt>>
           x == table'[r]
           c == chain'[h]
<1>1. /\ Room(r, x) /\ Closed(y, x) /\ Chain(h, c) /\ Asks(y, c, w)
  <2>1. PICK z, d : Room(r, z) /\ Closed(y, z) /\ Chain(h, d) /\ Asks(y, d, w)
    BY EndHandIs
  <2>2. z = x /\ d = c
    BY <2>1 DEF Room, Chain
  <2> QED BY <2>1, <2>2
<1>2. h \in Hands /\ chain[h] \in Requests /\ table \in [Tables -> RoomRecords]
      /\ chain \in [Hands -> Requests]
  BY DEF Hands, Numbers, Types
<1>3. x = Ended(y, w) /\ c = Request(chain[h], y, w)
  BY <1>2 DEF EndHand
<1>4. ASSUME NEW v \in Users
      PROVE  /\ x.seat[v].chips = y.seat[v].chips + (IF v = w THEN y.pot ELSE 0)
             /\ c.delta[v] = Due(y.entry[v]) + (IF v = w THEN y.pot ELSE 0)
  <2>1. y.seat[v] \in SeatRecords /\ y.seat[v].chips \in Nat /\ y.pot \in Nat
    BY RoomFields
  <2>2. x.seat = [u \in Users |->
                    [y.seat[u] EXCEPT !.active = FALSE,
                                      !.chips = IF u = w THEN @ + y.pot ELSE @]]
    BY <1>3 DEF Ended, RoomRecords
  <2>3. x.seat[v] = [y.seat[v] EXCEPT !.active = FALSE,
                                      !.chips = IF v = w THEN @ + y.pot ELSE @]
    BY <2>2
  <2>4. x.seat[v].chips = IF v = w THEN y.seat[v].chips + y.pot ELSE y.seat[v].chips
    BY <2>1, <2>3 DEF SeatRecords
  <2>5. c.delta = [u \in Users |-> Due(y.entry[u]) + (IF u = w THEN y.pot ELSE 0)]
    BY <1>2, <1>3 DEF Request, Requests
  <2>6. c.delta[v] = Due(y.entry[v]) + (IF v = w THEN y.pot ELSE 0)
    BY <2>5
  <2> HIDE DEF x, c
  <2> QED BY <2>1, <2>4, <2>6
<1>5. x.pot = 0 /\ x.entry = [v \in Users |-> NoEntry]
  BY <1>1 DEF Closed, Emptied
<1>6. c.landed = chain[h].landed /\ c.answer = chain[h].answer
  BY <1>2, <1>3 DEF Request, Requests
<1>7. /\ SameRoom(y, x) /\ x.by = y.by /\ c.stage = "first"
      /\ \A v \in Users : x.seat[v].here = y.seat[v].here /\ ~x.seat[v].active
  BY <1>1 DEF Closed, Asks, SameHere
<1> HIDE DEF x, c, h
<1> QED BY <1>1, <1>4, <1>5, <1>6, <1>7 DEF x, c, h

\* The pot goes to the winner's account, and to nobody before it is written.
LEMMA EndsMoney ==
  ASSUME Types, NEW r \in Tables, NEW y \in RoomRecords, NEW w \in Users,
         y.dealt \in Numbers, EndHand(r, y, w),
         NEW U \in [Tables -> RoomRecords], U[r] = y, \A q \in Tables \ {r} : U[q] = table[q],
         NEW n \in [Users -> Nat], NEW O, Money(n, U, chain, O, packs, spent),
         Up(y), y.seat[w].here, Only(U, r, O[w], w),
         chain[<<r, y.dealt>>].stage = "none",
         \A v \in Users : chain[<<r, y.dealt>>].delta[v] = 0
  PROVE  Money(n, table', chain', O, packs, spent)
<1> DEFINE h == <<r, y.dealt>>
           x == table'[r]
           c == chain'[h]
<1>1. /\ Room(r, x) /\ Chain(h, c)
      /\ SameRoom(y, x) /\ x.by = y.by /\ x.pot = 0
      /\ \A v \in Users :
           /\ x.seat[v].here = y.seat[v].here /\ ~x.seat[v].active
           /\ x.seat[v].chips = y.seat[v].chips + (IF v = w THEN y.pot ELSE 0)
           /\ x.entry[v] = NoEntry
           /\ c.delta[v] = Due(y.entry[v]) + (IF v = w THEN y.pot ELSE 0)
      /\ c.stage = "first" /\ c.landed = chain[h].landed /\ c.answer = chain[h].answer
  BY EndHandMakes
<1>2. /\ table' \in [Tables -> RoomRecords] /\ chain' \in [Hands -> Requests]
      /\ chain \in [Hands -> Requests] /\ h \in Hands /\ packs \in Nat /\ spent \in Nat
      /\ \A q \in Tables \ {r} : table'[q] = U[q]
      /\ \A g \in Hands \ {h} : chain'[g] = chain[g]
  BY <1>1 DEF Room, Chain, Types, Hands, Numbers
<1>3. BetsOK(y) /\ AnswerOK(chain[h]) /\ PaidSit(U, chain) /\ Leavings(U, O)
      /\ Accounts(n, U, chain, O)
  BY <1>2 DEF Money
<1>4. ~chain[h].landed /\ chain[h].answer = "none"
  BY <1>3 DEF AnswerOK
<1>5. \A v \in Users : /\ Due(y.entry[v]) \in Int /\ Due(y.entry[v]) <= 0
                       /\ y.seat[v].chips \in Nat /\ y.pot \in Nat
  <2> SUFFICES ASSUME NEW v \in Users
               PROVE  /\ Due(y.entry[v]) \in Int /\ Due(y.entry[v]) <= 0
                      /\ y.seat[v].chips \in Nat /\ y.pot \in Nat
    OBVIOUS
  <2>1. /\ y.entry[v].chips \in Nat /\ y.entry[v].written \in Nat
        /\ y.entry[v].chips <= y.entry[v].written /\ y.seat[v].chips \in Nat /\ y.pot \in Nat
    BY <1>3, RoomFields DEF BetsOK
  <2> QED BY <2>1 DEF Due
<1>6. \A v \in Users : Pays(chain[h], v) = 0 /\ Pays(c, v) = c.delta[v]
                       /\ Due(x.entry[v]) = 0
  BY <1>1, <1>4, Nothing DEF Pays
<1> HIDE DEF x, c, h
<1>7. ASSUME NEW v \in Users
      PROVE  /\ Value(n, table', chain', v)
                  = Value(n, U, chain, v) + (IF v = w THEN y.pot ELSE 0)
             /\ Low(n, table', chain', v) >= Low(n, U, chain, v)
             /\ Value(n, U, chain, v) \in Int /\ Low(n, U, chain, v) \in Int
             /\ Low(n, table', chain', v) \in Int
  <2>1. /\ Value(n, table', chain', v) = Value(n, U, chain, v) + (n[v] - n[v])
              + (Due(table'[r].entry[v]) - Due(U[r].entry[v]))
              + (Pays(chain'[h], v) - Pays(chain[h], v))
        /\ Low(n, table', chain', v) = Low(n, U, chain, v) + (n[v] - n[v])
              + (Due(table'[r].entry[v]) - Due(U[r].entry[v]))
              + (Neg(Pays(chain'[h], v)) - Neg(Pays(chain[h], v)))
    <3> DEFINE T == table'
               D == chain'
    <3>1. /\ T \in [Tables -> RoomRecords] /\ \A q \in Tables \ {r} : T[q] = U[q]
          /\ D \in [Hands -> Requests] /\ \A g \in Hands \ {h} : D[g] = chain[g]
          /\ chain \in [Hands -> Requests] /\ h \in Hands
      BY <1>2
    <3> HIDE DEF T, D
    <3>2. /\ Value(n, T, D, v) = Value(n, U, chain, v) + (n[v] - n[v])
                + (Due(T[r].entry[v]) - Due(U[r].entry[v])) + (Pays(D[h], v) - Pays(chain[h], v))
          /\ Low(n, T, D, v) = Low(n, U, chain, v) + (n[v] - n[v])
                + (Due(T[r].entry[v]) - Due(U[r].entry[v]))
                + (Neg(Pays(D[h], v)) - Neg(Pays(chain[h], v)))
      <4>1. DueOf(T, v) = DueOf(U, v) + Due(T[r].entry[v]) - Due(U[r].entry[v])
        BY <3>1, DueMoves
      <4>2. /\ PayOf(D, v) = PayOf(chain, v) + Pays(D[h], v) - Pays(chain[h], v)
            /\ NegOf(D, v) = NegOf(chain, v) + Neg(Pays(D[h], v)) - Neg(Pays(chain[h], v))
        BY <3>1, PayMoves
      <4>3. /\ DueOf(U, v) \in Int /\ Due(T[r].entry[v]) \in Int /\ Due(U[r].entry[v]) \in Int
            /\ PayOf(chain, v) \in Int /\ NegOf(chain, v) \in Int
            /\ Pays(D[h], v) \in Int /\ Pays(chain[h], v) \in Int
            /\ Neg(Pays(D[h], v)) \in Int /\ Neg(Pays(chain[h], v)) \in Int
            /\ n[v] \in Int
        BY <3>1, DueInt, PayInt
      <4> QED BY <4>1, <4>2, <4>3 DEF Value, Low
    <3> QED BY <3>2 DEF T, D
  <2>2. /\ Value(n, U, chain, v) \in Int /\ Low(n, U, chain, v) \in Int
        /\ Low(n, table', chain', v) \in Int
    BY <1>2, ValueInt
  <2> DEFINE g == IF v = w THEN y.pot ELSE 0
             e == Due(y.entry[v])
  <2>3. g \in Nat /\ e \in Int /\ e <= 0 /\ n[v] \in Int
    BY <1>5
  <2>4. /\ Due(table'[r].entry[v]) = 0 /\ Due(U[r].entry[v]) = e
        /\ Pays(chain'[h], v) = e + g /\ Pays(chain[h], v) = 0
    BY <1>1, <1>6 DEF x, c
  <2> HIDE DEF g, e
  <2>5. Neg(e + g) >= e /\ Neg(e + g) \in Int /\ Neg(0) = 0
    BY <2>3 DEF Neg
  <2>6. /\ Value(n, table', chain', v) = Value(n, U, chain, v) + g
        /\ Low(n, table', chain', v) = Low(n, U, chain, v) - e + Neg(e + g)
    <3>1. Value(n, table', chain', v) = Value(n, U, chain, v) + (n[v] - n[v]) + (0 - e) + ((e + g) - 0)
      BY <2>1, <2>4
    <3>2. Low(n, table', chain', v) = Low(n, U, chain, v) + (n[v] - n[v]) + (0 - e)
                                        + (Neg(e + g) - Neg(0))
      BY <2>1, <2>4
    <3> QED BY <2>2, <2>3, <2>5, <3>1, <3>2
  <2>7. /\ Value(n, table', chain', v) = Value(n, U, chain, v) + g
        /\ Low(n, table', chain', v) >= Low(n, U, chain, v)
    BY <2>2, <2>3, <2>5, <2>6
  <2> QED BY <2>2, <2>7 DEF g
<1>8. Accounts(n, table', chain', O)
  <2> SUFFICES ASSUME NEW v \in Users
               PROVE  AccountOK(table', v, O[v], n[v], Value(n, table', chain', v),
                                Low(n, table', chain', v))
    BY DEF Accounts
  <2> DEFINE a == Value(n, U, chain, v)
             l == Low(n, U, chain, v)
             k == Low(n, table', chain', v)
  <2>1. AccountOK(U, v, O[v], n[v], a, l) /\ a \in Int /\ l \in Int /\ l >= 0
        /\ k \in Int /\ k >= l
    BY <1>3, <1>7 DEF Accounts, AccountOK
  <2>2. k >= 0
    BY <2>1
  <2>3. CASE v = w
    <3>1. Value(n, table', chain', v) = a + y.pot
      BY <1>7, <2>3
    <3>2. /\ y.pot \in Int /\ y.seat[v].chips \in Int
          /\ x.seat[v].chips = y.seat[v].chips + y.pot /\ x.unseated = y.unseated
          /\ x.by # v
      BY <1>1, <1>5, <2>3 DEF SameRoom, Only
    <3> HIDE DEF a, l, k
    <3>3. AccountOK(table', v, O[v], n[v], a + y.pot, k)
      BY <1>2, <2>1, <2>2, <2>3, <3>2, SeatAccount DEF x
    <3> QED BY <3>1, <3>3 DEF k
  <2>4. CASE v # w
    <3>1. Value(n, table', chain', v) = a + 0
      BY <1>7, <2>4
    <3>2. Apart(y, x, v)
      <4>1. x.seat[v].chips = y.seat[v].chips /\ x.seat[v].here = y.seat[v].here
        BY <1>1, <1>5, <2>4
      <4> QED BY <1>1, <4>1 DEF Apart, SameRoom, Up
    <3>3. O[v].kind \in {"join", "spend"} => n[v] = a
      BY <2>1 DEF AccountOK
    <3> HIDE DEF a, l, k
    <3>4. AccountOK(table', v, O[v], n[v], a, k)
      BY <1>2, <2>1, <2>2, <3>2, <3>3, ApartAccount DEF x
    <3>5. a + 0 = a
      BY <2>1
    <3> QED BY <3>1, <3>4, <3>5 DEF k
  <2> QED BY <2>3, <2>4
<1>9. \A q \in Tables : BetsOK(table'[q])
  <2>1. BetsOK(x)
    BY <1>1 DEF BetsOK, NoEntry
  <2>2. \A q \in Tables : BetsOK(U[q])
    BY DEF Money
  <2> QED BY <1>2, <2>1, <2>2 DEF x
<1>10. \A g \in Hands : AnswerOK(chain'[g])
  <2>1. AnswerOK(c)
    BY <1>1, <1>4 DEF AnswerOK
  <2>2. \A g \in Hands : AnswerOK(chain[g])
    BY DEF Money
  <2> QED BY <1>2, <2>1, <2>2 DEF c
<1>11. PaidSit(table', chain')
  <2> SUFFICES ASSUME NEW q \in Tables, NEW m \in Numbers, NEW v \in Users,
                      Pays(chain'[<<q, m>>], v) > 0
               PROVE  table'[q].seat[v].here
    BY DEF PaidSit
  <2>0. <<q, m>> \in Hands
    BY DEF Hands, Numbers
  <2>1. CASE <<q, m>> = h
    <3>1. q = r /\ Pays(c, v) > 0
      BY <2>1 DEF h, c
    <3>2. v = w
      BY <1>1, <1>5, <1>6, <3>1
    <3> QED BY <1>1, <3>1, <3>2 DEF x
  <2>2. CASE <<q, m>> # h
    <3>1. chain'[<<q, m>>] = chain[<<q, m>>]
      BY <1>2, <2>0, <2>2
    <3>2. U[q].seat[v].here
      BY <1>3, <3>1 DEF PaidSit
    <3> QED BY <1>1, <1>2, <3>2 DEF x
  <2> QED BY <2>1, <2>2
<1>12. Leavings(table', O)
  <2>1. table'[r].state = U[r].state
    BY <1>1 DEF SameRoom, x
  <2> QED BY <1>2, <1>3, <2>1 DEF Leavings
<1>13. Books(n, table', chain', packs, spent)
  <2>1. Books(n, U, chain, packs, spent)
    BY DEF Money
  <2>2. y.pot \in Nat /\ table'[r].pot = 0
    BY <1>1, <1>5 DEF x
  <2>3. Chips(n, table', chain') = Chips(n, U, chain) + y.pot
    <3>1. Value(n, table', chain', w) = Value(n, U, chain, w) + y.pot
      BY <1>7
    <3>2. \A v \in Users \ {w} : Value(n, table', chain', v) = Value(n, U, chain, v)
      BY <1>7
    <3> QED BY <1>2, <2>2, <3>1, <3>2, ChipsGain
  <2>4. Pots(table') = Pots(U) + 0 - y.pot
    BY <1>2, <2>2, PotsMove
  <2>5. /\ Chips(n, U, chain) \in Int /\ Chips(n, table', chain') \in Int
        /\ Pots(U) \in Int /\ Pots(table') \in Int
    BY <1>2, BooksInt
  <2> QED BY <1>2, <2>1, <2>2, <2>3, <2>4, <2>5 DEF Books
<1> QED BY <1>8, <1>9, <1>10, <1>11, <1>12, <1>13 DEF Money

\* A live hand has no request.
LEMMA NotAsked ==
  ASSUME IInv, NEW r \in Tables, table[r].live
  PROVE  /\ table[r].dealt \in Numbers
         /\ chain[<<r, table[r].dealt>>].stage = "none"
         /\ \A v \in Users : chain[<<r, table[r].dealt>>].delta[v] = 0
<1>1. table[r].dealt \in Numbers
  BY InHand
<1>2. Requested(table[r], r, chain)
  BY DEF IInv, HandsOK, HandOK
<1>3. chain[<<r, table[r].dealt>>].stage = "none"
  BY <1>1, <1>2 DEF Requested
<1> QED BY <1>1, <1>2, <1>3 DEF Requested, Retrying

\* The rest of a closure that may have ended the hand.
LEMMA ResolveMoney ==
  ASSUME IInv, NEW r \in Tables, Runs(r), NEW y \in RoomRecords, Resolve(r, y),
         NEW U \in [Tables -> RoomRecords], U = [table EXCEPT ![r] = y],
         Money(wallet', U, chain, op', packs, spent), UNCHANGED <<packs, spent>>,
         wallet' \in [Users -> Nat], y.state = table[r].state, y.dealt = table[r].dealt,
         \A v \in Users : y.seat[v].active =>
            /\ y.seat[v].here /\ table[r].seat[v].active /\ op'[v] = op[v] /\ y.by # v
  PROVE  MoneyOK'
<1>1. Types /\ table \in [Tables -> RoomRecords]
  BY DEF IInv, Types
<1>2. U[r] = y /\ \A q \in Tables \ {r} : U[q] = table[q]
  BY <1>1
<1>3. CASE Cardinality(Active(y)) = 1
  <2>1. PICK w \in Active(y) : EndHand(r, y, w)
    BY <1>3 DEF Resolve
  <2>2. /\ w \in Users /\ y.seat[w].here /\ table[r].seat[w].active /\ op'[w] = op[w] /\ y.by # w
    BY <2>1 DEF Active
  <2>3. table[r].live /\ table[r].seat[w].here
    BY <2>2, InHand
  <2>4. /\ y.dealt \in Numbers
        /\ chain[<<r, y.dealt>>].stage = "none"
        /\ \A v \in Users : chain[<<r, y.dealt>>].delta[v] = 0
    BY <2>3, NotAsked
  <2>5. Up(table[r]) /\ Up(y)
    BY DEF Runs, Up
  <2>6. Only(table, r, op[w], w)
    BY <2>2, <2>3, <2>5, SeatIsOnly
  <2>7. Only(U, r, op'[w], w)
    BY <1>2, <2>2, <2>6 DEF Only
  <2>8. Money(wallet', table', chain', op', packs, spent)
    BY <1>1, <1>2, <2>1, <2>2, <2>4, <2>5, <2>7, EndsMoney
  <2> QED BY <2>8 DEF MoneyOK
<1>4. CASE Cardinality(Active(y)) # 1
  <2>1. table' = U /\ chain' = chain
    BY <1>4 DEF Resolve
  <2> QED BY <2>1 DEF MoneyOK
<1> QED BY <1>3, <1>4

\* A showdown, and a destroy in the middle of a hand.
LEMMA ShowdownMoney ==
  ASSUME IInv, MoneyOK, NEW r \in Tables, Showdown(r) \/ (DestroyRuns(r) /\ table[r].live)
  PROVE  MoneyOK'
<1> DEFINE t == table[r]
<1>1. /\ table \in [Tables -> RoomRecords] /\ t \in RoomRecords /\ wallet \in [Users -> Nat]
      /\ BetsOK(t) /\ (t.state # "open" => CanDestroy) /\ Leavings(table, op) /\ Types
  BY RoomIsOK DEF IInv
<1>2. Runs(r) /\ t.live /\ UNCHANGED <<wallet, packs, spent, op>>
  BY DEF Showdown, DestroyRuns, money
<1>3. ASSUME NEW w \in Active(t), NEW y \in RoomRecords, EndHand(r, y, w),
             Same(t, y), y.unseated = t.unseated, Up(y), y.state # "open" => CanDestroy
      PROVE  MoneyOK'
  <2> DEFINE U == [table EXCEPT ![r] = y]
  <2>1. w \in Users /\ t.seat[w].active /\ t.seat[w].here
    BY <1>3, InHand DEF Active
  <2>2. U \in [Tables -> RoomRecords] /\ U[r] = y /\ \A q \in Tables \ {r} : U[q] = table[q]
    BY <1>1
  <2> HIDE DEF U
  <2>3. Up(t)
    BY <1>2 DEF Runs, Up
  <2>4. Only(table, r, op[w], w)
    BY <2>1, <2>3, SeatIsOnly
  <2>5. Only(U, r, op[w], w)
    BY <1>3, <2>2, <2>4 DEF Only, Same, SameActor
  <2>6. /\ y.dealt \in Numbers
        /\ chain[<<r, y.dealt>>].stage = "none"
        /\ \A v \in Users : chain[<<r, y.dealt>>].delta[v] = 0
    BY <1>2, <1>3, NotAsked DEF Same, SameHand
  <2>7. \A v \in Users : Apart(t, y, v) /\ Due(y.entry[v]) = Due(t.entry[v])
    BY <1>3, <2>3 DEF Apart, Same, SameActor
  <2>8. BetsOK(U[r]) /\ U[r].pot = table[r].pot
    BY <1>1, <1>3, <2>2 DEF BetsOK, Same
  <2>9. \A n \in Numbers, q \in Users : ~(Pays(chain[<<r, n>>], q) > 0)
    BY <1>2, RunsUnpaid
  <2> DEFINE a == Value(wallet, table, chain, w)
             l == Low(wallet, table, chain, w)
             d == 0
  <2>10. AccountOK(table, w, op[w], wallet[w], a, l) /\ a \in Int /\ l \in Int /\ l >= 0
         /\ (op[w].to # None => CanSwitch)
    BY <2>1, AccountIs DEF AccountOK
  <2>11. op[w].kind \in {"join", "spend"} => wallet[w] = a
    BY <2>10 DEF AccountOK
  <2>12. d \in Int /\ a + d = a /\ l + d = l /\ U[r].pot = table[r].pot - d
         /\ d = (wallet[w] - wallet[w]) + (Due(U[r].entry[w]) - Due(table[r].entry[w]))
    <3>1. wallet[w] \in Nat /\ table[r].pot \in Nat /\ Due(table[r].entry[w]) \in Int
      <4> HIDE DEF t
      <4> QED BY <1>1, <2>1, RoomFields DEF t
    <3>2. Due(U[r].entry[w]) = Due(table[r].entry[w])
      BY <2>1, <2>2, <2>7
    <3> HIDE DEF a, l
    <3> QED BY <2>8, <2>10, <3>1, <3>2
  <2> HIDE DEF a, l, d
  <2>13. AccountOK(U, w, op[w], wallet[w], a, l)
    BY <2>1, <2>2, <2>7, <2>10, <2>11, ApartAccount
  <2>14. AccountOK(U, w, op[w], wallet[w], a + d, l + d)
    BY <2>12, <2>13
  <2>15. Money(wallet, U, chain, op, packs, spent)
    BY <1>1, <1>3, <2>1, <2>2, <2>7, <2>8, <2>9, <2>10, <2>12, <2>14, OneMoney DEF a, l
  <2>16. Money(wallet, table', chain', op, packs, spent)
    BY <1>1, <1>3, <2>1, <2>2, <2>5, <2>6, <2>15, EndsMoney DEF Same
  <2> QED BY <1>2, <2>16 DEF MoneyOK
<1>4. CASE Showdown(r)
  <2>1. PICK w \in Active(t) : EndHand(r, t, w)
    BY <1>4 DEF Showdown
  <2>2. Same(t, t) /\ Up(t)
    BY <1>2 DEF Same, SameActor, SameHand, Runs, Up
  <2> QED BY <1>1, <1>3, <2>1, <2>2
<1>5. CASE DestroyRuns(r)
  <2>1. PICK y \in RoomRecords, w \in Active(t) :
           /\ EndHand(r, y, w) /\ Same(t, y) /\ y.state = "ending" /\ y.unseated = t.unseated
    BY <1>1, <1>2, <1>5, DestroyRunsIs
  <2>2. Up(y) /\ CanDestroy
    BY <1>1, <1>5, <2>1 DEF Up, DestroyRuns
  <2> QED BY <1>3, <2>1, <2>2
<1> QED BY <1>4, <1>5

-----------------------------------------------------------------------------
(* A pack and a leave *)

\* A checkpoint moves what is due from a contribution to a wallet that can pay it,
\* or nothing.
LEMMA CheckpointMoves ==
  ASSUME Exact, NEW w \in Nat, NEW e \in EntryRecords, NEW reason,
         NEW out \in Checkpoint(w, e, reason), e.chips <= e.written, w + Due(e) >= 0
  PROVE  /\ out[1] \in Nat /\ out[2] \in EntryRecords
         /\ (out[1] - w) + (Due(out[2]) - Due(e)) = 0
         /\ out[2].chips <= out[2].written
<1>0. e.chips \in Nat /\ e.written \in Nat /\ Due(e) \in Int /\ reason \notin Unheard
  BY DEF EntryRecords, Due, Exact
<1> DEFINE f == [e EXCEPT !.written = e.chips]
<1>1. out \in {<<Clamp(w + Due(e)), f>>} \cup {<<w, e>>}
  BY <1>0 DEF Checkpoint
<1>2. Clamp(w + Due(e)) = w + Due(e) /\ w + Due(e) \in Nat
  BY <1>0 DEF Clamp
<1>3. f \in EntryRecords /\ f.written = e.chips /\ f.chips = e.chips
  BY <1>0 DEF EntryRecords
<1> HIDE DEF f
<1>4. Due(f) = 0
  BY <1>0, <1>3 DEF Due
<1>5. CASE out = <<Clamp(w + Due(e)), f>>
  <2>1. out[1] = w + Due(e) /\ out[2] = f
    BY <1>2, <1>5
  <2> QED BY <1>0, <1>2, <1>3, <1>4, <2>1
<1>6. CASE out = <<w, e>>
  <2>1. out[1] = w /\ out[2] = e
    BY <1>6
  <2> QED BY <1>0, <2>1
<1> QED BY <1>1, <1>5, <1>6

\* What a pack makes of the room and of the wallet.
LEMMA PackMakes ==
  ASSUME Exact, Types, NEW r \in Tables, NEW u \in Users, Pack(r, u), BetsOK(table[r]),
         wallet[u] + Due(table[r].entry[u]) >= 0
  PROVE  LET t == table[r]
         IN  /\ wallet' \in [Users -> Nat] /\ \A v \in Users \ {u} : wallet'[v] = wallet[v]
             /\ \E y \in RoomRecords :
                  /\ Resolve(r, y) /\ SameRoom(t, y) /\ y.by = t.by
                  /\ y.dealt = t.dealt /\ y.pot = t.pot
                  /\ y.seat[u].here = t.seat[u].here /\ ~y.seat[u].active
                  /\ y.seat[u].chips = t.seat[u].chips
                  /\ y.entry[u].chips <= y.entry[u].written
                  /\ (wallet'[u] - wallet[u]) + (Due(y.entry[u]) - Due(t.entry[u])) = 0
                  /\ \A v \in Users \ {u} : y.seat[v] = t.seat[v] /\ y.entry[v] = t.entry[v]
<1> DEFINE t == table[r]
<1>1. t \in RoomRecords /\ wallet[u] \in Nat
  BY DEF Types
<1>2. PICK out \in Checkpoint(wallet[u], t.entry[u], "hand_packed") :
         /\ wallet' = [wallet EXCEPT ![u] = out[1]]
         /\ Resolve(r, [t EXCEPT !.seat[u].active = FALSE, !.entry[u] = out[2]])
  BY DEF Pack
<1>3. /\ out[1] \in Nat /\ out[2] \in EntryRecords
      /\ (out[1] - wallet[u]) + (Due(out[2]) - Due(t.entry[u])) = 0
      /\ out[2].chips <= out[2].written
  <2>1. t.entry[u] \in EntryRecords /\ t.entry[u].chips <= t.entry[u].written
    BY <1>1, RoomFields DEF BetsOK
  <2> QED BY <1>1, <2>1, CheckpointMoves
<1> DEFINE no == FALSE
           a == [t.seat[u] EXCEPT !.active = no]
           s == [t.seat EXCEPT ![u] = a]
           e == [t.entry EXCEPT ![u] = out[2]]
           y == [t EXCEPT !.seat[u].active = no, !.entry[u] = out[2]]
<1>4. no \in BOOLEAN /\ ~no /\ Resolve(r, y)
  BY <1>2
<1> HIDE DEF no
<1>5. /\ a \in SeatRecords /\ a.here = t.seat[u].here /\ ~a.active
      /\ a.chips = t.seat[u].chips
  <2>1. t.seat[u] \in SeatRecords
    BY <1>1, RoomFields
  <2> QED BY <1>4, <2>1 DEF SeatRecords
<1>6. /\ s \in [Users -> SeatRecords] /\ s[u] = a /\ \A v \in Users \ {u} : s[v] = t.seat[v]
      /\ e \in [Users -> EntryRecords] /\ e[u] = out[2]
      /\ \A v \in Users \ {u} : e[v] = t.entry[v]
  <2> HIDE DEF a
  <2> QED BY <1>1, <1>3, <1>5, RoomFields
<1>7. y = [t EXCEPT !.seat = s, !.entry = e]
  BY <1>1 DEF RoomRecords
<1> HIDE DEF s, e, y, a
<1>8. y \in RoomRecords
  BY <1>1, <1>6, <1>7 DEF RoomRecords
<1>9. /\ y.state = t.state /\ y.unseated = t.unseated /\ y.by = t.by
      /\ y.dealt = t.dealt /\ y.pot = t.pot /\ y.seat = s /\ y.entry = e
  BY <1>1, <1>7 DEF RoomRecords
<1>10. /\ wallet' \in [Users -> Nat] /\ wallet'[u] = out[1]
       /\ \A v \in Users \ {u} : wallet'[v] = wallet[v]
  BY <1>2, <1>3 DEF Types
<1>11. /\ y.seat[u].here = t.seat[u].here /\ ~y.seat[u].active
       /\ y.seat[u].chips = t.seat[u].chips
       /\ \A v \in Users \ {u} : y.seat[v] = t.seat[v] /\ y.entry[v] = t.entry[v]
  BY <1>5, <1>6, <1>9
<1>12. /\ y.entry[u].chips <= y.entry[u].written
       /\ (wallet'[u] - wallet[u]) + (Due(y.entry[u]) - Due(t.entry[u])) = 0
  BY <1>3, <1>6, <1>9, <1>10
<1> QED BY <1>4, <1>8, <1>9, <1>10, <1>11, <1>12 DEF SameRoom

\* A pack writes to the wallet what it takes from what is due.
LEMMA PackMoney ==
  ASSUME Exact, IInv, MoneyOK, NEW r \in Tables, NEW u \in Users, Pack(r, u)
  PROVE  MoneyOK'
<1> DEFINE t == table[r]
           a == Value(wallet, table, chain, u)
           l == Low(wallet, table, chain, u)
           d == 0
<1>1. /\ table \in [Tables -> RoomRecords] /\ t \in RoomRecords /\ wallet \in [Users -> Nat]
      /\ chain \in [Hands -> Requests]
      /\ BetsOK(t) /\ (t.state # "open" => CanDestroy) /\ Leavings(table, op) /\ Types
  BY RoomIsOK DEF IInv
<1>2. Runs(r) /\ t.seat[u].active /\ UNCHANGED <<packs, spent, op>>
  BY DEF Pack
<1>3. t.seat[u].here /\ Up(t) /\ t.by = None /\ None \notin Users
  BY <1>2, InHand, RunsQuiet, WalletAssumption DEF Runs, Up
<1>4. AccountOK(table, u, op[u], wallet[u], a, l) /\ a \in Int /\ l \in Int /\ l >= 0
      /\ (op[u].to # None => CanSwitch)
  BY AccountIs DEF AccountOK
<1>5. l <= wallet[u] + Due(t.entry[u])
  <2>1. \A q \in Tables : BetsOK(table[q])
    BY DEF MoneyOK, Money
  <2> QED BY <1>1, <2>1, LowIsLeast
<1>6. wallet[u] + Due(t.entry[u]) >= 0
  <2>1. wallet[u] \in Nat /\ Due(t.entry[u]) \in Int
    BY <1>1, DueInt
  <2> HIDE DEF l, t
  <2> QED BY <1>4, <1>5, <2>1
<1>7. PICK y \in RoomRecords :
        /\ Resolve(r, y) /\ SameRoom(t, y) /\ y.by = t.by
        /\ y.dealt = t.dealt /\ y.pot = t.pot
        /\ y.seat[u].here = t.seat[u].here /\ ~y.seat[u].active
        /\ y.seat[u].chips = t.seat[u].chips
        /\ y.entry[u].chips <= y.entry[u].written
        /\ (wallet'[u] - wallet[u]) + (Due(y.entry[u]) - Due(t.entry[u])) = 0
        /\ \A v \in Users \ {u} : y.seat[v] = t.seat[v] /\ y.entry[v] = t.entry[v]
  BY <1>1, <1>6, PackMakes
<1>8. wallet' \in [Users -> Nat] /\ \A v \in Users \ {u} : wallet'[v] = wallet[v]
  BY <1>1, <1>6, PackMakes
<1> DEFINE U == [table EXCEPT ![r] = y]
<1>9. U \in [Tables -> RoomRecords] /\ U[r] = y /\ \A q \in Tables \ {r} : U[q] = table[q]
  BY <1>1
<1> HIDE DEF U
<1>10. Up(y) /\ \A v \in Users : Apart(t, y, v)
  BY <1>3, <1>7 DEF Apart, SameRoom, Up
<1>11. BetsOK(y)
  <2> SUFFICES ASSUME NEW v \in Users
               PROVE  /\ y.entry[v].chips <= y.entry[v].written
                      /\ y.seat[v].active => y.entry[v].in /\ y.entry[v].chips = y.seat[v].chips
    BY DEF BetsOK
  <2>1. CASE v = u
    BY <1>7, <2>1
  <2>2. CASE v # u
    <3>1. y.seat[v] = t.seat[v] /\ y.entry[v] = t.entry[v]
      BY <1>7, <2>2
    <3> QED BY <1>1, <3>1 DEF BetsOK
  <2> QED BY <2>1, <2>2
<1>12. \A n \in Numbers, q \in Users : ~(Pays(chain[<<r, n>>], q) > 0)
  BY <1>2, RunsUnpaid
<1>13. op[u].kind \notin {"join", "spend"}
  BY <1>3, SeatIsOnly DEF Only
<1>14. /\ d \in Int /\ a + d = a /\ l + d = l /\ U[r].pot = table[r].pot - d
       /\ d = (wallet'[u] - wallet[u]) + (Due(U[r].entry[u]) - Due(table[r].entry[u]))
  <2>1. t.pot \in Nat
    BY <1>1, RoomFields
  <2>2. U[r].pot = t.pot
    BY <1>7, <1>9
  <2>3. (wallet'[u] - wallet[u]) + (Due(U[r].entry[u]) - Due(table[r].entry[u])) = 0
    BY <1>7, <1>9
  <2> HIDE DEF a, l
  <2> QED BY <1>4, <2>1, <2>2, <2>3
<1> HIDE DEF a, l, d
<1>15. AccountOK(U, u, op[u], wallet'[u], a + d, l + d)
  <2>1. AccountOK(U, u, op[u], wallet'[u], a, l)
    BY <1>4, <1>9, <1>10, <1>13, ApartAccount
  <2> QED BY <1>14, <2>1
<1>16. Money(wallet', U, chain, op', packs, spent)
  <2>1. /\ U[r].state # "open" => CanDestroy
        /\ \A v \in Users \ {u} : Apart(table[r], U[r], v) /\ Due(U[r].entry[v]) = Due(table[r].entry[v])
    BY <1>1, <1>7, <1>9, <1>10 DEF SameRoom
  <2>2. Money(wallet', U, chain, op, packs, spent)
    BY <1>4, <1>8, <1>9, <1>11, <1>12, <1>14, <1>15, <2>1, OneMoney DEF a, l
  <2>3. op' = op
    BY <1>2
  <2> QED BY <2>2, <2>3
<1>17. /\ y.state = t.state
       /\ \A v \in Users : y.seat[v].active =>
            y.seat[v].here /\ t.seat[v].active /\ op'[v] = op[v] /\ y.by # v
  <2>1. \A v \in Users : y.seat[v].active => v # u
    BY <1>7
  <2>2. \A v \in Users : t.seat[v].active => t.seat[v].here
    BY InHand
  <2> QED BY <1>2, <1>3, <1>7, <2>1, <2>2 DEF SameRoom
<1>18. U = [table EXCEPT ![r] = y]
  BY DEF U
<1>19. UNCHANGED <<packs, spent>> /\ y.dealt = table[r].dealt /\ y.state = table[r].state
  BY <1>2, <1>7, <1>17
<1>20. /\ Runs(r) /\ Resolve(r, y) /\ wallet' \in [Users -> Nat]
       /\ \A v \in Users : y.seat[v].active =>
            y.seat[v].here /\ table[r].seat[v].active /\ op'[v] = op[v] /\ y.by # v
  BY <1>2, <1>7, <1>8, <1>17, Zenon
<1> HIDE DEF t
<1> QED BY <1>9, <1>16, <1>18, <1>19, <1>20, ResolveMoney

\* What a leave makes of the room, of the wallet and of the operation.
LEMMA LeaveRunsMakes ==
  ASSUME Exact, Types, NEW u \in Users, LeaveRuns(u), NEW r \in Tables, r = op[u].at,
         BetsOK(table[r]), wallet[u] + Due(table[r].entry[u]) >= 0
  PROVE  LET t == table[r]
             gone == [op[u] EXCEPT !.chips = t.seat[u].chips]
         IN  /\ wallet' \in [Users -> Nat] /\ \A v \in Users \ {u} : wallet'[v] = wallet[v]
             /\ \E y \in RoomRecords :
                  /\ Resolve(r, y) /\ SameRoom(t, y)
                  /\ y.dealt = t.dealt /\ y.pot = t.pot
                  /\ ~y.seat[u].here /\ ~y.seat[u].active
                  /\ y.entry[u].chips <= y.entry[u].written
                  /\ (wallet'[u] - wallet[u]) + (Due(y.entry[u]) - Due(t.entry[u])) = 0
                  /\ \A v \in Users \ {u} : y.seat[v] = t.seat[v] /\ y.entry[v] = t.entry[v]
                  /\ \/ y.by = u /\ op' = [op EXCEPT ![u] = gone]
                     \/ y.by = None /\ op' = [op EXCEPT ![u] = Left(gone)]
<1> DEFINE t == table[r]
           n == t.seat[u].chips
           gone == [op[u] EXCEPT !.chips = n]
           left == [t.entry[u] EXCEPT !.left = TRUE, !.chips = n]
           writes == IF t.seat[u].active THEN Checkpoint(wallet[u], left, "hand_left")
                     ELSE {<<wallet[u], t.entry[u]>>}
<1>1. t \in RoomRecords /\ wallet[u] \in Nat
  BY Zenon DEF Types
<1>2. /\ n \in Nat /\ t.entry[u] \in EntryRecords /\ t.entry[u].chips \in Nat
      /\ t.entry[u].written \in Nat /\ t.entry[u].chips <= t.entry[u].written
      /\ Due(t.entry[u]) \in Int
  BY <1>1, RoomFields, Zenon DEF BetsOK
<1>3. PICK out \in writes :
         LET after == Departs(t, u, out[2])
             ends == Cardinality(Active(after)) = 1
         IN  /\ wallet' = [wallet EXCEPT ![u] = out[1]]
             /\ Resolve(r, [after EXCEPT !.by = IF ends THEN u ELSE None])
             /\ op' = [op EXCEPT ![u] = IF ends THEN gone ELSE Left(gone)]
  BY Zenon DEF LeaveRuns
<1>4. /\ out[1] \in Nat /\ out[2] \in EntryRecords
      /\ (out[1] - wallet[u]) + (Due(out[2]) - Due(t.entry[u])) = 0
      /\ out[2].chips <= out[2].written
  <2>1. CASE t.seat[u].active
    <3>1. t.entry[u].chips = n
      BY <2>1, Zenon DEF BetsOK
    <3>2. left \in EntryRecords /\ left.chips = n /\ left.written = t.entry[u].written
      <4> HIDE DEF n
      <4> QED BY <1>2 DEF EntryRecords
    <3>3. out \in Checkpoint(wallet[u], left, "hand_left")
      BY <1>3, <2>1
    <3> HIDE DEF left, n, writes
    <3>4. Due(left) = Due(t.entry[u]) /\ left.chips <= left.written
      BY <1>2, <3>1, <3>2 DEF Due
    <3>5. wallet[u] + Due(left) >= 0
      BY <3>4
    <3>6. /\ out[1] \in Nat /\ out[2] \in EntryRecords
          /\ (out[1] - wallet[u]) + (Due(out[2]) - Due(left)) = 0
          /\ out[2].chips <= out[2].written
      BY <1>1, <3>2, <3>3, <3>4, <3>5, CheckpointMoves
    <3> QED BY <3>4, <3>6, Zenon
  <2>2. CASE ~t.seat[u].active
    <3>1. out = <<wallet[u], t.entry[u]>>
      BY <1>3, <2>2
    <3>2. out[1] = wallet[u] /\ out[2] = t.entry[u]
      BY <3>1
    <3> HIDE DEF t
    <3> QED BY <1>1, <1>2, <3>2
  <2> QED BY <2>1, <2>2
<1> HIDE DEF left, writes
<1> DEFINE e == out[2]
           after == Departs(t, u, e)
           ends == Cardinality(Active(after)) = 1
           by == IF ends THEN u ELSE None
           y == [after EXCEPT !.by = by]
           m == IF Due(e) # 0 THEN t.marked \cup {u} ELSE t.marked
           s == [t.seat EXCEPT ![u] = NoSeat]
           f == [t.entry EXCEPT ![u] = e]
<1>5. Resolve(r, y)
  BY <1>3
<1>6. \/ by = u /\ op' = [op EXCEPT ![u] = gone]
      \/ by = None /\ op' = [op EXCEPT ![u] = Left(gone)]
  <2> HIDE DEF gone
  <2> QED BY <1>3
<1>7. /\ s \in [Users -> SeatRecords] /\ s[u] = NoSeat /\ \A v \in Users \ {u} : s[v] = t.seat[v]
      /\ f \in [Users -> EntryRecords] /\ f[u] = e /\ \A v \in Users \ {u} : f[v] = t.entry[v]
  BY <1>1, <1>4, RoomFields, Nothing
<1>8. m \subseteq Users
  BY <1>1, RoomFields
<1>9. after = [t EXCEPT !.seat = s, !.entry = f, !.marked = m]
  BY <1>1 DEF Departs, RoomRecords
<1>10. by \in Users \cup {None}
  OBVIOUS
<1> HIDE DEF s, f, m, after, by, e
<1>11. /\ after \in RoomRecords /\ y \in RoomRecords
  BY <1>1, <1>7, <1>8, <1>9, <1>10 DEF RoomRecords
<1>12. /\ y.state = t.state /\ y.unseated = t.unseated /\ y.by = by
       /\ y.dealt = t.dealt /\ y.seat = s /\ y.entry = f /\ y.pot = t.pot
  BY <1>1, <1>9, <1>11 DEF RoomRecords
<1> HIDE DEF y, gone, n
<1>13. /\ ~y.seat[u].here /\ ~y.seat[u].active
       /\ \A v \in Users \ {u} : y.seat[v] = t.seat[v] /\ y.entry[v] = t.entry[v]
  BY <1>7, <1>12, Nothing
<1>14. /\ wallet' \in [Users -> Nat] /\ wallet'[u] = out[1]
       /\ \A v \in Users \ {u} : wallet'[v] = wallet[v]
  BY <1>3, <1>4 DEF Types
<1>15. /\ y.entry[u].chips <= y.entry[u].written
       /\ (wallet'[u] - wallet[u]) + (Due(y.entry[u]) - Due(t.entry[u])) = 0
  BY <1>4, <1>7, <1>12, <1>14 DEF e
<1>16. \/ y.by = u /\ op' = [op EXCEPT ![u] = gone]
       \/ y.by = None /\ op' = [op EXCEPT ![u] = Left(gone)]
  BY <1>6, <1>12
<1> QED BY <1>5, <1>11, <1>12, <1>13, <1>14, <1>15, <1>16, Zenon DEF SameRoom, gone, n

\* A leave takes along what the account comes to.
LEMMA LeaveMoney ==
  ASSUME Exact, IInv, MoneyOK, NEW u \in Users, LeaveRuns(u)
  PROVE  MoneyOK'
<1> DEFINE o == op[u]
           r == o.at
           t == table[r]
           a == Value(wallet, table, chain, u)
           l == Low(wallet, table, chain, u)
           d == 0
<1>0. /\ AccountOK(table, u, o, wallet[u], a, l)
      /\ a \in Int /\ l \in Int /\ l >= 0 /\ o \in Ops /\ Placed(table, u, o, index[u])
      /\ (o.to # None => CanSwitch)
  BY AccountIs DEF AccountOK
<1>1. o.kind = "leave" /\ Runs(r) /\ t.seat[u].here /\ UNCHANGED <<packs, spent>>
  BY DEF LeaveRuns
<1>2. r \in Tables
  BY <1>0, <1>1 DEF Placed, Indexed
<1>3. /\ table \in [Tables -> RoomRecords] /\ t \in RoomRecords /\ wallet \in [Users -> Nat]
      /\ chain \in [Hands -> Requests]
      /\ BetsOK(t) /\ (t.state # "open" => CanDestroy) /\ Leavings(table, op) /\ Types
  <2> HIDE DEF r
  <2> QED BY <1>2, RoomIsOK DEF IInv
<1>4. Up(t) /\ None \notin Tables \cup Users
  BY <1>1, WalletAssumption DEF Runs, Up
<1>5. Only(table, r, o, u)
  <2> HIDE DEF r
  <2> QED BY <1>1, <1>2, <1>4, SeatIsOnly
<1>6. t.seat[u].chips = a
  <2>1. u \notin t.unseated
    BY <1>0, <1>1, <1>2, <1>4 DEF Placed, UnseatedOf, Resting
  <2>2. Bought(o) = 0
    BY <1>1 DEF Bought
  <2>3. t.seat[u].chips + Bought(o) = a
    BY <1>0, <1>1, <1>2, <1>4, <2>1 DEF AccountOK
  <2>4. t.seat[u].chips \in Nat
    <3> HIDE DEF t
    <3> QED BY <1>3, RoomFields
  <2> HIDE DEF a, t
  <2> QED BY <2>2, <2>3, <2>4
<1>7. wallet[u] + Due(t.entry[u]) >= 0
  <2>1. \A q \in Tables : BetsOK(table[q])
    BY DEF MoneyOK, Money
  <2>2. l <= wallet[u] + Due(t.entry[u])
    <3> HIDE DEF r
    <3> QED BY <1>2, <1>3, <2>1, LowIsLeast
  <2>3. wallet[u] \in Nat /\ Due(t.entry[u]) \in Int
    <3> HIDE DEF r
    <3> QED BY <1>2, <1>3, DueInt, Zenon
  <2> HIDE DEF l, t
  <2> QED BY <1>0, <2>2, <2>3
<1> DEFINE gone == [o EXCEPT !.chips = t.seat[u].chips]
<1>8. PICK y \in RoomRecords :
        /\ Resolve(r, y) /\ SameRoom(t, y)
        /\ y.dealt = t.dealt /\ y.pot = t.pot
        /\ ~y.seat[u].here /\ ~y.seat[u].active
        /\ y.entry[u].chips <= y.entry[u].written
        /\ (wallet'[u] - wallet[u]) + (Due(y.entry[u]) - Due(t.entry[u])) = 0
        /\ \A v \in Users \ {u} : y.seat[v] = t.seat[v] /\ y.entry[v] = t.entry[v]
        /\ \/ y.by = u /\ op' = [op EXCEPT ![u] = gone]
           \/ y.by = None /\ op' = [op EXCEPT ![u] = Left(gone)]
  BY <1>2, <1>3, <1>7, LeaveRunsMakes
<1>9. wallet' \in [Users -> Nat] /\ \A v \in Users \ {u} : wallet'[v] = wallet[v]
  BY <1>2, <1>3, <1>7, LeaveRunsMakes
<1>10. /\ gone.kind = "leave" /\ gone.chips = a /\ gone.to = o.to /\ gone.at = r
       /\ gone \in Ops
  <2>1. t.seat[u].chips \in Nat
    <3> HIDE DEF t
    <3> QED BY <1>3, RoomFields
  <2> HIDE DEF a, t
  <2> QED BY <1>0, <1>1, <1>6, <2>1 DEF Ops
<1> HIDE DEF gone
<1>11. /\ op'[u].kind \in {"leave", "idle", "carry"}
       /\ op'[u].kind = "carry" => op'[u].chips = a
       /\ y.by = u => op'[u].chips = a
       /\ op'[u].to # None => CanSwitch
       /\ \A v \in Users \ {u} : op'[v] = op[v]
  <2>1. \A v \in Users \ {u} : op'[v] = op[v]
    BY <1>3, <1>8 DEF Types
  <2>2. CASE y.by = u /\ op' = [op EXCEPT ![u] = gone]
    <3>1. op'[u] = gone
      BY <1>3, <2>2 DEF Types
    <3> QED BY <1>0, <1>10, <2>1, <3>1
  <2>3. CASE y.by = None /\ op' = [op EXCEPT ![u] = Left(gone)]
    <3>1. op'[u] = Left(gone) /\ y.by # u
      BY <1>3, <1>4, <2>3 DEF Types
    <3>2. CASE o.to = None
      <4>1. Left(gone) = Idle
        BY <1>10, <3>2 DEF Left
      <4> QED BY <2>1, <3>1, <4>1, Nothing
    <3>3. CASE o.to # None
      <4>1. Left(gone) = [kind |-> "carry", at |-> gone.to, to |-> gone.at, chips |-> gone.chips]
        BY <1>10, <3>3 DEF Left
      <4> QED BY <1>0, <1>10, <2>1, <3>1, <3>3, <4>1
    <3> QED BY <3>2, <3>3
  <2> QED BY <1>8, <2>2, <2>3
<1> DEFINE U == [table EXCEPT ![r] = y]
<1>12. U \in [Tables -> RoomRecords] /\ U[r] = y /\ \A q \in Tables \ {r} : U[q] = table[q]
  BY <1>2, <1>3
<1> HIDE DEF U
<1>13. Up(y) /\ \A v \in Users \ {u} : y.by # v
  BY <1>4, <1>8 DEF SameRoom, Up
<1>14. t.by = None
  <2> HIDE DEF r
  <2> QED BY <1>1, <1>2, RunsQuiet
<1>15. \A v \in Users \ {u} : Apart(t, y, v) /\ Due(y.entry[v]) = Due(t.entry[v])
  BY <1>4, <1>8, <1>13 DEF Apart, SameRoom
<1>16. BetsOK(y)
  <2> SUFFICES ASSUME NEW v \in Users
               PROVE  /\ y.entry[v].chips <= y.entry[v].written
                      /\ y.seat[v].active => y.entry[v].in /\ y.entry[v].chips = y.seat[v].chips
    BY DEF BetsOK
  <2>1. CASE v = u
    BY <1>8, <2>1, Zenon
  <2>2. CASE v # u
    <3>1. y.seat[v] = t.seat[v] /\ y.entry[v] = t.entry[v]
      BY <1>8, <2>2
    <3> QED BY <1>3, <3>1 DEF BetsOK
  <2> QED BY <2>1, <2>2
<1>17. \A n \in Numbers, q \in Users : ~(Pays(chain[<<r, n>>], q) > 0)
  <2> HIDE DEF r
  <2> QED BY <1>1, <1>2, RunsUnpaid
<1>18. /\ d \in Int /\ a + d = a /\ l + d = l /\ U[r].pot = table[r].pot - d
       /\ d = (wallet'[u] - wallet[u]) + (Due(U[r].entry[u]) - Due(table[r].entry[u]))
  <2>1. t.pot \in Nat
    <3> HIDE DEF t
    <3> QED BY <1>3, RoomFields
  <2>2. U[r].pot = t.pot
    BY <1>8, <1>12
  <2>3. (wallet'[u] - wallet[u]) + (Due(U[r].entry[u]) - Due(table[r].entry[u])) = 0
    BY <1>8, <1>12
  <2> HIDE DEF a, l, r
  <2> QED BY <1>0, <2>1, <2>2, <2>3
<1>19. AccountOK(U, u, op'[u], wallet'[u], a, l)
  <2>1. \A q \in Tables : ~(Up(U[q]) /\ U[q].seat[u].here)
    BY <1>5, <1>8, <1>12 DEF Only
  <2>2. \A q \in Tables : U[q].by = u => op'[u].chips = a
    BY <1>5, <1>11, <1>12 DEF Only
  <2> HIDE DEF a, l, r
  <2> QED BY <1>0, <1>11, <2>1, <2>2 DEF AccountOK
<1> HIDE DEF a, l, d, o
<1>20. Money(wallet', U, chain, op', packs, spent)
  <2>1. /\ U[r].state # "open" => CanDestroy
        /\ \A v \in Users \ {u} : Apart(table[r], U[r], v) /\ Due(U[r].entry[v]) = Due(table[r].entry[v])
    BY <1>3, <1>8, <1>12, <1>15 DEF SameRoom
  <2>2. AccountOK(U, u, op'[u], wallet'[u], a + d, l + d)
    BY <1>18, <1>19
  <2> HIDE DEF r
  <2> QED BY <1>2, <1>9, <1>11, <1>12, <1>16, <1>17, <1>18, <2>1, <2>2, OneMoney DEF a, l
<1>21. /\ y.state = t.state
       /\ \A v \in Users : y.seat[v].active =>
            y.seat[v].here /\ t.seat[v].active /\ op'[v] = op[v] /\ y.by # v
  <2>1. \A v \in Users : y.seat[v].active => v # u
    BY <1>8
  <2>2. \A v \in Users : t.seat[v].active => t.seat[v].here
    <3> HIDE DEF r
    <3> QED BY <1>2, InHand
  <2> QED BY <1>8, <1>11, <1>13, <2>1, <2>2 DEF SameRoom
<1>22. U = [table EXCEPT ![r] = y]
  BY DEF U
<1>23. UNCHANGED <<packs, spent>> /\ y.dealt = table[r].dealt /\ y.state = table[r].state
  BY <1>1, <1>8, <1>21
<1>24. /\ Runs(r) /\ Resolve(r, y) /\ wallet' \in [Users -> Nat]
       /\ \A v \in Users : y.seat[v].active =>
            y.seat[v].here /\ table[r].seat[v].active /\ op'[v] = op[v] /\ y.by # v
  BY <1>1, <1>8, <1>9, <1>21
<1> HIDE DEF t, r
<1> QED BY <1>2, <1>12, <1>20, <1>22, <1>23, <1>24, ResolveMoney

-----------------------------------------------------------------------------
(* The database, and its answer *)

\* What a write that cannot be refused makes of the wallets and of its request.
LEMMA DbMakes ==
  ASSUME Exact, Types, NEW h \in Hands, DbSettles(h), AnswerOK(chain[h]),
         \A u \in Users : wallet[u] + Neg(Pays(chain[h], u)) >= 0
  PROVE  LET c == chain[h]
             d == chain'[h]
         IN  /\ Chain(h, d) /\ c.stage = "first" /\ d.stage = "first" /\ d.landed /\ d.answer = "ok"
             /\ wallet' \in [Users -> Nat]
             /\ \A u \in Users : wallet'[u] = wallet[u] + Pays(c, u) /\ Pays(d, u) = 0
<1> DEFINE c == chain[h]
           new == [u \in Users |-> Clamp(wallet[u] + c.delta[u])]
           yes == TRUE
           d == [c EXCEPT !.landed = yes, !.answer = "ok", !.balance = new]
<1>1. /\ c \in Requests /\ wallet \in [Users -> Nat] /\ c.delta \in [Users -> Int]
      /\ yes \in BOOLEAN /\ yes
  BY DEF Types, Requests
<1>2. c.stage = "first" /\ ~c.landed
  BY DEF DbSettles, AnswerOK
<1>3. wallet' = new /\ chain' = [chain EXCEPT ![h].landed = yes, ![h].answer = "ok",
                                              ![h].balance = new]
  BY <1>2 DEF DbSettles, Exact
<1>4. ASSUME NEW u \in Users
      PROVE  new[u] \in Nat /\ new[u] = wallet[u] + Pays(c, u)
  <2>1. wallet[u] \in Nat /\ c.delta[u] \in Int /\ Pays(c, u) = c.delta[u]
    BY <1>1, <1>2 DEF Pays
  <2>2. wallet[u] + Neg(c.delta[u]) >= 0
    BY <2>1
  <2>3. wallet[u] + c.delta[u] >= 0
    BY <2>1, <2>2 DEF Neg
  <2>4. new[u] = Clamp(wallet[u] + c.delta[u])
    OBVIOUS
  <2> HIDE DEF new, c
  <2> QED BY <2>1, <2>3, <2>4 DEF Clamp
<1>5. new \in [Users -> Nat]
  BY <1>4
<1> HIDE DEF new, yes
<1>6. d \in Requests /\ d.landed = yes /\ d.answer = "ok" /\ d.stage = c.stage
  BY <1>1, <1>5 DEF Requests, Answers
<1>7. chain' = [chain EXCEPT ![h] = d]
  BY <1>1, <1>3 DEF Types, Requests
<1> HIDE DEF d
<1>8. Chain(h, d) /\ chain'[h] = d
  BY <1>6, <1>7, ChainIs DEF Chain
<1>9. \A u \in Users : Pays(d, u) = 0
  BY <1>1, <1>6 DEF Pays
<1>10. wallet' \in [Users -> Nat] /\ \A u \in Users : wallet'[u] = wallet[u] + Pays(c, u)
  BY <1>3, <1>4, <1>5
<1> QED BY <1>1, <1>2, <1>6, <1>8, <1>9, <1>10

\* What a write takes or gives was in the accounts before it.
LEMMA DbMoney ==
  ASSUME Exact, IInv, MoneyOK, NEW h \in Hands, DbSettles(h)
  PROVE  MoneyOK'
<1> DEFINE c == chain[h]
           D == chain'
           d == D[h]
           n == wallet'
<1>1. /\ Types /\ wallet \in [Users -> Nat] /\ table \in [Tables -> RoomRecords]
      /\ chain \in [Hands -> Requests] /\ \A r \in Tables : BetsOK(table[r])
      /\ \A g \in Hands : AnswerOK(chain[g])
      /\ PaidSit(table, chain) /\ Leavings(table, op) /\ Books(wallet, table, chain, packs, spent)
  BY DEF IInv, Types, MoneyOK, Money
<1>2. UNCHANGED <<table, op, packs, spent>>
  BY DEF DbSettles
<1>3. PICK r \in Tables : r = h[1]
  BY DEF Hands
<1>4. ASSUME NEW u \in Users
      PROVE  /\ AccountOK(table, u, op[u], wallet[u],
                          Value(wallet, table, chain, u), Low(wallet, table, chain, u))
             /\ Value(wallet, table, chain, u) \in Int /\ Low(wallet, table, chain, u) \in Int
             /\ Low(wallet, table, chain, u) >= 0
             /\ Low(wallet, table, chain, u) <= wallet[u] + Neg(Pays(c, u))
             /\ wallet[u] \in Nat /\ Pays(c, u) \in Int /\ Neg(Pays(c, u)) \in Int
  <2>1. Low(wallet, table, chain, u) <= wallet[u] + Neg(Pays(c, u))
    BY <1>1, LowIsLeast
  <2>2. Pays(c, u) \in Int /\ Neg(Pays(c, u)) \in Int
    BY <1>1, PayInt
  <2> QED BY <2>1, <2>2, AccountIs DEF AccountOK
<1>5. \A u \in Users : wallet[u] + Neg(Pays(c, u)) >= 0
  BY <1>4
<1>6. /\ Chain(h, d) /\ d.stage = "first" /\ d.landed /\ d.answer = "ok"
      /\ n \in [Users -> Nat]
      /\ \A u \in Users : n[u] = wallet[u] + Pays(c, u) /\ Pays(d, u) = 0
  BY <1>1, <1>5, DbMakes
<1>7. D \in [Hands -> Requests] /\ \A g \in Hands \ {h} : D[g] = chain[g]
  BY <1>6 DEF Chain
<1> HIDE DEF D, d, c, n
<1>8. ASSUME NEW u \in Users
      PROVE  /\ Value(n, table, D, u) = Value(wallet, table, chain, u)
             /\ Low(n, table, D, u) \in Int /\ Low(n, table, D, u) >= 0
  <2>1. /\ PayOf(D, u) = PayOf(chain, u) + Pays(d, u) - Pays(c, u)
        /\ NegOf(D, u) = NegOf(chain, u) + Neg(Pays(d, u)) - Neg(Pays(c, u))
    BY <1>1, <1>7, PayMoves DEF d, c
  <2>2. DueOf(table, u) \in Int /\ PayOf(chain, u) \in Int /\ NegOf(chain, u) \in Int
    BY <1>1, DueInt, PayInt
  <2>3. n[u] = wallet[u] + Pays(c, u) /\ Pays(d, u) = 0 /\ Neg(Pays(d, u)) = 0
    BY <1>6 DEF Neg
  <2>4. Neg(Pays(c, u)) <= Pays(c, u)
    BY <1>4 DEF Neg
  <2>5. Low(n, table, D, u) = Low(wallet, table, chain, u) + Pays(c, u) - Neg(Pays(c, u))
    BY <1>4, <2>1, <2>2, <2>3 DEF Low
  <2> QED BY <1>4, <2>1, <2>2, <2>3, <2>4, <2>5 DEF Value
<1>9. ASSUME NEW u \in Users, op[u].kind \in {"join", "spend"}
      PROVE  n[u] = Value(wallet, table, chain, u)
  <2>1. Placed(table, u, op[u], index[u])
    BY AccountIs
  <2>2. Nowhere(table, u)
    BY <1>9, <2>1, AwayNowhere DEF Away
  <2>3. Low(wallet, table, chain, u) = Value(wallet, table, chain, u)
    BY <2>2, NowhereIsPaid
  <2>4. wallet[u] = Value(wallet, table, chain, u)
    BY <1>4, <1>9 DEF AccountOK
  <2>5. Neg(Pays(c, u)) >= 0
    BY <1>4, <2>3, <2>4
  <2>6. Pays(c, u) <= 0
    BY <1>4, <2>2, PaidIsSeated DEF Nowhere, c
  <2>7. Pays(c, u) = 0
    BY <1>4, <2>5, <2>6 DEF Neg
  <2>8. n[u] = wallet[u] + Pays(c, u)
    BY <1>6
  <2> QED BY <1>4, <2>4, <2>7, <2>8
<1>10. Accounts(n, table, D, op)
  <2> SUFFICES ASSUME NEW u \in Users
               PROVE  AccountOK(table, u, op[u], n[u], Value(n, table, D, u), Low(n, table, D, u))
    BY DEF Accounts
  <2>1. Apart(table[r], table[r], u)
    BY DEF Apart
  <2> DEFINE v == Value(wallet, table, chain, u)
             l == Low(wallet, table, chain, u)
             k == Low(n, table, D, u)
  <2>2. AccountOK(table, u, op[u], wallet[u], v, l)
    BY <1>4
  <2>3. Value(n, table, D, u) = v /\ k \in Int /\ k >= 0
    BY <1>8
  <2>4. op[u].kind \in {"join", "spend"} => n[u] = v
    BY <1>9
  <2> HIDE DEF v, l, k
  <2>5. AccountOK(table, u, op[u], n[u], v, k)
    BY <2>1, <2>2, <2>3, <2>4, ApartAccount
  <2> QED BY <2>3, <2>5 DEF k
<1>11. \A g \in Hands : AnswerOK(D[g])
  <2> SUFFICES ASSUME NEW g \in Hands PROVE AnswerOK(D[g])
    OBVIOUS
  <2>1. CASE g = h
    BY <1>6, <2>1 DEF AnswerOK, d
  <2>2. CASE g # h
    BY <1>1, <1>7, <2>2
  <2> QED BY <2>1, <2>2
<1>12. PaidSit(table, D)
  <2> SUFFICES ASSUME NEW q \in Tables, NEW m \in Numbers, NEW u \in Users,
                      Pays(D[<<q, m>>], u) > 0
               PROVE  table[q].seat[u].here
    BY DEF PaidSit
  <2>1. <<q, m>> \in Hands
    BY DEF Hands, Numbers
  <2>2. <<q, m>> # h
    BY <1>6 DEF d
  <2>3. D[<<q, m>>] = chain[<<q, m>>]
    BY <1>7, <2>1, <2>2
  <2> QED BY <1>1, <2>3 DEF PaidSit
<1>13. Books(n, table, D, packs, spent)
  <2>1. Chips(n, table, D) = Chips(wallet, table, chain)
    BY <1>1, <1>6, <1>7, <1>8, ChipsStay
  <2> QED BY <1>1, <2>1 DEF Books
<1>14. Money(n, table, D, op, packs, spent)
  BY <1>1, <1>10, <1>11, <1>12, <1>13 DEF Money
<1> QED BY <1>2, <1>14 DEF MoneyOK, n, D

\* What the answer makes of the room, of the request and of the leave it was part of.
LEMMA FirstReturnsMakes ==
  ASSUME Types, NEW r \in Tables, FirstReturns(r), table[r].dealt \in Numbers,
         AnswerOK(chain[<<r, table[r].dealt>>])
  PROVE  LET t == table[r]
             x == table'[r]
             h == <<r, t.dealt>>
             d == chain'[h]
         IN  /\ Room(r, x) /\ x.by = None /\ x.unseated = t.unseated /\ x.pot = t.pot
             /\ x.state = (IF t.state = "ending" THEN "gone" ELSE t.state)
             /\ x.seat = t.seat /\ x.entry = t.entry
             /\ Chain(h, d) /\ chain[h].landed /\ d.stage = "done" /\ d.answer = "none"
             /\ \A u \in Users : d.delta[u] = 0
<1> DEFINE t == table[r]
           h == <<r, t.dealt>>
           c == chain[h]
           st == IF t.state = "ending" THEN "gone" ELSE t.state
           no == FALSE
           x == [t EXCEPT !.busy = no, !.by = None, !.marked = {}, !.state = st]
           d == Rested(c, "done")
<1>1. t \in RoomRecords /\ h \in Hands /\ c \in Requests
  BY DEF Types, Hands, Numbers
<1>2. no \in BOOLEAN /\ st \in States
  BY <1>1, RoomFields DEF States
<1>3. table' = [table EXCEPT ![r] = x]
  BY <1>1 DEF FirstReturns, Types, RoomRecords
<1>4. c.stage = "first" /\ c.answer = "ok" /\ c.landed
  BY DEF FirstReturns, AnswerOK
<1>5. chain' = [chain EXCEPT ![h] = d]
  BY <1>4 DEF FirstReturns
<1>6. d \in Requests /\ Rests(c, d, "done")
  BY <1>1, RestedIs DEF Stages
<1>7. d.answer = "none"
  BY <1>1 DEF Rested, Requests
<1> HIDE DEF no, h, d, c, st
<1>8. x \in RoomRecords
  BY <1>1, <1>2 DEF RoomRecords
<1>9. /\ x.state = st /\ x.unseated = t.unseated /\ x.by = None
      /\ x.seat = t.seat /\ x.entry = t.entry /\ x.pot = t.pot
  BY <1>1 DEF RoomRecords
<1> HIDE DEF x
<1>10. Room(r, x) /\ table'[r] = x
  BY <1>3, <1>8, RoomIs DEF Room
<1>11. Chain(h, d) /\ chain'[h] = d
  BY <1>1, <1>5, <1>6, ChainIs DEF Chain
<1>12. d.stage = "done" /\ \A u \in Users : d.delta[u] = 0
  BY <1>6 DEF Rests
<1> QED BY <1>4, <1>7, <1>9, <1>10, <1>11, <1>12 DEF h, c, st

\* The answer to a hand's end moves no chips: the write had landed.
LEMMA FirstMoney ==
  ASSUME Exact, IInv, MoneyOK, NEW r \in Tables, FirstReturns(r)
  PROVE  MoneyOK'
<1> DEFINE t == table[r]
           T == table'
           D == chain'
           x == T[r]
           h == <<r, t.dealt>>
           d == D[h]
           b == t.by
<1>1. /\ Types /\ wallet \in [Users -> Nat] /\ table \in [Tables -> RoomRecords]
      /\ chain \in [Hands -> Requests] /\ op \in [Users -> Ops]
      /\ \A q \in Tables : BetsOK(table[q])
      /\ \A g \in Hands : AnswerOK(chain[g])
      /\ PaidSit(table, chain) /\ Leavings(table, op) /\ Books(wallet, table, chain, packs, spent)
      /\ packs \in Nat /\ spent \in Nat /\ None \notin Tables \cup Users
  BY WalletAssumption DEF IInv, Types, MoneyOK, Money
<1>2. t.dealt \in Numbers /\ h \in Hands /\ t \in RoomRecords
  BY <1>1, FirstIsDealt DEF Hands, Numbers
<1>3. /\ Room(r, x) /\ x.by = None /\ x.unseated = t.unseated /\ x.pot = t.pot
      /\ x.state = (IF t.state = "ending" THEN "gone" ELSE t.state)
      /\ x.seat = t.seat /\ x.entry = t.entry
      /\ Chain(h, d) /\ chain[h].landed /\ d.stage = "done" /\ d.answer = "none"
      /\ \A u \in Users : d.delta[u] = 0
  BY <1>1, <1>2, FirstReturnsMakes
<1>4. /\ UNCHANGED <<wallet, packs, spent>>
      /\ op' = IF b = None THEN op ELSE [op EXCEPT ![b] = Left(@)]
  BY DEF FirstReturns, money
<1>5. /\ T \in [Tables -> RoomRecords] /\ \A q \in Tables \ {r} : T[q] = table[q]
      /\ D \in [Hands -> Requests] /\ \A g \in Hands \ {h} : D[g] = chain[g]
  BY <1>3 DEF Room, Chain
<1>6. \A u \in Users : Pays(chain[h], u) = 0 /\ Pays(d, u) = 0
  BY <1>3 DEF Pays
<1>7. \A v \in Users : v # b => op'[v] = op[v]
  BY <1>1, <1>4
<1>8. b # None => /\ b \in Users /\ op[b].kind = "leave" /\ op[b].at = r /\ ~t.seat[b].here
                  /\ op'[b] = Left(op[b])
  <2> SUFFICES ASSUME b # None
               PROVE  /\ b \in Users /\ op[b].kind = "leave" /\ op[b].at = r /\ ~t.seat[b].here
                      /\ op'[b] = Left(op[b])
    OBVIOUS
  <2>1. LeaverOut(t, r, chain, op)
    BY DEF IInv, HandsOK, HandOK
  <2>2. b \in Users
    BY <1>2, RoomFields
  <2>3. op[b].kind = "leave" /\ op[b].at = r /\ ~t.seat[b].here
    BY <2>1 DEF LeaverOut
  <2> HIDE DEF b, t
  <2> QED BY <1>1, <1>4, <2>2, <2>3
<1> HIDE DEF T, D, x, d, h, b
<1>9. ASSUME NEW u \in Users
      PROVE  /\ Value(wallet, T, D, u) = Value(wallet, table, chain, u)
             /\ Low(wallet, T, D, u) = Low(wallet, table, chain, u)
  <2>1. /\ PayOf(D, u) = PayOf(chain, u) + Pays(d, u) - Pays(chain[h], u)
        /\ NegOf(D, u) = NegOf(chain, u) + Neg(Pays(d, u)) - Neg(Pays(chain[h], u))
    BY <1>1, <1>2, <1>5, PayMoves DEF d
  <2>2. DueOf(T, u) = DueOf(table, u) + Due(x.entry[u]) - Due(t.entry[u])
    BY <1>1, <1>5, DueMoves DEF x
  <2>3. DueOf(table, u) \in Int /\ PayOf(chain, u) \in Int /\ NegOf(chain, u) \in Int
        /\ Due(t.entry[u]) \in Int
    BY <1>1, DueInt, PayInt
  <2>4. Pays(d, u) = 0 /\ Pays(chain[h], u) = 0 /\ Neg(Pays(d, u)) = 0
        /\ Neg(Pays(chain[h], u)) = 0
    BY <1>6 DEF Neg
  <2>5. Due(x.entry[u]) = Due(t.entry[u])
    BY <1>3
  <2>6. DueOf(T, u) = DueOf(table, u)
    BY <2>2, <2>3, <2>5
  <2>7. PayOf(D, u) = PayOf(chain, u) /\ NegOf(D, u) = NegOf(chain, u)
    BY <2>1, <2>3, <2>4
  <2> QED BY <2>6, <2>7 DEF Value, Low
<1>10. \A u \in Users : u # b => Apart(t, x, u)
  <2>1. Up(x) => Up(t)
    BY <1>3 DEF Up
  <2> QED BY <1>1, <1>3, <2>1 DEF Apart
<1>11. Accounts(wallet, T, D, op')
  <2> SUFFICES ASSUME NEW u \in Users
               PROVE  AccountOK(T, u, op'[u], wallet[u], Value(wallet, T, D, u),
                                Low(wallet, T, D, u))
    BY DEF Accounts
  <2> DEFINE v == Value(wallet, table, chain, u)
             l == Low(wallet, table, chain, u)
  <2>1. /\ AccountOK(table, u, op[u], wallet[u], v, l) /\ l \in Int
        /\ Placed(table, u, op[u], index[u])
    BY AccountIs
  <2>2. Value(wallet, T, D, u) = v /\ Low(wallet, T, D, u) = l
    BY <1>9
  <2> HIDE DEF v, l
  <2>3. l >= 0 /\ (op[u].kind \in {"join", "spend"} => wallet[u] = v)
    BY <2>1 DEF AccountOK
  <2>4. CASE u # b
    <3>1. Apart(table[r], T[r], u) /\ op'[u] = op[u]
      BY <1>7, <1>10, <2>4 DEF x
    <3>2. AccountOK(T, u, op[u], wallet[u], v, l)
      BY <1>5, <2>1, <2>3, <3>1, ApartAccount
    <3> QED BY <2>2, <3>1, <3>2
  <2>5. CASE u = b
    <3>1. /\ op[u].kind = "leave" /\ op[u].at = r /\ ~t.seat[u].here /\ op'[u] = Left(op[u])
      BY <1>1, <1>8, <2>5
    <3>2. Nowhere(table, u)
      BY <2>1, <3>1, AwayNowhere DEF Away
    <3>3. Nowhere(T, u)
      <4> SUFFICES ASSUME NEW q \in Tables, Up(T[q])
                   PROVE  ~T[q].seat[u].here /\ u \notin T[q].unseated
        BY DEF Nowhere
      <4>1. CASE q # r
        BY <1>5, <3>2, <4>1 DEF Nowhere
      <4>2. CASE q = r
        <5>1. T[q] = x /\ Up(t)
          BY <1>3, <4>2 DEF Up, x
        <5> QED BY <1>3, <3>2, <5>1 DEF Nowhere
      <4> QED BY <4>1, <4>2
    <3>4. \A q \in Tables : T[q].by # u
      <4> SUFFICES ASSUME NEW q \in Tables, T[q].by = u PROVE FALSE
        OBVIOUS
      <4>1. q # r
        BY <1>1, <1>3 DEF x
      <4>2. table[q].by = u /\ u # None
        BY <1>1, <1>5, <4>1
      <4>3. LeaverOut(table[q], q, chain, op)
        BY DEF IInv, HandsOK, HandOK
      <4>4. op[u].at = q
        <5>1. table[q].by # None
          BY <4>2
        <5>2. op[table[q].by].at = q
          BY <4>3, <5>1 DEF LeaverOut
        <5> QED BY <4>2, <5>2
      <4> QED BY <3>1, <4>1, <4>4
    <3>5. op[u].chips = v
      <4>1. table[r].by = u
        BY <2>5 DEF b
      <4> QED BY <2>1, <4>1 DEF AccountOK
    <3>6. /\ Left(op[u]).kind \in {"carry", "reserved"} => Left(op[u]).chips = v
          /\ Left(op[u]).kind \notin {"join", "spend"}
      BY <3>5, Nothing DEF Left
    <3>7. AccountOK(T, u, Left(op[u]), wallet[u], v, l)
      BY <2>3, <3>3, <3>4, <3>6, NoSeatAccount
    <3> QED BY <2>2, <3>1, <3>7
  <2> QED BY <2>4, <2>5
<1>12. \A q \in Tables : BetsOK(T[q])
  <2> SUFFICES ASSUME NEW q \in Tables PROVE BetsOK(T[q])
    OBVIOUS
  <2>1. CASE q = r
    <3>1. BetsOK(t)
      BY <1>1
    <3> QED BY <1>3, <2>1, <3>1 DEF BetsOK, x
  <2>2. CASE q # r
    BY <1>1, <1>5, <2>2
  <2> QED BY <2>1, <2>2
<1>13. \A g \in Hands : AnswerOK(D[g])
  <2> SUFFICES ASSUME NEW g \in Hands PROVE AnswerOK(D[g])
    OBVIOUS
  <2>1. CASE g = h
    BY <1>3, <2>1 DEF AnswerOK, d
  <2>2. CASE g # h
    BY <1>1, <1>5, <2>2
  <2> QED BY <2>1, <2>2
<1>14. PaidSit(T, D)
  <2> SUFFICES ASSUME NEW q \in Tables, NEW m \in Numbers, NEW u \in Users,
                      Pays(D[<<q, m>>], u) > 0
               PROVE  T[q].seat[u].here
    BY DEF PaidSit
  <2>1. <<q, m>> \in Hands
    BY DEF Hands, Numbers
  <2>2. <<q, m>> # h
    BY <1>6 DEF d
  <2>3. D[<<q, m>>] = chain[<<q, m>>]
    BY <1>5, <2>1, <2>2
  <2>4. table[q].seat[u].here
    BY <1>1, <2>3 DEF PaidSit
  <2>5. T[q].seat = table[q].seat
    BY <1>3, <1>5 DEF x
  <2> QED BY <2>4, <2>5
<1>15. Leavings(T, op')
  <2>1. ASSUME NEW u \in Users, op'[u].to # None PROVE CanSwitch
    <3>1. CASE u # b
      BY <1>1, <1>7, <2>1, <3>1 DEF Leavings
    <3>2. CASE u = b
      <4>1. op'[u] = Left(op[u])
        BY <1>1, <1>8, <3>2
      <4>2. op[u].to # None
        BY <2>1, <4>1, Nothing DEF Left
      <4> QED BY <1>1, <4>2 DEF Leavings
    <3> QED BY <3>1, <3>2
  <2>2. ASSUME NEW q \in Tables, T[q].state # "open" PROVE CanDestroy
    <3>1. table[q].state # "open"
      BY <1>3, <1>5, <2>2 DEF x
    <3> QED BY <1>1, <3>1 DEF Leavings
  <2> QED BY <2>1, <2>2 DEF Leavings
<1>16. Books(wallet, T, D, packs, spent)
  <2>1. Chips(wallet, T, D) = Chips(wallet, table, chain)
    BY <1>1, <1>5, <1>9, ChipsStay
  <2>2. Pots(T) = Pots(table) + x.pot - t.pot
    BY <1>1, <1>5, PotsMove DEF x
  <2>3. Pots(table) \in Nat /\ t.pot \in Nat /\ x.pot = t.pot
    BY <1>1, <1>2, <1>3, BooksInt, RoomFields
  <2>4. Pots(T) = Pots(table)
    BY <2>2, <2>3
  <2> QED BY <1>1, <2>1, <2>4 DEF Books
<1>17. Money(wallet, T, D, op', packs, spent)
  BY <1>11, <1>12, <1>13, <1>14, <1>15, <1>16 DEF Money
<1> QED BY <1>4, <1>17 DEF MoneyOK, T, D

\* No request is retried: the first write of it was heard.
LEMMA NoRetry ==
  ASSUME MoneyOK, NEW h \in Hands
  PROVE  ~RetryRuns(h) /\ ~RetryReturns(h)
<1>1. AnswerOK(chain[h])
  BY DEF MoneyOK, Money
<1> QED BY <1>1 DEF AnswerOK, RetryRuns, RetryReturns

-----------------------------------------------------------------------------
(* The invariant of the chips *)

\* At first the wallets have everything, ...
LEMMA MoneyInit ==
  ASSUME Init
  PROVE  MoneyOK
<1>1. /\ wallet = [u \in Users |-> Purse] /\ packs = Packs /\ spent = 0
      /\ op = [u \in Users |-> Idle]
      /\ \A r \in Tables : /\ table[r].state = "open" /\ table[r].by = None /\ table[r].pot = 0
                           /\ table[r].seat = [u \in Users |-> NoSeat]
                           /\ table[r].entry = [u \in Users |-> NoEntry]
                           /\ table[r].unseated = {}
      /\ \A h \in Hands : /\ chain[h].stage = "none" /\ chain[h].answer = "none"
                          /\ ~chain[h].landed /\ chain[h].delta = [u \in Users |-> 0]
  BY DEF Init
<1>2. /\ Types /\ Purse \in Nat /\ Packs \in Nat /\ IsFiniteSet(Users) /\ IsFiniteSet(Tables)
      /\ None \notin Users
  BY IndInit, WalletAssumption DEF IInv
<1>3. /\ wallet \in [Users -> Nat] /\ table \in [Tables -> RoomRecords]
      /\ chain \in [Hands -> Requests]
  BY <1>2 DEF Types
<1>4. \A u \in Users, r \in Tables : /\ table[r].seat[u] = NoSeat /\ table[r].entry[u] = NoEntry
                                     /\ Due(table[r].entry[u]) = 0
  BY <1>1, Nothing
<1>5. \A u \in Users, h \in Hands : Pays(chain[h], u) = 0
  BY <1>1 DEF Pays
<1>6. \A u \in Users : /\ Value(wallet, table, chain, u) = Purse
                       /\ Low(wallet, table, chain, u) = Purse /\ wallet[u] = Purse
  <2> SUFFICES ASSUME NEW u \in Users
               PROVE  /\ Value(wallet, table, chain, u) = Purse
                      /\ Low(wallet, table, chain, u) = Purse /\ wallet[u] = Purse
    OBVIOUS
  <2>1. Value(wallet, table, chain, u) = wallet[u] /\ Low(wallet, table, chain, u) = wallet[u]
    BY <1>3, <1>4, <1>5, ClearValue
  <2>2. wallet[u] = Purse
    BY <1>1
  <2> QED BY <2>1, <2>2
<1>7. Accounts(wallet, table, chain, op)
  <2> SUFFICES ASSUME NEW u \in Users
               PROVE  AccountOK(table, u, op[u], wallet[u], Value(wallet, table, chain, u),
                                Low(wallet, table, chain, u))
    BY DEF Accounts
  <2>1. Nowhere(table, u) /\ \A r \in Tables : table[r].by # u
    BY <1>1, <1>2, <1>4, Nothing DEF Nowhere
  <2>2. op[u] = Idle /\ Low(wallet, table, chain, u) >= 0
    BY <1>1, <1>2, <1>6
  <2> QED BY <2>1, <2>2, Nothing, NoSeatAccount
<1>8. \A r \in Tables : BetsOK(table[r])
  BY <1>4, Nothing DEF BetsOK, NoEntry, NoSeat
<1>9. \A h \in Hands : AnswerOK(chain[h])
  BY <1>1 DEF AnswerOK
<1>10. PaidSit(table, chain)
  BY <1>5 DEF PaidSit, Hands, Numbers
<1>11. Leavings(table, op)
  BY <1>1, Nothing DEF Leavings
<1>12. Books(wallet, table, chain, packs, spent)
  <2> DEFINE f == [u \in Users |-> Value(wallet, table, chain, u)]
             g == [r \in Tables |-> table[r].pot]
  <2>1. (\A u \in Users : f[u] = Purse) /\ (\A r \in Tables : g[r] = 0)
    BY <1>1, <1>6
  <2> HIDE DEF f, g
  <2>2. SumOver(f, Users) = Purse * Cardinality(Users) /\ SumOver(g, Tables) = 0 * Cardinality(Tables)
    BY <1>2, <2>1, SumConstant
  <2>3. Cardinality(Users) \in Nat /\ Cardinality(Tables) \in Nat
    BY <1>2, FS_CardinalityType
  <2>4. Chips(wallet, table, chain) = Cardinality(Users) * Purse /\ Pots(table) = 0
    BY <1>2, <2>2, <2>3 DEF Chips, Pots, f, g
  <2>5. Cardinality(Users) * Purse \in Nat
    BY <1>2, <2>3
  <2> QED BY <1>1, <1>2, <2>4, <2>5 DEF Books
<1> QED BY <1>7, <1>8, <1>9, <1>10, <1>11, <1>12 DEF MoneyOK, Money

\* ... and no step makes or loses a chip.
LEMMA MoneyStep ==
  ASSUME Exact, IInv, MoneyOK, [Next]_vars
  PROVE  MoneyOK'
<1>1. CASE UNCHANGED vars
  <2>1. UNCHANGED <<wallet, packs, spent, op, table, chain>>
    BY <1>1 DEF vars
  <2> QED BY <2>1 DEF MoneyOK
<1>2. ASSUME NEW r \in Tables, OnTable(r) PROVE MoneyOK'
  <2>1. CASE StartHand(r)
    BY <2>1, DealMoney
  <2>2. CASE Showdown(r) \/ (DestroyRuns(r) /\ table[r].live)
    BY <2>2, ShowdownMoney
  <2>3. CASE FirstReturns(r)
    BY <2>3, FirstMoney
  <2>4. CASE DestroyStarts(r) \/ DestroyReturns(r) \/ (DestroyRuns(r) /\ ~table[r].live)
    BY <2>4, DestroyMoney
  <2>5. ASSUME NEW u \in Users, Chaal(r, u) \/ Pack(r, u) PROVE MoneyOK'
    BY <2>5, ChaalMoney, PackMoney
  <2> QED BY <1>2, <2>1, <2>2, <2>3, <2>4, <2>5 DEF OnTable
<1>3. ASSUME NEW u \in Users, Striped(u) PROVE MoneyOK'
  <2>1. CASE (\E r \in Tables : JoinLooks(u, r)) \/ SpendLooks(u) \/ JoinReads(u)
    BY <2>1, LooksMoney
  <2>2. CASE Reserves(u) \/ LeaveStarts(u) \/ \E to \in Tables : SwitchStarts(u, to)
    BY <2>2, SeekingMoney
  <2>3. CASE Sits(u)
    BY <2>3, SitsMoney
  <2>4. CASE LeaveRuns(u)
    BY <2>4, LeaveMoney
  <2>5. CASE LeaveFindsNothing(u)
    BY <2>5, NothingMoney
  <2>6. CASE SpendCommits(u) \/ BuyBanks(u) \/ BuyLooks(u)
    BY <2>6, LobbyMoney
  <2>7. CASE BuyTopsUp(u)
    BY <2>7, TopsUpMoney
  <2> QED BY <1>3, <2>1, <2>2, <2>3, <2>4, <2>5, <2>6, <2>7 DEF Striped
<1>4. ASSUME NEW h \in Hands, DbSettles(h) \/ RetryRuns(h) \/ RetryReturns(h) PROVE MoneyOK'
  BY <1>4, DbMoney, NoRetry
<1> QED BY <1>1, <1>2, <1>3, <1>4 DEF Next

\* Where every settlement is written and answered, and nobody switches away from a
\* room that is destroyed, every chip is accounted for.
THEOREM ChipsInductive == ASSUME Exact PROVE Spec => []MoneyOK
<1>1. Init => MoneyOK
  BY MoneyInit
<1>2. IInv /\ MoneyOK /\ [Next]_vars => MoneyOK'
  BY MoneyStep
<1> QED BY <1>1, <1>2, Inductive, PTL DEF Spec

\* What is on its way to a wallet is what the rooms and the requests owe it.
LEMMA PendingIs ==
  ASSUME IInv, NEW u \in Users
  PROVE  /\ wallet[u] + Pending(u) = Value(wallet, table, chain, u)
         /\ Pending(u) \in Int /\ wallet[u] \in Int
<1> DEFINE f == [h \in Hands |-> chain[h].delta[u]]
           g == [h \in Hands |-> Pays(chain[h], u)]
           S == {h \in Hands : ~chain[h].landed}
           e == [r \in Tables |-> Due(table[r].entry[u])]
<1>1. /\ wallet[u] \in Nat /\ table \in [Tables -> RoomRecords] /\ chain \in [Hands -> Requests]
  BY DEF IInv, Types
<1>2. DueOf(table, u) \in Int /\ PayOf(chain, u) \in Int
  BY <1>1, DueInt, PayInt
<1>3. \A h \in Hands : g[h] \in Int
  BY <1>1, PayInt
<1>4. (\A h \in Hands \ S : g[h] = 0) /\ (\A h \in S : g[h] = f[h])
  BY DEF Pays
<1>5. S \in SUBSET Hands /\ IsFiniteSet(Hands)
  BY HandsFinite
<1>6. IsFiniteSet(S)
  BY <1>5, FS_Subset
<1>7. Pending(u) = SumOver(e, Tables) + SumOver(f, S)
  BY DEF Pending, Total, SumOver
<1> HIDE DEF f, g, S, e
<1>8. SumOver(g, Hands) = SumOver(g, S)
  BY <1>3, <1>4, <1>5, SumOutside
<1>9. SumOver(g, S) = SumOver(f, S)
  <2>1. \A h \in S : g[h] \in Int /\ g[h] = f[h]
    BY <1>3, <1>4, <1>5
  <2> QED BY <1>6, <2>1, SumSame
<1>10. Pending(u) = DueOf(table, u) + PayOf(chain, u)
  BY <1>7, <1>8, <1>9 DEF DueOf, PayOf, e, g
<1> QED BY <1>1, <1>2, <1>10 DEF Value

\* Where every settlement is written and answered, the chips in wallets, in pots and on
\* their way are those put in, to the last one (Table.checkpoint, settlementOwed).
THEOREM ChipsComeFromPurchases == ASSUME Exact PROVE Spec => []NoChipsFromNothing
<1>1. ASSUME IInv, MoneyOK PROVE NoChipsFromNothing
  <2> DEFINE w == wallet
             p == [u \in Users |-> Pending(u)]
             v == [u \in Users |-> Value(wallet, table, chain, u)]
             q == [r \in Tables |-> table[r].pot]
  <2>1. /\ packs \in Nat /\ spent \in Nat /\ IsFiniteSet(Users)
        /\ Books(wallet, table, chain, packs, spent)
        /\ wallet \in [Users -> Nat] /\ table \in [Tables -> RoomRecords]
        /\ chain \in [Hands -> Requests]
    BY <1>1, WalletAssumption DEF IInv, Types, MoneyOK, Money
  <2>2. \A u \in Users : w[u] \in Int /\ p[u] \in Int /\ v[u] = w[u] + p[u]
    BY <1>1, PendingIs
  <2>3. /\ Total(wallet, Users) = SumOver(w, Users)
        /\ Total([r \in Tables |-> table[r].pot], Tables) = SumOver(q, Tables)
        /\ Total([u \in Users |-> Pending(u)], Users) = SumOver(p, Users)
    BY DEF Total, SumOver
  <2>4. Pots(table) = SumOver(q, Tables) /\ Chips(wallet, table, chain) = SumOver(v, Users)
    BY DEF Pots, Chips
  <2>5. Pots(table) \in Nat
    BY <2>1, BooksInt
  <2> HIDE DEF w, p, v, q
  <2>6. SumOver(v, Users) = SumOver(w, Users) + SumOver(p, Users)
    BY <2>1, <2>2, SumPlus
  <2>7. SumOver(w, Users) \in Int /\ SumOver(p, Users) \in Int
    BY <2>1, <2>2, SumInt
  <2>8. SumOver(v, Users) + packs + spent + SumOver(q, Tables) = Cardinality(Users) * Purse + Packs
    BY <2>1, <2>4 DEF Books
  <2>9. SumOver(w, Users) + packs + spent + SumOver(q, Tables) + SumOver(p, Users)
           = Cardinality(Users) * Purse + Packs
    BY <2>1, <2>4, <2>5, <2>6, <2>7, <2>8
  <2>10. Cardinality(Users) * Purse + Packs \in Int
    BY <2>1, FS_CardinalityType, WalletAssumption
  <2> QED BY <2>3, <2>9, <2>10 DEF NoChipsFromNothing
<1>2. IInv /\ MoneyOK => NoChipsFromNothing
  BY <1>1
<1> QED BY <1>2, Inductive, ChipsInductive, PTL

\* There a seat and its wallet agree: a seated player is shown the chips that the
\* wallet will have once every write on its way has landed (Table.CreditChips,
\* chargeToPot, endHand).
THEOREM SeatsAreReckoned == ASSUME Exact PROVE Spec => []SeatIsReckoned
<1>1. ASSUME IInv, MoneyOK PROVE SeatIsReckoned
  <2> SUFFICES ASSUME NEW r \in Tables, NEW u \in Users,
                      index[u] = r, table[r].seat[u].here, op[u] = Idle
               PROVE  table[r].seat[u].chips = wallet[u] + Pending(u)
    BY DEF SeatIsReckoned
  <2>1. /\ AccountOK(table, u, op[u], wallet[u], Value(wallet, table, chain, u),
                     Low(wallet, table, chain, u))
        /\ Placed(table, u, op[u], index[u]) /\ None \notin Tables
    BY <1>1, AccountIs, WalletAssumption
  <2>2. Up(table[r])
    BY <2>1 DEF Placed, Indexed, Up
  <2>3. u \notin table[r].unseated
    BY <2>1, <2>2 DEF Placed, UnseatedOf
  <2>4. table[r].seat[u].chips + Bought(op[u]) = Value(wallet, table, chain, u)
    BY <2>1, <2>2, <2>3 DEF AccountOK
  <2>5. Bought(op[u]) = 0
    BY Nothing DEF Bought
  <2>6. table[r].seat[u].chips \in Nat
    BY <1>1, RoomFields DEF IInv, Types
  <2> QED BY <1>1, <2>4, <2>5, <2>6, PendingIs
<1>2. IInv /\ MoneyOK => SeatIsReckoned
  BY <1>1
<1> QED BY <1>2, Inductive, ChipsInductive, PTL

\* There a switch takes along what the account comes to: the stack it left, or the
\* wallet where nothing was staked (SwitchTable, seatHeld).
THEOREM SwitchesCarryTheStack == ASSUME Exact PROVE Spec => []SwitchCarriesTheStack
<1>1. ASSUME IInv, MoneyOK PROVE SwitchCarriesTheStack
  <2> SUFFICES ASSUME NEW u \in Users, op[u].kind = "carry"
               PROVE  op[u].chips = wallet[u] + Pending(u)
    BY DEF SwitchCarriesTheStack
  <2>1. op[u].chips = Value(wallet, table, chain, u)
    BY <1>1, AccountIs DEF AccountOK
  <2> QED BY <1>1, <2>1, PendingIs
<1>2. IInv /\ MoneyOK => SwitchCarriesTheStack
  BY <1>1
<1> QED BY <1>2, Inductive, ChipsInductive, PTL
=============================================================================
