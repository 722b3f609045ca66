----------------------------- MODULE SessionsProofs -----------------------------
(* Proofs about one account's sockets and its seat.                                *)
(*                                                                                 *)
(* The inductive invariant IInv needs no hypothesis.  Types and TasksOK say what a *)
(* step of a task implies of its job and socket.  LapseOK is the heart: a lapse is *)
(* published in the section that finds no live socket, so that a socket which      *)
(* signs in later has read it, and its sign-in stands before AwaitLapse until the  *)
(* lapse is over.                                                                  *)
(*                                                                                 *)
(* With one sign-in at a time (~Overlap), SingleOK: the socket that signs in is    *)
(* the account's and alive, another live one is about to be replaced by it, and a  *)
(* dead one that is still the account's is about to be forgotten.  OffersOK and    *)
(* Watched rest on it: Watched follows a seat through the hands that may have it,  *)
(* the account's socket, the recorded timer, a lapse, or a socket that still has   *)
(* to hold it.                                                                     *)
EXTENDS Sessions, Sums, FiniteSetTheorems, TLAPS

\* The steps of a lapse, and of a sign-in that has not waited for it yet.
Lapses == {"fired", "look", "leave"}
WaitsForLapse == {"replace", "await", "stop", "lapse"}

-----------------------------------------------------------------------------
(* Types *)

Pcs == {"off", "ready"} \cup SignInSteps \cup SeatSteps \cup RequestSteps
Jobs == {"none", "signin", "switch", "leave"} \cup Joins
TaskType == [pc : Pcs, job : Jobs, room : Rooms \cup {None}, sock : Sockets \cup {None},
             lapse : {0} \cup Timers]
DisType == [pc : {"no", "done"} \cup DisconnectSteps, room : Rooms \cup {None}]
TimerStates == {"free", "armed", "over"} \cup Lapses
SeatType == [room : Rooms \cup {None}, conn : BOOLEAN]
KickType == [pc : {"none", "asked", "look", "drop", "finish"}, room : Rooms \cup {None},
             elsewhere : BOOLEAN, sock : Sockets \cup {None}]

\* The types, and that a kick was counted and has its room.
Types ==
    /\ conn \in [Sockets -> BOOLEAN]
    /\ task \in [Sockets -> TaskType]
    /\ dis \in [Sockets -> DisType]
    /\ seat \in SeatType
    /\ userSocket \in Sockets \cup {None}
    /\ pending \in {0} \cup Timers /\ lapsing \in {0} \cup Timers
    /\ timer \in [Timers -> TimerStates]
    /\ offer \in Rooms \cup {None} /\ lapsed \in BOOLEAN
    /\ kick \in KickType
    /\ spent \in [ask : Nat, kick : Nat, move : Nat]
    /\ kick.pc # "none" => kick.room # None /\ spent.kick > 0

\* What a step of one task makes of them all.
Turned(s, r) == /\ r \in TaskType
                /\ task' \in [Sockets -> TaskType]
                /\ task'[s] = r
                /\ \A u \in Sockets \ {s} : task'[u] = task[u]

\* A task that goes on to another step keeps what it has read.
LEMMA GoesIs ==
  ASSUME Types, NEW s \in Sockets, NEW step \in Pcs, Goes(s, step)
  PROVE  \E r : /\ Turned(s, r) /\ r.pc = step
                /\ r.job = task[s].job /\ r.room = task[s].room
                /\ r.sock = task[s].sock /\ r.lapse = task[s].lapse
<1> DEFINE r == [task[s] EXCEPT !.pc = step]
<1>1. task[s] \in TaskType
  BY DEF Types
<1>2. /\ r \in TaskType /\ r.pc = step
      /\ r.job = task[s].job /\ r.room = task[s].room
      /\ r.sock = task[s].sock /\ r.lapse = task[s].lapse
  BY <1>1 DEF TaskType
<1>3. task' = [task EXCEPT ![s] = r]
  BY DEF Goes
<1> HIDE DEF r
<1>4. Turned(s, r)
  BY <1>2, <1>3 DEF Types, Turned
<1> QED BY <1>2, <1>4

\* A task that goes on with a room keeps the rest of what it has read.
LEMMA GoesToIs ==
  ASSUME Types, NEW s \in Sockets, NEW step \in Pcs, NEW room \in Rooms, GoesTo(s, step, room)
  PROVE  \E r : /\ Turned(s, r) /\ r.pc = step
                /\ r.job = task[s].job /\ r.room = room
                /\ r.sock = task[s].sock /\ r.lapse = task[s].lapse
<1> DEFINE r == [task[s] EXCEPT !.pc = step, !.room = room]
<1>1. task[s] \in TaskType
  BY DEF Types
<1>2. /\ r \in TaskType /\ r.pc = step
      /\ r.job = task[s].job /\ r.room = room
      /\ r.sock = task[s].sock /\ r.lapse = task[s].lapse
  BY <1>1 DEF TaskType
<1>3. task' = [task EXCEPT ![s] = r]
  BY <1>1 DEF GoesTo, Types
<1> HIDE DEF r
<1>4. Turned(s, r)
  BY <1>2, <1>3 DEF Types, Turned
<1> QED BY <1>2, <1>4

\* A task that is done is ready for another request.
LEMMA DoneIs ==
  ASSUME Types, NEW s \in Sockets, Done(s)
  PROVE  Turned(s, Idle) /\ Idle.pc = "ready" /\ Idle.job = "none"
<1>1. Idle \in TaskType /\ Idle.pc = "ready" /\ Idle.job = "none"
  BY DEF Idle, TaskType, Pcs, Jobs
<1> QED BY <1>1 DEF Types, Turned, Done

\* The timer that holdSeat arms is a free one.
LEMMA FirstFree ==
  ASSUME NEW t \in Timers, timer[t] = "free"
  PROVE  \E u \in Timers : timer[u] = "free" /\ \A w \in 1 .. u - 1 : timer[w] # "free"
<1> DEFINE F == {u \in Timers : timer[u] = "free"}
           T == {1 .. u : u \in F}
<1>1. IsFiniteSet(Timers) /\ Timers \subseteq Nat
  <2>1. MaxTimers \in Int /\ 1 \in Int /\ MaxTimers >= 1
    BY SessionsAssumption
  <2>2. IsFiniteSet(1 .. MaxTimers)
    BY <2>1, FS_Interval
  <2> QED BY <2>1, <2>2 DEF Timers
<1>2. T \subseteq SUBSET Timers /\ T # {}
  BY SessionsAssumption DEF Timers
<1>3. PICK x \in T : \A y \in SUBSET x : y # x => y \notin T
  <2> HIDE DEF T
  <2> QED BY <1>1, <1>2, Smallest
<1>4. PICK u \in F : x = 1 .. u
  OBVIOUS
<1>5. ASSUME NEW w \in 1 .. u - 1, timer[w] = "free" PROVE FALSE
  <2>1. w \in F /\ w \in Nat /\ u \in Nat /\ w < u
    <3>1. u \in Nat /\ u >= 1 /\ u <= MaxTimers /\ MaxTimers \in Nat
      BY SessionsAssumption DEF Timers
    <3>2. w \in Nat /\ w < u /\ w \in Timers
      BY <3>1 DEF Timers
    <3> QED BY <1>5, <3>1, <3>2
  <2>2. 1 .. w \in SUBSET x /\ 1 .. w # x /\ 1 .. w \in T
    BY <1>4, <2>1
  <2> QED BY <1>3, <2>2
<1> QED BY <1>4, <1>5

\* Stopping a timer changes one that is armed, and only to over (Timer.Stop).
LEMMA StoppedIs ==
  ASSUME Types, NEW t
  PROVE  /\ Stopped(t) \in [Timers -> TimerStates]
         /\ \A u \in Timers : \/ Stopped(t)[u] = timer[u]
                              \/ timer[u] = "armed" /\ Stopped(t)[u] = "over"
BY DEF Stopped, Types, TimerStates

\* holdSeat leaves a timer armed and recorded, and no lapse stopped or begun.
LEMMA HoldSeatIs ==
  ASSUME Types, HoldSeat
  PROVE  /\ pending' \in Timers /\ timer'[pending'] = "armed"
         /\ timer' \in [Timers -> TimerStates]
         /\ \A u \in Timers : \/ timer[u] = timer'[u]
                              \/ timer'[u] \in {"armed", "over"} /\ timer[u] \in {"free", "armed"}
         /\ lapsing' = lapsing
<1> DEFINE t == CHOOSE u \in Timers : timer[u] = "free" /\ \A w \in 1 .. u - 1 : timer[w] # "free"
<1>1. \E u \in Timers : timer[u] = "free" /\ \A w \in 1 .. u - 1 : timer[w] # "free"
  BY FirstFree DEF HoldSeat
<1>2. t \in Timers /\ timer[t] = "free"
  BY <1>1, Zenon
<1>3. timer' = [Stopped(pending) EXCEPT ![t] = "armed"] /\ pending' = t /\ lapsing' = lapsing
  BY DEF HoldSeat
<1> HIDE DEF t
<1> QED BY <1>2, <1>3, StoppedIs DEF TimerStates

\* A socket that is cut is dead, with its onDisconnect begun (Socket.close).
LEMMA CutsIs ==
  ASSUME Types, NEW s \in Sockets, Cuts(s)
  PROVE  /\ conn' \in [Sockets -> BOOLEAN] /\ dis' \in [Sockets -> DisType]
         /\ ~conn'[s] /\ \A u \in Sockets \ {s} : conn'[u] = conn[u] /\ dis'[u] = dis[u]
         /\ dis'[s].pc = IF dis[s].pc = "no" THEN "forget" ELSE dis[s].pc
<1> DEFINE d == [dis[s] EXCEPT !.pc = IF @ = "no" THEN "forget" ELSE @]
<1>1. dis[s] \in DisType
  BY DEF Types
<1>2. d \in DisType /\ d.pc = IF dis[s].pc = "no" THEN "forget" ELSE dis[s].pc
  BY <1>1 DEF DisType, DisconnectSteps
<1>3. dis' = [dis EXCEPT ![s] = d] /\ conn' = [conn EXCEPT ![s] = FALSE]
  BY DEF Cuts
<1> HIDE DEF d
<1> QED BY <1>2, <1>3 DEF Types

\* What a step of one socket's onDisconnect makes of them all.
Left(s, d) == /\ d \in DisType
              /\ dis' \in [Sockets -> DisType]
              /\ dis'[s] = d
              /\ \A u \in Sockets \ {s} : dis'[u] = dis[u]

\* An onDisconnect that goes on keeps the room it has read.
LEMMA ForgetIs ==
  ASSUME Types, NEW s \in Sockets, NEW step \in DisconnectSteps,
         dis' = [dis EXCEPT ![s].pc = step]
  PROVE  \E d : Left(s, d) /\ d.pc = step /\ d.room = dis[s].room
<1> DEFINE d == [dis[s] EXCEPT !.pc = step]
<1>1. dis[s] \in DisType
  BY DEF Types
<1>2. d \in DisType /\ d.pc = step /\ d.room = dis[s].room
  BY <1>1 DEF DisType
<1>3. dis' = [dis EXCEPT ![s] = d]
  OBVIOUS
<1> HIDE DEF d
<1>4. Left(s, d)
  BY <1>2, <1>3 DEF Types, Left
<1> QED BY <1>2, <1>4

\* An onDisconnect that ends.
LEMMA GoneIs ==
  ASSUME Types, NEW s \in Sockets, dis' = [dis EXCEPT ![s] = Gone]
  PROVE  Left(s, Gone) /\ Gone.pc = "done"
<1>1. Gone \in DisType /\ Gone.pc = "done"
  BY DEF Gone, DisType
<1> QED BY <1>1 DEF Types, Left

\* An onDisconnect goes on only with a seat to hold.
LEMMA FindLeftIs ==
  ASSUME Types, NEW s \in Sockets, FindLeft(s)
  PROVE  \E d : Left(s, d) /\ d.pc = IF seat.room = None THEN "done" ELSE "untrack"
<1> DEFINE d == IF seat.room = None THEN Gone ELSE [pc |-> "untrack", room |-> seat.room]
<1>1. d \in DisType /\ d.pc = IF seat.room = None THEN "done" ELSE "untrack"
  BY DEF Gone, DisType, DisconnectSteps, Types, SeatType
<1>2. dis' = [dis EXCEPT ![s] = d]
  BY DEF FindLeft
<1> HIDE DEF d
<1>3. Left(s, d)
  BY <1>1, <1>2 DEF Types, Left
<1> QED BY <1>1, <1>3

\* SetConnected leaves the player where they sit.
LEMMA MarkedIs ==
  ASSUME Types, NEW room, NEW yes \in BOOLEAN
  PROVE  Marked(room, yes) \in SeatType /\ Marked(room, yes).room = seat.room
BY DEF Types, Marked, SeatType

\* A sign-in has read the socket it replaces and the lapse in progress.
LEMMA SignInIs ==
  ASSUME Types, NEW s \in Sockets, SignIn(s)
  PROVE  \E r : /\ Turned(s, r) /\ r.job = task[s].job /\ r.room = task[s].room
                /\ r.sock = userSocket /\ r.lapse = lapsing
                /\ r.pc = IF userSocket = None THEN "stop" ELSE "replace"
<1> DEFINE step == IF userSocket = None THEN "stop" ELSE "replace"
           r == [task[s] EXCEPT !.pc = step, !.sock = userSocket, !.lapse = lapsing]
<1>1. task[s] \in TaskType /\ step \in Pcs
  BY DEF Types, Pcs, SignInSteps
<1>2. /\ r \in TaskType /\ r.job = task[s].job /\ r.room = task[s].room
      /\ r.sock = userSocket /\ r.lapse = lapsing
      /\ r.pc = step
  <2> HIDE DEF step
  <2> QED BY <1>1 DEF TaskType, Types
<1>3. task' = [task EXCEPT ![s] = r]
  BY <1>1 DEF SignIn, Types
<1>4. r.pc = IF userSocket = None THEN "stop" ELSE "replace"
  BY <1>2
<1> HIDE DEF r
<1>5. Turned(s, r)
  BY <1>2, <1>3 DEF Types, Turned
<1> QED BY <1>2, <1>4, <1>5

\* A sign-in whose predecessor's onDisconnect has ended goes on to the timer.
LEMMA ReplacedIs ==
  ASSUME Types, NEW s \in Sockets, Replaced(s)
  PROVE  \E r : /\ Turned(s, r) /\ r.pc = "stop"
                /\ r.job = task[s].job /\ r.lapse = task[s].lapse
<1> DEFINE r == [task[s] EXCEPT !.pc = "stop", !.sock = None]
<1>1. task[s] \in TaskType
  BY DEF Types
<1>2. r \in TaskType /\ r.pc = "stop" /\ r.job = task[s].job /\ r.lapse = task[s].lapse
  BY <1>1 DEF TaskType, Pcs, SignInSteps
<1>3. task' = [task EXCEPT ![s] = r]
  BY <1>1 DEF Replaced, Types
<1> HIDE DEF r
<1>4. Turned(s, r)
  BY <1>2, <1>3 DEF Types, Turned
<1> QED BY <1>2, <1>4

\* orphanedSeat: the request ends, hands its seat to a live socket, or gives it up to the grace.
LEMMA CheckIs ==
  ASSUME Types, NEW s \in Sockets, Check(s)
  PROVE  \/ Done(s) /\ (conn[s] \/ (userSocket # None /\ conn[userSocket]))
         \/ /\ ~conn[s]
            /\ \E r : /\ Turned(s, r) /\ r.job = task[s].job
                      /\ \/ r.pc = "handTrack" /\ r.sock # None /\ userSocket # None /\ conn[userSocket]
                         \/ r.pc = "untrack"
<1> DEFINE handed == userSocket \notin {None, s} /\ conn[userSocket]
           step == IF handed THEN "handTrack" ELSE "untrack"
           r == [task[s] EXCEPT !.pc = step, !.sock = userSocket]
<1>1. task[s] \in TaskType /\ step \in Pcs
  BY DEF Types, Pcs, SeatSteps
<1>2. r \in TaskType /\ r.pc = step /\ r.job = task[s].job /\ r.sock = userSocket
  <2> HIDE DEF step
  <2> QED BY <1>1 DEF TaskType, Types
<1>3. \/ Done(s) /\ (conn[s] \/ handed)
      \/ ~conn[s] /\ task' = [task EXCEPT ![s].pc = step, ![s].sock = userSocket]
  BY Zenon DEF Check
<1>4. CASE Done(s) /\ (conn[s] \/ handed)
  BY <1>4
<1>5. CASE ~conn[s] /\ task' = [task EXCEPT ![s].pc = step, ![s].sock = userSocket]
  <2>1. task' = [task EXCEPT ![s] = r]
    BY <1>1, <1>5 DEF Types
  <2>2. \/ r.pc = "handTrack" /\ r.sock # None /\ userSocket # None /\ conn[userSocket]
        \/ r.pc = "untrack"
    BY <1>2
  <2> HIDE DEF r
  <2>3. Turned(s, r)
    BY <1>2, <2>1 DEF Types, Turned
  <2> QED BY <1>2, <1>5, <2>2, <2>3
<1> QED BY <1>3, <1>4, <1>5

\* A request begins at its first step.
LEMMA AskIs ==
  ASSUME Types, NEW s \in Sockets, NEW request \in Joins \cup {"switch", "leave"}, Ask(s, request)
  PROVE  \E r : /\ Turned(s, r) /\ r.pc = "asked" /\ r.job = request
<1> DEFINE r == [task[s] EXCEPT !.pc = "asked", !.job = request, !.room = seat.room]
<1>1. task[s] \in TaskType
  BY DEF Types
<1>2. r \in TaskType /\ r.pc = "asked" /\ r.job = request
  BY <1>1 DEF TaskType, Pcs, RequestSteps, Jobs, Types, SeatType
<1>3. task' = [task EXCEPT ![s] = r]
  BY <1>1 DEF Ask, Types
<1> HIDE DEF r
<1>4. Turned(s, r)
  BY <1>2, <1>3 DEF Types, Turned
<1> QED BY <1>2, <1>4


\* What a task's step and job say of it.
TaskOK(s) ==
   /\ task[s].pc \in SignInSteps \cup {"off"} => task[s].job = "signin"
   /\ task[s].pc = "ready" => task[s].job = "none"
   /\ task[s].pc \in {"replace", "await"} => task[s].sock \in Sockets \ {s}
   /\ task[s].pc \in {"replace", "await"} => task[task[s].sock].pc # "off"
   /\ task[s].pc = "off" => dis[s].pc = "no" /\ ~conn[s] /\ userSocket # s
   /\ dis[s].pc # "no" => ~conn[s]
TasksOK == \A s \in Sockets : TaskOK(s)

\* The socket a sign-in replaces is another, and has signed in itself.
LEMMA TaskSock ==
  ASSUME TasksOK, NEW s \in Sockets, task[s].pc \in {"replace", "await"}
  PROVE task[s].sock \in Sockets \ {s} /\ task[task[s].sock].pc # "off"
BY DEF TasksOK, TaskOK

\* The names of the steps.
LEMMA StepNames ==
  /\ {"replace", "await", "stop", "lapse", "find"} \subseteq Pcs
  /\ {"track", "mark", "check", "handTrack", "handMark", "untrack", "unmark", "hold"} \subseteq Pcs
  /\ {"asked", "listening", "moved", "undo", "gone", "ready"} \subseteq Pcs
  /\ {"forget", "find", "untrack", "mark", "hold"} \subseteq DisconnectSteps
BY DEF Pcs, SignInSteps, SeatSteps, RequestSteps, DisconnectSteps

\* Seats and kicks as the actions write them.
LEMMA SeatsAre ==
  /\ \A r \in Rooms \cup {None} : /\ [room |-> r, conn |-> TRUE] \in SeatType
                                   /\ [room |-> r, conn |-> TRUE].room = r
  /\ NoSeat \in SeatType /\ NoSeat.room = None
  /\ NoKick \in KickType /\ NoKick.pc = "none"
<1> DEFINE yes == TRUE
           no == FALSE
<1>1. yes \in BOOLEAN /\ no \in BOOLEAN
  OBVIOUS
<1> HIDE DEF yes, no
<1>2. /\ \A r \in Rooms \cup {None} : /\ [room |-> r, conn |-> yes] \in SeatType
                                      /\ [room |-> r, conn |-> yes].room = r
      /\ [room |-> None, conn |-> no] \in SeatType /\ [room |-> None, conn |-> no].room = None
      /\ [pc |-> "none", room |-> None, elsewhere |-> no, sock |-> None] \in KickType
      /\ [pc |-> "none", room |-> None, elsewhere |-> no, sock |-> None].pc = "none"
  BY <1>1 DEF SeatType, KickType
<1> QED BY <1>2, Zenon DEF yes, no, NoSeat, NoKick

\* Every step keeps the types.
LEMMA TypesStep == Types /\ TasksOK /\ [Next]_vars => Types'
<1> SUFFICES ASSUME Types, TasksOK, [Next]_vars PROVE Types'
  OBVIOUS
<1> USE SessionsAssumption
<1>11. ASSUME NEW s \in Sockets, SignIn(s) PROVE Types'
  BY <1>11, SignInIs DEF SignIn, Types, graceVars, roomVars, offerVars, sideVars, Turned
<1>12. ASSUME NEW s \in Sockets, Replace(s) PROVE Types'
  BY <1>12, GoesIs, CutsIs, TaskSock, StepNames DEF Replace, Types, graceVars, roomVars,
     offerVars, sideVars, Turned
<1>13. ASSUME NEW s \in Sockets, Replaced(s) PROVE Types'
  BY <1>13, ReplacedIs DEF Replaced, Types, graceVars, roomVars, offerVars, sideVars, Turned
<1>14. ASSUME NEW s \in Sockets, StopGrace(s) PROVE Types'
  BY <1>14, GoesIs, StoppedIs, StepNames DEF StopGrace, Types, roomVars, offerVars,
     sideVars, Turned
<1>15. ASSUME NEW s \in Sockets, AwaitLapse(s) PROVE Types'
  BY <1>15, GoesIs, StepNames DEF AwaitLapse, Types, graceVars, roomVars, offerVars,
     sideVars, Turned
<1>16. ASSUME NEW s \in Sockets, Find(s) PROVE Types'
  BY <1>16, GoesToIs, DoneIs, StepNames DEF Find, Types, graceVars, roomVars, sideVars,
     Turned, SeatType
<1>17. ASSUME NEW s \in Sockets, Track(s) PROVE Types'
  BY <1>17, GoesIs, DoneIs, StepNames DEF Track, Types, graceVars, offerVars, sideVars,
     Turned
<1>18. ASSUME NEW s \in Sockets, Mark(s) PROVE Types'
  BY <1>18, GoesIs, DoneIs, MarkedIs, StepNames DEF Mark, Types, graceVars, offerVars,
     sideVars, Turned
<1>19. ASSUME NEW s \in Sockets, Check(s) PROVE Types'
  BY <1>19, CheckIs, DoneIs DEF Check, Types, graceVars, roomVars, offerVars, sideVars,
     Turned
<1>20. ASSUME NEW s \in Sockets, HandTrack(s) PROVE Types'
  BY <1>20, GoesIs, StepNames DEF HandTrack, Types, graceVars, offerVars, sideVars, Turned
<1>21. ASSUME NEW s \in Sockets, HandMark(s) PROVE Types'
  BY <1>21, DoneIs, MarkedIs DEF HandMark, Types, graceVars, offerVars, sideVars, Turned
<1>22. ASSUME NEW s \in Sockets, Untrack(s) PROVE Types'
  BY <1>22, GoesIs, StepNames DEF Untrack, Types, graceVars, offerVars, sideVars, Turned
<1>23. ASSUME NEW s \in Sockets, Unmark(s) PROVE Types'
  BY <1>23, GoesIs, MarkedIs, StepNames DEF Unmark, Types, graceVars, offerVars, sideVars,
     Turned
<1>24. ASSUME NEW s \in Sockets, Hold(s) PROVE Types'
  BY <1>24, DoneIs, HoldSeatIs DEF Hold, Types, roomVars, offerVars, sideVars, Turned
<1>25. ASSUME NEW s \in Sockets, Sit(s) PROVE Types'
  <2>1. task' \in [Sockets -> TaskType]
    BY <1>25, DoneIs, GoesToIs, StepNames DEF Sit, Turned
  <2>2. seat' \in SeatType /\ lapsed' \in BOOLEAN
    BY <1>25, SeatsAre DEF Sit, Types
  <2> QED BY <1>25, <2>1, <2>2 DEF Sit, Types, graceVars, sideVars
<1>26. ASSUME NEW s \in Sockets, StopListening(s) PROVE Types'
  BY <1>26, GoesIs, StepNames DEF StopListening, Types, graceVars, offerVars, sideVars,
     Turned
<1>27. ASSUME NEW s \in Sockets, Switch(s) PROVE Types'
  <2>1. task' \in [Sockets -> TaskType]
    BY <1>27, GoesIs, GoesToIs, StepNames DEF Switch, Turned
  <2>2. seat' \in SeatType
    BY <1>27, SeatsAre DEF Switch, Types
  <2> QED BY <1>27, <2>1, <2>2 DEF Switch, Types, graceVars, offerVars, sideVars
<1>28. ASSUME NEW s \in Sockets, SwitchBack(s) PROVE Types'
  BY <1>28, DoneIs DEF SwitchBack, Types, graceVars, offerVars, sideVars, Turned
<1>29. ASSUME NEW s \in Sockets, ListenOnly(s) PROVE Types'
  BY <1>29, GoesIs, StepNames DEF ListenOnly, Types, graceVars, offerVars, sideVars, Turned
<1>30. ASSUME NEW s \in Sockets, Leave(s) PROVE Types'
  <2>1. task' \in [Sockets -> TaskType]
    BY <1>30, GoesIs, DoneIs, StepNames DEF Leave, Turned
  <2>2. seat' \in SeatType
    BY <1>30, SeatsAre DEF Leave, Types
  <2> QED BY <1>30, <2>1, <2>2 DEF Leave, Types, graceVars, offerVars, sideVars
<1>31. ASSUME NEW s \in Sockets, ListenNowhere(s) PROVE Types'
  BY <1>31, DoneIs DEF ListenNowhere, Types, graceVars, offerVars, sideVars, Turned
<1>32. ASSUME NEW s \in Sockets, Drop(s) PROVE Types'
  BY <1>32, CutsIs DEF Drop, Types, graceVars, roomVars, offerVars, sideVars
<1>33. ASSUME NEW s \in Sockets, Forget(s) PROVE Types'
  BY <1>33, ForgetIs, StepNames DEF Forget, Types, graceVars, roomVars, offerVars, sideVars,
     Left
<1>34. ASSUME NEW s \in Sockets, FindLeft(s) PROVE Types'
  BY <1>34, FindLeftIs DEF FindLeft, Types, graceVars, roomVars, offerVars, sideVars, Left
<1>35. ASSUME NEW s \in Sockets, UntrackLeft(s) PROVE Types'
  BY <1>35, ForgetIs, StepNames DEF UntrackLeft, Types, graceVars, offerVars, sideVars, Left
<1>36. ASSUME NEW s \in Sockets, MarkLeft(s) PROVE Types'
  BY <1>36, ForgetIs, MarkedIs, StepNames DEF MarkLeft, Types, graceVars, offerVars,
     sideVars, Left
<1>37. ASSUME NEW s \in Sockets, HoldLeft(s) PROVE Types'
  BY <1>37, GoneIs, HoldSeatIs DEF HoldLeft, Types, roomVars, offerVars, sideVars, Left
<1>38. ASSUME NEW s \in Sockets, NEW request \in Joins \cup {"switch", "leave"},
             Ask(s, request)
      PROVE Types'
  <2>1. task' \in [Sockets -> TaskType]
    BY <1>38, AskIs DEF Turned
  <2>2. spent' \in [ask : Nat, kick : Nat, move : Nat] /\ spent'.kick = spent.kick
    BY <1>38 DEF Ask, Types
  <2> QED BY <1>38, <2>1, <2>2 DEF Ask, Types, graceVars, roomVars, offerVars
<1>39. ASSUME NEW t \in Timers, Fire(t) PROVE Types'
  BY <1>39 DEF Fire, Types, roomVars, offerVars, sideVars, SeatType, TimerStates, Lapses
<1>40. ASSUME NEW t \in Timers, Expire(t) PROVE Types'
  BY <1>40 DEF Expire, Types, roomVars, offerVars, sideVars, SeatType, TimerStates, Lapses
<1>41. ASSUME NEW t \in Timers, PutOffer(t) PROVE Types'
  BY <1>41 DEF PutOffer, Ended, Types, roomVars, sideVars, SeatType, TimerStates, Lapses
<1>42. ASSUME NEW t \in Timers, LapseLeave(t) PROVE Types'
  BY <1>42 DEF LapseLeave, Ended, NoSeat, Types, sideVars, SeatType, TimerStates, Lapses
<1>43. ASSUME EndSession PROVE Types'
  BY <1>43, CutsIs DEF EndSession, Types, graceVars, roomVars, offerVars, sideVars
<1>44. ASSUME KickAsked PROVE Types'
  <2>1. spent' \in [ask : Nat, kick : Nat, move : Nat] /\ spent'.kick = spent.kick + 1
    BY <1>44 DEF KickAsked, Types
  <2>2. kick' \in KickType /\ kick'.room # None
    BY <1>44 DEF KickAsked, Types, KickType, SeatType
  <2>3. spent'.kick > 0
    BY <2>1 DEF Types
  <2> QED BY <1>44, <2>1, <2>2, <2>3 DEF KickAsked, Types, graceVars, roomVars, offerVars
<1>45. ASSUME KickLeave PROVE Types'
  <2>1. seat' \in SeatType
    BY <1>45, SeatsAre DEF KickLeave, Types
  <2>2. /\ kick' \in KickType /\ kick'.room \in {kick.room, None}
      /\ (kick'.room = None => kick'.pc = "none" \/ kick.room = None)
    <3>1. CASE kick' = NoKick
      BY <3>1, SeatsAre DEF NoKick
    <3>2. CASE kick' = [kick EXCEPT !.pc = "look"]
      BY <3>2 DEF Types, KickType
    <3> QED BY <1>45, <3>1, <3>2 DEF KickLeave
  <2> QED BY <1>45, <2>1, <2>2 DEF KickLeave, Types, graceVars, offerVars
<1>46. ASSUME KickLook PROVE Types'
  BY <1>46 DEF KickLook, Types, graceVars, roomVars, offerVars, KickType, SeatType
<1>47. ASSUME KickDrop PROVE Types'
  <2>1. pending' \in {0} \cup Timers /\ timer' \in [Timers -> TimerStates]
    BY <1>47, StoppedIs DEF KickDrop, Types
  <2>2. kick' \in KickType /\ kick'.room = kick.room
    BY <1>47 DEF KickDrop, Types, KickType
  <2> QED BY <1>47, <2>1, <2>2 DEF KickDrop, Types, roomVars, offerVars
<1>48. ASSUME KickFinish PROVE Types'
  BY <1>48 DEF KickFinish, NoKick, Types, graceVars, KickType, SeatType
<1>49. ASSUME Move PROVE Types'
  BY <1>49 DEF Move, Types, graceVars, offerVars, SeatType, NoMove
<1>50. ASSUME MoveLook PROVE Types'
  BY <1>50 DEF MoveLook, Types, graceVars, roomVars, offerVars
<1>51. ASSUME MoveFollow PROVE Types'
  BY <1>51 DEF MoveFollow, Types, graceVars, offerVars
<1>52. ASSUME MoveAgain PROVE Types'
  BY <1>52 DEF MoveAgain, Types, graceVars, offerVars
<1>53. ASSUME MoveMark PROVE Types'
  BY <1>53, MarkedIs DEF MoveMark, Types, graceVars, offerVars
<1>54. ASSUME UNCHANGED vars PROVE Types'
  BY <1>54 DEF vars, Types, graceVars, roomVars, offerVars, sideVars
<1> QED BY <1>11, <1>12, <1>13, <1>14, <1>15, <1>16, <1>17, <1>18, <1>19, <1>20, <1>21,
       <1>22, <1>23, <1>24, <1>25, <1>26, <1>27, <1>28, <1>29, <1>30, <1>31, <1>32, <1>33,
       <1>34, <1>35, <1>36, <1>37, <1>38, <1>39, <1>40, <1>41, <1>42, <1>43, <1>44, <1>45,
       <1>46, <1>47, <1>48, <1>49, <1>50, <1>51, <1>52, <1>53, <1>54, Zenon DEF Next,
       HandlerStep, DisconnectStep, GraceStep, KickStep, MoveStep

\* Every step leaves each task's job and socket what its step says.
LEMMA TasksStep == Types /\ TasksOK /\ [Next]_vars => TasksOK'
<1> SUFFICES ASSUME Types, TasksOK, [Next]_vars PROVE TasksOK'
  OBVIOUS
<1> USE SessionsAssumption
<1>11. ASSUME NEW s \in Sockets, SignIn(s) PROVE TasksOK'
  <2>1. PICK r : /\ Turned(s, r) /\ r.job = task[s].job /\ r.sock = userSocket
                 /\ r.pc = IF userSocket = None THEN "stop" ELSE "replace"
    BY <1>11, SignInIs
  <2>2. task[s].pc = "off" /\ conn' = [conn EXCEPT ![s] = TRUE] /\ userSocket' = s /\ dis' = dis
    BY <1>11 DEF SignIn
  <2>3. /\ task[s].job = "signin" /\ dis[s].pc = "no" /\ userSocket # s
      /\ userSocket \in Sockets \cup {None}
    BY <2>2 DEF TasksOK, TaskOK, Types
  <2>4. userSocket # None => task[userSocket].pc # "off"
    BY <2>3 DEF TasksOK, TaskOK
  <2>5. TaskOK(s)'
    BY <2>1, <2>2, <2>3, <2>4 DEF TaskOK, Turned, Types, SignInSteps
  <2>6. ASSUME NEW u \in Sockets \ {s} PROVE TaskOK(u)'
    BY <2>1, <2>2, <2>3 DEF TasksOK, TaskOK, Turned, Types, SignInSteps
  <2> QED BY <2>5, <2>6 DEF TasksOK
<1>12. ASSUME NEW s \in Sockets, Replace(s) PROVE TasksOK'
  BY <1>12, GoesIs, CutsIs, TaskSock, StepNames DEF Replace, TasksOK, TaskOK, Types,
     graceVars, roomVars, offerVars, sideVars, Turned, SignInSteps
<1>13. ASSUME NEW s \in Sockets, Replaced(s) PROVE TasksOK'
  <2>1. PICK r : Turned(s, r) /\ r.pc = "stop" /\ r.job = task[s].job
    BY <1>13, ReplacedIs DEF Replaced
  <2>2. task[s].pc = "await" /\ conn' = conn /\ dis' = dis /\ userSocket' = userSocket
    BY <1>13 DEF Replaced
  <2> QED BY <2>1, <2>2 DEF TasksOK, TaskOK, Turned, Types, SignInSteps
<1>14. ASSUME NEW s \in Sockets, StopGrace(s) PROVE TasksOK'
  BY <1>14, GoesIs, StoppedIs, StepNames DEF StopGrace, TasksOK, TaskOK, Types, roomVars,
     offerVars, sideVars, Turned, SignInSteps
<1>15. ASSUME NEW s \in Sockets, AwaitLapse(s) PROVE TasksOK'
  BY <1>15, GoesIs, StepNames DEF AwaitLapse, TasksOK, TaskOK, Types, graceVars, roomVars,
     offerVars, sideVars, Turned, SignInSteps
<1>16. ASSUME NEW s \in Sockets, Find(s) PROVE TasksOK'
  <2>0. task[s].room \in Rooms \cup {None} /\ seat.room \in Rooms \cup {None}
    BY DEF Types, TaskType, SeatType
  <2>1. PICK r : Turned(s, r) /\ (r.pc = "track" \/ (r.pc = "ready" /\ r.job = "none"))
    BY <1>16, GoesToIs, DoneIs, StepNames, <2>0 DEF Find
  <2>2. task[s].pc = "find" /\ conn' = conn /\ dis' = dis /\ userSocket' = userSocket
    BY <1>16 DEF Find
  <2> QED BY <2>1, <2>2 DEF TasksOK, TaskOK, Turned, Types, SignInSteps
<1>17. ASSUME NEW s \in Sockets, Track(s) PROVE TasksOK'
  BY <1>17, GoesIs, DoneIs, StepNames DEF Track, TasksOK, TaskOK, Types, graceVars,
     offerVars, sideVars, Turned, SignInSteps
<1>18. ASSUME NEW s \in Sockets, Mark(s) PROVE TasksOK'
  BY <1>18, GoesIs, DoneIs, MarkedIs, StepNames DEF Mark, TasksOK, TaskOK, Types, graceVars,
     offerVars, sideVars, Turned, SignInSteps
<1>19. ASSUME NEW s \in Sockets, Check(s) PROVE TasksOK'
  BY <1>19, CheckIs, DoneIs DEF Check, TasksOK, TaskOK, Types, graceVars, roomVars,
     offerVars, sideVars, Turned, SignInSteps
<1>20. ASSUME NEW s \in Sockets, HandTrack(s) PROVE TasksOK'
  BY <1>20, GoesIs, StepNames DEF HandTrack, TasksOK, TaskOK, Types, graceVars, offerVars,
     sideVars, Turned, SignInSteps
<1>21. ASSUME NEW s \in Sockets, HandMark(s) PROVE TasksOK'
  BY <1>21, DoneIs, MarkedIs DEF HandMark, TasksOK, TaskOK, Types, graceVars, offerVars,
     sideVars, Turned, SignInSteps
<1>22. ASSUME NEW s \in Sockets, Untrack(s) PROVE TasksOK'
  BY <1>22, GoesIs, StepNames DEF Untrack, TasksOK, TaskOK, Types, graceVars, offerVars,
     sideVars, Turned, SignInSteps
<1>23. ASSUME NEW s \in Sockets, Unmark(s) PROVE TasksOK'
  BY <1>23, GoesIs, MarkedIs, StepNames DEF Unmark, TasksOK, TaskOK, Types, graceVars,
     offerVars, sideVars, Turned, SignInSteps
<1>24. ASSUME NEW s \in Sockets, Hold(s) PROVE TasksOK'
  BY <1>24, DoneIs, HoldSeatIs DEF Hold, TasksOK, TaskOK, Types, roomVars, offerVars,
     sideVars, Turned, SignInSteps
<1>25. ASSUME NEW s \in Sockets, Sit(s) PROVE TasksOK'
  BY <1>25, DoneIs, GoesToIs, StepNames DEF Sit, TasksOK, TaskOK, Types, graceVars,
     sideVars, Turned, SignInSteps
<1>26. ASSUME NEW s \in Sockets, StopListening(s) PROVE TasksOK'
  BY <1>26, GoesIs, StepNames DEF StopListening, TasksOK, TaskOK, Types, graceVars,
     offerVars, sideVars, Turned, SignInSteps
<1>27. ASSUME NEW s \in Sockets, Switch(s) PROVE TasksOK'
  BY <1>27, GoesIs, GoesToIs, StepNames DEF Switch, TasksOK, TaskOK, Types, graceVars,
     offerVars, sideVars, Turned, SignInSteps
<1>28. ASSUME NEW s \in Sockets, SwitchBack(s) PROVE TasksOK'
  BY <1>28, DoneIs DEF SwitchBack, TasksOK, TaskOK, Types, graceVars, offerVars, sideVars,
     Turned, SignInSteps
<1>29. ASSUME NEW s \in Sockets, ListenOnly(s) PROVE TasksOK'
  BY <1>29, GoesIs, StepNames DEF ListenOnly, TasksOK, TaskOK, Types, graceVars, offerVars,
     sideVars, Turned, SignInSteps
<1>30. ASSUME NEW s \in Sockets, Leave(s) PROVE TasksOK'
  BY <1>30, DoneIs, GoesIs, StepNames DEF Leave, NoSeat, TasksOK, TaskOK, Types, graceVars,
     offerVars, sideVars, Turned, SignInSteps
<1>31. ASSUME NEW s \in Sockets, ListenNowhere(s) PROVE TasksOK'
  BY <1>31, DoneIs DEF ListenNowhere, TasksOK, TaskOK, Types, graceVars, offerVars,
     sideVars, Turned, SignInSteps
<1>32. ASSUME NEW s \in Sockets, Drop(s) PROVE TasksOK'
  BY <1>32, CutsIs DEF Drop, TasksOK, TaskOK, Types, graceVars, roomVars, offerVars,
     sideVars
<1>33. ASSUME NEW s \in Sockets, Forget(s) PROVE TasksOK'
  BY <1>33, ForgetIs, StepNames DEF Forget, TasksOK, TaskOK, Types, graceVars, roomVars,
     offerVars, sideVars, Left
<1>34. ASSUME NEW s \in Sockets, FindLeft(s) PROVE TasksOK'
  BY <1>34, FindLeftIs DEF FindLeft, TasksOK, TaskOK, Types, graceVars, roomVars, offerVars,
     sideVars, Left
<1>35. ASSUME NEW s \in Sockets, UntrackLeft(s) PROVE TasksOK'
  BY <1>35, ForgetIs, StepNames DEF UntrackLeft, TasksOK, TaskOK, Types, graceVars,
     offerVars, sideVars, Left
<1>36. ASSUME NEW s \in Sockets, MarkLeft(s) PROVE TasksOK'
  BY <1>36, ForgetIs, MarkedIs, StepNames DEF MarkLeft, TasksOK, TaskOK, Types, graceVars,
     offerVars, sideVars, Left
<1>37. ASSUME NEW s \in Sockets, HoldLeft(s) PROVE TasksOK'
  BY <1>37, GoneIs, HoldSeatIs DEF HoldLeft, TasksOK, TaskOK, Types, roomVars, offerVars,
     sideVars, Left
<1>38. ASSUME NEW s \in Sockets, NEW request \in Joins \cup {"switch", "leave"},
             Ask(s, request)
      PROVE TasksOK'
  <2>1. PICK r : Turned(s, r) /\ r.pc = "asked"
    BY <1>38, AskIs DEF Ask
  <2>2. task[s].pc = "ready" /\ conn' = conn /\ dis' = dis /\ userSocket' = userSocket
    BY <1>38 DEF Ask
  <2> QED BY <2>1, <2>2 DEF TasksOK, TaskOK, Turned, Types, SignInSteps
<1>39. ASSUME NEW t \in Timers, Fire(t) PROVE TasksOK'
  BY <1>39 DEF Fire, TasksOK, TaskOK, Types, roomVars, offerVars, sideVars
<1>40. ASSUME NEW t \in Timers, Expire(t) PROVE TasksOK'
  BY <1>40 DEF Expire, TasksOK, TaskOK, Types, roomVars, offerVars, sideVars
<1>41. ASSUME NEW t \in Timers, PutOffer(t) PROVE TasksOK'
  BY <1>41 DEF PutOffer, Ended, TasksOK, TaskOK, Types, roomVars, sideVars
<1>42. ASSUME NEW t \in Timers, LapseLeave(t) PROVE TasksOK'
  BY <1>42 DEF LapseLeave, Ended, NoSeat, TasksOK, TaskOK, Types, sideVars
<1>43. ASSUME EndSession PROVE TasksOK'
  BY <1>43, CutsIs DEF EndSession, TasksOK, TaskOK, Types, graceVars, roomVars, offerVars,
     sideVars
<1>44. ASSUME KickAsked PROVE TasksOK'
  BY <1>44 DEF KickAsked, TasksOK, TaskOK, Types, graceVars, roomVars, offerVars
<1>45. ASSUME KickLeave PROVE TasksOK'
  BY <1>45 DEF KickLeave, NoSeat, NoKick, TasksOK, TaskOK, Types, graceVars, offerVars
<1>46. ASSUME KickLook PROVE TasksOK'
  BY <1>46 DEF KickLook, TasksOK, TaskOK, Types, graceVars, roomVars, offerVars
<1>47. ASSUME KickDrop PROVE TasksOK'
  BY <1>47, StoppedIs DEF KickDrop, TasksOK, TaskOK, Types, roomVars, offerVars
<1>48. ASSUME KickFinish PROVE TasksOK'
  BY <1>48 DEF KickFinish, NoKick, TasksOK, TaskOK, Types, graceVars
<1>49. ASSUME Move PROVE TasksOK'
  BY <1>49 DEF Move, TasksOK, TaskOK, Types, graceVars, offerVars
<1>50. ASSUME MoveLook PROVE TasksOK'
  BY <1>50 DEF MoveLook, TasksOK, TaskOK, Types, graceVars, roomVars, offerVars
<1>51. ASSUME MoveFollow PROVE TasksOK'
  BY <1>51 DEF MoveFollow, TasksOK, TaskOK, Types, graceVars, offerVars
<1>52. ASSUME MoveAgain PROVE TasksOK'
  BY <1>52 DEF MoveAgain, TasksOK, TaskOK, Types, graceVars, offerVars
<1>53. ASSUME MoveMark PROVE TasksOK'
  BY <1>53, MarkedIs DEF MoveMark, TasksOK, TaskOK, Types, graceVars, offerVars
<1>54. ASSUME UNCHANGED vars PROVE TasksOK'
  BY <1>54 DEF vars, TasksOK, TaskOK, Types, graceVars, roomVars, offerVars, sideVars,
     Turned, Left, SignInSteps
<1> QED BY <1>11, <1>12, <1>13, <1>14, <1>15, <1>16, <1>17, <1>18, <1>19, <1>20, <1>21,
       <1>22, <1>23, <1>24, <1>25, <1>26, <1>27, <1>28, <1>29, <1>30, <1>31, <1>32, <1>33,
       <1>34, <1>35, <1>36, <1>37, <1>38, <1>39, <1>40, <1>41, <1>42, <1>43, <1>44, <1>45,
       <1>46, <1>47, <1>48, <1>49, <1>50, <1>51, <1>52, <1>53, <1>54, Zenon DEF Next,
       HandlerStep, DisconnectStep, GraceStep, KickStep, MoveStep

\* One lapse at a time; the one that may take the seat is published, and the account's
\* socket, if it has any, is signing in and waits for it.
LapseOK ==
    /\ \A t, u \in Timers : timer[t] \in Lapses /\ timer[u] \in Lapses => t = u
    /\ \A t \in Timers : timer[t] \in {"look", "leave"} =>
          /\ lapsing = t
          /\ userSocket # None => /\ task[userSocket].lapse = t
                                 /\ task[userSocket].pc \in WaitsForLapse

\* Every step keeps the lapse in progress published, and its account's sign-in waiting.
LEMMA LapseStep == Types /\ TasksOK /\ LapseOK /\ [Next]_vars => LapseOK'
<1> SUFFICES ASSUME Types, TasksOK, LapseOK, [Next]_vars PROVE LapseOK'
  OBVIOUS
<1> USE SessionsAssumption
<1>11. ASSUME NEW s \in Sockets, SignIn(s) PROVE LapseOK'
  BY <1>11, SignInIs DEF SignIn, LapseOK, Types, graceVars, roomVars, offerVars, sideVars,
     Turned, Lapses, WaitsForLapse
<1>12. ASSUME NEW s \in Sockets, Replace(s) PROVE LapseOK'
  BY <1>12, GoesIs, CutsIs, TaskSock, StepNames DEF Replace, LapseOK, Types, graceVars,
     roomVars, offerVars, sideVars, Turned, Lapses, WaitsForLapse
<1>13. ASSUME NEW s \in Sockets, Replaced(s) PROVE LapseOK'
  BY <1>13, ReplacedIs DEF Replaced, LapseOK, Types, graceVars, roomVars, offerVars,
     sideVars, Turned, Lapses, WaitsForLapse
<1>14. ASSUME NEW s \in Sockets, StopGrace(s) PROVE LapseOK'
  BY <1>14, GoesIs, StoppedIs, StepNames DEF StopGrace, LapseOK, Types, roomVars, offerVars,
     sideVars, Turned, Lapses, WaitsForLapse
<1>15. ASSUME NEW s \in Sockets, AwaitLapse(s) PROVE LapseOK'
  <2>1. PICK r : Turned(s, r)
    BY <1>15, GoesIs, StepNames DEF AwaitLapse
  <2>2. /\ task[s].lapse # 0 => timer[task[s].lapse] = "over"
        /\ timer' = timer /\ lapsing' = lapsing /\ userSocket' = userSocket
    BY <1>15 DEF AwaitLapse, graceVars
  <2>3. ASSUME NEW t \in Timers, timer[t] \in {"look", "leave"} PROVE userSocket # s
    <3>1. t # 0
      BY SessionsAssumption DEF Timers
    <3> QED BY <2>2, <2>3, <3>1, SessionsAssumption DEF LapseOK
  <2> QED BY <2>1, <2>2, <2>3 DEF LapseOK, Types, Turned
<1>16. ASSUME NEW s \in Sockets, Find(s) PROVE LapseOK'
  <2>0. task[s].room \in Rooms \cup {None} /\ seat.room \in Rooms \cup {None}
    BY DEF Types, TaskType, SeatType
  <2>1. PICK r : Turned(s, r)
    BY <1>16, <2>0, GoesToIs, DoneIs, StepNames DEF Find
  <2>2. task[s].pc = "find" /\ timer' = timer /\ lapsing' = lapsing /\ userSocket' = userSocket
    BY <1>16 DEF Find, graceVars
  <2> QED BY <2>1, <2>2, SessionsAssumption DEF LapseOK, Types, Turned, WaitsForLapse
<1>17. ASSUME NEW s \in Sockets, Track(s) PROVE LapseOK'
  BY <1>17, GoesIs, DoneIs, StepNames DEF Track, LapseOK, Types, graceVars, offerVars,
     sideVars, Turned, Lapses, WaitsForLapse
<1>18. ASSUME NEW s \in Sockets, Mark(s) PROVE LapseOK'
  BY <1>18, GoesIs, DoneIs, MarkedIs, StepNames DEF Mark, LapseOK, Types, graceVars,
     offerVars, sideVars, Turned, Lapses, WaitsForLapse
<1>19. ASSUME NEW s \in Sockets, Check(s) PROVE LapseOK'
  BY <1>19, CheckIs, DoneIs DEF Check, LapseOK, Types, graceVars, roomVars, offerVars,
     sideVars, Turned, Lapses, WaitsForLapse
<1>20. ASSUME NEW s \in Sockets, HandTrack(s) PROVE LapseOK'
  BY <1>20, GoesIs, StepNames DEF HandTrack, LapseOK, Types, graceVars, offerVars, sideVars,
     Turned, Lapses, WaitsForLapse
<1>21. ASSUME NEW s \in Sockets, HandMark(s) PROVE LapseOK'
  BY <1>21, DoneIs, MarkedIs DEF HandMark, LapseOK, Types, graceVars, offerVars, sideVars,
     Turned, Lapses, WaitsForLapse
<1>22. ASSUME NEW s \in Sockets, Untrack(s) PROVE LapseOK'
  BY <1>22, GoesIs, StepNames DEF Untrack, LapseOK, Types, graceVars, offerVars, sideVars,
     Turned, Lapses, WaitsForLapse
<1>23. ASSUME NEW s \in Sockets, Unmark(s) PROVE LapseOK'
  BY <1>23, GoesIs, MarkedIs, StepNames DEF Unmark, LapseOK, Types, graceVars, offerVars,
     sideVars, Turned, Lapses, WaitsForLapse
<1>24. ASSUME NEW s \in Sockets, Hold(s) PROVE LapseOK'
  BY <1>24, DoneIs, HoldSeatIs DEF Hold, LapseOK, Types, roomVars, offerVars, sideVars,
     Turned, Lapses, WaitsForLapse
<1>25. ASSUME NEW s \in Sockets, Sit(s) PROVE LapseOK'
  BY <1>25, DoneIs, GoesToIs, StepNames DEF Sit, LapseOK, Types, graceVars, sideVars,
     Turned, Lapses, WaitsForLapse
<1>26. ASSUME NEW s \in Sockets, StopListening(s) PROVE LapseOK'
  BY <1>26, GoesIs, StepNames DEF StopListening, LapseOK, Types, graceVars, offerVars,
     sideVars, Turned, Lapses, WaitsForLapse
<1>27. ASSUME NEW s \in Sockets, Switch(s) PROVE LapseOK'
  BY <1>27, GoesIs, GoesToIs, StepNames DEF Switch, LapseOK, Types, graceVars, offerVars,
     sideVars, Turned, Lapses, WaitsForLapse
<1>28. ASSUME NEW s \in Sockets, SwitchBack(s) PROVE LapseOK'
  BY <1>28, DoneIs DEF SwitchBack, LapseOK, Types, graceVars, offerVars, sideVars, Turned,
     Lapses, WaitsForLapse
<1>29. ASSUME NEW s \in Sockets, ListenOnly(s) PROVE LapseOK'
  BY <1>29, GoesIs, StepNames DEF ListenOnly, LapseOK, Types, graceVars, offerVars,
     sideVars, Turned, Lapses, WaitsForLapse
<1>30. ASSUME NEW s \in Sockets, Leave(s) PROVE LapseOK'
  BY <1>30, DoneIs, GoesIs, StepNames DEF Leave, NoSeat, LapseOK, Types, graceVars,
     offerVars, sideVars, Turned, Lapses, WaitsForLapse
<1>31. ASSUME NEW s \in Sockets, ListenNowhere(s) PROVE LapseOK'
  BY <1>31, DoneIs DEF ListenNowhere, LapseOK, Types, graceVars, offerVars, sideVars,
     Turned, Lapses, WaitsForLapse
<1>32. ASSUME NEW s \in Sockets, Drop(s) PROVE LapseOK'
  BY <1>32, CutsIs DEF Drop, LapseOK, Types, graceVars, roomVars, offerVars, sideVars,
     Lapses, WaitsForLapse
<1>33. ASSUME NEW s \in Sockets, Forget(s) PROVE LapseOK'
  BY <1>33, ForgetIs, StepNames DEF Forget, LapseOK, Types, graceVars, roomVars, offerVars,
     sideVars, Lapses, WaitsForLapse
<1>34. ASSUME NEW s \in Sockets, FindLeft(s) PROVE LapseOK'
  BY <1>34, FindLeftIs DEF FindLeft, LapseOK, Types, graceVars, roomVars, offerVars,
     sideVars, Lapses, WaitsForLapse
<1>35. ASSUME NEW s \in Sockets, UntrackLeft(s) PROVE LapseOK'
  BY <1>35, ForgetIs, StepNames DEF UntrackLeft, LapseOK, Types, graceVars, offerVars,
     sideVars, Lapses, WaitsForLapse
<1>36. ASSUME NEW s \in Sockets, MarkLeft(s) PROVE LapseOK'
  BY <1>36, ForgetIs, MarkedIs, StepNames DEF MarkLeft, LapseOK, Types, graceVars,
     offerVars, sideVars, Lapses, WaitsForLapse
<1>37. ASSUME NEW s \in Sockets, HoldLeft(s) PROVE LapseOK'
  BY <1>37, GoneIs, HoldSeatIs DEF HoldLeft, LapseOK, Types, roomVars, offerVars, sideVars,
     Lapses, WaitsForLapse
<1>38. ASSUME NEW s \in Sockets, NEW request \in Joins \cup {"switch", "leave"},
             Ask(s, request)
      PROVE LapseOK'
  <2>1. PICK r : Turned(s, r)
    BY <1>38, AskIs
  <2>2. task[s].pc = "ready" /\ timer' = timer /\ lapsing' = lapsing /\ userSocket' = userSocket
    BY <1>38 DEF Ask, graceVars
  <2> QED BY <2>1, <2>2, SessionsAssumption DEF LapseOK, Types, Turned, WaitsForLapse
<1>39. ASSUME NEW t \in Timers, Fire(t) PROVE LapseOK'
  BY <1>39 DEF Fire, LapseOK, Types, roomVars, offerVars, sideVars, Lapses, WaitsForLapse
<1>40. ASSUME NEW t \in Timers, Expire(t) PROVE LapseOK'
  BY <1>40 DEF Expire, LapseOK, Types, roomVars, offerVars, sideVars, Lapses, WaitsForLapse
<1>41. ASSUME NEW t \in Timers, PutOffer(t) PROVE LapseOK'
  BY <1>41 DEF PutOffer, Ended, LapseOK, Types, roomVars, sideVars, Lapses, WaitsForLapse
<1>42. ASSUME NEW t \in Timers, LapseLeave(t) PROVE LapseOK'
  BY <1>42 DEF LapseLeave, Ended, NoSeat, LapseOK, Types, sideVars, Lapses, WaitsForLapse
<1>43. ASSUME EndSession PROVE LapseOK'
  BY <1>43, CutsIs DEF EndSession, LapseOK, Types, graceVars, roomVars, offerVars, sideVars,
     Lapses, WaitsForLapse
<1>44. ASSUME KickAsked PROVE LapseOK'
  BY <1>44 DEF KickAsked, LapseOK, Types, graceVars, roomVars, offerVars, Lapses,
     WaitsForLapse
<1>45. ASSUME KickLeave PROVE LapseOK'
  BY <1>45 DEF KickLeave, NoSeat, NoKick, LapseOK, Types, graceVars, offerVars, Lapses,
     WaitsForLapse
<1>46. ASSUME KickLook PROVE LapseOK'
  BY <1>46 DEF KickLook, LapseOK, Types, graceVars, roomVars, offerVars, Lapses,
     WaitsForLapse
<1>47. ASSUME KickDrop PROVE LapseOK'
  BY <1>47, StoppedIs DEF KickDrop, LapseOK, Types, roomVars, offerVars, Lapses,
     WaitsForLapse
<1>48. ASSUME KickFinish PROVE LapseOK'
  BY <1>48 DEF KickFinish, NoKick, LapseOK, Types, graceVars, Lapses, WaitsForLapse
<1>49. ASSUME Move PROVE LapseOK'
  BY <1>49 DEF Move, LapseOK, Types, graceVars, offerVars, Lapses, WaitsForLapse
<1>50. ASSUME MoveLook PROVE LapseOK'
  BY <1>50 DEF MoveLook, LapseOK, Types, graceVars, roomVars, offerVars, Lapses,
     WaitsForLapse
<1>51. ASSUME MoveFollow PROVE LapseOK'
  BY <1>51 DEF MoveFollow, LapseOK, Types, graceVars, offerVars, Lapses, WaitsForLapse
<1>52. ASSUME MoveAgain PROVE LapseOK'
  BY <1>52 DEF MoveAgain, LapseOK, Types, graceVars, offerVars, Lapses, WaitsForLapse
<1>53. ASSUME MoveMark PROVE LapseOK'
  BY <1>53, MarkedIs DEF MoveMark, LapseOK, Types, graceVars, offerVars, Lapses,
     WaitsForLapse
<1>54. ASSUME UNCHANGED vars PROVE LapseOK'
  BY <1>54 DEF vars, LapseOK, Types, graceVars, roomVars, offerVars, sideVars,
     Turned, Lapses, WaitsForLapse
<1> QED BY <1>11, <1>12, <1>13, <1>14, <1>15, <1>16, <1>17, <1>18, <1>19, <1>20, <1>21,
       <1>22, <1>23, <1>24, <1>25, <1>26, <1>27, <1>28, <1>29, <1>30, <1>31, <1>32, <1>33,
       <1>34, <1>35, <1>36, <1>37, <1>38, <1>39, <1>40, <1>41, <1>42, <1>43, <1>44, <1>45,
       <1>46, <1>47, <1>48, <1>49, <1>50, <1>51, <1>52, <1>53, <1>54, Zenon DEF Next,
       HandlerStep, DisconnectStep, GraceStep, KickStep, MoveStep

\* With one sign-in at a time, the one that runs is of the account's live socket;
\* any other live socket is the one it is about to replace; and a dead socket that
\* is still the account's is about to be forgotten.
SingleOK ==
    /\ \A s \in Sockets : SigningIn(s) => userSocket = s /\ conn[s]
    /\ \A s \in Sockets : conn[s] /\ s # userSocket =>
          userSocket # None /\ task[userSocket].pc = "replace" /\ task[userSocket].sock = s
    /\ userSocket # None /\ ~conn[userSocket] => dis[userSocket].pc = "forget"

\* Every step keeps the one sign-in that of the account's live socket.
LEMMA SingleStep == ~Overlap /\ Types /\ TasksOK /\ SingleOK /\ [Next]_vars => SingleOK'
<1> SUFFICES ASSUME ~Overlap, Types, TasksOK, SingleOK, [Next]_vars PROVE SingleOK'
  OBVIOUS
<1> USE SessionsAssumption
<1>11. ASSUME NEW s \in Sockets, SignIn(s) PROVE SingleOK'
  <2>1. PICK r : /\ Turned(s, r) /\ r.sock = userSocket
                 /\ r.pc = IF userSocket = None THEN "stop" ELSE "replace"
    BY <1>11, SignInIs
  <2>2. /\ task[s].pc = "off" /\ conn' = [conn EXCEPT ![s] = TRUE] /\ userSocket' = s /\ dis' = dis
        /\ \A u \in Sockets : ~SigningIn(u)
    BY <1>11 DEF SignIn
  <2>3. /\ conn' \in [Sockets -> BOOLEAN] /\ conn'[s]
        /\ \A u \in Sockets \ {s} : conn'[u] = conn[u]
    BY <2>2 DEF Types
  <2>4. ASSUME NEW u \in Sockets, conn[u] PROVE u = userSocket
    <3>1. ~(userSocket # None /\ task[userSocket].pc = "replace")
      BY <2>2 DEF SigningIn, TasksOK, TaskOK, SignInSteps, Types
    <3> QED BY <2>4, <3>1 DEF SingleOK
  <2>5. ASSUME NEW u \in Sockets, SigningIn(u)' PROVE u = s
    BY <2>1, <2>2, <2>5 DEF SigningIn, Turned
  <2>6. ASSUME NEW u \in Sockets, conn'[u], u # s
        PROVE  task'[s].pc = "replace" /\ task'[s].sock = u
    <3>1. u = userSocket /\ u # None
      BY <2>3, <2>4, <2>6, SessionsAssumption
    <3> QED BY <2>1, <3>1 DEF Turned
  <2>7. s # None
    BY SessionsAssumption
  <2> QED BY <2>2, <2>3, <2>5, <2>6, <2>7 DEF SingleOK
<1>12. ASSUME NEW s \in Sockets, Replace(s) PROVE SingleOK'
  BY <1>12, GoesIs, CutsIs, TaskSock, StepNames DEF Replace, SingleOK, SigningIn, TasksOK,
     TaskOK, Types, graceVars, roomVars, offerVars, sideVars, Turned, SignInSteps
<1>13. ASSUME NEW s \in Sockets, Replaced(s) PROVE SingleOK'
  <2>1. PICK r : Turned(s, r) /\ r.pc = "stop" /\ r.job = task[s].job
    BY <1>13, ReplacedIs
  <2>2. task[s].pc = "await" /\ conn' = conn /\ dis' = dis /\ userSocket' = userSocket
    BY <1>13 DEF Replaced
  <2> QED BY <2>1, <2>2 DEF SingleOK, SigningIn, TasksOK, TaskOK, Types, Turned, SignInSteps
<1>14. ASSUME NEW s \in Sockets, StopGrace(s) PROVE SingleOK'
  BY <1>14, GoesIs, StoppedIs, StepNames DEF StopGrace, SingleOK, SigningIn, TasksOK,
     TaskOK, Types, roomVars, offerVars, sideVars, Turned, SignInSteps
<1>15. ASSUME NEW s \in Sockets, AwaitLapse(s) PROVE SingleOK'
  BY <1>15, GoesIs, StepNames DEF AwaitLapse, SingleOK, SigningIn, TasksOK, TaskOK, Types,
     graceVars, roomVars, offerVars, sideVars, Turned, SignInSteps
<1>16. ASSUME NEW s \in Sockets, Find(s) PROVE SingleOK'
  <2>0. task[s].room \in Rooms \cup {None} /\ seat.room \in Rooms \cup {None}
    BY DEF Types, TaskType, SeatType
  <2>1. PICK r : Turned(s, r) /\ (r.pc = "track" \/ (r.pc = "ready" /\ r.job = "none"))
    BY <1>16, <2>0, GoesToIs, DoneIs, StepNames DEF Find
  <2>2. task[s].pc = "find" /\ conn' = conn /\ dis' = dis /\ userSocket' = userSocket
    BY <1>16 DEF Find
  <2>3. SigningIn(s)
    BY <2>2 DEF SigningIn, TasksOK, TaskOK, SignInSteps
  <2>4. userSocket = s /\ conn[s] /\ \A u \in Sockets \ {s} : ~conn[u] /\ ~SigningIn(u)
    BY <2>2, <2>3 DEF SingleOK
  <2>5. \A u \in Sockets \ {s} : SigningIn(u)' = SigningIn(u)
    BY <2>1 DEF SigningIn, Turned
  <2> QED BY <2>2, <2>4, <2>5 DEF SingleOK
<1>17. ASSUME NEW s \in Sockets, Track(s) PROVE SingleOK'
  BY <1>17, GoesIs, DoneIs, StepNames DEF Track, SingleOK, SigningIn, TasksOK, TaskOK,
     Types, graceVars, offerVars, sideVars, Turned, SignInSteps
<1>18. ASSUME NEW s \in Sockets, Mark(s) PROVE SingleOK'
  BY <1>18, GoesIs, DoneIs, MarkedIs, StepNames DEF Mark, SingleOK, SigningIn, TasksOK,
     TaskOK, Types, graceVars, offerVars, sideVars, Turned, SignInSteps
<1>19. ASSUME NEW s \in Sockets, Check(s) PROVE SingleOK'
  BY <1>19, CheckIs, DoneIs DEF Check, SingleOK, SigningIn, TasksOK, TaskOK, Types,
     graceVars, roomVars, offerVars, sideVars, Turned, SignInSteps
<1>20. ASSUME NEW s \in Sockets, HandTrack(s) PROVE SingleOK'
  BY <1>20, GoesIs, StepNames DEF HandTrack, SingleOK, SigningIn, TasksOK, TaskOK, Types,
     graceVars, offerVars, sideVars, Turned, SignInSteps
<1>21. ASSUME NEW s \in Sockets, HandMark(s) PROVE SingleOK'
  BY <1>21, DoneIs, MarkedIs DEF HandMark, SingleOK, SigningIn, TasksOK, TaskOK, Types,
     graceVars, offerVars, sideVars, Turned, SignInSteps
<1>22. ASSUME NEW s \in Sockets, Untrack(s) PROVE SingleOK'
  BY <1>22, GoesIs, StepNames DEF Untrack, SingleOK, SigningIn, TasksOK, TaskOK, Types,
     graceVars, offerVars, sideVars, Turned, SignInSteps
<1>23. ASSUME NEW s \in Sockets, Unmark(s) PROVE SingleOK'
  BY <1>23, GoesIs, MarkedIs, StepNames DEF Unmark, SingleOK, SigningIn, TasksOK, TaskOK,
     Types, graceVars, offerVars, sideVars, Turned, SignInSteps
<1>24. ASSUME NEW s \in Sockets, Hold(s) PROVE SingleOK'
  BY <1>24, DoneIs, HoldSeatIs DEF Hold, SingleOK, SigningIn, TasksOK, TaskOK, Types,
     roomVars, offerVars, sideVars, Turned, SignInSteps
<1>25. ASSUME NEW s \in Sockets, Sit(s) PROVE SingleOK'
  BY <1>25, DoneIs, GoesToIs, StepNames DEF Sit, SingleOK, SigningIn, TasksOK, TaskOK,
     Types, graceVars, sideVars, Turned, SignInSteps
<1>26. ASSUME NEW s \in Sockets, StopListening(s) PROVE SingleOK'
  BY <1>26, GoesIs, StepNames DEF StopListening, SingleOK, SigningIn, TasksOK, TaskOK,
     Types, graceVars, offerVars, sideVars, Turned, SignInSteps
<1>27. ASSUME NEW s \in Sockets, Switch(s) PROVE SingleOK'
  BY <1>27, GoesIs, GoesToIs, StepNames DEF Switch, SingleOK, SigningIn, TasksOK, TaskOK,
     Types, graceVars, offerVars, sideVars, Turned, SignInSteps
<1>28. ASSUME NEW s \in Sockets, SwitchBack(s) PROVE SingleOK'
  BY <1>28, DoneIs DEF SwitchBack, SingleOK, SigningIn, TasksOK, TaskOK, Types, graceVars,
     offerVars, sideVars, Turned, SignInSteps
<1>29. ASSUME NEW s \in Sockets, ListenOnly(s) PROVE SingleOK'
  BY <1>29, GoesIs, StepNames DEF ListenOnly, SingleOK, SigningIn, TasksOK, TaskOK, Types,
     graceVars, offerVars, sideVars, Turned, SignInSteps
<1>30. ASSUME NEW s \in Sockets, Leave(s) PROVE SingleOK'
  BY <1>30, DoneIs, GoesIs, StepNames DEF Leave, NoSeat, SingleOK, SigningIn, TasksOK,
     TaskOK, Types, graceVars, offerVars, sideVars, Turned, SignInSteps
<1>31. ASSUME NEW s \in Sockets, ListenNowhere(s) PROVE SingleOK'
  BY <1>31, DoneIs DEF ListenNowhere, SingleOK, SigningIn, TasksOK, TaskOK, Types,
     graceVars, offerVars, sideVars, Turned, SignInSteps
<1>32. ASSUME NEW s \in Sockets, Drop(s) PROVE SingleOK'
  BY <1>32, CutsIs DEF Drop, SingleOK, SigningIn, TasksOK, TaskOK, Types, graceVars,
     roomVars, offerVars, sideVars
<1>33. ASSUME NEW s \in Sockets, Forget(s) PROVE SingleOK'
  BY <1>33, ForgetIs, StepNames DEF Forget, SingleOK, SigningIn, TasksOK, TaskOK, Types,
     graceVars, roomVars, offerVars, sideVars, Left, SignInSteps
<1>34. ASSUME NEW s \in Sockets, FindLeft(s) PROVE SingleOK'
  BY <1>34, FindLeftIs DEF FindLeft, SingleOK, SigningIn, TasksOK, TaskOK, Types, graceVars,
     roomVars, offerVars, sideVars, Left
<1>35. ASSUME NEW s \in Sockets, UntrackLeft(s) PROVE SingleOK'
  BY <1>35, ForgetIs, StepNames DEF UntrackLeft, SingleOK, SigningIn, TasksOK, TaskOK,
     Types, graceVars, offerVars, sideVars, Left
<1>36. ASSUME NEW s \in Sockets, MarkLeft(s) PROVE SingleOK'
  BY <1>36, ForgetIs, MarkedIs, StepNames DEF MarkLeft, SingleOK, SigningIn, TasksOK,
     TaskOK, Types, graceVars, offerVars, sideVars, Left
<1>37. ASSUME NEW s \in Sockets, HoldLeft(s) PROVE SingleOK'
  BY <1>37, GoneIs, HoldSeatIs DEF HoldLeft, SingleOK, SigningIn, TasksOK, TaskOK, Types,
     roomVars, offerVars, sideVars, Left
<1>38. ASSUME NEW s \in Sockets, NEW request \in Joins \cup {"switch", "leave"},
             Ask(s, request)
      PROVE SingleOK'
  <2>1. PICK r : Turned(s, r) /\ r.job = request
    BY <1>38, AskIs
  <2>2. task[s].pc = "ready" /\ conn' = conn /\ dis' = dis /\ userSocket' = userSocket
    BY <1>38 DEF Ask
  <2>3. request # "signin"
    BY SessionsAssumption
  <2> QED BY <2>1, <2>2, <2>3 DEF SingleOK, SigningIn, TasksOK, TaskOK, Types, Turned, SignInSteps
<1>39. ASSUME NEW t \in Timers, Fire(t) PROVE SingleOK'
  BY <1>39 DEF Fire, SingleOK, SigningIn, TasksOK, TaskOK, Types, roomVars, offerVars,
     sideVars
<1>40. ASSUME NEW t \in Timers, Expire(t) PROVE SingleOK'
  BY <1>40 DEF Expire, SingleOK, SigningIn, TasksOK, TaskOK, Types, roomVars, offerVars,
     sideVars
<1>41. ASSUME NEW t \in Timers, PutOffer(t) PROVE SingleOK'
  BY <1>41 DEF PutOffer, Ended, SingleOK, SigningIn, TasksOK, TaskOK, Types, roomVars,
     sideVars
<1>42. ASSUME NEW t \in Timers, LapseLeave(t) PROVE SingleOK'
  BY <1>42 DEF LapseLeave, Ended, NoSeat, SingleOK, SigningIn, TasksOK, TaskOK, Types,
     sideVars
<1>43. ASSUME EndSession PROVE SingleOK'
  BY <1>43, CutsIs DEF EndSession, SingleOK, SigningIn, TasksOK, TaskOK, Types, graceVars,
     roomVars, offerVars, sideVars
<1>44. ASSUME KickAsked PROVE SingleOK'
  BY <1>44 DEF KickAsked, SingleOK, SigningIn, TasksOK, TaskOK, Types, graceVars, roomVars,
     offerVars
<1>45. ASSUME KickLeave PROVE SingleOK'
  BY <1>45 DEF KickLeave, NoSeat, NoKick, SingleOK, SigningIn, TasksOK, TaskOK, Types,
     graceVars, offerVars
<1>46. ASSUME KickLook PROVE SingleOK'
  BY <1>46 DEF KickLook, SingleOK, SigningIn, TasksOK, TaskOK, Types, graceVars, roomVars,
     offerVars
<1>47. ASSUME KickDrop PROVE SingleOK'
  BY <1>47, StoppedIs DEF KickDrop, SingleOK, SigningIn, TasksOK, TaskOK, Types, roomVars,
     offerVars
<1>48. ASSUME KickFinish PROVE SingleOK'
  BY <1>48 DEF KickFinish, NoKick, SingleOK, SigningIn, TasksOK, TaskOK, Types, graceVars
<1>49. ASSUME Move PROVE SingleOK'
  BY <1>49 DEF Move, SingleOK, SigningIn, TasksOK, TaskOK, Types, graceVars, offerVars
<1>50. ASSUME MoveLook PROVE SingleOK'
  BY <1>50 DEF MoveLook, SingleOK, SigningIn, TasksOK, TaskOK, Types, graceVars, roomVars,
     offerVars
<1>51. ASSUME MoveFollow PROVE SingleOK'
  BY <1>51 DEF MoveFollow, SingleOK, SigningIn, TasksOK, TaskOK, Types, graceVars, offerVars
<1>52. ASSUME MoveAgain PROVE SingleOK'
  BY <1>52 DEF MoveAgain, SingleOK, SigningIn, TasksOK, TaskOK, Types, graceVars, offerVars
<1>53. ASSUME MoveMark PROVE SingleOK'
  BY <1>53, MarkedIs DEF MoveMark, SingleOK, SigningIn, TasksOK, TaskOK, Types, graceVars,
     offerVars
<1>54. ASSUME UNCHANGED vars PROVE SingleOK'
  BY <1>54 DEF vars, SingleOK, SigningIn, TasksOK, TaskOK, Types, graceVars, roomVars, offerVars, sideVars,
     Turned, Left, SignInSteps
<1> QED BY <1>11, <1>12, <1>13, <1>14, <1>15, <1>16, <1>17, <1>18, <1>19, <1>20, <1>21,
       <1>22, <1>23, <1>24, <1>25, <1>26, <1>27, <1>28, <1>29, <1>30, <1>31, <1>32, <1>33,
       <1>34, <1>35, <1>36, <1>37, <1>38, <1>39, <1>40, <1>41, <1>42, <1>43, <1>44, <1>45,
       <1>46, <1>47, <1>48, <1>49, <1>50, <1>51, <1>52, <1>53, <1>54, Zenon DEF Next,
       HandlerStep, DisconnectStep, GraceStep, KickStep, MoveStep

\* With one sign-in at a time, a seat that is about to lapse, or has lapsed with
\* nobody looking since, has its offer in the store.
OffersOK ==
    /\ lapsed => offer # None
    /\ \A t \in Timers : timer[t] = "leave" => offer # None

\* Every step keeps the offer of a seat that lapses.
LEMMA OffersStep ==
  ~Overlap /\ Types /\ TasksOK /\ LapseOK /\ SingleOK /\ OffersOK /\ [Next]_vars => OffersOK'
<1> SUFFICES ASSUME ~Overlap, Types, TasksOK, LapseOK, SingleOK, OffersOK, [Next]_vars
             PROVE  OffersOK'
  OBVIOUS
<1> USE SessionsAssumption
<1>11. ASSUME NEW s \in Sockets, SignIn(s) PROVE OffersOK'
  BY <1>11 DEF SignIn, OffersOK, Types, graceVars, offerVars, roomVars, sideVars
<1>12. ASSUME NEW s \in Sockets, Replace(s) PROVE OffersOK'
  BY <1>12 DEF Replace, OffersOK, Types, graceVars, offerVars, roomVars, sideVars
<1>13. ASSUME NEW s \in Sockets, Replaced(s) PROVE OffersOK'
  BY <1>13 DEF Replaced, OffersOK, Types, graceVars, offerVars, roomVars, sideVars
<1>14. ASSUME NEW s \in Sockets, StopGrace(s) PROVE OffersOK'
  BY <1>14, StoppedIs DEF StopGrace, OffersOK, Types, offerVars, roomVars, sideVars
<1>15. ASSUME NEW s \in Sockets, AwaitLapse(s) PROVE OffersOK'
  BY <1>15 DEF AwaitLapse, OffersOK, Types, graceVars, offerVars, roomVars, sideVars
<1>16. ASSUME NEW s \in Sockets, Find(s) PROVE OffersOK'
  <2>1. task[s].pc = "find" /\ timer' = timer /\ lapsed' = FALSE
    BY <1>16 DEF Find, graceVars
  <2>2. SigningIn(s)
    BY <2>1 DEF SigningIn, TasksOK, TaskOK, SignInSteps
  <2>3. userSocket = s /\ userSocket # None
    BY <2>2, SessionsAssumption DEF SingleOK
  <2>4. \A t \in Timers : timer[t] # "leave"
    BY <2>1, <2>3 DEF LapseOK, WaitsForLapse
  <2> QED BY <2>1, <2>4 DEF OffersOK
<1>17. ASSUME NEW s \in Sockets, Track(s) PROVE OffersOK'
  BY <1>17 DEF Track, OffersOK, Types, graceVars, offerVars, sideVars
<1>18. ASSUME NEW s \in Sockets, Mark(s) PROVE OffersOK'
  BY <1>18 DEF Mark, OffersOK, Types, graceVars, offerVars, sideVars
<1>19. ASSUME NEW s \in Sockets, Check(s) PROVE OffersOK'
  BY <1>19 DEF Check, OffersOK, Types, graceVars, offerVars, roomVars, sideVars
<1>20. ASSUME NEW s \in Sockets, HandTrack(s) PROVE OffersOK'
  BY <1>20 DEF HandTrack, OffersOK, Types, graceVars, offerVars, sideVars
<1>21. ASSUME NEW s \in Sockets, HandMark(s) PROVE OffersOK'
  BY <1>21 DEF HandMark, OffersOK, Types, graceVars, offerVars, sideVars
<1>22. ASSUME NEW s \in Sockets, Untrack(s) PROVE OffersOK'
  BY <1>22 DEF Untrack, OffersOK, Types, graceVars, offerVars, sideVars
<1>23. ASSUME NEW s \in Sockets, Unmark(s) PROVE OffersOK'
  BY <1>23 DEF Unmark, OffersOK, Types, graceVars, offerVars, sideVars
<1>24. ASSUME NEW s \in Sockets, Hold(s) PROVE OffersOK'
  BY <1>24, HoldSeatIs DEF Hold, OffersOK, Types, offerVars, roomVars, sideVars
<1>25. ASSUME NEW s \in Sockets, Sit(s) PROVE OffersOK'
  BY <1>25 DEF Sit, OffersOK, Types, graceVars, sideVars
<1>26. ASSUME NEW s \in Sockets, StopListening(s) PROVE OffersOK'
  BY <1>26 DEF StopListening, OffersOK, Types, graceVars, offerVars, sideVars
<1>27. ASSUME NEW s \in Sockets, Switch(s) PROVE OffersOK'
  BY <1>27 DEF Switch, OffersOK, Types, graceVars, offerVars, sideVars
<1>28. ASSUME NEW s \in Sockets, SwitchBack(s) PROVE OffersOK'
  BY <1>28 DEF SwitchBack, OffersOK, Types, graceVars, offerVars, sideVars
<1>29. ASSUME NEW s \in Sockets, ListenOnly(s) PROVE OffersOK'
  BY <1>29 DEF ListenOnly, OffersOK, Types, graceVars, offerVars, sideVars
<1>30. ASSUME NEW s \in Sockets, Leave(s) PROVE OffersOK'
  BY <1>30 DEF Leave, NoSeat, OffersOK, Types, graceVars, offerVars, sideVars
<1>31. ASSUME NEW s \in Sockets, ListenNowhere(s) PROVE OffersOK'
  BY <1>31 DEF ListenNowhere, OffersOK, Types, graceVars, offerVars, sideVars
<1>32. ASSUME NEW s \in Sockets, Drop(s) PROVE OffersOK'
  BY <1>32 DEF Drop, OffersOK, Types, graceVars, offerVars, roomVars, sideVars
<1>33. ASSUME NEW s \in Sockets, Forget(s) PROVE OffersOK'
  BY <1>33 DEF Forget, OffersOK, Types, graceVars, offerVars, roomVars, sideVars
<1>34. ASSUME NEW s \in Sockets, FindLeft(s) PROVE OffersOK'
  BY <1>34 DEF FindLeft, OffersOK, Types, graceVars, offerVars, roomVars, sideVars
<1>35. ASSUME NEW s \in Sockets, UntrackLeft(s) PROVE OffersOK'
  BY <1>35 DEF UntrackLeft, OffersOK, Types, graceVars, offerVars, sideVars
<1>36. ASSUME NEW s \in Sockets, MarkLeft(s) PROVE OffersOK'
  BY <1>36 DEF MarkLeft, OffersOK, Types, graceVars, offerVars, sideVars
<1>37. ASSUME NEW s \in Sockets, HoldLeft(s) PROVE OffersOK'
  BY <1>37, HoldSeatIs DEF HoldLeft, OffersOK, Types, offerVars, roomVars, sideVars
<1>38. ASSUME NEW s \in Sockets, NEW request \in Joins \cup {"switch", "leave"},
             Ask(s, request)
      PROVE OffersOK'
  BY <1>38 DEF Ask, OffersOK, Types, graceVars, offerVars, roomVars
<1>39. ASSUME NEW t \in Timers, Fire(t) PROVE OffersOK'
  BY <1>39 DEF Fire, OffersOK, Types, offerVars, roomVars, sideVars
<1>40. ASSUME NEW t \in Timers, Expire(t) PROVE OffersOK'
  BY <1>40 DEF Expire, OffersOK, Types, offerVars, roomVars, sideVars
<1>41. ASSUME NEW t \in Timers, PutOffer(t) PROVE OffersOK'
  BY <1>41 DEF PutOffer, Ended, OffersOK, Types, roomVars, sideVars
<1>42. ASSUME NEW t \in Timers, LapseLeave(t) PROVE OffersOK'
  BY <1>42 DEF LapseLeave, Ended, NoSeat, OffersOK, Types, sideVars
<1>43. ASSUME EndSession PROVE OffersOK'
  BY <1>43 DEF EndSession, OffersOK, Types, graceVars, offerVars, roomVars, sideVars
<1>44. ASSUME KickAsked PROVE OffersOK'
  BY <1>44 DEF KickAsked, OffersOK, Types, graceVars, offerVars, roomVars
<1>45. ASSUME KickLeave PROVE OffersOK'
  BY <1>45 DEF KickLeave, NoSeat, NoKick, OffersOK, Types, graceVars, offerVars
<1>46. ASSUME KickLook PROVE OffersOK'
  BY <1>46 DEF KickLook, OffersOK, Types, graceVars, offerVars, roomVars
<1>47. ASSUME KickDrop PROVE OffersOK'
  BY <1>47, StoppedIs DEF KickDrop, OffersOK, Types, offerVars, roomVars
<1>48. ASSUME KickFinish PROVE OffersOK'
  BY <1>48 DEF KickFinish, NoKick, OffersOK, Types, graceVars
<1>49. ASSUME Move PROVE OffersOK'
  BY <1>49 DEF Move, OffersOK, Types, graceVars, offerVars
<1>50. ASSUME MoveLook PROVE OffersOK'
  BY <1>50 DEF MoveLook, OffersOK, Types, graceVars, offerVars, roomVars
<1>51. ASSUME MoveFollow PROVE OffersOK'
  BY <1>51 DEF MoveFollow, OffersOK, Types, graceVars, offerVars
<1>52. ASSUME MoveAgain PROVE OffersOK'
  BY <1>52 DEF MoveAgain, OffersOK, Types, graceVars, offerVars
<1>53. ASSUME MoveMark PROVE OffersOK'
  BY <1>53 DEF MoveMark, OffersOK, Types, graceVars, offerVars
<1>54. ASSUME UNCHANGED vars PROVE OffersOK'
  BY <1>54 DEF vars, OffersOK, Types, graceVars, offerVars, roomVars, sideVars
<1> QED BY <1>11, <1>12, <1>13, <1>14, <1>15, <1>16, <1>17, <1>18, <1>19, <1>20, <1>21,
       <1>22, <1>23, <1>24, <1>25, <1>26, <1>27, <1>28, <1>29, <1>30, <1>31, <1>32, <1>33,
       <1>34, <1>35, <1>36, <1>37, <1>38, <1>39, <1>40, <1>41, <1>42, <1>43, <1>44, <1>45,
       <1>46, <1>47, <1>48, <1>49, <1>50, <1>51, <1>52, <1>53, <1>54, Zenon DEF Next,
       HandlerStep, DisconnectStep, GraceStep, KickStep, MoveStep

\* A socket whose disconnect has still to look for the seat or to hold it, or whose
\* request, outlived by it, has still to end in a hold.
Busy(s) ==
    \/ dis[s].pc \in {"find", "untrack", "mark", "hold"}
    \/ task[s].pc \in {"untrack", "unmark", "hold"}
    \/ ~conn[s] /\ task[s].pc \in {"moved", "track", "mark", "check"}

\* Somebody has a seat in hand: the account's socket, the timer recorded, a lapse
\* in progress, or a busy socket.
Held ==
    \/ userSocket # None
    \/ pending # 0 /\ timer[pending] = "armed"
    \/ \E t \in Timers : timer[t] \in Lapses
    \/ \E s \in Sockets : Busy(s)

Watched == seat.room # None /\ spent.kick = 0 => Held

\* Every step leaves a seat in somebody's hands.
LEMMA WatchedStep ==
  /\ ~Overlap /\ "create" \notin Joins
  /\ Types /\ TasksOK /\ SingleOK /\ Watched /\ [Next]_vars
  => Watched'
<1> SUFFICES ASSUME ~Overlap, "create" \notin Joins, Types, TasksOK, SingleOK, Watched, [Next]_vars
             PROVE  Watched'
  OBVIOUS
<1> USE SessionsAssumption
<1>11. ASSUME NEW s \in Sockets, SignIn(s) PROVE Watched'
  BY <1>11, SessionsAssumption DEF SignIn, Watched, Held
<1>12. ASSUME NEW s \in Sockets, Replace(s) PROVE Watched'
  BY <1>12, GoesIs, CutsIs, TaskSock, StepNames DEF Replace, Watched, Held, Busy, SingleOK,
     SigningIn, TasksOK, TaskOK, Types, graceVars, roomVars, offerVars, sideVars, Turned,
     SignInSteps, Lapses
<1>13. ASSUME NEW s \in Sockets, Replaced(s) PROVE Watched'
  <2>1. PICK r : Turned(s, r)
    BY <1>13, ReplacedIs DEF Replaced
  <2>2. /\ task[s].pc = "await" /\ userSocket' = userSocket
        /\ pending' = pending /\ timer' = timer /\ conn' = conn /\ dis' = dis
        /\ seat' = seat /\ spent' = spent
    BY <1>13, MarkedIs DEF Replaced, graceVars, roomVars, sideVars, Types
  <2> HIDE DEF Watched
  <2>3. ASSUME Held PROVE Held'
    <3>1. \A u \in Sockets : Busy(u) => Busy(u)'
      BY <2>1, <2>2 DEF Busy, Turned
    <3> QED BY <2>2, <2>3, <3>1 DEF Held
  <2> QED BY <2>2, <2>3 DEF Watched
<1>14. ASSUME NEW s \in Sockets, StopGrace(s) PROVE Watched'
  BY <1>14, GoesIs, StoppedIs, StepNames DEF StopGrace, Watched, Held, Busy, SingleOK,
     SigningIn, TasksOK, TaskOK, Types, roomVars, offerVars, sideVars, Turned, SignInSteps,
     Lapses
<1>15. ASSUME NEW s \in Sockets, AwaitLapse(s) PROVE Watched'
  BY <1>15, GoesIs, StepNames DEF AwaitLapse, Watched, Held, Busy, SingleOK, SigningIn,
     TasksOK, TaskOK, Types, graceVars, roomVars, offerVars, sideVars, Turned, SignInSteps,
     Lapses
<1>16. ASSUME NEW s \in Sockets, Find(s) PROVE Watched'
  BY <1>16, GoesToIs, DoneIs, StepNames DEF Find, Watched, Held, Busy, SingleOK, SigningIn,
     TasksOK, TaskOK, Types, graceVars, roomVars, sideVars, Turned, SignInSteps, Lapses
<1>17. ASSUME NEW s \in Sockets, Track(s) PROVE Watched'
  <2>0. task[s].job # "create"
    BY DEF Types, TaskType, Jobs
  <2>1. PICK r : Turned(s, r) /\ r.pc = "mark"
    BY <1>17, <2>0, GoesIs, StepNames DEF Track
  <2>2. /\ task[s].pc = "track" /\ userSocket' = userSocket
        /\ pending' = pending /\ timer' = timer /\ conn' = conn /\ dis' = dis
        /\ seat' = seat /\ spent' = spent
    BY <1>17 DEF Track, graceVars, sideVars
  <2>3. \A u \in Sockets : Busy(u) => Busy(u)'
    BY <2>1, <2>2 DEF Busy, Turned
  <2> QED BY <2>2, <2>3 DEF Watched, Held
<1>18. ASSUME NEW s \in Sockets, Mark(s) PROVE Watched'
  BY <1>18, GoesIs, DoneIs, MarkedIs, StepNames DEF Mark, Watched, Held, Busy, SingleOK,
     SigningIn, TasksOK, TaskOK, Types, graceVars, offerVars, sideVars, Turned, SignInSteps,
     Lapses
<1>19. ASSUME NEW s \in Sockets, Check(s) PROVE Watched'
  BY <1>19, CheckIs, DoneIs DEF Check, Watched, Held, Busy, SingleOK, SigningIn, TasksOK,
     TaskOK, Types, graceVars, roomVars, offerVars, sideVars, Turned, SignInSteps, Lapses
<1>20. ASSUME NEW s \in Sockets, HandTrack(s) PROVE Watched'
  BY <1>20, GoesIs, StepNames DEF HandTrack, Watched, Held, Busy, SingleOK, SigningIn,
     TasksOK, TaskOK, Types, graceVars, offerVars, sideVars, Turned, SignInSteps, Lapses
<1>21. ASSUME NEW s \in Sockets, HandMark(s) PROVE Watched'
  <2>1. PICK r : Turned(s, r)
    BY <1>21, DoneIs DEF HandMark
  <2>2. /\ task[s].pc = "handMark" /\ userSocket' = userSocket
        /\ pending' = pending /\ timer' = timer /\ conn' = conn /\ dis' = dis
        /\ seat'.room = seat.room /\ spent' = spent
    BY <1>21, MarkedIs DEF HandMark, graceVars, roomVars, sideVars, Types
  <2> HIDE DEF Watched
  <2>3. ASSUME Held PROVE Held'
    <3>1. \A u \in Sockets : Busy(u) => Busy(u)'
      BY <2>1, <2>2 DEF Busy, Turned
    <3> QED BY <2>2, <2>3, <3>1 DEF Held
  <2> QED BY <2>2, <2>3 DEF Watched
<1>22. ASSUME NEW s \in Sockets, Untrack(s) PROVE Watched'
  BY <1>22, GoesIs, StepNames DEF Untrack, Watched, Held, Busy, SingleOK, SigningIn,
     TasksOK, TaskOK, Types, graceVars, offerVars, sideVars, Turned, SignInSteps, Lapses
<1>23. ASSUME NEW s \in Sockets, Unmark(s) PROVE Watched'
  BY <1>23, GoesIs, MarkedIs, StepNames DEF Unmark, Watched, Held, Busy, SingleOK,
     SigningIn, TasksOK, TaskOK, Types, graceVars, offerVars, sideVars, Turned, SignInSteps,
     Lapses
<1>24. ASSUME NEW s \in Sockets, Hold(s) PROVE Watched'
  <2>1. pending' \in Timers /\ timer'[pending'] = "armed"
    BY <1>24, HoldSeatIs DEF Hold
  <2>2. pending' # 0
    BY <2>1, SessionsAssumption DEF Timers
  <2> QED BY <2>1, <2>2 DEF Watched, Held
<1>25. ASSUME NEW s \in Sockets, Sit(s) PROVE Watched'
  BY <1>25, DoneIs, GoesToIs, StepNames DEF Sit, Watched, Held, Busy, SingleOK, SigningIn,
     TasksOK, TaskOK, Types, graceVars, sideVars, Turned, SignInSteps, Lapses
<1>26. ASSUME NEW s \in Sockets, StopListening(s) PROVE Watched'
  BY <1>26, GoesIs, StepNames DEF StopListening, Watched, Held, Busy, SingleOK, SigningIn,
     TasksOK, TaskOK, Types, graceVars, offerVars, sideVars, Turned, SignInSteps, Lapses
<1>27. ASSUME NEW s \in Sockets, Switch(s) PROVE Watched'
  BY <1>27, GoesIs, GoesToIs, StepNames DEF Switch, Watched, Held, Busy, SingleOK,
     SigningIn, TasksOK, TaskOK, Types, graceVars, offerVars, sideVars, Turned, SignInSteps,
     Lapses
<1>28. ASSUME NEW s \in Sockets, SwitchBack(s) PROVE Watched'
  BY <1>28, DoneIs DEF SwitchBack, Watched, Held, Busy, SingleOK, SigningIn, TasksOK,
     TaskOK, Types, graceVars, offerVars, sideVars, Turned, SignInSteps, Lapses
<1>29. ASSUME NEW s \in Sockets, ListenOnly(s) PROVE Watched'
  BY <1>29, GoesIs, StepNames DEF ListenOnly, Watched, Held, Busy, SingleOK, SigningIn,
     TasksOK, TaskOK, Types, graceVars, offerVars, sideVars, Turned, SignInSteps, Lapses
<1>30. ASSUME NEW s \in Sockets, Leave(s) PROVE Watched'
  BY <1>30, DoneIs, GoesIs, StepNames DEF Leave, NoSeat, Watched, Held, Busy, SingleOK,
     SigningIn, TasksOK, TaskOK, Types, graceVars, offerVars, sideVars, Turned, SignInSteps,
     Lapses
<1>31. ASSUME NEW s \in Sockets, ListenNowhere(s) PROVE Watched'
  BY <1>31, DoneIs DEF ListenNowhere, Watched, Held, Busy, SingleOK, SigningIn, TasksOK,
     TaskOK, Types, graceVars, offerVars, sideVars, Turned, SignInSteps, Lapses
<1>32. ASSUME NEW s \in Sockets, Drop(s) PROVE Watched'
  BY <1>32, CutsIs DEF Drop, Watched, Held, Busy, SingleOK, SigningIn, TasksOK, TaskOK,
     Types, graceVars, roomVars, offerVars, sideVars, Lapses
<1>33. ASSUME NEW s \in Sockets, Forget(s) PROVE Watched'
  BY <1>33, ForgetIs, StepNames DEF Forget, Watched, Held, Busy, SingleOK, SigningIn,
     TasksOK, TaskOK, Types, graceVars, roomVars, offerVars, sideVars, Left, Lapses
<1>34. ASSUME NEW s \in Sockets, FindLeft(s) PROVE Watched'
  BY <1>34, FindLeftIs DEF FindLeft, Watched, Held, Busy, SingleOK, SigningIn, TasksOK,
     TaskOK, Types, graceVars, roomVars, offerVars, sideVars, Left, Lapses
<1>35. ASSUME NEW s \in Sockets, UntrackLeft(s) PROVE Watched'
  BY <1>35, ForgetIs, StepNames DEF UntrackLeft, Watched, Held, Busy, SingleOK, SigningIn,
     TasksOK, TaskOK, Types, graceVars, offerVars, sideVars, Left, Lapses
<1>36. ASSUME NEW s \in Sockets, MarkLeft(s) PROVE Watched'
  BY <1>36, ForgetIs, MarkedIs, StepNames DEF MarkLeft, Watched, Held, Busy, SingleOK,
     SigningIn, TasksOK, TaskOK, Types, graceVars, offerVars, sideVars, Left, Lapses
<1>37. ASSUME NEW s \in Sockets, HoldLeft(s) PROVE Watched'
  <2>1. pending' \in Timers /\ timer'[pending'] = "armed"
    BY <1>37, HoldSeatIs DEF HoldLeft
  <2>2. pending' # 0
    BY <2>1, SessionsAssumption DEF Timers
  <2> QED BY <2>1, <2>2 DEF Watched, Held
<1>38. ASSUME NEW s \in Sockets, NEW request \in Joins \cup {"switch", "leave"},
             Ask(s, request)
      PROVE Watched'
  <2>1. PICK r : Turned(s, r)
    BY <1>38, AskIs DEF Ask
  <2>2. /\ task[s].pc = "ready" /\ userSocket' = userSocket
        /\ pending' = pending /\ timer' = timer /\ conn' = conn /\ dis' = dis
        /\ seat' = seat /\ spent'.kick = spent.kick
    BY <1>38, MarkedIs DEF Ask, graceVars, roomVars, sideVars, Types
  <2> HIDE DEF Watched
  <2>3. ASSUME Held PROVE Held'
    <3>1. \A u \in Sockets : Busy(u) => Busy(u)'
      BY <2>1, <2>2 DEF Busy, Turned
    <3> QED BY <2>2, <2>3, <3>1 DEF Held
  <2> QED BY <2>2, <2>3 DEF Watched
<1>39. ASSUME NEW t \in Timers, Fire(t) PROVE Watched'
  BY <1>39 DEF Fire, Watched, Held, Busy, SingleOK, SigningIn, TasksOK, TaskOK, Types,
     roomVars, offerVars, sideVars, Lapses
<1>40. ASSUME NEW t \in Timers, Expire(t) PROVE Watched'
  BY <1>40 DEF Expire, Watched, Held, Busy, SingleOK, SigningIn, TasksOK, TaskOK, Types,
     roomVars, offerVars, sideVars, Lapses
<1>41. ASSUME NEW t \in Timers, PutOffer(t) PROVE Watched'
  BY <1>41 DEF PutOffer, Ended, Watched, Held, Busy, SingleOK, SigningIn, TasksOK, TaskOK,
     Types, roomVars, sideVars, Lapses
<1>42. ASSUME NEW t \in Timers, LapseLeave(t) PROVE Watched'
  BY <1>42 DEF LapseLeave, Ended, NoSeat, Watched, Held, Busy, SingleOK, SigningIn, TasksOK,
     TaskOK, Types, sideVars, Lapses
<1>43. ASSUME EndSession PROVE Watched'
  BY <1>43, CutsIs DEF EndSession, Watched, Held, Busy, SingleOK, SigningIn, TasksOK,
     TaskOK, Types, graceVars, roomVars, offerVars, sideVars, Lapses
<1>44. ASSUME KickAsked PROVE Watched'
  BY <1>44 DEF KickAsked, Watched, Held, Busy, SingleOK, SigningIn, TasksOK, TaskOK, Types,
     graceVars, roomVars, offerVars, Lapses
<1>45. ASSUME KickLeave PROVE Watched'
  BY <1>45 DEF KickLeave, NoSeat, NoKick, Watched, Held, Busy, SingleOK, SigningIn, TasksOK,
     TaskOK, Types, graceVars, offerVars, Lapses
<1>46. ASSUME KickLook PROVE Watched'
  BY <1>46 DEF KickLook, Watched, Held, Busy, SingleOK, SigningIn, TasksOK, TaskOK, Types,
     graceVars, roomVars, offerVars, Lapses
<1>47. ASSUME KickDrop PROVE Watched'
  BY <1>47, StoppedIs DEF KickDrop, Watched, Held, Busy, SingleOK, SigningIn, TasksOK,
     TaskOK, Types, roomVars, offerVars, Lapses
<1>48. ASSUME KickFinish PROVE Watched'
  BY <1>48 DEF KickFinish, NoKick, Watched, Held, Busy, SingleOK, SigningIn, TasksOK,
     TaskOK, Types, graceVars, Lapses
<1>49. ASSUME Move PROVE Watched'
  BY <1>49 DEF Move, Watched, Held, Busy, SingleOK, SigningIn, TasksOK, TaskOK, Types,
     graceVars, offerVars, Lapses
<1>50. ASSUME MoveLook PROVE Watched'
  BY <1>50 DEF MoveLook, Watched, Held, Busy, SingleOK, SigningIn, TasksOK, TaskOK, Types,
     graceVars, roomVars, offerVars, Lapses
<1>51. ASSUME MoveFollow PROVE Watched'
  BY <1>51 DEF MoveFollow, Watched, Held, Busy, SingleOK, SigningIn, TasksOK, TaskOK, Types,
     graceVars, offerVars, Lapses
<1>52. ASSUME MoveAgain PROVE Watched'
  BY <1>52 DEF MoveAgain, Watched, Held, Busy, SingleOK, SigningIn, TasksOK, TaskOK, Types,
     graceVars, offerVars, Lapses
<1>53. ASSUME MoveMark PROVE Watched'
  BY <1>53, MarkedIs DEF MoveMark, Watched, Held, Busy, SingleOK, SigningIn, TasksOK,
     TaskOK, Types, graceVars, offerVars, Lapses
<1>54. ASSUME UNCHANGED vars PROVE Watched'
  BY <1>54 DEF vars, Watched, Held, Busy, Types, graceVars, roomVars, offerVars, sideVars
<1> QED BY <1>11, <1>12, <1>13, <1>14, <1>15, <1>16, <1>17, <1>18, <1>19, <1>20, <1>21,
       <1>22, <1>23, <1>24, <1>25, <1>26, <1>27, <1>28, <1>29, <1>30, <1>31, <1>32, <1>33,
       <1>34, <1>35, <1>36, <1>37, <1>38, <1>39, <1>40, <1>41, <1>42, <1>43, <1>44, <1>45,
       <1>46, <1>47, <1>48, <1>49, <1>50, <1>51, <1>52, <1>53, <1>54, Zenon DEF Next,
       HandlerStep, DisconnectStep, GraceStep, KickStep, MoveStep

-----------------------------------------------------------------------------
(* The theorems *)

\* The inductive invariant: it holds however sign-ins overlap and seats are taken.
IInv == Types /\ TasksOK /\ LapseOK

\* The account starts without a socket; a seat restored is held by a timer (RestoreSeats).
LEMMA Starts == Init => IInv
<1> SUFFICES ASSUME Init PROVE IInv
  OBVIOUS
<1> DEFINE no == FALSE
<1>0. no \in BOOLEAN /\ ~no
  OBVIOUS
<1>1. /\ conn = [s \in Sockets |-> no] /\ lapsed = no /\ NoSeat = [room |-> None, conn |-> no]
      /\ kick = NoKick
  BY Zenon DEF Init, NoSeat
<1> HIDE DEF no
<1>2. conn \in [Sockets -> BOOLEAN] /\ lapsed \in BOOLEAN /\ \A s \in Sockets : ~conn[s]
  BY <1>0, <1>1
<1>3. NewTask \in TaskType /\ NotGone \in DisType
  BY DEF NewTask, NotGone, TaskType, DisType, Pcs, Jobs
<1>4. task \in [Sockets -> TaskType] /\ dis \in [Sockets -> DisType]
  BY <1>3 DEF Init
<1>5. \A s \in Sockets : task[s].pc = "off" /\ task[s].job = "signin" /\ dis[s].pc = "no"
  BY DEF Init, NewTask, NotGone
<1>6. /\ seat \in SeatType /\ pending \in {0} \cup Timers /\ timer \in [Timers -> TimerStates]
      /\ \A t \in Timers : timer[t] \notin Lapses
  <2>1. CASE seat = NoSeat /\ pending = 0 /\ timer = [t \in Timers |-> "free"]
    BY <2>1, SeatsAre DEF TimerStates, Lapses
  <2>2. CASE /\ seat \in [room : Rooms, conn : {FALSE}] /\ pending = 1
             /\ timer = [t \in Timers |-> IF t = 1 THEN "armed" ELSE "free"]
    <3>1. seat \in SeatType
      BY <2>2 DEF SeatType
    <3>2. 1 \in Timers
      BY SessionsAssumption DEF Timers
    <3> QED BY <2>2, <3>1, <3>2 DEF TimerStates, Lapses
  <2> QED BY <2>1, <2>2, Zenon DEF Init
<1>7. /\ userSocket = None /\ lapsing = 0 /\ offer = None
      /\ spent \in [ask : Nat, kick : Nat, move : Nat]
  BY DEF Init
<1>8. kick \in KickType /\ kick.pc = "none"
  BY <1>1, SeatsAre
<1>9. Types
  BY <1>2, <1>4, <1>6, <1>7, <1>8 DEF Types
<1>10. TasksOK
  BY <1>2, <1>5, <1>7, SessionsAssumption DEF TasksOK, TaskOK
<1>11. LapseOK
  BY <1>6 DEF LapseOK, Lapses
<1> QED BY <1>9, <1>10, <1>11 DEF IInv

\* Every step keeps the inductive invariant.
LEMMA StepOK == IInv /\ [Next]_vars => IInv'
BY TypesStep, TasksStep, LapseStep DEF IInv

\* The inductive invariant holds in every state, for every set of sockets and rooms,
\* every set of joins and sign-ins that overtake each other.
THEOREM Inductive == Spec => []IInv
<1>1. Init => IInv
  BY Starts
<1>2. IInv /\ [Next]_vars => IInv'
  BY StepOK
<1> QED BY <1>1, <1>2, PTL DEF Spec

\* A lapse never takes a seat from an account whose live socket has finished signing in
\* (graceExpired, Handler.lapsing): whatever sign-ins overtake each other, and whatever
\* requests take seats.
THEOREM LivePlayersKeepTheirSeat == Spec => LapseSparesTheLive
<1> DEFINE Spares == \A t \in Timers :
                        timer[t] = "leave" /\ timer'[t] = "over" /\ seat.room # None =>
                          ~(userSocket # None /\ task[userSocket].pc = "ready" /\ conn[userSocket])
<1>1. IInv => Spares
  BY DEF IInv, LapseOK, WaitsForLapse
<1>2. LapseSparesTheLive <=> [][Spares]_vars
  BY PTL DEF LapseSparesTheLive
<1> HIDE DEF Spares
<1> QED BY <1>1, <1>2, Inductive, PTL DEF Spec

\* The same with one sign-in at a time.
SinglyInv == IInv /\ SingleOK /\ OffersOK

\* What needs one sign-in at a time holds at first.
LEMMA SinglyStarts == Init => SingleOK /\ OffersOK
<1> SUFFICES ASSUME Init PROVE SingleOK /\ OffersOK
  OBVIOUS
<1>1. /\ userSocket = None /\ \A s \in Sockets : ~conn[s] /\ task[s].pc = "off"
      /\ ~lapsed
  BY Zenon DEF Init, NewTask
<1>2. \A t \in Timers : timer[t] # "leave"
  BY DEF Init
<1> QED BY <1>1, <1>2 DEF SingleOK, OffersOK, SigningIn

\* With one sign-in at a time, a sign-in that looks after a lapse took the seat finds the
\* offer (putResumeOffer before Leave, takeResumeOffer).
THEOREM LapseLeavesAnOffer == ~Overlap /\ Spec => []LapsedSeatIsOffered
<1> SUFFICES ASSUME ~Overlap PROVE Spec => []LapsedSeatIsOffered
  OBVIOUS
<1>1. Init => SinglyInv
  BY Starts, SinglyStarts DEF SinglyInv
<1>2. SinglyInv /\ [Next]_vars => SinglyInv'
  BY StepOK, SingleStep, OffersStep DEF SinglyInv, IInv
<1>3. SinglyInv => LapsedSeatIsOffered
  BY DEF SinglyInv, OffersOK, LapsedSeatIsOffered
<1> QED BY <1>1, <1>2, <1>3, PTL DEF Spec

\* When nothing is running, only a live socket or an armed timer is left to have the seat in hand.
LEMMA WatchFollows ==
  IInv /\ SingleOK /\ Watched => SeatIsWatched
<1> SUFFICES ASSUME IInv, SingleOK, Watched, Quiet, seat.room # None, spent.kick = 0
             PROVE  \/ userSocket # None /\ conn[userSocket]
                    \/ userSocket = None /\ pending # 0 /\ timer[pending] = "armed"
  BY DEF SeatIsWatched
<1>1. \A s \in Sockets : task[s].pc \in {"off", "ready"} /\ dis[s].pc \in {"no", "done"}
  BY DEF Quiet
<1>2. userSocket # None => conn[userSocket]
  BY <1>1 DEF IInv, Types, SingleOK
<1>3. \A s \in Sockets : ~Busy(s)
  BY <1>1 DEF Busy
<1>4. \A t \in Timers : timer[t] \notin Lapses
  BY DEF Quiet, Lapses
<1> QED BY <1>2, <1>3, <1>4 DEF Watched, Held

\* With one sign-in at a time and tables that are joined, never created, a seat has the
\* account's live socket or an armed timer whenever nothing is running (holdSeat,
\* onDisconnect, orphanedSeat).
THEOREM SeatsAreWatched ==
  ~Overlap /\ "create" \notin Joins /\ Spec => []SeatIsWatched
<1> SUFFICES ASSUME ~Overlap, "create" \notin Joins PROVE Spec => []SeatIsWatched
  OBVIOUS
<1> DEFINE WInv == SinglyInv /\ Watched
<1>1. Init => WInv
  <2>1. Init => Watched
    <3> SUFFICES ASSUME Init, seat.room # None PROVE pending # 0 /\ timer[pending] = "armed"
      BY DEF Watched, Held
    <3>0. NoSeat.room = None
      BY SeatsAre
    <3>1. pending = 1 /\ timer = [t \in Timers |-> IF t = 1 THEN "armed" ELSE "free"]
      BY <3>0, Zenon DEF Init
    <3>2. 1 \in Timers
      BY SessionsAssumption DEF Timers
    <3> QED BY <3>1, <3>2
  <2> QED BY <2>1, Starts, SinglyStarts DEF SinglyInv
<1>2. WInv /\ [Next]_vars => WInv'
  BY StepOK, SingleStep, OffersStep, WatchedStep DEF SinglyInv, IInv
<1>3. WInv => SeatIsWatched
  BY WatchFollows DEF SinglyInv
<1> QED BY <1>1, <1>2, <1>3, PTL DEF Spec

=================================================================================
