-------------------------------- MODULE Sessions --------------------------------
(* One account and its sockets (socket/handler.go): the seat it may hold, the one  *)
(* live socket of the single-session rule, the sockets that listen to each room,   *)
(* the grace timer a dropped seat is held with, the lapse that gives the seat up,  *)
(* and the resume offer the lapse leaves behind.                                   *)
(*                                                                                 *)
(* A socket's sign-in and its requests run on its own dispatch goroutine, one      *)
(* after the other; onDisconnect, a timer's function, a kick's goroutine and a     *)
(* consolidation's listener call run beside it.  One action is one section under   *)
(* Handler.mu, under the player's stripe in the room manager, or on the table.     *)
EXTENDS Integers, FiniteSets

CONSTANTS
    Sockets,        \* the account's connections, each signs in at most once
    Rooms,          \* the tables of the lobby
    None,           \* no socket, no room
    Joins,          \* the requests that take a seat: subset of {"join", "create"}
    Overlap,        \* whether a sign-in may be overtaken by another, or ended
    MaxTimers,      \* bound: grace timers armed
    MaxAsks,        \* bound: requests made
    MaxTaken        \* bound: kicks and consolidation moves

ASSUME SessionsAssumption ==
    /\ None \notin Sockets \cup Rooms
    /\ Joins \subseteq {"join", "create"}
    /\ Overlap \in BOOLEAN
    /\ MaxTimers \in Nat \ {0}
    /\ {MaxAsks, MaxTaken} \subseteq Nat

VARIABLES
    conn,           \* sio.Socket.connected
    task,           \* what a socket's dispatch goroutine is doing, and has read
    dis,            \* where the onDisconnect of a socket is, and the room it has read
    seat,           \* playerRooms and the seat's connected flag
    userSocket,     \* Handler.userSockets
    viewers,        \* Handler.roomSockets
    pending,        \* Handler.pendingRemovals: the timer recorded, 0 for none
    timer,          \* what every grace timer and its function are doing
    lapsing,        \* Handler.lapsing: the lapse published, 0 for none
    offer,          \* the account's resume offer in the live store
    lapsed,         \* history: a lapse took the last seat and no sign-in looked since
    kick,           \* the kick's goroutine
    move,           \* the consolidation that moved the account
    spent           \* requests, kicks and moves made: bounds

graceVars == <<pending, timer, lapsing>>
roomVars == <<seat, viewers>>
offerVars == <<offer, lapsed>>
sideVars == <<kick, move, spent>>
vars == <<conn, task, dis, userSocket, graceVars, roomVars, offerVars, sideVars>>

Timers == 1..MaxTimers
NewTask == [pc |-> "off", job |-> "signin", room |-> None, sock |-> None, lapse |-> 0]
Idle == [pc |-> "ready", job |-> "none", room |-> None, sock |-> None, lapse |-> 0]
NotGone == [pc |-> "no", room |-> None]
Gone == [pc |-> "done", room |-> None]
NoSeat == [room |-> None, conn |-> FALSE]
NoKick == [pc |-> "none", room |-> None, elsewhere |-> FALSE, sock |-> None]
NoMove == [pc |-> "none", from |-> None, to |-> None, sock |-> None]

SignInSteps == {"replace", "await", "stop", "lapse", "find"}
SeatSteps == {"track", "mark", "check", "handTrack", "handMark", "untrack", "unmark", "hold"}
RequestSteps == {"asked", "listening", "moved", "undo", "gone"}
DisconnectSteps == {"forget", "find", "untrack", "mark", "hold"}

--------------------------------------------------------------------------------
(* What the steps share. *)

(* Timer.Stop: a timer whose function has started is not stopped by it. *)
Stopped(t) == [u \in Timers |-> IF u = t /\ timer[u] = "armed" THEN "over" ELSE timer[u]]

(* holdSeat: the recorded timer is stopped and a new one armed and recorded,       *)
(* under one lock.                                                                 *)
HoldSeat ==
    LET t == CHOOSE u \in Timers : timer[u] = "free" /\ \A w \in 1..u-1 : timer[w] # "free" IN
    /\ \E u \in Timers : timer[u] = "free"
    /\ timer' = [Stopped(pending) EXCEPT ![t] = "armed"]
    /\ pending' = t
    /\ UNCHANGED lapsing

(* trackRoom: a dead socket is not subscribed, nor left subscribed. *)
Tracked(r, s) == IF conn[s] THEN viewers \cup {<<r, s>>} ELSE viewers

(* SetConnected: nothing happens at a table the player has left. *)
Marked(r, yes) == IF seat.room = r THEN [seat EXCEPT !.conn = yes] ELSE seat

Goes(s, step) == task' = [task EXCEPT ![s].pc = step]
GoesTo(s, step, r) == task' = [task EXCEPT ![s].pc = step, ![s].room = r]
Done(s) == task' = [task EXCEPT ![s] = Idle]

(* Socket.close and its callback: the socket is dead and its onDisconnect starts,  *)
(* unless that has begun already.                                                  *)
Cuts(s) ==
    /\ conn' = [conn EXCEPT ![s] = FALSE]
    /\ dis' = [dis EXCEPT ![s].pc = IF @ = "no" THEN "forget" ELSE @]

Init ==
    /\ conn = [s \in Sockets |-> FALSE]
    /\ task = [s \in Sockets |-> NewTask]
    /\ dis = [s \in Sockets |-> NotGone]
    /\ userSocket = None
    /\ viewers = {}
    /\ lapsing = 0
    /\ offer = None
    /\ lapsed = FALSE
    /\ kick = NoKick
    /\ move = NoMove
    /\ spent = [ask |-> 0, kick |-> 0, move |-> 0]
    /\ \/ /\ seat = NoSeat
          /\ pending = 0
          /\ timer = [t \in Timers |-> "free"]
       \/ \* RestoreSeats, before the server listens: a seat restored from the
          \* live store is disconnected and held for the grace.
          /\ seat \in [room : Rooms, conn : {FALSE}]
          /\ pending = 1
          /\ timer = [t \in Timers |-> IF t = 1 THEN "armed" ELSE "free"]

--------------------------------------------------------------------------------
(* onConnection. *)

SigningIn(s) == task[s].pc # "off" /\ task[s].job = "signin"

(* The account's entry is this socket's, and the one before it and the lapse in   *)
(* progress are read in the same section.                                          *)
SignIn(s) ==
    /\ task[s].pc = "off"
    /\ Overlap \/ ~\E other \in Sockets : SigningIn(other)
    /\ conn' = [conn EXCEPT ![s] = TRUE]
    /\ userSocket' = s
    /\ task' = [task EXCEPT ![s].pc = IF userSocket = None THEN "stop" ELSE "replace",
                            ![s].sock = userSocket,
                            ![s].lapse = lapsing]
    /\ UNCHANGED <<dis, graceVars, roomVars, offerVars, sideVars>>

(* replace: Disconnect, which runs onDisconnect or finds it running ... *)
Replace(s) ==
    /\ task[s].pc = "replace"
    /\ Cuts(task[s].sock)
    /\ Goes(s, "await")
    /\ UNCHANGED <<userSocket, graceVars, roomVars, offerVars, sideVars>>

(* ... and waits for it to end (disconnectMu). *)
Replaced(s) ==
    /\ task[s].pc = "await"
    /\ dis[task[s].sock].pc = "done"
    /\ task' = [task EXCEPT ![s].pc = "stop", ![s].sock = None]
    /\ UNCHANGED <<conn, dis, userSocket, graceVars, roomVars, offerVars, sideVars>>

(* The pending removal is taken off the map and stopped. *)
StopGrace(s) ==
    /\ task[s].pc = "stop"
    /\ timer' = Stopped(pending)
    /\ pending' = 0
    /\ Goes(s, "lapse")
    /\ UNCHANGED <<conn, dis, userSocket, lapsing, roomVars, offerVars, sideVars>>

(* Mutant: the sign-in does not wait for the lapse. *)
AwaitLapseUnread(s) ==
    /\ task[s].pc = "lapse"
    /\ Goes(s, "find")
    /\ UNCHANGED <<conn, dis, userSocket, graceVars, roomVars, offerVars, sideVars>>

(* A seat being given up at this very moment is waited for.  lapseWait (5 s)       *)
(* outlasts a Leave: it "only ever runs out when the actor is stuck".              *)
AwaitLapse(s) ==
    /\ task[s].pc = "lapse"
    /\ task[s].lapse # 0 => timer[task[s].lapse] = "over"
    /\ Goes(s, "find")
    /\ UNCHANGED <<conn, dis, userSocket, graceVars, roomVars, offerVars, sideVars>>

(* The seat the account still has is taken up again; without one its offer is      *)
(* taken from the store.                                                           *)
Find(s) ==
    /\ task[s].pc = "find"
    /\ IF seat.room = None THEN Done(s) ELSE GoesTo(s, "track", seat.room)
    /\ offer' = None
    /\ lapsed' = FALSE
    /\ UNCHANGED <<conn, dis, userSocket, graceVars, roomVars, sideVars>>

--------------------------------------------------------------------------------
(* seatSocket, the end of every join and of a sign-in that found its seat. *)

Track(s) ==
    /\ task[s].pc = "track"
    /\ viewers' = Tracked(task[s].room, s)
    /\ IF task[s].job = "create" THEN Done(s) ELSE Goes(s, "mark")
    /\ UNCHANGED <<conn, dis, userSocket, graceVars, seat, offerVars, sideVars>>

Mark(s) ==
    /\ task[s].pc = "mark"
    /\ seat' = Marked(task[s].room, TRUE)
    /\ IF task[s].job = "signin" THEN Done(s) ELSE Goes(s, "check")
    /\ UNCHANGED <<conn, dis, userSocket, graceVars, viewers, offerVars, sideVars>>

(* Mutant: a join that outlived its socket looks for a live one and no further. *)
CheckHandsOver(s) ==
    /\ task[s].pc = "check"
    /\ IF conn[s] \/ userSocket \in {None, s}
       THEN Done(s)
       ELSE task' = [task EXCEPT ![s].pc = "handTrack", ![s].sock = userSocket]
    /\ UNCHANGED <<conn, dis, userSocket, graceVars, roomVars, offerVars, sideVars>>

(* The join may have outlived its socket.  orphanedSeat reads the live socket and  *)
(* whether it listens: it is handed the seat, or the seat is held.                 *)
Check(s) ==
    /\ task[s].pc = "check"
    /\ LET live == userSocket
           handed == live \notin {None, s} /\ conn[live]
       IN IF conn[s] \/ (handed /\ <<task[s].room, live>> \in viewers)
          THEN Done(s)
          ELSE task' = [task EXCEPT ![s].pc = IF handed THEN "handTrack" ELSE "untrack", ![s].sock = live]
    /\ UNCHANGED <<conn, dis, userSocket, graceVars, roomVars, offerVars, sideVars>>

HandTrack(s) ==
    /\ task[s].pc = "handTrack"
    /\ viewers' = Tracked(task[s].room, task[s].sock)
    /\ Goes(s, "handMark")
    /\ UNCHANGED <<conn, dis, userSocket, graceVars, seat, offerVars, sideVars>>

HandMark(s) ==
    /\ task[s].pc = "handMark"
    /\ seat' = Marked(task[s].room, TRUE)
    /\ Done(s)
    /\ UNCHANGED <<conn, dis, userSocket, graceVars, viewers, offerVars, sideVars>>

(* untrackRoom, SetConnected(false) and holdSeat, as one that dropped. *)
Untrack(s) ==
    /\ task[s].pc = "untrack"
    /\ viewers' = viewers \ {<<task[s].room, s>>}
    /\ Goes(s, "unmark")
    /\ UNCHANGED <<conn, dis, userSocket, graceVars, seat, offerVars, sideVars>>

Unmark(s) ==
    /\ task[s].pc = "unmark"
    /\ seat' = Marked(task[s].room, FALSE)
    /\ Goes(s, "hold")
    /\ UNCHANGED <<conn, dis, userSocket, graceVars, viewers, offerVars, sideVars>>

Hold(s) ==
    /\ task[s].pc = "hold"
    /\ HoldSeat
    /\ Done(s)
    /\ UNCHANGED <<conn, dis, userSocket, roomVars, offerVars, sideVars>>

--------------------------------------------------------------------------------
(* The requests that change the seat.  One is dispatched to a live socket, and     *)
(* what follows runs whether or not the socket outlives it.                        *)

Ask(s, request) ==
    /\ task[s].pc = "ready"
    /\ conn[s]
    /\ spent.ask < MaxAsks
    /\ spent' = [spent EXCEPT !.ask = @ + 1]
    /\ task' = [task EXCEPT ![s].pc = "asked", ![s].job = request, ![s].room = seat.room]
    /\ UNCHANGED <<conn, dis, userSocket, graceVars, roomVars, offerVars, kick, move>>

(* QuickJoin, JoinByCode, CreateAndJoin: under the stripe, an account already       *)
(* seated is refused.                                                              *)
Sit(s) ==
    /\ task[s].pc = "asked"
    /\ task[s].job \in Joins
    /\ \/ /\ seat.room # None
          /\ Done(s)
          /\ UNCHANGED <<seat, lapsed>>
       \/ /\ seat.room = None
          /\ \E r \in Rooms :
                /\ r # move.from
                /\ seat' = [room |-> r, conn |-> TRUE]
                /\ GoesTo(s, "track", r)
          /\ lapsed' = FALSE
    /\ UNCHANGED <<conn, dis, userSocket, graceVars, viewers, offer, sideVars>>

(* switchTable: the socket stops listening to the table it is leaving ... *)
StopListening(s) ==
    /\ task[s].pc = "asked"
    /\ task[s].job = "switch"
    /\ viewers' = viewers \ {<<task[s].room, s>>}
    /\ Goes(s, "listening")
    /\ UNCHANGED <<conn, dis, userSocket, graceVars, seat, offerVars, sideVars>>

(* ... SwitchTable moves the seat, or refuses ... *)
Switch(s) ==
    /\ task[s].pc = "listening"
    /\ \/ /\ seat.room # None
          /\ \E r \in Rooms \ {seat.room, move.from} :
                /\ seat' = [room |-> r, conn |-> TRUE]
                /\ GoesTo(s, "moved", r)
       \/ /\ Goes(s, "undo")
          /\ UNCHANGED seat
    /\ UNCHANGED <<conn, dis, userSocket, graceVars, viewers, offerVars, sideVars>>

(* ... and the socket listens to the table left again if that is where the account *)
(* still sits, or to no other table than the new one.                              *)
SwitchBack(s) ==
    /\ task[s].pc = "undo"
    /\ viewers' = IF task[s].room # None /\ seat.room = task[s].room THEN Tracked(task[s].room, s) ELSE viewers
    /\ Done(s)
    /\ UNCHANGED <<conn, dis, userSocket, graceVars, seat, offerVars, sideVars>>

(* untrackAllExcept *)
ListenOnly(s) ==
    /\ task[s].pc = "moved"
    /\ viewers' = {v \in viewers : v[2] # s \/ v[1] = task[s].room}
    /\ Goes(s, "track")
    /\ UNCHANGED <<conn, dis, userSocket, graceVars, seat, offerVars, sideVars>>

(* leave: out of whatever table the account sits at by then. *)
Leave(s) ==
    /\ task[s].pc = "asked"
    /\ task[s].job = "leave"
    /\ \/ task[s].room = None /\ Done(s) /\ UNCHANGED seat
       \/ task[s].room # None /\ Goes(s, "gone") /\ seat' = NoSeat
    /\ UNCHANGED <<conn, dis, userSocket, graceVars, viewers, offerVars, sideVars>>

ListenNowhere(s) ==
    /\ task[s].pc = "gone"
    /\ viewers' = {v \in viewers : v[2] # s}
    /\ Done(s)
    /\ UNCHANGED <<conn, dis, userSocket, graceVars, seat, offerVars, sideVars>>

--------------------------------------------------------------------------------
(* onDisconnect, once per socket. *)

(* The connection drops: the dispatch goroutine notices when its handler has        *)
(* returned.                                                                       *)
Drop(s) ==
    /\ task[s].pc = "ready"
    /\ conn[s]
    /\ Cuts(s)
    /\ UNCHANGED <<task, userSocket, graceVars, roomVars, offerVars, sideVars>>

(* EndSession and ReplaceSessions: the account is disabled, deleted or signed in    *)
(* elsewhere, and its live socket is ended from another goroutine.                 *)
EndSession ==
    /\ userSocket # None
    /\ conn[userSocket]
    /\ Overlap \/ ~SigningIn(userSocket)
    /\ Cuts(userSocket)
    /\ UNCHANGED <<task, userSocket, graceVars, roomVars, offerVars, sideVars>>

(* Only the entry that is still this socket's is deleted. *)
Forget(s) ==
    /\ dis[s].pc = "forget"
    /\ userSocket' = IF userSocket = s THEN None ELSE userSocket
    /\ dis' = [dis EXCEPT ![s].pc = "find"]
    /\ UNCHANGED <<conn, task, graceVars, roomVars, offerVars, sideVars>>

FindLeft(s) ==
    /\ dis[s].pc = "find"
    /\ dis' = [dis EXCEPT ![s] = IF seat.room = None THEN Gone
                                 ELSE [pc |-> "untrack", room |-> seat.room]]
    /\ UNCHANGED <<conn, task, userSocket, graceVars, roomVars, offerVars, sideVars>>

UntrackLeft(s) ==
    /\ dis[s].pc = "untrack"
    /\ viewers' = viewers \ {<<dis[s].room, s>>}
    /\ dis' = [dis EXCEPT ![s].pc = "mark"]
    /\ UNCHANGED <<conn, task, userSocket, graceVars, seat, offerVars, sideVars>>

MarkLeft(s) ==
    /\ dis[s].pc = "mark"
    /\ seat' = Marked(dis[s].room, FALSE)
    /\ dis' = [dis EXCEPT ![s].pc = "hold"]
    /\ UNCHANGED <<conn, task, userSocket, graceVars, viewers, offerVars, sideVars>>

HoldLeft(s) ==
    /\ dis[s].pc = "hold"
    /\ HoldSeat
    /\ dis' = [dis EXCEPT ![s] = Gone]
    /\ UNCHANGED <<conn, task, userSocket, roomVars, offerVars, sideVars>>

--------------------------------------------------------------------------------
(* graceExpired. *)

(* A grace period (60 s) outlasts a lapse: none fires while another is carried out. *)
Fire(t) ==
    /\ timer[t] = "armed"
    /\ \A u \in Timers : timer[u] \notin {"fired", "look", "leave"}
    /\ timer' = [timer EXCEPT ![t] = "fired"]
    /\ UNCHANGED <<conn, task, dis, userSocket, pending, lapsing, roomVars, offerVars, sideVars>>

(* The entry of the map is deleted, whichever timer it is of; with no live socket   *)
(* the lapse is published in the same section.                                     *)
Expire(t) ==
    /\ timer[t] = "fired"
    /\ pending' = 0
    /\ IF userSocket # None
       THEN timer' = [timer EXCEPT ![t] = "over"] /\ UNCHANGED lapsing
       ELSE timer' = [timer EXCEPT ![t] = "look"] /\ lapsing' = t
    /\ UNCHANGED <<conn, task, dis, userSocket, roomVars, offerVars, sideVars>>

Ended(t) ==
    /\ timer' = [timer EXCEPT ![t] = "over"]
    /\ lapsing' = IF lapsing = t THEN 0 ELSE lapsing

(* Mutant: the seat is given up before any offer is stored. *)
PutOfferLater(t) ==
    /\ timer[t] = "look"
    /\ IF seat.room = None
       THEN Ended(t)
       ELSE timer' = [timer EXCEPT ![t] = "leave"] /\ UNCHANGED lapsing
    /\ UNCHANGED <<conn, task, dis, userSocket, pending, roomVars, offerVars, sideVars>>

(* The resume offer is stored before the seat is given up. *)
PutOffer(t) ==
    /\ timer[t] = "look"
    /\ IF seat.room = None
       THEN Ended(t) /\ UNCHANGED offer
       ELSE offer' = seat.room /\ timer' = [timer EXCEPT ![t] = "leave"] /\ UNCHANGED lapsing
    /\ UNCHANGED <<conn, task, dis, userSocket, pending, roomVars, lapsed, sideVars>>

LapseLeave(t) ==
    /\ timer[t] = "leave"
    /\ seat' = NoSeat
    /\ lapsed' = (lapsed \/ seat.room # None)
    /\ Ended(t)
    /\ UNCHANGED <<conn, task, dis, userSocket, pending, viewers, offer, sideVars>>

--------------------------------------------------------------------------------
(* A kick (kickHook, OnPlayerKicked). *)

(* The table asks for it, while the account sits there ... *)
KickAsked ==
    /\ kick.pc = "none"
    /\ seat.room # None
    /\ spent.kick + spent.move < MaxTaken
    /\ spent' = [spent EXCEPT !.kick = @ + 1]
    /\ kick' = [kick EXCEPT !.pc = "asked", !.room = seat.room]
    /\ UNCHANGED <<conn, task, dis, userSocket, graceVars, roomVars, offerVars, move>>

(* ... and it is carried out if that is still where the account sits (leaveFrom). *)
KickLeave ==
    /\ kick.pc = "asked"
    /\ IF seat.room = kick.room
       THEN seat' = NoSeat /\ kick' = [kick EXCEPT !.pc = "look"]
       ELSE kick' = NoKick /\ UNCHANGED seat
    /\ UNCHANGED <<conn, task, dis, userSocket, graceVars, viewers, offerVars, move, spent>>

(* seatedElsewhere is read before the lock is taken ... *)
KickLook ==
    /\ kick.pc = "look"
    /\ kick' = [kick EXCEPT !.pc = "drop", !.elsewhere = seat.room # None]
    /\ UNCHANGED <<conn, task, dis, userSocket, graceVars, roomVars, offerVars, move, spent>>

(* ... under which the grace of an account with no live socket goes with the seat. *)
KickDrop ==
    /\ kick.pc = "drop"
    /\ IF userSocket = None /\ ~kick.elsewhere
       THEN pending' = 0 /\ timer' = Stopped(pending)
       ELSE UNCHANGED <<pending, timer>>
    /\ kick' = [kick EXCEPT !.pc = "finish", !.sock = userSocket]
    /\ UNCHANGED <<conn, task, dis, userSocket, lapsing, roomVars, offerVars, move, spent>>

(* The live socket stops listening; without one an idle kick leaves an offer. *)
KickFinish ==
    /\ kick.pc = "finish"
    /\ viewers' = viewers \ {<<kick.room, kick.sock>>}
    /\ \/ UNCHANGED offer
       \/ kick.sock = None /\ offer' = kick.room
    /\ kick' = NoKick
    /\ UNCHANGED <<conn, task, dis, userSocket, graceVars, seat, lapsed, move, spent>>

--------------------------------------------------------------------------------
(* A consolidation move (movePlayer, OnPlayerMoved). *)

(* The account's seat, alone at its table, becomes a seat of a busier one; the table *)
(* it leaves empty is destroyed, with its listeners (OnTableDestroyed).            *)
Move ==
    /\ move.pc = "none"
    /\ seat.room # None
    /\ spent.kick + spent.move < MaxTaken
    /\ spent' = [spent EXCEPT !.move = @ + 1]
    /\ viewers' = {v \in viewers : v[1] # seat.room}
    /\ \E r \in Rooms \ {seat.room} :
          /\ seat' = [room |-> r, conn |-> TRUE]
          /\ move' = [NoMove EXCEPT !.pc = "look", !.from = seat.room, !.to = r]
    /\ UNCHANGED <<conn, task, dis, userSocket, graceVars, offerVars, kick>>

(* A move that is stale by the time it is told is not followed. *)
MoveLook ==
    /\ move.pc = "look"
    /\ move' = IF userSocket # None /\ seat.room = move.to
               THEN [move EXCEPT !.pc = "follow", !.sock = userSocket]
               ELSE NoMove
    /\ UNCHANGED <<conn, task, dis, userSocket, graceVars, roomVars, offerVars, kick, spent>>

MoveFollow ==
    /\ move.pc = "follow"
    /\ viewers' = Tracked(move.to, move.sock) \ {<<move.from, move.sock>>}
    /\ move' = [move EXCEPT !.pc = "again"]
    /\ UNCHANGED <<conn, task, dis, userSocket, graceVars, seat, offerVars, kick, spent>>

(* The second look, after the socket listens. *)
MoveAgain ==
    /\ move.pc = "again"
    /\ IF seat.room = move.to
       THEN move' = [move EXCEPT !.pc = "mark"] /\ UNCHANGED viewers
       ELSE move' = NoMove /\ viewers' = viewers \ {<<move.to, move.sock>>}
    /\ UNCHANGED <<conn, task, dis, userSocket, graceVars, seat, offerVars, kick, spent>>

MoveMark ==
    /\ move.pc = "mark"
    /\ seat' = Marked(move.to, TRUE)
    /\ move' = NoMove
    /\ UNCHANGED <<conn, task, dis, userSocket, graceVars, viewers, offerVars, kick, spent>>

--------------------------------------------------------------------------------

HandlerStep(s) ==
    \/ Replace(s) \/ Replaced(s) \/ StopGrace(s) \/ AwaitLapse(s) \/ Find(s)
    \/ Track(s) \/ Mark(s) \/ Check(s) \/ HandTrack(s) \/ HandMark(s)
    \/ Untrack(s) \/ Unmark(s) \/ Hold(s)
    \/ Sit(s) \/ StopListening(s) \/ Switch(s) \/ SwitchBack(s) \/ ListenOnly(s)
    \/ Leave(s) \/ ListenNowhere(s)

DisconnectStep(s) == Forget(s) \/ FindLeft(s) \/ UntrackLeft(s) \/ MarkLeft(s) \/ HoldLeft(s)
GraceStep(t) == Fire(t) \/ Expire(t) \/ PutOffer(t) \/ LapseLeave(t)
KickStep == KickLeave \/ KickLook \/ KickDrop \/ KickFinish
MoveStep == MoveLook \/ MoveFollow \/ MoveAgain \/ MoveMark

Next ==
    \/ \E s \in Sockets :
          \/ SignIn(s) \/ Drop(s) \/ HandlerStep(s) \/ DisconnectStep(s)
          \/ \E request \in Joins \cup {"switch", "leave"} : Ask(s, request)
    \/ \E t \in Timers : GraceStep(t)
    \/ EndSession \/ KickAsked \/ KickStep \/ Move \/ MoveStep

Spec == Init /\ [][Next]_vars

--------------------------------------------------------------------------------

(* Nothing is running on the account's behalf. *)
Quiet ==
    /\ \A s \in Sockets : task[s].pc \in {"off", "ready"} /\ dis[s].pc \in {"no", "done"}
    /\ \A t \in Timers : timer[t] \notin {"fired", "look", "leave"}
    /\ kick = NoKick
    /\ move = NoMove

(* holdSeat, onDisconnect, orphanedSeat: when nothing is running, a seat has the     *)
(* account's live socket or a grace timer that will give it up; "already_in_room to  *)
(* every join until the idle kick" (seatSocket) is what an account with neither gets. *)
(* A kick's goroutine reads seatedElsewhere before the lock and may drop the timer   *)
(* of a later sitting: the accounts that were kicked are left out.                   *)
SeatIsWatched ==
    Quiet /\ seat.room # None /\ spent.kick = 0 =>
        \/ userSocket # None /\ conn[userSocket]
        \/ userSocket = None /\ pending # 0 /\ timer[pending] = "armed"

(* graceExpired, Handler.lapsing: a lapse never takes a seat from an account whose   *)
(* live socket has finished signing in: it is either called off or waited for.       *)
LapseSparesTheLive ==
    [][\A t \in Timers : timer[t] = "leave" /\ timer'[t] = "over" /\ seat.room # None =>
          ~(userSocket # None /\ task[userSocket].pc = "ready" /\ conn[userSocket])]_vars

(* graceExpired, takeResumeOffer: a sign-in that looks for its seat after a lapse    *)
(* took it finds the offer the lapse left behind.  (The store does not fail.)        *)
LapsedSeatIsOffered ==
    \A s \in Sockets : task[s].pc = "find" /\ seat.room = None /\ lapsed => offer # None

================================================================================
