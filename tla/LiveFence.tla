----------------------------- MODULE LiveFence -----------------------------
(***************************************************************************)
(* A hand that outlives its process.  A room is saved to the live store    *)
(* after every closure; a process that starts rebuilds it from the last    *)
(* save.  The save and the ledger's writes are two steps, so a hand may be *)
(* restored from before a write that landed, and two processes may hold    *)
(* the same hand at once.  What keeps the money right is the uniqueness of *)
(* the ledger's action ids and what Table.checkpoint counts of a replay;   *)
(* what ends the double ownership is the sequence number of the saves      *)
(* (game/actor.go, game/livestate.go, game/roommanager_live.go,            *)
(* live/redis.go, db/ledger.go).                                           *)
(*                                                                         *)
(* Turns and cards are TableEngine's: any active player may bet, pack,     *)
(* leave or win here.                                                      *)
(***************************************************************************)
EXTENDS Integers, FiniteSets, FiniteSetsExt

CONSTANTS
    Users,      \* the players of the hand
    Procs,      \* the processes
    Boot,
    Purse,      \* chips every player brought, in wallet and at the seat
    MaxLives,   \* bound: process starts after the first
    MaxFails,   \* bound: saves the store fails, neither taken nor stale
    MaxRefused, \* bound: ledger writes that are refused
    Attempts,   \* settleMaxAttempts: settlement retries before a chain ends
    NoRow       \* no row under an action id

ASSUME LiveAssumption ==
    /\ IsFiniteSet(Users) /\ IsFiniteSet(Procs)
    /\ Boot \in Nat \ {0} /\ Purse \in Nat /\ Boot <= Purse
    /\ {MaxLives, MaxFails, MaxRefused} \subseteq Nat /\ Attempts \in Nat \ {0}
    /\ NoRow \notin Int

VARIABLES
    wallet,     \* users.chips
    rows,       \* chip_ledger: the delta landed under each action id
    endings,    \* how many settlements of the hand have landed (history)
    snapshot,   \* the live store's copy of the room
    copy,       \* per process: the room as it holds it
    faults      \* what is left of the bounds above

vars == <<wallet, rows, endings, snapshot, copy, faults>>

\* What the ledger holds.
books == <<wallet, rows, endings>>

-----------------------------------------------------------------------------

\* PackedActionID, LeftActionID and SettleActionID of the hand.
Kinds == {"packed", "left", "settle"}
Landed(id, u) == rows[id][u] # NoRow

\* The room as a snapshot carries it.  paid is what a contribution has cost its
\* player so far, written what of it counts as written (chipsWritten).
Dealt == [live |-> TRUE,
          status |-> [u \in Users |-> "active"],
          paid |-> [u \in Users |-> Boot], written |-> [u \in Users |-> 0]]
NoRoom == [Dealt EXCEPT !.live = FALSE]
Active(b) == {u \in Users : b.status[u] = "active"}
Seated(b) == {u \in Users : b.status[u] # "left"}
OneLeft(b) == b.live /\ Cardinality(Active(b)) = 1
Pot(b) == MapThenSumSet(LAMBDA u : b.paid[u], Users)

\* The settlement of an ended hand: per player the row's delta, or NoRow.
NoRequest == [attempt |-> 0, delta |-> [u \in Users |-> NoRow]]

\* A process's copy.  lead is liveSeq less the last number the store took; phase
\* is where the running closure stands: none running, endHand to come,
\* Actor.after's flush to come.  life counts the restores up to its own.
Down == [state |-> "down", life |-> 0, fenced |-> FALSE, dirty |-> FALSE, phase |-> "idle",
         lead |-> 0, room |-> NoRoom, request |-> NoRequest]
Idle(c) == copy[c].state = "up" /\ copy[c].phase = "idle"

\* Post takes closures from players and clocks.
Runs(c) == Idle(c) /\ ~copy[c].fenced
Plays(c) == Runs(c) /\ copy[c].room.live

\* The copy after a closure that left the room as b.
Changed(c, b) ==
    [copy[c] EXCEPT !.dirty = TRUE, !.room = b,
                    !.phase = IF OneLeft(b) THEN "ending" ELSE "flush"]

Init ==
    /\ wallet = [u \in Users |-> Purse]
    /\ rows = [k \in Kinds |-> [u \in Users |-> NoRow]]
    /\ endings = 0
    /\ snapshot = [stored |-> TRUE, by |-> 0, room |-> Dealt]
    /\ \E p \in Procs :
          copy = [q \in Procs |-> IF q = p THEN [Down EXCEPT !.state = "up", !.room = Dealt]
                                  ELSE Down]
    /\ faults = [lives |-> MaxLives, fails |-> MaxFails, refused |-> MaxRefused]

-----------------------------------------------------------------------------
(* The ledger *)

\* applyCheckpoint: the wallet moves by the delta and stops at zero; the row
\* carries the delta whole.
Apply(w, deltas) ==
    [u \in Users |-> IF deltas[u] = NoRow THEN w[u]
                     ELSE IF w[u] + deltas[u] < 0 THEN 0 ELSE w[u] + deltas[u]]

Only(u, d) == [v \in Users |-> IF v = u THEN d ELSE NoRow]

\* Mutant: all of it, though the earlier life may have written less or more.
ReplayedWhole(b, kind, u) == [b EXCEPT !.written[u] = b.paid[u]]

\* What the contribution counts as written once a replay has been refused.
Replayed(b, kind, u) == [b EXCEPT !.written[u] = @ - rows[kind][u]]

\* Table.checkpoint in the copy of c, its room being b: the write lands and all
\* of it counts; it had landed in an earlier life, and what landed then counts;
\* or it is refused (or landed then and cannot be read back) and nothing does.
Checkpoint(c, b, kind, u) ==
    LET due == b.paid[u] - b.written[u]
    IN  \/ /\ ~Landed(kind, u)
           /\ rows' = [rows EXCEPT ![kind][u] = -due]
           /\ wallet' = Apply(wallet, Only(u, -due))
           /\ copy' = [copy EXCEPT ![c] = Changed(c, [b EXCEPT !.written[u] = b.paid[u]])]
           /\ UNCHANGED <<endings, faults>>
        \/ /\ Landed(kind, u)
           /\ copy' = [copy EXCEPT ![c] = Changed(c, Replayed(b, kind, u))]
           /\ UNCHANGED <<books, faults>>
        \/ /\ faults.refused > 0
           /\ faults' = [faults EXCEPT !.refused = @ - 1]
           /\ copy' = [copy EXCEPT ![c] = Changed(c, b)]
           /\ UNCHANGED books

\* Mutant: nobody who left is written at the hand end, whatever is still due.
RequestSkipsLeavers(b, winner) ==
    [attempt |-> 0,
     delta |-> [u \in Users |->
        IF b.status[u] = "left" THEN NoRow
        ELSE b.written[u] - b.paid[u] + (IF u = winner THEN Pot(b) ELSE 0)]]

\* endHand's request: a row for every contributor, with what is still due, and
\* none for one who left and is written up.
RequestOf(b, winner) ==
    [attempt |-> 0,
     delta |-> [u \in Users |->
        IF b.status[u] = "left" /\ b.paid[u] = b.written[u] THEN NoRow
        ELSE b.written[u] - b.paid[u] + (IF u = winner THEN Pot(b) ELSE 0)]]

\* Ledger.Settle: one transaction; one id that has landed rolls all of it back.
Settles(req) ==
    IF \E u \in Users : req.delta[u] # NoRow /\ Landed("settle", u)
    THEN UNCHANGED books
    ELSE /\ rows' = [rows EXCEPT !["settle"] =
                       [u \in Users |-> IF req.delta[u] = NoRow THEN @[u] ELSE req.delta[u]]]
         /\ wallet' = Apply(wallet, req.delta)
         /\ endings' = endings + 1

\* endHand in the copy of c, which is cc but for the end: landed, or a duplicate
\* the first retry reads as landed; or refused, and a chain holds the request.
EndHand(c, winner, cc) ==
    LET b == copy[c].room
        over == [cc EXCEPT !.room = [NoRoom EXCEPT !.status = b.status], !.dirty = TRUE]
        req == RequestOf(b, winner)
    IN  \/ /\ Settles(req)
           /\ copy' = [copy EXCEPT ![c] = over]
           /\ UNCHANGED faults
        \/ /\ faults.refused > 0
           /\ faults' = [faults EXCEPT !.refused = @ - 1]
           /\ copy' = [copy EXCEPT ![c] = [over EXCEPT !.request = [req EXCEPT !.attempt = 1]]]
           /\ UNCHANGED books

-----------------------------------------------------------------------------
(* The closures *)

Bet(c, u) ==
    /\ Plays(c) /\ u \in Active(copy[c].room)
    /\ copy[c].room.paid[u] < Purse
    /\ copy' = [copy EXCEPT ![c] = Changed(c, [copy[c].room EXCEPT !.paid[u] = @ + 1])]
    /\ UNCHANGED <<books, snapshot, faults>>

Pack(c, u) ==
    /\ Plays(c) /\ u \in Active(copy[c].room)
    /\ Checkpoint(c, [copy[c].room EXCEPT !.status[u] = "packed"], "packed", u)
    /\ UNCHANGED snapshot

\* removePlayer: one still in the hand is written; one who packed, or leaves
\* between hands, only vacates the seat.
Leave(c, u) ==
    LET b == copy[c].room
        gone == [b EXCEPT !.status[u] = "left"]
    IN  /\ Runs(c) /\ u \in Seated(b)
        /\ IF b.live /\ b.status[u] = "active"
           THEN Checkpoint(c, gone, "left", u)
           ELSE /\ copy' = [copy EXCEPT ![c] = Changed(c, gone)]
                /\ UNCHANGED <<books, faults>>
        /\ UNCHANGED snapshot

\* A showdown, whoever the cards favour.
Showdown(c, u) ==
    /\ Plays(c) /\ u \in Active(copy[c].room)
    /\ EndHand(c, u, [copy[c] EXCEPT !.phase = "flush"])
    /\ UNCHANGED snapshot

\* resolveIfOnlyOneLeft, at the end of the closure of a pack or a leave.
EndsAlone(c) ==
    /\ copy[c].phase = "ending"
    /\ \E w \in Active(copy[c].room) : EndHand(c, w, [copy[c] EXCEPT !.phase = "flush"])
    /\ UNCHANGED snapshot

\* Settler.Retry, on the actor or, once the room is fenced or destroyed, off it.
RetrySettle(c) ==
    LET req == copy[c].request
    IN  /\ copy[c].state # "down" /\ copy[c].phase = "idle" /\ req.attempt > 0
        /\ \/ /\ Settles(req)
              /\ copy' = [copy EXCEPT ![c].request = NoRequest]
              /\ UNCHANGED faults
           \/ /\ faults.refused > 0
              /\ faults' = [faults EXCEPT !.refused = @ - 1]
              /\ copy' = [copy EXCEPT ![c].request =
                            IF req.attempt = Attempts THEN NoRequest
                            ELSE [req EXCEPT !.attempt = @ + 1]]
              /\ UNCHANGED books
        /\ UNCHANGED snapshot

\* ReconcileLive: every room is saved again.
Reconcile(c) ==
    /\ Runs(c)
    /\ copy' = [copy EXCEPT ![c].dirty = TRUE, ![c].phase = "flush"]
    /\ UNCHANGED <<books, snapshot, faults>>

-----------------------------------------------------------------------------
(* The live store *)

\* Mutant: an equal number is taken as well.
AcceptsEqual(lead) == snapshot.stored => lead + 1 >= 0

\* saveTableScript: the offered number, lead + 1, must be above the stored one.
Accepts(lead) == snapshot.stored => lead + 1 > 0

\* The numbers of the other copies, once the store took c's next one; how far
\* behind does not matter once no run of failed saves can catch up.
Behind(c) ==
    LET taken == copy[c].lead + 1
        Less(n) == IF n - taken < -1 - MaxFails THEN -1 - MaxFails ELSE n - taken
    IN  [q \in Procs |-> IF copy[q].state = "up" THEN [copy[q] EXCEPT !.lead = Less(@)]
                         ELSE copy[q]]

\* LiveState.fence: every clock of the room is stopped, and Post takes no more;
\* what the room holds is the owner's now.
Fence(cc) == [cc EXCEPT !.fenced = TRUE, !.dirty = FALSE, !.room = NoRoom, !.lead = 0]

\* LiveState.Flush at the end of a closure of c; cc is the copy it goes on as.
Save(c, cc) ==
    \/ /\ Accepts(copy[c].lead)
       /\ snapshot' = [stored |-> TRUE, by |-> copy[c].life, room |-> copy[c].room]
       /\ copy' = [Behind(c) EXCEPT ![c] = [cc EXCEPT !.lead = 0, !.dirty = FALSE]]
       /\ UNCHANGED faults
    \/ /\ ~Accepts(copy[c].lead)
       /\ copy' = [copy EXCEPT ![c] = Fence(cc)]
       /\ UNCHANGED <<snapshot, faults>>
    \/ /\ faults.fails > 0
       /\ faults' = [faults EXCEPT !.fails = @ - 1]
       /\ copy' = [copy EXCEPT ![c] = [cc EXCEPT !.lead = copy[c].lead + 1]]
       /\ UNCHANGED snapshot

Flush(c) ==
    /\ copy[c].phase = "flush"
    /\ Save(c, [copy[c] EXCEPT !.phase = "idle"])
    /\ UNCHANGED books

\* A room that is destroyed keeps the settlements it still owes, no more.
Gone(cc) == [Down EXCEPT !.state = "destroyed", !.request = cc.request]

\* Suspend: the last save and the end of the room, its hand left as it stands.
Suspend(c) ==
    /\ Runs(c)
    /\ Save(c, Gone(copy[c]))
    /\ UNCHANGED books

\* destroy of an emptied room: the snapshot goes, unless the store fails that.
DestroyEmpty(c) ==
    /\ Runs(c) /\ Seated(copy[c].room) = {}
    /\ copy' = [copy EXCEPT ![c] = Gone(@)]
    /\ \/ snapshot' = [stored |-> FALSE, by |-> 0, room |-> NoRoom] /\ UNCHANGED faults
       \/ /\ faults.fails > 0
          /\ faults' = [faults EXCEPT !.fails = @ - 1]
          /\ UNCHANGED snapshot
    /\ UNCHANGED books

\* destroy of a fenced room, by the RoomManager or by a suspend: no hand is
\* ended and nothing deleted.
DestroyFenced(c) ==
    /\ Idle(c) /\ copy[c].fenced
    /\ copy' = [copy EXCEPT ![c] = Gone(@)]
    /\ UNCHANGED <<books, snapshot, faults>>

\* The process stops, between any two steps, with everything it holds in memory.
Stop(c) ==
    /\ copy[c].state # "down"
    /\ copy' = [copy EXCEPT ![c] = Down]
    /\ UNCHANGED <<books, snapshot, faults>>

\* A process starts: RestoreTable, then Resume, whose closure saves at once.
Restore(c) ==
    /\ copy[c].state = "down" /\ snapshot.stored /\ faults.lives > 0
    /\ faults' = [faults EXCEPT !.lives = @ - 1]
    /\ copy' = [copy EXCEPT ![c] = [Down EXCEPT !.state = "up", !.room = snapshot.room,
                                               !.life = MaxLives - faults.lives + 1,
                                               !.dirty = TRUE, !.phase = "flush"]]
    /\ UNCHANGED <<books, snapshot>>

Next ==
    \E c \in Procs :
        \/ \E u \in Users : Bet(c, u) \/ Pack(c, u) \/ Leave(c, u) \/ Showdown(c, u)
        \/ EndsAlone(c)
        \/ RetrySettle(c)
        \/ Reconcile(c)
        \/ Flush(c)
        \/ Suspend(c)
        \/ DestroyEmpty(c)
        \/ DestroyFenced(c)
        \/ Stop(c)
        \/ Restore(c)

Spec == Init /\ [][Next]_vars

-----------------------------------------------------------------------------
(* Properties *)

\* Whatever is lost, replayed or played twice, the players of a hand never end
\* with more chips than they brought: every reading of a checkpoint's answer
\* errs towards debiting too much (Table.checkpoint, "neither can create a chip").
NeverCreatesChips ==
    MapThenSumSet(LAMBDA u : wallet[u], Users) <= Purse * Cardinality(Users)

\* That is so as long as one settlement of the hand lands.  A second one is
\* refused for the ids it shares with the first, and they share none when each
\* of them writes players who had left, and were written, in the other's life.
OneEndingCreatesNoChips == endings <= 1 => NeverCreatesChips

\* What a copy counts as written of a contribution is nothing, or what one write
\* under this hand's ids landed: no life of a hand lets a stake go unwritten
\* because another wrote a different one (Table.checkpoint's chipsWritten,
\* LandedDelta).
WrittenHasLanded ==
    \A c \in Procs : \A u \in Users :
        copy[c].room.written[u] # 0 =>
            \E k \in {"packed", "left"} :
                Landed(k, u) /\ copy[c].room.written[u] = -rows[k][u]

\* A process that restored the room and saved it holds it against every process
\* that held it before: "the first save claims the table" (registerRestored).
\* Said of stores that have failed no save: every attempt takes a number, landed
\* or not, and a stale process whose count ran ahead so can pass the claim.
ClaimHolds ==
    [][snapshot.stored /\ snapshot'.stored /\ faults.fails = MaxFails
         => snapshot'.by >= snapshot.by]_vars
=============================================================================
