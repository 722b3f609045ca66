# King Teen Patti: a TLA+ development of the game server

The server (`src/go-server`, Go) runs Teen Patti and Poker tables for real accounts. Each
table is an actor; money lives in PostgreSQL, a copy of every live table in a live
store (Redis or memory), and the seats, locks and marks that keep a player from being
in two places at once in the `RoomManager`. This directory models the part of it where
the order of events decides whether chips are kept, whether a hand can end, and whether
a player is treated fairly.

Paths below are relative to `src/go-server/internal/`.

## 1. Inventory

### Components, their state and their operations

| Component | State it keeps | Operations | Correct when |
|---|---|---|---|
| **Actor** (`game/actor.go`) | mailbox, `destroyed`, `fenced`, poster counts | `Post`, `Run`, `Loop`, `Cancel`, `MarkDestroyed` | closures run one at a time; a poster is always answered, by its closure or by `ErrTableDestroyed` |
| **Settler** (`game/actor.go`) | retry timers, `claimed` flags, `detachedOpen`, departed marks | `Owe`, `Retry`, `Detach`, `settleDetached`, `finishDetached`, `WaitSettlements`, `OweDeparted`, `ReleaseDeparted` | a refused settlement is retried until it lands or is given up, paid at most once, waited for, and marked owed for exactly that long |
| **Table** (`game/table.go`) | seats, hand, pot, stake, turn and its token, clocks, countdown | `AddPlayer`, `RemovePlayer`, `Act` (see, bet, pack, show, sideshow, forced sideshow, missile), `RespondToSideshow`, `CreditChips`, timer callbacks, `Destroy`, `Suspend` | chips are conserved, a hand always moves on, rounds are fair, pot within its cap, the table deals whenever it can |
| **Variation window, five-card pick** (`game/table_variation.go`, `table_fivecard.go`) | the open window and its clock, picks outstanding, a deferred showdown | `selectVariation`, `closeVariation`, `selectCards`, `expirePicks`, `serverShowdown` | the window closes once and hands out the turn; a deferred showdown happens once, and judges nobody who may still choose |
| **Ledger** (`game/ledger.go`, `db/ledger.go`) | wallets, `chip_ledger` rows with unique action ids | `Checkpoint`, `Settle` | one transaction per call; a replay is refused; the wallet is never negative |
| **RoomManager** (`game/roommanager.go`) | index of seats, tables, holds, stripes, `owed`, `departing` | join, leave, switch, create, consolidate, kick, destroy, `CreditBoughtChips`, `WhileUnseated` | a player has one seat at most; no seat is taken from, and no lobby spend made of, a wallet that a table still has to write |
| **Live state, restore** (`game/livestate.go`, `snapshot.go`, `roommanager_live.go`, `live/`) | the snapshot and its sequence, the fence | `Flush`, `RestoreTable`, `ReconcileLive`, `Suspend` | one owner per table in the end, and no chip made while there are two; a restored table re-arms its clocks |
| **Hand ranking, ladder, tax** (`game/handrank.go`, `tabletax.go`, `betOptions`) | none | pure functions | agree with their rules |
| **Poker** (`poker/`) | seats, the hand with its street, bets and clock, a button, a countdown | the same room interface; fold, check, call, bet, raise, play, draw | a street waits for who still has to answer, bets are matched before it closes, side pots go to the right hands |
| **Socket handler** (`socket/handler.go`) | `userSockets`, `roomSockets`, `pendingRemovals`, `lapsing`; the resume offer in the live store | sign-in, `onDisconnect`, join, create, switch, leave, `graceExpired`, `OnPlayerKicked`, `OnPlayerMoved`, `RestoreSeats` | a seat has a live socket or a grace timer; a lapse takes no seat from a live session and leaves an offer |
| **Statistics** (`stats/`, `live/redis_stats.go`, `db/stats.go`) | bounded queue; pending counters and batches in the live store; rows and receipts in PostgreSQL | `Record`, `Sync`, `Close`, `Forget`, `Pass`, `Flush`, `PruneFlushes` | what was folded into the live store is added to its players' rows exactly once |
| **Around it** | XP and missions, lucky draw, purchases, friends, reports, auth, sockets, app version gate, assets, metrics, Flutter client, bots | | see `PROJECT.json`, `components` |

### How they interact

A socket handler calls the `RoomManager`, which takes the player's stripe and calls a
table; every table method posts one closure to the table's actor and waits. On the actor
the table calls the ledger and blocks on it. Timers run on Go's timer goroutines and only
*post* a callback: by the time it runs, what it was armed for may be over, so each carries
a token (turn), a generation (countdown) or an identity (sideshow). A kick is the reverse
path: the table announces it and a goroutine of the `RoomManager` calls back into the table.
A settlement the database refuses stays on the actor as a timer; when the room is
destroyed or suspended its chain goes on in goroutines of its own, and the `RoomManager`'s
owed marks keep the players it concerns out of the lobby's wallet operations meanwhile.

After a closure that changed the room, the actor saves it to the live store under the next
sequence number; the store refuses a number that is not above its own, and a room that
is refused fences itself. A process that starts loads every room and saves it once at
once, so that whoever still holds it is fenced by their next save. The socket handler stands between the room manager and the
players: each socket has a dispatch goroutine, its disconnect another, each grace timer,
each kick and each consolidation move another, and they share four maps under one lock
that none of them holds while it calls the room manager.

### What is hard here

* callbacks that were already on their way when they were cancelled (turn, sideshow,
  countdown, retry);
* paths that stop a clock and rely on another path to start it again (sideshows);
* a write whose answer is lost, repeated later, possibly by a different goroutine, after
  the room is gone;
* two counts kept by two goroutines that must both be right (owed marks, detached chains);
* arithmetic at an edge: the last rung under a pot cap, rounds whose opener has left;
* departures in the middle of everything;
* a hand that is played on in two processes, from a copy older than what the ledger has;
* choices with clocks of their own (window, pick, sideshow) which take the place of the
  turn's clock, and a restart at any point of them;
* two stores that commit apart: a batch committed in one and not yet forgotten by the other;
* a request that takes a seat and outlives the socket it came from, and a lapse that gives
  up a seat while its player is signing in.

`PROJECT.json` lists each at its line (`hazards`), with the properties that cover it or
the module planned for it.

## 2. Plan

In order; those marked done are here.

1. **SettlementContract, SettlementChain** (done, proved): the money of a finished hand.
2. **TableEngine** (done, proved): the hand engine with all of its clocks.
3. **WalletFence** (done, proved): seats against wallets. `Checkpoint` and `Settle` with their amounts
   and the clamp at zero, the stripe, `owed` and `departing`, lobby spends, purchases,
   joins, leaves, switches and destroys. It gives the requests of SettlementChain their
   amounts, and its retries only the part of the chain that moves them.
4. **LiveFence** (done, proved): two processes, the compare-and-set on the snapshot's sequence, the
   fence, restore, and a stop between a ledger write and the save.
5. **ChoiceWindows** (done, proved): the variation window with the five-card pick, the sideshow and the
   deferred showdown, and the timers a restored table arms. It stands beside TableEngine: it has
   the turn and the clocks, without the chips.
6. **PokerHand** (done, proved): the second engine, with its side pots checked against a definition
   chip by chip.
7. **Sessions** (done, proved): one account, its sockets, its grace timers, its resume offer.
8. **StatsPipeline** (done, proved): the bounded queue, the batches with their ids and receipts, two flushers.
9. **RoomSeating**: what WalletFence leaves out of seating: holds and seat limits, the choice
   of a room, consolidation's moves, suspend, the order of stripes and `mu`.
10. Algorithms as functions against reference definitions over bounded inputs: bet ladder,
   tax, showdown with its tie order, hand ranking on a small deck, `LedgerRows`.

Every safety property of the passing runs is a theorem, some under hypotheses that "Proofs" names. Worth proving next: the fences of RoomSeating, once it is
there, and that the requests of WalletFence are those SettlementChain takes. The models are written
for proofs: no RECURSIVE operator, one operator per method, constants with named assumptions. "Proofs" below says
what is proved and what is only model-checked.

## 3. Modules

| Module | Models |
|---|---|
| `SettlementContract` | what a room promises about a finished hand's money (abstract) |
| `SettlementChain` | the Settler, the actor and the room's end, against the database |
| `SettlementProofs` | the theorems of SettlementChain and of LiveFence |
| `MCSettlementChain` | two hands that share a player, two attempts |
| `Sums` | lemmas about sums over finite sets and their least elements |
| `TableEngine` | the hand engine of one Teen Patti table |
| `TableEngineProofs` | its theorems |
| `MCTableEngine` | two or three players, symmetry over players |
| `WalletFence` | wallets, seats and everything that moves chips between them |
| `WalletFenceProofs` | its theorems |
| `MCWalletFence` | symmetry over players, and over players and rooms |
| `LiveFence` | a hand's writes and saves in two processes |
| `MCLiveFence` | symmetry over players and over processes |
| `ChoiceWindows` | window, picks, sideshow, deferred showdown and their clocks |
| `ChoiceWindowsProofs` | its theorems |
| `MCChoiceWindows` | an instance for the configurations |
| `PokerHand` | the poker engine's hand, seats and pots |
| `PokerHandProofs` | its theorems |
| `MCPokerHand` | what the players bring |
| `Sessions` | one account's sockets and seat |
| `SessionsProofs` | its theorems |
| `MCSessions` | symmetry over sockets and over rooms |
| `StatsPipeline` | the statistics' way from a table to PostgreSQL |
| `StatsPipelineProofs` | its theorems |
| `MCStatsPipeline` | an instance for the configuration |

### SettlementChain

`stage[h]` says where the settlement of hand `h` is: `first` while `endHand` waits for
`Ledger.Settle`, `armed` while a retry timer runs, `posted` once it has fired and `Post` has
admitted its callback, `retrying` while the actor is in the ledger for it, `bounced` when
the callback was refused (`ErrTableDestroyed`), `resting` and `detached` off the actor,
`finishing`/`forsaking` between the two steps of `finishDetached`. `listed` is the
`retryTimers` map, `claimed` the flag on an entry, `detachedOpen` the counter
`WaitSettlements` waits on, `owed` the manager's count. The database is an actor of its
own: between the call and its answer it may commit, refuse a duplicate or fail, and an
answer may be lost in each case (`call` becomes `error`).

Left out: amounts (`Moves[h]` says only whose wallet changes), back-off lengths, and a
process crash, which loses every chain. Two simplifications that lose no behaviour: a
commit whose answer is lost is decided before the error returns, because the caller's
context outlives the statement timeout; and the branch of `Retry` that finds the room
already destroyed on entry is not reachable, as it is entered on the actor before
`MarkDestroyed` or through a callback that would have bounced. A hand live in a fenced or
suspended room stays `live`: it belongs to the next owner.

### TableEngine

Everything a table method does is one closure on the actor, so it is one action. The
table is one record `tb`; an operator (`Pack`, `AdvanceTurn`, `EndHand`, ...) is the method of
that name and returns the *set* of tables it may leave. The set has more than one member
only where cards decide: a showdown or a sideshow may be won by any hand it compares.

What interleaves:

* `tb.turnClock`, `sideClock`, `startClock` are armed timers. A clock that fires moves to
  `tb.late`, the callbacks waiting in the mailbox. A callback's `current` flag stands for
  "its token, generation or sideshow is still the table's"; whatever replaces the token
  clears the flag. The callback runs later, as an action of its own.
* `tb.kicks` are goroutines of `kickHook` that have been started.
* `seat.grace` is a seat inside its unfunded grace; `seat.kick` is `kickedUnfunded`.

`purse` is what a player has away from the table and `bank` the chips they may still buy,
so that chips can be counted. `tb.turns` is history: turns given to each seat in this hand.

Abstractions: a seat's status is only active or not; whether a packed player had looked,
and how often they bet blind, is reset when they are out because it is not read again;
`missed` saturates at the limit; the sweep's single unfunded timer is a grace per seat;
the spend of a missile or a hammer that the wallet refuses leaves the table as it was, so
it is no action. The branch of `resolveIfOnlyOneLeft` in which *nobody* is left is
unreachable while HandCanMove holds (two are always active in a live hand), and is not
written out. In other modules of the plan: the variation window, the five-card pick, the
winning tax, ledger checkpoints, `Destroy`, snapshots. Repeated action ids are not modelled.

### WalletFence

| Variable | In the code |
|---|---|
| `wallet`, `packs`, `spent` | `users.chips`; chip packs still to be bought and chips spent, so that chips can be counted |
| `index`, `departing`, `owed` | the RoomManager's `playerRooms`, `departing` and `owed` |
| `op[u]` | the operation that holds u's stripe and how far it is: a join that has looked (`join`), read the wallet (`carry`) and taken the index entry (`reserved`); a `leave`; a lobby `spend` whose function has not run; a purchase that is in the wallet (`bought`) and has found a seat (`credit`). `to` is the room a switch goes on to, and then the one it came from |
| `table[r]` | seats, the live hand's contributions (`entry`, with `chipsWritten` as `written`), the pot, and the actor: `busy` is a closure that waits for the ledger, `by` the leave whose closure it is, `marked` the hand's players marked by `OweDeparted`. `state` follows a destroy: off the rooms (`closing`), settling its hand (`ending`), destroyed (`gone`), marks cleared (`shut`) |
| `chain[h]` | the settlement request of a hand: rows and deltas, whether it has landed, the answer that is on its way |

The money of one hand goes through three writes: `hand_packed` and `hand_left` (`Checkpoint`,
best effort, no retry) and the settlement, which carries what is still due. `Checkpoint` returns the
set of outcomes, so the result is a refusal, a write, or a write whose answer is lost.
A join is three steps because only the stripe, and no lock on the wallet, ties the read to
the seat. A leave's closure may run on into the hand's end, and then the leave waits for
the ledger with its stripe held.

Abstractions: any player in a hand may bet one chip, pack or win at any time, as turns and
cards are TableEngine's; a purchase and a lobby spend are of one chip; a kick is a leave,
and consolidation a switch of players who are not in a hand; `SwitchTable`'s look at the
seat and its deletion of the index entry are one step (they differ only if the room goes
between them, and then the switch ends as it does here); the database commits a retry
at any time, so the back-off has no place. Left out: the winning tax and XP rows (separate rows of
the same transaction), ledger rows, the replay of a checkpoint after a restore, seat limits and holds.

### LiveFence

| Variable | In the code |
|---|---|
| `wallet`, `rows` | `users.chips`; the `chip_ledger` rows of one hand, by action id and player |
| `snapshot` | the live store's copy: the room, and in `by` the life (restore number) whose save it is |
| `endings` | history: how many settlements of the hand have landed |
| `copy[p]` | process p's room: `state`, the life it was restored as, `fenced`, `dirty`, where its running closure stands (`phase`: in `endHand`, before `Actor.after`'s flush, or idle), its settlement `request`, and `lead` |
| `faults` | what is left of the bounds |

Sequence numbers are not counted: `lead` is a process's `liveSeq` less the number in the store, which is
all that SaveTable's compare-and-set tells apart; every save that is taken moves the others back,
and every attempt, taken or failed, moves its own copy on. A restored room starts at the number it loaded, and its first
save claims the room unless somebody saved in between; then it is the one that is fenced.
`Checkpoint` has the three outcomes of `Table.checkpoint`: landed, found
landed by an earlier life (`Replayed` counts as written what *that* row moved), or refused; `Settle` is one
transaction that one landed row rolls back whole. `NoRow` is the absence of a row, which is not a row of nothing: a
leaver who owes nothing has none in the request. `EndHand` and the retries go through them. `Reconcile` is
`ReconcileLive`: a room is saved though nothing changed.

Left out: which player is on turn, cards, further hands, joins, and whether the answer of a write
that landed is heard in the same life (SettlementChain has that).

### ChoiceWindows

`hand` is what a snapshot carries: seats, turn, window, picks, sideshow, deferred showdown, and
for each deadline whether it has lapsed. `armed` is the set of running timers and `late` the callbacks
of those that fired, each with the hand it was armed for; replacing a token or
closing a window takes its callback out of `late` (`Forget`), as the code's comparison does when it runs.
A closure is an action that takes `Here` (hand, timers, callbacks) through the methods it calls,
in their order, and hands the result to `Becomes`. `Restart` drops timers and callbacks and applies
`resumeTimers`; a deadline may have lapsed by then, as the `Lapse` actions are free to run before it.
`longTurn` is a turn whose clock was extended for a pick (`extendTurnForPick`).

Chips and cards are left out: a bet moves the turn and may reach the cap, a comparison goes
either way. `Overtakes` says whether a sideshow may be asked while the asker's own
timeout is on its way. The finding `choice_frozen` is what happens when it may, and the
passing run has the rest.

### PokerHand

`game` is one of three: `blinds` (both games with a board), `draw`, and `house` (three-card, where each plays
against the dealer). `table` has the seats, the hand `h` (street, highest bet, least raise, turn,
and per player the entry with what they put in, what of it is written, whether they are out or
have left), the button, the countdown and the turn's clock (`ticking`, `late`). `SidePots` and `Award` are
`pot.go`; `PotsAreLayers` compares them, in every state of a live hand and for every order of the
hands, with a definition that looks at one chip at a time.

`Settled` is the hand's end: pots (`Takes`), each account after them (`Final`), the settlement, and the seats
that follow (`Cleared`). A hand that a
destroyed table refunds returns what those still seated put in and keeps the stakes of those who left it:
ChipsConserved then says "no more than", and exactly that. The house has no wallet, so conservation
is not claimed of its games. Kicks
and sweeps are departures. Left out: which cards beat which, views, ledger refusals (the same
`Ledger` as Teen Patti's).

### Sessions

| Variable | In the code |
|---|---|
| `conn`, `task`, `dis` | a socket's connection, its dispatch goroutine with what it has read so far, its `onDisconnect` |
| `seat` | the manager's index entry and the seat's connected flag |
| `userSocket`, `viewers`, `pending`, `lapsing` | `userSockets`, `roomSockets`, `pendingRemovals`, `lapsing` |
| `timer[t]` | every grace timer armed so far: running, fired and before its lock, in its lapse, over |
| `offer`, `lapsed` | the resume offer; and, as history, that a lapse took the seat |
| `kick`, `move` | the goroutine of a kick, the listener call of a consolidation |

An action is one section: under `Handler.mu`, under the player's stripe, or on the table. What a
goroutine has read in one section and uses in a later one is a field of its `task`, `kick` or `move`.
Assumptions, each needed by one of the properties and named here: the grace period is longer than a
lapse in progress takes (`Fire`); `lapseWait` does not run out; the live store answers; a table
whose last player moved is destroyed; in the passing run the account has one sign-in
at a time (`Overlap` FALSE), and SeatIsWatched is not claimed of an account that was kicked. The last two are
real behaviours that break it: see "Seen on the way".

### StatsPipeline

The Redis client sends a command whose connection ended before the reply once more (`MaxRetries = 1` in `OpenRedis`),
and the script of `RecordStats`, an `HINCRBY` of each counter, carries no request id: it may fold a hand in twice. So
what moves through the stores is a *landing* `<<h, n>>`: the counters of hand `h` as its first (`n = 1`) or its second
attempt folded them in. `landed` is the history of those, `rows[u][l]` how often landing `l` has been added
for player `u`; the codec of the counters is left out. `fate[h]` is what the recorder makes of a hand: `queued`, `written`
when it has heard of it, `dropped` when it gave up (queue full or closed, process stopped, or an error, whether or not
the call landed). `recorder[p]` is a process's queue, what its goroutine has gathered, and whether the
client is about to send that `again`; `flusher[p]` is where its pass is, with the batches
it has read (`todo`) and the players it has picked. `pending`, `batches` and the receipts are the two stores.

A step is one round trip: `List` and `Read` are `StatsBatches`, `Pick` and `Move` are `TakeStatsBatch`, and
between any two the other process's flusher may act. Each of them may fail, and each that writes may also
have been done unheard (`Fails`). Between the two attempts of a `Write` everything else goes on: another flusher may have taken
the first landing, or the process may stop. A `Move` that is sent again finds its own batch open (`ErrStatsBatchExists`),
and the pass leaves it to the next one. The other calls of the flusher are the same done twice. `Crash` stops a process anywhere, `Close`, `Closed` and `Exit` are its shutdown, which
may be cut off. `Prune` takes receipts past FlushKeep (`Age` lets seven days pass between passes). It spares those of
a batch that another flusher has read and not finished: a pass lasts 30 s at most, a batch that was
listed seven days ago is not what it holds.
`Commits` is one transaction and `Read` sees a batch whole; a batch seen in part is one that has its receipt.

Excluded: a call to the live store that runs after its caller gave up on it, and a `Move` that is sent again after another
flusher has finished the batch of its first attempt ("Seen on the way" says what the code does then).

## 4. Runs

| Run | States | Shows |
|---|---|---|
| `settlement_chain` | 7 thousand, fair | two hands in all orders: safety of the chain, that it implements the contract, that chains end and `WaitSettlements` returns |
| `table_engine` | 228 thousand | the engine's safety properties with three players under a pot cap |
| `table_live` | 3.5 thousand, fair | hands end, broke players are shown out, also when they buy |
| `wallet_fence` | 1.46 million | two rooms destroyed under their players, every write refusable, answers lost, retries given up: no chip is made, no debit reaches a wallet the lobby may use, one seat |
| `wallet_moves` | 656 thousand | three players, switches and purchases in mid-hand with checkpoints refused: seats agree with wallets, and what was not written is written at the hand end, once |
| `live_fence` | 762 thousand | one hand in two processes, with stops, failed saves and refused writes: no chip made as long as one ending of the hand landed, no landed write forgotten, the restored room's claim holds |
| `choice_windows` | 73 thousand, fair | two hands and a restart anywhere: some clock will come, every save restores, no open pick is judged, hands end |
| `poker_hand` | 85 thousand | all games with unequal stacks: turn, chips, pots and matched bets |
| `sessions` | 2.36 million | two sockets of one account: no seat unwatched, none taken from a live session, none taken without an offer |
| `stats_pipeline` | 195 thousand, fair | two flushers, calls that fail, go unheard or are sent again, stops and shutdowns, pruning, a deleted account: no landing is added twice or lost, `Sync` and `Close` keep their word, and what landed arrives |
| `late_win`, `choice_frozen` | violation | see Findings |

`TypeOK` of WalletFence, ChoiceWindows and PokerHand is stated for proofs and is not part
of these runs; it holds in their instances, and all three are theorems.

The runs do not check deadlock: a destroyed room, an empty table whose players all
lack the boot, and a bound that is used up really do stop.

**Bounds.** `MaxAttempts` is 2 (code: 10): one retry on either side of the cap is what the
rules tell apart, and a chain can be refused, detached and given up with two. Two hands
are enough to have one chain open while another hand is live, is settling or is ended by
`destroy`, with one player in both, so that owed marks add up. In `table_engine` three seats
are the least at which a sideshow, a forced one and a missile are allowed, the opener of a
round can leave while two play on, and a departure does not end the hand; two chips at
boot 1 let a player bet once, win, or go broke; two rounds let a round end by the cap and
not by it; the pot cap of 5 lies below what three players can put in. `MaxLate` is how many fired
callbacks wait in the mailbox at once, 1. `table_live` has two players with one chip each and one more to
buy, so that a seat's grace can end in a purchase.

In the WalletFence runs one chip beyond the boot, or one that is bought or won, leaves one to bet,
so that a debit can be due at a pack or a leave, a wallet can be smaller than a loss, and a loser can
come back with what is left. Two rooms are the least for a switch, and for a player of one to meet
what the other still owes; three players (`wallet_moves`) the least with which one leaves in
mid-hand and the hand goes on. What the passing runs leave out is refused settlements *together with*
a second hand in the same room, and switches together with destroys: each is described below, and
a passing run over it would have to weaken the property. `Packs` and `HandsPerTable` bound
what is unbounded in the code.

`live_fence`: two players are the least that settle, two processes the least that overlap, and with
one start after the first, one failed save, two refused writes and one retry each can happen before or after
every other. ClaimHolds is said only of stores that failed no save: a failed one lets a stale
process run ahead (below). `choice_windows`: three seats for a sideshow next to a third
player; two hands so that a callback of the first can reach the second; one restart, one callback
in flight. `poker_hand`: three unequal stacks are the least with two side pots and an uncalled rest; the
game with a board has one street after the first instead of three, as they repeat; `Bank` leaves room for
one purchase. `sessions`: two sockets are what replaces and is replaced, four timers more than
any path arms, one request and one kick or move so that each meets a drop and a sign-in. `stats_pipeline`: two processes
so that flushers overlap; one hand that is folded in twice makes two batches of the same players, in two passes, as a pass takes
one; a queue of two holds the hand and the marker of a `Sync` behind it, and is full with them; a stop and a failed, unheard or
resent call can fall together on any step. A batch has room for both players, so that one that leaves some of them waiting
is in the proofs only.

**Fairness.** Weak fairness of the steps Go's runtime takes by itself: a timer that is
armed fires, the actor drains its mailbox, a started goroutine runs, and the database
answers (each call has a statement timeout). Nothing is assumed of players, and nothing of
`Destroy` beginning: only that one that began ends. `table_live` has no round cap, so the
clocks alone must end the hand. In `choice_windows` deadlines pass, timers fire and callbacks
run; nothing is assumed of a restart. In `stats_pipeline` the recorder's goroutine runs, the
flusher's ticker fires and its calls return (each has a timeout), and a process that went down ends and is started
again, as its supervisor does; failures are bounded, so a pass gets through in the end.

**Findings.**

* `late_win`: a winner whose settlement was refused has the pot at the seat and plays on. A
  loss larger than the wallet can commit before the retry: the clamp in `applyCheckpoint`
  hides the difference, the next winner is paid in full, and the retry pays the first pot too.
  The comment at `settlementOwed` argues that a late credit cannot clamp anything, which
  is so for a player who has gone.
* `choice_frozen`: `requestSideshow` stops the turn timer but leaves the turn's token. If the timer
  had just fired, its callback finds the token current, packs the asker and gives the turn on with
  the sideshow still pending. While the process lives both clocks run. If the room is saved and
  restored now, `resumeTimers` arms the sideshow's clock alone, and its lapse does not restart the turn's,
  since the asker is no longer on turn: the hand stands.

**Seen on the way**, and left without a run of their own.

In the hand and its money:

* The overtaken sideshow above also costs the asker the hand without a restart; the comment on
  `requestSideshow` says that the player asking should not lose their turn meanwhile.
* The comment in `endHand` says that the next checkpoint still carries a delta whose retries were
  abandoned, as `chipsWritten` is not advanced. `startHand` builds the next contribution
  anew from the seat, so nothing carries it.
* Between a purchase's credit of the wallet and its credit of the seat, a retried settlement can
  hand the seat a balance with the pack in it; the seat then counts it twice. The comment on
  `CreditBoughtChips` describes that outcome as what the stripe prevents; a table's own
  retry takes no stripe.
* A seen player's last rung of 1 sets the stake to `1/2 = 0`. `potCapReached` compares
  `pot + stake > MaxPot`, which is then false with the pot exactly full, and nobody has a
  rung any more: the hand goes on by packs only. It takes a cap that leaves a headroom of
  exactly 1; the amounts in the default menu do not.
* `onSettleLanded` corrects seats that are "not mid-hand", by status. A player who packed in the
  live hand has another status than active; if that write was refused, the balance still
  holds their stake.
* A room destroyed after `SwitchTable` took the player off the index and before its
  `RemovePlayer` runs settles the hand first. There is no seat to take chips from, and the
  switch goes on with the wallet as read before the hand was written: SwitchCarriesTheStack
  does not hold with `CanSwitch` and `CanDestroy` both on.
* `advanceTurn`'s `setTurn` does not extend the turn for a pick that is open, which the comment at the head of
  `table_fivecard.go` promises; the turn may end before the pick. It ends in a pack, so nothing is stuck.
* With `Overtakes` TRUE a save can also be one that `validateSnapshot` refuses.

In the live store:

* The comment at `LiveSeq` calls gaps in the sequence harmless. A process counts its attempts, also
  those that do not land; a stale one whose count has run ahead through failed saves can be taken over the
  claim of the process that restored its room.
* The save of a stale process after the owner has deleted the snapshot creates the key again.
* Two endings of one hand can both be written. A settlement's rows carry the ids of those it has a row for, and one who
  left and owes nothing has none. With three players of one chip: the first leaves and the room is saved; the second leaves,
  the third wins, and the settlement of the third alone lands; the process stops before it saves. In the restored hand the
  other two still play: now the third leaves, the second wins, and the settlement of the second alone shares no
  row with the first and is not refused. The wallets hold 0, 2 and 2 of the 3 chips that were brought. The comment at `Retry` says that such an
  ending is refused as a whole, the one at `checkpoint` that every reading of an answer errs towards debiting. It takes three
  players, so the run with two holds even without the condition; OneEndingCreatesNoChips states it with the condition, which is
  what is proved.
* With three processes the claim of a restored room can be lost without a failed save: a stale one whose copy
  runs empty deletes the snapshot, whoever it belongs to by now (`DeleteTable` compares nothing), and the store then takes the
  save of another stale one.
* A save whose reply is lost is sent again by the client, finds its own sequence number in the store and comes back as
  `ErrStale`: the room is fenced and destroyed, though nobody else owns it. LiveFence leaves it out:
  there a save is accepted and heard of, is refused because another process was first, or has not landed.
* A restore loads, then claims; if the old process saves between the two, it is the restored room that is fenced.
* The comment on `Retry` says that afterwards every wallet equals its ledger; a row carries the
  whole delta where the wallet was clamped.

In the sessions:

* `create` does not look at its socket after the table has been made, as every
  other request that takes a seat does (`seatSocket`, and the comment there names this very window). A socket replaced
  or dropped meanwhile leaves a seat with neither a socket nor a timer, which holds the account until the idle
  kick: with `Joins = {"create"}` SeatIsWatched fails.
* A sign-in reads which socket it replaces, waits for it, and then stops the account's grace timer. If
  its own socket is ended meanwhile, the timer it stops is the one its own `onDisconnect` armed, and
  the seat has none (`Overlap` TRUE). LapsedSeatIsOffered fails there too.
* `OnPlayerKicked` reads whether the account sits elsewhere before it takes the lock: a player who
  sat down and dropped in between loses the timer of the new seat, and one who sat down
  at the same table is unsubscribed from it. The kick itself removes whoever sits at the table by the time it runs.
* A sign-in that found a seat and is kicked before `trackRoom` listens to a room it has no seat at; a
  move between `SwitchTable` and `untrackAllExcept` leaves the socket listening to the old table.
* The `onDisconnect` of a socket that dropped by itself can mark the seat disconnected and the account
  offline after the next sign-in marked it present; the heartbeat restores the presence.

In the statistics:

* `Flush` joins `users` without locking the rows: an account deleted while a flush's statement runs can get its
  rows back after `deleteStats` removed them, which the comment on `Flush` says must not happen. The module takes both as atomic,
  and ExactlyOnce speaks of accounts that are not deleted.
* A hand can count twice. When the connection ends after Redis has run the script of `RecordStats`, the client
  sends it again and the counters are added again; in `stats_pipeline` both landings of the hand reach the rows. ExactlyOnce
  therefore speaks of what was folded in, which is what the comments on `Flusher` and `StatsStore` promise. What
  `docs/ARCHITECTURE.md` says goes further: "Every write that can be retried is idempotent", with the batches' receipts as
  the example, and "a hand counts at most once". If the second attempt fails too, or the first goes unheard and nothing is
  sent again, the recorder counts a hand as dropped that is in the store.
* The script that takes a batch is sent again likewise. If another flusher has listed, committed and finished the batch
  in between, and a picked player has been in another hand since, the second attempt opens a batch under an id
  that has its receipt: what it holds is taken for committed, and is lost. It takes two flushers and the time until the
  client's second attempt (at most half a second). The module excludes it.
* A pass whose picked players another flusher has just taken registers no batch, takes that for "nobody is waiting", and
  leaves the others to the next pass.
* A batch still open after FlushKeep whose receipt is pruned is counted again, as the comment on `FlushKeep` says; a pass retries
  open batches before it prunes, so it takes seven days without one full pass, and a second flusher.

## 5. Proofs

Each model has one inductive invariant that needs no hypothesis, proved as a theorem of its own
(`Invariance`, `Inductive`), and its properties follow from it; WalletFenceProofs has a second one, about amounts, which does. Each invariant, or the part of it that TLC can evaluate, was
checked on small instances before it was proved. The constants are arbitrary: any finite set of players, processes
or hands, and any value of the bounds, so that a bound on timers, refusals, retries or late callbacks
restricts no theorem. The assumptions are those the modules declare (`...Assumption`), which the runs evaluate.

SettlementChain and LiveFence are two views of one concern, the money of a hand, and SettlementProofs has the theorems of
both. It extends both modules, which is why SettlementChain writes `ChainInit`, `ChainNext`, `ChainSpec` and `Players` where
the other modules have `Init`, `Next`, `Spec` and `Users`.

`Sums` is for the theorems about chips. What it says of a sum over a finite set (a summand that changes, a set split in two,
a lower bound) needs an induction over that set. The library's induction theorems take an operator as a parameter, which the
provers cannot instantiate; the lemmas take a smallest counterexample instead (`Smallest`: strict inclusion on the
subsets of a finite set is well-founded), which is first-order. `Lowest` gives in the same way the least value of a function on
a finite set, for the operators that choose the nearest seat.

### SettlementProofs: SettlementChain

Proved for every set of hands and players, every `Moves` and every
`MaxAttempts >= 1` (`SettlementAssumption`; the set of hands is finite because they are
counted):

| Theorem | Property |
|---|---|
| `TypeCorrect` | TypeOK, with `detachedOpen` never below zero |
| `OwedExact` | OwedIsOpenChains |
| `AtMostOnce` | PaidAtMostOnce |
| `LandedPaid` | LandedIsPaid |
| `NothingMissed` | WaitMissesNothing |
| `FinalOnceReleased` | ReleasedIsFinal (an action property) |
| `Refinement` | ImplementsContract |

The argument rests on one inductive invariant, `ChainInv`. TypeOK is not inductive alone: that
`detachedOpen - 1` stays natural needs `detachedOpen` to be the *number of claimed chains that
have not ended*, and this needs to know which stages are claimed (exactly those off the
actor, and a `posted` one that `Detach` met). OwedIsOpenChains is inductive only together
with each stage's place in the chain: a mark is set on the way into `armed` and lifted on the
way out of the open stages, and `Release` subtracts one only because the count of open
chains is positive then. PaidAtMostOnce needs what an answer implies of the database:
`ok` and `dup` are returned only when the hand has been paid, and an `idle` call cannot
commit. `ReleasedIsFinal` follows from the last: a stage past release has no call in
flight. The refinement maps every step to a step of the contract or to a stutter, one
case per action.

### TableEngineProofs

For every finite set of players, any number of seats, any boot, stacks, bank, limits, caps and ladder settings
(`TableAssumption`: a boot of one at least, two players to deal):

| Theorem | Property |
|---|---|
| `TypesHold` | TypeOK: no stack, pot or purse below zero |
| `HandsMove` | HandCanMove |
| `CountdownRight` | CountdownIffDealable |
| `ChipsKept` | ChipsConserved |
| `RoundsFair` | FairRounds |
| `PotCapped` | PotWithinCap (an action property) |
| `TimeoutsRight` | TimedOutOnlyOnExpiredClock (an action property) |

The invariant says that a table is one of two things. A live hand (`LiveOK`) has two players in, one of them on turn, a running clock
or a callback that is still current for whatever the hand waits for, a pot within the cap, and turns that are counted fairly; a table at rest
(`RestOK`) has no hand, and a countdown exactly when there are two seats to deal. Both say what callbacks may be on their way: one that is current
is for the turn or the countdown that stands, and no clock runs beside it. Neither half holds *inside* a handler, which packs, advances, ends the hand, sweeps and
starts a countdown in one closure. So the lemmas are about the states in between: `Playing` (a hand is live and nothing
is broken), `Mid` (its turns are counted too) and `Hand` (it lacks only a clock), and each method has one that takes one of them to an
`Outcome`, a table that is right again, with the same chips in it, and nobody paid more than the cap or charged with a missed
turn. FairRounds needs the opener's seat to be the reference of the count even after the opener has left (`start`), and PotWithinCap
the pot to be within the cap between any two handlers, whatever the ladder offered in the one before.

### WalletFenceProofs

For every finite set of players and of rooms, any number of hands, any boot and stacks, and every choice of what the ledger
refuses or leaves unheard, with or without giving up, switches and destroys:

| Theorem | Property |
|---|---|
| `TypesHold` | TypeOK: no wallet, stack, contribution or mark below zero |
| `SeatIsOne` | OneSeatPerPlayer |
| `UnmarkedIsFinal` | UnmarkedWalletIsFinal |
| `ChipsComeFromPurchases` | NoChipsFromNothing, under `Exact` |
| `SeatsAreReckoned` | SeatIsReckoned, under `Exact` |
| `SwitchesCarryTheStack` | SwitchCarriesTheStack, under `Exact` |

The runs never have switches and destroys together; these theorems do. The invariant has one part for each fence.
`WhereOK`: a player's seat is the one the index names, or that of a leave on its way, or one in a room that is being destroyed under them,
and then no second such room is. `DepartingOK`: `departing` counts at least those rooms. `HandsOK` follows what is owed: what is due of a
player without a seat is marked in the room (`StakesOK`), the actor awaits one request, exactly while it is busy (`Waits`), and what an
unfinished request moves is covered by a seat, by the room's mark or by the chain's own (`Requested`). `OwedOK`: a player's `owed` is at
least the marked rooms and open requests. A player with no mark then has nothing due anywhere and nothing on its way, credit or debit, which is
more than UnmarkedWalletIsFinal asks. The hard steps are those that hand a debit from one fence to the next: a leave that ends the hand
(seat to mark), the first answer to its settlement (mark to chain), and a destroy that shuts a room whose chain still runs.

The last three theorems are about amounts. `Exact` is a database that answers every write and refuses no settlement, and no
switches beside destroys. Checkpoints may be refused, and either switches or destroys are allowed, so that `wallet_moves` is an instance.
None of it can be left out: with a settlement refused, NoChipsFromNothing is false (`late_win`); a checkpoint that landed unheard is debited
again with the hand's end; and a destroy under a switch breaks SwitchCarriesTheStack, as described above.

The second invariant, `MoneyOK`, is inductive beside the first. A player's *account* (`Value`) is the wallet, with what is due in every room and
what every request on its way will make of it. `Accounts`: a seat shows its player's account, less only where a purchase's credit found no
seat to put its chips on (`unseated`), and so does the stack a switch carries, the wallet a join or a spend
has just looked at, and the amount the actor waits with. It also bounds the debits: what a wallet has, less all that is still to be
taken, is not negative (`Low`), which is why the clamp at zero in `Settle` never loses a chip here. `BetsOK`: a contribution is what the seat
says. `PaidSit`: whoever a request will pay still sits at its table. `Books`: accounts, pots, packs and spendings add up, exactly, to what
was brought and could be bought, which is more than NoChipsFromNothing asks. A step
moves one account, or one hand's pot into several of them; `OneMoney` and the lemmas on sums say what such a step has to show. The longest is the
end of a hand, where each player in it has either checkpointed, left unwritten, or is paid, and one row does something
different in each case.

### SettlementProofs: LiveFence

For every finite set of players and processes, any number of lives, failed saves and refusals:

| Theorem | Property |
|---|---|
| `OneEndingPaysOnce` | OneEndingCreatesNoChips |
| `WrittenIsLanded` | WrittenHasLanded |
| `ClaimStands` | ClaimHolds, while no save has failed and the snapshot is not deleted |
| `ClaimOfTwo` | ClaimHolds, with two processes and no condition on deletes |

NeverCreatesChips is not a theorem, and the attempt to prove it is what found the two endings described above; the
condition `endings <= 1` is the weakest that excludes them. The invariant relates every copy of the room, and the snapshot,
to the ledger: what a room counts as written for a player is nothing, or what one landed checkpoint took (`Counted`), also
in the rooms that outstanding requests were made of (`Backed`). Rows are never taken back, so this survives every write by
another process. Before a settlement lands no wallet holds more than was brought less any one checkpoint (`Banked`); one settlement then
moves, summed over all players, at most what the checkpoints left out.
The claim is about numbers: `ClaimInv` follows the order of lives through `lead`, and shows that a copy whose save the store would
take is not of an earlier life. The two hypotheses are the two ways that breaks, a failed save and a deleted snapshot; with two
processes the one that deletes is alone with the owner.

### StatsPipelineProofs

For every finite set of hands, players and processes, any size of the queue, a batch and a pass, any number of failures and
stops:

| Theorem | Property |
|---|---|
| `AddedOnce` | ExactlyOnce |
| `SyncWaits` | Drained (an action property) |

ExactlyOnce is about landings: each of the two times a hand can be folded in, nothing of it is added twice or lost on the way
to the rows. That a hand is folded in once is not claimed, as it is not so.

The invariant has a part for each place a hand goes through. `RecordersOK`: a hand is queued or gathered in one process and one place. `LandedOK`: of a
hand that is still queued nothing has landed but the first attempt of a write that is about to be sent again, so that
a write never folds in a landing there has been. `FlushersOK`: what a
pass has read of a batch is still so, or the batch has its receipt, and a receipt stands as long as any pass can still
commit the batch it is of. `OnceOK`: a landing is, for each player, pending, in one batch without a receipt, or in the
rows, and in one of them only. The receipts that `Prune` takes are of batches nobody can commit any more, which is where a
process that listed a batch, stood still and woke up would add it twice.

### SessionsProofs

For every set of sockets and rooms, any number of timers, requests, kicks and moves:

| Theorem | Property |
|---|---|
| `LivePlayersKeepTheirSeat` | LapseSparesTheLive (an action property) |
| `LapseLeavesAnOffer` | LapsedSeatIsOffered, with `Overlap` FALSE |
| `SeatsAreWatched` | SeatIsWatched, with `Overlap` FALSE and without `create` |

LapseSparesTheLive needs no hypothesis: sign-ins may overlap as they like. Its invariant (`LapseOK`) is that a lapse past its lock is the published one
and found no live socket there, so that a socket which came later has read it, and stands before `AwaitLapse`
until it is over. The hypotheses of the other two are the divergences described above, and they are false without them. With one
sign-in at a time, a live socket that is not the account's is about to be ended by the one that is, and a dead one that is
still the account's is about to be forgotten (`SingleOK`); `Watched` then follows the seat through the hands it may be in: the account's
socket, the recorded timer, a lapse, or a goroutine that has yet to look.

### ChoiceWindowsProofs

For any number of seats and hands, any round cap, any number of late callbacks and of restarts:

| Theorem | Property |
|---|---|
| `TypesHold` | TypeOK |
| `ShowdownsWait` | ShowdownWaits (an action property) |
| `SomethingComes` | SomethingWillCome, with `Overtakes` FALSE |
| `Restores` | SnapshotRestores, with `Overtakes` FALSE |

The invariant has two halves. `Sound` needs no hypothesis: only those who are in have something to pick, nothing else goes on while
a variation is chosen, a live hand has two players, and a hand that ended had one left or no pick open; ShowdownWaits is that
last part. `Clocked` is the half that a sideshow asked with the asker's own timeout on its way breaks (`choice_frozen` shows how): the
hand is in one mode, a window, a turn, a sideshow or a showdown put off, and the mode has its clock armed or its callback on
the way, whatever the callbacks of earlier modes still do. As in TableEngineProofs the lemmas are about the middle of a handler:
`Mid` is a live hand with nothing broken but its turn's clock, `Half` is one where two are still in, and each method takes one of
these to a `Good` position. A closed sideshow, a closed window and a packed player are all `Half`, so that a
settled sideshow, a leave and a restart share their lemmas. A restart has no callbacks; its lemmas put one there for
the clock that lapsed, and find that the restored table does what that callback would have done.

### PokerHandProofs

For every finite set of players, any number of seats (two at least), any boot, any stacks, up to three streets after the first
of a board, any of the three games, and any number of hands and purchases (`PokerAssumption`):

| Theorem | Property |
|---|---|
| `TypeCorrect` | TypeOK: no wallet, stack, stake or bet below zero |
| `HandsCanMove` | HandCanMove |
| `NoFreeRides` | NobodyRidesFree |
| `ChipsAreConserved` | ChipsConserved |
| `PotsLayered` | PotsAreLayers |

A table rests (`Rest`), or a hand is played on it (`Good`): a seat the street waits for is on turn, with the clock running or its
callback on the way, and two players are in, unless they play against the house. Inside a closure a third is possible, a hand that is over and not
yet paid (`Ending`); every method takes a hand that is `Playing`, whoever is on turn, to an `Outcome` (`Good` or `Ending`), and `SettledIs` takes an
`Ending` to `Rest`. Three parts carry the properties. `Matched`: the seats in the hand and the entries that are not out or gone are each
other's, with the same chips, which is what lets a departure and a purchase touch one and not the other. `Even`: nobody in has collected
more than a player who can still bet, which is NobodyRidesFree, and it is inductive only with the bound of each street bet by the
highest one, since that is what a closing street collects. `Books`: wallet plus what the entry has and no checkpoint has written
is the stack, and an entry out of the hand has nothing unwritten; the sum of these over the players with the
pot is constant (`InPlay`).

The pots are the other half. `SidePots` is a function on the levels of contribution, each from the one below it (`Below`). The provers have
no induction over data, so the lemmas take the lowest level at which the claim fails: the pots up to a level
are `Layered` (each open to those still in who reached it, the empty ones joined to the pot before), and hold what was put in up to
that level. `AwardIs` is a showdown of any such pots: each is shared among its best hands in full, the odd chips being
fewer than they are. From the first, ChipsConserved: what `Takes` pays is the pot. From both, PotsAreLayers: the pots of a level have, chip by
chip, what `due` says, by sums over heights in place of levels.

### Model-checked only

* liveness, and everything said under fairness: the provers do not handle it;
* NoChipsFromNothing with settlements refused or answers lost. It is false in general (`late_win`), and `wallet_fence`
  checks that it holds with everything refused that can be, one hand to a table;
* that `SettlementChain`'s requests are the ones WalletFence makes, and that the choices of ChoiceWindows leave TableEngine's
  chips alone: the modules stand side by side, and no theorem joins them.

LandedIsPaid is proved and has no run of its own: it follows from the refinement, which has one.

## 6. Not modelled

`PROJECT.json` gives the reason for each part. In short:

* *planned*: holds, seat limits and the choice of a room in the RoomManager; the winning tax; hand ranking on
  a small deck;
* *partly there, the rest is data*: ledger columns, XP and mission rows of a settlement, the menu of
  variations, views and chat, presence and summaries;
* *no protocol of their own*: SQL features that are one transaction each (friends, rewards,
  reports, cosmetics), the version gate, assets, metrics, configuration;
* *external or I/O*: transports, authentication and its providers, receipts, the purge's dated DELETE, the
  client and the bots.
