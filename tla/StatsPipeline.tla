--------------------------- MODULE StatsPipeline ---------------------------
(***************************************************************************)
(* The players' statistics on their way to PostgreSQL: a table hands the   *)
(* counters of a committed hand to a recorder, whose goroutine folds them  *)
(* into the live store; a flusher moves the players who wait there into    *)
(* batches, commits each batch under its id with a receipt, and forgets it *)
(* after the commit (stats/recorder.go, stats/flusher.go,                  *)
(* live/redis_stats.go, db/stats.go).                                      *)
(*                                                                         *)
(* What matters of a hand's counters is how often they are added.  The     *)
(* client of the live store sends a call whose connection ended once more: *)
(* it may run twice, and the call that folds a hand in has no request id,  *)
(* so a hand may land twice.  Each landing is one set of counters, which   *)
(* the flusher moves.  Every hand counts for every player.                 *)
(*                                                                         *)
(* Excluded: a call to the live store that runs after its caller gave up,  *)
(* and a resent take that runs after another flusher has finished its      *)
(* batch.                                                                  *)
(***************************************************************************)
EXTENDS Integers, FiniteSets, Sequences, Functions

CONSTANTS
    Hands, Users, Procs,
    Queue,          \* recordQueue
    Merge,          \* recordMerge
    Batch,          \* STATS_FLUSH_BATCH: players in a batch
    PerPass,        \* maxBatchesPerPass
    Deletable,      \* the players whose accounts may be deleted
    MaxFails,       \* bound: calls of either store that fail or go unheard
    MaxStops        \* bound: processes that stop, by a crash or a shutdown

ASSUME StatsAssumption ==
    /\ IsFiniteSet(Hands) /\ IsFiniteSet(Users) /\ IsFiniteSet(Procs)
    /\ {Queue, Merge, Batch, PerPass} \subseteq Nat \ {0}
    /\ {MaxFails, MaxStops} \subseteq Nat
    /\ Deletable \subseteq Users
    /\ "synced" \notin Hands

VARIABLES
    fate,       \* what the recorder makes of a hand
    recorder,   \* per process: the queue and the goroutine that empties it
    flusher,    \* per process: where its pass is, and the batches it has read
    pending,    \* kt:stats:<userId>; a player is dirty while there is something
    landed,     \* history: the landings there have been
    batches,    \* the in-flight hashes of every batch ever; an open one holds somebody
    receipts,   \* stats_flushes
    old,        \* receipts past FlushKeep
    rows,       \* player_stats: how often a landing has been added for a player
    deleted,    \* accounts with deleted_at set
    faults      \* what is left of the bounds above

recorderVars == <<fate, recorder>>
storeVars == <<pending, landed, batches>>
databaseVars == <<receipts, old, rows, deleted>>
vars == <<recorderVars, flusher, storeVars, databaseVars, faults>>

-----------------------------------------------------------------------------

\* A hand's counters folded in at the client's first or second attempt (MaxRetries).
Landings == Hands \X {1, 2}

Nobody == [u \in Users |-> {}]
Open == {b \in DOMAIN batches : batches[b] # Nobody}
Dirty == {u \in Users : pending[u] # {}}

\* The marker Sync waits on, among the hands of the queue.
Marker == "synced"
Fresh == [mode |-> "open", queue |-> <<>>, gathered |-> {}, again |-> FALSE]
NoPass == [pc |-> "idle", todo |-> <<>>, picked |-> {}, taken |-> 0]
DownRecorder == [Fresh EXCEPT !.mode = "down"]
Up(p) == recorder[p].mode # "down"

\* Accepted by p and neither written nor given up.
Waiting(p) == (Range(recorder[p].queue) \ {Marker}) \cup recorder[p].gathered

Holds(p, b) == \E i \in DOMAIN flusher[p].todo : flusher[p].todo[i].id = b

Fails == faults.fails > 0 /\ faults' = [faults EXCEPT !.fails = @ - 1]
Works == UNCHANGED faults

\* A process starts with a pass, which finds what earlier ones left.
Init ==
    /\ fate = [h \in Hands |-> "played"]
    /\ recorder = [p \in Procs |-> Fresh]
    /\ flusher = [p \in Procs |-> [NoPass EXCEPT !.pc = "list"]]
    /\ pending = Nobody
    /\ landed = {}
    /\ batches = <<>>
    /\ receipts = {} /\ old = {} /\ deleted = {}
    /\ rows = [u \in Users |-> [l \in Landings |-> 0]]
    /\ faults = [fails |-> MaxFails, stops |-> MaxStops]

-----------------------------------------------------------------------------
(* The recorder *)

\* Record: it neither blocks nor fails; a full or a closed queue drops the hand.
Record(p, h) ==
    /\ Up(p) /\ fate[h] = "played"
    /\ IF recorder[p].mode = "open" /\ Len(recorder[p].queue) < Queue
       THEN /\ fate' = [fate EXCEPT ![h] = "queued"]
            /\ recorder' = [recorder EXCEPT ![p].queue = Append(@, h)]
       ELSE fate' = [fate EXCEPT ![h] = "dropped"] /\ UNCHANGED recorder
    /\ UNCHANGED <<flusher, storeVars, databaseVars, faults>>

\* Sync, once there is room for its marker.  Bound: one waits at a time.
Sync(p) ==
    /\ recorder[p].mode = "open"
    /\ \A q \in Procs : Marker \notin Range(recorder[q].queue)
    /\ Len(recorder[p].queue) < Queue
    /\ recorder' = [recorder EXCEPT ![p].queue = Append(@, Marker)]
    /\ UNCHANGED <<fate, flusher, storeVars, databaseVars, faults>>

\* Mutant: the marker is released with what was gathered not written yet.
TakesEarly(r) ==
    IF Head(r.queue) = Marker
    THEN [r EXCEPT !.queue = Tail(@)]
    ELSE [r EXCEPT !.queue = Tail(@), !.gathered = @ \cup {Head(r.queue)}]

\* take: a marker has what was gathered written first, and holds the next hand.
Takes(r) ==
    IF Head(r.queue) # Marker
    THEN [r EXCEPT !.queue = Tail(@), !.gathered = @ \cup {Head(r.queue)}]
    ELSE IF r.gathered # {} THEN r
    ELSE [r EXCEPT !.queue = Tail(@)]

\* run: the next of the queue, up to recordMerge hands at a time.
Gather(p) ==
    /\ Up(p) /\ recorder[p].queue # <<>> /\ ~recorder[p].again
    /\ Cardinality(recorder[p].gathered) < Merge
    /\ recorder' = [recorder EXCEPT ![p] = Takes(@)]
    /\ UNCHANGED <<fate, flusher, storeVars, databaseVars, faults>>

\* write, one RecordStats: an attempt lands or does not, and what is not heard of is
\* sent once more or given up, landed or not.
Write(p) ==
    LET r == recorder[p]
        counters == {<<h, IF r.again THEN 2 ELSE 1>> : h \in r.gathered}
        Lands == /\ landed' = landed \cup counters
                 /\ pending' = [u \in Users |-> pending[u] \cup counters]
        Ends(f) == /\ fate' = [h \in Hands |-> IF h \in r.gathered THEN f ELSE fate[h]]
                   /\ recorder' = [recorder EXCEPT ![p].gathered = {}, ![p].again = FALSE]
        Resends == /\ ~r.again
                   /\ recorder' = [recorder EXCEPT ![p].again = TRUE]
                   /\ UNCHANGED fate
    IN  /\ Up(p) /\ r.gathered # {}
        /\ \/ Lands /\ Ends("written") /\ Works
           \/ /\ Lands \/ UNCHANGED <<pending, landed>>
              /\ Ends("dropped") \/ Resends
              /\ Fails
        /\ UNCHANGED <<flusher, batches, databaseVars>>

\* Close, and the goroutine that returns when the queue is drained.
Close(p) ==
    /\ recorder[p].mode = "open" /\ faults.stops > 0
    /\ faults' = [faults EXCEPT !.stops = @ - 1]
    /\ recorder' = [recorder EXCEPT ![p].mode = "closed"]
    /\ UNCHANGED <<fate, flusher, storeVars, databaseVars>>

Closed(p) ==
    /\ recorder[p].mode = "closed" /\ recorder[p].queue = <<>> /\ recorder[p].gathered = {}
    /\ recorder' = [recorder EXCEPT ![p].mode = "done"]
    /\ UNCHANGED <<fate, flusher, storeVars, databaseVars, faults>>

-----------------------------------------------------------------------------
(* The flusher, one pass at a time *)

Goes(p, pc) == flusher' = [flusher EXCEPT ![p].pc = pc]
PassEnds(p) == flusher' = [flusher EXCEPT ![p] = NoPass]

\* The next batch of the pass, and when there is none left, new ones.
Continues(f) ==
    [f EXCEPT !.pc = IF f.todo # <<>> THEN "flush"
                     ELSE IF f.taken < PerPass THEN "take" ELSE "prune"]

\* loop, Stop: the ticker's pass, or the last one of a shutdown.
StartPass(p) ==
    /\ Up(p) /\ flusher[p].pc = "idle"
    /\ Goes(p, "list")
    /\ UNCHANGED <<recorderVars, storeVars, databaseVars, faults>>

\* Mutant: what earlier passes took is not looked for.
ListedNone(S) == <<>>

Sorted(S) ==
    CHOOSE s \in [1 .. Cardinality(S) -> S] :
        Range(s) = S /\ \A i, j \in DOMAIN s : i < j => s[i] < s[j]

\* The batches of the index, oldest first.
Listed(S) == [i \in 1 .. Cardinality(S) |-> [id |-> Sorted(S)[i], players |-> Nobody]]

\* StatsBatches: the index is read first, and there may be nothing to retry ...
List(p) ==
    /\ flusher[p].pc = "list"
    /\ \/ /\ Open = {} /\ Works
          /\ flusher' = [flusher EXCEPT ![p] = Continues(@)]
       \/ /\ Open # {} /\ Works
          /\ flusher' = [flusher EXCEPT ![p].pc = "read", ![p].todo = Listed(Open)]
       \/ PassEnds(p) /\ Fails
    /\ UNCHANGED <<recorderVars, storeVars, databaseVars>>

\* ... then what each batch holds, which may be finished by then.
Read(p) ==
    /\ flusher[p].pc = "read"
    /\ \/ LET todo == flusher[p].todo
              held == [i \in DOMAIN todo |-> [id |-> todo[i].id, players |-> batches[todo[i].id]]]
          IN  flusher' = [flusher EXCEPT ![p] = Continues([@ EXCEPT !.todo = held])] /\ Works
       \/ PassEnds(p) /\ Fails
    /\ UNCHANGED <<recorderVars, storeVars, databaseVars>>

Added(players) ==
    [u \in Users |-> [l \in Landings |->
        rows[u][l] + IF u \notin deleted /\ l \in players[u] THEN 1 ELSE 0]]

\* Mutant: the receipt is not asked.
CommitsAlways(b) == receipts' = receipts \cup {b.id} /\ rows' = Added(b.players)

\* StatsStore.Flush, one transaction: a batch whose receipt is there adds nothing.
Commits(b) ==
    IF b.id \in receipts THEN UNCHANGED <<receipts, rows>>
    ELSE receipts' = receipts \cup {b.id} /\ rows' = Added(b.players)

\* flush: a batch found empty is only forgotten.  It may commit unheard.
Flush(p) ==
    LET b == Head(flusher[p].todo)
    IN  /\ flusher[p].pc = "flush"
        /\ \/ b.players = Nobody /\ UNCHANGED <<receipts, rows>> /\ Goes(p, "finish") /\ Works
           \/ b.players # Nobody /\ Commits(b) /\ Goes(p, "finish") /\ Works
           \/ b.players # Nobody /\ Commits(b) /\ PassEnds(p) /\ Fails
           \/ b.players # Nobody /\ UNCHANGED <<receipts, rows>> /\ PassEnds(p) /\ Fails
        /\ UNCHANGED <<recorderVars, storeVars, old, deleted>>

\* FinishStatsBatch, which may be done unheard.
Finish(p) ==
    LET f == flusher[p]
        b == Head(f.todo)
        Forget == batches' = [batches EXCEPT ![b.id] = Nobody]
    IN  /\ flusher[p].pc = "finish"
        /\ \/ /\ Forget /\ Works
              /\ flusher' = [flusher EXCEPT ![p] = Continues([f EXCEPT !.todo = Tail(@)])]
           \/ Forget /\ PassEnds(p) /\ Fails
           \/ UNCHANGED batches /\ PassEnds(p) /\ Fails
        /\ UNCHANGED <<recorderVars, pending, landed, databaseVars>>

\* TakeStatsBatch: some of the players who wait are picked ...
Pick(p) ==
    LET size == IF Cardinality(Dirty) < Batch THEN Cardinality(Dirty) ELSE Batch
    IN  /\ flusher[p].pc = "take"
        /\ \/ /\ \E S \in SUBSET Dirty :
                    /\ Cardinality(S) = size
                    /\ flusher' = [flusher EXCEPT ![p].picked = S,
                          ![p].pc = IF S = {} THEN "prune" ELSE "move"]
              /\ Works
           \/ PassEnds(p) /\ Fails
        /\ UNCHANGED <<recorderVars, storeVars, databaseVars>>

\* ... and those still waiting are moved, in one script; another flusher may have
\* been there first, and then nothing is registered and the pass takes no more.  A
\* script sent again finds its own batch (ErrStatsBatchExists): this pass leaves it.
Move(p) ==
    LET f == flusher[p]
        players == [u \in Users |-> IF u \in f.picked THEN pending[u] ELSE {}]
        Moves == /\ pending' = [u \in Users |-> pending[u] \ players[u]]
                 /\ batches' = IF players = Nobody THEN batches ELSE Append(batches, players)
    IN  /\ flusher[p].pc = "move"
        /\ \/ /\ Moves /\ Works
              /\ flusher' = [flusher EXCEPT ![p] =
                    IF players = Nobody THEN [f EXCEPT !.pc = "prune"]
                    ELSE [f EXCEPT !.pc = "flush", !.picked = {}, !.taken = @ + 1,
                                   !.todo = <<[id |-> Len(batches) + 1, players |-> players]>>]]
           \/ /\ Moves /\ players # Nobody /\ Fails
              /\ flusher' = [flusher EXCEPT ![p] =
                    Continues([f EXCEPT !.picked = {}, !.taken = @ + 1])]
           \/ Moves /\ PassEnds(p) /\ Fails
           \/ UNCHANGED storeVars /\ PassEnds(p) /\ Fails
        /\ UNCHANGED <<recorderVars, landed, databaseVars>>

\* maybePrune, which is hourly and whose failure ends nothing.  A batch that
\* another flusher has read is not FlushKeep old.
Prune(p) ==
    /\ flusher[p].pc = "prune"
    /\ PassEnds(p)
    /\ \/ receipts' = receipts \ {b \in old : \A q \in Procs \ {p} : ~Holds(q, b)}
          /\ old' = old \cap receipts'
       \/ UNCHANGED <<receipts, old>>
    /\ UNCHANGED <<recorderVars, storeVars, rows, deleted, faults>>

-----------------------------------------------------------------------------
(* Processes, time and accounts *)

\* Seven days pass; a pass is cut off after 30 s.
Age ==
    /\ old # receipts /\ \A p \in Procs : flusher[p].pc = "idle"
    /\ old' = receipts
    /\ UNCHANGED <<recorderVars, flusher, storeVars, receipts, rows, deleted, faults>>

Halts(p) ==
    /\ fate' = [h \in Hands |-> IF h \in Waiting(p) THEN "dropped" ELSE fate[h]]
    /\ recorder' = [recorder EXCEPT ![p] = DownRecorder]
    /\ PassEnds(p)
    /\ UNCHANGED <<storeVars, databaseVars>>

\* A process stops, between any two steps ...
Crash(p) ==
    /\ Up(p) /\ faults.stops > 0
    /\ faults' = [faults EXCEPT !.stops = @ - 1]
    /\ Halts(p)

\* ... or at the end of its shutdown, or of the time it has for that.
Exit(p) ==
    /\ recorder[p].mode \in {"closed", "done"}
    /\ Halts(p) /\ Works

Start(p) ==
    /\ ~Up(p)
    /\ recorder' = [recorder EXCEPT ![p] = Fresh]
    /\ Goes(p, "list")
    /\ UNCHANGED <<fate, storeVars, databaseVars, faults>>

\* DeleteAccount with deleteStats; a flush that joins users adds nothing after it.
Delete(u) ==
    /\ u \in Deletable \ deleted
    /\ deleted' = deleted \cup {u}
    /\ rows' = [rows EXCEPT ![u] = [l \in Landings |-> 0]]
    /\ UNCHANGED <<recorderVars, flusher, storeVars, receipts, old, faults>>

\* Recorder.Forget, best effort: what waits is dropped, not what is queued or taken.
Forget(u) ==
    /\ u \in deleted /\ pending[u] # {}
    /\ pending' = [pending EXCEPT ![u] = {}]
    /\ UNCHANGED <<recorderVars, flusher, landed, batches, databaseVars, faults>>

Pass(p) == List(p) \/ Read(p) \/ Flush(p) \/ Finish(p) \/ Pick(p) \/ Move(p) \/ Prune(p)

Next ==
    \/ \E p \in Procs :
          \/ \E h \in Hands : Record(p, h)
          \/ Sync(p) \/ Gather(p) \/ Write(p) \/ Close(p) \/ Closed(p)
          \/ StartPass(p) \/ Pass(p)
          \/ Crash(p) \/ Exit(p) \/ Start(p)
    \/ Age
    \/ \E u \in Users : Delete(u) \/ Forget(u)

Spec == Init /\ [][Next]_vars

\* The recorder's goroutine runs, the ticker fires, calls return, and a process
\* that shuts down ends and is started again.
FairSpec ==
    /\ Spec
    /\ \A p \in Procs :
        /\ WF_vars(Gather(p) \/ Write(p) \/ Closed(p))
        /\ WF_vars(StartPass(p) \/ Pass(p))
        /\ WF_vars(Exit(p) \/ Start(p))

-----------------------------------------------------------------------------
(* Properties *)

\* What was folded into the live store is in one place, whichever call of either
\* store fails, goes unheard or is retried, by whichever process: waiting, in a batch
\* that is yet to commit, or added, once (Flusher, "exactly once"; StatsStore.Flush).
\* A hand whose RecordStats was sent again is folded in twice, and then each time
\* counts: that the recorder counts a hand once is not claimed.
ExactlyOnce ==
    \A l \in landed, u \in Users \ deleted :
        LET uncommitted == {b \in DOMAIN batches \ receipts : l \in batches[b][u]}
        IN  (IF l \in pending[u] THEN 1 ELSE 0) + Cardinality(uncommitted) + rows[u][l] = 1

\* When Sync or Close returns, every hand queued before it has been written or
\* given up (Recorder.run, take).
Drains ==
    \A p \in Procs :
        LET r == recorder[p]
            before == {h \in Waiting(p) : h \in r.gathered \/ r.mode = "closed"
                          \/ \E i, j \in DOMAIN r.queue : i < j /\ r.queue[i] = h /\ r.queue[j] = Marker}
            released == \/ Marker \in Range(r.queue) /\ Marker \notin Range(recorder'[p].queue)
                        \/ r.mode = "closed"
        IN  released /\ recorder'[p].mode \in {"open", "done"} =>
                \A h \in before : fate'[h] # "queued"
Drained == [][Drains]_vars

\* What was folded into the live store is added to the players' statistics in the
\* end, unless their accounts go: a batch whose pass failed, or whose process
\* stopped, is retried (Pass, Start).
ReachesTheDatabase ==
    \A l \in Landings, u \in Users : l \in landed ~> rows[u][l] > 0 \/ u \in deleted
=============================================================================
