-------------------------- MODULE SettlementChain --------------------------
(***************************************************************************)
(* A room's hand-end settlements from the first write to the last retry:   *)
(* Table.endHand's call of Ledger.Settle, the Settler's retry chain on the *)
(* room's actor, the fence, Destroy and Suspend with their Detach, and the *)
(* chain that goes on off the actor (src/go-server/internal/game/actor.go, *)
(* table.go and livestate.go), against the database of db/ledger.go.       *)
(*                                                                         *)
(* A settlement is one transaction, so a hand's request is one model value *)
(* and Moves[h] the players whose wallet it moves (a non-zero delta).  The *)
(* amounts are WalletFence's business; here moved[h] counts how often the  *)
(* request has been applied.                                               *)
(***************************************************************************)
EXTENDS Naturals, FiniteSets

CONSTANTS
    Hands,          \* the hands this room plays
    Players,        \* their players
    Moves,          \* Moves[h]: the players whose wallet hand h moves
    MaxAttempts,    \* settleMaxAttempts
    None            \* no hand

ASSUME SettlementAssumption ==
    /\ IsFiniteSet(Hands)
    /\ Moves \in [Hands -> SUBSET Players]
    /\ MaxAttempts \in Nat \ {0}
    /\ None \notin Hands

VARIABLES
    room,           \* "open", "fenced" (Actor.fenced), "gone" (Actor.destroyed)
    busy,           \* the hand whose Settle the actor is waiting in, or None
    closing,        \* the actor is inside destroy(), between endHand and Cancel
    stage,          \* per hand: where its settlement is
    call,           \* per hand: its Settle call, "idle" / "sent" / the answer
    attempt,        \* per hand: settleRetry.attempt
    listed,         \* the hands in Settler.retryTimers
    claimed,        \* the hands whose settleRetry.claimed is set
    detachedOpen,   \* Settler.detachedOpen
    owed,           \* RoomManager.owed, per player
    moved,          \* per hand: how often the database applied its request
    counted         \* per hand: how often its counters were recorded

chainVars == <<room, busy, closing, stage, call, attempt, listed, claimed,
          detachedOpen, owed, moved, counted>>

(***************************************************************************)
(* unplayed -> live -> first -> settled, or on a refusal the chain:        *)
(*   armed      the retry timer runs                                       *)
(*   posted     it fired and Post admitted the callback; it waits its turn *)
(*   retrying   the actor is in the ledger for it                          *)
(*   bounced    Post or the cancelled mailbox refused the callback         *)
(*   resting    off the actor, its back-off timer runs                     *)
(*   detached   off the actor, in the ledger                               *)
(*   finishing, forsaking   in finishDetached, the owed mark just lifted   *)
(*   landed, abandoned      ended                                          *)
(***************************************************************************)
OpenStages == {"armed", "posted", "retrying", "bounced", "resting", "detached"}
EndStages  == {"settled", "landed", "abandoned"}
Stages     == {"unplayed", "live", "first", "finishing", "forsaking"}
                  \cup OpenStages \cup EndStages

OpenChain(h) == stage[h] \in OpenStages

\* The actor takes the next posted closure only between closures.
ActorIdle == busy = None /\ ~closing

\* Settler.Owe through RoomManager.settlementOwed: one mark per player moved,
\* and a count that reaches zero is dropped from the map.
Owe(h) == owed' = [u \in Players |-> IF u \in Moves[h] THEN owed[u] + 1 ELSE owed[u]]

\* Mutant: the end of a chain forgets the mark.
ReleaseForgotten(h) == owed' = owed

Release(h) ==
    owed' = [u \in Players |->
               IF u \notin Moves[h] THEN owed[u]
               ELSE IF owed[u] > 1 THEN owed[u] - 1 ELSE 0]

\* Mutant: a chain goes on without being counted.
ClaimNone(S) == UNCHANGED <<claimed, detachedOpen>>

\* Mutant: a timer that has already fired is not counted.
ClaimStopped(S) ==
    LET T == {h \in S : stage[h] # "posted"}
    IN  /\ claimed' = claimed \cup T
        /\ detachedOpen' = detachedOpen + Cardinality(T \ claimed)

\* claimDetached: an entry is counted as an open detached chain once.
ClaimAll(S) ==
    /\ claimed' = claimed \cup S
    /\ detachedOpen' = detachedOpen + Cardinality(S \ claimed)

-----------------------------------------------------------------------------

ChainInit ==
    /\ room = "open"
    /\ busy = None
    /\ closing = FALSE
    /\ stage = [h \in Hands |-> "unplayed"]
    /\ call = [h \in Hands |-> "idle"]
    /\ attempt = [h \in Hands |-> 0]
    /\ listed = {}
    /\ claimed = {}
    /\ detachedOpen = 0
    /\ owed = [u \in Players |-> 0]
    /\ moved = [h \in Hands |-> 0]
    /\ counted = [h \in Hands |-> 0]

(***************************************************************************)
(* The hand on the actor.                                                  *)
(***************************************************************************)

StartHand(h) ==
    /\ ActorIdle /\ room = "open"
    /\ \A g \in Hands : stage[g] # "live"
    /\ stage[h] = "unplayed"
    /\ stage' = [stage EXCEPT ![h] = "live"]
    /\ UNCHANGED <<room, busy, closing, call, attempt, listed, claimed,
                   detachedOpen, owed, moved, counted>>

CallSettle(h) ==
    /\ ActorIdle
    /\ stage[h] = "live"
    /\ stage' = [stage EXCEPT ![h] = "first"]
    /\ call' = [call EXCEPT ![h] = "sent"]
    /\ busy' = h
    /\ UNCHANGED <<room, attempt, listed, claimed, detachedOpen, owed, moved,
                   counted>>

\* endHand: the room's own first attempt.  A closure admitted before a fence
\* still runs, so a fenced room may end a hand too.
HandEnds(h) ==
    /\ room # "gone"
    /\ CallSettle(h)
    /\ UNCHANGED closing

\* endHand after Settle returned: recorded, or owed and Retry(req, 1).  Any
\* error counts as a refusal here, duplicate_action too.
FirstReturns(h) ==
    /\ stage[h] = "first"
    /\ call[h] \in {"ok", "dup", "error"}
    /\ busy' = None
    /\ call' = [call EXCEPT ![h] = "idle"]
    /\ \/ /\ call[h] = "ok"
          /\ stage' = [stage EXCEPT ![h] = "settled"]
          /\ counted' = [counted EXCEPT ![h] = @ + 1]
          /\ UNCHANGED <<attempt, listed, owed>>
       \/ /\ call[h] # "ok"
          /\ stage' = [stage EXCEPT ![h] = "armed"]
          /\ attempt' = [attempt EXCEPT ![h] = 1]
          /\ listed' = listed \cup {h}
          /\ Owe(h)
          /\ UNCHANGED counted
    /\ UNCHANGED <<room, closing, claimed, detachedOpen, moved>>

(***************************************************************************)
(* The database: db.Ledger.Settle, one transaction, its action ids UNIQUE. *)
(* "error" is any failure the caller sees, and a commit or a refusal whose *)
(* answer was lost is seen as one too.                                     *)
(***************************************************************************)

\* Mutant: the action ids are not UNIQUE.
DbCommitsAgain(h) ==
    /\ call[h] = "sent"
    /\ moved' = [moved EXCEPT ![h] = @ + 1]
    /\ \E answer \in {"ok", "error"} : call' = [call EXCEPT ![h] = answer]
    /\ UNCHANGED <<room, busy, closing, stage, attempt, listed, claimed,
                   detachedOpen, owed, counted>>

DbCommits(h) ==
    /\ call[h] = "sent"
    /\ moved[h] = 0
    /\ moved' = [moved EXCEPT ![h] = @ + 1]
    /\ \E answer \in {"ok", "error"} : call' = [call EXCEPT ![h] = answer]
    /\ UNCHANGED <<room, busy, closing, stage, attempt, listed, claimed,
                   detachedOpen, owed, counted>>

DbRefusesDuplicate(h) ==
    /\ call[h] = "sent"
    /\ moved[h] > 0
    /\ \E answer \in {"dup", "error"} : call' = [call EXCEPT ![h] = answer]
    /\ UNCHANGED <<room, busy, closing, stage, attempt, listed, claimed,
                   detachedOpen, owed, moved, counted>>

DbFails(h) ==
    /\ call[h] = "sent"
    /\ call' = [call EXCEPT ![h] = "error"]
    /\ UNCHANGED <<room, busy, closing, stage, attempt, listed, claimed,
                   detachedOpen, owed, moved, counted>>

(***************************************************************************)
(* Settler.Retry on the actor.                                             *)
(***************************************************************************)

\* The retry timer fires: Post admits the callback, or refuses it at once.
TimerFires(h) ==
    /\ stage[h] = "armed"
    /\ stage' = [stage EXCEPT ![h] = IF room = "open" THEN "posted" ELSE "bounced"]
    /\ UNCHANGED <<room, busy, closing, call, attempt, listed, claimed,
                   detachedOpen, owed, moved, counted>>

RetryRuns(h) ==
    /\ ActorIdle /\ room # "gone"
    /\ stage[h] = "posted"
    /\ stage' = [stage EXCEPT ![h] = "retrying"]
    /\ call' = [call EXCEPT ![h] = "sent"]
    /\ busy' = h
    /\ listed' = listed \ {h}
    /\ UNCHANGED <<room, closing, attempt, claimed, detachedOpen, owed, moved, counted>>

\* Mutant: the attempt cap reads as a landing.
RetryReturnsLanded(h) ==
    /\ stage[h] = "retrying"
    /\ call[h] \in {"ok", "dup", "error"}
    /\ busy' = None
    /\ call' = [call EXCEPT ![h] = "idle"]
    /\ stage' = [stage EXCEPT ![h] = "landed"]
    /\ counted' = [counted EXCEPT ![h] = IF call[h] = "ok" THEN @ + 1 ELSE @]
    /\ Release(h)
    /\ UNCHANGED <<room, closing, attempt, listed, claimed, detachedOpen, moved>>

\* Landed (duplicate_action is a landing), refused and armed again, or given up.
RetryReturns(h) ==
    /\ stage[h] = "retrying"
    /\ call[h] \in {"ok", "dup", "error"}
    /\ busy' = None
    /\ call' = [call EXCEPT ![h] = "idle"]
    /\ \/ /\ call[h] \in {"ok", "dup"}
          /\ stage' = [stage EXCEPT ![h] = "landed"]
          /\ counted' = [counted EXCEPT ![h] = IF call[h] = "ok" THEN @ + 1 ELSE @]
          /\ Release(h)
          /\ UNCHANGED <<attempt, listed>>
       \/ /\ call[h] = "error"
          /\ attempt[h] < MaxAttempts
          /\ stage' = [stage EXCEPT ![h] = "armed"]
          /\ attempt' = [attempt EXCEPT ![h] = @ + 1]
          /\ listed' = listed \cup {h}
          /\ UNCHANGED <<owed, counted>>
       \/ /\ call[h] = "error"
          /\ attempt[h] >= MaxAttempts
          /\ stage' = [stage EXCEPT ![h] = "abandoned"]
          /\ Release(h)
          /\ UNCHANGED <<attempt, listed, counted>>
    /\ UNCHANGED <<room, closing, claimed, detachedOpen, moved>>

\* Mutant: Destroy never cancels the mailbox, so the poster is never woken.
CancelledNever(h) == FALSE

\* A callback still waiting when the mailbox is cancelled is told so.
Cancelled(h) ==
    /\ stage[h] = "posted"
    /\ room = "gone"
    /\ stage' = [stage EXCEPT ![h] = "bounced"]
    /\ UNCHANGED <<room, busy, closing, call, attempt, listed, claimed,
                   detachedOpen, owed, moved, counted>>

\* Retry's callback on ErrTableDestroyed: the chain is its own to continue.
BouncedContinues(h) ==
    /\ stage[h] = "bounced"
    /\ ClaimAll({h})
    /\ stage' = [stage EXCEPT ![h] = "resting"]
    /\ UNCHANGED <<room, busy, closing, call, attempt, listed, owed, moved, counted>>

(***************************************************************************)
(* The end of the room.                                                    *)
(***************************************************************************)

\* LiveState.Flush met live.ErrStale: another process owns the room.
RoomFenced ==
    /\ ActorIdle /\ room = "open"
    /\ room' = "fenced"
    /\ UNCHANGED <<busy, closing, stage, call, attempt, listed, claimed,
                   detachedOpen, owed, moved, counted>>

\* destroy() on an open room with a live hand: endHand is its first half.
DestroyEndsHand(h) ==
    /\ room = "open"
    /\ CallSettle(h)
    /\ closing' = TRUE

\* The rest of destroy(), all of it for a fenced room or one between hands,
\* and suspend(), which leaves a live hand to the next owner: MarkDestroyed,
\* Detach, Cancel.  An armed timer is stopped and its chain goes on off the
\* actor; one that has fired is counted and left to its callback.
CloseRoom ==
    /\ busy = None
    /\ room # "gone"
    /\ room' = "gone"
    /\ closing' = FALSE
    /\ ClaimAll(listed)
    /\ stage' = [h \in Hands |->
                   IF h \in listed /\ stage[h] = "armed" THEN "resting" ELSE stage[h]]
    /\ listed' = {}
    /\ UNCHANGED <<busy, call, attempt, owed, moved, counted>>

(***************************************************************************)
(* settleDetachedFrom and finishDetached, off the actor.                   *)
(***************************************************************************)

DetachedRuns(h) ==
    /\ stage[h] = "resting"
    /\ stage' = [stage EXCEPT ![h] = "detached"]
    /\ call' = [call EXCEPT ![h] = "sent"]
    /\ UNCHANGED <<room, busy, closing, attempt, listed, claimed, detachedOpen,
                   owed, moved, counted>>

\* Mutant: the write is given up on a clock of the client's own, while the
\* database may still commit it.
DetachedReturnsEarly(h) ==
    /\ stage[h] = "detached"
    /\ attempt[h] >= MaxAttempts
    /\ stage' = [stage EXCEPT ![h] = "forsaking"]
    /\ Release(h)
    /\ UNCHANGED <<room, busy, closing, call, attempt, listed, claimed,
                   detachedOpen, moved, counted>>

\* A landing or the attempt cap enters finishDetached, whose first step lifts
\* the owed mark; anything else rests for the next attempt.
DetachedReturns(h) ==
    /\ stage[h] = "detached"
    /\ call[h] \in {"ok", "dup", "error"}
    /\ call' = [call EXCEPT ![h] = "idle"]
    /\ \/ /\ call[h] \in {"ok", "dup"}
          /\ stage' = [stage EXCEPT ![h] = "finishing"]
          /\ counted' = [counted EXCEPT ![h] = IF call[h] = "ok" THEN @ + 1 ELSE @]
          /\ Release(h)
          /\ UNCHANGED attempt
       \/ /\ call[h] = "error"
          /\ attempt[h] < MaxAttempts
          /\ stage' = [stage EXCEPT ![h] = "resting"]
          /\ attempt' = [attempt EXCEPT ![h] = @ + 1]
          /\ UNCHANGED <<owed, counted>>
       \/ /\ call[h] = "error"
          /\ attempt[h] >= MaxAttempts
          /\ stage' = [stage EXCEPT ![h] = "forsaking"]
          /\ Release(h)
          /\ UNCHANGED <<attempt, counted>>
    /\ UNCHANGED <<room, busy, closing, listed, claimed, detachedOpen, moved>>

\* Mutant: an abandoned chain is filed without lowering the count.
DetachedEndsUncounted(h) ==
    /\ stage[h] \in {"finishing", "forsaking"}
    /\ stage' = [stage EXCEPT ![h] = IF @ = "finishing" THEN "landed" ELSE "abandoned"]
    /\ detachedOpen' = IF stage[h] = "finishing" THEN detachedOpen - 1 ELSE detachedOpen
    /\ UNCHANGED <<room, busy, closing, call, attempt, listed, claimed, owed,
                   moved, counted>>

\* The rest of finishDetached: the outcome is filed and the waiters woken.
DetachedEnds(h) ==
    /\ stage[h] \in {"finishing", "forsaking"}
    /\ stage' = [stage EXCEPT ![h] = IF @ = "finishing" THEN "landed" ELSE "abandoned"]
    /\ detachedOpen' = detachedOpen - 1
    /\ UNCHANGED <<room, busy, closing, call, attempt, listed, claimed, owed,
                   moved, counted>>

-----------------------------------------------------------------------------

DbAnswers(h) == DbCommits(h) \/ DbRefusesDuplicate(h) \/ DbFails(h)

\* What goes on by itself: the database's answers, the timers, the actor's
\* loop and the goroutines of the detached chains.
ChainStep(h) ==
    \/ FirstReturns(h)
    \/ DbAnswers(h)
    \/ TimerFires(h)
    \/ RetryRuns(h)
    \/ RetryReturns(h)
    \/ Cancelled(h)
    \/ BouncedContinues(h)
    \/ DetachedRuns(h)
    \/ DetachedReturns(h)
    \/ DetachedEnds(h)

ChainNext ==
    \/ RoomFenced
    \/ CloseRoom
    \/ \E h \in Hands :
          StartHand(h) \/ HandEnds(h) \/ DestroyEndsHand(h) \/ ChainStep(h)

ChainSpec == ChainInit /\ [][ChainNext]_chainVars

\* A statement timeout bounds every database call, a Go timer fires, the
\* actor's loop and a woken goroutine run, and a destroy that has begun ends.
Fairness ==
    /\ \A h \in Hands : WF_chainVars(ChainStep(h))
    /\ WF_chainVars(closing /\ CloseRoom)

FairSpec == ChainSpec /\ Fairness

-----------------------------------------------------------------------------
(***************************************************************************)
(* Properties.                                                             *)
(***************************************************************************)

\* Every variable keeps its type.
TypeOK ==
    /\ room \in {"open", "fenced", "gone"}
    /\ busy \in Hands \cup {None}
    /\ closing \in BOOLEAN
    /\ stage \in [Hands -> Stages]
    /\ call \in [Hands -> {"idle", "sent", "ok", "dup", "error"}]
    /\ attempt \in [Hands -> 0..MaxAttempts]
    /\ listed \in SUBSET Hands
    /\ claimed \in SUBSET Hands
    /\ detachedOpen \in Nat
    /\ owed \in [Players -> Nat]
    /\ moved \in [Hands -> Nat]
    /\ counted \in [Hands -> Nat]

OpenChainsOf(u) == {h \in Hands : OpenChain(h) /\ u \in Moves[h]}

\* RoomManager.owed is exactly the number of open chains that move the
\* player's wallet: a chain the timer's callback and Detach both reach is
\* marked once and lifted once, so no player is locked out of the lobby for
\* ever and none is let in while a write may still move their wallet.
OwedIsOpenChains == \A u \in Players : owed[u] = Cardinality(OpenChainsOf(u))

\* A hand's request moves the wallets at most once whatever was lost, and its
\* counters are recorded at most once and only for a hand that was paid.
PaidAtMostOnce ==
    \A h \in Hands : moved[h] <= 1 /\ counted[h] <= moved[h]

\* A settlement the room stopped waiting for as landed has been paid: reading
\* duplicate_action as success never loses a pot.
LandedIsPaid ==
    \A h \in Hands : stage[h] \in {"settled", "finishing", "landed"} => moved[h] = 1

\* Detach's promise to WaitSettlements: once the room is gone and the count of
\* detached chains is zero, no chain is left that could still write.
WaitMissesNothing ==
    room = "gone" /\ detachedOpen = 0 =>
        \A h \in Hands : stage[h] \notin OpenStages \cup {"finishing", "forsaking"}

\* finishDetached lifts the owed mark before it lowers the count: whoever saw
\* WaitSettlements return finds no wallet marked.
WaitSeesFinalWallets ==
    room = "gone" /\ detachedOpen = 0 => \A u \in Players : owed[u] = 0

\* Once a chain's mark is lifted the hand's wallets are final.
ReleasedIsFinal ==
    [][\A h \in Hands :
          stage[h] \in EndStages \cup {"finishing", "forsaking"} => moved'[h] = moved[h]]_chainVars

\* Every refused settlement ends: landed or given up, room or no room.
EveryChainEnds ==
    \A h \in Hands : OpenChain(h) ~> stage[h] \in EndStages

\* WaitSettlements returns: a room that is gone has no chain open for ever.
WaitReturns == room = "gone" ~> detachedOpen = 0

\* The refinement: what is written is what the contract pays, and what the
\* room stops waiting for is what the contract reports.
Contract == INSTANCE SettlementContract WITH
    result <- [h \in Hands |->
                 IF stage[h] \in {"unplayed", "live"} THEN "none"
                 ELSE IF moved[h] = 0 THEN "due" ELSE "paid"],
    reported <- [h \in Hands |->
                 CASE stage[h] \in {"settled", "finishing", "landed"} -> "landed"
                   [] stage[h] \in {"forsaking", "abandoned"} -> "givenUp"
                   [] OTHER -> "waiting"]

\* The chain implements the contract of a settlement.
ImplementsContract == Contract!Spec

=============================================================================
