-------------------------- MODULE SettlementProofs --------------------------
(***************************************************************************)
(* What holds of the money of a hand: within the process that ends it, for *)
(* every set of hands and players, every assignment of moves and every     *)
(* attempt cap (SettlementChain), and across the processes that restore    *)
(* it, for every set of players and processes and every value of the       *)
(* bounds (LiveFence).                                                     *)
(***************************************************************************)
EXTENDS SettlementChain, LiveFence, Sums

-----------------------------------------------------------------------------
(* A settlement and its chain.  In ChainInv the two counts (owed,          *)
(* detachedOpen) are cardinalities of sets of chains, and the rest says    *)
(* which stages go with which bookkeeping.                                 *)

PaidStages == {"settled", "finishing", "landed"}

\* A call is out exactly while somebody waits for it, and an answer that is
\* not an error means the request has been applied.
CallInv ==
    \A h \in Hands :
        /\ call[h] # "idle" <=> stage[h] \in {"first", "retrying", "detached"}
        /\ call[h] \in {"ok", "dup"} => moved[h] = 1

\* What has been paid and counted, by stage.
PaidInv ==
    \A h \in Hands :
        /\ moved[h] \in {0, 1}
        /\ counted[h] \in {0, 1}
        /\ stage[h] \in {"unplayed", "live"} => moved[h] = 0
        /\ stage[h] \in PaidStages => moved[h] = 1
        /\ counted[h] = 1 => stage[h] \in PaidStages

\* The actor waits for one call at a time, and for none once the room is gone.
BusyInv ==
    /\ \A h \in Hands : stage[h] \in {"first", "retrying"} <=> busy = h
    /\ room = "gone" => busy = None /\ listed = {}

\* Which stages are on the retry list and which have been claimed.
ListInv ==
    \A h \in Hands :
        /\ stage[h] = "armed" => h \in listed /\ h \notin claimed
        /\ stage[h] = "posted" =>
              \/ h \in listed /\ h \notin claimed
              \/ room = "gone" /\ h \in claimed
        /\ stage[h] = "bounced" => h \in listed \cup claimed
        /\ stage[h] \in {"resting", "detached", "finishing", "forsaking"} => h \in claimed
        /\ stage[h] \in {"unplayed", "live", "first", "retrying", "settled"} =>
              h \notin listed /\ h \notin claimed
        /\ h \in listed \ claimed => stage[h] \in {"armed", "posted", "bounced"}

Core == CallInv /\ PaidInv /\ BusyInv /\ ListInv

\* The chains Settler.detachedOpen counts.
ClaimedOpen == {h \in claimed : stage[h] \notin {"landed", "abandoned"}}

DetachInv == detachedOpen = Cardinality(ClaimedOpen)

ChainInv == TypeOK /\ Core /\ OwedIsOpenChains /\ DetachInv

-----------------------------------------------------------------------------

\* No call is out, nothing is listed and nothing owed before the first hand.
THEOREM InitChainInv == ChainInit => ChainInv
<1> SUFFICES ASSUME ChainInit PROVE ChainInv
  OBVIOUS
<1> USE SettlementAssumption DEF ChainInit
<1>1. TypeOK
  <2>1. closing \in BOOLEAN
    OBVIOUS
  <2>2. attempt \in [Hands -> 0..MaxAttempts]
    OBVIOUS
  <2>3. stage \in [Hands -> Stages]
    BY DEF Stages
  <2> QED BY <2>1, <2>2, <2>3, SMT DEF TypeOK
<1>2. Core
  BY DEF Core, CallInv, PaidInv, BusyInv, ListInv, PaidStages
<1>3. OwedIsOpenChains
  <2> SUFFICES ASSUME NEW u \in Players PROVE owed[u] = Cardinality(OpenChainsOf(u))
    BY DEF OwedIsOpenChains
  <2>1. OpenChainsOf(u) = {}
    BY DEF OpenChainsOf, OpenChain, OpenStages
  <2> QED BY <2>1, FS_EmptySet
<1>4. DetachInv
  <2>1. ClaimedOpen = {}
    BY DEF ClaimedOpen
  <2> QED BY <2>1, FS_EmptySet DEF DetachInv
<1> QED BY <1>1, <1>2, <1>3, <1>4 DEF ChainInv

\* Every action keeps the bookkeeping of the stages.
LEMMA CoreStep ==
  ASSUME TypeOK, Core, [ChainNext]_chainVars
  PROVE  Core'
<1> USE SettlementAssumption
<1> USE DEF TypeOK, Core, CallInv, PaidInv, BusyInv, ListInv, PaidStages, ActorIdle,
            Stages, OpenStages, EndStages
<1>1. CASE UNCHANGED chainVars
  BY <1>1 DEF chainVars
<1>2. CASE RoomFenced
  BY <1>2 DEF RoomFenced
<1>3. CASE CloseRoom
  BY <1>3 DEF CloseRoom, ClaimAll
<1>4. ASSUME NEW h \in Hands, StartHand(h) PROVE Core'
  BY <1>4 DEF StartHand
<1>5. ASSUME NEW h \in Hands, HandEnds(h) PROVE Core'
  BY <1>5 DEF HandEnds, CallSettle
<1>6. ASSUME NEW h \in Hands, DestroyEndsHand(h) PROVE Core'
  BY <1>6 DEF DestroyEndsHand, CallSettle
<1>7. ASSUME NEW h \in Hands, FirstReturns(h) PROVE Core'
  BY <1>7 DEF FirstReturns
<1>8. ASSUME NEW h \in Hands, DbAnswers(h) PROVE Core'
  BY <1>8 DEF DbAnswers, DbCommits, DbRefusesDuplicate, DbFails
<1>9. ASSUME NEW h \in Hands, TimerFires(h) PROVE Core'
  BY <1>9 DEF TimerFires
<1>10. ASSUME NEW h \in Hands, RetryRuns(h) PROVE Core'
  BY <1>10 DEF RetryRuns
<1>11. ASSUME NEW h \in Hands, RetryReturns(h) PROVE Core'
  BY <1>11 DEF RetryReturns
<1>12. ASSUME NEW h \in Hands, Cancelled(h) PROVE Core'
  BY <1>12 DEF Cancelled
<1>13. ASSUME NEW h \in Hands, BouncedContinues(h) PROVE Core'
  BY <1>13 DEF BouncedContinues, ClaimAll
<1>14. ASSUME NEW h \in Hands, DetachedRuns(h) PROVE Core'
  BY <1>14 DEF DetachedRuns
<1>15. ASSUME NEW h \in Hands, DetachedReturns(h) PROVE Core'
  BY <1>15 DEF DetachedReturns
<1>16. ASSUME NEW h \in Hands, DetachedEnds(h) PROVE Core'
  BY <1>16 DEF DetachedEnds
<1> QED
  BY <1>1, <1>2, <1>3, <1>4, <1>5, <1>6, <1>7, <1>8, <1>9, <1>10, <1>11, <1>12,
     <1>13, <1>14, <1>15, <1>16 DEF ChainNext, ChainStep

\* The owed marks follow the open chains: a mark is set when a chain opens
\* and lifted when it ends, and no other step does either.
LEMMA OpenChainsFinite ==
  ASSUME NEW u \in Players
  PROVE  IsFiniteSet(OpenChainsOf(u))
BY SettlementAssumption, FS_Subset DEF OpenChainsOf

\* The marks count the open chains as long as neither changes.
LEMMA OwedKept ==
  ASSUME TypeOK, OwedIsOpenChains, owed' = owed,
         \A h \in Hands : OpenChain(h)' = OpenChain(h)
  PROVE  OwedIsOpenChains'
<1> SUFFICES ASSUME NEW u \in Players PROVE owed'[u] = Cardinality(OpenChainsOf(u)')
  BY DEF OwedIsOpenChains
<1>1. OpenChainsOf(u)' = OpenChainsOf(u)
  BY DEF OpenChainsOf
<1> QED BY <1>1 DEF OwedIsOpenChains

\* A chain that opens marks its players once each (RoomManager.settlementOwed).
LEMMA OwedOpened ==
  ASSUME TypeOK, OwedIsOpenChains, NEW h \in Hands,
         Owe(h), ~OpenChain(h), OpenChain(h)',
         \A g \in Hands \ {h} : OpenChain(g)' = OpenChain(g)
  PROVE  OwedIsOpenChains'
<1> SUFFICES ASSUME NEW u \in Players PROVE owed'[u] = Cardinality(OpenChainsOf(u)')
  BY DEF OwedIsOpenChains
<1>1. IsFiniteSet(OpenChainsOf(u)) /\ h \notin OpenChainsOf(u)
  BY OpenChainsFinite DEF OpenChainsOf
<1>2. owed[u] = Cardinality(OpenChainsOf(u))
  BY DEF OwedIsOpenChains
<1>3. CASE u \in Moves[h]
  <2>1. OpenChainsOf(u)' = OpenChainsOf(u) \cup {h}
    BY <1>3 DEF OpenChainsOf
  <2>2. owed'[u] = owed[u] + 1
    BY <1>3 DEF Owe
  <2> QED BY <1>1, <1>2, <2>1, <2>2, FS_AddElement
<1>4. CASE u \notin Moves[h]
  <2>1. OpenChainsOf(u)' = OpenChainsOf(u)
    BY <1>4 DEF OpenChainsOf
  <2>2. owed'[u] = owed[u]
    BY <1>4 DEF Owe
  <2> QED BY <1>2, <2>1, <2>2
<1> QED BY <1>3, <1>4

\* A chain that closes lifts the marks it set.
LEMMA OwedClosed ==
  ASSUME TypeOK, OwedIsOpenChains, NEW h \in Hands,
         Release(h), OpenChain(h), ~OpenChain(h)',
         \A g \in Hands \ {h} : OpenChain(g)' = OpenChain(g)
  PROVE  /\ OwedIsOpenChains'
         /\ owed' \in [Players -> Nat]
<1>1. ASSUME NEW u \in Players
      PROVE  owed'[u] = Cardinality(OpenChainsOf(u)') /\ owed'[u] \in Nat
  <2>1. IsFiniteSet(OpenChainsOf(u))
    BY OpenChainsFinite
  <2>2. owed[u] = Cardinality(OpenChainsOf(u))
    BY DEF OwedIsOpenChains
  <2>3. CASE u \in Moves[h]
    <3>1. OpenChainsOf(u)' = OpenChainsOf(u) \ {h} /\ h \in OpenChainsOf(u)
      BY <2>3 DEF OpenChainsOf
    <3>2. owed'[u] = owed[u] - 1
      <4>1. Cardinality(OpenChainsOf(u)) # 0
        BY <2>1, <3>1, FS_EmptySet
      <4> QED BY <2>2, <2>3, <4>1 DEF Release, TypeOK
    <3>3. IsFiniteSet(OpenChainsOf(u) \ {h})
      BY <2>1, FS_RemoveElement
    <3> QED BY <2>1, <2>2, <3>1, <3>2, <3>3, FS_RemoveElement, FS_CardinalityType
  <2>4. CASE u \notin Moves[h]
    <3>1. OpenChainsOf(u)' = OpenChainsOf(u)
      BY <2>4 DEF OpenChainsOf
    <3>2. owed'[u] = owed[u]
      BY <2>4 DEF Release
    <3> QED BY <2>2, <3>1, <3>2 DEF TypeOK
  <2> QED BY <2>3, <2>4
<1>2. owed' = [u \in Players |-> owed'[u]]
  BY DEF Release
<1> QED BY <1>1, <1>2 DEF OwedIsOpenChains

\* Every action keeps the owed counts equal to the open chains.
LEMMA OwedStep ==
  ASSUME TypeOK, Core, OwedIsOpenChains, [ChainNext]_chainVars
  PROVE  OwedIsOpenChains' /\ owed' \in [Players -> Nat]
<1> USE DEF OpenChain, OpenStages
<1>K. ASSUME owed' = owed, \A h \in Hands : OpenChain(h)' = OpenChain(h)
      PROVE  OwedIsOpenChains' /\ owed' \in [Players -> Nat]
  BY <1>K, OwedKept DEF TypeOK
<1>1. CASE UNCHANGED chainVars
  BY <1>1, <1>K DEF chainVars
<1>2. CASE RoomFenced
  BY <1>2, <1>K DEF RoomFenced
<1>3. CASE CloseRoom
  BY <1>3, <1>K DEF CloseRoom, TypeOK
<1>4. ASSUME NEW h \in Hands,
             StartHand(h) \/ HandEnds(h) \/ DestroyEndsHand(h) \/ DbAnswers(h)
               \/ TimerFires(h) \/ RetryRuns(h) \/ Cancelled(h)
               \/ BouncedContinues(h) \/ DetachedRuns(h) \/ DetachedEnds(h)
      PROVE  OwedIsOpenChains' /\ owed' \in [Players -> Nat]
  <2>1. owed' = owed
    BY <1>4 DEF StartHand, HandEnds, DestroyEndsHand, CallSettle, DbAnswers, DbCommits,
                DbRefusesDuplicate, DbFails, TimerFires, RetryRuns, Cancelled,
                BouncedContinues, DetachedRuns, DetachedEnds
  <2>2. \A g \in Hands : OpenChain(g)' = OpenChain(g)
    BY <1>4 DEF StartHand, HandEnds, DestroyEndsHand, CallSettle, DbAnswers, DbCommits,
                DbRefusesDuplicate, DbFails, TimerFires, RetryRuns, Cancelled,
                BouncedContinues, DetachedRuns, DetachedEnds, TypeOK
  <2> QED BY <2>1, <2>2, <1>K
<1>5. ASSUME NEW h \in Hands, FirstReturns(h)
      PROVE  OwedIsOpenChains' /\ owed' \in [Players -> Nat]
  <2>1. CASE call[h] = "ok"
    BY <1>5, <2>1, <1>K DEF FirstReturns, TypeOK
  <2>2. CASE call[h] # "ok"
    <3>1. Owe(h) /\ ~OpenChain(h) /\ OpenChain(h)'
      BY <1>5, <2>2 DEF FirstReturns, TypeOK
    <3>2. \A g \in Hands \ {h} : OpenChain(g)' = OpenChain(g)
      BY <1>5, <2>2 DEF FirstReturns, TypeOK
    <3>3. owed' \in [Players -> Nat]
      BY <3>1 DEF Owe, TypeOK
    <3> QED BY <3>1, <3>2, <3>3, OwedOpened
  <2> QED BY <2>1, <2>2
<1>6. ASSUME NEW h \in Hands, RetryReturns(h)
      PROVE  OwedIsOpenChains' /\ owed' \in [Players -> Nat]
  <2>1. CASE stage'[h] = "armed"
    BY <1>6, <2>1, <1>K DEF RetryReturns, TypeOK
  <2>2. CASE stage'[h] # "armed"
    <3>1. Release(h) /\ OpenChain(h) /\ ~OpenChain(h)'
      BY <1>6, <2>2 DEF RetryReturns, TypeOK
    <3>2. \A g \in Hands \ {h} : OpenChain(g)' = OpenChain(g)
      BY <1>6, <2>2 DEF RetryReturns, TypeOK
    <3> QED BY <3>1, <3>2, OwedClosed
  <2> QED BY <2>1, <2>2
<1>7. ASSUME NEW h \in Hands, DetachedReturns(h)
      PROVE  OwedIsOpenChains' /\ owed' \in [Players -> Nat]
  <2>1. CASE stage'[h] = "resting"
    BY <1>7, <2>1, <1>K DEF DetachedReturns, TypeOK
  <2>2. CASE stage'[h] # "resting"
    <3>1. Release(h) /\ OpenChain(h) /\ ~OpenChain(h)'
      BY <1>7, <2>2 DEF DetachedReturns, TypeOK
    <3>2. \A g \in Hands \ {h} : OpenChain(g)' = OpenChain(g)
      BY <1>7, <2>2 DEF DetachedReturns, TypeOK
    <3> QED BY <3>1, <3>2, OwedClosed
  <2> QED BY <2>1, <2>2
<1> QED
  BY <1>1, <1>2, <1>3, <1>4, <1>5, <1>6, <1>7 DEF ChainNext, ChainStep

\* Only finitely many chains are claimed by the detached retries.
LEMMA ClaimedOpenFinite ==
  ASSUME TypeOK
  PROVE  IsFiniteSet(ClaimedOpen) /\ IsFiniteSet(claimed)
BY SettlementAssumption, FS_Subset DEF ClaimedOpen, TypeOK

\* The detached count stays right as long as the open claimed chains do not
\* change.
LEMMA DetachKept ==
  ASSUME TypeOK, DetachInv, detachedOpen' = detachedOpen, ClaimedOpen' = ClaimedOpen
  PROVE  DetachInv' /\ detachedOpen' \in Nat
BY DEF DetachInv, TypeOK

\* Claiming a set of entries counts those not yet claimed, none of them over.
LEMMA DetachClaims ==
  ASSUME TypeOK, DetachInv, NEW S \in SUBSET Hands, ClaimAll(S),
         ClaimedOpen' = ClaimedOpen \cup (S \ claimed)
  PROVE  DetachInv' /\ detachedOpen' \in Nat
<1> DEFINE T == S \ claimed
<1>1. IsFiniteSet(T) /\ IsFiniteSet(ClaimedOpen)
  BY SettlementAssumption, FS_Subset, ClaimedOpenFinite
<1>2. ClaimedOpen \cap T = {}
  BY DEF ClaimedOpen
<1>3. Cardinality(ClaimedOpen \cup T) = Cardinality(ClaimedOpen) + Cardinality(T)
  <2>1. Cardinality(ClaimedOpen \cap T) = 0
    BY <1>2, FS_EmptySet
  <2>2. Cardinality(ClaimedOpen) \in Nat /\ Cardinality(T) \in Nat
    BY <1>1, FS_CardinalityType
  <2>3. Cardinality(ClaimedOpen \cup T) =
          Cardinality(ClaimedOpen) + Cardinality(T) - Cardinality(ClaimedOpen \cap T)
    BY <1>1, FS_Union
  <2> QED BY <2>1, <2>2, <2>3
<1>4. Cardinality(T) \in Nat
  BY <1>1, FS_CardinalityType
<1>5. detachedOpen' = detachedOpen + Cardinality(T)
  BY DEF ClaimAll
<1> QED BY <1>3, <1>4, <1>5 DEF DetachInv, TypeOK

\* Every action keeps detachedOpen equal to the claimed chains still open.
LEMMA DetachStep ==
  ASSUME TypeOK, Core, DetachInv, [ChainNext]_chainVars
  PROVE  DetachInv' /\ detachedOpen' \in Nat
<1>1. CASE UNCHANGED chainVars
  BY <1>1, DetachKept DEF chainVars, ClaimedOpen
<1>2. CASE RoomFenced
  BY <1>2, DetachKept DEF RoomFenced, ClaimedOpen
<1>3. CASE CloseRoom
  <2>1. ClaimAll(listed) /\ listed \in SUBSET Hands
    BY <1>3 DEF CloseRoom, TypeOK
  <2>2. ClaimedOpen' = ClaimedOpen \cup (listed \ claimed)
    BY <1>3 DEF CloseRoom, ClaimAll, ClaimedOpen, TypeOK, Core, ListInv
  <2> QED BY <2>1, <2>2, DetachClaims
<1>4. ASSUME NEW h \in Hands, BouncedContinues(h)
      PROVE  DetachInv' /\ detachedOpen' \in Nat
  <2>1. ClaimAll({h})
    BY <1>4 DEF BouncedContinues
  <2>2. ClaimedOpen' = ClaimedOpen \cup ({h} \ claimed)
    BY <1>4 DEF BouncedContinues, ClaimAll, ClaimedOpen, TypeOK
  <2> QED BY <2>1, <2>2, DetachClaims
<1>5. ASSUME NEW h \in Hands, DetachedEnds(h)
      PROVE  DetachInv' /\ detachedOpen' \in Nat
  <2>1. IsFiniteSet(ClaimedOpen) /\ h \in ClaimedOpen
    BY <1>5, ClaimedOpenFinite DEF DetachedEnds, ClaimedOpen, Core, ListInv
  <2>2. ClaimedOpen' = ClaimedOpen \ {h}
    BY <1>5 DEF DetachedEnds, ClaimedOpen, TypeOK
  <2>3. IsFiniteSet(ClaimedOpen \ {h})
    BY <2>1, FS_RemoveElement
  <2>4. detachedOpen' = detachedOpen - 1
    BY <1>5 DEF DetachedEnds
  <2>5. Cardinality(ClaimedOpen \ {h}) = Cardinality(ClaimedOpen) - 1
    BY <2>1, FS_RemoveElement
  <2>6. Cardinality(ClaimedOpen \ {h}) \in Nat
    BY <2>3, FS_CardinalityType
  <2>7. detachedOpen = Cardinality(ClaimedOpen)
    BY DEF DetachInv
  <2>8. detachedOpen' = Cardinality(ClaimedOpen')
    BY <2>2, <2>4, <2>5, <2>7
  <2> QED BY <2>4, <2>5, <2>6, <2>7, <2>8 DEF DetachInv
<1>6. ASSUME NEW h \in Hands,
             StartHand(h) \/ HandEnds(h) \/ DestroyEndsHand(h) \/ FirstReturns(h)
               \/ DbAnswers(h) \/ TimerFires(h) \/ RetryRuns(h) \/ RetryReturns(h)
               \/ Cancelled(h) \/ DetachedRuns(h) \/ DetachedReturns(h)
      PROVE  DetachInv' /\ detachedOpen' \in Nat
  <2> USE DEF StartHand, HandEnds, DestroyEndsHand, CallSettle, FirstReturns,
              DbAnswers, DbCommits, DbRefusesDuplicate, DbFails, TimerFires,
              RetryRuns, RetryReturns, Cancelled, DetachedRuns, DetachedReturns
  <2>1. detachedOpen' = detachedOpen /\ claimed' = claimed
    BY <1>6
  <2>2. \A g \in claimed : stage'[g] \in {"landed", "abandoned"}
                              <=> stage[g] \in {"landed", "abandoned"}
    BY <1>6 DEF TypeOK, Core, ListInv
  <2>3. ClaimedOpen' = ClaimedOpen
    BY <2>1, <2>2 DEF ClaimedOpen
  <2> QED BY <2>1, <2>3, DetachKept
<1> QED
  BY <1>1, <1>2, <1>3, <1>4, <1>5, <1>6 DEF ChainNext, ChainStep

\* Every action keeps the types; the two counts are the lemmas above.
LEMMA TypeStep ==
  ASSUME TypeOK, Core, [ChainNext]_chainVars,
         owed' \in [Players -> Nat], detachedOpen' \in Nat
  PROVE  TypeOK'
<1> USE SettlementAssumption
<1> USE DEF TypeOK, Stages, OpenStages, EndStages
<1>1. CASE UNCHANGED chainVars
  BY <1>1 DEF chainVars
<1>2. CASE RoomFenced
  BY <1>2 DEF RoomFenced
<1>3. CASE CloseRoom
  BY <1>3 DEF CloseRoom, ClaimAll
<1>4. ASSUME NEW h \in Hands,
             StartHand(h) \/ HandEnds(h) \/ DestroyEndsHand(h)
      PROVE  TypeOK'
  BY <1>4 DEF StartHand, HandEnds, DestroyEndsHand, CallSettle
<1>5. ASSUME NEW h \in Hands, FirstReturns(h) PROVE TypeOK'
  BY <1>5 DEF FirstReturns
<1>6. ASSUME NEW h \in Hands, DbAnswers(h) PROVE TypeOK'
  BY <1>6 DEF DbAnswers, DbCommits, DbRefusesDuplicate, DbFails
<1>7. ASSUME NEW h \in Hands,
             TimerFires(h) \/ RetryRuns(h) \/ Cancelled(h) \/ BouncedContinues(h)
      PROVE  TypeOK'
  BY <1>7 DEF TimerFires, RetryRuns, Cancelled, BouncedContinues, ClaimAll
<1>8. ASSUME NEW h \in Hands, RetryReturns(h) PROVE TypeOK'
  BY <1>8 DEF RetryReturns
<1>9. ASSUME NEW h \in Hands,
             DetachedRuns(h) \/ DetachedReturns(h) \/ DetachedEnds(h)
      PROVE  TypeOK'
  BY <1>9 DEF DetachedRuns, DetachedReturns, DetachedEnds
<1> QED
  BY <1>1, <1>2, <1>3, <1>4, <1>5, <1>6, <1>7, <1>8, <1>9 DEF ChainNext, ChainStep

\* ChainInv is an invariant of the specification.
THEOREM Invariance == ChainSpec => []ChainInv
<1>1. ChainInit => ChainInv
  BY InitChainInv
<1>2. ChainInv /\ [ChainNext]_chainVars => ChainInv'
  BY CoreStep, OwedStep, DetachStep, TypeStep DEF ChainInv
<1> QED BY <1>1, <1>2, PTL DEF ChainSpec

\* Every variable keeps its type, for every number of hands, players, attempts.
THEOREM TypeCorrect == ChainSpec => []TypeOK
BY Invariance, PTL DEF ChainInv

\* RoomManager.owed is the number of open chains that move the player.
THEOREM OwedExact == ChainSpec => []OwedIsOpenChains
BY Invariance, PTL DEF ChainInv

\* No request is applied twice and no unpaid hand is counted.
THEOREM AtMostOnce == ChainSpec => []PaidAtMostOnce
<1>1. ChainInv => PaidAtMostOnce
  BY DEF ChainInv, Core, PaidInv, PaidStages, PaidAtMostOnce, TypeOK
<1> QED BY <1>1, Invariance, PTL

\* What was reported as landed has been paid.
THEOREM LandedPaid == ChainSpec => []LandedIsPaid
<1>1. ChainInv => LandedIsPaid
  BY DEF ChainInv, Core, PaidInv, PaidStages, LandedIsPaid
<1> QED BY <1>1, Invariance, PTL

\* With the room gone and nothing counted, no chain can still write.
THEOREM NothingMissed == ChainSpec => []WaitMissesNothing
<1>1. ChainInv => WaitMissesNothing
  <2> SUFFICES ASSUME ChainInv, room = "gone", detachedOpen = 0, NEW h \in Hands
               PROVE  stage[h] \notin OpenStages \cup {"finishing", "forsaking"}
    BY DEF WaitMissesNothing
  <2>1. ClaimedOpen = {}
    BY ClaimedOpenFinite, FS_EmptySet DEF ChainInv, DetachInv
  <2>2. h \in claimed => stage[h] \in {"landed", "abandoned"}
    BY <2>1 DEF ClaimedOpen
  <2>3. listed = {} /\ busy = None
    BY DEF ChainInv, Core, BusyInv
  <2> QED BY <2>2, <2>3, SettlementAssumption
          DEF ChainInv, Core, ListInv, BusyInv, OpenStages
<1> QED BY <1>1, Invariance, PTL

\* Once the room stopped waiting for a hand, no step writes it.
THEOREM FinalOnceReleased == ChainSpec => ReleasedIsFinal
<1>1. ChainInv /\ [ChainNext]_chainVars =>
        [\A h \in Hands :
           stage[h] \in EndStages \cup {"finishing", "forsaking"} => moved'[h] = moved[h]]_chainVars
  <2> SUFFICES ASSUME ChainInv, ChainNext, NEW h \in Hands,
                      stage[h] \in EndStages \cup {"finishing", "forsaking"}
               PROVE  moved'[h] = moved[h]
    OBVIOUS
  <2>1. call[h] = "idle"
    BY DEF ChainInv, Core, CallInv, EndStages
  <2> QED BY <2>1 DEF ChainInv, TypeOK, ChainNext, RoomFenced, CloseRoom, ChainStep, StartHand,
        HandEnds, DestroyEndsHand, CallSettle, FirstReturns, DbAnswers, DbCommits,
        DbRefusesDuplicate, DbFails, TimerFires, RetryRuns, RetryReturns, Cancelled,
        BouncedContinues, DetachedRuns, DetachedReturns, DetachedEnds
<1> QED BY <1>1, Invariance, PTL DEF ChainSpec, ReleasedIsFinal

-----------------------------------------------------------------------------
(***************************************************************************)
(* The refinement: every step of the chain is a step of the contract or    *)
(* leaves its variables alone.                                             *)
(***************************************************************************)

\* The contract's two variables, hand by hand.
ResultOf(h) ==
    IF stage[h] \in {"unplayed", "live"} THEN "none"
    ELSE IF moved[h] = 0 THEN "due" ELSE "paid"

ReportedOf(h) ==
    CASE stage[h] \in {"settled", "finishing", "landed"} -> "landed"
      [] stage[h] \in {"forsaking", "abandoned"} -> "givenUp"
      [] OTHER -> "waiting"

\* A step that changes neither value of any hand stutters in the contract.
LEMMA ContractStutters ==
  ASSUME \A g \in Hands : ResultOf(g)' = ResultOf(g) /\ ReportedOf(g)' = ReportedOf(g)
  PROVE  UNCHANGED Contract!vars
<1>1. [g \in Hands |-> ResultOf(g)]' = [g \in Hands |-> ResultOf(g)]
  OBVIOUS
<1>2. [g \in Hands |-> ReportedOf(g)]' = [g \in Hands |-> ReportedOf(g)]
  OBVIOUS
<1> QED BY <1>1, <1>2 DEF Contract!vars, ResultOf, ReportedOf

\* A step that changes one value of one hand as the contract allows is a step
\* of the contract.
LEMMA ContractMoves ==
  ASSUME NEW h \in Hands,
         \A g \in Hands \ {h} : ResultOf(g)' = ResultOf(g) /\ ReportedOf(g)' = ReportedOf(g),
         \/ /\ ReportedOf(h)' = ReportedOf(h)
            /\ \/ ResultOf(h) = "none" /\ ResultOf(h)' = "due"
               \/ ResultOf(h) = "due" /\ ReportedOf(h) = "waiting" /\ ResultOf(h)' = "paid"
         \/ /\ ResultOf(h)' = ResultOf(h)
            /\ ReportedOf(h) = "waiting"
            /\ \/ ResultOf(h) = "paid" /\ ReportedOf(h)' = "landed"
               \/ ResultOf(h) # "none" /\ ReportedOf(h)' = "givenUp"
  PROVE  Contract!Next
<1> DEFINE R == [g \in Hands |-> ResultOf(g)]
           P == [g \in Hands |-> ReportedOf(g)]
<1>1. \/ R' = [R EXCEPT ![h] = "due"] /\ P' = P /\ R[h] = "none"
      \/ R' = [R EXCEPT ![h] = "paid"] /\ P' = P /\ R[h] = "due" /\ P[h] = "waiting"
      \/ R' = R /\ P' = [P EXCEPT ![h] = "landed"] /\ R[h] = "paid" /\ P[h] = "waiting"
      \/ R' = R /\ P' = [P EXCEPT ![h] = "givenUp"] /\ R[h] # "none" /\ P[h] = "waiting"
  OBVIOUS
<1> QED BY <1>1 DEF Contract!Next, Contract!End, Contract!Pay, Contract!ReportLanded,
                    Contract!GiveUp, ResultOf, ReportedOf

\* The chain's initial states are the contract's.
LEMMA ContractInit == ChainInit => Contract!Init
BY DEF ChainInit, Contract!Init


\* Every step of the chain is a step of the contract or stutters there.
LEMMA ContractStep == ChainInv /\ [ChainNext]_chainVars => [Contract!Next]_(Contract!vars)
<1> SUFFICES ASSUME ChainInv, [ChainNext]_chainVars PROVE [Contract!Next]_(Contract!vars)
  OBVIOUS
<1> USE DEF ChainInv, TypeOK, ResultOf, ReportedOf
<1>1. CASE UNCHANGED chainVars
  BY <1>1, ContractStutters DEF chainVars
<1>2. CASE RoomFenced
  BY <1>2, ContractStutters DEF RoomFenced
<1>3. CASE CloseRoom
  BY <1>3, ContractStutters DEF CloseRoom
<1>4. ASSUME NEW h \in Hands,
             StartHand(h) \/ TimerFires(h) \/ RetryRuns(h) \/ Cancelled(h)
               \/ BouncedContinues(h) \/ DetachedRuns(h) \/ DetachedEnds(h)
               \/ DbRefusesDuplicate(h) \/ DbFails(h)
      PROVE  UNCHANGED Contract!vars
  BY <1>4, ContractStutters
     DEF StartHand, TimerFires, RetryRuns, Cancelled, BouncedContinues, DetachedRuns,
         DetachedEnds, DbRefusesDuplicate, DbFails
<1>5. ASSUME NEW h \in Hands, HandEnds(h) \/ DestroyEndsHand(h)
      PROVE  Contract!Next
  BY <1>5, ContractMoves DEF HandEnds, DestroyEndsHand, CallSettle, Core, PaidInv
<1>6. ASSUME NEW h \in Hands, DbCommits(h)
      PROVE  Contract!Next
  BY <1>6, ContractMoves DEF DbCommits, Core, CallInv
<1>7. ASSUME NEW h \in Hands, FirstReturns(h) \/ RetryReturns(h) \/ DetachedReturns(h)
      PROVE  [Contract!Next]_(Contract!vars)
  <2> USE DEF FirstReturns, RetryReturns, DetachedReturns, Core, CallInv
  <2>1. CASE stage'[h] \in {"armed", "resting"}
    BY <1>7, <2>1, ContractStutters
  <2>2. CASE stage'[h] \notin {"armed", "resting"}
    BY <1>7, <2>2, ContractMoves
  <2> QED BY <2>1, <2>2
<1> QED
  BY <1>1, <1>2, <1>3, <1>4, <1>5, <1>6, <1>7 DEF ChainNext, ChainStep, DbAnswers

\* The chain implements the contract of a settlement.
THEOREM Refinement == ChainSpec => ImplementsContract
BY ContractInit, ContractStep, Invariance, PTL DEF ChainSpec, ImplementsContract, Contract!Spec

-----------------------------------------------------------------------------
(* A hand and its lives *)

-----------------------------------------------------------------------------
(* The inductive invariant *)

Statuses == {"active", "packed", "left"}

Rooms == [live : BOOLEAN, status : [Users -> Statuses],
          paid : [Users -> 0 .. Purse], written : [Users -> Nat]]

Requests == [attempt : Nat, delta : [Users -> Int \cup {NoRow}]]

Copies == [state : {"up", "destroyed", "down"}, life : Nat, fenced : BOOLEAN,
           dirty : BOOLEAN, phase : {"idle", "ending", "flush"}, lead : Int,
           room : Rooms, request : Requests]

Books == [Kinds -> [Users -> Int \cup {NoRow}]]
Written == {"packed", "left"}

\* A checkpoint's row takes no more than a player brought.
RowsBounded(rw) ==
    \A k \in Written, u \in Users : rw[k][u] # NoRow => -rw[k][u] \in 0 .. Purse

\* What a room counts as written is nothing or one landed checkpoint, and it
\* counts nothing for a player who still plays: one checkpoint ends their part.
Counted(b, rw) ==
    \A u \in Users :
        b.written[u] # 0 =>
            /\ b.status[u] # "active"
            /\ \E k \in Written : rw[k][u] # NoRow /\ b.written[u] = -rw[k][u]

\* A request a chain holds was made of a room that counted right.
Backed(req, rw) ==
    \E b \in Rooms : \E w \in Active(b) :
        Counted(b, rw) /\ req.delta = RequestOf(b, w).delta

CopyOK(cc, rw) ==
    /\ cc \in Copies
    /\ Counted(cc.room, rw)
    /\ cc.request.attempt > 0 => Backed(cc.request, rw)

\* Before the first settlement no wallet holds more than was brought, nor more
\* than any one checkpoint left of that.
Banked(w, rw) ==
    \A u \in Users :
        /\ w[u] <= Purse
        /\ \A k \in Written : rw[k][u] # NoRow => w[u] <= Purse + rw[k][u]

BooksOK ==
    /\ wallet \in [Users -> Nat] /\ rows \in Books /\ endings \in Nat
    /\ RowsBounded(rows)
    /\ endings = 0 => Banked(wallet, rows)
    /\ endings <= 1 => SumOver(wallet, Users) <= Purse * Cardinality(Users)

RoomsOK ==
    /\ snapshot.room \in Rooms /\ Counted(snapshot.room, rows)
    /\ copy = [c \in Procs |-> copy[c]]
    /\ \A c \in Procs : CopyOK(copy[c], rows)

IInv == BooksOK /\ RoomsOK

\* Rows are never taken back.
Grows(old, new) ==
    \A k \in Written, u \in Users : old[k][u] # NoRow => new[k][u] = old[k][u]

-----------------------------------------------------------------------------
(* Rooms and copies *)

\* A room that counts right goes on counting right as rows land.
LEMMA CountedStays ==
  ASSUME NEW b, NEW old, NEW new, Counted(b, old), Grows(old, new)
  PROVE  Counted(b, new)
BY DEF Counted, Grows, Written

\* So does a copy.
LEMMA CopyStays ==
  ASSUME NEW cc, NEW old, NEW new, CopyOK(cc, old), Grows(old, new)
  PROVE  CopyOK(cc, new)
<1>1. Counted(cc.room, new)
  BY CountedStays DEF CopyOK
<1>2. ASSUME cc.request.attempt > 0
      PROVE  Backed(cc.request, new)
  <2>1. PICK b \in Rooms : \E w \in Active(b) :
               Counted(b, old) /\ cc.request.delta = RequestOf(b, w).delta
    BY <1>2 DEF CopyOK, Backed
  <2>2. Counted(b, new)
    BY <2>1, CountedStays
  <2> QED BY <2>1, <2>2 DEF Backed
<1> QED BY <1>1, <1>2 DEF CopyOK

\* What else of a copy changes does not matter.
LEMMA SameRoom ==
  ASSUME NEW cc, NEW x \in Copies, NEW rw, CopyOK(cc, rw),
         x.room = cc.room, x.request = cc.request
  PROVE  CopyOK(x, rw)
BY DEF CopyOK

\* A save that was taken counts its number anew.
LEMMA Saved ==
  ASSUME NEW cc \in Copies, NEW n \in Int, NEW d \in BOOLEAN
  PROVE  /\ [cc EXCEPT !.lead = n, !.dirty = d] \in Copies
         /\ [cc EXCEPT !.lead = n, !.dirty = d].room = cc.room
         /\ [cc EXCEPT !.lead = n, !.dirty = d].request = cc.request
BY DEF Copies

\* A fenced copy holds no room, and the settlements it owed.
LEMMA Fenced ==
  ASSUME NEW cc \in Copies, NEW b \in Rooms, NEW n \in Int
  PROVE  LET x == [cc EXCEPT !.fenced = TRUE, !.dirty = FALSE, !.room = b, !.lead = n]
         IN  x \in Copies /\ x.room = b /\ x.request = cc.request
<1>1. [cc EXCEPT !.fenced = TRUE, !.dirty = FALSE, !.room = b, !.lead = n] \in Copies
  BY DEF Copies
<1>2. [cc EXCEPT !.fenced = TRUE, !.dirty = FALSE, !.room = b, !.lead = n].room = b
  BY DEF Copies
<1>3. [cc EXCEPT !.fenced = TRUE, !.dirty = FALSE, !.room = b, !.lead = n].request = cc.request
  BY DEF Copies
<1> QED BY Zenon, <1>1, <1>2, <1>3

\* A room as dealt, no room, and a process that is down.
LEMMA Fresh ==
  ASSUME NEW rw
  PROVE  /\ Dealt \in Rooms /\ Counted(Dealt, rw)
         /\ NoRoom \in Rooms /\ Counted(NoRoom, rw)
         /\ NoRequest \in Requests /\ NoRequest.attempt = 0
         /\ CopyOK(Down, rw)
<1>1. Dealt \in Rooms /\ Counted(Dealt, rw)
  BY LiveAssumption DEF Dealt, Rooms, Statuses, Counted
<1>2. NoRoom \in Rooms /\ Counted(NoRoom, rw)
  BY <1>1 DEF NoRoom, Rooms, Counted, Dealt
<1>3. NoRequest \in Requests /\ NoRequest.attempt = 0
  BY DEF NoRequest, Requests
<1>4. Down \in Copies
  BY <1>2, <1>3 DEF Down, Copies
<1>5. Down.room = NoRoom /\ Down.request = NoRequest
  BY DEF Down
<1> QED BY <1>1, <1>2, <1>3, <1>4, <1>5 DEF CopyOK

\* The copy after a closure that left its room counting right.
LEMMA ChangedOK ==
  ASSUME NEW c \in Procs, NEW b \in Rooms, NEW rw, CopyOK(copy[c], rw), Counted(b, rw)
  PROVE  CopyOK(Changed(c, b), rw)
<1> DEFINE cc == Changed(c, b)
<1>1. cc \in Copies /\ cc.room = b /\ cc.request = copy[c].request
  BY DEF Changed, CopyOK, Copies
<1> QED BY <1>1 DEF CopyOK

-----------------------------------------------------------------------------
(* What a settlement pays *)

\* The pot is the sum of what it cost its players.
LEMMA PotIsSum ==
  ASSUME NEW b \in Rooms
  PROVE  Pot(b) = SumOver(b.paid, Users) /\ Pot(b) \in Nat
<1>1. Pot(b) = SumOver(b.paid, Users)
  BY DEF Pot, SumOver
<1>2. \A u \in Users : b.paid[u] \in Nat
  BY LiveAssumption DEF Rooms
<1>3. SumOver(b.paid, Users) \in Nat
  BY <1>2, SumNat, LiveAssumption
<1> QED BY <1>1, <1>3

\* The rows of a request, player by player.
LEMMA RequestRows ==
  ASSUME NEW b \in Rooms, NEW w \in Active(b)
  PROVE  /\ w \in Users
         /\ RequestOf(b, w) \in Requests
         /\ \A u \in Users :
              LET d == RequestOf(b, w).delta[u]
              IN  \/ u # w /\ d = NoRow /\ b.paid[u] = b.written[u]
                  \/ d # NoRow /\ d = b.written[u] - b.paid[u] + (IF u = w THEN Pot(b) ELSE 0)
<1>1. w \in Users /\ b.status[w] = "active"
  BY DEF Active
<1>2. Pot(b) \in Nat
  BY PotIsSum
<1>3. ASSUME NEW u \in Users
      PROVE  b.written[u] - b.paid[u] + (IF u = w THEN Pot(b) ELSE 0) \in Int
  BY <1>2, LiveAssumption DEF Rooms
<1> QED BY <1>1, <1>3, LiveAssumption DEF RequestOf, Requests

\* What a room counts as written has left its player's wallet.
LEMMA WrittenLeftTheWallet ==
  ASSUME NEW b \in Rooms, NEW rw \in Books, NEW wl \in [Users -> Nat],
         RowsBounded(rw), Counted(b, rw), Banked(wl, rw), NEW u \in Users
  PROVE  wl[u] <= Purse - b.written[u]
<1>1. CASE b.written[u] = 0
  BY <1>1, LiveAssumption DEF Banked
<1>2. CASE b.written[u] # 0
  <2>1. PICK k \in Written : rw[k][u] # NoRow /\ b.written[u] = -rw[k][u]
    BY <1>2 DEF Counted
  <2>2. wl[u] <= Purse + rw[k][u]
    BY <2>1 DEF Banked
  <2>3. -rw[k][u] \in 0 .. Purse
    BY <2>1 DEF RowsBounded
  <2>4. rw[k][u] \in Int
    BY <2>1, LiveAssumption DEF Books, Kinds, Written
  <2> QED BY <2>1, <2>2, <2>3, <2>4, LiveAssumption
<1> QED BY <1>1, <1>2

\* A hand's first settlement leaves its players no more than they brought.
LEMMA PaysOut ==
  ASSUME NEW b \in Rooms, NEW w \in Active(b), NEW rw \in Books,
         NEW wl \in [Users -> Nat], RowsBounded(rw), Counted(b, rw), Banked(wl, rw)
  PROVE  SumOver(Apply(wl, RequestOf(b, w).delta), Users) <= Purse * Cardinality(Users)
<1> DEFINE after == Apply(wl, RequestOf(b, w).delta)
           most  == [u \in Users |-> Purse - b.paid[u] + (IF u = w THEN Pot(b) ELSE 0)]
           kept  == [u \in Users |-> Purse - b.paid[u]]
           all   == [u \in Users |-> Purse]
<1>1. Pot(b) = SumOver(b.paid, Users) /\ Pot(b) \in Nat
  BY PotIsSum
<1>2. w \in Users /\ IsFiniteSet(Users) /\ Purse \in Nat
  BY RequestRows, LiveAssumption
<1>3. \A u \in Users : b.paid[u] \in 0 .. Purse /\ b.written[u] \in Nat
  BY DEF Rooms
<1>4. ASSUME NEW u \in Users
      PROVE  after[u] \in Int /\ most[u] \in Int /\ after[u] <= most[u]
  <2> DEFINE d == RequestOf(b, w).delta[u]
  <2>1. after[u] = IF d = NoRow THEN wl[u] ELSE IF wl[u] + d < 0 THEN 0 ELSE wl[u] + d
    BY DEF Apply
  <2>2. wl[u] <= Purse - b.written[u] /\ wl[u] \in Nat
    BY WrittenLeftTheWallet
  <2>3. CASE u # w /\ d = NoRow /\ b.paid[u] = b.written[u]
    <3>1. after[u] = wl[u] /\ most[u] = Purse - b.paid[u]
      BY <2>1, <2>3, <1>2, <1>3
    <3> HIDE DEF after, most
    <3> QED BY <3>1, <2>2, <2>3, <1>2, <1>3
  <2>4. CASE d # NoRow /\ d = b.written[u] - b.paid[u] + (IF u = w THEN Pot(b) ELSE 0)
    <3>1. /\ after[u] = IF wl[u] + d < 0 THEN 0 ELSE wl[u] + d
          /\ most[u] = Purse - b.paid[u] + (IF u = w THEN Pot(b) ELSE 0)
      BY <2>1, <2>4
    <3> HIDE DEF after, most, d
    <3> QED BY <3>1, <2>2, <2>4, <1>1, <1>2, <1>3
  <2> QED BY <2>3, <2>4, RequestRows
<1>5. SumOver(after, Users) <= SumOver(most, Users)
  <2> HIDE DEF after, most
  <2> QED BY <1>4, <1>2, SumMonotone
<1>6. SumOver(most, Users) = SumOver(kept, Users) + Pot(b)
  <2>1. SumOver(most, Users) - most[w] = SumOver(kept, Users) - kept[w]
    <3>1. \A u \in Users : most[u] \in Int /\ kept[u] \in Int /\ (u # w => most[u] = kept[u])
      BY <1>1, <1>2, <1>3
    <3> HIDE DEF most, kept
    <3> QED BY <3>1, <1>2, SumOneMoved
  <2>2. most[w] = kept[w] + Pot(b) /\ kept[w] \in Int
    BY <1>1, <1>2, <1>3
  <2>3. SumOver(kept, Users) \in Int /\ SumOver(most, Users) \in Int
    <3>1. \A u \in Users : most[u] \in Int /\ kept[u] \in Int
      BY <1>1, <1>2, <1>3
    <3> HIDE DEF most, kept
    <3> QED BY <3>1, <1>2, SumInt
  <2> HIDE DEF most, kept
  <2> QED BY <2>1, <2>2, <2>3, <1>1
<1>7. SumOver(all, Users) = SumOver(kept, Users) + SumOver(b.paid, Users)
  <2>1. \A u \in Users : kept[u] \in Int /\ b.paid[u] \in Int /\ all[u] = kept[u] + b.paid[u]
    BY <1>2, <1>3
  <2> HIDE DEF all, kept
  <2> QED BY <2>1, <1>2, SumPlus
<1>8. SumOver(all, Users) = Purse * Cardinality(Users)
  <2>1. \A u \in Users : all[u] = Purse
    OBVIOUS
  <2> HIDE DEF all
  <2> QED BY <2>1, <1>2, SumConstant
<1> HIDE DEF after, most, kept, all
<1>9. SumOver(after, Users) <= Purse * Cardinality(Users)
  BY <1>1, <1>5, <1>6, <1>7, <1>8
<1> QED BY <1>9 DEF after

-----------------------------------------------------------------------------
(* The ledger's steps *)

\* A checkpoint that lands.
LEMMA CheckpointLands ==
  ASSUME BooksOK, NEW k \in Written, NEW u \in Users, NEW due \in 0 .. Purse,
         ~Landed(k, u),
         rows' = [rows EXCEPT ![k][u] = -due],
         wallet' = Apply(wallet, Only(u, -due)),
         endings' = endings
  PROVE  BooksOK' /\ Grows(rows, rows') /\ rows'[k][u] # NoRow /\ rows'[k][u] = -due
<1>1. wallet \in [Users -> Nat] /\ rows \in Books /\ k \in Kinds /\ due \in Nat /\ Purse \in Nat
  BY LiveAssumption DEF BooksOK, Kinds, Written
<1>2. rows' \in Books /\ rows'[k][u] = -due
  BY <1>1 DEF Books
<1>3. -due \in Int /\ -due # NoRow
  BY <1>1, LiveAssumption
<1>4. \A l \in Written, v \in Users : l # k \/ v # u => rows'[l][v] = rows[l][v]
  BY <1>1 DEF Books, Kinds, Written
<1>5. Grows(rows, rows')
  BY <1>4 DEF Grows, Landed
<1>6. RowsBounded(rows')
  <2>1. -(-due) \in 0 .. Purse
    BY <1>1
  <2> QED BY <1>2, <1>4, <2>1 DEF RowsBounded, BooksOK
<1>7. ASSUME NEW v \in Users
      PROVE  /\ wallet'[v] \in Nat /\ wallet'[v] <= wallet[v]
             /\ v = u => wallet'[v] <= (IF wallet[u] - due < 0 THEN 0 ELSE wallet[u] - due)
  <2>1. wallet'[v] = IF Only(u, -due)[v] = NoRow THEN wallet[v]
                     ELSE IF wallet[v] + Only(u, -due)[v] < 0 THEN 0
                          ELSE wallet[v] + Only(u, -due)[v]
    BY DEF Apply
  <2>2. CASE v = u
    <3>1. Only(u, -due)[v] = -due
      BY <2>2 DEF Only
    <3>2. wallet'[v] = IF wallet[u] + (-due) < 0 THEN 0 ELSE wallet[u] + (-due)
      BY <2>1, <2>2, <3>1, <1>3
    <3>3. wallet[u] \in Nat
      BY <1>1
    <3> QED BY <3>2, <3>3, <2>2, <1>1
  <2>3. CASE v # u
    <3>1. Only(u, -due)[v] = NoRow
      BY <2>3 DEF Only
    <3>2. wallet'[v] = wallet[v] /\ wallet[v] \in Nat
      BY <2>1, <3>1, <1>1
    <3> QED BY <3>2, <2>3
  <2> QED BY <2>2, <2>3
<1>8. wallet' \in [Users -> Nat]
  <2>1. wallet' = [v \in Users |-> wallet'[v]]
    BY DEF Apply
  <2> QED BY <2>1, <1>7
<1>9. ASSUME endings' = 0
      PROVE  Banked(wallet', rows')
  <2>1. Banked(wallet, rows)
    BY <1>9 DEF BooksOK
  <2>2. ASSUME NEW v \in Users
        PROVE  wallet'[v] <= Purse
    <3>1. wallet[v] <= Purse /\ wallet[v] \in Nat
      BY <2>1, <1>1 DEF Banked
    <3> QED BY <3>1, <1>7, <1>1
  <2>3. ASSUME NEW v \in Users, NEW l \in Written, rows'[l][v] # NoRow
        PROVE  wallet'[v] <= Purse + rows'[l][v]
    <3>1. CASE l = k /\ v = u
      <4>1. wallet[u] <= Purse /\ wallet[u] \in Nat
        BY <2>1, <1>1 DEF Banked
      <4> QED BY <3>1, <4>1, <1>7, <1>1, <1>2
    <3>2. CASE ~(l = k /\ v = u)
      <4>1. rows'[l][v] = rows[l][v] /\ rows[l][v] \in Int
        BY <3>2, <1>4, <2>3, <1>1 DEF Books, Kinds, Written
      <4>2. wallet[v] <= Purse + rows[l][v] /\ wallet[v] \in Nat
        BY <2>1, <2>3, <4>1, <1>1 DEF Banked
      <4> QED BY <4>1, <4>2, <1>7, <1>1
    <3> QED BY <3>1, <3>2
  <2> QED BY <2>2, <2>3 DEF Banked
<1>10. ASSUME endings' <= 1
       PROVE  SumOver(wallet', Users) <= Purse * Cardinality(Users)
  <2>1. SumOver(wallet', Users) <= SumOver(wallet, Users)
    <3>1. \A v \in Users : wallet'[v] \in Int /\ wallet[v] \in Int /\ wallet'[v] <= wallet[v]
      BY <1>7, <1>1
    <3> QED BY <3>1, SumMonotone, LiveAssumption
  <2>2. SumOver(wallet, Users) <= Purse * Cardinality(Users)
    BY <1>10 DEF BooksOK
  <2>3. /\ SumOver(wallet, Users) \in Int /\ SumOver(wallet', Users) \in Int
        /\ Purse * Cardinality(Users) \in Int
    BY <1>1, <1>8, SumInt, LiveAssumption, FS_CardinalityType
  <2> QED BY <2>1, <2>2, <2>3
<1> QED BY <1>2, <1>3, <1>5, <1>6, <1>8, <1>9, <1>10 DEF BooksOK

\* A settlement, landed or refused as a duplicate.
LEMMA SettleStep ==
  ASSUME BooksOK, NEW req, Backed(req, rows), Settles(req)
  PROVE  BooksOK' /\ Grows(rows, rows')
<1>1. CASE UNCHANGED books
  BY <1>1 DEF books, BooksOK, Grows
<1>2. CASE ~ UNCHANGED books
  <2>1. /\ rows' = [rows EXCEPT !["settle"] =
                      [u \in Users |-> IF req.delta[u] = NoRow THEN @[u] ELSE req.delta[u]]]
        /\ wallet' = Apply(wallet, req.delta)
        /\ endings' = endings + 1
    BY <1>2 DEF Settles
  <2>2. PICK b \in Rooms : \E w \in Active(b) :
               Counted(b, rows) /\ req.delta = RequestOf(b, w).delta
    BY DEF Backed
  <2>3. PICK w \in Active(b) : Counted(b, rows) /\ req.delta = RequestOf(b, w).delta
    BY <2>2
  <2>4. req.delta \in [Users -> Int \cup {NoRow}]
    BY <2>3, RequestRows DEF Requests
  <2>5. wallet \in [Users -> Nat] /\ rows \in Books /\ endings \in Nat
    BY DEF BooksOK
  <2>6. rows' \in Books /\ \A k \in Written : rows'[k] = rows[k]
    BY <2>1, <2>4, <2>5 DEF Books, Kinds, Written
  <2>7. Grows(rows, rows') /\ RowsBounded(rows')
    BY <2>6 DEF Grows, RowsBounded, BooksOK
  <2>8. wallet' \in [Users -> Nat]
    <3>1. ASSUME NEW u \in Users, req.delta[u] # NoRow
          PROVE  (IF wallet[u] + req.delta[u] < 0 THEN 0 ELSE wallet[u] + req.delta[u]) \in Nat
      <4>1. wallet[u] \in Nat /\ req.delta[u] \in Int
        BY <3>1, <2>4, <2>5
      <4> QED BY <4>1
    <3> QED BY <3>1, <2>1, <2>5 DEF Apply
  <2>9. endings' \in Nat /\ endings' # 0
    BY <2>1, <2>5
  <2>10. ASSUME endings' <= 1
         PROVE  SumOver(wallet', Users) <= Purse * Cardinality(Users)
    <3>1. endings = 0
      BY <2>10, <2>1, <2>5
    <3>2. Banked(wallet, rows) /\ RowsBounded(rows)
      BY <3>1 DEF BooksOK
    <3>3. SumOver(Apply(wallet, RequestOf(b, w).delta), Users) <= Purse * Cardinality(Users)
      BY <3>2, <2>3, <2>5, PaysOut
    <3> QED BY <3>3, <2>1, <2>3
  <2> QED BY <2>6, <2>7, <2>8, <2>9, <2>10 DEF BooksOK
<1> QED BY <1>1, <1>2

\* A step that moves one copy, and the ledger at most forward.
LEMMA OneCopy ==
  ASSUME RoomsOK, Grows(rows, rows'), NEW c \in Procs, NEW cc, CopyOK(cc, rows'),
         copy' = [copy EXCEPT ![c] = cc], snapshot' = snapshot
  PROVE  RoomsOK'
<1>1. Counted(snapshot.room, rows')
  BY CountedStays DEF RoomsOK
<1>2. \A p \in Procs : copy'[p] = IF p = c THEN cc ELSE copy[p]
  BY DEF RoomsOK
<1>3. \A p \in Procs : CopyOK(copy[p], rows')
  BY CopyStays DEF RoomsOK
<1>4. copy' = [p \in Procs |-> copy'[p]]
  BY DEF RoomsOK
<1> QED BY <1>1, <1>2, <1>3, <1>4 DEF RoomsOK

-----------------------------------------------------------------------------
(* The steps preserve the invariant *)

\* A checkpoint of a player who was in the hand until this closure.
LEMMA CheckpointStep ==
  ASSUME IInv, NEW c \in Procs, NEW b \in Rooms, Counted(b, rows), NEW k \in Written,
         NEW u \in Users, b.status[u] # "active", b.written[u] = 0,
         Checkpoint(c, b, k, u), snapshot' = snapshot
  PROVE  IInv'
<1> DEFINE due == b.paid[u] - b.written[u]
<1>1. due \in 0 .. Purse /\ due = b.paid[u] /\ CopyOK(copy[c], rows)
  BY LiveAssumption DEF Rooms, IInv, RoomsOK
<1>2. CASE /\ ~Landed(k, u)
           /\ rows' = [rows EXCEPT ![k][u] = -due]
           /\ wallet' = Apply(wallet, Only(u, -due))
           /\ copy' = [copy EXCEPT ![c] = Changed(c, [b EXCEPT !.written[u] = b.paid[u]])]
           /\ UNCHANGED <<endings, faults>>
  <2> DEFINE after == [b EXCEPT !.written[u] = b.paid[u]]
  <2>1. /\ BooksOK' /\ Grows(rows, rows')
        /\ rows'[k][u] # NoRow /\ rows'[k][u] = -due
    <3> HIDE DEF due
    <3> QED BY <1>1, <1>2, CheckpointLands DEF IInv
  <2>2. after \in Rooms
    BY LiveAssumption DEF Rooms
  <2>3. Counted(after, rows')
    <3>1. Counted(b, rows')
      BY <2>1, CountedStays
    <3>2. /\ after.status = b.status
          /\ \A v \in Users : after.written[v] = IF v = u THEN b.paid[u] ELSE b.written[v]
      BY DEF Rooms
    <3>3. b.paid[u] = -rows'[k][u]
      BY <1>1, <2>1
    <3> HIDE DEF after
    <3> QED BY <3>1, <3>2, <3>3, <2>1 DEF Counted
  <2>4. CopyOK(copy[c], rows')
    BY <1>1, <2>1, CopyStays
  <2>5. CopyOK(Changed(c, after), rows')
    <3> HIDE DEF after
    <3> QED BY <2>2, <2>3, <2>4, ChangedOK
  <2>6. copy' = [copy EXCEPT ![c] = Changed(c, after)]
    BY <1>2
  <2> HIDE DEF after
  <2>7. RoomsOK'
    BY <2>1, <2>5, <2>6, OneCopy DEF IInv
  <2> QED BY <2>1, <2>7 DEF IInv
<1>3. CASE /\ Landed(k, u)
           /\ copy' = [copy EXCEPT ![c] = Changed(c, Replayed(b, k, u))]
           /\ UNCHANGED <<books, faults>>
  <2> DEFINE after == Replayed(b, k, u)
  <2>1. -rows[k][u] \in 0 .. Purse
    BY <1>3 DEF Landed, IInv, BooksOK, RowsBounded
  <2>2. rows \in Books /\ k \in Kinds
    BY DEF IInv, BooksOK, Kinds, Written
  <2>3. rows[k][u] \in Int
    BY <1>3, <2>2 DEF Landed, Books
  <2>4. 0 - rows[k][u] \in Nat /\ 0 - rows[k][u] = -rows[k][u]
    BY <2>1, <2>3, LiveAssumption
  <2>5. /\ after \in Rooms /\ after.status = b.status
        /\ \A v \in Users : after.written[v] = IF v = u THEN -rows[k][u] ELSE b.written[v]
    BY <2>4 DEF Replayed, Rooms
  <2>6. Counted(after, rows)
    <3> HIDE DEF after
    <3> QED BY <2>5, <1>3 DEF Counted, Landed
  <2>7. rows' = rows /\ wallet' = wallet /\ endings' = endings
    BY <1>3 DEF books
  <2>8. BooksOK' /\ Grows(rows, rows')
    BY <2>7 DEF IInv, BooksOK, Grows
  <2>9. CopyOK(Changed(c, after), rows')
    <3> HIDE DEF after
    <3> QED BY <1>1, <2>5, <2>6, <2>7, ChangedOK
  <2>10. copy' = [copy EXCEPT ![c] = Changed(c, after)]
    BY <1>3
  <2> HIDE DEF after
  <2>11. RoomsOK'
    BY <2>8, <2>9, <2>10, OneCopy DEF IInv
  <2> QED BY <2>8, <2>11 DEF IInv
<1>4. CASE copy' = [copy EXCEPT ![c] = Changed(c, b)] /\ UNCHANGED books
  <2>1. rows' = rows /\ wallet' = wallet /\ endings' = endings
    BY <1>4 DEF books
  <2>2. BooksOK' /\ Grows(rows, rows')
    BY <2>1 DEF IInv, BooksOK, Grows
  <2>3. CopyOK(Changed(c, b), rows')
    BY <1>1, <2>1, ChangedOK
  <2>4. RoomsOK'
    BY <1>4, <2>2, <2>3, OneCopy DEF IInv
  <2> QED BY <2>2, <2>4 DEF IInv
<1> QED BY <1>2, <1>3, <1>4 DEF Checkpoint

\* The end of a hand: its settlement, or the request a chain will hold.
LEMMA EndHandStep ==
  ASSUME IInv, NEW c \in Procs, NEW w \in Active(copy[c].room),
         EndHand(c, w, [copy[c] EXCEPT !.phase = "flush"]), snapshot' = snapshot
  PROVE  IInv'
<1> DEFINE b == copy[c].room
           cc == [copy[c] EXCEPT !.phase = "flush"]
           over == [cc EXCEPT !.room = [NoRoom EXCEPT !.status = b.status], !.dirty = TRUE]
           req == RequestOf(b, w)
           held == [over EXCEPT !.request = [req EXCEPT !.attempt = 1]]
<1>1. CopyOK(copy[c], rows) /\ b \in Rooms /\ Counted(b, rows)
  BY DEF IInv, RoomsOK, CopyOK, Copies
<1>2. Backed(req, rows) /\ req \in Requests
  BY <1>1, RequestRows DEF Backed
<1>3. /\ [NoRoom EXCEPT !.status = b.status] \in Rooms
      /\ Counted([NoRoom EXCEPT !.status = b.status], rows)
  <2> DEFINE x == [NoRoom EXCEPT !.status = b.status]
  <2>1. NoRoom \in Rooms /\ \A u \in Users : NoRoom.written[u] = 0
    BY Fresh DEF NoRoom, Dealt
  <2>2. x \in Rooms /\ x.written = NoRoom.written
    BY <1>1, <2>1 DEF Rooms
  <2>3. \A u \in Users : x.written[u] = 0
    BY <2>1, <2>2
  <2> HIDE DEF x
  <2>4. Counted(x, rows)
    BY <2>3 DEF Counted
  <2> QED BY <2>2, <2>4 DEF x
<1>4. CopyOK(over, rows)
  <2>1. /\ over \in Copies /\ over.room = [NoRoom EXCEPT !.status = b.status]
        /\ over.request = copy[c].request
    BY <1>1, <1>3 DEF CopyOK, Copies
  <2> HIDE DEF over
  <2> QED BY <1>1, <1>3, <2>1 DEF CopyOK
<1>5. CopyOK(held, rows)
  <2>1. over \in Copies /\ Counted(over.room, rows)
    BY <1>4 DEF CopyOK
  <2>2. /\ [req EXCEPT !.attempt = 1] \in Requests
        /\ [req EXCEPT !.attempt = 1].delta = req.delta
    <3> HIDE DEF req
    <3> QED BY <1>2 DEF Requests
  <2> HIDE DEF over, req
  <2>3. held \in Copies /\ held.room = over.room /\ held.request = [req EXCEPT !.attempt = 1]
    BY <2>1, <2>2 DEF Copies
  <2>4. Backed([req EXCEPT !.attempt = 1], rows)
    BY <1>2, <2>2 DEF Backed
  <2> HIDE DEF held
  <2> QED BY <2>1, <2>3, <2>4 DEF CopyOK
<1>6. CASE Settles(req) /\ copy' = [copy EXCEPT ![c] = over]
  <2> HIDE DEF over, req
  <2>1. BooksOK' /\ Grows(rows, rows')
    BY <1>2, <1>6, SettleStep DEF IInv
  <2>2. RoomsOK'
    BY <1>4, <1>6, <2>1, CopyStays, OneCopy DEF IInv
  <2> QED BY <2>1, <2>2 DEF IInv
<1>7. CASE copy' = [copy EXCEPT ![c] = held] /\ UNCHANGED books
  <2> HIDE DEF held
  <2>1. rows' = rows /\ wallet' = wallet /\ endings' = endings
    BY <1>7 DEF books
  <2>2. BooksOK' /\ Grows(rows, rows')
    BY <2>1 DEF IInv, BooksOK, Grows
  <2>3. RoomsOK'
    BY <1>5, <1>7, <2>1, <2>2, OneCopy DEF IInv
  <2> QED BY <2>2, <2>3 DEF IInv
<1> QED BY <1>6, <1>7 DEF EndHand

\* A step that leaves the ledger alone and changes one copy.
LEMMA QuietStep ==
  ASSUME IInv, NEW c \in Procs, NEW cc, CopyOK(cc, rows),
         copy' = [copy EXCEPT ![c] = cc], snapshot' = snapshot, UNCHANGED books
  PROVE  IInv'
<1>1. rows' = rows /\ wallet' = wallet /\ endings' = endings
  BY DEF books
<1>2. BooksOK' /\ Grows(rows, rows')
  BY <1>1 DEF IInv, BooksOK, Grows
<1>3. RoomsOK'
  BY <1>1, <1>2, OneCopy DEF IInv
<1> QED BY <1>2, <1>3 DEF IInv

\* A save, whatever becomes of it.
LEMMA SaveStep ==
  ASSUME IInv, NEW c \in Procs, NEW cc, CopyOK(cc, rows), Save(c, cc), UNCHANGED books
  PROVE  IInv'
<1>1. rows' = rows /\ wallet' = wallet /\ endings' = endings
  BY DEF books
<1>2. BooksOK'
  BY <1>1 DEF IInv, BooksOK
<1>3. CopyOK(copy[c], rows) /\ copy[c].room \in Rooms /\ copy[c].lead \in Int
  BY DEF IInv, RoomsOK, CopyOK, Copies
<1>4. CASE /\ snapshot' = [stored |-> TRUE, by |-> copy[c].life, room |-> copy[c].room]
           /\ copy' = [Behind(c) EXCEPT ![c] = [cc EXCEPT !.lead = 0, !.dirty = FALSE]]
  <2>1. snapshot'.room \in Rooms /\ Counted(snapshot'.room, rows)
    BY <1>3, <1>4 DEF CopyOK
  <2>0. 0 \in Int /\ TRUE \in BOOLEAN /\ FALSE \in BOOLEAN
    OBVIOUS
  <2>2. CopyOK([cc EXCEPT !.lead = 0, !.dirty = FALSE], rows)
    <3>1. cc \in Copies
      BY DEF CopyOK
    <3> DEFINE x == [cc EXCEPT !.lead = 0, !.dirty = FALSE]
    <3>2. x \in Copies /\ x.room = cc.room /\ x.request = cc.request
      BY Zenon, <3>1, <2>0, Saved
    <3> HIDE DEF x
    <3>3. CopyOK(x, rows)
      BY <3>2, SameRoom
    <3> QED BY <3>3 DEF x
  <2>3. ASSUME NEW p \in Procs
        PROVE  CopyOK(Behind(c)[p], rows)
    <3>1. CopyOK(copy[p], rows)
      BY DEF IInv, RoomsOK
    <3>2. \/ Behind(c)[p] = copy[p]
          \/ \E n \in Int : Behind(c)[p] = [copy[p] EXCEPT !.lead = n]
      <4> DEFINE n == copy[p].lead - (copy[c].lead + 1)
                 less == IF n < -1 - MaxFails THEN -1 - MaxFails ELSE n
      <4>1. less \in Int
        BY <3>1, <1>3, LiveAssumption DEF CopyOK, Copies
      <4>2. Behind(c)[p] = IF copy[p].state = "up" THEN [copy[p] EXCEPT !.lead = less]
                           ELSE copy[p]
        BY DEF Behind
      <4> HIDE DEF less
      <4> QED BY <4>1, <4>2
    <3>3. ASSUME NEW n \in Int
          PROVE  CopyOK([copy[p] EXCEPT !.lead = n], rows)
      <4> DEFINE x == [copy[p] EXCEPT !.lead = n]
      <4>1. x \in Copies /\ x.room = copy[p].room /\ x.request = copy[p].request
        BY <3>1 DEF CopyOK, Copies
      <4> HIDE DEF x
      <4>2. CopyOK(x, rows)
        BY <3>1, <4>1, SameRoom
      <4> QED BY <4>2 DEF x
    <3> QED BY <3>1, <3>2, <3>3
  <2>4. \A p \in Procs : CopyOK(copy'[p], rows)
    <3>1. \A p \in Procs : copy'[p] = IF p = c THEN [cc EXCEPT !.lead = 0, !.dirty = FALSE]
                                      ELSE Behind(c)[p]
      BY <1>4 DEF Behind
    <3> QED BY <3>1, <2>2, <2>3
  <2>5. copy' = [p \in Procs |-> copy'[p]]
    BY <1>4 DEF Behind
  <2> QED BY <1>1, <1>2, <2>1, <2>4, <2>5 DEF IInv, RoomsOK
<1>5. CASE copy' = [copy EXCEPT ![c] = Fence(cc)] /\ snapshot' = snapshot
  <2>0. 0 \in Int /\ TRUE \in BOOLEAN /\ FALSE \in BOOLEAN
    OBVIOUS
  <2>1. CopyOK(Fence(cc), rows)
    <3>1. cc \in Copies /\ NoRoom \in Rooms /\ Counted(NoRoom, rows)
      BY Fresh DEF CopyOK
    <3>2. /\ Fence(cc) \in Copies /\ Fence(cc).room = NoRoom
          /\ Fence(cc).request = cc.request
      <4>1. Fence(cc) = [cc EXCEPT !.fenced = TRUE, !.dirty = FALSE, !.room = NoRoom, !.lead = 0]
        BY DEF Fence
      <4> DEFINE x == [cc EXCEPT !.fenced = TRUE, !.dirty = FALSE, !.room = NoRoom, !.lead = 0]
      <4>2. x \in Copies
        <5>1. \A b \in Rooms, n \in Int :
                 [cc EXCEPT !.fenced = TRUE, !.dirty = FALSE, !.room = b, !.lead = n] \in Copies
          BY <3>1, Fenced
        <5> QED BY <2>0, <3>1, <5>1, Zenon
      <4>3. x.room = NoRoom
        BY <3>1 DEF Copies
      <4>4. x.request = cc.request
        BY <3>1 DEF Copies
      <4> HIDE DEF x
      <4> QED BY <4>1, <4>2, <4>3, <4>4 DEF x
    <3> QED BY <3>1, <3>2 DEF CopyOK
  <2> QED BY <1>5, <2>1, QuietStep
<1>6. CASE /\ copy' = [copy EXCEPT ![c] = [cc EXCEPT !.lead = copy[c].lead + 1]]
           /\ snapshot' = snapshot
  <2> DEFINE x == [cc EXCEPT !.lead = copy[c].lead + 1]
  <2>1. x \in Copies /\ x.room = cc.room /\ x.request = cc.request
    BY <1>3 DEF CopyOK, Copies
  <2>2. copy' = [copy EXCEPT ![c] = x]
    BY <1>6
  <2> HIDE DEF x
  <2>3. CopyOK(x, rows)
    BY <2>1 DEF CopyOK
  <2> QED BY <1>6, <2>2, <2>3, QuietStep
<1> QED BY <1>4, <1>5, <1>6 DEF Save

-----------------------------------------------------------------------------
(* The initial states and the steps, one by one *)

\* The hand starts dealt, with nothing written and no settlement.
LEMMA InitOK == Init => IInv
<1> SUFFICES ASSUME Init PROVE IInv
  OBVIOUS
<1>1. /\ wallet = [u \in Users |-> Purse] /\ endings = 0
      /\ rows = [k \in Kinds |-> [u \in Users |-> NoRow]]
      /\ snapshot.room = Dealt
  BY DEF Init
<1>2. BooksOK
  <2>1. wallet \in [Users -> Nat] /\ rows \in Books /\ endings \in Nat
    BY <1>1, LiveAssumption DEF Books
  <2>2. RowsBounded(rows) /\ Banked(wallet, rows)
    BY <1>1, LiveAssumption DEF RowsBounded, Banked, Written, Kinds
  <2>3. SumOver(wallet, Users) <= Purse * Cardinality(Users)
    <3>1. \A u \in Users : wallet[u] = Purse
      BY <1>1
    <3>2. SumOver(wallet, Users) = Purse * Cardinality(Users)
      BY <3>1, SumConstant, LiveAssumption
    <3>3. Purse * Cardinality(Users) \in Int
      BY FS_CardinalityType, LiveAssumption
    <3> QED BY <3>2, <3>3
  <2> QED BY <2>1, <2>2, <2>3 DEF BooksOK
<1>3. RoomsOK
  <2>1. PICK p \in Procs :
          copy = [q \in Procs |-> IF q = p THEN [Down EXCEPT !.state = "up", !.room = Dealt]
                                  ELSE Down]
    BY DEF Init
  <2> DEFINE x == [Down EXCEPT !.state = "up", !.room = Dealt]
  <2>2. x \in Copies /\ x.room = Dealt /\ x.request = NoRequest
    BY Fresh DEF CopyOK, Copies, Down
  <2>3. \A q \in Procs : copy[q] = IF q = p THEN x ELSE Down
    BY <2>1
  <2>4. copy = [q \in Procs |-> copy[q]]
    BY <2>1
  <2> HIDE DEF x
  <2>5. CopyOK(x, rows)
    BY <2>2, Fresh DEF CopyOK
  <2> QED BY <1>1, <2>3, <2>4, <2>5, Fresh DEF RoomsOK
<1> QED BY <1>2, <1>3 DEF IInv

\* A bet costs its player one chip more, and writes nothing.
LEMMA BetStep ==
  ASSUME IInv, NEW c \in Procs, NEW u \in Users, Bet(c, u)
  PROVE  IInv'
<1> DEFINE b == copy[c].room
           after == [b EXCEPT !.paid[u] = @ + 1]
<1>1. CopyOK(copy[c], rows) /\ b \in Rooms /\ Counted(b, rows)
  BY DEF IInv, RoomsOK, CopyOK, Copies
<1>2. b.paid[u] \in 0 .. Purse /\ b.paid[u] < Purse
  BY <1>1 DEF Rooms, Bet
<1>3. b.paid[u] + 1 \in 0 .. Purse
  BY <1>2, LiveAssumption
<1>4. after \in Rooms /\ after.written = b.written /\ after.status = b.status
  BY <1>1, <1>3 DEF Rooms
<1>5. copy' = [copy EXCEPT ![c] = Changed(c, after)] /\ snapshot' = snapshot
      /\ UNCHANGED books
  BY DEF Bet
<1> HIDE DEF after
<1>6. Counted(after, rows)
  BY <1>1, <1>4 DEF Counted
<1>7. CopyOK(Changed(c, after), rows)
  BY <1>1, <1>4, <1>6, ChangedOK
<1> QED BY <1>5, <1>7, QuietStep

\* A room whose player u stops playing counts as right as before.
LEMMA StopsPlaying ==
  ASSUME NEW b \in Rooms, NEW rw, Counted(b, rw), NEW u \in Users, NEW s \in Written
  PROVE  LET after == [b EXCEPT !.status[u] = s]
         IN  /\ after \in Rooms /\ Counted(after, rw) /\ after.status[u] # "active"
             /\ after.written = b.written
             /\ b.status[u] = "active" => after.written[u] = 0
<1> DEFINE after == [b EXCEPT !.status[u] = s]
<1>1. after \in Rooms /\ after.written = b.written /\ after.status[u] = s
      /\ \A v \in Users : v # u => after.status[v] = b.status[v]
  BY DEF Rooms, Statuses, Written
<1>2. s # "active"
  BY DEF Written
<1> HIDE DEF after
<1>3. Counted(after, rw)
  BY <1>1, <1>2 DEF Counted
<1>4. b.status[u] = "active" => after.written[u] = 0
  BY <1>1 DEF Counted
<1> QED BY <1>1, <1>2, <1>3, <1>4 DEF after

\* A pack writes what the player put in (Table.pack, its checkpoint) and keeps
\* the invariant.
LEMMA PackStep ==
  ASSUME IInv, NEW c \in Procs, NEW u \in Users, Pack(c, u)
  PROVE  IInv'
<1> DEFINE b == copy[c].room
           after == [b EXCEPT !.status[u] = "packed"]
<1>1. b \in Rooms /\ Counted(b, rows) /\ b.status[u] = "active"
  BY DEF IInv, RoomsOK, CopyOK, Copies, Pack, Active
<1>2. "packed" \in Written
  BY DEF Written
<1>3. after \in Rooms /\ Counted(after, rows) /\ after.status[u] # "active"
      /\ after.written[u] = 0
  BY <1>1, <1>2, StopsPlaying
<1>4. Checkpoint(c, after, "packed", u) /\ snapshot' = snapshot
  BY DEF Pack
<1> HIDE DEF after
<1> QED BY <1>2, <1>3, <1>4, CheckpointStep

\* A departure writes what the player put in (Table.removePlayer) and keeps
\* the invariant.
LEMMA LeaveStep ==
  ASSUME IInv, NEW c \in Procs, NEW u \in Users, Leave(c, u)
  PROVE  IInv'
<1> DEFINE b == copy[c].room
           after == [b EXCEPT !.status[u] = "left"]
<1>1. CopyOK(copy[c], rows) /\ b \in Rooms /\ Counted(b, rows)
  BY DEF IInv, RoomsOK, CopyOK, Copies
<1>2. "left" \in Written
  BY DEF Written
<1>3. after \in Rooms /\ Counted(after, rows) /\ after.status[u] # "active"
      /\ (b.status[u] = "active" => after.written[u] = 0)
  BY <1>1, <1>2, StopsPlaying
<1>4. CASE b.live /\ b.status[u] = "active"
  <2>1. Checkpoint(c, after, "left", u) /\ snapshot' = snapshot
    BY <1>4 DEF Leave
  <2> HIDE DEF after
  <2> QED BY <1>2, <1>3, <1>4, <2>1, CheckpointStep
<1>5. CASE ~(b.live /\ b.status[u] = "active")
  <2>1. copy' = [copy EXCEPT ![c] = Changed(c, after)] /\ snapshot' = snapshot
        /\ UNCHANGED books
    BY <1>5 DEF Leave
  <2> HIDE DEF after
  <2>2. CopyOK(Changed(c, after), rows)
    BY <1>1, <1>3, ChangedOK
  <2> QED BY <2>1, <2>2, QuietStep
<1> QED BY <1>4, <1>5

\* A retry of a chain's settlement.
LEMMA RetryStep ==
  ASSUME IInv, NEW c \in Procs, RetrySettle(c)
  PROVE  IInv'
<1> DEFINE req == copy[c].request
           done == [copy[c] EXCEPT !.request = NoRequest]
           again == [copy[c] EXCEPT !.request = [req EXCEPT !.attempt = @ + 1]]
<1>1. CopyOK(copy[c], rows) /\ copy[c] \in Copies /\ req \in Requests
      /\ Counted(copy[c].room, rows)
  BY DEF IInv, RoomsOK, CopyOK, Copies
<1>2. req.attempt > 0 /\ snapshot' = snapshot
  BY DEF RetrySettle
<1>3. Backed(req, rows)
  BY <1>1, <1>2 DEF CopyOK
<1>4. CopyOK(done, rows)
  <2>1. done \in Copies /\ done.room = copy[c].room /\ done.request = NoRequest
    BY <1>1, Fresh DEF Copies
  <2> HIDE DEF done
  <2> QED BY <1>1, <2>1, Fresh DEF CopyOK
<1>5. CopyOK(again, rows)
  <2> DEFINE r == [req EXCEPT !.attempt = @ + 1]
  <2>1. r \in Requests /\ r.delta = req.delta
    BY <1>1 DEF Requests
  <2> HIDE DEF r
  <2>2. [copy[c] EXCEPT !.request = r] \in Copies
        /\ [copy[c] EXCEPT !.request = r].room = copy[c].room
        /\ [copy[c] EXCEPT !.request = r].request = r
    BY <1>1, <2>1 DEF Copies
  <2>3. Backed(r, rows)
    BY <1>3, <2>1 DEF Backed
  <2>4. CopyOK([copy[c] EXCEPT !.request = r], rows)
    BY <1>1, <2>2, <2>3 DEF CopyOK
  <2> QED BY <2>4 DEF r
<1>6. CASE Settles(req) /\ copy' = [copy EXCEPT ![c] = done]
  <2> HIDE DEF done, req
  <2>1. BooksOK' /\ Grows(rows, rows')
    BY <1>3, <1>6, SettleStep DEF IInv
  <2>2. RoomsOK'
    BY <1>2, <1>4, <1>6, <2>1, CopyStays, OneCopy DEF IInv
  <2> QED BY <2>1, <2>2 DEF IInv
<1>7. CASE copy' = [copy EXCEPT ![c] = done] /\ UNCHANGED books
  BY <1>2, <1>4, <1>7, QuietStep
<1>8. CASE copy' = [copy EXCEPT ![c] = again] /\ UNCHANGED books
  BY <1>2, <1>5, <1>8, QuietStep
<1>9. \/ Settles(req) /\ copy' = [copy EXCEPT ![c] = done]
      \/ copy' = [copy EXCEPT ![c] = done] /\ UNCHANGED books
      \/ copy' = [copy EXCEPT ![c] = again] /\ UNCHANGED books
  BY DEF RetrySettle
<1> QED BY <1>6, <1>7, <1>8, <1>9

\* A room that is destroyed.
LEMMA GoneOK ==
  ASSUME NEW cc, NEW rw, CopyOK(cc, rw)
  PROVE  CopyOK(Gone(cc), rw)
<1>1. /\ Gone(cc) \in Copies /\ Gone(cc).room = NoRoom /\ Gone(cc).request = cc.request
  <2> DEFINE r == cc.request
  <2>1. r \in Requests /\ Down \in Copies /\ Down.room = NoRoom
    BY Fresh DEF CopyOK, Copies, Down
  <2> HIDE DEF r
  <2>2. ASSUME NEW d \in Copies
        PROVE  [d EXCEPT !.state = "destroyed", !.request = r] \in Copies
    BY <2>1 DEF Copies
  <2>3. ASSUME NEW d \in Copies
        PROVE  /\ [d EXCEPT !.state = "destroyed", !.request = r].room = d.room
               /\ [d EXCEPT !.state = "destroyed", !.request = r].request = r
    BY <2>1 DEF Copies
  <2>4. Gone(cc) = [Down EXCEPT !.state = "destroyed", !.request = r]
    BY Zenon DEF Gone, r
  <2>5. Gone(cc) \in Copies /\ Gone(cc).room = NoRoom /\ Gone(cc).request = r
    BY Zenon, <2>1, <2>2, <2>3, <2>4
  <2> QED BY <2>5 DEF r
<1>2. Counted(NoRoom, rw)
  BY Fresh
<1> QED BY <1>1, <1>2 DEF CopyOK

\* A restored room is the one that was saved last.
LEMMA RestoreStep ==
  ASSUME IInv, NEW c \in Procs, Restore(c), faults.lives \in 0 .. MaxLives
  PROVE  IInv'
<1> DEFINE l == MaxLives - faults.lives + 1
           cc == [Down EXCEPT !.state = "up", !.room = snapshot.room, !.life = l,
                              !.dirty = TRUE, !.phase = "flush"]
<1>1. snapshot.room \in Rooms /\ Counted(snapshot.room, rows)
  BY DEF IInv, RoomsOK
<1>2. l \in Nat
  <2>1. MaxLives \in Nat
    BY LiveAssumption
  <2> QED BY <2>1
<1>3. copy' = [copy EXCEPT ![c] = cc] /\ snapshot' = snapshot /\ UNCHANGED books
  BY DEF Restore, books
<1> HIDE DEF l
<1>4. CopyOK(cc, rows)
  <2>1. Down \in Copies /\ Down.request = NoRequest
    BY Fresh DEF CopyOK, Down
  <2>2. ASSUME NEW d \in Copies, NEW b \in Rooms
        PROVE  [d EXCEPT !.state = "up", !.room = b, !.life = l, !.dirty = TRUE,
                         !.phase = "flush"] \in Copies
    BY <1>2 DEF Copies
  <2>3. ASSUME NEW d \in Copies, NEW b \in Rooms
        PROVE  /\ [d EXCEPT !.state = "up", !.room = b, !.life = l, !.dirty = TRUE,
                            !.phase = "flush"].room = b
               /\ [d EXCEPT !.state = "up", !.room = b, !.life = l, !.dirty = TRUE,
                            !.phase = "flush"].request = d.request
    BY <1>2 DEF Copies
  <2>4. cc \in Copies /\ cc.room = snapshot.room /\ cc.request = NoRequest
    BY Zenon, <1>1, <2>1, <2>2, <2>3
  <2> HIDE DEF cc
  <2> QED BY <1>1, <2>4, Fresh DEF CopyOK
<1> HIDE DEF cc
<1> QED BY <1>3, <1>4, QuietStep

\* The bound that numbers the lives.
FaultsOK ==
    faults \in [lives : 0 .. MaxLives, fails : 0 .. MaxFails, refused : 0 .. MaxRefused]

\* The budget of faults is full at first ...
LEMMA FaultsInit == Init => FaultsOK
BY LiveAssumption DEF Init, FaultsOK

\* ... and every step spends at most what is left of it.
LEMMA FaultsStep == FaultsOK /\ [Next]_vars => FaultsOK'
<1> SUFFICES ASSUME FaultsOK, [Next]_vars PROVE FaultsOK'
  OBVIOUS
<1>1. faults' = faults => FaultsOK'
  BY DEF FaultsOK
<1>2. faults' = [faults EXCEPT !.refused = @ - 1] /\ faults.refused > 0 => FaultsOK'
  BY LiveAssumption DEF FaultsOK
<1>3. faults' = [faults EXCEPT !.fails = @ - 1] /\ faults.fails > 0 => FaultsOK'
  BY LiveAssumption DEF FaultsOK
<1>4. faults' = [faults EXCEPT !.lives = @ - 1] /\ faults.lives > 0 => FaultsOK'
  BY LiveAssumption DEF FaultsOK
<1>5. ASSUME NEW c \in Procs, NEW b, NEW k, NEW u, Checkpoint(c, b, k, u)
      PROVE  FaultsOK'
  BY <1>1, <1>2, <1>5 DEF Checkpoint
<1>6. ASSUME NEW c \in Procs, NEW w, NEW cc, EndHand(c, w, cc)
      PROVE  FaultsOK'
  BY <1>1, <1>2, <1>6 DEF EndHand
<1>7. ASSUME NEW c \in Procs, NEW cc, Save(c, cc)
      PROVE  FaultsOK'
  BY <1>1, <1>3, <1>7 DEF Save
<1>8. UNCHANGED vars => FaultsOK'
  BY <1>1 DEF vars
<1>9. ASSUME NEW c \in Procs, NEW u \in Users,
             Bet(c, u) \/ Pack(c, u) \/ Leave(c, u) \/ Showdown(c, u)
      PROVE  FaultsOK'
  BY <1>1, <1>5, <1>6, <1>9 DEF Bet, Pack, Leave, Showdown
<1>10. ASSUME NEW c \in Procs, EndsAlone(c) \/ RetrySettle(c) \/ Reconcile(c) \/ Flush(c)
                                \/ Suspend(c)
       PROVE  FaultsOK'
  BY <1>1, <1>2, <1>6, <1>7, <1>10 DEF EndsAlone, RetrySettle, Reconcile, Flush, Suspend
<1>11. ASSUME NEW c \in Procs, DestroyEmpty(c) \/ DestroyFenced(c) \/ Stop(c) \/ Restore(c)
       PROVE  FaultsOK'
  BY <1>1, <1>3, <1>4, <1>11 DEF DestroyEmpty, DestroyFenced, Stop, Restore
<1> QED BY <1>8, <1>9, <1>10, <1>11 DEF Next

\* Every step of every process keeps the inductive invariant.
LEMMA StepOK == IInv /\ FaultsOK /\ [Next]_vars => IInv'
<1> SUFFICES ASSUME IInv, FaultsOK, [Next]_vars PROVE IInv'
  OBVIOUS
<1>1. ASSUME UNCHANGED vars PROVE IInv'
  BY <1>1 DEF vars, IInv, BooksOK, RoomsOK
<1>2. ASSUME NEW c \in Procs, NEW u \in Users, Showdown(c, u) PROVE IInv'
  BY <1>2, EndHandStep DEF Showdown
<1>3. ASSUME NEW c \in Procs, EndsAlone(c) PROVE IInv'
  BY <1>3, EndHandStep DEF EndsAlone
<1>4. ASSUME NEW c \in Procs PROVE CopyOK(copy[c], rows) /\ copy[c] \in Copies
  BY DEF IInv, RoomsOK, CopyOK
<1>5. ASSUME NEW c \in Procs, Reconcile(c) PROVE IInv'
  <2> DEFINE x == [copy[c] EXCEPT !.dirty = TRUE, !.phase = "flush"]
  <2>1. x \in Copies /\ x.room = copy[c].room /\ x.request = copy[c].request
    BY <1>4 DEF Copies
  <2>2. copy' = [copy EXCEPT ![c] = x] /\ snapshot' = snapshot /\ UNCHANGED books
    BY <1>5 DEF Reconcile, books
  <2> HIDE DEF x
  <2>3. CopyOK(x, rows)
    BY <1>4, <2>1, SameRoom
  <2> QED BY <2>2, <2>3, QuietStep
<1>6. ASSUME NEW c \in Procs, Flush(c) PROVE IInv'
  <2> DEFINE x == [copy[c] EXCEPT !.phase = "idle"]
  <2>1. x \in Copies /\ x.room = copy[c].room /\ x.request = copy[c].request
    BY <1>4 DEF Copies
  <2>2. Save(c, x) /\ UNCHANGED books
    BY <1>6 DEF Flush
  <2> HIDE DEF x
  <2>3. CopyOK(x, rows)
    BY <1>4, <2>1, SameRoom
  <2> QED BY <2>2, <2>3, SaveStep
<1>7. ASSUME NEW c \in Procs, Suspend(c) PROVE IInv'
  BY <1>4, <1>7, GoneOK, SaveStep DEF Suspend
<1>8. ASSUME NEW c \in Procs, DestroyFenced(c) PROVE IInv'
  BY <1>4, <1>8, GoneOK, QuietStep DEF DestroyFenced, books
<1>9. ASSUME NEW c \in Procs, Stop(c) PROVE IInv'
  BY <1>9, Fresh, QuietStep DEF Stop, books
<1>10. ASSUME NEW c \in Procs, DestroyEmpty(c) PROVE IInv'
  <2>1. rows' = rows /\ wallet' = wallet /\ endings' = endings
    BY <1>10 DEF DestroyEmpty, books
  <2>2. BooksOK'
    BY <2>1 DEF IInv, BooksOK
  <2>3. snapshot'.room \in Rooms /\ Counted(snapshot'.room, rows)
    BY <1>10, Fresh DEF DestroyEmpty, IInv, RoomsOK
  <2>4. copy' = [copy EXCEPT ![c] = Gone(copy[c])]
    BY <1>10 DEF DestroyEmpty
  <2>5. \A p \in Procs : copy'[p] = IF p = c THEN Gone(copy[c]) ELSE copy[p]
    BY <2>4 DEF IInv, RoomsOK
  <2>6. \A p \in Procs : CopyOK(copy'[p], rows)
    BY <1>4, <2>5, GoneOK
  <2>7. copy' = [p \in Procs |-> copy'[p]]
    BY <2>4 DEF IInv, RoomsOK
  <2> QED BY <2>1, <2>2, <2>3, <2>6, <2>7 DEF IInv, RoomsOK
<1>11. ASSUME NEW c \in Procs, Restore(c) PROVE IInv'
  <2>1. faults.lives \in 0 .. MaxLives
    BY DEF FaultsOK
  <2> QED BY <1>11, <2>1, RestoreStep
<1> QED BY <1>1, <1>2, <1>3, <1>5, <1>6, <1>7, <1>8, <1>9, <1>10, <1>11,
           BetStep, PackStep, LeaveStep, RetryStep DEF Next

-----------------------------------------------------------------------------
(* What the ledger and the copies promise *)

\* The inductive invariant holds throughout.
THEOREM Inductive == Spec => [](IInv /\ FaultsOK)
<1>1. Init => IInv /\ FaultsOK
  BY InitOK, FaultsInit
<1>2. IInv /\ FaultsOK /\ [Next]_vars => (IInv /\ FaultsOK)'
  BY StepOK, FaultsStep
<1> QED BY <1>1, <1>2, PTL DEF Spec

\* Whatever is lost, replayed or played by two processes at once, a hand of which
\* one settlement has landed leaves its players no more chips than they brought:
\* Table.checkpoint, RequestOf and Ledger.Settle together.
THEOREM OneEndingPaysOnce == Spec => []OneEndingCreatesNoChips
<1>1. IInv => OneEndingCreatesNoChips
  BY DEF IInv, BooksOK, OneEndingCreatesNoChips, NeverCreatesChips, SumOver
<1> QED BY <1>1, Inductive, PTL

\* What a copy counts as written is what one checkpoint of the hand landed.
THEOREM WrittenIsLanded == Spec => []WrittenHasLanded
<1>1. IInv => WrittenHasLanded
  BY DEF IInv, RoomsOK, CopyOK, Counted, WrittenHasLanded, Landed, Written
<1> QED BY <1>1, Inductive, PTL

-----------------------------------------------------------------------------
(* The claim of a restored room *)

Up(c) == copy[c].state = "up"

\* Lives are numbered in the order of the restores; a copy that is fenced or not
\* up runs no closure; and, while no save has failed, of the copies whose next
\* number the store would take none is of an earlier life than the snapshot.
Lives(snap, left) ==
    /\ snap.by \in 0 .. MaxLives - left
    /\ \A c \in Procs : copy[c].life <= MaxLives - left
Resting == \A c \in Procs : copy[c].fenced \/ ~Up(c) => copy[c].phase = "idle"
Heirs ==
    /\ \A c \in Procs : Up(c) => copy[c].lead <= 0
    /\ snapshot.stored =>
         \A c \in Procs :
            Up(c) /\ ~copy[c].fenced /\ copy[c].lead >= 0 => snapshot.by <= copy[c].life
    /\ ~snapshot.stored => \A c, d \in Procs : Up(c) /\ Up(d) => c = d

ClaimInv ==
    /\ Lives(snapshot, faults.lives)
    /\ Resting
    /\ faults.fails = MaxFails => Heirs

\* A step of one copy that keeps its life and its number, or takes it down.
Keeps(c, cc) ==
    /\ copy' = [copy EXCEPT ![c] = cc]
    /\ snapshot' = snapshot /\ faults'.lives = faults.lives
    /\ cc.life \in Nat /\ cc.life <= copy[c].life
    /\ cc.fenced \/ cc.state # "up" => cc.phase = "idle"
    /\ cc.state = "up" => Up(c) /\ cc.life = copy[c].life
    /\ faults'.fails = MaxFails =>
         /\ faults.fails = MaxFails
         /\ \/ cc.lead = copy[c].lead /\ (copy[c].fenced => cc.fenced)
            \/ cc.lead = 0 /\ cc.fenced
            \/ cc.state # "up"

\* A step of one copy that leaves the snapshot alone keeps the claims of them
\* all.
LEMMA ClaimKept ==
  ASSUME IInv, FaultsOK, ClaimInv, NEW c \in Procs, NEW cc, Keeps(c, cc)
  PROVE  ClaimInv'
<1>1. \A p \in Procs : copy'[p] = IF p = c THEN cc ELSE copy[p]
  BY DEF IInv, RoomsOK, Keeps
<1>2. \A p \in Procs : copy[p].life \in Nat /\ copy[p].lead \in Int
  BY DEF IInv, RoomsOK, CopyOK, Copies
<1>3. faults.lives \in 0 .. MaxLives /\ MaxLives \in Nat
  BY LiveAssumption DEF FaultsOK
<1>4. Lives(snapshot, faults.lives)'
  BY <1>1, <1>2, <1>3 DEF ClaimInv, Lives, Keeps
<1>5. Resting'
  BY <1>1 DEF ClaimInv, Resting, Up, Keeps
<1>6. ASSUME faults'.fails = MaxFails PROVE Heirs'
  <2>1. Heirs
    BY <1>6 DEF ClaimInv, Keeps
  <2>2. \A p \in Procs : Up(p)' => Up(p)
    BY <1>1 DEF Up, Keeps
  <2>3. \A p \in Procs : Up(p)' => copy'[p].lead <= 0
    BY <1>1, <1>2, <1>6, <2>1 DEF Heirs, Up, Keeps
  <2>4. ASSUME snapshot'.stored, NEW p \in Procs,
               Up(p)', ~copy'[p].fenced, copy'[p].lead >= 0
        PROVE  snapshot'.by <= copy'[p].life
    BY <1>1, <1>2, <1>6, <2>1, <2>2, <2>4 DEF Heirs, Up, Keeps
  <2>5. ~snapshot'.stored => \A p, q \in Procs : Up(p)' /\ Up(q)' => p = q
    BY <2>1, <2>2 DEF Heirs, Keeps
  <2> QED BY <2>3, <2>4, <2>5 DEF Heirs
<1> QED BY <1>4, <1>5, <1>6 DEF ClaimInv

\* A number the store took: the copies it leaves above the snapshot are c's.
LEMMA ClaimTaken ==
  ASSUME IInv, FaultsOK, ClaimInv, NEW c \in Procs, NEW cc, CopyOK(cc, rows),
         Up(c), ~copy[c].fenced,
         cc.life <= copy[c].life, cc.phase = "idle",
         cc.state = "up" => cc.life = copy[c].life,
         Accepts(copy[c].lead),
         snapshot' = [stored |-> TRUE, by |-> copy[c].life, room |-> copy[c].room],
         copy' = [Behind(c) EXCEPT ![c] = [cc EXCEPT !.lead = 0, !.dirty = FALSE]],
         faults' = faults
  PROVE  ClaimInv' /\ (faults.fails = MaxFails /\ snapshot.stored => snapshot.by <= snapshot'.by)
<1> DEFINE x == [cc EXCEPT !.lead = 0, !.dirty = FALSE]
<1>1. \A p \in Procs : copy[p].life \in Nat /\ copy[p].lead \in Int
  BY DEF IInv, RoomsOK, CopyOK, Copies
<1>2. x.life = cc.life /\ x.phase = cc.phase /\ x.state = cc.state /\ x.lead = 0
  BY DEF CopyOK, Copies
<1>3. ASSUME NEW p \in Procs, p # c
      PROVE  /\ copy'[p].life = copy[p].life /\ copy'[p].phase = copy[p].phase
             /\ copy'[p].state = copy[p].state /\ copy'[p].fenced = copy[p].fenced
             /\ Up(p) /\ copy[p].lead <= 0 /\ copy[c].lead >= 0 => copy'[p].lead < 0
  <2> DEFINE n == copy[p].lead - (copy[c].lead + 1)
             less == IF n < -1 - MaxFails THEN -1 - MaxFails ELSE n
             b == [copy[p] EXCEPT !.lead = less]
  <2>1. copy'[p] = IF Up(p) THEN b ELSE copy[p]
    BY <1>3 DEF Behind, Up
  <2>2. copy[p].lead <= 0 /\ copy[c].lead >= 0 => less < 0
    BY <1>1, LiveAssumption
  <2>3. copy[p] \in Copies
    BY DEF IInv, RoomsOK, CopyOK
  <2> HIDE DEF less
  <2>4. /\ b.life = copy[p].life /\ b.phase = copy[p].phase /\ b.state = copy[p].state
        /\ b.fenced = copy[p].fenced /\ b.lead = less
    BY <2>3 DEF Copies
  <2> HIDE DEF b
  <2> QED BY <2>1, <2>2, <2>4
<1>4. copy'[c] = x
  BY DEF Behind
<1> HIDE DEF x
<1>5. faults.lives \in 0 .. MaxLives /\ MaxLives \in Nat
  BY LiveAssumption DEF FaultsOK
<1>6. Lives(snapshot, faults.lives)'
  <2>1. copy[c].life \in 0 .. MaxLives - faults.lives
    BY <1>1, <1>5 DEF ClaimInv, Lives
  <2>2. \A p \in Procs : copy'[p].life <= MaxLives - faults.lives
    <3>1. copy'[c].life <= copy[c].life /\ copy'[c].life \in Nat
      BY <1>2, <1>4 DEF CopyOK, Copies
    <3> QED BY <1>1, <1>3, <1>5, <3>1 DEF ClaimInv, Lives
  <2> QED BY <2>1, <2>2 DEF Lives
<1>7. Resting'
  BY <1>2, <1>3, <1>4 DEF ClaimInv, Resting, Up
<1>8. ASSUME faults.fails = MaxFails
      PROVE  Heirs' /\ (snapshot.stored => snapshot.by <= snapshot'.by)
  <2>1. Heirs
    BY <1>8 DEF ClaimInv
  <2>2. snapshot.stored => copy[c].lead >= 0 /\ snapshot.by <= copy[c].life
    BY <1>1, <2>1 DEF Heirs, Accepts
  <2>3. ASSUME NEW p \in Procs, p # c, Up(p)'
        PROVE  copy'[p].lead < 0
    <3>1. Up(p)
      BY <1>3, <2>3 DEF Up
    <3>2. snapshot.stored
      BY <2>1, <2>3, <3>1 DEF Heirs
    <3> QED BY <1>3, <2>1, <2>2, <2>3, <3>1, <3>2 DEF Heirs
  <2>4. copy'[c].lead = 0 /\ (Up(c)' => copy'[c].life = copy[c].life)
    BY <1>2, <1>4 DEF Up
  <2>5. snapshot'.stored /\ snapshot'.by = copy[c].life
    OBVIOUS
  <2>6. \A p \in Procs : Up(p)' => copy'[p].lead <= 0 /\ copy'[p].lead \in Int
    <3>1. \A p \in Procs : p # c /\ Up(p)' => copy'[p].lead \in Int
      <4>1. ASSUME NEW p \in Procs, p # c, Up(p)' PROVE copy'[p].lead \in Int
        <5> DEFINE n == copy[p].lead - (copy[c].lead + 1)
                   less == IF n < -1 - MaxFails THEN -1 - MaxFails ELSE n
        <5>1. copy'[p] = [copy[p] EXCEPT !.lead = less]
          BY <1>3, <4>1 DEF Behind, Up
        <5>2. copy[p] \in Copies /\ less \in Int
          BY <1>1, LiveAssumption DEF IInv, RoomsOK, CopyOK
        <5> HIDE DEF less
        <5> QED BY <5>1, <5>2 DEF Copies
      <4> QED BY <4>1
    <3> QED BY <2>3, <2>4, <3>1
  <2>7. \A p \in Procs : Up(p)' /\ copy'[p].lead >= 0 => p = c
    BY <2>3, <2>6
  <2>8. snapshot'.by <= copy[c].life
    BY <1>1, <2>5
  <2> QED BY <2>2, <2>4, <2>5, <2>6, <2>7, <2>8 DEF Heirs
<1> QED BY <1>6, <1>7, <1>8 DEF ClaimInv

\* There are at most two processes.
Pair == \A p, q, r \in Procs : p = q \/ q = r \/ p = r

\* A room emptied and its snapshot deleted: the other process is alone with it.
LEMMA ClaimDeleted ==
  ASSUME IInv, FaultsOK, ClaimInv, Pair, NEW c \in Procs, NEW cc,
         cc.state = "destroyed", cc.life = 0, cc.phase = "idle",
         copy' = [copy EXCEPT ![c] = cc],
         snapshot' = [stored |-> FALSE, by |-> 0, room |-> NoRoom], faults' = faults
  PROVE  ClaimInv'
<1>1. \A p \in Procs : copy'[p] = IF p = c THEN cc ELSE copy[p]
  BY DEF IInv, RoomsOK
<1>2. \A p \in Procs : Up(p)' => p # c /\ Up(p)
  BY <1>1 DEF Up
<1>3. faults.lives \in 0 .. MaxLives /\ MaxLives \in Nat
  BY LiveAssumption DEF FaultsOK
<1>4. Lives(snapshot, faults.lives)'
  BY <1>1, <1>3 DEF ClaimInv, Lives
<1>5. Resting'
  BY <1>1 DEF ClaimInv, Resting, Up
<1>6. ASSUME faults.fails = MaxFails PROVE Heirs'
  <2>1. Heirs
    BY <1>6 DEF ClaimInv
  <2>2. \A p \in Procs : Up(p)' => copy'[p].lead <= 0
    BY <1>1, <1>2, <2>1 DEF Heirs
  <2>3. \A p, q \in Procs : Up(p)' /\ Up(q)' => p = q
    BY <1>2 DEF Pair
  <2> QED BY <2>2, <2>3 DEF Heirs
<1> QED BY <1>4, <1>5, <1>6 DEF ClaimInv

\* A restore: the new life is above every other and above the snapshot's.
LEMMA ClaimRestored ==
  ASSUME IInv, FaultsOK, ClaimInv, NEW c \in Procs, Restore(c)
  PROVE  ClaimInv'
<1> DEFINE l == MaxLives - faults.lives + 1
           b == snapshot.room
           cc == [Down EXCEPT !.state = "up", !.room = b, !.life = l,
                              !.dirty = TRUE, !.phase = "flush"]
<1>1. /\ copy' = [copy EXCEPT ![c] = cc] /\ snapshot' = snapshot /\ snapshot.stored
      /\ faults' = [faults EXCEPT !.lives = @ - 1] /\ faults.lives > 0
  BY DEF Restore
<1>2. cc.life = l /\ cc.fenced = FALSE /\ cc.state = "up" /\ cc.lead = 0
  BY DEF Down
<1>3. faults.lives \in 0 .. MaxLives /\ MaxLives \in Nat
  BY LiveAssumption DEF FaultsOK
<1>4. faults'.lives = faults.lives - 1 /\ faults'.fails = faults.fails
  BY <1>1 DEF FaultsOK
<1> HIDE DEF cc
<1>5. \A p \in Procs : copy'[p] = IF p = c THEN cc ELSE copy[p]
  BY <1>1 DEF IInv, RoomsOK
<1>6. \A p \in Procs : copy[p].life \in Nat /\ copy[p].lead \in Int
  BY DEF IInv, RoomsOK, CopyOK, Copies
<1>7. Lives(snapshot, faults.lives)'
  BY <1>1, <1>2, <1>3, <1>4, <1>5, <1>6 DEF ClaimInv, Lives
<1>8. Resting'
  BY <1>2, <1>5 DEF ClaimInv, Resting, Up
<1>9. ASSUME faults'.fails = MaxFails PROVE Heirs'
  <2>1. Heirs
    BY <1>4, <1>9 DEF ClaimInv
  <2>2. snapshot.by <= l
    BY <1>3 DEF ClaimInv, Lives
  <2> HIDE DEF l
  <2> QED BY <1>1, <1>2, <1>5, <2>1, <2>2 DEF Heirs, Up
<1> QED BY <1>7, <1>8, <1>9 DEF ClaimInv

\* A closure that runs: the copy keeps its life and its number.
LEMMA ClaimClosure ==
  ASSUME IInv, FaultsOK, ClaimInv, NEW c \in Procs, Up(c), ~copy[c].fenced, NEW cc,
         copy' = [copy EXCEPT ![c] = cc],
         cc.state = copy[c].state, cc.life = copy[c].life, cc.fenced = copy[c].fenced,
         cc.lead = copy[c].lead, snapshot' = snapshot,
         \/ faults' = faults
         \/ faults' = [faults EXCEPT !.refused = @ - 1]
  PROVE  ClaimInv'
<1>1. faults'.lives = faults.lives /\ faults'.fails = faults.fails
  BY DEF FaultsOK
<1>2. copy[c].life \in Nat
  BY DEF IInv, RoomsOK, CopyOK, Copies
<1>3. Keeps(c, cc)
  BY <1>1, <1>2 DEF Keeps, Up
<1> QED BY <1>3, ClaimKept

\* A checkpoint, whatever its answer.
LEMMA ClaimCheckpoint ==
  ASSUME IInv, FaultsOK, ClaimInv, NEW c \in Procs, Up(c), ~copy[c].fenced,
         NEW b, NEW k, NEW u, Checkpoint(c, b, k, u), snapshot' = snapshot
  PROVE  ClaimInv'
<1>1. ASSUME NEW a
      PROVE  LET x == Changed(c, a)
             IN  /\ x.state = copy[c].state /\ x.life = copy[c].life
                 /\ x.fenced = copy[c].fenced /\ x.lead = copy[c].lead
  BY DEF Changed, IInv, RoomsOK, CopyOK, Copies
<1>2. \E a : copy' = [copy EXCEPT ![c] = Changed(c, a)]
  BY DEF Checkpoint
<1>3. faults' = faults \/ faults' = [faults EXCEPT !.refused = @ - 1]
  BY DEF Checkpoint
<1> QED BY <1>1, <1>2, <1>3, ClaimClosure

\* A hand end, landed or refused.
LEMMA ClaimEndHand ==
  ASSUME IInv, FaultsOK, ClaimInv, NEW c \in Procs, Up(c), ~copy[c].fenced,
         NEW w, EndHand(c, w, [copy[c] EXCEPT !.phase = "flush"]), snapshot' = snapshot
  PROVE  ClaimInv'
<1> DEFINE r == [NoRoom EXCEPT !.status = copy[c].room.status]
           q == [RequestOf(copy[c].room, w) EXCEPT !.attempt = 1]
           cc == [copy[c] EXCEPT !.phase = "flush"]
           over == [cc EXCEPT !.room = r, !.dirty = TRUE]
           held == [over EXCEPT !.request = q]
<1>1. copy[c] \in Copies
  BY DEF IInv, RoomsOK, CopyOK
<1>2. \/ copy' = [copy EXCEPT ![c] = over] /\ faults' = faults
      \/ copy' = [copy EXCEPT ![c] = held] /\ faults' = [faults EXCEPT !.refused = @ - 1]
  BY DEF EndHand
<1> HIDE DEF r, q
<1>3. /\ over.state = copy[c].state /\ over.life = copy[c].life
      /\ over.fenced = copy[c].fenced /\ over.lead = copy[c].lead
  BY <1>1 DEF Copies
<1>4. /\ held.state = copy[c].state /\ held.life = copy[c].life
      /\ held.fenced = copy[c].fenced /\ held.lead = copy[c].lead
  BY <1>1 DEF Copies
<1> HIDE DEF over, held
<1> QED BY <1>2, <1>3, <1>4, ClaimClosure

\* A save, and the room's end with one.
LEMMA ClaimSave ==
  ASSUME IInv, FaultsOK, ClaimInv, NEW c \in Procs, Up(c), ~copy[c].fenced,
         NEW cc, CopyOK(cc, rows), cc.phase = "idle", cc.life <= copy[c].life,
         cc.state = "up" => cc.life = copy[c].life, Save(c, cc)
  PROVE  /\ ClaimInv'
         /\ faults.fails = MaxFails /\ snapshot.stored => snapshot.by <= snapshot'.by
<1>1. cc \in Copies /\ cc.life \in Nat
  BY DEF CopyOK, Copies
<1>2. snapshot.by \in Int
  BY LiveAssumption DEF ClaimInv, Lives, FaultsOK
<1>3. CASE /\ Accepts(copy[c].lead)
           /\ snapshot' = [stored |-> TRUE, by |-> copy[c].life, room |-> copy[c].room]
           /\ copy' = [Behind(c) EXCEPT ![c] = [cc EXCEPT !.lead = 0, !.dirty = FALSE]]
           /\ UNCHANGED faults
  BY <1>3, ClaimTaken
<1>4. CASE copy' = [copy EXCEPT ![c] = Fence(cc)] /\ UNCHANGED <<snapshot, faults>>
  <2> DEFINE x == Fence(cc)
  <2>1. /\ x.life = cc.life /\ x.phase = cc.phase /\ x.state = cc.state
        /\ x.lead = 0 /\ x.fenced = TRUE
    BY <1>1 DEF Fence, Copies
  <2>2. copy' = [copy EXCEPT ![c] = x]
    BY <1>4
  <2> HIDE DEF x
  <2>3. Keeps(c, x)
    BY <1>1, <1>4, <2>1, <2>2 DEF Keeps
  <2>4. ClaimInv'
    BY <2>3, ClaimKept
  <2> QED BY <1>2, <1>4, <2>4
<1>5. CASE /\ faults.fails > 0
           /\ faults' = [faults EXCEPT !.fails = @ - 1]
           /\ copy' = [copy EXCEPT ![c] = [cc EXCEPT !.lead = copy[c].lead + 1]]
           /\ UNCHANGED snapshot
  <2> DEFINE x == [cc EXCEPT !.lead = copy[c].lead + 1]
  <2>1. x.life = cc.life /\ x.phase = cc.phase /\ x.state = cc.state
    BY <1>1 DEF Copies
  <2>2. copy' = [copy EXCEPT ![c] = x]
    BY <1>5
  <2>3. faults'.lives = faults.lives /\ faults'.fails # MaxFails
    BY <1>5, LiveAssumption DEF FaultsOK
  <2> HIDE DEF x
  <2>4. Keeps(c, x)
    BY <1>1, <1>5, <2>1, <2>2, <2>3 DEF Keeps
  <2>5. ClaimInv'
    BY <2>4, ClaimKept
  <2> QED BY <1>2, <1>5, <2>5
<1> QED BY <1>3, <1>4, <1>5 DEF Save

\* At first one process owns the room, and nothing was restored.
LEMMA ClaimInit == Init => ClaimInv
<1> SUFFICES ASSUME Init PROVE ClaimInv
  OBVIOUS
<1>1. PICK p \in Procs :
        copy = [q \in Procs |-> IF q = p THEN [Down EXCEPT !.state = "up", !.room = Dealt]
                                ELSE Down]
  BY DEF Init
<1>2. \A q \in Procs : /\ copy[q].life = 0 /\ copy[q].fenced = FALSE
                       /\ copy[q].phase = "idle" /\ copy[q].lead = 0
  BY <1>1 DEF Down
<1>3. snapshot.by = 0 /\ snapshot.stored /\ faults.lives = MaxLives
  BY DEF Init
<1> QED BY <1>2, <1>3, LiveAssumption DEF ClaimInv, Lives, Resting, Heirs

\* The steps, and what each does to the snapshot.
LEMMA ClaimStep ==
  ASSUME IInv, FaultsOK, ClaimInv, [Next]_vars, snapshot'.stored \/ Pair
  PROVE  /\ ClaimInv'
         /\ snapshot.stored /\ snapshot'.stored /\ faults.fails = MaxFails
              => snapshot'.by >= snapshot.by
<1> DEFINE Holds == snapshot.stored /\ snapshot'.stored /\ faults.fails = MaxFails
                      => snapshot'.by >= snapshot.by
<1>1. snapshot.by \in Int
  BY LiveAssumption DEF ClaimInv, Lives, FaultsOK
<1>2. snapshot' = snapshot => Holds
  BY <1>1
<1>3. ASSUME NEW c \in Procs PROVE CopyOK(copy[c], rows) /\ copy[c] \in Copies
  BY DEF IInv, RoomsOK, CopyOK
<1> HIDE DEF Holds
<1>4. ASSUME UNCHANGED vars PROVE ClaimInv' /\ Holds
  <2>1. ClaimInv'
    BY <1>4 DEF vars, ClaimInv, Lives, Resting, Heirs, Up
  <2> QED BY <1>2, <1>4, <2>1 DEF vars, Holds
<1>5. ASSUME NEW c \in Procs, NEW u \in Users,
             Bet(c, u) \/ Pack(c, u) \/ Leave(c, u) \/ Showdown(c, u)
      PROVE  ClaimInv' /\ Holds
  <2>1. Up(c) /\ ~copy[c].fenced /\ snapshot' = snapshot
    BY <1>5 DEF Bet, Pack, Leave, Showdown, Plays, Runs, Idle, Up
  <2>2. ASSUME NEW a, copy' = [copy EXCEPT ![c] = Changed(c, a)], faults' = faults
        PROVE  ClaimInv'
    <3>1. LET x == Changed(c, a)
          IN  /\ x.state = copy[c].state /\ x.life = copy[c].life
              /\ x.fenced = copy[c].fenced /\ x.lead = copy[c].lead
      BY <1>3 DEF Changed, Copies
    <3> QED BY <2>1, <2>2, <3>1, ClaimClosure
  <2>3. Bet(c, u) => ClaimInv'
    BY <2>2 DEF Bet
  <2>4. Pack(c, u) => ClaimInv'
    BY <2>1, ClaimCheckpoint DEF Pack
  <2>5. Leave(c, u) => ClaimInv'
    BY <2>1, <2>2, ClaimCheckpoint DEF Leave
  <2>6. Showdown(c, u) => ClaimInv'
    BY <2>1, ClaimEndHand DEF Showdown
  <2> QED BY <1>2, <1>5, <2>1, <2>3, <2>4, <2>5, <2>6
<1>6. ASSUME NEW c \in Procs, EndsAlone(c) PROVE ClaimInv' /\ Holds
  <2>1. Up(c) /\ ~copy[c].fenced /\ snapshot' = snapshot
    BY <1>3, <1>6 DEF EndsAlone, ClaimInv, Resting, Copies
  <2>2. ClaimInv'
    BY <1>6, <2>1, ClaimEndHand DEF EndsAlone
  <2> QED BY <1>2, <2>1, <2>2
<1>7. ASSUME NEW c \in Procs, RetrySettle(c) PROVE ClaimInv' /\ Holds
  <2>1. \E r : copy' = [copy EXCEPT ![c] = [copy[c] EXCEPT !.request = r]]
    BY <1>7 DEF RetrySettle
  <2>2. PICK r : copy' = [copy EXCEPT ![c] = [copy[c] EXCEPT !.request = r]]
    BY <2>1
  <2> DEFINE x == [copy[c] EXCEPT !.request = r]
  <2>3. /\ x.state = copy[c].state /\ x.life = copy[c].life /\ x.phase = copy[c].phase
        /\ x.fenced = copy[c].fenced /\ x.lead = copy[c].lead /\ copy[c].life \in Nat
    BY <1>3 DEF Copies
  <2>4. faults' = faults \/ faults' = [faults EXCEPT !.refused = @ - 1]
    BY <1>7 DEF RetrySettle
  <2>5. faults'.lives = faults.lives /\ faults'.fails = faults.fails
    BY <2>4 DEF FaultsOK
  <2>6. copy[c].phase = "idle" /\ snapshot' = snapshot
    BY <1>7 DEF RetrySettle
  <2>7. copy' = [copy EXCEPT ![c] = x]
    BY <2>2
  <2> HIDE DEF x
  <2>8. Keeps(c, x)
    BY <2>3, <2>5, <2>6, <2>7 DEF Keeps, Up
  <2>9. ClaimInv'
    BY <2>8, ClaimKept
  <2> QED BY <1>2, <2>6, <2>9
<1>8. ASSUME NEW c \in Procs, Reconcile(c) PROVE ClaimInv' /\ Holds
  <2> DEFINE x == [copy[c] EXCEPT !.dirty = TRUE, !.phase = "flush"]
  <2>1. /\ x.state = copy[c].state /\ x.life = copy[c].life
        /\ x.fenced = copy[c].fenced /\ x.lead = copy[c].lead
    BY <1>3 DEF Copies
  <2>2. /\ copy' = [copy EXCEPT ![c] = x] /\ snapshot' = snapshot /\ faults' = faults
        /\ Up(c) /\ ~copy[c].fenced
    BY <1>8 DEF Reconcile, Runs, Idle, Up
  <2> HIDE DEF x
  <2>3. ClaimInv'
    BY <2>1, <2>2, ClaimClosure
  <2> QED BY <1>2, <2>2, <2>3
<1>9. ASSUME NEW c \in Procs, Flush(c) PROVE ClaimInv' /\ Holds
  <2> DEFINE x == [copy[c] EXCEPT !.phase = "idle"]
  <2>1. /\ x.state = copy[c].state /\ x.life = copy[c].life /\ x.phase = "idle"
        /\ x \in Copies /\ x.room = copy[c].room /\ x.request = copy[c].request
        /\ copy[c].life \in Nat
    BY <1>3 DEF Copies
  <2>2. Save(c, x) /\ Up(c) /\ ~copy[c].fenced
    BY <1>3, <1>9 DEF Flush, ClaimInv, Resting, Copies
  <2> HIDE DEF x
  <2>3. CopyOK(x, rows)
    BY <1>3, <2>1, SameRoom
  <2> QED BY <1>1, <2>1, <2>2, <2>3, ClaimSave DEF Holds
<1>10. ASSUME NEW c \in Procs PROVE Gone(copy[c]).state = "destroyed" /\ Gone(copy[c]).life = 0
                                 /\ Gone(copy[c]).phase = "idle" /\ copy[c].life \in Nat
  BY <1>3 DEF Gone, Down, Copies
<1>11. ASSUME NEW c \in Procs, Suspend(c) PROVE ClaimInv' /\ Holds
  <2>1. Save(c, Gone(copy[c])) /\ Up(c) /\ ~copy[c].fenced
    BY <1>11 DEF Suspend, Runs, Idle, Up
  <2>2. CopyOK(Gone(copy[c]), rows)
    BY <1>3, GoneOK
  <2> QED BY <1>1, <1>10, <2>1, <2>2, ClaimSave DEF Holds
<1>12. ASSUME NEW c \in Procs, DestroyEmpty(c) PROVE ClaimInv' /\ Holds
  <2>1. copy' = [copy EXCEPT ![c] = Gone(copy[c])]
    BY <1>12 DEF DestroyEmpty
  <2>2. CASE snapshot' = [stored |-> FALSE, by |-> 0, room |-> NoRoom] /\ UNCHANGED faults
    <3>1. ~snapshot'.stored
      BY <2>2
    <3>2. ClaimInv'
      BY <1>10, <2>1, <2>2, <3>1, ClaimDeleted
    <3> QED BY <3>1, <3>2 DEF Holds
  <2>3. CASE /\ faults.fails > 0 /\ faults' = [faults EXCEPT !.fails = @ - 1]
             /\ UNCHANGED snapshot
    <3>1. faults'.lives = faults.lives /\ faults'.fails # MaxFails
      BY <2>3, LiveAssumption DEF FaultsOK
    <3>2. Keeps(c, Gone(copy[c]))
      BY <1>10, <2>1, <2>3, <3>1 DEF Keeps
    <3>3. ClaimInv'
      BY <3>2, ClaimKept
    <3> QED BY <1>2, <2>3, <3>3
  <2> QED BY <1>12, <2>2, <2>3 DEF DestroyEmpty
<1>13. ASSUME NEW c \in Procs, DestroyFenced(c) PROVE ClaimInv' /\ Holds
  <2>1. snapshot' = snapshot /\ Keeps(c, Gone(copy[c]))
    BY <1>10, <1>13 DEF DestroyFenced, Keeps
  <2>2. ClaimInv'
    BY <2>1, ClaimKept
  <2> QED BY <1>2, <2>1, <2>2
<1>14. ASSUME NEW c \in Procs, Stop(c) PROVE ClaimInv' /\ Holds
  <2>1. Down.state = "down" /\ Down.life = 0 /\ Down.phase = "idle"
    BY DEF Down
  <2>2. snapshot' = snapshot /\ Keeps(c, Down)
    BY <1>10, <1>14, <2>1 DEF Stop, Keeps
  <2>3. ClaimInv'
    BY <2>2, ClaimKept
  <2> QED BY <1>2, <2>2, <2>3
<1>15. ASSUME NEW c \in Procs, Restore(c) PROVE ClaimInv' /\ Holds
  <2>1. ClaimInv'
    BY <1>15, ClaimRestored
  <2>2. snapshot' = snapshot
    BY <1>15 DEF Restore
  <2> QED BY <1>2, <2>1, <2>2
<1>16. ASSUME Next PROVE ClaimInv' /\ Holds
  BY <1>5, <1>6, <1>7, <1>8, <1>9, <1>11, <1>12, <1>13, <1>14, <1>15, <1>16, Zenon DEF Next
<1>17. Next \/ UNCHANGED vars
  OBVIOUS
<1>18. ClaimInv' /\ Holds
  BY <1>4, <1>16, <1>17
<1> QED BY <1>18 DEF Holds

\* While no room is destroyed for being empty, so that a snapshot is always stored,
\* and no save has failed: a restored process that saved the room holds it against
\* every process of an earlier life, however many there are.
THEOREM ClaimStands == Spec /\ []snapshot.stored => ClaimHolds
<1> DEFINE Stored == snapshot.stored
<1>1. Init => IInv /\ FaultsOK /\ ClaimInv
  BY InitOK, FaultsInit, ClaimInit
<1>2. IInv /\ FaultsOK /\ ClaimInv /\ Stored' /\ [Next]_vars
        => (IInv /\ FaultsOK /\ ClaimInv)'
  BY StepOK, FaultsStep, ClaimStep
<1>3. IInv /\ FaultsOK /\ ClaimInv /\ Stored' /\ [Next]_vars
        => [snapshot.stored /\ snapshot'.stored /\ faults.fails = MaxFails
              => snapshot'.by >= snapshot.by]_vars
  BY ClaimStep
<1>4. []snapshot.stored => []Stored
  BY PTL
<1> HIDE DEF Stored
<1> QED BY <1>1, <1>2, <1>3, <1>4, PTL DEF Spec, ClaimHolds

\* Two processes, an old and a new one, need no such condition: the one that
\* deletes the snapshot is gone with the room.
THEOREM ClaimOfTwo == Cardinality(Procs) <= 2 /\ Spec => ClaimHolds
<1> SUFFICES ASSUME Cardinality(Procs) <= 2 PROVE Spec => ClaimHolds
  OBVIOUS
<1>1. Pair
  <2> SUFFICES ASSUME NEW p \in Procs, NEW q \in Procs, NEW r \in Procs,
                      p # q, q # r, p # r
               PROVE  FALSE
    BY DEF Pair
  <2>1. Cardinality({p}) = 1 /\ IsFiniteSet({p})
    BY FS_Singleton
  <2>2. IsFiniteSet({p} \cup {q}) /\ Cardinality({p} \cup {q}) = 2
    <3>1. q \notin {p}
      OBVIOUS
    <3>2. IsFiniteSet({p} \cup {q}) /\ Cardinality({p} \cup {q}) = Cardinality({p}) + 1
      BY Zenon, <2>1, <3>1, FS_AddElement
    <3> QED BY <2>1, <3>2
  <2>3. Cardinality(({p} \cup {q}) \cup {r}) = 3
    <3>1. r \notin {p} \cup {q}
      OBVIOUS
    <3>2. Cardinality(({p} \cup {q}) \cup {r}) = Cardinality({p} \cup {q}) + 1
      BY Zenon, <2>2, <3>1, FS_AddElement
    <3> QED BY <2>2, <3>2
  <2>4. ({p} \cup {q}) \cup {r} \subseteq Procs
    OBVIOUS
  <2>5. Cardinality(({p} \cup {q}) \cup {r}) <= Cardinality(Procs)
    BY <2>4, FS_Subset, LiveAssumption
  <2>6. Cardinality(Procs) \in Nat
    BY FS_CardinalityType, LiveAssumption
  <2> QED BY <2>3, <2>5, <2>6
<1>2. Init => IInv /\ FaultsOK /\ ClaimInv
  BY InitOK, FaultsInit, ClaimInit
<1>3. IInv /\ FaultsOK /\ ClaimInv /\ [Next]_vars => (IInv /\ FaultsOK /\ ClaimInv)'
  BY <1>1, StepOK, FaultsStep, ClaimStep
<1>4. IInv /\ FaultsOK /\ ClaimInv /\ [Next]_vars
        => [snapshot.stored /\ snapshot'.stored /\ faults.fails = MaxFails
              => snapshot'.by >= snapshot.by]_vars
  BY <1>1, ClaimStep
<1> QED BY <1>2, <1>3, <1>4, PTL DEF Spec, ClaimHolds

=============================================================================
