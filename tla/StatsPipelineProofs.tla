------------------------ MODULE StatsPipelineProofs ------------------------
(***************************************************************************)
(* Proofs about StatsPipeline, for every number of hands, players and      *)
(* processes and every size of the queue, the batches and a pass.          *)
(*                                                                         *)
(* The inductive invariant has a part for each of the places a hand goes   *)
(* through: RecordersOK (a hand that waits waits in one place), LandedOK   *)
(* (an attempt that is yet to be made has not landed), FlushersOK (what a  *)
(* pass has read of a batch is still true of it, or the batch has its      *)
(* receipt) and OnceOK (what landed is in one place).                      *)
(***************************************************************************)
EXTENDS StatsPipeline, Sums

-----------------------------------------------------------------------------
(* Listing a set in order *)

\* A finite set of numbers has a largest.
LEMMA Largest ==
  ASSUME NEW X \in SUBSET Nat, IsFiniteSet(X), X # {}
  PROVE  \E m \in X : \A x \in X : x <= m
<1> DEFINE T == {s \in SUBSET X : s # {} /\ ~ \E m \in s : \A x \in s : x <= m}
<1> SUFFICES ASSUME T # {} PROVE FALSE
  OBVIOUS
<1>1. PICK s \in T : \A y \in SUBSET s : y # s => y \notin T
  <2>1. T \subseteq SUBSET X
    OBVIOUS
  <2> HIDE DEF T
  <2> QED BY <2>1, Smallest
<1>2. s \subseteq Nat /\ s # {} /\ ~ \E m \in s : \A x \in s : x <= m
  BY <1>1
<1>3. PICK a \in s : TRUE
  BY <1>2
<1>4. s \ {a} \in SUBSET s /\ s \ {a} # s /\ s \ {a} \in SUBSET X
  BY <1>1, <1>3
<1>5. s \ {a} # {}
  BY <1>2, <1>3
<1>6. PICK m \in s \ {a} : \A x \in s \ {a} : x <= m
  BY <1>1, <1>4, <1>5
<1>7. CASE a <= m
  BY <1>2, <1>6, <1>7
<1>8. CASE m < a
  BY <1>2, <1>3, <1>6, <1>8
<1> QED BY <1>2, <1>3, <1>6, <1>7, <1>8

\* s lists the set X in order.
InOrder(s, X) ==
    /\ s \in [1 .. Cardinality(X) -> X]
    /\ Range(s) = X
    /\ \A i, j \in DOMAIN s : i < j => s[i] < s[j]

\* A finite set of numbers can be listed in order.
LEMMA SortedExists ==
  ASSUME NEW X \in SUBSET Nat, IsFiniteSet(X)
  PROVE  \E s : InOrder(s, X)
<1> DEFINE T == {y \in SUBSET X : ~ \E s : InOrder(s, y)}
<1> SUFFICES ASSUME T # {} PROVE FALSE
  OBVIOUS
<1>1. PICK y \in T : \A z \in SUBSET y : z # y => z \notin T
  <2>1. T \subseteq SUBSET X
    OBVIOUS
  <2> HIDE DEF T
  <2> QED BY <2>1, Smallest
<1>2. y \subseteq Nat /\ IsFiniteSet(y) /\ ~ \E s : InOrder(s, y)
  BY <1>1, FS_Subset
<1>3. y # {}
  <2> SUFFICES ASSUME y = {} PROVE FALSE
    OBVIOUS
  <2>1. Cardinality(y) = 0
    BY FS_EmptySet
  <2> DEFINE s == [i \in 1 .. 0 |-> 0]
  <2>2. InOrder(s, y)
    BY <2>1 DEF InOrder, Range
  <2> QED BY <1>2, <2>2
<1>4. PICK m \in y : \A x \in y : x <= m
  BY <1>2, <1>3, Largest
<1> DEFINE z == y \ {m}
           n == Cardinality(z)
<1>5. PICK s : InOrder(s, z)
  BY <1>1, <1>4
<1>6. Cardinality(y) = n + 1 /\ n \in Nat
  <2>1. Cardinality(z) = Cardinality(y) - 1 /\ Cardinality(z) \in Nat /\ Cardinality(y) \in Nat
    BY <1>2, <1>4, FS_RemoveElement, FS_CardinalityType
  <2> QED BY <2>1
<1> DEFINE t == [i \in 1 .. n + 1 |-> IF i = n + 1 THEN m ELSE s[i]]
<1>7. DOMAIN s = 1 .. n /\ Range(s) = z
  BY <1>5 DEF InOrder
<1>8. \A i \in 1 .. n : s[i] \in z
  BY <1>5 DEF InOrder
<1>9. t \in [1 .. Cardinality(y) -> y]
  BY <1>4, <1>6, <1>8
<1>10. Range(t) = y
  <2>1. \A x \in y : \E i \in 1 .. n + 1 : t[i] = x
    <3> SUFFICES ASSUME NEW x \in y PROVE \E i \in 1 .. n + 1 : t[i] = x
      OBVIOUS
    <3>1. CASE x = m
      BY <1>6, <3>1
    <3>2. CASE x \in z
      <4>1. PICK i \in 1 .. n : s[i] = x
        BY <1>7, <3>2 DEF Range
      <4>2. i \in 1 .. n + 1 /\ t[i] = x
        BY <1>6, <4>1
      <4> QED BY <4>2
    <3> QED BY <3>1, <3>2
  <2>2. \A i \in 1 .. n + 1 : t[i] \in y
    BY <1>6, <1>9
  <2>3. DOMAIN t = 1 .. n + 1
    OBVIOUS
  <2> QED BY <2>1, <2>2, <2>3 DEF Range
<1>11. ASSUME NEW i \in 1 .. n + 1, NEW j \in 1 .. n + 1, i < j PROVE t[i] < t[j]
  <2>1. i \in 1 .. n /\ t[i] = s[i]
    BY <1>6, <1>11
  <2>2. CASE j = n + 1
    <3>1. s[i] \in Nat /\ s[i] # m /\ s[i] <= m /\ m \in Nat
      BY <1>2, <1>4, <1>8, <2>1
    <3> QED BY <2>1, <2>2, <3>1
  <2>3. CASE j # n + 1
    <3>1. j \in 1 .. n /\ t[j] = s[j]
      BY <1>6, <2>3
    <3> QED BY <1>5, <1>7, <1>11, <2>1, <3>1 DEF InOrder
  <2> QED BY <2>2, <2>3
<1>12. InOrder(t, y)
  <2>1. DOMAIN t = 1 .. n + 1
    OBVIOUS
  <2> HIDE DEF t, n, z
  <2> QED BY <1>9, <1>10, <1>11, <2>1 DEF InOrder
<1> QED BY <1>2, <1>12

\* What Listed makes of a set of batches.
LEMMA ListedIsAll ==
  ASSUME NEW X \in SUBSET Nat, IsFiniteSet(X)
  PROVE  /\ Listed(X) \in Seq([id : X, players : {Nobody}])
         /\ \A b \in X : \E i \in 1 .. Len(Listed(X)) : Listed(X)[i].id = b
<1>1. InOrder(Sorted(X), X)
  <2>1. PICK s : InOrder(s, X)
    BY SortedExists
  <2>3. \E t \in [1 .. Cardinality(X) -> X] :
           Range(t) = X /\ \A i, j \in DOMAIN t : i < j => t[i] < t[j]
    BY <2>1 DEF InOrder
  <2>2. Sorted(X) \in [1 .. Cardinality(X) -> X] /\ Range(Sorted(X)) = X
        /\ \A i, j \in DOMAIN Sorted(X) : i < j => Sorted(X)[i] < Sorted(X)[j]
    BY <2>3, Zenon DEF Sorted
  <2> QED BY <2>2 DEF InOrder
<1>2. Cardinality(X) \in Nat
  BY FS_CardinalityType
<1>3. /\ DOMAIN Sorted(X) = 1 .. Cardinality(X) /\ Range(Sorted(X)) = X
      /\ \A i \in 1 .. Cardinality(X) : Sorted(X)[i] \in X
  BY <1>1 DEF InOrder
<1>4. Len(Listed(X)) = Cardinality(X) /\ Listed(X) \in Seq([id : X, players : {Nobody}])
  <2> DEFINE n == Cardinality(X)
             e(i) == [id |-> Sorted(X)[i], players |-> Nobody]
  <2>1. \A i \in 1 .. n : e(i) \in [id : X, players : {Nobody}]
    BY <1>3
  <2>2. Listed(X) = [i \in 1 .. n |-> e(i)]
    BY DEF Listed
  <2>3. n \in Nat
    BY <1>2
  <2> HIDE DEF n, e
  <2>4. Listed(X) \in Seq([id : X, players : {Nobody}]) /\ Len(Listed(X)) = n
    BY <2>1, <2>2, <2>3
  <2> QED BY <2>4 DEF n
<1>5. \A b \in X : \E i \in 1 .. Cardinality(X) : Sorted(X)[i] = b
  BY <1>3 DEF Range
<1>6. \A i \in 1 .. Cardinality(X) : Listed(X)[i].id = Sorted(X)[i]
  BY DEF Listed
<1> QED BY <1>4, <1>5, <1>6

-----------------------------------------------------------------------------
(* The inductive invariant: recorders *)

Places == {"played", "queued", "dropped", "written"}
Items == Hands \cup {Marker}
Recorders == [mode : {"open", "closed", "done", "down"}, queue : Seq(Items),
              gathered : SUBSET Hands, again : BOOLEAN]

\* What a recorder has accepted and neither written nor given up.
InHand(r) == {h \in Hands : h \in r.gathered \/ \E i \in 1 .. Len(r.queue) : r.queue[i] = h}

\* A recorder holds nothing twice.
RecorderOK(r) ==
    /\ r \in Recorders
    /\ \A i, j \in 1 .. Len(r.queue) : r.queue[i] = r.queue[j] => i = j
    /\ \A i \in 1 .. Len(r.queue) : r.queue[i] \notin r.gathered

\* A hand that waits is queued, with one process.
RecordersOK ==
    /\ fate \in [Hands -> Places]
    /\ recorder = [p \in Procs |-> recorder[p]]
    /\ \A p \in Procs : RecorderOK(recorder[p])
    /\ \A p \in Procs : \A h \in InHand(recorder[p]) : fate[h] = "queued"
    /\ \A p, q \in Procs : p # q => InHand(recorder[p]) \cap InHand(recorder[q]) = {}

-----------------------------------------------------------------------------
(* One recorder *)

\* A recorder that has just started, or is down, holds no hand.
LEMMA EmptyRecorders ==
  /\ RecorderOK(Fresh) /\ InHand(Fresh) = {}
  /\ RecorderOK(DownRecorder) /\ InHand(DownRecorder) = {}
<1>1. Fresh.queue = <<>> /\ Fresh.gathered = {} /\ Fresh \in Recorders
  BY DEF Fresh, Recorders
<1>2. /\ DownRecorder.queue = <<>> /\ DownRecorder.gathered = {}
      /\ DownRecorder \in Recorders
  BY <1>1 DEF DownRecorder, Recorders
<1> QED BY <1>1, <1>2 DEF RecorderOK, InHand

\* A hand, or the marker, that joins the queue.
LEMMA Joins ==
  ASSUME NEW r, RecorderOK(r), NEW x \in Items, x \notin r.gathered,
         \A i \in 1 .. Len(r.queue) : r.queue[i] # x
  PROVE  LET s == [r EXCEPT !.queue = Append(@, x)]
         IN  RecorderOK(s) /\ \A h \in InHand(s) : h \in InHand(r) \/ h = x
<1> DEFINE s == [r EXCEPT !.queue = Append(@, x)]
           q == r.queue
<1>1. r \in Recorders /\ q \in Seq(Items)
  BY DEF RecorderOK, Recorders
<1>2. s \in Recorders /\ s.queue = Append(q, x) /\ s.gathered = r.gathered
  <2> DEFINE a == Append(q, x)
  <2>1. a \in Seq(Items)
    BY <1>1
  <2>2. s = [r EXCEPT !.queue = a]
    OBVIOUS
  <2> HIDE DEF a, s
  <2>3. s \in Recorders /\ s.queue = a /\ s.gathered = r.gathered
    BY <1>1, <2>1, <2>2 DEF Recorders
  <2> QED BY <2>3 DEF a
<1>3. Len(Append(q, x)) = Len(q) + 1 /\ Len(q) \in Nat
  BY <1>1
<1>4. \A i \in 1 .. Len(q) + 1 : Append(q, x)[i] = IF i = Len(q) + 1 THEN x ELSE q[i]
  BY <1>1
<1> HIDE DEF s
<1>5. RecorderOK(s)
  BY <1>2, <1>3, <1>4 DEF RecorderOK
<1>6. \A h \in InHand(s) : h \in InHand(r) \/ h = x
  BY <1>2, <1>3, <1>4 DEF InHand
<1> QED BY <1>5, <1>6 DEF s

\* What the goroutine takes from its queue it holds, but for the marker.
LEMMA TakesOne ==
  ASSUME NEW r, RecorderOK(r), r.queue # <<>>
  PROVE  RecorderOK(Takes(r)) /\ InHand(Takes(r)) \subseteq InHand(r)
<1> DEFINE q == r.queue
           held == [r EXCEPT !.queue = Tail(@), !.gathered = @ \cup {Head(r.queue)}]
           passed == [r EXCEPT !.queue = Tail(@)]
<1>1. r \in Recorders /\ q \in Seq(Items) /\ r.gathered \subseteq Hands
  BY DEF RecorderOK, Recorders
<1>2. /\ Head(q) = q[1] /\ Head(q) \in Items /\ Tail(q) \in Seq(Items)
      /\ Len(q) \in Nat /\ Len(q) > 0 /\ Len(Tail(q)) = Len(q) - 1
      /\ \A i \in 1 .. Len(q) - 1 : Tail(q)[i] = q[i + 1]
  BY <1>1
<1>3. ASSUME Head(q) # Marker
      PROVE  RecorderOK(held) /\ InHand(held) \subseteq InHand(r)
  <2>1. Head(q) \in Hands
    BY <1>2, <1>3 DEF Items
  <2>2. held \in Recorders /\ held.queue = Tail(q) /\ held.gathered = r.gathered \cup {Head(q)}
    BY <1>1, <1>2, <2>1 DEF Recorders
  <2> HIDE DEF held
  <2>3. RecorderOK(held)
    BY <1>1, <1>2, <2>2 DEF RecorderOK
  <2>4. InHand(held) \subseteq InHand(r)
    BY <1>1, <1>2, <2>2 DEF InHand
  <2> QED BY <2>3, <2>4
<1>4. RecorderOK(passed) /\ InHand(passed) \subseteq InHand(r)
  <2>2. passed \in Recorders /\ passed.queue = Tail(q) /\ passed.gathered = r.gathered
    BY <1>1, <1>2 DEF Recorders
  <2> HIDE DEF passed
  <2>3. RecorderOK(passed)
    BY <1>1, <1>2, <2>2 DEF RecorderOK
  <2>4. InHand(passed) \subseteq InHand(r)
    BY <1>1, <1>2, <2>2 DEF InHand
  <2> QED BY <2>3, <2>4
<1> QED BY <1>3, <1>4 DEF Takes

\* A recorder whose goroutine has written what it held.
LEMMA Emptied ==
  ASSUME NEW r, RecorderOK(r)
  PROVE  LET s == [r EXCEPT !.gathered = {}, !.again = FALSE]
         IN  RecorderOK(s) /\ InHand(s) \subseteq InHand(r) \ r.gathered
<1> DEFINE s == [r EXCEPT !.gathered = {}, !.again = FALSE]
<1>1. r \in Recorders
  BY DEF RecorderOK
<1>2. s \in Recorders /\ s.queue = r.queue /\ s.gathered = {}
  BY <1>1 DEF Recorders
<1> HIDE DEF s
<1>3. RecorderOK(s) /\ InHand(s) \subseteq InHand(r) \ r.gathered
  BY <1>2 DEF RecorderOK, InHand
<1> QED BY <1>3 DEF s

\* A recorder whose write is sent again.
LEMMA SentAgain ==
  ASSUME NEW r, RecorderOK(r)
  PROVE  LET s == [r EXCEPT !.again = TRUE]
         IN  RecorderOK(s) /\ InHand(s) \subseteq InHand(r)
<1> DEFINE s == [r EXCEPT !.again = TRUE]
<1>1. r \in Recorders
  BY DEF RecorderOK
<1>2. s \in Recorders /\ s.queue = r.queue /\ s.gathered = r.gathered
  BY <1>1 DEF Recorders
<1> HIDE DEF s
<1>3. RecorderOK(s) /\ InHand(s) \subseteq InHand(r)
  BY <1>2 DEF RecorderOK, InHand
<1> QED BY <1>3 DEF s

\* A recorder whose mode changes.
LEMMA ModeOnly ==
  ASSUME NEW r, RecorderOK(r), NEW m \in {"open", "closed", "done", "down"}
  PROVE  LET s == [r EXCEPT !.mode = m]
         IN  RecorderOK(s) /\ InHand(s) \subseteq InHand(r)
<1> DEFINE s == [r EXCEPT !.mode = m]
<1>1. r \in Recorders
  BY DEF RecorderOK
<1>2. s \in Recorders /\ s.queue = r.queue /\ s.gathered = r.gathered
  BY <1>1 DEF Recorders
<1> HIDE DEF s
<1>3. RecorderOK(s) /\ InHand(s) \subseteq InHand(r)
  BY <1>2 DEF RecorderOK, InHand
<1> QED BY <1>3 DEF s

\* A step of one recorder, whose hands alone change their fate.
Becomes(p, r) ==
    /\ RecorderOK(r)
    /\ recorder' = [recorder EXCEPT ![p] = r]
    /\ fate' \in [Hands -> Places]
    /\ \A h \in InHand(r) : /\ fate'[h] = "queued"
                            /\ h \in InHand(recorder[p]) \/ fate[h] = "played"
    /\ \A h \in Hands : \/ fate'[h] = fate[h]
                        \/ h \in InHand(recorder[p])
                        \/ fate[h] = "played"

\* A step of one recorder that leaves it well formed leaves them all well
\* formed.
LEMMA OneRecorder ==
  ASSUME RecordersOK, NEW p \in Procs, NEW r, Becomes(p, r)
  PROVE  RecordersOK'
<1> USE DEF Becomes
<1>1. recorder' = [q \in Procs |-> recorder'[q]]
  BY DEF RecordersOK
<1>2. \A q \in Procs : recorder'[q] = IF q = p THEN r ELSE recorder[q]
  BY DEF RecordersOK
<1>3. \A q \in Procs : InHand(recorder[q]) \subseteq Hands
  BY DEF InHand
<1>4. \A q \in Procs : RecorderOK(recorder'[q])
  BY <1>2 DEF RecordersOK
<1>5. ASSUME NEW q \in Procs, q # p, NEW h \in InHand(recorder[q])
      PROVE  fate'[h] = "queued" /\ h \notin InHand(r)
  <2>1. fate[h] = "queued" /\ h \notin InHand(recorder[p]) /\ h \in Hands
    BY <1>3, <1>5 DEF RecordersOK
  <2> QED BY <2>1
<1>6. \A q \in Procs : \A h \in InHand(recorder'[q]) : fate'[h] = "queued"
  BY <1>2, <1>5
<1>7. ASSUME NEW a \in Procs, NEW b \in Procs, a # b
      PROVE  InHand(recorder'[a]) \cap InHand(recorder'[b]) = {}
  <2>1. a # p /\ b # p => InHand(recorder[a]) \cap InHand(recorder[b]) = {}
    BY <1>7 DEF RecordersOK
  <2> QED BY <1>2, <1>5, <1>7, <2>1
<1> QED BY <1>1, <1>4, <1>6, <1>7 DEF RecordersOK

\* The recorders' steps, and the others, which leave them alone.
LEMMA RecordersStep == RecordersOK /\ [Next]_vars => RecordersOK'
<1> SUFFICES ASSUME RecordersOK, [Next]_vars PROVE RecordersOK'
  OBVIOUS
<1>1. ASSUME UNCHANGED recorderVars PROVE RecordersOK'
  BY <1>1 DEF recorderVars, RecordersOK
<1>2. ASSUME NEW p \in Procs
      PROVE  /\ RecorderOK(recorder[p]) /\ recorder[p] \in Recorders
             /\ \A h \in InHand(recorder[p]) : fate[h] = "queued"
             /\ InHand(recorder[p]) \subseteq Hands
             /\ fate \in [Hands -> Places] /\ recorder[p].gathered \subseteq InHand(recorder[p])
  BY DEF RecordersOK, RecorderOK, InHand, Recorders
<1>15. ASSUME NEW p \in Procs, NEW g \in Hands, NEW r, RecorderOK(r), fate[g] = "played",
             recorder' = [recorder EXCEPT ![p] = r], fate' = [fate EXCEPT ![g] = "queued"],
             \A h \in InHand(r) : h \in InHand(recorder[p]) \/ h = g
       PROVE  RecordersOK'
  <2>1. /\ fate' \in [Hands -> Places]
        /\ \A h \in Hands : fate'[h] = IF h = g THEN "queued" ELSE fate[h]
    BY <1>2, <1>15 DEF Places
  <2>2. \A h \in InHand(r) : h \in Hands
    BY <1>2, <1>15
  <2>3. \A h \in InHand(r) : /\ fate'[h] = "queued"
                             /\ h \in InHand(recorder[p]) \/ fate[h] = "played"
    BY <1>2, <1>15, <2>1, <2>2
  <2>4. \A h \in Hands : \/ fate'[h] = fate[h]
                         \/ h \in InHand(recorder[p])
                         \/ fate[h] = "played"
    BY <1>15, <2>1
  <2>6. Becomes(p, r)
    BY <1>15, <2>1, <2>3, <2>4 DEF Becomes
  <2> QED BY <2>6, OneRecorder
<1>3. ASSUME NEW p \in Procs, NEW h \in Hands, Record(p, h) PROVE RecordersOK'
  <2>1. fate[h] = "played"
    BY <1>3 DEF Record
  <2>2. h \in Items /\ h \notin recorder[p].gathered
        /\ \A i \in 1 .. Len(recorder[p].queue) : recorder[p].queue[i] # h
    BY <1>2, <2>1 DEF Items, InHand
  <2>3. CASE /\ fate' = [fate EXCEPT ![h] = "queued"]
             /\ recorder' = [recorder EXCEPT ![p].queue = Append(@, h)]
    <3> DEFINE r == [recorder[p] EXCEPT !.queue = Append(@, h)]
    <3>1. RecorderOK(r) /\ \A g \in InHand(r) : g \in InHand(recorder[p]) \/ g = h
      BY <1>2, <2>2, Joins
    <3>2. recorder' = [recorder EXCEPT ![p] = r]
      BY <2>3
    <3> HIDE DEF r
    <3>3. fate' = [fate EXCEPT ![h] = "queued"]
      BY <2>3
    <3> QED BY <2>1, <3>1, <3>2, <3>3, <1>15
  <2>4. CASE fate' = [fate EXCEPT ![h] = "dropped"] /\ UNCHANGED recorder
    <3>1. recorder' = [recorder EXCEPT ![p] = recorder[p]]
      BY <2>4 DEF RecordersOK
    <3>2. /\ fate' \in [Hands -> Places]
          /\ \A g \in Hands : fate'[g] = IF g = h THEN "dropped" ELSE fate[g]
      BY <1>2, <2>4 DEF Places
    <3>3. \A g \in InHand(recorder[p]) : g # h
      BY <1>2, <2>1
    <3> QED BY <1>2, <2>1, <3>1, <3>2, <3>3, OneRecorder DEF Becomes
  <2> QED BY <1>3, <2>3, <2>4 DEF Record
\* Of a step that changes no hand's fate.
<1>4. ASSUME NEW p \in Procs, NEW r, RecorderOK(r), fate' = fate,
             recorder' = [recorder EXCEPT ![p] = r],
             InHand(r) \subseteq InHand(recorder[p])
      PROVE  RecordersOK'
  BY <1>2, <1>4, OneRecorder DEF Becomes
<1>5. ASSUME NEW p \in Procs, Sync(p) PROVE RecordersOK'
  <2> DEFINE r == [recorder[p] EXCEPT !.queue = Append(@, Marker)]
  <2>1. Marker \in Items /\ Marker \notin recorder[p].gathered
    BY <1>2, StatsAssumption DEF Items, Marker
  <2>2. \A i \in 1 .. Len(recorder[p].queue) : recorder[p].queue[i] # Marker
    BY <1>2, <1>5 DEF Sync, Range, Recorders
  <2>3. RecorderOK(r) /\ \A g \in InHand(r) : g \in InHand(recorder[p]) \/ g = Marker
    BY <1>2, <2>1, <2>2, Joins
  <2>4. recorder' = [recorder EXCEPT ![p] = r] /\ fate' = fate
    BY <1>5 DEF Sync
  <2> HIDE DEF r
  <2>5. InHand(r) \subseteq InHand(recorder[p])
    BY <2>3, StatsAssumption DEF InHand, Marker
  <2> QED BY <1>4, <2>3, <2>4, <2>5
<1>6. ASSUME NEW p \in Procs, Gather(p) PROVE RecordersOK'
  BY <1>2, <1>4, <1>6, TakesOne DEF Gather
<1>7. ASSUME NEW p \in Procs, Write(p) PROVE RecordersOK'
  <2> DEFINE r == [recorder[p] EXCEPT !.gathered = {}, !.again = FALSE]
             again == [recorder[p] EXCEPT !.again = TRUE]
             hands == recorder[p].gathered
  <2>1. CASE recorder' = [recorder EXCEPT ![p] = again] /\ fate' = fate
    <3>1. RecorderOK(again) /\ InHand(again) \subseteq InHand(recorder[p])
      BY <1>2, SentAgain
    <3> HIDE DEF again
    <3> QED BY <1>4, <2>1, <3>1
  <2>2. ASSUME NEW f \in {"written", "dropped"}, recorder' = [recorder EXCEPT ![p] = r],
               fate' = [h \in Hands |-> IF h \in hands THEN f ELSE fate[h]]
        PROVE  RecordersOK'
    <3>1. RecorderOK(r) /\ InHand(r) \subseteq InHand(recorder[p]) \ hands
      BY <1>2, Emptied
    <3>2. fate' \in [Hands -> Places]
      BY <1>2, <2>2 DEF Places
    <3>3. \A h \in Hands : h \notin hands => fate'[h] = fate[h]
      BY <2>2
    <3>4. recorder' = [recorder EXCEPT ![p] = r]
      BY <2>2
    <3> HIDE DEF r
    <3> QED BY <1>2, <3>1, <3>2, <3>3, <3>4, OneRecorder DEF Becomes
  <2>3. \/ recorder' = [recorder EXCEPT ![p] = again] /\ fate' = fate
        \/ /\ recorder' = [recorder EXCEPT ![p] = r]
           /\ \E f \in {"written", "dropped"} :
                  fate' = [h \in Hands |-> IF h \in hands THEN f ELSE fate[h]]
    BY <1>7 DEF Write
  <2> QED BY <2>1, <2>2, <2>3
<1>8. ASSUME NEW p \in Procs, Close(p) \/ Closed(p) PROVE RecordersOK'
  <2>1. PICK m \in {"open", "closed", "done", "down"} :
               recorder' = [recorder EXCEPT ![p] = [recorder[p] EXCEPT !.mode = m]]
    BY <1>8 DEF Close, Closed
  <2>2. fate' = fate
    BY <1>8 DEF Close, Closed
  <2> QED BY <1>2, <1>4, <2>1, <2>2, ModeOnly
<1>9. ASSUME NEW p \in Procs, Crash(p) \/ Exit(p) PROVE RecordersOK'
  <2>1. /\ fate' = [h \in Hands |-> IF h \in Waiting(p) THEN "dropped" ELSE fate[h]]
        /\ recorder' = [recorder EXCEPT ![p] = DownRecorder]
    BY <1>9 DEF Crash, Exit, Halts
  <2>2. \A h \in Hands : h \in Waiting(p) => h \in InHand(recorder[p])
    BY <1>2 DEF Waiting, InHand, Range, Recorders
  <2>3. fate' \in [Hands -> Places]
    BY <1>2, <2>1 DEF Places
  <2>4. \A h \in Hands : fate'[h] = fate[h] \/ h \in InHand(recorder[p])
    BY <2>1, <2>2
  <2> QED BY <2>1, <2>3, <2>4, EmptyRecorders, OneRecorder DEF Becomes
<1>10. ASSUME NEW p \in Procs, Start(p) PROVE RecordersOK'
  <2>1. recorder' = [recorder EXCEPT ![p] = Fresh] /\ fate' = fate
    BY <1>10 DEF Start
  <2> QED BY <1>4, <2>1, EmptyRecorders
<1>11. ASSUME NEW p \in Procs, StartPass(p) \/ Pass(p) PROVE RecordersOK'
  BY <1>1, <1>11 DEF StartPass, Pass, List, Read, Flush, Finish, Pick, Move, Prune
<1>12. Age => RecordersOK'
  BY <1>1 DEF Age
<1>13. ASSUME NEW u \in Users, Delete(u) \/ Forget(u) PROVE RecordersOK'
  BY <1>1, <1>13 DEF Delete, Forget
<1>14. UNCHANGED vars => RecordersOK'
  BY <1>1 DEF vars
<1> QED BY <1>3, <1>5, <1>6, <1>7, <1>8, <1>9, <1>10, <1>11, <1>12, <1>13, <1>14 DEF Next

\* The recorders start empty.
LEMMA RecordersInit == Init => RecordersOK
BY EmptyRecorders DEF Init, RecordersOK, Places

-----------------------------------------------------------------------------
(* What is released has been written *)

\* One step of a recorder, r before and s after it; a process that goes down ends
\* its pass too.
Steps(r, s, ends) ==
    \/ s = r
    \/ r.mode = "open" /\ \E x \in Items : s = [r EXCEPT !.queue = Append(@, x)]
    \/ r.mode # "down" /\ r.queue # <<>> /\ s = Takes(r)
    \/ r.mode # "down" /\ s = [r EXCEPT !.gathered = {}, !.again = FALSE]
    \/ r.mode # "down" /\ s = [r EXCEPT !.again = TRUE]
    \/ r.mode = "open" /\ s = [r EXCEPT !.mode = "closed"]
    \/ /\ r.mode = "closed" /\ r.queue = <<>> /\ r.gathered = {}
       /\ s = [r EXCEPT !.mode = "done"]
    \/ s = DownRecorder /\ ends
    \/ r.mode = "down" /\ s = Fresh

\* A process that is down holds nothing.
DownIsEmpty == \A p \in Procs : ~Up(p) => recorder[p] = DownRecorder

\* Every step moves each recorder along its modes, or restarts its process.
LEMMA RecorderGoes ==
  ASSUME RecordersOK, [Next]_vars, NEW p \in Procs
  PROVE  Steps(recorder[p], recorder'[p], PassEnds(p))
<1>1. ASSUME NEW q \in Procs, NEW r, recorder' = [recorder EXCEPT ![q] = r],
             Steps(recorder[q], r, PassEnds(q))
      PROVE  Steps(recorder[p], recorder'[p], PassEnds(p))
  <2>1. recorder'[p] = IF p = q THEN r ELSE recorder[p]
    BY <1>1 DEF RecordersOK
  <2>2. p = q => Steps(recorder[p], recorder'[p], PassEnds(p))
    BY <1>1, <2>1
  <2>3. p # q => Steps(recorder[p], recorder'[p], PassEnds(p))
    BY <2>1 DEF Steps
  <2> QED BY <2>2, <2>3
<1>2. ASSUME UNCHANGED recorder PROVE Steps(recorder[p], recorder'[p], PassEnds(p))
  BY <1>2 DEF Steps
<1>3. ASSUME NEW q \in Procs, NEW h \in Hands, Record(q, h)
      PROVE  Steps(recorder[p], recorder'[p], PassEnds(p))
  <2>1. CASE UNCHANGED recorder
    BY <1>2, <2>1
  <2>2. CASE recorder[q].mode = "open" /\ recorder' = [recorder EXCEPT ![q].queue = Append(@, h)]
    <3> DEFINE r == [recorder[q] EXCEPT !.queue = Append(@, h)]
    <3>1. Steps(recorder[q], r, PassEnds(q))
      BY <2>2 DEF Steps, Items
    <3>2. recorder' = [recorder EXCEPT ![q] = r]
      BY <2>2
    <3> HIDE DEF r
    <3> QED BY <1>1, <3>1, <3>2
  <2> QED BY <1>3, <2>1, <2>2 DEF Record
<1>4. ASSUME NEW q \in Procs, Sync(q) PROVE Steps(recorder[p], recorder'[p], PassEnds(p))
  <2> DEFINE r == [recorder[q] EXCEPT !.queue = Append(@, Marker)]
  <2>1. Steps(recorder[q], r, PassEnds(q))
    BY <1>4 DEF Steps, Items, Sync
  <2>2. recorder' = [recorder EXCEPT ![q] = r]
    BY <1>4 DEF Sync
  <2> HIDE DEF r
  <2> QED BY <1>1, <2>1, <2>2
<1>5. ASSUME NEW q \in Procs, Gather(q) PROVE Steps(recorder[p], recorder'[p], PassEnds(p))
  BY <1>1, <1>5 DEF Gather, Steps, Up
<1>6. ASSUME NEW q \in Procs, Write(q) PROVE Steps(recorder[p], recorder'[p], PassEnds(p))
  <2> DEFINE r == [recorder[q] EXCEPT !.gathered = {}, !.again = FALSE]
             again == [recorder[q] EXCEPT !.again = TRUE]
  <2>1. Steps(recorder[q], r, PassEnds(q)) /\ Steps(recorder[q], again, PassEnds(q))
    BY <1>6 DEF Steps, Write, Up
  <2>2. \/ recorder' = [recorder EXCEPT ![q] = r]
        \/ recorder' = [recorder EXCEPT ![q] = again]
    BY <1>6 DEF Write
  <2> HIDE DEF r, again
  <2> QED BY <1>1, <2>1, <2>2
<1>7. ASSUME NEW q \in Procs, Close(q) PROVE Steps(recorder[p], recorder'[p], PassEnds(p))
  <2> DEFINE r == [recorder[q] EXCEPT !.mode = "closed"]
  <2>1. Steps(recorder[q], r, PassEnds(q))
    BY <1>7 DEF Steps, Close
  <2>2. recorder' = [recorder EXCEPT ![q] = r]
    BY <1>7 DEF Close
  <2> HIDE DEF r
  <2> QED BY <1>1, <2>1, <2>2
<1>8. ASSUME NEW q \in Procs, Closed(q) PROVE Steps(recorder[p], recorder'[p], PassEnds(p))
  <2> DEFINE r == [recorder[q] EXCEPT !.mode = "done"]
  <2>1. Steps(recorder[q], r, PassEnds(q))
    BY <1>8 DEF Steps, Closed
  <2>2. recorder' = [recorder EXCEPT ![q] = r]
    BY <1>8 DEF Closed
  <2> HIDE DEF r
  <2> QED BY <1>1, <2>1, <2>2
<1>9. ASSUME NEW q \in Procs, Crash(q) \/ Exit(q) PROVE Steps(recorder[p], recorder'[p], PassEnds(p))
  BY <1>1, <1>9 DEF Crash, Exit, Halts, Steps
<1>10. ASSUME NEW q \in Procs, Start(q) PROVE Steps(recorder[p], recorder'[p], PassEnds(p))
  BY <1>1, <1>10 DEF Start, Up, Steps
<1>11. ASSUME NEW q \in Procs, StartPass(q) \/ Pass(q)
       PROVE  Steps(recorder[p], recorder'[p], PassEnds(p))
  BY <1>2, <1>11 DEF StartPass, Pass, List, Read, Flush, Finish, Pick, Move, Prune, recorderVars
<1>12. Age => Steps(recorder[p], recorder'[p], PassEnds(p))
  BY <1>2 DEF Age, recorderVars
<1>13. ASSUME NEW u \in Users, Delete(u) \/ Forget(u) PROVE Steps(recorder[p], recorder'[p], PassEnds(p))
  BY <1>2, <1>13 DEF Delete, Forget, recorderVars
<1>14. UNCHANGED vars => Steps(recorder[p], recorder'[p], PassEnds(p))
  BY <1>2 DEF vars, recorderVars
<1> QED BY <1>3, <1>4, <1>5, <1>6, <1>7, <1>8, <1>9, <1>10, <1>11, <1>12, <1>13, <1>14 DEF Next

\* What a recorder takes, writes, sends again or queues leaves its mode alone.
LEMMA ModeStays ==
  ASSUME NEW r \in Recorders
  PROVE  /\ Takes(r).mode = r.mode
         /\ [r EXCEPT !.gathered = {}, !.again = FALSE].mode = r.mode
         /\ [r EXCEPT !.again = TRUE].mode = r.mode
         /\ \A x : [r EXCEPT !.queue = Append(@, x)].mode = r.mode
         /\ \A m : [r EXCEPT !.mode = m].mode = m
         /\ Fresh.mode = "open" /\ DownRecorder.mode = "down"
BY DEF Recorders, Takes, Fresh, DownRecorder

\* A process that is down was down already, or goes down.
LEMMA GoesDown ==
  ASSUME RecordersOK, DownIsEmpty, [Next]_vars, NEW p \in Procs, recorder'[p].mode = "down"
  PROVE  /\ recorder'[p] = DownRecorder
         /\ recorder[p].mode = "down" \/ PassEnds(p)
<1>1. Steps(recorder[p], recorder'[p], PassEnds(p))
  BY RecorderGoes
<1>2. recorder[p] \in Recorders
  BY DEF RecordersOK, RecorderOK
<1>3. recorder[p].mode = "down" => recorder[p] = DownRecorder
  BY DEF DownIsEmpty, Up
<1> DEFINE r == recorder[p]
           s == recorder'[p]
<1>4. s.mode = "down" /\ Steps(r, s, PassEnds(p)) /\ r \in Recorders /\ (r.mode = "down" => r = DownRecorder)
  BY <1>1, <1>2, <1>3
<1> HIDE DEF r, s
<1> DEFINE appended == r.mode = "open" /\ \E x \in Items : s = [r EXCEPT !.queue = Append(@, x)]
           moved == \/ r.mode # "down" /\ r.queue # <<>> /\ s = Takes(r)
                    \/ r.mode # "down" /\ s = [r EXCEPT !.gathered = {}, !.again = FALSE]
                    \/ r.mode # "down" /\ s = [r EXCEPT !.again = TRUE]
           turned == \/ r.mode = "open" /\ s = [r EXCEPT !.mode = "closed"]
                     \/ /\ r.mode = "closed" /\ r.queue = <<>> /\ r.gathered = {}
                        /\ s = [r EXCEPT !.mode = "done"]
                     \/ r.mode = "down" /\ s = Fresh
<1>5. ASSUME appended PROVE FALSE
  BY <1>4, <1>5 DEF Recorders
<1>6. ASSUME moved PROVE FALSE
  BY <1>4, <1>6 DEF Recorders, Takes
<1>7. ASSUME turned PROVE FALSE
  BY <1>4, <1>7 DEF Recorders, Fresh
<1>8. \/ s = DownRecorder /\ PassEnds(p)
      \/ s = r
  <2>1. Steps(r, s, PassEnds(p))
    BY <1>4
  <2>2. s = r \/ appended \/ moved \/ turned \/ (s = DownRecorder /\ PassEnds(p))
    BY <2>1, Zenon DEF Steps
  <2> HIDE DEF appended, moved, turned
  <2> QED BY <2>2, <1>5, <1>6, <1>7
<1> QED BY <1>4, <1>8 DEF r, s

\* A process that is down holds nothing, after every step.
LEMMA DownStep == RecordersOK /\ DownIsEmpty /\ [Next]_vars => DownIsEmpty'
BY GoesDown DEF DownIsEmpty, Up

\* The marker is the last that a recorder holds when its goroutine lets it go, and
\* a closed one holds nothing when it is done.
LEMMA LetsGo ==
  ASSUME NEW r, NEW s, NEW ends, RecorderOK(r), Steps(r, s, ends), r.mode = "down" => r = DownRecorder,
         s.mode \in {"open", "done"},
         \/ Marker \in Range(r.queue) /\ Marker \notin Range(s.queue)
         \/ r.mode = "closed"
  PROVE  /\ r.gathered = {} /\ (r.mode = "closed" => r.queue = <<>>)
         /\ \A i, j \in DOMAIN r.queue : i < j => r.queue[j] # Marker
<1>1. r \in Recorders /\ r.queue \in Seq(Items) /\ DOMAIN r.queue = 1 .. Len(r.queue)
  BY DEF RecorderOK, Recorders
<1>2. CASE r.mode = "closed"
  <2>1. r.queue = <<>> /\ r.gathered = {}
    BY <1>1, <1>2, ModeStays DEF Steps
  <2> QED BY <1>1, <2>1
<1>3. CASE r.mode # "closed" /\ Marker \in Range(r.queue) /\ Marker \notin Range(s.queue)
  <2>1. r.queue # <<>> /\ r.mode # "down"
    BY <1>1, <1>3 DEF Range, DownRecorder, Fresh
  <2>2. s.queue # r.queue
    BY <1>3
  <2>3. ASSUME NEW x, s = [r EXCEPT !.queue = Append(@, x)], x \in Items PROVE FALSE
    <3>1. s.queue = Append(r.queue, x)
      BY <1>1, <2>3 DEF Recorders
    <3>2. PICK i \in 1 .. Len(r.queue) : r.queue[i] = Marker
      BY <1>1, <1>3 DEF Range
    <3>3. i \in DOMAIN s.queue /\ s.queue[i] = Marker
      BY <1>1, <2>3, <3>1, <3>2
    <3> QED BY <1>3, <3>3 DEF Range
  <2>4. s = Takes(r)
    BY <1>1, <1>3, <2>1, <2>2, <2>3, ModeStays DEF Steps, Recorders
  <2>5. Head(r.queue) = Marker /\ r.gathered = {}
    <3>1. CASE Head(r.queue) # Marker
      <4>1. s.queue = Tail(r.queue)
        BY <1>1, <2>4, <3>1 DEF Takes, Recorders
      <4>2. PICK i \in 1 .. Len(r.queue) : r.queue[i] = Marker
        BY <1>1, <1>3 DEF Range
      <4>3. i # 1
        BY <1>1, <3>1, <4>2
      <4>4. i - 1 \in DOMAIN s.queue /\ s.queue[i - 1] = Marker
        BY <1>1, <2>1, <4>1, <4>2, <4>3
      <4> QED BY <1>3, <4>4 DEF Range
    <3>2. CASE Head(r.queue) = Marker /\ r.gathered # {}
      BY <2>2, <2>4, <3>2 DEF Takes
    <3> QED BY <3>1, <3>2
  <2>6. \A j \in 1 .. Len(r.queue) : r.queue[j] = Marker => j = 1
    BY <1>1, <2>1, <2>5 DEF RecorderOK
  <2> QED BY <1>1, <1>3, <2>5, <2>6
<1> QED BY <1>2, <1>3

\* Sync and Close return only when what was queued before them was taken
\* (Recorder.Sync, Recorder.Close).
LEMMA DrainedStep == RecordersOK /\ DownIsEmpty /\ [Next]_vars => Drains
<1> SUFFICES ASSUME RecordersOK, DownIsEmpty, [Next]_vars, NEW p \in Procs,
                    \/ Marker \in Range(recorder[p].queue) /\ Marker \notin Range(recorder'[p].queue)
                    \/ recorder[p].mode = "closed",
                    recorder'[p].mode \in {"open", "done"},
                    NEW h \in Waiting(p),
                    \/ h \in recorder[p].gathered \/ recorder[p].mode = "closed"
                    \/ \E i, j \in DOMAIN recorder[p].queue :
                          i < j /\ recorder[p].queue[i] = h /\ recorder[p].queue[j] = Marker
             PROVE  FALSE
  BY Zenon DEF Drains
<1>1. Steps(recorder[p], recorder'[p], PassEnds(p))
  BY RecorderGoes
<1>2. RecorderOK(recorder[p]) /\ (recorder[p].mode = "down" => recorder[p] = DownRecorder)
  BY DEF RecordersOK, DownIsEmpty, Up
<1>3. /\ recorder[p].gathered = {} /\ (recorder[p].mode = "closed" => recorder[p].queue = <<>>)
      /\ \A i, j \in DOMAIN recorder[p].queue : i < j => recorder[p].queue[j] # Marker
  BY <1>1, <1>2, LetsGo
<1>4. recorder[p].mode = "closed"
  BY <1>3
<1> QED BY <1>3, <1>4 DEF Waiting, Range

-----------------------------------------------------------------------------
(* The inductive invariant: passes *)

\* A function over 1 .. n is a sequence of that length,
LEMMA IsList ==
  ASSUME NEW S, NEW n \in Nat, NEW s \in [1 .. n -> S]
  PROVE  s \in Seq(S) /\ Len(s) = n
OBVIOUS

\* whose members are of its set,
LEMMA InList ==
  ASSUME NEW S, NEW s \in Seq(S)
  PROVE  \A i \in 1 .. Len(s) : s[i] \in S
OBVIOUS

\* and of any set that holds them all.
LEMMA ListOf ==
  ASSUME NEW R, NEW S, NEW s \in Seq(R), \A i \in 1 .. Len(s) : s[i] \in S
  PROVE  s \in Seq(S)
<1>1. Len(s) \in Nat /\ s \in [1 .. Len(s) -> S]
  OBVIOUS
<1> QED BY <1>1, IsList

\* What a batch holds, an entry of a pass's list, and a pass.
Players == [Users -> SUBSET Landings]
Entries == [id : Nat, players : Players]
Passes == [pc : {"idle", "list", "read", "flush", "finish", "take", "move", "prune"},
           todo : Seq(Entries), picked : SUBSET Users, taken : Nat]

HoldsIn(f, b) == \E i \in 1 .. Len(f.todo) : f.todo[i].id = b

\* The batch of a pass's list at i is what it was read to be, or has its receipt.
EntryOK(e, bs, rc) == e.id \in rc \/ bs[e.id] = e.players

\* A pass f, of the batches bs, the receipts rc and those of them past FlushKeep.
\* What is old and yet holds somebody, this pass is about to flush.
FlusherOK(f, bs, rc, od) ==
    /\ f \in Passes
    /\ f.pc \in {"flush", "finish"} => Len(f.todo) > 0
    /\ f.pc \in {"read", "flush", "finish"} \/ Len(f.todo) = 0
    /\ \A i \in 1 .. Len(f.todo) : /\ f.todo[i].id \in 1 .. Len(bs)
                                   /\ f.pc # "read" => EntryOK(f.todo[i], bs, rc)
    /\ f.pc = "finish" => f.todo[1].id \in rc \/ bs[f.todo[1].id] = Nobody
    /\ f.pc \notin {"idle", "list"} => \A b \in od : bs[b] = Nobody \/ HoldsIn(f, b)

StoreOK(bs, rc, od) == bs \in Seq(Players) /\ rc \subseteq 1 .. Len(bs) /\ od \subseteq rc

\* What a step of one process leaves of the store for the others: a batch is only
\* ever emptied, once it has its receipt, and a receipt that is awaited is kept.
Leaves(f, bs, rc, od, cs, sc, pd) ==
    /\ StoreOK(bs, rc, od) /\ StoreOK(cs, sc, pd)
    /\ Len(bs) <= Len(cs)
    /\ \A b \in 1 .. Len(bs) : cs[b] = bs[b] \/ (cs[b] = Nobody /\ b \in rc)
    /\ \A b \in rc : HoldsIn(f, b) => b \in sc
    /\ pd \subseteq od

\* A pass stays well formed when another process changes the store as Leaves
\* allows.
LEMMA OthersGoOn ==
  ASSUME NEW f, NEW bs, NEW rc, NEW od, NEW cs, NEW sc, NEW pd,
         FlusherOK(f, bs, rc, od), Leaves(f, bs, rc, od, cs, sc, pd)
  PROVE  FlusherOK(f, cs, sc, pd)
<1>1. f \in Passes /\ Len(f.todo) \in Nat /\ Len(bs) \in Nat /\ Len(cs) \in Nat
  BY DEF FlusherOK, Passes, Leaves, StoreOK
<1>2. \A i \in 1 .. Len(f.todo) : HoldsIn(f, f.todo[i].id)
  BY DEF HoldsIn
<1>3. ASSUME NEW i \in 1 .. Len(f.todo)
      PROVE  /\ f.todo[i].id \in 1 .. Len(cs)
             /\ f.pc # "read" => EntryOK(f.todo[i], cs, sc)
  BY <1>1, <1>2 DEF FlusherOK, Leaves, EntryOK
<1>4. f.pc = "finish" => f.todo[1].id \in sc \/ cs[f.todo[1].id] = Nobody
  <2> SUFFICES ASSUME f.pc = "finish" PROVE f.todo[1].id \in sc \/ cs[f.todo[1].id] = Nobody
    OBVIOUS
  <2>1. 1 \in 1 .. Len(f.todo)
    BY <1>1 DEF FlusherOK
  <2> QED BY <1>2, <2>1 DEF FlusherOK, Leaves
<1>5. ASSUME f.pc \notin {"idle", "list"}, NEW b \in pd
      PROVE  cs[b] = Nobody \/ HoldsIn(f, b)
  BY <1>5 DEF FlusherOK, Leaves, StoreOK
<1> QED BY <1>1, <1>3, <1>4, <1>5 DEF FlusherOK

-----------------------------------------------------------------------------
(* One pass *)

\* A pass that ended is well formed whatever the store holds.
LEMMA PassEndsOK == ASSUME NEW bs, NEW rc, NEW od PROVE FlusherOK(NoPass, bs, rc, od)
<1>1. NoPass \in Passes /\ NoPass.todo = <<>> /\ NoPass.pc = "idle"
  BY DEF NoPass, Passes
<1> QED BY <1>1 DEF FlusherOK

\* A pass that goes on, with its list at another step.
LEMMA GoesOK ==
  ASSUME NEW f, NEW pc \in {"list", "take", "move", "prune"}, NEW picked \in SUBSET Users,
         NEW bs, NEW rc, NEW od, FlusherOK(f, bs, rc, od), Len(f.todo) = 0,
         pc = "list" \/ f.pc \notin {"idle", "list"}
  PROVE  /\ FlusherOK([f EXCEPT !.pc = pc], bs, rc, od)
         /\ FlusherOK([f EXCEPT !.picked = picked, !.pc = pc], bs, rc, od)
<1>1. f \in Passes
  BY DEF FlusherOK
<1>2. ASSUME NEW g, g \in Passes, g.todo = f.todo, g.pc = pc
      PROVE  FlusherOK(g, bs, rc, od)
  BY <1>2 DEF FlusherOK, HoldsIn
<1>3. [f EXCEPT !.pc = pc] \in Passes /\ [f EXCEPT !.pc = pc].todo = f.todo
      /\ [f EXCEPT !.pc = pc].pc = pc
  BY <1>1 DEF Passes
<1> DEFINE g == [f EXCEPT !.picked = picked, !.pc = pc]
<1>4. g \in Passes /\ g.todo = f.todo /\ g.pc = pc
  BY <1>1 DEF Passes
<1> HIDE DEF g
<1>5. FlusherOK(g, bs, rc, od)
  BY <1>2, <1>4
<1> QED BY <1>2, <1>3, <1>5 DEF g

\* The index is read: a batch that is not listed holds nobody.
LEMMA ListOK ==
  ASSUME NEW f \in Passes, NEW bs, NEW rc, NEW od, StoreOK(bs, rc, od),
         NEW X, X = {b \in 1 .. Len(bs) : bs[b] # Nobody}
  PROVE  FlusherOK([f EXCEPT !.pc = "read", !.todo = Listed(X)], bs, rc, od)
<1> DEFINE t == Listed(X)
           g == [f EXCEPT !.pc = "read", !.todo = t]
<1>1. X \in SUBSET Nat /\ IsFiniteSet(X) /\ Len(bs) \in Nat
  BY FS_Interval, FS_Subset DEF StoreOK
<1>2. /\ t \in Seq([id : X, players : {Nobody}])
      /\ \A b \in X : \E i \in 1 .. Len(t) : t[i].id = b
  BY <1>1, ListedIsAll
<1>3. Nobody \in Players /\ [id : X, players : {Nobody}] \subseteq Entries
  BY <1>1 DEF Nobody, Players, Entries
<1>4. t \in Seq(Entries) /\ \A i \in 1 .. Len(t) : t[i].id \in X
  <2> HIDE DEF t
  <2>1. \A i \in 1 .. Len(t) : t[i] \in [id : X, players : {Nobody}]
    BY <1>2, InList
  <2>2. \A i \in 1 .. Len(t) : t[i].id \in X /\ t[i] \in Entries
    BY <1>3, <2>1
  <2> QED BY <1>2, <2>2, ListOf
<1> HIDE DEF t
<1>5. g \in Passes /\ g.todo = t /\ g.pc = "read"
  BY <1>4 DEF Passes
<1> HIDE DEF g
<1>6. FlusherOK(g, bs, rc, od)
  BY <1>1, <1>2, <1>4, <1>5 DEF FlusherOK, HoldsIn, StoreOK
<1> QED BY <1>6 DEF g, t

\* The pass goes to the next batch of its list, or to new ones.
LEMMA ContinuesOK ==
  ASSUME NEW f \in Passes, NEW bs, NEW rc, NEW od,
         \A i \in 1 .. Len(f.todo) : f.todo[i].id \in 1 .. Len(bs) /\ EntryOK(f.todo[i], bs, rc),
         \A b \in od : bs[b] = Nobody \/ HoldsIn(f, b)
  PROVE  FlusherOK(Continues(f), bs, rc, od)
<1> DEFINE g == Continues(f)
<1>1. /\ g \in Passes /\ g.todo = f.todo /\ f.todo \in Seq(Entries)
      /\ g.pc = IF f.todo # <<>> THEN "flush" ELSE IF f.taken < PerPass THEN "take" ELSE "prune"
  BY DEF Continues, Passes
<1> HIDE DEF g
<1>2. FlusherOK(g, bs, rc, od)
  BY <1>1 DEF FlusherOK, HoldsIn
<1> QED BY <1>2 DEF g

\* A pass that has read its batches knows what they hold (StatsBatches).
LEMMA ReadOK ==
  ASSUME NEW f, NEW bs, NEW rc, NEW od, StoreOK(bs, rc, od), FlusherOK(f, bs, rc, od),
         f.pc = "read", NEW held,
         held = [i \in DOMAIN f.todo |-> [id |-> f.todo[i].id, players |-> bs[f.todo[i].id]]]
  PROVE  FlusherOK(Continues([f EXCEPT !.todo = held]), bs, rc, od)
<1> DEFINE g == [f EXCEPT !.todo = held]
<1>1. f \in Passes /\ f.todo \in Seq(Entries) /\ DOMAIN f.todo = 1 .. Len(f.todo)
  BY DEF FlusherOK, Passes
<1>2. \A i \in 1 .. Len(f.todo) : /\ f.todo[i].id \in 1 .. Len(bs)
                                  /\ bs[f.todo[i].id] \in Players
  BY DEF FlusherOK, StoreOK
<1>3. held \in Seq(Entries) /\ Len(held) = Len(f.todo)
  <2>1. \A i \in 1 .. Len(f.todo) : held[i] \in Entries
    BY <1>1, <1>2 DEF Entries
  <2>2. DOMAIN held = 1 .. Len(f.todo) /\ held = [i \in DOMAIN held |-> held[i]]
        /\ Len(f.todo) \in Nat
    BY <1>1
  <2>3. held \in [1 .. Len(f.todo) -> Entries]
    BY <2>1, <2>2
  <2> QED BY <2>2, <2>3, IsList
<1>4. \A i \in 1 .. Len(f.todo) : held[i].id = f.todo[i].id /\ held[i].players = bs[f.todo[i].id]
  BY <1>1
<1>5. g \in Passes /\ g.todo = held
  BY <1>1, <1>3 DEF Passes
<1> HIDE DEF g
<1>6. \A b \in od : bs[b] = Nobody \/ HoldsIn(g, b)
  BY <1>3, <1>4, <1>5 DEF FlusherOK, HoldsIn
<1>7. \A i \in 1 .. Len(g.todo) : g.todo[i].id \in 1 .. Len(bs) /\ EntryOK(g.todo[i], bs, rc)
  BY <1>2, <1>3, <1>4, <1>5 DEF EntryOK
<1>8. FlusherOK(Continues(g), bs, rc, od)
  BY <1>5, <1>6, <1>7, ContinuesOK
<1> QED BY <1>8 DEF g

\* The batch at the head of the list is committed, or held nobody.
LEMMA FlushOK ==
  ASSUME NEW f, NEW bs, NEW rc, NEW od, NEW sc, StoreOK(bs, rc, od), FlusherOK(f, bs, rc, od),
         f.pc = "flush", rc \subseteq sc,
         f.todo[1].players = Nobody \/ f.todo[1].id \in sc
  PROVE  FlusherOK([f EXCEPT !.pc = "finish"], bs, sc, od)
<1> DEFINE g == [f EXCEPT !.pc = "finish"]
<1>1. f \in Passes /\ Len(f.todo) > 0 /\ Len(f.todo) \in Nat
  BY DEF FlusherOK, Passes
<1>2. g \in Passes /\ g.todo = f.todo /\ g.pc = "finish"
  BY <1>1 DEF Passes
<1> HIDE DEF g
<1>3. FlusherOK(g, bs, sc, od)
  BY <1>1, <1>2 DEF FlusherOK, HoldsIn, EntryOK
<1> QED BY <1>3 DEF g

\* What is finished is forgotten: it is in the database, or held nobody.
LEMMA FinishOK ==
  ASSUME NEW f, NEW bs, NEW rc, NEW od, StoreOK(bs, rc, od), FlusherOK(f, bs, rc, od),
         f.pc = "finish", NEW cs, cs = [bs EXCEPT ![f.todo[1].id] = Nobody]
  PROVE  FlusherOK(Continues([f EXCEPT !.todo = Tail(@)]), cs, rc, od)
<1> DEFINE t == Tail(f.todo)
           g == [f EXCEPT !.todo = t]
           k == f.todo[1].id
<1>1. f \in Passes /\ f.todo \in Seq(Entries) /\ Len(f.todo) \in Nat /\ Len(f.todo) > 0
  BY DEF FlusherOK, Passes
<1>2. t \in Seq(Entries) /\ Len(t) = Len(f.todo) - 1
      /\ \A i \in 1 .. Len(t) : t[i] = f.todo[i + 1]
  BY <1>1
<1>3. g \in Passes /\ g.todo = t
  BY <1>1, <1>2 DEF Passes
<1>4. k \in 1 .. Len(bs) /\ (k \in rc \/ bs[k] = Nobody)
  BY <1>1 DEF FlusherOK
<1>5. Len(cs) = Len(bs) /\ \A b \in 1 .. Len(bs) : cs[b] = IF b = k THEN Nobody ELSE bs[b]
  BY <1>4 DEF StoreOK
<1> HIDE DEF g, t, k
<1>6. \A b \in od : cs[b] = Nobody \/ HoldsIn(g, b)
  <2> SUFFICES ASSUME NEW b \in od, b # k, bs[b] # Nobody PROVE HoldsIn(g, b)
    BY <1>5 DEF StoreOK
  <2>1. PICK i \in 1 .. Len(f.todo) : f.todo[i].id = b
    BY DEF FlusherOK, HoldsIn
  <2>2. i # 1
    BY <2>1 DEF k
  <2>3. i - 1 \in 1 .. Len(t) /\ t[i - 1].id = b
    BY <1>1, <1>2, <2>1, <2>2
  <2> QED BY <1>3, <2>3 DEF HoldsIn
<1>7. \A i \in 1 .. Len(g.todo) : g.todo[i].id \in 1 .. Len(cs) /\ EntryOK(g.todo[i], cs, rc)
  <2> SUFFICES ASSUME NEW i \in 1 .. Len(t)
               PROVE  t[i].id \in 1 .. Len(cs) /\ EntryOK(t[i], cs, rc)
    BY <1>3
  <2>1. i + 1 \in 1 .. Len(f.todo) /\ t[i] = f.todo[i + 1]
    BY <1>1, <1>2
  <2>2. t[i].id \in 1 .. Len(bs) /\ EntryOK(t[i], bs, rc)
    BY <2>1 DEF FlusherOK
  <2> QED BY <1>4, <1>5, <2>2 DEF EntryOK
<1>8. FlusherOK(Continues(g), cs, rc, od)
  BY <1>3, <1>6, <1>7, ContinuesOK
<1> QED BY <1>8 DEF g, t

\* Players who waited are in a new batch, which this pass flushes.
LEMMA MoveOK ==
  ASSUME NEW f, NEW bs, NEW rc, NEW od, StoreOK(bs, rc, od), FlusherOK(f, bs, rc, od),
         f.pc = "move", NEW players \in Players, NEW cs, cs = Append(bs, players)
  PROVE  FlusherOK([f EXCEPT !.pc = "flush", !.picked = {}, !.taken = @ + 1,
                             !.todo = <<[id |-> Len(bs) + 1, players |-> players]>>],
                   cs, rc, od)
<1> DEFINE e == [id |-> Len(bs) + 1, players |-> players]
           t == <<e>>
           n == f.taken + 1
           g == [f EXCEPT !.pc = "flush", !.picked = {}, !.taken = n, !.todo = t]
<1>1. f \in Passes /\ n \in Nat /\ Len(bs) \in Nat
  BY DEF FlusherOK, Passes, StoreOK
<1>2. e \in Entries
  BY <1>1 DEF Entries
<1>3. Len(cs) = Len(bs) + 1 /\ cs[Len(bs) + 1] = players
      /\ \A b \in 1 .. Len(bs) : cs[b] = bs[b]
  BY DEF StoreOK
<1>4. t \in Seq(Entries) /\ Len(t) = 1 /\ t[1] = e
  BY <1>2
<1>5. e.id = Len(bs) + 1 /\ e.players = players
  OBVIOUS
<1> HIDE DEF e, t, n
<1>6. g \in Passes /\ g.todo = t /\ g.pc = "flush"
  BY <1>1, <1>4 DEF Passes
<1> HIDE DEF g
<1>7. \A b \in od : cs[b] = Nobody
  BY <1>1, <1>3 DEF FlusherOK, HoldsIn, StoreOK
<1>8. FlusherOK(g, cs, rc, od)
  <2>5. Len(g.todo) = 1 /\ g.todo[1] = e
    BY <1>4, <1>6, Zenon
  <2>1. \A i \in 1 .. Len(g.todo) : i = 1
    BY <2>5
  <2>2. e.id \in 1 .. Len(cs) /\ EntryOK(e, cs, rc)
    BY <1>1, <1>3, <1>5 DEF EntryOK
  <2>3. \A i \in 1 .. Len(g.todo) : /\ g.todo[i].id \in 1 .. Len(cs)
                                    /\ EntryOK(g.todo[i], cs, rc)
    BY <2>1, <2>2, <2>5
  <2>4. Len(g.todo) > 0
    BY <2>5
  <2> QED BY <1>6, <1>7, <2>3, <2>4 DEF FlusherOK
<1> QED BY <1>8 DEF g, t, n, e

\* The batch that a script sent again has found is left for a later pass.
LEMMA LeftOK ==
  ASSUME NEW f, NEW bs, NEW rc, NEW od, StoreOK(bs, rc, od), FlusherOK(f, bs, rc, od),
         f.pc = "move", NEW players \in Players, NEW cs, cs = Append(bs, players)
  PROVE  FlusherOK(Continues([f EXCEPT !.picked = {}, !.taken = @ + 1]), cs, rc, od)
<1> DEFINE n == f.taken + 1
           g == [f EXCEPT !.picked = {}, !.taken = n]
<1>1. f \in Passes /\ n \in Nat /\ Len(bs) \in Nat /\ Len(f.todo) = 0
  BY DEF FlusherOK, Passes, StoreOK
<1>2. \A b \in 1 .. Len(bs) : cs[b] = bs[b]
  BY DEF StoreOK
<1> HIDE DEF n
<1>3. g \in Passes /\ g.todo = f.todo
  BY <1>1 DEF Passes
<1> HIDE DEF g
<1>4. \A b \in od : cs[b] = Nobody
  BY <1>1, <1>2 DEF FlusherOK, HoldsIn, StoreOK
<1>5. \A i \in 1 .. Len(g.todo) : g.todo[i].id \in 1 .. Len(cs) /\ EntryOK(g.todo[i], cs, rc)
  BY <1>1, <1>3
<1>6. FlusherOK(Continues(g), cs, rc, od)
  BY <1>3, <1>4, <1>5, ContinuesOK
<1> QED BY <1>6 DEF g, n

-----------------------------------------------------------------------------
(* The passes, and the stores they share *)

PendingOK == pending \in Players

FlushersOK ==
    /\ flusher = [p \in Procs |-> flusher[p]]
    /\ StoreOK(batches, receipts, old)
    /\ \A p \in Procs : FlusherOK(flusher[p], batches, receipts, old)

\* A step of one pass.
GoesTo(p, f) ==
    /\ flusher' = [flusher EXCEPT ![p] = f]
    /\ FlusherOK(f, batches', receipts', old')
    /\ \A q \in Procs \ {p} :
          Leaves(flusher[q], batches, receipts, old, batches', receipts', old')

\* A step of one pass that leaves it well formed leaves every pass well formed.
LEMMA OnePass ==
  ASSUME FlushersOK, NEW p \in Procs, NEW f, GoesTo(p, f), StoreOK(batches', receipts', old')
  PROVE  FlushersOK'
<1>1. flusher' = [q \in Procs |-> flusher'[q]]
  BY DEF FlushersOK, GoesTo
<1>2. \A q \in Procs : flusher'[q] = IF q = p THEN f ELSE flusher[q]
  BY DEF FlushersOK, GoesTo
<1>3. ASSUME NEW q \in Procs PROVE FlusherOK(flusher'[q], batches', receipts', old')
  <2>1. CASE q = p
    BY <1>2, <2>1 DEF GoesTo
  <2>2. CASE q # p
    <3>1. FlusherOK(flusher[q], batches, receipts, old)
      BY DEF FlushersOK
    <3>2. Leaves(flusher[q], batches, receipts, old, batches', receipts', old')
      BY <2>2 DEF GoesTo
    <3>3. FlusherOK(flusher[q], batches', receipts', old')
      BY <3>1, <3>2, OthersGoOn
    <3> QED BY <1>2, <2>2, <3>3
  <2> QED BY <2>1, <2>2
<1> QED BY <1>1, <1>3 DEF FlushersOK

\* A step of a pass that changes nothing in the stores.
LEMMA OnePassOnly ==
  ASSUME FlushersOK, NEW p \in Procs, NEW f, flusher' = [flusher EXCEPT ![p] = f],
         FlusherOK(f, batches, receipts, old), UNCHANGED <<batches, receipts, old>>
  PROVE  FlushersOK'
<1>1. batches' = batches /\ receipts' = receipts /\ old' = old
  OBVIOUS
<1>2. StoreOK(batches, receipts, old)
  BY DEF FlushersOK
<1>3. \A q \in Procs : Leaves(flusher[q], batches, receipts, old, batches', receipts', old')
  BY <1>1, <1>2 DEF Leaves, StoreOK
<1>4. GoesTo(p, f)
  BY <1>1, <1>3 DEF GoesTo
<1>5. StoreOK(batches', receipts', old')
  BY <1>1, <1>2
<1> QED BY <1>4, <1>5, OnePass

\* A process that is down makes no pass.
IdleOK == \A p \in Procs : ~Up(p) => flusher[p].pc = "idle"

\* A pass runs only in a process that is up, after every step.
LEMMA IdleStep ==
  RecordersOK /\ DownIsEmpty /\ FlushersOK /\ IdleOK /\ [Next]_vars => IdleOK'
<1> SUFFICES ASSUME RecordersOK, DownIsEmpty, FlushersOK, IdleOK, [Next]_vars,
                    NEW p \in Procs, recorder'[p].mode = "down"
             PROVE  flusher'[p].pc = "idle"
  BY DEF IdleOK, Up
<1>1. ASSUME PassEnds(p) PROVE flusher'[p].pc = "idle"
  BY <1>1 DEF PassEnds, FlushersOK, NoPass
<1>2. ASSUME recorder[p].mode = "down" PROVE flusher[p].pc = "idle"
  BY <1>2 DEF IdleOK, Up
<1>3. recorder[p].mode = "down" \/ PassEnds(p)
  BY GoesDown
<1>4. ASSUME recorder[p].mode = "down", NEW q \in Procs,
             StartPass(q) \/ Pass(q) \/ Crash(q) \/ Exit(q) \/ Start(q)
      PROVE  flusher'[p].pc = "idle"
  <2>1. CASE q = p
    <3>1. ~StartPass(p) /\ ~Pass(p)
      BY <1>2, <1>4 DEF StartPass, Up, Pass, List, Read, Flush, Finish, Pick, Move, Prune
    <3>2. ~Start(p)
      BY DEF Start, RecordersOK, Fresh
    <3> QED BY <1>1, <1>4, <2>1, <3>1, <3>2 DEF Crash, Exit, Halts
  <2>2. CASE q # p
    <3>1. \E f : flusher' = [flusher EXCEPT ![q] = f]
      BY <1>4 DEF StartPass, Pass, List, Read, Flush, Finish, Pick, Move, Prune, Crash, Exit,
                  Halts, Start, Goes, PassEnds
    <3> QED BY <1>2, <1>4, <2>2, <3>1 DEF FlushersOK
  <2> QED BY <2>1, <2>2
<1>5. ASSUME recorder[p].mode = "down", UNCHANGED flusher PROVE flusher'[p].pc = "idle"
  BY <1>2, <1>5
<1>6. CASE recorder[p].mode = "down"
  BY <1>4, <1>5, <1>6 DEF Next, vars, Record, Sync, Gather, Write, Close, Closed, Age, Delete, Forget
<1> QED BY <1>1, <1>3, <1>6

\* Every step keeps the passes and the store well formed.
LEMMA FlushersStep ==
  PendingOK /\ IdleOK /\ FlushersOK /\ [Next]_vars => FlushersOK'
<1> SUFFICES ASSUME PendingOK, IdleOK, FlushersOK, [Next]_vars PROVE FlushersOK'
  OBVIOUS
<1>1. ASSUME UNCHANGED <<flusher, batches, receipts, old>> PROVE FlushersOK'
  BY <1>1 DEF FlushersOK
<1> DEFINE bs == batches
           rc == receipts
           od == old
<1>2. StoreOK(bs, rc, od)
  BY DEF FlushersOK
<1>3. ASSUME NEW p \in Procs
      PROVE  FlusherOK(flusher[p], bs, rc, od) /\ flusher[p] \in Passes
  BY DEF FlushersOK, FlusherOK
\* A pass that ends, with nothing done in the stores.
<1>4. ASSUME NEW p \in Procs, PassEnds(p), UNCHANGED <<batches, receipts, old>>
      PROVE  FlushersOK'
  BY <1>4, PassEndsOK, OnePassOnly DEF PassEnds
<1>6. ASSUME NEW p \in Procs, NEW h \in Hands, Record(p, h) PROVE FlushersOK'
  BY <1>1, <1>6 DEF Record, storeVars, databaseVars
<1>5. ASSUME NEW p \in Procs, Sync(p) \/ Gather(p) \/ Write(p) \/ Close(p) \/ Closed(p)
      PROVE  FlushersOK'
  BY <1>1, <1>5 DEF Sync, Gather, Write, Close, Closed, storeVars, databaseVars
<1>7. ASSUME NEW p \in Procs, StartPass(p) \/ Start(p) PROVE FlushersOK'
  <2> DEFINE f == [flusher[p] EXCEPT !.pc = "list"]
  <2>1. flusher' = [flusher EXCEPT ![p] = f] /\ UNCHANGED <<batches, receipts, old>>
    BY <1>7 DEF StartPass, Start, Goes, storeVars, databaseVars
  <2>2. Len(flusher[p].todo) = 0
    BY <1>3, <1>7 DEF StartPass, Start, IdleOK, FlusherOK
  <2>3. FlusherOK(f, bs, rc, od)
    <3>1. {} \in SUBSET Users
      OBVIOUS
    <3> QED BY <1>3, <2>2, <3>1, GoesOK
  <2> QED BY <2>1, <2>3, OnePassOnly
<1>8. ASSUME NEW p \in Procs, List(p) PROVE FlushersOK'
  <2>1. CASE PassEnds(p)
    BY <1>4, <1>8, <2>1 DEF List, storeVars, databaseVars
  <2>2. CASE flusher' = [flusher EXCEPT ![p].pc = "read", ![p].todo = Listed(Open)]
    <3> DEFINE f == [flusher[p] EXCEPT !.pc = "read", !.todo = Listed(Open)]
    <3>1. flusher' = [flusher EXCEPT ![p] = f]
      BY <1>3, <2>2 DEF FlushersOK
    <3>2. Open = {b \in 1 .. Len(bs) : bs[b] # Nobody}
      BY <1>2 DEF Open, StoreOK
    <3>3. FlusherOK(f, bs, rc, od)
      BY <1>2, <1>3, <3>2, ListOK
    <3>4. UNCHANGED <<batches, receipts, old>>
      BY <1>8 DEF List, storeVars, databaseVars
    <3> QED BY <3>1, <3>3, <3>4, OnePassOnly
  <2>3. CASE Open = {} /\ flusher' = [flusher EXCEPT ![p] = Continues(@)]
    <3> DEFINE f == Continues(flusher[p])
    <3>1. flusher' = [flusher EXCEPT ![p] = f]
      BY <2>3
    <3>2. Len(flusher[p].todo) = 0
      BY <1>3, <1>8 DEF List, FlusherOK
    <3>3. \A b \in od : bs[b] = Nobody
      BY <1>2, <2>3 DEF Open, StoreOK
    <3>4. FlusherOK(f, bs, rc, od)
      BY <1>3, <3>2, <3>3, ContinuesOK
    <3>5. UNCHANGED <<batches, receipts, old>>
      BY <1>8 DEF List, storeVars, databaseVars
    <3> HIDE DEF f
    <3> QED BY <3>1, <3>4, <3>5, OnePassOnly
  <2> QED BY <1>8, <2>1, <2>2, <2>3 DEF List
<1>9. ASSUME NEW p \in Procs, Read(p) PROVE FlushersOK'
  <2> DEFINE todo == flusher[p].todo
             held == [i \in DOMAIN todo |-> [id |-> todo[i].id, players |-> batches[todo[i].id]]]
             f == Continues([flusher[p] EXCEPT !.todo = held])
  <2>1. CASE PassEnds(p)
    BY <1>4, <1>9, <2>1 DEF Read, storeVars, databaseVars
  <2>2. CASE flusher' = [flusher EXCEPT ![p] = f]
    <3>1. FlusherOK(f, bs, rc, od)
      BY <1>2, <1>3, <1>9, ReadOK DEF Read
    <3>2. UNCHANGED <<batches, receipts, old>>
      BY <1>9 DEF Read, storeVars, databaseVars
    <3> QED BY <2>2, <3>1, <3>2, OnePassOnly
  <2> QED BY <1>9, <2>1, <2>2 DEF Read
<1>10. ASSUME NEW p \in Procs, Pick(p) PROVE FlushersOK'
  <2>1. CASE PassEnds(p)
    BY <1>4, <1>10, <2>1 DEF Pick, storeVars, databaseVars
  <2>2. ASSUME NEW S \in SUBSET Users, NEW pc \in {"prune", "move"},
               flusher' = [flusher EXCEPT ![p].picked = S, ![p].pc = pc]
        PROVE  FlushersOK'
    <3> DEFINE f == [flusher[p] EXCEPT !.picked = S, !.pc = pc]
    <3>1. flusher' = [flusher EXCEPT ![p] = f]
      BY <1>3, <2>2 DEF FlushersOK
    <3>2. Len(flusher[p].todo) = 0 /\ flusher[p].pc \notin {"idle", "list"}
      BY <1>3, <1>10 DEF Pick, FlusherOK
    <3>3. FlusherOK(f, bs, rc, od)
      BY <1>3, <3>2, GoesOK
    <3>4. UNCHANGED <<batches, receipts, old>>
      BY <1>10 DEF Pick, storeVars, databaseVars
    <3> QED BY <3>1, <3>3, <3>4, OnePassOnly
  <2>3. Dirty \in SUBSET Users
    BY DEF Dirty
  <2>4. CASE \E S \in SUBSET Dirty : flusher' = [flusher EXCEPT ![p].picked = S,
                ![p].pc = IF S = {} THEN "prune" ELSE "move"]
    BY <2>2, <2>3, <2>4
  <2> QED BY <1>10, <2>1, <2>4 DEF Pick
\* What the steps below leave for the other passes.
<1>11. ASSUME NEW q \in Procs, NEW sc, rc \subseteq sc, sc \subseteq 1 .. Len(bs)
       PROVE  /\ StoreOK(bs, sc, od)
              /\ Leaves(flusher[q], bs, rc, od, bs, sc, od)
  BY <1>2, <1>11 DEF StoreOK, Leaves
<1>12. ASSUME NEW p \in Procs, Flush(p) PROVE FlushersOK'
  <2> DEFINE b == Head(flusher[p].todo)
             f == [flusher[p] EXCEPT !.pc = "finish"]
  <2>1. /\ flusher[p].pc = "flush" /\ b = flusher[p].todo[1]
        /\ b.id \in 1 .. Len(bs)
    BY <1>3, <1>12 DEF Flush, FlusherOK, Passes
  <2>2. /\ batches' = bs /\ old' = od
        /\ receipts' = rc \/ receipts' = rc \cup {b.id}
    BY <1>12 DEF Flush, Commits, storeVars
  <2>3. rc \subseteq receipts' /\ receipts' \subseteq 1 .. Len(bs)
    BY <1>2, <2>1, <2>2 DEF StoreOK
  <2>4. PassEnds(p) \/ (Goes(p, "finish") /\ (b.players = Nobody \/ b.id \in receipts'))
    BY <1>12 DEF Flush, Commits
  <2>5. PassEnds(p) => GoesTo(p, NoPass)
    BY <1>11, <2>2, <2>3, PassEndsOK DEF PassEnds, GoesTo
  <2>6. ASSUME Goes(p, "finish"), b.players = Nobody \/ b.id \in receipts' PROVE GoesTo(p, f)
    <3>1. FlusherOK(f, bs, receipts', od)
      BY <1>2, <1>3, <2>1, <2>3, <2>6, FlushOK
    <3> QED BY <1>11, <2>2, <2>3, <2>6, <3>1 DEF GoesTo, Goes
  <2>7. StoreOK(batches', receipts', old')
    BY <1>11, <2>2, <2>3
  <2> HIDE DEF f, b
  <2> QED BY <2>4, <2>5, <2>6, <2>7, OnePass
<1>13. ASSUME NEW p \in Procs, Finish(p) PROVE FlushersOK'
  <2> DEFINE b == Head(flusher[p].todo)
             f == Continues([flusher[p] EXCEPT !.todo = Tail(@)])
             cs == [bs EXCEPT ![b.id] = Nobody]
  <2>1. /\ flusher[p].pc = "finish" /\ b = flusher[p].todo[1]
        /\ b.id \in 1 .. Len(bs) /\ (b.id \in rc \/ bs[b.id] = Nobody)
    BY <1>3, <1>13 DEF Finish, FlusherOK, Passes
  <2>2. receipts' = rc /\ old' = od
    BY <1>13 DEF Finish, databaseVars
  <2>3. CASE UNCHANGED batches /\ PassEnds(p)
    BY <1>4, <2>2, <2>3
  <2>4. CASE batches' = cs /\ (PassEnds(p) \/ flusher' = [flusher EXCEPT ![p] = f])
    <3>1. Nobody \in Players
      BY DEF Nobody, Players
    <3>2. Len(cs) = Len(bs) /\ cs \in Seq(Players)
          /\ \A k \in 1 .. Len(bs) : cs[k] = IF k = b.id THEN Nobody ELSE bs[k]
      BY <1>2, <2>1, <3>1 DEF StoreOK
    <3>3. StoreOK(cs, rc, od)
      BY <1>2, <3>2 DEF StoreOK
    <3>4. \A q \in Procs : Leaves(flusher[q], bs, rc, od, cs, rc, od)
      BY <1>2, <2>1, <3>2, <3>3 DEF Leaves, StoreOK
    <3>5. FlusherOK(f, cs, rc, od)
      BY <1>2, <1>3, <2>1, FinishOK
    <3>6. PassEnds(p) => GoesTo(p, NoPass)
      BY <2>2, <2>4, <3>4, PassEndsOK DEF PassEnds, GoesTo
    <3>7. flusher' = [flusher EXCEPT ![p] = f] => GoesTo(p, f)
      BY <2>2, <2>4, <3>4, <3>5 DEF GoesTo
    <3>8. StoreOK(batches', receipts', old')
      BY <2>2, <2>4, <3>3
    <3> HIDE DEF f, cs
    <3> QED BY <2>4, <3>6, <3>7, <3>8, OnePass
  <2> QED BY <1>13, <2>3, <2>4 DEF Finish
<1>14. ASSUME NEW p \in Procs, Move(p) PROVE FlushersOK'
  <2> DEFINE players == [u \in Users |-> IF u \in flusher[p].picked THEN pending[u] ELSE {}]
             cs == Append(bs, players)
             f == [flusher[p] EXCEPT !.pc = "flush", !.picked = {}, !.taken = @ + 1,
                                   !.todo = <<[id |-> Len(batches) + 1, players |-> players]>>]
             left == Continues([flusher[p] EXCEPT !.picked = {}, !.taken = @ + 1])
  <2>1. flusher[p].pc = "move" /\ receipts' = rc /\ old' = od
    BY <1>14 DEF Move, databaseVars
  <2>2. CASE batches' = bs /\ PassEnds(p)
    BY <1>4, <2>1, <2>2
  <2>3. CASE batches' = bs /\ flusher' = [flusher EXCEPT ![p].pc = "prune"]
    <3> DEFINE g == [flusher[p] EXCEPT !.pc = "prune"]
    <3>1. Len(flusher[p].todo) = 0
      BY <1>3, <2>1 DEF FlusherOK
    <3>2. FlusherOK(g, bs, rc, od)
      <4>1. {} \in SUBSET Users
        OBVIOUS
      <4> QED BY <1>3, <2>1, <3>1, <4>1, GoesOK
    <3>3. flusher' = [flusher EXCEPT ![p] = g]
      BY <2>3
    <3> QED BY <2>1, <2>3, <3>2, <3>3, OnePassOnly
  <2>4. CASE /\ batches' = cs
             /\ \/ PassEnds(p)
                \/ flusher' = [flusher EXCEPT ![p] = f]
                \/ flusher' = [flusher EXCEPT ![p] = left]
    <3>1. players \in Players
      BY DEF PendingOK, Players
    <3> HIDE DEF players
    <3>2. Len(cs) = Len(bs) + 1 /\ cs \in Seq(Players) /\ \A k \in 1 .. Len(bs) : cs[k] = bs[k]
      BY <1>2, <3>1 DEF StoreOK
    <3>3. StoreOK(cs, rc, od)
      BY <1>2, <3>2 DEF StoreOK
    <3>4. \A q \in Procs : Leaves(flusher[q], bs, rc, od, cs, rc, od)
      BY <1>2, <3>2, <3>3 DEF Leaves, StoreOK
    <3>5. FlusherOK(f, cs, rc, od)
      BY <1>2, <1>3, <2>1, <3>1, MoveOK
    <3>6. FlusherOK(left, cs, rc, od)
      BY <1>2, <1>3, <2>1, <3>1, LeftOK
    <3>7. PassEnds(p) => GoesTo(p, NoPass)
      BY <2>1, <2>4, <3>4, PassEndsOK DEF PassEnds, GoesTo
    <3>8. flusher' = [flusher EXCEPT ![p] = f] => GoesTo(p, f)
      BY <2>1, <2>4, <3>4, <3>5 DEF GoesTo
    <3>9. flusher' = [flusher EXCEPT ![p] = left] => GoesTo(p, left)
      BY <2>1, <2>4, <3>4, <3>6 DEF GoesTo
    <3>10. StoreOK(batches', receipts', old')
      BY <2>1, <2>4, <3>3
    <3> HIDE DEF f, left, cs
    <3> QED BY <2>4, <3>7, <3>8, <3>9, <3>10, OnePass
  <2>5. \/ batches' = bs /\ PassEnds(p)
        \/ batches' = bs /\ flusher' = [flusher EXCEPT ![p].pc = "prune"]
        \/ /\ batches' = cs
           /\ \/ PassEnds(p)
              \/ flusher' = [flusher EXCEPT ![p] = f]
              \/ flusher' = [flusher EXCEPT ![p] = left]
    BY <1>14 DEF Move, storeVars
  <2> QED BY <2>2, <2>3, <2>4, <2>5
<1>15. ASSUME NEW p \in Procs, Prune(p) PROVE FlushersOK'
  <2> DEFINE gone == {b \in old : \A q \in Procs \ {p} : ~Holds(q, b)}
  <2>1. flusher[p].pc = "prune" /\ PassEnds(p) /\ batches' = bs
    BY <1>15 DEF Prune, storeVars
  <2>2. CASE receipts' = rc /\ old' = od
    BY <1>4, <2>1, <2>2
  <2>3. CASE receipts' = rc \ gone /\ old' = od \cap receipts'
    <3>1. StoreOK(bs, receipts', old')
      BY <1>2, <2>3 DEF StoreOK
    <3>2. ASSUME NEW q \in Procs \ {p}, NEW b \in rc, HoldsIn(flusher[q], b) PROVE b \in receipts'
      <4>1. Holds(q, b)
        BY <1>3, <3>2 DEF Holds, HoldsIn, Passes
      <4> QED BY <2>3, <4>1
    <3>3. \A q \in Procs \ {p} : Leaves(flusher[q], bs, rc, od, bs, receipts', old')
      BY <1>2, <2>3, <3>1, <3>2 DEF Leaves, StoreOK
    <3>4. GoesTo(p, NoPass)
      BY <2>1, <3>3, PassEndsOK DEF PassEnds, GoesTo
    <3> QED BY <2>1, <3>1, <3>4, OnePass
  <2> QED BY <1>15, <2>2, <2>3 DEF Prune
<1>16. ASSUME NEW p \in Procs, Crash(p) \/ Exit(p) PROVE FlushersOK'
  BY <1>4, <1>16 DEF Crash, Exit, Halts, storeVars, databaseVars
<1>17. ASSUME Age PROVE FlushersOK'
  <2>1. /\ batches' = bs /\ receipts' = rc /\ old' = rc /\ flusher' = flusher
        /\ \A p \in Procs : flusher[p].pc = "idle"
    BY <1>17 DEF Age, storeVars
  <2>2. StoreOK(bs, rc, rc)
    BY <1>2 DEF StoreOK
  <2>3. \A p \in Procs : FlusherOK(flusher[p], bs, rc, rc)
    BY <1>3, <2>1 DEF FlusherOK
  <2> QED BY <2>1, <2>2, <2>3 DEF FlushersOK
<1>18. ASSUME NEW u \in Users, Delete(u) \/ Forget(u) PROVE FlushersOK'
  BY <1>1, <1>18 DEF Delete, Forget, storeVars, databaseVars
<1>19. UNCHANGED vars => FlushersOK'
  BY <1>1 DEF vars, storeVars, databaseVars
<1> QED BY <1>5, <1>6, <1>7, <1>8, <1>9, <1>10, <1>12, <1>13, <1>14, <1>15, <1>16, <1>17,
           <1>18, <1>19 DEF Next, Pass

-----------------------------------------------------------------------------
(* The inductive invariant: what has landed *)

\* The recorder is done with a hand, or its client is about to send it again.
Ended(h) == fate[h] \in {"written", "dropped"}
Resending(h) == \E p \in Procs : recorder[p].again /\ h \in recorder[p].gathered

\* Only an attempt that was made has landed.
LandedOK ==
    /\ landed \subseteq Landings
    /\ \A l \in landed : Ended(l[1]) \/ (l[2] = 1 /\ Resending(l[1]))

\* What a write is about to fold in has not landed.
LEMMA NotYetLanded ==
  ASSUME RecordersOK, LandedOK, NEW p \in Procs, NEW h \in recorder[p].gathered
  PROVE  <<h, IF recorder[p].again THEN 2 ELSE 1>> \notin landed
<1>1. \A q \in Procs : recorder[q].gathered \subseteq InHand(recorder[q])
  BY DEF RecordersOK, RecorderOK, Recorders, InHand
<1>2. fate[h] = "queued"
  BY <1>1 DEF RecordersOK
<1>3. ASSUME NEW q \in Procs, h \in recorder[q].gathered PROVE q = p
  BY <1>1, <1>3 DEF RecordersOK
<1>4. ASSUME NEW n \in {1, 2}, <<h, n>> \in landed PROVE n = 1 /\ recorder[p].again
  BY <1>2, <1>3, <1>4 DEF LandedOK, Ended, Resending
<1> QED BY <1>4

\* Every step keeps LandedOK: a hand that is sent again is written or dropped in the
\* end, and stays so.
LEMMA LandedStep == RecordersOK /\ DownIsEmpty /\ LandedOK /\ [Next]_vars => LandedOK'
<1> SUFFICES ASSUME RecordersOK, DownIsEmpty, LandedOK, [Next]_vars PROVE LandedOK'
  OBVIOUS
<1>1. ASSUME landed' = landed, \A h \in Hands : Ended(h) => Ended(h)',
             \A h \in Hands : Resending(h) => Ended(h)' \/ Resending(h)'
      PROVE  LandedOK'
  BY <1>1 DEF LandedOK, Landings
<1>2. /\ fate \in [Hands -> Places] /\ recorder = [p \in Procs |-> recorder[p]]
      /\ \A p \in Procs : recorder[p] \in Recorders /\ recorder[p].gathered \subseteq Hands
      /\ \A p \in Procs : \A h \in recorder[p].gathered : fate[h] = "queued"
  BY DEF RecordersOK, RecorderOK, Recorders, InHand
\* Of a recorder's step other than a write or the end of its process.
<1>3. ASSUME landed' = landed, \A h \in Hands : Ended(h) => fate'[h] = fate[h], NEW p \in Procs, NEW r,
             recorder' = [recorder EXCEPT ![p] = r],
             recorder[p].again => r.again /\ r.gathered = recorder[p].gathered
      PROVE  LandedOK'
  <2>1. \A q \in Procs : recorder'[q] = IF q = p THEN r ELSE recorder[q]
    BY <1>2, <1>3
  <2>2. \A h \in Hands : Resending(h) => Resending(h)'
    BY <1>3, <2>1 DEF Resending
  <2>3. \A h \in Hands : Ended(h) => Ended(h)'
    BY <1>3 DEF Ended
  <2> QED BY <1>1, <1>3, <2>2, <2>3
<1>4. ASSUME landed' = landed, recorder' = recorder, \A h \in Hands : Ended(h) => fate'[h] = fate[h]
      PROVE  LandedOK'
  BY <1>1, <1>4 DEF Ended, Resending
<1>5. ASSUME NEW p \in Procs, NEW h \in Hands, Record(p, h) PROVE LandedOK'
  <2>1. landed' = landed /\ \A g \in Hands : Ended(g) => fate'[g] = fate[g]
    BY <1>2, <1>5 DEF Record, Ended, storeVars
  <2>2. CASE recorder' = [recorder EXCEPT ![p].queue = Append(@, h)]
    <3> DEFINE r == [recorder[p] EXCEPT !.queue = Append(@, h)]
    <3>1. recorder' = [recorder EXCEPT ![p] = r]
      BY <2>2
    <3>2. r.again = recorder[p].again /\ r.gathered = recorder[p].gathered
      BY <1>2 DEF Recorders
    <3> HIDE DEF r
    <3> QED BY <1>3, <2>1, <3>1, <3>2
  <2> QED BY <1>4, <1>5, <2>1, <2>2 DEF Record
<1>6. ASSUME NEW p \in Procs, Sync(p) PROVE LandedOK'
  <2> DEFINE r == [recorder[p] EXCEPT !.queue = Append(@, Marker)]
  <2>1. landed' = landed /\ fate' = fate /\ recorder' = [recorder EXCEPT ![p] = r]
    BY <1>6 DEF Sync, storeVars
  <2>2. r.again = recorder[p].again /\ r.gathered = recorder[p].gathered
    BY <1>2 DEF Recorders
  <2> HIDE DEF r
  <2> QED BY <1>3, <2>1, <2>2
<1>7. ASSUME NEW p \in Procs, Gather(p) PROVE LandedOK'
  BY <1>3, <1>7 DEF Gather, storeVars
<1>8. ASSUME NEW p \in Procs, Close(p) \/ Closed(p) PROVE LandedOK'
  <2>1. PICK m \in {"closed", "done"} :
               recorder' = [recorder EXCEPT ![p] = [recorder[p] EXCEPT !.mode = m]]
    BY <1>8 DEF Close, Closed
  <2> DEFINE r == [recorder[p] EXCEPT !.mode = m]
  <2>2. r.again = recorder[p].again /\ r.gathered = recorder[p].gathered
    BY <1>2 DEF Recorders
  <2>3. landed' = landed /\ fate' = fate /\ recorder' = [recorder EXCEPT ![p] = r]
    BY <1>8, <2>1 DEF Close, Closed, storeVars
  <2> HIDE DEF r
  <2> QED BY <1>3, <2>2, <2>3
<1>9. ASSUME NEW p \in Procs, Start(p) PROVE LandedOK'
  <2>1. ~recorder[p].again
    BY <1>9 DEF Start, DownIsEmpty, DownRecorder, Fresh
  <2> QED BY <1>3, <1>9, <2>1 DEF Start, storeVars
<1>10. ASSUME NEW p \in Procs, Write(p) PROVE LandedOK'
  <2> DEFINE hands == recorder[p].gathered
             n == IF recorder[p].again THEN 2 ELSE 1
             counters == {<<h, n>> : h \in hands}
  <2>1. /\ hands \subseteq Hands /\ \A h \in hands : fate[h] = "queued"
        /\ n \in {1, 2} /\ landed \subseteq landed' /\ landed' \subseteq landed \cup counters
    BY <1>2, <1>10 DEF Write
  <2>2. landed' \subseteq Landings
    BY <2>1 DEF LandedOK, Landings
  <2>3. CASE /\ ~recorder[p].again /\ recorder' = [recorder EXCEPT ![p].again = TRUE]
             /\ fate' = fate
    <3>1. /\ recorder'[p].again /\ recorder'[p].gathered = hands
          /\ \A q \in Procs : q # p => recorder'[q] = recorder[q]
      BY <1>2, <2>3 DEF Recorders
    <3>2. \A h \in Hands : (Ended(h) => Ended(h)') /\ (Resending(h) => Resending(h)')
      BY <2>3, <3>1 DEF Ended, Resending
    <3>3. \A h \in hands : Resending(h)'
      BY <3>1 DEF Resending
    <3>4. ASSUME NEW l \in landed' PROVE Ended(l[1])' \/ (l[2] = 1 /\ Resending(l[1])')
      <4>1. CASE l \in landed
        BY <3>2, <4>1 DEF LandedOK, Landings
      <4>2. CASE l \in counters
        BY <2>3, <3>3, <4>2
      <4> QED BY <2>1, <4>1, <4>2
    <3> QED BY <2>2, <3>4 DEF LandedOK
  <2>4. ASSUME NEW f \in {"written", "dropped"},
               fate' = [h \in Hands |-> IF h \in hands THEN f ELSE fate[h]],
               recorder' = [recorder EXCEPT ![p].gathered = {}, ![p].again = FALSE]
        PROVE  LandedOK'
    <3>1. /\ \A h \in hands : Ended(h)'
          /\ \A h \in Hands : Ended(h) => Ended(h)'
      BY <2>1, <2>4 DEF Ended
    <3>2. \A q \in Procs : q # p => recorder'[q] = recorder[q]
      BY <1>2, <2>4
    <3>3. \A h \in Hands : Resending(h) => Ended(h)' \/ Resending(h)'
      BY <3>1, <3>2 DEF Resending
    <3>4. ASSUME NEW l \in landed' PROVE Ended(l[1])' \/ (l[2] = 1 /\ Resending(l[1])')
      <4>1. CASE l \in landed
        BY <3>1, <3>3, <4>1 DEF LandedOK, Landings
      <4>2. CASE l \in counters
        BY <3>1, <4>2
      <4> QED BY <2>1, <4>1, <4>2
    <3> QED BY <2>2, <3>4 DEF LandedOK
  <2> QED BY <1>10, <2>3, <2>4 DEF Write
<1>11. ASSUME NEW p \in Procs, Crash(p) \/ Exit(p) PROVE LandedOK'
  <2>1. /\ fate' = [h \in Hands |-> IF h \in Waiting(p) THEN "dropped" ELSE fate[h]]
        /\ recorder' = [recorder EXCEPT ![p] = DownRecorder] /\ landed' = landed
    BY <1>11 DEF Crash, Exit, Halts, storeVars
  <2>2. \A h \in recorder[p].gathered : h \in Hands /\ h \in Waiting(p)
    BY <1>2 DEF Waiting
  <2>3. \A h \in Hands : Ended(h) => Ended(h)'
    BY <2>1 DEF Ended
  <2>4. \A q \in Procs : q # p => recorder'[q] = recorder[q]
    BY <1>2, <2>1
  <2>5. \A h \in Hands : Resending(h) => Ended(h)' \/ Resending(h)'
    BY <2>1, <2>2, <2>4 DEF Resending, Ended
  <2> QED BY <1>1, <2>1, <2>3, <2>5
<1>12. ASSUME NEW p \in Procs, StartPass(p) \/ Pass(p) PROVE LandedOK'
  BY <1>4, <1>12 DEF StartPass, Pass, List, Read, Flush, Finish, Pick, Move, Prune,
                     recorderVars, storeVars
<1>13. Age => LandedOK'
  BY <1>4 DEF Age, recorderVars, storeVars
<1>14. ASSUME NEW u \in Users, Delete(u) \/ Forget(u) PROVE LandedOK'
  BY <1>4, <1>14 DEF Delete, Forget, recorderVars, storeVars
<1>15. UNCHANGED vars => LandedOK'
  BY <1>4 DEF vars, recorderVars, storeVars
<1> QED BY <1>5, <1>6, <1>7, <1>8, <1>9, <1>10, <1>11, <1>12, <1>13, <1>14, <1>15 DEF Next

-----------------------------------------------------------------------------
(* The inductive invariant: where what landed is *)

\* The batches without a receipt in which l counts for u.
Uncommitted(bs, rc, l, u) == {b \in 1 .. Len(bs) \ rc : l \in bs[b][u]}

\* Where a landing is for a player, by whether it has landed and waits, the batches that
\* are yet to commit it, and how often it has been added.
Placed(has, waits, in, added) ==
    \/ ~has /\ ~waits /\ in = {} /\ added = 0
    \/ has /\ waits /\ in = {} /\ added = 0
    \/ has /\ ~waits /\ (\E b \in in : in = {b}) /\ added = 0
    \/ has /\ ~waits /\ in = {} /\ added = 1

PlacedOf(l, u) ==
    Placed(l \in landed, l \in pending[u], Uncommitted(batches, receipts, l, u), rows[u][l])

OnceOK ==
    /\ PendingOK
    /\ rows \in [Users -> [Landings -> Nat]]
    /\ deleted \subseteq Users
    /\ \A l \in Landings, u \in Users \ deleted : PlacedOf(l, u)

\* A landing that stays where it is.
LEMMA StaysPlaced ==
  ASSUME NEW l \in Landings, NEW u \in Users, PlacedOf(l, u),
         (l \in landed') = (l \in landed), (l \in pending'[u]) = (l \in pending[u]),
         Uncommitted(batches', receipts', l, u) = Uncommitted(batches, receipts, l, u),
         rows'[u][l] = rows[u][l]
  PROVE  PlacedOf(l, u)'
BY DEF PlacedOf, Placed

\* Every step keeps what landed in one place for each player, added at most once.
LEMMA OnceStep == RecordersOK /\ LandedOK /\ FlushersOK /\ OnceOK /\ [Next]_vars => OnceOK'
<1> SUFFICES ASSUME RecordersOK, LandedOK, FlushersOK, OnceOK, [Next]_vars PROVE OnceOK'
  OBVIOUS
<1> DEFINE In(l, u) == Uncommitted(batches, receipts, l, u)
           In1(l, u) == Uncommitted(batches', receipts', l, u)
<1>1. /\ StoreOK(batches, receipts, old) /\ batches \in Seq(Players) /\ Len(batches) \in Nat
      /\ receipts \subseteq 1 .. Len(batches)
      /\ pending \in [Users -> SUBSET Landings] /\ rows \in [Users -> [Landings -> Nat]]
  BY DEF FlushersOK, StoreOK, OnceOK, PendingOK, Players
<1>2. \A l \in Landings, u \in Users \ deleted : PlacedOf(l, u)
  BY DEF OnceOK
\* The counters that move are in the batches alone, or nowhere.
<1>3. ASSUME UNCHANGED <<landed, pending, rows, deleted>>, \A l \in Landings, u \in Users : In1(l, u) = In(l, u)
      PROVE  OnceOK'
  <2>1. \A l \in Landings, u \in Users \ deleted : PlacedOf(l, u)'
    BY <1>2, <1>3, StaysPlaced
  <2> QED BY <1>1, <1>3, <2>1 DEF OnceOK, PendingOK
<1>4. ASSUME UNCHANGED <<batches, receipts>> PROVE \A l \in Landings, u \in Users : In1(l, u) = In(l, u)
  BY <1>4
<1>5. ASSUME UNCHANGED <<landed, pending, rows, deleted, batches, receipts>> PROVE OnceOK'
  BY <1>3, <1>4, <1>5
<1>6. ASSUME NEW p \in Procs, NEW h \in Hands, Record(p, h) PROVE OnceOK'
  BY <1>5, <1>6 DEF Record, storeVars, databaseVars
<1>8. ASSUME NEW p \in Procs, \/ Sync(p) \/ Gather(p) \/ Close(p) \/ Closed(p) \/ Start(p)
                              \/ StartPass(p) \/ List(p) \/ Read(p) \/ Pick(p)
                              \/ Crash(p) \/ Exit(p)
      PROVE  OnceOK'
  BY <1>5, <1>8 DEF Sync, Gather, Close, Closed, Start, StartPass, List, Read, Pick,
                    Crash, Exit, Halts, storeVars, databaseVars
\* What an attempt folds in had not landed, and waits.
<1>10. ASSUME NEW p \in Procs, Write(p) PROVE OnceOK'
  <2> DEFINE hands == recorder[p].gathered
             n == IF recorder[p].again THEN 2 ELSE 1
             counters == {<<h, n>> : h \in hands}
  <2>1. UNCHANGED <<rows, deleted, batches, receipts>>
    BY <1>10 DEF Write, databaseVars
  <2>2. CASE UNCHANGED <<pending, landed>>
    BY <1>5, <2>1, <2>2
  <2>3. CASE /\ landed' = landed \cup counters
             /\ pending' = [u \in Users |-> pending[u] \cup counters]
    <3>1. counters \subseteq Landings /\ \A l \in counters : l \notin landed
      <4>1. hands \subseteq Hands /\ n \in {1, 2}
        BY DEF RecordersOK, RecorderOK, Recorders
      <4>2. \A h \in hands : <<h, n>> \notin landed
        BY NotYetLanded
      <4> QED BY <4>1, <4>2 DEF Landings
    <3> HIDE DEF counters
    <3>2. ASSUME NEW l \in Landings, NEW u \in Users \ deleted PROVE PlacedOf(l, u)'
      <4>1. In1(l, u) = In(l, u) /\ rows'[u][l] = rows[u][l]
        BY <2>1
      <4>2. CASE l \in counters
        <5>1. l \notin landed /\ l \in landed' /\ l \in pending'[u]
          BY <2>3, <3>1, <4>2
        <5> QED BY <1>2, <4>1, <5>1 DEF PlacedOf, Placed
      <4>3. CASE l \notin counters
        <5>1. (l \in landed') = (l \in landed) /\ (l \in pending'[u]) = (l \in pending[u])
          BY <2>3, <4>3
        <5> QED BY <1>2, <4>1, <5>1, StaysPlaced
      <4> QED BY <4>2, <4>3
    <3>3. pending' \in Players
      BY <1>1, <2>3, <3>1 DEF Players
    <3> QED BY <1>1, <2>1, <3>2, <3>3 DEF OnceOK, PendingOK
  <2>4. \/ UNCHANGED <<pending, landed>>
        \/ /\ landed' = landed \cup counters
           /\ pending' = [u \in Users |-> pending[u] \cup counters]
    BY <1>10 DEF Write
  <2> HIDE DEF counters
  <2> QED BY <2>2, <2>3, <2>4
<1>11. ASSUME NEW p \in Procs
       PROVE  FlusherOK(flusher[p], batches, receipts, old) /\ flusher[p] \in Passes
  BY DEF FlushersOK, FlusherOK
\* A batch commits: what it holds is added, for everybody who is still there.
<1>12. ASSUME NEW p \in Procs, Flush(p) PROVE OnceOK'
  <2> DEFINE b == Head(flusher[p].todo)
             k == b.id
  <2>1. UNCHANGED <<landed, pending, batches, deleted>>
    BY <1>12 DEF Flush, recorderVars, storeVars
  <2>2. CASE UNCHANGED <<receipts, rows>>
    BY <1>5, <2>1, <2>2
  <2>3. CASE k \notin receipts /\ receipts' = receipts \cup {k} /\ rows' = Added(b.players)
    <3>1. k \in 1 .. Len(batches) /\ batches[k] = b.players
      <4>1. Len(flusher[p].todo) > 0 /\ b = flusher[p].todo[1] /\ 1 \in 1 .. Len(flusher[p].todo)
            /\ flusher[p].pc = "flush"
        BY <1>11, <1>12 DEF Flush, FlusherOK, Passes
      <4> HIDE DEF b
      <4> QED BY <1>11, <2>3, <4>1 DEF FlusherOK, EntryOK
    <3>2. batches[k] \in [Users -> SUBSET Landings]
      BY <1>1, <3>1 DEF Players
    <3>3. ASSUME NEW l \in Landings, NEW u \in Users \ deleted PROVE PlacedOf(l, u)'
      <4>1. rows'[u][l] = rows[u][l] + IF l \in batches[k][u] THEN 1 ELSE 0
        BY <2>3, <3>1 DEF Added
      <4>2. In1(l, u) = In(l, u) \ {k}
        BY <2>1, <2>3 DEF Uncommitted
      <4>3. k \in In(l, u) <=> l \in batches[k][u]
        BY <2>3, <3>1 DEF Uncommitted
      <4>4. rows[u][l] \in Nat
        BY <1>1
      <4>5. CASE l \in batches[k][u]
        <5>1. In(l, u) = {k} /\ l \in landed /\ l \notin pending[u] /\ rows[u][l] = 0
          BY <1>2, <4>3, <4>5 DEF PlacedOf, Placed
        <5>2. In1(l, u) = {} /\ rows'[u][l] = 1
          BY <4>1, <4>2, <4>5, <5>1
        <5> QED BY <2>1, <5>1, <5>2 DEF PlacedOf, Placed
      <4>6. CASE l \notin batches[k][u]
        <5>1. In1(l, u) = In(l, u) /\ rows'[u][l] = rows[u][l]
          BY <4>1, <4>2, <4>3, <4>4, <4>6
        <5> QED BY <1>2, <2>1, <5>1, StaysPlaced
      <4> QED BY <4>5, <4>6
    <3>4. rows' \in [Users -> [Landings -> Nat]]
      BY <1>1, <2>3 DEF Added
    <3> QED BY <1>1, <2>1, <3>3, <3>4 DEF OnceOK, PendingOK
  <2> QED BY <1>12, <2>2, <2>3 DEF Flush, Commits
\* What is forgotten is committed, or was empty.
<1>13. ASSUME NEW p \in Procs, Finish(p) PROVE OnceOK'
  <2> DEFINE k == Head(flusher[p].todo).id
  <2>1. UNCHANGED <<landed, pending, rows, deleted, receipts>>
    BY <1>13 DEF Finish, storeVars, databaseVars
  <2>2. k \in 1 .. Len(batches) /\ (k \in receipts \/ batches[k] = Nobody)
    BY <1>11, <1>13 DEF Finish, FlusherOK, Passes
  <2>3. CASE batches' = batches
    BY <1>5, <2>1, <2>3
  <2>4. CASE batches' = [batches EXCEPT ![k] = Nobody]
    <3> HIDE DEF k
    <3>1. Len(batches') = Len(batches)
          /\ \A b \in 1 .. Len(batches) : batches'[b] = IF b = k THEN Nobody ELSE batches[b]
      BY <1>1, <2>2, <2>4
    <3>2. \A l \in Landings, u \in Users : l \notin Nobody[u]
      BY DEF Nobody
    <3>3. \A l \in Landings, u \in Users : In1(l, u) = In(l, u)
      BY <2>1, <2>2, <3>1, <3>2 DEF Uncommitted
    <3> QED BY <1>3, <2>1, <3>3
  <2> QED BY <1>13, <2>3, <2>4 DEF Finish
\* Who waited is in the new batch.
<1>14. ASSUME NEW p \in Procs, Move(p) PROVE OnceOK'
  <2> DEFINE players == [u \in Users |-> IF u \in flusher[p].picked THEN pending[u] ELSE {}]
             n == Len(batches) + 1
  <2>1. UNCHANGED <<landed, rows, deleted, receipts>>
    BY <1>14 DEF Move, storeVars, databaseVars
  <2>2. CASE UNCHANGED <<pending, batches>>
    BY <1>5, <2>1, <2>2
  <2>3. ASSUME pending' = [u \in Users |-> pending[u] \ players[u]],
               batches' = IF players = Nobody THEN batches ELSE Append(batches, players)
        PROVE  OnceOK'
    <3>1. pending' \in Players
      BY <1>1, <2>3 DEF Players
    <3>2. players \in Players /\ \A u \in Users : players[u] \subseteq pending[u]
      BY <1>1 DEF Players
    <3>3. \A u \in Users : players = Nobody => players[u] = {}
      BY DEF Nobody
    <3>4. \A u \in Users : pending'[u] = pending[u] \ players[u]
      BY <2>3
    <3> HIDE DEF players
    <3>5. ASSUME NEW l \in Landings, NEW u \in Users
          PROVE  In1(l, u) = In(l, u) \cup (IF l \in players[u] THEN {n} ELSE {})
      <4>1. CASE players = Nobody
        BY <2>1, <2>3, <3>3, <4>1
      <4>2. CASE players # Nobody
        <5>1. Len(batches') = n /\ batches'[n] = players
              /\ \A b \in 1 .. Len(batches) : batches'[b] = batches[b]
          BY <1>1, <2>3, <3>2, <4>2
        <5>2. n \notin receipts
          BY <1>1
        <5>3. 1 .. n = (1 .. Len(batches)) \cup {n}
          BY <1>1
        <5> HIDE DEF n
        <5> QED BY <2>1, <5>1, <5>2, <5>3 DEF Uncommitted
      <4> QED BY <4>1, <4>2
    <3>6. ASSUME NEW l \in Landings, NEW u \in Users \ deleted PROVE PlacedOf(l, u)'
      <4>1. CASE l \in players[u]
        <5>1. l \in pending[u]
          BY <3>2, <4>1
        <5>2. l \in landed /\ In(l, u) = {} /\ rows[u][l] = 0
          BY <1>2, <5>1 DEF PlacedOf, Placed
        <5>3. In1(l, u) = {n} /\ l \notin pending'[u]
          BY <3>4, <3>5, <4>1, <5>2
        <5> HIDE DEF n
        <5> QED BY <2>1, <5>2, <5>3 DEF PlacedOf, Placed
      <4>2. CASE l \notin players[u]
        <5>1. In1(l, u) = In(l, u)
          BY <3>5, <4>2
        <5>2. (l \in pending'[u]) = (l \in pending[u])
          BY <3>4, <4>2
        <5> QED BY <1>2, <2>1, <5>1, <5>2, StaysPlaced
      <4> QED BY <4>1, <4>2
    <3> QED BY <1>1, <2>1, <3>1, <3>6 DEF OnceOK, PendingOK
  <2>4. \/ UNCHANGED <<pending, batches>>
        \/ /\ pending' = [u \in Users |-> pending[u] \ players[u]]
           /\ batches' = IF players = Nobody THEN batches ELSE Append(batches, players)
    BY <1>14 DEF Move, storeVars
  <2> HIDE DEF players
  <2> QED BY <2>2, <2>3, <2>4
\* The receipts that go are of batches that hold nobody.
<1>15. ASSUME NEW p \in Procs, Prune(p) PROVE OnceOK'
  <2>1. UNCHANGED <<landed, pending, rows, deleted, batches>>
    BY <1>15 DEF Prune, recorderVars, storeVars
  <2>2. receipts' \subseteq receipts /\ \A b \in receipts : b \notin receipts' => b \in old
    BY <1>15 DEF Prune
  <2>3. \A b \in old : batches[b] = Nobody
    <3>1. flusher[p].pc = "prune"
      BY <1>15 DEF Prune
    <3>2. \A b : ~HoldsIn(flusher[p], b)
      BY <1>11, <3>1 DEF FlusherOK, HoldsIn
    <3> QED BY <1>11, <3>1, <3>2 DEF FlusherOK
  <2>4. \A l \in Landings, u \in Users : l \notin Nobody[u]
    BY DEF Nobody
  <2>5. \A l \in Landings, u \in Users : In1(l, u) = In(l, u)
    BY <2>1, <2>2, <2>3, <2>4 DEF Uncommitted
  <2> QED BY <1>3, <2>1, <2>5
<1>16. Age => OnceOK'
  BY <1>5 DEF Age, storeVars, recorderVars
<1>17. ASSUME NEW v \in Users, Delete(v) PROVE OnceOK'
  <2>1. UNCHANGED <<landed, pending, batches, receipts>> /\ deleted' = deleted \cup {v}
        /\ rows' = [rows EXCEPT ![v] = [l \in Landings |-> 0]]
    BY <1>17 DEF Delete, recorderVars, storeVars
  <2>2. ASSUME NEW l \in Landings, NEW u \in Users \ deleted' PROVE PlacedOf(l, u)'
    <3>1. u # v /\ u \in Users \ deleted
      BY <2>1
    <3>2. rows'[u][l] = rows[u][l] /\ In1(l, u) = In(l, u)
      BY <1>1, <2>1, <3>1
    <3> QED BY <1>2, <2>1, <3>1, <3>2, StaysPlaced
  <2>3. rows' \in [Users -> [Landings -> Nat]]
    BY <1>1, <2>1
  <2>4. deleted' \subseteq Users
    BY <2>1 DEF OnceOK
  <2> QED BY <1>1, <2>1, <2>2, <2>3, <2>4 DEF OnceOK, PendingOK
<1>18. ASSUME NEW v \in Users, Forget(v) PROVE OnceOK'
  <2>1. UNCHANGED <<landed, rows, deleted, batches, receipts>> /\ v \in deleted
        /\ pending' = [pending EXCEPT ![v] = {}]
    BY <1>18 DEF Forget, storeVars, databaseVars
  <2>2. ASSUME NEW l \in Landings, NEW u \in Users \ deleted PROVE PlacedOf(l, u)'
    <3>1. pending'[u] = pending[u] /\ In1(l, u) = In(l, u)
      BY <1>1, <2>1
    <3> QED BY <1>2, <2>1, <3>1, StaysPlaced
  <2>3. pending' \in Players
    BY <1>1, <2>1 DEF Players
  <2> QED BY <1>1, <2>1, <2>2, <2>3 DEF OnceOK, PendingOK
<1>19. UNCHANGED vars => OnceOK'
  BY <1>5 DEF vars, storeVars, databaseVars, recorderVars
<1> QED BY <1>6, <1>8, <1>10, <1>12, <1>13, <1>14, <1>15, <1>16, <1>17, <1>18, <1>19
        DEF Next, Pass

-----------------------------------------------------------------------------
(* The theorems *)

IInv == RecordersOK /\ DownIsEmpty /\ LandedOK /\ FlushersOK /\ IdleOK /\ OnceOK

\* The inductive invariant holds at first.
LEMMA InitOK == Init => IInv
<1> SUFFICES ASSUME Init PROVE IInv
  OBVIOUS
<1>1. RecordersOK
  BY RecordersInit
<1>2. DownIsEmpty /\ IdleOK
  BY DEF Init, DownIsEmpty, IdleOK, Up, Fresh
<1>3. FlushersOK
  <2> DEFINE f == [NoPass EXCEPT !.pc = "list"]
  <2>1. NoPass \in Passes /\ NoPass.todo = <<>> /\ NoPass.pc = "idle"
    BY DEF NoPass, Passes
  <2>2. f \in Passes /\ f.todo = <<>> /\ f.pc = "list"
    BY <2>1 DEF Passes
  <2>3. StoreOK(<<>>, {}, {})
    BY DEF StoreOK
  <2> HIDE DEF f
  <2>4. FlusherOK(f, <<>>, {}, {})
    BY <2>2 DEF FlusherOK
  <2>5. flusher = [p \in Procs |-> f] /\ batches = <<>> /\ receipts = {} /\ old = {}
    BY DEF Init, f
  <2> QED BY <2>3, <2>4, <2>5 DEF FlushersOK
<1>4. LandedOK
  BY DEF Init, LandedOK
<1>5. OnceOK
  <2>1. pending = Nobody /\ rows = [u \in Users |-> [l \in Landings |-> 0]] /\ deleted = {}
        /\ landed = {} /\ batches = <<>>
    BY DEF Init
  <2>2. ASSUME NEW l \in Landings, NEW u \in Users PROVE PlacedOf(l, u)
    <3>1. l \notin landed /\ l \notin pending[u] /\ rows[u][l] = 0
      BY <2>1 DEF Nobody
    <3>2. Uncommitted(batches, receipts, l, u) = {}
      BY <2>1 DEF Uncommitted
    <3> QED BY <3>1, <3>2 DEF PlacedOf, Placed
  <2> QED BY <2>1, <2>2 DEF OnceOK, PendingOK, Players, Nobody
<1> QED BY <1>1, <1>2, <1>3, <1>4, <1>5 DEF IInv

\* Every reachable state satisfies the inductive invariant.
THEOREM Inductive == Spec => []IInv
<1>1. IInv /\ [Next]_vars => IInv'
  BY RecordersStep, DownStep, LandedStep, FlushersStep, IdleStep, OnceStep DEF IInv, OnceOK
<1> QED BY <1>1, InitOK, PTL DEF Spec

\* What was folded into the live store is waiting there, in one batch that is yet to
\* commit, or added once: whatever fails, goes unheard, is retried by another process,
\* or comes back after its receipt was pruned (Flusher, StatsStore.Flush).  A hand
\* folded in twice is added twice: this is about the way from the store to the rows.
THEOREM AddedOnce == Spec => []ExactlyOnce
<1>1. IInv => ExactlyOnce
  <2> SUFFICES ASSUME IInv, NEW l \in landed, NEW u \in Users \ deleted
               PROVE  (IF l \in pending[u] THEN 1 ELSE 0)
                      + Cardinality({b \in DOMAIN batches \ receipts : l \in batches[b][u]})
                      + rows[u][l] = 1
    BY DEF ExactlyOnce
  <2> DEFINE in == Uncommitted(batches, receipts, l, u)
  <2>1. in = {b \in DOMAIN batches \ receipts : l \in batches[b][u]}
    BY DEF Uncommitted, IInv, FlushersOK, StoreOK
  <2>2. PlacedOf(l, u)
    BY DEF IInv, OnceOK, LandedOK
  <2>3. Cardinality({}) = 0 /\ \A b : Cardinality({b}) = 1
    BY FS_EmptySet, FS_Singleton
  <2> HIDE DEF in
  <2>4. (IF l \in pending[u] THEN 1 ELSE 0) + Cardinality(in) + rows[u][l] = 1
    <3>1. Placed(TRUE, l \in pending[u], in, rows[u][l])
      BY <2>2 DEF PlacedOf, in
    <3>2. \/ l \in pending[u] /\ in = {} /\ rows[u][l] = 0
          \/ l \notin pending[u] /\ (\E b : in = {b}) /\ rows[u][l] = 0
          \/ l \notin pending[u] /\ in = {} /\ rows[u][l] = 1
      BY <3>1, Zenon DEF Placed
    <3> QED BY <2>3, <3>2
  <2> QED BY <2>1, <2>4
<1> QED BY <1>1, Inductive, PTL

\* When Sync or Close returns, every hand that was queued before it has been written or
\* given up (Recorder.run, take).
THEOREM SyncWaits == Spec => Drained
<1>1. IInv /\ [Next]_vars => [Drains]_vars
  BY DrainedStep DEF IInv
<1> QED BY <1>1, Inductive, PTL DEF Spec, Drained
=============================================================================
