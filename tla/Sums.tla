-------------------------------- MODULE Sums --------------------------------
(***************************************************************************)
(* Sums of integers over a finite set, for the proofs about chips.  The    *)
(* models add with MapThenSumSet, whose definition picks the elements one  *)
(* at a time; the lemmas here say what it comes to whatever the order.     *)
(*                                                                         *)
(* Induction over finite sets is used in the form of a smallest            *)
(* counterexample (Smallest, from the well-foundedness of strict           *)
(* inclusion): the library's induction theorems take an operator.  The     *)
(* same gives the least value of a function on a finite set, for the       *)
(* operators that choose a seat by its distance.                           *)
(***************************************************************************)
EXTENDS Integers, FiniteSets, FiniteSetsExt, FiniteSetTheorems, TLAPS

\* The sum of f[x] over S.
SumOver(f, S) == MapThenSumSet(LAMBDA x : f[x], S)

\* The element a sum takes first, and what the function that MapThenSumSet
\* builds on the subsets of S satisfies.
AnyOf(s) == CHOOSE x \in s : TRUE
AddsUp(it, f, S) ==
    it = [s \in SUBSET S |-> IF s = {} THEN 0 ELSE f[AnyOf(s)] + it[s \ {AnyOf(s)}]]

-----------------------------------------------------------------------------
(* The recursion is well defined *)

\* The sum is the value at S of a function that adds up.
LEMMA SumIs ==
  ASSUME NEW f, NEW S
  PROVE  SumOver(f, S) = (CHOOSE it : AddsUp(it, f, S))[S]
BY DEF SumOver, MapThenSumSet, MapThenFoldSet, AddsUp, AnyOf

\* A set of subsets of a finite set has one that contains no other.
LEMMA Smallest ==
  ASSUME NEW S, IsFiniteSet(S), NEW T, T \subseteq SUBSET S, T # {}
  PROVE  \E x \in T : \A y \in SUBSET x : y # x => y \notin T
<1>1. IsWellFoundedOn(StrictSubsetOrdering(S), SUBSET S)
  BY FS_StrictSubsetOrderingWellFounded, FS_FiniteSubsetsOfFinite
<1>2. PICK x \in T : \A y \in T : ~ (<<y, x>> \in StrictSubsetOrdering(S))
  BY <1>1, WFMin
<1>3. ASSUME NEW y \in SUBSET x, y # x, y \in T  PROVE FALSE
  <2>1. <<y, x>> \in (SUBSET S) \X (SUBSET S)
    BY <1>3, <1>2
  <2>2. <<y, x>> \in StrictSubsetOrdering(S)
    BY <2>1, <1>3 DEF StrictSubsetOrdering
  <2> QED BY <2>2, <1>2, <1>3
<1> QED BY <1>2, <1>3

\* AnyOf is an element of a set that has any.
LEMMA AnyOfIsIn == ASSUME NEW s, s # {} PROVE AnyOf(s) \in s
BY DEF AnyOf

\* The equation of a function that adds up, at one subset.
LEMMA AddsUpAt ==
  ASSUME NEW f, NEW S, NEW it, AddsUp(it, f, S), NEW s \in SUBSET S
  PROVE  it[s] = IF s = {} THEN 0 ELSE f[AnyOf(s)] + it[s \ {AnyOf(s)}]
BY DEF AddsUp

\* Two functions that add up agree wherever both are defined.
LEMMA AddsUpAgree ==
  ASSUME NEW f, NEW S, NEW R, IsFiniteSet(S), NEW g, NEW h,
         AddsUp(g, f, S), AddsUp(h, f, R),
         NEW s \in SUBSET S, s \in SUBSET R
  PROVE  g[s] = h[s]
<1> DEFINE T == {t \in SUBSET s : g[t] # h[t]}
<1> SUFFICES ASSUME T # {} PROVE FALSE
  <2>1. s \in SUBSET s
    OBVIOUS
  <2> QED BY <2>1
<1>1. IsFiniteSet(s)
  BY FS_Subset
<1>2. PICK t \in T : \A y \in SUBSET t : y # t => y \notin T
  <2>1. T \subseteq SUBSET s
    OBVIOUS
  <2> HIDE DEF T
  <2> QED BY <1>1, <2>1, Smallest
<1>3. t \in SUBSET s /\ g[t] # h[t]
  BY <1>2
<1>4. g[t] = IF t = {} THEN 0 ELSE f[AnyOf(t)] + g[t \ {AnyOf(t)}]
  <2>1. t \in SUBSET S
    BY <1>3
  <2> QED BY <2>1, AddsUpAt
<1>5. h[t] = IF t = {} THEN 0 ELSE f[AnyOf(t)] + h[t \ {AnyOf(t)}]
  <2>1. t \in SUBSET R
    BY <1>3
  <2> QED BY <2>1, AddsUpAt
<1>6. CASE t = {}
  BY <1>3, <1>4, <1>5, <1>6
<1>7. CASE t # {}
  <2>1. AnyOf(t) \in t
    BY <1>7, AnyOfIsIn
  <2>2. t \ {AnyOf(t)} \in SUBSET t /\ t \ {AnyOf(t)} # t /\ t \ {AnyOf(t)} \in SUBSET s
    BY <2>1, <1>3
  <2>3. g[t \ {AnyOf(t)}] = h[t \ {AnyOf(t)}]
    BY <2>2, <1>2
  <2> QED BY <2>3, <1>3, <1>4, <1>5, <1>7
<1> QED BY <1>6, <1>7

\* There is a function that adds up over a finite set.
LEMMA AddsUpExists ==
  ASSUME NEW f, NEW S, IsFiniteSet(S)
  PROVE  \E it : AddsUp(it, f, S)
<1> DEFINE T == {t \in SUBSET S : ~ \E it : AddsUp(it, f, t)}
<1> SUFFICES ASSUME T # {} PROVE FALSE
  <2>1. S \in SUBSET S
    OBVIOUS
  <2> QED BY <2>1
<1>2. PICK t \in T : \A y \in SUBSET t : y # t => y \notin T
  <2>1. T \subseteq SUBSET S
    OBVIOUS
  <2> HIDE DEF T
  <2> QED BY <2>1, Smallest
<1>3. t \in SUBSET S /\ ~ \E it : AddsUp(it, f, t)
  BY <1>2
<1> DEFINE G(u) == CHOOSE it : AddsUp(it, f, u)
           Val(s) == IF s = {} THEN 0 ELSE f[AnyOf(s)] + G(s \ {AnyOf(s)})[s \ {AnyOf(s)}]
           h == [s \in SUBSET t |-> Val(s)]
<1>4. ASSUME NEW u \in SUBSET t, u # t
      PROVE AddsUp(G(u), f, u)
  <2>1. u \in SUBSET S /\ u \notin T
    BY <1>2, <1>3, <1>4
  <2>2. \E it : AddsUp(it, f, u)
    BY <2>1
  <2> QED BY <2>2
<1>5. ASSUME NEW u \in SUBSET t, u # t
      PROVE G(u)[u] = Val(u)
  <2>1. AddsUp(G(u), f, u)
    BY <1>4, <1>5
  <2>2. G(u)[u] = IF u = {} THEN 0 ELSE f[AnyOf(u)] + G(u)[u \ {AnyOf(u)}]
    <3> HIDE DEF G
    <3> QED BY <2>1, AddsUpAt
  <2>3. CASE u = {}
    BY <2>2, <2>3
  <2>4. CASE u # {}
    <3> DEFINE v == u \ {AnyOf(u)}
    <3>1. AnyOf(u) \in u
      BY <2>4, AnyOfIsIn
    <3>2. v \in SUBSET u /\ v \in SUBSET t /\ v # t
      BY <3>1
    <3>3. AddsUp(G(v), f, v)
      BY <1>4, <3>2
    <3>4. IsFiniteSet(u)
      BY <1>3, FS_Subset
    <3>5. G(u)[v] = G(v)[v]
      <4> HIDE DEF G, v
      <4> QED BY <2>1, <3>2, <3>3, <3>4, AddsUpAgree
    <3> QED BY <3>5, <2>2, <2>4
  <2> QED BY <2>3, <2>4
<1>6. AddsUp(h, f, t)
  <2>1. ASSUME NEW s \in SUBSET t
        PROVE  Val(s) = IF s = {} THEN 0 ELSE f[AnyOf(s)] + h[s \ {AnyOf(s)}]
    <3>1. CASE s = {}
      BY <3>1
    <3>2. CASE s # {}
      <4> DEFINE v == s \ {AnyOf(s)}
      <4>1. v \in SUBSET t /\ v # t
        BY <3>2, AnyOfIsIn
      <4>2. h[v] = Val(v)
        BY <4>1
      <4>3. G(v)[v] = Val(v)
        BY <4>1, <1>5
      <4> HIDE DEF G, h
      <4> QED BY <4>2, <4>3, <3>2
    <3> QED BY <3>1, <3>2
  <2>2. h = [s \in SUBSET t |-> IF s = {} THEN 0 ELSE f[AnyOf(s)] + h[s \ {AnyOf(s)}]]
    <3> HIDE DEF Val
    <3> QED BY <2>1
  <2> HIDE DEF h
  <2> QED BY <2>2 DEF AddsUp
<1> QED BY <1>3, <1>6

\* The sum in terms of the sum without the element taken first.
LEMMA SumStep ==
  ASSUME NEW f, NEW S, IsFiniteSet(S)
  PROVE  SumOver(f, S) = IF S = {} THEN 0 ELSE f[AnyOf(S)] + SumOver(f, S \ {AnyOf(S)})
<1> DEFINE G(u) == CHOOSE it : AddsUp(it, f, u)
           v == S \ {AnyOf(S)}
<1>1. AddsUp(G(S), f, S)
  BY AddsUpExists
<1>2. IsFiniteSet(v)
  BY FS_Subset
<1>3. AddsUp(G(v), f, v)
  BY <1>2, AddsUpExists
<1>4. SumOver(f, S) = G(S)[S] /\ SumOver(f, v) = G(v)[v]
  BY SumIs
<1> HIDE DEF G
<1>5. G(S)[S] = IF S = {} THEN 0 ELSE f[AnyOf(S)] + G(S)[v]
  <2>1. S \in SUBSET S
    OBVIOUS
  <2> QED BY <1>1, <2>1, AddsUpAt
<1>6. G(S)[v] = G(v)[v]
  <2>1. v \in SUBSET S /\ v \in SUBSET v
    OBVIOUS
  <2> HIDE DEF v
  <2> QED BY <1>1, <1>3, <2>1, AddsUpAgree
<1> QED BY <1>4, <1>5, <1>6
-----------------------------------------------------------------------------
(* What sums are used for *)

\* Nothing adds up to nothing.
LEMMA SumEmpty == \A f : SumOver(f, {}) = 0
BY SumStep, FS_EmptySet

\* A sum of integers is an integer.
LEMMA SumInt ==
  ASSUME NEW S, IsFiniteSet(S), NEW f, \A x \in S : f[x] \in Int
  PROVE  SumOver(f, S) \in Int
<1> DEFINE T == {t \in SUBSET S : SumOver(f, t) \notin Int}
<1> SUFFICES ASSUME T # {} PROVE FALSE
  OBVIOUS
<1>1. PICK t \in T : \A y \in SUBSET t : y # t => y \notin T
  <2>1. T \subseteq SUBSET S
    OBVIOUS
  <2> HIDE DEF T
  <2> QED BY <2>1, Smallest
<1>2. IsFiniteSet(t)
  BY FS_Subset
<1>3. t # {}
  BY SumEmpty
<1>4. AnyOf(t) \in t
  BY <1>3, AnyOfIsIn
<1>5. SumOver(f, t \ {AnyOf(t)}) \in Int
  BY <1>1, <1>4
<1>6. SumOver(f, t) = f[AnyOf(t)] + SumOver(f, t \ {AnyOf(t)})
  BY <1>2, <1>3, SumStep
<1> QED BY <1>4, <1>5, <1>6

\* Any element can be taken out of a sum.
LEMMA SumSplit ==
  ASSUME NEW S, IsFiniteSet(S), NEW f, \A x \in S : f[x] \in Int, NEW e \in S
  PROVE  SumOver(f, S) = f[e] + SumOver(f, S \ {e})
<1> DEFINE T == {t \in SUBSET S : \E x \in t : SumOver(f, t) # f[x] + SumOver(f, t \ {x})}
<1> SUFFICES ASSUME T # {} PROVE FALSE
  <2>1. S \in SUBSET S
    OBVIOUS
  <2> QED BY <2>1
<1>1. PICK t \in T : \A y \in SUBSET t : y # t => y \notin T
  <2>1. T \subseteq SUBSET S
    OBVIOUS
  <2> HIDE DEF T
  <2> QED BY <2>1, Smallest
<1>2. PICK x \in t : SumOver(f, t) # f[x] + SumOver(f, t \ {x})
  BY <1>1
<1> DEFINE p == AnyOf(t)
<1>3. t \in SUBSET S /\ IsFiniteSet(t) /\ p \in t
  BY FS_Subset, AnyOfIsIn
<1>4. SumOver(f, t) = f[p] + SumOver(f, t \ {p})
  BY <1>2, <1>3, SumStep
<1>5. p # x
  BY <1>2, <1>4
<1> HIDE DEF p
<1>6. SumOver(f, t \ {p}) = f[x] + SumOver(f, (t \ {p}) \ {x})
  <2>1. t \ {p} \in SUBSET t /\ t \ {p} # t /\ t \ {p} \in SUBSET S /\ x \in t \ {p}
    BY <1>3, <1>5
  <2>2. t \ {p} \notin T
    BY <1>1, <2>1
  <2> QED BY <2>1, <2>2
<1>7. SumOver(f, t \ {x}) = f[p] + SumOver(f, (t \ {p}) \ {x})
  <2>1. t \ {x} \in SUBSET t /\ t \ {x} # t /\ t \ {x} \in SUBSET S /\ p \in t \ {x}
    BY <1>3, <1>5
  <2>2. t \ {x} \notin T
    BY <1>1, <2>1
  <2>3. SumOver(f, t \ {x}) = f[p] + SumOver(f, (t \ {x}) \ {p})
    BY <2>1, <2>2
  <2>4. (t \ {x}) \ {p} = (t \ {p}) \ {x}
    OBVIOUS
  <2> QED BY Zenon, <2>3, <2>4
<1>9. SumOver(f, (t \ {p}) \ {x}) \in Int
  <2>1. IsFiniteSet((t \ {p}) \ {x}) /\ \A y \in (t \ {p}) \ {x} : f[y] \in Int
    BY <1>3, FS_Subset
  <2> QED BY <2>1, SumInt
<1>10. f[x] \in Int /\ f[p] \in Int
  BY <1>3
<1> HIDE DEF T
<1>11. SumOver(f, t) = f[x] + SumOver(f, t \ {x})
  BY <1>4, <1>6, <1>7, <1>9, <1>10
<1> QED BY <1>2, <1>11

\* A sum grows with its terms.
LEMMA SumMonotone ==
  ASSUME NEW S, IsFiniteSet(S), NEW f, NEW g,
         \A x \in S : f[x] \in Int /\ g[x] \in Int /\ f[x] <= g[x]
  PROVE  SumOver(f, S) <= SumOver(g, S)
<1> DEFINE T == {t \in SUBSET S : ~ (SumOver(f, t) <= SumOver(g, t))}
<1> SUFFICES ASSUME T # {} PROVE FALSE
  OBVIOUS
<1>1. PICK t \in T : \A y \in SUBSET t : y # t => y \notin T
  <2>1. T \subseteq SUBSET S
    OBVIOUS
  <2> HIDE DEF T
  <2> QED BY <2>1, Smallest
<1>2. IsFiniteSet(t)
  BY FS_Subset
<1>3. t # {}
  BY SumEmpty
<1> DEFINE p == AnyOf(t)
<1>4. p \in t
  BY <1>3, AnyOfIsIn
<1>5. t \ {p} \in SUBSET t /\ t \ {p} # t /\ t \ {p} \in SUBSET S /\ IsFiniteSet(t \ {p})
  BY <1>4, <1>2, FS_Subset
<1>6. SumOver(f, t \ {p}) <= SumOver(g, t \ {p})
  BY <1>1, <1>5
<1>7. /\ SumOver(f, t) = f[p] + SumOver(f, t \ {p})
      /\ SumOver(g, t) = g[p] + SumOver(g, t \ {p})
  BY <1>2, <1>3, SumStep
<1>8. SumOver(f, t \ {p}) \in Int /\ SumOver(g, t \ {p}) \in Int
  BY <1>5, SumInt
<1>9. f[p] \in Int /\ g[p] \in Int /\ f[p] <= g[p]
  BY <1>4
<1>10. ~ (SumOver(f, t) <= SumOver(g, t))
  OBVIOUS
<1> HIDE DEF p, T
<1> QED BY <1>6, <1>7, <1>8, <1>9, <1>10

\* Equal terms, equal sums.
LEMMA SumSame ==
  ASSUME NEW S, IsFiniteSet(S), NEW f, NEW g, \A x \in S : f[x] \in Int /\ f[x] = g[x]
  PROVE  SumOver(f, S) = SumOver(g, S)
<1>1. SumOver(f, S) <= SumOver(g, S) /\ SumOver(g, S) <= SumOver(f, S)
  <2>1. \A x \in S : f[x] <= g[x] /\ g[x] <= f[x] /\ g[x] \in Int
    OBVIOUS
  <2> QED BY <2>1, SumMonotone
<1>2. SumOver(f, S) \in Int /\ SumOver(g, S) \in Int
  BY SumInt
<1> QED BY <1>1, <1>2

\* When one term changes, the sum changes as much.
LEMMA SumOneMoved ==
  ASSUME NEW S, IsFiniteSet(S), NEW e \in S, NEW f, NEW g,
         \A x \in S : f[x] \in Int /\ g[x] \in Int /\ (x # e => f[x] = g[x])
  PROVE  SumOver(f, S) - f[e] = SumOver(g, S) - g[e]
<1>1. IsFiniteSet(S \ {e})
  BY FS_Subset
<1>2. SumOver(f, S \ {e}) = SumOver(g, S \ {e})
  BY <1>1, SumSame
<1>3. /\ SumOver(f, S) = f[e] + SumOver(f, S \ {e})
      /\ SumOver(g, S) = g[e] + SumOver(g, S \ {e})
  BY SumSplit
<1>4. SumOver(f, S \ {e}) \in Int
  BY <1>1, SumInt
<1> QED BY <1>2, <1>3, <1>4

\* Equal terms c add up to c times their number.
LEMMA SumConstant ==
  ASSUME NEW S, IsFiniteSet(S), NEW f, NEW c \in Int, \A x \in S : f[x] = c
  PROVE  SumOver(f, S) = c * Cardinality(S)
<1> DEFINE T == {t \in SUBSET S : SumOver(f, t) # c * Cardinality(t)}
<1> SUFFICES ASSUME T # {} PROVE FALSE
  OBVIOUS
<1>1. PICK t \in T : \A y \in SUBSET t : y # t => y \notin T
  <2>1. T \subseteq SUBSET S
    OBVIOUS
  <2> HIDE DEF T
  <2> QED BY <2>1, Smallest
<1>2. IsFiniteSet(t)
  BY FS_Subset
<1>3. t # {}
  BY SumEmpty, FS_EmptySet
<1> DEFINE p == AnyOf(t)
<1>4. p \in t
  BY <1>3, AnyOfIsIn
<1>5. t \ {p} \in SUBSET t /\ t \ {p} # t /\ t \ {p} \in SUBSET S
  BY <1>4
<1>6. SumOver(f, t \ {p}) = c * Cardinality(t \ {p})
  BY <1>1, <1>5
<1>7. SumOver(f, t) = f[p] + SumOver(f, t \ {p})
  BY <1>2, <1>3, SumStep
<1>8. Cardinality(t \ {p}) = Cardinality(t) - 1 /\ Cardinality(t) \in Nat
  BY <1>2, <1>4, FS_RemoveElement, FS_CardinalityType
<1>9. f[p] = c
  BY <1>4
<1>10. SumOver(f, t) # c * Cardinality(t)
  OBVIOUS
<1> DEFINE n == Cardinality(t)
<1>11. c + c * (n - 1) = c * n
  <2>1. n \in Nat
    BY <1>8
  <2> HIDE DEF n
  <2> QED BY <2>1
<1> HIDE DEF p, T
<1> QED BY <1>6, <1>7, <1>8, <1>9, <1>10, <1>11

\* A sum of naturals is one.
LEMMA SumNat ==
  ASSUME NEW S, IsFiniteSet(S), NEW f, \A x \in S : f[x] \in Nat
  PROVE  SumOver(f, S) \in Nat
<1> DEFINE zero == [x \in S |-> 0]
<1>1. SumOver(zero, S) = 0
  <2>1. SumOver(zero, S) = 0 * Cardinality(S)
    BY SumConstant
  <2>2. Cardinality(S) \in Nat
    BY FS_CardinalityType
  <2> HIDE DEF zero
  <2> QED BY <2>1, <2>2
<1>2. SumOver(zero, S) <= SumOver(f, S)
  <2>1. \A x \in S : zero[x] \in Int /\ f[x] \in Int /\ zero[x] <= f[x]
    OBVIOUS
  <2> HIDE DEF zero
  <2> QED BY <2>1, SumMonotone
<1>3. SumOver(f, S) \in Int
  BY SumInt
<1> HIDE DEF zero
<1> QED BY <1>1, <1>2, <1>3

\* The sum of sums of terms.
LEMMA SumPlus ==
  ASSUME NEW S, IsFiniteSet(S), NEW f, NEW g, NEW h,
         \A x \in S : f[x] \in Int /\ g[x] \in Int /\ h[x] = f[x] + g[x]
  PROVE  SumOver(h, S) = SumOver(f, S) + SumOver(g, S)
<1> DEFINE T == {t \in SUBSET S : SumOver(h, t) # SumOver(f, t) + SumOver(g, t)}
<1> SUFFICES ASSUME T # {} PROVE FALSE
  OBVIOUS
<1>1. PICK t \in T : \A y \in SUBSET t : y # t => y \notin T
  <2>1. T \subseteq SUBSET S
    OBVIOUS
  <2> HIDE DEF T
  <2> QED BY <2>1, Smallest
<1>2. IsFiniteSet(t)
  BY FS_Subset
<1>3. t # {}
  <2>1. SumOver(f, {}) = 0 /\ SumOver(g, {}) = 0 /\ SumOver(h, {}) = 0
    BY SumEmpty
  <2>2. {} \notin T
    BY <2>1
  <2> QED BY <2>2
<1> DEFINE p == AnyOf(t)
<1>4. p \in t
  BY <1>3, AnyOfIsIn
<1>5. t \ {p} \in SUBSET t /\ t \ {p} # t /\ t \ {p} \in SUBSET S /\ IsFiniteSet(t \ {p})
  BY <1>4, <1>2, FS_Subset
<1>6. SumOver(h, t \ {p}) = SumOver(f, t \ {p}) + SumOver(g, t \ {p})
  BY <1>1, <1>5
<1>7. /\ SumOver(f, t) = f[p] + SumOver(f, t \ {p})
      /\ SumOver(g, t) = g[p] + SumOver(g, t \ {p})
      /\ SumOver(h, t) = h[p] + SumOver(h, t \ {p})
  BY <1>2, <1>3, SumStep
<1>8. SumOver(f, t \ {p}) \in Int /\ SumOver(g, t \ {p}) \in Int
  BY <1>5, SumInt
<1>9. f[p] \in Int /\ g[p] \in Int /\ h[p] = f[p] + g[p]
  BY <1>4
<1>10. SumOver(h, t) # SumOver(f, t) + SumOver(g, t)
  OBVIOUS
<1> HIDE DEF p, T
<1> QED BY <1>6, <1>7, <1>8, <1>9, <1>10

\* What is zero outside a set adds nothing.
LEMMA SumOutside ==
  ASSUME NEW S, IsFiniteSet(S), NEW T \in SUBSET S, NEW f, \A x \in S : f[x] \in Int,
         \A x \in S \ T : f[x] = 0
  PROVE  SumOver(f, S) = SumOver(f, T)
<1> DEFINE Bad == {U \in SUBSET S : T \subseteq U /\ SumOver(f, U) # SumOver(f, T)}
<1> SUFFICES ASSUME Bad # {} PROVE FALSE
  OBVIOUS
<1>1. PICK U \in Bad : \A y \in SUBSET U : y # U => y \notin Bad
  <2>1. Bad \subseteq SUBSET S
    OBVIOUS
  <2> HIDE DEF Bad
  <2> QED BY <2>1, Smallest
<1>2. U \subseteq S /\ T \subseteq U /\ SumOver(f, U) # SumOver(f, T)
  BY <1>1
<1>3. PICK e \in U : e \notin T
  <2>1. U # T
    BY <1>2
  <2> QED BY <1>2, <2>1
<1>4. /\ U \ {e} \in SUBSET U /\ U \ {e} # U /\ T \subseteq U \ {e} /\ U \ {e} \in SUBSET S
      /\ f[e] = 0 /\ \A x \in U : f[x] \in Int
  BY <1>2, <1>3
<1>5. SumOver(f, U \ {e}) = SumOver(f, T)
  BY <1>1, <1>4
<1>6. IsFiniteSet(U) /\ IsFiniteSet(U \ {e})
  BY <1>2, <1>4, FS_Subset
<1>7. SumOver(f, U) = f[e] + SumOver(f, U \ {e})
  BY <1>4, <1>6, SumSplit
<1>8. SumOver(f, U \ {e}) \in Int
  BY <1>4, <1>6, SumInt
<1> QED BY <1>2, <1>4, <1>5, <1>7, <1>8

-----------------------------------------------------------------------------
(* The least of finitely many values *)

\* A function has a least value on a finite set.
LEMMA Lowest ==
  ASSUME NEW X, IsFiniteSet(X), X # {}, NEW f, \A x \in X : f[x] \in Int
  PROVE  \E m \in X : \A x \in X : f[m] <= f[x]
<1> DEFINE T == {s \in SUBSET X : s # {} /\ ~ \E m \in s : \A x \in s : f[m] <= f[x]}
<1> SUFFICES ASSUME T # {} PROVE FALSE
  OBVIOUS
<1>1. PICK s \in T : \A y \in SUBSET s : y # s => y \notin T
  <2>1. T \subseteq SUBSET X
    OBVIOUS
  <2> HIDE DEF T
  <2> QED BY <2>1, Smallest
<1>2. s \subseteq X /\ s # {} /\ ~ \E m \in s : \A x \in s : f[m] <= f[x]
  BY <1>1
<1>3. PICK a \in s : TRUE
  BY <1>2
<1>4. s \ {a} \in SUBSET s /\ s \ {a} # s /\ s \ {a} \in SUBSET X
  BY <1>1, <1>3
<1>5. s \ {a} # {}
  BY <1>2, <1>3
<1>6. PICK m \in s \ {a} : \A x \in s \ {a} : f[m] <= f[x]
  BY <1>1, <1>4, <1>5
<1>7. f[a] \in Int /\ f[m] \in Int
  BY <1>2, <1>3, <1>6
<1>8. CASE f[m] <= f[a]
  BY <1>2, <1>6, <1>8
<1>9. CASE f[a] < f[m]
  <2>1. \A x \in s : f[x] \in Int
    BY <1>2
  <2> QED BY <1>2, <1>3, <1>6, <1>7, <1>9, <2>1
<1> QED BY <1>7, <1>8, <1>9
=============================================================================
