----------------------------- MODULE BackOffProofs -----------------------------
(****************************************************************************)
(* What holds of BackOff for all delays, bucket sizes, keys and times.        *)
(*                                                                            *)
(* Two of its operators are recursive: Pow2, and the fold behind Total.  The  *)
(* library's induction theorems take an operator as a parameter, which the    *)
(* provers cannot instantiate; NatInduction here takes a set instead and      *)
(* comes from the well-foundedness of < on Nat.                               *)
(****************************************************************************)
EXTENDS BackOff, FiniteSetTheorems, WellFoundedInduction, TLAPS

(* Induction for the set of the numbers that have a property. *)
LEMMA SetOfNatInduction ==
  ASSUME NEW T, 0 \in T, \A n \in Nat : n \in T => n + 1 \in T
  PROVE  \A n \in Nat : n \in T
  <1> DEFINE Counter == Nat \ T
  <1>1. SUFFICES ASSUME Counter # {} PROVE FALSE  OBVIOUS
  <1>2. PICK m \in Counter : \A n \in Counter : ~ (<<n, m>> \in OpToRel(<, Nat))
    BY <1>1, NatLessThanWellFounded, WFMin
  <1>3. m \in Nat /\ m # 0 /\ m - 1 \in Nat  OBVIOUS
  <1>4. <<m - 1, m>> \in OpToRel(<, Nat)
    BY <1>3 DEF OpToRel
  <1>5. m - 1 \in T  BY <1>2, <1>3, <1>4
  <1>6. (m - 1) + 1 \in T  BY <1>3, <1>5
  <1>7. QED  BY <1>3, <1>6

------------------------------------------------------------------------------
(* Sums. *)

(* The sum over s, one element first: how the community module defines a fold. *)
Partial(f, sums, s) == IF s = {} THEN 0
                       ELSE LET x == CHOOSE x \in s : TRUE
                            IN  f[x] + sums[s \ {x}]

PartialSums(f, S, sums) == \A s \in SUBSET S : sums[s] = Partial(f, sums, s)

LEMMA PartialPicks ==
  /\ \A f, sums : Partial(f, sums, {}) = 0
  /\ \A s : s # {} =>
       \E x \in s : \A f, sums : Partial(f, sums, s) = f[x] + sums[s \ {x}]
  <1>1. \A f, sums : Partial(f, sums, {}) = 0  BY DEF Partial
  <1>2. ASSUME NEW s, s # {}
        PROVE  \E x \in s : \A f, sums : Partial(f, sums, s) = f[x] + sums[s \ {x}]
    <2> DEFINE x == CHOOSE x \in s : TRUE
    <2>1. x \in s  BY <1>2
    <2>2. \A f, sums : Partial(f, sums, s) = f[x] + sums[s \ {x}]
      BY <1>2 DEF Partial
    <2> HIDE DEF x
    <2>3. QED  BY <2>1, <2>2
  <1>3. QED  BY <1>1, <1>2

LEMMA SubsetsFinite ==
  ASSUME NEW S, IsFiniteSet(S), NEW s \in SUBSET S
  PROVE  /\ IsFiniteSet(s) /\ Cardinality(s) \in Nat
         /\ Cardinality(s) <= Cardinality(S)
         /\ Cardinality(s) = 0 => s = {}
         /\ \A x \in s : s \ {x} \in SUBSET S /\ Cardinality(s \ {x}) = Cardinality(s) - 1
  BY FS_Subset, FS_CardinalityType, FS_EmptySet, FS_RemoveElement

(* The function of all partial sums exists, on a finite domain: for the sets of
   at most n elements, by induction on n. *)
LEMMA PartialSumsExist ==
  ASSUME NEW S, IsFiniteSet(S), NEW f
  PROVE  \E sums : sums = [s \in SUBSET S |-> Partial(f, sums, s)]
  <1> DEFINE Small(n) == {s \in SUBSET S : Cardinality(s) <= n}
             T == {n \in Nat : \E sums : sums = [s \in Small(n) |-> Partial(f, sums, s)]}
  <1>1. 0 \in T
    <2> DEFINE h == [s \in Small(0) |-> 0]
    <2>1. \A s \in Small(0) : s = {}  BY SubsetsFinite
    <2>2. \A s \in Small(0) : Partial(f, h, s) = 0  BY <2>1, PartialPicks
    <2>3. h = [s \in Small(0) |-> Partial(f, h, s)]  BY <2>2
    <2> HIDE DEF h
    <2>4. QED  BY <2>3
  <1>2. ASSUME NEW n \in Nat, n \in T PROVE n + 1 \in T
    <2>1. PICK g : g = [s \in Small(n) |-> Partial(f, g, s)]  BY <1>2
    <2> DEFINE h == [s \in Small(n + 1) |-> Partial(f, g, s)]
    <2>2. ASSUME NEW s \in Small(n + 1) PROVE Partial(f, h, s) = Partial(f, g, s)
      <3>1. CASE s = {}  BY <3>1, PartialPicks
      <3>2. CASE s # {}
        <4>1. PICK x \in s : \A sums : Partial(f, sums, s) = f[x] + sums[s \ {x}]
          BY <3>2, PartialPicks
        <4>2. s \ {x} \in Small(n) /\ s \ {x} \in Small(n + 1)
          BY SubsetsFinite
        <4> HIDE DEF Small
        <4>3. h[s \ {x}] = Partial(f, g, s \ {x}) /\ g[s \ {x}] = Partial(f, g, s \ {x})
          BY <2>1, <4>2
        <4> HIDE DEF h
        <4>4. QED  BY <4>1, <4>3
      <3>3. QED  BY <3>1, <3>2
    <2>3. h = [s \in Small(n + 1) |-> Partial(f, h, s)]
      <3> HIDE DEF Small
      <3>1. h = [s \in Small(n + 1) |-> Partial(f, g, s)]  OBVIOUS
      <3> HIDE DEF h
      <3>2. QED  BY <2>2, <3>1
    <2> HIDE DEF h
    <2>4. QED  BY <2>3
  <1>3. Cardinality(S) \in T
    <2> HIDE DEF T
    <2>1. QED  BY <1>1, <1>2, SetOfNatInduction, FS_CardinalityType
  <1>4. Small(Cardinality(S)) = SUBSET S
    BY SubsetsFinite
  <1> HIDE DEF Small
  <1>5. QED  BY <1>3, <1>4

LEMMA TotalUnfolds ==
  ASSUME NEW S, IsFiniteSet(S), NEW f \in [S -> Nat]
  PROVE  \E sums : PartialSums(f, S, sums) /\ Total(f) = sums[S]
  <1> DEFINE sums == CHOOSE sums : sums = [s \in SUBSET S |-> Partial(f, sums, s)]
  <1>1. sums = [s \in SUBSET S |-> Partial(f, sums, s)]  BY PartialSumsExist
  <1>2. Total(f) = sums[S]
    BY DEF Total, FoldFunction, FoldFunctionOnSet, MapThenFoldSet, Partial
  <1> HIDE DEF sums
  <1>3. PartialSums(f, S, sums)  BY <1>1 DEF PartialSums
  <1>4. QED  BY <1>2, <1>3

(* Partial sums are numbers, and one more for a key is one more for each set
   that the key is in. *)
LEMMA PartialSumsCompare ==
  ASSUME NEW S, IsFiniteSet(S), NEW f \in [S -> Nat], NEW k \in S,
         NEW a, PartialSums(f, S, a),
         NEW g, g[k] = f[k] + 1, \A x \in S \ {k} : g[x] = f[x],
         NEW b, PartialSums(g, S, b)
  PROVE  \A s \in SUBSET S : a[s] \in Nat /\ b[s] = a[s] + (IF k \in s THEN 1 ELSE 0)
  <1> DEFINE Good(s) == a[s] \in Nat /\ b[s] = a[s] + (IF k \in s THEN 1 ELSE 0)
             T == {n \in Nat : \A s \in SUBSET S : Cardinality(s) = n => Good(s)}
  <1>1. 0 \in T
    <2>1. {} \in SUBSET S => Good({})  BY PartialPicks DEF PartialSums
    <2> HIDE DEF Good
    <2>2. QED  BY <2>1, SubsetsFinite
  <1>2. ASSUME NEW n \in Nat, n \in T PROVE n + 1 \in T
    <2>1. ASSUME NEW s \in SUBSET S, Cardinality(s) = n + 1 PROVE Good(s)
      <3> HIDE DEF Good, T
      <3>1. s # {}
        <4>1. Cardinality({}) = 0 /\ n + 1 # 0  BY FS_EmptySet
        <4>2. QED  BY <2>1, <4>1, Zenon
      <3>2. PICK x \in s : \A fn, sums : Partial(fn, sums, s) = fn[x] + sums[s \ {x}]
        BY <3>1, PartialPicks
      <3>3. a[s] = f[x] + a[s \ {x}] /\ b[s] = g[x] + b[s \ {x}]
        BY <3>2 DEF PartialSums
      <3>4. Good(s \ {x})
        <4>1. s \ {x} \in SUBSET S /\ Cardinality(s \ {x}) = n  BY <2>1, SubsetsFinite
        <4>2. QED  BY <1>2, <4>1 DEF T
      <3> USE DEF Good
      <3>5. f[x] \in Nat /\ g[x] = f[x] + (IF x = k THEN 1 ELSE 0)  OBVIOUS
      <3>6. k \in s \ {x} <=> k \in s /\ x # k  OBVIOUS
      <3>7. QED  BY <3>3, <3>4, <3>5, <3>6
    <2> HIDE DEF Good
    <2>2. QED  BY <2>1
  <1>3. \A n \in Nat : n \in T
    <2> HIDE DEF T
    <2>1. QED  BY <1>1, <1>2, SetOfNatInduction
  <1> HIDE DEF Good
  <1>4. \A s \in SUBSET S : Good(s)  BY <1>3, SubsetsFinite
  <1>5. QED  BY <1>4 DEF Good

(* A total is a number; a hand-over adds one to it. *)
LEMMA TotalCounts ==
  ASSUME NEW S, IsFiniteSet(S), NEW f \in [S -> Nat], NEW k \in S
  PROVE  /\ Total(f) \in Nat
         /\ Total([f EXCEPT ![k] = @ + 1]) = Total(f) + 1
  <1> DEFINE h == [f EXCEPT ![k] = @ + 1]
  <1>1. PICK g \in [S -> Nat] : g = h
    <2>1. h \in [S -> Nat]  OBVIOUS
    <2> HIDE DEF h
    <2>2. QED  BY <2>1
  <1>2. PICK a : PartialSums(f, S, a) /\ Total(f) = a[S]  BY TotalUnfolds
  <1>3. PICK b : PartialSums(g, S, b) /\ Total(g) = b[S]  BY TotalUnfolds
  <1>4. a[S] \in Nat /\ b[S] = a[S] + 1
    <2>1. PartialSums(f, S, a) /\ PartialSums(g, S, b)  BY <1>2, <1>3
    <2>2. g[k] = f[k] + 1 /\ \A x \in S \ {k} : g[x] = f[x]  BY <1>1
    <2> HIDE DEF h
    <2>3. QED  BY <1>1, <2>1, <2>2, PartialSumsCompare
  <1>5. QED  BY <1>1, <1>2, <1>3, <1>4

(* Without hand-overs the total is zero. *)
LEMMA TotalOfNone ==
  ASSUME NEW S, IsFiniteSet(S)
  PROVE  Total([k \in S |-> 0]) = 0
  <1>1. PICK f \in [S -> Nat] : f = [k \in S |-> 0]  OBVIOUS
  <1>2. PICK sums : PartialSums(f, S, sums) /\ Total(f) = sums[S]
    BY TotalUnfolds
  <1> DEFINE T == {n \in Nat : \A s \in SUBSET S : Cardinality(s) = n => sums[s] = 0}
  <1>3. 0 \in T
    <2>1. sums[{}] = 0  BY <1>2, PartialPicks DEF PartialSums
    <2>2. QED  BY <2>1, SubsetsFinite
  <1>4. ASSUME NEW n \in Nat, n \in T PROVE n + 1 \in T
    <2>1. ASSUME NEW s \in SUBSET S, Cardinality(s) = n + 1 PROVE sums[s] = 0
      <3>1. s # {}  BY <2>1, FS_EmptySet
      <3>2. PICK x \in s : Partial(f, sums, s) = f[x] + sums[s \ {x}]
        BY <3>1, PartialPicks
      <3>3. sums[s \ {x}] = 0  BY <1>4, <2>1, SubsetsFinite
      <3>4. f[x] = 0  BY <1>1
      <3>5. QED  BY <1>2, <3>2, <3>3, <3>4 DEF PartialSums
    <2>2. QED  BY <2>1
  <1>5. Cardinality(S) \in T
    <2> HIDE DEF T
    <2>1. QED  BY <1>3, <1>4, SetOfNatInduction, FS_CardinalityType
  <1>6. QED  BY <1>1, <1>2, <1>5

LEMMA TotalType ==
  ASSUME NEW S, IsFiniteSet(S), NEW f \in [S -> Nat]
  PROVE  Total(f) \in Nat
  <1>1. CASE S = {}
    <2>1. f = [k \in S |-> 0]  BY <1>1
    <2>2. QED  BY <2>1, TotalOfNone
  <1>2. CASE S # {}  BY <1>2, TotalCounts
  <1>3. QED  BY <1>1, <1>2

------------------------------------------------------------------------------
(* Delays. *)

LEMMA Pow2Positive == \A exp \in 0..MaxCalls : Pow2[exp] \in Nat \ {0}
  <1> DEFINE Double(p, exp) == IF exp = 0 THEN 1 ELSE 2 * p[exp - 1]
             T == {n \in Nat : \E p : p = [exp \in 0..n |-> Double(p, exp)]}
  <1>1. 0 \in T
    <2> DEFINE h == [exp \in 0..0 |-> 1]
    <2>1. h = [exp \in 0..0 |-> Double(h, exp)]  OBVIOUS
    <2> HIDE DEF h
    <2>2. QED  BY <2>1
  <1>2. ASSUME NEW n \in Nat, n \in T PROVE n + 1 \in T
    <2>1. PICK g : g = [exp \in 0..n |-> Double(g, exp)]  BY <1>2
    <2> DEFINE h == [exp \in 0..(n + 1) |-> Double(g, exp)]
    <2>2. ASSUME NEW exp \in 0..(n + 1) PROVE Double(h, exp) = Double(g, exp)
      <3>1. CASE exp = 0  BY <3>1
      <3>2. CASE exp # 0
        <4>1. exp - 1 \in 0..n /\ exp - 1 \in 0..(n + 1)  BY <3>2
        <4>2. h[exp - 1] = Double(g, exp - 1)  BY <4>1
        <4> HIDE DEF h, Double
        <4>3. h[exp - 1] = g[exp - 1]  BY <2>1, <4>1, <4>2
        <4>4. QED  BY <4>3 DEF Double
      <3>3. QED  BY <3>1, <3>2
    <2>3. h = [exp \in 0..(n + 1) |-> Double(g, exp)]  OBVIOUS
    <2> HIDE DEF h, Double
    <2>4. h = [exp \in 0..(n + 1) |-> Double(h, exp)]  BY <2>2, <2>3
    <2>5. QED  BY <2>4
  <1>3. MaxCalls \in T
    <2> HIDE DEF T
    <2>1. QED  BY <1>1, <1>2, SetOfNatInduction, BackOffAssumption
  <1>4. PICK p : p = [exp \in 0..MaxCalls |-> Double(p, exp)]  BY <1>3
  <1>5. Pow2 = [exp \in 0..MaxCalls |-> Double(Pow2, exp)]
    <2> DEFINE q == CHOOSE q : q = [exp \in 0..MaxCalls |-> Double(q, exp)]
    <2>1. Pow2 = q  BY DEF Pow2
    <2>2. q = [exp \in 0..MaxCalls |-> Double(q, exp)]
      <3> HIDE DEF Double
      <3>1. QED  BY <1>4
    <2> HIDE DEF q, Double
    <2>3. QED  BY <2>1, <2>2
  <1> DEFINE P == {n \in Nat : n <= MaxCalls => Pow2[n] \in Nat \ {0}}
  <1>6. 0 \in P  BY <1>5, BackOffAssumption
  <1>7. ASSUME NEW n \in Nat, n \in P PROVE n + 1 \in P
    <2> SUFFICES ASSUME n + 1 <= MaxCalls PROVE Pow2[n + 1] \in Nat \ {0}  OBVIOUS
    <2>1. n + 1 \in 0..MaxCalls /\ n + 1 # 0 /\ (n + 1) - 1 = n
      BY BackOffAssumption
    <2>2. Pow2[n + 1] = 2 * Pow2[n]  BY <1>5, <2>1
    <2>3. Pow2[n] \in Nat \ {0}  BY <1>7, BackOffAssumption
    <2> HIDE DEF Double
    <2>4. QED  BY <2>2, <2>3
  <1>8. \A n \in Nat : n \in P
    <2> HIDE DEF P
    <2>1. QED  BY <1>6, <1>7, SetOfNatInduction
  <1>9. QED  BY <1>8, BackOffAssumption

LEMMA Products ==
  ASSUME NEW a \in Nat, NEW b \in Nat, NEW p \in Nat \ {0}
  PROVE  /\ a * p \in Nat
         /\ (a + 1) * p = a * p + p
         /\ a <= b => a * p <= b * p
         /\ b # 0 => b * p >= p
  OBVIOUS

(* The types of the variables; the heap is finite. *)
Typed ==
  /\ now \in 0..Horizon
  /\ failures \in [Keys -> 0..MaxCalls]
  /\ tokens \in Int /\ last \in 0..now
  /\ waiting \subseteq [key : Keys, readyAt : Nat] /\ IsFiniteSet(waiting)
  /\ dirty \subseteq Keys /\ processing \subseteq Keys
  /\ hearBy \in [Keys -> Nat]
  /\ handed \in [Keys -> Int] /\ handovers \in [Keys -> Nat]

(* The back-off of a key is between baseDelay and maxDelay, also when the
   calculation overflows. *)
LEMMA ItemDelayBounds ==
  ASSUME Typed, NEW k \in Keys
  PROVE  ItemDelay(k) \in Nat /\ baseDelay <= ItemDelay(k) /\ ItemDelay(k) <= maxDelay
  <1> USE BackOffAssumption
  <1>1. failures[k] \in 0..MaxCalls  BY DEF Typed
  <1>2. PICK p \in Nat \ {0} : Pow2[failures[k]] = p  BY <1>1, Pow2Positive
  <1>3. PICK b \in Nat : b = baseDelay * p /\ b >= baseDelay
    <2>1. baseDelay * p \in Nat /\ baseDelay * p >= baseDelay
      <3>1. p * baseDelay \in Nat /\ p * baseDelay >= baseDelay  BY Products
      <3>2. QED  BY <3>1
    <2>2. QED  BY <2>1
  <1>4. ItemDelay(k) = IF b > MaxInt THEN maxDelay
                       ELSE IF b > maxDelay THEN maxDelay ELSE b
    BY <1>2, <1>3 DEF ItemDelay, Capped, Duration
  <1>5. QED  BY <1>3, <1>4

LEMMA TokensLeftBounds ==
  ASSUME Typed
  PROVE  /\ TokensLeft \in Int
         /\ TokensLeft <= tokens + (now - last) - PerToken
         /\ BucketDelay \in Nat /\ BucketDelay >= -TokensLeft
  <1> USE BackOffAssumption
  <1>1. burst * PerToken \in Nat  BY Products
  <1>2. PICK full \in Nat : full = burst * PerToken  BY <1>1
  <1>3. now \in Nat /\ last \in Nat /\ tokens \in Int  BY DEF Typed
  <1>4. /\ TokensLeft \in Int
        /\ TokensLeft <= tokens + (now - last) - PerToken
    BY <1>2, <1>3 DEF TokensLeft
  <1>5. QED  BY <1>4 DEF BucketDelay

LEMMA WhenBounds ==
  ASSUME Typed, NEW k \in Keys
  PROVE  /\ When(k) \in Nat \ {0} /\ baseDelay <= When(k)
         /\ When(k) >= -TokensLeft /\ TokensLeft \in Int
         /\ Larger(maxDelay, BucketDelay) \in Nat
         /\ When(k) <= Larger(maxDelay, BucketDelay)
  <1>1. /\ ItemDelay(k) \in Nat /\ baseDelay <= ItemDelay(k) /\ ItemDelay(k) <= maxDelay
        /\ TokensLeft \in Int /\ BucketDelay \in Nat /\ BucketDelay >= -TokensLeft
    BY ItemDelayBounds, TokensLeftBounds
  <1>2. QED  BY <1>1, BackOffAssumption DEF When, Larger

------------------------------------------------------------------------------
(* The inductive invariant. *)

(* The heap holds a key once (delaying_queue.go:345-360). *)
OneEntry == \A d, e \in waiting : d.key = e.key => d = e

(* No entry is due before its key may be handed over again. *)
NotTooSoon ==
  /\ \A k \in Keys : handed[k] <= now
  /\ \A e \in waiting : handed[e.key] + baseDelay <= e.readyAt

(* A key that is to be heard has an entry that is due in time. *)
Expected ==
  \A k \in Keys : hearBy[k] # Never =>
      \E e \in waiting : e.key = k /\ e.readyAt <= hearBy[k]

(* The bucket has counted a token for each hand-over and each entry. *)
BucketPaid ==
  (Total(handovers) + Cardinality(waiting)) * PerToken
      <= burst * PerToken + (last - tokens)

Due(t) == {e \in waiting : e.readyAt <= t}

(* What is due by some time, now or later, is paid for by then. *)
DuePaid ==
  \A t \in Nat : now <= t =>
      (Total(handovers) + Cardinality(Due(t))) * PerToken <= burst * PerToken + t

BackOffInv ==
  Typed /\ OneEntry /\ NotTooSoon /\ Expected /\ HeardInTime /\ BucketPaid /\ DuePaid

LEMMA DueFinite ==
  ASSUME Typed
  PROVE  /\ IsFiniteSet(waiting) /\ Cardinality(waiting) \in Nat
         /\ \A t : Cardinality(Due(t)) \in Nat /\ Cardinality(Due(t)) <= Cardinality(waiting)
         /\ \A t : IsFiniteSet(Due(t))
  BY SubsetsFinite, FS_CardinalityType DEF Typed, Due

(* What insert makes of the heap. *)
LEMMA InsertKeeps ==
  ASSUME Typed, OneEntry, NEW k \in Keys, NEW at \in Nat, Insert(k, at)
  PROVE  /\ waiting' \subseteq [key : Keys, readyAt : Nat] /\ IsFiniteSet(waiting')
         /\ OneEntry'
         /\ \A e \in waiting' : e \in waiting \/ (e.key = k /\ e.readyAt = at)
         /\ \A e \in waiting : e.key # k => e \in waiting'
         /\ \E d \in waiting' : /\ d.key = k /\ d.readyAt <= at
                                /\ \A e \in waiting : e.key = k => d.readyAt <= e.readyAt
         /\ Cardinality(waiting') <= Cardinality(waiting) + 1
  <1> DEFINE others == {e \in waiting : e.key # k}
             new == [key |-> k, readyAt |-> at]
  <1>1. /\ waiting \subseteq [key : Keys, readyAt : Nat] /\ IsFiniteSet(waiting)
        /\ Cardinality(waiting) \in Nat
    BY DueFinite DEF Typed
  <1>2. CASE \E e \in waiting : e.key = k /\ e.readyAt <= at
    <2>1. waiting' = waiting  BY <1>2 DEF Insert
    <2>2. PICK d \in waiting : d.key = k /\ d.readyAt <= at  BY <1>2
    <2>3. \A e \in waiting : e.key = k => e = d  BY <2>2 DEF OneEntry
    <2>4. d.readyAt \in Nat  BY <1>1
    <2>5. \A e \in waiting : e.key = k => d.readyAt <= e.readyAt  BY <2>3, <2>4
    <2>6. OneEntry'  BY <2>1 DEF OneEntry
    <2>7. QED  BY <1>1, <2>1, <2>2, <2>5, <2>6
  <1>3. CASE ~ \E e \in waiting : e.key = k /\ e.readyAt <= at
    <2>1. waiting' = others \cup {new}  BY <1>3 DEF Insert
    <2>2. /\ IsFiniteSet(others) /\ Cardinality(others) \in Nat
          /\ Cardinality(others) <= Cardinality(waiting)
      BY <1>1, SubsetsFinite
    <2>3. /\ IsFiniteSet(waiting')
          /\ Cardinality(waiting') <= Cardinality(waiting) + 1
      <3> HIDE DEF others, new
      <3>1. /\ IsFiniteSet(others \cup {new})
            /\ Cardinality(others \cup {new}) \in {Cardinality(others), Cardinality(others) + 1}
        BY <2>2, FS_AddElement
      <3>2. QED  BY <1>1, <2>1, <2>2, <3>1
    <2>4. new \in waiting' /\ new.key = k /\ new.readyAt = at  BY <2>1
    <2>5. \A e \in waiting : e.key = k => at <= e.readyAt  BY <1>1, <1>3
    <2>6. OneEntry'  BY <2>1 DEF OneEntry
    <2>7. waiting' \subseteq [key : Keys, readyAt : Nat]  BY <1>1, <2>1
    <2>8. \A e \in waiting' : e \in waiting \/ (e.key = k /\ e.readyAt = at)
      BY <2>1
    <2>9. \A e \in waiting : e.key # k => e \in waiting'  BY <2>1
    <2>10. \E d \in waiting' : /\ d.key = k /\ d.readyAt <= at
                               /\ \A e \in waiting : e.key = k => d.readyAt <= e.readyAt
      BY <2>4, <2>5
    <2>11. QED  BY <2>3, <2>6, <2>7, <2>8, <2>9, <2>10
  <1>4. QED  BY <1>2, <1>3

LEMMA BackOffInit == Init => BackOffInv
  <1> SUFFICES ASSUME Init PROVE BackOffInv  OBVIOUS
  <1> USE DEF Init
  <1>1. burst * PerToken \in Nat /\ PerToken \in Nat \ {0}
    BY Products, BackOffAssumption
  <1>2. IsFiniteSet(waiting) /\ Cardinality(waiting) = 0  BY FS_EmptySet
  <1>3. Typed
    <2>1. burst * PerToken \in Int /\ 0 \in 0..Horizon /\ 0 \in 0..MaxCalls /\ 0 \in 0..0
      BY <1>1, BackOffAssumption
    <2>2. -baseDelay \in Int /\ Never \in Nat  BY BackOffAssumption DEF Never
    <2>3. QED  BY <1>2, <2>1, <2>2 DEF Typed
  <1>4. OneEntry /\ Expected /\ HeardInTime
    BY DEF OneEntry, Expected, HeardInTime
  <1>5. NotTooSoon  BY BackOffAssumption DEF NotTooSoon
  <1>6. Total(handovers) = 0  BY TotalOfNone, BackOffAssumption
  <1>7. \A t : Cardinality(Due(t)) = 0
    <2>1. \A t : Due(t) = {}  BY DEF Due
    <2>2. QED  BY <2>1, FS_EmptySet
  <1>8. BucketPaid  BY <1>1, <1>2, <1>6 DEF BucketPaid
  <1>9. DuePaid  BY <1>1, <1>6, <1>7 DEF DuePaid
  <1>10. QED  BY <1>3, <1>4, <1>5, <1>8, <1>9 DEF BackOffInv

(* A call of the limiter: an entry in the heap, never a hand-over at once. *)
LEMMA CallKeeps ==
  ASSUME BackOffInv, NEW k \in Keys, Call(k),
         processing' \subseteq Keys
  PROVE  BackOffInv' /\ UNCHANGED <<handovers, handed, now>>
  <1> USE DEF BackOffInv
  <1> DEFINE at == now + When(k)
  <1>1. /\ When(k) \in Nat \ {0} /\ baseDelay <= When(k)
        /\ When(k) >= -TokensLeft /\ TokensLeft \in Int
        /\ Larger(maxDelay, BucketDelay) \in Nat
        /\ When(k) <= Larger(maxDelay, BucketDelay)
    BY WhenBounds
  <1>2. /\ failures[k] < MaxCalls /\ failures' = [failures EXCEPT ![k] = @ + 1]
        /\ tokens' = TokensLeft /\ last' = now /\ now' = now
        /\ Insert(k, at)
        /\ hearBy' = [hearBy EXCEPT ![k] =
               IF @ # Never THEN @ ELSE now + Larger(maxDelay, BucketDelay)]
        /\ UNCHANGED <<dirty, handed, handovers>>
    BY <1>1 DEF Call
  <1>3. now \in Nat /\ now \in 0..Horizon /\ at \in Nat  BY <1>1 DEF Typed
  <1> DEFINE allowed == now + Larger(maxDelay, BucketDelay)
  <1>4. allowed \in Nat /\ at <= allowed /\ now <= allowed
    BY <1>1, <1>3
  <1> HIDE DEF at, allowed
  <1>5. /\ waiting' \subseteq [key : Keys, readyAt : Nat] /\ IsFiniteSet(waiting')
        /\ OneEntry'
        /\ \A e \in waiting' : e \in waiting \/ (e.key = k /\ e.readyAt = at)
        /\ \A e \in waiting : e.key # k => e \in waiting'
        /\ \E d \in waiting' : /\ d.key = k /\ d.readyAt <= at
                               /\ \A e \in waiting : e.key = k => d.readyAt <= e.readyAt
        /\ Cardinality(waiting') <= Cardinality(waiting) + 1
    BY <1>2, <1>3, InsertKeeps
  <1>6. /\ hearBy \in [Keys -> Nat] /\ hearBy' \in [Keys -> Nat]
        /\ \A x \in Keys \ {k} : hearBy'[x] = hearBy[x]
        /\ hearBy'[k] = IF hearBy[k] # Never THEN hearBy[k] ELSE allowed
    BY <1>2, <1>4 DEF Typed, allowed
  <1>7. Typed'
    <2>1. failures' \in [Keys -> 0..MaxCalls]
      <3>1. failures \in [Keys -> 0..MaxCalls] /\ failures[k] + 1 \in 0..MaxCalls
        BY <1>2, BackOffAssumption DEF Typed
      <3>2. QED  BY <1>2, <3>1
    <2>2. tokens' \in Int /\ last' \in 0..now'  BY <1>1, <1>2, <1>3
    <2>3. QED  BY <1>2, <1>5, <1>6, <2>1, <2>2 DEF Typed
  <1>8. NotTooSoon'
    <2>1. handed[k] + baseDelay <= at
      BY <1>1, <1>3, BackOffAssumption DEF NotTooSoon, Typed, at
    <2>2. QED  BY <1>2, <1>5, <2>1 DEF NotTooSoon
  <1>9. Expected'
    <2> SUFFICES ASSUME NEW x \in Keys, hearBy'[x] # Never
                 PROVE  \E e \in waiting' : e.key = x /\ e.readyAt <= hearBy'[x]
      BY DEF Expected, Never
    <2>1. CASE x # k
      <3>1. PICK e \in waiting : e.key = x /\ e.readyAt <= hearBy[x]
        BY <1>6, <2>1 DEF Expected
      <3>2. QED  BY <1>5, <1>6, <2>1, <3>1
    <2>2. CASE x = k
      <3>1. PICK d \in waiting' : /\ d.key = k /\ d.readyAt <= at /\ d.readyAt \in Nat
                                  /\ \A e \in waiting : e.key = k => d.readyAt <= e.readyAt
        BY <1>5
      <3>2. CASE hearBy[k] # Never
        <4>1. PICK e \in waiting : e.key = k /\ e.readyAt <= hearBy[k]
          BY <3>2 DEF Expected
        <4>2. e.readyAt \in Nat /\ hearBy[k] \in Nat  BY <1>6 DEF Typed
        <4>3. d.readyAt <= hearBy[k]  BY <3>1, <4>1, <4>2
        <4>4. QED  BY <1>6, <2>2, <3>1, <3>2, <4>3
      <3>3. CASE hearBy[k] = Never
        <4>1. d.readyAt <= allowed  BY <1>3, <1>4, <3>1
        <4>2. QED  BY <1>6, <2>2, <3>1, <3>3, <4>1
      <3>4. QED  BY <3>2, <3>3
    <2>3. QED  BY <2>1, <2>2
  <1>10. HeardInTime'
    BY <1>2, <1>4, <1>6 DEF HeardInTime, Never
  <1> DEFINE H == Total(handovers)
             W == Cardinality(waiting)
  <1>11. H \in Nat /\ W \in Nat
    BY TotalCounts, DueFinite, BackOffAssumption DEF Typed
  <1>12. Cardinality(waiting') \in Nat  BY <1>5, FS_CardinalityType
  <1> DEFINE paid == burst * PerToken
  <1>13. paid \in Nat /\ PerToken \in Nat \ {0}
    BY Products, BackOffAssumption
  <1>14. (H + Cardinality(waiting')) * PerToken <= paid + (now - TokensLeft)
    <2>1. (H + W) * PerToken <= paid + (last - tokens)  BY DEF BucketPaid
    <2>2. (H + Cardinality(waiting')) * PerToken <= (H + W + 1) * PerToken
      BY <1>5, <1>11, <1>12, <1>13, Products
    <2>3. (H + W + 1) * PerToken = (H + W) * PerToken + PerToken
      BY <1>11, <1>13, Products
    <2>4. TokensLeft <= tokens + (now - last) - PerToken  BY TokensLeftBounds
    <2>5. PICK a \in Nat : a = (H + W) * PerToken  BY <1>11, <1>13, Products
    <2>6. PICK b \in Nat : b = (H + Cardinality(waiting')) * PerToken
      BY <1>11, <1>12, <1>13, Products
    <2>7. tokens \in Int /\ last \in Int /\ now \in Int  BY DEF Typed
    <2> HIDE DEF H, W, paid
    <2>8. b <= a + PerToken /\ a <= paid + (last - tokens)
      BY <2>1, <2>2, <2>3, <2>5, <2>6
    <2>9. b <= paid + (now - TokensLeft)
      BY <1>1, <1>13, <2>4, <2>5, <2>6, <2>7, <2>8
    <2>10. QED  BY <2>6, <2>9
  <1>15. BucketPaid'
    BY <1>2, <1>14 DEF BucketPaid
  <1>16. DuePaid'
    <2> SUFFICES ASSUME NEW t \in Nat, now <= t
                 PROVE  (H + Cardinality(Due(t)')) * PerToken <= paid + t
      BY <1>2 DEF DuePaid
    <2>1. /\ Cardinality(Due(t)) \in Nat /\ IsFiniteSet(Due(t))
          /\ Cardinality(Due(t)') \in Nat /\ Cardinality(Due(t)') <= Cardinality(waiting')
      <3>1. Cardinality(Due(t)) \in Nat /\ IsFiniteSet(Due(t))  BY DueFinite
      <3>2. Due(t)' \in SUBSET waiting'  BY DEF Due
      <3>3. QED  BY <1>5, <3>1, <3>2, SubsetsFinite
    <2>2. CASE t < at
      <3>1. Due(t)' \subseteq Due(t)
        BY <1>3, <1>5, <2>2 DEF Due
      <3>2. Cardinality(Due(t)') <= Cardinality(Due(t))
        BY <2>1, <3>1, SubsetsFinite
      <3>3. (H + Cardinality(Due(t)')) * PerToken <= (H + Cardinality(Due(t))) * PerToken
        BY <1>11, <1>13, <2>1, <3>2, Products
      <3>4. (H + Cardinality(Due(t))) * PerToken <= paid + t  BY DEF DuePaid
      <3>5. PICK a \in Nat : a = (H + Cardinality(Due(t))) * PerToken
        BY <1>11, <1>13, <2>1, Products
      <3>6. PICK b \in Nat : b = (H + Cardinality(Due(t)')) * PerToken
        BY <1>11, <1>13, <2>1, Products
      <3> HIDE DEF H, paid
      <3>7. QED  BY <1>13, <3>3, <3>4, <3>5, <3>6
    <2>3. CASE at <= t
      <3>1. (H + Cardinality(Due(t)')) * PerToken <= (H + Cardinality(waiting')) * PerToken
        BY <1>11, <1>12, <1>13, <2>1, Products
      <3>2. now - TokensLeft <= t  BY <1>1, <1>3, <2>3 DEF at
      <3>3. PICK a \in Nat : a = (H + Cardinality(waiting')) * PerToken
        BY <1>11, <1>12, <1>13, Products
      <3>4. PICK b \in Nat : b = (H + Cardinality(Due(t)')) * PerToken
        BY <1>11, <1>13, <2>1, Products
      <3> HIDE DEF H, paid
      <3>5. b <= a /\ a <= paid + (now - TokensLeft)  BY <1>14, <3>1, <3>3, <3>4
      <3>6. b <= paid + t
        BY <1>1, <1>3, <1>13, <3>2, <3>3, <3>4, <3>5
      <3>7. QED  BY <3>4, <3>6
    <2>4. QED  BY <1>3, <2>2, <2>3
  <1>17. QED
    BY <1>2, <1>5, <1>7, <1>8, <1>9, <1>10, <1>15, <1>16

(* A hand-over turns an entry into a token spent; it comes late enough. *)
LEMMA RipenKeeps ==
  ASSUME BackOffInv, Ripen
  PROVE  /\ BackOffInv'
         /\ \A k \in Keys : handovers'[k] # handovers[k] => now >= handed[k] + baseDelay
  <1> USE DEF BackOffInv
  <1>1. PICK e \in waiting :
          /\ e.readyAt <= now /\ waiting' = waiting \ {e} /\ HandOver(e.key)
          /\ UNCHANGED <<now, limiterVars, processing>>
    BY DEF Ripen
  <1>2. PICK k \in Keys : e.key = k  BY DEF Typed
  <1>3. /\ dirty' = dirty \cup {k}
        /\ hearBy' = [hearBy EXCEPT ![k] = Never]
        /\ handed' = [handed EXCEPT ![k] = now]
        /\ handovers' = [handovers EXCEPT ![k] = @ + 1]
        /\ UNCHANGED <<now, failures, tokens, last, processing>>
    BY <1>1, <1>2 DEF HandOver, limiterVars
  <1>4. now \in 0..Horizon /\ now \in Nat /\ e.readyAt \in Nat  BY DEF Typed
  <1>5. \A d \in waiting' : d \in waiting /\ d.key # k
    BY <1>1, <1>2 DEF OneEntry
  <1>6. Typed'
    <2>1. Never \in Nat  BY BackOffAssumption DEF Never
    <2>2. IsFiniteSet(waiting')  BY <1>1, FS_RemoveElement DEF Typed
    <2>3. hearBy' \in [Keys -> Nat] /\ handed' \in [Keys -> Int]
      BY <1>3, <1>4, <2>1 DEF Typed
    <2>4. handovers' \in [Keys -> Nat]  BY <1>3 DEF Typed
    <2>5. QED  BY <1>1, <1>3, <2>2, <2>3, <2>4 DEF Typed
  <1>7. OneEntry'  BY <1>5 DEF OneEntry
  <1>8. NotTooSoon'
    BY <1>3, <1>4, <1>5 DEF NotTooSoon, Typed
  <1>9. Expected'
    <2> SUFFICES ASSUME NEW x \in Keys, hearBy'[x] # Never
                 PROVE  \E d \in waiting' : d.key = x /\ d.readyAt <= hearBy'[x]
      BY DEF Expected, Never
    <2>1. x # k /\ hearBy'[x] = hearBy[x]  BY <1>3 DEF Typed
    <2>2. PICK d \in waiting : d.key = x /\ d.readyAt <= hearBy[x]
      BY <2>1 DEF Expected
    <2>3. d \in waiting'  BY <1>1, <1>2, <2>1, <2>2
    <2>4. QED  BY <2>1, <2>2, <2>3
  <1>10. HeardInTime'
    BY <1>3 DEF HeardInTime, Typed, Never
  <1> DEFINE H == Total(handovers)
  <1>11. H \in Nat /\ Total(handovers') = H + 1
    BY <1>3, TotalCounts, BackOffAssumption DEF Typed
  <1>12. BucketPaid'
    <2>1. Cardinality(waiting') = Cardinality(waiting) - 1 /\ Cardinality(waiting) \in Nat
      BY <1>1, FS_RemoveElement, DueFinite
    <2>2. Total(handovers') + Cardinality(waiting') = H + Cardinality(waiting)
      BY <1>11, <2>1
    <2>3. QED  BY <1>3, <2>2 DEF BucketPaid
  <1>13. DuePaid'
    <2> SUFFICES ASSUME NEW t \in Nat, now <= t
                 PROVE  (Total(handovers') + Cardinality(Due(t)')) * PerToken
                            <= burst * PerToken + t
      BY <1>3 DEF DuePaid
    <2>1. Due(t)' = Due(t) \ {e} /\ e \in Due(t)
      BY <1>1, <1>4 DEF Due
    <2>2. Cardinality(Due(t)') = Cardinality(Due(t)) - 1 /\ Cardinality(Due(t)) \in Nat
      BY <2>1, FS_RemoveElement, DueFinite
    <2>3. Total(handovers') + Cardinality(Due(t)') = H + Cardinality(Due(t))
      BY <1>11, <2>2
    <2>4. QED  BY <2>3 DEF DuePaid
  <1>14. \A x \in Keys : handovers'[x] # handovers[x] => now >= handed[x] + baseDelay
    <2>1. \A x \in Keys : handovers'[x] # handovers[x] => x = k
      BY <1>3 DEF Typed
    <2>2. handed[k] + baseDelay <= e.readyAt /\ handed[k] \in Int
      BY <1>2 DEF NotTooSoon, Typed
    <2>3. QED  BY <1>1, <1>4, <2>1, <2>2, BackOffAssumption
  <1>15. QED
    BY <1>6, <1>7, <1>8, <1>9, <1>10, <1>12, <1>13, <1>14

(* Time passes: an entry that is not due yet keeps its key's deadline away. *)
LEMMA TickKeeps ==
  ASSUME BackOffInv, Tick
  PROVE  BackOffInv' /\ UNCHANGED handovers
  <1> USE DEF BackOffInv
  <1>1. /\ now < Horizon /\ now' = now + 1 /\ \A e \in waiting : e.readyAt > now
        /\ UNCHANGED <<failures, tokens, last, waiting, dirty, processing,
                       hearBy, handed, handovers>>
    BY DEF Tick, limiterVars, history
  <1>2. now \in Nat /\ now' \in 0..Horizon /\ last \in 0..now'
    BY <1>1, BackOffAssumption DEF Typed
  <1>3. Typed'  BY <1>1, <1>2 DEF Typed
  <1>4. OneEntry' /\ Expected' /\ BucketPaid'
    BY <1>1 DEF OneEntry, Expected, BucketPaid, Never
  <1>5. NotTooSoon'  BY <1>1, <1>2 DEF NotTooSoon, Typed
  <1>6. HeardInTime'
    <2> SUFFICES ASSUME NEW k \in Keys, hearBy[k] # Never PROVE now + 1 <= hearBy[k]
      BY <1>1 DEF HeardInTime, Never
    <2>1. PICK e \in waiting : e.key = k /\ e.readyAt <= hearBy[k]  BY DEF Expected
    <2>2. e.readyAt \in Nat /\ hearBy[k] \in Nat /\ e.readyAt > now  BY <1>1 DEF Typed
    <2>3. QED  BY <1>2, <2>1, <2>2
  <1>7. DuePaid'
    <2> SUFFICES ASSUME NEW t \in Nat, now + 1 <= t
                 PROVE  (Total(handovers) + Cardinality(Due(t))) * PerToken
                            <= burst * PerToken + t
      BY <1>1 DEF DuePaid, Due
    <2>1. now <= t  BY <1>2
    <2>2. QED  BY <2>1 DEF DuePaid
  <1>8. QED  BY <1>1, <1>3, <1>4, <1>5, <1>6, <1>7

(* The workers' own steps, and none. *)
LEMMA WorkersKeep ==
  ASSUME BackOffInv,
         UNCHANGED <<now, tokens, last, waiting, hearBy, handed, handovers>>,
         failures' \in [Keys -> 0..MaxCalls],
         dirty' \subseteq Keys, processing' \subseteq Keys
  PROVE  BackOffInv'
  <1> USE DEF BackOffInv
  <1>1. Typed'  BY DEF Typed
  <1>2. OneEntry' /\ NotTooSoon' /\ Expected' /\ HeardInTime' /\ BucketPaid'
    BY DEF OneEntry, NotTooSoon, Expected, HeardInTime, BucketPaid, Never
  <1>3. DuePaid'  BY DEF DuePaid, Due
  <1>4. QED  BY <1>1, <1>2, <1>3

(* One step for each action. *)
LEMMA BackOffStep ==
  ASSUME BackOffInv, [Next]_vars
  PROVE  /\ BackOffInv'
         /\ \A k \in Keys : handovers'[k] # handovers[k] => now >= handed[k] + baseDelay
  <1> USE DEF BackOffInv
  <1>1. ASSUME NEW k \in Keys, AddRateLimited(k) \/ PutBack(k)
        PROVE  BackOffInv' /\ UNCHANGED handovers
    <2>1. Call(k) /\ processing' \subseteq Keys
      BY <1>1 DEF AddRateLimited, PutBack, Typed
    <2>2. QED  BY <2>1, CallKeeps
  <1>2. ASSUME NEW k \in Keys, Get(k) PROVE BackOffInv' /\ UNCHANGED handovers
    <2>1. /\ UNCHANGED <<now, tokens, last, failures, waiting, hearBy, handed, handovers>>
          /\ dirty' \subseteq Keys /\ processing' \subseteq Keys
      BY <1>2 DEF Get, limiterVars, history, Typed
    <2>2. failures' \in [Keys -> 0..MaxCalls]  BY <2>1 DEF Typed
    <2>3. QED  BY <2>1, <2>2, WorkersKeep
  <1>3. ASSUME NEW k \in Keys, Forget(k) PROVE BackOffInv' /\ UNCHANGED handovers
    <2>1. /\ UNCHANGED <<now, tokens, last, waiting, hearBy, handed, handovers>>
          /\ dirty' \subseteq Keys /\ processing' \subseteq Keys
          /\ failures' = [failures EXCEPT ![k] = 0]
      BY <1>3 DEF Forget, history, Typed
    <2>2. failures' \in [Keys -> 0..MaxCalls]
      BY <2>1, BackOffAssumption DEF Typed
    <2>3. QED  BY <2>1, <2>2, WorkersKeep
  <1>4. CASE Ripen  BY <1>4, RipenKeeps
  <1>5. CASE Tick  BY <1>5, TickKeeps
  <1>6. CASE UNCHANGED vars
    <2>1. UNCHANGED <<now, failures, tokens, last, waiting, dirty, processing,
                      hearBy, handed, handovers>>
      BY <1>6 DEF vars, limiterVars, history
    <2>2. /\ failures' \in [Keys -> 0..MaxCalls]
          /\ dirty' \subseteq Keys /\ processing' \subseteq Keys
      BY <2>1 DEF Typed
    <2>3. QED  BY <2>1, <2>2, WorkersKeep
  <1>7. QED  BY <1>1, <1>2, <1>3, <1>4, <1>5, <1>6 DEF Next

------------------------------------------------------------------------------

(* The invariant holds along every behaviour of limiter and heap. *)
THEOREM BackOffInvariant == Spec => []BackOffInv
  <1>1. Init => BackOffInv  BY BackOffInit
  <1>2. BackOffInv /\ [Next]_vars => BackOffInv'  BY BackOffStep
  <1>3. QED  BY <1>1, <1>2, PTL DEF Spec

(* No number of later calls, whose delays grow, puts off a key's sync: it comes
   within maxDelay of the first call, or when the bucket allows
   (delaying_queue.go:345-360). *)
THEOREM ChangesHeardInTime == Spec => []HeardInTime
  <1>1. BackOffInv => HeardInTime  BY DEF BackOffInv
  <1>2. QED  BY <1>1, BackOffInvariant, PTL

(* The syncs of all keys together stay within the token bucket, although the
   heap merges entries for which tokens were taken and keeps the earlier time
   (default_rate_limiters.go:222-232, rate.go:350-400). *)
THEOREM SyncRateBounded == Spec => []RateBounded
  <1>1. BackOffInv => RateBounded
    <2> SUFFICES ASSUME BackOffInv PROVE RateBounded  OBVIOUS
    <2>1. now \in Nat  BY DEF BackOffInv, Typed
    <2>2. Total(handovers) \in Nat /\ Cardinality(Due(now)) \in Nat
      <3>1. handovers \in [Keys -> Nat]  BY DEF BackOffInv, Typed
      <3>2. QED  BY <3>1, TotalType, DueFinite, BackOffAssumption DEF BackOffInv
    <2>3. (Total(handovers) + Cardinality(Due(now))) * PerToken
              <= burst * PerToken + now
      BY <2>1 DEF BackOffInv, DuePaid
    <2>4. Total(handovers) * PerToken
              <= (Total(handovers) + Cardinality(Due(now))) * PerToken
      BY <2>2, Products, BackOffAssumption
    <2>5. QED  BY <2>1, <2>2, <2>3, <2>4, Products, BackOffAssumption DEF RateBounded
  <1>2. QED  BY <1>1, BackOffInvariant, PTL

(* Two syncs of a key are at least baseDelay apart: the limiter never answers
   zero, also where 2^failures overflows (default_rate_limiters.go:116-135). *)
THEOREM HandOversApart == Spec => NoHotLoop
  <1> DEFINE Apart == \A k \in Keys :
                        handovers'[k] # handovers[k] => now >= handed[k] + baseDelay
  <1>1. BackOffInv /\ [Next]_vars => [Apart]_vars  BY BackOffStep
  <1>2. QED  BY <1>1, BackOffInvariant, PTL DEF Spec, NoHotLoop
==============================================================================
