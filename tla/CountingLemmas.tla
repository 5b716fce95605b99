--------------------------- MODULE CountingLemmas ---------------------------
(***************************************************************************)
(* Facts about natural numbers that the proofs of several components use:  *)
(* induction, over the sets of numbers and of sequences a property holds   *)
(* of, division with a variable divisor, and joining sequences.            *)
(***************************************************************************)
EXTENDS Integers, SequencesExt, FiniteSetTheorems, SequenceTheorems, WellFoundedInduction, TLAPS

\* Every nonempty set of naturals has a least member: a property that some
\* natural lacks is lacking at a first one.
LEMMA LeastMember ==
  ASSUME NEW S \in SUBSET Nat, S # {}
  PROVE  \E m \in S : \A n \in S : m <= n
<1> DEFINE R == OpToRel(<, Nat)
<1>1. IsWellFoundedOn(R, Nat)
  BY NatLessThanWellFounded
<1>2. \A x, y \in Nat : x < y => <<x, y>> \in R
  BY DEF OpToRel
<1> HIDE DEF R
<1>3. PICK m \in S : \A n \in S : ~(<<n, m>> \in R)
  BY <1>1, WFMin
<1>4. \A n \in S : ~(n < m)
  BY <1>2, <1>3
<1>5. \A n \in S : m <= n
  BY <1>4
<1> QED BY <1>5

\* A nonempty set of naturals that is bounded has a greatest member.
LEMMA GreatestMember ==
  ASSUME NEW S \in SUBSET Nat, S # {}, NEW b \in Nat, \A n \in S : n <= b
  PROVE  \E m \in S : \A n \in S : n <= m
<1> DEFINE Up == {k \in Nat : \A n \in S : n <= k}
<1>1. Up \in SUBSET Nat /\ Up # {}
  OBVIOUS
<1>2. PICK k \in Up : \A j \in Up : k <= j
  <2> HIDE DEF Up
  <2> QED BY <1>1, LeastMember
<1>3. k \in S
  <2> SUFFICES ASSUME k \notin S PROVE FALSE
    OBVIOUS
  <2>1. \A n \in S : n <= k - 1
    BY <1>2
  <2>2. k - 1 \in Nat
    <3>1. PICK n \in S : TRUE
      OBVIOUS
    <3>2. n \in Nat /\ n <= k - 1 /\ k \in Nat
      BY <2>1, <3>1
    <3> QED BY <3>2
  <2> QED BY <1>2, <2>1, <2>2
<1> QED BY <1>2, <1>3

\* Induction, with the set of the numbers that have a property for the property.
LEMMA EveryNumber ==
  ASSUME NEW S, 0 \in S, \A n \in Nat : n \in S => n + 1 \in S
  PROVE  Nat \subseteq S
<1> SUFFICES ASSUME Nat \ S # {} PROVE FALSE
  OBVIOUS
<1>1. PICK m \in Nat \ S : \A n \in Nat \ S : m <= n
  BY LeastMember
<1>2. m - 1 \in Nat /\ m - 1 \in S
  BY <1>1
<1> QED BY <1>1, <1>2

\* Sequences are built by appending: the same for them.
LEMMA EverySequence ==
  ASSUME NEW T, NEW S, <<>> \in S,
         \A s \in Seq(T) : \A x \in T : s \in S => Append(s, x) \in S
  PROVE  Seq(T) \subseteq S
<1> DEFINE N == {n \in Nat : \A s \in Seq(T) : Len(s) = n => s \in S}
<1>1. 0 \in N
  BY EmptySeq
<1>2. ASSUME NEW n \in Nat, n \in N PROVE n + 1 \in N
  <2> SUFFICES ASSUME NEW s \in Seq(T), Len(s) = n + 1 PROVE s \in S
    OBVIOUS
  <2>1. PICK t \in Seq(T), x \in T : s = Append(t, x)
    BY <1>2, SequenceEmptyOrAppend
  <2>2. Len(t) = n
    BY <2>1
  <2> QED BY <1>2, <2>1, <2>2
<1>3. Nat \subseteq N
  <2> HIDE DEF N
  <2> QED BY <1>1, <1>2, EveryNumber
<1>4. \A s \in Seq(T) : Len(s) \in Nat
  OBVIOUS
<1> QED BY <1>3, <1>4

LEMMA Division ==
  ASSUME NEW a \in Nat, NEW n \in Nat \ {0}
  PROVE  /\ a \div n \in Nat /\ a % n \in 0..(n - 1)
         /\ a = n * (a \div n) + (a % n)
OBVIOUS

\* What a number of whole groups of n comes to, compared with a.
LEMMA GroupsFit ==
  ASSUME NEW a \in Nat, NEW k \in Nat, NEW n \in Nat \ {0}
  PROVE  k <= a \div n <=> n * k <= a
<1> DEFINE q == a \div n
           r == a % n
<1>1. q \in Nat /\ r \in 0..(n - 1) /\ a = n * q + r
  BY Division
<1> HIDE DEF q, r
<1>2. CASE k <= q
  <2>1. n * (q - k) >= 0 /\ n * (q - k) = n * q - n * k
    BY <1>1, <1>2
  <2> QED BY <1>1, <1>2, <2>1 DEF q
<1>3. CASE k >= q + 1
  <2>1. n * (k - q - 1) >= 0 /\ n * (k - q - 1) = n * k - n * q - n
    BY <1>1, <1>3
  <2> QED BY <1>1, <1>3, <2>1 DEF q
<1> QED BY <1>1, <1>2, <1>3

LEMMA DivMonotone ==
  ASSUME NEW a \in Nat, NEW b \in Nat, NEW n \in Nat \ {0}, a <= b
  PROVE  a \div n <= b \div n
BY Division

\* Two numbers less than n apart have different residues.
LEMMA Residues ==
  ASSUME NEW a \in Nat, NEW b \in Nat, NEW n \in Nat \ {0}, a < b, b - a < n
  PROVE  a % n # b % n
<1> SUFFICES ASSUME a % n = b % n PROVE FALSE
  OBVIOUS
<1> DEFINE x == a \div n
           y == b \div n
           r == a % n
<1>1. x \in Nat /\ y \in Nat /\ r \in Nat
  <2>1. a \div n \in Nat /\ a % n \in 0..(n - 1)
    BY Division
  <2>2. b \div n \in Nat
    BY Division
  <2> QED BY <2>1, <2>2
<1>2. a = n * x + r
  BY Division
<1>3. b = n * y + r
  BY Division
<1> HIDE DEF x, y, r
<1>4. b - a = n * (y - x)
  BY <1>1, <1>2, <1>3
<1>5. CASE y - x <= 0
  BY <1>1, <1>4, <1>5
<1>6. CASE y - x >= 1
  BY <1>1, <1>4, <1>6
<1> QED BY <1>1, <1>5, <1>6

-----------------------------------------------------------------------------
(* Sums over a finite set, as SumFunction takes them one member at a time. *)

\* f is the sum of w over every part of its domain.
AddsUp(w, f) ==
  f = [s \in SUBSET DOMAIN w |-> IF s = {} THEN 0
                                 ELSE LET x == CHOOSE x \in s : TRUE
                                      IN w[x] + f[s \ {x}]]

LEMMA SomeSum ==
  ASSUME NEW D, IsFiniteSet(D), NEW w \in [D -> Nat]
  PROVE  \E f : AddsUp(w, f)
<1> DEFINE Small(n) == {s \in SUBSET D : Cardinality(s) <= n}
           First(s) == CHOOSE x \in s : TRUE
           Sum(f, s) == IF s = {} THEN 0 ELSE w[First(s)] + f[s \ {First(s)}]
           N == {n \in Nat : \E f : f = [s \in Small(n) |-> Sum(f, s)]}
<1>1. \A s \in SUBSET D : IsFiniteSet(s) /\ Cardinality(s) \in Nat
  BY FS_Subset, FS_CardinalityType
<1>2. \A s \in SUBSET D : s # {} => /\ First(s) \in s
                                    /\ Cardinality(s \ {First(s)}) = Cardinality(s) - 1
  BY <1>1, FS_RemoveElement
<1>3. 0 \in N
  <2>1. \A s \in Small(0) : s = {}
    BY <1>1, FS_EmptySet
  <2>2. [s \in Small(0) |-> 0] = [s \in Small(0) |-> Sum([r \in Small(0) |-> 0], s)]
    BY <2>1
  <2> QED BY <2>2
<1>4. ASSUME NEW n \in Nat, n \in N PROVE n + 1 \in N
  <2>1. PICK f : f = [s \in Small(n) |-> Sum(f, s)]
    BY <1>4
  <2> DEFINE g == [s \in Small(n + 1) |-> Sum(f, s)]
  <2>2. \A s \in Small(n) : s \in Small(n + 1) /\ g[s] = f[s]
    <3>1. \A s \in Small(n) : s \in Small(n + 1)
      BY <1>1
    <3>2. \A s \in Small(n) : f[s] = Sum(f, s)
      <4> HIDE DEF Sum, Small
      <4> QED BY <2>1
    <3>3. \A s \in Small(n + 1) : g[s] = Sum(f, s)
      <4> HIDE DEF Sum, Small
      <4> QED OBVIOUS
    <3> HIDE DEF Sum, Small, g
    <3> QED BY <3>1, <3>2, <3>3
  <2>3. \A s \in Small(n + 1) : s # {} => s \ {First(s)} \in Small(n)
    BY <1>1, <1>2
  <2>4. \A s \in Small(n + 1) : Sum(f, s) = Sum(g, s)
    <3> HIDE DEF g, Small, First
    <3> QED BY <2>2, <2>3
  <2>5. g = [s \in Small(n + 1) |-> Sum(g, s)]
    <3> HIDE DEF Sum, Small
    <3> QED BY <2>4
  <2> HIDE DEF g, Sum, Small
  <2> QED BY <2>5
<1>5. Cardinality(D) \in N
  <2>1. Nat \subseteq N
    <3> HIDE DEF N
    <3> QED BY <1>3, <1>4, EveryNumber
  <2> QED BY <2>1, FS_CardinalityType
<1>6. Small(Cardinality(D)) = SUBSET D
  BY <1>1, FS_Subset
<1>7. PICK f : f = [s \in SUBSET D |-> Sum(f, s)]
  BY <1>5, <1>6
<1>8. AddsUp(w, f)
  BY <1>7 DEF AddsUp
<1> QED BY <1>8

LEMMA SumIs ==
  ASSUME NEW D, IsFiniteSet(D), NEW w \in [D -> Nat]
  PROVE  \E f : AddsUp(w, f) /\ SumFunction(w) = f[D]
<1>1. \E f : AddsUp(w, f)
  BY SomeSum
<1> DEFINE f == CHOOSE f : AddsUp(w, f)
<1>2. AddsUp(w, f)
  BY <1>1
<1>3. SumFunction(w) = f[D]
  BY DEF AddsUp, SumFunction, SumFunctionOnSet, FoldFunctionOnSet, MapThenFoldSet
<1> QED BY <1>2, <1>3

\* What AddsUp says of one part.
LEMMA SumStep ==
  ASSUME NEW D, NEW w \in [D -> Nat], NEW f, AddsUp(w, f), NEW s \in SUBSET D
  PROVE  IF s = {} THEN f[s] = 0
         ELSE \E x \in s : f[s] = w[x] + f[s \ {x}]
<1>1. f[s] = IF s = {} THEN 0
             ELSE LET x == CHOOSE x \in s : TRUE IN w[x] + f[s \ {x}]
  BY DEF AddsUp
<1>2. s # {} => (CHOOSE x \in s : TRUE) \in s
  OBVIOUS
<1> QED BY <1>1, <1>2

\* The sum does not depend on the order: any member may come first.
LEMMA SumTakesAny ==
  ASSUME NEW D, IsFiniteSet(D), NEW w \in [D -> Nat], NEW f, AddsUp(w, f)
  PROVE  \A s \in SUBSET D : f[s] \in Nat /\ \A x \in s : f[s] = w[x] + f[s \ {x}]
<1> DEFINE Good(s) == f[s] \in Nat /\ \A x \in s : f[s] = w[x] + f[s \ {x}]
           N == {n \in Nat : \A s \in SUBSET D : Cardinality(s) <= n => Good(s)}
<1>1. \A s \in SUBSET D : /\ IsFiniteSet(s) /\ Cardinality(s) \in Nat
                          /\ Cardinality(s) = 0 <=> s = {}
                          /\ \A x \in s : Cardinality(s \ {x}) = Cardinality(s) - 1
  BY FS_Subset, FS_CardinalityType, FS_RemoveElement, FS_EmptySet
<1>2. 0 \in N
  <2>1. f[{}] = 0
    BY SumStep
  <2>2. Good({})
    BY <2>1
  <2> HIDE DEF Good
  <2> QED BY <1>1, <2>2
<1>3. ASSUME NEW n \in Nat, n \in N PROVE n + 1 \in N
  <2> SUFFICES ASSUME NEW s \in SUBSET D, Cardinality(s) = n + 1 PROVE Good(s)
    <3> HIDE DEF Good
    <3> QED BY <1>1, <1>3
  <2>1. s # {}
    BY <1>1
  <2>2. PICK c \in s : f[s] = w[c] + f[s \ {c}]
    BY <2>1, SumStep
  <2>3. \A x \in s : s \ {x} \in SUBSET D /\ Cardinality(s \ {x}) = n
    BY <1>1
  <2>4. \A x \in s : Good(s \ {x}) /\ w[x] \in Nat
    <3>1. \A x \in s : Good(s \ {x})
      <4> HIDE DEF Good
      <4> QED BY <1>3, <2>3
    <3> QED BY <3>1
  <2>5. f[s] \in Nat
    BY <2>2, <2>4
  <2>6. ASSUME NEW x \in s, x # c PROVE f[s] = w[x] + f[s \ {x}]
    <3>1. (s \ {c}) \ {x} = (s \ {x}) \ {c} /\ x \in s \ {c} /\ c \in s \ {x}
      BY <2>6
    <3>2. f[s \ {c}] = w[x] + f[(s \ {c}) \ {x}] /\ f[s \ {x}] = w[c] + f[(s \ {x}) \ {c}]
      BY <2>4, <3>1
    <3>3. f[(s \ {c}) \ {x}] \in Nat
      <4>1. (s \ {c}) \ {x} \in SUBSET D
        OBVIOUS
      <4>2. Cardinality((s \ {c}) \ {x}) = n - 1
        BY <1>1, <2>3, <3>1
      <4>3. Good((s \ {c}) \ {x})
        <5> HIDE DEF Good
        <5> QED BY <1>3, <4>1, <4>2
      <4> QED BY <4>3
    <3> QED BY <2>2, <2>4, <3>1, <3>2, <3>3
  <2> QED BY <2>2, <2>5, <2>6
<1>4. Nat \subseteq N
  <2> HIDE DEF N
  <2> QED BY <1>2, <1>3, EveryNumber
<1>5. \A s \in SUBSET D : Good(s)
  <2> HIDE DEF Good
  <2> QED BY <1>1, <1>4
<1> QED BY <1>5

\* Fewer and smaller terms have a smaller sum.
LEMMA SumMonotone ==
  ASSUME NEW D, IsFiniteSet(D), NEW w \in [D -> Nat],
         NEW C \in SUBSET D, NEW v \in [C -> Nat], \A k \in C : v[k] <= w[k]
  PROVE  SumFunction(v) <= SumFunction(w) /\ SumFunction(v) \in Nat /\ SumFunction(w) \in Nat
<1>1. IsFiniteSet(C)
  BY FS_Subset
<1>2. PICK f : AddsUp(v, f) /\ SumFunction(v) = f[C]
  BY <1>1, SumIs
<1>3. PICK g : AddsUp(w, g) /\ SumFunction(w) = g[D]
  BY SumIs
<1>4. \A s \in SUBSET C : f[s] \in Nat /\ \A x \in s : f[s] = v[x] + f[s \ {x}]
  BY <1>1, <1>2, SumTakesAny
<1>5. \A t \in SUBSET D : g[t] \in Nat /\ \A x \in t : g[t] = w[x] + g[t \ {x}]
  BY <1>3, SumTakesAny
<1>6. f[{}] = 0
  BY <1>2, SumStep
<1> DEFINE Less(s) == \A t \in SUBSET D : s \subseteq t => f[s] <= g[t]
           N == {n \in Nat : \A s \in SUBSET C : Cardinality(s) = n => Less(s)}
<1>7. \A s \in SUBSET C : /\ Cardinality(s) \in Nat
                          /\ Cardinality(s) = 0 <=> s = {}
                          /\ \A x \in s : Cardinality(s \ {x}) = Cardinality(s) - 1
  BY <1>1, FS_Subset, FS_CardinalityType, FS_RemoveElement, FS_EmptySet
<1>8. 0 \in N
  <2>1. Less({})
    BY <1>5, <1>6
  <2> HIDE DEF Less
  <2> QED BY <1>7, <2>1
<1>9. ASSUME NEW n \in Nat, n \in N PROVE n + 1 \in N
  <2> SUFFICES ASSUME NEW s \in SUBSET C, Cardinality(s) = n + 1,
                      NEW t \in SUBSET D, s \subseteq t
               PROVE  f[s] <= g[t]
    OBVIOUS
  <2>1. PICK x \in s : TRUE
    BY <1>7
  <2>2. s \ {x} \in SUBSET C /\ Cardinality(s \ {x}) = n
    BY <1>7
  <2>3. Less(s \ {x})
    <3> HIDE DEF Less
    <3> QED BY <1>9, <2>2
  <2>4. f[s \ {x}] <= g[t \ {x}]
    BY <2>3
  <2>5. f[s] = v[x] + f[s \ {x}] /\ g[t] = w[x] + g[t \ {x}]
    BY <1>4, <1>5
  <2>6. f[s \ {x}] \in Nat /\ g[t \ {x}] \in Nat /\ v[x] \in Nat /\ w[x] \in Nat /\ v[x] <= w[x]
    BY <1>4, <1>5
  <2> QED BY <2>4, <2>5, <2>6
<1>10. Nat \subseteq N
  <2> HIDE DEF N
  <2> QED BY <1>8, <1>9, EveryNumber
<1>11. f[C] <= g[D]
  <2>1. Less(C)
    <3> HIDE DEF Less
    <3> QED BY <1>7, <1>10
  <2> QED BY <2>1
<1> QED BY <1>2, <1>3, <1>4, <1>5, <1>11

-----------------------------------------------------------------------------
(* Folds over the numbers from 1 to n, the greatest of a set last.         *)

Top(s) == CHOOSE x \in s : \A y \in s : x >= y

LEMMA TopIs ==
  ASSUME NEW n \in Nat
  PROVE  /\ \A s \in SUBSET (1..n) : s # {} => Top(s) \in s
         /\ \A k \in 1..n : Top(1..k) = k /\ (1..k) \ {k} = 1..(k - 1)
<1>1. ASSUME NEW s \in SUBSET (1..n), s # {} PROVE Top(s) \in s
  <2>1. PICK m \in s : \A y \in s : y <= m
    <3>1. s \in SUBSET Nat /\ \A y \in s : y <= n
      OBVIOUS
    <3> QED BY <1>1, <3>1, GreatestMember
  <2>2. \A y \in s : m >= y
    BY <2>1
  <2> QED BY <2>2 DEF Top
<1>2. ASSUME NEW k \in 1..n PROVE Top(1..k) = k /\ (1..k) \ {k} = 1..(k - 1)
  <2>1. k \in 1..k /\ \A y \in 1..k : k >= y
    OBVIOUS
  <2>2. Top(1..k) \in 1..k /\ \A y \in 1..k : Top(1..k) >= y
    BY <2>1 DEF Top
  <2> QED BY <2>1, <2>2
<1> QED BY <1>1, <1>2

Folds(f, n, base, g) ==
  \A s \in SUBSET (1..n) : f[s] = IF s = {} THEN base ELSE g[Top(s)][f[s \ {Top(s)}]]

\* A step that stays within G can be folded: the recursive definition of a fold
\* has a solution.
LEMMA SomeFold ==
  ASSUME NEW n \in Nat, NEW G, NEW base \in G, NEW g \in [1..n -> [G -> G]]
  PROVE  \E f \in [SUBSET (1..n) -> G] : Folds(f, n, base, g)
<1> DEFINE D == 1..n
           Small(k) == {s \in SUBSET D : Cardinality(s) <= k}
           Fold(f, s) == IF s = {} THEN base ELSE g[Top(s)][f[s \ {Top(s)}]]
           N == {k \in Nat : \E f \in [Small(k) -> G] : \A s \in Small(k) : f[s] = Fold(f, s)}
<1>1. /\ IsFiniteSet(D) /\ Cardinality(D) = n
      /\ \A s \in SUBSET D : IsFiniteSet(s) /\ Cardinality(s) \in Nat /\ Cardinality(s) <= n
  <2>1. IsFiniteSet(D) /\ Cardinality(D) = n
    BY FS_Interval
  <2> HIDE DEF D
  <2> QED BY <2>1, FS_Subset, FS_CardinalityType
<1>2. \A s \in SUBSET D : s # {} => /\ Top(s) \in s
                                    /\ Cardinality(s \ {Top(s)}) = Cardinality(s) - 1
  BY <1>1, TopIs, FS_RemoveElement
<1>3. 0 \in N
  <2>1. \A s \in Small(0) : s = {}
    BY <1>1, FS_EmptySet
  <2> DEFINE f == [s \in Small(0) |-> base]
  <2>2. f \in [Small(0) -> G] /\ \A s \in Small(0) : f[s] = base
    OBVIOUS
  <2> HIDE DEF Small, f
  <2>3. \A s \in Small(0) : f[s] = Fold(f, s)
    BY <2>1, <2>2
  <2> QED BY <2>2, <2>3
<1>4. ASSUME NEW k \in Nat, k \in N PROVE k + 1 \in N
  <2>1. PICK f \in [Small(k) -> G] : \A s \in Small(k) : f[s] = Fold(f, s)
    BY <1>4
  <2> DEFINE h == [s \in Small(k + 1) |-> Fold(f, s)]
  <2>2. \A s \in Small(k) : s \in Small(k + 1)
    BY <1>1
  <2>3. \A s \in Small(k + 1) : s # {} => Top(s) \in D /\ s \ {Top(s)} \in Small(k)
    <3> HIDE DEF D
    <3> QED BY <1>1, <1>2
  <2>4. \A s \in Small(k + 1) : h[s] = Fold(f, s) /\ Fold(f, s) \in G
    <3> TAKE s \in Small(k + 1)
    <3>1. CASE s = {}
      <4> HIDE DEF Small
      <4> QED BY <3>1
    <3>2. CASE s # {}
      <4>1. Top(s) \in D /\ s \ {Top(s)} \in Small(k)
        BY <2>3, <3>2
      <4> HIDE DEF Small, D
      <4>2. g[Top(s)] \in [G -> G] /\ f[s \ {Top(s)}] \in G
        BY <2>1, <4>1 DEF D
      <4> QED BY <3>2, <4>2
    <3> QED BY <3>1, <3>2
  <2>5. h \in [Small(k + 1) -> G]
    <3> HIDE DEF Small, Fold
    <3> QED BY <2>4
  <2> HIDE DEF h
  <2>6. \A s \in Small(k) : h[s] = f[s]
    <3> HIDE DEF Fold, Small
    <3> QED BY <2>1, <2>2, <2>4
  <2>7. \A s \in Small(k + 1) : h[s] = Fold(h, s)
    <3> HIDE DEF Small
    <3> QED BY <2>3, <2>4, <2>6
  <2> HIDE DEF Small, Fold
  <2> QED BY <2>5, <2>7
<1>5. n \in N
  <2>1. Nat \subseteq N
    <3> HIDE DEF N
    <3> QED BY <1>3, <1>4, EveryNumber
  <2> QED BY <2>1
<1>6. Small(n) = SUBSET D
  BY <1>1
<1>7. PICK f \in [SUBSET D -> G] : \A s \in SUBSET D : f[s] = Fold(f, s)
  BY <1>5, <1>6
<1> QED BY <1>7 DEF Folds

\* What each step of a fold keeps, the fold keeps.
LEMMA FoldStays ==
  ASSUME NEW n \in Nat, NEW f, NEW G, f[{}] \in G,
         \A k \in 1..n : f[1..(k - 1)] \in G => f[1..k] \in G
  PROVE  \A k \in 0..n : f[1..k] \in G
<1> DEFINE N == {k \in Nat : k <= n => f[1..k] \in G}
<1>1. 0 \in N
  <2>1. 1..0 = {}
    OBVIOUS
  <2> QED BY <2>1
<1>2. ASSUME NEW k \in Nat, k \in N PROVE k + 1 \in N
  <2> SUFFICES ASSUME k + 1 <= n PROVE f[1..(k + 1)] \in G
    OBVIOUS
  <2>1. k + 1 \in 1..n /\ (k + 1) - 1 = k /\ f[1..k] \in G
    BY <1>2
  <2> QED BY <2>1
<1>3. Nat \subseteq N
  <2> HIDE DEF N
  <2> QED BY <1>1, <1>2, EveryNumber
<1> QED BY <1>3

\* f joins the first sequences, one more at a time.
Joins(seqs, n, f) == f = [i \in 1..n |-> IF i = 1 THEN seqs[i] ELSE f[i - 1] \o seqs[i]]

\* What such a function holds at each place.
LEMMA JoinsAt ==
  ASSUME NEW seqs, NEW n \in Nat, NEW f, Joins(seqs, n, f)
  PROVE  \A i \in 1..n : f[i] = IF i = 1 THEN seqs[i] ELSE f[i - 1] \o seqs[i]
<1> DEFINE e(i) == IF i = 1 THEN seqs[i] ELSE f[i - 1] \o seqs[i]
<1>1. f = [i \in 1..n |-> e(i)]
  BY DEF Joins
<1>2. \A i \in 1..n : f[i] = e(i)
  <2> HIDE DEF e
  <2> QED BY <1>1
<1> QED BY <1>2

\* There is one for every number of sequences.
LEMMA SomeJoins ==
  ASSUME NEW seqs, NEW n \in Nat
  PROVE  \E f : Joins(seqs, n, f)
<1> DEFINE N == {k \in Nat : \E f : Joins(seqs, k, f)}
<1>1. 0 \in N
  <2>1. Joins(seqs, 0, [i \in 1..0 |-> seqs])
    BY DEF Joins
  <2> QED BY <2>1
<1>2. ASSUME NEW k \in Nat, k \in N PROVE k + 1 \in N
  <2>1. PICK f : Joins(seqs, k, f)
    BY <1>2
  <2> DEFINE g == [i \in 1..(k + 1) |-> IF i = 1 THEN seqs[i] ELSE f[i - 1] \o seqs[i]]
  <2>2. \A i \in 1..k : f[i] = IF i = 1 THEN seqs[i] ELSE f[i - 1] \o seqs[i]
    BY <1>2, <2>1, JoinsAt
  <2>3. \A i \in 1..(k + 1) : g[i] = IF i = 1 THEN seqs[i] ELSE f[i - 1] \o seqs[i]
    OBVIOUS
  <2>4. \A i \in 1..k : g[i] = f[i]
    <3> TAKE i \in 1..k
    <3>1. i \in 1..(k + 1)
      BY <1>2
    <3> HIDE DEF g
    <3> QED BY <2>2, <2>3, <3>1
  <2>5. \A i \in 1..(k + 1) : g[i] = IF i = 1 THEN seqs[i] ELSE g[i - 1] \o seqs[i]
    <3> TAKE i \in 1..(k + 1)
    <3>1. i # 1 => i - 1 \in 1..k
      BY <1>2
    <3> HIDE DEF g
    <3> QED BY <2>3, <2>4, <3>1
  <2>6. g = [i \in 1..(k + 1) |-> IF i = 1 THEN seqs[i] ELSE g[i - 1] \o seqs[i]]
    <3> DEFINE e(i) == IF i = 1 THEN seqs[i] ELSE g[i - 1] \o seqs[i]
    <3>1. g = [i \in 1..(k + 1) |-> g[i]] /\ \A i \in 1..(k + 1) : g[i] = e(i)
      BY <2>5
    <3>2. g = [i \in 1..(k + 1) |-> e(i)]
      <4> HIDE DEF e, g
      <4> QED BY <3>1
    <3> QED BY <3>2
  <2>7. Joins(seqs, k + 1, g)
    BY <2>6 DEF Joins
  <2> HIDE DEF g
  <2> QED BY <1>2, <2>7
<1>3. Nat \subseteq N
  <2> HIDE DEF N
  <2> QED BY <1>1, <1>2, EveryNumber
<1> QED BY <1>3

\* FlattenSeq is the last value of one.
LEMMA FlattenIs ==
  ASSUME NEW seqs, Len(seqs) \in Nat, Len(seqs) # 0
  PROVE  \E f : Joins(seqs, Len(seqs), f) /\ FlattenSeq(seqs) = f[Len(seqs)]
<1> DEFINE f == CHOOSE f : f = [i \in 1..Len(seqs) |->
                                  IF i = 1 THEN seqs[i] ELSE f[i - 1] \o seqs[i]]
<1>1. \E g : g = [i \in 1..Len(seqs) |-> IF i = 1 THEN seqs[i] ELSE g[i - 1] \o seqs[i]]
  BY SomeJoins DEF Joins
<1>2. f = [i \in 1..Len(seqs) |-> IF i = 1 THEN seqs[i] ELSE f[i - 1] \o seqs[i]]
  BY <1>1
<1>3. FlattenSeq(seqs) = f[Len(seqs)]
  BY DEF FlattenSeq
<1> HIDE DEF f
<1> QED BY <1>2, <1>3 DEF Joins

\* Flattening one sequence more joins it to the others.
LEMMA FlattenAppend ==
  ASSUME NEW S, NEW a \in Seq(Seq(S)), NEW x \in Seq(S)
  PROVE  FlattenSeq(Append(a, x)) = FlattenSeq(a) \o x
<1> DEFINE b == Append(a, x)
           n == Len(a)
<1>1. /\ n \in Nat /\ b \in Seq(Seq(S)) /\ Len(b) = n + 1 /\ b[n + 1] = x
      /\ \A i \in 1..n : b[i] = a[i]
  BY AppendProperties
<1> HIDE DEF b
<1>2. PICK g : Joins(b, n + 1, g) /\ FlattenSeq(b) = g[n + 1]
  <2>1. Len(b) \in Nat /\ Len(b) # 0
    BY <1>1
  <2> QED BY <1>1, <2>1, FlattenIs
<1>3. \A i \in 1..(n + 1) : g[i] = IF i = 1 THEN b[i] ELSE g[i - 1] \o b[i]
  <2>1. n + 1 \in Nat
    BY <1>1
  <2> QED BY <1>2, <2>1, JoinsAt
<1>4. CASE n = 0
  <2>1. a = <<>> /\ FlattenSeq(a) = a
    BY <1>4, EmptySeq DEF FlattenSeq
  <2>2. g[1] = x
    BY <1>1, <1>3, <1>4
  <2>3. <<>> \o x = x
    BY ConcatEmptySeq
  <2> QED BY <1>2, <1>4, <2>1, <2>2, <2>3 DEF b
<1>5. CASE n # 0
  <2>1. PICK f : Joins(a, n, f) /\ FlattenSeq(a) = f[n]
    BY <1>1, <1>5, FlattenIs
  <2>2. \A i \in 1..n : f[i] = IF i = 1 THEN a[i] ELSE f[i - 1] \o a[i]
    BY <1>1, <2>1, JoinsAt
  <2> DEFINE N == {k \in Nat : k \in 1..n => f[k] = g[k]}
  <2>3. 0 \in N
    OBVIOUS
  <2>4. ASSUME NEW k \in Nat, k \in N PROVE k + 1 \in N
    <3> SUFFICES ASSUME k + 1 \in 1..n PROVE f[k + 1] = g[k + 1]
      OBVIOUS
    <3>1. k + 1 \in 1..(n + 1) /\ a[k + 1] = b[k + 1]
      BY <1>1
    <3>2. k + 1 = 1 \/ (k \in 1..n /\ (k + 1) - 1 = k /\ k + 1 # 1)
      BY <1>1
    <3> QED BY <1>3, <2>2, <2>4, <3>1, <3>2
  <2>5. Nat \subseteq N
    <3> HIDE DEF N
    <3> QED BY <2>3, <2>4, EveryNumber
  <2>6. f[n] = g[n]
    BY <1>1, <1>5, <2>5
  <2>7. g[n + 1] = g[n] \o x
    <3>1. n + 1 \in 1..(n + 1) /\ n + 1 # 1 /\ (n + 1) - 1 = n
      BY <1>1, <1>5
    <3> QED BY <1>1, <1>3, <3>1
  <2> QED BY <1>2, <2>1, <2>6, <2>7 DEF b
<1> QED BY <1>4, <1>5

\* Flattening sequences over a set gives a sequence over the set.
LEMMA FlattenType ==
  ASSUME NEW S, NEW a \in Seq(Seq(S))
  PROVE  FlattenSeq(a) \in Seq(S)
<1> DEFINE X == {s \in Seq(Seq(S)) : FlattenSeq(s) \in Seq(S)}
<1>1. <<>> \in X
  <2>1. <<>> \in Seq(Seq(S)) /\ <<>> \in Seq(S) /\ Len(<<>>) = 0
    BY EmptySeq
  <2> QED BY <2>1 DEF FlattenSeq
<1>2. \A s \in Seq(Seq(S)) : \A x \in Seq(S) : s \in X => Append(s, x) \in X
  <2> TAKE s \in Seq(Seq(S))
  <2> TAKE x \in Seq(S)
  <2> HAVE s \in X
  <2>1. FlattenSeq(Append(s, x)) = FlattenSeq(s) \o x
    BY FlattenAppend
  <2>2. FlattenSeq(s) \o x \in Seq(S)
    BY ConcatProperties
  <2>3. Append(s, x) \in Seq(Seq(S))
    BY AppendProperties
  <2> QED BY <2>1, <2>2, <2>3
<1>3. Seq(Seq(S)) \subseteq X
  <2> HIDE DEF X
  <2> QED BY <1>1, <1>2, EverySequence
<1> QED BY <1>3

\* Flattening in two parts and joining them flattens the whole.
LEMMA FlattenConcat ==
  ASSUME NEW S, NEW a \in Seq(Seq(S)), NEW b \in Seq(Seq(S))
  PROVE  FlattenSeq(a \o b) = FlattenSeq(a) \o FlattenSeq(b)
<1> DEFINE X == {s \in Seq(Seq(S)) : FlattenSeq(a \o s) = FlattenSeq(a) \o FlattenSeq(s)}
<1>1. <<>> \in X
  <2>1. <<>> \in Seq(Seq(S)) /\ Len(<<>>) = 0
    BY EmptySeq
  <2>2. a \o <<>> = a /\ FlattenSeq(<<>>) = <<>>
    BY <2>1, ConcatEmptySeq DEF FlattenSeq
  <2>3. FlattenSeq(a) \o <<>> = FlattenSeq(a)
    BY FlattenType, ConcatEmptySeq
  <2> QED BY <2>1, <2>2, <2>3
<1>2. \A s \in Seq(Seq(S)) : \A x \in Seq(S) : s \in X => Append(s, x) \in X
  <2> TAKE s \in Seq(Seq(S))
  <2> TAKE x \in Seq(S)
  <2> HAVE s \in X
  <2>1. Append(s, x) \in Seq(Seq(S)) /\ Append(s, x) = s \o <<x>> /\ <<x>> \in Seq(Seq(S))
    BY AppendProperties, AppendIsConcat
  <2>2. a \o Append(s, x) = Append(a \o s, x)
    <3>1. a \o s \in Seq(Seq(S))
      BY ConcatProperties
    <3>2. (a \o s) \o <<x>> = a \o (s \o <<x>>)
      BY <2>1, ConcatAssociative
    <3>3. Append(a \o s, x) = (a \o s) \o <<x>>
      BY <3>1, AppendIsConcat
    <3> QED BY <2>1, <3>2, <3>3
  <2>3. FlattenSeq(Append(a \o s, x)) = FlattenSeq(a \o s) \o x
    <3>1. a \o s \in Seq(Seq(S))
      BY ConcatProperties
    <3> QED BY <3>1, FlattenAppend
  <2>4. FlattenSeq(Append(s, x)) = FlattenSeq(s) \o x
    BY FlattenAppend
  <2>5. (FlattenSeq(a) \o FlattenSeq(s)) \o x = FlattenSeq(a) \o (FlattenSeq(s) \o x)
    BY FlattenType, ConcatAssociative
  <2> QED BY <2>1, <2>2, <2>3, <2>4, <2>5
<1>3. Seq(Seq(S)) \subseteq X
  <2> HIDE DEF X
  <2> QED BY <1>1, <1>2, EverySequence
<1> QED BY <1>3

\* A function on the first numbers is a sequence, and all of it is itself.
LEMMA WholeSeq ==
  ASSUME NEW l \in Nat, NEW f, f = [i \in 1..l |-> f[i]]
  PROVE  <<>> \o SubSeq(f, 1, Len(f)) = f
<1> DEFINE S == {f[i] : i \in 1..l}
<1>1. f \in [1..l -> S]
  OBVIOUS
<1> HIDE DEF S
<1>2. f \in Seq(S)
  BY <1>1, SeqDef
<1>3. SubSeq(f, 1, Len(f)) = f
  BY <1>2, SubSeqFull
<1>4. <<>> \o f = f
  BY <1>2, ConcatEmptySeq
<1> QED BY <1>3, <1>4

\* There is nothing behind the last member of a sequence.
LEMMA NothingBehind ==
  ASSUME NEW S, NEW w \in Seq(S)
  PROVE  w \o SubSeq(w, Len(w) + 1, Len(w)) = w
<1>1. SubSeq(w, Len(w) + 1, Len(w)) = <<>>
  BY SubSeqEmpty, LenProperties
<1>2. w \o <<>> = w
  BY ConcatEmptySeq
<1> QED BY <1>1, <1>2

=============================================================================
