-------------------------------- MODULE DataLemmas --------------------------------
(***************************************************************************)
(* Lemmas about numbers, finite sets, sequences and recursion that the     *)
(* proofs of several components rest on.                                   *)
(*                                                                         *)
(* The induction theorems of the library take a predicate as a parameter;  *)
(* the ones here take a set, which the provers can be given.               *)
(***************************************************************************)
EXTENDS PowersOfTwo, FiniteSets, Sequences, FiniteSetsExt, SequencesExt, Functions, FiniteSetTheorems, TLAPS

----------------------------------------------------------------------------
(* Numbers and finite sets.                                                *)

\* A set of natural numbers has a least one.
LEMMA LeastNat ==
    ASSUME NEW S \in SUBSET Nat, S # {}
    PROVE  \E x \in S : \A y \in S : x <= y
<1> DEFINE Less == {ss \in Nat \X Nat : ss[1] < ss[2]}
<1>1. IsWellFoundedOn(Less, Nat)
  BY NatLessThanWellFounded, Zenon DEF OpToRel
<1>2. \A x, y \in Nat : y < x => <<y, x>> \in Less
  OBVIOUS
<1>3. S \subseteq Nat
  OBVIOUS
<1> HIDE DEF Less
<1>4. \E x \in S : \A y \in S : ~(<<y, x>> \in Less)
  BY <1>1, <1>3, WFMin, Zenon
<1>5. PICK x \in S : \A y \in S : ~(<<y, x>> \in Less)
  BY <1>4
<1>6. \A y \in S : ~(y < x)
  BY <1>2, <1>3, <1>5, Zenon
<1>7. \A y \in S : x <= y
  BY <1>3, <1>6, SMT
<1>8. QED
  BY <1>7

\* Induction over the natural numbers.
LEMMA NatSetInduction ==
    ASSUME NEW Q \in SUBSET Nat, 0 \in Q, \A k \in Q : k + 1 \in Q
    PROVE  \A k \in Nat : k \in Q
<1> SUFFICES ASSUME NEW k \in Nat \ Q PROVE FALSE
  OBVIOUS
<1>1. PICK l \in Nat \ Q : \A y \in Nat \ Q : l <= y
  BY LeastNat
<1>2. l - 1 \in Q
  BY <1>1
<1>3. QED
  BY <1>1, <1>2

\* Induction over the subsets of a finite set.
LEMMA SetInduction ==
    ASSUME NEW S, IsFiniteSet(S), NEW Q, {} \in Q,
           \A T \in SUBSET S, x \in S : T \in Q /\ x \notin T => T \cup {x} \in Q
    PROVE  S \in Q
<1> DEFINE Sizes == {k \in Nat : \A T \in SUBSET S : Cardinality(T) = k => T \in Q}
<1>1. \A T \in SUBSET S : IsFiniteSet(T) /\ Cardinality(T) \in Nat
  BY FS_Subset, FS_CardinalityType
<1>2. 0 \in Sizes
  BY <1>1, FS_EmptySet
<1>3. ASSUME NEW k \in Sizes PROVE k + 1 \in Sizes
  <2>1. SUFFICES ASSUME NEW T \in SUBSET S, Cardinality(T) = k + 1 PROVE T \in Q
    OBVIOUS
  <2>2. T # {}
    <3>1. k + 1 # 0
      OBVIOUS
    <3>2. QED
      BY <2>1, <3>1, FS_EmptySet, Zenon
  <2>3. PICK x \in T : TRUE
    BY <2>2
  <2>4. Cardinality(T \ {x}) = k
    BY <1>1, <2>1, FS_RemoveElement
  <2>5. T \ {x} \in Q
    BY <2>4
  <2>6. (T \ {x}) \cup {x} \in Q
    BY <2>5
  <2>7. (T \ {x}) \cup {x} = T
    OBVIOUS
  <2>8. QED
    BY <2>6, <2>7
<1> HIDE DEF Sizes
<1>4. Sizes \subseteq Nat
  BY DEF Sizes
<1>5. \A k \in Nat : k \in Sizes
  BY <1>2, <1>3, <1>4, NatSetInduction
<1>6. Cardinality(S) \in Sizes
  BY <1>1, <1>5
<1>7. QED
  BY <1>6 DEF Sizes

\* A bounded set of natural numbers that is not empty has a greatest one.
LEMMA GreatestNat ==
    ASSUME NEW S \in SUBSET Nat, S # {}, NEW b \in Nat, \A s \in S : s <= b
    PROVE  \E x \in S : \A y \in S : y <= x
<1> DEFINE Bounds == {k \in Nat : \A s \in S : s <= k}
<1>5. Bounds \in SUBSET Nat /\ Bounds # {}
  OBVIOUS
<1> HIDE DEF Bounds
<1>1. PICK k \in Bounds : \A l \in Bounds : k <= l
  BY <1>5, LeastNat
<1> USE DEF Bounds
<1>2. CASE k = 0
  <2>1. PICK s \in S : TRUE
    OBVIOUS
  <2>2. \A t \in S : t \in Nat /\ t <= 0
    BY <1>1, <1>2
  <2>3. QED
    BY <2>1, <2>2
<1>3. CASE k # 0
  <2>1. k - 1 \in Nat /\ ~(k - 1 \in Bounds)
    BY <1>1, <1>3
  <2>2. PICK s \in S : ~(s <= k - 1)
    BY <2>1
  <2>3. s = k
    BY <1>1, <2>2
  <2>4. QED
    BY <1>1, <2>3
<1>4. QED
  BY <1>2, <1>3

\* What Max and Min of the community modules give.
LEMMA MaxProperty ==
    ASSUME NEW S \in SUBSET Nat, S # {}, NEW b \in Nat, \A s \in S : s <= b
    PROVE  Max(S) \in S /\ \A s \in S : s <= Max(S)
<1>1. PICK x \in S : \A y \in S : y <= x
  BY GreatestNat
<1>2. \E y \in S : \A z \in S : y >= z
  BY <1>1
<1>3. QED
  BY <1>2 DEF Max

LEMMA MinProperty ==
    ASSUME NEW S \in SUBSET Nat, S # {}
    PROVE  Min(S) \in S /\ \A s \in S : Min(S) <= s
<1>1. \E x \in S : \A y \in S : x <= y
  BY LeastNat
<1>2. QED
  BY <1>1 DEF Min

\* A set that has an element has at least one, and disjoint sets add up.
LEMMA AtLeastOne ==
    ASSUME NEW S, IsFiniteSet(S), NEW x \in S
    PROVE  Cardinality(S) \in Nat /\ Cardinality(S) >= 1
BY FS_EmptySet, FS_CardinalityType

LEMMA UnionBound ==
    ASSUME NEW S, IsFiniteSet(S), NEW T, IsFiniteSet(T)
    PROVE  /\ IsFiniteSet(S \cup T) /\ Cardinality(S \cup T) \in Nat
           /\ Cardinality(S \cup T) <= Cardinality(S) + Cardinality(T)
<1>1. IsFiniteSet(S \cap T)
  BY FS_Intersection
<1>2. Cardinality(S \cap T) \in Nat /\ Cardinality(S) \in Nat /\ Cardinality(T) \in Nat
  BY <1>1, FS_CardinalityType
<1>3. IsFiniteSet(S \cup T) /\ Cardinality(S \cup T) = Cardinality(S) + Cardinality(T) - Cardinality(S \cap T)
  BY FS_Union
<1>4. Cardinality(S \cup T) \in Nat
  BY <1>3, FS_CardinalityType
<1>5. QED
  BY <1>2, <1>3, <1>4

LEMMA DisjointUnion ==
    ASSUME NEW S, IsFiniteSet(S), NEW T, IsFiniteSet(T), S \cap T = {}
    PROVE  /\ IsFiniteSet(S \cup T) /\ Cardinality(S) \in Nat /\ Cardinality(T) \in Nat
           /\ Cardinality(S \cup T) = Cardinality(S) + Cardinality(T)
<1>1. Cardinality(S \cap T) = 0
  BY FS_EmptySet
<1>2. Cardinality(S) \in Nat /\ Cardinality(T) \in Nat
  BY FS_CardinalityType
<1>3. IsFiniteSet(S \cup T) /\ Cardinality(S \cup T) = Cardinality(S) + Cardinality(T) - Cardinality(S \cap T)
  BY FS_Union
<1>4. QED
  BY <1>1, <1>2, <1>3

\* In a total order of a finite set every element has its rank, and every rank below
\* the number of elements its element.
LEMMA EveryRankIsTaken ==
    ASSUME NEW S, IsFiniteSet(S), NEW R,
           \A x \in S : <<x, x>> \notin R,
           \A x, y, z \in S : <<x, y>> \in R /\ <<y, z>> \in R => <<x, z>> \in R,
           \A x, y \in S : x # y => <<x, y>> \in R \/ <<y, x>> \in R
    PROVE  \A i \in 1..Cardinality(S) : \E x \in S : Cardinality({y \in S : <<y, x>> \in R}) = i - 1
<1> DEFINE before(x) == {y \in S : <<y, x>> \in R}
           T == 0..(Cardinality(S) - 1)
           rank == [x \in S |-> Cardinality(before(x))]
<1>1. Cardinality(S) \in Nat
  BY FS_CardinalityType
<1>2. 0 \in Int /\ Cardinality(S) - 1 \in Int
  BY <1>1
<1>3. IsFiniteSet(T) /\ Cardinality(T) = IF 0 > Cardinality(S) - 1 THEN 0 ELSE Cardinality(S) - 1 - 0 + 1
  BY <1>2, FS_Interval
<1>4. Cardinality(T) = Cardinality(S)
  BY <1>1, <1>3
<1>5. ASSUME NEW x \in S
      PROVE  IsFiniteSet(before(x)) /\ Cardinality(before(x)) \in T
  <2>1. before(x) \in SUBSET (S \ {x})
    OBVIOUS
  <2>2. IsFiniteSet(S \ {x}) /\ Cardinality(S \ {x}) = Cardinality(S) - 1
    BY FS_RemoveElement
  <2>3. IsFiniteSet(before(x)) /\ Cardinality(before(x)) <= Cardinality(S \ {x})
    BY <2>1, <2>2, FS_Subset
  <2>4. Cardinality(before(x)) \in Nat
    BY <2>3, FS_CardinalityType
  <2> QED BY <1>1, <2>2, <2>3, <2>4
<1>6. ASSUME NEW x \in S, NEW y \in S, <<x, y>> \in R
      PROVE  Cardinality(before(x)) # Cardinality(before(y))
  <2>1. before(x) \in SUBSET before(y) /\ x \in before(y) /\ x \notin before(x)
    BY <1>6
  <2>2. before(x) # before(y)
    BY <2>1
  <2> QED BY <1>5, <2>1, <2>2, FS_Subset
<1>7. rank \in Injection(S, T)
  <2>1. rank \in [S -> T]
    BY <1>5
  <2>2. ASSUME NEW x \in S, NEW y \in S, rank[x] = rank[y] PROVE x = y
    <3>1. Cardinality(before(x)) = Cardinality(before(y))
      BY <2>2
    <3> HIDE DEF before
    <3> QED BY <1>6, <3>1
  <2> HIDE DEF rank
  <2> QED BY <2>1, <2>2, Zenon DEF Injection, IsInjective
<1> HIDE DEF T
<1>8. rank \in Surjection(S, T)
  BY <1>3, <1>4, <1>7, FS_Injection
<1>9. \A t \in T : \E x \in S : rank[x] = t
  BY <1>8, Zenon DEF Surjection
<1>10. \A i \in 1..Cardinality(S) : i - 1 \in T
  BY <1>1 DEF T
<1> QED BY <1>9, <1>10

LEMMA SeqElement ==
    ASSUME NEW G, NEW s \in Seq(G)
    PROVE  Len(s) \in Nat /\ DOMAIN s = 1..Len(s) /\ \A i \in DOMAIN s : s[i] \in G
OBVIOUS

\* A function on the first numbers is a sequence.
LEMMA FromFunction ==
    ASSUME NEW G, NEW k \in Nat, NEW f \in [1..k -> G]
    PROVE  f \in Seq(G)
OBVIOUS

\* A function that takes each value of X once on I.
LEMMA SameCount ==
    ASSUME NEW I, IsFiniteSet(I), NEW X, NEW f,
           \A i \in I : f[i] \in X, \A x \in X : \E i \in I : f[i] = x,
           \A i, j \in I : f[i] = f[j] => i = j
    PROVE  IsFiniteSet(X) /\ Cardinality(I) = Cardinality(X)
<1> DEFINE g == [i \in I |-> f[i]]
<1>1. g \in [I -> X] /\ (\A i, j \in I : g[i] = g[j] => i = j) /\ \A x \in X : \E i \in I : g[i] = x
  OBVIOUS
<1> HIDE DEF g
<1>2. g \in Bijection(I, X)
  BY <1>1, Zenon DEF Bijection, Injection, Surjection, IsInjective
<1>3. ExistsBijection(I, X)
  BY <1>2, Zenon DEF ExistsBijection
<1> QED BY <1>3, FS_Bijection

\* The elements of a set of numbers in growing order.
ByRank(S) == [i \in 1..Cardinality(S) |-> CHOOSE x \in S : Cardinality({y \in S : y < x}) = i - 1]
Growing(s) == \A i, j \in DOMAIN s : i < j => s[i] < s[j]

LEMMA SortedSet ==
    ASSUME NEW S \in SUBSET Nat, IsFiniteSet(S)
    PROVE  /\ Cardinality(S) \in Nat
           /\ ByRank(S) \in [1..Cardinality(S) -> S]
           /\ ByRank(S) \in Seq(S) /\ Len(ByRank(S)) = Cardinality(S)
           /\ Growing(ByRank(S)) /\ {ByRank(S)[i] : i \in DOMAIN ByRank(S)} = S
<1> DEFINE R == {u \in S \X S : u[1] < u[2]}
           rank(x) == Cardinality({y \in S : y < x})
           n == Cardinality(S)
           A == ByRank(S)
<1>1. n \in Nat
  BY FS_CardinalityType
<1>2. \A x, y \in S : <<x, y>> \in R <=> x < y
  OBVIOUS
<1> HIDE DEF R
<1>3. /\ \A x \in S : <<x, x>> \notin R
      /\ \A x, y, z \in S : <<x, y>> \in R /\ <<y, z>> \in R => <<x, z>> \in R
      /\ \A x, y \in S : x # y => <<x, y>> \in R \/ <<y, x>> \in R
  <2>1. /\ \A x \in S : ~(x < x)
        /\ \A x, y, z \in S : x < y /\ y < z => x < z
        /\ \A x, y \in S : x # y => x < y \/ y < x
    OBVIOUS
  <2> QED BY <1>2, <2>1, Zenon
<1>4. \A i \in 1..n : \E x \in S : Cardinality({y \in S : <<y, x>> \in R}) = i - 1
  BY <1>3, EveryRankIsTaken
<1>5. ASSUME NEW x \in S PROVE {y \in S : <<y, x>> \in R} = {y \in S : y < x}
  BY <1>2
<1>6. \A i \in 1..n : \E x \in S : rank(x) = i - 1
  BY <1>4, <1>5, Zenon
<1>7. ASSUME NEW x \in S PROVE rank(x) \in Nat /\ rank(x) < n
  <2>1. {y \in S : y < x} \in SUBSET (S \ {x})
    OBVIOUS
  <2>2. IsFiniteSet(S \ {x}) /\ Cardinality(S \ {x}) = n - 1
    BY FS_RemoveElement
  <2>3. IsFiniteSet({y \in S : y < x}) /\ rank(x) <= n - 1
    BY <2>1, <2>2, FS_Subset
  <2>4. rank(x) \in Nat
    BY <2>3, FS_CardinalityType
  <2> QED BY <1>1, <2>3, <2>4
<1>8. ASSUME NEW x \in S, NEW y \in S, x < y PROVE rank(x) < rank(y)
  <2> DEFINE X == {z \in S : z < x}
             Y == {z \in S : z < y}
  <2>1. X \in SUBSET Y /\ x \in Y /\ x \notin X
    <3>1. \A z \in S : z \in Nat
      OBVIOUS
    <3>2. \A z \in S : z < x => z < y
      BY <1>8, <3>1
    <3>3. ~(x < x)
      BY <3>1
    <3> QED BY <1>8, <3>2, <3>3
  <2>2. IsFiniteSet(Y)
    BY FS_Subset
  <2>3. X # Y
    BY <2>1
  <2> HIDE DEF X, Y
  <2>4. Cardinality(X) <= Cardinality(Y) /\ Cardinality(X) # Cardinality(Y)
    BY <2>1, <2>2, <2>3, FS_Subset
  <2>5. Cardinality(X) \in Nat /\ Cardinality(Y) \in Nat
    BY <1>7 DEF X, Y
  <2>6. Cardinality(X) < Cardinality(Y)
    BY <2>4, <2>5
  <2> QED BY <2>6 DEF X, Y
<1>9. A = [i \in 1..n |-> CHOOSE x \in S : rank(x) = i - 1]
  BY DEF ByRank
<1> HIDE DEF A, rank
<1>10. ASSUME NEW i \in 1..n PROVE A[i] \in S /\ rank(A[i]) = i - 1
  BY <1>6, <1>9
<1>11. A \in [1..n -> S]
  BY <1>9, <1>10
<1>12. A \in Seq(S) /\ Len(A) = n /\ DOMAIN A = 1..n
  BY <1>1, <1>11, FromFunction
<1>13. Growing(A)
  <2> SUFFICES ASSUME NEW i \in 1..n, NEW j \in 1..n, i < j PROVE A[i] < A[j]
    BY <1>12 DEF Growing
  <2>1. A[i] \in S /\ A[j] \in S /\ rank(A[i]) = i - 1 /\ rank(A[j]) = j - 1
    BY <1>10
  <2>2. ~(A[j] < A[i])
    <3>1. ~(rank(A[j]) < rank(A[i]))
      BY <2>1
    <3> QED BY <1>8, <2>1, <3>1
  <2>3. A[i] # A[j]
    <3>1. rank(A[i]) # rank(A[j])
      BY <2>1
    <3> QED BY <3>1
  <2>4. A[i] \in Nat /\ A[j] \in Nat
    BY <2>1
  <2> QED BY <2>2, <2>3, <2>4
<1>14. {A[i] : i \in DOMAIN A} = S
  <2>1. ASSUME NEW x \in S PROVE \E i \in 1..n : A[i] = x
    <3> DEFINE i == rank(x) + 1
    <3>1. i \in 1..n /\ i - 1 = rank(x)
      BY <1>1, <1>7
    <3> HIDE DEF i
    <3>2. A[i] \in S /\ rank(A[i]) = rank(x)
      BY <1>10, <3>1
    <3>3. rank(x) \in Nat /\ ~(rank(x) < rank(A[i])) /\ ~(rank(A[i]) < rank(x))
      BY <1>7, <3>2
    <3>4. ~(A[i] < x) /\ ~(x < A[i])
      BY <1>8, <3>2, <3>3, Zenon
    <3>5. A[i] \in Nat /\ x \in Nat
      BY <3>2
    <3>6. A[i] = x
      BY <3>4, <3>5
    <3> QED BY <3>1, <3>6
  <2>2. \A i \in 1..n : A[i] \in S
    BY <1>10
  <2> QED BY <1>12, <2>1, <2>2
<1> QED BY <1>1, <1>11, <1>12, <1>13, <1>14 DEF A

\* Recursion over the natural numbers: a first value, and for every number a function
\* that makes its value of the one before.
Recursive(V, first, step, f) ==
    f \in [Nat -> V] /\ f[0] = first /\ \A n \in Nat : f[n + 1] = step[n + 1][f[n]]

LEMMA RecursionExists ==
    ASSUME NEW V, NEW first \in V, NEW step \in [Nat -> [V -> V]]
    PROVE  \E f : Recursive(V, first, step, f)
<1> DEFINE Good(g, n) == /\ g \in [Nat -> V] /\ g[0] = first
                         /\ \A i \in Nat : i < n => g[i + 1] = step[i + 1][g[i]]
           Q == {n \in Nat : \E g : Good(g, n)}
<1>1. 0 \in Q
  <2> DEFINE g == [n \in Nat |-> first]
  <2>1. Good(g, 0)
    OBVIOUS
  <2> QED BY <2>1
<1>2. ASSUME NEW n \in Q PROVE n + 1 \in Q
  <2>1. n \in Nat /\ \E g : Good(g, n)
    OBVIOUS
  <2>2. PICK g : Good(g, n)
    BY <2>1
  <2> DEFINE h == [i \in Nat |-> IF i <= n THEN g[i] ELSE step[n + 1][g[n]]]
  <2>3. step[n + 1] \in [V -> V] /\ \A i \in Nat : g[i] \in V
    BY <2>1, <2>2
  <2>4. h \in [Nat -> V]
    BY <2>1, <2>3
  <2>5. \A i \in Nat : i <= n => h[i] = g[i]
    OBVIOUS
  <2>6. h[n + 1] = step[n + 1][g[n]]
    BY <2>1
  <2> HIDE DEF h
  <2>7. ASSUME NEW i \in Nat, i < n + 1 PROVE h[i + 1] = step[i + 1][h[i]]
    <3>1. CASE i = n
      BY <2>1, <2>5, <2>6, <3>1
    <3>2. CASE i < n
      <4>1. h[i] = g[i] /\ h[i + 1] = g[i + 1]
        BY <2>1, <2>5, <3>2
      <4> QED BY <2>2, <3>2, <4>1
    <3> QED BY <2>1, <2>7, <3>1, <3>2
  <2>8. h[0] = first
    BY <2>1, <2>2, <2>5
  <2>9. Good(h, n + 1)
    BY <2>4, <2>7, <2>8
  <2> QED BY <2>1, <2>9
<1>3. \A n \in Nat : \E g : Good(g, n)
  <2>1. Q \in SUBSET Nat
    OBVIOUS
  <2> HIDE DEF Q
  <2>2. \A n \in Nat : n \in Q
    BY <1>1, <1>2, <2>1, NatSetInduction
  <2> QED BY <2>2 DEF Q
<1>4. ASSUME NEW n \in Nat, NEW m \in Nat, n <= m, NEW g, NEW h, Good(g, n), Good(h, m)
      PROVE  g[n] = h[n]
  <2> DEFINE P == {i \in Nat : i <= n => g[i] = h[i]}
  <2>1. 0 \in P
    BY <1>4
  <2>2. ASSUME NEW i \in P PROVE i + 1 \in P
    <3>1. i \in Nat
      OBVIOUS
    <3>2. CASE i < n
      <4>1. g[i] = h[i] /\ i < m
        BY <1>4, <3>1, <3>2
      <4>2. g[i + 1] = step[i + 1][g[i]] /\ h[i + 1] = step[i + 1][h[i]]
        BY <1>4, <3>1, <3>2, <4>1
      <4> QED BY <3>1, <4>1, <4>2
    <3>3. CASE ~(i < n)
      BY <3>1, <3>3
    <3> QED BY <3>2, <3>3
  <2>3. P \in SUBSET Nat
    OBVIOUS
  <2> HIDE DEF P
  <2>4. n \in P
    BY <2>1, <2>2, <2>3, NatSetInduction
  <2> QED BY <2>4 DEF P
<1> HIDE DEF Good
<1> DEFINE G(n) == CHOOSE g : Good(g, n)
           f == [n \in Nat |-> G(n)[n]]
<1>5. \A n \in Nat : Good(G(n), n)
  BY <1>3
<1> HIDE DEF G
<1>6. \A n \in Nat : f[n] = G(n)[n] /\ f[n] \in V
  BY <1>5 DEF Good
<1>7. f \in [Nat -> V]
  BY <1>6
<1>8. f[0] = first
  BY <1>5, <1>6 DEF Good
<1>9. ASSUME NEW n \in Nat PROVE f[n + 1] = step[n + 1][f[n]]
  <2>1. Good(G(n), n) /\ Good(G(n + 1), n + 1)
    BY <1>5
  <2>2. G(n)[n] = G(n + 1)[n]
    <3>1. n + 1 \in Nat /\ n <= n + 1
      OBVIOUS
    <3> QED BY <1>4, <2>1, <3>1
  <2>3. G(n + 1)[n + 1] = step[n + 1][G(n + 1)[n]]
    BY <2>1 DEF Good
  <2> QED BY <1>6, <2>2, <2>3
<1> HIDE DEF f
<1> QED BY <1>7, <1>8, <1>9 DEF Recursive

----------------------------------------------------------------------------
(* Products and quotients.                                                 *)

LEMMA ProductOrder ==
    ASSUME NEW a \in Nat, NEW b \in Nat, NEW d \in Nat, a <= b
    PROVE  a * d <= b * d
<1>1. PICK e \in Nat : b = a + e
  <2>1. b - a \in Nat /\ b = a + (b - a)
    OBVIOUS
  <2> QED BY <2>1
<1>2. b * d = a * d + e * d /\ e * d \in Nat /\ a * d \in Nat
  BY <1>1
<1> QED BY <1>2

\* There is one quotient and one remainder.
LEMMA DivIs ==
    ASSUME NEW x \in Nat, NEW d \in Nat \ {0}, NEW q \in Nat, NEW r \in 0..(d - 1), x = q * d + r
    PROVE  x \div d = q /\ x % d = r
<1> DEFINE u == x \div d
           v == x % d
<1>1. u \in Nat /\ v \in 0..(d - 1) /\ x = d * u + v /\ d * u = u * d
  OBVIOUS
<1> HIDE DEF u, v
<1>2. ~(u < q)
  <2> SUFFICES ASSUME u < q PROVE FALSE
    OBVIOUS
  <2>1. u + 1 \in Nat /\ u + 1 <= q
    BY <1>1
  <2>2. (u + 1) * d <= q * d
    BY <2>1, ProductOrder
  <2>3. (u + 1) * d = u * d + d
    BY <1>1
  <2>4. u * d \in Nat /\ q * d \in Nat
    BY <1>1
  <2> QED BY <1>1, <2>2, <2>3, <2>4
<1>3. ~(q < u)
  <2> SUFFICES ASSUME q < u PROVE FALSE
    OBVIOUS
  <2>1. q + 1 \in Nat /\ q + 1 <= u
    BY <1>1
  <2>2. (q + 1) * d <= u * d
    BY <1>1, <2>1, ProductOrder
  <2>3. (q + 1) * d = q * d + d
    OBVIOUS
  <2>4. u * d \in Nat /\ q * d \in Nat
    BY <1>1
  <2> QED BY <1>1, <2>2, <2>3, <2>4
<1>4. u = q
  BY <1>1, <1>2, <1>3
<1>5. v = r
  <2>1. q * d \in Nat
    OBVIOUS
  <2> QED BY <1>1, <1>4, <2>1
<1> QED BY <1>4, <1>5 DEF u, v

\* A smaller number is its own remainder.
LEMMA DivOfSmaller ==
    ASSUME NEW d \in Nat \ {0}, NEW x \in 0..(d - 1)
    PROVE  x \div d = 0 /\ x % d = x
<1>1. x \in Nat /\ 0 \in Nat /\ x = 0 * d + x
  OBVIOUS
<1> QED BY <1>1, DivIs

LEMMA DivType ==
    ASSUME NEW x \in Nat, NEW d \in Nat \ {0}
    PROVE  x \div d \in Nat /\ x % d \in 0..(d - 1) /\ x % d \in Nat /\ x = (x \div d) * d + (x % d)
<1> DEFINE q == x \div d
           r == x % d
<1>1. q \in Nat /\ r \in 0..(d - 1) /\ x = d * q + r
  OBVIOUS
<1> HIDE DEF q, r
<1>2. d * q = q * d
  BY <1>1
<1>3. \A y \in 0..(d - 1) : y \in Nat
  OBVIOUS
<1>4. r \in Nat
  BY <1>1, <1>3, Zenon
<1> QED BY <1>1, <1>2, <1>4 DEF q, r

\* Division by a product is division by its factors in turn.
LEMMA DivOfDiv ==
    ASSUME NEW x \in Nat, NEW a \in Nat \ {0}, NEW b \in Nat \ {0}
    PROVE  /\ (x \div a) \div b = x \div (a * b)
           /\ x % (a * b) = (x % a) + ((x \div a) % b) * a
<1> DEFINE q == x \div a
           r == x % a
           s == q \div b
           t == q % b
<1>1. q \in Nat /\ r \in 0..(a - 1) /\ x = q * a + r
  BY DivType
<1> HIDE DEF q, r
<1>2. s \in Nat /\ t \in 0..(b - 1) /\ q = s * b + t
  BY <1>1, DivType
<1> HIDE DEF s, t
<1>3. a * b \in Nat \ {0}
  <2>1. a \in Nat /\ 1 \in Nat /\ 1 <= a /\ b \in Nat
    OBVIOUS
  <2>2. 1 * b <= a * b
    BY <2>1, ProductOrder
  <2> QED BY <2>2
<1>4. x = s * (a * b) + (t * a + r)
  <2>1. x = (s * b + t) * a + r
    BY <1>1, <1>2
  <2>2. (s * b + t) * a = (s * b) * a + t * a
    BY <1>2
  <2>3. (s * b) * a = s * (a * b)
    BY <1>2
  <2>4. (s * b) * a \in Nat /\ t * a \in Nat /\ r \in Nat
    BY <1>1, <1>2
  <2> QED BY <2>1, <2>2, <2>3, <2>4
<1>5. t * a + r \in 0..(a * b - 1)
  <2>1. t \in Nat /\ t + 1 \in Nat /\ t + 1 <= b
    BY <1>2
  <2>2. (t + 1) * a <= b * a
    BY <2>1, ProductOrder
  <2>3. (t + 1) * a = t * a + a /\ b * a = a * b /\ t * a \in Nat
    BY <2>1
  <2> QED BY <1>1, <1>3, <2>2, <2>3
<1> DEFINE d == a * b
           w == t * a + r
<1>6. d \in Nat \ {0} /\ w \in 0..(d - 1) /\ x = s * d + w
  BY <1>3, <1>4, <1>5
<1> HIDE DEF d, w
<1>7. x \div d = s /\ x % d = w
  BY <1>2, <1>6, DivIs
<1> QED BY <1>7 DEF d, w, q, r, s, t

\* Recursion over the quotients by a number of at least 2.
Dividing(V, m, d, first, step, f) ==
    f \in [Nat -> V] /\ \A v \in Nat : f[v] = IF v < m THEN first[v] ELSE step[v][f[v \div d]]

LEMMA DividingExists ==
    ASSUME NEW V, NEW m \in Nat \ {0}, NEW d \in Nat, d >= 2,
           NEW first \in [Nat -> V], NEW step \in [Nat -> [V -> V]]
    PROVE  \E f : Dividing(V, m, d, first, step, f)
<1> DEFINE F == [Nat -> V]
           Next1(g, v) == IF v < m THEN first[v] ELSE step[v][g[v \div d]]
           next == [n \in Nat |-> [g \in F |-> [v \in Nat |-> Next1(g, v)]]]
<1>1. \A v \in Nat : v \div d \in Nat /\ (v >= m => v \div d < v)
  <2> SUFFICES ASSUME NEW v \in Nat PROVE v \div d \in Nat /\ (v >= m => v \div d < v)
    OBVIOUS
  <2> DEFINE q == v \div d
             r == v % d
  <2>1. q \in Nat /\ r \in Nat /\ v = q * d + r
    <3>1. d \in Nat \ {0}
      OBVIOUS
    <3> QED BY <3>1, DivType
  <2> HIDE DEF q, r
  <2>2. q * 2 <= q * d
    <3>1. 2 <= d /\ 2 \in Nat
      OBVIOUS
    <3>2. 2 * q <= d * q
      BY <2>1, <3>1, ProductOrder
    <3> QED BY <2>1, <3>2
  <2>3. q * d \in Nat
    BY <2>1
  <2>4. q * 2 <= v
    BY <2>1, <2>2, <2>3
  <2>5. v >= m => q < v
    BY <2>1, <2>4
  <2> QED BY <2>1, <2>5 DEF q
<1>2. \A g \in F : \A v \in Nat : Next1(g, v) \in V
  <2> SUFFICES ASSUME NEW g \in F, NEW v \in Nat PROVE Next1(g, v) \in V
    OBVIOUS
  <2>1. v \div d \in Nat
    BY <1>1
  <2>2. g[v \div d] \in V /\ first[v] \in V /\ step[v] \in [V -> V]
    BY <2>1
  <2> QED BY <2>2
<1>3. \A n \in Nat : \A g \in F : next[n][g] = [v \in Nat |-> Next1(g, v)]
  OBVIOUS
<1>4. next \in [Nat -> [F -> F]] /\ first \in F
  <2> HIDE DEF Next1
  <2>1. \A g \in F : [v \in Nat |-> Next1(g, v)] \in F
    BY <1>2
  <2> QED BY <2>1
<1> HIDE DEF next, F
<1>5. PICK h : Recursive(F, first, next, h)
  BY <1>4, RecursionExists
<1>6. h \in [Nat -> F] /\ h[0] = first /\ \A n \in Nat : h[n + 1] = [v \in Nat |-> Next1(h[n], v)]
  <2> HIDE DEF Next1
  <2>1. h \in [Nat -> F] /\ h[0] = first /\ \A n \in Nat : h[n + 1] = next[n + 1][h[n]]
    BY <1>5 DEF Recursive
  <2>2. \A n \in Nat : n + 1 \in Nat /\ h[n] \in F
    BY <2>1
  <2> QED BY <1>3, <2>1, <2>2
<1>7. \A n \in Nat : \A v \in Nat : h[n + 1][v] = Next1(h[n], v) /\ h[n][v] \in V
  <2> HIDE DEF Next1
  <2> SUFFICES ASSUME NEW n \in Nat, NEW v \in Nat PROVE h[n + 1][v] = Next1(h[n], v) /\ h[n][v] \in V
    OBVIOUS
  <2>1. h[n] \in [Nat -> V] /\ h[n + 1] = [u \in Nat |-> Next1(h[n], u)]
    BY <1>6 DEF F
  <2> QED BY <2>1
<1> DEFINE f == [v \in Nat |-> h[v + 1][v]]
           Settled(v) == \A n \in Nat : n > v => h[n][v] = f[v]
           Q == {k \in Nat : \A v \in 0..k : Settled(v)}
<1>8. f \in [Nat -> V]
  BY <1>7
<1>9. \A v \in Nat : f[v] = h[v + 1][v]
  OBVIOUS
<1> HIDE DEF f
<1>10. ASSUME NEW v \in Nat, \A u \in 0..(v - 1) : Settled(u) PROVE Settled(v) /\ f[v] = Next1(f, v)
  <2>1. CASE v < m
    <3>1. \A n \in Nat : h[n + 1][v] = first[v]
      BY <1>7, <2>1
    <3>2. ASSUME NEW n \in Nat, n > v PROVE h[n][v] = first[v]
      <4>1. n - 1 \in Nat /\ (n - 1) + 1 = n
        BY <3>2
      <4> QED BY <3>1, <4>1
    <3> QED BY <1>9, <2>1, <3>1, <3>2
  <2>2. CASE ~(v < m)
    <3> DEFINE q == v \div d
    <3>1. q \in Nat /\ q < v /\ q \in 0..(v - 1)
      <4>1. v >= m
        BY <2>2
      <4>2. q \in Nat /\ q < v
        BY <1>1, <4>1
      <4> HIDE DEF q
      <4> QED BY <4>2
    <3>2. \A n \in Nat : h[n + 1][v] = step[v][h[n][q]]
      BY <1>7, <2>2
    <3> HIDE DEF q
    <3>3. ASSUME NEW n \in Nat, n > v PROVE h[n][v] = step[v][f[q]]
      <4>1. n - 1 \in Nat /\ (n - 1) + 1 = n /\ n - 1 > q
        BY <3>1, <3>3
      <4>2. h[n - 1][q] = f[q]
        BY <1>10, <3>1, <4>1
      <4> QED BY <3>2, <4>1, <4>2
    <3>4. f[v] = step[v][f[q]]
      <4>1. v + 1 \in Nat /\ v + 1 > v
        OBVIOUS
      <4> QED BY <1>9, <3>3, <4>1
    <3> QED BY <2>2, <3>3, <3>4 DEF q
  <2> QED BY <2>1, <2>2
<1> HIDE DEF Settled, Next1
<1>11. 0 \in Q
  <2>1. Settled(0)
    BY <1>10
  <2> QED BY <2>1
<1>12. ASSUME NEW k \in Q PROVE k + 1 \in Q
  <2>1. k \in Nat /\ \A v \in 0..k : Settled(v)
    OBVIOUS
  <2>2. Settled(k + 1)
    <3>1. k + 1 \in Nat /\ (k + 1) - 1 = k
      BY <2>1
    <3> QED BY <1>10, <2>1, <3>1
  <2>3. \A v \in 0..(k + 1) : v \in 0..k \/ v = k + 1
    BY <2>1
  <2> QED BY <2>1, <2>2, <2>3
<1>13. Q \in SUBSET Nat
  OBVIOUS
<1>14. \A k \in Nat : k \in Q
  <2> HIDE DEF Q
  <2> QED BY <1>11, <1>12, <1>13, NatSetInduction
<1>15. \A v \in Nat : Settled(v)
  <2>1. \A v \in Nat : v \in 0..v
    OBVIOUS
  <2> QED BY <1>14, <2>1
<1>16. \A v \in Nat : f[v] = Next1(f, v)
  <2>1. \A v \in Nat : \A u \in 0..(v - 1) : u \in Nat
    OBVIOUS
  <2> QED BY <1>10, <1>15, <2>1
<1> QED BY <1>8, <1>16 DEF Next1, Dividing

----------------------------------------------------------------------------
(* Powers of two.                                                          *)

LEMMA PowIs ==
    /\ Pow2 \in [Nat -> Nat \ {0}] /\ Pow2[0] = 1
    /\ \A n \in Nat : Pow2[n + 1] = 2 * Pow2[n]
<1> DEFINE V == Nat \ {0}
           one == 1
           step == [n \in Nat |-> [v \in V |-> 2 * v]]
<1>1. step \in [Nat -> [V -> V]] /\ one \in V
  OBVIOUS
<1>2. \A n \in Nat : \A v \in V : step[n][v] = 2 * v
  OBVIOUS
<1> HIDE DEF step, V, one
<1>3. PICK f : Recursive(V, one, step, f)
  BY <1>1, RecursionExists
<1>4. f \in [Nat -> V] /\ f[0] = one /\ \A n \in Nat : f[n + 1] = 2 * f[n]
  BY <1>2, <1>3 DEF Recursive
<1>5. \A n \in Nat : f[n] = IF n = 0 THEN 1 ELSE 2 * f[n - 1]
  <2> SUFFICES ASSUME NEW n \in Nat, n # 0 PROVE f[n] = 2 * f[n - 1]
    BY <1>4 DEF one
  <2>1. n - 1 \in Nat /\ (n - 1) + 1 = n
    OBVIOUS
  <2> QED BY <1>4, <2>1
<1>6. f = [n \in Nat |-> IF n = 0 THEN 1 ELSE 2 * f[n - 1]]
  BY <1>4, <1>5
<1>7. Pow2 = CHOOSE g : g = [n \in Nat |-> IF n = 0 THEN 1 ELSE 2 * g[n - 1]]
  BY Zenon DEF Pow2
<1>8. Pow2 = [n \in Nat |-> IF n = 0 THEN 1 ELSE 2 * Pow2[n - 1]]
  BY <1>6, <1>7, Zenon
<1> DEFINE P == Pow2
<1>9. DOMAIN P = Nat /\ \A n \in Nat : P[n] = IF n = 0 THEN 1 ELSE 2 * P[n - 1]
  BY <1>8, Zenon
<1> HIDE DEF P
<1>10. P[0] = 1 /\ \A n \in Nat : P[n + 1] = 2 * P[n]
  <2>1. P[0] = 1
    BY <1>9
  <2>2. ASSUME NEW n \in Nat PROVE P[n + 1] = 2 * P[n]
    <3>1. n + 1 \in Nat /\ n + 1 # 0 /\ (n + 1) - 1 = n
      OBVIOUS
    <3> QED BY <1>9, <3>1
  <2> QED BY <2>1, <2>2
<1>11. \A n \in Nat : P[n] \in Nat \ {0}
  <2> DEFINE Q == {n \in Nat : P[n] \in Nat \ {0}}
  <2>1. 0 \in Q
    BY <1>10
  <2>2. ASSUME NEW n \in Q PROVE n + 1 \in Q
    BY <1>10
  <2>3. Q \in SUBSET Nat
    OBVIOUS
  <2> HIDE DEF Q
  <2>4. \A n \in Nat : n \in Q
    BY <2>1, <2>2, <2>3, NatSetInduction
  <2> QED BY <2>4 DEF Q
<1>12. P = [n \in Nat |-> P[n]]
  BY <1>8 DEF P
<1>13. P \in [Nat -> Nat \ {0}]
  BY <1>11, <1>12
<1> QED BY <1>10, <1>13 DEF P

LEMMA PowType ==
    ASSUME NEW n \in Nat
    PROVE  Pow2[n] \in Nat \ {0} /\ Pow2[n] \in Nat /\ Pow2[n] >= 1 /\ Pow2[n + 1] = 2 * Pow2[n]
<1>1. Pow2[n] \in Nat \ {0} /\ Pow2[n + 1] = 2 * Pow2[n]
  BY PowIs
<1> QED BY <1>1

LEMMA PowValues ==
    /\ Pow2[0] = 1 /\ Pow2[1] = 2 /\ Pow2[2] = 4 /\ Pow2[3] = 8 /\ Pow2[4] = 16
    /\ Pow2[5] = 32 /\ Pow2[6] = 64 /\ Pow2[7] = 128 /\ Pow2[8] = 256
<1>1. Pow2[0] = 1 /\ \A n \in Nat : Pow2[n + 1] = 2 * Pow2[n]
  BY PowIs
<1>2. Pow2[0 + 1] = 2 * Pow2[0] /\ Pow2[1 + 1] = 2 * Pow2[1] /\ Pow2[2 + 1] = 2 * Pow2[2]
  BY <1>1
<1>3. Pow2[3 + 1] = 2 * Pow2[3] /\ Pow2[4 + 1] = 2 * Pow2[4] /\ Pow2[5 + 1] = 2 * Pow2[5]
  BY <1>1
<1>4. Pow2[6 + 1] = 2 * Pow2[6] /\ Pow2[7 + 1] = 2 * Pow2[7]
  BY <1>1
<1>5. Pow2[1] = 2 /\ Pow2[2] = 4 /\ Pow2[3] = 8
  BY <1>1, <1>2
<1>6. Pow2[4] = 16 /\ Pow2[5] = 32 /\ Pow2[6] = 64
  BY <1>3, <1>5
<1>7. Pow2[7] = 128 /\ Pow2[8] = 256
  BY <1>4, <1>6
<1> QED BY <1>1, <1>5, <1>6, <1>7

LEMMA PowSum ==
    ASSUME NEW m \in Nat, NEW n \in Nat
    PROVE  Pow2[m + n] = Pow2[m] * Pow2[n]
<1> DEFINE Q == {k \in Nat : Pow2[m + k] = Pow2[m] * Pow2[k]}
<1>1. 0 \in Q
  <2>1. m + 0 = m /\ Pow2[0] = 1 /\ Pow2[m] \in Nat
    BY PowIs, PowType
  <2> QED BY <2>1
<1>2. ASSUME NEW k \in Q PROVE k + 1 \in Q
  <2>1. k \in Nat /\ m + k \in Nat /\ m + (k + 1) = (m + k) + 1 /\ Pow2[m + k] = Pow2[m] * Pow2[k]
    OBVIOUS
  <2>2. Pow2[k + 1] = 2 * Pow2[k] /\ Pow2[(m + k) + 1] = 2 * Pow2[m + k]
    BY <2>1, PowType
  <2>3. Pow2[m] \in Nat /\ Pow2[k] \in Nat
    BY <2>1, PowType
  <2>4. Pow2[m] * (2 * Pow2[k]) = 2 * (Pow2[m] * Pow2[k])
    BY <2>3
  <2> QED BY <2>1, <2>2, <2>4
<1>3. Q \in SUBSET Nat
  OBVIOUS
<1> HIDE DEF Q
<1>4. n \in Q
  BY <1>1, <1>2, <1>3, NatSetInduction
<1> QED BY <1>4 DEF Q

LEMMA PowGrows ==
    ASSUME NEW n \in Nat
    PROVE  n + 1 <= Pow2[n]
<1> DEFINE Q == {k \in Nat : k + 1 <= Pow2[k]}
<1>1. 0 \in Q
  BY PowIs
<1>2. ASSUME NEW k \in Q PROVE k + 1 \in Q
  <2>1. k \in Nat /\ Pow2[k] \in Nat /\ Pow2[k + 1] = 2 * Pow2[k]
    BY PowType
  <2>2. k + 1 <= Pow2[k]
    OBVIOUS
  <2>3. (k + 1) + 1 <= Pow2[k + 1]
    BY <2>1, <2>2
  <2> QED BY <2>1, <2>3
<1>3. Q \in SUBSET Nat
  OBVIOUS
<1> HIDE DEF Q
<1>4. n \in Q
  BY <1>1, <1>2, <1>3, NatSetInduction
<1> QED BY <1>4 DEF Q

\* The bits of a number below a power of two, one more at a time.
LEMMA OneBitMore ==
    ASSUME NEW x \in Nat, NEW i \in Nat
    PROVE  /\ x % Pow2[i + 1] = (x % Pow2[i]) + (IF (x \div Pow2[i]) % 2 = 1 THEN Pow2[i] ELSE 0)
           /\ x \div Pow2[i] = 2 * (x \div Pow2[i + 1]) + ((x \div Pow2[i]) % 2)
<1>1. Pow2[i] \in Nat \ {0} /\ Pow2[i + 1] = Pow2[i] * 2
  BY PowType
<1> DEFINE P == Pow2[i]
           b == (x \div P) % 2
<1>2. x % (P * 2) = (x % P) + b * P /\ (x \div P) \div 2 = x \div (P * 2)
  <2>1. 2 \in Nat \ {0}
    OBVIOUS
  <2> QED BY <1>1, <2>1, DivOfDiv
<1>3. x \div P \in Nat
  BY <1>1, DivType
<1>4. b \in {0, 1} /\ x \div P = 2 * ((x \div P) \div 2) + b
  BY <1>3
<1>5. b * P = IF b = 1 THEN P ELSE 0
  BY <1>1, <1>4
<1> QED BY <1>1, <1>2, <1>4, <1>5

----------------------------------------------------------------------------
(* Sums.                                                                   *)

\* The sums of the subsets of a set, as FoldFunctionOnSet defines them.
NextSum(f, g, s) == LET x == CHOOSE x \in s : TRUE IN f[x] + g[s \ {x}]
Sums(f, S, g) == g = [s \in SUBSET S |-> IF s = {} THEN 0 ELSE NextSum(f, g, s)]

LEMMA SumUnfolds ==
    ASSUME NEW f, NEW S
    PROVE  SumFunctionOnSet(f, S) = (CHOOSE g : Sums(f, S, g))[S]
BY DEF SumFunctionOnSet, FoldFunctionOnSet, MapThenFoldSet, Sums, NextSum

LEMMA SumsExist ==
    ASSUME NEW S, IsFiniteSet(S), NEW f, \A x \in S : f[x] \in Nat
    PROVE  \E g : Sums(f, S, g) /\ \A s \in SUBSET S : g[s] \in Nat
<1> DEFINE V == [SUBSET S -> Nat]
           zero == [s \in SUBSET S |-> 0]
           more(h) == [s \in SUBSET S |-> IF s = {} THEN 0 ELSE NextSum(f, h, s)]
           step == [n \in Nat |-> [h \in V |-> more(h)]]
<1>1. zero \in V
  OBVIOUS
<1>2. ASSUME NEW h \in V PROVE more(h) \in V
  <2> SUFFICES ASSUME NEW s \in SUBSET S, s # {} PROVE NextSum(f, h, s) \in Nat
    OBVIOUS
  <2> DEFINE x == CHOOSE x \in s : TRUE
  <2>1. x \in s
    OBVIOUS
  <2> HIDE DEF x
  <2>2. f[x] \in Nat /\ h[s \ {x}] \in Nat
    BY <2>1
  <2>3. NextSum(f, h, s) = f[x] + h[s \ {x}]
    BY DEF NextSum, x
  <2> QED BY <2>2, <2>3
<1>3. step \in [Nat -> [V -> V]]
  <2> HIDE DEF V, more
  <2> QED BY <1>2
<1>4. PICK a : Recursive(V, zero, step, a)
  <2> HIDE DEF V, step, zero
  <2> QED BY <1>1, <1>3, RecursionExists
<1>5. /\ \A n \in Nat : a[n] \in V
      /\ \A n \in Nat : a[n + 1] = more(a[n])
  <2> HIDE DEF V, more, zero, step
  <2>1. a \in [Nat -> V] /\ \A n \in Nat : a[n + 1] = step[n + 1][a[n]]
    BY <1>4 DEF Recursive
  <2>2. \A n \in Nat : \A h \in V : step[n + 1][h] = more(h)
    <3>1. \A n \in Nat : n + 1 \in Nat
      OBVIOUS
    <3> HIDE DEF V
    <3> QED BY <3>1 DEF step
  <2> QED BY <2>1, <2>2
<1> DEFINE g == [s \in SUBSET S |-> a[Cardinality(s)][s]]
<1>6. \A s \in SUBSET S : Cardinality(s) \in Nat /\ IsFiniteSet(s)
  BY FS_Subset, FS_CardinalityType
<1>7. ASSUME NEW s \in SUBSET S PROVE g[s] \in Nat
  <2>1. Cardinality(s) \in Nat /\ g[s] = a[Cardinality(s)][s]
    BY <1>6
  <2> QED BY <1>5, <2>1
<1>8. ASSUME NEW s \in SUBSET S PROVE g[s] = IF s = {} THEN 0 ELSE NextSum(f, g, s)
  <2>1. CASE s = {}
    <3>1. Cardinality(s) = 0 /\ a[0] = zero
      BY <1>4, <2>1, FS_EmptySet DEF Recursive
    <3> QED BY <2>1, <3>1
  <2>2. CASE s # {}
    <3> DEFINE x == CHOOSE x \in s : TRUE
               n == Cardinality(s \ {x})
    <3>1. x \in s
      BY <2>2
    <3>2. NextSum(f, g, s) = f[x] + g[s \ {x}] /\ NextSum(f, a[n], s) = f[x] + a[n][s \ {x}]
      BY DEF NextSum
    <3> HIDE DEF x
    <3>3. n \in Nat /\ Cardinality(s) = n + 1
      <4>1. Cardinality(s \ {x}) = Cardinality(s) - 1
        BY <1>6, <3>1, FS_RemoveElement
      <4>2. s \ {x} \in SUBSET S
        OBVIOUS
      <4>3. n \in Nat
        BY <1>6, <4>2
      <4>4. Cardinality(s) \in Nat
        BY <1>6
      <4> QED BY <4>1, <4>3, <4>4
    <3> DEFINE t == s \ {x}
    <3>4. g[t] = a[n][t]
      OBVIOUS
    <3>5. g[s] = a[n + 1][s]
      BY <3>3
    <3> HIDE DEF n, g
    <3>6. a[n + 1][s] = NextSum(f, a[n], s)
      BY <1>5, <2>2, <3>3
    <3> QED BY <2>2, <3>2, <3>4, <3>5, <3>6
  <2> QED BY <2>1, <2>2
<1>9. Sums(f, S, g)
  <2>1. g = [s \in SUBSET S |-> g[s]]
    OBVIOUS
  <2> HIDE DEF g
  <2>2. g = [s \in SUBSET S |-> IF s = {} THEN 0 ELSE NextSum(f, g, s)]
    BY <1>8, <2>1
  <2> QED BY <2>2 DEF Sums
<1> QED BY <1>7, <1>9

\* Of the sets that are finite there is one sum only.
LEMMA SumsAgree ==
    ASSUME NEW S, NEW T, NEW f, NEW g, NEW h, Sums(f, S, g), Sums(f, T, h),
           NEW s \in SUBSET (S \cap T), IsFiniteSet(s)
    PROVE  g[s] = h[s]
<1> DEFINE Q == {n \in Nat : \A u \in SUBSET (S \cap T) :
                                 IsFiniteSet(u) /\ Cardinality(u) = n => g[u] = h[u]}
<1>1. /\ \A u \in SUBSET S : g[u] = IF u = {} THEN 0 ELSE NextSum(f, g, u)
      /\ \A u \in SUBSET T : h[u] = IF u = {} THEN 0 ELSE NextSum(f, h, u)
  BY DEF Sums
<1>2. 0 \in Q
  <2> SUFFICES ASSUME NEW u \in SUBSET (S \cap T), IsFiniteSet(u), Cardinality(u) = 0
               PROVE  g[u] = h[u]
    OBVIOUS
  <2>1. u = {}
    BY FS_EmptySet
  <2> QED BY <1>1, <2>1
<1>3. ASSUME NEW n \in Q PROVE n + 1 \in Q
  <2>1. n \in Nat
    OBVIOUS
  <2> SUFFICES ASSUME NEW u \in SUBSET (S \cap T), IsFiniteSet(u), Cardinality(u) = n + 1
               PROVE  g[u] = h[u]
    BY <2>1
  <2> DEFINE x == CHOOSE x \in u : TRUE
             v == u \ {x}
  <2>2. u # {}
    BY <2>1, FS_EmptySet
  <2>3. x \in u
    BY <2>2
  <2>4. NextSum(f, g, u) = f[x] + g[v] /\ NextSum(f, h, u) = f[x] + h[v]
    BY DEF NextSum
  <2> HIDE DEF x
  <2>5. IsFiniteSet(v) /\ Cardinality(v) = n
    <3>1. IsFiniteSet(v) /\ Cardinality(v) = Cardinality(u) - 1
      BY <2>3, FS_RemoveElement
    <3> QED BY <2>1, <3>1
  <2>6. g[v] = h[v]
    BY <2>5
  <2> QED BY <1>1, <2>2, <2>4, <2>6
<1>4. Q \in SUBSET Nat
  OBVIOUS
<1> HIDE DEF Q
<1>5. \A n \in Nat : n \in Q
  BY <1>2, <1>3, <1>4, NatSetInduction
<1>6. Cardinality(s) \in Nat
  BY FS_CardinalityType
<1> QED BY <1>5, <1>6 DEF Q

\* The sum of a set is that of all but one of its elements, and that one.
SumAdds(f, S) ==
    /\ SumFunctionOnSet(f, {}) = 0
    /\ \A T \in SUBSET S : SumFunctionOnSet(f, T) \in Nat
    /\ \A T \in SUBSET S : \A x \in T : SumFunctionOnSet(f, T) = f[x] + SumFunctionOnSet(f, T \ {x})

LEMMA SumAddsUp ==
    ASSUME NEW S, IsFiniteSet(S), NEW f, \A x \in S : f[x] \in Nat
    PROVE  SumAdds(f, S)
<1>1. PICK g : Sums(f, S, g) /\ \A s \in SUBSET S : g[s] \in Nat
  BY SumsExist
<1>2. ASSUME NEW T \in SUBSET S PROVE SumFunctionOnSet(f, T) = g[T]
  <2> DEFINE h == CHOOSE h : Sums(f, T, h)
  <2>1. IsFiniteSet(T) /\ \A x \in T : f[x] \in Nat
    BY FS_Subset
  <2>2. \E h0 : Sums(f, T, h0)
    BY <2>1, SumsExist, Zenon
  <2>3. Sums(f, T, h)
    BY <2>2, Zenon
  <2>4. SumFunctionOnSet(f, T) = h[T]
    BY SumUnfolds
  <2> HIDE DEF h
  <2>5. h[T] = g[T]
    <3>1. T \in SUBSET (T \cap S)
      OBVIOUS
    <3> QED BY <1>1, <2>1, <2>3, <3>1, SumsAgree
  <2> QED BY <2>4, <2>5
<1>3. \A u \in SUBSET S : g[u] = IF u = {} THEN 0 ELSE NextSum(f, g, u)
  BY <1>1 DEF Sums
<1> DEFINE Q == {n \in Nat : \A T \in SUBSET S : Cardinality(T) = n + 1 =>
                                 \A x \in T : g[T] = f[x] + g[T \ {x}]}
<1>4. \A T \in SUBSET S : IsFiniteSet(T) /\ Cardinality(T) \in Nat
  BY FS_Subset, FS_CardinalityType
<1>5. ASSUME NEW T \in SUBSET S, T # {}
      PROVE  \E c \in T : g[T] = f[c] + g[T \ {c}]
  <2> DEFINE c == CHOOSE c \in T : TRUE
  <2>1. c \in T
    BY <1>5
  <2>2. NextSum(f, g, T) = f[c] + g[T \ {c}]
    BY DEF NextSum
  <2> HIDE DEF c
  <2> QED BY <1>3, <1>5, <2>1, <2>2
<1>6. 0 \in Q
  <2> SUFFICES ASSUME NEW T \in SUBSET S, Cardinality(T) = 1, NEW x \in T
               PROVE  g[T] = f[x] + g[T \ {x}]
    OBVIOUS
  <2>1. \A y \in T : y = x
    <3> SUFFICES ASSUME NEW y \in T, y # x PROVE FALSE
      OBVIOUS
    <3>1. IsFiniteSet(T \ {x}) /\ Cardinality(T \ {x}) = 0
      BY <1>4, FS_RemoveElement
    <3>2. T \ {x} = {}
      BY <3>1, FS_EmptySet
    <3> QED BY <3>2
  <2> QED BY <1>5, <2>1
<1>7. ASSUME NEW n \in Q PROVE n + 1 \in Q
  <2>1. n \in Nat
    OBVIOUS
  <2> SUFFICES ASSUME NEW T \in SUBSET S, Cardinality(T) = (n + 1) + 1, NEW x \in T
               PROVE  g[T] = f[x] + g[T \ {x}]
    BY <2>1
  <2>2. PICK c \in T : g[T] = f[c] + g[T \ {c}]
    BY <1>5
  <2>3. CASE c = x
    BY <2>2, <2>3
  <2>4. CASE c # x
    <3> DEFINE A == T \ {c}
               B == T \ {x}
    <3>1. A \in SUBSET S /\ B \in SUBSET S /\ x \in A /\ c \in B /\ A \ {x} = B \ {c}
      BY <2>4
    <3>2. Cardinality(A) = n + 1 /\ Cardinality(B) = n + 1
      <4>1. Cardinality(T \ {c}) = Cardinality(T) - 1 /\ Cardinality(T \ {x}) = Cardinality(T) - 1
        BY <1>4, FS_RemoveElement
      <4> QED BY <2>1, <4>1
    <3>3. g[A] = f[x] + g[A \ {x}] /\ g[B] = f[c] + g[B \ {c}]
      BY <3>1, <3>2
    <3>4. f[x] \in Nat /\ f[c] \in Nat /\ g[A \ {x}] \in Nat /\ g[B] \in Nat /\ g[A] \in Nat
      BY <1>1, <3>1
    <3> HIDE DEF A, B
    <3>5. g[T] = f[c] + g[A]
      BY <2>2 DEF A
    <3> DEFINE r == g[A \ {x}]
    <3>6. g[A] = f[x] + r /\ g[B] = f[c] + r /\ r \in Nat
      BY <3>1, <3>3, <3>4, Zenon
    <3> HIDE DEF r
    <3>7. f[c] + (f[x] + r) = f[x] + (f[c] + r)
      BY <3>4, <3>6
    <3>8. g[T] = f[x] + g[B]
      BY <3>5, <3>6, <3>7, Zenon
    <3> QED BY <3>8 DEF B
  <2> QED BY <2>3, <2>4
<1>8. Q \in SUBSET Nat
  OBVIOUS
<1> HIDE DEF Q
<1>9. \A n \in Nat : n \in Q
  BY <1>6, <1>7, <1>8, NatSetInduction
<1>10. ASSUME NEW T \in SUBSET S, NEW x \in T
       PROVE  g[T] = f[x] + g[T \ {x}]
  <2>1. Cardinality(T) \in Nat /\ Cardinality(T) # 0 /\ T # {}
    BY <1>4, FS_EmptySet
  <2>2. Cardinality(T) - 1 \in Nat /\ Cardinality(T) = (Cardinality(T) - 1) + 1
    BY <2>1
  <2> QED BY <1>9, <2>2 DEF Q
<1>11. g[{}] = 0
  BY <1>3
<1>12. \A T \in SUBSET S : \A x \in T : SumFunctionOnSet(f, T) = f[x] + SumFunctionOnSet(f, T \ {x})
  <2> SUFFICES ASSUME NEW T \in SUBSET S, NEW x \in T
               PROVE  SumFunctionOnSet(f, T) = f[x] + SumFunctionOnSet(f, T \ {x})
    OBVIOUS
  <2>1. SumFunctionOnSet(f, T) = g[T] /\ SumFunctionOnSet(f, T \ {x}) = g[T \ {x}]
    BY <1>2
  <2> QED BY <1>10, <2>1
<1>13. SumFunctionOnSet(f, {}) = 0
  BY <1>2, <1>11
<1> QED BY <1>1, <1>2, <1>12, <1>13 DEF SumAdds

\* Sums are compared element by element.
SumLaws(f, h, S) ==
    /\ (\A x \in S : f[x] = h[x]) => SumFunctionOnSet(f, S) = SumFunctionOnSet(h, S)
    /\ (\A x \in S : f[x] <= h[x]) => SumFunctionOnSet(f, S) <= SumFunctionOnSet(h, S)
    /\ \A k : (\A x \in S : k[x] = f[x] + h[x]) =>
           SumFunctionOnSet(k, S) = SumFunctionOnSet(f, S) + SumFunctionOnSet(h, S)

LEMMA SumsCompare ==
    ASSUME NEW S, IsFiniteSet(S), NEW f, NEW h, \A x \in S : f[x] \in Nat /\ h[x] \in Nat
    PROVE  SumLaws(f, h, S)
<1> DEFINE F(T) == SumFunctionOnSet(f, T)
           H(T) == SumFunctionOnSet(h, T)
           Q == {T \in SUBSET S : /\ (\A x \in T : f[x] = h[x]) => F(T) = H(T)
                                  /\ (\A x \in T : f[x] <= h[x]) => F(T) <= H(T)}
<1>1. SumAdds(f, S) /\ SumAdds(h, S)
  BY SumAddsUp
<1>2. /\ F({}) = 0 /\ H({}) = 0
      /\ \A T \in SUBSET S : F(T) \in Nat /\ H(T) \in Nat
      /\ \A T \in SUBSET S : \A x \in T : F(T) = f[x] + F(T \ {x}) /\ H(T) = h[x] + H(T \ {x})
  BY <1>1 DEF SumAdds
<1> HIDE DEF F, H
<1>3. {} \in Q
  BY <1>2
<1>4. ASSUME NEW T \in Q, NEW x \in S \ T PROVE T \cup {x} \in Q
  <2>1. T \in SUBSET S /\ x \in S /\ T \cup {x} \in SUBSET S /\ (T \cup {x}) \ {x} = T
    BY <1>4
  <2>2. F(T \cup {x}) = f[x] + F(T) /\ H(T \cup {x}) = h[x] + H(T)
    <3>1. x \in T \cup {x}
      OBVIOUS
    <3> QED BY <1>2, <2>1, <3>1
  <2>3. F(T) \in Nat /\ H(T) \in Nat /\ f[x] \in Nat /\ h[x] \in Nat
    BY <1>2, <2>1
  <2>4. ASSUME \A y \in T \cup {x} : f[y] = h[y] PROVE F(T \cup {x}) = H(T \cup {x})
    <3>1. f[x] = h[x] /\ F(T) = H(T)
      BY <2>4
    <3> QED BY <2>2, <3>1
  <2>5. ASSUME \A y \in T \cup {x} : f[y] <= h[y] PROVE F(T \cup {x}) <= H(T \cup {x})
    <3>1. f[x] <= h[x] /\ F(T) <= H(T)
      BY <2>5
    <3> QED BY <2>2, <2>3, <3>1
  <2> QED BY <2>1, <2>4, <2>5
<1>5. Q \in SUBSET (SUBSET S)
  OBVIOUS
<1> HIDE DEF Q
<1>6. S \in Q
  BY <1>3, <1>4, <1>5, SetInduction
<1>7. ASSUME NEW k, \A x \in S : k[x] = f[x] + h[x]
      PROVE  SumFunctionOnSet(k, S) = F(S) + H(S)
  <2> DEFINE K(T) == SumFunctionOnSet(k, T)
             R == {T \in SUBSET S : K(T) = F(T) + H(T)}
  <2>1. SumAdds(k, S)
    BY <1>7, SumAddsUp
  <2>2. /\ K({}) = 0
        /\ \A T \in SUBSET S : \A x \in T : K(T) = k[x] + K(T \ {x})
    BY <2>1 DEF SumAdds
  <2> HIDE DEF K
  <2>3. {} \in R
    BY <1>2, <2>2
  <2>4. ASSUME NEW T \in R, NEW x \in S \ T PROVE T \cup {x} \in R
    <3>1. T \in SUBSET S /\ x \in S /\ T \cup {x} \in SUBSET S /\ (T \cup {x}) \ {x} = T /\ x \in T \cup {x}
      BY <2>4
    <3>2. F(T \cup {x}) = f[x] + F(T) /\ H(T \cup {x}) = h[x] + H(T) /\ K(T \cup {x}) = k[x] + K(T)
      BY <1>2, <2>2, <3>1
    <3>3. F(T) \in Nat /\ H(T) \in Nat /\ f[x] \in Nat /\ h[x] \in Nat /\ k[x] = f[x] + h[x] /\ K(T) = F(T) + H(T)
      BY <1>2, <1>7, <3>1
    <3>4. K(T \cup {x}) = F(T \cup {x}) + H(T \cup {x})
      BY <3>2, <3>3
    <3> QED BY <3>1, <3>4
  <2>5. R \in SUBSET (SUBSET S)
    OBVIOUS
  <2> HIDE DEF R
  <2>6. S \in R
    BY <2>3, <2>4, <2>5, SetInduction
  <2> QED BY <2>6 DEF R, K
<1> QED BY <1>6, <1>7 DEF Q, F, H, SumLaws

\* The sum of two sets without a common element.
LEMMA SumOfTwo ==
    ASSUME NEW S, NEW T, IsFiniteSet(S), IsFiniteSet(T), S \cap T = {},
           NEW f, \A x \in S \cup T : f[x] \in Nat
    PROVE  SumFunctionOnSet(f, S \cup T) = SumFunctionOnSet(f, S) + SumFunctionOnSet(f, T)
<1> DEFINE F(A) == SumFunctionOnSet(f, A)
           Q == {A \in SUBSET S : F(A \cup T) = F(A) + F(T)}
<1>1. SumAdds(f, S \cup T)
  <2>1. IsFiniteSet(S \cup T)
    BY FS_Union
  <2> QED BY <2>1, SumAddsUp
<1>2. /\ F({}) = 0
      /\ \A A \in SUBSET (S \cup T) : F(A) \in Nat
      /\ \A A \in SUBSET (S \cup T) : \A x \in A : F(A) = f[x] + F(A \ {x})
  BY <1>1 DEF SumAdds
<1> HIDE DEF F
<1>3. {} \in Q
  <2>1. {} \cup T = T /\ F(T) \in Nat /\ F({}) = 0
    BY <1>2
  <2>2. F({} \cup T) = F({}) + F(T)
    BY <2>1
  <2> QED BY <2>2
<1>4. ASSUME NEW A \in Q, NEW x \in S \ A PROVE A \cup {x} \in Q
  <2> DEFINE B == A \cup {x}
  <2>1. A \in SUBSET S /\ x \in S /\ B \in SUBSET S /\ B \ {x} = A /\ x \in B /\ F(A \cup T) = F(A) + F(T)
    BY <1>4
  <2>2. B \cup T \in SUBSET (S \cup T) /\ x \in B \cup T /\ (B \cup T) \ {x} = A \cup T
    BY <1>4
  <2> HIDE DEF B
  <2>3. F(B) = f[x] + F(A) /\ F(B \cup T) = f[x] + F(A \cup T)
    BY <1>2, <2>1, <2>2
  <2>4. F(A) \in Nat /\ F(T) \in Nat /\ f[x] \in Nat
    BY <1>2, <2>1
  <2>5. F(B \cup T) = F(B) + F(T)
    BY <2>1, <2>3, <2>4
  <2> QED BY <2>1, <2>5 DEF B
<1>5. Q \in SUBSET (SUBSET S)
  OBVIOUS
<1> HIDE DEF Q
<1>6. S \in Q
  BY <1>3, <1>4, <1>5, SetInduction
<1> QED BY <1>6 DEF Q, F

\* The sum over a set that another one numbers.
LEMMA SumRenumbered ==
    ASSUME NEW S, IsFiniteSet(S), NEW T, NEW g,
           \A x \in S : g[x] \in T, \A y \in T : \E x \in S : g[x] = y,
           \A x, y \in S : g[x] = g[y] => x = y,
           NEW f, \A y \in T : f[y] \in Nat,
           NEW h, \A x \in S : h[x] = f[g[x]]
    PROVE  IsFiniteSet(T) /\ SumFunctionOnSet(f, T) = SumFunctionOnSet(h, S)
<1> DEFINE F(A) == SumFunctionOnSet(f, A)
           H(A) == SumFunctionOnSet(h, A)
           I(A) == {g[x] : x \in A}
           Q == {A \in SUBSET S : F(I(A)) = H(A)}
<1>1. I(S) = T
  OBVIOUS
<1>2. IsFiniteSet(T)
  <2>1. \A i, j \in S : g[i] = g[j] => i = j
    OBVIOUS
  <2> QED BY <2>1, SameCount
<1>3. SumAdds(f, T) /\ SumAdds(h, S)
  <2>1. \A x \in S : h[x] \in Nat
    OBVIOUS
  <2> QED BY <1>2, <2>1, SumAddsUp
<1>4. /\ F({}) = 0 /\ H({}) = 0
      /\ \A A \in SUBSET T : \A x \in A : F(A) = f[x] + F(A \ {x})
      /\ \A A \in SUBSET S : \A x \in A : H(A) = h[x] + H(A \ {x})
  BY <1>3 DEF SumAdds
<1> HIDE DEF F, H
<1>5. {} \in Q
  <2>1. I({}) = {}
    OBVIOUS
  <2> QED BY <1>4, <2>1
<1>6. ASSUME NEW A \in Q, NEW x \in S \ A PROVE A \cup {x} \in Q
  <2> DEFINE B == A \cup {x}
  <2>1. A \in SUBSET S /\ x \in S /\ B \in SUBSET S /\ B \ {x} = A /\ x \in B /\ F(I(A)) = H(A)
    BY <1>6
  <2>2. I(B) \in SUBSET T /\ g[x] \in I(B) /\ I(B) \ {g[x]} = I(A)
    <3>1. I(B) = I(A) \cup {g[x]}
      OBVIOUS
    <3>2. g[x] \notin I(A)
      BY <1>6, <2>1
    <3>3. I(B) \in SUBSET T
      BY <2>1
    <3> HIDE DEF I, B
    <3> QED BY <3>1, <3>2, <3>3
  <2> HIDE DEF B, I
  <2>3. F(I(B)) = f[g[x]] + F(I(A)) /\ H(B) = h[x] + H(A) /\ h[x] = f[g[x]]
    BY <1>4, <2>1, <2>2
  <2>4. F(I(B)) = H(B)
    BY <2>1, <2>3
  <2> QED BY <2>1, <2>4 DEF B, I
<1>7. Q \in SUBSET (SUBSET S)
  OBVIOUS
<1> HIDE DEF Q
<1>8. S \in Q
  BY <1>5, <1>6, <1>7, SetInduction
<1> QED BY <1>1, <1>2, <1>8 DEF Q, F, H

Numbered(S, T, g) ==
    /\ IsFiniteSet(S)
    /\ (\A x \in S : g[x] \in T) /\ (\A y \in T : \E x \in S : g[x] = y)
    /\ \A x, y \in S : g[x] = g[y] => x = y
LEMMA SumOfNumbered ==
    ASSUME NEW S, NEW T, NEW g, Numbered(S, T, g), NEW f, \A y \in T : f[y] \in Nat,
           NEW h, \A x \in S : h[x] = f[g[x]]
    PROVE  SumFunctionOnSet(f, T) = SumFunctionOnSet(h, S)
<1>1. /\ IsFiniteSet(S) /\ (\A x \in S : g[x] \in T) /\ (\A y \in T : \E x \in S : g[x] = y)
      /\ \A x, y \in S : g[x] = g[y] => x = y
  BY DEF Numbered
<1>2. IsFiniteSet(T) /\ SumFunctionOnSet(f, T) = SumFunctionOnSet(h, S)
  BY <1>1, SumRenumbered
<1> QED BY <1>2

\* A sum of multiples is one.
LEMMA SumOfMultiples ==
    ASSUME NEW S, IsFiniteSet(S), NEW f, NEW p \in Nat, \A x \in S : \E q \in Nat : f[x] = q * p
    PROVE  \E q \in Nat : SumFunctionOnSet(f, S) = q * p
<1> DEFINE F(A) == SumFunctionOnSet(f, A)
           Q == {A \in SUBSET S : \E q \in Nat : F(A) = q * p}
<1>1. \A x \in S : f[x] \in Nat
  OBVIOUS
<1>2. SumAdds(f, S)
  BY <1>1, SumAddsUp
<1>3. /\ F({}) = 0
      /\ \A A \in SUBSET S : \A x \in A : F(A) = f[x] + F(A \ {x})
  BY <1>2 DEF SumAdds
<1> HIDE DEF F
<1>4. {} \in Q
  <2>1. 0 \in Nat /\ 0 * p = 0
    OBVIOUS
  <2> QED BY <1>3, <2>1
<1>5. ASSUME NEW A \in Q, NEW x \in S \ A PROVE A \cup {x} \in Q
  <2>1. A \in SUBSET S /\ A \cup {x} \in SUBSET S /\ (A \cup {x}) \ {x} = A /\ x \in A \cup {x}
    BY <1>5
  <2>2. PICK q \in Nat : F(A) = q * p
    BY <1>5
  <2>3. PICK r \in Nat : f[x] = r * p
    BY <1>5
  <2>4. F(A \cup {x}) = f[x] + F(A)
    BY <1>3, <2>1
  <2>5. r + q \in Nat /\ (r + q) * p = r * p + q * p
    OBVIOUS
  <2>6. F(A \cup {x}) = (r + q) * p
    BY <2>2, <2>3, <2>4, <2>5
  <2> QED BY <2>1, <2>5, <2>6
<1>6. Q \in SUBSET (SUBSET S)
  OBVIOUS
<1> HIDE DEF Q
<1>7. S \in Q
  BY <1>4, <1>5, <1>6, SetInduction
<1> QED BY <1>7 DEF Q, F

----------------------------------------------------------------------------
(* Sequences of sequences.                                                 *)

\* FlattenSeq appends one sequence after the other.
LEMMA FlattenIsLast ==
    ASSUME NEW n \in Nat, n >= 1, NEW sq, DOMAIN sq = 1..n, Len(sq) = n, NEW g,
           \A i \in 1..n : g[i] = IF i = 1 THEN sq[i] ELSE g[i - 1] \o sq[i]
    PROVE  FlattenSeq(sq) = g[n]
<1> DEFINE Next1(h, i) == IF i = 1 THEN sq[i] ELSE h[i - 1] \o sq[i]
           f == CHOOSE h : h = [i \in 1..Len(sq) |-> Next1(h, i)]
           h0 == [i \in 1..n |-> g[i]]
<1>1. ASSUME NEW i \in 1..n PROVE h0[i] = Next1(h0, i) /\ h0[i] = g[i]
  <2>1. CASE i = 1
    BY <2>1
  <2>2. CASE i # 1
    <3>1. i - 1 \in 1..n
      BY <2>2
    <3>2. h0[i] = g[i] /\ h0[i - 1] = g[i - 1]
      BY <3>1
    <3>3. g[i] = g[i - 1] \o sq[i]
      BY <2>2
    <3> HIDE DEF h0
    <3>4. h0[i] = h0[i - 1] \o sq[i]
      BY <3>2, <3>3, Zenon
    <3> QED BY <2>2, <3>2, <3>4
  <2> QED BY <2>1, <2>2
<1>2. h0 = [i \in 1..Len(sq) |-> Next1(h0, i)]
  <2> HIDE DEF Next1
  <2> QED BY <1>1
<1> HIDE DEF h0
<1>3. f = [i \in 1..Len(sq) |-> Next1(f, i)]
  BY <1>2, Zenon
<1> HIDE DEF f
<1>4. \A i \in 1..n : f[i] = Next1(f, i)
  <2> HIDE DEF Next1
  <2> QED BY <1>3
<1> DEFINE Q == {k \in Nat : k + 1 <= n => f[k + 1] = g[k + 1]}
<1>5. 0 \in Q
  <2>1. 1 \in 1..n
    OBVIOUS
  <2>2. f[1] = sq[1] /\ g[1] = sq[1]
    BY <1>4, <2>1
  <2> QED BY <2>2
<1>6. ASSUME NEW m \in Q PROVE m + 1 \in Q
  <2>1. m \in Nat
    OBVIOUS
  <2> SUFFICES ASSUME (m + 1) + 1 <= n PROVE f[(m + 1) + 1] = g[(m + 1) + 1]
    BY <2>1
  <2> DEFINE k == (m + 1) + 1
  <2>2. k \in 1..n /\ k # 1 /\ k - 1 = m + 1 /\ m + 1 <= n
    BY <2>1
  <2> HIDE DEF k
  <2>3. f[k - 1] = g[k - 1]
    BY <2>2
  <2>4. f[k] = f[k - 1] \o sq[k] /\ g[k] = g[k - 1] \o sq[k]
    BY <1>4, <2>2
  <2>5. f[k] = g[k]
    BY <2>3, <2>4, Zenon
  <2> QED BY <2>5 DEF k
<1>7. Q \in SUBSET Nat
  OBVIOUS
<1> HIDE DEF Q
<1>8. n - 1 \in Q
  <2>1. n - 1 \in Nat
    OBVIOUS
  <2> QED BY <1>5, <1>6, <1>7, <2>1, NatSetInduction
<1>9. f[n] = g[n]
  <2>1. n - 1 \in Nat /\ (n - 1) + 1 = n /\ (n - 1) + 1 <= n
    OBVIOUS
  <2> QED BY <1>8, <2>1 DEF Q
<1>10. Len(sq) # 0
  OBVIOUS
<1>11. FlattenSeq(sq) = f[Len(sq)]
  BY <1>10, Zenon DEF FlattenSeq, f
<1> QED BY <1>9, <1>11

================================================================================
