------------------------------ MODULE CircuitProofs ------------------------------
(***************************************************************************)
(* Proofs about what is built from the covers of the exact minimizer.      *)
(* HierarchicalCircuit: a call keeps within its bounds, the cover of every *)
(* leaf is a minimum, the circuit agrees with the function where probing   *)
(* has dropped nothing, and only a want of variables to split on makes a   *)
(* decomposition fail.  CircuitModel: interning keeps a graph reduced and  *)
(* returns the node that was asked for, a graph that is built has the      *)
(* table it was built from, and what is saved can be loaded.               *)
(***************************************************************************)
EXTENDS HierarchicalCircuit, CircuitModel, ExactCoverProofs

----------------------------------------------------------------------------
(* Following a circuit.                                                    *)

IsPath(f, c, x, k) == f = [j \in 0..k |-> IF j = 0 THEN c ELSE Descend(f[j - 1], x)]

LEMMA PathExists ==
    ASSUME NEW c, NEW x, NEW k \in Nat
    PROVE  \E f : IsPath(f, c, x, k)
<1> DEFINE Q == {n \in Nat : \E f : IsPath(f, c, x, n)}
<1>1. 0 \in Q
  <2> DEFINE f == [j \in 0..0 |-> c]
  <2>1. f = [j \in 0..0 |-> IF j = 0 THEN c ELSE Descend(f[j - 1], x)]
    OBVIOUS
  <2>2. QED
    BY <2>1 DEF IsPath
<1>2. ASSUME NEW n \in Q PROVE n + 1 \in Q
  <2>1. PICK f : IsPath(f, c, x, n)
    OBVIOUS
  <2> DEFINE g == [j \in 0..(n + 1) |-> IF j <= n THEN f[j] ELSE Descend(f[n], x)]
  <2>2. f = [j \in 0..n |-> IF j = 0 THEN c ELSE Descend(f[j - 1], x)]
    BY <2>1 DEF IsPath
  <2>3. ASSUME NEW j \in 0..(n + 1) PROVE g[j] = IF j = 0 THEN c ELSE Descend(g[j - 1], x)
    <3>1. CASE j = 0
      BY <2>2, <3>1
    <3>2. CASE j # 0
      <4>1. j - 1 \in 0..n /\ g[j - 1] = f[j - 1]
        BY <3>2
      <4>2. g[j] = Descend(f[j - 1], x)
        BY <2>2, <3>2
      <4>3. QED
        BY <3>2, <4>1, <4>2
    <3>3. QED
      BY <3>1, <3>2
  <2>4. g = [j \in 0..(n + 1) |-> IF j = 0 THEN c ELSE Descend(g[j - 1], x)]
    BY <2>3
  <2>5. IsPath(g, c, x, n + 1)
    BY <2>4 DEF IsPath
  <2> HIDE DEF g
  <2>6. n + 1 \in Nat /\ \E h : IsPath(h, c, x, n + 1)
    BY <2>5
  <2>7. QED
    BY <2>6
<1> HIDE DEF Q
<1>3. Q \in SUBSET Nat
  BY DEF Q
<1>4. k \in Q
  BY <1>1, <1>2, <1>3, NatSetInduction
<1>5. QED
  BY <1>4 DEF Q

\* Follow is the end of a path.
LEMMA FollowIsAPath ==
    ASSUME NEW c, NEW x, NEW k \in Nat
    PROVE  \E f : /\ f[0] = c /\ f[k] = Follow(c, x, k)
                  /\ \A j \in 0..(k - 1) : f[j + 1] = Descend(f[j], x)
<1> DEFINE node == CHOOSE f : f = [j \in 0..k |-> IF j = 0 THEN c ELSE Descend(f[j - 1], x)]
<1>1. node = [j \in 0..k |-> IF j = 0 THEN c ELSE Descend(node[j - 1], x)]
  BY PathExists DEF IsPath
<1>2. Follow(c, x, k) = node[k]
  BY DEF Follow
<1> HIDE DEF node
<1>3. node[0] = c
  BY <1>1
<1>4. ASSUME NEW j \in 0..(k - 1) PROVE node[j + 1] = Descend(node[j], x)
  <2>1. j + 1 \in 0..k /\ j + 1 # 0 /\ (j + 1) - 1 = j
    OBVIOUS
  <2>2. QED
    BY <1>1, <2>1
<1>5. QED
  BY <1>2, <1>3, <1>4

\* Two paths from the same circuit are one.
LEMMA PathsAgree ==
    ASSUME NEW f, NEW g, NEW x, NEW k \in Nat, f[0] = g[0],
           \A j \in 0..(k - 1) : f[j + 1] = Descend(f[j], x),
           \A j \in 0..(k - 1) : g[j + 1] = Descend(g[j], x)
    PROVE  f[k] = g[k]
<1> DEFINE Q == {n \in Nat : n <= k => f[n] = g[n]}
<1>1. 0 \in Q
  OBVIOUS
<1>2. ASSUME NEW n \in Q PROVE n + 1 \in Q
  <2>1. CASE n + 1 <= k
    <3>1. n \in 0..(k - 1) /\ f[n] = g[n]
      BY <2>1
    <3>2. f[n + 1] = g[n + 1]
      BY <3>1
    <3>3. QED
      BY <3>2
  <2>2. QED
    BY <2>1
<1>3. k \in Q
  <2>1. Q \in SUBSET Nat
    OBVIOUS
  <2> HIDE DEF Q
  <2>2. QED
    BY <1>1, <1>2, <2>1, NatSetInduction
<1>4. QED
  BY <1>3

\* A circuit that is no mux is followed to itself, and one that is, to the end of a half.
LEMMA FollowEnd ==
    ASSUME NEW c, NEW x, NEW k \in Nat, c.kind # "mux"
    PROVE  Follow(c, x, k) = c
<1> DEFINE g == [j \in 0..k |-> c]
<1>1. PICK f : /\ f[0] = c /\ f[k] = Follow(c, x, k)
               /\ \A j \in 0..(k - 1) : f[j + 1] = Descend(f[j], x)
  BY FollowIsAPath
<1>2. Descend(c, x) = c
  BY DEF Descend
<1>3. g[0] = c /\ g[k] = c /\ \A j \in 0..(k - 1) : g[j + 1] = Descend(g[j], x)
  BY <1>2
<1> HIDE DEF g
<1>4. f[k] = g[k]
  BY <1>1, <1>3, PathsAgree
<1>5. QED
  BY <1>1, <1>3, <1>4

LEMMA FollowStep ==
    ASSUME NEW c, NEW x, NEW k \in Nat
    PROVE  Follow(c, x, k + 1) = Follow(Descend(c, x), x, k)
<1>1. PICK f : /\ f[0] = c /\ f[k + 1] = Follow(c, x, k + 1)
               /\ \A j \in 0..((k + 1) - 1) : f[j + 1] = Descend(f[j], x)
  BY FollowIsAPath
<1>2. PICK g : /\ g[0] = Descend(c, x) /\ g[k] = Follow(Descend(c, x), x, k)
               /\ \A j \in 0..(k - 1) : g[j + 1] = Descend(g[j], x)
  BY FollowIsAPath
<1> DEFINE h == [j \in 0..k |-> f[j + 1]]
<1>3. h[0] = Descend(c, x) /\ h[k] = Follow(c, x, k + 1)
  <2>1. 0 \in 0..((k + 1) - 1) /\ 0 \in 0..k /\ k \in 0..k
    OBVIOUS
  <2>2. h[0] = f[0 + 1] /\ f[0 + 1] = Descend(f[0], x) /\ h[k] = f[k + 1]
    BY <1>1, <2>1
  <2>3. QED
    BY <1>1, <2>2
<1>4. ASSUME NEW j \in 0..(k - 1) PROVE h[j + 1] = Descend(h[j], x)
  <2>1. j + 1 \in 0..k /\ j \in 0..k /\ j + 1 \in 0..((k + 1) - 1)
    OBVIOUS
  <2>2. h[j + 1] = f[(j + 1) + 1] /\ h[j] = f[j + 1]
    BY <2>1
  <2>3. QED
    BY <1>1, <2>1, <2>2
<1> HIDE DEF h
<1>5. h[0] = g[0]
  BY <1>2, <1>3
<1>6. h[k] = g[k]
  BY <1>2, <1>4, <1>5, PathsAgree
<1>7. QED
  BY <1>2, <1>3, <1>6

----------------------------------------------------------------------------
(* The slots of a leaf.                                                    *)

Lower(v, S) == {u \in S : u < v}

LEMMA SlotsAreDistinct ==
    ASSUME NEW S \in SUBSET Nat, IsFiniteSet(S)
    PROVE  /\ \A v \in S : Slot(v, S) \in 0..(Cardinality(S) - 1)
           /\ \A v, w \in S : v # w => Slot(v, S) # Slot(w, S)
<1>1. ASSUME NEW v \in S
      PROVE  /\ IsFiniteSet(Lower(v, S)) /\ Cardinality(Lower(v, S)) \in Nat
             /\ Cardinality(Lower(v, S) \cup {v}) = Cardinality(Lower(v, S)) + 1
  <2>1. IsFiniteSet(Lower(v, S)) /\ Cardinality(Lower(v, S)) \in Nat
    <3>1. Lower(v, S) \subseteq S
      BY DEF Lower
    <3>2. QED
      BY <3>1, FS_Subset, FS_CardinalityType
  <2>2. v \notin Lower(v, S)
    BY DEF Lower
  <2>3. QED
    BY <2>1, <2>2, FS_AddElement
<1>2. ASSUME NEW v \in S, NEW T \in SUBSET S, Lower(v, S) \cup {v} \subseteq T
      PROVE  Cardinality(Lower(v, S)) + 1 <= Cardinality(T) /\ Cardinality(T) \in Nat
  <2>1. IsFiniteSet(T) /\ Cardinality(T) \in Nat
    BY FS_Subset, FS_CardinalityType
  <2>2. Cardinality(Lower(v, S) \cup {v}) <= Cardinality(T)
    BY <1>2, <2>1, FS_Subset
  <2>3. QED
    BY <1>1, <2>1, <2>2
<1>3. \A v \in S : Slot(v, S) = Cardinality(Lower(v, S))
  BY DEF Slot, Lower
<1>4. ASSUME NEW v \in S PROVE Slot(v, S) \in 0..(Cardinality(S) - 1)
  <2>1. Lower(v, S) \cup {v} \subseteq S
    BY DEF Lower
  <2>2. Cardinality(Lower(v, S)) + 1 <= Cardinality(S) /\ Cardinality(S) \in Nat
    BY <1>2, <2>1
  <2>3. Slot(v, S) = Cardinality(Lower(v, S)) /\ Cardinality(Lower(v, S)) \in Nat
    BY <1>1, <1>3
  <2>4. QED
    BY <2>2, <2>3
<1>5. ASSUME NEW v \in S, NEW w \in S, v < w PROVE Slot(v, S) < Slot(w, S)
  <2>1. Lower(v, S) \cup {v} \subseteq Lower(w, S) /\ Lower(w, S) \in SUBSET S
    <3>1. \A u \in S : u < v => u < w
      BY <1>5
    <3>2. QED
      BY <1>5, <3>1 DEF Lower
  <2>2. Cardinality(Lower(v, S)) + 1 <= Cardinality(Lower(w, S)) /\ Cardinality(Lower(w, S)) \in Nat
    BY <1>2, <2>1
  <2>3. /\ Slot(v, S) = Cardinality(Lower(v, S)) /\ Cardinality(Lower(v, S)) \in Nat
        /\ Slot(w, S) = Cardinality(Lower(w, S))
    BY <1>1, <1>3
  <2>4. QED
    BY <2>2, <2>3
<1>6. ASSUME NEW v \in S, NEW w \in S, v # w PROVE Slot(v, S) # Slot(w, S)
  <2>1. v < w \/ w < v
    BY <1>6
  <2>2. Slot(v, S) \in Int /\ Slot(w, S) \in Int
    BY <1>4
  <2>3. QED
    BY <1>5, <2>1, <2>2
<1>7. QED
  BY <1>4, <1>6

\* What is packed for a leaf is unpacked to what it was.
LEMMA UnpackedPacked ==
    ASSUME NEW S \in SUBSET Nat, IsFiniteSet(S), NEW x
    PROVE  /\ Packed(S, x) \subseteq 0..(Cardinality(S) - 1)
           /\ Unpacked(S, Packed(S, x)) = S \cap x
<1>1. Packed(S, x) \subseteq 0..(Cardinality(S) - 1)
  BY SlotsAreDistinct DEF Packed
<1>2. \A v \in S : Slot(v, S) \in Packed(S, x) <=> v \in x
  BY SlotsAreDistinct DEF Packed
<1>3. QED
  BY <1>1, <1>2 DEF Unpacked

----------------------------------------------------------------------------
(* The covers that Coverable looks for.                                    *)

CoverableRow(j, last, minterms, implicants) ==
    [left \in SUBSET minterms |-> [m \in Int |->
        \/ left = {}
        \/ /\ j > 0
           /\ \E p \in implicants :
                  /\ Covers(p, CHOOSE x \in left : TRUE) /\ LiteralCount(p) <= m
                  /\ last[{x \in left : ~Covers(p, x)}][m - LiteralCount(p)]]]
CoverableTable(f, minterms, implicants, k) ==
    f = [j \in 0..k |-> CoverableRow(j, f[j - 1], minterms, implicants)]

LEMMA CoverableRowAt ==
    ASSUME NEW j, NEW last, NEW minterms, NEW implicants, NEW left \in SUBSET minterms, NEW l \in Int
    PROVE  CoverableRow(j, last, minterms, implicants)[left][l] =
               (\/ left = {}
                \/ /\ j > 0
                   /\ \E p \in implicants :
                          /\ Covers(p, CHOOSE x \in left : TRUE) /\ LiteralCount(p) <= l
                          /\ last[{x \in left : ~Covers(p, x)}][l - LiteralCount(p)])
<1>1. CoverableRow(j, last, minterms, implicants)[left] =
          [m \in Int |->
              \/ left = {}
              \/ /\ j > 0
                 /\ \E p \in implicants :
                        /\ Covers(p, CHOOSE x \in left : TRUE) /\ LiteralCount(p) <= m
                        /\ last[{x \in left : ~Covers(p, x)}][m - LiteralCount(p)]]
  BY Zenon DEF CoverableRow
<1>2. QED
  BY <1>1, Zenon

LEMMA CoverableTableExists ==
    ASSUME NEW minterms, NEW implicants, NEW k \in Nat
    PROVE  \E f : CoverableTable(f, minterms, implicants, k)
<1> DEFINE Q == {n \in Nat : \E f : CoverableTable(f, minterms, implicants, n)}
           Row(j, last) == CoverableRow(j, last, minterms, implicants)
           IsTable(f, n) == f = [j \in 0..n |-> Row(j, f[j - 1])]
<1>1. \A f, n : CoverableTable(f, minterms, implicants, n) <=> IsTable(f, n)
  BY DEF CoverableTable
<1>2. \A last : Row(0, last) = Row(0, 0)
  BY DEF CoverableRow
<1> HIDE DEF Row
<1>3. 0 \in Q
  <2> DEFINE f == [j \in 0..0 |-> Row(0, 0)]
  <2>1. IsTable(f, 0)
    BY <1>2
  <2> HIDE DEF f, IsTable
  <2>2. QED
    BY <1>1, <2>1
<1>4. ASSUME NEW n \in Q PROVE n + 1 \in Q
  <2>1. n \in Nat
    OBVIOUS
  <2>2. PICK f : IsTable(f, n)
    <3> HIDE DEF IsTable
    <3>1. QED
      BY <1>1
  <2> DEFINE g == [j \in 0..(n + 1) |-> IF j <= n THEN f[j] ELSE Row(j, f[n])]
  <2>3. ASSUME NEW j \in 0..(n + 1) PROVE g[j] = Row(j, g[j - 1])
    <3>1. CASE j = 0
      <4>1. f[0] = Row(0, f[0 - 1])
        BY <2>1, <2>2
      <4>2. g[0] = f[0]
        BY <2>1
      <4>3. QED
        BY <1>2, <3>1, <4>1, <4>2
    <3>2. CASE j # 0
      <4>1. j - 1 \in 0..n /\ g[j - 1] = f[j - 1]
        BY <2>1, <3>2
      <4>2. g[j] = Row(j, f[j - 1])
        <5>1. CASE j <= n
          BY <2>1, <2>2, <5>1
        <5>2. CASE j = n + 1
          BY <2>1, <5>2
        <5>3. QED
          BY <2>1, <5>1, <5>2
      <4>3. QED
        BY <4>1, <4>2
    <3>3. QED
      BY <3>1, <3>2
  <2>4. IsTable(g, n + 1)
    BY <2>3
  <2> HIDE DEF g, IsTable
  <2>5. n + 1 \in Nat /\ \E h : CoverableTable(h, minterms, implicants, n + 1)
    BY <1>1, <2>1, <2>4
  <2>6. QED
    BY <2>5
<1>5. Q \in SUBSET Nat
  OBVIOUS
<1> HIDE DEF Q, Table
<1>6. k \in Q
  BY <1>3, <1>4, <1>5, NatSetInduction
<1>7. QED
  BY <1>6 DEF Q

\* If Coverable holds there is a set of implicants of that size that covers the minterms.
LEMMA CoverableHasCover ==
    ASSUME NEW inputs, IsFiniteSet(inputs), NEW implicants \in SUBSET CubesOver(inputs),
           NEW minterms, minterms # {}, NEW k \in Nat, NEW l \in Int,
           Coverable(minterms, implicants, k, l)
    PROVE  \E d \in SUBSET implicants :
               /\ \A m \in minterms : \E p \in d : Covers(p, m)
               /\ Cardinality(d) <= k /\ Literals(d) <= l
<1> DEFINE f == CHOOSE f : CoverableTable(f, minterms, implicants, k)
           CoversWithin(left, d, n, l0) ==
               /\ \A m \in left : \E p \in d : Covers(p, m)
               /\ Cardinality(d) <= n /\ Literals(d) <= l0
           Q == {n \in Nat : n <= k =>
                    \A left \in SUBSET minterms : \A l0 \in Int :
                        f[n][left][l0] /\ (left # {} \/ l0 >= 0) =>
                            \E d \in SUBSET implicants : CoversWithin(left, d, n, l0)}
<1>1. Coverable(minterms, implicants, k, l) = f[k][minterms][l]
  BY Zenon DEF Coverable, CoverableTable, CoverableRow
<1>2. CoverableTable(f, minterms, implicants, k)
  BY CoverableTableExists
<1> HIDE DEF f
<1>3. \A n \in 0..k : \A left \in SUBSET minterms : \A l0 \in Int :
          f[n][left][l0] = CoverableRow(n, f[n - 1], minterms, implicants)[left][l0]
  BY <1>2 DEF CoverableTable
<1>4. Cardinality({}) = 0 /\ Literals({}) = 0
  BY FS_EmptySet, LiteralsOfNone
<1>5. 0 \in Q
  <2>1. ASSUME NEW left \in SUBSET minterms, NEW l0 \in Int, f[0][left][l0], left # {} \/ l0 >= 0
        PROVE  \E d \in SUBSET implicants : CoversWithin(left, d, 0, l0)
    <3>1. left = {}
      <4>1. 0 \in 0..k
        OBVIOUS
      <4>2. CoverableRow(0, f[0 - 1], minterms, implicants)[left][l0]
        BY <1>3, <2>1, <4>1
      <4>3. ASSUME NEW last, CoverableRow(0, last, minterms, implicants)[left][l0]
            PROVE  left = {}
        <5>1. left = {} \/ 0 > 0
          BY <4>3, CoverableRowAt, Zenon
        <5>2. QED
          BY <5>1
      <4>4. QED
        BY <4>2, <4>3
    <3>2. CoversWithin(left, {}, 0, l0)
      BY <1>4, <2>1, <3>1
    <3>3. QED
      BY <3>2
  <2>2. QED
    BY <2>1
<1>6. ASSUME NEW n \in Q PROVE n + 1 \in Q
  <2>1. n \in Nat
    OBVIOUS
  <2>2. SUFFICES ASSUME n + 1 <= k, NEW left \in SUBSET minterms, NEW l0 \in Int,
                        f[n + 1][left][l0], left # {} \/ l0 >= 0
                 PROVE  \E d \in SUBSET implicants : CoversWithin(left, d, n + 1, l0)
    BY <2>1
  <2>3. CASE left = {}
    <3>1. CoversWithin(left, {}, n + 1, l0)
      BY <1>4, <2>1, <2>2, <2>3
    <3>2. QED
      BY <3>1
  <2>4. CASE left # {}
    <3> DEFINE Rest(p) == {x \in left : ~Covers(p, x)}
    <3>1. PICK p \in implicants :
              /\ Covers(p, CHOOSE x \in left : TRUE) /\ LiteralCount(p) <= l0
              /\ f[n][Rest(p)][l0 - LiteralCount(p)]
      <4>1. n + 1 \in 0..k /\ n + 1 > 0 /\ (n + 1) - 1 = n
        BY <2>1, <2>2
      <4>2. CoverableRow(n + 1, f[n], minterms, implicants)[left][l0]
        BY <1>3, <2>2, <4>1
      <4>3. left = {}
            \/ \E p \in implicants :
                   /\ Covers(p, CHOOSE x \in left : TRUE) /\ LiteralCount(p) <= l0
                   /\ f[n][{x \in left : ~Covers(p, x)}][l0 - LiteralCount(p)]
        <5> HIDE DEF f
        <5>1. left \in SUBSET minterms /\ l0 \in Int
          BY <2>2
        <5>2. QED
          BY <4>2, <5>1, CoverableRowAt, ZenonT(40)
      <4>4. QED
        BY <2>4, <4>3
    <3>2. LiteralCount(p) \in Nat /\ p \in CubesOver(inputs)
      BY CubesAreFinite
    <3>3. Rest(p) \in SUBSET minterms /\ l0 - LiteralCount(p) \in Int /\ l0 - LiteralCount(p) >= 0
      BY <3>1, <3>2
    <3> DEFINE rest == Rest(p)
               l1 == l0 - LiteralCount(p)
    <3>4. PICK d \in SUBSET implicants : CoversWithin(rest, d, n, l1)
      BY <2>1, <2>2, <3>1, <3>3
    <3>5. \A m \in left : \E q \in d \cup {p} : Covers(q, m)
      BY <3>4
    <3>6. d \in SUBSET CubesOver(inputs) /\ IsFiniteSet(d) /\ Cardinality(d) \in Nat /\ Literals(d) \in Nat
      <4>1. d \in SUBSET CubesOver(inputs)
        OBVIOUS
      <4>2. QED
        BY <4>1, LiteralsType
    <3>7. /\ Cardinality(d \cup {p}) <= Cardinality(d) + 1
          /\ Literals(d \cup {p}) <= Literals(d) + LiteralCount(p)
      <4>1. CASE p \in d
        <5>1. d \cup {p} = d
          BY <4>1
        <5>2. Cardinality(d \cup {p}) = Cardinality(d) /\ Literals(d \cup {p}) = Literals(d)
          BY <5>1, Zenon
        <5>3. QED
          BY <3>2, <3>6, <5>2
      <4>2. CASE p \notin d
        <5>1. Cardinality(d \cup {p}) = Cardinality(d) + 1
          BY <3>6, <4>2, FS_AddElement
        <5>2. Literals(d \cup {p}) = Literals(d) + LiteralCount(p)
          BY <3>2, <3>6, <4>2, LiteralsOfOneMore
        <5>3. QED
          BY <3>2, <3>6, <5>1, <5>2
      <4>3. QED
        BY <4>1, <4>2
    <3>8. Cardinality(d \cup {p}) \in Nat /\ Literals(d \cup {p}) \in Nat
      <4>1. d \cup {p} \in SUBSET CubesOver(inputs)
        BY <3>2, <3>6
      <4>2. QED
        BY <4>1, LiteralsType
    <3>9. Cardinality(d \cup {p}) <= n + 1 /\ Literals(d \cup {p}) <= l0
      BY <2>1, <3>2, <3>3, <3>4, <3>6, <3>7, <3>8
    <3>10. CoversWithin(left, d \cup {p}, n + 1, l0) /\ d \cup {p} \in SUBSET implicants
      BY <3>5, <3>9
    <3>11. QED
      BY <3>10
  <2>5. QED
    BY <2>3, <2>4
<1>7. k \in Q
  <2>1. Q \in SUBSET Nat
    OBVIOUS
  <2> HIDE DEF Q
  <2>2. QED
    BY <1>5, <1>6, <2>1, NatSetInduction
<1>8. \A left \in SUBSET minterms : \A l0 \in Int :
          f[k][left][l0] /\ (left # {} \/ l0 >= 0) =>
              \E d \in SUBSET implicants : CoversWithin(left, d, k, l0)
  BY <1>7
<1>9. f[k][minterms][l] /\ minterms \in SUBSET minterms
  BY <1>1
<1>10. PICK d \in SUBSET implicants : CoversWithin(minterms, d, k, l)
  BY <1>8, <1>9
<1>11. QED
  BY <1>10

----------------------------------------------------------------------------
(* The calls that wait, as a sequence of frames, for a function of which   *)
(* some variables are lost to probing.                                     *)

\* A circuit does what is asked of it: on the inputs that have the given ones outside the
\* inputs of the call it is the function, but for don't-cares and lost variables.
Implements(c, k, inputs, ones, f, lost) ==
    \A x \in SUBSET ((0..(f.n - 1)) \ lost) :
        x \ inputs = ones /\ x \notin f.dc => (Output(Follow(c, x, k), x) <=> x \in f.on)

\* The inputs of the i-th call, and the variables the muxes above it set.
Scope(s, i, f) == IF i = 1 THEN 0..(f.n - 1) ELSE s[i - 1].rest
Ones(s, i) == IF i = 1 THEN {}
              ELSE IF s[i - 1].lo = <<>> THEN s[i - 1].fixed ELSE s[i - 1].fixed \cup {s[i - 1].var}

\* A frame splits the inputs of its call; what it leaves out is lost; its first result is
\* the first half's.
FrameOK(s, i, f, lost) ==
    /\ s[i].var \in Scope(s, i, f) /\ s[i].var \notin s[i].rest
    /\ s[i].rest \subseteq Scope(s, i, f) /\ s[i].rest \subseteq 0..(f.n - 1)
    /\ Scope(s, i, f) \ (s[i].rest \cup {s[i].var}) \subseteq lost
    /\ s[i].fixed = Ones(s, i) /\ s[i].fixed \subseteq 0..(f.n - 1)
    /\ s[i].fixed \cap Scope(s, i, f) = {}
    /\ Cardinality(s[i].rest) <= f.n - i /\ Cardinality(s[i].rest) >= LeafBudget
    /\ \A j \in 1..i : s[j].var \notin s[i].rest
    /\ s[i].lo # <<>> => Implements(s[i].lo[1], f.n - i, s[i].rest, s[i].fixed, f, lost)
Calls(s, f, lost) == s \in Seq(ToSet(s)) /\ \A i \in 1..Len(s) : FrameOK(s, i, f, lost)

LEMMA SameScope ==
    ASSUME NEW s, NEW t, NEW f, NEW i \in Int, i # 1 => t[i - 1] = s[i - 1]
    PROVE  Scope(t, i, f) = Scope(s, i, f) /\ Ones(t, i) = Ones(s, i)
BY DEF Scope, Ones

LEMMA ElementsOfSeq ==
    ASSUME NEW T, NEW s \in Seq(T)
    PROVE  s \in Seq(ToSet(s)) /\ Len(s) \in Nat
<1>1. s \in [1..Len(s) -> T] /\ Len(s) \in Nat
  OBVIOUS
<1>2. DOMAIN s = 1..Len(s) /\ s = [i \in 1..Len(s) |-> s[i]]
  BY <1>1
<1>3. \A i \in 1..Len(s) : s[i] \in ToSet(s)
  BY <1>2 DEF ToSet
<1>4. s \in [1..Len(s) -> ToSet(s)]
  BY <1>2, <1>3
<1>5. QED
  BY <1>1, <1>4

LEMMA ImplementsMore ==
    ASSUME NEW c, NEW k, NEW inputs, NEW ones, NEW f, NEW lost, NEW more, lost \subseteq more,
           Implements(c, k, inputs, ones, f, lost)
    PROVE  Implements(c, k, inputs, ones, f, more)
<1>1. SUBSET ((0..(f.n - 1)) \ more) \subseteq SUBSET ((0..(f.n - 1)) \ lost)
  OBVIOUS
<1>2. QED
  BY <1>1 DEF Implements

LEMMA CallsMore ==
    ASSUME NEW s, NEW f, NEW lost, NEW more, lost \subseteq more, Calls(s, f, lost)
    PROVE  Calls(s, f, more)
<1>1. ASSUME NEW i \in 1..Len(s) PROVE FrameOK(s, i, f, more)
  <2>1. FrameOK(s, i, f, lost)
    BY DEF Calls
  <2>2. s[i].lo # <<>> => Implements(s[i].lo[1], f.n - i, s[i].rest, s[i].fixed, f, more)
    BY <2>1, ImplementsMore DEF FrameOK
  <2>3. QED
    BY <2>1, <2>2 DEF FrameOK
<1>2. QED
  BY <1>1 DEF Calls

\* The scope of a call: as many inputs fewer as there are splits above it, and none of the
\* variables they split on.
LEMMA ScopeOfCall ==
    ASSUME NEW s, NEW f, f.n \in Nat, NEW lost, Calls(s, f, lost), NEW i \in 1..(Len(s) + 1)
    PROVE  /\ Len(s) \in Nat /\ i \in Nat
           /\ Scope(s, i, f) \subseteq 0..(f.n - 1) /\ Ones(s, i) \subseteq 0..(f.n - 1)
           /\ Scope(s, i, f) \cap Ones(s, i) = {}
           /\ IsFiniteSet(Scope(s, i, f)) /\ Cardinality(Scope(s, i, f)) \in Nat
           /\ Cardinality(Scope(s, i, f)) <= f.n - (i - 1)
           /\ \A j \in 1..(i - 1) : s[j].var \notin Scope(s, i, f)
<1>1. Len(s) \in Nat /\ i \in Nat
  <2>1. s \in Seq(ToSet(s))
    BY DEF Calls
  <2>2. Len(s) \in Nat
    BY <2>1
  <2>3. QED
    BY <2>2
<1>2. IsFiniteSet(0..(f.n - 1)) /\ Cardinality(0..(f.n - 1)) = f.n
  <2>1. f.n - 1 \in Int /\ 0 \in Int
    OBVIOUS
  <2>2. /\ IsFiniteSet(0..(f.n - 1))
        /\ Cardinality(0..(f.n - 1)) = IF 0 > f.n - 1 THEN 0 ELSE (f.n - 1) - 0 + 1
    BY <2>1, FS_Interval
  <2>3. QED
    BY <2>2
<1>3. CASE i = 1
  <2>1. Scope(s, i, f) = 0..(f.n - 1) /\ Ones(s, i) = {}
    BY <1>3 DEF Scope, Ones
  <2>2. 1..(i - 1) = {}
    BY <1>3
  <2>3. /\ IsFiniteSet(Scope(s, i, f)) /\ Cardinality(Scope(s, i, f)) = f.n
    BY <1>2, <2>1, Zenon
  <2>4. QED
    BY <1>1, <1>3, <2>1, <2>2, <2>3
<1>4. CASE i # 1
  <2> DEFINE e == s[i - 1]
  <2>1. i - 1 \in 1..Len(s)
    BY <1>1, <1>4
  <2>2. FrameOK(s, i - 1, f, lost)
    BY <2>1 DEF Calls
  <2>3. Scope(s, i, f) = e.rest /\ Ones(s, i) = IF e.lo = <<>> THEN e.fixed ELSE e.fixed \cup {e.var}
    BY <1>4 DEF Scope, Ones
  <2>4. /\ e.rest \subseteq 0..(f.n - 1) /\ e.rest \subseteq Scope(s, i - 1, f)
        /\ e.fixed \subseteq 0..(f.n - 1) /\ e.fixed \cap Scope(s, i - 1, f) = {}
        /\ e.var \notin e.rest /\ e.var \in Scope(s, i - 1, f)
        /\ Cardinality(e.rest) <= f.n - (i - 1)
        /\ \A j \in 1..(i - 1) : s[j].var \notin e.rest
    BY <2>2 DEF FrameOK
  <2>5. Scope(s, i - 1, f) \subseteq 0..(f.n - 1)
    <3>1. CASE i - 1 = 1
      BY <3>1 DEF Scope
    <3>2. CASE i - 1 # 1
      <4>1. (i - 1) - 1 \in 1..Len(s)
        BY <1>1, <2>1, <3>2
      <4>2. s[(i - 1) - 1].rest \subseteq 0..(f.n - 1)
        BY <4>1 DEF Calls, FrameOK
      <4>3. QED
        BY <3>2, <4>2 DEF Scope
    <3>3. QED
      BY <3>1, <3>2
  <2>6. IsFiniteSet(e.rest) /\ Cardinality(e.rest) \in Nat
    BY <1>2, <2>4, FS_Subset, FS_CardinalityType
  <2>7. QED
    BY <1>1, <2>3, <2>4, <2>5, <2>6
<1>5. QED
  BY <1>3, <1>4

\* A call splits: its frame is pushed.
LEMMA CallsPush ==
    ASSUME NEW s, NEW f, f.n \in Nat, NEW lost, Calls(s, f, lost), NEW e,
           e.lo = <<>>, e.fixed = Ones(s, Len(s) + 1),
           NEW v \in Scope(s, Len(s) + 1, f), e.var = v,
           NEW rest \in SUBSET Scope(s, Len(s) + 1, f), e.rest = rest, v \notin rest,
           Cardinality(rest) >= LeafBudget,
           NEW more, lost \subseteq more,
           Scope(s, Len(s) + 1, f) \ (rest \cup {v}) \subseteq more
    PROVE  Calls(Append(s, e), f, more)
<1> DEFINE t == Append(s, e)
           n == Len(s) + 1
<1>1. s \in Seq(ToSet(s)) /\ Len(s) \in Nat
  <2>1. s \in Seq(ToSet(s))
    BY DEF Calls
  <2>2. QED
    BY <2>1
<1>2. /\ t \in Seq(ToSet(s) \cup {e}) /\ Len(t) = n /\ t[n] = e
      /\ \A i \in 1..Len(s) : t[i] = s[i]
  BY <1>1
<1>3. t \in Seq(ToSet(t))
  <2> HIDE DEF t
  <2>1. QED
    BY <1>2, ElementsOfSeq
<1> HIDE DEF t
<1>4. /\ Scope(s, n, f) \subseteq 0..(f.n - 1) /\ Ones(s, n) \subseteq 0..(f.n - 1)
      /\ Scope(s, n, f) \cap Ones(s, n) = {}
      /\ IsFiniteSet(Scope(s, n, f)) /\ Cardinality(Scope(s, n, f)) \in Nat
      /\ Cardinality(Scope(s, n, f)) <= f.n - Len(s)
      /\ \A j \in 1..Len(s) : s[j].var \notin Scope(s, n, f)
  <2>1. n \in 1..(Len(s) + 1) /\ n - 1 = Len(s)
    BY <1>1
  <2> HIDE DEF n
  <2>2. QED
    BY <1>1, <2>1, ScopeOfCall
<1>5. \A i \in 1..n : Scope(t, i, f) = Scope(s, i, f) /\ Ones(t, i) = Ones(s, i)
  <2>1. \A i \in 1..n : i # 1 => t[i - 1] = s[i - 1]
    BY <1>1, <1>2
  <2>2. QED
    BY <2>1, SameScope
<1>6. ASSUME NEW i \in 1..n PROVE FrameOK(t, i, f, more)
  <2>1. CASE i = n
    <3>1. Cardinality(rest) <= f.n - n
      <4>1. IsFiniteSet(rest) /\ Cardinality(rest) \in Nat
        BY <1>4, FS_Subset, FS_CardinalityType
      <4>2. rest \cup {v} \subseteq Scope(s, n, f) /\ Cardinality(rest \cup {v}) = Cardinality(rest) + 1
        BY <4>1, FS_AddElement
      <4>3. Cardinality(rest \cup {v}) <= Cardinality(Scope(s, n, f))
        BY <1>4, <4>2, FS_Subset
      <4>4. QED
        BY <1>1, <1>4, <4>1, <4>2, <4>3
    <3>2. t[i] = e /\ i \in 1..n /\ Scope(t, i, f) = Scope(s, n, f) /\ Ones(t, i) = Ones(s, n)
      BY <1>2, <1>5, <2>1
    <3>3. \A j \in 1..i : t[j].var \notin rest
      <4>1. SUFFICES ASSUME NEW j \in 1..i PROVE t[j].var \notin rest
        OBVIOUS
      <4>2. CASE j = n
        BY <1>2, <4>2
      <4>3. CASE j # n
        <5>1. j \in 1..Len(s)
          BY <1>1, <2>1, <4>3
        <5>2. t[j].var \notin Scope(s, n, f)
          BY <1>2, <1>4, <5>1
        <5>3. QED
          BY <5>2
      <4>4. QED
        BY <4>2, <4>3
    <3>4. rest \subseteq 0..(f.n - 1)
      BY <1>4
    <3>5. QED
      BY <1>4, <2>1, <3>1, <3>2, <3>3, <3>4 DEF FrameOK
  <2>2. CASE i # n
    <3>1. i \in 1..Len(s)
      BY <1>1, <2>2
    <3>2. FrameOK(s, i, f, more)
      BY <3>1, CallsMore DEF Calls
    <3>3. /\ t[i] = s[i] /\ Scope(t, i, f) = Scope(s, i, f) /\ Ones(t, i) = Ones(s, i)
          /\ \A j \in 1..i : t[j] = s[j]
      <4>1. \A j \in 1..i : j \in 1..Len(s)
        BY <1>1, <3>1
      <4>2. QED
        BY <1>2, <1>5, <3>1, <4>1
    <3>4. QED
      BY <3>2, <3>3 DEF FrameOK
  <2>3. QED
    BY <2>1, <2>2
<1>7. QED
  BY <1>2, <1>3, <1>6 DEF Calls, t

AfterFirstHalf(t, s, c) == t = [s EXCEPT ![Len(s)].lo = <<c>>]

\* The first half has returned: its result is kept.
LEMMA CallsOtherHalf ==
    ASSUME NEW s, NEW f, f.n \in Nat, NEW lost, Calls(s, f, lost), s # <<>>, Last(s).lo = <<>>, NEW c,
           Implements(c, f.n - Len(s), Last(s).rest, Last(s).fixed, f, lost),
           NEW t, AfterFirstHalf(t, s, c)
    PROVE  /\ Calls(t, f, lost) /\ Len(t) = Len(s)
           /\ Scope(t, Len(t) + 1, f) = Last(s).rest
           /\ Ones(t, Len(t) + 1) = Last(s).fixed \cup {Last(s).var}
<1> DEFINE n == Len(s)
           e == [s[n] EXCEPT !.lo = <<c>>]
<1>1. s \in Seq(ToSet(s)) /\ n \in Nat /\ n >= 1 /\ DOMAIN s = 1..n /\ Last(s) = s[n]
  <2>1. s \in Seq(ToSet(s))
    BY DEF Calls
  <2>2. QED
    BY <2>1 DEF Last
<1>2. /\ t \in Seq(ToSet(s) \cup {e}) /\ Len(t) = n /\ t[n] = e
      /\ \A i \in 1..n : i # n => t[i] = s[i]
  <2>1. t = [i \in 1..n |-> IF i = n THEN e ELSE s[i]]
    BY <1>1 DEF AfterFirstHalf
  <2>2. \A i \in 1..n : s[i] \in ToSet(s)
    BY <1>1
  <2> HIDE DEF e
  <2>3. t \in [1..n -> ToSet(s) \cup {e}]
    BY <2>1, <2>2
  <2>4. t \in Seq(ToSet(s) \cup {e}) /\ Len(t) = n
    BY <1>1, <2>3
  <2>5. n \in 1..n
    BY <1>1
  <2>6. t[n] = e
    BY <2>1, <2>5
  <2>7. \A i \in 1..n : i # n => t[i] = s[i]
    BY <2>1
  <2>8. QED
    BY <2>4, <2>6, <2>7
<1>3. t \in Seq(ToSet(t))
  BY <1>2, ElementsOfSeq
<1>4. FrameOK(s, n, f, lost)
  BY <1>1 DEF Calls
<1>5. /\ e.var = s[n].var /\ e.rest = s[n].rest /\ e.fixed = s[n].fixed /\ e.lo = <<c>>
      /\ e.lo[1] = c /\ e.lo # <<>>
  OBVIOUS
<1> HIDE DEF e
<1>6. \A i \in 1..n : t[i].var = s[i].var /\ t[i].rest = s[i].rest /\ t[i].fixed = s[i].fixed
  BY <1>2, <1>5
<1>7. \A i \in 1..n : Scope(t, i, f) = Scope(s, i, f) /\ Ones(t, i) = Ones(s, i)
  <2>1. \A i \in 1..n : i # 1 => t[i - 1] = s[i - 1]
    <3>1. \A i \in 1..n : i # 1 => i - 1 \in 1..n /\ i - 1 # n
      BY <1>1
    <3>2. QED
      BY <1>2, <3>1
  <2>2. ASSUME NEW i \in 1..n PROVE Scope(t, i, f) = Scope(s, i, f) /\ Ones(t, i) = Ones(s, i)
    <3>1. i \in Int /\ (i # 1 => t[i - 1] = s[i - 1])
      BY <2>1
    <3>2. QED
      BY <3>1, SameScope
  <2>3. QED
    BY <2>2
<1>8. ASSUME NEW i \in 1..n PROVE FrameOK(t, i, f, lost)
  <2>1. FrameOK(s, i, f, lost)
    BY DEF Calls
  <2>2. t[i].lo # <<>> => Implements(t[i].lo[1], f.n - i, t[i].rest, t[i].fixed, f, lost)
    <3>1. CASE i = n
      BY <1>1, <1>2, <1>5, <3>1
    <3>2. CASE i # n
      BY <1>2, <2>1, <3>2 DEF FrameOK
    <3>3. QED
      BY <3>1, <3>2
  <2>3. \A j \in 1..i : t[j].var = s[j].var
    <3>1. \A j \in 1..i : j \in 1..n
      BY <1>1
    <3>2. QED
      BY <1>6, <3>1
  <2>4. QED
    BY <1>6, <1>7, <2>1, <2>2, <2>3 DEF FrameOK
<1>9. Scope(t, n + 1, f) = s[n].rest /\ Ones(t, n + 1) = s[n].fixed \cup {s[n].var}
  <2>1. n + 1 # 1 /\ (n + 1) - 1 = n
    BY <1>1
  <2>2. QED
    BY <1>2, <1>5, <2>1 DEF Scope, Ones
<1>10. QED
  BY <1>1, <1>2, <1>3, <1>8, <1>9 DEF Calls

\* Both halves have returned: together they are what the call was asked for.
LEMMA CallsJoin ==
    ASSUME NEW s, NEW f, f.n \in Nat, NEW lost, Calls(s, f, lost), s # <<>>, Last(s).lo # <<>>,
           NEW hi, Implements(hi, f.n - Len(s), Scope(s, Len(s) + 1, f), Ones(s, Len(s) + 1), f, lost),
           NEW c,
           LET lo == Last(s).lo[1] IN
               c = IF lo.kind = "const" /\ hi = lo THEN lo ELSE Mux(Last(s).var, lo, hi)
    PROVE  /\ Calls(Front(s), f, lost) /\ Len(Front(s)) = Len(s) - 1 /\ Len(s) \in Nat
           /\ Implements(c, f.n - (Len(s) - 1), Scope(Front(s), Len(s), f), Ones(Front(s), Len(s)), f, lost)
<1> DEFINE n == Len(s)
           t == SubSeq(s, 1, Len(s) - 1)
           e == s[n]
           lo == e.lo[1]
<1>1. s \in Seq(ToSet(s)) /\ n \in Nat /\ n >= 1 /\ Last(s) = e /\ Front(s) = t
  <2>1. s \in Seq(ToSet(s))
    BY DEF Calls
  <2>2. QED
    BY <2>1 DEF Last, Front
<1>2. t \in Seq(ToSet(s)) /\ Len(t) = n - 1 /\ \A i \in 1..(n - 1) : t[i] = s[i]
  <2> HIDE DEF t
  <2>1. QED
    BY <1>1, WithoutLast DEF t
<1> HIDE DEF t
<1>3. t \in Seq(ToSet(t))
  BY <1>2, ElementsOfSeq
<1>4. \A i \in 1..n : Scope(t, i, f) = Scope(s, i, f) /\ Ones(t, i) = Ones(s, i)
  <2>1. \A i \in 1..n : i # 1 => t[i - 1] = s[i - 1]
    BY <1>1, <1>2
  <2>2. QED
    BY <2>1, SameScope
<1>5. ASSUME NEW i \in 1..(n - 1) PROVE FrameOK(t, i, f, lost)
  <2>1. i \in 1..n /\ \A j \in 1..i : j \in 1..(n - 1)
    BY <1>1
  <2>2. FrameOK(s, i, f, lost)
    BY <2>1 DEF Calls
  <2>3. t[i] = s[i] /\ \A j \in 1..i : t[j] = s[j]
    BY <1>2, <2>1
  <2>4. QED
    BY <1>4, <2>1, <2>2, <2>3 DEF FrameOK
<1>6. /\ FrameOK(s, n, f, lost)
      /\ Implements(lo, f.n - n, e.rest, e.fixed, f, lost)
      /\ Implements(hi, f.n - n, e.rest, e.fixed \cup {e.var}, f, lost)
  <2>1. FrameOK(s, n, f, lost)
    BY <1>1 DEF Calls
  <2>2. Scope(s, n + 1, f) = e.rest /\ Ones(s, n + 1) = e.fixed \cup {e.var}
    <3>1. n + 1 # 1 /\ (n + 1) - 1 = n
      BY <1>1
    <3>2. QED
      BY <1>1, <3>1 DEF Scope, Ones
  <2>3. QED
    BY <1>1, <2>1, <2>2 DEF FrameOK
<1>7. /\ e.var \in Scope(s, n, f) /\ e.var \notin e.rest /\ e.rest \subseteq Scope(s, n, f)
      /\ Scope(s, n, f) \ (e.rest \cup {e.var}) \subseteq lost
      /\ e.fixed = Ones(s, n) /\ e.fixed \cap Scope(s, n, f) = {}
      /\ f.n - n \in Nat
  <2>1. Cardinality(e.rest) \in Nat /\ Cardinality(e.rest) <= f.n - n
    <3>1. IsFiniteSet(0..(f.n - 1)) /\ e.rest \subseteq 0..(f.n - 1)
      BY <1>6, FS_Interval DEF FrameOK
    <3>2. QED
      BY <1>6, <3>1, FS_Subset, FS_CardinalityType DEF FrameOK
  <2>2. QED
    BY <1>1, <1>6, <2>1 DEF FrameOK
<1>8. ASSUME NEW x \in SUBSET ((0..(f.n - 1)) \ lost), x \ Scope(s, n, f) = e.fixed, x \notin f.dc
      PROVE  Output(Follow(c, x, f.n - (n - 1)), x) <=> x \in f.on
  <2> DEFINE k == f.n - n
  <2>1. k \in Nat /\ f.n - (n - 1) = k + 1
    BY <1>1, <1>7
  <2>2. IF e.var \in x THEN x \ e.rest = e.fixed \cup {e.var} ELSE x \ e.rest = e.fixed
    <3>1. x \cap (Scope(s, n, f) \ (e.rest \cup {e.var})) = {}
      BY <1>7
    <3>2. QED
      BY <1>7, <1>8, <3>1
  <2>3. /\ e.var \in x => (Output(Follow(hi, x, k), x) <=> x \in f.on)
        /\ e.var \notin x => (Output(Follow(lo, x, k), x) <=> x \in f.on)
    BY <1>6, <1>8, <2>2 DEF Implements
  <2>4. CASE lo.kind = "const" /\ hi = lo
    <3>1. c = lo /\ lo.kind # "mux"
      BY <1>1, <2>4
    <3>2. Follow(c, x, k + 1) = c /\ Follow(lo, x, k) = c /\ Follow(hi, x, k) = c
      <4> HIDE DEF k, lo
      <4>1. QED
        BY <2>1, <2>4, <3>1, FollowEnd
    <3>3. QED
      BY <2>1, <2>3, <3>2
  <2>5. CASE ~(lo.kind = "const" /\ hi = lo)
    <3>1. c = Mux(e.var, lo, hi)
      BY <1>1, <2>5
    <3>2. Descend(c, x) = IF e.var \in x THEN hi ELSE lo
      BY <3>1 DEF Mux, Descend
    <3>3. Follow(c, x, k + 1) = Follow(Descend(c, x), x, k)
      <4> HIDE DEF k
      <4>1. QED
        BY <2>1, FollowStep
    <3>4. QED
      BY <2>1, <2>3, <3>2, <3>3
  <2>6. QED
    BY <2>4, <2>5
<1>9. Implements(c, f.n - (n - 1), Scope(t, n, f), Ones(t, n), f, lost)
  <2>1. Scope(t, n, f) = Scope(s, n, f) /\ Ones(t, n) = e.fixed
    BY <1>1, <1>4, <1>7
  <2>2. QED
    BY <1>8, <2>1 DEF Implements
<1>10. QED
  BY <1>1, <1>2, <1>3, <1>5, <1>9 DEF Calls

----------------------------------------------------------------------------
(* The invariant of a decomposition.                                       *)

Call == Len(frames) + 1

\* What a call is given, what its leaf may leave out of that, and what it returns.
CurrentCall ==
    /\ mode = "idle" => frames = <<>> /\ fixed = {} /\ dropped = {} /\ func = NoFunction
    /\ mode = "decompose" => live = Scope(frames, Call, func) /\ fixed = Ones(frames, Call)
    /\ mode \in {"leaf", "minimize"} =>
           /\ live \subseteq Scope(frames, Call, func)
           /\ Scope(frames, Call, func) \ live \subseteq dropped
           /\ fixed = Ones(frames, Call)
           /\ Cardinality(live) <= LeafBudget
    /\ mode = "return" =>
           Implements(result, func.n - Len(frames), Scope(frames, Call, func), Ones(frames, Call), func, dropped)
    /\ mode = "done" => Implements(result, func.n, 0..(func.n - 1), {}, func, dropped)

CallTypeOK ==
    /\ mode \in {"idle", "decompose", "leaf", "minimize", "return", "done", "error"}
    /\ func.n \in Nat /\ func.order \in Seq(Nat)
    /\ mode \notin {"idle", "error"} => func.n <= MaxInputs
    /\ dropped \subseteq 0..(func.n - 1)

SearchTypeOK ==
    /\ phase \in {"idle", "merge", "essential", "visit", "loop", "done", "failed"}
    /\ \A p \in terms \cup primes \cup rows : p.value \subseteq p.mask
    /\ selected \subseteq rows /\ call \subseteq rows /\ best.selected \subseteq rows
    /\ Len(open) <= Cardinality(onSet)

\* The minimizer works on the leaf of the current call, or is at rest.
LeafCover ==
    /\ mode = "minimize" => LeafOn # {} /\ CoverInv(Slots, LeafOn, LeafDc)
    /\ mode # "minimize" => phase \in {"idle", "done"} /\ SearchTypeOK

CircuitInv ==
    /\ CallTypeOK
    /\ Calls(frames, func, dropped)
    /\ CurrentCall
    /\ LeafCover
    /\ FailsOnlyForWantOfAVariable

\* What the invariant says of the call that runs.
LEMMA CallFacts ==
    ASSUME CircuitInv
    PROVE  /\ Len(frames) \in Nat /\ func.n \in Nat
           /\ Scope(frames, Call, func) \subseteq 0..(func.n - 1)
           /\ Ones(frames, Call) \subseteq 0..(func.n - 1)
           /\ Scope(frames, Call, func) \cap Ones(frames, Call) = {}
           /\ IsFiniteSet(Scope(frames, Call, func))
           /\ Cardinality(Scope(frames, Call, func)) \in Nat
           /\ Cardinality(Scope(frames, Call, func)) <= func.n - Len(frames)
           /\ func.n - Len(frames) \in Nat
           /\ \A j \in 1..Len(frames) : frames[j].var \notin Scope(frames, Call, func)
<1>1. frames \in Seq(ToSet(frames)) /\ Calls(frames, func, dropped) /\ func.n \in Nat
  BY DEF CircuitInv, Calls, CallTypeOK
<1>2. Len(frames) \in Nat
  BY <1>1
<1>3. Call \in 1..(Len(frames) + 1) /\ Call - 1 = Len(frames)
  BY <1>2 DEF Call
<1>4. /\ Scope(frames, Call, func) \subseteq 0..(func.n - 1)
      /\ Ones(frames, Call) \subseteq 0..(func.n - 1)
      /\ Scope(frames, Call, func) \cap Ones(frames, Call) = {}
      /\ IsFiniteSet(Scope(frames, Call, func))
      /\ Cardinality(Scope(frames, Call, func)) \in Nat
      /\ Cardinality(Scope(frames, Call, func)) <= func.n - (Call - 1)
      /\ \A j \in 1..(Call - 1) : frames[j].var \notin Scope(frames, Call, func)
  BY <1>1, <1>3, ScopeOfCall
<1>5. QED
  BY <1>1, <1>2, <1>3, <1>4

\* The live inputs of a call and of its leaf.
LEMMA LiveFacts ==
    ASSUME CircuitInv, mode \in {"decompose", "leaf", "minimize"}
    PROVE  /\ live \subseteq Scope(frames, Call, func) /\ live \subseteq 0..(func.n - 1)
           /\ live \in SUBSET Nat /\ fixed \subseteq 0..(func.n - 1) /\ fixed = Ones(frames, Call)
           /\ live \cap fixed = {} /\ IsFiniteSet(live) /\ Cardinality(live) \in Nat
           /\ Scope(frames, Call, func) \ live \subseteq dropped
<1>1. /\ live \subseteq Scope(frames, Call, func) /\ fixed = Ones(frames, Call)
      /\ Scope(frames, Call, func) \ live \subseteq dropped
  BY DEF CircuitInv, CurrentCall
<1>3. IsFiniteSet(live) /\ Cardinality(live) \in Nat /\ Cardinality(live) <= Cardinality(Scope(frames, Call, func))
  BY <1>1, CallFacts, FS_Subset, FS_CardinalityType
<1>4. QED
  BY <1>1, <1>3, CallFacts

LEMMA EssentialIsLive ==
    ASSUME live \in SUBSET Nat, live # {}
    PROVE  Essential \subseteq live
<1>1. Min(live) \in live
  BY MinProperty
<1>2. QED
  BY <1>1 DEF Essential

LEMMA WideIsNotEmpty ==
    ASSUME Cardinality(live) > LeafBudget
    PROVE  live # {}
BY FS_EmptySet, BoundAssumption

\* decompose begins.
LEMMA DecomposeStep ==
    ASSUME CircuitInv, NEW f \in Functions, Decompose(f)
    PROVE  CircuitInv'
<1>1. /\ mode = "idle" /\ func' = f /\ live' = 0..(f.n - 1)
      /\ mode' = (IF f.n > MaxInputs THEN "error" ELSE "decompose")
      /\ UNCHANGED <<phase, onSet, terms, primes, rows, selected, call, open, best>>
      /\ UNCHANGED <<fixed, frames, result, dropped>>
  BY DEF Decompose, coverVars
<1>2. frames = <<>> /\ fixed = {} /\ dropped = {} /\ phase \in {"idle", "done"}
  BY <1>1 DEF CircuitInv, CurrentCall, LeafCover
<1>3. f.n \in Nat /\ f.order \in Seq(Nat)
  BY FunctionAssumption
<1>4. CallTypeOK'
  BY <1>1, <1>2, <1>3, BoundAssumption DEF CallTypeOK
<1>5. Calls(frames, func, dropped)'
  <2>1. Len(<<>>) = 0 /\ 1..0 = {}
    OBVIOUS
  <2>2. <<>> \in Seq(ToSet(<<>>))
    BY ElementsOfSeq
  <2>3. Calls(<<>>, f, {})
    BY <2>1, <2>2 DEF Calls
  <2>4. QED
    BY <1>1, <1>2, <2>3
<1>6. CurrentCall'
  <2>1. Len(frames') + 1 = 1 /\ frames' = <<>> /\ fixed' = {}
    BY <1>1, <1>2
  <2>2. Scope(<<>>, 1, f) = 0..(f.n - 1) /\ Ones(<<>>, 1) = {}
    BY DEF Scope, Ones
  <2>3. QED
    BY <1>1, <2>1, <2>2 DEF CurrentCall, Call
<1>7. LeafCover'
  BY <1>1, <1>2 DEF CircuitInv, SearchTypeOK, LeafCover
<1>8. FailsOnlyForWantOfAVariable'
  BY <1>1 DEF FailsOnlyForWantOfAVariable
<1>9. QED
  BY <1>4, <1>5, <1>6, <1>7, <1>8 DEF CircuitInv

LEMMA GoToLeafStep ==
    ASSUME CircuitInv, GoToLeaf
    PROVE  CircuitInv'
<1>1. /\ mode = "decompose" /\ ~TooWide /\ mode' = "leaf"
      /\ live' = (IF Cardinality(live) <= LeafBudget THEN live ELSE Essential)
      /\ dropped' = dropped \cup (live \ live')
      /\ UNCHANGED <<phase, onSet, terms, primes, rows, selected, call, open, best>>
      /\ UNCHANGED <<func, fixed, frames, result>>
  BY DEF GoToLeaf, coverVars
<1>2. /\ live = Scope(frames, Call, func) /\ fixed = Ones(frames, Call)
      /\ live \in SUBSET Nat /\ live \subseteq 0..(func.n - 1) /\ Cardinality(live) \in Nat
  BY <1>1, LiveFacts DEF CircuitInv, CurrentCall
<1>3. live' \subseteq live
  <2>1. CASE Cardinality(live) <= LeafBudget
    BY <1>1, <2>1
  <2>2. CASE ~(Cardinality(live) <= LeafBudget)
    <3>1. live # {}
      BY <1>2, <2>2, WideIsNotEmpty, BoundAssumption
    <3>2. QED
      BY <1>1, <1>2, <2>2, <3>1, EssentialIsLive
  <2>3. QED
    BY <2>1, <2>2
<1>4. CallTypeOK'
  BY <1>1, <1>2 DEF CircuitInv, CallTypeOK
<1>5. Calls(frames, func, dropped)'
  <2>1. Calls(frames, func, dropped')
    BY <1>1, CallsMore DEF CircuitInv
  <2>2. QED
    BY <1>1, <2>1
<1>6. CurrentCall'
  <2>1. Call' = Call
    BY <1>1 DEF Call
  <2>2. /\ Scope(frames, Call, func)' = Scope(frames, Call, func)
        /\ Ones(frames, Call)' = Ones(frames, Call)
    BY <1>1, <2>1
  <2>3. Cardinality(live') <= LeafBudget
    <3>1. Cardinality(live) <= LeafBudget \/ Cardinality(Essential) <= LeafBudget
      <4>1. IsFiniteSet(live) /\ Cardinality(live) \in Nat /\ LeafBudget \in Nat
        BY <1>1, LiveFacts, BoundAssumption
      <4>2. CASE live = {}
        BY <4>1, <4>2, FS_EmptySet
      <4>3. CASE live # {}
        <5>1. Cardinality(Essential) \in Nat
          BY <1>2, <4>1, <4>3, EssentialIsLive, FS_Subset, FS_CardinalityType
        <5>2. QED
          BY <1>1, <4>1, <5>1 DEF TooWide
      <4>4. QED
        BY <4>2, <4>3
    <3>2. QED
      BY <1>1, <3>1
  <2>4. QED
    BY <1>1, <1>2, <1>3, <2>2, <2>3 DEF CurrentCall
<1>7. LeafCover'
  BY <1>1 DEF CircuitInv, SearchTypeOK, LeafCover
<1>8. FailsOnlyForWantOfAVariable'
  BY <1>1 DEF FailsOnlyForWantOfAVariable
<1>9. QED
  BY <1>4, <1>5, <1>6, <1>7, <1>8 DEF CircuitInv

LEMMA SplitStep ==
    ASSUME CircuitInv, Split
    PROVE  CircuitInv'
<1>1. PICK v \in SplitVariable :
          /\ frames' = Append(frames, [var |-> v, fixed |-> fixed, rest |-> Essential \ {v}, lo |-> <<>>])
          /\ live' = Essential \ {v}
          /\ fixed' = fixed \ {v}
  BY DEF Split
<1> DEFINE e == [var |-> v, fixed |-> fixed, rest |-> Essential \ {v}, lo |-> <<>>]
<1>2. /\ mode = "decompose" /\ TooWide /\ mode' = "decompose"
      /\ dropped' = dropped \cup (live \ Essential)
      /\ UNCHANGED <<phase, onSet, terms, primes, rows, selected, call, open, best>>
      /\ UNCHANGED <<func, result>>
  BY DEF Split, coverVars
<1>3. /\ live = Scope(frames, Call, func) /\ fixed = Ones(frames, Call) /\ live \cap fixed = {}
      /\ live \in SUBSET Nat /\ live \subseteq 0..(func.n - 1) /\ IsFiniteSet(live)
      /\ Cardinality(live) \in Nat
  BY <1>2, LiveFacts DEF CircuitInv, CurrentCall
<1>4. Essential \subseteq live /\ v \in Essential
  <2>1. live # {}
    BY <1>2, WideIsNotEmpty DEF TooWide
  <2>2. QED
    BY <1>3, <2>1, EssentialIsLive DEF SplitVariable
<1>5. IsFiniteSet(Essential) /\ Cardinality(Essential) \in Nat /\ Cardinality(Essential) > LeafBudget
  BY <1>2, <1>3, <1>4, FS_Subset, FS_CardinalityType DEF TooWide
<1>6. Cardinality(Essential \ {v}) >= LeafBudget
  <2>1. Cardinality(Essential \ {v}) = Cardinality(Essential) - 1
    BY <1>4, <1>5, FS_RemoveElement
  <2>2. QED
    BY <1>5, <2>1, BoundAssumption
<1>7. fixed \ {v} = fixed
  BY <1>3, <1>4
<1>8. Calls(frames', func, dropped') /\ Len(frames') = Call
      /\ Scope(frames', Call + 1, func) = Essential \ {v} /\ Ones(frames', Call + 1) = fixed
  <2>1. e.lo = <<>> /\ e.fixed = fixed /\ e.var = v /\ e.rest = Essential \ {v}
    OBVIOUS
  <2> HIDE DEF e
  <2>2. /\ Calls(frames, func, dropped) /\ func.n \in Nat
        /\ fixed = Ones(frames, Len(frames) + 1)
        /\ v \in Scope(frames, Len(frames) + 1, func)
        /\ Essential \ {v} \in SUBSET Scope(frames, Len(frames) + 1, func) /\ v \notin Essential \ {v}
        /\ dropped \subseteq dropped'
        /\ Scope(frames, Len(frames) + 1, func) \ ((Essential \ {v}) \cup {v}) \subseteq dropped'
    BY <1>2, <1>3, <1>4 DEF CircuitInv, CallTypeOK, Call
  <2>3. Calls(Append(frames, e), func, dropped')
    BY <1>6, <2>1, <2>2, CallsPush
  <2>4. frames' = Append(frames, e)
    BY <1>1 DEF e
  <2>5. frames \in Seq(ToSet(frames))
    BY DEF CircuitInv, Calls
  <2>6. Len(frames') = Len(frames) + 1 /\ frames'[Len(frames) + 1] = e /\ Len(frames) \in Nat
    BY <2>4, <2>5
  <2>7. Call + 1 # 1 /\ (Call + 1) - 1 = Call /\ frames'[Call] = e
    BY <2>6 DEF Call
  <2>8. Scope(frames', Call + 1, func) = Essential \ {v} /\ Ones(frames', Call + 1) = fixed
    BY <2>1, <2>7 DEF Scope, Ones
  <2>9. QED
    BY <2>3, <2>4, <2>6, <2>8 DEF Call
<1>9. CurrentCall'
  <2>1. Call' = Call + 1
    BY <1>8 DEF Call
  <2>2. QED
    BY <1>1, <1>2, <1>7, <1>8, <2>1 DEF CurrentCall
<1>10. CallTypeOK'
  BY <1>2, <1>3 DEF CircuitInv, CallTypeOK
<1>11. LeafCover'
  BY <1>2 DEF CircuitInv, SearchTypeOK, LeafCover
<1>12. FailsOnlyForWantOfAVariable'
  BY <1>2 DEF FailsOnlyForWantOfAVariable
<1>13. QED
  BY <1>2, <1>8, <1>9, <1>10, <1>11, <1>12 DEF CircuitInv

\* No variable of the order is essential: the essential ones are all missing from it.
LEMMA OrderExhaustedStep ==
    ASSUME CircuitInv, OrderExhausted
    PROVE  CircuitInv'
<1>1. /\ mode = "decompose" /\ TooWide /\ SplitVariable = {} /\ mode' = "error"
      /\ UNCHANGED <<phase, onSet, terms, primes, rows, selected, call, open, best>>
      /\ UNCHANGED <<func, live, fixed, frames, result, dropped>>
  BY DEF OrderExhausted, coverVars
<1>2. live \in SUBSET Nat /\ live \subseteq 0..(func.n - 1) /\ live # {}
  BY <1>1, LiveFacts, WideIsNotEmpty DEF TooWide
<1>3. func.order \in Seq(Nat) /\ func.n \in Nat
  BY DEF CircuitInv, CallTypeOK
<1>4. ASSUME NEW v \in Essential PROVE v \notin ToSet(func.order)
  <2>1. SUFFICES ASSUME v \in ToSet(func.order) PROVE FALSE
    OBVIOUS
  <2> DEFINE hits == {i \in DOMAIN func.order : func.order[i] \in Essential}
  <2>2. DOMAIN func.order \subseteq Nat /\ DOMAIN func.order = 1..Len(func.order) /\ Len(func.order) \in Nat
    BY <1>3
  <2>3. hits \in SUBSET Nat /\ hits # {}
    BY <2>1, <2>2 DEF ToSet
  <2>4. PICK i \in hits : \A j \in hits : i <= j
    <3> HIDE DEF hits
    <3>1. QED
      BY <2>3, LeastNat
  <2>5. \A j \in 1..(i - 1) : func.order[j] \notin Essential
    BY <2>2, <2>4
  <2>6. func.order[i] \in SplitVariable
    BY <2>4, <2>5 DEF SplitVariable
  <2>7. QED
    BY <1>1, <2>6
<1>5. Cardinality((0..(func.n - 1)) \ ToSet(func.order)) > LeafBudget
  <2> DEFINE missing == (0..(func.n - 1)) \ ToSet(func.order)
  <2>1. Essential \subseteq missing
    BY <1>2, <1>4, EssentialIsLive
  <2>2. IsFiniteSet(missing)
    <3>1. func.n - 1 \in Int /\ 0 \in Int
      BY <1>3
    <3>2. IsFiniteSet(0..(func.n - 1))
      BY <3>1, FS_Interval
    <3>3. missing \subseteq 0..(func.n - 1)
      OBVIOUS
    <3> HIDE DEF missing
    <3>4. QED
      BY <3>2, <3>3, FS_Subset
  <2> HIDE DEF missing
  <2>3. Cardinality(Essential) <= Cardinality(missing) /\ Cardinality(Essential) \in Nat
        /\ Cardinality(missing) \in Nat
    BY <2>1, <2>2, FS_Subset, FS_CardinalityType
  <2>4. QED
    BY <1>1, <2>3, BoundAssumption DEF TooWide, missing
<1>6. FailsOnlyForWantOfAVariable'
  BY <1>1, <1>5 DEF FailsOnlyForWantOfAVariable
<1>7. CallTypeOK' /\ CurrentCall' /\ LeafCover' /\ Calls(frames, func, dropped)'
  BY <1>1 DEF CircuitInv, CallTypeOK, CurrentCall, SearchTypeOK, LeafCover
<1>8. QED
  BY <1>6, <1>7 DEF CircuitInv

----------------------------------------------------------------------------
(* Leaves.                                                                 *)

\* An input of the call is an input of its leaf; what the leaf's ON-set and don't-cares
\* say of that is what the function says of it.
LEMMA LeafInputs ==
    ASSUME CircuitInv, mode \in {"leaf", "minimize"},
           NEW x \in SUBSET (0..(func.n - 1)), x \ live = fixed, x \notin func.dc
    PROVE  /\ Packed(live, x) \in SUBSET Slots
           /\ Packed(live, x) \notin LeafDc
           /\ Packed(live, x) \in LeafOn <=> x \in func.on
<1> DEFINE packed == Packed(live, x)
<1>1. live \in SUBSET Nat /\ IsFiniteSet(live) /\ live \cap fixed = {}
  BY LiveFacts
<1>2. packed \in SUBSET Slots /\ Unpacked(live, packed) = live \cap x
  BY <1>1, UnpackedPacked DEF Slots
<1>3. LeafInput(packed) = x
  <2>1. fixed \cup (live \cap x) = x
    BY <1>1
  <2>2. LeafInput(packed) = fixed \cup (live \cap x)
    BY <1>2 DEF LeafInput
  <2>3. QED
    BY <2>1, <2>2
<1> HIDE DEF packed
<1>4. packed \notin LeafDc /\ (packed \in LeafOn <=> x \in func.on)
  BY <1>2, <1>3 DEF LeafDc, LeafOn
<1>5. QED
  BY <1>2, <1>4 DEF packed

\* A circuit that is no mux and right on the inputs of the leaf is right for the call.
LEMMA LeafImplements ==
    ASSUME CircuitInv, mode \in {"leaf", "minimize"}, NEW c, c.kind # "mux",
           \A x \in SUBSET (0..(func.n - 1)) :
               x \ live = fixed /\ x \notin func.dc => (Output(c, x) <=> x \in func.on)
    PROVE  Implements(c, func.n - Len(frames), Scope(frames, Call, func), Ones(frames, Call), func, dropped)
<1>1. func.n - Len(frames) \in Nat
  BY CallFacts
<1>2. /\ live \subseteq Scope(frames, Call, func) /\ fixed = Ones(frames, Call)
      /\ Scope(frames, Call, func) \ live \subseteq dropped
  BY LiveFacts
<1>3. ASSUME NEW x \in SUBSET ((0..(func.n - 1)) \ dropped),
             x \ Scope(frames, Call, func) = fixed, x \notin func.dc
      PROVE  Output(Follow(c, x, func.n - Len(frames)), x) <=> x \in func.on
  <2>1. x \ live = fixed
    BY <1>2, <1>3
  <2>2. Follow(c, x, func.n - Len(frames)) = c
    BY <1>1, FollowEnd
  <2>3. QED
    BY <1>3, <2>1, <2>2
<1>4. QED
  BY <1>2, <1>3 DEF Implements

\* The leaf of a call ends: what is left is the circuit it returns.
LEMMA LeafReturns ==
    ASSUME CircuitInv, mode \in {"leaf", "minimize"}, mode' = "return",
           phase \in {"idle", "done"}, SearchTypeOK,
           UNCHANGED <<phase, onSet, terms, primes, rows, selected, call, open, best>>,
           UNCHANGED <<func, live, fixed, frames, dropped>>,
           result'.kind # "mux",
           \A x \in SUBSET (0..(func.n - 1)) :
               x \ live = fixed /\ x \notin func.dc => (Output(result', x) <=> x \in func.on)
    PROVE  CircuitInv'
<1>1. Implements(result', func.n - Len(frames), Scope(frames, Call, func), Ones(frames, Call), func, dropped)
  BY LeafImplements
<1>2. Call' = Call
  BY DEF Call
<1>3. CurrentCall'
  BY <1>1, <1>2 DEF CurrentCall
<1>4. CallTypeOK' /\ LeafCover' /\ Calls(frames, func, dropped)'
  BY DEF CircuitInv, CallTypeOK, SearchTypeOK, LeafCover
<1>5. FailsOnlyForWantOfAVariable'
  BY DEF FailsOnlyForWantOfAVariable
<1>6. QED
  BY <1>3, <1>4, <1>5 DEF CircuitInv

LEMMA ConstantLeafStep ==
    ASSUME CircuitInv, ConstantLeaf
    PROVE  CircuitInv'
<1>1. /\ mode = "leaf" /\ (live = {} \/ LeafIsFalse \/ LeafIsTrue) /\ mode' = "return"
      /\ result' = Const(IF live = {} THEN fixed \in func.on ELSE ~LeafIsFalse)
      /\ UNCHANGED <<phase, onSet, terms, primes, rows, selected, call, open, best>>
      /\ UNCHANGED <<func, live, fixed, frames, dropped>>
  BY DEF ConstantLeaf, coverVars
<1> DEFINE value == IF live = {} THEN fixed \in func.on ELSE ~LeafIsFalse
<1>2. ASSUME NEW x \in SUBSET (0..(func.n - 1)), x \ live = fixed, x \notin func.dc
      PROVE  value <=> x \in func.on
  <2>1. CASE live = {}
    BY <1>2, <2>1
  <2>2. CASE live # {}
    <3>1. /\ Packed(live, x) \in SUBSET Slots /\ Packed(live, x) \notin LeafDc
          /\ Packed(live, x) \in LeafOn <=> x \in func.on
      BY <1>1, <1>2, LeafInputs
    <3>2. QED
      BY <1>1, <2>2, <3>1 DEF LeafIsFalse, LeafIsTrue
  <2>3. QED
    BY <2>1, <2>2
<1>3. result'.kind = "const" /\ (result'.value <=> value)
  BY <1>1 DEF Const
<1>4. \A x \in SUBSET (0..(func.n - 1)) :
          x \ live = fixed /\ x \notin func.dc => (Output(result', x) <=> x \in func.on)
  <2> HIDE DEF value
  <2>1. QED
    BY <1>2, <1>3 DEF Output
<1>5. phase \in {"idle", "done"} /\ SearchTypeOK /\ result'.kind # "mux"
  BY <1>1, <1>3 DEF CircuitInv, LeafCover
<1>6. QED
  BY <1>1, <1>4, <1>5, LeafReturns

\* The minimizer is given a problem of at most 2^16 minterms.
LEMMA LeafIsAProblem ==
    ASSUME CircuitInv, mode \in {"leaf", "minimize"}
    PROVE  Problem(Slots, LeafOn, LeafDc)
<1>1. Cardinality(live) \in 0..16
  <2>1. Cardinality(live) \in Nat
    BY LiveFacts
  <2>2. CurrentCall
    BY DEF CircuitInv
  <2>3. Cardinality(live) <= LeafBudget
    BY <2>2, Zenon DEF CurrentCall
  <2>4. LeafBudget \in 1..16
    BY BoundAssumption
  <2> QED
    BY <2>1, <2>3, <2>4
<1> DEFINE c == Cardinality(live)
<1>2. Slots = 0..(c - 1) /\ IsFiniteSet(Slots) /\ Cardinality(Slots) = c
  <2>1. c - 1 \in Int /\ 0 \in Int
    BY <1>1
  <2>2. IsFiniteSet(0..(c - 1)) /\ Cardinality(0..(c - 1)) = IF 0 > c - 1 THEN 0 ELSE (c - 1) - 0 + 1
    <3> HIDE DEF c
    <3>1. QED
      BY <2>1, FS_Interval
  <2>3. IsFiniteSet(0..(c - 1)) /\ Cardinality(0..(c - 1)) = c
    BY <1>1, <2>2
  <2>4. QED
    BY <2>3, Zenon DEF Slots
<1>3. LeafOn \subseteq SUBSET Slots /\ LeafDc \subseteq SUBSET Slots
  BY DEF LeafOn, LeafDc
<1>4. IsFiniteSet(SUBSET Slots) /\ Cardinality(SUBSET Slots) = 2 ^ c
  BY <1>2, FS_SUBSET
<1>5. 2 ^ c \in Nat /\ 2 ^ c <= 65536
  <2>1. c \in {0, 1, 2, 3, 4, 5, 6, 7, 8, 9, 10, 11, 12, 13, 14, 15, 16}
    BY <1>1
  <2> HIDE DEF c
  <2>2. CASE c = 0
    BY <2>2
  <2>3. CASE c = 1
    BY <2>3
  <2>4. CASE c = 2
    BY <2>4
  <2>5. CASE c = 3
    BY <2>5
  <2>6. CASE c = 4
    BY <2>6
  <2>7. CASE c = 5
    BY <2>7
  <2>8. CASE c = 6
    BY <2>8
  <2>9. CASE c = 7
    BY <2>9
  <2>10. CASE c = 8
    BY <2>10
  <2>11. CASE c = 9
    BY <2>11
  <2>12. CASE c = 10
    BY <2>12
  <2>13. CASE c = 11
    BY <2>13
  <2>14. CASE c = 12
    BY <2>14
  <2>15. CASE c = 13
    BY <2>15
  <2>16. CASE c = 14
    BY <2>16
  <2>17. CASE c = 15
    BY <2>17
  <2>18. CASE c = 16
    BY <2>18
  <2>19. QED
    BY <2>1, <2>2, <2>3, <2>4, <2>5, <2>6, <2>7, <2>8, <2>9, <2>10,
       <2>11, <2>12, <2>13, <2>14, <2>15, <2>16, <2>17, <2>18
<1>6. Cardinality(LeafOn) <= Cardinality(SUBSET Slots) /\ Cardinality(LeafOn) \in Nat
  BY <1>3, <1>4, FS_Subset, FS_CardinalityType
<1>7. Cardinality(LeafOn) <= 65536
  <2> HIDE DEF c
  <2>1. QED
    BY <1>4, <1>5, <1>6
<1>8. Cardinality(LeafOn) < Unbounded
  BY <1>6, <1>7, UnboundedIsLarge
<1>9. QED
  BY <1>2, <1>3, <1>8 DEF Problem

\* What CoverInv says of the types of the search.
LEMMA CoverIsTyped ==
    ASSUME NEW inputs, NEW on, NEW dc, Problem(inputs, on, dc), CoverInv(inputs, on, dc)
    PROVE  SearchTypeOK
<1>1. CoverTypeOK(inputs, on, dc) /\ DepthInv /\ IsFiniteSet(inputs)
  BY DEF CoverInv, Problem
<1>2. /\ Board(inputs) /\ IsFiniteSet(on) /\ Cardinality(on) \in Nat
      /\ \A sel \in SUBSET rows : Cardinality(sel) \in Nat
      /\ onSet = on /\ rows \subseteq primes /\ open \in Seq(Frames) /\ call \in SUBSET rows
  BY <1>1, CoverBoard DEF CoverTypeOK
<1>3. \A p \in terms \cup primes \cup rows : p.value \subseteq p.mask
  <2>1. terms \cup primes \cup rows \subseteq CubesOver(inputs)
    BY <1>1 DEF CoverTypeOK, ImplicantsOf
  <2>2. QED
    BY <2>1 DEF CubesOver
<1>4. best.selected \subseteq rows
  BY <1>1 DEF CoverTypeOK, NoCover, IsCover
<1>5. Len(open) <= Cardinality(onSet)
  <2>1. Len(open) \in Nat
    BY <1>2
  <2>2. CASE Len(open) = 0
    BY <1>2, <2>2
  <2>3. CASE Len(open) > 0
    <3> DEFINE i == Len(open)
               sel == open[i].selected
    <3>1. i \in 1..Len(open)
      BY <2>1, <2>3
    <3>2. Reaches(sel, i - 1) /\ Uncovered(sel) # {}
      BY <1>1, <3>1 DEF DepthInv
    <3>3. sel \in SUBSET rows
      <4>1. open[i] \in Frames
        BY <1>2, <3>1
      <4>2. QED
        BY <4>1 DEF Frames
    <3> HIDE DEF sel
    <3>4. Cardinality(sel) \in Nat /\ IsFiniteSet(Uncovered(sel)) /\ Cardinality(Uncovered(sel)) \in Nat
      BY <1>2, <3>3, ColumnCounts
    <3>5. Cardinality(Uncovered(sel)) # 0
      BY <3>2, <3>4, FS_EmptySet
    <3>6. QED
      BY <1>2, <2>1, <3>2, <3>4, <3>5 DEF Reaches
  <2>4. QED
    BY <2>1, <2>2, <2>3
<1>6. QED
  BY <1>1, <1>3, <1>4, <1>5 DEF SearchTypeOK, CoverTypeOK

LEMMA MinimizeLeafStep ==
    ASSUME CircuitInv, MinimizeLeaf
    PROVE  CircuitInv'
<1>1. /\ mode = "leaf" /\ ~LeafIsFalse /\ Minimize(Slots, LeafOn, LeafDc) /\ mode' = "minimize"
      /\ UNCHANGED <<func, live, fixed, frames, result, dropped>>
  BY DEF MinimizeLeaf
<1>2. PICK i, o, d : i = Slots /\ o = LeafOn /\ d = LeafDc
  OBVIOUS
<1>3. i = Slots' /\ o = LeafOn' /\ d = LeafDc'
  BY <1>1, <1>2 DEF Slots, LeafOn, LeafDc, LeafInput
<1>4. Problem(i, o, d) /\ Minimize(i, o, d) /\ o # {}
  BY <1>1, <1>2, LeafIsAProblem DEF LeafIsFalse
<1>5. CoverInv(i, o, d)'
  BY <1>4, MinimizeInv
<1>6. LeafCover'
  BY <1>1, <1>3, <1>4, <1>5 DEF LeafCover
<1>7. Call' = Call
  BY <1>1 DEF Call
<1>8. CurrentCall'
  BY <1>1, <1>7 DEF CircuitInv, CurrentCall
<1>9. CallTypeOK' /\ Calls(frames, func, dropped)' /\ FailsOnlyForWantOfAVariable'
  BY <1>1 DEF CircuitInv, CallTypeOK, FailsOnlyForWantOfAVariable
<1>10. QED
  BY <1>6, <1>8, <1>9 DEF CircuitInv

LEMMA MinimizeStepStep ==
    ASSUME CircuitInv, MinimizeStep
    PROVE  CircuitInv'
<1>1. /\ mode = "minimize" /\ CoverStep
      /\ UNCHANGED <<mode, func, live, fixed, frames, result, dropped>>
  BY DEF MinimizeStep, ownVars
<1>2. PICK i, o, d : i = Slots /\ o = LeafOn /\ d = LeafDc
  OBVIOUS
<1>3. i = Slots' /\ o = LeafOn' /\ d = LeafDc'
  BY <1>1, <1>2 DEF Slots, LeafOn, LeafDc, LeafInput
<1>4. Problem(i, o, d) /\ CoverInv(i, o, d) /\ o # {}
  BY <1>1, <1>2, LeafIsAProblem DEF CircuitInv, LeafCover
<1>5. CoverInv(i, o, d)'
  BY <1>1, <1>4, CoverStepInv
<1>6. LeafCover'
  BY <1>1, <1>3, <1>4, <1>5 DEF LeafCover
<1>7. Call' = Call
  BY <1>1 DEF Call
<1>8. CurrentCall'
  BY <1>1, <1>7 DEF CircuitInv, CurrentCall
<1>9. CallTypeOK' /\ Calls(frames, func, dropped)' /\ FailsOnlyForWantOfAVariable'
  BY <1>1 DEF CircuitInv, CallTypeOK, FailsOnlyForWantOfAVariable
<1>10. QED
  BY <1>6, <1>8, <1>9 DEF CircuitInv

\* The cover of a leaf is true on its ON-set and false outside it and the don't-cares.
LEMMA LeafDoneStep ==
    ASSUME CircuitInv, LeafDone
    PROVE  CircuitInv'
<1>1. /\ mode = "minimize" /\ phase \in {"done", "failed"}
      /\ UNCHANGED <<phase, onSet, terms, primes, rows, selected, call, open, best>>
      /\ UNCHANGED <<func, live, fixed, frames, dropped>>
  BY DEF LeafDone, coverVars
<1>2. PICK i, o, d : i = Slots /\ o = LeafOn /\ d = LeafDc
  OBVIOUS
<1>3. Problem(i, o, d) /\ CoverInv(i, o, d)
  BY <1>1, <1>2, LeafIsAProblem DEF CircuitInv, LeafCover
<1>4. phase = "done"
  BY <1>1, <1>3 DEF CoverInv, CoverTypeOK
<1>5. mode' = "return" /\ result' = Leaf(live, best.selected)
  BY <1>4 DEF LeafDone
<1>6. /\ best.selected \in SUBSET ImplicantsOf(i, o \cup d)
      /\ \A m \in o : \E p \in best.selected : Covers(p, m)
  BY <1>3, <1>4, DoneIsMinimum
<1>7. ASSUME NEW x \in SUBSET (0..(func.n - 1)), x \ live = fixed, x \notin func.dc
      PROVE  Output(result', x) <=> x \in func.on
  <2>1. /\ result'.kind = "leaf" /\ result'.inputs = live /\ result'.cover = best.selected
    BY <1>5 DEF Leaf
  <2>2. Output(result', x) <=> \E p \in best.selected : Covers(p, Packed(live, x))
    BY <2>1 DEF Output
  <2>3. /\ Packed(live, x) \in SUBSET i /\ Packed(live, x) \notin d
        /\ Packed(live, x) \in o <=> x \in func.on
    BY <1>1, <1>2, <1>7, LeafInputs
  <2>4. \A p \in best.selected : Covers(p, Packed(live, x)) => Packed(live, x) \in o \cup d
    BY <1>6, <2>3 DEF ImplicantsOf
  <2>5. QED
    BY <1>6, <2>2, <2>3, <2>4
<1>8. SearchTypeOK
  BY <1>3, CoverIsTyped
<1>9. result'.kind # "mux"
  BY <1>5 DEF Leaf
<1>10. QED
  BY <1>1, <1>4, <1>5, <1>7, <1>8, <1>9, LeafReturns

----------------------------------------------------------------------------
(* Returns.                                                                *)

LEMMA OtherHalfStep ==
    ASSUME CircuitInv, OtherHalf
    PROVE  CircuitInv'
<1> DEFINE frame == Last(frames)
<1>1. /\ mode = "return" /\ frames # <<>> /\ frame.lo = <<>> /\ mode' = "decompose"
      /\ frames' = [frames EXCEPT ![Len(frames)].lo = <<result>>]
      /\ live' = frame.rest /\ fixed' = frame.fixed \cup {frame.var}
      /\ UNCHANGED <<phase, onSet, terms, primes, rows, selected, call, open, best>>
      /\ UNCHANGED <<func, result, dropped>>
  BY DEF OtherHalf, coverVars
<1>2. frames \in Seq(ToSet(frames)) /\ Calls(frames, func, dropped) /\ func.n \in Nat
  BY DEF CircuitInv, Calls, CallTypeOK
<1>3. Len(frames) \in Nat /\ frame = frames[Len(frames)] /\ Len(frames) # 0
  BY <1>1, <1>2 DEF Last
<1>4. Call # 1 /\ Call - 1 = Len(frames)
  BY <1>3 DEF Call
<1>5. Scope(frames, Call, func) = frame.rest /\ Ones(frames, Call) = frame.fixed
  BY <1>1, <1>3, <1>4 DEF Scope, Ones
<1>6. Implements(result, func.n - Len(frames), frame.rest, frame.fixed, func, dropped)
  BY <1>1, <1>5 DEF CircuitInv, CurrentCall
<1>7. AfterFirstHalf(frames', frames, result)
  BY <1>1 DEF AfterFirstHalf
<1>8. /\ Calls(frames', func, dropped) /\ Len(frames') = Len(frames)
      /\ Scope(frames', Len(frames') + 1, func) = frame.rest
      /\ Ones(frames', Len(frames') + 1) = frame.fixed \cup {frame.var}
  <2>1. frames # <<>> /\ Last(frames).lo = <<>>
    BY <1>1
  <2>2. Implements(result, func.n - Len(frames), Last(frames).rest, Last(frames).fixed, func, dropped)
    BY <1>6
  <2>3. QED
    BY <1>2, <1>7, <2>1, <2>2, CallsOtherHalf
<1>9. CurrentCall'
  BY <1>1, <1>8 DEF CurrentCall, Call
<1>10. CallTypeOK' /\ LeafCover' /\ FailsOnlyForWantOfAVariable'
  BY <1>1 DEF CircuitInv, CallTypeOK, LeafCover, SearchTypeOK, FailsOnlyForWantOfAVariable
<1>11. QED
  BY <1>1, <1>8, <1>9, <1>10 DEF CircuitInv

LEMMA JoinStep ==
    ASSUME CircuitInv, Join
    PROVE  CircuitInv'
<1>1. /\ mode = "return" /\ frames # <<>> /\ Last(frames).lo # <<>> /\ mode' = "return"
      /\ frames' = Front(frames)
      /\ LET lo == Last(frames).lo[1] IN
             result' = IF lo.kind = "const" /\ result = lo THEN lo ELSE Mux(Last(frames).var, lo, result)
      /\ UNCHANGED <<phase, onSet, terms, primes, rows, selected, call, open, best>>
      /\ UNCHANGED <<func, live, fixed, dropped>>
  BY DEF Join, coverVars
<1>2. Calls(frames, func, dropped) /\ func.n \in Nat
  BY DEF CircuitInv, CallTypeOK
<1>3. Implements(result, func.n - Len(frames), Scope(frames, Len(frames) + 1, func),
                 Ones(frames, Len(frames) + 1), func, dropped)
  BY <1>1 DEF CircuitInv, CurrentCall, Call
<1>4. /\ Calls(frames', func, dropped) /\ Len(frames') = Len(frames) - 1 /\ Len(frames) \in Nat
      /\ Implements(result', func.n - (Len(frames) - 1), Scope(frames', Len(frames), func),
                    Ones(frames', Len(frames)), func, dropped)
  BY <1>1, <1>2, <1>3, CallsJoin
<1>5. Len(frames') + 1 = Len(frames)
  BY <1>4
<1>6. CurrentCall'
  BY <1>1, <1>4, <1>5 DEF CurrentCall, Call
<1>7. CallTypeOK' /\ LeafCover' /\ FailsOnlyForWantOfAVariable'
  BY <1>1 DEF CircuitInv, CallTypeOK, LeafCover, SearchTypeOK, FailsOnlyForWantOfAVariable
<1>8. QED
  BY <1>1, <1>4, <1>6, <1>7 DEF CircuitInv

LEMMA ReturnStep ==
    ASSUME CircuitInv, Return
    PROVE  CircuitInv'
<1>1. /\ mode = "return" /\ frames = <<>> /\ mode' = "done"
      /\ UNCHANGED <<phase, onSet, terms, primes, rows, selected, call, open, best>>
      /\ UNCHANGED <<func, live, fixed, frames, result, dropped>>
  BY DEF Return, coverVars
<1>2. Call = 1 /\ Len(frames) = 0 /\ func.n \in Nat
  BY <1>1 DEF Call, CircuitInv, CallTypeOK
<1>3. Scope(frames, Call, func) = 0..(func.n - 1) /\ Ones(frames, Call) = {}
  BY <1>2 DEF Scope, Ones
<1>4. func.n - Len(frames) = func.n
  BY <1>2
<1>5. Implements(result, func.n, 0..(func.n - 1), {}, func, dropped)
  BY <1>1, <1>3, <1>4 DEF CircuitInv, CurrentCall
<1>6. CurrentCall'
  BY <1>1, <1>5 DEF CurrentCall
<1>7. CallTypeOK' /\ LeafCover' /\ FailsOnlyForWantOfAVariable' /\ Calls(frames, func, dropped)'
  BY <1>1 DEF CircuitInv, CallTypeOK, LeafCover, SearchTypeOK, FailsOnlyForWantOfAVariable
<1>8. QED
  BY <1>6, <1>7 DEF CircuitInv

LEMMA CircuitStutter ==
    ASSUME CircuitInv, UNCHANGED vars
    PROVE  CircuitInv'
<1>1. /\ UNCHANGED coverVars
      /\ UNCHANGED <<phase, onSet, terms, primes, rows, selected, call, open, best>>
      /\ UNCHANGED <<mode, func, live, fixed, frames, result, dropped>>
  BY DEF vars, coverVars, ownVars
<1>2. PICK i, o, d : i = Slots /\ o = LeafOn /\ d = LeafDc
  OBVIOUS
<1>3. i = Slots' /\ o = LeafOn' /\ d = LeafDc'
  BY <1>1, <1>2 DEF Slots, LeafOn, LeafDc, LeafInput
<1>4. mode = "minimize" => o # {} /\ CoverInv(i, o, d)'
  BY <1>1, <1>2, CoverStutterInv DEF CircuitInv, LeafCover
<1>5. LeafCover'
  BY <1>1, <1>3, <1>4 DEF CircuitInv, LeafCover, SearchTypeOK
<1>6. Call' = Call
  BY <1>1 DEF Call
<1>7. CurrentCall'
  BY <1>1, <1>6 DEF CircuitInv, CurrentCall
<1>8. CallTypeOK' /\ Calls(frames, func, dropped)' /\ FailsOnlyForWantOfAVariable'
  BY <1>1 DEF CircuitInv, CallTypeOK, FailsOnlyForWantOfAVariable
<1>9. QED
  BY <1>5, <1>7, <1>8 DEF CircuitInv

LEMMA CircuitInit ==
    ASSUME Init
    PROVE  CircuitInv
<1>1. /\ phase = "idle" /\ onSet = {} /\ terms = {} /\ primes = {} /\ rows = {}
      /\ selected = {} /\ call = {} /\ open = <<>> /\ best = NoCover
      /\ mode = "idle" /\ func = NoFunction /\ fixed = {} /\ frames = <<>> /\ dropped = {}
  BY DEF Init, CoverInit
<1>2. func.n = 0 /\ func.order = <<>>
  BY <1>1 DEF NoFunction
<1>3. CallTypeOK
  <2>1. <<>> \in Seq(Nat)
    OBVIOUS
  <2>2. QED
    BY <1>1, <1>2, <2>1 DEF CallTypeOK
<1>4. Calls(frames, func, dropped)
  <2>1. Len(<<>>) = 0 /\ 1..0 = {}
    OBVIOUS
  <2>2. <<>> \in Seq(ToSet(<<>>))
    BY ElementsOfSeq
  <2>3. QED
    BY <1>1, <2>1, <2>2 DEF Calls
<1>5. CurrentCall /\ FailsOnlyForWantOfAVariable
  BY <1>1 DEF CurrentCall, FailsOnlyForWantOfAVariable
<1>6. LeafCover
  <2>1. Len(open) = 0 /\ Cardinality(onSet) = 0 /\ best.selected = {}
    BY <1>1, FS_EmptySet DEF NoCover
  <2>2. QED
    BY <1>1, <2>1 DEF LeafCover, SearchTypeOK
<1>7. QED
  BY <1>3, <1>4, <1>5, <1>6 DEF CircuitInv

\* The invariant holds of every decomposition.
THEOREM CircuitInvariant == Spec => []CircuitInv
<1>1. Init => CircuitInv
  BY CircuitInit
<1>2. CircuitInv /\ [Next]_vars => CircuitInv'
  <2>1. SUFFICES ASSUME CircuitInv, [Next]_vars PROVE CircuitInv'
    OBVIOUS
  <2>2. ASSUME NEW f \in Functions, Decompose(f) PROVE CircuitInv'
    BY <2>1, <2>2, DecomposeStep
  <2>3. CASE Step
    BY <2>1, <2>3, GoToLeafStep, SplitStep, OrderExhaustedStep, ConstantLeafStep, MinimizeLeafStep,
       MinimizeStepStep, LeafDoneStep, OtherHalfStep, JoinStep, ReturnStep DEF Step
  <2>4. CASE UNCHANGED vars
    BY <2>1, <2>4, CircuitStutter
  <2>5. QED
    BY <2>1, <2>2, <2>3, <2>4 DEF Next
<1>3. QED
  BY <1>1, <1>2, PTL DEF Spec

----------------------------------------------------------------------------
(* What follows from the invariant.                                        *)

LEMMA TypesFollow == CircuitInv => TypeOK
<1>1. SUFFICES ASSUME CircuitInv PROVE TypeOK
  OBVIOUS
<1>2. SearchTypeOK
  <2>1. CASE mode = "minimize"
    BY <1>1, <2>1, LeafIsAProblem, CoverIsTyped DEF CircuitInv, LeafCover
  <2>2. CASE mode # "minimize"
    BY <1>1, <2>2 DEF CircuitInv, LeafCover
  <2>3. QED
    BY <2>1, <2>2
<1>3. Len(frames) <= Max({0, func.n - LeafBudget})
  <2> DEFINE n == Len(frames)
             m == func.n - LeafBudget
  <2>1. n \in Nat /\ func.n \in Nat /\ m \in Int /\ (n <= 0 \/ n <= m)
    <3>1. n \in Nat /\ func.n \in Nat /\ LeafBudget \in Nat
      BY <1>1, CallFacts, BoundAssumption
    <3>2. CASE n # 0
      <4>1. n \in 1..n
        BY <3>1, <3>2
      <4>2. FrameOK(frames, n, func, dropped)
        BY <1>1, <4>1 DEF CircuitInv, Calls
      <4>3. IsFiniteSet(frames[n].rest)
        <5>1. func.n - 1 \in Int /\ 0 \in Int
          BY <3>1
        <5>2. IsFiniteSet(0..(func.n - 1)) /\ frames[n].rest \subseteq 0..(func.n - 1)
          BY <4>2, <5>1, FS_Interval DEF FrameOK
        <5>3. QED
          BY <5>2, FS_Subset
      <4>4. Cardinality(frames[n].rest) \in Nat
        BY <4>3, FS_CardinalityType
      <4>5. QED
        BY <3>1, <4>2, <4>4 DEF FrameOK
    <3>3. QED
      BY <3>1, <3>2
  <2>2. Max({0, m}) \in {0, m} /\ Max({0, m}) >= 0 /\ Max({0, m}) >= m
    <3>1. \E x \in {0, m} : \A y \in {0, m} : x >= y
      BY <2>1
    <3>2. QED
      BY <3>1 DEF Max
  <2> HIDE DEF n, m
  <2>3. n <= Max({0, m})
    BY <2>1, <2>2
  <2>4. QED
    BY <2>3 DEF n, m
<1>4. mode = "decompose" => live \cap ({f.var : f \in ToSet(frames)} \cup fixed) = {}
  <2>1. SUFFICES ASSUME mode = "decompose" PROVE live \cap ({f.var : f \in ToSet(frames)} \cup fixed) = {}
    OBVIOUS
  <2>2. live \cap fixed = {} /\ live \subseteq Scope(frames, Call, func)
    BY <1>1, <2>1, LiveFacts
  <2>3. \A j \in 1..Len(frames) : frames[j].var \notin live
    BY <1>1, <2>2, CallFacts
  <2>4. frames \in Seq(ToSet(frames))
    BY <1>1 DEF CircuitInv, Calls
  <2>5. \A f \in ToSet(frames) : f.var \notin live
    BY <2>3, <2>4 DEF ToSet
  <2>6. QED
    BY <2>2, <2>5
<1>5. QED
  BY <1>1, <1>2, <1>3, <1>4 DEF TypeOK, SearchTypeOK, CircuitInv, CallTypeOK

\* Nothing the search looks for is lost, in whatever leaf.
LEMMA KeepsFollows == CircuitInv => SearchKeepsAMinimum
<1>1. SUFFICES ASSUME CircuitInv PROVE SearchKeepsAMinimum
  OBVIOUS
<1>2. CASE mode = "minimize"
  BY <1>1, <1>2 DEF CircuitInv, LeafCover, CoverInv
<1>3. CASE mode # "minimize"
  BY <1>1, <1>3 DEF CircuitInv, LeafCover, SearchKeepsAMinimum
<1>4. QED
  BY <1>2, <1>3

LEMMA AgreesFollows == CircuitInv => ExactButForDropped
<1>1. SUFFICES ASSUME CircuitInv, mode = "done",
                      NEW x \in SUBSET ((0..(func.n - 1)) \ dropped), x \notin func.dc
               PROVE  Evaluate(result, x) = (x \in func.on)
  BY DEF ExactButForDropped
<1>2. Implements(result, func.n, 0..(func.n - 1), {}, func, dropped)
  BY <1>1 DEF CircuitInv, CurrentCall
<1>3. x \ (0..(func.n - 1)) = {}
  OBVIOUS
<1>4. Output(Follow(result, x, func.n), x) <=> x \in func.on
  BY <1>1, <1>2, <1>3 DEF Implements
<1>5. Output(Follow(result, x, func.n), x) \in BOOLEAN
  BY DEF Output
<1>6. QED
  BY <1>4, <1>5 DEF Evaluate

LEMMA ImplicantsAreCubes ==
    ASSUME NEW inputs
    PROVE  Implicants(inputs) = CubesOver(inputs)
<1>1. ASSUME NEW p \in Implicants(inputs) PROVE p \in CubesOver(inputs)
  BY DEF Implicants, CubesOver
<1>2. ASSUME NEW p \in CubesOver(inputs) PROVE p \in Implicants(inputs)
  <2>1. p = [mask |-> p.mask, value |-> p.value] /\ p.mask \in SUBSET inputs
        /\ p.value \in SUBSET inputs /\ p.value \subseteq p.mask
    BY DEF CubesOver
  <2> DEFINE u == <<p.mask, p.value>>
  <2>2. u \in {w \in (SUBSET inputs) \X (SUBSET inputs) : w[2] \subseteq w[1]}
    BY <2>1
  <2>3. p = [mask |-> u[1], value |-> u[2]]
    BY <2>1
  <2> HIDE DEF u
  <2>4. QED
    BY <2>2, <2>3 DEF Implicants
<1>3. QED
  BY <1>1, <1>2

LEMMA MinimumFollows == CircuitInv => CoverIsMinimum
<1>1. SUFFICES ASSUME CircuitInv, mode = "minimize", phase = "done"
               PROVE  /\ \A m \in LeafOn : \E p \in best.selected : Covers(p, m)
                      /\ best.selected \subseteq ValidImplicants
                      /\ best.terms = Cardinality(best.selected) /\ best.literals = Literals(best.selected)
                      /\ ~Coverable(LeafOn, ValidImplicants, best.terms - 1, Unbounded)
                      /\ ~Coverable(LeafOn, ValidImplicants, best.terms, best.literals - 1)
  BY DEF CoverIsMinimum
<1>2. Problem(Slots, LeafOn, LeafDc) /\ CoverInv(Slots, LeafOn, LeafDc) /\ LeafOn # {}
  BY <1>1, LeafIsAProblem DEF CircuitInv, LeafCover
<1> DEFINE imps == ImplicantsOf(Slots, LeafOn \cup LeafDc)
<1>3. /\ best.selected \in SUBSET imps
      /\ \A m \in LeafOn : \E p \in best.selected : Covers(p, m)
      /\ best.terms = Cardinality(best.selected) /\ best.terms \in Nat
      /\ best.literals = Literals(best.selected) /\ best.literals \in Nat
      /\ \A d \in SUBSET imps :
             (\A m \in LeafOn : \E p \in d : Covers(p, m)) =>
                 /\ Cardinality(d) \in Nat /\ Literals(d) \in Nat
                 /\ best.terms <= Cardinality(d)
                 /\ best.terms = Cardinality(d) => best.literals <= Literals(d)
  BY <1>1, <1>2, DoneIsMinimum
<1>4. ValidImplicants = imps
  BY ImplicantsAreCubes, Zenon DEF ValidImplicants, ImplicantsOf
<1>5. imps \in SUBSET CubesOver(Slots) /\ IsFiniteSet(Slots)
  BY <1>2 DEF ImplicantsOf, Problem
<1> HIDE DEF imps
<1>6. best.terms >= 1
  <2>1. PICK p \in best.selected : TRUE
    BY <1>2, <1>3
  <2>2. IsFiniteSet(best.selected)
    <3>1. best.selected \in SUBSET CubesOver(Slots)
      BY <1>3, <1>5
    <3>2. QED
      BY <1>5, <3>1, LiteralsType
  <2>3. QED
    BY <1>3, <2>1, <2>2, AtLeastOne
<1>7. ASSUME NEW k \in Nat, NEW l \in Int, Coverable(LeafOn, imps, k, l)
      PROVE  \E d \in SUBSET imps :
                 /\ Cardinality(d) \in Nat /\ Literals(d) \in Nat
                 /\ Cardinality(d) <= k /\ Literals(d) <= l
                 /\ best.terms <= Cardinality(d)
                 /\ best.terms = Cardinality(d) => best.literals <= Literals(d)
  <2>1. PICK d \in SUBSET imps :
            /\ \A m \in LeafOn : \E p \in d : Covers(p, m)
            /\ Cardinality(d) <= k /\ Literals(d) <= l
    BY <1>2, <1>5, <1>7, CoverableHasCover
  <2>2. QED
    BY <1>3, <2>1
<1>8. ~Coverable(LeafOn, imps, best.terms - 1, Unbounded)
  <2>1. best.terms - 1 \in Nat /\ Unbounded \in Int
    BY <1>3, <1>6, UnboundedIsLarge
  <2>2. SUFFICES ASSUME Coverable(LeafOn, imps, best.terms - 1, Unbounded) PROVE FALSE
    OBVIOUS
  <2>3. PICK d \in SUBSET imps :
            /\ Cardinality(d) \in Nat /\ Cardinality(d) <= best.terms - 1 /\ best.terms <= Cardinality(d)
    BY <1>7, <2>1, <2>2
  <2>4. QED
    BY <1>3, <2>3
<1>9. ~Coverable(LeafOn, imps, best.terms, best.literals - 1)
  <2>1. best.terms \in Nat /\ best.literals \in Nat /\ best.literals - 1 \in Int
    BY <1>3
  <2>2. SUFFICES ASSUME Coverable(LeafOn, imps, best.terms, best.literals - 1) PROVE FALSE
    OBVIOUS
  <2>3. PICK d \in SUBSET imps :
            /\ Cardinality(d) \in Nat /\ Literals(d) \in Nat
            /\ Cardinality(d) <= best.terms /\ Literals(d) <= best.literals - 1
            /\ best.terms <= Cardinality(d)
            /\ best.terms = Cardinality(d) => best.literals <= Literals(d)
    BY <1>7, <2>1, <2>2
  <2>4. QED
    BY <2>1, <2>3
<1>10. QED
  BY <1>3, <1>4, <1>8, <1>9

\* Types, and the sizes that keep the recursions within bounds: no more splits above a
\* call than its function has inputs beyond a leaf's, no more open calls than columns.
THEOREM CircuitTypes == Spec => []TypeOK
BY CircuitInvariant, TypesFollow, PTL

\* No bound of the search and no forced row cuts a minimum off.
THEOREM MinimumIsKept == Spec => []SearchKeepsAMinimum
BY CircuitInvariant, KeepsFollows, PTL

\* The cover of every leaf is one with the fewest terms and then literals of all.
THEOREM LeafCoverIsMinimum == Spec => []CoverIsMinimum
BY CircuitInvariant, MinimumFollows, PTL

\* A circuit is exact but for what probing dropped.
THEOREM CircuitAgrees == Spec => []ExactButForDropped
BY CircuitInvariant, AgreesFollows, PTL

\* Only too many inputs, or an order that names too few, make a decomposition fail.
THEOREM FailuresAreKnown == Spec => []FailsOnlyForWantOfAVariable
<1>1. CircuitInv => FailsOnlyForWantOfAVariable
  BY DEF CircuitInv
<1>2. QED
  BY <1>1, CircuitInvariant, PTL

----------------------------------------------------------------------------
(* Operands in growing order.                                              *)

\* The elements of a finite set of numbers in growing order.
LEMMA AscendingIs ==
    ASSUME NEW S \in SUBSET Nat, IsFiniteSet(S)
    PROVE  /\ Cardinality(S) \in Nat
           /\ Ascending(S) \in [1..Cardinality(S) -> S]
           /\ Ascending(S) \in Seq(S) /\ Len(Ascending(S)) = Cardinality(S)
           /\ Growing(Ascending(S)) /\ ToSet(Ascending(S)) = S
<1>1. Ascending(S) = ByRank(S)
  BY DEF Ascending, ByRank
<1>2. /\ Cardinality(S) \in Nat
      /\ Ascending(S) \in [1..Cardinality(S) -> S]
      /\ Ascending(S) \in Seq(S) /\ Len(Ascending(S)) = Cardinality(S)
      /\ Growing(Ascending(S)) /\ {Ascending(S)[i] : i \in DOMAIN Ascending(S)} = S
  BY <1>1, SortedSet
<1> QED BY <1>2 DEF ToSet

\* Sorting leaves a growing sequence as it is.
LEMMA InOrderIs ==
    ASSUME NEW s \in Seq(Nat), Growing(s)
    PROVE  InOrder(s) = s
<1>1. DOMAIN s = 1..Len(s) /\ Len(s) \in Nat /\ \A i \in 1..Len(s) : s[i] \in Nat
  OBVIOUS
<1>2. ASSUME NEW i \in 1..Len(s)
      PROVE  /\ Cardinality({j \in DOMAIN s : s[j] < s[i]}) = i - 1
             /\ Cardinality({j \in DOMAIN s : s[j] <= s[i]}) = i
  <2>0. ASSUME NEW j \in 1..Len(s) PROVE (s[j] < s[i] <=> j < i) /\ (s[j] <= s[i] <=> j <= i)
    <3>1. (j < i => s[j] < s[i]) /\ (i < j => s[i] < s[j]) /\ s[i] \in Nat /\ s[j] \in Nat
      BY <1>1 DEF Growing
    <3> QED BY <3>1
  <2>1. {j \in DOMAIN s : s[j] < s[i]} = 1..(i - 1)
    <3>1. {j \in DOMAIN s : s[j] < s[i]} = {j \in 1..Len(s) : j < i}
      BY <1>1, <2>0
    <3>2. {j \in 1..Len(s) : j < i} = 1..(i - 1)
      BY <1>1
    <3> QED BY <3>1, <3>2
  <2>2. {j \in DOMAIN s : s[j] <= s[i]} = 1..i
    <3>1. {j \in DOMAIN s : s[j] <= s[i]} = {j \in 1..Len(s) : j <= i}
      BY <1>1, <2>0
    <3>2. {j \in 1..Len(s) : j <= i} = 1..i
      BY <1>1
    <3> QED BY <3>1, <3>2
  <2>3. Cardinality(1..i) = i /\ Cardinality(1..(i - 1)) = i - 1
    <3>1. i \in Nat /\ i >= 1
      BY <1>1
    <3>2. Cardinality(1..i) = i
      BY <3>1, FS_Interval
    <3>3. i - 1 \in Int /\ Cardinality(1..(i - 1)) = IF 1 > i - 1 THEN 0 ELSE (i - 1) - 1 + 1
      BY <3>1, FS_Interval
    <3>4. Cardinality(1..(i - 1)) = i - 1
      BY <3>1, <3>3
    <3> QED BY <3>2, <3>4
  <2> QED BY <2>1, <2>2, <2>3
<1>3. ASSUME NEW i \in 1..Len(s)
      PROVE  (CHOOSE x \in ToSet(s) : /\ Cardinality({j \in DOMAIN s : s[j] < x}) < i
                                      /\ Cardinality({j \in DOMAIN s : s[j] <= x}) >= i) = s[i]
  <2> DEFINE P(x) == /\ Cardinality({j \in DOMAIN s : s[j] < x}) < i
                     /\ Cardinality({j \in DOMAIN s : s[j] <= x}) >= i
  <2>1. s[i] \in ToSet(s) /\ P(s[i])
    <3>1. s[i] \in ToSet(s)
      BY <1>1 DEF ToSet
    <3>2. i - 1 < i /\ i >= i
      BY <1>1
    <3> QED BY <1>2, <3>1, <3>2
  <2>2. ASSUME NEW x \in ToSet(s), P(x) PROVE x = s[i]
    <3>1. PICK k \in 1..Len(s) : x = s[k]
      BY <1>1 DEF ToSet
    <3>2. k - 1 < i /\ k >= i
      BY <1>2, <2>2, <3>1
    <3>3. k = i
      BY <1>1, <3>2
    <3> QED BY <3>1, <3>3
  <2> HIDE DEF P
  <2>3. (CHOOSE x \in ToSet(s) : P(x)) = s[i]
    BY <2>1, <2>2
  <2> QED BY <2>3 DEF P
<1>4. InOrder(s) = [i \in DOMAIN s |-> s[i]]
  BY <1>1, <1>3 DEF InOrder
<1> QED BY <1>4

----------------------------------------------------------------------------
(* Odd and even.                                                           *)

LEMMA OddSum ==
    ASSUME NEW a \in Nat, NEW b \in Nat
    PROVE  (a + b) % 2 = 1 <=> ((a % 2 = 1) <=> ~(b % 2 = 1))
OBVIOUS

\* Whether a function takes the values of a set an odd number of times: so does the
\* set of the values that it takes an odd number of times.
LEMMA OddFibres ==
    ASSUME NEW D, IsFiniteSet(D), NEW f, NEW T, IsFiniteSet(T), \A i \in D : f[i] \in T,
           NEW fibre, \A x \in T : fibre[x] = {i \in D : f[i] = x},
           NEW O, O = {x \in T : Cardinality(fibre[x]) % 2 = 1}
    PROVE  Cardinality(D) % 2 = 1 <=> Cardinality(O) % 2 = 1
<1> DEFINE Odds(U) == {x \in U : Cardinality(fibre[x]) % 2 = 1}
           Q == {U \in SUBSET T : Cardinality({i \in D : f[i] \in U}) % 2 = 1
                                    <=> Cardinality(Odds(U)) % 2 = 1}
<1>1. {} \in Q
  <2>1. {i \in D : f[i] \in {}} = {} /\ Odds({}) = {}
    OBVIOUS
  <2> QED BY <2>1
<1>2. ASSUME NEW U \in SUBSET T, NEW x \in T, U \in Q, x \notin U
      PROVE  U \cup {x} \in Q
  <2> DEFINE A == {i \in D : f[i] \in U}
  <2>0. fibre[x] = {i \in D : f[i] = x}
    OBVIOUS
  <2>1. IsFiniteSet(A) /\ IsFiniteSet(fibre[x]) /\ A \cap fibre[x] = {}
    BY <1>2, <2>0, FS_Subset
  <2>2. {i \in D : f[i] \in U \cup {x}} = A \cup fibre[x]
    BY <2>0
  <2>3. /\ Cardinality(A) \in Nat /\ Cardinality(fibre[x]) \in Nat
        /\ Cardinality(A \cup fibre[x]) = Cardinality(A) + Cardinality(fibre[x])
    BY <2>1, DisjointUnion
  <2>4. Cardinality(A \cup fibre[x]) % 2 = 1 <=> ((Cardinality(A) % 2 = 1) <=> ~(Cardinality(fibre[x]) % 2 = 1))
    BY <2>3, OddSum
  <2>5. IsFiniteSet(Odds(U)) /\ Cardinality(Odds(U)) \in Nat /\ x \notin Odds(U)
    BY <1>2, FS_Subset, FS_CardinalityType
  <2>6. Cardinality(A) % 2 = 1 <=> Cardinality(Odds(U)) % 2 = 1
    BY <1>2
  <2>7. CASE Cardinality(fibre[x]) % 2 = 1
    <3>1. Odds(U \cup {x}) = Odds(U) \cup {x}
      BY <2>7
    <3> HIDE DEF Odds
    <3>2. Cardinality(Odds(U) \cup {x}) = Cardinality(Odds(U)) + 1
      BY <2>5, FS_AddElement
    <3>3. (Cardinality(Odds(U)) + 1) % 2 = 1 <=> ~(Cardinality(Odds(U)) % 2 = 1)
      BY <2>5
    <3>4. Cardinality(A \cup fibre[x]) % 2 = 1 <=> Cardinality(Odds(U \cup {x})) % 2 = 1
      BY <2>4, <2>6, <2>7, <3>1, <3>2, <3>3, Zenon
    <3> QED BY <2>2, <3>4
  <2>8. CASE ~(Cardinality(fibre[x]) % 2 = 1)
    <3>1. Odds(U \cup {x}) = Odds(U)
      BY <2>8
    <3> HIDE DEF Odds
    <3>4. Cardinality(A \cup fibre[x]) % 2 = 1 <=> Cardinality(Odds(U \cup {x})) % 2 = 1
      BY <2>4, <2>6, <2>8, <3>1, Zenon
    <3> QED BY <2>2, <3>4
  <2> QED BY <2>7, <2>8
<1> HIDE DEF Q
<1>3. T \in Q
  BY <1>1, <1>2, SetInduction
<1>4. {i \in D : f[i] \in T} = D
  OBVIOUS
<1> QED BY <1>3, <1>4 DEF Q

----------------------------------------------------------------------------
(* Graphs.                                                                 *)

Kinds == {"Pin", "Not", "And", "Or", "Xor"}
Nodes == [type : Kinds, value : Int, inputs : Seq(Nat)]
Constant(g, a) == IsTrueId(g, a) \/ IsFalseId(g, a)

\* What simplification leaves of a node: it may stand behind the nodes of g.
Simplified(g, node, id) ==
    /\ \A i \in DOMAIN node.inputs : node.inputs[i] \in 1..(id - 1)
    /\ Growing(node.inputs)
    /\ node.type = "Pin" => node.inputs = <<>>
    /\ node.type = "Not" => Len(node.inputs) = 1
    /\ node.type \in Commutative => Len(node.inputs) # 1
    /\ node.type = "Not" => g[node.inputs[1]].type # "Not" /\ ~Constant(g, node.inputs[1])
    /\ node.type \in {"And", "Or"} =>
           \A a \in ToSet(node.inputs) :
               /\ ~Constant(g, a)
               /\ g[a].type = "Not" => g[a].inputs[1] \notin ToSet(node.inputs)

\* A graph of k inputs, as interning keeps it.
Sound(g, k) ==
    /\ g \in Seq(Nodes)
    /\ k \in Nat /\ k <= Len(g) /\ \A i \in 1..k : g[i] = Pin(i - 1)
    /\ \A id \in 1..Len(g) : Simplified(g, g[id], id)
    /\ \A a, b \in 1..Len(g) : g[a] = g[b] => a = b

\* The nodes of g are those of h.
Within(g, h) == Len(g) <= Len(h) /\ \A id \in 1..Len(g) : h[id] = g[id]

\* Interning gave r: a graph that goes on from g, and one of its nodes.
Interned(g, k, r) == Sound(r.nodes, k) /\ Within(g, r.nodes) /\ r.id \in 1..Len(r.nodes)

\* What a node is that interning is given.

Node(type, value, inputs) == [type |-> type, value |-> value, inputs |-> inputs]

LEMMA NodeFields ==
    ASSUME NEW g, NEW k, Sound(g, k), NEW id \in 1..Len(g)
    PROVE  /\ g[id] \in Nodes /\ g[id].type \in Kinds /\ g[id].value \in Int
           /\ g[id].inputs \in Seq(Nat) /\ Len(g[id].inputs) \in Nat
           /\ DOMAIN g[id].inputs = 1..Len(g[id].inputs)
           /\ \A i \in 1..Len(g[id].inputs) : g[id].inputs[i] \in 1..(id - 1)
           /\ ToSet(g[id].inputs) \subseteq 1..(id - 1)
           /\ id \in Nat /\ Len(g) \in Nat /\ 1..(id - 1) \subseteq 1..Len(g)
           /\ DOMAIN g = 1..Len(g)
<1>1. g \in Seq(Nodes) /\ Simplified(g, g[id], id)
  BY DEF Sound
<1>2. g[id] \in Nodes /\ id \in Nat /\ Len(g) \in Nat
  BY <1>1
<1>3. g[id].inputs \in Seq(Nat) /\ g[id].type \in Kinds /\ g[id].value \in Int
  BY <1>2 DEF Nodes
<1>4. DOMAIN g[id].inputs = 1..Len(g[id].inputs) /\ Len(g[id].inputs) \in Nat
  BY <1>3
<1>5. \A i \in 1..Len(g[id].inputs) : g[id].inputs[i] \in 1..(id - 1)
  BY <1>1, <1>4 DEF Simplified
<1>6. ToSet(g[id].inputs) \subseteq 1..(id - 1)
  BY <1>4, <1>5 DEF ToSet
<1>7. 1..(id - 1) \subseteq 1..Len(g)
  BY <1>2
<1> QED BY <1>2, <1>3, <1>4, <1>5, <1>6, <1>7

\* A simplified node stays one in a graph that goes on.
LEMMA SimplifiedStays ==
    ASSUME NEW g, NEW h, NEW node, NEW id \in Nat, Simplified(g, node, id),
           \A a \in 1..(id - 1) : h[a] = g[a],
           node.inputs \in Seq(Nat)
    PROVE  Simplified(h, node, id)
<1>1. DOMAIN node.inputs = 1..Len(node.inputs) /\ Len(node.inputs) \in Nat
  OBVIOUS
<1>2. \A i \in DOMAIN node.inputs : node.inputs[i] \in 1..(id - 1)
  BY DEF Simplified
<1>3. \A a \in ToSet(node.inputs) : a \in 1..(id - 1)
  BY <1>2 DEF ToSet
<1>4. \A a \in 1..(id - 1) : Constant(h, a) <=> Constant(g, a)
  BY DEF Constant, IsTrueId, IsFalseId
<1>5. node.type = "Not" => node.inputs[1] \in 1..(id - 1)
  BY <1>1, <1>2 DEF Simplified
<1>6. node.type = "Not" => h[node.inputs[1]].type # "Not" /\ ~Constant(h, node.inputs[1])
  BY <1>4, <1>5 DEF Simplified
<1>7. node.type \in {"And", "Or"} =>
           \A a \in ToSet(node.inputs) :
               /\ ~Constant(h, a)
               /\ h[a].type = "Not" => h[a].inputs[1] \notin ToSet(node.inputs)
  BY <1>3, <1>4 DEF Simplified
<1> QED BY <1>6, <1>7 DEF Simplified

\* Interning a simplified node.
LEMMA RawIs ==
    ASSUME NEW g, NEW k, Sound(g, k), NEW type, NEW value, NEW inputs,
           Node(type, value, inputs) \in Nodes,
           Simplified(g, Node(type, value, inputs), Len(g) + 1)
    PROVE  /\ Interned(g, k, InternRaw(g, type, value, inputs))
           /\ InternRaw(g, type, value, inputs).nodes[InternRaw(g, type, value, inputs).id]
                = Node(type, value, inputs)
<1> DEFINE node == Node(type, value, inputs)
           r == InternRaw(g, type, value, inputs)
           h == Append(g, node)
<1>1. g \in Seq(Nodes) /\ Len(g) \in Nat /\ DOMAIN g = 1..Len(g)
  BY DEF Sound
<1>2. r = IF node \in ToSet(g) THEN At(g, CHOOSE i \in DOMAIN g : g[i] = node)
          ELSE At(h, Len(g) + 1)
  BY Zenon DEF InternRaw, Node
<1>3. CASE node \in ToSet(g)
  <2> DEFINE i == CHOOSE i \in DOMAIN g : g[i] = node
  <2>1. i \in DOMAIN g /\ g[i] = node
    BY <1>3 DEF ToSet
  <2> HIDE DEF i, node, r
  <2>2. r.nodes = g /\ r.id = i
    BY <1>2, <1>3 DEF At, i
  <2>3. Within(g, g)
    BY <1>1 DEF Within
  <2> QED BY <1>1, <2>1, <2>2, <2>3 DEF Interned, r, node
<1>4. CASE node \notin ToSet(g)
  <2> HIDE DEF node, r
  <2>1. r.nodes = h /\ r.id = Len(g) + 1
    BY <1>2, <1>4 DEF At
  <2>2. /\ h \in Seq(Nodes) /\ Len(h) = Len(g) + 1 /\ h[Len(g) + 1] = node
        /\ \A a \in 1..Len(g) : h[a] = g[a]
    BY <1>1 DEF node
  <2> HIDE DEF h
  <2>3. ASSUME NEW id \in 1..Len(h) PROVE Simplified(h, h[id], id)
    <3>1. CASE id = Len(g) + 1
      <4>1. Simplified(g, node, id)
        BY <3>1 DEF node
      <4>2. node.inputs \in Seq(Nat)
        BY DEF node, Nodes
      <4>3. id \in Nat /\ \A a \in 1..(id - 1) : h[a] = g[a]
        BY <1>1, <2>2, <3>1
      <4>4. Simplified(h, node, id)
        BY <4>1, <4>2, <4>3, SimplifiedStays
      <4> QED BY <2>2, <3>1, <4>4
    <3>2. CASE id # Len(g) + 1
      <4>1. id \in 1..Len(g) /\ id \in Nat
        BY <1>1, <2>2, <3>2
      <4>2. Simplified(g, g[id], id) /\ g[id].inputs \in Seq(Nat)
        BY <4>1, NodeFields DEF Sound
      <4>3. \A a \in 1..(id - 1) : h[a] = g[a]
        BY <1>1, <2>2, <4>1
      <4>4. Simplified(h, g[id], id)
        BY <4>1, <4>2, <4>3, SimplifiedStays
      <4> QED BY <2>2, <4>1, <4>4
    <3> QED BY <3>1, <3>2
  <2>4. ASSUME NEW a \in 1..Len(h), NEW b \in 1..Len(h), h[a] = h[b] PROVE a = b
    <3>1. \A c \in 1..Len(g) : g[c] # node
      BY <1>1, <1>4 DEF ToSet
    <3>2. \A c \in 1..Len(h) : c \in 1..Len(g) \/ c = Len(g) + 1
      BY <1>1, <2>2
    <3>3. \A c, d \in 1..Len(g) : g[c] = g[d] => c = d
      BY DEF Sound
    <3> QED BY <2>2, <2>4, <3>1, <3>2, <3>3
  <2>5. k \in Nat /\ k <= Len(h) /\ \A i \in 1..k : h[i] = Pin(i - 1)
    <3>1. k \in Nat /\ k <= Len(g) /\ \A i \in 1..k : g[i] = Pin(i - 1)
      BY DEF Sound
    <3>2. \A i \in 1..k : i \in 1..Len(g)
      BY <1>1, <3>1
    <3>3. k <= Len(h)
      BY <1>1, <2>2, <3>1
    <3> QED BY <2>2, <3>1, <3>2, <3>3
  <2>6. Sound(h, k)
    BY <2>2, <2>3, <2>4, <2>5 DEF Sound
  <2>7. Within(g, h) /\ Len(g) + 1 \in 1..Len(h)
    BY <1>1, <2>2 DEF Within
  <2> QED BY <2>1, <2>2, <2>6, <2>7 DEF Interned, r, node
<1> QED BY <1>3, <1>4

----------------------------------------------------------------------------
(* Values.                                                                 *)

\* Whether a node is true for a vector.
Holds(g, vector, id) == Values(g, vector)[id] = TRUE

\* A value is true or false.
LEMMA NodeValueIsBoolean ==
    ASSUME NEW node, NEW vector, NEW f, node.type \in Kinds
    PROVE  NodeValue(node, vector, f) \in BOOLEAN
<1>1. CASE node.type = "Pin"
  BY <1>1 DEF NodeValue
<1>2. CASE node.type = "Not"
  BY <1>2 DEF NodeValue
<1>3. CASE node.type = "And"
  BY <1>3 DEF NodeValue
<1>4. CASE node.type = "Or"
  BY <1>4 DEF NodeValue
<1>5. CASE node.type = "Xor"
  BY <1>5 DEF NodeValue
<1> QED BY <1>1, <1>2, <1>3, <1>4, <1>5 DEF Kinds

\* It depends on the operands only.
LEMMA SameOperands ==
    ASSUME NEW node, NEW vector, NEW f, NEW h, node.type \in Kinds,
           \A i \in DOMAIN node.inputs : f[node.inputs[i]] = h[node.inputs[i]],
           node.type = "Not" => f[node.inputs[1]] = h[node.inputs[1]]
    PROVE  NodeValue(node, vector, f) = NodeValue(node, vector, h)
<1>1. CASE node.type = "Pin"
  BY <1>1 DEF NodeValue
<1>2. CASE node.type = "Not"
  BY <1>2 DEF NodeValue
<1>3. CASE node.type = "And"
  BY <1>3 DEF NodeValue
<1>4. CASE node.type = "Or"
  BY <1>4 DEF NodeValue
<1>5. CASE node.type = "Xor"
  <2>1. {i \in DOMAIN node.inputs : f[node.inputs[i]]} = {i \in DOMAIN node.inputs : h[node.inputs[i]]}
    BY Zenon
  <2>2. /\ NodeValue(node, vector, f) = (Cardinality({i \in DOMAIN node.inputs : f[node.inputs[i]]}) % 2 = 1)
        /\ NodeValue(node, vector, h) = (Cardinality({i \in DOMAIN node.inputs : h[node.inputs[i]]}) % 2 = 1)
    BY <1>5 DEF NodeValue
  <2> QED BY <2>1, <2>2, Zenon
<1> QED BY <1>1, <1>2, <1>3, <1>4, <1>5 DEF Kinds

\* A node of a graph has the value that its type and its operands say.
LEMMA ValuesExist ==
    ASSUME NEW g, NEW k, Sound(g, k), NEW vector
    PROVE  \E f : f = [id \in DOMAIN g |-> NodeValue(g[id], vector, f)]
<1> DEFINE Good(f, n) == DOMAIN f = 1..Len(g) /\ \A id \in 1..Len(g) : id <= n => f[id] = NodeValue(g[id], vector, f)
           Q == {n \in Nat : \E f : Good(f, n)}
<1>1. Len(g) \in Nat /\ DOMAIN g = 1..Len(g)
  BY DEF Sound
<1>2. ASSUME NEW f, NEW h, NEW id \in 1..Len(g), \A a \in 1..(id - 1) : f[a] = h[a]
      PROVE  NodeValue(g[id], vector, f) = NodeValue(g[id], vector, h)
  <2> DEFINE node == g[id]
             args == node.inputs
  <2>1. /\ node.type \in Kinds
        /\ DOMAIN args = 1..Len(args) /\ \A i \in 1..Len(args) : args[i] \in 1..(id - 1)
    BY NodeFields
  <2>2. node.type = "Not" => args[1] \in 1..(id - 1)
    BY <2>1 DEF Sound, Simplified
  <2> HIDE DEF args, node
  <2>3. \A i \in DOMAIN args : f[args[i]] = h[args[i]]
    BY <1>2, <2>1
  <2>4. node.type = "Not" => f[args[1]] = h[args[1]]
    BY <1>2, <2>2
  <2>5. NodeValue(node, vector, f) = NodeValue(node, vector, h)
    BY <2>1, <2>3, <2>4, SameOperands DEF args
  <2> QED BY <2>5 DEF node
<1>3. 0 \in Q
  <2> DEFINE f == [id \in 1..Len(g) |-> TRUE]
  <2>1. DOMAIN f = 1..Len(g) /\ \A id \in 1..Len(g) : ~(id <= 0)
    BY <1>1
  <2> HIDE DEF f
  <2>2. Good(f, 0)
    BY <2>1
  <2> QED BY <2>2
<1>4. ASSUME NEW n \in Q PROVE n + 1 \in Q
  <2>1. PICK f : Good(f, n)
    OBVIOUS
  <2>2. n \in Nat
    OBVIOUS
  <2> DEFINE h == [id \in 1..Len(g) |-> IF id <= n THEN f[id] ELSE NodeValue(g[id], vector, f)]
  <2>3. DOMAIN h = 1..Len(g) /\ \A id \in 1..Len(g) : id <= n => h[id] = f[id]
    OBVIOUS
  <2>4. \A id \in 1..Len(g) : ~(id <= n) => h[id] = NodeValue(g[id], vector, f)
    OBVIOUS
  <2> HIDE DEF h
  <2>5. ASSUME NEW id \in 1..Len(g), id <= n + 1 PROVE h[id] = NodeValue(g[id], vector, h)
    <3>1. h[id] = NodeValue(g[id], vector, f)
      BY <2>1, <2>3, <2>4
    <3>2. \A a \in 1..(id - 1) : a \in 1..Len(g) /\ a <= n
      BY <1>1, <2>2, <2>5
    <3>3. \A a \in 1..(id - 1) : f[a] = h[a]
      BY <2>3, <3>2
    <3>4. NodeValue(g[id], vector, f) = NodeValue(g[id], vector, h)
      BY <1>2, <3>3
    <3> QED BY <3>1, <3>4
  <2>6. Good(h, n + 1)
    BY <2>3, <2>5
  <2> QED BY <2>2, <2>6
<1>5. Q \in SUBSET Nat
  OBVIOUS
<1> HIDE DEF Q
<1>6. Len(g) \in Q
  BY <1>1, <1>3, <1>4, <1>5, NatSetInduction
<1>7. PICK f : Good(f, Len(g))
  BY <1>6 DEF Q
<1> DEFINE h == [id \in 1..Len(g) |-> f[id]]
<1>8. \A id \in 1..Len(g) : f[id] = NodeValue(g[id], vector, f)
  BY <1>1, <1>7
<1>9. \A id \in 1..Len(g) : h[id] = f[id]
  OBVIOUS
<1>10. h = [id \in 1..Len(g) |-> NodeValue(g[id], vector, f)]
  BY <1>8
<1> HIDE DEF h
<1>11. ASSUME NEW id \in 1..Len(g) PROVE NodeValue(g[id], vector, f) = NodeValue(g[id], vector, h)
  <2>1. \A a \in 1..(id - 1) : a \in 1..Len(g)
    BY <1>1
  <2> QED BY <1>2, <1>9, <2>1
<1>12. h = [id \in DOMAIN g |-> NodeValue(g[id], vector, h)]
  BY <1>1, <1>10, <1>11
<1> QED BY <1>12

LEMMA ValuesAre ==
    ASSUME NEW g, NEW k, Sound(g, k), NEW vector
    PROVE  \A id \in 1..Len(g) : Values(g, vector)[id] = NodeValue(g[id], vector, Values(g, vector))
<1>1. \E f : f = [id \in DOMAIN g |-> NodeValue(g[id], vector, f)]
  BY ValuesExist
<1>2. Values(g, vector) = CHOOSE f : f = [id \in DOMAIN g |-> NodeValue(g[id], vector, f)]
  BY Zenon DEF Values
<1>3. Values(g, vector) = [id \in DOMAIN g |-> NodeValue(g[id], vector, Values(g, vector))]
  BY <1>1, <1>2, Zenon
<1>4. DOMAIN g = 1..Len(g)
  BY DEF Sound
<1>5. \A f, h : f = [id \in 1..Len(g) |-> NodeValue(g[id], vector, h)] =>
                \A id \in 1..Len(g) : f[id] = NodeValue(g[id], vector, h)
  OBVIOUS
<1> QED BY <1>3, <1>4, <1>5, Zenon

LEMMA ValuesAreBoolean ==
    ASSUME NEW g, NEW k, Sound(g, k), NEW vector, NEW id \in 1..Len(g)
    PROVE  Values(g, vector)[id] \in BOOLEAN
<1>1. Values(g, vector)[id] = NodeValue(g[id], vector, Values(g, vector))
  BY ValuesAre
<1>2. g[id].type \in Kinds
  BY NodeFields
<1>3. NodeValue(g[id], vector, Values(g, vector)) \in BOOLEAN
  BY <1>2, NodeValueIsBoolean
<1> QED BY <1>1, <1>3, Zenon

LEMMA HoldsIs ==
    ASSUME NEW g, NEW k, Sound(g, k), NEW v, NEW id \in 1..Len(g)
    PROVE  /\ g[id].type = "Pin" => (Holds(g, v, id) <=> g[id].value \in v)
           /\ g[id].type = "Not" => (Holds(g, v, id) <=> ~Holds(g, v, g[id].inputs[1]))
           /\ g[id].type = "And" => (Holds(g, v, id) <=> \A a \in ToSet(g[id].inputs) : Holds(g, v, a))
           /\ g[id].type = "Or" => (Holds(g, v, id) <=> \E a \in ToSet(g[id].inputs) : Holds(g, v, a))
           /\ g[id].type = "Xor" => (Holds(g, v, id)
                  <=> Cardinality({i \in DOMAIN g[id].inputs : Holds(g, v, g[id].inputs[i])}) % 2 = 1)
<1> DEFINE f == Values(g, v)
           node == g[id]
           args == node.inputs
<1>1. /\ f[id] = NodeValue(node, v, f) /\ f[id] \in BOOLEAN
      /\ \A a \in 1..(id - 1) : f[a] \in BOOLEAN
  BY ValuesAre, ValuesAreBoolean, NodeFields
<1>2. DOMAIN args = 1..Len(args) /\ \A i \in DOMAIN args : args[i] \in 1..(id - 1)
  BY NodeFields
<1>3. node.type = "Not" => args[1] \in 1..(id - 1)
  BY <1>2 DEF Sound, Simplified
<1>4. ToSet(args) = {args[i] : i \in DOMAIN args}
  BY DEF ToSet
<1> HIDE DEF f, args, node
<1>5. \A a : Holds(g, v, a) <=> (f[a] = TRUE)
  BY DEF Holds, f
<1>6. \A i \in DOMAIN args : f[args[i]] \in BOOLEAN
  BY <1>1, <1>2
<1>7. CASE node.type = "Pin"
  <2>1. f[id] = (node.value \in v)
    BY <1>1, <1>7 DEF NodeValue
  <2> QED BY <1>5, <1>7, <2>1 DEF node, args
<1>8. CASE node.type = "Not"
  <2>1. f[id] = ~f[args[1]]
    BY <1>1, <1>8 DEF NodeValue, args
  <2>2. f[args[1]] \in BOOLEAN
    BY <1>1, <1>3, <1>8
  <2>3. Holds(g, v, id) <=> ~Holds(g, v, args[1])
    BY <1>5, <2>1, <2>2
  <2> QED BY <1>8, <2>3 DEF node, args
<1>9. CASE node.type = "And"
  <2>1. f[id] = \A i \in DOMAIN args : f[args[i]]
    BY <1>1, <1>9 DEF NodeValue, args
  <2>2. Holds(g, v, id) <=> \A i \in DOMAIN args : Holds(g, v, args[i])
    BY <1>5, <1>6, <2>1
  <2>3. Holds(g, v, id) <=> \A a \in ToSet(args) : Holds(g, v, a)
    BY <1>4, <2>2
  <2> QED BY <1>9, <2>3 DEF node, args
<1>10. CASE node.type = "Or"
  <2>1. f[id] = \E i \in DOMAIN args : f[args[i]]
    BY <1>1, <1>10 DEF NodeValue, args
  <2>2. Holds(g, v, id) <=> \E i \in DOMAIN args : Holds(g, v, args[i])
    BY <1>5, <1>6, <2>1
  <2>3. Holds(g, v, id) <=> \E a \in ToSet(args) : Holds(g, v, a)
    BY <1>4, <2>2
  <2> QED BY <1>10, <2>3 DEF node, args
<1>11. CASE node.type = "Xor"
  <2>1. f[id] = (Cardinality({i \in DOMAIN args : f[args[i]]}) % 2 = 1)
    BY <1>1, <1>11 DEF NodeValue, args
  <2>2. {i \in DOMAIN args : f[args[i]]} = {i \in DOMAIN args : Holds(g, v, args[i])}
    BY <1>5, <1>6
  <2>3. Holds(g, v, id) <=> Cardinality({i \in DOMAIN args : Holds(g, v, args[i])}) % 2 = 1
    BY <1>5, <2>1, <2>2
  <2> QED BY <1>11, <2>3 DEF node, args
<1>12. node.type \in Kinds
  BY NodeFields DEF node
<1> QED BY <1>7, <1>8, <1>9, <1>10, <1>11, <1>12 DEF Kinds, node, args

\* A node keeps its value while the graph grows.
LEMMA ValuesStay ==
    ASSUME NEW g, NEW h, NEW k, Sound(g, k), Sound(h, k), Within(g, h), NEW v
    PROVE  \A id \in 1..Len(g) : Holds(h, v, id) <=> Holds(g, v, id)
<1> DEFINE Q == {n \in Nat : \A id \in 1..Len(g) : id <= n => (Holds(h, v, id) <=> Holds(g, v, id))}
<1>1. Len(g) \in Nat /\ Len(h) \in Nat /\ Len(g) <= Len(h) /\ \A id \in 1..Len(g) : h[id] = g[id]
  BY DEF Sound, Within
<1>2. 0 \in Q
  BY <1>1
<1>3. ASSUME NEW n \in Q PROVE n + 1 \in Q
  <2>1. n \in Nat /\ \A a \in 1..Len(g) : a <= n => (Holds(h, v, a) <=> Holds(g, v, a))
    OBVIOUS
  <2>2. ASSUME NEW id \in 1..Len(g), id <= n + 1 PROVE Holds(h, v, id) <=> Holds(g, v, id)
    <3> DEFINE args == g[id].inputs
    <3>1. h[id] = g[id] /\ id \in 1..Len(h)
      BY <1>1
    <3>2. /\ g[id].type \in Kinds /\ DOMAIN args = 1..Len(args)
          /\ \A i \in DOMAIN args : args[i] \in 1..(id - 1) /\ args[i] \in 1..Len(g)
          /\ ToSet(args) \subseteq 1..(id - 1) /\ ToSet(args) \subseteq 1..Len(g)
      BY NodeFields, Zenon
    <3>3. \A a \in 1..(id - 1) : a \in 1..Len(g) /\ a <= n
      BY <1>1, <2>1, <2>2
    <3>4. \A a \in 1..(id - 1) : Holds(h, v, a) <=> Holds(g, v, a)
      BY <2>1, <3>3
    <3>5. g[id].type = "Not" => args[1] \in 1..(id - 1)
      BY <3>2 DEF Sound, Simplified
    <3>6. {i \in DOMAIN args : Holds(h, v, args[i])} = {i \in DOMAIN args : Holds(g, v, args[i])}
      <4>1. \A i \in DOMAIN args : Holds(h, v, args[i]) <=> Holds(g, v, args[i])
        BY <3>2, <3>4
      <4> HIDE DEF args
      <4> QED BY <4>1, Zenon
    <3>7. CASE g[id].type = "Pin"
      <4>1. Holds(g, v, id) <=> g[id].value \in v
        BY <3>7, HoldsIs
      <4>2. Holds(h, v, id) <=> h[id].value \in v
        BY <3>1, <3>7, HoldsIs
      <4> QED BY <3>1, <4>1, <4>2
    <3>8. CASE g[id].type = "Not"
      <4>1. Holds(g, v, id) <=> ~Holds(g, v, args[1])
        BY <3>8, HoldsIs
      <4>2. Holds(h, v, id) <=> ~Holds(h, v, args[1])
        BY <3>1, <3>8, HoldsIs
      <4> QED BY <3>4, <3>5, <3>8, <4>1, <4>2
    <3>9. CASE g[id].type = "And"
      <4>1. Holds(g, v, id) <=> \A a \in ToSet(args) : Holds(g, v, a)
        BY <3>9, HoldsIs
      <4>2. Holds(h, v, id) <=> \A a \in ToSet(args) : Holds(h, v, a)
        BY <3>1, <3>9, HoldsIs
      <4> QED BY <3>2, <3>4, <4>1, <4>2
    <3>10. CASE g[id].type = "Or"
      <4>1. Holds(g, v, id) <=> \E a \in ToSet(args) : Holds(g, v, a)
        BY <3>10, HoldsIs
      <4>2. Holds(h, v, id) <=> \E a \in ToSet(args) : Holds(h, v, a)
        <5>1. h[id].type = "Or" /\ h[id].inputs = args
          BY <3>1, <3>10
        <5>2. Holds(h, v, id) <=> \E a \in ToSet(h[id].inputs) : Holds(h, v, a)
          BY <3>1, <5>1, HoldsIs
        <5> HIDE DEF args
        <5> QED BY <5>1, <5>2, Zenon
      <4>3. \A a \in ToSet(args) : Holds(h, v, a) <=> Holds(g, v, a)
        BY <3>2, <3>4
      <4> QED BY <4>1, <4>2, <4>3, Zenon
    <3>11. CASE g[id].type = "Xor"
      <4>1. Holds(g, v, id) <=> Cardinality({i \in DOMAIN args : Holds(g, v, args[i])}) % 2 = 1
        BY <3>11, HoldsIs
      <4>2. Holds(h, v, id) <=> Cardinality({i \in DOMAIN args : Holds(h, v, args[i])}) % 2 = 1
        BY <3>1, <3>11, HoldsIs
      <4> QED BY <3>6, <4>1, <4>2
    <3> QED BY <3>2, <3>7, <3>8, <3>9, <3>10, <3>11 DEF Kinds
  <2> QED BY <2>1, <2>2
<1>4. Q \in SUBSET Nat
  OBVIOUS
<1> HIDE DEF Q
<1>5. Len(g) \in Q
  BY <1>1, <1>2, <1>3, <1>4, NatSetInduction
<1> QED BY <1>1, <1>5 DEF Q

----------------------------------------------------------------------------
(* Interning.                                                              *)

LEMMA WithinItself ==
    ASSUME NEW g, NEW k, Sound(g, k)
    PROVE  Within(g, g) /\ \A id \in 1..Len(g) : Interned(g, k, At(g, id))
BY DEF Sound, Within, Interned, At

LEMMA NodeIs ==
    ASSUME NEW type \in Kinds, NEW inputs \in Seq(Nat)
    PROVE  /\ Node(type, -1, inputs) \in Nodes
           /\ Node(type, -1, inputs).type = type /\ Node(type, -1, inputs).inputs = inputs
BY DEF Node, Nodes

LEMMA NoOperands ==
    /\ <<>> \in Seq(Nat) /\ Len(<<>>) = 0 /\ DOMAIN <<>> = {} /\ ToSet(<<>>) = {} /\ Growing(<<>>)
BY DEF ToSet, Growing

\* The constants.
LEMMA ConstantsAre ==
    ASSUME NEW g, NEW k, Sound(g, k)
    PROVE  /\ Interned(g, k, True(g)) /\ IsTrueId(True(g).nodes, True(g).id)
           /\ Interned(g, k, False(g)) /\ IsFalseId(False(g).nodes, False(g).id)
<1> DEFINE none == <<>>
<1>1. none \in Seq(Nat) /\ Len(none) = 0 /\ DOMAIN none = {} /\ ToSet(none) = {} /\ Growing(none)
  BY NoOperands
<1>2. \A id : IsTrueId(True(g).nodes, id) <=> True(g).nodes[id].type = "And" /\ True(g).nodes[id].inputs = none
  BY DEF IsTrueId
<1>3. \A id : IsFalseId(False(g).nodes, id) <=> False(g).nodes[id].type = "Or" /\ False(g).nodes[id].inputs = none
  BY DEF IsFalseId
<1>4. True(g) = InternRaw(g, "And", -1, none) /\ False(g) = InternRaw(g, "Or", -1, none)
  BY DEF True, False
<1> HIDE DEF none
<1>5. ASSUME NEW type \in {"And", "Or"}
      PROVE  /\ Interned(g, k, InternRaw(g, type, -1, none))
             /\ InternRaw(g, type, -1, none).nodes[InternRaw(g, type, -1, none).id] = Node(type, -1, none)
             /\ Node(type, -1, none).type = type /\ Node(type, -1, none).inputs = none
  <2>1. type \in Kinds /\ type \in Commutative /\ type # "Pin" /\ type # "Not"
    BY DEF Kinds, Commutative
  <2>2. Node(type, -1, none) \in Nodes /\ Node(type, -1, none).type = type /\ Node(type, -1, none).inputs = none
    BY <1>1, <2>1, NodeIs
  <2>3. Simplified(g, Node(type, -1, none), Len(g) + 1)
    BY <1>1, <2>1, <2>2 DEF Simplified
  <2> QED BY <2>2, <2>3, RawIs
<1> QED BY <1>2, <1>3, <1>4, <1>5

\* The constants have their values, and there is no other node like them.
LEMMA ConstantsHold ==
    ASSUME NEW g, NEW k, Sound(g, k), NEW id \in 1..Len(g), NEW v
    PROVE  (IsTrueId(g, id) => Holds(g, v, id)) /\ (IsFalseId(g, id) => ~Holds(g, v, id))
<1>1. \A s : s = <<>> => ToSet(s) = {}
  BY NoOperands
<1>2. IsTrueId(g, id) => g[id].type = "And" /\ ToSet(g[id].inputs) = {}
  BY <1>1 DEF IsTrueId
<1>3. IsFalseId(g, id) => g[id].type = "Or" /\ ToSet(g[id].inputs) = {}
  BY <1>1 DEF IsFalseId
<1> QED BY <1>2, <1>3, HoldsIs

\* Interning a negation.
LEMMA NotIs ==
    ASSUME NEW g, NEW k, Sound(g, k), NEW arg \in 1..Len(g)
    PROVE  /\ Interned(g, k, InternNot(g, arg))
           /\ \A v : Holds(InternNot(g, arg).nodes, v, InternNot(g, arg).id) <=> ~Holds(g, v, arg)
<1> DEFINE r == InternNot(g, arg)
           one == <<arg>>
<1>1. /\ one \in Seq(Nat) /\ Len(one) = 1 /\ DOMAIN one = {1} /\ one[1] = arg /\ ToSet(one) = {arg}
  BY DEF ToSet
<1>2. r = IF g[arg].type = "Not" THEN At(g, g[arg].inputs[1])
          ELSE IF IsTrueId(g, arg) THEN False(g)
          ELSE IF IsFalseId(g, arg) THEN True(g)
          ELSE InternRaw(g, "Not", -1, one)
  BY DEF InternNot
<1> HIDE DEF one, r
<1>3. CASE g[arg].type = "Not"
  <2> DEFINE a == g[arg].inputs[1]
  <2>1. r = At(g, a)
    BY <1>2, <1>3
  <2>2. Len(g[arg].inputs) = 1 /\ a \in 1..Len(g)
    <3>1. Len(g[arg].inputs) = 1
      BY <1>3 DEF Sound, Simplified
    <3> QED BY <3>1, NodeFields
  <2>3. r.nodes = g /\ r.id = a
    BY <2>1 DEF At
  <2>4. Interned(g, k, r)
    BY <2>1, <2>2, WithinItself
  <2>5. \A v : Holds(g, v, arg) <=> ~Holds(g, v, a)
    BY <1>3, HoldsIs
  <2> QED BY <2>3, <2>4, <2>5 DEF r
<1>4. CASE g[arg].type # "Not" /\ IsTrueId(g, arg)
  <2>1. r = False(g) /\ Interned(g, k, r) /\ IsFalseId(r.nodes, r.id)
    BY <1>2, <1>4, ConstantsAre
  <2>2. Sound(r.nodes, k) /\ r.id \in 1..Len(r.nodes)
    BY <2>1 DEF Interned
  <2>3. \A v : Holds(g, v, arg) /\ ~Holds(r.nodes, v, r.id)
    BY <1>4, <2>1, <2>2, ConstantsHold
  <2> QED BY <2>1, <2>3 DEF r
<1>5. CASE g[arg].type # "Not" /\ ~IsTrueId(g, arg) /\ IsFalseId(g, arg)
  <2>1. r = True(g) /\ Interned(g, k, r) /\ IsTrueId(r.nodes, r.id)
    BY <1>2, <1>5, ConstantsAre
  <2>2. Sound(r.nodes, k) /\ r.id \in 1..Len(r.nodes)
    BY <2>1 DEF Interned
  <2>3. \A v : ~Holds(g, v, arg) /\ Holds(r.nodes, v, r.id)
    BY <1>5, <2>1, <2>2, ConstantsHold
  <2> QED BY <2>1, <2>3 DEF r
<1>6. CASE g[arg].type # "Not" /\ ~IsTrueId(g, arg) /\ ~IsFalseId(g, arg)
  <2> DEFINE node == Node("Not", -1, one)
  <2>1. r = InternRaw(g, "Not", -1, one)
    BY <1>2, <1>6
  <2>2. node \in Nodes /\ node.type = "Not" /\ node.inputs = one
    BY <1>1, NodeIs DEF Kinds
  <2> HIDE DEF node
  <2>3. Simplified(g, node, Len(g) + 1)
    <3>1. Len(g) \in Nat
      BY DEF Sound
    <3>2. \A i \in DOMAIN one : one[i] \in 1..(Len(g) + 1 - 1)
      BY <1>1, <3>1
    <3>3. Growing(one)
      BY <1>1 DEF Growing
    <3>4. ~Constant(g, arg)
      BY <1>6 DEF Constant
    <3> QED BY <1>1, <1>6, <2>2, <3>2, <3>3, <3>4 DEF Simplified, Commutative
  <2>4. Interned(g, k, r) /\ r.nodes[r.id] = node
    BY <2>1, <2>2, <2>3, RawIs DEF node
  <2>5. Sound(r.nodes, k) /\ Within(g, r.nodes) /\ r.id \in 1..Len(r.nodes)
    BY <2>4 DEF Interned
  <2>6. ASSUME NEW v PROVE Holds(r.nodes, v, r.id) <=> ~Holds(g, v, arg)
    <3>1. Holds(r.nodes, v, r.id) <=> ~Holds(r.nodes, v, r.nodes[r.id].inputs[1])
      BY <2>2, <2>4, <2>5, HoldsIs
    <3>2. Holds(r.nodes, v, arg) <=> Holds(g, v, arg)
      BY <2>5, ValuesStay
    <3> QED BY <1>1, <2>2, <2>4, <3>1, <3>2
  <2> QED BY <2>4, <2>6 DEF r
<1> QED BY <1>3, <1>4, <1>5, <1>6

\* The operands of an AND or OR: none that is constant or beside its negation.
Independent(g, S) ==
    \A a \in S : ~Constant(g, a) /\ (g[a].type = "Not" => g[a].inputs[1] \notin S)

\* Interning a node of operands that are simplified.
LEMMA AscendingRawIs ==
    ASSUME NEW g, NEW k, Sound(g, k), NEW type \in Commutative, NEW S \in SUBSET (1..Len(g)),
           Cardinality(S) # 1, type # "Xor" => Independent(g, S)
    PROVE  LET r == InternRaw(g, type, -1, Ascending(S))
           IN /\ Interned(g, k, r)
              /\ r.nodes[r.id].type = type /\ r.nodes[r.id].inputs = Ascending(S)
<1> DEFINE s == Ascending(S)
           r == InternRaw(g, type, -1, s)
           node == Node(type, -1, s)
<1>1. Len(g) \in Nat
  BY DEF Sound
<1>2. S \in SUBSET Nat /\ IsFiniteSet(S)
  <2>1. IsFiniteSet(1..Len(g))
    BY <1>1, FS_Interval
  <2>2. S \in SUBSET Nat
    OBVIOUS
  <2> QED BY <2>1, <2>2, FS_Subset
<1>3. /\ s \in [1..Cardinality(S) -> S] /\ Len(s) = Cardinality(S) /\ Growing(s) /\ ToSet(s) = S
      /\ Cardinality(S) \in Nat
  BY <1>2, AscendingIs
<1> HIDE DEF s
<1>4. s \in Seq(Nat) /\ \A i \in DOMAIN s : s[i] \in 1..Len(g)
  <2>1. DOMAIN s = 1..Cardinality(S) /\ \A i \in 1..Cardinality(S) : s[i] \in 1..Len(g) /\ s[i] \in Nat
    BY <1>2, <1>3
  <2>2. s \in [1..Cardinality(S) -> Nat]
    BY <1>3, <2>1
  <2> QED BY <1>3, <2>1, <2>2, FromFunction
<1>5. type \in Kinds /\ type # "Not" /\ type # "Pin" /\ (type \in {"And", "Or"} => type # "Xor")
  BY DEF Commutative, Kinds
<1>6. node \in Nodes /\ node.type = type /\ node.inputs = s
  BY <1>4, <1>5, NodeIs
<1> HIDE DEF node
<1>7. Simplified(g, node, Len(g) + 1)
  <2>1. \A i \in DOMAIN s : s[i] \in 1..(Len(g) + 1 - 1)
    BY <1>1, <1>4
  <2>2. type \in {"And", "Or"} =>
           \A a \in ToSet(s) : ~Constant(g, a) /\ (g[a].type = "Not" => g[a].inputs[1] \notin ToSet(s))
    BY <1>3, <1>5 DEF Independent
  <2> QED BY <1>3, <1>5, <1>6, <2>1, <2>2 DEF Simplified
<1>8. Interned(g, k, r) /\ r.nodes[r.id] = node
  BY <1>6, <1>7, RawIs DEF node
<1> QED BY <1>6, <1>8 DEF s

\* The AND or OR of some nodes.
Combined(g, type, S, v) ==
    IF type = "And" THEN \A a \in S : Holds(g, v, a) ELSE \E a \in S : Holds(g, v, a)

LEMMA CombinedStays ==
    ASSUME NEW g, NEW h, NEW k, Sound(g, k), Sound(h, k), Within(g, h), NEW type,
           NEW S \in SUBSET (1..Len(g)), NEW v
    PROVE  Combined(h, type, S, v) <=> Combined(g, type, S, v)
<1>1. \A a \in S : Holds(h, v, a) <=> Holds(g, v, a)
  <2>1. \A a \in 1..Len(g) : Holds(h, v, a) <=> Holds(g, v, a)
    BY ValuesStay
  <2> QED BY <2>1
<1>2. CASE type = "And"
  BY <1>1, <1>2 DEF Combined
<1>3. CASE type # "And"
  <2>1. (\E a \in S : Holds(h, v, a)) <=> (\E a \in S : Holds(g, v, a))
    BY <1>1, Zenon
  <2> QED BY <1>3, <2>1 DEF Combined
<1> QED BY <1>2, <1>3

LEMMA CombinedIs ==
    ASSUME NEW h, NEW k, Sound(h, k), NEW id \in 1..Len(h), NEW type \in {"And", "Or"}, NEW S,
           h[id].type = type, ToSet(h[id].inputs) = S, NEW v
    PROVE  Holds(h, v, id) <=> Combined(h, type, S, v)
<1>1. CASE type = "And"
  <2>1. Holds(h, v, id) <=> \A a \in S : Holds(h, v, a)
    BY <1>1, HoldsIs
  <2> QED BY <1>1, <2>1 DEF Combined
<1>2. CASE type = "Or"
  <2>3. h[id].type = "Or"
    BY <1>2
  <2>1. Holds(h, v, id) <=> \E a \in ToSet(h[id].inputs) : Holds(h, v, a)
    BY <2>3, HoldsIs
  <2>2. Combined(h, type, S, v) <=> \E a \in S : Holds(h, v, a)
    BY <1>2 DEF Combined
  <2> QED BY <2>1, <2>2, Zenon
<1> QED BY <1>1, <1>2

\* A constant AND or OR.
LEMMA ConstantIs ==
    ASSUME NEW g, NEW k, Sound(g, k), NEW type \in {"And", "Or"}, NEW S,
           \A v : Combined(g, type, S, v) <=> type # "And",
           NEW r, r = IF type = "And" THEN False(g) ELSE True(g)
    PROVE  /\ Interned(g, k, r)
           /\ \A v : Holds(r.nodes, v, r.id) <=> Combined(g, type, S, v)
<1>1. CASE type = "And"
  <2>1. r = False(g) /\ Interned(g, k, r) /\ IsFalseId(r.nodes, r.id)
    BY <1>1, ConstantsAre
  <2>2. \A v : ~Holds(r.nodes, v, r.id)
    BY <2>1, ConstantsHold DEF Interned
  <2> QED BY <1>1, <2>1, <2>2
<1>2. CASE type # "And"
  <2>1. r = True(g) /\ Interned(g, k, r) /\ IsTrueId(r.nodes, r.id)
    BY <1>2, ConstantsAre
  <2>2. \A v : Holds(r.nodes, v, r.id)
    BY <2>1, ConstantsHold DEF Interned
  <2> QED BY <1>2, <2>1, <2>2
<1> QED BY <1>1, <1>2

\* Interning an AND or OR.
LEMMA AndOrIs ==
    ASSUME NEW g, NEW k, Sound(g, k), NEW type \in {"And", "Or"}, NEW inputs,
           ToSet(inputs) \subseteq 1..Len(g)
    PROVE  /\ Interned(g, k, InternAndOr(g, type, inputs))
           /\ \A v : Holds(InternAndOr(g, type, inputs).nodes, v, InternAndOr(g, type, inputs).id)
                       <=> Combined(g, type, ToSet(inputs), v)
<1> DEFINE r == InternAndOr(g, type, inputs)
           S == ToSet(inputs)
           rest == {id \in S : ~Neutral(g, type, id)}
           decided == \E id \in S : Decides(g, type, id)
           paired == \E id \in rest : g[id].type = "Not" /\ g[id].inputs[1] \in rest
<1>1. r = IF decided \/ paired THEN IF type = "And" THEN False(g) ELSE True(g)
          ELSE Collapsed(g, type, rest)
  BY DEF InternAndOr
<1>2. S \in SUBSET (1..Len(g)) /\ rest \in SUBSET S
  OBVIOUS
<1>3. \A id \in S : Neutral(g, type, id) => \A v : Holds(g, v, id) <=> type = "And"
  BY <1>2, ConstantsHold DEF Neutral
<1>4. \A id \in S : Decides(g, type, id) => \A v : Holds(g, v, id) <=> type # "And"
  BY <1>2, ConstantsHold DEF Decides
<1>5. \A id \in rest : ~Neutral(g, type, id)
  OBVIOUS
<1>6. \A id \in S : Neutral(g, type, id) \/ id \in rest
  OBVIOUS
<1> HIDE DEF r, S, rest
<1>7. CASE decided
  <2>1. PICK id \in S : Decides(g, type, id)
    BY <1>7
  <2>2. \A v : Combined(g, type, S, v) <=> type # "And"
    BY <1>4, <2>1 DEF Combined
  <2>3. r = IF type = "And" THEN False(g) ELSE True(g)
    BY <1>1, <1>7
  <2> HIDE DEF decided, paired
  <2> QED BY <2>2, <2>3, ConstantIs DEF r, S
<1>8. CASE paired
  <2>1. PICK id \in rest : g[id].type = "Not" /\ g[id].inputs[1] \in rest
    BY <1>8
  <2>2. \A v : Holds(g, v, id) <=> ~Holds(g, v, g[id].inputs[1])
    BY <1>2, <2>1, HoldsIs
  <2>3. id \in S /\ g[id].inputs[1] \in S
    BY <1>2, <2>1
  <2>4. \A v : Combined(g, type, S, v) <=> type # "And"
    BY <2>2, <2>3 DEF Combined
  <2>5. r = IF type = "And" THEN False(g) ELSE True(g)
    BY <1>1, <1>8
  <2> HIDE DEF decided, paired
  <2> QED BY <2>4, <2>5, ConstantIs DEF r, S
<1>9. CASE ~decided /\ ~paired
  <2>1. r = Collapsed(g, type, rest)
    BY <1>1, <1>9
  <2>2. \A v : Combined(g, type, rest, v) <=> Combined(g, type, S, v)
    <3> SUFFICES ASSUME NEW v PROVE Combined(g, type, rest, v) <=> Combined(g, type, S, v)
      OBVIOUS
    <3>1. \A id \in S : id \in rest \/ (Holds(g, v, id) <=> type = "And")
      BY <1>3, <1>6
    <3>2. CASE type = "And"
      BY <1>2, <3>1, <3>2 DEF Combined
    <3>3. CASE type # "And"
      BY <1>2, <3>1, <3>3 DEF Combined
    <3> QED BY <3>2, <3>3
  <2>3. rest \in SUBSET (1..Len(g))
    BY <1>2
  <2>4. Independent(g, rest)
    <3>1. \A id \in rest : ~Constant(g, id)
      BY <1>2, <1>5, <1>9 DEF Constant, Neutral, Decides
    <3> QED BY <1>9, <3>1 DEF Independent
  <2>5. IsFiniteSet(rest) /\ rest \in SUBSET Nat
    <3>1. Len(g) \in Nat /\ IsFiniteSet(1..Len(g))
      BY FS_Interval DEF Sound
    <3>2. rest \in SUBSET Nat
      BY <2>3
    <3> QED BY <2>3, <3>1, <3>2, FS_Subset
  <2>6. CASE Cardinality(rest) = 1
    <3>1. PICK x : rest = {x}
      BY <2>5, <2>6, FS_Singleton
    <3>2. Ascending(rest)[1] = x
      <4>1. Ascending(rest) \in [1..1 -> rest]
        BY <2>5, <2>6, AscendingIs
      <4> QED BY <3>1, <4>1
    <3>3. r = At(g, x)
      BY <2>1, <2>6, <3>2 DEF Collapsed
    <3>4. x \in 1..Len(g)
      BY <2>3, <3>1
    <3>5. Interned(g, k, r) /\ r.nodes = g /\ r.id = x
      BY <3>3, <3>4, WithinItself DEF At
    <3>6. \A v : Combined(g, type, rest, v) <=> Holds(g, v, x)
      BY <3>1 DEF Combined
    <3> QED BY <2>2, <3>5, <3>6 DEF r, S
  <2>7. CASE Cardinality(rest) # 1
    <3>1. r = InternRaw(g, type, -1, Ascending(rest))
      BY <2>1, <2>7 DEF Collapsed
    <3>2. type \in Commutative
      BY DEF Commutative
    <3>3. Interned(g, k, r) /\ r.nodes[r.id].type = type /\ r.nodes[r.id].inputs = Ascending(rest)
      <4> HIDE DEF r, rest
      <4>1. LET q == InternRaw(g, type, -1, Ascending(rest))
            IN  /\ Interned(g, k, q)
                /\ q.nodes[q.id].type = type /\ q.nodes[q.id].inputs = Ascending(rest)
        BY <2>3, <2>4, <2>7, <3>2, AscendingRawIs
      <4> QED BY <3>1, <4>1
    <3>4. ToSet(r.nodes[r.id].inputs) = rest
      BY <2>5, <3>3, AscendingIs
    <3>5. Sound(r.nodes, k) /\ Within(g, r.nodes) /\ r.id \in 1..Len(r.nodes)
      BY <3>3 DEF Interned
    <3>6. ASSUME NEW v PROVE Holds(r.nodes, v, r.id) <=> Combined(g, type, S, v)
      <4>1. Holds(r.nodes, v, r.id) <=> Combined(r.nodes, type, rest, v)
        BY <3>3, <3>4, <3>5, CombinedIs
      <4>2. Combined(r.nodes, type, rest, v) <=> Combined(g, type, rest, v)
        BY <2>3, <3>5, CombinedStays
      <4> QED BY <2>2, <4>1, <4>2
    <3> QED BY <3>3, <3>6 DEF r, S
  <2> QED BY <2>6, <2>7
<1> QED BY <1>7, <1>8, <1>9

\* An XOR of different nodes is true if an odd number of them is.
OddlyMany(g, S, v) == Cardinality({x \in S : Holds(g, v, x)}) % 2 = 1

LEMMA XorNodeIs ==
    ASSUME NEW h, NEW k, Sound(h, k), NEW id \in 1..Len(h), NEW S \in SUBSET Nat, IsFiniteSet(S),
           h[id].type = "Xor", h[id].inputs = Ascending(S), NEW v
    PROVE  Holds(h, v, id) <=> OddlyMany(h, S, v)
<1> DEFINE s == Ascending(S)
           n == Cardinality(S)
           X == {x \in S : Holds(h, v, x)}
<1>1. /\ n \in Nat /\ s \in [1..n -> S] /\ ToSet(s) = S /\ Growing(s)
  BY AscendingIs
<1>2. Holds(h, v, id) <=> Cardinality({i \in DOMAIN s : Holds(h, v, s[i])}) % 2 = 1
  BY HoldsIs
<1> HIDE DEF s, n
<1>3. DOMAIN s = 1..n
  BY <1>1
<1>4. {s[i] : i \in 1..n} = S
  BY <1>1, <1>3 DEF ToSet
<1>5. ASSUME NEW i \in 1..n, NEW j \in 1..n, s[i] = s[j] PROVE i = j
  <2>1. s[i] \in Nat /\ i \in Nat /\ j \in Nat
    <3>1. s[i] \in S
      BY <1>1
    <3>2. n \in Nat
      BY <1>1
    <3>3. i \in Nat /\ j \in Nat
      BY <3>2
    <3>4. s[i] \in Nat
      BY <3>1
    <3> QED BY <3>3, <3>4
  <2>2. ~(i < j) /\ ~(j < i)
    BY <1>1, <1>3, <1>5, <2>1 DEF Growing
  <2> QED BY <2>1, <2>2
<1> DEFINE I == {i \in DOMAIN s : Holds(h, v, s[i])}
<1>6. IsFiniteSet(I)
  <2>1. n \in Int /\ 1 \in Int
    BY <1>1
  <2>2. IsFiniteSet(1..n)
    BY <2>1, FS_Interval
  <2>3. I \in SUBSET (1..n)
    BY <1>3
  <2> QED BY <2>2, <2>3, FS_Subset
<1>7. \A i \in I : s[i] \in X
  BY <1>1, <1>3
<1>8. \A x \in X : \E i \in I : s[i] = x
  BY <1>3, <1>4
<1>9. \A i, j \in I : s[i] = s[j] => i = j
  BY <1>3, <1>5
<1> HIDE DEF X, I
<1>10. Cardinality(I) = Cardinality(X)
  BY <1>6, <1>7, <1>8, <1>9, SameCount
<1> QED BY <1>2, <1>10 DEF OddlyMany, X, I

LEMMA OddlyManyStays ==
    ASSUME NEW g, NEW h, NEW k, Sound(g, k), Sound(h, k), Within(g, h),
           NEW S \in SUBSET (1..Len(g)), NEW v
    PROVE  OddlyMany(h, S, v) <=> OddlyMany(g, S, v)
<1>1. \A a \in S : Holds(h, v, a) <=> Holds(g, v, a)
  <2>1. \A a \in 1..Len(g) : Holds(h, v, a) <=> Holds(g, v, a)
    BY ValuesStay
  <2> QED BY <2>1
<1>2. {x \in S : Holds(h, v, x)} = {x \in S : Holds(g, v, x)}
  BY <1>1, Zenon
<1> QED BY <1>2, Zenon DEF OddlyMany

\* Operands given an even number of times are of no account to an XOR.
LEMMA OddIs ==
    ASSUME NEW g, NEW inputs, NEW n \in Nat, DOMAIN inputs = 1..n, NEW v
    PROVE  /\ IsFiniteSet(Odd(inputs)) /\ Odd(inputs) \subseteq ToSet(inputs)
           /\ Cardinality({i \in DOMAIN inputs : Holds(g, v, inputs[i])}) % 2 = 1
                <=> OddlyMany(g, Odd(inputs), v)
<1> DEFINE times(x) == Cardinality({i \in DOMAIN inputs : inputs[i] = x})
           D == {i \in DOMAIN inputs : Holds(g, v, inputs[i])}
           T == {x \in ToSet(inputs) : Holds(g, v, x)}
           fibre == [x \in T |-> {i \in D : inputs[i] = x}]
           O == {x \in T : Cardinality(fibre[x]) % 2 = 1}
<1>1. IsFiniteSet(DOMAIN inputs)
  BY FS_Interval
<1>2. D \in SUBSET DOMAIN inputs
  OBVIOUS
<1>3. IsFiniteSet(D)
  BY <1>1, <1>2, FS_Subset
<1>4. IsFiniteSet(ToSet(inputs))
  <2> DEFINE f == [i \in DOMAIN inputs |-> inputs[i]]
  <2>1. f \in [DOMAIN inputs -> ToSet(inputs)] /\ \A x \in ToSet(inputs) : \E i \in DOMAIN inputs : f[i] = x
    BY DEF ToSet
  <2> HIDE DEF f
  <2>2. f \in Surjection(DOMAIN inputs, ToSet(inputs))
    BY <2>1, Zenon DEF Surjection
  <2> QED BY <1>1, <2>2, FS_Surjection
<1>5. T \in SUBSET ToSet(inputs) /\ Odd(inputs) \in SUBSET ToSet(inputs)
  BY DEF Odd
<1>6. IsFiniteSet(T) /\ IsFiniteSet(Odd(inputs))
  BY <1>4, <1>5, FS_Subset
<1>7. \A i \in D : inputs[i] \in T
  BY DEF ToSet
<1>8. ASSUME NEW x \in T PROVE fibre[x] = {i \in DOMAIN inputs : inputs[i] = x}
  OBVIOUS
<1>9. O = {x \in Odd(inputs) : Holds(g, v, x)}
  <2>1. \A x : x \in O <=> x \in T /\ times(x) % 2 = 1
    BY <1>8, Zenon
  <2>2. \A x : x \in Odd(inputs) <=> x \in ToSet(inputs) /\ times(x) % 2 = 1
    BY DEF Odd
  <2>3. \A x : x \in T <=> x \in ToSet(inputs) /\ Holds(g, v, x)
    OBVIOUS
  <2> HIDE DEF O, T, fibre
  <2> QED BY <2>1, <2>2, <2>3
<1>10. \A x \in T : fibre[x] = {i \in D : inputs[i] = x}
  OBVIOUS
<1>12. O = {x \in T : Cardinality(fibre[x]) % 2 = 1}
  OBVIOUS
<1> HIDE DEF D, T, O, fibre
<1>11. Cardinality(D) % 2 = 1 <=> Cardinality(O) % 2 = 1
  BY <1>3, <1>6, <1>7, <1>10, <1>12, OddFibres
<1> QED BY <1>5, <1>6, <1>9, <1>11 DEF OddlyMany, D

\* An XOR loses its constants: those that are true may invert it.
LEMMA ConstantsOfXor ==
    ASSUME NEW g, NEW k, Sound(g, k), NEW O, O \subseteq 1..Len(g), IsFiniteSet(O), NEW rest,
           rest = {id \in O : ~IsTrueId(g, id) /\ ~IsFalseId(g, id)}, NEW v
    PROVE  OddlyMany(g, O, v) <=> (OddlyMany(g, rest, v) <=> ~Parity(g, O))
<1> DEFINE A == {x \in O : Holds(g, v, x)}
           R == {x \in rest : Holds(g, v, x)}
           C == {x \in O : IsTrueId(g, x)}
<1>1. \A x \in O : (IsTrueId(g, x) => Holds(g, v, x)) /\ (IsFalseId(g, x) => ~Holds(g, v, x))
  <2>1. \A x \in O : x \in 1..Len(g)
    OBVIOUS
  <2> QED BY <2>1, ConstantsHold
<1>2. A = R \cup C /\ R \cap C = {}
  BY <1>1
<1>3. R \in SUBSET O /\ C \in SUBSET O
  OBVIOUS
<1>4. Parity(g, O) <=> Cardinality(C) % 2 = 1
  BY DEF Parity
<1>5. (OddlyMany(g, O, v) <=> Cardinality(A) % 2 = 1) /\ (OddlyMany(g, rest, v) <=> Cardinality(R) % 2 = 1)
  BY DEF OddlyMany
<1> HIDE DEF A, R, C
<1>6. IsFiniteSet(R) /\ IsFiniteSet(C)
  BY <1>3, FS_Subset
<1>7. Cardinality(R) \in Nat /\ Cardinality(C) \in Nat /\ Cardinality(A) = Cardinality(R) + Cardinality(C)
  BY <1>2, <1>6, DisjointUnion
<1>8. Cardinality(A) % 2 = 1 <=> ((Cardinality(R) % 2 = 1) <=> ~(Cardinality(C) % 2 = 1))
  BY <1>7, OddSum
<1> QED BY <1>4, <1>5, <1>8

\* One that is true more.
LEMMA OneMore ==
    ASSUME NEW h, NEW S, IsFiniteSet(S), NEW t, t \notin S, NEW v, Holds(h, v, t)
    PROVE  OddlyMany(h, S \cup {t}, v) <=> ~OddlyMany(h, S, v)
<1> DEFINE A == {x \in S : Holds(h, v, x)}
<1>1. {x \in S \cup {t} : Holds(h, v, x)} = A \cup {t} /\ t \notin A /\ A \in SUBSET S
  OBVIOUS
<1> HIDE DEF A
<1>2. IsFiniteSet(A)
  BY <1>1, FS_Subset
<1>3. Cardinality(A) \in Nat /\ Cardinality(A \cup {t}) = Cardinality(A) + 1
  BY <1>1, <1>2, FS_AddElement, FS_CardinalityType
<1>4. (Cardinality(A) + 1) % 2 = 1 <=> ~(Cardinality(A) % 2 = 1)
  BY <1>3
<1>5. (OddlyMany(h, S \cup {t}, v) <=> Cardinality(A \cup {t}) % 2 = 1) /\ (OddlyMany(h, S, v) <=> Cardinality(A) % 2 = 1)
  BY <1>1 DEF OddlyMany, A
<1> QED BY <1>3, <1>4, <1>5

\* Interning an XOR.
LEMMA XorIs ==
    ASSUME NEW g, NEW k, Sound(g, k), NEW inputs, NEW n \in Nat, DOMAIN inputs = 1..n,
           ToSet(inputs) \subseteq 1..Len(g)
    PROVE  /\ Interned(g, k, InternXor(g, inputs))
           /\ \A v : Holds(InternXor(g, inputs).nodes, v, InternXor(g, inputs).id)
                       <=> Cardinality({i \in DOMAIN inputs : Holds(g, v, inputs[i])}) % 2 = 1
<1> DEFINE r == InternXor(g, inputs)
           O == Odd(inputs)
           rest == {id \in O : ~IsTrueId(g, id) /\ ~IsFalseId(g, id)}
           t == True(g)
<1>1. r = IF ~Parity(g, O)
          THEN IF rest = {} THEN False(g) ELSE Collapsed(g, "Xor", rest)
          ELSE IF rest = {} THEN True(g)
          ELSE InternRaw(t.nodes, "Xor", -1, Ascending(rest \cup {t.id}))
  BY Zenon DEF InternXor
<1>2. O \subseteq 1..Len(g) /\ IsFiniteSet(O)
  BY OddIs
<1>3. \A v : Cardinality({i \in DOMAIN inputs : Holds(g, v, inputs[i])}) % 2 = 1 <=> OddlyMany(g, O, v)
  BY OddIs
<1>4. \A v : OddlyMany(g, O, v) <=> (OddlyMany(g, rest, v) <=> ~Parity(g, O))
  BY <1>2, ConstantsOfXor
<1>5. rest \in SUBSET O /\ \A id \in rest : ~IsTrueId(g, id)
  OBVIOUS
<1> SUFFICES Interned(g, k, r) /\ \A v : Holds(r.nodes, v, r.id) <=> OddlyMany(g, O, v)
  BY <1>3
<1> HIDE DEF r, O, rest, t
<1>6. IsFiniteSet(rest) /\ rest \in SUBSET (1..Len(g)) /\ rest \in SUBSET Nat
  <2>1. IsFiniteSet(rest)
    BY <1>2, <1>5, FS_Subset
  <2>2. rest \in SUBSET (1..Len(g))
    BY <1>2, <1>5, Zenon
  <2>3. \A id \in 1..Len(g) : id \in Nat
    OBVIOUS
  <2>4. rest \in SUBSET Nat
    BY <2>2, <2>3, Zenon
  <2> QED BY <2>1, <2>2, <2>4
<1>7. rest = {} => \A v : ~OddlyMany(g, rest, v)
  <2>1. \A v : {x \in {} : Holds(g, v, x)} = {}
    OBVIOUS
  <2>2. Cardinality({}) = 0 /\ 0 % 2 # 1
    BY FS_EmptySet
  <2> QED BY <2>1, <2>2 DEF OddlyMany
<1>8. CASE rest = {} /\ ~Parity(g, O)
  <2>1. r = False(g) /\ Interned(g, k, r) /\ IsFalseId(r.nodes, r.id)
    BY <1>1, <1>8, ConstantsAre
  <2>2. \A v : ~Holds(r.nodes, v, r.id)
    BY <2>1, ConstantsHold DEF Interned
  <2> QED BY <1>4, <1>7, <1>8, <2>1, <2>2
<1>9. CASE rest = {} /\ Parity(g, O)
  <2>1. r = True(g) /\ Interned(g, k, r) /\ IsTrueId(r.nodes, r.id)
    BY <1>1, <1>9, ConstantsAre
  <2>2. \A v : Holds(r.nodes, v, r.id)
    BY <2>1, ConstantsHold DEF Interned
  <2> QED BY <1>4, <1>7, <1>9, <2>1, <2>2
<1>10. CASE rest # {} /\ ~Parity(g, O) /\ Cardinality(rest) = 1
  <2>1. PICK x : rest = {x}
    BY <1>6, <1>10, FS_Singleton
  <2>2. Ascending(rest)[1] = x
    <3>1. Ascending(rest) \in [1..1 -> rest]
      BY <1>6, <1>10, AscendingIs
    <3> QED BY <2>1, <3>1
  <2>3. r = At(g, x)
    BY <1>1, <1>10, <2>2 DEF Collapsed
  <2>4. x \in 1..Len(g)
    BY <1>6, <2>1
  <2>5. Interned(g, k, r) /\ r.nodes = g /\ r.id = x
    BY <2>3, <2>4, WithinItself DEF At
  <2>6. ASSUME NEW v PROVE OddlyMany(g, rest, v) <=> Holds(g, v, x)
    <3>1. CASE Holds(g, v, x)
      <4>1. {y \in rest : Holds(g, v, y)} = rest
        BY <2>1, <3>1
      <4>2. 1 % 2 = 1
        OBVIOUS
      <4> QED BY <1>10, <3>1, <4>1, <4>2 DEF OddlyMany
    <3>2. CASE ~Holds(g, v, x)
      <4>1. {y \in rest : Holds(g, v, y)} = {}
        BY <2>1, <3>2
      <4>2. Cardinality({}) = 0 /\ 0 % 2 # 1
        BY FS_EmptySet
      <4> QED BY <3>2, <4>1, <4>2 DEF OddlyMany
    <3> QED BY <3>1, <3>2
  <2> QED BY <1>4, <1>10, <2>5, <2>6
<1>11. CASE rest # {} /\ ~Parity(g, O) /\ Cardinality(rest) # 1
  <2>1. r = InternRaw(g, "Xor", -1, Ascending(rest))
    BY <1>1, <1>11 DEF Collapsed
  <2>2. "Xor" \in Commutative
    BY DEF Commutative
  <2>3. Interned(g, k, r) /\ r.nodes[r.id].type = "Xor" /\ r.nodes[r.id].inputs = Ascending(rest)
    BY <1>6, <1>11, <2>1, <2>2, AscendingRawIs
  <2>4. Sound(r.nodes, k) /\ Within(g, r.nodes) /\ r.id \in 1..Len(r.nodes)
    BY <2>3 DEF Interned
  <2>5. ASSUME NEW v PROVE Holds(r.nodes, v, r.id) <=> OddlyMany(g, rest, v)
    <3>1. Holds(r.nodes, v, r.id) <=> OddlyMany(r.nodes, rest, v)
      BY <1>6, <2>3, <2>4, XorNodeIs
    <3>2. OddlyMany(r.nodes, rest, v) <=> OddlyMany(g, rest, v)
      BY <1>6, <2>4, OddlyManyStays
    <3> QED BY <3>1, <3>2
  <2> QED BY <1>4, <1>11, <2>3, <2>5
<1>12. CASE rest # {} /\ Parity(g, O)
  <2> DEFINE S == rest \cup {t.id}
             h == t.nodes
  <2>1. r = InternRaw(h, "Xor", -1, Ascending(S))
    BY <1>1, <1>12
  <2>2. Interned(g, k, t) /\ IsTrueId(h, t.id)
    BY ConstantsAre DEF t
  <2>3. Sound(h, k) /\ Within(g, h) /\ t.id \in 1..Len(h)
    BY <2>2 DEF Interned
  <2>4. Len(g) \in Nat /\ Len(h) \in Nat /\ Len(g) <= Len(h) /\ \A id \in 1..Len(g) : h[id] = g[id]
    BY <2>3 DEF Sound, Within
  <2>5. t.id \notin rest
    BY <1>5, <1>6, <2>2, <2>4 DEF IsTrueId
  <2>6. S \in SUBSET (1..Len(h)) /\ S \in SUBSET Nat
    <3>1. 1..Len(g) \subseteq 1..Len(h)
      BY <2>4
    <3>2. \A id \in 1..Len(h) : id \in Nat
      OBVIOUS
    <3>3. S \in SUBSET (1..Len(h))
      BY <1>6, <2>3, <3>1, Zenon
    <3> QED BY <3>2, <3>3, Zenon
  <2>7. IsFiniteSet(S) /\ Cardinality(S) # 1
    <3>1. IsFiniteSet(S) /\ Cardinality(S) = Cardinality(rest) + 1
      BY <1>6, <2>5, FS_AddElement
    <3>2. Cardinality(rest) \in Nat /\ Cardinality(rest) # 0
      BY <1>6, <1>12, FS_CardinalityType, FS_EmptySet
    <3> QED BY <3>1, <3>2
  <2>8. "Xor" \in Commutative
    BY DEF Commutative
  <2>9. \A v : Holds(h, v, t.id)
    BY <2>2, <2>3, ConstantsHold
  <2> HIDE DEF S, h
  <2>10. Interned(h, k, r) /\ r.nodes[r.id].type = "Xor" /\ r.nodes[r.id].inputs = Ascending(S)
    BY <2>1, <2>3, <2>6, <2>7, <2>8, AscendingRawIs
  <2>11. Sound(r.nodes, k) /\ Within(h, r.nodes) /\ r.id \in 1..Len(r.nodes)
    BY <2>10 DEF Interned
  <2>12. Within(g, r.nodes)
    <3>1. Len(r.nodes) \in Nat /\ Len(h) <= Len(r.nodes) /\ \A id \in 1..Len(h) : r.nodes[id] = h[id]
      BY <2>11 DEF Sound, Within
    <3>2. \A id \in 1..Len(g) : id \in 1..Len(h)
      BY <2>4
    <3>3. Len(g) <= Len(r.nodes)
      BY <2>4, <3>1
    <3> QED BY <2>4, <3>1, <3>2, <3>3 DEF Within
  <2>13. ASSUME NEW v PROVE Holds(r.nodes, v, r.id) <=> ~OddlyMany(g, rest, v)
    <3>1. Holds(r.nodes, v, r.id) <=> OddlyMany(r.nodes, S, v)
      BY <2>6, <2>7, <2>10, <2>11, XorNodeIs
    <3>2. OddlyMany(r.nodes, S, v) <=> OddlyMany(h, S, v)
      BY <2>3, <2>6, <2>11, OddlyManyStays
    <3>3. OddlyMany(h, S, v) <=> ~OddlyMany(h, rest, v)
      BY <1>6, <2>5, <2>9, OneMore DEF S
    <3>4. OddlyMany(h, rest, v) <=> OddlyMany(g, rest, v)
      BY <1>6, <2>3, OddlyManyStays
    <3> QED BY <3>1, <3>2, <3>3, <3>4
  <2>14. Interned(g, k, r)
    BY <2>11, <2>12 DEF Interned
  <2> QED BY <1>4, <1>12, <2>13, <2>14
<1> QED BY <1>8, <1>9, <1>10, <1>11, <1>12


----------------------------------------------------------------------------
(* Interning by hand.                                                      *)

LEMMA AskIs ==
    ASSUME NEW g, NEW k, Sound(g, k), NEW ask \in ByHand(g)
    PROVE  \/ ask[1] = "Not" /\ \E id \in 1..Len(g) : ask[2] = <<id>>
           \/ /\ ask[1] \in Commutative
              /\ \E n \in Nat : DOMAIN ask[2] = 1..n
              /\ ToSet(ask[2]) \subseteq 1..Len(g)
<1>1. DOMAIN g = 1..Len(g)
  BY DEF Sound
<1>2. CASE ask \in {<<type, args>> : type \in Commutative, args \in UNION {[1..n -> DOMAIN g] : n \in 0..MaxArgs}}
  <2>1. PICK type \in Commutative, args \in UNION {[1..n -> DOMAIN g] : n \in 0..MaxArgs} :
            ask = <<type, args>>
    BY <1>2
  <2>2. PICK n \in 0..MaxArgs : args \in [1..n -> DOMAIN g]
    OBVIOUS
  <2>3. n \in Nat
    BY <2>2, ConstantAssumption
  <2>4. DOMAIN args = 1..n /\ ToSet(args) \subseteq 1..Len(g)
    BY <1>1, <2>2 DEF ToSet
  <2>5. ask[1] = type /\ ask[2] = args
    BY <2>1
  <2> QED BY <2>1, <2>3, <2>4, <2>5
<1>3. CASE ask \in {<<"Not", <<id>>>> : id \in DOMAIN g}
  <2>1. PICK id \in DOMAIN g : ask = <<"Not", <<id>>>>
    BY <1>3
  <2>2. ask[1] = "Not" /\ ask[2] = <<id>>
    BY <2>1
  <2> QED BY <1>1, <2>1, <2>2
<1> QED BY <1>2, <1>3 DEF ByHand

\* Whatever is interned, the graph stays sound and the node is the operation.
LEMMA InternIs ==
    ASSUME NEW g, NEW k, Sound(g, k), NEW ask \in ByHand(g),
           NEW r, r = InternNode(g, ask[1], ask[2])
    PROVE  /\ Interned(g, k, r)
           /\ \A v : Holds(r.nodes, v, r.id)
                  <=> Apply(ask[1], [i \in DOMAIN ask[2] |-> Values(r.nodes, v)[ask[2][i]]])
<1> DEFINE h == r.nodes
           args == ask[2]
           values(v) == [i \in DOMAIN args |-> Values(h, v)[args[i]]]
<1>1. ASSUME Interned(g, k, r)
      PROVE  /\ Sound(h, k) /\ Within(g, h) /\ 1..Len(g) \subseteq 1..Len(h)
             /\ \A v : \A id \in 1..Len(g) :
                    Values(h, v)[id] \in BOOLEAN /\ (Holds(g, v, id) <=> Values(h, v)[id])
  <2>1. Sound(h, k) /\ Within(g, h)
    BY <1>1 DEF Interned
  <2>2. 1..Len(g) \subseteq 1..Len(h)
    BY <2>1 DEF Sound, Within
  <2>3. ASSUME NEW v, NEW id \in 1..Len(g)
        PROVE  Values(h, v)[id] \in BOOLEAN /\ (Holds(g, v, id) <=> Values(h, v)[id])
    <3>1. Values(h, v)[id] \in BOOLEAN
      BY <2>1, <2>2, ValuesAreBoolean
    <3>2. Holds(h, v, id) <=> Holds(g, v, id)
      BY <2>1, ValuesStay
    <3> QED BY <3>1, <3>2 DEF Holds
  <2> QED BY <2>1, <2>2, <2>3
<1>2. CASE ask[1] = "Not" /\ \E id \in 1..Len(g) : args = <<id>>
  <2>1. PICK id \in 1..Len(g) : args = <<id>>
    BY <1>2
  <2>2. args[1] = id /\ DOMAIN args = 1..1
    BY <2>1
  <2>3. r = InternNot(g, id)
    BY <1>2, <2>2 DEF InternNode
  <2>4. Interned(g, k, r) /\ \A v : Holds(h, v, r.id) <=> ~Holds(g, v, id)
    BY <2>3, NotIs
  <2>5. ASSUME NEW v PROVE Apply(ask[1], values(v)) <=> ~Holds(g, v, id)
    <3>1. values(v)[1] = Values(h, v)[id]
      BY <2>2
    <3>2. Apply(ask[1], values(v)) <=> ~Values(h, v)[id]
      BY <1>2, <3>1 DEF Apply
    <3> QED BY <1>1, <2>4, <3>2
  <2> QED BY <2>4, <2>5
<1>3. CASE /\ ask[1] \in Commutative
           /\ \E n \in Nat : DOMAIN args = 1..n
           /\ ToSet(args) \subseteq 1..Len(g)
  <2>1. \A i \in DOMAIN args : args[i] \in 1..Len(g)
    BY <1>3 DEF ToSet
  <2>2. CASE ask[1] \in {"And", "Or"}
    <3>1. r = InternAndOr(g, ask[1], args)
      BY <2>2 DEF InternNode
    <3>2. Interned(g, k, r) /\ \A v : Holds(h, v, r.id) <=> Combined(g, ask[1], ToSet(args), v)
      BY <1>3, <2>2, <3>1, AndOrIs
    <3>3. ASSUME NEW v PROVE Apply(ask[1], values(v)) <=> Combined(g, ask[1], ToSet(args), v)
      <4>1. \A i \in DOMAIN args : values(v)[i] = Values(h, v)[args[i]]
        OBVIOUS
      <4>2. \A i \in DOMAIN args : (Holds(g, v, args[i]) <=> Values(h, v)[args[i]])
        BY <1>1, <2>1, <3>2
      <4>3. DOMAIN values(v) = DOMAIN args
        OBVIOUS
      <4>4. CASE ask[1] = "And"
        <5>1. Apply(ask[1], values(v)) <=> \A i \in DOMAIN args : values(v)[i]
          BY <4>3, <4>4 DEF Apply
        <5>2. Combined(g, ask[1], ToSet(args), v) <=> \A i \in DOMAIN args : Holds(g, v, args[i])
          BY <4>4, Zenon DEF Combined, ToSet
        <5> QED BY <4>1, <4>2, <5>1, <5>2
      <4>5. CASE ask[1] = "Or"
        <5>1. Apply(ask[1], values(v)) <=> \E i \in DOMAIN args : values(v)[i]
          BY <4>3, <4>5 DEF Apply
        <5>2. Combined(g, ask[1], ToSet(args), v) <=> \E a \in ToSet(args) : Holds(g, v, a)
          BY <4>5 DEF Combined
        <5>3. Combined(g, ask[1], ToSet(args), v) <=> \E i \in DOMAIN args : Holds(g, v, args[i])
          BY <5>2, Zenon DEF ToSet
        <5> QED BY <4>1, <4>2, <5>1, <5>3
      <4> QED BY <2>2, <4>4, <4>5
    <3> QED BY <3>2, <3>3
  <2>3. CASE ask[1] = "Xor"
    <3>1. r = InternXor(g, args)
      BY <2>3 DEF InternNode
    <3>2. Interned(g, k, r)
          /\ \A v : Holds(h, v, r.id) <=> Cardinality({i \in DOMAIN args : Holds(g, v, args[i])}) % 2 = 1
      BY <1>3, <3>1, XorIs
    <3>3. ASSUME NEW v
          PROVE  Apply(ask[1], values(v)) <=> Cardinality({i \in DOMAIN args : Holds(g, v, args[i])}) % 2 = 1
      <4>1. DOMAIN values(v) = DOMAIN args /\ \A i \in DOMAIN args : values(v)[i] = Values(h, v)[args[i]]
        OBVIOUS
      <4>2. \A i \in DOMAIN args : (Holds(g, v, args[i]) <=> Values(h, v)[args[i]])
        BY <1>1, <2>1, <3>2
      <4>3. {i \in DOMAIN values(v) : values(v)[i]} = {i \in DOMAIN args : Holds(g, v, args[i])}
        BY <4>1, <4>2
      <4>4. Apply(ask[1], values(v)) <=> Cardinality({i \in DOMAIN values(v) : values(v)[i]}) % 2 = 1
        BY <2>3 DEF Apply
      <4> QED BY <4>3, <4>4
    <3> QED BY <3>2, <3>3
  <2> QED BY <1>3, <2>2, <2>3 DEF Commutative
<1> QED BY <1>2, <1>3, AskIs

\* ... and so says the property of a graph that is ready.
LEMMA InternedByHand ==
    ASSUME Sound(nodes, numInputs)
    PROVE  InternIsTheOperation
<1> SUFFICES ASSUME NEW ask \in ByHand(nodes), NEW v \in Vectors(numInputs), NEW new,
                    new = InternNode(nodes, ask[1], ask[2])
             PROVE  LET values == Values(new.nodes, v)
                    IN /\ values[new.id] = Apply(ask[1], [i \in DOMAIN ask[2] |-> values[ask[2][i]]])
                       /\ \A id \in DOMAIN nodes : values[id] = Values(nodes, v)[id]
  BY Zenon DEF InternIsTheOperation
<1> DEFINE h == new.nodes
           truth == Apply(ask[1], [i \in DOMAIN ask[2] |-> Values(h, v)[ask[2][i]]])
<1>1. Interned(nodes, numInputs, new) /\ (Holds(h, v, new.id) <=> truth)
  BY InternIs
<1>2. Sound(h, numInputs) /\ Within(nodes, h) /\ new.id \in 1..Len(h)
  BY <1>1 DEF Interned
<1>3. Values(h, v)[new.id] \in BOOLEAN
  BY <1>2, ValuesAreBoolean
<1>4. truth \in BOOLEAN
  <2>1. ask[1] \in {"Not", "And", "Or", "Xor"}
    BY AskIs DEF Commutative
  <2> QED BY <2>1 DEF Apply
<1>5. Values(h, v)[new.id] = truth
  BY <1>1, <1>3, <1>4 DEF Holds
<1>6. ASSUME NEW id \in DOMAIN nodes PROVE Values(h, v)[id] = Values(nodes, v)[id]
  <2>1. DOMAIN nodes = 1..Len(nodes) /\ 1..Len(nodes) \subseteq 1..Len(h)
    BY <1>2 DEF Sound, Within
  <2>2. Values(h, v)[id] \in BOOLEAN /\ Values(nodes, v)[id] \in BOOLEAN
    BY <1>2, <2>1, ValuesAreBoolean
  <2>3. Holds(h, v, id) <=> Holds(nodes, v, id)
    BY <1>2, <2>1, ValuesStay
  <2> QED BY <2>2, <2>3 DEF Holds
<1> QED BY <1>5, <1>6

\* A sound graph is a reduced one.
LEMMA SoundIsReduced ==
    ASSUME Sound(nodes, numInputs)
    PROVE  GraphIsReduced
<1>1. DOMAIN nodes = 1..Len(nodes)
  BY DEF Sound
<1> SUFFICES ASSUME NEW id \in 1..Len(nodes), NEW node, node = nodes[id], NEW args, args = node.inputs
             PROVE  /\ \A i \in DOMAIN args : args[i] < id /\ (i > 1 => args[i - 1] < args[i])
                    /\ node.type \in Commutative => Len(args) # 1
                    /\ node.type = "Not" => nodes[args[1]].type # "Not" /\ ~Constant(nodes, args[1])
                    /\ node.type \in {"And", "Or"} =>
                           \A a \in ToSet(args) :
                               /\ ~Constant(nodes, a)
                               /\ nodes[a].type = "Not" => nodes[a].inputs[1] \notin ToSet(args)
                    /\ \A other \in DOMAIN nodes : nodes[other] = node => other = id
  BY <1>1, Zenon DEF GraphIsReduced, Constant
<1>2. Simplified(nodes, node, id) /\ \A other \in 1..Len(nodes) : nodes[other] = node => other = id
  BY DEF Sound
<1>3. args \in Seq(Nat) /\ DOMAIN args = 1..Len(args) /\ Len(args) \in Nat /\ id \in Nat
  BY NodeFields
<1>4. ASSUME NEW i \in DOMAIN args PROVE args[i] < id /\ (i > 1 => args[i - 1] < args[i])
  <2>1. args[i] \in 1..(id - 1)
    BY <1>2, <1>4 DEF Simplified
  <2>2. ASSUME i > 1 PROVE args[i - 1] < args[i]
    <3>1. i - 1 \in DOMAIN args /\ i - 1 < i
      BY <1>3, <1>4, <2>2
    <3>2. Growing(args)
      BY <1>2 DEF Simplified
    <3> QED BY <1>4, <3>1, <3>2 DEF Growing
  <2> QED BY <1>3, <2>1, <2>2
<1> QED BY <1>1, <1>2, <1>4 DEF Simplified


----------------------------------------------------------------------------
(* The invariant.                                                          *)

Pins(k) == [i \in 1..k |-> i]
Ids(g) == Seq(1..Len(g))

GraphTypeOK ==
    /\ state \in {"none", "ready", "minimize", "term"} /\ numInputs \in Nat
    /\ state = "none" => nodes = <<>> /\ table = NoTable
    /\ state # "none" => Sound(nodes, numInputs) /\ pinIds = Pins(numInputs) /\ rootId \in 1..Len(nodes)
    /\ table.on \subseteq Vectors(numInputs) /\ table.dc \subseteq Vectors(numInputs)

\* The exact minimizer runs on the table.
MinimizeOK ==
    state = "minimize" =>
        /\ Problem(0..(numInputs - 1), table.on, table.dc)
        /\ CoverInv(0..(numInputs - 1), table.on, table.dc)

\* The operands of the term that is built agree with it on the inputs that were looked at.
TermOK ==
    /\ andIds \in Ids(nodes) /\ bit \in 0..numInputs
    /\ todo # {} =>
           \A v \in Vectors(numInputs) :
               (\A a \in ToSet(andIds) : Holds(nodes, v, a))
                   <=> \A b \in Term.mask : b < bit => (b \in v <=> b \in Term.value)

\* The terms that are built and those that are left cover the table.
Built(v) ==
    \/ \E a \in ToSet(orIds) : Holds(nodes, v, a)
    \/ \E p \in todo : Covers(p, v)
CoverOK ==
    /\ orIds \in Ids(nodes)
    /\ todo \subseteq ImplicantsOf(0..(numInputs - 1), table.on \cup table.dc)
    /\ \A v \in Vectors(numInputs) :
           (v \in table.on => Built(v)) /\ (Built(v) => v \in table.on \cup table.dc)

GraphInv ==
    /\ GraphTypeOK
    /\ MinimizeOK
    /\ state = "term" => TermOK /\ CoverOK
    /\ GraphIsTheTable


\* The graph with a node for each input and nothing else.
LEMMA PinsAre ==
    ASSUME NEW k \in Nat, NEW g, g = [i \in 1..k |-> Pin(i - 1)]
    PROVE  Sound(g, k)
<1>1. ASSUME NEW i \in 1..k
      PROVE  /\ g[i] = Pin(i - 1) /\ g[i] \in Nodes /\ g[i].type = "Pin" /\ g[i].inputs = <<>>
             /\ g[i].value = i - 1
  <2>1. i - 1 \in Int /\ <<>> \in Seq(Nat)
    BY NoOperands
  <2>2. "Pin" \in Kinds
    BY DEF Kinds
  <2> QED BY <2>1, <2>2 DEF Pin, Nodes
<1>2. g \in [1..k -> Nodes]
  <2>1. DOMAIN g = 1..k /\ g = [i \in 1..k |-> g[i]]
    OBVIOUS
  <2> QED BY <1>1, <2>1
<1>3. g \in Seq(Nodes) /\ Len(g) = k
  BY <1>2
<1>4. ASSUME NEW id \in 1..k PROVE Simplified(g, g[id], id)
  <2>1. DOMAIN g[id].inputs = {} /\ Growing(g[id].inputs) /\ g[id].inputs = <<>>
    BY <1>1, NoOperands
  <2>2. g[id].type = "Pin" /\ "Pin" \notin Commutative
    BY <1>1 DEF Commutative
  <2> QED BY <2>1, <2>2 DEF Simplified
<1>5. ASSUME NEW a \in 1..k, NEW b \in 1..k, g[a] = g[b] PROVE a = b
  <2>1. a - 1 = b - 1
    BY <1>1, <1>5
  <2> QED BY <2>1
<1> QED BY <1>1, <1>3, <1>4, <1>5 DEF Sound

LEMMA EmptyIs ==
    ASSUME NEW k \in Nat
    PROVE  /\ Sound(EmptyGraph(k).nodes, k) /\ EmptyGraph(k).id \in 1..Len(EmptyGraph(k).nodes)
           /\ \A v : ~Holds(EmptyGraph(k).nodes, v, EmptyGraph(k).id)
<1> DEFINE g == [i \in 1..k |-> Pin(i - 1)]
           r == False(g)
<1>1. Sound(g, k)
  BY PinsAre
<1>2. EmptyGraph(k) = r
  BY DEF EmptyGraph
<1> HIDE DEF g
<1>3. Interned(g, k, r) /\ IsFalseId(r.nodes, r.id)
  BY <1>1, ConstantsAre
<1> HIDE DEF r
<1>4. Sound(r.nodes, k) /\ r.id \in 1..Len(r.nodes)
  BY <1>3 DEF Interned
<1>5. \A v : ~Holds(r.nodes, v, r.id)
  BY <1>3, <1>4, ConstantsHold
<1> QED BY <1>2, <1>4, <1>5

\* The node of an input.
LEMMA PinIs ==
    ASSUME NEW g, NEW k, Sound(g, k), NEW b \in 0..(k - 1), NEW v
    PROVE  b + 1 \in 1..Len(g) /\ (Holds(g, v, b + 1) <=> b \in v)
<1>1. g \in Seq(Nodes) /\ k \in Nat /\ k <= Len(g) /\ \A i \in 1..k : g[i] = Pin(i - 1)
  BY DEF Sound
<1>2. b + 1 \in 1..k /\ b + 1 \in 1..Len(g) /\ (b + 1) - 1 = b
  BY <1>1
<1>3. g[b + 1] = Pin(b)
  BY <1>1, <1>2
<1>4. g[b + 1].type = "Pin" /\ g[b + 1].value = b
  BY <1>3 DEF Pin
<1>5. g[b + 1].type = "Pin" => (Holds(g, v, b + 1) <=> g[b + 1].value \in v)
  BY <1>2, HoldsIs
<1> QED BY <1>2, <1>4, <1>5

LEMMA SeqWider ==
    ASSUME NEW S, NEW T, S \subseteq T
    PROVE  \A s \in Seq(S) : s \in Seq(T)
OBVIOUS

\* The nodes there are keep their values.
LEMMA GoesOn ==
    ASSUME NEW g, NEW k, Sound(g, k), NEW r, Interned(g, k, r)
    PROVE  /\ Sound(r.nodes, k) /\ r.id \in 1..Len(r.nodes)
           /\ 1..Len(g) \subseteq 1..Len(r.nodes)
           /\ \A s \in Ids(g) : s \in Ids(r.nodes)
           /\ \A v : \A id \in 1..Len(g) : Holds(r.nodes, v, id) <=> Holds(g, v, id)
<1>1. Sound(r.nodes, k) /\ Within(g, r.nodes) /\ r.id \in 1..Len(r.nodes)
  BY DEF Interned
<1>2. Len(g) \in Nat /\ Len(r.nodes) \in Nat /\ Len(g) <= Len(r.nodes)
  BY <1>1 DEF Sound, Within
<1>3. 1..Len(g) \subseteq 1..Len(r.nodes)
  BY <1>2
<1>4. \A s \in Ids(g) : s \in Ids(r.nodes)
  BY <1>3, SeqWider DEF Ids
<1>5. ASSUME NEW v PROVE \A id \in 1..Len(g) : Holds(r.nodes, v, id) <=> Holds(g, v, id)
  BY <1>1, ValuesStay
<1> QED BY <1>1, <1>3, <1>4, <1>5

LEMMA AppendIs ==
    ASSUME NEW S, NEW s \in Seq(S), NEW x \in S
    PROVE  Append(s, x) \in Seq(S) /\ ToSet(Append(s, x)) = ToSet(s) \cup {x}
<1>1. Append(s, x) \in Seq(S) /\ Len(Append(s, x)) = Len(s) + 1 /\ Len(s) \in Nat
  OBVIOUS
<1>2. DOMAIN s = 1..Len(s) /\ DOMAIN Append(s, x) = 1..(Len(s) + 1)
  BY <1>1
<1>3. \A i \in 1..Len(s) : Append(s, x)[i] = s[i]
  OBVIOUS
<1>4. Append(s, x)[Len(s) + 1] = x
  OBVIOUS
<1>5. \A i \in 1..(Len(s) + 1) : i \in 1..Len(s) \/ i = Len(s) + 1
  BY <1>1
<1>6. 1..Len(s) \subseteq 1..(Len(s) + 1) /\ Len(s) + 1 \in 1..(Len(s) + 1)
  BY <1>1
<1>7. \A y : y \in ToSet(Append(s, x)) <=> y \in ToSet(s) \cup {x}
  BY <1>2, <1>3, <1>4, <1>5, <1>6 DEF ToSet
<1> QED BY <1>1, <1>7

\* The table of a graph.
LEMMA TableIs ==
    ASSUME NEW g, NEW k, Sound(g, k), NEW root \in 1..Len(g)
    PROVE  \A v : v \in Table(g, root, k) <=> v \in Vectors(k) /\ Holds(g, v, root)
<1>1. \A v : Values(g, v)[root] \in BOOLEAN
  BY ValuesAreBoolean
<1>2. \A v : Holds(g, v, root) <=> Values(g, v)[root]
  BY <1>1 DEF Holds
<1> QED BY <1>2 DEF Table

\* The implicants of a table.
LEMMA ImplicantIs ==
    ASSUME NEW k \in Nat, NEW allowed, NEW p \in ImplicantsOf(0..(k - 1), allowed), NEW v \in Vectors(k)
    PROVE  /\ p.mask \subseteq 0..(k - 1)
           /\ Covers(p, v) <=> \A b \in p.mask : b \in v <=> b \in p.value
           /\ Covers(p, v) => v \in allowed
<1>1. p.mask \subseteq 0..(k - 1) /\ p.value \subseteq p.mask
  BY DEF ImplicantsOf, CubesOver
<1>2. Covers(p, v) => v \in allowed
  BY DEF ImplicantsOf, Vectors
<1>3. Covers(p, v) <=> \A b \in p.mask : b \in v <=> b \in p.value
  BY <1>1 DEF Covers
<1> QED BY <1>1, <1>2, <1>3


----------------------------------------------------------------------------
(* Saving and loading.                                                     *)

LEMMA SortedIs ==
    ASSUME NEW g, NEW k, Sound(g, k), NEW id \in 1..Len(g)
    PROVE  Sorted(g[id]) = g[id]
<1>1. g[id] \in Nodes /\ g[id].inputs \in Seq(Nat)
  BY NodeFields
<1>2. Growing(g[id].inputs)
  BY DEF Sound, Simplified
<1>3. InOrder(g[id].inputs) = g[id].inputs
  BY <1>1, <1>2, InOrderIs
<1>4. [g[id] EXCEPT !.inputs = g[id].inputs] = g[id]
  BY <1>1 DEF Nodes
<1>5. [g[id] EXCEPT !.inputs = InOrder(@)] = [g[id] EXCEPT !.inputs = g[id].inputs]
  BY <1>3
<1> QED BY <1>4, <1>5 DEF Sorted

\* A sound graph is loaded as it was saved.
LEMMA ReloadIs ==
    ASSUME NEW g, NEW k, Sound(g, k), NEW root \in 1..Len(g)
    PROVE  /\ Accepted(g, root, k)
           /\ [id \in DOMAIN g |-> Sorted(g[id])] = g
           /\ [i \in 1..k |-> FirstPin(g, i - 1)] = Pins(k)
<1>1. /\ g \in Seq(Nodes) /\ DOMAIN g = 1..Len(g) /\ Len(g) \in Nat
      /\ k \in Nat /\ k <= Len(g) /\ \A i \in 1..k : g[i] = Pin(i - 1)
      /\ \A a, b \in 1..Len(g) : g[a] = g[b] => a = b
  BY DEF Sound
<1>2. \A id \in 1..Len(g) : Sorted(g[id]) = g[id]
  BY SortedIs
<1>3. [id \in DOMAIN g |-> Sorted(g[id])] = g
  BY <1>1, <1>2
<1>4. \A i \in 1..k : i \in 1..Len(g)
  BY <1>1
<1>5. ASSUME NEW i \in 1..k PROVE FirstPin(g, i - 1) = i
  <2>1. i \in DOMAIN g /\ g[i] = Pin(i - 1)
    BY <1>1, <1>4
  <2>2. ASSUME NEW id \in DOMAIN g, g[id] = Pin(i - 1) PROVE id = i
    BY <1>1, <2>1, <2>2
  <2>3. \A j \in 1..(i - 1) : j \in DOMAIN g /\ j # i
    BY <1>1, <1>4
  <2>4. \A j \in 1..(i - 1) : g[j] # Pin(i - 1)
    BY <2>2, <2>3
  <2>5. \A id \in DOMAIN g : (g[id] = Pin(i - 1) /\ \A j \in 1..(id - 1) : g[j] # Pin(i - 1)) <=> id = i
    BY <2>1, <2>2, <2>4
  <2> QED BY <2>1, <2>5 DEF FirstPin
<1>6. [i \in 1..k |-> FirstPin(g, i - 1)] = Pins(k)
  BY <1>5 DEF Pins
<1>7. ASSUME NEW id \in 1..Len(g)
      PROVE  /\ g[id].type = "Pin" => g[id].inputs = <<>>
             /\ g[id].type = "Not" => Len(g[id].inputs) = 1
             /\ \A i \in DOMAIN g[id].inputs : g[id].inputs[i] < id
  <2>1. Simplified(g, g[id], id)
    BY DEF Sound
  <2>2. \A i \in DOMAIN g[id].inputs : g[id].inputs[i] \in 1..(id - 1)
    BY <2>1 DEF Simplified
  <2>3. id \in Nat
    BY <1>1
  <2>4. \A i \in DOMAIN g[id].inputs : g[id].inputs[i] < id
    BY <2>2, <2>3
  <2> QED BY <2>1, <2>4 DEF Simplified
<1>8. \A a, b \in DOMAIN g : Sorted(g[a]) = Sorted(g[b]) => a = b
  BY <1>1, <1>2
<1>9. ASSUME NEW i \in 0..(k - 1) PROVE Pin(i) \in ToSet(g)
  <2>1. i + 1 \in 1..k /\ (i + 1) - 1 = i
    BY <1>1
  <2>2. g[i + 1] = Pin(i) /\ i + 1 \in DOMAIN g
    BY <1>1, <1>4, <2>1
  <2> QED BY <2>2 DEF ToSet
<1>10. Accepted(g, root, k)
  BY <1>1, <1>7, <1>8, <1>9 DEF Accepted
<1> QED BY <1>3, <1>6, <1>10

----------------------------------------------------------------------------
(* Every step keeps the invariant.                                         *)

\* The table of t is one of as many inputs.
LEMMA CollectedIs ==
    ASSUME NEW t \in Tables
    PROVE  /\ t.inputs \in Nat
           /\ Collected(t).on \subseteq Vectors(t.inputs) /\ Collected(t).dc \subseteq Vectors(t.inputs)
           /\ Collected(t).on \cup Collected(t).dc = t.outputs \cup t.dontCares
           /\ Problem(0..(t.inputs - 1), Collected(t).on, Collected(t).dc)
<1>1. /\ t.inputs \in Nat /\ t.outputs \cup t.dontCares \subseteq SUBSET (0..(t.inputs - 1))
      /\ Cardinality(t.outputs \ t.dontCares) < Unbounded
  BY ConstantAssumption
<1>2. Collected(t).on = t.outputs \ t.dontCares /\ Collected(t).dc = t.dontCares
  BY DEF Collected
<1>3. IsFiniteSet(0..(t.inputs - 1))
  BY <1>1, FS_Interval
<1>4. Problem(0..(t.inputs - 1), Collected(t).on, Collected(t).dc)
  BY <1>1, <1>2, <1>3 DEF Problem
<1> QED BY <1>1, <1>2, <1>4 DEF Vectors

\* The next term is begun with no operand.
LEMMA TermBegins ==
    ASSUME numInputs' \in Nat, bit' = 0, andIds' = <<>>,
           todo' \subseteq ImplicantsOf(0..(numInputs' - 1), table'.on \cup table'.dc)
    PROVE  TermOK'
<1>1. andIds' \in Ids(nodes') /\ ToSet(andIds') = {}
  BY NoOperands DEF Ids
<1>2. bit' \in 0..numInputs'
  OBVIOUS
<1>3. ASSUME todo' # {}, NEW b \in Term'.mask PROVE ~(b < bit')
  <2>1. Term' \in todo'
    BY <1>3 DEF Term
  <2>2. Term' \in ImplicantsOf(0..(numInputs' - 1), table'.on \cup table'.dc)
    BY <2>1
  <2>3. Term'.mask \subseteq 0..(numInputs' - 1)
    BY <2>2 DEF ImplicantsOf, CubesOver
  <2> QED BY <1>3, <2>3
<1> QED BY <1>1, <1>2, <1>3 DEF TermOK

\* A graph is built from a cover of the table.
LEMMA BuildFromStep ==
    ASSUME NEW c, BuildFrom(c), numInputs \in Nat, numInputs' = numInputs,
           table'.on \subseteq Vectors(numInputs), table'.dc \subseteq Vectors(numInputs),
           c \subseteq ImplicantsOf(0..(numInputs - 1), table'.on \cup table'.dc),
           \A m \in table'.on : \E p \in c : Covers(p, m)
    PROVE  GraphInv'
<1> DEFINE e == EmptyGraph(numInputs)
           t == True(e.nodes)
<1>1. /\ todo' = c /\ pinIds' = Pins(numInputs) /\ rootId' = e.id
      /\ nodes' = (IF c = {} THEN e.nodes ELSE t.nodes)
      /\ state' = (IF c = {} THEN "ready" ELSE "term")
      /\ bit' = 0 /\ andIds' = <<>> /\ orIds' = <<>>
  BY DEF BuildFrom, Pins
<1>2. Sound(e.nodes, numInputs) /\ e.id \in 1..Len(e.nodes) /\ \A v : ~Holds(e.nodes, v, e.id)
  BY EmptyIs
<1> HIDE DEF e
<1>3. Interned(e.nodes, numInputs, t)
  BY <1>2, ConstantsAre
<1> HIDE DEF t
<1>4. Sound(t.nodes, numInputs) /\ 1..Len(e.nodes) \subseteq 1..Len(t.nodes)
  BY <1>2, <1>3, GoesOn
<1>5. Sound(nodes', numInputs') /\ rootId' \in 1..Len(nodes')
  BY <1>1, <1>2, <1>4
<1>6. GraphTypeOK' /\ MinimizeOK'
  BY <1>1, <1>5 DEF GraphTypeOK, MinimizeOK
<1>7. TermOK'
  BY <1>1, TermBegins
<1>8. CoverOK'
  <2>1. orIds' \in Ids(nodes') /\ ToSet(orIds') = {}
    BY <1>1, NoOperands DEF Ids
  <2>2. ASSUME NEW v \in Vectors(numInputs)
        PROVE  (v \in table'.on => Built(v)') /\ (Built(v)' => v \in table'.on \cup table'.dc)
    <3>1. Built(v)' <=> \E p \in c : Covers(p, v)
      BY <1>1, <2>1 DEF Built
    <3>2. \A p \in c : Covers(p, v) => v \in table'.on \cup table'.dc
      BY ImplicantIs
    <3> QED BY <3>1, <3>2
  <2> QED BY <1>1, <2>1, <2>2 DEF CoverOK
<1>9. GraphIsTheTable'
  <2>1. CASE c = {}
    <3>1. table'.on = {}
      BY <2>1
    <3>2. \A v : v \notin Table(nodes', rootId', numInputs')
      BY <1>1, <1>2, <2>1, TableIs
    <3> QED BY <3>1, <3>2 DEF GraphIsTheTable
  <2>2. CASE c # {}
    <3>1. state' # "ready"
      BY <1>1, <2>2
    <3> QED BY <3>1 DEF GraphIsTheTable
  <2> QED BY <2>1, <2>2
<1> QED BY <1>6, <1>7, <1>8, <1>9 DEF GraphInv


LEMMA NewStep ==
    ASSUME GraphInv, NEW t \in Tables, New(t.inputs)
    PROVE  GraphInv'
<1> DEFINE k == t.inputs
           e == EmptyGraph(k)
<1>1. /\ numInputs' = k /\ nodes' = e.nodes /\ pinIds' = Pins(k) /\ rootId' = e.id
      /\ state' = "ready" /\ table' = NoTable
  BY DEF New, ResetGraph, Pins
<1>2. k \in Nat
  BY CollectedIs
<1>3. Sound(e.nodes, k) /\ e.id \in 1..Len(e.nodes)
  BY <1>2, EmptyIs
<1>4. table'.on = {} /\ table'.dc = {}
  BY <1>1 DEF NoTable
<1>5. GraphTypeOK'
  BY <1>1, <1>2, <1>3, <1>4 DEF GraphTypeOK
<1>6. MinimizeOK' /\ GraphIsTheTable'
  BY <1>1 DEF MinimizeOK, GraphIsTheTable
<1> QED BY <1>1, <1>5, <1>6 DEF GraphInv

LEMMA CompressStep ==
    ASSUME GraphInv, NEW t \in Tables, Compress(t)
    PROVE  GraphInv'
<1>1. /\ state = "ready" /\ t.inputs = numInputs /\ table' = Collected(t)
      /\ Minimize(0..(numInputs - 1), table'.on, table'.dc)
      /\ state' = "minimize" /\ numInputs' = numInputs /\ nodes' = nodes
      /\ pinIds' = pinIds /\ rootId' = rootId
  BY DEF Compress
<1>2. PICK i, o, d : i = 0..(numInputs - 1) /\ o = Collected(t).on /\ d = Collected(t).dc
  OBVIOUS
<1>3. i = 0..(numInputs' - 1) /\ o = table'.on /\ d = table'.dc
  BY <1>1, <1>2
<1>4. Problem(i, o, d)
  BY <1>1, <1>2, CollectedIs
<1>5. Minimize(i, o, d)
  BY <1>1, <1>2, <1>3
<1>6. CoverInv(i, o, d)'
  BY <1>4, <1>5, MinimizeInv
<1>7. MinimizeOK'
  BY <1>3, <1>4, <1>6 DEF MinimizeOK
<1>8. table'.on \subseteq Vectors(numInputs') /\ table'.dc \subseteq Vectors(numInputs')
  BY <1>1, CollectedIs
<1>9. GraphTypeOK'
  BY <1>1, <1>8 DEF GraphInv, GraphTypeOK
<1>10. GraphIsTheTable'
  BY <1>1 DEF GraphIsTheTable
<1> QED BY <1>1, <1>7, <1>9, <1>10 DEF GraphInv

LEMMA MinimizesStep ==
    ASSUME GraphInv, Minimizes
    PROVE  GraphInv'
<1>1. /\ state = "minimize" /\ CoverStep /\ state' = state /\ numInputs' = numInputs /\ nodes' = nodes
      /\ pinIds' = pinIds /\ rootId' = rootId /\ table' = table
  BY DEF Minimizes, graphVars
<1>2. PICK i, o, d : i = 0..(numInputs - 1) /\ o = table.on /\ d = table.dc
  OBVIOUS
<1>3. i = 0..(numInputs' - 1) /\ o = table'.on /\ d = table'.dc
  BY <1>1, <1>2
<1>4. Problem(i, o, d) /\ CoverInv(i, o, d)
  BY <1>1, <1>2 DEF GraphInv, MinimizeOK
<1>5. CoverInv(i, o, d)'
  BY <1>1, <1>4, CoverStepInv
<1>6. MinimizeOK'
  BY <1>3, <1>4, <1>5 DEF MinimizeOK
<1>7. GraphTypeOK'
  BY <1>1 DEF GraphInv, GraphTypeOK
<1>8. GraphIsTheTable'
  BY <1>1 DEF GraphIsTheTable
<1> QED BY <1>1, <1>6, <1>7, <1>8 DEF GraphInv

\* The minimizer never fails, and what it found is built.
LEMMA MinimizedStep ==
    ASSUME GraphInv, Minimized
    PROVE  GraphInv'
<1>1. /\ state = "minimize" /\ phase \in {"done", "failed"}
      /\ phase = "done" => BuildFrom(best.selected)
      /\ numInputs' = numInputs /\ table' = table
  BY DEF Minimized
<1>2. PICK i, o, d : i = 0..(numInputs - 1) /\ o = table.on /\ d = table.dc
  OBVIOUS
<1>3. Problem(i, o, d) /\ CoverInv(i, o, d)
  BY <1>1, <1>2 DEF GraphInv, MinimizeOK
<1>4. phase = "done"
  BY <1>1, <1>3 DEF CoverInv, CoverTypeOK
<1>5. best.selected \in SUBSET ImplicantsOf(i, o \cup d) /\ \A m \in o : \E p \in best.selected : Covers(p, m)
  BY <1>3, <1>4, DoneIsMinimum
<1>6. /\ numInputs \in Nat
      /\ table'.on \subseteq Vectors(numInputs) /\ table'.dc \subseteq Vectors(numInputs)
  BY <1>1 DEF GraphInv, GraphTypeOK
<1>7. PICK c : c = best.selected
  OBVIOUS
<1>8. BuildFrom(c) /\ c \subseteq ImplicantsOf(0..(numInputs - 1), table'.on \cup table'.dc)
  BY <1>1, <1>2, <1>4, <1>5, <1>7
<1>9. \A m \in table'.on : \E p \in c : Covers(p, m)
  BY <1>1, <1>2, <1>5, <1>7
<1> QED BY <1>1, <1>6, <1>8, <1>9, BuildFromStep

LEMMA CompressAdvancedStep ==
    ASSUME GraphInv, NEW t \in Tables, CompressAdvanced(t)
    PROVE  GraphInv'
<1>1. /\ state = "ready" /\ t.inputs = numInputs /\ table' = Collected(t) /\ numInputs' = numInputs
  BY DEF CompressAdvanced
<1>2. PICK c \in SUBSET TableImplicants(t) :
          /\ \A m \in Collected(t).on : \E p \in c : Covers(p, m)
          /\ BuildFrom(c)
  BY DEF CompressAdvanced
<1>3. /\ numInputs \in Nat
      /\ table'.on \subseteq Vectors(numInputs) /\ table'.dc \subseteq Vectors(numInputs)
      /\ table'.on \cup table'.dc = t.outputs \cup t.dontCares
  BY <1>1, CollectedIs
<1>4. TableImplicants(t) = ImplicantsOf(0..(numInputs - 1), table'.on \cup table'.dc)
  BY <1>1, <1>3 DEF TableImplicants, ImplicantsOf, CubesOver, Vectors
<1>5. \A m \in table'.on : \E p \in c : Covers(p, m)
  BY <1>1, <1>2
<1> QED BY <1>1, <1>2, <1>3, <1>4, <1>5, BuildFromStep

\* What is true of a graph while a term is built.
LEMMA TermFacts ==
    ASSUME GraphInv, state = "term"
    PROVE  /\ Sound(nodes, numInputs) /\ pinIds = Pins(numInputs) /\ rootId \in 1..Len(nodes)
           /\ numInputs \in Nat /\ TermOK /\ CoverOK
           /\ table.on \subseteq Vectors(numInputs) /\ table.dc \subseteq Vectors(numInputs)
           /\ todo # {} =>
                /\ Term \in todo
                /\ Term \in ImplicantsOf(0..(numInputs - 1), table.on \cup table.dc)
                /\ Term.mask \subseteq 0..(numInputs - 1)
<1>1. TermOK /\ CoverOK /\ GraphTypeOK
  BY DEF GraphInv
<1>2. ASSUME todo # {}
      PROVE  /\ Term \in todo
             /\ Term \in ImplicantsOf(0..(numInputs - 1), table.on \cup table.dc)
             /\ Term.mask \subseteq 0..(numInputs - 1)
  <2>1. Term \in todo
    BY <1>2 DEF Term
  <2>2. Term \in ImplicantsOf(0..(numInputs - 1), table.on \cup table.dc)
    BY <1>1, <2>1 DEF CoverOK
  <2>3. Term.mask \subseteq 0..(numInputs - 1)
    BY <2>2 DEF ImplicantsOf, CubesOver
  <2> QED BY <2>1, <2>2, <2>3
<1> QED BY <1>1, <1>2 DEF GraphTypeOK

\* The terms that are built stay so in a graph that goes on.
LEMMA BuiltStays ==
    ASSUME Sound(nodes, numInputs), CoverOK, NEW r, Interned(nodes, numInputs, r), nodes' = r.nodes,
           UNCHANGED <<numInputs, table, todo, orIds>>
    PROVE  CoverOK'
<1>1. /\ \A s \in Ids(nodes) : s \in Ids(nodes')
      /\ \A v : \A id \in 1..Len(nodes) : Holds(nodes', v, id) <=> Holds(nodes, v, id)
  BY GoesOn
<1>2. orIds \in Ids(nodes) /\ orIds' = orIds
  BY DEF CoverOK
<1>3. \A a \in ToSet(orIds) : a \in 1..Len(nodes)
  BY <1>2 DEF Ids, ToSet
<1>4. ASSUME NEW v PROVE Built(v)' <=> Built(v)
  <2>1. \A a \in ToSet(orIds) : Holds(nodes', v, a) <=> Holds(nodes, v, a)
    BY <1>1, <1>3
  <2> QED BY <1>2, <2>1 DEF Built
<1> QED BY <1>1, <1>2, <1>4 DEF CoverOK


\* An operand is added for the input that is looked at.
LEMMA OperandAdded ==
    ASSUME GraphInv, state = "term", todo # {}, bit < numInputs, bit \in Term.mask,
           NEW r, Interned(nodes, numInputs, r), NEW x \in 1..Len(r.nodes),
           \A v : Holds(r.nodes, v, x) <=> (bit \in v <=> bit \in Term.value),
           nodes' = r.nodes, andIds' = Append(andIds, x), bit' = bit + 1,
           UNCHANGED <<numInputs, todo>>
    PROVE  TermOK'
<1>1. /\ Sound(nodes, numInputs) /\ numInputs \in Nat /\ TermOK
      /\ Term.mask \subseteq 0..(numInputs - 1)
  BY TermFacts
<1>2. andIds \in Ids(nodes) /\ bit \in 0..numInputs
  BY <1>1 DEF TermOK
<1>3. /\ andIds \in Ids(r.nodes)
      /\ \A v : \A id \in 1..Len(nodes) : Holds(r.nodes, v, id) <=> Holds(nodes, v, id)
  BY <1>1, <1>2, GoesOn
<1>4. andIds' \in Ids(nodes') /\ ToSet(andIds') = ToSet(andIds) \cup {x}
  <2>1. andIds \in Seq(1..Len(r.nodes))
    BY <1>3 DEF Ids
  <2> QED BY <2>1, AppendIs DEF Ids
<1>5. bit' \in 0..numInputs'
  BY <1>1, <1>2
<1>6. Term' = Term
  BY DEF Term
<1>7. \A a \in ToSet(andIds) : a \in 1..Len(nodes)
  BY <1>2 DEF Ids, ToSet
<1>8. ASSUME NEW v \in Vectors(numInputs)
      PROVE  (\A a \in ToSet(andIds') : Holds(nodes', v, a))
                 <=> \A b \in Term.mask : b < bit' => (b \in v <=> b \in Term.value)
  <2>1. (\A a \in ToSet(andIds) : Holds(nodes, v, a))
            <=> \A b \in Term.mask : b < bit => (b \in v <=> b \in Term.value)
    BY <1>1 DEF TermOK
  <2>2. \A a \in ToSet(andIds) : Holds(nodes', v, a) <=> Holds(nodes, v, a)
    BY <1>3, <1>7
  <2>3. Holds(nodes', v, x) <=> (bit \in v <=> bit \in Term.value)
    OBVIOUS
  <2>4. \A b \in Term.mask : b < bit' <=> (b < bit \/ b = bit)
    BY <1>1, <1>2
  <2>5. (\A a \in ToSet(andIds') : Holds(nodes', v, a))
            <=> (\A a \in ToSet(andIds) : Holds(nodes, v, a)) /\ Holds(nodes', v, x)
    BY <1>4, <2>2
  <2>6. (\A b \in Term.mask : b < bit' => (b \in v <=> b \in Term.value))
            <=> /\ \A b \in Term.mask : b < bit => (b \in v <=> b \in Term.value)
                /\ bit \in v <=> bit \in Term.value
    BY <2>4, Zenon
  <2> QED BY <2>1, <2>3, <2>5, <2>6
<1> QED BY <1>4, <1>5, <1>6, <1>8 DEF TermOK

LEMMA AddLiteralStep ==
    ASSUME GraphInv, AddLiteral
    PROVE  GraphInv'
<1>1. /\ state = "term" /\ todo # {} /\ bit < numInputs /\ Literal /\ bit' = bit + 1
      /\ state' = state /\ numInputs' = numInputs /\ pinIds' = pinIds /\ rootId' = rootId
      /\ table' = table /\ todo' = todo /\ orIds' = orIds
  BY DEF AddLiteral
<1>2. /\ Sound(nodes, numInputs) /\ pinIds = Pins(numInputs) /\ rootId \in 1..Len(nodes)
      /\ numInputs \in Nat /\ TermOK /\ CoverOK
      /\ table.on \subseteq Vectors(numInputs) /\ table.dc \subseteq Vectors(numInputs)
      /\ Term.mask \subseteq 0..(numInputs - 1)
  BY <1>1, TermFacts
<1>3. bit \in 0..(numInputs - 1) /\ bit \in 0..numInputs
  BY <1>1, <1>2 DEF TermOK
<1>4. /\ pinIds[bit + 1] = bit + 1 /\ bit + 1 \in 1..Len(nodes)
      /\ \A v : Holds(nodes, v, bit + 1) <=> bit \in v
  <2>1. bit + 1 \in 1..numInputs
    BY <1>2, <1>3
  <2>2. pinIds[bit + 1] = bit + 1
    BY <1>2, <2>1 DEF Pins
  <2>3. \A v : bit + 1 \in 1..Len(nodes) /\ (Holds(nodes, v, bit + 1) <=> bit \in v)
    BY <1>2, <1>3, PinIs
  <2> QED BY <2>2, <2>3
<1>5. \E r : Interned(nodes, numInputs, r) /\ nodes' = r.nodes /\ TermOK'
  <2>1. CASE bit \notin Term.mask
    <3>1. nodes' = nodes /\ andIds' = andIds
      BY <1>1, <2>1 DEF Literal
    <3>2. PICK r : r = At(nodes, bit + 1)
      OBVIOUS
    <3>3. Interned(nodes, numInputs, r) /\ r.nodes = nodes
      BY <1>2, <1>4, <3>2, WithinItself DEF At
    <3>4. Term' = Term
      BY <1>1 DEF Term
    <3>5. \A b \in Term.mask : b < bit' <=> b < bit
      BY <1>1, <1>2, <1>3, <2>1
    <3>6. bit' \in 0..numInputs
      BY <1>1, <1>2, <1>3
    <3>7. ASSUME NEW v \in Vectors(numInputs)
          PROVE  (\A a \in ToSet(andIds) : Holds(nodes, v, a))
                     <=> \A b \in Term.mask : b < bit' => (b \in v <=> b \in Term.value)
      BY <1>1, <1>2, <3>5 DEF TermOK
    <3>8. TermOK'
      BY <1>1, <1>2, <3>1, <3>4, <3>6, <3>7 DEF TermOK
    <3> QED BY <3>1, <3>3, <3>8
  <2>2. CASE bit \in Term.mask /\ bit \in Term.value
    <3>1. nodes' = nodes /\ andIds' = Append(andIds, bit + 1)
      BY <1>1, <1>4, <2>2 DEF Literal
    <3>2. PICK r : r = At(nodes, bit + 1)
      OBVIOUS
    <3>3. Interned(nodes, numInputs, r) /\ r.nodes = nodes
      BY <1>2, <1>4, <3>2, WithinItself DEF At
    <3>4. \A v : Holds(r.nodes, v, bit + 1) <=> (bit \in v <=> bit \in Term.value)
      BY <1>4, <2>2, <3>3
    <3>5. TermOK'
      BY <1>1, <1>4, <2>2, <3>1, <3>3, <3>4, OperandAdded
    <3> QED BY <3>1, <3>3, <3>5
  <2>3. CASE bit \in Term.mask /\ bit \notin Term.value
    <3>1. PICK r : r = InternNot(nodes, bit + 1)
      OBVIOUS
    <3>2. InternNode(nodes, "Not", <<pinIds[bit + 1]>>) = r
      BY <1>4, <3>1 DEF InternNode
    <3>3. nodes' = r.nodes /\ andIds' = Append(andIds, r.id)
      BY <1>1, <2>3, <3>2 DEF Literal
    <3>4. Interned(nodes, numInputs, r) /\ \A v : Holds(r.nodes, v, r.id) <=> ~Holds(nodes, v, bit + 1)
      BY <1>2, <1>4, <3>1, NotIs
    <3>5. \A v : Holds(r.nodes, v, r.id) <=> (bit \in v <=> bit \in Term.value)
      BY <1>4, <2>3, <3>4
    <3>6. r.id \in 1..Len(r.nodes)
      BY <3>4 DEF Interned
    <3>7. TermOK'
      BY <1>1, <2>3, <3>3, <3>4, <3>5, <3>6, OperandAdded
    <3> QED BY <3>3, <3>4, <3>7
  <2> QED BY <2>1, <2>2, <2>3
<1>6. PICK r : Interned(nodes, numInputs, r) /\ nodes' = r.nodes /\ TermOK'
  BY <1>5
<1>7. Sound(nodes', numInputs) /\ rootId \in 1..Len(nodes')
  BY <1>2, <1>6, GoesOn
<1>8. CoverOK'
  BY <1>1, <1>2, <1>6, BuiltStays
<1>9. GraphTypeOK'
  BY <1>1, <1>2, <1>7 DEF GraphTypeOK
<1>10. MinimizeOK' /\ GraphIsTheTable'
  BY <1>1 DEF MinimizeOK, GraphIsTheTable
<1> QED BY <1>6, <1>8, <1>9, <1>10 DEF GraphInv

\* The node of a term is true where the term covers.
LEMMA TermIs ==
    ASSUME GraphInv, state = "term", todo # {}, bit = numInputs \/ Term.mask = {},
           NEW r, r = IF Term.mask = {} THEN True(nodes) ELSE InternNode(nodes, "And", andIds)
    PROVE  /\ Interned(nodes, numInputs, r)
           /\ \A v \in Vectors(numInputs) : Holds(r.nodes, v, r.id) <=> Covers(Term, v)
<1>1. /\ Sound(nodes, numInputs) /\ numInputs \in Nat /\ TermOK
      /\ Term \in ImplicantsOf(0..(numInputs - 1), table.on \cup table.dc)
      /\ Term.mask \subseteq 0..(numInputs - 1)
  BY TermFacts
<1>2. PICK p, allowed : p = Term /\ allowed = table.on \cup table.dc
  OBVIOUS
<1>3. p \in ImplicantsOf(0..(numInputs - 1), allowed)
  BY <1>1, <1>2
<1>4. \A v \in Vectors(numInputs) : Covers(Term, v) <=> \A b \in Term.mask : b \in v <=> b \in Term.value
  BY <1>1, <1>2, <1>3, ImplicantIs
<1>5. CASE Term.mask = {}
  <2>1. r = True(nodes)
    BY <1>5
  <2>2. Interned(nodes, numInputs, r) /\ IsTrueId(r.nodes, r.id)
    BY <1>1, <2>1, ConstantsAre
  <2>3. Sound(r.nodes, numInputs) /\ r.id \in 1..Len(r.nodes)
    BY <2>2 DEF Interned
  <2>4. \A v : Holds(r.nodes, v, r.id)
    BY <2>2, <2>3, ConstantsHold
  <2> QED BY <1>4, <1>5, <2>2, <2>4
<1>6. CASE Term.mask # {}
  <2>1. bit = numInputs
    BY <1>6
  <2>2. r = InternAndOr(nodes, "And", andIds)
    BY <1>6 DEF InternNode
  <2>3. ToSet(andIds) \subseteq 1..Len(nodes)
    BY <1>1 DEF TermOK, Ids, ToSet
  <2>4. Interned(nodes, numInputs, r) /\ \A v : Holds(r.nodes, v, r.id) <=> Combined(nodes, "And", ToSet(andIds), v)
    BY <1>1, <2>2, <2>3, AndOrIs
  <2>5. ASSUME NEW v \in Vectors(numInputs) PROVE Combined(nodes, "And", ToSet(andIds), v) <=> Covers(Term, v)
    <3>1. (\A a \in ToSet(andIds) : Holds(nodes, v, a))
              <=> \A b \in Term.mask : b < bit => (b \in v <=> b \in Term.value)
      BY <1>1 DEF TermOK
    <3>2. \A b \in Term.mask : b < bit
      BY <1>1, <2>1
    <3>3. Combined(nodes, "And", ToSet(andIds), v) <=> \A a \in ToSet(andIds) : Holds(nodes, v, a)
      BY DEF Combined
    <3> QED BY <1>4, <3>1, <3>2, <3>3
  <2> QED BY <2>4, <2>5
<1> QED BY <1>5, <1>6


LEMMA EndTermStep ==
    ASSUME GraphInv, EndTerm
    PROVE  GraphInv'
<1>1. PICK r : r = IF Term.mask = {} THEN True(nodes) ELSE InternNode(nodes, "And", andIds)
  OBVIOUS
<1>2. /\ state = "term" /\ todo # {} /\ (bit = numInputs \/ Term.mask = {})
      /\ nodes' = r.nodes /\ orIds' = Append(orIds, r.id) /\ todo' = todo \ {Term}
      /\ bit' = 0 /\ andIds' = <<>> /\ state' = state /\ numInputs' = numInputs
      /\ pinIds' = pinIds /\ rootId' = rootId /\ table' = table
  BY <1>1 DEF EndTerm
<1>3. /\ Sound(nodes, numInputs) /\ pinIds = Pins(numInputs) /\ rootId \in 1..Len(nodes)
      /\ numInputs \in Nat /\ CoverOK /\ Term \in todo
      /\ table.on \subseteq Vectors(numInputs) /\ table.dc \subseteq Vectors(numInputs)
  BY <1>2, TermFacts
<1>4. /\ Interned(nodes, numInputs, r)
      /\ \A v \in Vectors(numInputs) : Holds(r.nodes, v, r.id) <=> Covers(Term, v)
  BY <1>1, <1>2, TermIs
<1>5. /\ Sound(nodes', numInputs) /\ rootId \in 1..Len(nodes') /\ r.id \in 1..Len(nodes')
      /\ \A s \in Ids(nodes) : s \in Ids(nodes')
      /\ \A v : \A id \in 1..Len(nodes) : Holds(nodes', v, id) <=> Holds(nodes, v, id)
  BY <1>2, <1>3, <1>4, GoesOn
<1>6. orIds \in Ids(nodes) /\ todo' \subseteq ImplicantsOf(0..(numInputs' - 1), table'.on \cup table'.dc)
  BY <1>2, <1>3 DEF CoverOK
<1>7. orIds' \in Ids(nodes') /\ ToSet(orIds') = ToSet(orIds) \cup {r.id}
  <2>1. orIds \in Seq(1..Len(nodes'))
    BY <1>5, <1>6 DEF Ids
  <2> QED BY <1>2, <1>5, <2>1, AppendIs DEF Ids
<1>8. ASSUME NEW v \in Vectors(numInputs) PROVE Built(v)' <=> Built(v)
  <2>1. \A a \in ToSet(orIds) : a \in 1..Len(nodes)
    BY <1>6 DEF Ids, ToSet
  <2>2. (\E a \in ToSet(orIds') : Holds(nodes', v, a))
            <=> (\E a \in ToSet(orIds) : Holds(nodes, v, a)) \/ Holds(nodes', v, r.id)
    BY <1>5, <1>7, <2>1
  <2>3. Holds(nodes', v, r.id) <=> Covers(Term, v)
    BY <1>2, <1>4
  <2>4. (\E p \in todo : Covers(p, v)) <=> (\E p \in todo' : Covers(p, v)) \/ Covers(Term, v)
    BY <1>2, <1>3
  <2> QED BY <2>2, <2>3, <2>4 DEF Built
<1>9. CoverOK'
  BY <1>2, <1>3, <1>6, <1>7, <1>8 DEF CoverOK
<1>10. TermOK'
  BY <1>2, <1>3, <1>6, TermBegins
<1>11. GraphTypeOK'
  BY <1>2, <1>3, <1>5 DEF GraphTypeOK
<1>12. MinimizeOK' /\ GraphIsTheTable'
  BY <1>2 DEF MinimizeOK, GraphIsTheTable
<1> QED BY <1>9, <1>10, <1>11, <1>12 DEF GraphInv

\* The OR of the terms is true where one of them covers.
LEMMA EndBuildStep ==
    ASSUME GraphInv, EndBuild
    PROVE  GraphInv'
<1>1. PICK r : r = InternNode(nodes, "Or", orIds)
  OBVIOUS
<1>2. /\ state = "term" /\ todo = {} /\ nodes' = r.nodes /\ rootId' = r.id /\ state' = "ready"
      /\ numInputs' = numInputs /\ pinIds' = pinIds /\ table' = table
  BY <1>1 DEF EndBuild
<1>3. /\ Sound(nodes, numInputs) /\ pinIds = Pins(numInputs) /\ numInputs \in Nat /\ CoverOK
      /\ table.on \subseteq Vectors(numInputs) /\ table.dc \subseteq Vectors(numInputs)
  BY <1>2, TermFacts
<1>4. ToSet(orIds) \subseteq 1..Len(nodes)
  BY <1>3 DEF CoverOK, Ids, ToSet
<1>5. r = InternAndOr(nodes, "Or", orIds)
  BY <1>1 DEF InternNode
<1>6. Interned(nodes, numInputs, r) /\ \A v : Holds(r.nodes, v, r.id) <=> Combined(nodes, "Or", ToSet(orIds), v)
  BY <1>3, <1>4, <1>5, AndOrIs
<1>7. Sound(nodes', numInputs) /\ rootId' \in 1..Len(nodes')
  BY <1>2, <1>6 DEF Interned
<1>8. GraphTypeOK'
  BY <1>2, <1>3, <1>7 DEF GraphTypeOK
<1>9. ASSUME NEW v \in Vectors(numInputs) PROVE Holds(nodes', v, rootId') <=> Built(v)
  <2>1. Combined(nodes, "Or", ToSet(orIds), v) <=> \E a \in ToSet(orIds) : Holds(nodes, v, a)
    BY DEF Combined
  <2> QED BY <1>2, <1>6, <2>1 DEF Built
<1>10. \A v : v \in Table(nodes', rootId', numInputs) <=> v \in Vectors(numInputs) /\ Holds(nodes', v, rootId')
  BY <1>7, TableIs
<1>11. \A v \in Vectors(numInputs) : (v \in table.on => Built(v)) /\ (Built(v) => v \in table.on \cup table.dc)
  BY <1>3 DEF CoverOK
<1>12. /\ table.on \subseteq Table(nodes', rootId', numInputs)
       /\ Table(nodes', rootId', numInputs) \subseteq table.on \cup table.dc
  BY <1>3, <1>9, <1>10, <1>11
<1>13. GraphIsTheTable'
  BY <1>2, <1>12 DEF GraphIsTheTable
<1>14. MinimizeOK'
  BY <1>2 DEF MinimizeOK
<1> QED BY <1>2, <1>8, <1>13, <1>14 DEF GraphInv

LEMMA InternStep ==
    ASSUME GraphInv, NEW ask \in ByHand(nodes), Intern(ask[1], ask[2])
    PROVE  GraphInv'
<1>1. PICK r : r = InternNode(nodes, ask[1], ask[2])
  OBVIOUS
<1>2. /\ state = "ready" /\ table = NoTable /\ nodes' = r.nodes
      /\ state' = state /\ numInputs' = numInputs /\ pinIds' = pinIds /\ rootId' = rootId /\ table' = table
  BY <1>1 DEF Intern
<1>3. Sound(nodes, numInputs) /\ pinIds = Pins(numInputs) /\ rootId \in 1..Len(nodes) /\ numInputs \in Nat
      /\ table.on \subseteq Vectors(numInputs) /\ table.dc \subseteq Vectors(numInputs)
  BY <1>2 DEF GraphInv, GraphTypeOK
<1>4. Interned(nodes, numInputs, r)
  BY <1>1, <1>3, InternIs
<1>5. Sound(nodes', numInputs) /\ rootId \in 1..Len(nodes')
  BY <1>2, <1>3, <1>4, GoesOn
<1>6. GraphTypeOK'
  BY <1>2, <1>3, <1>5 DEF GraphTypeOK
<1>7. MinimizeOK' /\ GraphIsTheTable'
  BY <1>2 DEF MinimizeOK, GraphIsTheTable
<1> QED BY <1>2, <1>6, <1>7 DEF GraphInv

LEMMA ReloadStep ==
    ASSUME GraphInv, Reload
    PROVE  GraphInv'
<1>1. state = "ready" /\ numInputs' = numInputs /\ rootId' = rootId /\ table' = table
  BY DEF Reload
<1>2. Sound(nodes, numInputs) /\ pinIds = Pins(numInputs) /\ rootId \in 1..Len(nodes) /\ numInputs \in Nat
  BY <1>1 DEF GraphInv, GraphTypeOK
<1>3. /\ Accepted(nodes, rootId, numInputs)
      /\ [id \in DOMAIN nodes |-> Sorted(nodes[id])] = nodes
      /\ [i \in 1..numInputs |-> FirstPin(nodes, i - 1)] = Pins(numInputs)
  BY <1>2, ReloadIs
<1>4. nodes' = nodes /\ pinIds' = pinIds /\ state' = state
  BY <1>2, <1>3 DEF Reload
<1>5. GraphTypeOK'
  BY <1>1, <1>4 DEF GraphInv, GraphTypeOK
<1>6. MinimizeOK'
  BY <1>1, <1>4 DEF MinimizeOK
<1>7. GraphIsTheTable'
  BY <1>1, <1>4 DEF GraphInv, GraphIsTheTable, Table
<1> QED BY <1>1, <1>4, <1>5, <1>6, <1>7 DEF GraphInv

LEMMA GraphStutters ==
    ASSUME GraphInv, UNCHANGED modelVars
    PROVE  GraphInv'
<1>1. UNCHANGED <<coverVars, state, graphVars, buildVars>>
  BY DEF modelVars
<1>2. /\ UNCHANGED coverVars /\ state' = state /\ numInputs' = numInputs /\ nodes' = nodes
      /\ pinIds' = pinIds /\ rootId' = rootId /\ table' = table
      /\ todo' = todo /\ bit' = bit /\ andIds' = andIds /\ orIds' = orIds
  BY <1>1 DEF graphVars, buildVars
<1>3. GraphTypeOK' /\ GraphIsTheTable'
  BY <1>2 DEF GraphInv, GraphTypeOK, GraphIsTheTable, Table
<1>4. MinimizeOK'
  <2>1. PICK i, o, d : i = 0..(numInputs - 1) /\ o = table.on /\ d = table.dc
    OBVIOUS
  <2>2. CoverInv(i, o, d) => CoverInv(i, o, d)'
    BY <1>2, CoverStutterInv
  <2> QED BY <1>2, <2>1, <2>2 DEF GraphInv, MinimizeOK
<1>5. Term' = Term
  BY <1>2 DEF Term
<1>6. TermOK => TermOK'
  BY <1>2, <1>5 DEF TermOK
<1>7. CoverOK => CoverOK'
  BY <1>2 DEF CoverOK, Built
<1> QED BY <1>2, <1>3, <1>4, <1>6, <1>7 DEF GraphInv

LEMMA GraphBegins == GraphInit => GraphInv
<1> SUFFICES ASSUME GraphInit PROVE GraphInv
  OBVIOUS
<1>1. state = "none" /\ numInputs = 0 /\ nodes = <<>> /\ table = NoTable
  BY DEF GraphInit
<1>2. table.on = {} /\ table.dc = {}
  BY <1>1 DEF NoTable
<1>3. GraphTypeOK
  BY <1>1, <1>2 DEF GraphTypeOK
<1>4. MinimizeOK /\ GraphIsTheTable
  BY <1>1 DEF MinimizeOK, GraphIsTheTable
<1> QED BY <1>1, <1>3, <1>4 DEF GraphInv

LEMMA GraphSteps == GraphInv /\ [GraphNext]_modelVars => GraphInv'
<1> SUFFICES ASSUME GraphInv, [GraphNext]_modelVars PROVE GraphInv'
  OBVIOUS
<1>1. ASSUME NEW t \in Tables, New(t.inputs) \/ Compress(t) \/ CompressAdvanced(t) PROVE GraphInv'
  BY <1>1, NewStep, CompressStep, CompressAdvancedStep
<1>2. CASE Minimizes \/ Minimized
  BY <1>2, MinimizesStep, MinimizedStep
<1>3. CASE AddLiteral \/ EndTerm \/ EndBuild
  BY <1>3, AddLiteralStep, EndTermStep, EndBuildStep
<1>4. ASSUME NEW ask \in ByHand(nodes), Intern(ask[1], ask[2]) PROVE GraphInv'
  BY <1>4, InternStep
<1>5. CASE Reload
  BY <1>5, ReloadStep
<1>6. CASE UNCHANGED modelVars
  BY <1>6, GraphStutters
<1> QED BY <1>1, <1>2, <1>3, <1>4, <1>5, <1>6 DEF GraphNext

----------------------------------------------------------------------------
(* Theorems.                                                               *)

\* The graph is sound in every state that can be reached, the exact minimizer keeps its
\* own invariant while the model waits for it, and while a graph is built the terms that
\* are built and those that are left cover the table (model.rs:118-670).
THEOREM GraphInvariant == GraphSpec => []GraphInv
<1>1. GraphInit => GraphInv
  BY GraphBegins
<1>2. GraphInv /\ [GraphNext]_modelVars => GraphInv'
  BY GraphSteps
<1> QED BY <1>1, <1>2, PTL DEF GraphSpec

\* Interning any node over any graph there can be returns a node with the value of the
\* operation and changes no other (model.rs:190-324).
THEOREM InterningCorrect == GraphSpec => []InternIsTheOperation
<1>1. GraphInv => InternIsTheOperation
  <2>1. CASE state = "ready"
    BY <2>1, InternedByHand DEF GraphInv, GraphTypeOK
  <2>2. CASE state # "ready"
    BY <2>2 DEF InternIsTheOperation
  <2> QED BY <2>1, <2>2
<1> QED BY <1>1, GraphInvariant, PTL

\* Every graph is simplified and shared as far as the operands of its nodes allow
\* (model.rs:190-324).
THEOREM GraphsAreReduced == GraphSpec => []GraphIsReduced
<1>1. ASSUME GraphInv PROVE GraphIsReduced
  <2>1. CASE state = "none"
    <3>1. nodes = <<>>
      BY <1>1, <2>1 DEF GraphInv, GraphTypeOK
    <3>2. DOMAIN nodes = {}
      BY <3>1, NoOperands, Zenon
    <3> QED BY <3>2, Zenon DEF GraphIsReduced
  <2>2. CASE state # "none"
    BY <1>1, <2>2, SoundIsReduced DEF GraphInv, GraphTypeOK
  <2> QED BY <2>1, <2>2
<1> QED BY <1>1, GraphInvariant, PTL

\* What is saved is accepted when it is loaded, and the minimizer finds a cover for every
\* table (model.rs:326-447, 534-670).
THEOREM NothingRefused == GraphSpec => []NothingIsRefused
<1>1. GraphInv => NothingIsRefused
  BY DEF GraphInv, GraphTypeOK, NothingIsRefused
<1> QED BY <1>1, GraphInvariant, PTL

\* A graph that is built from a table, whichever minimizer gave the cover, has that table
\* (model.rs:326-486).
THEOREM TablesAreKept == GraphSpec => []GraphIsTheTable
<1>1. GraphInv => GraphIsTheTable
  BY DEF GraphInv
<1> QED BY <1>1, GraphInvariant, PTL

================================================================================
