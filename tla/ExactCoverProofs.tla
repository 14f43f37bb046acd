---------------------------- MODULE ExactCoverProofs ----------------------------
(***************************************************************************)
(* Proofs about the exact minimizer of ExactCover: that merging finds      *)
(* every prime implicant, that the rows selected as essential are in every *)
(* cover, and that no bound of the search cuts off a minimum.              *)
(***************************************************************************)
EXTENDS ExactCover, DataLemmas, SequenceTheorems

----------------------------------------------------------------------------
(* Cubes.                                                                  *)

CubesOver(inputs) ==
    {p \in [mask : SUBSET inputs, value : SUBSET inputs] : p.value \subseteq p.mask}

\* A cube covers another if it covers all the minterms of it.
Above(p, q) == p.mask \subseteq q.mask /\ q.value \cap p.mask = p.value

\* The cubes that cover no minterm outside the allowed ones.
ImplicantsOf(inputs, allowed) ==
    {p \in CubesOver(inputs) : \A m \in SUBSET inputs : Covers(p, m) => m \in allowed}

LEMMA CubeType ==
    ASSUME NEW inputs, NEW p \in CubesOver(inputs)
    PROVE  /\ p = [mask |-> p.mask, value |-> p.value]
           /\ p.mask \subseteq inputs /\ p.value \subseteq p.mask /\ p.value \in SUBSET inputs
           /\ Covers(p, p.value)
BY DEF CubesOver, Covers

LEMMA CubeMake ==
    ASSUME NEW inputs, NEW k, NEW v, k \subseteq inputs, v \subseteq k
    PROVE  /\ [mask |-> k, value |-> v] \in CubesOver(inputs)
           /\ [mask |-> k, value |-> v].mask = k /\ [mask |-> k, value |-> v].value = v
BY DEF CubesOver

LEMMA CubesEqual ==
    ASSUME NEW inputs, NEW p \in CubesOver(inputs), NEW q \in CubesOver(inputs),
           p.mask = q.mask, p.value = q.value
    PROVE  p = q
BY CubeType

LEMMA CubesAreFinite ==
    ASSUME NEW inputs, IsFiniteSet(inputs)
    PROVE  /\ IsFiniteSet(CubesOver(inputs))
           /\ \A p \in CubesOver(inputs) :
                  IsFiniteSet(p.mask) /\ LiteralCount(p) \in Nat /\ LiteralCount(p) <= Cardinality(inputs)
<1> DEFINE pairs == (SUBSET inputs) \X (SUBSET inputs)
           f == [p \in CubesOver(inputs) |-> <<p.mask, p.value>>]
<1>1. IsFiniteSet(pairs)
  BY FS_SUBSET, FS_Product
<1>2. f \in Injection(CubesOver(inputs), pairs)
  <2>1. f \in [CubesOver(inputs) -> pairs]
    BY CubeType
  <2>2. ASSUME NEW p \in CubesOver(inputs), NEW q \in CubesOver(inputs), f[p] = f[q]
        PROVE  p = q
    BY <2>2, CubesEqual
  <2>3. QED
    BY <2>1, <2>2, Zenon DEF Injection, IsInjective
<1> HIDE DEF f, pairs
<1>3. IsFiniteSet(CubesOver(inputs))
  BY <1>1, <1>2, FS_Injection
<1>4. ASSUME NEW p \in CubesOver(inputs)
      PROVE  IsFiniteSet(p.mask) /\ LiteralCount(p) \in Nat /\ LiteralCount(p) <= Cardinality(inputs)
  BY CubeType, FS_Subset, FS_CardinalityType DEF LiteralCount
<1>5. QED
  BY <1>3, <1>4

LEMMA AboveCovers ==
    ASSUME NEW inputs, NEW p \in CubesOver(inputs), NEW q \in CubesOver(inputs), Above(p, q)
    PROVE  /\ \A m \in SUBSET inputs : Covers(q, m) => Covers(p, m)
           /\ \A r \in CubesOver(inputs) : Above(q, r) => Above(p, r)
BY CubeType DEF Above, Covers

\* What is below an implicant is one.
LEMMA BelowImplicant ==
    ASSUME NEW inputs, NEW allowed, NEW p \in ImplicantsOf(inputs, allowed),
           NEW q \in CubesOver(inputs), Above(p, q)
    PROVE  q \in ImplicantsOf(inputs, allowed)
BY AboveCovers DEF ImplicantsOf

LEMMA MintermIsImplicant ==
    ASSUME NEW inputs, NEW allowed, NEW m \in SUBSET inputs, m \in allowed
    PROVE  /\ Minterm(m, inputs) \in ImplicantsOf(inputs, allowed)
           /\ \A x \in SUBSET inputs : Covers(Minterm(m, inputs), x) <=> x = m
<1>1. Minterm(m, inputs) \in CubesOver(inputs) /\ Minterm(m, inputs).mask = inputs
      /\ Minterm(m, inputs).value = m
  BY CubeMake DEF Minterm
<1>2. \A x \in SUBSET inputs : Covers(Minterm(m, inputs), x) <=> x = m
  BY <1>1 DEF Covers
<1>3. QED
  BY <1>1, <1>2 DEF ImplicantsOf

----------------------------------------------------------------------------
(* Literals.                                                               *)

\* The pairs that Literals counts.
LiteralPairs(cover) == UNION {{p} \X p.mask : p \in cover}

\* A cube that is added adds its own literals.
LEMMA LiteralsAdd ==
    ASSUME NEW inputs, IsFiniteSet(inputs), NEW c \in SUBSET CubesOver(inputs),
           IsFiniteSet(LiteralPairs(c)), NEW p \in CubesOver(inputs), p \notin c
    PROVE  /\ IsFiniteSet(LiteralPairs(c \cup {p}))
           /\ Literals(c \cup {p}) = Literals(c) + LiteralCount(p)
<1>1. IsFiniteSet({p} \X p.mask) /\ Cardinality({p} \X p.mask) = LiteralCount(p)
  <2>1. IsFiniteSet({p}) /\ Cardinality({p}) = 1 /\ IsFiniteSet(p.mask) /\ Cardinality(p.mask) \in Nat
    BY FS_Singleton, CubesAreFinite, FS_CardinalityType
  <2>2. QED
    BY <2>1, FS_Product DEF LiteralCount
<1>2. LiteralPairs(c \cup {p}) = LiteralPairs(c) \cup ({p} \X p.mask)
  BY DEF LiteralPairs
<1>3. LiteralPairs(c) \cap ({p} \X p.mask) = {}
  BY DEF LiteralPairs
<1>4. /\ IsFiniteSet(LiteralPairs(c \cup {p}))
      /\ Cardinality(LiteralPairs(c \cup {p})) = Cardinality(LiteralPairs(c)) + LiteralCount(p)
  <2> DEFINE old == LiteralPairs(c)
             new == {p} \X p.mask
  <2>1. old \cap new = {} /\ IsFiniteSet(old) /\ IsFiniteSet(new)
    BY <1>1, <1>3
  <2> HIDE DEF old, new
  <2>2. IsFiniteSet(old \cup new) /\ Cardinality(old \cup new) = Cardinality(old) + Cardinality(new)
    BY <2>1, DisjointUnion
  <2> USE DEF old, new
  <2>3. QED
    BY <1>1, <1>2, <2>2
<1>5. QED
  BY <1>4 DEF Literals, LiteralPairs

LEMMA LiteralsType ==
    ASSUME NEW inputs, IsFiniteSet(inputs), NEW c \in SUBSET CubesOver(inputs)
    PROVE  IsFiniteSet(c) /\ IsFiniteSet(LiteralPairs(c)) /\ Literals(c) \in Nat /\ Cardinality(c) \in Nat
<1>1. IsFiniteSet(c) /\ IsFiniteSet(CubesOver(inputs))
  BY CubesAreFinite, FS_Subset
<1> DEFINE Q == {d \in SUBSET c : IsFiniteSet(LiteralPairs(d))}
<1>2. {} \in Q
  <2>1. LiteralPairs({}) = {}
    BY DEF LiteralPairs
  <2>2. QED
    BY <2>1, FS_EmptySet
<1>3. ASSUME NEW d \in SUBSET c, NEW p \in c, d \in Q, p \notin d
      PROVE  d \cup {p} \in Q
  BY <1>3, LiteralsAdd
<1> HIDE DEF Q
<1>4. c \in Q
  BY <1>1, <1>2, <1>3, SetInduction
<1>5. QED
  BY <1>1, <1>4, FS_CardinalityType DEF Q, Literals, LiteralPairs

LEMMA LiteralsOfNone == Literals({}) = 0
<1>1. UNION {{p} \X p.mask : p \in {}} = {}
  OBVIOUS
<1>2. QED
  BY <1>1, FS_EmptySet DEF Literals

LEMMA LiteralsOfOneMore ==
    ASSUME NEW inputs, IsFiniteSet(inputs), NEW c \in SUBSET CubesOver(inputs),
           NEW p \in CubesOver(inputs), p \notin c
    PROVE  Literals(c \cup {p}) = Literals(c) + LiteralCount(p)
BY LiteralsType, LiteralsAdd

\* The literals of disjoint covers add up.
LEMMA LiteralsOfParts ==
    ASSUME NEW inputs, IsFiniteSet(inputs), NEW c \in SUBSET CubesOver(inputs),
           NEW d \in SUBSET CubesOver(inputs), c \cap d = {}
    PROVE  Literals(c \cup d) = Literals(c) + Literals(d)
<1>1. LiteralPairs(c \cup d) = LiteralPairs(c) \cup LiteralPairs(d)
  BY DEF LiteralPairs
<1>2. LiteralPairs(c) \cap LiteralPairs(d) = {}
  BY DEF LiteralPairs
<1>3. QED
  BY <1>1, <1>2, LiteralsType, DisjointUnion DEF Literals, LiteralPairs

LEMMA FewerTerms ==
    ASSUME NEW inputs, IsFiniteSet(inputs), NEW c \in SUBSET CubesOver(inputs), NEW d \in SUBSET c
    PROVE  /\ Literals(d) <= Literals(c)
           /\ Cardinality(d) <= Cardinality(c)
           /\ Cardinality(c) = Cardinality(d) + Cardinality(c \ d)
           /\ Literals(c) = Literals(d) + Literals(c \ d)
           /\ Cardinality(c) = Cardinality(d) => c = d
<1>1. c = d \cup (c \ d) /\ d \cap (c \ d) = {} /\ c \ d \in SUBSET CubesOver(inputs)
      /\ d \in SUBSET CubesOver(inputs)
  OBVIOUS
<1>2. Literals(c) = Literals(d) + Literals(c \ d)
  BY <1>1, LiteralsOfParts
<1>3. IsFiniteSet(c) /\ IsFiniteSet(d) /\ IsFiniteSet(c \ d)
      /\ Literals(d) \in Nat /\ Literals(c \ d) \in Nat
  BY <1>1, LiteralsType
<1>4. Cardinality(c) = Cardinality(d) + Cardinality(c \ d)
  BY <1>1, <1>3, DisjointUnion
<1>5. QED
  BY <1>2, <1>3, <1>4, FS_Subset

\* Terms with so many literals each, or more, have that many times their number.
LEMMA LiteralsAtLeast ==
    ASSUME NEW inputs, IsFiniteSet(inputs), NEW c \in SUBSET CubesOver(inputs), NEW k \in Nat,
           \A p \in c : k <= LiteralCount(p)
    PROVE  k * Cardinality(c) <= Literals(c)
<1> DEFINE Q == {d \in SUBSET c : k * Cardinality(d) <= Literals(d)}
<1>1. {} \in Q
  BY LiteralsOfNone, FS_EmptySet
<1>2. ASSUME NEW d \in SUBSET c, NEW p \in c, d \in Q, p \notin d
      PROVE  d \cup {p} \in Q
  <2>1. Cardinality(d \cup {p}) = Cardinality(d) + 1 /\ Cardinality(d) \in Nat
    BY <1>2, LiteralsType, FS_AddElement
  <2>2. Literals(d \cup {p}) = Literals(d) + LiteralCount(p) /\ Literals(d) \in Nat
    BY <1>2, LiteralsOfOneMore, LiteralsType
  <2>3. LiteralCount(p) \in Nat /\ k <= LiteralCount(p)
    BY CubesAreFinite
  <2>4. k * (Cardinality(d) + 1) = k * Cardinality(d) + k
    BY <2>1
  <2>5. QED
    BY <1>2, <2>1, <2>2, <2>3, <2>4
<1> HIDE DEF Q
<1>3. c \in Q
  BY <1>1, <1>2, SetInduction, LiteralsType
<1>4. QED
  BY <1>3 DEF Q

\* Terms that cover so many minterms each, or fewer, cover that many times their number
\* at most.
LEMMA CoveredAtMost ==
    ASSUME NEW inputs, IsFiniteSet(inputs), NEW c \in SUBSET CubesOver(inputs), NEW k \in Nat,
           NEW left, IsFiniteSet(left),
           \A p \in c : Cardinality({m \in left : Covers(p, m)}) <= k,
           \A m \in left : \E p \in c : Covers(p, m)
    PROVE  Cardinality(left) <= k * Cardinality(c)
<1> DEFINE Hit(d) == {m \in left : \E p \in d : Covers(p, m)}
           Q == {d \in SUBSET c : Cardinality(Hit(d)) <= k * Cardinality(d)}
<1>1. {} \in Q
  <2>1. Hit({}) = {}
    OBVIOUS
  <2>2. QED
    BY <2>1, FS_EmptySet
<1>2. ASSUME NEW d \in SUBSET c, NEW p \in c, d \in Q, p \notin d
      PROVE  d \cup {p} \in Q
  <2> DEFINE one == {m \in left : Covers(p, m)}
  <2>1. Cardinality(d \cup {p}) = Cardinality(d) + 1 /\ Cardinality(d) \in Nat
    BY <1>2, LiteralsType, FS_AddElement
  <2>2. IsFiniteSet(Hit(d)) /\ IsFiniteSet(one) /\ Cardinality(Hit(d)) \in Nat /\ Cardinality(one) \in Nat
    BY FS_Subset, FS_CardinalityType
  <2>3. Hit(d \cup {p}) = Hit(d) \cup one
    OBVIOUS
  <2>5. Cardinality(Hit(d) \cup one) <= Cardinality(Hit(d)) + Cardinality(one)
    <3> HIDE DEF Hit, one
    <3>1. QED
      BY <2>2, UnionBound
  <2>6. Cardinality(one) <= k /\ Cardinality(Hit(d)) <= k * Cardinality(d)
    BY <1>2
  <2>7. k * (Cardinality(d) + 1) = k * Cardinality(d) + k /\ k * Cardinality(d) \in Nat
    BY <2>1
  <2>8. Cardinality(Hit(d \cup {p})) <= k * Cardinality(d \cup {p})
    <3>1. Cardinality(Hit(d \cup {p})) = Cardinality(Hit(d) \cup one)
      BY <2>3
    <3>2. Cardinality(Hit(d) \cup one) \in Nat
      BY <2>2, FS_Union, FS_CardinalityType
    <3> HIDE DEF Hit, one
    <3>3. QED
      BY <2>1, <2>2, <2>5, <2>6, <2>7, <3>1, <3>2
  <2>9. QED
    BY <2>8
<1>3. c \in Q
  <2> HIDE DEF Q
  <2>1. QED
    BY <1>1, <1>2, SetInduction, LiteralsType
<1>4. Hit(c) = left
  OBVIOUS
<1>5. QED
  BY <1>3, <1>4

----------------------------------------------------------------------------
(* Merging.  A level holds every implicant of the masks it holds one of,   *)
(* and every implicant is below a prime, or below or above a term of the   *)
(* level: so nothing is lost when the terms that merge are replaced.       *)

FullLevel(inputs, allowed) ==
    \A p \in terms : \A q \in ImplicantsOf(inputs, allowed) : q.mask = p.mask => q \in terms
Reached(p) ==
    \/ \E q \in primes \cup terms : Above(q, p)
    \/ \E q \in terms : Above(p, q)
MergeInv(inputs, allowed) ==
    /\ terms \subseteq ImplicantsOf(inputs, allowed)
    /\ FullLevel(inputs, allowed)
    /\ \A p \in ImplicantsOf(inputs, allowed) : Reached(p)

\* Two cubes merge if they differ in one input; the merged one leaves it out.
LEMMA MergeableMeans ==
    ASSUME NEW inputs, IsFiniteSet(inputs), NEW p \in CubesOver(inputs), NEW q \in CubesOver(inputs)
    PROVE  /\ Mergeable(p, q) <=>
                  p.mask = q.mask /\ \E v \in p.mask : SymDiff(p.value, q.value) = {v}
           /\ \A v \in p.mask : SymDiff(p.value, q.value) = {v} =>
                  /\ Merged(p, q).mask = p.mask \ {v} /\ Merged(p, q).value = p.value \ {v}
                  /\ Merged(p, q) \in CubesOver(inputs)
                  /\ p.mask = q.mask => Above(Merged(p, q), p)
<1>1. /\ p.mask \subseteq inputs /\ p.value \subseteq p.mask
      /\ q.mask \subseteq inputs /\ q.value \subseteq q.mask
  BY CubeType
<1>2. SymDiff(p.value, q.value) \in SUBSET inputs
  BY <1>1 DEF SymDiff
<1>3. IsFiniteSet(SymDiff(p.value, q.value))
  BY <1>2, FS_Subset
<1>4. Cardinality(SymDiff(p.value, q.value)) = 1 <=> \E v : SymDiff(p.value, q.value) = {v}
  BY <1>3, FS_Singleton
<1>5. \A v : SymDiff(p.value, q.value) = {v} /\ p.mask = q.mask => v \in p.mask
  BY <1>1 DEF SymDiff
<1>6. Mergeable(p, q) <=> p.mask = q.mask /\ \E v \in p.mask : SymDiff(p.value, q.value) = {v}
  BY <1>4, <1>5 DEF Mergeable
<1>7. ASSUME NEW v \in p.mask, SymDiff(p.value, q.value) = {v}
      PROVE  /\ Merged(p, q).mask = p.mask \ {v} /\ Merged(p, q).value = p.value \ {v}
             /\ Merged(p, q) \in CubesOver(inputs)
             /\ p.mask = q.mask => Above(Merged(p, q), p)
  <2>1. Merged(p, q) = [mask |-> p.mask \ {v}, value |-> p.value \ {v}]
    BY <1>7 DEF Merged
  <2>2. Merged(p, q) \in CubesOver(inputs)
    BY <1>1, <2>1, CubeMake
  <2>3. QED
    BY <1>1, <2>1, <2>2 DEF Above
<1>8. QED
  BY <1>6, <1>7

\* The next level: every term of it is the merge of two of this one that differ in one
\* input, and every two such have their merge in it.
LEMMA NextLevel ==
    ASSUME NEW inputs, IsFiniteSet(inputs), terms \subseteq CubesOver(inputs), MergeLevel
    PROVE  /\ \A r \in terms' : \E p, q \in terms : \E v \in p.mask :
                  /\ p.mask = q.mask /\ SymDiff(p.value, q.value) = {v} /\ r = Merged(p, q)
           /\ \A p, q \in terms : \A v \in p.mask :
                  p.mask = q.mask /\ SymDiff(p.value, q.value) = {v} => Merged(p, q) \in terms'
           /\ \A p \in terms : p \in primes' \/ \E q \in terms : Mergeable(p, q)
           /\ primes \subseteq primes' /\ primes' \subseteq primes \cup terms
<1>1. terms' = {Merged(pq[1], pq[2]) : pq \in {u \in terms \X terms : Mergeable(u[1], u[2])}}
      /\ primes' = primes \cup {p \in terms : \A q \in terms : ~Mergeable(p, q)}
  BY DEF MergeLevel
<1>2. ASSUME NEW p \in terms, NEW q \in terms, Mergeable(p, q)
      PROVE  Merged(p, q) \in terms'
  <2> DEFINE both == {u \in terms \X terms : Mergeable(u[1], u[2])}
             pair == <<p, q>>
  <2>1. pair \in both /\ pair[1] = p /\ pair[2] = q
    BY <1>2
  <2>2. terms' = {Merged(pq[1], pq[2]) : pq \in both}
    BY <1>1
  <2> HIDE DEF both, pair
  <2>3. Merged(pair[1], pair[2]) \in terms'
    BY <2>1, <2>2
  <2>4. QED
    BY <2>1, <2>3
<1>3. \A r \in terms' : \E p, q \in terms : Mergeable(p, q) /\ r = Merged(p, q)
  BY <1>1
<1>4. \A p, q \in terms : Mergeable(p, q) <=>
          p.mask = q.mask /\ \E v \in p.mask : SymDiff(p.value, q.value) = {v}
  BY MergeableMeans
<1>5. QED
  BY <1>1, <1>2, <1>3, <1>4, ZenonT(20)

LEMMA MergedIsImplicant ==
    ASSUME NEW inputs, IsFiniteSet(inputs), NEW allowed,
           NEW p \in ImplicantsOf(inputs, allowed), NEW q \in ImplicantsOf(inputs, allowed),
           NEW v \in p.mask, p.mask = q.mask, SymDiff(p.value, q.value) = {v}
    PROVE  Merged(p, q) \in ImplicantsOf(inputs, allowed)
<1>1. p \in CubesOver(inputs) /\ q \in CubesOver(inputs)
  BY DEF ImplicantsOf
<1>2. Merged(p, q) \in CubesOver(inputs) /\ Merged(p, q).mask = p.mask \ {v}
      /\ Merged(p, q).value = p.value \ {v}
  BY <1>1, MergeableMeans
<1>3. ASSUME NEW m \in SUBSET inputs, Covers(Merged(p, q), m)
      PROVE  Covers(p, m) \/ Covers(q, m)
  <2>1. m \cap (p.mask \ {v}) = p.value \ {v}
    BY <1>2, <1>3 DEF Covers
  <2>2. p.value \subseteq p.mask /\ q.value \subseteq p.mask
    BY <1>1, CubeType
  <2>3. CASE v \in m <=> v \in p.value
    <3>1. m \cap p.mask = p.value
      BY <2>1, <2>2, <2>3
    <3>2. QED
      BY <3>1 DEF Covers
  <2>4. CASE ~(v \in m <=> v \in p.value)
    <3>1. v \in p.value <=> v \notin q.value
      BY DEF SymDiff
    <3>2. \A u : u # v => (u \in p.value <=> u \in q.value)
      BY DEF SymDiff
    <3>3. m \cap q.mask = q.value
      BY <2>1, <2>2, <2>4, <3>1, <3>2
    <3>4. QED
      BY <3>3 DEF Covers
  <2>5. QED
    BY <2>3, <2>4
<1>4. QED
  BY <1>2, <1>3 DEF ImplicantsOf

LEMMA MergeLevelInv ==
    ASSUME NEW inputs, IsFiniteSet(inputs), NEW allowed, MergeInv(inputs, allowed), MergeLevel
    PROVE  MergeInv(inputs, allowed)'
<1> DEFINE imps == ImplicantsOf(inputs, allowed)
<1>1. terms \subseteq imps /\ imps \subseteq CubesOver(inputs) /\ terms \subseteq CubesOver(inputs)
  BY DEF MergeInv, ImplicantsOf
<1>2. terms' \subseteq imps
  <2>1. ASSUME NEW r \in terms' PROVE r \in imps
    <3>1. PICK p \in terms, q \in terms : \E v \in p.mask :
                  /\ p.mask = q.mask /\ SymDiff(p.value, q.value) = {v} /\ r = Merged(p, q)
      BY <1>1, NextLevel
    <3>2. QED
      BY <1>1, <3>1, MergedIsImplicant
  <2>2. QED
    BY <2>1
<1>3. FullLevel(inputs, allowed)'
  <2>1. SUFFICES ASSUME NEW r \in terms', NEW s \in imps, s.mask = r.mask PROVE s \in terms'
    BY DEF FullLevel
  <2>20. PICK p \in terms, q \in terms : \E v \in p.mask :
            /\ p.mask = q.mask /\ SymDiff(p.value, q.value) = {v} /\ r = Merged(p, q)
    BY <1>1, NextLevel
  <2>2. PICK v \in p.mask : p.mask = q.mask /\ SymDiff(p.value, q.value) = {v} /\ r = Merged(p, q)
    BY <2>20
  <2>3. p \in CubesOver(inputs) /\ q \in CubesOver(inputs) /\ s \in CubesOver(inputs)
    BY <1>1
  <2>4. r.mask = p.mask \ {v} /\ s.mask = p.mask \ {v} /\ s.value \subseteq s.mask /\ p.mask \subseteq inputs
    BY <2>1, <2>2, <2>3, MergeableMeans, CubeType
  <2> DEFINE s0 == [mask |-> p.mask, value |-> s.value]
             s1 == [mask |-> p.mask, value |-> s.value \cup {v}]
  <2>5. /\ s0 \in CubesOver(inputs) /\ s0.mask = p.mask /\ s0.value = s.value
        /\ s1 \in CubesOver(inputs) /\ s1.mask = p.mask /\ s1.value = s.value \cup {v}
    BY <2>4, CubeMake
  <2>6. Above(s, s0) /\ Above(s, s1)
    BY <2>4, <2>5 DEF Above
  <2> HIDE DEF s0, s1
  <2>7. s0 \in imps /\ s1 \in imps
    BY <2>5, <2>6, BelowImplicant
  <2>8. s0 \in terms /\ s1 \in terms
    BY <2>5, <2>7 DEF MergeInv, FullLevel
  <2>9. SymDiff(s0.value, s1.value) = {v} /\ v \in s0.mask
    BY <2>4, <2>5 DEF SymDiff
  <2>10. Merged(s0, s1) \in terms'
    BY <1>1, <2>5, <2>8, <2>9, NextLevel
  <2>11. /\ Merged(s0, s1) \in CubesOver(inputs)
         /\ Merged(s0, s1).mask = p.mask \ {v} /\ Merged(s0, s1).value = s.value \ {v}
    <3>1. Merged(s0, s1).mask = s0.mask \ {v} /\ Merged(s0, s1).value = s0.value \ {v}
      BY <2>9 DEF Merged
    <3>2. Merged(s0, s1) \in CubesOver(inputs)
      BY ONLY IsFiniteSet(inputs), <2>5, <2>9, MergeableMeans
    <3>3. QED
      BY <2>5, <3>1, <3>2
  <2>12. Merged(s0, s1) = s
    <3>1. s.value \ {v} = s.value
      BY <2>4
    <3>2. QED
      BY <2>3, <2>4, <2>11, <3>1, CubesEqual
  <2>13. QED
    BY <2>10, <2>12
<1>4. ASSUME NEW p \in imps PROVE Reached(p)'
  <2>1. p \in CubesOver(inputs)
    BY <1>1
  <2>2. CASE \E q \in primes : Above(q, p)
    <3>1. primes \subseteq primes'
      BY <1>1, NextLevel
    <3>2. QED
      BY <2>2, <3>1 DEF Reached
  <2>3. ASSUME NEW q \in terms, Above(q, p) PROVE Reached(p)'
    <3>1. q \in CubesOver(inputs)
      BY <1>1
    <3>2. CASE q \in primes'
      BY <2>3, <3>2 DEF Reached
    <3>3. ASSUME NEW u \in terms, Mergeable(q, u) PROVE Reached(p)'
      <4>1. u \in CubesOver(inputs)
        BY <1>1
      <4>2. PICK v \in q.mask : q.mask = u.mask /\ SymDiff(q.value, u.value) = {v}
        BY <3>1, <3>3, <4>1, MergeableMeans
      <4>3. Merged(q, u) \in CubesOver(inputs) /\ Above(Merged(q, u), q)
        BY <3>1, <4>1, <4>2, MergeableMeans
      <4>4. Merged(q, u) \in terms'
        BY <1>1, <4>2, NextLevel
      <4>5. Above(Merged(q, u), p)
        BY <2>1, <2>3, <3>1, <4>3, AboveCovers
      <4>6. QED
        BY <4>4, <4>5 DEF Reached
    <3>4. QED
      BY <1>1, <3>2, <3>3, NextLevel
  <2>4. ASSUME NEW q \in terms, Above(p, q) PROVE Reached(p)'
    <3>1. q \in CubesOver(inputs) /\ q.mask \subseteq inputs /\ q.value \subseteq q.mask
          /\ p.value \subseteq p.mask
      BY <1>1, <2>1, CubeType
    <3>2. CASE p.mask = q.mask
      <4>1. Above(q, p)
        BY <2>4, <3>1, <3>2 DEF Above
      <4>2. QED
        BY <2>3, <4>1
    <3>3. CASE p.mask # q.mask
      <4>1. PICK v \in q.mask : v \notin p.mask
        BY <2>4, <3>3 DEF Above
      <4> DEFINE u == [mask |-> q.mask, value |-> SymDiff(q.value, {v})]
      <4>2. u \in CubesOver(inputs) /\ u.mask = q.mask /\ u.value = SymDiff(q.value, {v})
        <5>1. SymDiff(q.value, {v}) \subseteq q.mask
          BY <3>1 DEF SymDiff
        <5>2. QED
          BY <3>1, <5>1, CubeMake
      <4>3. Above(p, u)
        BY <2>4, <4>1, <4>2 DEF Above, SymDiff
      <4> HIDE DEF u
      <4>4. u \in terms
        BY <4>2, <4>3, BelowImplicant DEF MergeInv, FullLevel
      <4>5. SymDiff(q.value, u.value) = {v}
        BY <4>2 DEF SymDiff
      <4>6. Merged(q, u) \in terms'
        <5>1. q.mask = u.mask
          BY <4>2
        <5>2. QED
          BY <1>1, <4>4, <4>5, <5>1, NextLevel
      <4>7. Merged(q, u).mask = q.mask \ {v} /\ Merged(q, u).value = q.value \ {v}
        BY <4>5 DEF Merged
      <4>8. Above(p, Merged(q, u))
        BY <2>4, <4>1, <4>7 DEF Above
      <4>9. QED
        BY <4>6, <4>8 DEF Reached
    <3>4. QED
      BY <3>2, <3>3
  <2>5. Reached(p)
    BY DEF MergeInv
  <2>6. QED
    BY <2>2, <2>3, <2>4, <2>5 DEF Reached
<1>5. QED
  BY <1>2, <1>3, <1>4 DEF MergeInv

----------------------------------------------------------------------------
(* Rows and columns.                                                       *)

LEMMA QuotientRoundedUp ==
    ASSUME NEW u \in Nat, NEW g \in Nat, g >= 1
    PROVE  /\ (u + g - 1) \div g \in Nat
           /\ (u + g - 1) \div g <= u
           /\ \A k \in Nat : u <= g * k => (u + g - 1) \div g <= k
<1> DEFINE q == (u + g - 1) \div g
<1>1. q \in Nat /\ g * q <= u + g - 1
  OBVIOUS
<1> HIDE DEF q
<1>2. ASSUME NEW k \in Nat, u <= g * k PROVE q <= k
  <2>1. SUFFICES ASSUME k + 1 <= q PROVE FALSE
    BY <1>1
  <2>2. g * (k + 1) <= g * q
    BY <1>1, <2>1
  <2>3. g * (k + 1) = g * k + g /\ g * k \in Nat
    OBVIOUS
  <2>4. QED
    BY <1>1, <1>2, <2>2, <2>3
<1>3. u <= g * u
  OBVIOUS
<1>4. q <= u
  BY <1>2, <1>3
<1>5. QED
  BY <1>1, <1>2, <1>4 DEF q

\* What every step of the search relies on: finitely many columns, and rows of cubes.
Board(inputs) ==
    /\ IsFiniteSet(inputs) /\ IsFiniteSet(onSet)
    /\ rows \in SUBSET CubesOver(inputs)
    /\ best.terms \in Nat /\ best.literals \in Nat

LEMMA ColumnCounts ==
    ASSUME NEW inputs, Board(inputs), NEW sel
    PROVE  /\ IsFiniteSet(Uncovered(sel)) /\ Cardinality(Uncovered(sel)) \in Nat
           /\ \A p : Gain(p, sel) \in Nat /\ Gain(p, sel) <= Cardinality(Uncovered(sel))
           /\ \A p : \A m \in Uncovered(sel) : Covers(p, m) => Gain(p, sel) >= 1
<1>1. IsFiniteSet(Uncovered(sel)) /\ Cardinality(Uncovered(sel)) \in Nat
  BY FS_Subset, FS_CardinalityType DEF Board, Uncovered
<1>2. ASSUME NEW p
      PROVE  /\ Gain(p, sel) \in Nat /\ Gain(p, sel) <= Cardinality(Uncovered(sel))
             /\ \A m \in Uncovered(sel) : Covers(p, m) => Gain(p, sel) >= 1
  <2> DEFINE hit == {m \in Uncovered(sel) : Covers(p, m)}
  <2>1. hit \in SUBSET Uncovered(sel) /\ Gain(p, sel) = Cardinality(hit)
    BY DEF Gain
  <2>2. \A m \in Uncovered(sel) : Covers(p, m) => m \in hit
    OBVIOUS
  <2> HIDE DEF hit
  <2>3. IsFiniteSet(hit) /\ Cardinality(hit) <= Cardinality(Uncovered(sel)) /\ Cardinality(hit) \in Nat
    BY <1>1, <2>1, FS_Subset, FS_CardinalityType
  <2>4. QED
    BY <2>1, <2>2, <2>3, AtLeastOne
<1>3. QED
  BY <1>1, <1>2

LEMMA LargestGain ==
    ASSUME NEW inputs, Board(inputs), NEW sel
    PROVE  /\ MaxGain(sel) \in Nat
           /\ \A p \in rows \ sel : Gain(p, sel) <= MaxGain(sel)
<1> DEFINE gains == {0} \cup {Gain(p, sel) : p \in rows \ sel}
<1>1. gains \in SUBSET Nat /\ gains # {} /\ \A k \in gains : k <= Cardinality(Uncovered(sel))
  BY ColumnCounts
<1>2. \A p \in rows \ sel : Gain(p, sel) \in gains
  OBVIOUS
<1>3. MaxGain(sel) = Max(gains)
  BY DEF MaxGain
<1> HIDE DEF gains
<1>4. Max(gains) \in gains /\ \A k \in gains : k <= Max(gains)
  BY <1>1, ColumnCounts, MaxProperty
<1>5. QED
  BY <1>1, <1>2, <1>3, <1>4

\* The bounds of dfs_cover are right: no cover that contains the rows of a call that is
\* given up beats the best one.
LEMMA BoundsAreRight ==
    ASSUME NEW inputs, Board(inputs),
           NEW sel \in SUBSET rows, NEW cover \in SUBSET rows, sel \subseteq cover,
           Uncovered(cover) = {}, Uncovered(sel) # {}, Stuck(sel) \/ Hopeless(sel)
    PROVE  Worse(cover)
<1> DEFINE more == cover \ sel
           left == Uncovered(sel)
           gaining == {p \in more : Gain(p, sel) > 0}
           g == MaxGain(sel)
           bound == BoundOnTerms(sel)
<1>1. \A m \in left : \E p \in gaining : Covers(p, m)
  <2>1. ASSUME NEW m \in left PROVE \E p \in gaining : Covers(p, m)
    <3>1. PICK p \in cover : Covers(p, m)
      BY <2>1 DEF Uncovered
    <3>2. p \notin sel
      BY <2>1, <3>1 DEF Uncovered
    <3>3. Gain(p, sel) \in Nat /\ Gain(p, sel) >= 1
      BY <2>1, <3>1, ColumnCounts
    <3>4. QED
      BY <3>1, <3>2, <3>3
  <2>2. QED
    BY <2>1
<1>2. g \in Nat /\ \A p \in more : Gain(p, sel) <= g
  BY LargestGain
<1>3. ~Stuck(sel) /\ g >= 1
  <2>1. ASSUME NEW m \in left PROVE Options(m, sel) # {} /\ g >= 1
    <3>1. PICK p \in gaining : Covers(p, m)
      BY <1>1, <2>1
    <3>2. p \in Options(m, sel)
      BY <3>1 DEF Options
    <3>3. Gain(p, sel) <= g /\ Gain(p, sel) \in Nat /\ Gain(p, sel) >= 1
      BY <1>2, <2>1, <3>1, ColumnCounts
    <3>4. QED
      BY <1>2, <3>2, <3>3
  <2>2. PICK m \in left : TRUE
    OBVIOUS
  <2>3. g # 0
    BY <1>2, <2>1, <2>2
  <2>4. QED
    BY <2>1, <2>2, <2>3 DEF Stuck
<1>4. /\ IsFiniteSet(inputs) /\ rows \in SUBSET CubesOver(inputs) /\ cover \in SUBSET CubesOver(inputs)
      /\ more \in SUBSET CubesOver(inputs) /\ gaining \in SUBSET more /\ gaining \in SUBSET CubesOver(inputs)
  BY DEF Board
<1>5. Cardinality(left) <= g * Cardinality(gaining)
  <2>1. \A p \in gaining : Cardinality({m \in left : Covers(p, m)}) <= g
    BY <1>2 DEF Gain
  <2>2. IsFiniteSet(left)
    BY ColumnCounts
  <2> HIDE DEF gaining, left, g
  <2>3. QED
    BY <1>1, <1>2, <1>4, <2>1, <2>2, CoveredAtMost
<1>6. bound \in Nat /\ bound <= Cardinality(gaining)
  <2>1. Cardinality(left) \in Nat /\ Cardinality(gaining) \in Nat
    BY <1>4, ColumnCounts, LiteralsType
  <2>2. bound = (Cardinality(left) + g - 1) \div g
    BY DEF BoundOnTerms
  <2> HIDE DEF bound, left, gaining, g
  <2>3. QED
    BY <1>2, <1>3, <1>5, <2>1, <2>2, QuotientRoundedUp
<1>7. /\ Cardinality(cover) = Cardinality(sel) + Cardinality(more)
      /\ Literals(cover) = Literals(sel) + Literals(more)
      /\ Cardinality(gaining) <= Cardinality(more)
      /\ Cardinality(more) = Cardinality(gaining) => more = gaining
  BY <1>4, FewerTerms
<1>8. /\ Cardinality(sel) \in Nat /\ Cardinality(more) \in Nat /\ Cardinality(gaining) \in Nat
      /\ Literals(sel) \in Nat /\ Literals(more) \in Nat
  <2>1. sel \in SUBSET CubesOver(inputs)
    BY <1>4
  <2>2. QED
    BY <1>4, <2>1, LiteralsType
<1>9. CASE Cardinality(sel) + bound > best.terms
  BY <1>6, <1>7, <1>8, <1>9 DEF Worse, Board
<1>10. CASE /\ Cardinality(sel) + bound = best.terms
            /\ Literals(sel) + MinLiterals(sel) * bound >= best.literals
  <2>1. CASE Cardinality(more) > bound
    BY <1>6, <1>7, <1>8, <1>10, <2>1 DEF Worse, Board
  <2>2. CASE Cardinality(more) = bound
    <3>1. more = gaining
      BY <1>6, <1>7, <1>8, <2>2
    <3> DEFINE counts == {LiteralCount(p) : p \in {q \in rows \ sel : Gain(q, sel) > 0}}
    <3>2. counts \in SUBSET Nat /\ \A p \in more : LiteralCount(p) \in counts
      BY <1>4, <3>1, CubesAreFinite
    <3>3. counts # {}
      BY <1>1, <3>1
    <3>4. MinLiterals(sel) = Min(counts)
      BY DEF MinLiterals
    <3> HIDE DEF counts
    <3>10. Min(counts) \in counts /\ \A k \in counts : Min(counts) <= k
      BY <3>2, <3>3, MinProperty
    <3>5. MinLiterals(sel) \in Nat /\ \A p \in more : MinLiterals(sel) <= LiteralCount(p)
      BY <3>2, <3>4, <3>10
    <3>6. MinLiterals(sel) * Cardinality(more) <= Literals(more)
      BY <1>4, <3>5, LiteralsAtLeast
    <3>7. MinLiterals(sel) * bound = MinLiterals(sel) * Cardinality(more)
          /\ MinLiterals(sel) * bound \in Nat
      BY <1>6, <2>2, <3>5
    <3>8. Cardinality(cover) = best.terms /\ Literals(cover) >= best.literals
      <4> HIDE DEF more, bound
      <4>1. QED
        BY <1>6, <1>7, <1>8, <1>10, <2>2, <3>6, <3>7 DEF Board
    <3>9. QED
      BY <3>8 DEF Worse
  <2>3. QED
    BY <1>6, <1>7, <1>8, <2>1, <2>2
<1>11. QED
  BY <1>3, <1>9, <1>10 DEF Hopeless

----------------------------------------------------------------------------
(* The invariant of a run of minimize_exact for the given inputs, ON-set   *)
(* and don't-cares.                                                        *)

\* What a caller provides: the counters of the code are 32 bits wide.
Problem(inputs, on, dc) ==
    /\ IsFiniteSet(inputs) /\ on \subseteq SUBSET inputs /\ dc \subseteq SUBSET inputs
    /\ Cardinality(on) < Unbounded

Frames == [selected : SUBSET rows, untried : SUBSET rows]
IsCover(b) ==
    /\ b = [terms |-> Cardinality(b.selected), literals |-> Literals(b.selected), selected |-> b.selected]
    /\ b.selected \in SUBSET rows /\ Uncovered(b.selected) = {}

CoverTypeOK(inputs, on, dc) ==
    /\ phase \in {"merge", "essential", "visit", "loop", "done"}
    /\ onSet = on
    /\ terms \subseteq ImplicantsOf(inputs, on \cup dc)
    /\ primes \subseteq ImplicantsOf(inputs, on \cup dc)
    /\ rows \subseteq primes
    /\ selected \in SUBSET rows /\ call \in SUBSET rows /\ open \in Seq(Frames)
    /\ best = NoCover \/ IsCover(best)

\* Merging is not over: no row is chosen yet.
MergePhase(inputs, on, dc) ==
    phase = "merge" =>
        MergeInv(inputs, on \cup dc) /\ rows = {} /\ open = <<>> /\ best = NoCover /\ on # {}

\* Every implicant is below a prime, and the primes of some column are the rows.
RowsInv(inputs, on, dc) ==
    /\ on = {} => phase = "done"
    /\ (phase # "merge" /\ on # {}) =>
           /\ rows = {p \in primes : \E m \in onSet : Covers(p, m)}
           /\ \A p \in ImplicantsOf(inputs, on \cup dc) : \E q \in primes : Above(q, p)

\* The selected rows are in every cover.
EssentialInv ==
    phase \in {"essential", "visit", "loop"} =>
        \A cover \in SUBSET rows : Uncovered(cover) = {} => selected \subseteq cover

\* Every row of a call, or of a frame, covers a column of its own: so there are no more
\* of them than columns, and no more calls under way.
Reaches(sel, depth) ==
    Cardinality(sel) >= depth /\ Cardinality(sel) + Cardinality(Uncovered(sel)) <= Cardinality(onSet)
DepthInv ==
    /\ phase \in {"merge", "essential", "done"} => open = <<>>
    /\ phase = "essential" => Reaches(selected, 0)
    /\ phase = "visit" => Reaches(call, Len(open))
    /\ \A i \in 1..Len(open) :
           /\ Reaches(open[i].selected, i - 1) /\ Uncovered(open[i].selected) # {}
           /\ \A p \in open[i].untried :
                  p \notin open[i].selected /\ \E m \in Uncovered(open[i].selected) : Covers(p, m)

\* The first descent is never given up.
FoundInv ==
    best = NoCover =>
        /\ phase # "done"
        /\ phase = "loop" => open # <<>> /\ open[Len(open)].untried # {}

\* What is found is a minimum of the covers by rows.
DoneInv ==
    phase = "done" =>
        \A cover \in SUBSET rows : Uncovered(cover) = {} => Worse(cover)

CoverInv(inputs, on, dc) ==
    /\ CoverTypeOK(inputs, on, dc)
    /\ MergePhase(inputs, on, dc)
    /\ RowsInv(inputs, on, dc)
    /\ EssentialInv
    /\ DepthInv
    /\ SearchKeepsAMinimum
    /\ FoundInv
    /\ DoneInv

LEMMA UnboundedIsLarge == Unbounded \in Nat /\ Unbounded > 65536
BY SMT DEF Unbounded

LEMMA SameColumns ==
    ASSUME onSet' = onSet
    PROVE  /\ \A sel : Uncovered(sel)' = Uncovered(sel)
           /\ \A sel, d : Reaches(sel, d)' <=> Reaches(sel, d)
           /\ best' = best => \A sel : Worse(sel)' <=> Worse(sel)
BY DEF Uncovered, Reaches, Worse

LEMMA CoverBoard ==
    ASSUME NEW inputs, NEW on, NEW dc, Problem(inputs, on, dc), CoverTypeOK(inputs, on, dc)
    PROVE  /\ Board(inputs) /\ IsFiniteSet(on) /\ Cardinality(on) \in Nat
           /\ rows \in SUBSET CubesOver(inputs)
           /\ \A sel \in SUBSET rows : IsFiniteSet(sel) /\ Cardinality(sel) \in Nat /\ Literals(sel) \in Nat
<1>1. IsFiniteSet(on) /\ Cardinality(on) \in Nat
  <2>1. IsFiniteSet(SUBSET inputs)
    BY FS_SUBSET DEF Problem
  <2>2. QED
    BY <2>1, FS_Subset, FS_CardinalityType DEF Problem
<1>2. rows \in SUBSET CubesOver(inputs)
  BY DEF CoverTypeOK, ImplicantsOf
<1>3. ASSUME NEW sel \in SUBSET rows
      PROVE  IsFiniteSet(sel) /\ Cardinality(sel) \in Nat /\ Literals(sel) \in Nat
  <2>1. sel \in SUBSET CubesOver(inputs)
    BY <1>2
  <2>2. QED
    BY <2>1, LiteralsType DEF Problem
<1>4. best.terms \in Nat /\ best.literals \in Nat
  <2>1. CASE best = NoCover
    BY <2>1, UnboundedIsLarge DEF NoCover
  <2>2. CASE IsCover(best)
    <3>1. best.selected \in SUBSET rows
      BY <2>2 DEF IsCover
    <3>2. best.terms = Cardinality(best.selected) /\ best.literals = Literals(best.selected)
      BY <2>2 DEF IsCover
    <3>3. QED
      BY <1>3, <3>1, <3>2
  <2>3. QED
    BY <2>1, <2>2 DEF CoverTypeOK
<1>5. QED
  BY <1>1, <1>2, <1>3, <1>4 DEF Board, Problem, CoverTypeOK

\* minimize_exact begins.
LEMMA MinimizeInv ==
    ASSUME NEW inputs, NEW on, NEW dc, Problem(inputs, on, dc), Minimize(inputs, on, dc)
    PROVE  CoverInv(inputs, on, dc)'
<1> DEFINE imps == ImplicantsOf(inputs, on \cup dc)
<1>1. /\ onSet' = on /\ terms' = {Minterm(m, inputs) : m \in on \cup dc}
      /\ phase' = (IF on = {} THEN "done" ELSE "merge")
      /\ best' = (IF on = {} THEN [terms |-> 0, literals |-> 0, selected |-> {}] ELSE NoCover)
      /\ primes' = {} /\ rows' = {} /\ selected' = {} /\ call' = {} /\ open' = <<>>
  BY DEF Minimize
<1>2. \A m \in on \cup dc : m \in SUBSET inputs
  BY DEF Problem
<1>3. \A m \in on \cup dc : Minterm(m, inputs) \in imps
  BY <1>2, MintermIsImplicant
<1>4. terms' \subseteq imps
  BY <1>1, <1>3
<1>5. on = {} => IsCover(best)' /\ best' # NoCover
  <2>1. SUFFICES ASSUME on = {} PROVE IsCover(best)' /\ best' # NoCover
    OBVIOUS
  <2>2. best' = [terms |-> 0, literals |-> 0, selected |-> {}] /\ onSet' = {}
    BY <1>1, <2>1
  <2>3. Cardinality({}) = 0 /\ Literals({}) = 0
    BY FS_EmptySet, LiteralsOfNone
  <2>4. QED
    <3>1. best'.terms = 0 /\ best'.literals = 0 /\ best'.selected = {} /\ NoCover.terms > 0
      BY <2>2, UnboundedIsLarge DEF NoCover
    <3>2. Uncovered({})' = {}
      BY <2>2 DEF Uncovered
    <3>3. best' # NoCover
      BY <3>1
    <3>4. Cardinality(best'.selected) = 0 /\ Literals(best'.selected) = 0 /\ Uncovered(best.selected)' = {}
      BY <2>3, <3>1, <3>2, Zenon
    <3>5. best' = [terms |-> best'.terms, literals |-> best'.literals, selected |-> best'.selected]
      BY <2>2
    <3>6. best'.terms = Cardinality(best'.selected) /\ best'.literals = Literals(best'.selected)
      BY <3>1, <3>4
    <3>7. IsCover(best)'
      BY <3>1, <3>4, <3>5, <3>6 DEF IsCover
    <3>8. QED
      BY <3>3, <3>7
<1>6. CoverTypeOK(inputs, on, dc)'
  <2>1. phase' \in {"merge", "essential", "visit", "loop", "done"} /\ onSet' = on
    BY <1>1
  <2>2. primes' \subseteq imps /\ rows' \subseteq primes'
        /\ selected' \in SUBSET rows' /\ call' \in SUBSET rows'
    BY <1>1
  <2>3. open' \in Seq(Frames')
    BY <1>1
  <2>4. best' = NoCover \/ IsCover(best)'
    BY <1>1, <1>5
  <2>5. QED
    BY <1>4, <2>1, <2>2, <2>3, <2>4 DEF CoverTypeOK
<1>7. MergePhase(inputs, on, dc)'
  <2>1. SUFFICES ASSUME on # {} PROVE MergeInv(inputs, on \cup dc)'
    BY <1>1 DEF MergePhase
  <2>2. \A p \in imps : p \in CubesOver(inputs) /\ p.value \in on \cup dc
    BY CubeType DEF ImplicantsOf
  <2>3. FullLevel(inputs, on \cup dc)'
    <3>1. SUFFICES ASSUME NEW p \in terms', NEW q \in imps, q.mask = p.mask PROVE q \in terms'
      BY DEF FullLevel
    <3>2. p.mask = inputs
      BY <1>1 DEF Minterm
    <3>3. q = Minterm(q.value, inputs)
      BY <2>2, <3>1, <3>2, CubeType DEF Minterm
    <3>4. QED
      BY <1>1, <2>2, <3>3
  <2>4. ASSUME NEW p \in imps PROVE Reached(p)'
    <3> DEFINE q == Minterm(p.value, inputs)
    <3>1. q \in terms'
      BY <1>1, <2>2
    <3>2. p.mask \subseteq inputs /\ p.value \subseteq p.mask /\ q.mask = inputs /\ q.value = p.value
      BY <2>2, CubeType DEF Minterm
    <3>3. Above(p, q)
      BY <3>2 DEF Above
    <3>4. QED
      BY <3>1, <3>3 DEF Reached
  <2>5. QED
    BY <1>4, <2>3, <2>4 DEF MergeInv
<1>8. RowsInv(inputs, on, dc)' /\ EssentialInv' /\ SearchKeepsAMinimum'
  BY <1>1 DEF RowsInv, EssentialInv, SearchKeepsAMinimum
<1>9. DepthInv'
  BY <1>1 DEF DepthInv
<1>10. FoundInv'
  BY <1>1, <1>5 DEF FoundInv
<1>11. DoneInv'
  <2>1. SUFFICES ASSUME phase' = "done", NEW cover \in SUBSET rows' PROVE Worse(cover)'
    BY DEF DoneInv
  <2>2. cover = {} /\ best'.terms = 0 /\ best'.literals = 0
    BY <1>1, <2>1
  <2>3. QED
    BY <2>2, FS_EmptySet, LiteralsOfNone DEF Worse
<1>12. QED
  BY <1>6, <1>7, <1>8, <1>9, <1>10, <1>11 DEF CoverInv

\* A level of merging.
LEMMA MergeLevelStep ==
    ASSUME NEW inputs, NEW on, NEW dc, Problem(inputs, on, dc), CoverInv(inputs, on, dc), MergeLevel
    PROVE  CoverInv(inputs, on, dc)'
<1> DEFINE imps == ImplicantsOf(inputs, on \cup dc)
<1>1. /\ phase = "merge" /\ phase' = "merge"
      /\ UNCHANGED <<phase, onSet, rows, selected, call, open, best>>
  BY DEF MergeLevel
<1>2. /\ CoverTypeOK(inputs, on, dc) /\ MergeInv(inputs, on \cup dc)
      /\ rows = {} /\ open = <<>> /\ best = NoCover /\ on # {}
  BY <1>1 DEF CoverInv, MergePhase
<1>3. MergeInv(inputs, on \cup dc)'
  BY <1>2, MergeLevelInv DEF Problem
<1>4. primes' \subseteq imps
  <2>1. terms \subseteq CubesOver(inputs)
    BY <1>2 DEF MergeInv, ImplicantsOf
  <2>2. primes' \subseteq primes \cup terms
    BY <2>1, NextLevel DEF Problem
  <2>3. QED
    BY <1>2, <2>2 DEF CoverTypeOK
<1>5. CoverTypeOK(inputs, on, dc)'
  <2>1. onSet' = on /\ terms' \subseteq imps /\ rows' \subseteq primes'
        /\ selected' \in SUBSET rows' /\ call' \in SUBSET rows' /\ best' = NoCover
        /\ open' \in Seq(Frames')
    BY <1>1, <1>2, <1>3 DEF CoverTypeOK, MergeInv, Frames
  <2>2. QED
    BY <1>1, <1>4, <2>1 DEF CoverTypeOK
<1>6. MergePhase(inputs, on, dc)'
  BY <1>1, <1>2, <1>3 DEF MergePhase
<1>7. RowsInv(inputs, on, dc)' /\ EssentialInv' /\ SearchKeepsAMinimum' /\ DoneInv' /\ FoundInv'
  BY <1>1, <1>2 DEF RowsInv, EssentialInv, SearchKeepsAMinimum, DoneInv, FoundInv
<1>8. DepthInv'
  BY <1>1, <1>2 DEF DepthInv
<1>9. QED
  BY <1>5, <1>6, <1>7, <1>8 DEF CoverInv

\* With every implicant below a prime, every column has a row.
LEMMA EveryColumnHasARow ==
    ASSUME NEW inputs, NEW on, NEW dc, Problem(inputs, on, dc), NEW m \in on,
           \A p \in ImplicantsOf(inputs, on \cup dc) : \E q \in primes : Above(q, p),
           primes \subseteq ImplicantsOf(inputs, on \cup dc)
    PROVE  \E q \in primes : Covers(q, m)
<1> DEFINE p == Minterm(m, inputs)
<1>1. m \in SUBSET inputs
  BY DEF Problem
<1>2. p \in ImplicantsOf(inputs, on \cup dc) /\ Covers(p, m)
  BY <1>1, MintermIsImplicant
<1>3. PICK q \in primes : Above(q, p)
  BY <1>2
<1>4. p \in CubesOver(inputs) /\ q \in CubesOver(inputs)
  BY <1>2 DEF ImplicantsOf
<1> HIDE DEF p
<1>5. Covers(q, m)
  BY <1>1, <1>2, <1>3, <1>4, AboveCovers
<1>6. QED
  BY <1>5

\* Merging is over.
LEMMA BuildRowsStep ==
    ASSUME NEW inputs, NEW on, NEW dc, Problem(inputs, on, dc), CoverInv(inputs, on, dc), BuildRows
    PROVE  CoverInv(inputs, on, dc)'
<1> DEFINE imps == ImplicantsOf(inputs, on \cup dc)
           usable == {p \in primes : \E m \in onSet : Covers(p, m)}
<1>1. /\ phase = "merge" /\ terms = {} /\ rows' = usable
      /\ phase' = (IF usable = {} THEN "failed" ELSE "essential")
      /\ UNCHANGED <<onSet, terms, primes, selected, call, open, best>>
  BY DEF BuildRows
<1>2. /\ CoverTypeOK(inputs, on, dc) /\ MergeInv(inputs, on \cup dc)
      /\ rows = {} /\ open = <<>> /\ best = NoCover /\ on # {}
  BY <1>1 DEF CoverInv, MergePhase
<1>3. \A p \in imps : \E q \in primes : Above(q, p)
  BY <1>1, <1>2 DEF MergeInv, Reached
<1>4. usable # {}
  <2>1. PICK m \in on : TRUE
    BY <1>2
  <2>2. primes \subseteq imps
    BY <1>2 DEF CoverTypeOK
  <2>3. \E q \in primes : Covers(q, m)
    BY <1>3, <2>2, EveryColumnHasARow
  <2>4. QED
    BY <1>2, <2>1, <2>3 DEF CoverTypeOK
<1>5. phase' = "essential"
  BY <1>1, <1>4
<1>6. selected = {} /\ call = {}
  BY <1>2 DEF CoverTypeOK
<1>7. CoverTypeOK(inputs, on, dc)'
  <2>1. onSet' = on /\ terms' \subseteq imps /\ primes' \subseteq imps /\ rows' \subseteq primes'
    BY <1>1, <1>2 DEF CoverTypeOK
  <2>2. selected' \in SUBSET rows' /\ call' \in SUBSET rows' /\ best' = NoCover
    BY <1>1, <1>2, <1>6
  <2>3. open' \in Seq(Frames')
    BY <1>1, <1>2
  <2>4. QED
    BY <1>5, <2>1, <2>2, <2>3 DEF CoverTypeOK
<1>8. MergePhase(inputs, on, dc)' /\ SearchKeepsAMinimum' /\ DoneInv'
  BY <1>5 DEF MergePhase, SearchKeepsAMinimum, DoneInv
<1>9. RowsInv(inputs, on, dc)'
  BY <1>1, <1>2, <1>3 DEF RowsInv
<1>10. EssentialInv'
  BY <1>1, <1>6 DEF EssentialInv
<1>11. DepthInv'
  <2>1. Reaches({}, 0)'
    <3>1. Uncovered({})' = onSet'
      BY DEF Uncovered
    <3>2. Cardinality({}) = 0 /\ onSet' = on /\ Cardinality(on) \in Nat
      BY <1>1, <1>2, FS_EmptySet, CoverBoard DEF CoverTypeOK
    <3>3. Cardinality(Uncovered({})') = Cardinality(on)
      BY <3>1, <3>2
    <3>4. QED
      BY <3>2, <3>3 DEF Reaches
  <2>2. selected' = {} /\ open' = <<>>
    BY <1>1, <1>2, <1>6
  <2>3. Reaches(selected, 0)'
    BY <2>1, <2>2
  <2>4. QED
    BY <1>5, <2>2, <2>3 DEF DepthInv
<1>12. FoundInv'
  BY <1>5 DEF FoundInv
<1>13. QED
  BY <1>7, <1>8, <1>9, <1>10, <1>11, <1>12 DEF CoverInv

\* What the search has to work with.
LEMMA RowsBuilt ==
    ASSUME NEW inputs, NEW on, NEW dc, Problem(inputs, on, dc), CoverInv(inputs, on, dc),
           phase \in {"essential", "visit", "loop"}
    PROVE  /\ on # {} /\ onSet = on /\ terms \subseteq ImplicantsOf(inputs, on \cup dc)
           /\ primes \subseteq ImplicantsOf(inputs, on \cup dc)
           /\ rows \subseteq primes /\ selected \in SUBSET rows /\ call \in SUBSET rows
           /\ open \in Seq(Frames) /\ Board(inputs)
           /\ \A m \in onSet : \E p \in rows : Covers(p, m)
<1>1. on # {} /\ CoverTypeOK(inputs, on, dc) /\ phase # "merge"
  BY DEF CoverInv, RowsInv
<1>2. ASSUME NEW m \in onSet PROVE \E p \in rows : Covers(p, m)
  <2>1. \E p \in primes : Covers(p, m)
    BY <1>1, <1>2, EveryColumnHasARow DEF CoverInv, CoverTypeOK, RowsInv
  <2>2. QED
    BY <1>1, <2>1 DEF CoverInv, RowsInv
<1>3. QED
  BY <1>1, <1>2, CoverBoard DEF CoverTypeOK

\* A row that covers a column of its own keeps their number within that of the columns.
LEMMA OneMoreRow ==
    ASSUME NEW inputs, Board(inputs), NEW sel \in SUBSET rows, NEW p \in rows, p \notin sel,
           NEW m \in Uncovered(sel), Covers(p, m), NEW d \in Nat, Reaches(sel, d)
    PROVE  Reaches(sel \cup {p}, d + 1)
<1>1. sel \in SUBSET CubesOver(inputs) /\ IsFiniteSet(inputs)
  BY DEF Board
<1>2. Cardinality(sel \cup {p}) = Cardinality(sel) + 1 /\ Cardinality(sel) \in Nat
  BY <1>1, LiteralsType, FS_AddElement
<1>3. IsFiniteSet(Uncovered(sel)) /\ Cardinality(Uncovered(sel)) \in Nat
  BY ColumnCounts
<1>4. Uncovered(sel \cup {p}) \in SUBSET (Uncovered(sel) \ {m})
  BY DEF Uncovered
<1>5. IsFiniteSet(Uncovered(sel) \ {m}) /\ Cardinality(Uncovered(sel) \ {m}) = Cardinality(Uncovered(sel)) - 1
  BY <1>3, FS_RemoveElement
<1>6. Cardinality(Uncovered(sel \cup {p})) <= Cardinality(Uncovered(sel)) - 1
      /\ Cardinality(Uncovered(sel \cup {p})) \in Nat
  <2> DEFINE less == Uncovered(sel) \ {m}
  <2>1. Uncovered(sel \cup {p}) \in SUBSET less /\ IsFiniteSet(less)
    BY <1>4, <1>5
  <2> HIDE DEF less
  <2>2. IsFiniteSet(Uncovered(sel \cup {p})) /\ Cardinality(Uncovered(sel \cup {p})) <= Cardinality(less)
    BY <2>1, FS_Subset
  <2>3. Cardinality(Uncovered(sel \cup {p})) \in Nat
    BY <2>2, FS_CardinalityType
  <2>4. QED
    BY <1>5, <2>2, <2>3 DEF less
<1>7. Cardinality(onSet) \in Nat
  BY FS_CardinalityType DEF Board
<1>8. QED
  BY <1>2, <1>3, <1>6, <1>7 DEF Reaches

\* A row selected as essential is the only one of some column.
LEMMA EssentialRowsAreNeeded ==
    ASSUME IsFiniteSet(rows), NEW p \in EssentialRows, p \notin selected
    PROVE  /\ p \in rows
           /\ \E m \in Uncovered(selected) : Covers(p, m) /\ \A r \in rows : Covers(r, m) => r = p
<1>1. PICK m \in Uncovered(selected) : p \in Options(m, selected) /\ Cardinality(Options(m, selected)) = 1
  BY DEF EssentialRows
<1>2. p \in rows /\ Covers(p, m)
  BY <1>1 DEF Options
<1>3. Options(m, selected) = {p}
  <2>1. IsFiniteSet(Options(m, selected))
    BY FS_Subset DEF Options
  <2>2. PICK q : Options(m, selected) = {q}
    BY <1>1, <2>1, FS_Singleton
  <2>3. QED
    BY <1>1, <2>2
<1>4. ASSUME NEW r \in rows, Covers(r, m) PROVE r = p
  <2>1. r \notin selected
    BY <1>4 DEF Uncovered
  <2>2. r \in Options(m, selected)
    BY <1>4, <2>1 DEF Options
  <2>3. QED
    BY <1>3, <2>2
<1>5. QED
  BY <1>2, <1>4

\* A pass over the columns.
LEMMA SelectEssentialStep ==
    ASSUME NEW inputs, NEW on, NEW dc, Problem(inputs, on, dc), CoverInv(inputs, on, dc),
           SelectEssential
    PROVE  CoverInv(inputs, on, dc)'
<1> DEFINE imps == ImplicantsOf(inputs, on \cup dc)
           chosen == EssentialRows
<1>1. /\ phase = "essential" /\ selected' = chosen
      /\ phase' = (IF \E m \in Uncovered(selected) : Options(m, selected) = {} THEN "failed"
                   ELSE IF chosen # selected THEN "essential"
                   ELSE IF Uncovered(selected) = {} THEN "done" ELSE "visit")
      /\ phase' = "done" =>
             best' = [terms |-> Cardinality(selected), literals |-> Literals(selected), selected |-> selected]
      /\ phase' # "done" => best' = best
      /\ call' = (IF phase' = "visit" THEN selected ELSE {})
      /\ UNCHANGED <<onSet, terms, primes, rows, open>>
  BY DEF SelectEssential
<1>2. /\ on # {} /\ onSet = on /\ terms \subseteq imps /\ primes \subseteq imps
      /\ rows \subseteq primes /\ selected \in SUBSET rows /\ Board(inputs)
      /\ \A m \in onSet : \E p \in rows : Covers(p, m)
  BY <1>1, RowsBuilt
<1>3. /\ CoverTypeOK(inputs, on, dc) /\ open = <<>> /\ Reaches(selected, 0)
      /\ \A cover \in SUBSET rows : Uncovered(cover) = {} => selected \subseteq cover
  BY <1>1 DEF CoverInv, DepthInv, EssentialInv
<1>4. IsFiniteSet(rows)
  BY CubesAreFinite, FS_Subset, <1>2 DEF Board
<1>5. chosen \in SUBSET rows
  BY <1>2, <1>4, EssentialRowsAreNeeded
<1>6. phase' \in {"essential", "done", "visit"} /\ (phase' # "essential" => chosen = selected)
      /\ (phase' = "done" => Uncovered(selected) = {})
  <2>1. ASSUME NEW m \in Uncovered(selected) PROVE Options(m, selected) # {}
    <3>1. m \in onSet
      BY DEF Uncovered
    <3>2. PICK p \in rows : Covers(p, m)
      BY <1>2, <3>1
    <3>3. p \in Options(m, selected)
      BY <3>2 DEF Uncovered, Options
    <3>4. QED
      BY <3>3
  <2>2. QED
    BY <1>1, <2>1
<1>7. \A cover \in SUBSET rows : Uncovered(cover) = {} => chosen \subseteq cover
  <2>1. SUFFICES ASSUME NEW cover \in SUBSET rows, Uncovered(cover) = {}, NEW p \in chosen, p \notin selected
                 PROVE  p \in cover
    BY <1>3
  <2>2. PICK m \in Uncovered(selected) : \A r \in rows : Covers(r, m) => r = p
    BY <1>4, <2>1, EssentialRowsAreNeeded
  <2>3. PICK r \in cover : Covers(r, m)
    BY <2>1 DEF Uncovered
  <2>4. QED
    BY <2>2, <2>3
<1>8. \A sel : Uncovered(sel)' = Uncovered(sel) /\ \A d : Reaches(sel, d)' <=> Reaches(sel, d)
  BY <1>1, SameColumns
<1>9. IsCover(best)' \/ best' = NoCover
  <2>1. CASE phase' = "done"
    <3>1. best' = [terms |-> Cardinality(selected), literals |-> Literals(selected), selected |-> selected]
          /\ Uncovered(selected)' = {} /\ rows' = rows
      BY <1>1, <1>6, <1>8, <2>1
    <3>2. best'.selected = selected
      BY <3>1
    <3>3. Uncovered(best.selected)' = {}
      <4>1. Uncovered(best'.selected) = {} /\ onSet' = onSet
        BY <1>1, <1>6, <2>1, <3>2
      <4>2. QED
        BY <4>1 DEF Uncovered
    <3>4. QED
      BY <1>2, <3>1, <3>2, <3>3 DEF IsCover
  <2>2. CASE phase' # "done"
    <3>1. best' = best /\ rows' = rows
      BY <1>1, <2>2
    <3>2. best = NoCover \/ IsCover(best)
      BY <1>3 DEF CoverTypeOK
    <3>3. QED
      BY <1>8, <3>1, <3>2 DEF IsCover
  <2>3. QED
    BY <2>1, <2>2
<1>10. CoverTypeOK(inputs, on, dc)'
  <2>1. selected' \in SUBSET rows' /\ call' \in SUBSET rows'
    BY <1>1, <1>2, <1>5
  <2>2. open' \in Seq(Frames')
    BY <1>1, <1>3
  <2>3. QED
    BY <1>1, <1>2, <1>6, <1>9, <2>1, <2>2 DEF CoverTypeOK
<1>11. MergePhase(inputs, on, dc)'
  BY <1>6 DEF MergePhase
<1>12. RowsInv(inputs, on, dc)'
  BY <1>1, <1>2 DEF CoverInv, RowsInv
<1>13. EssentialInv'
  BY <1>1, <1>7, <1>8 DEF EssentialInv
<1>14. Reaches(chosen, 0)
  <2> DEFINE new == chosen \ selected
             Q == {t \in SUBSET new : Reaches(selected \cup t, 0)}
  <2>1. new \in SUBSET rows /\ IsFiniteSet(new)
    BY <1>4, <1>5, FS_Subset
  <2>2. {} \in Q
    <3>1. selected \cup {} = selected
      OBVIOUS
    <3>2. QED
      BY <1>3, <3>1
  <2>3. ASSUME NEW t \in SUBSET new, NEW p \in new, t \in Q, p \notin t
        PROVE  t \cup {p} \in Q
    <3> DEFINE sel == selected \cup t
    <3>1. PICK m \in Uncovered(selected) : Covers(p, m) /\ \A r \in rows : Covers(r, m) => r = p
      BY <1>4, <2>3, EssentialRowsAreNeeded
    <3>2. m \in Uncovered(sel) /\ sel \in SUBSET rows /\ p \notin sel /\ p \in rows
      BY <1>2, <2>1, <2>3, <3>1 DEF Uncovered
    <3>3. Reaches(sel, 0)
      BY <2>3
    <3> HIDE DEF sel
    <3>4. Reaches(sel \cup {p}, 0 + 1)
      BY <1>2, <3>1, <3>2, <3>3, OneMoreRow
    <3>5. Reaches(sel \cup {p}, 0)
      BY <3>2, <3>4, <1>2, LiteralsType DEF Reaches, Board
    <3>6. sel \cup {p} = selected \cup (t \cup {p})
      BY DEF sel
    <3>7. Reaches(selected \cup (t \cup {p}), 0)
      BY <3>5, <3>6
    <3>8. QED
      BY <2>3, <3>7
  <2> HIDE DEF Q
  <2>4. new \in Q
    BY <2>1, <2>2, <2>3, SetInduction
  <2>5. selected \cup new = chosen
    BY DEF EssentialRows
  <2>6. Reaches(selected \cup new, 0)
    BY <2>4 DEF Q
  <2>7. QED
    BY <2>5, <2>6
<1>15. DepthInv'
  <2>1. Reaches(selected, 0)'
    BY <1>1, <1>8, <1>14
  <2>2. phase' = "visit" => Reaches(call, 0)' /\ Len(open') = 0
    BY <1>1, <1>3, <1>8
  <2>3. QED
    BY <1>1, <1>3, <1>6, <2>1, <2>2 DEF DepthInv
<1>16. SearchKeepsAMinimum'
  <2>1. SUFFICES ASSUME phase' = "visit", NEW cover \in SUBSET rows', Uncovered(cover)' = {}
                 PROVE  \E sel \in Ahead' : sel \subseteq cover
    BY <1>6 DEF SearchKeepsAMinimum
  <2>2. call' \in Ahead' /\ call' = selected
    <3>1. call' = selected
      BY <1>1, <2>1
    <3>2. call' \in {call'}
      OBVIOUS
    <3>3. call' \in Ahead'
      BY <2>1, <3>2, Zenon DEF Ahead
    <3>4. QED
      BY <3>1, <3>3
  <2>3. selected \subseteq cover
    BY <1>1, <1>3, <1>8, <2>1
  <2>4. QED
    BY <2>2, <2>3
<1>17. FoundInv'
  <2>1. SUFFICES ASSUME phase' = "done" PROVE best' # NoCover
    BY <1>6 DEF FoundInv
  <2>2. best'.terms = Cardinality(selected)
    BY <1>1, <2>1
  <2>3. Cardinality(selected) \in Nat /\ Cardinality(Uncovered(selected)) \in Nat
    BY <1>2, LiteralsType, ColumnCounts DEF Board
  <2>4. Cardinality(selected) < Unbounded
    <3>1. Cardinality(selected) <= Cardinality(onSet) /\ Cardinality(onSet) \in Nat
      BY <1>2, <1>3, <2>3, CoverBoard DEF Reaches
    <3>2. QED
      BY <1>2, <2>3, <3>1, UnboundedIsLarge DEF Problem
  <2>5. NoCover.terms = Unbounded
    BY DEF NoCover
  <2>6. QED
    BY <2>2, <2>3, <2>4, <2>5, UnboundedIsLarge
<1>18. DoneInv'
  <2>1. SUFFICES ASSUME phase' = "done", NEW cover \in SUBSET rows', Uncovered(cover)' = {}
                 PROVE  Worse(cover)'
    BY DEF DoneInv
  <2>2. selected \subseteq cover /\ cover \in SUBSET CubesOver(inputs) /\ IsFiniteSet(inputs)
    BY <1>1, <1>2, <1>3, <1>8, <2>1 DEF Board
  <2>3. best'.terms = Cardinality(selected) /\ best'.literals = Literals(selected)
    BY <1>1, <2>1
  <2>4. /\ Cardinality(selected) <= Cardinality(cover) /\ Literals(selected) <= Literals(cover)
        /\ Cardinality(cover) \in Nat /\ Cardinality(selected) \in Nat
        /\ Literals(cover) \in Nat /\ Literals(selected) \in Nat
    <3>1. selected \in SUBSET CubesOver(inputs)
      BY <2>2
    <3>2. QED
      BY <2>2, <3>1, FewerTerms, LiteralsType
  <2>5. QED
    BY <2>3, <2>4 DEF Worse
<1>19. QED
  BY <1>10, <1>11, <1>12, <1>13, <1>15, <1>16, <1>17, <1>18 DEF CoverInv

----------------------------------------------------------------------------
(* The search.                                                             *)

\* The rows the search will go on from, now and after a step.
LEMMA AheadNow ==
    ASSUME open \in Seq(Frames)
    PROVE  \A sel : sel \in Ahead <=>
               \/ phase = "visit" /\ sel = call
               \/ \E i \in 1..Len(open) : \E p \in open[i].untried : sel = open[i].selected \cup {p}
<1>1. ToSet(open) = {open[i] : i \in 1..Len(open)}
  BY DEF ToSet
<1>2. QED
  BY <1>1 DEF Ahead

LEMMA AheadNext ==
    ASSUME open' \in Seq(Frames')
    PROVE  \A sel : sel \in Ahead' <=>
               \/ phase' = "visit" /\ sel = call'
               \/ \E i \in 1..Len(open') : \E p \in open'[i].untried : sel = open'[i].selected \cup {p}
<1>1. ToSet(open') = {open'[i] : i \in 1..Len(open')}
  BY DEF ToSet
<1>2. QED
  BY <1>1 DEF Ahead

\* What every step of the search keeps.
LEMMA SearchFrame ==
    ASSUME NEW inputs, NEW on, NEW dc, Problem(inputs, on, dc), CoverInv(inputs, on, dc),
           phase \in {"visit", "loop"}, phase' \in {"visit", "loop", "done"},
           UNCHANGED <<onSet, terms, primes, rows, selected>>,
           call' \in SUBSET rows, open' \in Seq(Frames),
           best' = best \/ (IsCover(best') /\ best' # NoCover)
    PROVE  /\ CoverTypeOK(inputs, on, dc)' /\ MergePhase(inputs, on, dc)'
           /\ RowsInv(inputs, on, dc)' /\ EssentialInv'
<1>1. CoverTypeOK(inputs, on, dc) /\ on # {}
  BY RowsBuilt DEF CoverInv
<1>2. \A sel : Uncovered(sel)' = Uncovered(sel)
  BY SameColumns
<1>3. best' = NoCover \/ IsCover(best)'
  <2>1. best' = NoCover \/ IsCover(best')
    BY <1>1 DEF CoverTypeOK
  <2>2. IsCover(best') => IsCover(best)'
    <3>1. Uncovered(best.selected)' = Uncovered(best'.selected)
      BY DEF Uncovered
    <3>2. rows' = rows
      OBVIOUS
    <3>3. QED
      BY <3>1, <3>2 DEF IsCover
  <2>3. QED
    BY <2>1, <2>2
<1>4. CoverTypeOK(inputs, on, dc)'
  <2>1. open' \in Seq(Frames')
    BY DEF Frames
  <2>2. QED
    BY <1>1, <1>3, <2>1 DEF CoverTypeOK
<1>5. MergePhase(inputs, on, dc)'
  BY DEF MergePhase
<1>6. RowsInv(inputs, on, dc)'
  BY <1>1 DEF CoverInv, RowsInv
<1>7. EssentialInv'
  BY <1>2 DEF CoverInv, EssentialInv
<1>8. QED
  BY <1>4, <1>5, <1>6, <1>7

\* While every column has a row, a call with columns left has one to try.
LEMMA NotStuck ==
    ASSUME NEW inputs, Board(inputs), NEW sel \in SUBSET rows, Uncovered(sel) # {},
           \A m \in onSet : \E p \in rows : Covers(p, m)
    PROVE  ~Stuck(sel) /\ MaxGain(sel) \in Nat /\ MaxGain(sel) >= 1
<1>1. MaxGain(sel) \in Nat /\ \A p \in rows \ sel : Gain(p, sel) <= MaxGain(sel)
  BY LargestGain
<1>2. ASSUME NEW m \in Uncovered(sel) PROVE Options(m, sel) # {} /\ MaxGain(sel) >= 1
  <2>1. m \in onSet
    BY DEF Uncovered
  <2>2. PICK p \in rows : Covers(p, m)
    BY <2>1
  <2>3. p \in rows \ sel /\ p \in Options(m, sel)
    BY <2>2 DEF Uncovered, Options
  <2>4. Gain(p, sel) \in Nat /\ Gain(p, sel) >= 1
    BY <2>2, ColumnCounts
  <2>5. QED
    BY <1>1, <2>3, <2>4
<1>3. MaxGain(sel) # 0
  BY <1>1, <1>2
<1>4. QED
  BY <1>1, <1>2, <1>3 DEF Stuck

\* As long as nothing was found no call is given up.
LEMMA FirstDescent ==
    ASSUME NEW inputs, Board(inputs), NEW sel \in SUBSET rows, NEW d \in Nat, Reaches(sel, d),
           \A m \in onSet : \E p \in rows : Covers(p, m),
           Cardinality(onSet) < Unbounded, best = NoCover
    PROVE  /\ ~Worse(sel) /\ Cardinality(sel) < Unbounded
           /\ Uncovered(sel) # {} => ~Stuck(sel) /\ ~Hopeless(sel)
<1>1. best.terms = Unbounded /\ Unbounded \in Nat
  BY UnboundedIsLarge DEF NoCover
<1>2. Cardinality(sel) \in Nat /\ Cardinality(Uncovered(sel)) \in Nat /\ Cardinality(onSet) \in Nat
  <2>1. sel \in SUBSET CubesOver(inputs) /\ IsFiniteSet(inputs) /\ IsFiniteSet(onSet)
    BY DEF Board
  <2>2. QED
    BY <2>1, LiteralsType, ColumnCounts, FS_CardinalityType
<1>3. Cardinality(sel) + Cardinality(Uncovered(sel)) < Unbounded
  BY <1>1, <1>2 DEF Reaches
<1>4. ~Worse(sel) /\ Cardinality(sel) < Unbounded
  BY <1>1, <1>2, <1>3 DEF Worse
<1>5. ASSUME Uncovered(sel) # {} PROVE ~Stuck(sel) /\ ~Hopeless(sel)
  <2>1. ~Stuck(sel) /\ MaxGain(sel) \in Nat /\ MaxGain(sel) >= 1
    BY <1>5, NotStuck
  <2>2. BoundOnTerms(sel) \in Nat /\ BoundOnTerms(sel) <= Cardinality(Uncovered(sel))
    BY <1>2, <2>1, QuotientRoundedUp DEF BoundOnTerms
  <2>3. QED
    BY <1>1, <1>2, <1>3, <2>1, <2>2 DEF Hopeless
<1>6. QED
  BY <1>4, <1>5

\* A cover with more rows is no better.
LEMMA MoreRowsAreWorse ==
    ASSUME NEW inputs, Board(inputs), NEW cover \in SUBSET rows, NEW sel \in SUBSET cover
    PROVE  /\ Worse(sel) => Worse(cover)
           /\ Cardinality(sel) <= Cardinality(cover) /\ Literals(sel) <= Literals(cover)
           /\ Cardinality(cover) \in Nat /\ Cardinality(sel) \in Nat
           /\ Literals(cover) \in Nat /\ Literals(sel) \in Nat
<1>1. cover \in SUBSET CubesOver(inputs) /\ sel \in SUBSET CubesOver(inputs) /\ IsFiniteSet(inputs)
      /\ best.terms \in Nat /\ best.literals \in Nat
  BY DEF Board
<1>2. /\ Cardinality(sel) <= Cardinality(cover) /\ Literals(sel) <= Literals(cover)
      /\ Cardinality(cover) \in Nat /\ Cardinality(sel) \in Nat
      /\ Literals(cover) \in Nat /\ Literals(sel) \in Nat
  BY <1>1, FewerTerms, LiteralsType
<1>3. QED
  BY <1>1, <1>2 DEF Worse

LEMMA GiveUpStep ==
    ASSUME NEW inputs, NEW on, NEW dc, Problem(inputs, on, dc), CoverInv(inputs, on, dc), GiveUp
    PROVE  CoverInv(inputs, on, dc)'
<1>1. /\ phase = "visit" /\ phase' = "loop" /\ call' = {}
      /\ Worse(call) \/ (Uncovered(call) # {} /\ (Stuck(call) \/ Hopeless(call)))
      /\ UNCHANGED <<onSet, terms, primes, rows, selected, open, best>>
  BY DEF GiveUp
<1>2. /\ onSet = on /\ call \in SUBSET rows /\ open \in Seq(Frames) /\ Board(inputs)
      /\ \A m \in onSet : \E p \in rows : Covers(p, m)
  BY <1>1, RowsBuilt
<1>3. CoverTypeOK(inputs, on, dc)' /\ MergePhase(inputs, on, dc)' /\ RowsInv(inputs, on, dc)' /\ EssentialInv'
  BY <1>1, <1>2, SearchFrame
<1>4. /\ \A sel : Uncovered(sel)' = Uncovered(sel) /\ (Worse(sel)' <=> Worse(sel))
      /\ \A sel, d : Reaches(sel, d)' <=> Reaches(sel, d)
  BY <1>1, SameColumns
<1>5. DepthInv'
  BY <1>1, <1>4 DEF CoverInv, DepthInv
<1>6. SearchKeepsAMinimum'
  <2>1. SUFFICES ASSUME NEW cover \in SUBSET rows, Uncovered(cover) = {}, ~Worse(cover)
                 PROVE  \E sel \in Ahead' : sel \subseteq cover
    BY <1>1, <1>4 DEF SearchKeepsAMinimum
  <2>2. PICK sel \in Ahead : sel \subseteq cover
    BY <1>1, <2>1 DEF CoverInv, SearchKeepsAMinimum
  <2>3. sel # call
    <3>1. SUFFICES ASSUME call \subseteq cover PROVE FALSE
      BY <2>2
    <3>2. ~Worse(call)
      BY <1>2, <2>1, <3>1, MoreRowsAreWorse
    <3>3. Worse(cover)
      BY <1>1, <1>2, <2>1, <3>1, <3>2, BoundsAreRight
    <3>4. QED
      BY <2>1, <3>3
  <2>4. sel \in Ahead'
    <3>1. open' \in Seq(Frames')
      BY <1>3 DEF CoverTypeOK
    <3>2. open' = open
      BY <1>1
    <3>3. QED
      BY <1>2, <2>2, <2>3, <3>1, <3>2, AheadNow, AheadNext
  <2>5. QED
    BY <2>2, <2>4
<1>7. FoundInv'
  <2>1. ASSUME best = NoCover PROVE FALSE
    <3>1. Reaches(call, Len(open)) /\ Len(open) \in Nat
      BY <1>1, <1>2 DEF CoverInv, DepthInv
    <3>2. QED
      BY <1>1, <1>2, <2>1, <3>1, FirstDescent DEF Problem
  <2>2. QED
    BY <1>1, <2>1 DEF FoundInv
<1>8. DoneInv'
  BY <1>1 DEF DoneInv
<1>9. QED
  BY <1>3, <1>5, <1>6, <1>7, <1>8 DEF CoverInv

LEMMA RecordStep ==
    ASSUME NEW inputs, NEW on, NEW dc, Problem(inputs, on, dc), CoverInv(inputs, on, dc), Record
    PROVE  CoverInv(inputs, on, dc)'
<1>1. /\ phase = "visit" /\ phase' = "loop" /\ call' = {} /\ ~Worse(call) /\ Uncovered(call) = {}
      /\ best' = [terms |-> Cardinality(call), literals |-> Literals(call), selected |-> call]
      /\ UNCHANGED <<onSet, terms, primes, rows, selected, open>>
  BY DEF Record
<1>2. /\ onSet = on /\ call \in SUBSET rows /\ open \in Seq(Frames) /\ Board(inputs)
      /\ best.terms \in Nat /\ best.literals \in Nat
  BY <1>1, RowsBuilt DEF Board
<1>3. Reaches(call, Len(open)) /\ Len(open) \in Nat
  BY <1>1, <1>2 DEF CoverInv, DepthInv
<1>4. best'.terms = Cardinality(call) /\ best'.literals = Literals(call) /\ best'.selected = call
  BY <1>1
<1>5. IsCover(best') /\ best' # NoCover
  <2>1. IsCover(best')
    <3>1. Uncovered(best'.selected) = {}
      BY <1>1, <1>4
    <3>2. QED
      BY <1>1, <1>2, <1>4, <3>1 DEF IsCover
  <2>2. /\ Cardinality(call) \in Nat /\ Cardinality(Uncovered(call)) \in Nat /\ Cardinality(onSet) \in Nat
        /\ Cardinality(onSet) < Unbounded
    BY <1>2, MoreRowsAreWorse, ColumnCounts, FS_CardinalityType DEF Board, Problem
  <2>3. Cardinality(call) < Unbounded
    BY <1>3, <2>2, UnboundedIsLarge DEF Reaches
  <2>4. NoCover.terms = Unbounded
    BY DEF NoCover
  <2>5. QED
    BY <1>4, <2>1, <2>2, <2>3, <2>4, UnboundedIsLarge
<1>6. CoverTypeOK(inputs, on, dc)' /\ MergePhase(inputs, on, dc)' /\ RowsInv(inputs, on, dc)' /\ EssentialInv'
  BY <1>1, <1>2, <1>5, SearchFrame
<1>7. \A sel : Uncovered(sel)' = Uncovered(sel) /\ \A d : Reaches(sel, d)' <=> Reaches(sel, d)
  BY <1>1, SameColumns
<1>8. DepthInv'
  BY <1>1, <1>7 DEF CoverInv, DepthInv
<1>9. SearchKeepsAMinimum'
  <2>1. SUFFICES ASSUME NEW cover \in SUBSET rows, Uncovered(cover) = {}, ~Worse(cover)'
                 PROVE  \E sel \in Ahead' : sel \subseteq cover
    BY <1>1, <1>7 DEF SearchKeepsAMinimum
  <2>2. /\ Cardinality(cover) \in Nat /\ Literals(cover) \in Nat
        /\ Cardinality(call) \in Nat /\ Literals(call) \in Nat
    BY <1>2, MoreRowsAreWorse
  <2>3. ~(call \subseteq cover)
    <3>1. SUFFICES ASSUME call \subseteq cover PROVE FALSE
      OBVIOUS
    <3>2. Cardinality(call) <= Cardinality(cover) /\ Literals(call) <= Literals(cover)
      BY <1>2, <3>1, MoreRowsAreWorse
    <3>3. QED
      BY <1>4, <2>1, <2>2, <3>2 DEF Worse
  <2>4. ~Worse(cover)
    BY <1>1, <1>2, <1>4, <2>1, <2>2 DEF Worse
  <2>5. PICK sel \in Ahead : sel \subseteq cover
    BY <1>1, <2>1, <2>4 DEF CoverInv, SearchKeepsAMinimum
  <2>6. sel \in Ahead'
    <3>1. open' \in Seq(Frames') /\ open' = open /\ sel # call
      BY <1>1, <1>6, <2>3, <2>5 DEF CoverTypeOK
    <3>2. QED
      BY <1>2, <2>5, <3>1, AheadNow, AheadNext
  <2>7. QED
    BY <2>5, <2>6
<1>10. FoundInv' /\ DoneInv'
  BY <1>1, <1>5 DEF FoundInv, DoneInv
<1>11. QED
  BY <1>6, <1>8, <1>9, <1>10 DEF CoverInv

LEMMA BranchStep ==
    ASSUME NEW inputs, NEW on, NEW dc, Problem(inputs, on, dc), CoverInv(inputs, on, dc), Branch
    PROVE  CoverInv(inputs, on, dc)'
<1>1. PICK m \in Uncovered(call) : open' = Append(open, [selected |-> call, untried |-> Options(m, call)])
  BY DEF Branch
<1> DEFINE frame == [selected |-> call, untried |-> Options(m, call)]
<1>2. /\ phase = "visit" /\ phase' = "loop" /\ call' = {} /\ ~Stuck(call)
      /\ UNCHANGED <<onSet, terms, primes, rows, selected, best>>
  BY DEF Branch
<1>3. /\ onSet = on /\ call \in SUBSET rows /\ open \in Seq(Frames) /\ Board(inputs)
  BY <1>2, RowsBuilt
<1>4. /\ frame \in Frames /\ frame.selected = call /\ frame.untried = Options(m, call)
      /\ frame.untried # {}
      /\ \A p \in frame.untried : p \in rows /\ p \notin call /\ Covers(p, m)
  BY <1>2, <1>3 DEF Frames, Options, Stuck
<1> HIDE DEF frame
<1>5. /\ open' \in Seq(Frames) /\ Len(open') = Len(open) + 1 /\ Len(open) \in Nat
      /\ open'[Len(open) + 1] = frame
      /\ \A i \in 1..Len(open) : open'[i] = open[i]
  BY <1>1, <1>3, <1>4 DEF frame
<1>6. CoverTypeOK(inputs, on, dc)' /\ MergePhase(inputs, on, dc)' /\ RowsInv(inputs, on, dc)' /\ EssentialInv'
  <2>1. call' \in SUBSET rows
    BY <1>2
  <2>2. QED
    BY <1>2, <1>5, <2>1, SearchFrame
<1>7. /\ \A sel : Uncovered(sel)' = Uncovered(sel) /\ (Worse(sel)' <=> Worse(sel))
      /\ \A sel, d : Reaches(sel, d)' <=> Reaches(sel, d)
  BY <1>2, SameColumns
<1>8. DepthInv'
  <2>1. ASSUME NEW i \in 1..Len(open')
        PROVE  /\ Reaches(open'[i].selected, i - 1) /\ Uncovered(open'[i].selected) # {}
               /\ \A p \in open'[i].untried :
                    p \notin open'[i].selected /\ \E c \in Uncovered(open'[i].selected) : Covers(p, c)
    <3>1. CASE i \in 1..Len(open)
      BY <1>5, <3>1 DEF CoverInv, DepthInv
    <3>2. CASE i = Len(open) + 1
      <4>1. open'[i].selected = call /\ open'[i].untried = frame.untried /\ i - 1 = Len(open)
        BY <1>4, <1>5, <3>2
      <4>2. Reaches(call, Len(open))
        BY <1>2 DEF CoverInv, DepthInv
      <4>3. \A p \in frame.untried : p \notin call /\ \E c \in Uncovered(call) : Covers(p, c)
        BY <1>4
      <4>4. QED
        BY <1>1, <4>1, <4>2, <4>3
    <3>3. QED
      BY <1>5, <3>1, <3>2
  <2>2. \A i \in 1..Len(open') :
           /\ Reaches(open[i].selected, i - 1)' /\ Uncovered(open[i].selected)' # {}
           /\ \A p \in open'[i].untried :
                  p \notin open'[i].selected /\ \E c \in Uncovered(open[i].selected)' : Covers(p, c)
    BY <1>2, <2>1 DEF Reaches, Uncovered
  <2>3. QED
    BY <1>2, <2>2 DEF DepthInv
<1>9. SearchKeepsAMinimum'
  <2>1. SUFFICES ASSUME NEW cover \in SUBSET rows, Uncovered(cover) = {}, ~Worse(cover)
                 PROVE  \E sel \in Ahead' : sel \subseteq cover
    BY <1>2, <1>7 DEF SearchKeepsAMinimum
  <2>2. PICK sel \in Ahead : sel \subseteq cover
    BY <1>2, <2>1 DEF CoverInv, SearchKeepsAMinimum
  <2>3. open' \in Seq(Frames')
    BY <1>6 DEF CoverTypeOK
  <2>4. CASE sel = call
    <3>1. PICK p \in cover : Covers(p, m)
      BY <2>1 DEF Uncovered
    <3>2. p \in Options(m, call)
      BY <3>1 DEF Options, Uncovered
    <3>3. p \in open'[Len(open) + 1].untried /\ open'[Len(open) + 1].selected = call
          /\ Len(open) + 1 \in 1..Len(open')
      BY <1>4, <1>5, <3>2
    <3>4. call \cup {p} \in Ahead'
      BY <2>3, <3>3, AheadNext
    <3>5. QED
      BY <2>2, <2>4, <3>1, <3>4
  <2>5. CASE sel # call
    <3>1. PICK i \in 1..Len(open) : \E p \in open[i].untried : sel = open[i].selected \cup {p}
      BY <1>3, <2>2, <2>5, AheadNow
    <3>2. i \in 1..Len(open') /\ open'[i] = open[i]
      BY <1>5
    <3>3. sel \in Ahead'
      BY <2>3, <3>1, <3>2, AheadNext
    <3>4. QED
      BY <2>2, <3>3
  <2>6. QED
    BY <2>4, <2>5
<1>10. FoundInv'
  <2>1. open' # <<>> /\ open'[Len(open')].untried # {}
    BY <1>4, <1>5
  <2>2. QED
    BY <1>2, <2>1 DEF FoundInv
<1>11. DoneInv'
  BY <1>2 DEF DoneInv
<1>12. QED
  BY <1>6, <1>8, <1>9, <1>10, <1>11 DEF CoverInv

LEMMA TryRowStep ==
    ASSUME NEW inputs, NEW on, NEW dc, Problem(inputs, on, dc), CoverInv(inputs, on, dc), TryRow
    PROVE  CoverInv(inputs, on, dc)'
<1> DEFINE k == Len(open)
<1>1. PICK p \in Last(open).untried :
          /\ call' = Last(open).selected \cup {p}
          /\ open' = [open EXCEPT ![Len(open)].untried = @ \ {p}]
  BY DEF TryRow
<1>2. /\ phase = "loop" /\ phase' = "visit" /\ open # <<>>
      /\ UNCHANGED <<onSet, terms, primes, rows, selected, best>>
  BY DEF TryRow
<1>3. /\ onSet = on /\ open \in Seq(Frames) /\ Board(inputs)
  BY <1>2, RowsBuilt
<1>4. /\ k \in 1..Len(open) /\ k \in Nat /\ k - 1 \in Nat /\ Last(open) = open[k]
      /\ open[k].selected \in SUBSET rows /\ open[k].untried \in SUBSET rows
      /\ open[k] = [selected |-> open[k].selected, untried |-> open[k].untried]
  <2>1. k \in Nat /\ k >= 1
    BY <1>2, <1>3
  <2>2. open[k] \in Frames
    BY <1>3, <2>1
  <2>3. QED
    BY <2>1, <2>2 DEF Last, Frames
<1>5. /\ Len(open') = k /\ open' \in Seq(Frames)
      /\ open'[k] = [selected |-> open[k].selected, untried |-> open[k].untried \ {p}]
      /\ \A i \in 1..k : i # k => open'[i] = open[i]
  <2>1. open' = [i \in 1..k |-> IF i = k THEN [selected |-> open[k].selected, untried |-> open[k].untried \ {p}]
                                ELSE open[i]]
    <3>1. [open[k] EXCEPT !.untried = @ \ {p}] = [selected |-> open[k].selected, untried |-> open[k].untried \ {p}]
      BY <1>4
    <3>2. DOMAIN open = 1..k
      BY <1>3
    <3>3. open' = [i \in 1..k |-> IF i = k THEN [open[k] EXCEPT !.untried = @ \ {p}] ELSE open[i]]
      BY <1>1, <1>4, <3>2
    <3>4. QED
      BY <3>1, <3>3
  <2>2. [selected |-> open[k].selected, untried |-> open[k].untried \ {p}] \in Frames
    BY <1>4 DEF Frames
  <2>3. QED
    BY <1>3, <1>4, <2>1, <2>2
<1>6. call' \in SUBSET rows /\ call' = open[k].selected \cup {p} /\ p \in open[k].untried
  BY <1>1, <1>4
<1>7. CoverTypeOK(inputs, on, dc)' /\ MergePhase(inputs, on, dc)' /\ RowsInv(inputs, on, dc)' /\ EssentialInv'
  BY <1>2, <1>5, <1>6, SearchFrame
<1>8. /\ \A sel : Uncovered(sel)' = Uncovered(sel) /\ (Worse(sel)' <=> Worse(sel))
      /\ \A sel, d : Reaches(sel, d)' <=> Reaches(sel, d)
  BY <1>2, SameColumns
<1>9. /\ \A i \in 1..k : open'[i].selected = open[i].selected /\ open'[i].untried \subseteq open[i].untried
  BY <1>4, <1>5
<1>10. /\ Reaches(open[k].selected, k - 1)
       /\ p \notin open[k].selected /\ \E m \in Uncovered(open[k].selected) : Covers(p, m)
  BY <1>4, <1>6 DEF CoverInv, DepthInv
<1>11. DepthInv'
  <2>1. Reaches(call', k)
    <3>1. Reaches(open[k].selected \cup {p}, (k - 1) + 1)
      BY <1>3, <1>4, <1>6, <1>10, OneMoreRow
    <3>2. QED
      BY <1>4, <1>6, <3>1
  <2>2. Reaches(call, Len(open))'
    BY <1>2, <1>5, <2>1 DEF Reaches, Uncovered
  <2>3. \A i \in 1..Len(open') :
           /\ Reaches(open'[i].selected, i - 1) /\ Uncovered(open'[i].selected) # {}
           /\ \A q \in open'[i].untried :
                  q \notin open'[i].selected /\ \E c \in Uncovered(open'[i].selected) : Covers(q, c)
    BY <1>5, <1>9 DEF CoverInv, DepthInv
  <2>4. \A i \in 1..Len(open') :
           /\ Reaches(open[i].selected, i - 1)' /\ Uncovered(open[i].selected)' # {}
           /\ \A q \in open'[i].untried :
                  q \notin open'[i].selected /\ \E c \in Uncovered(open[i].selected)' : Covers(q, c)
    BY <1>2, <2>3 DEF Reaches, Uncovered
  <2>5. QED
    BY <1>2, <2>2, <2>4 DEF DepthInv
<1>12. SearchKeepsAMinimum'
  <2>1. SUFFICES ASSUME NEW cover \in SUBSET rows, Uncovered(cover) = {}, ~Worse(cover)
                 PROVE  \E sel \in Ahead' : sel \subseteq cover
    BY <1>2, <1>8 DEF SearchKeepsAMinimum
  <2>2. PICK sel \in Ahead : sel \subseteq cover
    BY <1>2, <2>1 DEF CoverInv, SearchKeepsAMinimum
  <2>3. PICK i \in 1..k : \E q \in open[i].untried : sel = open[i].selected \cup {q}
    BY <1>2, <1>3, <2>2, AheadNow
  <2>4. PICK q \in open[i].untried : sel = open[i].selected \cup {q}
    BY <2>3
  <2>5. sel = call' \/ q \in open'[i].untried
    BY <1>4, <1>5, <1>6, <2>4
  <2>6. sel \in Ahead'
    <3>1. open' \in Seq(Frames')
      BY <1>7 DEF CoverTypeOK
    <3>2. q \in open'[i].untried => sel = open'[i].selected \cup {q} /\ i \in 1..Len(open')
      BY <1>5, <1>9, <2>4
    <3>3. QED
      BY <1>2, <2>5, <3>1, <3>2, AheadNext
  <2>7. QED
    BY <2>2, <2>6
<1>13. FoundInv' /\ DoneInv'
  BY <1>2 DEF FoundInv, DoneInv
<1>14. QED
  BY <1>7, <1>11, <1>12, <1>13 DEF CoverInv

LEMMA WithoutLast ==
    ASSUME NEW S, NEW s \in Seq(S), s # <<>>
    PROVE  /\ SubSeq(s, 1, Len(s) - 1) \in Seq(S)
           /\ Len(SubSeq(s, 1, Len(s) - 1)) = Len(s) - 1
           /\ \A i \in 1..(Len(s) - 1) : SubSeq(s, 1, Len(s) - 1)[i] = s[i]
<1>1. Len(s) \in Nat /\ Len(s) >= 1
  OBVIOUS
<1>2. SubSeq(s, 1, Len(s) - 1) \in Seq(S)
  BY <1>1
<1>3. DOMAIN SubSeq(s, 1, Len(s) - 1) = 1..(Len(s) - 1)
      /\ \A i \in 1..(Len(s) - 1) : SubSeq(s, 1, Len(s) - 1)[i] = s[i]
  BY <1>1
<1>4. Len(SubSeq(s, 1, Len(s) - 1)) = Len(s) - 1
  BY <1>1, SMTT(20)
<1>5. QED
  BY <1>2, <1>3, <1>4

LEMMA EndCallStep ==
    ASSUME NEW inputs, NEW on, NEW dc, Problem(inputs, on, dc), CoverInv(inputs, on, dc), EndCall
    PROVE  CoverInv(inputs, on, dc)'
<1> DEFINE k == Len(open)
<1>1. /\ phase = "loop" /\ open # <<>> /\ Last(open).untried = {} /\ open' = Front(open)
      /\ UNCHANGED <<phase, onSet, terms, primes, rows, selected, call, best>>
  BY DEF EndCall
<1>2. /\ onSet = on /\ call \in SUBSET rows /\ open \in Seq(Frames) /\ Board(inputs)
  BY <1>1, RowsBuilt
<1>3. /\ k \in Nat /\ k >= 1 /\ Last(open) = open[k]
  BY <1>1, <1>2 DEF Last
<1>4. open' \in Seq(Frames) /\ Len(open') = k - 1 /\ \A i \in 1..(k - 1) : open'[i] = open[i]
  <2>1. open' = SubSeq(open, 1, k - 1)
    BY <1>1 DEF Front
  <2>2. QED
    BY <1>1, <1>2, <2>1, WithoutLast
<1>5. CoverTypeOK(inputs, on, dc)' /\ MergePhase(inputs, on, dc)' /\ RowsInv(inputs, on, dc)' /\ EssentialInv'
  BY <1>1, <1>2, <1>4, SearchFrame
<1>6. /\ \A sel : Uncovered(sel)' = Uncovered(sel) /\ (Worse(sel)' <=> Worse(sel))
      /\ \A sel, d : Reaches(sel, d)' <=> Reaches(sel, d)
  BY <1>1, SameColumns
<1>7. DepthInv'
  <2>1. \A i \in 1..Len(open') :
           /\ Reaches(open'[i].selected, i - 1) /\ Uncovered(open'[i].selected) # {}
           /\ \A q \in open'[i].untried :
                  q \notin open'[i].selected /\ \E c \in Uncovered(open'[i].selected) : Covers(q, c)
    <3>1. ASSUME NEW i \in 1..Len(open') PROVE i \in 1..Len(open) /\ open'[i] = open[i]
      BY <1>3, <1>4
    <3>2. QED
      BY <3>1 DEF CoverInv, DepthInv
  <2>2. \A i \in 1..Len(open') :
           /\ Reaches(open[i].selected, i - 1)' /\ Uncovered(open[i].selected)' # {}
           /\ \A q \in open'[i].untried :
                  q \notin open'[i].selected /\ \E c \in Uncovered(open[i].selected)' : Covers(q, c)
    BY <1>1, <2>1 DEF Reaches, Uncovered
  <2>3. QED
    BY <1>1, <2>2 DEF DepthInv
<1>8. SearchKeepsAMinimum'
  <2>1. SUFFICES ASSUME NEW cover \in SUBSET rows, Uncovered(cover) = {}, ~Worse(cover)
                 PROVE  \E sel \in Ahead' : sel \subseteq cover
    BY <1>1, <1>6 DEF SearchKeepsAMinimum
  <2>2. PICK sel \in Ahead : sel \subseteq cover
    BY <1>1, <2>1 DEF CoverInv, SearchKeepsAMinimum
  <2>3. PICK i \in 1..k : \E q \in open[i].untried : sel = open[i].selected \cup {q}
    BY <1>1, <1>2, <2>2, AheadNow
  <2>4. i \in 1..Len(open') /\ open'[i] = open[i]
    BY <1>1, <1>3, <1>4, <2>3
  <2>5. sel \in Ahead'
    <3>1. open' \in Seq(Frames')
      BY <1>5 DEF CoverTypeOK
    <3>2. QED
      BY <2>3, <2>4, <3>1, AheadNext
  <2>6. QED
    BY <2>2, <2>5
<1>9. FoundInv'
  <2>1. best # NoCover
    BY <1>1, <1>3 DEF CoverInv, FoundInv
  <2>2. QED
    BY <1>1, <2>1 DEF FoundInv
<1>10. DoneInv'
  BY <1>1 DEF DoneInv
<1>11. QED
  BY <1>5, <1>7, <1>8, <1>9, <1>10 DEF CoverInv

LEMMA EndSearchStep ==
    ASSUME NEW inputs, NEW on, NEW dc, Problem(inputs, on, dc), CoverInv(inputs, on, dc), EndSearch
    PROVE  CoverInv(inputs, on, dc)'
<1>1. /\ phase = "loop" /\ open = <<>> /\ phase' = (IF best = NoCover THEN "failed" ELSE "done")
      /\ UNCHANGED <<onSet, terms, primes, rows, selected, call, open, best>>
  BY DEF EndSearch
<1>2. best # NoCover /\ phase' = "done"
  BY <1>1 DEF CoverInv, FoundInv
<1>3. /\ onSet = on /\ call \in SUBSET rows /\ open \in Seq(Frames)
  BY <1>1, RowsBuilt
<1>4. CoverTypeOK(inputs, on, dc)' /\ MergePhase(inputs, on, dc)' /\ RowsInv(inputs, on, dc)' /\ EssentialInv'
  BY <1>1, <1>2, <1>3, SearchFrame
<1>5. \A sel : Uncovered(sel)' = Uncovered(sel) /\ (Worse(sel)' <=> Worse(sel))
  BY <1>1, SameColumns
<1>6. DoneInv'
  <2>1. SUFFICES ASSUME NEW cover \in SUBSET rows, Uncovered(cover) = {} PROVE Worse(cover)
    BY <1>1, <1>5 DEF DoneInv
  <2>2. \A sel : sel \notin Ahead
    <3>1. Len(open) = 0 /\ phase # "visit"
      BY <1>1
    <3>2. QED
      BY <1>3, <3>1, AheadNow
  <2>3. QED
    BY <1>1, <2>1, <2>2 DEF CoverInv, SearchKeepsAMinimum
<1>7. DepthInv' /\ SearchKeepsAMinimum' /\ FoundInv'
  BY <1>1, <1>2 DEF DepthInv, SearchKeepsAMinimum, FoundInv
<1>8. QED
  BY <1>4, <1>6, <1>7 DEF CoverInv

\* Every step of minimize_exact keeps the invariant.
LEMMA CoverStepInv ==
    ASSUME NEW inputs, NEW on, NEW dc, Problem(inputs, on, dc), CoverInv(inputs, on, dc), CoverStep
    PROVE  CoverInv(inputs, on, dc)'
BY MergeLevelStep, BuildRowsStep, SelectEssentialStep, GiveUpStep, RecordStep, BranchStep,
   TryRowStep, EndCallStep, EndSearchStep DEF CoverStep

LEMMA CoverStutterInv ==
    ASSUME NEW inputs, NEW on, NEW dc, CoverInv(inputs, on, dc), UNCHANGED coverVars
    PROVE  CoverInv(inputs, on, dc)'
<1>1. UNCHANGED <<phase, onSet, terms, primes, rows, selected, call, open, best>>
  BY DEF coverVars
<1>2. Ahead' = Ahead
  BY <1>1 DEF Ahead
<1>3. /\ \A sel : Uncovered(sel)' = Uncovered(sel) /\ (Worse(sel)' <=> Worse(sel))
  BY <1>1, SameColumns
<1>4. (CoverTypeOK(inputs, on, dc) /\ MergePhase(inputs, on, dc) /\ RowsInv(inputs, on, dc))'
  <2>1. IsCover(best)' <=> IsCover(best)
    BY <1>1 DEF IsCover, Uncovered
  <2>2. CoverTypeOK(inputs, on, dc)'
    BY <1>1, <2>1 DEF CoverInv, CoverTypeOK, Frames
  <2>3. MergePhase(inputs, on, dc)'
    BY <1>1 DEF CoverInv, MergePhase, MergeInv, FullLevel, Reached
  <2>4. RowsInv(inputs, on, dc)'
    BY <1>1 DEF CoverInv, RowsInv
  <2>5. QED
    BY <2>2, <2>3, <2>4
<1>5. (EssentialInv /\ SearchKeepsAMinimum /\ FoundInv /\ DoneInv)'
  BY <1>1, <1>2, <1>3 DEF CoverInv, EssentialInv, SearchKeepsAMinimum, FoundInv, DoneInv
<1>6. DepthInv'
  BY <1>1 DEF CoverInv, DepthInv, Reaches, Uncovered
<1>7. QED
  BY <1>4, <1>5, <1>6 DEF CoverInv

----------------------------------------------------------------------------
(* What is found.                                                          *)

\* Implicants are replaced by the rows above them: no more terms, no more literals.
LEMMA RowsForImplicants ==
    ASSUME NEW inputs, NEW on, NEW dc, Problem(inputs, on, dc), CoverInv(inputs, on, dc), phase = "done",
           NEW d \in SUBSET ImplicantsOf(inputs, on \cup dc)
    PROVE  \E c \in SUBSET rows :
               /\ Cardinality(c) <= Cardinality(d) /\ Literals(c) <= Literals(d)
               /\ \A m \in on : (\E p \in d : Covers(p, m)) => \E p \in c : Covers(p, m)
<1> DEFINE imps == ImplicantsOf(inputs, on \cup dc)
           Good(t, c) == /\ Cardinality(c) <= Cardinality(t) /\ Literals(c) <= Literals(t)
                         /\ \A m \in on : (\E p \in t : Covers(p, m)) => \E p \in c : Covers(p, m)
           Q == {t \in SUBSET d : \E c \in SUBSET rows : Good(t, c)}
<1>1. d \in SUBSET CubesOver(inputs) /\ IsFiniteSet(inputs) /\ imps \subseteq CubesOver(inputs)
      /\ onSet = on /\ on \subseteq SUBSET inputs /\ rows \subseteq primes /\ primes \subseteq imps
  BY DEF ImplicantsOf, Problem, CoverInv, CoverTypeOK
<1>2. IsFiniteSet(d) /\ rows \in SUBSET CubesOver(inputs)
  BY <1>1, LiteralsType
<1>3. {} \in Q
  <2>1. Good({}, {})
    BY LiteralsOfNone, FS_EmptySet
  <2>2. QED
    BY <2>1
<1>4. ASSUME NEW t \in SUBSET d, NEW x \in d, t \in Q, x \notin t
      PROVE  t \cup {x} \in Q
  <2>1. PICK c \in SUBSET rows : Good(t, c)
    BY <1>4
  <2>2. /\ t \in SUBSET CubesOver(inputs) /\ c \in SUBSET CubesOver(inputs)
        /\ x \in CubesOver(inputs) /\ x \in imps
    BY <1>1, <1>2
  <2>3. /\ IsFiniteSet(t) /\ IsFiniteSet(c) /\ Literals(t) \in Nat /\ Literals(c) \in Nat
        /\ Cardinality(t) \in Nat /\ Cardinality(c) \in Nat /\ LiteralCount(x) \in Nat
    BY <1>1, <2>2, LiteralsType, CubesAreFinite
  <2>4. Cardinality(t \cup {x}) = Cardinality(t) + 1 /\ Literals(t \cup {x}) = Literals(t) + LiteralCount(x)
    BY <1>1, <1>4, <2>2, <2>3, FS_AddElement, LiteralsOfOneMore
  <2>5. CASE \A m \in on : ~Covers(x, m)
    <3>1. Good(t \cup {x}, c)
      BY <2>1, <2>3, <2>4, <2>5
    <3>2. QED
      BY <1>4, <3>1
  <2>6. ASSUME NEW m \in on, Covers(x, m) PROVE t \cup {x} \in Q
    <3>1. PICK q \in primes : Above(q, x)
      <4>1. phase # "merge" /\ on # {}
        OBVIOUS
      <4>2. QED
        BY <2>2, <4>1 DEF CoverInv, RowsInv
    <3>2. q \in CubesOver(inputs)
      BY <1>1
    <3>3. \A y \in on : Covers(x, y) => Covers(q, y)
      BY <1>1, <2>2, <3>1, <3>2, AboveCovers
    <3>4. q \in rows
      BY <1>1, <2>6, <3>3 DEF CoverInv, RowsInv
    <3>5. LiteralCount(q) <= LiteralCount(x) /\ LiteralCount(q) \in Nat
      <4>1. q.mask \in SUBSET x.mask /\ IsFiniteSet(x.mask)
        BY <1>1, <2>2, <3>1, CubesAreFinite DEF Above
      <4>2. QED
        BY <1>1, <3>2, <4>1, FS_Subset, CubesAreFinite DEF LiteralCount
    <3>6. /\ Cardinality(c \cup {q}) <= Cardinality(c) + 1
          /\ Literals(c \cup {q}) <= Literals(c) + LiteralCount(q)
      <4>1. CASE q \in c
        <5>1. c \cup {q} = c
          BY <4>1
        <5>2. Cardinality(c \cup {q}) = Cardinality(c) /\ Literals(c \cup {q}) = Literals(c)
          BY <5>1, Zenon
        <5>3. QED
          BY <2>3, <3>5, <5>2
      <4>2. CASE q \notin c
        <5>1. Cardinality(c \cup {q}) = Cardinality(c) + 1
          BY <2>3, <4>2, FS_AddElement
        <5>2. Literals(c \cup {q}) = Literals(c) + LiteralCount(q)
          BY <1>1, <2>2, <3>2, <4>2, LiteralsOfOneMore
        <5>3. QED
          BY <2>3, <3>5, <5>1, <5>2
      <4>3. QED
        BY <4>1, <4>2
    <3>7. Cardinality(c \cup {q}) \in Nat /\ Literals(c \cup {q}) \in Nat
      <4>1. c \cup {q} \in SUBSET CubesOver(inputs)
        BY <2>2, <3>2
      <4>2. QED
        BY <1>1, <4>1, LiteralsType
    <3>8. Good(t \cup {x}, c \cup {q})
      <4>1. \A y \in on : (\E p \in t \cup {x} : Covers(p, y)) => \E p \in c \cup {q} : Covers(p, y)
        BY <2>1, <3>3
      <4>2. /\ Cardinality(c \cup {q}) <= Cardinality(t \cup {x})
            /\ Literals(c \cup {q}) <= Literals(t \cup {x})
        BY <2>1, <2>3, <2>4, <3>5, <3>6, <3>7
      <4>3. QED
        BY <4>1, <4>2
    <3>9. QED
      BY <1>4, <3>4, <3>8
  <2>7. QED
    BY <2>5, <2>6
<1> HIDE DEF Q
<1>5. d \in Q
  BY <1>2, <1>3, <1>4, SetInduction
<1>6. QED
  BY <1>5 DEF Q

\* When minimize_exact is done its cover is one, and there is none with fewer terms, or
\* with as many and fewer literals, among all the implicants.
LEMMA DoneIsMinimum ==
    ASSUME NEW inputs, NEW on, NEW dc, Problem(inputs, on, dc), CoverInv(inputs, on, dc), phase = "done"
    PROVE  /\ best.selected \in SUBSET ImplicantsOf(inputs, on \cup dc)
           /\ \A m \in on : \E p \in best.selected : Covers(p, m)
           /\ best.terms = Cardinality(best.selected) /\ best.terms \in Nat
           /\ best.literals = Literals(best.selected) /\ best.literals \in Nat
           /\ \A d \in SUBSET ImplicantsOf(inputs, on \cup dc) :
                  (\A m \in on : \E p \in d : Covers(p, m)) =>
                      /\ Cardinality(d) \in Nat /\ Literals(d) \in Nat
                      /\ best.terms <= Cardinality(d)
                      /\ best.terms = Cardinality(d) => best.literals <= Literals(d)
<1>1. /\ IsCover(best) /\ onSet = on /\ rows \subseteq ImplicantsOf(inputs, on \cup dc)
      /\ IsFiniteSet(inputs)
  BY DEF CoverInv, CoverTypeOK, FoundInv, Problem
<1>2. /\ best.selected \in SUBSET rows /\ Uncovered(best.selected) = {}
      /\ best.terms = Cardinality(best.selected) /\ best.literals = Literals(best.selected)
  BY <1>1 DEF IsCover
<1>3. best.terms \in Nat /\ best.literals \in Nat
      /\ \A sel \in SUBSET rows : Cardinality(sel) \in Nat /\ Literals(sel) \in Nat
  BY CoverBoard DEF Board, CoverInv
<1>4. ASSUME NEW d \in SUBSET ImplicantsOf(inputs, on \cup dc), \A m \in on : \E p \in d : Covers(p, m)
      PROVE  /\ Cardinality(d) \in Nat /\ Literals(d) \in Nat
             /\ best.terms <= Cardinality(d)
             /\ best.terms = Cardinality(d) => best.literals <= Literals(d)
  <2>1. PICK c \in SUBSET rows :
            /\ Cardinality(c) <= Cardinality(d) /\ Literals(c) <= Literals(d)
            /\ \A m \in on : (\E p \in d : Covers(p, m)) => \E p \in c : Covers(p, m)
    BY RowsForImplicants
  <2>2. Uncovered(c) = {}
    BY <1>1, <1>4, <2>1 DEF Uncovered
  <2>3. Worse(c)
    BY <2>2 DEF CoverInv, DoneInv
  <2>4. Cardinality(d) \in Nat /\ Literals(d) \in Nat
    <3>1. d \in SUBSET CubesOver(inputs)
      BY DEF ImplicantsOf
    <3>2. QED
      BY <1>1, <3>1, LiteralsType
  <2>5. QED
    BY <1>3, <2>1, <2>3, <2>4 DEF Worse
<1>5. \A m \in on : \E p \in best.selected : Covers(p, m)
  BY <1>1, <1>2 DEF Uncovered
<1>6. QED
  BY <1>1, <1>2, <1>3, <1>4, <1>5

================================================================================
