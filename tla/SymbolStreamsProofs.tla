-------------------------- MODULE SymbolStreamsProofs --------------------------
(***************************************************************************)
(* Proofs about SymbolStreams: that both coders give the input back, for   *)
(* every input and every limit on the length of a code, that the codes     *)
(* leave no bit string undecided, and that no prefix code is shorter.      *)
(***************************************************************************)
EXTENDS SymbolStreams, DataLemmas

----------------------------------------------------------------------------
(* The index stream.                                                       *)

\* The symbols of an input are its bytes, each once.
LEMMA SymbolsAre ==
    ASSUME NEW in \in Seq(0..255)
    PROVE  /\ UniqueSymbols(in) \in Seq(0..255)
           /\ Len(UniqueSymbols(in)) \in 0..256
           /\ ToSet(UniqueSymbols(in)) = ToSet(in)
           /\ \A i, j \in DOMAIN UniqueSymbols(in) :
                  UniqueSymbols(in)[i] = UniqueSymbols(in)[j] => i = j
<1> DEFINE S == ToSet(in)
           s == UniqueSymbols(in)
<1>1. \A x \in S : x \in 0..255
  <2>1. \A i \in DOMAIN in : in[i] \in 0..255
    BY SeqElement
  <2> QED BY <2>1 DEF ToSet
<1>2. IsFiniteSet(0..255) /\ Cardinality(0..255) = 256
  <2>1. 0 \in Int /\ 255 \in Int
    OBVIOUS
  <2>2. IsFiniteSet(0..255) /\ Cardinality(0..255) = IF 0 > 255 THEN 0 ELSE 255 - 0 + 1
    BY <2>1, FS_Interval
  <2> QED BY <2>2
<1>3. IsFiniteSet(S) /\ Cardinality(S) \in Nat /\ Cardinality(S) <= 256
  <2> HIDE DEF S
  <2>1. S \in SUBSET (0..255)
    BY <1>1, Zenon
  <2>2. IsFiniteSet(S) /\ Cardinality(S) <= Cardinality(0..255)
    BY <1>2, <2>1, FS_Subset, ZenonT(20)
  <2> QED BY <1>2, <2>2, FS_CardinalityType
<1>4. S \in SUBSET Nat
  <2> HIDE DEF S
  <2>1. \A x \in 0..255 : x \in Nat
    OBVIOUS
  <2> QED BY <1>1, <2>1, Zenon
<1>5. s = ByRank(S)
  BY DEF UniqueSymbols, Ascending, ByRank
<1> HIDE DEF S, s
<1>6. /\ s \in [1..Cardinality(S) -> S] /\ s \in Seq(S) /\ Len(s) = Cardinality(S)
      /\ Growing(s) /\ {s[i] : i \in DOMAIN s} = S
  BY <1>3, <1>4, <1>5, SortedSet
<1>7. s \in Seq(0..255)
  <2>1. s \in [1..Cardinality(S) -> 0..255]
    BY <1>1, <1>6
  <2> QED BY <1>3, <2>1, FromFunction
<1>8. ASSUME NEW i \in DOMAIN s, NEW j \in DOMAIN s, s[i] = s[j] PROVE i = j
  <2>1. DOMAIN s = 1..Cardinality(S) /\ \A k \in 1..Cardinality(S) : s[k] \in S
    BY <1>6
  <2>2. i \in Nat /\ j \in Nat
    BY <1>3, <1>8, <2>1
  <2>3. s[i] \in Nat
    BY <1>4, <1>8, <2>1
  <2>4. ~(s[i] < s[j]) /\ ~(s[j] < s[i])
    BY <1>8, <2>3
  <2>5. ~(i < j) /\ ~(j < i)
    BY <1>6, <1>8, <2>4 DEF Growing
  <2> QED BY <2>2, <2>5
<1>9. Len(s) \in 0..256
  <2>1. Len(s) = Cardinality(S)
    BY <1>6
  <2>2. \A n \in Nat : n <= 256 => n \in 0..256
    OBVIOUS
  <2> QED BY <1>3, <2>1, <2>2, Zenon
<1>10. ToSet(s) = S
  BY <1>6 DEF ToSet
<1> QED BY <1>7, <1>8, <1>9, <1>10 DEF s, S

\* An index is wide enough for all the symbols.
LEMMA WidthIs ==
    ASSUME NEW c \in 0..256
    PROVE  BitsNeeded(c) \in 1..8 /\ c <= Pow2[BitsNeeded(c)]
<1>1. CASE c <= 1
  BY <1>1, PowValues DEF BitsNeeded
<1>2. CASE c > 1
  <2>1. \E b \in 1..8 : Pow2[b - 1] < c /\ c <= Pow2[b]
    <3>1. /\ c \in Int
          /\ 1 - 1 = 0 /\ 2 - 1 = 1 /\ 3 - 1 = 2 /\ 4 - 1 = 3 /\ 5 - 1 = 4
          /\ 6 - 1 = 5 /\ 7 - 1 = 6 /\ 8 - 1 = 7
      OBVIOUS
    <3>2. CASE c <= 4
      <4>1. (Pow2[1 - 1] < c /\ c <= Pow2[1]) \/ (Pow2[2 - 1] < c /\ c <= Pow2[2])
        BY <1>2, <3>1, <3>2, PowValues
      <4> QED BY <4>1
    <3>3. CASE c > 4 /\ c <= 16
      <4>1. (Pow2[3 - 1] < c /\ c <= Pow2[3]) \/ (Pow2[4 - 1] < c /\ c <= Pow2[4])
        BY <3>1, <3>3, PowValues
      <4> QED BY <4>1
    <3>4. CASE c > 16 /\ c <= 64
      <4>1. (Pow2[5 - 1] < c /\ c <= Pow2[5]) \/ (Pow2[6 - 1] < c /\ c <= Pow2[6])
        BY <3>1, <3>4, PowValues
      <4> QED BY <4>1
    <3>5. CASE c > 64
      <4>1. (Pow2[7 - 1] < c /\ c <= Pow2[7]) \/ (Pow2[8 - 1] < c /\ c <= Pow2[8])
        BY <3>1, <3>5, PowValues
      <4> QED BY <4>1
    <3> QED BY <3>1, <3>2, <3>3, <3>4, <3>5
  <2>2. BitsNeeded(c) = CHOOSE b \in 1..8 : Pow2[b - 1] < c /\ c <= Pow2[b]
    BY <1>2 DEF BitsNeeded
  <2> QED BY <2>1, <2>2
<1> QED BY <1>1, <1>2

\* The bits of a number lie in a payload, its lowest first.
PackedAt(payload, offset, bits, id) ==
    \A j \in 0..(bits - 1) :
        <<(offset + j) \div 8, (offset + j) % 8>> \in payload.ones <=> (id \div Pow2[j]) % 2 = 1
\* The index of a symbol.
IdOf(s, x) == (CHOOSE k \in DOMAIN s : s[k] = x) - 1

\* unpack_symbol_index reads the number whose bits are there.
LEMMA IndexIs ==
    ASSUME NEW payload, NEW offset \in Nat, NEW bits \in Nat, NEW id \in 0..(Pow2[bits] - 1),
           PackedAt(payload, offset, bits, id)
    PROVE  IndexAt(payload, offset, bits) = id
<1> DEFINE BitIs1(i) == <<(offset + i) \div 8, (offset + i) % 8>> \in payload.ones
           Next1(g, i) == IF i = 0 THEN 0 ELSE g[i - 1] + (IF BitIs1(i - 1) THEN Pow2[i - 1] ELSE 0)
           value == CHOOSE g : g = [i \in 0..bits |-> Next1(g, i)]
           low == [i \in 0..bits |-> id % Pow2[i]]
<1>1. id \in Nat
  BY PowType
<1>2. \A i \in 1..bits : BitIs1(i - 1) <=> (id \div Pow2[i - 1]) % 2 = 1
  <2>1. \A i \in 1..bits : i - 1 \in 0..(bits - 1)
    OBVIOUS
  <2>2. \A j \in 0..(bits - 1) : BitIs1(j) <=> (id \div Pow2[j]) % 2 = 1
    BY DEF PackedAt
  <2> HIDE DEF BitIs1
  <2> QED BY <2>1, <2>2
<1> HIDE DEF BitIs1
<1>3. ASSUME NEW i \in 0..bits PROVE id % Pow2[i] = Next1(low, i)
  <2>1. CASE i = 0
    <3>1. id % 1 = 0 /\ Pow2[0] = 1
      BY <1>1, PowIs
    <3> QED BY <2>1, <3>1
  <2>2. CASE i # 0
    <3>1. i - 1 \in Nat /\ (i - 1) + 1 = i /\ i \in 1..bits /\ i - 1 \in 0..bits
      BY <2>2
    <3>2. id % Pow2[(i - 1) + 1] = (id % Pow2[i - 1]) + (IF (id \div Pow2[i - 1]) % 2 = 1 THEN Pow2[i - 1] ELSE 0)
      BY <1>1, <3>1, OneBitMore
    <3>3. low[i - 1] = id % Pow2[i - 1]
      BY <3>1
    <3>4. BitIs1(i - 1) <=> (id \div Pow2[i - 1]) % 2 = 1
      BY <1>2, <3>1
    <3> HIDE DEF low
    <3> QED BY <2>2, <3>1, <3>2, <3>3, <3>4
  <2> QED BY <2>1, <2>2
<1>4. low = [i \in 0..bits |-> Next1(low, i)]
  BY <1>3
<1> HIDE DEF low
<1>5. value = [i \in 0..bits |-> Next1(value, i)]
  BY <1>4, Zenon
<1> HIDE DEF value
<1>6. \A i \in 0..bits : value[i] = id % Pow2[i]
  <2> DEFINE Q == {i \in Nat : i <= bits => value[i] = id % Pow2[i]}
  <2>1. 0 \in Q
    <3>1. 0 \in 0..bits
      OBVIOUS
    <3>2. value[0] = Next1(value, 0)
      BY <1>5, <3>1
    <3>3. id % Pow2[0] = Next1(low, 0)
      BY <1>3, <3>1
    <3> QED BY <3>2, <3>3
  <2>2. ASSUME NEW n \in Q PROVE n + 1 \in Q
    <3>1. n \in Nat
      OBVIOUS
    <3> SUFFICES ASSUME n + 1 <= bits PROVE value[n + 1] = id % Pow2[n + 1]
      BY <3>1
    <3>2. n \in 0..bits /\ n + 1 \in 0..bits /\ (n + 1) - 1 = n /\ n + 1 # 0
      BY <3>1
    <3>3. value[n + 1] = Next1(value, n + 1)
      BY <1>5, <3>2
    <3>4. id % Pow2[n + 1] = Next1(low, n + 1)
      BY <1>3, <3>2
    <3>5. value[n] = id % Pow2[n] /\ low[n] = id % Pow2[n]
      BY <3>2 DEF low
    <3> QED BY <3>2, <3>3, <3>4, <3>5
  <2>3. Q \in SUBSET Nat
    OBVIOUS
  <2> HIDE DEF Q
  <2>4. \A n \in Nat : n \in Q
    BY <2>1, <2>2, <2>3, NatSetInduction
  <2>5. \A i \in 0..bits : i \in Nat /\ i <= bits
    OBVIOUS
  <2> QED BY <2>4, <2>5 DEF Q
<1>7. IndexAt(payload, offset, bits) = value[bits]
  BY Zenon DEF IndexAt, value, BitIs1
<1>8. id % Pow2[bits] = id
  BY PowType, DivOfSmaller
<1> QED BY <1>6, <1>7, <1>8

\* pack_symbol_index leaves the bits of every index where unpack_symbol_index reads them.
LEMMA PackedBit ==
    ASSUME NEW in, Len(in) \in Nat, NEW s, NEW bits \in 1..8, NEW m \in Nat, m < Len(in),
           NEW offset, offset = m * bits
    PROVE  PackedAt(IndexPayload(in, s, bits), offset, bits, IdOf(s, in[m + 1]))
<1> SUFFICES ASSUME NEW j \in 0..(bits - 1)
             PROVE  <<(m * bits + j) \div 8, (m * bits + j) % 8>> \in IndexPayload(in, s, bits).ones
                        <=> (IdOf(s, in[m + 1]) \div Pow2[j]) % 2 = 1
  BY DEF PackedAt
<1> DEFINE IdAt(p) == IdOf(s, in[p \div bits + 1])
           Is1(q) == (IdAt(q) \div Pow2[q % bits]) % 2 = 1
           p0 == m * bits + j
           n == Len(in) * bits
<1>1. p0 \in Nat /\ p0 \div bits = m /\ p0 % bits = j
  <2>1. bits \in Nat \ {0} /\ j \in Nat /\ m * bits \in Nat
    OBVIOUS
  <2>2. p0 \in Nat
    BY <2>1
  <2> HIDE DEF p0
  <2>3. p0 = m * bits + j
    BY DEF p0
  <2> QED BY <2>1, <2>2, <2>3, DivIs
<1>2. p0 \in 0..(n - 1)
  <2>1. bits \in Nat /\ m + 1 \in Nat /\ m + 1 <= Len(in) /\ j < bits
    OBVIOUS
  <2>2. (m + 1) * bits <= Len(in) * bits
    BY <2>1, ProductOrder
  <2>3. (m + 1) * bits = m * bits + bits /\ m * bits \in Nat /\ Len(in) * bits \in Nat
    BY <2>1
  <2> HIDE DEF p0
  <2>4. p0 = m * bits + j
    BY DEF p0
  <2> QED BY <1>1, <2>1, <2>2, <2>3, <2>4
<1>3. n \in Nat
  OBVIOUS
<1>4. IndexPayload(in, s, bits).ones = {<<p \div 8, p % 8>> : p \in {q \in 0..(n - 1) : Is1(q)}}
  BY DEF IndexPayload, IdOf
<1>5. Is1(p0) <=> (IdOf(s, in[m + 1]) \div Pow2[j]) % 2 = 1
  BY <1>1, Zenon
<1> HIDE DEF p0, n, Is1
<1>6. \A q \in 0..(n - 1) : <<q \div 8, q % 8>> = <<p0 \div 8, p0 % 8>> => q = p0
  BY <1>1, <1>3
<1>7. <<p0 \div 8, p0 % 8>> \in IndexPayload(in, s, bits).ones <=> Is1(p0)
  BY <1>2, <1>4, <1>6, Zenon
<1> QED BY <1>5, <1>7 DEF p0

\* Every index that is read is the one that was packed.
LEMMA IndexReadBack ==
    ASSUME NEW in \in Seq(0..255), NEW m \in Nat, m < Len(in)
    PROVE  LET s == UniqueSymbols(in)
               bits == BitsNeeded(Len(s))
               k == IndexAt(IndexPayload(in, s, bits), m * bits, bits)
           IN  k < Len(s) /\ s[k + 1] = in[m + 1] /\ k \in Nat /\ bits \in 1..8
<1> DEFINE s == UniqueSymbols(in)
           bits == BitsNeeded(Len(s))
           place == CHOOSE k \in DOMAIN s : s[k] = in[m + 1]
           id == IdOf(s, in[m + 1])
<1>1. /\ s \in Seq(0..255) /\ Len(s) \in 0..256 /\ ToSet(s) = ToSet(in)
      /\ bits \in 1..8 /\ Len(s) <= Pow2[bits]
  BY SymbolsAre, WidthIs
<1> HIDE DEF s, bits
<1>2. place \in 1..Len(s) /\ s[place] = in[m + 1]
  <2>1. m + 1 \in DOMAIN in
    BY SeqElement
  <2>2. \E k \in DOMAIN s : s[k] = in[m + 1]
    BY <1>1, <2>1, Zenon DEF ToSet
  <2>3. DOMAIN s = 1..Len(s)
    BY <1>1, SeqElement
  <2> QED BY <2>2, <2>3
<1>a. id = place - 1
  BY DEF IdOf
<1> HIDE DEF place, id
<1>3. bits \in Nat /\ m * bits \in Nat /\ Len(in) \in Nat
  <2>1. bits \in Nat
    BY <1>1
  <2>2. Len(in) \in Nat
    BY SeqElement
  <2> QED BY <2>1, <2>2
<1>4. id \in 0..(Pow2[bits] - 1) /\ id \in Nat /\ id + 1 = place /\ id < Len(s)
  <2>1. Len(s) \in Nat /\ place \in Nat /\ place >= 1 /\ place <= Len(s)
    BY <1>1, <1>2
  <2>2. Pow2[bits] \in Nat
    BY <1>3, PowType
  <2> QED BY <1>1, <1>a, <2>1, <2>2
<1> DEFINE payload == IndexPayload(in, s, bits)
           offset == m * bits
<1>5. PackedAt(payload, offset, bits, id)
  BY <1>1, <1>3, PackedBit DEF id
<1>6. offset \in Nat
  BY <1>3
<1> HIDE DEF payload, offset
<1>7. IndexAt(payload, offset, bits) = id
  BY <1>3, <1>4, <1>5, <1>6, IndexIs
<1> QED BY <1>1, <1>2, <1>4, <1>7 DEF payload, s, bits, offset

----------------------------------------------------------------------------
(* Trees.  Where codes have len bits, a symbol takes one of the bit        *)
(* strings of L bits for each way to go on from its code.                  *)

Slots(len, D, L) == {p \in D \X Nat : p[2] < Pow2[L - len[p[1]]]}

LEMMA SlotsOfOne ==
    ASSUME NEW len, NEW x, NEW L \in Nat, L - len[x] \in Nat
    PROVE  IsFiniteSet(Slots(len, {x}, L)) /\ Cardinality(Slots(len, {x}, L)) = Pow2[L - len[x]]
<1> DEFINE n == Pow2[L - len[x]]
           I == 0..(n - 1)
           f == [i \in I |-> <<x, i>>]
           X == Slots(len, {x}, L)
<1>1. n \in Nat
  BY PowType
<1>2. X = {p \in {x} \X Nat : p[2] < n}
  BY DEF Slots
<1> HIDE DEF n, X
<1>3. IsFiniteSet(I) /\ Cardinality(I) = n
  <2>1. 0 \in Int /\ n - 1 \in Int
    BY <1>1
  <2>2. IsFiniteSet(I) /\ Cardinality(I) = IF 0 > n - 1 THEN 0 ELSE n - 1 - 0 + 1
    BY <2>1, FS_Interval
  <2> HIDE DEF I
  <2> QED BY <1>1, <2>2
<1>4. \A i \in I : f[i] \in X
  BY <1>1, <1>2
<1>5. \A p \in X : \E i \in I : f[i] = p
  <2> SUFFICES ASSUME NEW p \in X PROVE \E i \in I : f[i] = p
    OBVIOUS
  <2>1. p[1] = x /\ p[2] \in Nat /\ p[2] < n /\ p = <<p[1], p[2]>>
    BY <1>2
  <2>2. p[2] \in I
    BY <1>1, <2>1
  <2>3. f[p[2]] = <<x, p[2]>>
    BY <2>2
  <2> QED BY <2>1, <2>2, <2>3
<1>6. \A i, j \in I : f[i] = f[j] => i = j
  OBVIOUS
<1> HIDE DEF f, I
<1>7. IsFiniteSet(X) /\ Cardinality(I) = Cardinality(X)
  BY <1>3, <1>4, <1>5, <1>6, SameCount
<1> QED BY <1>3, <1>7 DEF n, X

SlotsAdd(len, D, E, L) ==
    /\ IsFiniteSet(Slots(len, D \cup E, L))
    /\ Cardinality(Slots(len, D, L)) \in Nat /\ Cardinality(Slots(len, E, L)) \in Nat
    /\ Cardinality(Slots(len, D \cup E, L)) =
           Cardinality(Slots(len, D, L)) + Cardinality(Slots(len, E, L))

LEMMA SlotsOfTwo ==
    ASSUME NEW len, NEW D, NEW E, D \cap E = {}, NEW L,
           IsFiniteSet(Slots(len, D, L)), IsFiniteSet(Slots(len, E, L))
    PROVE  SlotsAdd(len, D, E, L)
<1>1. Slots(len, D \cup E, L) = Slots(len, D, L) \cup Slots(len, E, L)
  BY DEF Slots
<1>2. Slots(len, D, L) \cap Slots(len, E, L) = {}
  BY DEF Slots
<1> QED BY <1>1, <1>2, DisjointUnion DEF SlotsAdd

\* A tree: whatever the length of the bit strings, its symbols share them out.  All of
\* the symbols of a tree that was joined are below its root.
Shared(depth, L) ==
    IsFiniteSet(Slots(depth, DOMAIN depth, L)) /\ Cardinality(Slots(depth, DOMAIN depth, L)) = Pow2[L]
Shape(depth) ==
    \/ \E x : DOMAIN depth = {x} /\ depth[x] = 0
    \/ (\A x \in DOMAIN depth : depth[x] >= 1) /\ \E x, y \in DOMAIN depth : x # y
GoodDepth(depth) ==
    /\ DOMAIN depth # {} /\ \A x \in DOMAIN depth : depth[x] \in Nat
    /\ \A L \in Nat : (\A x \in DOMAIN depth : depth[x] <= L) => Shared(depth, L)
    /\ Shape(depth)
GoodTree(t) == t.freq \in Nat \ {0} /\ t.tie \in Nat /\ GoodDepth(t.depth)

LEMMA LeafIsATree ==
    ASSUME NEW x
    PROVE  GoodDepth([y \in {x} |-> 0])
<1> DEFINE d == [y \in {x} |-> 0]
<1>1. DOMAIN d = {x} /\ d[x] = 0
  OBVIOUS
<1> HIDE DEF d
<1>2. ASSUME NEW L \in Nat PROVE Shared(d, L)
  <2>1. L - d[x] = L
    BY <1>1
  <2>2. IsFiniteSet(Slots(d, {x}, L)) /\ Cardinality(Slots(d, {x}, L)) = Pow2[L - d[x]]
    BY <2>1, SlotsOfOne
  <2> QED BY <1>1, <2>1, <2>2 DEF Shared
<1>3. GoodDepth(d)
  BY <1>1, <1>2 DEF GoodDepth, Shape
<1> QED BY <1>3 DEF d

LEMMA JoinedIsATree ==
    ASSUME NEW s, NEW t, NEW k, GoodDepth(s.depth), GoodDepth(t.depth),
           DOMAIN s.depth \cap DOMAIN t.depth = {}
    PROVE  /\ GoodDepth(Joined(s, t, k).depth)
           /\ DOMAIN Joined(s, t, k).depth = DOMAIN s.depth \cup DOMAIN t.depth
<1> DEFINE D == DOMAIN s.depth
           E == DOMAIN t.depth
           a == s.depth
           b == t.depth
           d == Joined(s, t, k).depth
<1>1. /\ DOMAIN d = D \cup E
      /\ \A x \in D : d[x] = 1 + a[x]
      /\ \A x \in E : d[x] = 1 + b[x]
  BY DEF Joined
<1>2. /\ D = DOMAIN a /\ E = DOMAIN b /\ D \cap E = {} /\ D # {} /\ E # {}
      /\ \A x \in D : a[x] \in Nat
      /\ \A x \in E : b[x] \in Nat
  BY DEF GoodDepth
<1>3. GoodDepth(a) /\ GoodDepth(b)
  OBVIOUS
<1> HIDE DEF D, E, a, b, d
<1>4. \A x \in DOMAIN d : d[x] \in Nat /\ d[x] >= 1
  BY <1>1, <1>2
<1>5. Shape(d)
  <2>1. \E x, y \in DOMAIN d : x # y
    BY <1>1, <1>2
  <2> QED BY <1>4, <2>1 DEF Shape
<1>6. ASSUME NEW L \in Nat, \A x \in DOMAIN d : d[x] <= L PROVE Shared(d, L)
  <2>1. L - 1 \in Nat /\ L = (L - 1) + 1
    <3>1. PICK x \in DOMAIN d : TRUE
      BY <1>1, <1>2
    <3>2. d[x] \in Nat /\ d[x] >= 1 /\ d[x] <= L
      BY <1>4, <1>6
    <3> QED BY <3>2
  <2>2. Shared(a, L - 1)
    <3>1. \A x \in DOMAIN a : a[x] <= L - 1
      BY <1>1, <1>2, <1>6
    <3> QED BY <1>3, <2>1, <3>1 DEF GoodDepth
  <2>3. Shared(b, L - 1)
    <3>1. \A x \in DOMAIN b : b[x] <= L - 1
      BY <1>1, <1>2, <1>6
    <3> QED BY <1>3, <2>1, <3>1 DEF GoodDepth
  <2>4. Slots(d, D, L) = Slots(a, D, L - 1)
    <3>1. \A x \in D : L - d[x] = (L - 1) - a[x]
      BY <1>1, <1>2
    <3> QED BY <3>1 DEF Slots
  <2>5. Slots(d, E, L) = Slots(b, E, L - 1)
    <3>1. \A x \in E : L - d[x] = (L - 1) - b[x]
      BY <1>1, <1>2
    <3> QED BY <3>1 DEF Slots
  <2>6. /\ IsFiniteSet(Slots(d, D, L)) /\ Cardinality(Slots(d, D, L)) = Pow2[L - 1]
        /\ IsFiniteSet(Slots(d, E, L)) /\ Cardinality(Slots(d, E, L)) = Pow2[L - 1]
    BY <1>2, <2>2, <2>3, <2>4, <2>5 DEF Shared
  <2>7. IsFiniteSet(Slots(d, D \cup E, L)) /\ Cardinality(Slots(d, D \cup E, L)) = Pow2[L - 1] + Pow2[L - 1]
    <3>1. SlotsAdd(d, D, E, L)
      BY <1>2, <2>6, SlotsOfTwo
    <3> QED BY <2>6, <3>1 DEF SlotsAdd
  <2>8. Pow2[L - 1] + Pow2[L - 1] = Pow2[L]
    <3>1. Pow2[L - 1] \in Nat /\ Pow2[(L - 1) + 1] = 2 * Pow2[L - 1]
      BY <2>1, PowType
    <3> QED BY <2>1, <3>1
  <2> QED BY <1>1, <2>7, <2>8 DEF Shared
<1>7. GoodDepth(d)
  BY <1>1, <1>2, <1>4, <1>5, <1>6 DEF GoodDepth
<1> QED BY <1>1, <1>7 DEF d, D, E

----------------------------------------------------------------------------
(* The heap.                                                               *)

\* A heap whose trees have different tie breakers has a first tree.
LEMMA FirstIsBefore ==
    ASSUME NEW H, H # {}, \A t \in H : t.freq \in Nat /\ t.tie \in Nat,
           \A s, t \in H : s.tie = t.tie => s = t
    PROVE  First(H) \in H /\ \A u \in H \ {First(H)} : Before(First(H), u)
<1> DEFINE F == {t.freq : t \in H}
<1>1. F \in SUBSET Nat /\ F # {}
  OBVIOUS
<1>2. PICK f \in F : \A g \in F : f <= g
  BY <1>1, LeastNat
<1> DEFINE G == {t \in H : t.freq = f}
           T == {t.tie : t \in G}
<1>3. T \in SUBSET Nat /\ T # {}
  BY <1>2
<1>4. PICK m \in T : \A n \in T : m <= n
  BY <1>3, LeastNat
<1>5. PICK t \in G : t.tie = m
  BY <1>4
<1>6. t \in H /\ \A u \in H \ {t} : Before(t, u)
  <2> SUFFICES ASSUME NEW u \in H \ {t} PROVE Before(t, u)
    BY <1>5
  <2>1. t.freq = f /\ t.tie = m /\ t \in H /\ u \in H /\ u # t
    BY <1>5
  <2>2. u.freq \in F /\ u.freq \in Nat /\ t.freq \in Nat /\ u.tie \in Nat /\ t.tie \in Nat /\ u.tie # t.tie
    BY <2>1
  <2>3. f <= u.freq
    BY <1>2, <2>2
  <2>4. u.freq = f => m <= u.tie
    BY <1>4, <2>1
  <2> QED BY <2>1, <2>2, <2>3, <2>4 DEF Before
<1>7. \E x \in H : \A u \in H \ {x} : Before(x, u)
  BY <1>6
<1> QED BY <1>7, Zenon DEF First

LEMMA FirstIs ==
    ASSUME NEW H, H # {}, \A t \in H : t.freq \in Nat /\ t.tie \in Nat,
           \A s, t \in H : s.tie = t.tie => s = t
    PROVE  First(H) \in H
BY FirstIsBefore

\* The trees of a heap: they share out the symbols of an input, and every joining leaves
\* one tree fewer and takes one tie breaker.
HeapOK(H, n, in) ==
    /\ IsFiniteSet(H) /\ n \in Nat /\ Cardinality(H) + n = 2 * Len(UniqueSymbols(in))
    /\ \A t \in H : GoodTree(t) /\ t.tie < n /\ DOMAIN t.depth \subseteq ToSet(in)
    /\ \A s, t \in H : s # t => s.tie # t.tie /\ DOMAIN s.depth \cap DOMAIN t.depth = {}
    /\ \A x \in ToSet(in) : \E t \in H : x \in DOMAIN t.depth

LEMMA FrequencyIs ==
    ASSUME NEW in \in Seq(0..255), NEW x \in ToSet(in)
    PROVE  Frequency(in, x) \in Nat \ {0}
<1> DEFINE I == {i \in DOMAIN in : in[i] = x}
<1>1. DOMAIN in = 1..Len(in) /\ Len(in) \in Nat
  BY SeqElement
<1>2. IsFiniteSet(1..Len(in))
  <2>1. 1 \in Int /\ Len(in) \in Int
    BY <1>1
  <2> QED BY <2>1, FS_Interval
<1>3. I \in SUBSET (1..Len(in)) /\ I # {}
  BY <1>1 DEF ToSet
<1>4. Frequency(in, x) = Cardinality(I)
  BY DEF Frequency
<1> HIDE DEF I
<1>5. IsFiniteSet(I)
  BY <1>2, <1>3, FS_Subset
<1>6. Cardinality(I) \in Nat /\ Cardinality(I) # 0
  BY <1>3, <1>5, FS_CardinalityType, FS_EmptySet
<1> QED BY <1>4, <1>6

\* compute_huffman_lengths begins with a leaf for every symbol.
LEMMA LeavesAreAHeap ==
    ASSUME NEW in \in Seq(0..255)
    PROVE  HeapOK({Leaf(in, UniqueSymbols(in), k) : k \in DOMAIN UniqueSymbols(in)},
                  Len(UniqueSymbols(in)), in)
<1> DEFINE s == UniqueSymbols(in)
           H == {Leaf(in, s, k) : k \in DOMAIN s}
<1>1. /\ s \in Seq(0..255) /\ Len(s) \in 0..256 /\ ToSet(s) = ToSet(in)
      /\ \A i, j \in DOMAIN s : s[i] = s[j] => i = j
  BY SymbolsAre
<1> HIDE DEF s
<1>2. DOMAIN s = 1..Len(s) /\ Len(s) \in Nat
  BY <1>1, SeqElement
<1>3. ASSUME NEW k \in DOMAIN s
      PROVE  LET t == Leaf(in, s, k)
             IN  /\ GoodTree(t) /\ t.tie = k - 1 /\ t.tie < Len(s) /\ DOMAIN t.depth = {s[k]}
                 /\ s[k] \in ToSet(in)
  <2> DEFINE t == Leaf(in, s, k)
  <2>1. t.freq = Frequency(in, s[k]) /\ t.tie = k - 1 /\ t.depth = [y \in {s[k]} |-> 0]
    BY DEF Leaf
  <2> HIDE DEF t
  <2>2. s[k] \in ToSet(in)
    BY <1>1, <1>3 DEF ToSet
  <2>3. t.freq \in Nat \ {0}
    BY <2>1, <2>2, FrequencyIs
  <2>4. GoodDepth(t.depth)
    BY <2>1, LeafIsATree
  <2>5. t.tie \in Nat /\ t.tie < Len(s)
    BY <1>2, <1>3, <2>1
  <2>6. DOMAIN t.depth = {s[k]}
    BY <2>1
  <2> QED BY <2>1, <2>2, <2>3, <2>4, <2>5, <2>6 DEF GoodTree, t
<1>4. IsFiniteSet(H) /\ Cardinality(H) = Len(s)
  <2> DEFINE f == [k \in 1..Len(s) |-> Leaf(in, s, k)]
  <2>1. IsFiniteSet(1..Len(s)) /\ Cardinality(1..Len(s)) = Len(s)
    <3>1. 1 \in Int /\ Len(s) \in Int
      BY <1>2
    <3>2. IsFiniteSet(1..Len(s)) /\ Cardinality(1..Len(s)) = IF 1 > Len(s) THEN 0 ELSE Len(s) - 1 + 1
      BY <3>1, FS_Interval
    <3>3. (IF 1 > Len(s) THEN 0 ELSE Len(s) - 1 + 1) = Len(s)
      BY <1>2
    <3> QED BY <3>2, <3>3
  <2>2. (\A k \in 1..Len(s) : f[k] \in H) /\ \A t \in H : \E k \in 1..Len(s) : f[k] = t
    BY <1>2
  <2>3. ASSUME NEW i \in 1..Len(s), NEW j \in 1..Len(s), f[i] = f[j] PROVE i = j
    <3>1. f[i].tie = i - 1 /\ f[j].tie = j - 1
      BY <1>2, <1>3
    <3>2. i \in Int /\ j \in Int
      BY <1>2
    <3> QED BY <2>3, <3>1, <3>2
  <2> HIDE DEF f, H
  <2> QED BY <2>1, <2>2, <2>3, SameCount
<1>5. \A t \in H : GoodTree(t) /\ t.tie < Len(s) /\ DOMAIN t.depth \subseteq ToSet(in)
  <2> SUFFICES ASSUME NEW t \in H
               PROVE  GoodTree(t) /\ t.tie < Len(s) /\ DOMAIN t.depth \subseteq ToSet(in)
    OBVIOUS
  <2>1. PICK k \in DOMAIN s : t = Leaf(in, s, k)
    OBVIOUS
  <2> QED BY <1>3, <2>1
<1>6. ASSUME NEW u \in H, NEW t \in H, u # t
      PROVE  u.tie # t.tie /\ DOMAIN u.depth \cap DOMAIN t.depth = {}
  <2>1. PICK i \in DOMAIN s : u = Leaf(in, s, i)
    BY <1>6
  <2>2. PICK j \in DOMAIN s : t = Leaf(in, s, j)
    BY <1>6
  <2>3. i # j /\ s[i] # s[j] /\ i \in Int /\ j \in Int
    <3>1. i # j
      BY <1>6, <2>1, <2>2, Zenon
    <3>2. s[i] # s[j]
      BY <1>1, <3>1, Zenon
    <3>3. \A k \in 1..Len(s) : k \in Int
      OBVIOUS
    <3> QED BY <1>2, <3>1, <3>2, <3>3, Zenon
  <2>4. u.tie = i - 1 /\ t.tie = j - 1 /\ DOMAIN u.depth = {s[i]} /\ DOMAIN t.depth = {s[j]}
    BY <1>3, <2>1, <2>2
  <2> QED BY <2>3, <2>4
<1>7. \A x \in ToSet(in) : \E t \in H : x \in DOMAIN t.depth
  <2> SUFFICES ASSUME NEW x \in ToSet(in) PROVE \E t \in H : x \in DOMAIN t.depth
    OBVIOUS
  <2>1. PICK k \in DOMAIN s : s[k] = x
    BY <1>1, Zenon DEF ToSet
  <2>2. Leaf(in, s, k) \in H /\ x \in DOMAIN Leaf(in, s, k).depth
    BY <1>3, <2>1
  <2> QED BY <2>2
<1> HIDE DEF H
<1>8. Cardinality(H) + Len(s) = 2 * Len(s)
  BY <1>2, <1>4
<1>9. HeapOK(H, Len(s), in)
  BY <1>2, <1>4, <1>5, <1>6, <1>7, <1>8 DEF HeapOK, s
<1> QED BY <1>9 DEF H, s

\* Joining the first two trees leaves a heap.
LEMMA JoiningKeepsAHeap ==
    ASSUME NEW H, NEW n, NEW in, HeapOK(H, n, in), Cardinality(H) > 1
    PROVE  LET s == First(H)
               t == First(H \ {s})
           IN  HeapOK((H \ {s, t}) \cup {Joined(s, t, n)}, n + 1, in)
<1> DEFINE s == First(H)
           t == First(H \ {s})
           J == Joined(s, t, n)
           R == H \ {s, t}
<1>1. IsFiniteSet(H) /\ Cardinality(H) \in Nat /\ n \in Nat
  BY FS_CardinalityType DEF HeapOK
<1>2. \A u \in H : u.freq \in Nat \ {0} /\ u.freq \in Nat /\ u.tie \in Nat /\ u.tie < n /\ GoodDepth(u.depth)
  BY DEF HeapOK, GoodTree
<1>3. \A u, v \in H : u.tie = v.tie => u = v
  BY DEF HeapOK
<1>4. H # {}
  BY FS_EmptySet
<1>5. s \in H
  BY <1>2, <1>3, <1>4, FirstIs
<1> HIDE DEF s
<1>6. IsFiniteSet(H \ {s}) /\ Cardinality(H \ {s}) = Cardinality(H) - 1
  BY <1>1, <1>5, FS_RemoveElement
<1>7. H \ {s} # {}
  <2>1. Cardinality(H \ {s}) # 0
    BY <1>1, <1>6
  <2> QED BY <2>1, FS_EmptySet
<1>8. t \in H \ {s}
  BY <1>2, <1>3, <1>7, FirstIs
<1> HIDE DEF t
<1>9. IsFiniteSet(R) /\ Cardinality(R) = Cardinality(H) - 2
  <2>1. R = (H \ {s}) \ {t}
    OBVIOUS
  <2>2. IsFiniteSet((H \ {s}) \ {t}) /\ Cardinality((H \ {s}) \ {t}) = Cardinality(H \ {s}) - 1
    BY <1>6, <1>8, FS_RemoveElement
  <2> QED BY <1>1, <1>6, <2>1, <2>2
<1>10. J.tie = n /\ J.freq = s.freq + t.freq
  BY DEF Joined
<1>11. DOMAIN s.depth \cap DOMAIN t.depth = {}
  BY <1>5, <1>8 DEF HeapOK
<1>12. GoodDepth(J.depth) /\ DOMAIN J.depth = DOMAIN s.depth \cup DOMAIN t.depth
  BY <1>2, <1>5, <1>8, <1>11, JoinedIsATree
<1> HIDE DEF J
<1>13. J \notin R
  <2>1. \A u \in R : u.tie # n
    BY <1>1, <1>2
  <2> QED BY <1>10, <2>1
<1> HIDE DEF R
<1>14. IsFiniteSet(R \cup {J}) /\ Cardinality(R \cup {J}) = Cardinality(H) - 1
  <2>1. IsFiniteSet(R \cup {J}) /\ Cardinality(R \cup {J}) = Cardinality(R) + 1
    BY <1>9, <1>13, FS_AddElement
  <2> QED BY <1>1, <1>9, <2>1
<1>15. Cardinality(R \cup {J}) + (n + 1) = 2 * Len(UniqueSymbols(in))
  <2>1. Cardinality(H) + n = 2 * Len(UniqueSymbols(in))
    BY DEF HeapOK
  <2> QED BY <1>1, <1>14, <2>1
<1>16. GoodTree(J) /\ J.tie < n + 1 /\ DOMAIN J.depth \subseteq ToSet(in)
  <2>1. J.freq \in Nat \ {0} /\ J.tie \in Nat /\ J.tie < n + 1
    BY <1>1, <1>2, <1>5, <1>8, <1>10
  <2>2. DOMAIN s.depth \subseteq ToSet(in) /\ DOMAIN t.depth \subseteq ToSet(in)
    BY <1>5, <1>8 DEF HeapOK
  <2> QED BY <1>12, <2>1, <2>2 DEF GoodTree
<1>17. \A u \in R \cup {J} : GoodTree(u) /\ u.tie < n + 1 /\ DOMAIN u.depth \subseteq ToSet(in)
  <2>1. \A u \in R : GoodTree(u) /\ u.tie < n + 1 /\ DOMAIN u.depth \subseteq ToSet(in)
    <3>1. \A u \in R : u \in H
      BY DEF R
    <3>2. \A u \in H : u.tie < n + 1
      BY <1>1, <1>2
    <3> QED BY <3>1, <3>2 DEF HeapOK
  <2> QED BY <1>16, <2>1
<1>18. ASSUME NEW u \in R
       PROVE  u.tie # J.tie /\ DOMAIN u.depth \cap DOMAIN J.depth = {}
  <2>1. u \in H /\ u # s /\ u # t
    BY DEF R
  <2>2. u.tie # n
    BY <1>1, <1>2, <2>1
  <2>3. DOMAIN u.depth \cap DOMAIN s.depth = {} /\ DOMAIN u.depth \cap DOMAIN t.depth = {}
    BY <1>5, <1>8, <2>1 DEF HeapOK
  <2> QED BY <1>10, <1>12, <2>2, <2>3
<1>19. \A u, v \in R \cup {J} : u # v => u.tie # v.tie /\ DOMAIN u.depth \cap DOMAIN v.depth = {}
  <2>1. \A u, v \in R : u # v => u.tie # v.tie /\ DOMAIN u.depth \cap DOMAIN v.depth = {}
    BY DEF R, HeapOK
  <2> QED BY <1>18, <2>1
<1>20. \A x \in ToSet(in) : \E u \in R \cup {J} : x \in DOMAIN u.depth
  <2>1. \A x \in ToSet(in) : \E u \in H : x \in DOMAIN u.depth
    BY DEF HeapOK
  <2>2. \A u \in H : u = s \/ u = t \/ u \in R
    BY DEF R
  <2> QED BY <1>12, <2>1, <2>2
<1>21. HeapOK(R \cup {J}, n + 1, in)
  BY <1>1, <1>14, <1>15, <1>17, <1>19, <1>20 DEF HeapOK
<1> QED BY <1>21 DEF R, J, t, s

----------------------------------------------------------------------------
(* The lengths of the codes.                                               *)

LEMMA EntryIs ==
    ASSUME NEW l \in Nat, NEW x \in 0..255
    PROVE  Entry(l, x) \in Nat /\ EntryLength(Entry(l, x)) = l /\ EntrySymbol(Entry(l, x)) = x
<1>1. x \in 0..(256 - 1) /\ 256 \in Nat \ {0} /\ l * 256 + x \in Nat
  OBVIOUS
<1>2. (l * 256 + x) \div 256 = l /\ (l * 256 + x) % 256 = x
  BY <1>1, DivIs
<1> QED BY <1>1, <1>2 DEF Entry, EntryLength, EntrySymbol

LEMMA MaxOfOneAnd ==
    ASSUME NEW d \in Nat
    PROVE  Max({1, d}) = IF d >= 1 THEN d ELSE 1
<1> DEFINE m == IF d >= 1 THEN d ELSE 1
<1>1. m \in {1, d} /\ \A y \in {1, d} : m >= y
  OBVIOUS
<1>2. \A x \in {1, d} : (\A y \in {1, d} : x >= y) => x = m
  OBVIOUS
<1> QED BY <1>1, <1>2 DEF Max

\* The entries of a dictionary, and their lengths.
EntrySet(s, lens) == {Entry(lens[k], s[k]) : k \in DOMAIN s}
LengthsOf(K) == [e \in K |-> EntryLength(e)]

\* The lengths of the codes of an input: the codes share out the bit strings, except
\* that a lone symbol takes half of them.
LengthsOK(in, lens) ==
    LET s == UniqueSymbols(in)
        K == EntrySet(s, lens)
        X == Slots(LengthsOf(K), K, MaxCodeBits)
    IN  /\ Len(s) >= 1 /\ lens \in [1..Len(s) -> 1..MaxCodeBits]
        /\ IsFiniteSet(X) /\ Cardinality(X) <= Pow2[MaxCodeBits]
        /\ Len(s) > 1 => Cardinality(X) = Pow2[MaxCodeBits]

AreBytes(D) == \A x \in D : x \in 0..255
AreDepths(d, D) == \A x \in D : d[x] \in Nat

\* The same bit strings, by symbol and by entry.
LEMMA SlotsOfEntries ==
    ASSUME NEW D, AreBytes(D), NEW d, AreDepths(d, D), NEW L,
           IsFiniteSet(Slots(d, D, L)), NEW K, K = {Entry(d[x], x) : x \in D}
    PROVE  /\ IsFiniteSet(Slots(LengthsOf(K), K, L))
           /\ Cardinality(Slots(LengthsOf(K), K, L)) = Cardinality(Slots(d, D, L))
<1> DEFINE I == Slots(d, D, L)
           X == Slots(LengthsOf(K), K, L)
           f == [p \in I |-> <<Entry(d[p[1]], p[1]), p[2]>>]
<1>1. \A x \in D : Entry(d[x], x) \in K /\ EntryLength(Entry(d[x], x)) = d[x] /\ EntrySymbol(Entry(d[x], x)) = x
  BY EntryIs DEF AreBytes, AreDepths
<1>2. \A x \in D : LengthsOf(K)[Entry(d[x], x)] = d[x]
  BY <1>1 DEF LengthsOf
<1>3. \A e \in K : \E x \in D : e = Entry(d[x], x)
  OBVIOUS
<1>4. \A p : p \in I <=> p \in D \X Nat /\ p[2] < Pow2[L - d[p[1]]]
  BY DEF Slots
<1>5. \A p : p \in X <=> p \in K \X Nat /\ p[2] < Pow2[L - LengthsOf(K)[p[1]]]
  BY DEF Slots
<1> HIDE DEF I, X
<1>6. \A p \in I : f[p] \in X
  <2> SUFFICES ASSUME NEW p \in I PROVE f[p] \in X
    OBVIOUS
  <2>1. p[1] \in D /\ p[2] \in Nat /\ p[2] < Pow2[L - d[p[1]]]
    BY <1>4
  <2>2. f[p] = <<Entry(d[p[1]], p[1]), p[2]>>
    OBVIOUS
  <2> QED BY <1>1, <1>2, <1>5, <2>1, <2>2
<1>7. \A q \in X : \E p \in I : f[p] = q
  <2> SUFFICES ASSUME NEW q \in X PROVE \E p \in I : f[p] = q
    OBVIOUS
  <2>1. q \in K \X Nat /\ q[2] < Pow2[L - LengthsOf(K)[q[1]]] /\ q = <<q[1], q[2]>>
    <3>1. q \in K \X Nat /\ q[2] < Pow2[L - LengthsOf(K)[q[1]]]
      BY <1>5
    <3> QED BY <3>1
  <2>2. PICK x \in D : q[1] = Entry(d[x], x)
    BY <1>3, <2>1
  <2>3. <<x, q[2]>> \in I
    BY <1>2, <1>4, <2>1, <2>2
  <2>4. f[<<x, q[2]>>] = q
    BY <2>1, <2>2, <2>3
  <2> QED BY <2>3, <2>4
<1>8. \A p, q \in I : f[p] = f[q] => p = q
  <2> SUFFICES ASSUME NEW p \in I, NEW q \in I, f[p] = f[q] PROVE p = q
    OBVIOUS
  <2>1. p[1] \in D /\ q[1] \in D /\ p = <<p[1], p[2]>> /\ q = <<q[1], q[2]>>
    BY <1>4
  <2>2. Entry(d[p[1]], p[1]) = Entry(d[q[1]], q[1]) /\ p[2] = q[2]
    OBVIOUS
  <2>3. p[1] = q[1]
    BY <1>1, <2>1, <2>2
  <2> QED BY <2>1, <2>2, <2>3
<1> HIDE DEF f
<1>9. IsFiniteSet(I)
  BY DEF I
<1>10. IsFiniteSet(X) /\ Cardinality(I) = Cardinality(X)
  BY <1>6, <1>7, <1>8, <1>9, SameCount
<1> QED BY <1>10 DEF I, X

\* The one tree that is left has the lengths of the codes.
LEMMA RootGivesLengths ==
    ASSUME NEW in \in Seq(0..255), in # <<>>, NEW H, NEW n, HeapOK(H, n, in), Cardinality(H) <= 1,
           NEW lens, lens = [k \in DOMAIN UniqueSymbols(in) |->
                                Max({1, First(H).depth[UniqueSymbols(in)[k]]})],
           \A k \in DOMAIN UniqueSymbols(in) : lens[k] <= MaxCodeBits
    PROVE  LengthsOK(in, lens)
<1> DEFINE s == UniqueSymbols(in)
           r == First(H)
           d == r.depth
           D == DOMAIN d
           K == EntrySet(s, lens)
           M == MaxCodeBits
           X == Slots(LengthsOf(K), K, M)
<1>1. /\ s \in Seq(0..255) /\ Len(s) \in 0..256 /\ ToSet(s) = ToSet(in)
      /\ \A i, j \in DOMAIN s : s[i] = s[j] => i = j
  BY SymbolsAre
<1>2. DOMAIN s = 1..Len(s) /\ Len(s) \in Nat /\ \A k \in DOMAIN s : s[k] \in 0..255
  BY <1>1, SeqElement
<1>3. lens = [k \in DOMAIN s |-> Max({1, d[s[k]]})] /\ \A k \in DOMAIN s : lens[k] <= M
  OBVIOUS
<1>4. M \in Nat \ {0}
  BY InputAssumption
<1> HIDE DEF s, d, M
<1>5. ToSet(in) # {}
  <2>1. Len(in) \in Nat /\ Len(in) # 0
    OBVIOUS
  <2>2. 1 \in DOMAIN in
    BY <2>1, SeqElement
  <2> QED BY <2>2 DEF ToSet
<1>6. H # {} /\ IsFiniteSet(H)
  BY <1>5 DEF HeapOK
<1>7. \E t : H = {t}
  <2>1. Cardinality(H) \in Nat /\ Cardinality(H) # 0
    BY <1>6, FS_CardinalityType, FS_EmptySet
  <2>2. Cardinality(H) = 1
    BY <2>1
  <2> QED BY <1>6, <2>2, FS_Singleton
<1>8. H = {r}
  <2>1. \A t \in H : t.freq \in Nat /\ t.tie \in Nat
    BY DEF HeapOK, GoodTree
  <2>2. \A u, t \in H : u.tie = t.tie => u = t
    BY DEF HeapOK
  <2>3. r \in H
    BY <1>6, <2>1, <2>2, FirstIs
  <2> HIDE DEF r
  <2> QED BY <1>7, <2>3
<1>9. GoodDepth(d) /\ D = ToSet(in)
  <2> HIDE DEF r
  <2>1. GoodTree(r) /\ DOMAIN r.depth \subseteq ToSet(in) /\ \A x \in ToSet(in) : x \in DOMAIN r.depth
    BY <1>8 DEF HeapOK
  <2>2. DOMAIN r.depth = ToSet(in)
    BY <2>1
  <2> QED BY <2>1, <2>2 DEF GoodTree, d
<1>10. D = ToSet(s) /\ \A x \in D : d[x] \in Nat
  BY <1>1, <1>9 DEF GoodDepth
<1> HIDE DEF D
<1>11. ASSUME NEW k \in DOMAIN s
       PROVE  s[k] \in D /\ lens[k] = (IF d[s[k]] >= 1 THEN d[s[k]] ELSE 1) /\ lens[k] \in 1..M
  <2>1. s[k] \in D
    BY <1>10, <1>11 DEF ToSet
  <2>2. d[s[k]] \in Nat
    BY <1>10, <2>1
  <2> DEFINE h == d[s[k]]
  <2>a. lens[k] = Max({1, h})
    BY <1>3, <1>11, Zenon
  <2>b. h \in Nat
    BY <2>2
  <2> HIDE DEF h
  <2>c. Max({1, h}) = IF h >= 1 THEN h ELSE 1
    BY <2>b, MaxOfOneAnd
  <2>3. lens[k] = (IF d[s[k]] >= 1 THEN d[s[k]] ELSE 1)
    BY <2>a, <2>c, Zenon DEF h
  <2>4. lens[k] \in 1..M
    <3>1. lens[k] <= M
      BY <1>3
    <3>2. lens[k] \in Nat /\ lens[k] >= 1
      BY <2>a, <2>b, <2>c
    <3> QED BY <1>4, <3>1, <3>2
  <2> QED BY <2>1, <2>3, <2>4
<1>12. Len(s) >= 1
  <2>1. PICK x \in D : TRUE
    BY <1>5, <1>9 DEF D
  <2>2. PICK k \in DOMAIN s : s[k] = x
    BY <1>10, Zenon DEF ToSet
  <2> QED BY <1>2, <2>2
<1>13. lens \in [1..Len(s) -> 1..M]
  BY <1>2, <1>3, <1>11
<1>14. CASE \E x : D = {x} /\ d[x] = 0
  <2>1. PICK x : D = {x} /\ d[x] = 0
    BY <1>14
  <2>2. \A k \in DOMAIN s : k = 1
    <3>1. 1 \in DOMAIN s
      BY <1>2, <1>12
    <3>2. \A k \in DOMAIN s : s[k] \in D
      BY <1>11
    <3>3. \A k \in DOMAIN s : s[k] = x
      BY <2>1, <3>2
    <3> QED BY <1>1, <3>1, <3>3
  <2>3. Len(s) = 1
    <3>1. Len(s) \in DOMAIN s
      BY <1>2, <1>12
    <3> QED BY <2>2, <3>1
  <2>4. lens[1] = 1 /\ s[1] \in 0..255 /\ 1 \in DOMAIN s
    <3>1. 1 \in DOMAIN s
      BY <1>2, <2>3
    <3>2. s[1] = x
      BY <1>11, <2>1, <3>1
    <3>3. d[s[1]] = 0
      BY <2>1, <3>2
    <3>4. lens[1] = IF d[s[1]] >= 1 THEN d[s[1]] ELSE 1
      BY <1>11, <3>1
    <3>5. lens[1] = 1
      BY <3>3, <3>4
    <3>6. s[1] \in 0..255
      BY <1>2, <3>1
    <3> QED BY <3>1, <3>5, <3>6
  <2> DEFINE e == Entry(1, s[1])
  <2>5. K = {e}
    <3>1. DOMAIN s = {1}
      BY <2>2, <2>4
    <3> QED BY <2>4, <3>1 DEF EntrySet
  <2>6. EntryLength(e) = 1
    BY <2>4, EntryIs
  <2> HIDE DEF e, K
  <2>7. LengthsOf(K)[e] = 1
    BY <2>5, <2>6 DEF LengthsOf
  <2>8. M - LengthsOf(K)[e] = M - 1 /\ M - 1 \in Nat /\ (M - 1) + 1 = M
    BY <1>4, <2>7
  <2> DEFINE l == LengthsOf(K)
  <2>a. M \in Nat /\ M - l[e] \in Nat /\ l[e] = 1
    BY <1>4, <2>7, <2>8
  <2> HIDE DEF l
  <2>b. IsFiniteSet(Slots(l, {e}, M)) /\ Cardinality(Slots(l, {e}, M)) = Pow2[M - l[e]]
    BY <2>a, SlotsOfOne
  <2>9. IsFiniteSet(X) /\ Cardinality(X) = Pow2[M - 1]
    BY <2>5, <2>a, <2>b, Zenon DEF l
  <2>10. Pow2[M - 1] \in Nat /\ Pow2[(M - 1) + 1] = 2 * Pow2[M - 1]
    BY <2>8, PowType
  <2>11. Cardinality(X) <= Pow2[M]
    BY <2>8, <2>9, <2>10
  <2> HIDE DEF X
  <2>12. Len(s) > 1 => Cardinality(X) = Pow2[M]
    BY <2>3
  <2> QED BY <1>12, <1>13, <2>9, <2>11, <2>12 DEF LengthsOK, X, K, M, s
<1>15. CASE \A x \in D : d[x] >= 1
  <2>1. \A k \in DOMAIN s : lens[k] = d[s[k]]
    BY <1>11, <1>15
  <2>2. K = {Entry(d[x], x) : x \in D}
    <3>1. K = {Entry(d[s[k]], s[k]) : k \in DOMAIN s}
      BY <2>1 DEF EntrySet
    <3>2. D = {s[k] : k \in DOMAIN s}
      BY <1>10 DEF ToSet
    <3> QED BY <3>1, <3>2
  <2>3. \A x \in D : d[x] <= M
    <3> SUFFICES ASSUME NEW x \in D PROVE d[x] <= M
      OBVIOUS
    <3>1. PICK k \in DOMAIN s : s[k] = x
      BY <1>10, Zenon DEF ToSet
    <3> QED BY <1>3, <2>1, <3>1
  <2>4. Shared(d, M)
    BY <1>4, <1>9, <2>3 DEF GoodDepth, D
  <2>5. IsFiniteSet(Slots(d, D, M)) /\ Cardinality(Slots(d, D, M)) = Pow2[M]
    BY <2>4 DEF Shared, D
  <2>6. D \in SUBSET (0..255)
    <3>1. \A x \in D : x \in 0..255
      <4> SUFFICES ASSUME NEW x \in D PROVE x \in 0..255
        OBVIOUS
      <4>1. PICK k \in DOMAIN s : s[k] = x
        BY <1>10, Zenon DEF ToSet
      <4> QED BY <1>2, <4>1, Zenon
    <3> QED BY <3>1, Zenon
  <2> HIDE DEF K
  <2>a. \A x \in D : d[x] \in Nat
    BY <1>10
  <2>b. IsFiniteSet(Slots(d, D, M))
    BY <2>5
  <2>c. /\ IsFiniteSet(Slots(LengthsOf(K), K, M))
        /\ Cardinality(Slots(LengthsOf(K), K, M)) = Cardinality(Slots(d, D, M))
    <3>1. AreBytes(D) /\ AreDepths(d, D)
      BY <2>6, <2>a, Zenon DEF AreBytes, AreDepths
    <3>2. K = {Entry(d[x], x) : x \in D}
      BY <2>2
    <3> QED BY <2>b, <3>1, <3>2, SlotsOfEntries, SMTT(20)
  <2>7. IsFiniteSet(X) /\ Cardinality(X) = Pow2[M]
    BY <2>5, <2>c
  <2>8. Cardinality(X) <= Pow2[M]
    <3>1. Pow2[M] \in Nat
      BY <1>4, PowType
    <3> QED BY <2>7, <3>1
  <2> QED BY <1>12, <1>13, <2>7, <2>8 DEF LengthsOK, X, K, M, s
<1> QED BY <1>9, <1>14, <1>15 DEF GoodDepth, Shape, D

----------------------------------------------------------------------------
(* The canonical codes.                                                    *)

\* The entries of a dictionary are those of the symbols, each once, shortest code first.
EntriesOK(E, K, n, in) ==
    /\ n \in Nat /\ n >= 1 /\ E \in [1..n -> Nat] /\ {E[k] : k \in 1..n} = K
    /\ \A k \in 1..n : EntryLength(E[k]) \in 1..MaxCodeBits /\ EntrySymbol(E[k]) \in ToSet(in)
    /\ \A x \in ToSet(in) : \E k \in 1..n : EntrySymbol(E[k]) = x
    /\ \A j, k \in 1..n : EntrySymbol(E[j]) = EntrySymbol(E[k]) => j = k
    /\ \A j, k \in 1..n : j < k => E[j] < E[k] /\ EntryLength(E[j]) <= EntryLength(E[k])

LEMMA EntriesAre ==
    ASSUME NEW in \in Seq(0..255), NEW lens, LengthsOK(in, lens),
           NEW s, s = UniqueSymbols(in), NEW K, K = EntrySet(s, lens),
           NEW E, E = Entries(s, lens), NEW n, n = Len(s)
    PROVE  EntriesOK(E, K, n, in)
<1>1. /\ s \in Seq(0..255) /\ ToSet(s) = ToSet(in)
      /\ \A i, j \in DOMAIN s : s[i] = s[j] => i = j
  BY SymbolsAre
<1>2. DOMAIN s = 1..n /\ n \in Nat /\ \A k \in DOMAIN s : s[k] \in 0..255
  BY <1>1, SeqElement
<1>3. n >= 1 /\ \A k \in 1..n : lens[k] \in 1..MaxCodeBits
  BY DEF LengthsOK
<1>4. \A k \in 1..n : lens[k] \in Nat
  BY <1>3
<1>5. ASSUME NEW k \in 1..n
      PROVE  /\ Entry(lens[k], s[k]) \in Nat /\ EntryLength(Entry(lens[k], s[k])) = lens[k]
             /\ EntrySymbol(Entry(lens[k], s[k])) = s[k]
  BY <1>2, <1>4, EntryIs
<1>6. K = {Entry(lens[k], s[k]) : k \in 1..n}
  BY <1>2 DEF EntrySet
<1>7. K \in SUBSET Nat
  BY <1>5, <1>6
<1>8. IsFiniteSet(K) /\ Cardinality(K) = n
  <2> DEFINE f == [k \in 1..n |-> Entry(lens[k], s[k])]
  <2>1. IsFiniteSet(1..n) /\ Cardinality(1..n) = n
    <3>1. 1 \in Int /\ n \in Int
      BY <1>2
    <3>2. IsFiniteSet(1..n) /\ Cardinality(1..n) = IF 1 > n THEN 0 ELSE n - 1 + 1
      BY <3>1, FS_Interval
    <3>3. (IF 1 > n THEN 0 ELSE n - 1 + 1) = n
      BY <1>2
    <3> QED BY <3>2, <3>3
  <2>2. (\A k \in 1..n : f[k] \in K) /\ \A e \in K : \E k \in 1..n : f[k] = e
    BY <1>6
  <2>3. ASSUME NEW i \in 1..n, NEW j \in 1..n, f[i] = f[j] PROVE i = j
    <3>1. Entry(lens[i], s[i]) = Entry(lens[j], s[j])
      BY <2>3
    <3>2. s[i] = s[j]
      BY <1>5, <3>1
    <3> QED BY <1>1, <1>2, <3>2
  <2> HIDE DEF f
  <2> QED BY <2>1, <2>2, <2>3, SameCount
<1>9. E = ByRank(K)
  BY DEF Entries, EntrySet, Ascending, ByRank
<1>10. E \in [1..n -> K] /\ E \in Seq(K) /\ Growing(E) /\ {E[k] : k \in DOMAIN E} = K
  BY <1>7, <1>8, <1>9, SortedSet
<1>11. DOMAIN E = 1..n /\ E \in [1..n -> Nat] /\ {E[k] : k \in 1..n} = K
  BY <1>7, <1>10
<1>12. ASSUME NEW k \in 1..n
       PROVE  \E j \in 1..n : E[k] = Entry(lens[j], s[j])
  BY <1>6, <1>10
<1>13. ASSUME NEW k \in 1..n
       PROVE  EntryLength(E[k]) \in 1..MaxCodeBits /\ EntrySymbol(E[k]) \in ToSet(in)
  <2>1. PICK j \in 1..n : E[k] = Entry(lens[j], s[j])
    BY <1>12
  <2>2. EntryLength(E[k]) = lens[j] /\ EntrySymbol(E[k]) = s[j]
    BY <1>5, <2>1
  <2>3. s[j] \in ToSet(in)
    BY <1>1, <1>2 DEF ToSet
  <2> QED BY <1>3, <2>2, <2>3
<1>14. ASSUME NEW x \in ToSet(in) PROVE \E k \in 1..n : EntrySymbol(E[k]) = x
  <2>1. PICK j \in 1..n : s[j] = x
    BY <1>1, <1>2, Zenon DEF ToSet
  <2>2. Entry(lens[j], s[j]) \in K
    BY <1>6
  <2>3. PICK k \in 1..n : E[k] = Entry(lens[j], s[j])
    BY <1>11, <2>2
  <2> QED BY <1>5, <2>1, <2>3
<1>15. \A j, k \in 1..n : j < k => E[j] < E[k]
  BY <1>10, <1>11 DEF Growing
<1>16. ASSUME NEW j \in 1..n, NEW k \in 1..n, EntrySymbol(E[j]) = EntrySymbol(E[k]) PROVE j = k
  <2>1. PICK a \in 1..n : E[j] = Entry(lens[a], s[a])
    BY <1>12
  <2>2. PICK b \in 1..n : E[k] = Entry(lens[b], s[b])
    BY <1>12
  <2>3. s[a] = s[b]
    BY <1>5, <1>16, <2>1, <2>2
  <2>4. a = b
    BY <1>1, <1>2, <2>3
  <2>5. E[j] = E[k] /\ E[j] \in Nat /\ E[k] \in Nat
    BY <1>11, <2>1, <2>2, <2>4
  <2>6. ~(j < k) /\ ~(k < j)
    BY <1>15, <2>5
  <2> QED BY <2>6
<1>17. ASSUME NEW j \in 1..n, NEW k \in 1..n, j < k PROVE EntryLength(E[j]) <= EntryLength(E[k])
  <2>1. PICK a \in 1..n : E[j] = Entry(lens[a], s[a])
    BY <1>12
  <2>2. PICK b \in 1..n : E[k] = Entry(lens[b], s[b])
    BY <1>12
  <2>3. Entry(lens[a], s[a]) < Entry(lens[b], s[b])
    BY <1>15, <1>17, <2>1, <2>2
  <2>4. lens[a] * 256 + s[a] < lens[b] * 256 + s[b]
    BY <2>3 DEF Entry
  <2>5. s[a] \in 0..255 /\ s[b] \in 0..255 /\ lens[a] \in Nat /\ lens[b] \in Nat
    BY <1>2, <1>4
  <2>6. lens[a] <= lens[b]
    <3> DEFINE w == lens[a]
               x == s[a]
               y == lens[b]
               z == s[b]
    <3>a. \A v \in 0..255 : v \in Nat /\ v <= 255
      OBVIOUS
    <3>1. w * 256 + x < y * 256 + z /\ w \in Nat /\ y \in Nat /\ x \in Nat /\ z \in Nat /\ z <= 255
      BY <2>4, <2>5, <3>a, Zenon
    <3> HIDE DEF w, x, y, z
    <3>2. w <= y
      BY <3>1
    <3> QED BY <3>2 DEF w, y
  <2>7. EntryLength(E[j]) = lens[a] /\ EntryLength(E[k]) = lens[b]
    BY <1>5, <2>1, <2>2
  <2> QED BY <2>6, <2>7
<1>18. \A j, k \in 1..n : j < k => E[j] < E[k] /\ EntryLength(E[j]) <= EntryLength(E[k])
  BY <1>15, <1>17
<1> QED BY <1>2, <1>3, <1>11, <1>13, <1>14, <1>16, <1>18 DEF EntriesOK

\* The loop of build_canonical_codes: a code follows from the one before it.
LEMMA CodeNumbersAre ==
    ASSUME NEW n \in Nat, NEW E \in [1..n -> Nat],
           \A k \in 1..n : k + 1 <= n => EntryLength(E[k + 1]) - EntryLength(E[k]) \in Nat
    PROVE  /\ CodeNumbers(E) \in [1..n -> Nat] /\ (n >= 1 => CodeNumbers(E)[1] = 0)
           /\ \A k \in 1..n : k + 1 <= n =>
                  CodeNumbers(E)[k + 1] =
                      (CodeNumbers(E)[k] + 1) * Pow2[EntryLength(E[k + 1]) - EntryLength(E[k])]
<1> DEFINE V == Nat
           zero == 0
           grow(k) == IF k \in 1..n /\ k + 1 <= n
                      THEN Pow2[EntryLength(E[k + 1]) - EntryLength(E[k])] ELSE 0
           step == [k \in Nat |-> [v \in V |-> (v + 1) * grow(k)]]
           Next1(g, k) == IF k = 1 THEN 0
                          ELSE (g[k - 1] + 1) * Pow2[EntryLength(E[k]) - EntryLength(E[k - 1])]
<1>1. \A k \in Nat : grow(k) \in Nat
  <2> SUFFICES ASSUME NEW k \in Nat PROVE grow(k) \in Nat
    OBVIOUS
  <2>1. CASE k \in 1..n /\ k + 1 <= n
    <3>1. EntryLength(E[k + 1]) - EntryLength(E[k]) \in Nat
      BY <2>1
    <3> DEFINE h == EntryLength(E[k + 1]) - EntryLength(E[k])
    <3>2. h \in Nat
      BY <3>1
    <3> HIDE DEF h
    <3>3. Pow2[h] \in Nat
      BY <3>2, PowType
    <3> QED BY <2>1, <3>3 DEF h
  <2>2. CASE ~(k \in 1..n /\ k + 1 <= n)
    BY <2>2
  <2> QED BY <2>1, <2>2
<1> HIDE DEF grow
<1>2. step \in [Nat -> [V -> V]] /\ zero \in V
  BY <1>1, SMTT(20)
<1>3. \A k \in Nat : \A v \in V : step[k][v] = (v + 1) * grow(k)
  OBVIOUS
<1> HIDE DEF step, zero
<1>4. PICK f : Recursive(V, zero, step, f)
  <2> HIDE DEF V
  <2> QED BY <1>2, RecursionExists
<1>5. f \in [Nat -> Nat] /\ f[0] = 0 /\ \A k \in Nat : f[k + 1] = (f[k] + 1) * grow(k + 1)
  <2>1. f \in [Nat -> Nat] /\ f[0] = 0 /\ \A k \in Nat : f[k + 1] = step[k + 1][f[k]]
    BY <1>4, Zenon DEF Recursive, zero
  <2>2. ASSUME NEW k \in Nat PROVE f[k + 1] = (f[k] + 1) * grow(k + 1)
    <3>1. k + 1 \in Nat /\ f[k] \in V
      <4>1. k + 1 \in Nat
        OBVIOUS
      <4> QED BY <2>1, <4>1, Zenon
    <3>2. step[k + 1][f[k]] = (f[k] + 1) * grow(k + 1)
      BY <1>3, <3>1, Zenon
    <3> QED BY <2>1, <3>2, Zenon
  <2> QED BY <2>1, <2>2
<1> DEFINE g == [k \in 1..n |-> f[k - 1]]
<1>6. ASSUME NEW k \in 1..n PROVE g[k] = Next1(g, k)
  <2>1. CASE k = 1
    BY <1>5, <2>1
  <2>2. CASE k # 1
    <3>1. k - 1 \in 1..n /\ (k - 1) + 1 = k /\ k \in Nat /\ (k - 1) + 1 <= n
      BY <2>2
    <3>2. k - 2 \in Nat /\ (k - 2) + 1 = k - 1
      BY <2>2
    <3>3. f[(k - 2) + 1] = (f[k - 2] + 1) * grow((k - 2) + 1)
      BY <1>5, <3>2
    <3>4. f[k - 1] = (f[k - 2] + 1) * grow(k - 1)
      BY <3>2, <3>3
    <3>5. grow(k - 1) = Pow2[EntryLength(E[k]) - EntryLength(E[k - 1])]
      BY <3>1, Zenon DEF grow
    <3>6. g[k] = f[k - 1] /\ g[k - 1] = f[k - 2]
      <4>1. (k - 1) - 1 = k - 2
        BY <3>1
      <4> QED BY <3>1, <4>1
    <3> QED BY <2>2, <3>4, <3>5, <3>6
  <2> QED BY <2>1, <2>2
<1>7. \A k \in 1..n : g[k] \in Nat
  <2>1. \A k \in 1..n : k - 1 \in Nat
    OBVIOUS
  <2>2. \A k \in Nat : f[k] \in Nat
    BY <1>5, Zenon
  <2> QED BY <2>1, <2>2, Zenon
<1>8. g = [k \in 1..n |-> Next1(g, k)]
  BY <1>6
<1> HIDE DEF g
<1> DEFINE c == CHOOSE c : c = [k \in 1..n |-> Next1(c, k)]
<1>9. c = [k \in 1..n |-> Next1(c, k)]
  BY <1>8, Zenon
<1> HIDE DEF c
<1>10. DOMAIN c = 1..n /\ \A k \in 1..n : c[k] = Next1(c, k)
  BY <1>9, Zenon
<1>11. \A k \in 1..n : c[k] = g[k]
  <2> DEFINE Q == {k \in Nat : k + 1 <= n => c[k + 1] = g[k + 1]}
  <2>1. 0 \in Q
    <3> SUFFICES ASSUME 0 + 1 <= n PROVE c[1] = g[1]
      OBVIOUS
    <3>1. 1 \in 1..n
      OBVIOUS
    <3>2. c[1] = 0 /\ g[1] = 0
      BY <1>6, <1>10, <3>1
    <3> QED BY <3>2
  <2>2. ASSUME NEW m \in Q PROVE m + 1 \in Q
    <3>1. m \in Nat
      OBVIOUS
    <3> SUFFICES ASSUME (m + 1) + 1 <= n PROVE c[(m + 1) + 1] = g[(m + 1) + 1]
      BY <3>1
    <3> DEFINE k == (m + 1) + 1
    <3>2. k \in 1..n /\ k # 1 /\ k - 1 = m + 1 /\ m + 1 <= n
      BY <3>1
    <3> HIDE DEF k
    <3>3. c[k - 1] = g[k - 1]
      BY <3>2
    <3>4. c[k] = Next1(c, k) /\ g[k] = Next1(g, k)
      BY <1>6, <1>10, <3>2
    <3>5. c[k] = g[k]
      BY <3>2, <3>3, <3>4, Zenon
    <3> QED BY <3>5 DEF k
  <2>3. Q \in SUBSET Nat
    OBVIOUS
  <2> HIDE DEF Q
  <2>4. \A k \in Nat : k \in Q
    BY <2>1, <2>2, <2>3, NatSetInduction
  <2> SUFFICES ASSUME NEW k \in 1..n PROVE c[k] = g[k]
    OBVIOUS
  <2>5. k - 1 \in Nat /\ (k - 1) + 1 = k /\ (k - 1) + 1 <= n
    OBVIOUS
  <2> QED BY <2>4, <2>5 DEF Q
<1>12. CodeNumbers(E) = c
  <2>1. DOMAIN E = 1..n
    OBVIOUS
  <2> QED BY <2>1, Zenon DEF CodeNumbers, c
<1>13. c \in [1..n -> Nat]
  <2>1. c = [k \in 1..n |-> c[k]]
    BY <1>9, <1>10
  <2>2. \A k \in 1..n : c[k] \in Nat
    BY <1>7, <1>11
  <2> QED BY <2>1, <2>2
<1>14. n >= 1 => c[1] = 0
  <2>1. n >= 1 => 1 \in 1..n
    OBVIOUS
  <2> QED BY <1>10, <2>1
<1>15. ASSUME NEW k \in 1..n, k + 1 <= n
       PROVE  c[k + 1] = (c[k] + 1) * Pow2[EntryLength(E[k + 1]) - EntryLength(E[k])]
  <2>1. k + 1 \in 1..n /\ k + 1 # 1 /\ (k + 1) - 1 = k
    BY <1>15
  <2>2. c[k + 1] = Next1(c, k + 1)
    BY <1>10, <2>1
  <2> QED BY <2>1, <2>2
<1> QED BY <1>12, <1>13, <1>14, <1>15

\* Intervals of which each begins where the one before ends leave no gap.
LEMMA Tiling ==
    ASSUME NEW n \in Nat, n >= 1, NEW start \in [1..n -> Nat], NEW end \in [1..n -> Nat],
           start[1] = 0, \A k \in 1..n : start[k] < end[k],
           \A k \in 1..n : k + 1 <= n => start[k + 1] = end[k]
    PROVE  /\ \A j, k \in 1..n : j < k => end[j] <= start[k]
           /\ \A k \in 1..n : end[k] <= end[n]
           /\ \A v \in Nat : v < end[n] => \E k \in 1..n : start[k] <= v /\ v < end[k]
<1>1. \A k \in 1..n : start[k] \in Nat /\ end[k] \in Nat
  OBVIOUS
<1>2. ASSUME NEW j \in 1..n, NEW k \in 1..n, j < k PROVE end[j] <= start[k]
  <2> DEFINE Q == {m \in Nat : j + m + 1 <= n => end[j] <= start[j + m + 1]}
  <2>1. 0 \in Q
    <3>1. j + 0 + 1 = j + 1
      OBVIOUS
    <3>2. j + 1 <= n => end[j] <= start[j + 1]
      BY <1>1
    <3> QED BY <3>1, <3>2
  <2>2. ASSUME NEW m \in Q PROVE m + 1 \in Q
    <3>1. m \in Nat
      OBVIOUS
    <3> DEFINE i == j + m + 1
    <3>2. j + (m + 1) + 1 = i + 1 /\ i \in Nat /\ i >= 1
      BY <3>1
    <3> HIDE DEF i
    <3> SUFFICES ASSUME i + 1 <= n PROVE end[j] <= start[i + 1]
      BY <3>1, <3>2
    <3>3. i \in 1..n
      BY <3>2
    <3>4. end[j] <= start[i]
      BY <3>2, <3>3 DEF i
    <3>5. start[i + 1] = end[i] /\ start[i] < end[i]
      BY <3>3
    <3> QED BY <1>1, <3>3, <3>4, <3>5
  <2>3. Q \in SUBSET Nat
    OBVIOUS
  <2> HIDE DEF Q
  <2>4. \A m \in Nat : m \in Q
    BY <2>1, <2>2, <2>3, NatSetInduction
  <2>5. k - j - 1 \in Nat /\ j + (k - j - 1) + 1 = k /\ k <= n
    BY <1>2
  <2>6. k - j - 1 \in Q
    BY <2>4, <2>5
  <2> QED BY <2>5, <2>6 DEF Q
<1>3. n \in 1..n
  OBVIOUS
<1>4. ASSUME NEW k \in 1..n PROVE end[k] <= end[n]
  <2>1. CASE k = n
    BY <1>1, <1>3, <2>1
  <2>2. CASE k < n
    <3>1. end[k] <= start[n] /\ start[n] < end[n]
      BY <1>2, <1>3, <2>2
    <3> QED BY <1>1, <1>3, <3>1
  <2> QED BY <2>1, <2>2
<1>5. ASSUME NEW v \in Nat, v < end[n] PROVE \E k \in 1..n : start[k] <= v /\ v < end[k]
  <2> DEFINE S == {k \in 1..n : v < end[k]}
  <2>1. S \in SUBSET Nat /\ S # {}
    <3>1. n \in S
      BY <1>3, <1>5
    <3>2. S \in SUBSET Nat
      OBVIOUS
    <3> QED BY <3>1, <3>2
  <2>2. PICK k \in S : \A y \in S : k <= y
    BY <2>1, LeastNat
  <2>3. k \in 1..n /\ v < end[k]
    OBVIOUS
  <2>4. CASE k = 1
    BY <2>3, <2>4
  <2>5. CASE k # 1
    <3>1. k - 1 \in 1..n /\ (k - 1) + 1 = k /\ (k - 1) + 1 <= n
      BY <2>3, <2>5
    <3>2. start[(k - 1) + 1] = end[k - 1]
      BY <3>1
    <3>3. k - 1 \notin S
      BY <2>2, <3>1
    <3>4. end[k - 1] <= v
      BY <1>1, <3>1, <3>3
    <3> QED BY <2>3, <3>1, <3>2, <3>4
  <2> QED BY <2>4, <2>5
<1> QED BY <1>2, <1>4, <1>5

LEMMA BitsOfIs ==
    ASSUME NEW c \in Nat, NEW l \in Nat
    PROVE  /\ BitsOf(c, l) \in Seq(Bits) /\ Len(BitsOf(c, l)) = l /\ DOMAIN BitsOf(c, l) = 1..l
           /\ \A i \in 1..l : /\ BitsOf(c, l)[i] = (c \div Pow2[l - i]) % 2
                              /\ BitsOf(c, l)[i] \in Bits
<1> DEFINE b == BitsOf(c, l)
<1>1. DOMAIN b = 1..l /\ \A i \in 1..l : b[i] = (c \div Pow2[l - i]) % 2
  BY DEF BitsOf
<1>2. ASSUME NEW i \in 1..l PROVE b[i] \in Bits
  <2>1. l - i \in Nat
    OBVIOUS
  <2> DEFINE h == c \div Pow2[l - i]
  <2>2. h \in Nat
    BY <2>1, PowType, DivType
  <2> HIDE DEF h
  <2>3. h % 2 \in {0, 1}
    BY <2>2
  <2> QED BY <1>1, <2>3 DEF h, Bits
<1>3. b = [i \in 1..l |-> b[i]]
  BY DEF BitsOf
<1> HIDE DEF b
<1>4. b \in [1..l -> Bits]
  BY <1>2, <1>3
<1>5. b \in Seq(Bits)
  BY <1>4, FromFunction
<1>6. Len(b) = l
  BY <1>4
<1> QED BY <1>1, <1>2, <1>5, <1>6 DEF b

\* A prefix agrees with the sequence as far as it goes.
LEMMA PrefixIs ==
    ASSUME NEW G, NEW s \in Seq(G), NEW t \in Seq(G)
    PROVE  IsPrefix(s, t) <=> Len(s) <= Len(t) /\ \A i \in 1..Len(s) : s[i] = t[i]
<1>1. Len(s) \in Nat /\ Len(t) \in Nat
  OBVIOUS
<1>2. ASSUME Len(s) <= Len(t)
      PROVE  SubSeq(s, 1, Len(s)) = SubSeq(t, 1, Len(s)) <=> \A i \in 1..Len(s) : s[i] = t[i]
  <2> DEFINE a == SubSeq(s, 1, Len(s))
             b == SubSeq(t, 1, Len(s))
  <2>1. a = s
    OBVIOUS
  <2>2. b \in Seq(G) /\ Len(b) = Len(s) /\ \A i \in 1..Len(s) : b[i] = t[i]
    BY <1>1, <1>2
  <2> HIDE DEF a, b
  <2>3. s = b <=> \A i \in 1..Len(s) : s[i] = b[i]
    BY <2>2
  <2> QED BY <2>1, <2>2, <2>3 DEF a, b
<1> QED BY <1>2 DEF IsPrefix

\* A number is what its bits say.
LEMMA SameBits ==
    ASSUME NEW l \in Nat, NEW a \in 0..(Pow2[l] - 1), NEW b \in 0..(Pow2[l] - 1),
           \A i \in 1..l : BitsOf(a, l)[i] = BitsOf(b, l)[i]
    PROVE  a = b
<1>1. a \in Nat /\ b \in Nat /\ a \div Pow2[l] = 0 /\ b \div Pow2[l] = 0
  <2>1. Pow2[l] \in Nat \ {0}
    BY PowType
  <2> QED BY <2>1, DivOfSmaller
<1> DEFINE Q == {m \in Nat : m <= l => a \div Pow2[l - m] = b \div Pow2[l - m]}
<1>2. 0 \in Q
  <2>1. l - 0 = l
    OBVIOUS
  <2> QED BY <1>1, <2>1
<1>3. ASSUME NEW m \in Q PROVE m + 1 \in Q
  <2>1. m \in Nat
    OBVIOUS
  <2> SUFFICES ASSUME m + 1 <= l PROVE a \div Pow2[l - (m + 1)] = b \div Pow2[l - (m + 1)]
    BY <2>1
  <2> DEFINE i == l - (m + 1)
  <2>2. i \in Nat /\ i + 1 = l - m /\ m + 1 \in 1..l /\ m <= l
    BY <2>1
  <2>3. BitsOf(a, l)[m + 1] = (a \div Pow2[i]) % 2 /\ BitsOf(b, l)[m + 1] = (b \div Pow2[i]) % 2
    BY <1>1, <2>2, BitsOfIs
  <2> HIDE DEF i
  <2>4. a \div Pow2[i + 1] = b \div Pow2[i + 1]
    BY <2>2
  <2>5. (a \div Pow2[i]) % 2 = (b \div Pow2[i]) % 2
    BY <2>2, <2>3
  <2>6. /\ a \div Pow2[i] = 2 * (a \div Pow2[i + 1]) + ((a \div Pow2[i]) % 2)
        /\ b \div Pow2[i] = 2 * (b \div Pow2[i + 1]) + ((b \div Pow2[i]) % 2)
    BY <1>1, <2>2, OneBitMore
  <2>7. a \div Pow2[i] = b \div Pow2[i]
    BY <2>4, <2>5, <2>6, Zenon
  <2> QED BY <2>7 DEF i
<1>4. Q \in SUBSET Nat
  OBVIOUS
<1> HIDE DEF Q
<1>5. l \in Q
  BY <1>2, <1>3, <1>4, NatSetInduction
<1>6. a \div Pow2[l - l] = b \div Pow2[l - l]
  BY <1>5 DEF Q
<1>7. Pow2[l - l] = 1
  <2>1. l - l = 0
    OBVIOUS
  <2> QED BY <2>1, PowIs
<1>8. a \div 1 = b \div 1
  BY <1>6, <1>7
<1>9. \A v \in Nat : v \div 1 = v
  OBVIOUS
<1> QED BY <1>1, <1>8, <1>9

\* The first bits of a number are those of its quotient by a power of two.
LEMMA TopBits ==
    ASSUME NEW v \in Nat, NEW L \in Nat, NEW l \in 0..L, NEW i \in 1..l
    PROVE  BitsOf(v \div Pow2[L - l], l)[i] = BitsOf(v, L)[i]
<1> DEFINE P == Pow2[L - l]
           R == Pow2[l - i]
<1>1. L - l \in Nat /\ l - i \in Nat /\ l \in Nat /\ i \in 1..L /\ (L - l) + (l - i) = L - i
  OBVIOUS
<1>2. P \in Nat \ {0} /\ R \in Nat \ {0}
  BY <1>1, PowType
<1>3. Pow2[L - i] = P * R
  <2> DEFINE x == L - l
             y == l - i
  <2>1. x \in Nat /\ y \in Nat /\ x + y = L - i
    BY <1>1
  <2> HIDE DEF x, y
  <2>2. Pow2[x + y] = Pow2[x] * Pow2[y]
    BY <2>1, PowSum
  <2>3. Pow2[L - i] = Pow2[x] * Pow2[y]
    BY <2>1, <2>2
  <2> QED BY <2>3 DEF x, y
<1> HIDE DEF P, R
<1>4. v \div P \in Nat
  BY <1>2, DivType
<1>5. BitsOf(v \div P, l)[i] = ((v \div P) \div R) % 2
  <2> DEFINE q == v \div P
  <2>1. q \in Nat
    BY <1>4
  <2> HIDE DEF q
  <2>2. BitsOf(q, l)[i] = (q \div Pow2[l - i]) % 2
    BY <1>1, <2>1, BitsOfIs
  <2> QED BY <2>2 DEF R, q
<1>6. BitsOf(v, L)[i] = (v \div (P * R)) % 2
  <2>1. BitsOf(v, L)[i] = (v \div Pow2[L - i]) % 2
    BY <1>1, BitsOfIs
  <2> QED BY <1>3, <2>1
<1>7. (v \div P) \div R = v \div (P * R)
  BY <1>2, DivOfDiv
<1> QED BY <1>5, <1>6, <1>7 DEF P

\* Every bit string is that of a number.
LEMMA BitStringIs ==
    ASSUME NEW L \in Nat, NEW s \in [1..L -> Bits]
    PROVE  \E v \in 0..(Pow2[L] - 1) : \A i \in 1..L : BitsOf(v, L)[i] = s[i]
<1> DEFINE Good(v, m) == \A i \in 1..m : BitsOf(v, m)[i] = s[i]
           Q == {m \in Nat : m <= L => \E v \in 0..(Pow2[m] - 1) : Good(v, m)}
<1>1. 0 \in Q
  <2>1. Pow2[0] = 1 /\ 0 \in 0..(1 - 1)
    BY PowIs
  <2>2. Good(0, 0)
    OBVIOUS
  <2> QED BY <2>1, <2>2
<1>2. ASSUME NEW m \in Q PROVE m + 1 \in Q
  <2>1. m \in Nat
    OBVIOUS
  <2> SUFFICES ASSUME m + 1 <= L PROVE \E v \in 0..(Pow2[m + 1] - 1) : Good(v, m + 1)
    BY <2>1
  <2>2. PICK u \in 0..(Pow2[m] - 1) : Good(u, m)
    BY <2>1
  <2> DEFINE b == s[m + 1]
             v == 2 * u + b
  <2>3. b \in {0, 1}
    <3>1. m + 1 \in 1..L
      BY <2>1
    <3> QED BY <3>1 DEF Bits
  <2>4. Pow2[m + 1] = 2 * Pow2[m] /\ Pow2[m] \in Nat
    BY <2>1, PowType
  <2>5. u \in Nat /\ u <= Pow2[m] - 1
    BY <2>4
  <2>6. v \in 0..(Pow2[m + 1] - 1) /\ v \in Nat
    BY <2>3, <2>4, <2>5
  <2>7. v \div 2 = u /\ v % 2 = b
    BY <2>3, <2>5
  <2> HIDE DEF b, v, Good
  <2>8. ASSUME NEW i \in 1..(m + 1) PROVE BitsOf(v, m + 1)[i] = s[i]
    <3> DEFINE k == m + 1
    <3>1. k \in Nat
      BY <2>1
    <3>2. BitsOf(v, k)[i] = (v \div Pow2[k - i]) % 2
      BY <2>6, <3>1, BitsOfIs
    <3>3. CASE i = m + 1
      <4>1. k - i = 0 /\ Pow2[0] = 1 /\ v \div 1 = v
        BY <2>1, <2>6, <3>3, PowIs
      <4>2. BitsOf(v, k)[i] = v % 2
        BY <3>2, <4>1
      <4> QED BY <2>7, <3>3, <4>2 DEF b
    <3>4. CASE i # m + 1
      <4>1. i \in 1..m
        BY <2>1, <3>4
      <4>2. m \in 0..k
        BY <2>1
      <4>3. BitsOf(v \div Pow2[k - m], m)[i] = BitsOf(v, k)[i]
        <5> HIDE DEF k
        <5> QED BY <2>6, <3>1, <4>1, <4>2, TopBits
      <4>4. Pow2[k - m] = 2
        <5>1. k - m = 1
          BY <2>1
        <5> QED BY <5>1, PowValues
      <4>5. BitsOf(u, m)[i] = BitsOf(v, k)[i]
        BY <2>7, <4>3, <4>4
      <4> QED BY <2>2, <4>1, <4>5 DEF Good
    <3> QED BY <3>3, <3>4
  <2> QED BY <2>6, <2>8 DEF Good
<1>3. Q \in SUBSET Nat
  OBVIOUS
<1> HIDE DEF Q
<1>4. L \in Q
  BY <1>1, <1>2, <1>3, NatSetInduction
<1>5. \E v \in 0..(Pow2[L] - 1) : Good(v, L)
  BY <1>4 DEF Q
<1> QED BY <1>5

\* The bit strings that begin with a code are those of an interval of numbers.
LEMMA CodeIsPrefix ==
    ASSUME NEW L \in Nat, NEW l \in 0..L, NEW c \in 0..(Pow2[l] - 1), NEW v \in 0..(Pow2[L] - 1)
    PROVE  IsPrefix(BitsOf(c, l), BitsOf(v, L)) <=>
               c * Pow2[L - l] <= v /\ v < (c + 1) * Pow2[L - l]
<1> DEFINE P == Pow2[L - l]
           q == v \div P
           r == v % P
<1>1. l \in Nat /\ L - l \in Nat /\ l <= L /\ \A i \in 1..l : i \in 1..L
  OBVIOUS
<1>2. P \in Nat \ {0} /\ Pow2[l] \in Nat /\ Pow2[L] \in Nat
  BY <1>1, PowType
<1>3. c \in Nat /\ v \in Nat /\ v < Pow2[L]
  BY <1>2
<1>4. Pow2[L] = Pow2[l] * P
  <2> DEFINE x == L - l
  <2>1. x \in Nat /\ l + x = L
    BY <1>1
  <2> HIDE DEF x
  <2>2. Pow2[l + x] = Pow2[l] * Pow2[x]
    BY <1>1, <2>1, PowSum
  <2> QED BY <2>1, <2>2 DEF x
<1> HIDE DEF P
<1>5. q \in Nat /\ r \in 0..(P - 1) /\ v = q * P + r
  BY <1>2, <1>3, DivType
<1> HIDE DEF q, r
<1>6. q < Pow2[l]
  <2> SUFFICES ASSUME Pow2[l] <= q PROVE FALSE
    BY <1>2, <1>5
  <2>1. Pow2[l] * P <= q * P
    BY <1>2, <1>5, ProductOrder
  <2> QED BY <1>2, <1>3, <1>4, <1>5, <2>1
<1>7. c * P <= v /\ v < (c + 1) * P <=> c = q
  <2>1. c = q => c * P <= v /\ v < (c + 1) * P
    <3> SUFFICES ASSUME c = q PROVE c * P <= v /\ v < (c + 1) * P
      OBVIOUS
    <3>1. (c + 1) * P = c * P + P /\ c * P \in Nat
      BY <1>2, <1>3
    <3> QED BY <1>2, <1>5, <3>1
  <2>2. c < q => ~(v < (c + 1) * P)
    <3> SUFFICES ASSUME c < q PROVE ~(v < (c + 1) * P)
      OBVIOUS
    <3>1. c + 1 \in Nat /\ c + 1 <= q
      BY <1>3, <1>5
    <3>2. (c + 1) * P <= q * P /\ (c + 1) * P \in Nat /\ q * P \in Nat
      BY <1>2, <1>5, <3>1, ProductOrder
    <3> QED BY <1>2, <1>3, <1>5, <3>2
  <2>3. q < c => ~(c * P <= v)
    <3> SUFFICES ASSUME q < c PROVE ~(c * P <= v)
      OBVIOUS
    <3>1. q + 1 \in Nat /\ q + 1 <= c
      BY <1>3, <1>5
    <3>2. (q + 1) * P <= c * P /\ (q + 1) * P = q * P + P /\ q * P \in Nat /\ c * P \in Nat
      BY <1>2, <1>3, <1>5, <3>1, ProductOrder
    <3> QED BY <1>2, <1>3, <1>5, <3>2
  <2>4. c < q \/ c = q \/ q < c
    BY <1>3, <1>5
  <2> QED BY <2>1, <2>2, <2>3, <2>4
<1>8. ASSUME NEW i \in 1..l PROVE BitsOf(q, l)[i] = BitsOf(v, L)[i]
  BY <1>3, TopBits DEF q, P
<1>9. /\ BitsOf(c, l) \in Seq(Bits) /\ Len(BitsOf(c, l)) = l
      /\ BitsOf(v, L) \in Seq(Bits) /\ Len(BitsOf(v, L)) = L
  BY <1>1, <1>3, BitsOfIs
<1>10. IsPrefix(BitsOf(c, l), BitsOf(v, L)) <=> \A i \in 1..l : BitsOf(c, l)[i] = BitsOf(v, L)[i]
  <2> DEFINE x == BitsOf(c, l)
             y == BitsOf(v, L)
  <2>1. x \in Seq(Bits) /\ y \in Seq(Bits) /\ Len(x) = l /\ Len(y) = L
    BY <1>9
  <2> HIDE DEF x, y
  <2>2. IsPrefix(x, y) <=> Len(x) <= Len(y) /\ \A i \in 1..Len(x) : x[i] = y[i]
    BY <2>1, PrefixIs
  <2> QED BY <1>1, <2>1, <2>2 DEF x, y
<1>11. (\A i \in 1..l : BitsOf(c, l)[i] = BitsOf(v, L)[i]) <=> c = q
  <2>1. c = q => \A i \in 1..l : BitsOf(c, l)[i] = BitsOf(v, L)[i]
    BY <1>8
  <2>2. ASSUME \A i \in 1..l : BitsOf(c, l)[i] = BitsOf(v, L)[i] PROVE c = q
    <3>1. \A i \in 1..l : BitsOf(c, l)[i] = BitsOf(q, l)[i]
      BY <1>8, <2>2
    <3>2. q \in 0..(Pow2[l] - 1)
      BY <1>2, <1>5, <1>6
    <3> QED BY <1>1, <3>1, <3>2, SameBits
  <2> QED BY <2>1, <2>2
<1> QED BY <1>7, <1>10, <1>11 DEF P

\* The numbers whose bits begin with the code of an entry: those from CodeStart up to
\* CodeEnd.
CodeStart(E, k) == CodeNumbers(E)[k] * Pow2[MaxCodeBits - EntryLength(E[k])]
CodeEnd(E, k) == (CodeNumbers(E)[k] + 1) * Pow2[MaxCodeBits - EntryLength(E[k])]

\* The codes of a dictionary take one interval after the other.
LEMMA CodesFollow ==
    ASSUME NEW in \in Seq(0..255), NEW lens, LengthsOK(in, lens),
           NEW E, E = Entries(UniqueSymbols(in), lens), NEW n, n = Len(UniqueSymbols(in))
    PROVE  /\ CodeNumbers(E) \in [1..n -> Nat] /\ CodeStart(E, 1) = 0
           /\ \A k \in 1..n : /\ CodeStart(E, k) \in Nat /\ CodeEnd(E, k) \in Nat
                              /\ CodeEnd(E, k) = CodeStart(E, k) + Pow2[MaxCodeBits - EntryLength(E[k])]
                              /\ CodeStart(E, k) < CodeEnd(E, k)
           /\ \A k \in 1..n : k + 1 <= n => CodeStart(E, k + 1) = CodeEnd(E, k)
<1> DEFINE s == UniqueSymbols(in)
           K == EntrySet(s, lens)
           c == CodeNumbers(E)
           L == MaxCodeBits
           l(k) == EntryLength(E[k])
<1>1. /\ n \in Nat /\ n >= 1 /\ E \in [1..n -> Nat]
      /\ \A k \in 1..n : l(k) \in 1..L
      /\ \A j, k \in 1..n : j < k => l(j) <= l(k)
  <2> HIDE DEF s, K
  <2>1. /\ s = UniqueSymbols(in) /\ K = EntrySet(s, lens) /\ E = Entries(s, lens) /\ n = Len(s)
    BY DEF s, K
  <2>2. EntriesOK(E, K, n, in)
    BY <2>1, EntriesAre
  <2> QED BY <2>2 DEF EntriesOK
<1>2. L \in Nat \ {0}
  BY InputAssumption
<1>3. \A k \in 1..n : k + 1 <= n => l(k + 1) - l(k) \in Nat
  <2> SUFFICES ASSUME NEW k \in 1..n, k + 1 <= n PROVE l(k + 1) - l(k) \in Nat
    OBVIOUS
  <2>1. k + 1 \in 1..n /\ k < k + 1
    BY <1>1
  <2>2. l(k) \in Nat /\ l(k + 1) \in Nat /\ l(k) <= l(k + 1)
    BY <1>1, <2>1
  <2> HIDE DEF l
  <2> QED BY <2>2
<1>4. /\ c \in [1..n -> Nat] /\ (n >= 1 => c[1] = 0)
      /\ \A k \in 1..n : k + 1 <= n => c[k + 1] = (c[k] + 1) * Pow2[l(k + 1) - l(k)]
  BY <1>1, <1>3, CodeNumbersAre
<1> HIDE DEF c, l, L
<1>5. ASSUME NEW k \in 1..n
      PROVE  /\ c[k] \in Nat /\ L - l(k) \in Nat /\ Pow2[L - l(k)] \in Nat \ {0}
             /\ CodeStart(E, k) = c[k] * Pow2[L - l(k)] /\ CodeEnd(E, k) = (c[k] + 1) * Pow2[L - l(k)]
  <2>1. L - l(k) \in Nat
    BY <1>1, <1>2
  <2>2. Pow2[L - l(k)] \in Nat \ {0}
    BY <2>1, PowType
  <2> QED BY <1>4, <2>1, <2>2 DEF CodeStart, CodeEnd, c, L, l
<1>6. ASSUME NEW k \in 1..n
      PROVE  /\ CodeStart(E, k) \in Nat /\ CodeEnd(E, k) \in Nat
             /\ CodeEnd(E, k) = CodeStart(E, k) + Pow2[L - l(k)] /\ CodeStart(E, k) < CodeEnd(E, k)
  <2> DEFINE a == c[k]
             P == Pow2[L - l(k)]
  <2>1. a \in Nat /\ P \in Nat \ {0} /\ CodeStart(E, k) = a * P /\ CodeEnd(E, k) = (a + 1) * P
    BY <1>5
  <2> HIDE DEF a, P
  <2>2. a * P \in Nat /\ (a + 1) * P = a * P + P
    BY <2>1
  <2> QED BY <2>1, <2>2 DEF P
<1>7. CodeStart(E, 1) = 0
  <2>1. 1 \in 1..n /\ c[1] = 0
    BY <1>1, <1>4
  <2> QED BY <1>5, <2>1
<1>8. ASSUME NEW k \in 1..n, k + 1 <= n PROVE CodeStart(E, k + 1) = CodeEnd(E, k)
  <2> DEFINE x == l(k + 1) - l(k)
             y == L - l(k + 1)
             a == c[k] + 1
  <2>1. k + 1 \in 1..n
    BY <1>1, <1>8
  <2>2. x \in Nat
    BY <1>3, <1>8
  <2>3. y \in Nat
    BY <1>5, <2>1
  <2>4. x + y = L - l(k)
    <3>1. l(k) \in Int /\ l(k + 1) \in Int /\ L \in Int
      BY <1>1, <1>2, <2>1
    <3> QED BY <3>1
  <2>5. a \in Nat
    BY <1>5
  <2>6. CodeStart(E, k + 1) = (a * Pow2[x]) * Pow2[y]
    <3>1. c[k + 1] = a * Pow2[x]
      BY <1>4, <1>8
    <3>2. CodeStart(E, k + 1) = c[k + 1] * Pow2[y]
      BY <1>5, <2>1
    <3> QED BY <3>1, <3>2
  <2>7. CodeEnd(E, k) = a * Pow2[x + y]
    BY <1>5, <2>4
  <2> HIDE DEF x, y, a
  <2>8. Pow2[x + y] = Pow2[x] * Pow2[y] /\ Pow2[x] \in Nat /\ Pow2[y] \in Nat
    BY <2>2, <2>3, PowSum, PowType
  <2>9. (a * Pow2[x]) * Pow2[y] = a * (Pow2[x] * Pow2[y])
    BY <2>5, <2>8
  <2> QED BY <2>6, <2>7, <2>8, <2>9
<1> QED BY <1>4, <1>6, <1>7, <1>8 DEF c, l, L

\* Together they take as many numbers as the codes have bit strings to go on with.
LEMMA CodesEnd ==
    ASSUME NEW in \in Seq(0..255), NEW lens, LengthsOK(in, lens),
           NEW E, E = Entries(UniqueSymbols(in), lens), NEW n, n = Len(UniqueSymbols(in))
    PROVE  CodeEnd(E, n) <= Pow2[MaxCodeBits] /\ (n > 1 => CodeEnd(E, n) = Pow2[MaxCodeBits])
<1> DEFINE s == UniqueSymbols(in)
           K == EntrySet(s, lens)
           L == MaxCodeBits
           l == LengthsOf(K)
           D(k) == {E[j] : j \in 1..k}
           X(k) == Slots(l, D(k), L)
           end(k) == IF k = 0 THEN 0 ELSE CodeEnd(E, k)
<1>1. /\ n \in Nat /\ n >= 1 /\ E \in [1..n -> Nat] /\ D(n) = K
      /\ \A k \in 1..n : EntryLength(E[k]) \in 1..L
      /\ \A j, k \in 1..n : j < k => E[j] < E[k]
  <2> HIDE DEF s, K
  <2>1. /\ s = UniqueSymbols(in) /\ K = EntrySet(s, lens) /\ E = Entries(s, lens) /\ n = Len(s)
    BY DEF s, K
  <2>2. EntriesOK(E, K, n, in)
    BY <2>1, EntriesAre
  <2> QED BY <2>2 DEF EntriesOK
<1>2. L \in Nat
  BY InputAssumption
<1>3. /\ CodeStart(E, 1) = 0
      /\ \A k \in 1..n : /\ CodeStart(E, k) \in Nat /\ CodeEnd(E, k) \in Nat
                         /\ CodeEnd(E, k) = CodeStart(E, k) + Pow2[L - EntryLength(E[k])]
      /\ \A k \in 1..n : k + 1 <= n => CodeStart(E, k + 1) = CodeEnd(E, k)
  BY CodesFollow
<1> HIDE DEF L, K
<1>4. \A k \in 1..n : E[k] \in K /\ l[E[k]] = EntryLength(E[k])
  <2>1. \A k \in 1..n : E[k] \in K
    BY <1>1
  <2> QED BY <2>1 DEF LengthsOf
<1> HIDE DEF l
<1>5. ASSUME NEW k \in Nat, k + 1 <= n
      PROVE  CodeStart(E, k + 1) = end(k) /\ end(k) \in Nat
  <2>1. CASE k = 0
    BY <1>3, <2>1
  <2>2. CASE k # 0
    <3>1. k \in 1..n
      BY <1>1, <1>5, <2>2
    <3> QED BY <1>3, <1>5, <2>2, <3>1
  <2> QED BY <2>1, <2>2
<1> DEFINE Q == {k \in Nat : k <= n => IsFiniteSet(X(k)) /\ Cardinality(X(k)) = end(k)}
<1>6. 0 \in Q
  <2>1. X(0) = {}
    BY DEF Slots
  <2>2. IsFiniteSet({}) /\ Cardinality({}) = 0
    BY FS_EmptySet
  <2> HIDE DEF X
  <2> QED BY <2>1, <2>2
<1>7. ASSUME NEW k \in Q PROVE k + 1 \in Q
  <2>1. k \in Nat
    OBVIOUS
  <2> SUFFICES ASSUME k + 1 <= n PROVE IsFiniteSet(X(k + 1)) /\ Cardinality(X(k + 1)) = end(k + 1)
    BY <2>1
  <2> DEFINE e == E[k + 1]
             A == D(k)
  <2>2. k + 1 \in 1..n /\ k <= n /\ k + 1 # 0
    BY <1>1, <2>1
  <2>3. IsFiniteSet(Slots(l, A, L)) /\ Cardinality(Slots(l, A, L)) = end(k)
    BY <2>1, <2>2
  <2>4. D(k + 1) = A \cup {e}
    <3>1. \A j \in 1..(k + 1) : j \in 1..k \/ j = k + 1
      BY <2>1
    <3>2. (\A j \in 1..k : j \in 1..(k + 1)) /\ k + 1 \in 1..(k + 1)
      BY <2>1
    <3> QED BY <3>1, <3>2
  <2>5. A \cap {e} = {}
    <3> SUFFICES ASSUME NEW j \in 1..k PROVE E[j] # E[k + 1]
      OBVIOUS
    <3>1. j \in 1..n /\ j < k + 1
      BY <1>1, <2>1, <2>2
    <3>2. E[j] < E[k + 1] /\ E[j] \in Nat /\ E[k + 1] \in Nat
      BY <1>1, <2>2, <3>1
    <3> QED BY <3>2
  <2>6. l[e] = EntryLength(e) /\ EntryLength(e) \in 1..L
    BY <1>1, <1>4, <2>2
  <2> HIDE DEF e, A, D, end, Q
  <2>7. L - l[e] \in Nat
    BY <1>2, <2>6
  <2>8. IsFiniteSet(Slots(l, {e}, L)) /\ Cardinality(Slots(l, {e}, L)) = Pow2[L - l[e]]
    BY <1>2, <2>7, SlotsOfOne
  <2>9. /\ IsFiniteSet(Slots(l, A \cup {e}, L))
        /\ Cardinality(Slots(l, A \cup {e}, L)) = Cardinality(Slots(l, A, L)) + Cardinality(Slots(l, {e}, L))
    <3>1. IsFiniteSet(Slots(l, A, L)) /\ IsFiniteSet(Slots(l, {e}, L))
      BY <2>3, <2>8
    <3> DEFINE B == {e}
    <3>2. A \cap B = {} /\ IsFiniteSet(Slots(l, A, L)) /\ IsFiniteSet(Slots(l, B, L))
      BY <2>5, <3>1
    <3> HIDE DEF B
    <3>3. /\ IsFiniteSet(Slots(l, A \cup B, L))
          /\ Cardinality(Slots(l, A \cup B, L)) = Cardinality(Slots(l, A, L)) + Cardinality(Slots(l, B, L))
      <4>1. SlotsAdd(l, A, B, L)
        BY <3>2, SlotsOfTwo
      <4> QED BY <4>1 DEF SlotsAdd
    <3> QED BY <3>3 DEF B
  <2>10. CodeEnd(E, k + 1) = end(k) + Pow2[L - l[e]]
    BY <1>3, <1>5, <2>1, <2>2, <2>6 DEF e
  <2>11. end(k + 1) = CodeEnd(E, k + 1)
    BY <2>2 DEF end
  <2> QED BY <2>3, <2>4, <2>8, <2>9, <2>10, <2>11
<1>8. Q \in SUBSET Nat
  OBVIOUS
<1> HIDE DEF Q
<1>9. n \in Q
  BY <1>1, <1>6, <1>7, <1>8, NatSetInduction
<1>10. Cardinality(X(n)) = end(n)
  BY <1>1, <1>9 DEF Q
<1>11. end(n) = CodeEnd(E, n)
  BY <1>1
<1>12. Cardinality(Slots(l, K, L)) = CodeEnd(E, n)
  BY <1>1, <1>10, <1>11
<1> QED BY <1>12 DEF LengthsOK, l, K, L

\* The codes: no code begins another, and unless there is only one symbol every bit
\* string begins with one of them.
LEMMA CanonicalCodesAre ==
    ASSUME NEW in \in Seq(0..255), NEW lens, LengthsOK(in, lens),
           NEW codes0, codes0 = CanonicalCodes(UniqueSymbols(in), lens)
    PROVE  /\ DOMAIN codes0 = ToSet(in)
           /\ \A x \in ToSet(in) : codes0[x] \in Seq(Bits)
           /\ \A x, y \in ToSet(in) : IsPrefix(codes0[x], codes0[y]) => x = y
           /\ Len(UniqueSymbols(in)) > 1 =>
                  \A t \in [1..MaxCodeBits -> Bits] :
                      \E x \in ToSet(in) : \A y \in ToSet(in) : IsPrefix(codes0[y], t) <=> y = x
<1> DEFINE s == UniqueSymbols(in)
           n == Len(s)
           E == Entries(s, lens)
           c == CodeNumbers(E)
           L == MaxCodeBits
           l(k) == EntryLength(E[k])
           sym(k) == EntrySymbol(E[k])
           code(k) == BitsOf(c[k], l(k))
           place(x) == CHOOSE k \in DOMAIN E : sym(k) = x
           start == [k \in 1..n |-> CodeStart(E, k)]
           end == [k \in 1..n |-> CodeEnd(E, k)]
<1>1. /\ n \in Nat /\ n >= 1 /\ E \in [1..n -> Nat]
      /\ \A k \in 1..n : l(k) \in 1..L /\ sym(k) \in ToSet(in)
      /\ \A x \in ToSet(in) : \E k \in 1..n : sym(k) = x
      /\ \A j, k \in 1..n : sym(j) = sym(k) => j = k
  <2> DEFINE K == EntrySet(s, lens)
  <2> HIDE DEF s, K, E, n
  <2>1. s = UniqueSymbols(in) /\ K = EntrySet(s, lens) /\ E = Entries(s, lens) /\ n = Len(s)
    BY DEF s, K, E, n
  <2>2. EntriesOK(E, K, n, in)
    BY <2>1, EntriesAre
  <2> QED BY <2>2 DEF EntriesOK
<1>2. L \in Nat
  BY InputAssumption
<1>3. /\ c \in [1..n -> Nat] /\ CodeStart(E, 1) = 0
      /\ \A k \in 1..n : /\ CodeStart(E, k) \in Nat /\ CodeEnd(E, k) \in Nat
                         /\ CodeStart(E, k) < CodeEnd(E, k)
      /\ \A k \in 1..n : k + 1 <= n => CodeStart(E, k + 1) = CodeEnd(E, k)
  BY CodesFollow
<1>4. CodeEnd(E, n) <= Pow2[L] /\ (n > 1 => CodeEnd(E, n) = Pow2[L])
  BY CodesEnd
<1>a. /\ DOMAIN codes0 = ToSet(s)
      /\ \A x \in ToSet(s) : codes0[x] = code(place(x))
  BY DEF CanonicalCodes
<1>b. ToSet(s) = ToSet(in)
  BY SymbolsAre
<1>c. \A k \in 1..n : start[k] = CodeStart(E, k) /\ end[k] = CodeEnd(E, k)
  OBVIOUS
<1>d. n \in 1..n /\ 1 \in 1..n
  BY <1>1
<1>e. start \in [1..n -> Nat] /\ end \in [1..n -> Nat]
  BY <1>3
<1> HIDE DEF s, E, n, c, L, l, sym, code, place, start, end
<1>5. /\ \A j, k \in 1..n : j < k => end[j] <= start[k]
      /\ \A k \in 1..n : end[k] <= end[n]
      /\ \A v \in Nat : v < end[n] => \E k \in 1..n : start[k] <= v /\ v < end[k]
  <2>1. start[1] = 0 /\ \A k \in 1..n : start[k] < end[k]
    BY <1>3, <1>c, <1>d
  <2>2. \A k \in 1..n : k + 1 <= n => start[k + 1] = end[k]
    <3> SUFFICES ASSUME NEW k \in 1..n, k + 1 <= n PROVE start[k + 1] = end[k]
      OBVIOUS
    <3>1. k + 1 \in 1..n
      BY <1>1
    <3> QED BY <1>3, <1>c, <3>1
  <2> QED BY <1>1, <1>e, <2>1, <2>2, Tiling
<1>6. Pow2[L] \in Nat
  BY <1>2, PowType
<1>7. ASSUME NEW k \in 1..n
      PROVE  /\ l(k) \in 0..L /\ l(k) \in Nat /\ c[k] \in 0..(Pow2[l(k)] - 1) /\ c[k] \in Nat
             /\ start[k] = c[k] * Pow2[L - l(k)] /\ end[k] = (c[k] + 1) * Pow2[L - l(k)]
  <2> DEFINE a == c[k]
             P == Pow2[L - l(k)]
             R == Pow2[l(k)]
             x == l(k)
  <2>1. l(k) \in Nat /\ l(k) <= L /\ L - l(k) \in Nat /\ l(k) \in 0..L
    BY <1>1, <1>2
  <2>2. a \in Nat /\ P \in Nat \ {0} /\ R \in Nat
    BY <1>3, <2>1, PowType
  <2>3. start[k] = a * P /\ end[k] = (a + 1) * P
    BY <1>c DEF CodeStart, CodeEnd, c, l, L
  <2>4. Pow2[L] = R * P
    <3> DEFINE y == L - l(k)
    <3>1. x \in Nat /\ y \in Nat /\ x + y = L
      BY <1>2, <2>1
    <3> HIDE DEF x, y
    <3>2. Pow2[x + y] = Pow2[x] * Pow2[y]
      BY <3>1, PowSum
    <3> QED BY <3>1, <3>2 DEF x, y
  <2>5. (a + 1) * P <= R * P
    <3>1. end[k] <= end[n] /\ end[n] <= Pow2[L]
      BY <1>4, <1>5, <1>c, <1>d
    <3>2. end[k] \in Nat /\ end[n] \in Nat
      BY <1>d, <1>e
    <3> HIDE DEF a, P, R
    <3> QED BY <1>6, <2>3, <2>4, <3>1, <3>2
  <2> HIDE DEF a, P, R
  <2>6. a < R
    <3> SUFFICES ASSUME R <= a PROVE FALSE
      BY <2>2
    <3>1. R * P <= a * P
      BY <2>2, ProductOrder
    <3>2. (a + 1) * P = a * P + P /\ a * P \in Nat /\ R * P \in Nat
      BY <2>2
    <3> QED BY <2>2, <2>5, <3>1, <3>2
  <2>7. a \in 0..(R - 1)
    BY <2>2, <2>6
  <2> QED BY <2>1, <2>2, <2>3, <2>7 DEF a, P, R
<1>8. ASSUME NEW k \in 1..n, NEW v \in 0..(Pow2[L] - 1)
      PROVE  IsPrefix(code(k), BitsOf(v, L)) <=> start[k] <= v /\ v < end[k]
  <2> DEFINE a == c[k]
             x == l(k)
  <2>1. /\ x \in 0..L /\ a \in 0..(Pow2[x] - 1)
        /\ start[k] = a * Pow2[L - x] /\ end[k] = (a + 1) * Pow2[L - x] /\ code(k) = BitsOf(a, x)
    BY <1>7 DEF code
  <2> HIDE DEF a, x
  <2>2. IsPrefix(BitsOf(a, x), BitsOf(v, L)) <=> a * Pow2[L - x] <= v /\ v < (a + 1) * Pow2[L - x]
    BY <1>2, <2>1, CodeIsPrefix
  <2> QED BY <2>1, <2>2
<1>9. ASSUME NEW k \in 1..n PROVE code(k) \in Seq(Bits)
  BY <1>7, BitsOfIs DEF code
<1>10. ASSUME NEW j \in 1..n, NEW k \in 1..n, NEW v \in Nat,
              start[j] <= v, v < end[j], start[k] <= v, v < end[k]
       PROVE  j = k
  <2>1. /\ start[j] \in Nat /\ end[j] \in Nat /\ start[k] \in Nat /\ end[k] \in Nat
    BY <1>e
  <2>2. ~(j < k) /\ ~(k < j)
    BY <1>5, <1>10, <2>1
  <2> QED BY <2>2
<1>11. ASSUME NEW j \in 1..n, NEW k \in 1..n, IsPrefix(code(j), code(k)) PROVE j = k
  <2> DEFINE v == start[k]
             t == BitsOf(v, L)
  <2>1. v \in Nat /\ v < end[k] /\ end[k] \in Nat /\ end[n] \in Nat
    BY <1>3, <1>c, <1>d
  <2>2. end[k] <= end[n] /\ end[n] <= Pow2[L]
    BY <1>4, <1>5, <1>c, <1>d
  <2>3. v \in 0..(Pow2[L] - 1)
    <3> HIDE DEF v
    <3> QED BY <1>6, <2>1, <2>2
  <2>4. t \in Seq(Bits)
    <3> HIDE DEF v
    <3> QED BY <1>2, <2>1, BitsOfIs
  <2>5. IsPrefix(code(k), t)
    <3>1. start[k] <= v /\ v < end[k]
      BY <2>1
    <3> HIDE DEF v
    <3> QED BY <1>8, <2>3, <3>1
  <2> HIDE DEF v, t
  <2>6. IsPrefix(code(j), t)
    <3> DEFINE a == code(j)
               b == code(k)
    <3>1. a \in Seq(Bits) /\ b \in Seq(Bits)
      BY <1>9
    <3>2. IsPrefix(a, b) /\ IsPrefix(b, t)
      BY <1>11, <2>5
    <3> HIDE DEF a, b
    <3>3. Len(a) <= Len(b) /\ \A i \in 1..Len(a) : a[i] = b[i]
      BY <3>1, <3>2, PrefixIs
    <3>4. Len(b) <= Len(t) /\ \A i \in 1..Len(b) : b[i] = t[i]
      BY <2>4, <3>1, <3>2, PrefixIs
    <3>5. Len(a) \in Nat /\ Len(b) \in Nat /\ Len(t) \in Nat
      BY <2>4, <3>1
    <3>6. Len(a) <= Len(t) /\ \A i \in 1..Len(a) : a[i] = t[i]
      BY <3>3, <3>4, <3>5
    <3>7. IsPrefix(a, t)
      BY <2>4, <3>1, <3>6, PrefixIs
    <3> QED BY <3>7 DEF a
  <2>7. start[j] <= v /\ v < end[j]
    BY <1>8, <2>3, <2>6 DEF t
  <2>8. start[k] <= v /\ v < end[k]
    BY <1>8, <2>3, <2>5 DEF t
  <2> QED BY <1>10, <2>1, <2>7, <2>8
<1>12. ASSUME NEW x \in ToSet(in) PROVE place(x) \in 1..n /\ sym(place(x)) = x
  <2>1. DOMAIN E = 1..n
    BY <1>1
  <2>2. \E k \in DOMAIN E : sym(k) = x
    BY <1>1, <2>1
  <2> QED BY <2>1, <2>2, Zenon DEF place
<1>13. ASSUME NEW x \in ToSet(in) PROVE codes0[x] = code(place(x)) /\ codes0[x] \in Seq(Bits)
  BY <1>9, <1>12, <1>a, <1>b
<1>14. ASSUME NEW x \in ToSet(in), NEW y \in ToSet(in), IsPrefix(codes0[x], codes0[y]) PROVE x = y
  <2>1. IsPrefix(code(place(x)), code(place(y)))
    BY <1>13, <1>14
  <2>2. place(x) = place(y)
    BY <1>11, <1>12, <2>1
  <2> QED BY <1>12, <2>2
<1>15. ASSUME n > 1, NEW t \in [1..L -> Bits]
       PROVE  \E x \in ToSet(in) : \A y \in ToSet(in) : IsPrefix(codes0[y], t) <=> y = x
  <2>1. PICK v \in 0..(Pow2[L] - 1) : \A i \in 1..L : BitsOf(v, L)[i] = t[i]
    BY <1>2, BitStringIs
  <2>2. v \in Nat /\ v < Pow2[L]
    BY <1>6
  <2>3. t = BitsOf(v, L)
    <3> DEFINE b == BitsOf(v, L)
    <3>1. b \in Seq(Bits) /\ DOMAIN b = 1..L
      BY <1>2, <2>2, BitsOfIs
    <3>2. \A i \in 1..L : b[i] = t[i]
      BY <2>1
    <3>3. b = [i \in 1..L |-> b[i]]
      BY DEF BitsOf
    <3>4. t = [i \in 1..L |-> t[i]]
      OBVIOUS
    <3> HIDE DEF b
    <3>5. [i \in 1..L |-> b[i]] = [i \in 1..L |-> t[i]]
      BY <3>2
    <3>6. b = t
      BY <3>3, <3>4, <3>5, Zenon
    <3> QED BY <3>6 DEF b
  <2>4. v < end[n]
    BY <1>4, <1>15, <1>c, <1>d, <2>2
  <2>5. PICK k \in 1..n : start[k] <= v /\ v < end[k]
    BY <1>5, <2>2, <2>4
  <2>6. sym(k) \in ToSet(in)
    BY <1>1
  <2>7. ASSUME NEW y \in ToSet(in) PROVE IsPrefix(codes0[y], t) <=> y = sym(k)
    <3>1. IsPrefix(codes0[y], t) <=> start[place(y)] <= v /\ v < end[place(y)]
      BY <1>8, <1>12, <1>13, <2>3
    <3>2. start[place(y)] <= v /\ v < end[place(y)] <=> place(y) = k
      BY <1>10, <1>12, <2>2, <2>5
    <3>3. place(y) = k <=> y = sym(k)
      BY <1>1, <1>12
    <3> QED BY <3>1, <3>2, <3>3
  <2> QED BY <2>6, <2>7
<1> QED BY <1>13, <1>14, <1>15, <1>a, <1>b DEF n, s, L

----------------------------------------------------------------------------
(* The code stream.                                                        *)

\* The bits of the codes of the first symbols of an input.
Emitted(in, codes0, k) == FlattenSeq([i \in 1..k |-> codes0[in[i]]])

LEMMA EmittedIs ==
    ASSUME NEW in, Len(in) \in Nat, NEW codes0, \A i \in 1..Len(in) : codes0[in[i]] \in Seq(Bits)
    PROVE  /\ Emitted(in, codes0, 0) = <<>>
           /\ \A k \in 0..Len(in) : Emitted(in, codes0, k) \in Seq(Bits)
           /\ \A k \in 0..Len(in) : k + 1 <= Len(in) =>
                  Emitted(in, codes0, k + 1) = Emitted(in, codes0, k) \o codes0[in[k + 1]]
<1> DEFINE n == Len(in)
           V == Seq(Bits)
           none == <<>>
           part(k) == IF k \in 1..n THEN codes0[in[k]] ELSE <<>>
           step == [k \in Nat |-> [v \in V |-> v \o part(k)]]
<1>1. \A k \in Nat : part(k) \in V
  OBVIOUS
<1>a. \A k \in 1..n : part(k) = codes0[in[k]]
  OBVIOUS
<1> HIDE DEF part, n
<1>2. step \in [Nat -> [V -> V]] /\ none \in V
  BY <1>1
<1>3. \A k \in Nat : \A v \in V : step[k][v] = v \o part(k)
  OBVIOUS
<1> HIDE DEF step, none
<1>4. PICK f : Recursive(V, none, step, f)
  <2> HIDE DEF V
  <2> QED BY <1>2, RecursionExists
<1>5. f \in [Nat -> V] /\ f[0] = <<>> /\ \A k \in Nat : f[k + 1] = f[k] \o part(k + 1)
  <2>1. f \in [Nat -> V] /\ f[0] = <<>> /\ \A k \in Nat : f[k + 1] = step[k + 1][f[k]]
    BY <1>4, Zenon DEF Recursive, none
  <2>2. ASSUME NEW k \in Nat PROVE f[k + 1] = f[k] \o part(k + 1)
    <3> HIDE DEF V
    <3>1. k + 1 \in Nat /\ f[k] \in V
      <4>1. k + 1 \in Nat
        OBVIOUS
      <4> QED BY <2>1, <4>1, Zenon
    <3>2. step[k + 1][f[k]] = f[k] \o part(k + 1)
      BY <1>3, <3>1, Zenon
    <3> QED BY <2>1, <3>2, Zenon
  <2> QED BY <2>1, <2>2
<1>6. n \in Nat
  BY DEF n
<1>7. Emitted(in, codes0, 0) = f[0]
  <2> DEFINE sq == [i \in 1..0 |-> codes0[in[i]]]
  <2>1. sq = <<>>
    OBVIOUS
  <2>2. Len(sq) = 0
    BY <2>1
  <2> HIDE DEF sq
  <2>3. FlattenSeq(sq) = sq
    BY <2>2, Zenon DEF FlattenSeq
  <2> QED BY <1>5, <2>1, <2>3 DEF Emitted, sq
<1>8. ASSUME NEW k \in 1..n PROVE Emitted(in, codes0, k) = f[k]
  <2> DEFINE sq == [i \in 1..k |-> codes0[in[i]]]
  <2>1. k \in Nat /\ k >= 1 /\ DOMAIN sq = 1..k
    OBVIOUS
  <2>2. \A i \in 1..k : sq[i] = part(i)
    <3>1. \A i \in 1..k : i \in 1..n
      BY <1>6
    <3> QED BY <1>a, <3>1
  <2>3. Len(sq) = k
    <3>1. sq \in [1..k -> Seq(Bits)]
      BY <1>1, <2>1, <2>2, SMTT(20)
    <3> QED BY <2>1, <3>1
  <2> HIDE DEF sq
  <2>4. ASSUME NEW i \in 1..k PROVE f[i] = IF i = 1 THEN sq[i] ELSE f[i - 1] \o sq[i]
    <3>1. i - 1 \in Nat /\ (i - 1) + 1 = i
      OBVIOUS
    <3>2. f[i] = f[i - 1] \o part(i)
      BY <1>5, <3>1
    <3>3. CASE i = 1
      <4>1. f[i - 1] = <<>>
        BY <1>5, <3>3
      <4>2. part(i) \in Seq(Bits)
        BY <1>1
      <4>3. <<>> \o part(i) = part(i)
        BY <4>2
      <4> QED BY <2>2, <3>2, <3>3, <4>1, <4>3
    <3>4. CASE i # 1
      BY <2>2, <3>2, <3>4
    <3> QED BY <3>3, <3>4
  <2>5. FlattenSeq(sq) = f[k]
    BY <2>1, <2>3, <2>4, FlattenIsLast
  <2> QED BY <2>5 DEF Emitted, sq
<1>9. ASSUME NEW k \in 0..n PROVE Emitted(in, codes0, k) = f[k]
  <2>1. k = 0 \/ k \in 1..n
    BY <1>6
  <2> QED BY <1>7, <1>8, <2>1
<1>10. ASSUME NEW k \in 0..n, k + 1 <= n
       PROVE  Emitted(in, codes0, k + 1) = Emitted(in, codes0, k) \o codes0[in[k + 1]]
  <2>1. k \in Nat /\ k + 1 \in 0..n /\ k + 1 \in 1..n
    BY <1>6, <1>10
  <2> QED BY <1>5, <1>9, <1>a, <2>1
<1>11. ASSUME NEW k \in 0..n PROVE Emitted(in, codes0, k) \in Seq(Bits)
  <2>1. k \in Nat
    BY <1>6
  <2> QED BY <1>5, <1>9, <2>1
<1> QED BY <1>5, <1>7, <1>10, <1>11 DEF n

\* A bit that was pushed is read at its place, which lies in the payload.
LEMMA PushedBit ==
    ASSUME NEW bits \in Seq(Bits), NEW payload,
           payload = [size |-> CeilDiv(Len(bits), 8),
                      ones |-> {<<p \div 8, 7 - (p % 8)>> :
                                   p \in {q \in 0..(Len(bits) - 1) : bits[q + 1] = 1}}],
           NEW p \in Nat, p < Len(bits)
    PROVE  BitAt(payload, p) = bits[p + 1] /\ p < payload.size * 8
<1> DEFINE n == Len(bits)
           At(q) == <<q \div 8, 7 - (q % 8)>>
           is1(q) == bits[q + 1] = 1
<1>1. n \in Nat /\ bits[p + 1] \in {0, 1}
  <2>1. n \in Nat /\ p + 1 \in DOMAIN bits
    BY SeqElement
  <2>2. \A i \in DOMAIN bits : bits[i] \in Bits
    BY SeqElement
  <2> QED BY <2>1, <2>2 DEF Bits
<1>2. payload.ones = {At(q) : q \in {q \in 0..(n - 1) : is1(q)}}
  OBVIOUS
<1>3. payload.size = (n + 8 - 1) \div 8
  BY DEF CeilDiv
<1> HIDE DEF n, is1
<1>4. p \in 0..(n - 1)
  BY <1>1 DEF n
<1>5. \A q \in 0..(n - 1) : At(q) = At(p) => q = p
  BY <1>1
<1>6. At(p) \in payload.ones <=> is1(p)
  <2> HIDE DEF At
  <2> QED BY <1>2, <1>4, <1>5, Zenon
<1>7. BitAt(payload, p) = bits[p + 1]
  BY <1>1, <1>6 DEF BitAt, is1
<1>8. p < payload.size * 8
  <2>1. n <= ((n + 8 - 1) \div 8) * 8
    BY <1>1
  <2>2. p < n
    BY DEF n
  <2> HIDE DEF At
  <2> QED BY <1>1, <1>3, <2>1, <2>2
<1> QED BY <1>7, <1>8

\* Every bit of a code is read where its symbol stands in the stream.
LEMMA CodeReadBack ==
    ASSUME NEW in \in Seq(0..255), NEW codes0, \A x \in ToSet(in) : codes0[x] \in Seq(Bits),
           NEW m \in Nat, m < Len(in), NEW i \in Nat, i < Len(codes0[in[m + 1]])
    PROVE  LET p == Len(Emitted(in, codes0, m)) + i
           IN  /\ BitAt(CodePayload(in, codes0), p) = codes0[in[m + 1]][i + 1]
               /\ p < CodePayload(in, codes0).size * 8 /\ p \in Nat
<1> DEFINE n == Len(in)
           E(k) == Emitted(in, codes0, k)
           c == codes0[in[m + 1]]
           p == Len(E(m)) + i
<1>1. n \in Nat /\ DOMAIN in = 1..n /\ \A k \in 1..n : in[k] \in ToSet(in)
  BY SeqElement DEF ToSet
<1>2. /\ \A k \in 0..n : E(k) \in Seq(Bits)
      /\ \A k \in 0..n : k + 1 <= n => E(k + 1) = E(k) \o codes0[in[k + 1]]
  <2>1. \A k \in 1..n : codes0[in[k]] \in Seq(Bits)
    BY <1>1
  <2> HIDE DEF E
  <2>2. Len(in) \in Nat /\ \A k \in 1..Len(in) : codes0[in[k]] \in Seq(Bits)
    BY <1>1, <2>1
  <2> QED BY <2>2, EmittedIs DEF E
<1>3. \A k \in 1..n : codes0[in[k]] \in Seq(Bits)
  BY <1>1
<1>4. m + 1 \in 0..n /\ m \in 0..n /\ m + 1 <= n /\ m + 1 \in 1..n
  BY <1>1
<1> HIDE DEF E, n
<1>5. c \in Seq(Bits) /\ E(m) \in Seq(Bits) /\ E(m + 1) \in Seq(Bits) /\ E(m + 1) = E(m) \o c
  BY <1>2, <1>3, <1>4
<1> HIDE DEF c
<1>6. p \in Nat /\ p < Len(E(m + 1)) /\ E(m + 1)[p + 1] = c[i + 1]
  <2> DEFINE a == E(m)
             b == E(m + 1)
  <2>1. a \in Seq(Bits) /\ c \in Seq(Bits) /\ b = a \o c /\ i < Len(c) /\ p = Len(a) + i
    BY <1>5 DEF c
  <2> HIDE DEF a, b, p
  <2>2. Len(b) = Len(a) + Len(c) /\ Len(a) \in Nat /\ Len(c) \in Nat
    BY <2>1
  <2>3. b[p + 1] = c[i + 1]
    BY <2>1, <2>2
  <2> QED BY <2>1, <2>2, <2>3 DEF b
<1> HIDE DEF p
<1> DEFINE Q == {d \in Nat : m + 1 + d <= n =>
                    p < Len(E(m + 1 + d)) /\ E(m + 1 + d)[p + 1] = c[i + 1]}
<1>7. 0 \in Q
  <2>1. m + 1 + 0 = m + 1
    OBVIOUS
  <2> QED BY <1>6, <2>1
<1>8. ASSUME NEW d \in Q PROVE d + 1 \in Q
  <2>1. d \in Nat
    OBVIOUS
  <2> DEFINE k == m + 1 + d
  <2>2. m + 1 + (d + 1) = k + 1 /\ k \in Nat
    BY <2>1
  <2> HIDE DEF k
  <2> SUFFICES ASSUME k + 1 <= n PROVE p < Len(E(k + 1)) /\ E(k + 1)[p + 1] = c[i + 1]
    BY <2>1, <2>2
  <2>3. k \in 0..n /\ k + 1 \in 1..n /\ k <= n
    BY <1>1, <2>2
  <2>4. p < Len(E(k)) /\ E(k)[p + 1] = c[i + 1]
    BY <2>3 DEF k
  <2> DEFINE a == E(k)
             b == codes0[in[k + 1]]
             e == E(k + 1)
  <2>5. a \in Seq(Bits) /\ b \in Seq(Bits) /\ e = a \o b /\ p < Len(a) /\ a[p + 1] = c[i + 1]
    BY <1>2, <1>3, <2>3, <2>4
  <2> HIDE DEF a, b, e
  <2>6. p < Len(e) /\ e[p + 1] = a[p + 1]
    BY <1>6, <2>5
  <2> QED BY <2>5, <2>6 DEF e
<1>9. Q \in SUBSET Nat
  OBVIOUS
<1> HIDE DEF Q
<1>10. n - (m + 1) \in Q
  <2>1. n - (m + 1) \in Nat
    BY <1>1, <1>4
  <2> QED BY <1>7, <1>8, <1>9, <2>1, NatSetInduction
<1>11. p < Len(E(n)) /\ E(n)[p + 1] = c[i + 1]
  <2>1. n - (m + 1) \in Nat /\ m + 1 + (n - (m + 1)) = n
    BY <1>1, <1>4
  <2> QED BY <1>1, <1>10, <2>1 DEF Q
<1> DEFINE bits == E(n)
           pl == CodePayload(in, codes0)
<1>12. /\ bits \in Seq(Bits)
       /\ pl = [size |-> CeilDiv(Len(bits), 8),
                ones |-> {<<q \div 8, 7 - (q % 8)>> : q \in {q \in 0..(Len(bits) - 1) : bits[q + 1] = 1}}]
  <2>1. n \in 0..n
    BY <1>1
  <2>2. bits = FlattenSeq([k \in DOMAIN in |-> codes0[in[k]]])
    BY <1>1, Zenon DEF E, Emitted
  <2>3. bits \in Seq(Bits)
    BY <1>2, <2>1
  <2> QED BY <2>2, <2>3, Zenon DEF CodePayload
<1> HIDE DEF bits, pl
<1>13. BitAt(pl, p) = bits[p + 1] /\ p < pl.size * 8
  BY <1>6, <1>11, <1>12, PushedBit DEF bits
<1> QED BY <1>6, <1>11, <1>13 DEF bits, pl, c, p, E

----------------------------------------------------------------------------
(* The invariant of the calls.                                             *)

\* What the call has computed from its input.
Computed ==
    /\ input \in Seq(0..255) /\ symbols = UniqueSymbols(input)
    /\ indices = IndexPayload(input, symbols, width)

\* The code stream, if there is one, is that of lengths that make a code.
Stream ==
    IF lengths = <<>> THEN coded = NoPayload
    ELSE LengthsOK(input, lengths) /\ coded = CodePayload(input, CanonicalCodes(symbols, lengths))

\* Nothing is decoded yet.
Undecoded == codes = <<>> /\ out = <<>> /\ pos = 0 /\ path = <<>>

\* What is decoded is the input up to there.
Decoded ==
    /\ out \in Seq(0..255) /\ Len(out) <= Len(input)
    /\ \A i \in 1..Len(out) : out[i] = input[i]

\* The path leads to the next symbol of the input.
OnTheWay ==
    /\ path \in Seq(Bits)
    /\ Len(out) = Len(input) => path = <<>>
    /\ Len(out) < Len(input) => /\ Len(path) <= Len(codes[input[Len(out) + 1]])
                                /\ \A i \in 1..Len(path) : path[i] = codes[input[Len(out) + 1]][i]

StreamsInv ==
    /\ stage \in {"idle", "merge", "coded", "index", "huffman", "done"}
    /\ tie \in Nat /\ tie <= 2 * Len(symbols) /\ (stage # "merge" => heap = {})
    /\ stage = "idle" => /\ input = <<>> /\ symbols = <<>> /\ indices = NoPayload /\ lengths = <<>>
                         /\ coded = NoPayload
    /\ stage # "idle" => Computed /\ Stream
    /\ stage \in {"idle", "merge", "coded"} => Undecoded
    /\ stage = "merge" => HeapOK(heap, tie, input) /\ lengths = <<>>
    /\ stage = "index" => Decoded /\ pos = Len(out) * width /\ codes = <<>> /\ path = <<>>
    /\ stage = "huffman" =>
           /\ lengths # <<>> /\ codes = CanonicalCodes(symbols, lengths)
           /\ Decoded /\ OnTheWay /\ pos = Len(Emitted(input, codes, Len(out))) + Len(path)
    /\ stage = "done" =>
           /\ out = input /\ pos \in Nat /\ path = <<>>
           /\ \A x \in DOMAIN codes : codes[x] \in Seq(Bits)

LEMMA IndexPayloadType ==
    ASSUME NEW in, Len(in) \in Nat, NEW s, NEW bits \in 1..8
    PROVE  IndexPayload(in, s, bits) \in Payloads
<1> DEFINE n == Len(in) * bits
           x == IndexPayload(in, s, bits)
           is1(q) == ((((CHOOSE k \in DOMAIN s : s[k] = in[q \div bits + 1]) - 1) \div Pow2[q % bits]) % 2) = 1
           S == {q \in 0..(n - 1) : is1(q)}
<1>1. n \in Nat
  OBVIOUS
<1>2. x = [size |-> (n + 8 - 1) \div 8, ones |-> {<<p \div 8, p % 8>> : p \in S}]
  BY DEF IndexPayload, CeilDiv
<1>3. S \in SUBSET Nat
  OBVIOUS
<1> HIDE DEF n, x, S
<1>4. (n + 8 - 1) \div 8 \in Nat
  BY <1>1
<1>5. \A p \in Nat : p \div 8 \in Nat /\ p % 8 \in 0..7
  OBVIOUS
<1>6. {<<p \div 8, p % 8>> : p \in S} \in SUBSET (Nat \X (0..7))
  BY <1>3, <1>5
<1>7. x \in Payloads
  BY <1>2, <1>4, <1>6 DEF Payloads
<1> QED BY <1>7 DEF x

LEMMA CodePayloadType ==
    ASSUME NEW in \in Seq(0..255), NEW codes0, \A x \in ToSet(in) : codes0[x] \in Seq(Bits)
    PROVE  CodePayload(in, codes0) \in Payloads
<1> DEFINE bits == Emitted(in, codes0, Len(in))
           n == Len(bits)
           x == CodePayload(in, codes0)
           S == {q \in 0..(n - 1) : bits[q + 1] = 1}
<1>1. n \in Nat
  <2>1. Len(in) \in Nat /\ DOMAIN in = 1..Len(in) /\ \A k \in 1..Len(in) : in[k] \in ToSet(in)
    BY SeqElement DEF ToSet
  <2>2. \A k \in 1..Len(in) : codes0[in[k]] \in Seq(Bits)
    BY <2>1
  <2>3. \A k \in 0..Len(in) : Emitted(in, codes0, k) \in Seq(Bits)
    BY <2>1, <2>2, EmittedIs
  <2>4. Len(in) \in 0..Len(in)
    BY <2>1
  <2>5. bits \in Seq(Bits)
    BY <2>3, <2>4
  <2> HIDE DEF bits
  <2> QED BY <2>5
<1>2. x = [size |-> (n + 8 - 1) \div 8, ones |-> {<<p \div 8, 7 - (p % 8)>> : p \in S}]
  <2>1. DOMAIN in = 1..Len(in)
    BY SeqElement
  <2>2. bits = FlattenSeq([k \in DOMAIN in |-> codes0[in[k]]])
    BY <2>1, Zenon DEF Emitted
  <2> HIDE DEF bits
  <2> QED BY <2>2, Zenon DEF CodePayload, CeilDiv
<1>3. S \in SUBSET Nat
  OBVIOUS
<1> HIDE DEF n, x, S
<1>4. (n + 8 - 1) \div 8 \in Nat
  BY <1>1
<1>5. \A p \in Nat : p \div 8 \in Nat /\ 7 - (p % 8) \in 0..7
  OBVIOUS
<1>6. {<<p \div 8, 7 - (p % 8)>> : p \in S} \in SUBSET (Nat \X (0..7))
  BY <1>3, <1>5
<1>7. x \in Payloads
  BY <1>2, <1>4, <1>6 DEF Payloads
<1> QED BY <1>7 DEF x

LEMMA StreamsInit == Init => StreamsInv
<1> SUFFICES ASSUME Init PROVE StreamsInv
  OBVIOUS
<1>1. Len(symbols) = 0
  BY DEF Init
<1> QED BY <1>1 DEF Init, StreamsInv, Undecoded

LEMMA BeginKeeps ==
    ASSUME StreamsInv, NEW in \in Inputs, Begin(in)
    PROVE  StreamsInv'
<1>1. in \in Seq(0..255)
  BY InputAssumption
<1>2. /\ stage = "idle" /\ stage' = "merge" /\ input' = in /\ symbols' = UniqueSymbols(in)
      /\ indices' = IndexPayload(in, UniqueSymbols(in), BitsNeeded(Len(UniqueSymbols(in))))
      /\ heap' = {Leaf(in, UniqueSymbols(in), k) : k \in DOMAIN UniqueSymbols(in)}
      /\ tie' = Len(UniqueSymbols(in))
      /\ UNCHANGED <<lengths, coded, codes, out, pos, path>>
  BY DEF Begin
<1>3. lengths = <<>> /\ coded = NoPayload /\ Undecoded
  BY <1>2 DEF StreamsInv
<1>4. HeapOK(heap', tie', input')
  BY <1>1, <1>2, LeavesAreAHeap
<1>5. Computed'
  BY <1>1, <1>2 DEF Computed, width
<1>6. Stream' /\ Undecoded' /\ lengths' = <<>>
  BY <1>2, <1>3 DEF Stream, Undecoded
<1>7. tie' \in Nat /\ tie' <= 2 * Len(symbols')
  <2> DEFINE n == Len(UniqueSymbols(in))
  <2>1. n \in 0..256
    BY <1>1, SymbolsAre
  <2>2. tie' = n /\ Len(symbols') = n
    BY <1>2, Zenon
  <2> HIDE DEF n
  <2>3. n \in Nat /\ n <= 2 * n
    BY <2>1
  <2> QED BY <2>2, <2>3
<1> QED BY <1>2, <1>4, <1>5, <1>6, <1>7 DEF StreamsInv

LEMMA MergeKeeps ==
    ASSUME StreamsInv, Merge
    PROVE  StreamsInv'
<1> DEFINE s == First(heap)
           t == First(heap \ {s})
           H == (heap \ {s, t}) \cup {Joined(s, t, tie)}
<1>1. /\ stage = "merge" /\ Cardinality(heap) > 1 /\ heap' = H /\ tie' = tie + 1
      /\ UNCHANGED <<stage, input, symbols, indices, lengths, coded, codes, out, pos, path>>
  BY DEF Merge
<1>2. HeapOK(heap, tie, input) /\ lengths = <<>> /\ Computed /\ Stream /\ Undecoded
  BY <1>1 DEF StreamsInv
<1>3. HeapOK(H, tie + 1, input)
  BY <1>1, <1>2, JoiningKeepsAHeap
<1> HIDE DEF H
<1>4. HeapOK(heap', tie', input')
  BY <1>1, <1>3
<1>5. Computed' /\ Stream' /\ Undecoded'
  BY <1>1, <1>2 DEF Computed, Stream, Undecoded, width
<1>6. tie' \in Nat /\ tie' <= 2 * Len(symbols')
  <2>1. IsFiniteSet(H) /\ tie + 1 \in Nat /\ Cardinality(H) + (tie + 1) = 2 * Len(UniqueSymbols(input))
    BY <1>3 DEF HeapOK
  <2>2. Cardinality(H) \in Nat
    BY <2>1, FS_CardinalityType
  <2>3. symbols' = UniqueSymbols(input) /\ symbols = UniqueSymbols(input)
    BY <1>1, <1>2 DEF Computed
  <2>4. Len(UniqueSymbols(input)) \in 0..256
    BY <1>2, SymbolsAre DEF Computed
  <2> DEFINE n == Len(UniqueSymbols(input))
             h == Cardinality(H)
  <2>5. n \in 0..256 /\ h \in Nat /\ tie + 1 \in Nat /\ h + (tie + 1) = 2 * n
    BY <2>1, <2>2, <2>4
  <2>6. tie' = tie + 1 /\ Len(symbols') = n
    BY <1>1, <2>3, Zenon
  <2> HIDE DEF n, h
  <2>7. tie + 1 \in Nat /\ tie + 1 <= 2 * n
    BY <2>5
  <2> QED BY <2>6, <2>7
<1> QED BY <1>1, <1>2, <1>4, <1>5, <1>6 DEF StreamsInv

LEMMA CodeKeeps ==
    ASSUME StreamsInv, Code
    PROVE  StreamsInv'
<1>1. /\ stage = "merge" /\ Cardinality(heap) <= 1 /\ stage' = "coded" /\ heap' = {}
      /\ UNCHANGED <<input, symbols, indices, tie, codes, out, pos, path>>
      /\ IF input # <<>> /\ \A k \in DOMAIN symbols : CodeLengths[k] <= MaxCodeBits
         THEN lengths' = CodeLengths
              /\ coded' = CodePayload(input, CanonicalCodes(symbols, CodeLengths))
         ELSE UNCHANGED <<lengths, coded>>
  BY DEF Code
<1>2. /\ HeapOK(heap, tie, input) /\ lengths = <<>> /\ Computed /\ Stream /\ Undecoded
      /\ tie \in Nat /\ tie <= 2 * Len(symbols)
  BY <1>1 DEF StreamsInv
<1>3. Computed' /\ Undecoded'
  BY <1>1, <1>2 DEF Computed, Undecoded, width
<1>4. CASE input # <<>> /\ \A k \in DOMAIN symbols : CodeLengths[k] <= MaxCodeBits
  <2> DEFINE lens == CodeLengths
             s == UniqueSymbols(input)
  <2>1. symbols = s /\ input \in Seq(0..255)
    BY <1>2 DEF Computed
  <2>2. lens = [k \in DOMAIN s |-> Max({1, First(heap).depth[s[k]]})]
    BY <2>1, Zenon DEF CodeLengths
  <2>3. \A k \in DOMAIN s : lens[k] <= MaxCodeBits
    BY <1>4, <2>1
  <2> HIDE DEF lens
  <2>4. LengthsOK(input, lens)
    BY <1>1, <1>2, <1>4, <2>1, <2>2, <2>3, RootGivesLengths
  <2>5. lengths' = lens /\ coded' = CodePayload(input, CanonicalCodes(symbols, lens))
    BY <1>1, <1>4 DEF lens
  <2>a. lens # <<>>
    <3>1. DOMAIN lens = 1..Len(s) /\ Len(s) >= 1 /\ Len(s) \in Nat
      <4>1. Len(s) \in 0..256
        BY <2>1, SymbolsAre
      <4> QED BY <2>4, <4>1 DEF LengthsOK
    <3>2. 1 \in DOMAIN lens
      BY <3>1
    <3> QED BY <3>2
  <2>b. input' = input /\ symbols' = symbols
    BY <1>1
  <2>6. Stream'
    BY <2>4, <2>5, <2>a, <2>b, Zenon DEF Stream
  <2> QED BY <1>1, <1>2, <1>3, <2>6 DEF StreamsInv
<1>5. CASE ~(input # <<>> /\ \A k \in DOMAIN symbols : CodeLengths[k] <= MaxCodeBits)
  <2>1. UNCHANGED <<lengths, coded>>
    BY <1>1, <1>5
  <2>2. Stream'
    BY <1>2, <2>1 DEF Stream
  <2> QED BY <1>1, <1>2, <1>3, <2>2 DEF StreamsInv
<1> QED BY <1>4, <1>5

\* The index stream is as long as the decoder wants it.
LEMMA ReadIndicesKeeps ==
    ASSUME StreamsInv, ReadIndices
    PROVE  StreamsInv'
<1>1. /\ stage = "coded"
      /\ stage' = IF indices.size * 8 < Len(input) * width THEN "failed" ELSE "index"
      /\ UNCHANGED <<input, symbols, indices, heap, tie, lengths, coded, codes, out, pos, path>>
  BY DEF ReadIndices
<1>2. Computed /\ Stream /\ Undecoded /\ heap = {} /\ tie \in Nat /\ tie <= 2 * Len(symbols)
  BY <1>1 DEF StreamsInv
<1>3. Len(input) \in Nat /\ width \in Nat
  <2>1. Len(symbols) \in 0..256 /\ input \in Seq(0..255)
    BY <1>2, SymbolsAre DEF Computed
  <2>2. BitsNeeded(Len(symbols)) \in 1..8
    BY <2>1, WidthIs
  <2> QED BY <2>1, <2>2 DEF width
<1>4. ~(indices.size * 8 < Len(input) * width)
  <2> DEFINE n == Len(input) * width
  <2>1. indices.size = (n + 8 - 1) \div 8
    BY <1>2 DEF Computed, IndexPayload, CeilDiv, width
  <2>2. n \in Nat
    BY <1>3
  <2> HIDE DEF n
  <2>3. n <= ((n + 8 - 1) \div 8) * 8 /\ ((n + 8 - 1) \div 8) * 8 \in Nat
    BY <2>2
  <2>4. ~(indices.size * 8 < n)
    BY <2>1, <2>2, <2>3
  <2> QED BY <2>4 DEF n
<1>5. stage' = "index"
  BY <1>1, <1>4
<1>6. Computed' /\ Stream'
  BY <1>1, <1>2 DEF Computed, Stream, width
<1>7. Decoded' /\ pos' = Len(out') * width' /\ codes' = <<>> /\ path' = <<>>
  <2>1. out' = <<>> /\ pos' = 0 /\ codes' = <<>> /\ path' = <<>> /\ input' = input /\ width' = width
    BY <1>1, <1>2 DEF Undecoded, width
  <2>2. Len(out') = 0
    BY <2>1
  <2> QED BY <1>3, <2>1, <2>2 DEF Decoded
<1> QED BY <1>1, <1>2, <1>5, <1>6, <1>7 DEF StreamsInv

LEMMA DecodeIndexKeeps ==
    ASSUME StreamsInv, DecodeIndex
    PROVE  StreamsInv'
<1> DEFINE k == IndexAt(indices, pos, width)
           m == Len(out)
<1>1. /\ stage = "index" /\ m < Len(input)
      /\ IF k < Len(symbols)
         THEN out' = Append(out, symbols[k + 1]) /\ pos' = pos + width /\ UNCHANGED stage
         ELSE stage' = "failed" /\ UNCHANGED <<out, pos>>
      /\ UNCHANGED <<input, symbols, indices, heap, tie, lengths, coded, codes, path>>
  BY DEF DecodeIndex
<1>2. /\ Computed /\ Stream /\ heap = {} /\ tie \in Nat /\ tie <= 2 * Len(symbols)
      /\ Decoded /\ pos = m * width /\ codes = <<>> /\ path = <<>>
  BY <1>1 DEF StreamsInv
<1>3. input \in Seq(0..255) /\ out \in Seq(0..255) /\ m \in Nat
  BY <1>2 DEF Computed, Decoded
<1>4. k < Len(symbols) /\ symbols[k + 1] = input[m + 1] /\ width \in 1..8
  <2>1. m < Len(input)
    BY <1>1
  <2>2. k = IndexAt(IndexPayload(input, symbols, width), m * width, width)
    BY <1>2 DEF Computed
  <2> HIDE DEF k, m
  <2>3. LET s == UniqueSymbols(input)
            bits == BitsNeeded(Len(s))
            i == IndexAt(IndexPayload(input, s, bits), m * bits, bits)
        IN  i < Len(s) /\ s[i + 1] = input[m + 1] /\ i \in Nat /\ bits \in 1..8
    BY <1>3, <2>1, IndexReadBack
  <2> QED BY <1>2, <2>2, <2>3 DEF Computed, width
<1> HIDE DEF k
<1>5. out' = Append(out, input[m + 1]) /\ pos' = pos + width /\ stage' = "index"
  BY <1>1, <1>4
<1>6. Computed' /\ Stream' /\ width' = width
  BY <1>1, <1>2 DEF Computed, Stream, width
<1>7. Decoded' /\ Len(out') = m + 1
  <2>1. input[m + 1] \in 0..255 /\ Len(input) \in Nat
    <3>1. m + 1 \in DOMAIN input
      BY <1>1, <1>3
    <3> QED BY <1>3, <3>1, SeqElement
  <2> DEFINE b == input[m + 1]
  <2> HIDE DEF b
  <2>2. out' \in Seq(0..255) /\ Len(out') = m + 1
    BY <1>3, <1>5, <2>1 DEF b
  <2>3. \A i \in 1..(m + 1) : out'[i] = IF i = m + 1 THEN b ELSE out[i]
    BY <1>3, <1>5 DEF b
  <2>4. \A i \in 1..(m + 1) : i = m + 1 \/ i \in 1..m
    BY <1>3
  <2>5. \A i \in 1..m : out[i] = input[i]
    BY <1>2 DEF Decoded
  <2>6. \A i \in 1..(m + 1) : out'[i] = input[i]
    BY <2>3, <2>4, <2>5 DEF b
  <2>7. m + 1 <= Len(input) /\ input' = input
    BY <1>1, <1>3, <2>1
  <2> QED BY <2>2, <2>6, <2>7 DEF Decoded
<1>8. pos' = Len(out') * width'
  <2>1. m * width + width = (m + 1) * width
    BY <1>3, <1>4
  <2> QED BY <1>2, <1>5, <1>6, <1>7, <2>1
<1> QED BY <1>1, <1>2, <1>5, <1>6, <1>7, <1>8 DEF StreamsInv

\* What the decoder of the codes knows: it has the codes of the encoder.
LEMMA InTheCodes ==
    ASSUME StreamsInv, stage = "huffman"
    PROVE  /\ Computed /\ Stream /\ heap = {} /\ tie \in Nat /\ tie <= 2 * Len(symbols)
           /\ lengths # <<>> /\ LengthsOK(input, lengths)
           /\ codes = CanonicalCodes(symbols, lengths) /\ coded = CodePayload(input, codes)
           /\ Decoded /\ OnTheWay /\ pos = Len(Emitted(input, codes, Len(out))) + Len(path)
           /\ input \in Seq(0..255) /\ Len(out) \in Nat /\ Len(input) \in Nat
           /\ DOMAIN codes = ToSet(input) /\ \A x \in ToSet(input) : codes[x] \in Seq(Bits)
           /\ \A x, y \in ToSet(input) : IsPrefix(codes[x], codes[y]) => x = y
           /\ \A i \in 1..Len(input) : input[i] \in ToSet(input) /\ input[i] \in 0..255
<1>1. /\ Computed /\ Stream /\ heap = {} /\ tie \in Nat /\ tie <= 2 * Len(symbols)
      /\ lengths # <<>> /\ codes = CanonicalCodes(symbols, lengths)
      /\ Decoded /\ OnTheWay /\ pos = Len(Emitted(input, codes, Len(out))) + Len(path)
  BY DEF StreamsInv
<1>2. LengthsOK(input, lengths) /\ coded = CodePayload(input, codes)
  BY <1>1 DEF Stream
<1>3. input \in Seq(0..255) /\ symbols = UniqueSymbols(input) /\ out \in Seq(0..255)
  BY <1>1 DEF Computed, Decoded
<1>4. /\ DOMAIN codes = ToSet(input) /\ \A x \in ToSet(input) : codes[x] \in Seq(Bits)
      /\ \A x, y \in ToSet(input) : IsPrefix(codes[x], codes[y]) => x = y
  <2>1. codes = CanonicalCodes(UniqueSymbols(input), lengths)
    BY <1>1, <1>3
  <2> QED BY <1>2, <1>3, <2>1, CanonicalCodesAre
<1>5. Len(out) \in Nat /\ Len(input) \in Nat
  BY <1>3
<1>6. \A i \in 1..Len(input) : input[i] \in ToSet(input) /\ input[i] \in 0..255
  <2>1. DOMAIN input = 1..Len(input) /\ \A i \in DOMAIN input : input[i] \in 0..255
    BY <1>3, SeqElement
  <2>2. \A i \in DOMAIN input : input[i] \in ToSet(input)
    BY DEF ToSet
  <2> QED BY <2>1, <2>2
<1> QED BY <1>1, <1>2, <1>3, <1>4, <1>5, <1>6

LEMMA ReadCodesKeeps ==
    ASSUME StreamsInv, ReadCodes
    PROVE  StreamsInv'
<1>1. /\ stage = "coded" /\ lengths # <<>> /\ codes' = CanonicalCodes(symbols, lengths)
      /\ stage' = IF /\ \A k \in DOMAIN lengths : lengths[k] \in 1..MaxCodeBits
                     /\ \A x, y \in DOMAIN codes' : codes'[x] = codes'[y] => x = y
                  THEN "huffman" ELSE "failed"
      /\ UNCHANGED <<input, symbols, indices, heap, tie, lengths, coded, out, pos, path>>
  BY DEF ReadCodes
<1>2. Computed /\ Stream /\ Undecoded /\ heap = {} /\ tie \in Nat /\ tie <= 2 * Len(symbols)
  BY <1>1 DEF StreamsInv
<1>3. input \in Seq(0..255) /\ symbols = UniqueSymbols(input) /\ LengthsOK(input, lengths)
  BY <1>1, <1>2 DEF Computed, Stream
<1> DEFINE c == CanonicalCodes(UniqueSymbols(input), lengths)
<1>4. c = codes'
  BY <1>1, <1>3
<1>5. /\ DOMAIN c = ToSet(input) /\ \A x \in ToSet(input) : c[x] \in Seq(Bits)
      /\ \A x, y \in ToSet(input) : IsPrefix(c[x], c[y]) => x = y
  BY <1>3, CanonicalCodesAre
<1> HIDE DEF c
<1>6. ASSUME NEW x \in DOMAIN c, NEW y \in DOMAIN c, c[x] = c[y] PROVE x = y
  <2> DEFINE a == c[x]
             b == c[y]
  <2>1. a \in Seq(Bits) /\ b \in Seq(Bits) /\ a = b
    BY <1>5, <1>6
  <2> HIDE DEF a, b
  <2>2. Len(a) <= Len(b) /\ \A i \in 1..Len(a) : a[i] = b[i]
    BY <2>1
  <2>3. IsPrefix(a, b)
    BY <2>1, <2>2, PrefixIs
  <2> QED BY <1>5, <2>3 DEF a, b
<1>7. \A k \in DOMAIN lengths : lengths[k] \in 1..MaxCodeBits
  BY <1>3 DEF LengthsOK
<1>8. stage' = "huffman"
  BY <1>1, <1>4, <1>6, <1>7
<1>9. Computed' /\ Stream' /\ lengths' # <<>> /\ codes' = CanonicalCodes(symbols', lengths')
  BY <1>1, <1>2 DEF Computed, Stream, width
<1>10. out' = <<>> /\ path' = <<>> /\ pos' = 0 /\ input' = input /\ heap' = {} /\ tie' = tie /\ symbols' = symbols
  BY <1>1, <1>2 DEF Undecoded
<1>11. Len(input) \in Nat /\ \A i \in 1..Len(input) : input[i] \in ToSet(input)
  BY <1>3, SeqElement DEF ToSet
<1>12. Decoded'
  BY <1>10, <1>11 DEF Decoded
<1>13. OnTheWay'
  <2>1. path' = <<>> /\ Len(path') = 0 /\ path' \in Seq(Bits)
    BY <1>10
  <2>2. Len(out') = 0
    BY <1>10
  <2>3. Len(out') < Len(input') => Len(codes'[input'[Len(out') + 1]]) \in Nat
    <3> SUFFICES ASSUME 0 < Len(input) PROVE Len(codes'[input[1]]) \in Nat
      BY <1>10, <2>2
    <3>1. input[1] \in ToSet(input)
      BY <1>11
    <3>2. codes'[input[1]] \in Seq(Bits)
      BY <1>4, <1>5, <3>1
    <3> QED BY <3>2
  <2> QED BY <2>1, <2>3 DEF OnTheWay
<1>14. pos' = Len(Emitted(input', codes', Len(out'))) + Len(path')
  <2>1. \A i \in 1..Len(input) : codes'[input[i]] \in Seq(Bits)
    BY <1>4, <1>5, <1>11
  <2> DEFINE d == codes'
  <2> HIDE DEF d
  <2>2. \A i \in 1..Len(input) : d[input[i]] \in Seq(Bits)
    BY <2>1 DEF d
  <2>3. Emitted(input, d, 0) = <<>>
    BY <1>11, <2>2, EmittedIs
  <2>4. Len(out') = 0 /\ Len(path') = 0
    BY <1>10
  <2>5. Emitted(input', codes', Len(out')) = <<>>
    BY <1>10, <2>3, <2>4, Zenon DEF d
  <2>6. Len(Emitted(input', codes', Len(out'))) = 0
    BY <2>5
  <2> QED BY <1>10, <2>4, <2>6
<1> QED BY <1>2, <1>8, <1>9, <1>10, <1>12, <1>13, <1>14 DEF StreamsInv

\* The path is a code: it is that of the next symbol.
LEMMA DecodeCodeKeeps ==
    ASSUME StreamsInv, DecodeCode
    PROVE  StreamsInv'
<1> DEFINE m == Len(out)
           b == input[m + 1]
           E(k) == Emitted(input, codes, k)
<1>1. /\ stage = "huffman" /\ m < Len(input) /\ path' = <<>>
      /\ UNCHANGED <<stage, input, symbols, indices, heap, tie, lengths, coded, codes, pos>>
  BY DEF DecodeCode
<1>2. PICK x \in DOMAIN codes : codes[x] = path /\ out' = Append(out, x)
  BY DEF DecodeCode
<1>3. /\ Computed /\ Stream /\ heap = {} /\ tie \in Nat /\ tie <= 2 * Len(symbols)
      /\ lengths # <<>> /\ codes = CanonicalCodes(symbols, lengths)
      /\ Decoded /\ OnTheWay /\ pos = Len(E(m)) + Len(path)
      /\ input \in Seq(0..255) /\ m \in Nat /\ Len(input) \in Nat
      /\ DOMAIN codes = ToSet(input) /\ \A y \in ToSet(input) : codes[y] \in Seq(Bits)
      /\ \A y, z \in ToSet(input) : IsPrefix(codes[y], codes[z]) => y = z
      /\ \A i \in 1..Len(input) : input[i] \in ToSet(input) /\ input[i] \in 0..255
  BY <1>1, InTheCodes
<1>4. m + 1 \in 1..Len(input) /\ m \in 0..Len(input) /\ m + 1 \in 0..Len(input) /\ m + 1 <= Len(input)
  BY <1>1, <1>3
<1>5. b \in ToSet(input) /\ b \in 0..255
  BY <1>3, <1>4
<1>6. x = b
  <2> DEFINE c == codes[b]
  <2>1. path \in Seq(Bits) /\ Len(path) <= Len(c) /\ \A i \in 1..Len(path) : path[i] = c[i]
    BY <1>1, <1>3 DEF OnTheWay
  <2>2. c \in Seq(Bits)
    BY <1>3, <1>5
  <2> HIDE DEF c
  <2>3. IsPrefix(path, c)
    BY <2>1, <2>2, PrefixIs
  <2>4. IsPrefix(codes[x], codes[b])
    BY <1>2, <2>3 DEF c
  <2> QED BY <1>2, <1>3, <1>5, <2>4
<1> HIDE DEF b
<1>7. Len(out') = m + 1 /\ out' \in Seq(0..255) /\ \A i \in 1..(m + 1) : out'[i] = IF i = m + 1 THEN b ELSE out[i]
  <2>1. out \in Seq(0..255)
    BY <1>3 DEF Decoded
  <2>2. out' = Append(out, b)
    BY <1>2, <1>6
  <2> QED BY <1>5, <2>1, <2>2
<1> HIDE DEF m, E
<1>8. Decoded'
  <2>1. \A i \in 1..m : out[i] = input[i]
    BY <1>3 DEF Decoded, m
  <2>2. \A i \in 1..(m + 1) : i = m + 1 \/ i \in 1..m
    BY <1>3
  <2>3. \A i \in 1..(m + 1) : out'[i] = input[i]
    BY <1>7, <2>1, <2>2 DEF b
  <2>4. input' = input
    BY <1>1
  <2> QED BY <1>4, <1>7, <2>3, <2>4 DEF Decoded
<1>9. OnTheWay'
  <2>1. path' = <<>> /\ Len(path') = 0 /\ path' \in Seq(Bits)
    BY <1>1
  <2>2. Len(out') < Len(input') => Len(codes'[input'[Len(out') + 1]]) \in Nat
    <3> SUFFICES ASSUME m + 1 < Len(input) PROVE Len(codes[input[(m + 1) + 1]]) \in Nat
      BY <1>1, <1>7
    <3>1. (m + 1) + 1 \in 1..Len(input)
      BY <1>3, <1>4
    <3>2. input[(m + 1) + 1] \in ToSet(input)
      BY <1>3, <3>1
    <3>3. codes[input[(m + 1) + 1]] \in Seq(Bits)
      BY <1>3, <3>2
    <3> QED BY <3>3
  <2> QED BY <2>1, <2>2 DEF OnTheWay
<1>10. pos' = Len(Emitted(input', codes', Len(out'))) + Len(path')
  <2>1. \A i \in 1..Len(input) : codes[input[i]] \in Seq(Bits)
    BY <1>3
  <2>2. /\ \A k \in 0..Len(input) : E(k) \in Seq(Bits)
        /\ \A k \in 0..Len(input) : k + 1 <= Len(input) => E(k + 1) = E(k) \o codes[input[k + 1]]
    BY <1>3, <2>1, EmittedIs DEF E
  <2>3. E(m + 1) = E(m) \o codes[input[m + 1]] /\ E(m) \in Seq(Bits)
    BY <1>4, <2>2
  <2>4. codes[input[m + 1]] = path /\ path \in Seq(Bits)
    BY <1>2, <1>3, <1>6 DEF b
  <2> DEFINE e == E(m)
             f == E(m + 1)
  <2>5. f = e \o path /\ e \in Seq(Bits)
    BY <2>3, <2>4
  <2> HIDE DEF e, f
  <2>6. Len(f) = Len(e) + Len(path)
    BY <2>4, <2>5
  <2>7. pos' = Len(f)
    BY <1>1, <1>3, <2>6 DEF e
  <2>8. f = Emitted(input', codes', Len(out'))
    BY <1>1, <1>7 DEF f, E
  <2>9. Len(path') = 0 /\ Len(f) \in Nat
    BY <1>1, <2>4, <2>5
  <2> QED BY <2>7, <2>8, <2>9
<1>11. Computed' /\ Stream' /\ lengths' # <<>> /\ codes' = CanonicalCodes(symbols', lengths')
  BY <1>1, <1>3 DEF Computed, Stream, width
<1> QED BY <1>1, <1>3, <1>8, <1>9, <1>10, <1>11 DEF StreamsInv

\* The path is no code: it goes on with the next bit of the code of the next symbol.
LEMMA DecodeBitKeeps ==
    ASSUME StreamsInv, DecodeBit
    PROVE  StreamsInv'
<1> DEFINE m == Len(out)
           c == codes[input[m + 1]]
           bit == BitAt(coded, pos)
           next == Append(path, bit)
<1>1. /\ stage = "huffman" /\ m < Len(input) /\ \A x \in DOMAIN codes : codes[x] # path
      /\ IF pos < coded.size * 8 /\ \E x \in DOMAIN codes : IsPrefix(next, codes[x])
         THEN path' = next /\ pos' = pos + 1 /\ UNCHANGED stage
         ELSE stage' = "failed" /\ UNCHANGED <<path, pos>>
      /\ UNCHANGED <<input, symbols, indices, heap, tie, lengths, coded, codes, out>>
  BY DEF DecodeBit
<1>2. /\ Computed /\ Stream /\ heap = {} /\ tie \in Nat /\ tie <= 2 * Len(symbols)
      /\ lengths # <<>> /\ codes = CanonicalCodes(symbols, lengths) /\ coded = CodePayload(input, codes)
      /\ Decoded /\ OnTheWay /\ pos = Len(Emitted(input, codes, m)) + Len(path)
      /\ input \in Seq(0..255) /\ m \in Nat /\ Len(input) \in Nat
      /\ DOMAIN codes = ToSet(input) /\ \A x \in ToSet(input) : codes[x] \in Seq(Bits)
      /\ \A i \in 1..Len(input) : input[i] \in ToSet(input)
  BY <1>1, InTheCodes
<1>3. m + 1 \in 1..Len(input) /\ input[m + 1] \in ToSet(input)
  <2>1. m + 1 \in 1..Len(input)
    BY <1>1, <1>2
  <2> QED BY <1>2, <2>1
<1>4. c \in Seq(Bits) /\ c # path
  BY <1>1, <1>2, <1>3
<1>5. path \in Seq(Bits) /\ Len(path) <= Len(c) /\ \A i \in 1..Len(path) : path[i] = c[i]
  BY <1>1, <1>2 DEF OnTheWay
<1>a. pos = Len(Emitted(input, codes, m)) + Len(path) /\ m < Len(input)
  BY <1>1, <1>2
<1> HIDE DEF m, c
<1>6. Len(path) \in Nat /\ Len(c) \in Nat /\ Len(path) < Len(c)
  <2>1. Len(path) = Len(c) => path = c
    BY <1>4, <1>5
  <2> QED BY <1>4, <1>5, <2>1
<1>7. bit = c[Len(path) + 1] /\ pos < coded.size * 8 /\ pos \in Nat
  <2> DEFINE i == Len(path)
  <2>1. i \in Nat /\ i < Len(codes[input[m + 1]]) /\ m \in Nat /\ m < Len(input)
    BY <1>2, <1>6, <1>a DEF c, m
  <2>2. \A x \in ToSet(input) : codes[x] \in Seq(Bits)
    BY <1>2
  <2>3. input \in Seq(0..255)
    BY <1>2
  <2> HIDE DEF i
  <2>4. LET p == Len(Emitted(input, codes, m)) + i
        IN  /\ BitAt(CodePayload(input, codes), p) = codes[input[m + 1]][i + 1]
            /\ p < CodePayload(input, codes).size * 8 /\ p \in Nat
    BY <2>1, <2>2, <2>3, CodeReadBack
  <2>5. pos = Len(Emitted(input, codes, m)) + i
    BY <1>a DEF i
  <2> QED BY <1>2, <2>4, <2>5 DEF c, i
<1>8. bit \in Bits
  <2>1. Len(path) + 1 \in 1..Len(c)
    BY <1>6
  <2> QED BY <1>4, <1>7, <2>1
<1> HIDE DEF bit
<1>9. /\ next \in Seq(Bits) /\ Len(next) = Len(path) + 1 /\ Len(next) <= Len(c)
      /\ \A i \in 1..Len(next) : next[i] = c[i]
  <2>1. next \in Seq(Bits) /\ Len(next) = Len(path) + 1
    BY <1>5, <1>8
  <2>2. Len(next) <= Len(c)
    BY <1>6, <2>1
  <2>3. \A i \in 1..(Len(path) + 1) : next[i] = IF i = Len(path) + 1 THEN bit ELSE path[i]
    BY <1>5, <1>8
  <2>4. \A i \in 1..(Len(path) + 1) : i = Len(path) + 1 \/ i \in 1..Len(path)
    BY <1>6
  <2> HIDE DEF next
  <2>5. \A i \in 1..Len(next) : next[i] = c[i]
    BY <1>5, <1>7, <2>1, <2>3, <2>4
  <2> QED BY <2>1, <2>2, <2>5
<1> HIDE DEF next
<1>10. IsPrefix(next, c)
  BY <1>4, <1>9, PrefixIs
<1>11. path' = next /\ pos' = pos + 1 /\ stage' = "huffman"
  <2>1. \E x \in DOMAIN codes : IsPrefix(next, codes[x])
    BY <1>2, <1>3, <1>10 DEF c
  <2> QED BY <1>1, <1>7, <2>1
<1>12. Computed' /\ Stream' /\ lengths' # <<>> /\ codes' = CanonicalCodes(symbols', lengths') /\ Decoded'
  BY <1>1, <1>2 DEF Computed, Stream, Decoded, width
<1>13. OnTheWay'
  <2>1. out' = out /\ input' = input /\ codes' = codes /\ Len(out) # Len(input)
    BY <1>1, <1>2, <1>a DEF m
  <2> QED BY <1>9, <1>11, <2>1 DEF OnTheWay, c, m
<1>14. pos' = Len(Emitted(input', codes', Len(out'))) + Len(path')
  <2> DEFINE e == Len(Emitted(input, codes, Len(out)))
  <2>1. e = Len(Emitted(input', codes', Len(out')))
    BY <1>1
  <2>2. e \in Nat
    <3>1. \A i \in 1..Len(input) : codes[input[i]] \in Seq(Bits)
      BY <1>2
    <3>2. \A k \in 0..Len(input) : Emitted(input, codes, k) \in Seq(Bits)
      BY <1>2, <3>1, EmittedIs
    <3>3. Len(out) \in 0..Len(input)
      BY <1>2, <1>a DEF m
    <3>4. Emitted(input, codes, Len(out)) \in Seq(Bits)
      BY <3>2, <3>3
    <3> QED BY <3>4
  <2>3. pos = e + Len(path)
    BY <1>a DEF m
  <2> HIDE DEF e
  <2>4. pos' = e + Len(path')
    BY <1>6, <1>9, <1>11, <2>2, <2>3
  <2> QED BY <2>1, <2>4
<1> QED BY <1>1, <1>2, <1>11, <1>12, <1>13, <1>14 DEF StreamsInv

LEMMA FinishKeeps ==
    ASSUME StreamsInv, Finish
    PROVE  StreamsInv'
<1>1. /\ stage \in {"index", "huffman"} /\ Len(out) = Len(input) /\ stage' = "done"
      /\ UNCHANGED <<input, symbols, indices, heap, tie, lengths, coded, codes, out, pos, path>>
  BY DEF Finish
<1>2. Computed /\ Stream /\ Decoded /\ heap = {} /\ tie \in Nat /\ tie <= 2 * Len(symbols)
  BY <1>1 DEF StreamsInv
<1>3. input \in Seq(0..255) /\ out \in Seq(0..255) /\ \A i \in 1..Len(out) : out[i] = input[i]
  BY <1>2 DEF Computed, Decoded
<1>4. out = input
  BY <1>1, <1>3
<1>5. Computed' /\ Stream'
  BY <1>1, <1>2 DEF Computed, Stream, width
<1>6. pos \in Nat /\ path = <<>> /\ \A x \in DOMAIN codes : codes[x] \in Seq(Bits)
  <2>1. CASE stage = "index"
    <3>1. pos = Len(out) * width /\ codes = <<>> /\ path = <<>>
      BY <2>1 DEF StreamsInv
    <3>2. Len(symbols) \in 0..256
      BY <1>2, <1>3, SymbolsAre DEF Computed
    <3>3. width \in Nat
      <4>1. BitsNeeded(Len(symbols)) \in 1..8
        BY <3>2, WidthIs
      <4> QED BY <4>1 DEF width
    <3>4. Len(out) \in Nat
      BY <1>3
    <3>5. Len(out) * width \in Nat
      BY <3>3, <3>4
    <3> QED BY <3>1, <3>5
  <2>2. CASE stage = "huffman"
    <3>1. /\ pos = Len(Emitted(input, codes, Len(out))) + Len(path) /\ OnTheWay
          /\ DOMAIN codes = ToSet(input) /\ \A x \in ToSet(input) : codes[x] \in Seq(Bits)
          /\ \A i \in 1..Len(input) : input[i] \in ToSet(input)
          /\ Len(input) \in Nat
      BY <2>2, InTheCodes
    <3>2. \A i \in 1..Len(input) : codes[input[i]] \in Seq(Bits)
      BY <3>1
    <3>3. \A k \in 0..Len(input) : Emitted(input, codes, k) \in Seq(Bits)
      BY <3>1, <3>2, EmittedIs
    <3>4. Len(out) \in 0..Len(input)
      BY <1>1, <3>1
    <3>5. Emitted(input, codes, Len(out)) \in Seq(Bits)
      BY <3>3, <3>4
    <3>6. path = <<>>
      BY <1>1, <3>1 DEF OnTheWay
    <3>7. Len(path) = 0
      BY <3>6
    <3>8. Len(Emitted(input, codes, Len(out))) \in Nat
      BY <3>5
    <3> QED BY <3>1, <3>6, <3>7, <3>8
  <2> QED BY <1>1, <2>1, <2>2
<1>7. /\ out' = input' /\ pos' \in Nat /\ path' = <<>>
      /\ \A x \in DOMAIN codes' : codes'[x] \in Seq(Bits)
  BY <1>1, <1>4, <1>6
<1> QED BY <1>1, <1>2, <1>5, <1>7 DEF StreamsInv

LEMMA StutterKeeps ==
    ASSUME StreamsInv, UNCHANGED vars
    PROVE  StreamsInv'
<1>1. /\ stage' = stage /\ input' = input /\ symbols' = symbols /\ indices' = indices /\ heap' = heap
      /\ tie' = tie /\ lengths' = lengths /\ coded' = coded /\ codes' = codes /\ out' = out
      /\ pos' = pos /\ path' = path
  BY DEF vars
<1> QED BY <1>1 DEF StreamsInv, Computed, Stream, Undecoded, Decoded, OnTheWay, width

\* Every state of a call is one of the invariant.
THEOREM StreamsInvariant == Spec => []StreamsInv
<1>1. Init => StreamsInv
  BY StreamsInit
<1>2. StreamsInv /\ [Next]_vars => StreamsInv'
  <2> SUFFICES ASSUME StreamsInv, [Next]_vars PROVE StreamsInv'
    OBVIOUS
  <2>1. CASE \E in \in Inputs : Begin(in)
    BY <2>1, BeginKeeps
  <2>2. CASE Merge
    BY <2>2, MergeKeeps
  <2>3. CASE Code
    BY <2>3, CodeKeeps
  <2>4. CASE ReadIndices
    BY <2>4, ReadIndicesKeeps
  <2>5. CASE DecodeIndex
    BY <2>5, DecodeIndexKeeps
  <2>6. CASE ReadCodes
    BY <2>6, ReadCodesKeeps
  <2>7. CASE DecodeCode
    BY <2>7, DecodeCodeKeeps
  <2>8. CASE DecodeBit
    BY <2>8, DecodeBitKeeps
  <2>9. CASE Finish
    BY <2>9, FinishKeeps
  <2>10. CASE UNCHANGED vars
    BY <2>10, StutterKeeps
  <2> QED BY <2>1, <2>2, <2>3, <2>4, <2>5, <2>6, <2>7, <2>8, <2>9, <2>10 DEF Next, Step
<1> QED BY <1>1, <1>2, PTL DEF Spec

----------------------------------------------------------------------------
(* The properties.                                                         *)

\* Every payload, every code and every decoded byte is of its type, and a tree of the
\* heap has a symbol of the input at every leaf (core.rs:391-404).
THEOREM TypesAreOK == Spec => []TypeOK
<1>1. StreamsInv => TypeOK
  <2> SUFFICES ASSUME StreamsInv PROVE TypeOK
    OBVIOUS
  <2>1. /\ stage \in {"idle", "merge", "coded", "index", "huffman", "done"}
        /\ tie \in Nat /\ tie <= 2 * Len(symbols)
    BY DEF StreamsInv
  <2>2. CASE stage = "idle"
    <3>1. /\ input = <<>> /\ symbols = <<>> /\ indices = NoPayload /\ lengths = <<>>
          /\ coded = NoPayload /\ heap = {} /\ codes = <<>> /\ out = <<>> /\ pos = 0 /\ path = <<>>
      BY <2>2 DEF StreamsInv, Undecoded
    <3>2. NoPayload \in Payloads
      BY DEF NoPayload, Payloads
    <3>3. Len(symbols) = 0 /\ tie \in 0..(2 * Len(symbols))
      BY <2>1, <3>1
    <3>4. lengths \in Seq(1..MaxCodeBits) /\ input \in Seq(0..255) /\ symbols \in Seq(0..255)
      BY <3>1
    <3>5. DOMAIN codes = {} /\ out \in Seq(0..255) /\ path \in Seq(Bits) /\ pos \in Nat
      BY <3>1
    <3> QED BY <2>2, <3>1, <3>2, <3>3, <3>4, <3>5 DEF TypeOK
  <2>3. CASE stage # "idle"
    <3>1. Computed /\ Stream
      BY <2>3 DEF StreamsInv
    <3>2. input \in Seq(0..255) /\ symbols = UniqueSymbols(input) /\ Len(input) \in Nat
      BY <3>1 DEF Computed
    <3>3. symbols \in Seq(0..255) /\ Len(symbols) \in 0..256 /\ ToSet(symbols) = ToSet(input)
      BY <3>2, SymbolsAre
    <3>4. width \in 1..8
      BY <3>3, WidthIs DEF width
    <3>5. indices \in Payloads
      BY <3>1, <3>2, <3>4, IndexPayloadType DEF Computed
    <3>6. coded \in Payloads /\ lengths \in Seq(1..MaxCodeBits)
      <4>1. CASE lengths = <<>>
        <5>1. coded = NoPayload
          BY <3>1, <4>1 DEF Stream
        <5>2. NoPayload \in Payloads
          BY DEF NoPayload, Payloads
        <5>3. lengths \in Seq(1..MaxCodeBits)
          BY <4>1
        <5> QED BY <5>1, <5>2, <5>3
      <4>2. CASE lengths # <<>>
        <5> DEFINE c == CanonicalCodes(UniqueSymbols(input), lengths)
        <5>1. LengthsOK(input, lengths) /\ coded = CodePayload(input, c)
          BY <3>1, <3>2, <4>2 DEF Stream
        <5>2. \A x \in ToSet(input) : c[x] \in Seq(Bits)
          BY <3>2, <5>1, CanonicalCodesAre
        <5> HIDE DEF c
        <5>3. coded \in Payloads
          BY <3>2, <5>1, <5>2, CodePayloadType
        <5>4. lengths \in [1..Len(symbols) -> 1..MaxCodeBits]
          BY <3>2, <5>1 DEF LengthsOK
        <5>5. Len(symbols) \in Nat
          BY <3>3
        <5>6. lengths \in Seq(1..MaxCodeBits)
          BY <5>4, <5>5, FromFunction
        <5> QED BY <5>3, <5>6
      <4> QED BY <4>1, <4>2
    <3>7. \A t \in heap : /\ t.freq \in Nat \ {0} /\ t.tie \in 0..(tie - 1)
                          /\ DOMAIN t.depth \subseteq ToSet(symbols)
      <4>1. CASE stage = "merge"
        <5>1. HeapOK(heap, tie, input)
          BY <4>1 DEF StreamsInv
        <5>2. ASSUME NEW t \in heap
              PROVE  /\ t.freq \in Nat \ {0} /\ t.tie \in 0..(tie - 1)
                     /\ DOMAIN t.depth \subseteq ToSet(symbols)
          <6>1. GoodTree(t) /\ t.tie < tie /\ DOMAIN t.depth \subseteq ToSet(input)
            BY <5>1 DEF HeapOK
          <6>2. t.freq \in Nat \ {0} /\ t.tie \in Nat
            BY <6>1 DEF GoodTree
          <6> QED BY <2>1, <3>3, <6>1, <6>2
        <5> QED BY <5>2
      <4>2. CASE stage # "merge"
        BY <4>2 DEF StreamsInv
      <4> QED BY <4>1, <4>2
    <3>8. tie \in 0..(2 * Len(symbols))
      BY <2>1, <3>3
    <3>9. /\ \A x \in DOMAIN codes : codes[x] \in Seq(Bits)
          /\ out \in Seq(0..255) /\ pos \in Nat /\ path \in Seq(Bits)
      <4>1. CASE stage \in {"merge", "coded"}
        <5>1. codes = <<>> /\ out = <<>> /\ pos = 0 /\ path = <<>>
          BY <4>1 DEF StreamsInv, Undecoded
        <5> QED BY <5>1
      <4>2. CASE stage = "index"
        <5>1. out \in Seq(0..255) /\ pos = Len(out) * width /\ codes = <<>> /\ path = <<>>
          BY <4>2 DEF StreamsInv, Decoded
        <5>2. Len(out) \in Nat /\ width \in Nat
          BY <3>4, <5>1
        <5>3. pos \in Nat
          BY <5>1, <5>2
        <5> QED BY <5>1, <5>3
      <4>3. CASE stage = "huffman"
        <5>1. /\ Decoded /\ OnTheWay /\ pos = Len(Emitted(input, codes, Len(out))) + Len(path)
              /\ DOMAIN codes = ToSet(input) /\ \A x \in ToSet(input) : codes[x] \in Seq(Bits)
              /\ \A i \in 1..Len(input) : input[i] \in ToSet(input)
              /\ Len(out) \in Nat
          BY <4>3, InTheCodes
        <5>2. \A i \in 1..Len(input) : codes[input[i]] \in Seq(Bits)
          BY <5>1
        <5>3. \A k \in 0..Len(input) : Emitted(input, codes, k) \in Seq(Bits)
          BY <3>2, <5>2, EmittedIs
        <5>4. Len(out) \in 0..Len(input)
          BY <3>2, <5>1 DEF Decoded
        <5>5. Emitted(input, codes, Len(out)) \in Seq(Bits)
          BY <5>3, <5>4
        <5>6. path \in Seq(Bits) /\ out \in Seq(0..255)
          BY <5>1 DEF OnTheWay, Decoded
        <5>7. Len(Emitted(input, codes, Len(out))) \in Nat /\ Len(path) \in Nat
          BY <5>5, <5>6
        <5> QED BY <5>1, <5>6, <5>7
      <4>4. CASE stage = "done"
        <5>1. /\ out = input /\ pos \in Nat /\ path = <<>>
              /\ \A x \in DOMAIN codes : codes[x] \in Seq(Bits)
          BY <4>4 DEF StreamsInv
        <5> QED BY <3>2, <5>1
      <4> QED BY <2>1, <2>3, <4>1, <4>2, <4>3, <4>4
    <3> QED BY <2>1, <3>2, <3>3, <3>5, <3>6, <3>7, <3>8, <3>9 DEF TypeOK
  <2> QED BY <2>2, <2>3
<1> QED BY <1>1, StreamsInvariant, PTL

\* Both decoders return the input of the encoder, and refuse nothing it wrote
\* (core.rs:1180-1282, 2396-2455).
THEOREM StreamsReadBack == Spec => []DecoderReturnsTheInput
<1>1. StreamsInv => DecoderReturnsTheInput
  <2> SUFFICES ASSUME StreamsInv PROVE DecoderReturnsTheInput
    OBVIOUS
  <2>1. stage \in {"idle", "merge", "coded", "index", "huffman", "done"}
    BY DEF StreamsInv
  <2>2. input \in Seq(0..255)
    <3>1. CASE stage = "idle"
      <4>1. input = <<>>
        BY <3>1 DEF StreamsInv
      <4> QED BY <4>1
    <3>2. CASE stage # "idle"
      BY <3>2 DEF StreamsInv, Computed
    <3> QED BY <3>1, <3>2
  <2>3. out \in Seq(0..255) /\ Len(out) <= Len(input) /\ \A i \in 1..Len(out) : out[i] = input[i]
    <3>1. CASE stage \in {"idle", "merge", "coded"}
      <4>1. out = <<>>
        BY <3>1 DEF StreamsInv, Undecoded
      <4> QED BY <2>2, <4>1
    <3>2. CASE stage \in {"index", "huffman"}
      BY <3>2 DEF StreamsInv, Decoded
    <3>3. CASE stage = "done"
      <4>1. out = input
        BY <3>3 DEF StreamsInv
      <4> QED BY <2>2, <4>1
    <3> QED BY <2>1, <3>1, <3>2, <3>3
  <2>4. IsPrefix(out, input)
    BY <2>2, <2>3, PrefixIs
  <2>5. stage = "done" => out = input
    BY DEF StreamsInv
  <2> QED BY <2>1, <2>4, <2>5 DEF DecoderReturnsTheInput
<1> QED BY <1>1, StreamsInvariant, PTL

\* Whatever the lengths the merging loop gave, the codes of build_canonical_codes leave
\* no bit string undecided (core.rs:1080-1137, 1210-1236).
THEOREM CodesAreComplete == Spec => []CodesFillTheTree
<1>1. StreamsInv => CodesFillTheTree
  <2> SUFFICES ASSUME StreamsInv, stage = "huffman", Cardinality(DOMAIN codes) > 1
               PROVE  \A s \in [1..MaxCodeBits -> Bits] :
                          \E x \in DOMAIN codes : \A y \in DOMAIN codes : IsPrefix(codes[y], s) <=> y = x
    BY DEF CodesFillTheTree
  <2>1. /\ Computed /\ LengthsOK(input, lengths) /\ codes = CanonicalCodes(symbols, lengths)
        /\ DOMAIN codes = ToSet(input) /\ input \in Seq(0..255)
    BY InTheCodes
  <2>2. symbols = UniqueSymbols(input)
    BY <2>1 DEF Computed
  <2>3. symbols \in Seq(0..255) /\ ToSet(symbols) = ToSet(input)
    BY <2>1, <2>2, SymbolsAre
  <2>4. Len(symbols) > 1
    <3> SUFFICES ASSUME Len(symbols) <= 1 PROVE FALSE
      BY <2>3
    <3>1. Len(symbols) >= 1
      BY <2>1, <2>2 DEF LengthsOK
    <3>2. DOMAIN symbols = {1}
      <4>1. DOMAIN symbols = 1..Len(symbols) /\ Len(symbols) \in Nat
        BY <2>3, SeqElement
      <4>2. Len(symbols) = 1
        BY <3>1, <4>1
      <4>3. 1..1 = {1}
        OBVIOUS
      <4> QED BY <4>1, <4>2, <4>3, Zenon
    <3>3. ToSet(symbols) = {symbols[1]}
      BY <3>2 DEF ToSet
    <3>4. Cardinality({symbols[1]}) = 1
      BY FS_Singleton
    <3> QED BY <2>1, <2>3, <3>3, <3>4
  <2>5. codes = CanonicalCodes(UniqueSymbols(input), lengths) /\ Len(UniqueSymbols(input)) > 1
    BY <2>1, <2>2, <2>4
  <2> QED BY <2>1, <2>5, CanonicalCodesAre
<1> QED BY <1>1, StreamsInvariant, PTL

----------------------------------------------------------------------------
(* The shortest code.  A heap can be had as cheaply as a code with the     *)
(* lengths L if the trees can be put at the depths L of a tree.            *)

KraftSum(H, L, m) == SumFunctionOnSet([u \in H |-> Pow2[m - L[u]]], H)
Total(H, w, c, L) == SumFunctionOnSet([u \in H |-> w[u] * L[u] + c[u]], H)
Weighed(H, w, c) == IsFiniteSet(H) /\ \A u \in H : w[u] \in Nat /\ c[u] \in Nat
Fits(H, L, m) == m \in Nat /\ L \in [H -> 0..m] /\ KraftSum(H, L, m) <= Pow2[m]

LEMMA SwapCosts ==
    ASSUME NEW v \in Nat, NEW w \in Nat, v <= w, NEW k \in Nat, NEW l \in Nat, k <= l
    PROVE  v * l + w * k <= v * k + w * l
<1> DEFINE d == w - v
           e == l - k
<1>1. d \in Nat /\ e \in Nat /\ w = v + d /\ l = k + e
  OBVIOUS
<1> HIDE DEF d, e
<1>2. /\ v * (k + e) = v * k + v * e /\ (v + d) * k = v * k + d * k
      /\ (v + d) * (k + e) = v * k + v * e + d * k + d * e
  BY <1>1
<1>3. v * e \in Nat /\ d * k \in Nat /\ d * e \in Nat /\ v * k \in Nat
  BY <1>1
<1> DEFINE x == v * e
           y == d * k
           z == d * e
           t == v * k
<1>4. t + x + (t + y) <= t + (t + x + y + z)
  <2>1. x \in Nat /\ y \in Nat /\ z \in Nat /\ t \in Nat
    BY <1>3
  <2> HIDE DEF x, y, z, t
  <2> QED BY <2>1
<1>5. v * l = t + x /\ w * k = t + y /\ w * l = t + x + y + z
  BY <1>1, <1>2, Zenon DEF x, y, z, t
<1> HIDE DEF x, y, z, t
<1>6. v * k = t
  BY DEF t
<1> QED BY <1>4, <1>5, <1>6, Zenon

\* Two of a sum, and the rest.
RestOf(f, H, a, b) == SumFunctionOnSet(f, H \ {a, b})
LEMMA SumSplits ==
    ASSUME NEW H, IsFiniteSet(H), NEW f, \A u \in H : f[u] \in Nat,
           NEW a \in H, NEW b \in H, a # b
    PROVE  /\ SumFunctionOnSet(f, H) = f[a] + f[b] + RestOf(f, H, a, b)
           /\ RestOf(f, H, a, b) \in Nat /\ f[a] \in Nat /\ f[b] \in Nat
<1>1. SumAdds(f, H)
  BY SumAddsUp
<1>2. H \in SUBSET H /\ H \ {a} \in SUBSET H /\ b \in H \ {a} /\ H \ {a, b} \in SUBSET H
      /\ (H \ {a}) \ {b} = H \ {a, b}
  OBVIOUS
<1>3. SumFunctionOnSet(f, H) = f[a] + SumFunctionOnSet(f, H \ {a})
  BY <1>1, <1>2 DEF SumAdds
<1>4. SumFunctionOnSet(f, H \ {a}) = f[b] + SumFunctionOnSet(f, (H \ {a}) \ {b})
  BY <1>1, <1>2 DEF SumAdds
<1>5. RestOf(f, H, a, b) \in Nat
  BY <1>1, <1>2 DEF SumAdds, RestOf
<1>6. SumFunctionOnSet(f, H \ {a}) = f[b] + RestOf(f, H, a, b)
  BY <1>2, <1>4, Zenon DEF RestOf
<1>7. f[a] \in Nat /\ f[b] \in Nat
  OBVIOUS
<1> DEFINE F == SumFunctionOnSet(f, H)
           G == SumFunctionOnSet(f, H \ {a})
           R == RestOf(f, H, a, b)
<1>8. F = f[a] + G /\ G = f[b] + R /\ R \in Nat
  BY <1>3, <1>5, <1>6
<1> HIDE DEF F, G, R
<1>9. F = f[a] + f[b] + R
  BY <1>7, <1>8
<1> QED BY <1>7, <1>8, <1>9 DEF F, R

LEMMA RestsAgree ==
    ASSUME NEW H, IsFiniteSet(H), NEW f, NEW g, \A u \in H : f[u] \in Nat /\ g[u] \in Nat, NEW a, NEW b,
           \A u \in H \ {a, b} : f[u] = g[u]
    PROVE  RestOf(f, H, a, b) = RestOf(g, H, a, b)
<1>1. IsFiniteSet(H \ {a, b}) /\ \A u \in H \ {a, b} : f[u] \in Nat /\ g[u] \in Nat
  BY FS_Subset
<1>2. SumLaws(f, g, H \ {a, b})
  BY <1>1, SumsCompare
<1> QED BY <1>2 DEF SumLaws, RestOf

\* That the rarer tree of two goes deeper costs no more.
LEMMA SwapKeeps ==
    ASSUME NEW H, NEW w, NEW c, Weighed(H, w, c), NEW m, NEW L, Fits(H, L, m),
           NEW a \in H, NEW b \in H, w[a] <= w[b], L[a] <= L[b]
    PROVE  LET K == [u \in H |-> IF u = a THEN L[b] ELSE IF u = b THEN L[a] ELSE L[u]]
           IN  Fits(H, K, m) /\ Total(H, w, c, K) <= Total(H, w, c, L)
<1> DEFINE K == [u \in H |-> IF u = a THEN L[b] ELSE IF u = b THEN L[a] ELSE L[u]]
           p == [u \in H |-> Pow2[m - L[u]]]
           q == [u \in H |-> Pow2[m - K[u]]]
           x == [u \in H |-> w[u] * L[u] + c[u]]
           y == [u \in H |-> w[u] * K[u] + c[u]]
<1>1. /\ IsFiniteSet(H) /\ m \in Nat /\ L \in [H -> 0..m] /\ K \in [H -> 0..m]
      /\ \A u \in H : w[u] \in Nat /\ c[u] \in Nat
  BY DEF Weighed, Fits
<1>2. CASE a = b
  <2>1. K = L
    BY <1>1, <1>2
  <2> HIDE DEF K
  <2>2. Total(H, w, c, L) <= Total(H, w, c, L)
    <3>1. \A u \in H : x[u] \in Nat
      BY <1>1
    <3>2. SumAdds(x, H)
      BY <1>1, <3>1, SumAddsUp
    <3>3. Total(H, w, c, L) \in Nat
      BY <3>2 DEF SumAdds, Total
    <3> QED BY <3>3
  <2> QED BY <2>1, <2>2 DEF K
<1>3. CASE a # b
  <2>1. K[a] = L[b] /\ K[b] = L[a] /\ \A u \in H \ {a, b} : K[u] = L[u]
    BY <1>3
  <2> HIDE DEF K
  <2>2. \A u \in H : p[u] \in Nat /\ q[u] \in Nat
    <3> SUFFICES ASSUME NEW u \in H PROVE p[u] \in Nat /\ q[u] \in Nat
      OBVIOUS
    <3>1. L[u] \in 0..m /\ K[u] \in 0..m
      BY <1>1
    <3>2. m - L[u] \in Nat /\ m - K[u] \in Nat
      BY <1>1, <3>1
    <3> QED BY <3>2, PowType
  <2>3. \A u \in H : x[u] \in Nat /\ y[u] \in Nat
    <3> SUFFICES ASSUME NEW u \in H PROVE x[u] \in Nat /\ y[u] \in Nat
      OBVIOUS
    <3>1. L[u] \in Nat /\ K[u] \in Nat
      BY <1>1
    <3> QED BY <1>1, <3>1
  <2>4. p[a] = q[b] /\ p[b] = q[a] /\ (\A u \in H \ {a, b} : p[u] = q[u])
    BY <2>1
  <2>5. x[a] = w[a] * L[a] + c[a] /\ x[b] = w[b] * L[b] + c[b]
        /\ y[a] = w[a] * L[b] + c[a] /\ y[b] = w[b] * L[a] + c[b]
        /\ \A u \in H \ {a, b} : x[u] = y[u]
    BY <2>1
  <2>6. KraftSum(H, K, m) = SumFunctionOnSet(q, H) /\ KraftSum(H, L, m) = SumFunctionOnSet(p, H)
        /\ Total(H, w, c, K) = SumFunctionOnSet(y, H) /\ Total(H, w, c, L) = SumFunctionOnSet(x, H)
    BY DEF KraftSum, Total
  <2> HIDE DEF p, q, x, y
  <2>7. /\ SumFunctionOnSet(p, H) = p[a] + p[b] + RestOf(p, H, a, b)
        /\ RestOf(p, H, a, b) \in Nat /\ p[a] \in Nat /\ p[b] \in Nat
    BY <1>1, <1>3, <2>2, SumSplits
  <2>8. /\ SumFunctionOnSet(q, H) = q[a] + q[b] + RestOf(q, H, a, b)
        /\ RestOf(q, H, a, b) \in Nat /\ q[a] \in Nat /\ q[b] \in Nat
    BY <1>1, <1>3, <2>2, SumSplits
  <2>9. /\ SumFunctionOnSet(x, H) = x[a] + x[b] + RestOf(x, H, a, b)
        /\ RestOf(x, H, a, b) \in Nat /\ x[a] \in Nat /\ x[b] \in Nat
    BY <1>1, <1>3, <2>3, SumSplits
  <2>10. /\ SumFunctionOnSet(y, H) = y[a] + y[b] + RestOf(y, H, a, b)
         /\ RestOf(y, H, a, b) \in Nat /\ y[a] \in Nat /\ y[b] \in Nat
    BY <1>1, <1>3, <2>3, SumSplits
  <2>11. RestOf(p, H, a, b) = RestOf(q, H, a, b)
    BY <1>1, <2>2, <2>4, RestsAgree
  <2>12. RestOf(x, H, a, b) = RestOf(y, H, a, b)
    BY <1>1, <2>3, <2>5, RestsAgree
  <2>13. KraftSum(H, K, m) = KraftSum(H, L, m)
    BY <2>4, <2>6, <2>7, <2>8, <2>11
  <2>14. y[a] + y[b] <= x[a] + x[b]
    <3>1. w[a] \in Nat /\ w[b] \in Nat /\ L[a] \in Nat /\ L[b] \in Nat /\ c[a] \in Nat /\ c[b] \in Nat
      BY <1>1
    <3>2. w[a] * L[b] + w[b] * L[a] <= w[a] * L[a] + w[b] * L[b]
      BY <3>1, SwapCosts
    <3> DEFINE i == w[a] * L[b]
               j == w[b] * L[a]
               k == w[a] * L[a]
               l == w[b] * L[b]
    <3>3. i \in Nat /\ j \in Nat /\ k \in Nat /\ l \in Nat /\ i + j <= k + l
      BY <3>1, <3>2
    <3>4. x[a] = k + c[a] /\ x[b] = l + c[b] /\ y[a] = i + c[a] /\ y[b] = j + c[b]
      BY <2>5
    <3> HIDE DEF i, j, k, l
    <3> QED BY <3>1, <3>3, <3>4
  <2>15. Total(H, w, c, K) <= Total(H, w, c, L)
    BY <2>6, <2>9, <2>10, <2>12, <2>14
  <2>16. Fits(H, K, m)
    BY <1>1, <2>13 DEF Fits
  <2> QED BY <2>15, <2>16 DEF K
<1> QED BY <1>2, <1>3

\* So the two rarest trees can be the deepest.
LEMMA RarestDeepest ==
    ASSUME NEW H, NEW w, NEW c, Weighed(H, w, c), NEW m, NEW L, Fits(H, L, m),
           NEW s \in H, NEW t \in H, s # t,
           \A u \in H : w[s] <= w[u], \A u \in H \ {s} : w[t] <= w[u]
    PROVE  \E K : /\ Fits(H, K, m) /\ Total(H, w, c, K) <= Total(H, w, c, L)
                  /\ K[t] <= K[s] /\ \A u \in H \ {s} : K[u] <= K[t]
<1> DEFINE Better(A, B) == Total(H, w, c, A) <= Total(H, w, c, B)
<1>0. ASSUME NEW A, Fits(H, A, m) PROVE Total(H, w, c, A) \in Nat
  <2> DEFINE x == [u \in H |-> w[u] * A[u] + c[u]]
  <2>1. \A u \in H : x[u] \in Nat
    BY <1>0 DEF Fits, Weighed
  <2>2. SumAdds(x, H)
    BY <2>1, SumAddsUp DEF Weighed
  <2> QED BY <2>2 DEF SumAdds, Total
<1>1. ASSUME NEW A, Fits(H, A, m), NEW G \in SUBSET H, G # {}
      PROVE  \E b \in G : \A u \in G : A[u] <= A[b]
  <2> DEFINE N == {m - A[u] : u \in G}
  <2>1. \A u \in G : A[u] \in 0..m
    BY <1>1 DEF Fits
  <2>2. N \in SUBSET Nat /\ N # {}
    BY <1>1, <2>1 DEF Fits
  <2>3. PICK n \in N : \A k \in N : n <= k
    <3> HIDE DEF N
    <3> QED BY <2>2, LeastNat
  <2>4. PICK b \in G : n = m - A[b]
    OBVIOUS
  <2>5. \A u \in G : m - A[b] <= m - A[u]
    BY <2>3, <2>4
  <2> QED BY <2>1, <2>5, <1>1 DEF Fits
<1>2. PICK b \in H : \A u \in H : L[u] <= L[b]
  BY <1>1
<1> DEFINE A == [u \in H |-> IF u = s THEN L[b] ELSE IF u = b THEN L[s] ELSE L[u]]
<1>3. Fits(H, A, m) /\ Total(H, w, c, A) <= Total(H, w, c, L)
  BY <1>2, SwapKeeps
<1>4. \A u \in H : A[u] <= A[s]
  BY <1>2 DEF Fits
<1> HIDE DEF A
<1>5. PICK d \in H \ {s} : \A u \in H \ {s} : A[u] <= A[d]
  BY <1>1, <1>3
<1> DEFINE B == [u \in H |-> IF u = t THEN A[d] ELSE IF u = d THEN A[t] ELSE A[u]]
<1>6. Fits(H, B, m) /\ Total(H, w, c, B) <= Total(H, w, c, A)
  BY <1>3, <1>5, SwapKeeps
<1>7. B[t] <= B[s] /\ \A u \in H \ {s} : B[u] <= B[t]
  <2>1. B[s] = A[s] /\ B[t] = A[d] /\ \A u \in H : B[u] = A[d] \/ B[u] = A[t] \/ B[u] = A[u]
    BY <1>5
  <2>2. \A u \in H \ {s} : B[u] = A[d] \/ B[u] = A[t] \/ B[u] = A[u]
    BY <2>1
  <2>3. A[d] <= A[d]
    BY <1>3, <1>5 DEF Fits
  <2> HIDE DEF B
  <2> QED BY <1>4, <1>5, <2>1, <2>2, <2>3
<1> HIDE DEF B
<1>8. Total(H, w, c, B) <= Total(H, w, c, L)
  BY <1>0, <1>3, <1>6
<1> QED BY <1>6, <1>7, <1>8

\* Two trees at the greatest depth are joined one level higher.
LEMMA JoinCosts ==
    ASSUME NEW v \in Nat, NEW w \in Nat, NEW k \in Nat, NEW l \in Nat, l <= k, l >= 1,
           NEW b \in Nat, NEW c \in Nat
    PROVE  (v + w) * (l - 1) + (b + c + (v + w)) <= v * k + b + (w * l + c)
<1> DEFINE e == k - l
<1>1. e \in Nat /\ k = l + e /\ (v + w) * (l - 1) = v * l + w * l - (v + w) /\ v * (l + e) = v * l + v * e
  OBVIOUS
<1> DEFINE x == v * l
           y == w * l
           z == v * e
<1>2. x \in Nat /\ y \in Nat /\ z \in Nat
  BY <1>1
<1>3. (v + w) * (l - 1) = x + y - (v + w) /\ v * k = x + z /\ w * l = y
  BY <1>1
<1> DEFINE q == (v + w) * (l - 1)
           r == v * k
<1>4. q = x + y - (v + w) /\ r = x + z
  BY <1>3
<1> HIDE DEF x, y, z, q, r
<1>5. q + (b + c + (v + w)) <= r + b + (y + c)
  BY <1>2, <1>4
<1> QED BY <1>5 DEF q, r, y

LEMMA JoinFits ==
    ASSUME NEW p \in Nat \ {0}, NEW d \in Nat \ {0}, NEW q \in Nat, NEW r \in Nat \ {0},
           r + (p + q * p) <= d * p
    PROVE  2 * p + q * p <= d * p
<1>1. q * p \in Nat /\ d * p \in Nat /\ (q + 1) * p = q * p + p /\ (q + 2) * p = q * p + 2 * p
  OBVIOUS
<1>2. q + 2 <= d
  <2> SUFFICES ASSUME d <= q + 1 PROVE FALSE
    OBVIOUS
  <2>1. d * p <= (q + 1) * p
    <3> DEFINE e == (q + 1) - d
    <3>1. e \in Nat /\ q + 1 = d + e
      OBVIOUS
    <3> HIDE DEF e
    <3>2. (d + e) * p = d * p + e * p /\ e * p \in Nat
      BY <3>1
    <3> QED BY <1>1, <3>1, <3>2
  <2> DEFINE x == q * p
             y == d * p
  <2>2. x \in Nat /\ y \in Nat /\ y <= x + p /\ r + (p + x) <= y
    BY <1>1, <2>1
  <2> HIDE DEF x, y
  <2> QED BY <2>2
<1>3. (q + 2) * p <= d * p
  <2> DEFINE e == d - (q + 2)
  <2>1. e \in Nat /\ d = (q + 2) + e
    BY <1>2
  <2> HIDE DEF e
  <2>2. ((q + 2) + e) * p = (q + 2) * p + e * p /\ e * p \in Nat /\ (q + 2) * p \in Nat
    BY <2>1
  <2> QED BY <2>1, <2>2
<1> DEFINE x == q * p
           y == d * p
           z == (q + 2) * p
<1>4. x \in Nat /\ y \in Nat /\ z = x + 2 * p /\ z <= y
  BY <1>1, <1>3
<1> HIDE DEF x, y, z
<1>5. 2 * p + x <= y
  BY <1>4
<1> QED BY <1>5 DEF x, y

LEMMA DeepestJoin ==
    ASSUME NEW H, NEW w, NEW c, Weighed(H, w, c), NEW m, NEW L, Fits(H, L, m),
           NEW s \in H, NEW t \in H, s # t, L[t] <= L[s], \A u \in H \ {s} : L[u] <= L[t],
           NEW j, j \notin H \ {s, t}, NEW v, NEW d,
           v[j] = w[s] + w[t], d[j] = c[s] + c[t] + (w[s] + w[t]),
           \A u \in H \ {s, t} : v[u] = w[u] /\ d[u] = c[u]
    PROVE  \E K : /\ Fits((H \ {s, t}) \cup {j}, K, m)
                  /\ Total((H \ {s, t}) \cup {j}, v, d, K) <= Total(H, w, c, L)
<1> DEFINE R == H \ {s, t}
           T == R \cup {j}
           K == [u \in T |-> IF u = j THEN L[t] - 1 ELSE L[u]]
           p == [u \in H |-> Pow2[m - L[u]]]
           q == [u \in T |-> Pow2[m - K[u]]]
           x == [u \in H |-> w[u] * L[u] + c[u]]
           y == [u \in T |-> v[u] * K[u] + d[u]]
           P == Pow2[m - L[t]]
<1>1. /\ IsFiniteSet(H) /\ m \in Nat /\ L \in [H -> 0..m] /\ KraftSum(H, L, m) <= Pow2[m]
      /\ \A u \in H : w[u] \in Nat /\ c[u] \in Nat
  BY DEF Weighed, Fits
<1>2. IsFiniteSet(R) /\ IsFiniteSet(T)
  BY <1>1, FS_Subset, FS_AddElement
<1>3. \A u \in H : L[u] \in Nat /\ L[u] <= m /\ m - L[u] \in Nat
  BY <1>1
<1>4. \A u \in H : p[u] = Pow2[m - L[u]] /\ p[u] \in Nat \ {0} /\ p[u] \in Nat
  BY <1>3, PowType
<1>5. P \in Nat \ {0} /\ P = p[t]
  BY <1>4
<1>6. /\ SumFunctionOnSet(p, H) = p[s] + p[t] + RestOf(p, H, s, t)
      /\ RestOf(p, H, s, t) \in Nat
  BY <1>1, <1>4, SumSplits
<1>7. KraftSum(H, L, m) = SumFunctionOnSet(p, H) /\ Pow2[m] \in Nat
  BY <1>1, PowType DEF KraftSum
<1> HIDE DEF p
<1>8. L[t] >= 1
  <2> SUFFICES ASSUME L[t] = 0 PROVE FALSE
    BY <1>3
  <2>1. p[t] = Pow2[m]
    BY <1>1, <1>4
  <2> QED BY <1>1, <1>4, <1>6, <1>7, <2>1
<1>9. PICK k \in Nat : RestOf(p, H, s, t) = k * P
  <2>1. ASSUME NEW u \in R PROVE \E e \in Nat : p[u] = e * P
    <3>1. L[u] <= L[t] /\ u \in H
      OBVIOUS
    <3> DEFINE a == m - L[t]
               b == L[t] - L[u]
    <3>a. m \in Nat /\ L[t] \in Nat /\ L[u] \in Nat /\ L[t] <= m
      BY <1>1, <1>3, <3>1
    <3>2. a \in Nat /\ b \in Nat /\ m - L[u] = b + a
      BY <3>1, <3>a
    <3>3. p[u] = Pow2[b + a] /\ P = Pow2[a]
      BY <1>4, <3>1, <3>2
    <3> HIDE DEF a, b
    <3>4. Pow2[b + a] = Pow2[b] * Pow2[a] /\ Pow2[b] \in Nat
      BY <3>2, PowSum, PowType
    <3> QED BY <3>3, <3>4
  <2> HIDE DEF P, R
  <2>a. P \in Nat /\ IsFiniteSet(R) /\ \A u \in R : \E e \in Nat : p[u] = e * P
    BY <1>2, <1>5, <2>1
  <2>2. \E k \in Nat : SumFunctionOnSet(p, R) = k * P
    BY <2>a, SumOfMultiples, ZenonT(20)
  <2> QED BY <2>2 DEF R, RestOf
<1>10. 2 * P + k * P <= Pow2[m]
  <2> DEFINE D == Pow2[L[t]]
             a == m - L[t]
             b == L[t]
  <2>1. a \in Nat /\ b \in Nat /\ m = b + a
    BY <1>1, <1>3
  <2>2. Pow2[b + a] = Pow2[b] * Pow2[a] /\ Pow2[b] \in Nat \ {0}
    <3> HIDE DEF a, b
    <3> QED BY <2>1, PowSum, PowType
  <2>3. Pow2[m] = D * P /\ D \in Nat \ {0}
    BY <2>1, <2>2
  <2>4. p[s] \in Nat \ {0} /\ p[s] + (P + k * P) <= Pow2[m]
    <3> DEFINE e == k * P
    <3>1. e \in Nat
      BY <1>5
    <3>2. RestOf(p, H, s, t) = e
      BY <1>9
    <3> HIDE DEF e, P
    <3>3. p[s] + (P + e) <= Pow2[m]
      BY <1>1, <1>4, <1>5, <1>6, <1>7, <3>1, <3>2
    <3> QED BY <1>4, <3>3 DEF e
  <2> HIDE DEF D, P
  <2>5. p[s] + (P + k * P) <= D * P
    BY <2>3, <2>4
  <2>6. 2 * P + k * P <= D * P
    BY <1>5, <2>3, <2>4, <2>5, JoinFits
  <2> QED BY <2>3, <2>6
<1>11. K \in [T -> 0..m] /\ K[j] = L[t] - 1 /\ \A u \in R : K[u] = L[u] /\ u # j
  <2>1. L[t] - 1 \in 0..m
    BY <1>1, <1>3, <1>8
  <2> QED BY <1>1, <2>1
<1> HIDE DEF K
<1>12. q[j] = 2 * P /\ (\A u \in R : q[u] = p[u]) /\ \A u \in T : q[u] \in Nat
  <2>a. m \in Nat /\ L[t] \in Nat /\ m - L[t] \in Nat
    BY <1>1, <1>3
  <2>1. m - K[j] = (m - L[t]) + 1
    BY <1>11, <2>a
  <2>2. Pow2[m - K[j]] = 2 * P
    BY <2>1, <2>a, PowType
  <2>3. q[j] = 2 * P /\ \A u \in R : q[u] = p[u]
    BY <1>4, <1>11, <2>2
  <2>4. 2 * P \in Nat
    <3> HIDE DEF P
    <3> QED BY <1>5
  <2>5. \A u \in T : u = j \/ u \in R
    OBVIOUS
  <2>6. \A u \in R : p[u] \in Nat
    BY <1>4
  <2> HIDE DEF P, q, R, T
  <2> QED BY <2>3, <2>4, <2>5, <2>6
<1>13. y[j] = (w[s] + w[t]) * (L[t] - 1) + (c[s] + c[t] + (w[s] + w[t])) /\ \A u \in R : y[u] = x[u]
  BY <1>11
<1>14. (\A u \in H : x[u] \in Nat) /\ (\A u \in T : y[u] \in Nat)
  <2>1. \A u \in H : x[u] \in Nat
    BY <1>1, <1>3
  <2>2. y[j] \in Nat
    <3>1. L[t] - 1 \in Nat /\ w[s] + w[t] \in Nat /\ c[s] + c[t] \in Nat
      BY <1>1, <1>3, <1>8
    <3> QED BY <1>13, <3>1
  <2> QED BY <1>13, <2>1, <2>2
<1>15. x[s] = w[s] * L[s] + c[s] /\ x[t] = w[t] * L[t] + c[t]
  OBVIOUS
<1>16. KraftSum(T, K, m) = SumFunctionOnSet(q, T) /\ Total(T, v, d, K) = SumFunctionOnSet(y, T)
       /\ Total(H, w, c, L) = SumFunctionOnSet(x, H)
  BY DEF KraftSum, Total
<1> HIDE DEF P, q, x, y
<1>17. /\ SumFunctionOnSet(x, H) = x[s] + x[t] + RestOf(x, H, s, t)
       /\ RestOf(x, H, s, t) \in Nat /\ x[s] \in Nat /\ x[t] \in Nat
  BY <1>1, <1>14, SumSplits
<1>18. T \ {j} = R /\ j \in T /\ T \in SUBSET T
  OBVIOUS
<1>19. SumFunctionOnSet(q, T) = q[j] + SumFunctionOnSet(q, R)
       /\ SumFunctionOnSet(y, T) = y[j] + SumFunctionOnSet(y, R)
  <2> HIDE DEF T, R
  <2>1. SumAdds(q, T) /\ SumAdds(y, T)
    BY <1>2, <1>12, <1>14, SumAddsUp
  <2> QED BY <1>18, <2>1 DEF SumAdds
<1>20. SumFunctionOnSet(q, R) = RestOf(p, H, s, t) /\ SumFunctionOnSet(y, R) = RestOf(x, H, s, t)
  <2>1. \A u \in R : q[u] \in Nat /\ p[u] \in Nat /\ x[u] \in Nat /\ y[u] \in Nat
    BY <1>4, <1>12, <1>14
  <2> HIDE DEF R
  <2>2. SumLaws(q, p, R) /\ SumLaws(y, x, R)
    BY <1>2, <2>1, SumsCompare
  <2>3. SumFunctionOnSet(q, R) = SumFunctionOnSet(p, R) /\ SumFunctionOnSet(y, R) = SumFunctionOnSet(x, R)
    BY <1>12, <1>13, <2>2 DEF SumLaws
  <2> QED BY <2>3 DEF R, RestOf
<1>21. KraftSum(T, K, m) <= Pow2[m]
  <2>1. KraftSum(T, K, m) = 2 * P + k * P
    BY <1>9, <1>12, <1>16, <1>19, <1>20, Zenon
  <2> QED BY <1>10, <2>1, Zenon
<1>22. y[j] <= x[s] + x[t]
  <2>1. w[s] \in Nat /\ w[t] \in Nat /\ L[s] \in Nat /\ L[t] \in Nat /\ c[s] \in Nat /\ c[t] \in Nat
    BY <1>1, <1>3
  <2>2. (w[s] + w[t]) * (L[t] - 1) + (c[s] + c[t] + (w[s] + w[t])) <= w[s] * L[s] + c[s] + (w[t] * L[t] + c[t])
    BY <1>8, <2>1, JoinCosts
  <2> QED BY <1>13, <1>15, <2>2, Zenon
<1>23. Total(T, v, d, K) <= Total(H, w, c, L)
  <2>1. j \in T
    OBVIOUS
  <2>2. y[j] \in Nat
    BY <1>14, <2>1
  <2> DEFINE r == RestOf(x, H, s, t)
  <2>3. Total(T, v, d, K) = y[j] + r /\ Total(H, w, c, L) = x[s] + x[t] + r /\ r \in Nat
    BY <1>16, <1>17, <1>19, <1>20
  <2> HIDE DEF r
  <2> QED BY <1>17, <1>22, <2>2, <2>3
<1>24. Fits(T, K, m)
  BY <1>1, <1>11, <1>21 DEF Fits
<1> QED BY <1>23, <1>24

\* The frequencies of the symbols of a tree, and what their codes cost below its root.
TreeWeight(t, in) == SumFunctionOnSet([x \in DOMAIN t.depth |-> Frequency(in, x)], DOMAIN t.depth)
TreeCost(t, in) ==
    SumFunctionOnSet([x \in DOMAIN t.depth |-> Frequency(in, x) * t.depth[x]], DOMAIN t.depth)
Freqs(H) == [u \in H |-> u.freq]
Costs(H, in) == [u \in H |-> TreeCost(u, in)]
Cheap(H, in, C) ==
    \E L : /\ Fits(H, L, Len(UniqueSymbols(in)))
           /\ Total(H, Freqs(H), Costs(H, in), L) <= C

LEMMA SymbolsAreFinite ==
    ASSUME NEW in \in Seq(0..255)
    PROVE  IsFiniteSet(ToSet(in)) /\ \A x \in ToSet(in) : Frequency(in, x) \in Nat \ {0}
<1> DEFINE s == UniqueSymbols(in)
           g == [k \in 1..Len(s) |-> s[k]]
<1>1. /\ s \in Seq(0..255) /\ Len(s) \in 0..256 /\ ToSet(s) = ToSet(in)
      /\ \A i, j \in DOMAIN s : s[i] = s[j] => i = j
  BY SymbolsAre
<1> HIDE DEF s
<1>2. DOMAIN s = 1..Len(s)
  BY <1>1, SeqElement
<1>3. IsFiniteSet(1..Len(s))
  <2>1. 1 \in Int /\ Len(s) \in Int
    BY <1>1
  <2> QED BY <2>1, FS_Interval
<1>4. /\ \A k \in 1..Len(s) : g[k] \in ToSet(in)
      /\ \A x \in ToSet(in) : \E k \in 1..Len(s) : g[k] = x
  <2>1. ToSet(in) = {s[k] : k \in 1..Len(s)}
    BY <1>1, <1>2, Zenon DEF ToSet
  <2> QED BY <2>1
<1>5. \A i, j \in 1..Len(s) : g[i] = g[j] => i = j
  BY <1>1, <1>2
<1> HIDE DEF g
<1>6. IsFiniteSet(ToSet(in))
  BY <1>3, <1>4, <1>5, SameCount
<1> QED BY <1>6, FrequencyIs

\* What the codes of the symbols of a tree cost.
LEMMA TreeCostIs ==
    ASSUME NEW in \in Seq(0..255), NEW t, GoodDepth(t.depth), DOMAIN t.depth \subseteq ToSet(in)
    PROVE  TreeCost(t, in) \in Nat /\ TreeWeight(t, in) \in Nat
<1> DEFINE D == DOMAIN t.depth
           f == [x \in D |-> Frequency(in, x)]
           h == [x \in D |-> Frequency(in, x) * t.depth[x]]
<1>1. IsFiniteSet(D) /\ \A x \in D : Frequency(in, x) \in Nat /\ t.depth[x] \in Nat
  BY SymbolsAreFinite, FS_Subset DEF GoodDepth
<1>2. \A x \in D : f[x] \in Nat /\ h[x] \in Nat
  BY <1>1
<1> HIDE DEF D, f, h
<1>3. SumAdds(f, D) /\ SumAdds(h, D)
  BY <1>1, <1>2, SumAddsUp
<1> QED BY <1>3 DEF SumAdds, TreeCost, TreeWeight, D, f, h

LEMMA JoinedCosts ==
    ASSUME NEW in \in Seq(0..255), NEW s, NEW t, NEW n,
           GoodDepth(s.depth), DOMAIN s.depth \subseteq ToSet(in),
           GoodDepth(t.depth), DOMAIN t.depth \subseteq ToSet(in),
           DOMAIN s.depth \cap DOMAIN t.depth = {}
    PROVE  LET j == Joined(s, t, n)
           IN  /\ TreeWeight(j, in) = TreeWeight(s, in) + TreeWeight(t, in)
               /\ TreeCost(j, in) = TreeCost(s, in) + TreeCost(t, in) + (TreeWeight(s, in) + TreeWeight(t, in))
<1> DEFINE j == Joined(s, t, n)
           D == DOMAIN s.depth
           E == DOMAIN t.depth
           X == DOMAIN j.depth
           f == [x \in X |-> Frequency(in, x)]
           g == [x \in X |-> Frequency(in, x) * j.depth[x]]
           h == [x \in X |-> Frequency(in, x) * (j.depth[x] - 1)]
           fs == [x \in D |-> Frequency(in, x)]
           hs == [x \in D |-> Frequency(in, x) * s.depth[x]]
           ft == [x \in E |-> Frequency(in, x)]
           ht == [x \in E |-> Frequency(in, x) * t.depth[x]]
<1>1. /\ IsFiniteSet(D) /\ IsFiniteSet(E) /\ \A x \in D \cup E : Frequency(in, x) \in Nat
      /\ (\A x \in D : s.depth[x] \in Nat) /\ \A x \in E : t.depth[x] \in Nat
  BY SymbolsAreFinite, FS_Subset DEF GoodDepth
<1>2. /\ X = D \cup E /\ (\A x \in D : j.depth[x] = 1 + s.depth[x])
      /\ \A x \in E : j.depth[x] = 1 + t.depth[x]
  BY DEF Joined
<1>3. IsFiniteSet(X) /\ D \cap E = {}
  <2>1. D \cap E = {}
    OBVIOUS
  <2> HIDE DEF X, D, E
  <2>2. IsFiniteSet(D \cup E)
    BY <1>1, FS_Union
  <2> QED BY <1>2, <2>1, <2>2
<1>4. /\ TreeWeight(j, in) = SumFunctionOnSet(f, X) /\ TreeCost(j, in) = SumFunctionOnSet(g, X)
      /\ TreeWeight(s, in) = SumFunctionOnSet(fs, D) /\ TreeCost(s, in) = SumFunctionOnSet(hs, D)
      /\ TreeWeight(t, in) = SumFunctionOnSet(ft, E) /\ TreeCost(t, in) = SumFunctionOnSet(ht, E)
  BY DEF TreeWeight, TreeCost
<1> HIDE DEF j, X
<1>5. /\ \A x \in D : f[x] = fs[x] /\ h[x] = hs[x] /\ fs[x] \in Nat /\ hs[x] \in Nat
      /\ \A x \in E : f[x] = ft[x] /\ h[x] = ht[x] /\ ft[x] \in Nat /\ ht[x] \in Nat
  <2>1. ASSUME NEW x \in D
        PROVE  f[x] = fs[x] /\ h[x] = hs[x] /\ fs[x] \in Nat /\ hs[x] \in Nat
    <3>1. x \in X /\ j.depth[x] - 1 = s.depth[x] /\ s.depth[x] \in Nat /\ Frequency(in, x) \in Nat
      BY <1>1, <1>2
    <3>2. f[x] = Frequency(in, x) /\ fs[x] = Frequency(in, x)
          /\ h[x] = Frequency(in, x) * (j.depth[x] - 1) /\ hs[x] = Frequency(in, x) * s.depth[x]
      BY <3>1
    <3>3. Frequency(in, x) * s.depth[x] \in Nat
      BY <3>1
    <3> HIDE DEF f, h, fs, hs
    <3> QED BY <3>1, <3>2, <3>3, Zenon
  <2>2. ASSUME NEW x \in E
        PROVE  f[x] = ft[x] /\ h[x] = ht[x] /\ ft[x] \in Nat /\ ht[x] \in Nat
    <3>1. x \in X /\ j.depth[x] - 1 = t.depth[x] /\ t.depth[x] \in Nat /\ Frequency(in, x) \in Nat
      BY <1>1, <1>2
    <3>2. f[x] = Frequency(in, x) /\ ft[x] = Frequency(in, x)
          /\ h[x] = Frequency(in, x) * (j.depth[x] - 1) /\ ht[x] = Frequency(in, x) * t.depth[x]
      BY <3>1
    <3>3. Frequency(in, x) * t.depth[x] \in Nat
      BY <3>1
    <3> HIDE DEF f, h, ft, ht
    <3> QED BY <3>1, <3>2, <3>3, Zenon
  <2> QED BY <2>1, <2>2
<1>6. \A x \in X : g[x] = h[x] + f[x]
  <2> SUFFICES ASSUME NEW x \in X PROVE g[x] = h[x] + f[x]
    OBVIOUS
  <2>1. Frequency(in, x) \in Nat /\ j.depth[x] \in Nat
    BY <1>1, <1>2
  <2>2. Frequency(in, x) * j.depth[x] = Frequency(in, x) * (j.depth[x] - 1) + Frequency(in, x)
    BY <2>1
  <2> QED BY <2>2
<1> HIDE DEF f, g, h, fs, hs, ft, ht, D, E
<1>7. \A x \in D \cup E : f[x] \in Nat /\ h[x] \in Nat
  BY <1>5
<1>8. /\ SumFunctionOnSet(f, D \cup E) = SumFunctionOnSet(f, D) + SumFunctionOnSet(f, E)
      /\ SumFunctionOnSet(h, D \cup E) = SumFunctionOnSet(h, D) + SumFunctionOnSet(h, E)
  BY <1>1, <1>3, <1>7, SumOfTwo
<1>9. /\ SumFunctionOnSet(f, D) = SumFunctionOnSet(fs, D) /\ SumFunctionOnSet(h, D) = SumFunctionOnSet(hs, D)
      /\ SumFunctionOnSet(f, E) = SumFunctionOnSet(ft, E) /\ SumFunctionOnSet(h, E) = SumFunctionOnSet(ht, E)
  <2>1. SumLaws(f, fs, D) /\ SumLaws(h, hs, D) /\ SumLaws(f, ft, E) /\ SumLaws(h, ht, E)
    BY <1>1, <1>5, SumsCompare
  <2> QED BY <1>5, <2>1 DEF SumLaws
<1>10. SumFunctionOnSet(g, X) = SumFunctionOnSet(h, X) + SumFunctionOnSet(f, X)
  <2>1. SumLaws(h, f, X)
    BY <1>2, <1>3, <1>7, SumsCompare
  <2> QED BY <1>6, <2>1 DEF SumLaws
<1>11. TreeWeight(s, in) \in Nat /\ TreeWeight(t, in) \in Nat /\ TreeCost(s, in) \in Nat /\ TreeCost(t, in) \in Nat
  BY TreeCostIs
<1> DEFINE a == TreeWeight(s, in)
           b == TreeWeight(t, in)
           c == TreeCost(s, in)
           d == TreeCost(t, in)
<1>12. TreeWeight(j, in) = a + b /\ TreeCost(j, in) = (c + d) + (a + b)
  BY <1>2, <1>4, <1>8, <1>9, <1>10, Zenon
<1> QED BY <1>12 DEF j

\* The leaves, at the lengths of any prefix code, cost what it costs.
CostIn(in, len) ==
    SumFunctionOnSet([k \in 1..Len(UniqueSymbols(in)) |-> Frequency(in, UniqueSymbols(in)[k]) * len[k]],
                     1..Len(UniqueSymbols(in)))
LengthsIn(in) ==
    LET m == Len(UniqueSymbols(in))
    IN {len \in [1..m -> 1..Max({1, m - 1})] :
           SumFunctionOnSet([k \in 1..m |-> Pow2[m - len[k]]], 1..m) <= Pow2[m]}

LEMMA TotalIs ==
    ASSUME NEW H, NEW w, NEW c, Weighed(H, w, c), NEW m, NEW L, Fits(H, L, m)
    PROVE  Total(H, w, c, L) \in Nat
<1> DEFINE x == [u \in H |-> w[u] * L[u] + c[u]]
<1>1. \A u \in H : x[u] \in Nat
  BY DEF Fits, Weighed
<1>2. SumAdds(x, H)
  BY <1>1, SumAddsUp DEF Weighed
<1> QED BY <1>2 DEF SumAdds, Total

LEMMA CostType ==
    ASSUME NEW in \in Seq(0..255), NEW len \in LengthsIn(in)
    PROVE  CostIn(in, len) \in Nat
<1> DEFINE s == UniqueSymbols(in)
           I == 1..Len(s)
           cost == [k \in I |-> Frequency(in, s[k]) * len[k]]
<1>1. s \in Seq(0..255) /\ Len(s) \in 0..256 /\ ToSet(s) = ToSet(in)
  BY SymbolsAre
<1>2. DOMAIN s = I /\ len \in [I -> 1..Max({1, Len(s) - 1})]
  BY <1>1, SeqElement DEF LengthsIn
<1>3. IsFiniteSet(I)
  <2>1. 1 \in Int /\ Len(s) \in Int
    BY <1>1
  <2> QED BY <2>1, FS_Interval
<1>4. \A k \in I : cost[k] \in Nat
  <2> SUFFICES ASSUME NEW k \in I PROVE cost[k] \in Nat
    OBVIOUS
  <2>1. s[k] \in ToSet(in)
    BY <1>1, <1>2 DEF ToSet
  <2>2. Frequency(in, s[k]) \in Nat
    BY <2>1, SymbolsAreFinite
  <2>3. len[k] \in Nat
    BY <1>2
  <2>4. Frequency(in, s[k]) * len[k] \in Nat
    BY <2>2, <2>3
  <2> QED BY <2>4
<1> HIDE DEF cost, I
<1>5. SumAdds(cost, I)
  BY <1>3, <1>4, SumAddsUp
<1> QED BY <1>5 DEF SumAdds, CostIn, cost, I, s

HeapCheap(H, in) ==
    /\ \A u \in H : u.freq = TreeWeight(u, in)
    /\ \A len \in LengthsIn(in) : Cheap(H, in, CostIn(in, len))

LEMMA LeafCosts ==
    ASSUME NEW in \in Seq(0..255), NEW k \in DOMAIN UniqueSymbols(in)
    PROVE  LET t == Leaf(in, UniqueSymbols(in), k)
           IN  /\ t.freq = Frequency(in, UniqueSymbols(in)[k]) /\ t.freq \in Nat /\ t.tie = k - 1
               /\ TreeWeight(t, in) = t.freq /\ TreeCost(t, in) = 0
<1> DEFINE x == UniqueSymbols(in)[k]
           t == Leaf(in, UniqueSymbols(in), k)
           f == [y \in {x} |-> Frequency(in, y)]
           h == [y \in {x} |-> Frequency(in, y) * t.depth[y]]
<1>1. t.freq = Frequency(in, x) /\ t.depth = [y \in {x} |-> 0] /\ t.tie = k - 1
  BY DEF Leaf
<1>2. Frequency(in, x) \in Nat
  <2>1. x \in ToSet(in)
    <3>1. ToSet(UniqueSymbols(in)) = ToSet(in)
      BY SymbolsAre
    <3> QED BY <3>1 DEF ToSet
  <2> QED BY <2>1, SymbolsAreFinite
<1> HIDE DEF x, t
<1>3. DOMAIN t.depth = {x} /\ t.depth[x] = 0
  BY <1>1
<1>4. TreeWeight(t, in) = SumFunctionOnSet(f, {x}) /\ TreeCost(t, in) = SumFunctionOnSet(h, {x})
  BY <1>3, Zenon DEF TreeWeight, TreeCost
<1>5. f[x] = Frequency(in, x) /\ h[x] = 0
  BY <1>2, <1>3
<1>6. (\A y \in {x} : f[y] \in Nat) /\ \A y \in {x} : h[y] \in Nat
  BY <1>2, <1>5
<1> HIDE DEF f, h
<1>7. SumAdds(f, {x}) /\ SumAdds(h, {x})
  <2> DEFINE S == {x}
  <2>1. IsFiniteSet(S)
    BY FS_Singleton
  <2>2. (\A y \in S : f[y] \in Nat) /\ \A y \in S : h[y] \in Nat
    BY <1>6
  <2> HIDE DEF S
  <2>3. SumAdds(f, S) /\ SumAdds(h, S)
    BY <2>1, <2>2, SumAddsUp
  <2> QED BY <2>3 DEF S
<1>8. SumFunctionOnSet(f, {x}) = f[x] + 0 /\ SumFunctionOnSet(h, {x}) = h[x] + 0
  <2>1. {x} \in SUBSET {x} /\ x \in {x} /\ {x} \ {x} = {}
    OBVIOUS
  <2> QED BY <1>7, <2>1 DEF SumAdds
<1>9. Frequency(in, x) + 0 = Frequency(in, x) /\ 0 + 0 = 0
  BY <1>2
<1> QED BY <1>1, <1>2, <1>4, <1>5, <1>8, <1>9 DEF x, t

LEMMA LeavesAreCheap ==
    ASSUME NEW in \in Seq(0..255)
    PROVE  HeapCheap({Leaf(in, UniqueSymbols(in), k) : k \in DOMAIN UniqueSymbols(in)}, in)
<1> DEFINE s == UniqueSymbols(in)
           m == Len(s)
           I == 1..m
           H == {Leaf(in, s, k) : k \in DOMAIN s}
           g == [k \in I |-> Leaf(in, s, k)]
<1>1. s \in Seq(0..255) /\ m \in Nat
  BY SymbolsAre
<1>2. DOMAIN s = I
  BY <1>1, SeqElement
<1>3. \A k \in I : /\ g[k].freq = Frequency(in, s[k]) /\ g[k].freq \in Nat /\ g[k].tie = k - 1
                   /\ TreeWeight(g[k], in) = g[k].freq /\ TreeCost(g[k], in) = 0
  BY <1>2, LeafCosts
<1>4. (\A k \in I : g[k] \in H) /\ (\A u \in H : \E k \in I : g[k] = u)
  BY <1>2
<1> HIDE DEF g, H
<1>5. \A i, j \in I : g[i] = g[j] => i = j
  <2> SUFFICES ASSUME NEW i \in I, NEW j \in I, g[i] = g[j] PROVE i = j
    OBVIOUS
  <2>1. i - 1 = j - 1
    BY <1>3
  <2> QED BY <1>1, <2>1
<1>6. IsFiniteSet(I)
  <2>1. 1 \in Int /\ m \in Int
    BY <1>1
  <2> QED BY <2>1, FS_Interval
<1>7. \A u \in H : u.freq = TreeWeight(u, in)
  BY <1>3, <1>4
<1>8. ASSUME NEW len \in LengthsIn(in) PROVE Cheap(H, in, CostIn(in, len))
  <2> DEFINE L == [u \in H |-> len[u.tie + 1]]
             kraft == [k \in I |-> Pow2[m - len[k]]]
             cost == [k \in I |-> Frequency(in, s[k]) * len[k]]
             p == [u \in H |-> Pow2[m - L[u]]]
             c == [u \in H |-> Freqs(H)[u] * L[u] + Costs(H, in)[u]]
  <2>1. len \in [I -> 1..Max({1, m - 1})] /\ SumFunctionOnSet(kraft, I) <= Pow2[m]
    BY DEF LengthsIn
  <2>2. \A k \in I : len[k] \in 0..m /\ len[k] \in Nat /\ m - len[k] \in Nat
    <3> SUFFICES ASSUME NEW k \in I PROVE len[k] \in 0..m /\ len[k] \in Nat /\ m - len[k] \in Nat
      OBVIOUS
    <3>1. m >= 1 /\ m - 1 \in Nat
      BY <1>1
    <3>2. Max({1, m - 1}) = IF m - 1 >= 1 THEN m - 1 ELSE 1
      <4> DEFINE d == m - 1
      <4>1. d \in Nat
        BY <3>1
      <4> HIDE DEF d
      <4>2. Max({1, d}) = IF d >= 1 THEN d ELSE 1
        BY <4>1, MaxOfOneAnd
      <4> QED BY <4>2 DEF d
    <3>3. len[k] \in 1..Max({1, m - 1})
      BY <2>1
    <3> QED BY <1>1, <3>1, <3>2, <3>3
  <2>3. \A k \in I : L[g[k]] = len[k]
    <3> SUFFICES ASSUME NEW k \in I PROVE L[g[k]] = len[k]
      OBVIOUS
    <3>1. (k - 1) + 1 = k
      BY <1>1
    <3>2. g[k] \in H /\ g[k].tie = k - 1
      BY <1>3, <1>4
    <3> QED BY <3>1, <3>2
  <2>4. L \in [H -> 0..m]
    <3>2. L = [u \in H |-> L[u]]
      OBVIOUS
    <3> HIDE DEF L, m, I
    <3>1. \A u \in H : L[u] \in 0..m
      BY <1>4, <2>2, <2>3, Zenon
    <3> QED BY <3>1, <3>2
  <2> HIDE DEF L
  <2>5. \A k \in I : kraft[k] = p[g[k]] /\ cost[k] = c[g[k]]
    <3> SUFFICES ASSUME NEW k \in I PROVE kraft[k] = p[g[k]] /\ cost[k] = c[g[k]]
      OBVIOUS
    <3>1. g[k] \in H /\ L[g[k]] = len[k] /\ g[k].freq = Frequency(in, s[k]) /\ TreeCost(g[k], in) = 0
          /\ g[k].freq \in Nat
      BY <1>3, <1>4, <2>3
    <3>2. kraft[k] = p[g[k]]
      BY <3>1
    <3>3. c[g[k]] = g[k].freq * L[g[k]] + TreeCost(g[k], in)
      BY <3>1 DEF Freqs, Costs
    <3>4. Frequency(in, s[k]) * len[k] + 0 = Frequency(in, s[k]) * len[k]
      BY <2>2, <3>1
    <3>5. cost[k] = Frequency(in, s[k]) * len[k]
      OBVIOUS
    <3> HIDE DEF cost, c
    <3> QED BY <3>1, <3>2, <3>3, <3>4, <3>5
  <2>6. KraftSum(H, L, m) = SumFunctionOnSet(p, H)
        /\ Total(H, Freqs(H), Costs(H, in), L) = SumFunctionOnSet(c, H)
    BY DEF KraftSum, Total
  <2>7. (\A k \in I : kraft[k] \in Nat) /\ \A k \in I : cost[k] \in Nat
    <3>1. \A k \in I : Pow2[m - len[k]] \in Nat
      BY <2>2, PowType
    <3>2. \A k \in I : Frequency(in, s[k]) \in Nat /\ len[k] \in Nat
      BY <1>3, <2>2
    <3>3. \A k \in I : Frequency(in, s[k]) * len[k] \in Nat
      BY <3>2
    <3> QED BY <3>1, <3>3
  <2>8. CostIn(in, len) = SumFunctionOnSet(cost, I)
    BY DEF CostIn
  <2> HIDE DEF kraft, cost, p, c, I
  <2>9. (\A u \in H : p[u] \in Nat) /\ \A u \in H : c[u] \in Nat
    BY <1>4, <2>5, <2>7
  <2>b. Numbered(I, H, g)
    BY <1>4, <1>5, <1>6, Zenon DEF Numbered
  <2>a. (\A k \in I : kraft[k] = p[g[k]]) /\ \A k \in I : cost[k] = c[g[k]]
    BY <2>5
  <2>10. SumFunctionOnSet(p, H) = SumFunctionOnSet(kraft, I)
    BY <2>a, <2>b, <2>9, SumOfNumbered
  <2>11. SumFunctionOnSet(c, H) = SumFunctionOnSet(cost, I)
    BY <2>a, <2>b, <2>9, SumOfNumbered
  <2>12. Fits(H, L, m)
    BY <1>1, <2>1, <2>4, <2>6, <2>10 DEF Fits
  <2>13. Total(H, Freqs(H), Costs(H, in), L) = CostIn(in, len)
    BY <2>6, <2>8, <2>11
  <2>14. Total(H, Freqs(H), Costs(H, in), L) <= CostIn(in, len)
    <3>1. SumAdds(cost, I)
      BY <1>6, <2>7, SumAddsUp DEF I
    <3>2. CostIn(in, len) \in Nat
      BY <2>8, <3>1 DEF SumAdds
    <3> QED BY <2>13, <3>2
  <2> QED BY <2>12, <2>14, Zenon DEF Cheap
<1> QED BY <1>7, <1>8 DEF HeapCheap, H

\* Joining the two rarest trees of a heap costs no prefix code anything.
LEMMA JoiningIsCheap ==
    ASSUME NEW H, NEW n, NEW in \in Seq(0..255), HeapOK(H, n, in), HeapCheap(H, in), Cardinality(H) > 1
    PROVE  LET s == First(H)
               t == First(H \ {s})
           IN  HeapCheap((H \ {s, t}) \cup {Joined(s, t, n)}, in)
<1> DEFINE s == First(H)
           t == First(H \ {s})
           J == Joined(s, t, n)
           R == H \ {s, t}
           T == R \cup {J}
           m == Len(UniqueSymbols(in))
<1>1. IsFiniteSet(H) /\ Cardinality(H) \in Nat /\ n \in Nat
  BY FS_CardinalityType DEF HeapOK
<1>2. \A u \in H : /\ u.freq \in Nat /\ u.tie \in Nat /\ u.tie < n /\ GoodDepth(u.depth)
                   /\ DOMAIN u.depth \subseteq ToSet(in) /\ u.freq = TreeWeight(u, in)
  BY DEF HeapOK, GoodTree, HeapCheap
<1>3. \A u, v \in H : u.tie = v.tie => u = v
  BY DEF HeapOK
<1>4. H # {}
  <2>1. Cardinality(H) # 0
    BY <1>1
  <2> QED BY <2>1, FS_EmptySet
<1>5. s \in H /\ \A u \in H \ {s} : Before(s, u)
  BY <1>2, <1>3, <1>4, FirstIsBefore
<1> HIDE DEF s
<1>6. H \ {s} # {}
  <2>1. IsFiniteSet(H \ {s}) /\ Cardinality(H \ {s}) = Cardinality(H) - 1
    BY <1>1, <1>5, FS_RemoveElement
  <2>2. Cardinality(H \ {s}) # 0
    BY <1>1, <2>1
  <2> QED BY <2>2, FS_EmptySet
<1>7. t \in H \ {s} /\ \A u \in (H \ {s}) \ {t} : Before(t, u)
  BY <1>2, <1>3, <1>6, FirstIsBefore
<1> HIDE DEF t
<1>8. s \in H /\ t \in H /\ s # t
  BY <1>5, <1>7
<1>9. (\A u \in H : s.freq <= u.freq) /\ (\A u \in H \ {s} : t.freq <= u.freq)
  <2>1. \A u \in H : u.freq \in Nat
    BY <1>2
  <2>2. \A u \in H \ {s} : s.freq <= u.freq
    BY <1>5, <2>1 DEF Before
  <2>3. \A u \in (H \ {s}) \ {t} : t.freq <= u.freq
    BY <1>7, <2>1 DEF Before
  <2>4. s.freq <= s.freq /\ t.freq <= t.freq
    BY <1>8, <2>1
  <2> QED BY <2>2, <2>3, <2>4
<1>10. J.tie = n /\ J.freq = s.freq + t.freq
  BY DEF Joined
<1>11. TreeWeight(J, in) = s.freq + t.freq
       /\ TreeCost(J, in) = TreeCost(s, in) + TreeCost(t, in) + (s.freq + t.freq)
  <2>1. DOMAIN s.depth \cap DOMAIN t.depth = {}
    BY <1>8 DEF HeapOK
  <2>2. /\ TreeWeight(J, in) = TreeWeight(s, in) + TreeWeight(t, in)
        /\ TreeCost(J, in) = TreeCost(s, in) + TreeCost(t, in) + (TreeWeight(s, in) + TreeWeight(t, in))
    BY <1>2, <1>8, <2>1, JoinedCosts
  <2>3. s.freq = TreeWeight(s, in) /\ t.freq = TreeWeight(t, in)
    BY <1>2, <1>8
  <2> QED BY <2>2, <2>3, Zenon
<1> HIDE DEF J
<1>12. J \notin R
  <2>1. \A u \in R : u.tie # n
    BY <1>1, <1>2
  <2> QED BY <1>10, <2>1
<1>13. \A u \in T : u.freq = TreeWeight(u, in)
  BY <1>2, <1>10, <1>11
<1>14. ASSUME NEW len \in LengthsIn(in) PROVE Cheap(T, in, CostIn(in, len))
  <2> DEFINE w == Freqs(H)
             c == Costs(H, in)
             v == Freqs(T)
             d == Costs(T, in)
             C == CostIn(in, len)
  <2>1. PICK L : Fits(H, L, m) /\ Total(H, w, c, L) <= C
    BY DEF HeapCheap, Cheap
  <2>2. \A u \in H : w[u] = u.freq /\ c[u] = TreeCost(u, in)
    BY DEF Freqs, Costs
  <2>3. v[J] = s.freq + t.freq /\ d[J] = TreeCost(s, in) + TreeCost(t, in) + (s.freq + t.freq)
        /\ \A u \in R : v[u] = u.freq /\ d[u] = TreeCost(u, in)
    BY <1>10, <1>11 DEF Freqs, Costs
  <2> HIDE DEF w, c, v, d, m, C
  <2>4. Weighed(H, w, c)
    <3>1. \A u \in H : u.freq \in Nat /\ TreeCost(u, in) \in Nat
      BY <1>2, TreeCostIs
    <3> QED BY <1>1, <2>2, <3>1 DEF Weighed
  <2>5. (\A u \in H : w[s] <= w[u]) /\ (\A u \in H \ {s} : w[t] <= w[u])
    BY <1>8, <1>9, <2>2
  <2>6. PICK K : /\ Fits(H, K, m) /\ Total(H, w, c, K) <= Total(H, w, c, L)
                 /\ K[t] <= K[s] /\ \A u \in H \ {s} : K[u] <= K[t]
    BY <1>8, <2>1, <2>4, <2>5, RarestDeepest
  <2>7. /\ v[J] = w[s] + w[t] /\ d[J] = c[s] + c[t] + (w[s] + w[t])
        /\ \A u \in H \ {s, t} : v[u] = w[u] /\ d[u] = c[u]
    BY <1>8, <2>2, <2>3
  <2>8. PICK M : Fits(T, M, m) /\ Total(T, v, d, M) <= Total(H, w, c, K)
    BY <1>8, <1>12, <2>4, <2>6, <2>7, DeepestJoin
  <2>9. Total(T, v, d, M) <= C
    <3>1. Total(H, w, c, L) \in Nat /\ Total(H, w, c, K) \in Nat
      BY <2>1, <2>4, <2>6, TotalIs
    <3>2. Weighed(T, v, d)
      <4>1. IsFiniteSet(T)
        BY <1>1, FS_Subset, FS_AddElement
      <4>2. w[s] \in Nat /\ w[t] \in Nat /\ c[s] \in Nat /\ c[t] \in Nat
        BY <1>8, <2>4 DEF Weighed
      <4>3. v[J] \in Nat /\ d[J] \in Nat
        BY <2>7, <4>2
      <4>4. \A u \in R : v[u] \in Nat /\ d[u] \in Nat
        BY <2>4, <2>7 DEF Weighed
      <4> QED BY <4>1, <4>3, <4>4 DEF Weighed
    <3>3. Total(T, v, d, M) \in Nat
      BY <2>8, <3>2, TotalIs
    <3>4. C \in Nat
      BY CostType DEF C
    <3> QED BY <2>1, <2>6, <2>8, <3>1, <3>3, <3>4
  <2> QED BY <2>8, <2>9, Zenon DEF Cheap, v, d, m, C
<1>15. HeapCheap(T, in)
  BY <1>13, <1>14 DEF HeapCheap
<1> QED BY <1>15 DEF T, R, J, s, t

\* The tree that is left is a shortest code.
LEMMA RootIsCheapest ==
    ASSUME NEW in \in Seq(0..255), in # <<>>, NEW H, NEW n, HeapOK(H, n, in), HeapCheap(H, in),
           Cardinality(H) <= 1,
           NEW lens, lens = [k \in DOMAIN UniqueSymbols(in) |->
                                Max({1, First(H).depth[UniqueSymbols(in)[k]]})],
           NEW len \in LengthsIn(in)
    PROVE  CostIn(in, lens) <= CostIn(in, len)
<1> DEFINE s == UniqueSymbols(in)
           r == First(H)
           d == r.depth
           D == DOMAIN d
           m == Len(s)
           I == 1..m
           g == [k \in I |-> s[k]]
           h == [x \in D |-> Frequency(in, x) * d[x]]
           cost == [k \in I |-> Frequency(in, s[k]) * lens[k]]
           other == [k \in I |-> Frequency(in, s[k]) * len[k]]
<1>1. /\ s \in Seq(0..255) /\ Len(s) \in 0..256 /\ ToSet(s) = ToSet(in)
      /\ \A i, j \in DOMAIN s : s[i] = s[j] => i = j
  BY SymbolsAre
<1>2. DOMAIN s = I /\ m \in Nat
  BY <1>1, SeqElement
<1>3. lens = [k \in DOMAIN s |-> Max({1, d[s[k]]})] /\ len \in [I -> 1..Max({1, m - 1})]
  BY DEF LengthsIn
<1>4. CostIn(in, lens) = SumFunctionOnSet(cost, I) /\ CostIn(in, len) = SumFunctionOnSet(other, I)
  BY DEF CostIn
<1>5. ToSet(in) # {}
  <2>1. Len(in) \in Nat /\ Len(in) # 0
    OBVIOUS
  <2>2. 1 \in DOMAIN in
    BY <2>1, SeqElement
  <2> QED BY <2>2 DEF ToSet
<1> HIDE DEF s, d, m
<1>6. H # {} /\ IsFiniteSet(H)
  BY <1>5 DEF HeapOK
<1>7. \E t : H = {t}
  <2>1. Cardinality(H) \in Nat /\ Cardinality(H) # 0
    BY <1>6, FS_CardinalityType, FS_EmptySet
  <2>2. Cardinality(H) = 1
    BY <2>1
  <2> QED BY <1>6, <2>2, FS_Singleton
<1>8. H = {r}
  <2>1. \A t \in H : t.freq \in Nat /\ t.tie \in Nat
    BY DEF HeapOK, GoodTree
  <2>2. \A u, t \in H : u.tie = t.tie => u = t
    BY DEF HeapOK
  <2>3. r \in H
    BY <1>6, <2>1, <2>2, FirstIs
  <2> HIDE DEF r
  <2> QED BY <1>7, <2>3
<1> HIDE DEF r
<1>9. GoodTree(r) /\ GoodDepth(d) /\ D = ToSet(in)
  <2>1. GoodTree(r) /\ DOMAIN r.depth \subseteq ToSet(in) /\ \A x \in ToSet(in) : x \in DOMAIN r.depth
    BY <1>8 DEF HeapOK
  <2>2. DOMAIN r.depth = ToSet(in)
    BY <2>1
  <2> QED BY <2>1, <2>2 DEF GoodTree, d
<1>10. \A x \in D : d[x] \in Nat /\ Frequency(in, x) \in Nat
  BY <1>9, SymbolsAreFinite DEF GoodDepth
<1>11. IsFiniteSet(I)
  <2>1. 1 \in Int /\ m \in Int
    BY <1>2
  <2> QED BY <2>1, FS_Interval
<1>12. (\A k \in I : g[k] \in D) /\ (\A x \in D : \E k \in I : g[k] = x)
       /\ \A i, j \in I : g[i] = g[j] => i = j
  <2>1. D = {s[k] : k \in I}
    BY <1>1, <1>2, <1>9, Zenon DEF ToSet
  <2> HIDE DEF D
  <2>2. (\A k \in I : g[k] \in D) /\ (\A x \in D : \E k \in I : g[k] = x)
    BY <2>1
  <2>3. \A i, j \in I : g[i] = g[j] => i = j
    BY <1>1, <1>2
  <2> QED BY <2>2, <2>3
<1>13. \A k \in I : /\ g[k] = s[k] /\ s[k] \in D /\ len[k] \in Nat /\ len[k] >= 1
                    /\ lens[k] = (IF d[s[k]] >= 1 THEN d[s[k]] ELSE 1)
  <2> SUFFICES ASSUME NEW k \in I
               PROVE  /\ g[k] = s[k] /\ s[k] \in D /\ len[k] \in Nat /\ len[k] >= 1
                      /\ lens[k] = (IF d[s[k]] >= 1 THEN d[s[k]] ELSE 1)
    OBVIOUS
  <2>1. g[k] = s[k]
    OBVIOUS
  <2>2. s[k] \in D
    BY <1>12, <2>1, Zenon
  <2>3. len[k] \in Nat /\ len[k] >= 1
    BY <1>3
  <2> DEFINE e == d[s[k]]
  <2>4. e \in Nat
    BY <1>10, <2>2
  <2>5. lens[k] = Max({1, e})
    BY <1>2, <1>3
  <2> HIDE DEF e
  <2>6. Max({1, e}) = IF e >= 1 THEN e ELSE 1
    BY <2>4, MaxOfOneAnd
  <2>7. lens[k] = (IF d[s[k]] >= 1 THEN d[s[k]] ELSE 1)
    BY <2>5, <2>6 DEF e
  <2> QED BY <2>1, <2>2, <2>3, <2>7
<1>14. \A k \in I : cost[k] \in Nat /\ other[k] \in Nat
  <2> SUFFICES ASSUME NEW k \in I PROVE cost[k] \in Nat /\ other[k] \in Nat
    OBVIOUS
  <2>1. s[k] \in D /\ len[k] \in Nat /\ lens[k] \in Nat
    <3>1. s[k] \in D /\ len[k] \in Nat
      BY <1>13
    <3>2. d[s[k]] \in Nat
      BY <1>10, <3>1
    <3>3. lens[k] = (IF d[s[k]] >= 1 THEN d[s[k]] ELSE 1)
      BY <1>13
    <3> QED BY <3>1, <3>2, <3>3
  <2>2. Frequency(in, s[k]) \in Nat
    BY <1>10, <2>1
  <2>3. Frequency(in, s[k]) * lens[k] \in Nat /\ Frequency(in, s[k]) * len[k] \in Nat
    BY <2>1, <2>2
  <2> QED BY <2>3
\* A lone symbol takes one bit.
<1>15. CASE \E x : D = {x} /\ d[x] = 0
  <2>1. PICK x : D = {x} /\ d[x] = 0
    BY <1>15
  <2>2. \A k \in I : lens[k] = 1
    <3> SUFFICES ASSUME NEW k \in I PROVE lens[k] = 1
      OBVIOUS
    <3>1. s[k] = x /\ lens[k] = (IF d[s[k]] >= 1 THEN d[s[k]] ELSE 1)
      <4> HIDE DEF D
      <4> QED BY <1>13, <2>1
    <3>2. ~(0 >= 1)
      OBVIOUS
    <3> QED BY <2>1, <3>1, <3>2, Zenon
  <2>3. \A k \in I : lens[k] <= len[k] /\ Frequency(in, s[k]) \in Nat /\ len[k] \in Nat
    BY <1>10, <1>13, <2>2
  <2>4. \A k \in I : cost[k] <= other[k]
    <3> SUFFICES ASSUME NEW k \in I PROVE cost[k] <= other[k]
      OBVIOUS
    <3> DEFINE f == Frequency(in, s[k])
               e == len[k] - 1
    <3>a. f \in Nat
      BY <2>3
    <3>b. len[k] \in Nat /\ len[k] >= 1
      BY <1>13
    <3>1. f \in Nat /\ e \in Nat /\ len[k] = 1 + e
      BY <3>a, <3>b
    <3> HIDE DEF f, e
    <3>2. f * (1 + e) = f * 1 + f * e /\ f * e \in Nat /\ f * 1 \in Nat
      BY <3>1
    <3>3. f * 1 <= f * len[k]
      BY <3>1, <3>2
    <3> QED BY <2>2, <3>3 DEF f
  <2> HIDE DEF cost, other, I
  <2>5. SumLaws(cost, other, I)
    BY <1>11, <1>14, SumsCompare
  <2> QED BY <1>4, <2>4, <2>5 DEF SumLaws
<1>16. CASE \A x \in D : d[x] >= 1
  <2>1. PICK L : Fits(H, L, m) /\ Total(H, Freqs(H), Costs(H, in), L) <= CostIn(in, len)
    BY DEF HeapCheap, Cheap, m, s
  <2> DEFINE w == Freqs(H)[r]
             c == Costs(H, in)[r]
             f == [u \in H |-> Freqs(H)[u] * L[u] + Costs(H, in)[u]]
  <2>2. w = r.freq /\ c = TreeCost(r, in) /\ r \in H
    BY <1>8 DEF Freqs, Costs
  <2>3. w \in Nat /\ c \in Nat /\ L[r] \in Nat
    <3>1. r.freq \in Nat
      BY <1>9 DEF GoodTree
    <3>2. TreeCost(r, in) \in Nat
      <4>1. DOMAIN r.depth \subseteq ToSet(in) /\ GoodDepth(r.depth)
        BY <1>9 DEF d
      <4> QED BY <4>1, TreeCostIs
    <3>3. L[r] \in 0..m
      BY <2>1, <2>2 DEF Fits
    <3> QED BY <1>2, <2>2, <3>1, <3>2, <3>3
  <2>4. f[r] = w * L[r] + c
    BY <2>2
  <2> HIDE DEF w, c
  <2>5. f[r] \in Nat /\ f[r] >= c
    <3>1. w * L[r] \in Nat
      BY <2>3
    <3> DEFINE z == w * L[r]
    <3>2. z \in Nat /\ f[r] = z + c
      BY <2>4, <3>1
    <3> HIDE DEF z, f
    <3> QED BY <2>3, <3>2
  <2>6. Total(H, Freqs(H), Costs(H, in), L) = SumFunctionOnSet(f, H)
    BY DEF Total
  <2> HIDE DEF f
  <2>7. SumFunctionOnSet(f, H) = f[r] + 0
    <3>1. \A u \in H : f[u] \in Nat
      BY <1>8, <2>5
    <3>2. SumAdds(f, H)
      BY <1>6, <3>1, SumAddsUp
    <3>3. H \in SUBSET H /\ r \in H /\ H \ {r} = {}
      BY <1>8
    <3> QED BY <3>2, <3>3 DEF SumAdds
  <2>8. TreeCost(r, in) <= CostIn(in, len)
    <3>1. f[r] <= CostIn(in, len)
      BY <2>1, <2>5, <2>6, <2>7
    <3>2. CostIn(in, len) \in Nat
      BY CostType
    <3> QED BY <2>2, <2>3, <2>5, <3>1, <3>2
  <2>9. \A k \in I : cost[k] = h[g[k]]
    <3> SUFFICES ASSUME NEW k \in I PROVE cost[k] = h[g[k]]
      OBVIOUS
    <3>1. g[k] = s[k] /\ s[k] \in D /\ lens[k] = d[s[k]]
      BY <1>13, <1>16
    <3> HIDE DEF g
    <3> QED BY <3>1
  <2>10. TreeCost(r, in) = SumFunctionOnSet(h, D)
    BY DEF TreeCost, d
  <2>11. \A x \in D : h[x] \in Nat
    BY <1>10
  <2>12. Numbered(I, D, g)
    BY <1>11, <1>12, Zenon DEF Numbered
  <2> HIDE DEF I, D, g, h, cost
  <2>13. SumFunctionOnSet(h, D) = SumFunctionOnSet(cost, I)
    BY <2>9, <2>11, <2>12, SumOfNumbered
  <2> QED BY <1>4, <2>8, <2>10, <2>13
<1> QED BY <1>9, <1>15, <1>16 DEF GoodDepth, Shape

----------------------------------------------------------------------------
(* The code stream is no longer than the index stream.                     *)

\* What every byte of an input adds is, added up by symbols, its frequency times that.
LEMMA CountedTwice ==
    ASSUME NEW in \in Seq(0..255), NEW l, \A x \in ToSet(in) : l[x] \in Nat,
           NEW e, e[0] = 0, \A k \in 0..Len(in) : k + 1 <= Len(in) => e[k + 1] = e[k] + l[in[k + 1]]
    PROVE  e[Len(in)] = SumFunctionOnSet([x \in ToSet(in) |-> Frequency(in, x) * l[x]], ToSet(in))
<1> DEFINE n == Len(in)
           S == ToSet(in)
           F(k, x) == Cardinality({i \in 1..k : in[i] = x})
           f(k) == [x \in S |-> F(k, x) * l[x]]
           Q == {k \in Nat : k <= n => e[k] = SumFunctionOnSet(f(k), S)}
<1>1. n \in Nat /\ DOMAIN in = 1..n /\ \A k \in 1..n : in[k] \in S
  BY SeqElement DEF ToSet
<1>2. IsFiniteSet(S)
  BY SymbolsAreFinite
<1>3. ASSUME NEW k \in Nat, NEW x \in S PROVE F(k, x) \in Nat /\ IsFiniteSet({i \in 1..k : in[i] = x})
  <2>1. IsFiniteSet(1..k)
    <3>1. 1 \in Int /\ k \in Int
      OBVIOUS
    <3> QED BY <3>1, FS_Interval
  <2> DEFINE A == {i \in 1..k : in[i] = x}
  <2>2. A \in SUBSET (1..k)
    OBVIOUS
  <2> HIDE DEF A
  <2>3. IsFiniteSet(A) /\ Cardinality(A) \in Nat
    BY <2>1, <2>2, FS_Subset, FS_CardinalityType
  <2> QED BY <2>3 DEF A
<1>4. ASSUME NEW k \in Nat, k + 1 <= n, NEW x \in S
      PROVE  F(k + 1, x) = F(k, x) + (IF x = in[k + 1] THEN 1 ELSE 0)
  <2> DEFINE A == {i \in 1..k : in[i] = x}
             B == {i \in 1..(k + 1) : in[i] = x}
  <2>1. 1..(k + 1) = (1..k) \cup {k + 1} /\ k + 1 \notin 1..k
    OBVIOUS
  <2>2. CASE x = in[k + 1]
    <3>1. B = A \cup {k + 1} /\ k + 1 \notin A
      BY <2>1, <2>2
    <3>2. IsFiniteSet(A) /\ Cardinality(A) \in Nat
      BY <1>3
    <3> HIDE DEF A, B
    <3>3. Cardinality(B) = Cardinality(A) + 1
      BY <3>1, <3>2, FS_AddElement
    <3> QED BY <2>2, <3>3 DEF A, B
  <2>3. CASE x # in[k + 1]
    <3>1. B = A
      BY <2>1, <2>3
    <3>2. Cardinality(A) \in Nat
      BY <1>3
    <3> HIDE DEF A, B
    <3>3. Cardinality(B) = Cardinality(A) + 0
      BY <3>1, <3>2
    <3> QED BY <2>3, <3>3 DEF A, B
  <2> QED BY <2>2, <2>3
<1>5. \A x \in S : F(n, x) = Frequency(in, x) /\ F(0, x) = 0
  <2> SUFFICES ASSUME NEW x \in S PROVE F(n, x) = Frequency(in, x) /\ F(0, x) = 0
    OBVIOUS
  <2>1. {i \in 1..0 : in[i] = x} = {}
    OBVIOUS
  <2>2. F(0, x) = 0
    BY <2>1, FS_EmptySet
  <2>3. F(n, x) = Frequency(in, x)
    BY <1>1, Zenon DEF Frequency
  <2> QED BY <2>2, <2>3
<1> HIDE DEF F, S, n
<1>6. \A k \in Nat : \A x \in S : f(k)[x] = F(k, x) * l[x] /\ f(k)[x] \in Nat
  <2> SUFFICES ASSUME NEW k \in Nat, NEW x \in S PROVE f(k)[x] = F(k, x) * l[x] /\ f(k)[x] \in Nat
    OBVIOUS
  <2>1. F(k, x) \in Nat /\ l[x] \in Nat
    BY <1>3 DEF S
  <2>2. F(k, x) * l[x] \in Nat
    BY <2>1
  <2> QED BY <2>2
<1>7. 0 \in Q
  <2> DEFINE z == [x \in S |-> 0]
  <2>1. \A x \in S : f(0)[x] = 0 * 0
    <3> SUFFICES ASSUME NEW x \in S PROVE f(0)[x] = 0 * 0
      OBVIOUS
    <3>1. F(0, x) = 0 /\ l[x] \in Nat
      BY <1>5 DEF S
    <3>2. 0 * l[x] = 0 * 0
      BY <3>1
    <3> QED BY <3>1, <3>2
  <2>2. \A x \in S : \E q \in Nat : f(0)[x] = q * 0
    BY <2>1
  <2> DEFINE g == f(0)
  <2>3. \A x \in S : \E q \in Nat : g[x] = q * 0
    BY <2>2
  <2> HIDE DEF g
  <2>4. \E q \in Nat : SumFunctionOnSet(g, S) = q * 0
    BY <1>2, <2>3, SumOfMultiples
  <2>5. SumFunctionOnSet(g, S) = 0
    BY <2>4
  <2> QED BY <2>5 DEF g
<1>8. ASSUME NEW k \in Q PROVE k + 1 \in Q
  <2>1. k \in Nat
    OBVIOUS
  <2> SUFFICES ASSUME k + 1 <= n PROVE e[k + 1] = SumFunctionOnSet(f(k + 1), S)
    BY <2>1
  <2> DEFINE y == in[k + 1]
             g == [f(k) EXCEPT ![y] = 0]
             a == f(k)
             b == f(k + 1)
  <2>2. e[k] = SumFunctionOnSet(a, S) /\ e[k + 1] = e[k] + l[y]
    <3>1. k <= n /\ k \in 0..n
      BY <1>1, <2>1
    <3> QED BY <3>1 DEF n
  <2>3. y \in S /\ l[y] \in Nat
    <3>1. k + 1 \in 1..n
      BY <1>1, <2>1
    <3>2. y \in S
      BY <1>1, <3>1
    <3> QED BY <3>2 DEF S
  <2>4. \A x \in S : a[x] \in Nat /\ b[x] \in Nat
    <3>1. k + 1 \in Nat
      BY <2>1
    <3> QED BY <1>6, <2>1, <3>1, Zenon
  <2>5. b[y] = a[y] + l[y] /\ \A x \in S \ {y} : b[x] = a[x]
    <3>a. F(k + 1, y) = F(k, y) + (IF y = in[k + 1] THEN 1 ELSE 0)
      <4> HIDE DEF y
      <4> QED BY <1>4, <2>1, <2>3
    <3>1. F(k + 1, y) = F(k, y) + 1 /\ F(k, y) \in Nat
      <4>1. F(k, y) \in Nat
        <5> HIDE DEF y
        <5> QED BY <1>3, <2>1, <2>3
      <4>2. F(k + 1, y) = F(k, y) + 1
        BY <3>a, Zenon
      <4> QED BY <4>1, <4>2
    <3>2. (F(k, y) + 1) * l[y] = F(k, y) * l[y] + l[y]
      <4> DEFINE u == F(k, y)
                 v == l[y]
      <4>1. u \in Nat /\ v \in Nat
        BY <2>3, <3>1
      <4> HIDE DEF u, v
      <4>2. (u + 1) * v = u * v + v
        BY <4>1
      <4> QED BY <4>2 DEF u, v
    <3>3. b[y] = F(k + 1, y) * l[y] /\ a[y] = F(k, y) * l[y]
      BY <2>3
    <3>4. \A x \in S \ {y} : b[x] = a[x]
      <4> SUFFICES ASSUME NEW x \in S, x # y PROVE b[x] = a[x]
        OBVIOUS
      <4>1. F(k + 1, x) = F(k, x) + 0 /\ F(k, x) \in Nat
        BY <1>3, <1>4, <2>1
      <4>2. F(k + 1, x) = F(k, x)
        BY <4>1
      <4> QED BY <4>2
    <3> HIDE DEF a, b
    <3>5. b[y] = a[y] + l[y]
      BY <3>1, <3>2, <3>3, Zenon
    <3> QED BY <3>4, <3>5
  <2> HIDE DEF a, b, y
  <2>6. SumAdds(a, S) /\ SumAdds(b, S)
    BY <1>2, <2>4, SumAddsUp
  <2>7. /\ SumFunctionOnSet(a, S) = a[y] + SumFunctionOnSet(a, S \ {y})
        /\ SumFunctionOnSet(b, S) = b[y] + SumFunctionOnSet(b, S \ {y})
        /\ SumFunctionOnSet(a, S \ {y}) \in Nat
    <3>1. S \in SUBSET S /\ S \ {y} \in SUBSET S
      OBVIOUS
    <3> QED BY <2>3, <2>6, <3>1 DEF SumAdds
  <2>8. SumFunctionOnSet(b, S \ {y}) = SumFunctionOnSet(a, S \ {y})
    <3>1. IsFiniteSet(S \ {y}) /\ \A x \in S \ {y} : a[x] \in Nat /\ b[x] \in Nat
      BY <1>2, <2>4, FS_Subset
    <3>2. SumLaws(b, a, S \ {y})
      BY <3>1, SumsCompare
    <3> QED BY <2>5, <3>2 DEF SumLaws
  <2>9. SumFunctionOnSet(b, S) = SumFunctionOnSet(a, S) + l[y]
    <3>1. a[y] \in Nat
      BY <2>3, <2>4
    <3> DEFINE r == SumFunctionOnSet(a, S \ {y})
    <3>2. r \in Nat /\ SumFunctionOnSet(a, S) = a[y] + r /\ SumFunctionOnSet(b, S) = b[y] + r
      BY <2>7, <2>8
    <3> HIDE DEF r
    <3>3. (a[y] + l[y]) + r = (a[y] + r) + l[y]
      BY <2>3, <3>1, <3>2
    <3> QED BY <2>5, <3>2, <3>3, Zenon
  <2>10. e[k + 1] = SumFunctionOnSet(b, S)
    BY <2>2, <2>9, Zenon
  <2> QED BY <2>10 DEF b
<1>9. Q \in SUBSET Nat
  OBVIOUS
<1> HIDE DEF Q
<1>10. n \in Q
  BY <1>1, <1>7, <1>8, <1>9, NatSetInduction
<1>11. e[n] = SumFunctionOnSet(f(n), S)
  BY <1>1, <1>10 DEF Q
<1>12. f(n) = [x \in S |-> Frequency(in, x) * l[x]]
  BY <1>5
<1> QED BY <1>11, <1>12 DEF n, S

LEMMA WidthIsNarrow ==
    ASSUME NEW c \in 0..256, c > 1
    PROVE  Pow2[BitsNeeded(c) - 1] < c
<1>1. \E b \in 1..8 : Pow2[b - 1] < c /\ c <= Pow2[b]
  <2>1. /\ c \in Int
        /\ 1 - 1 = 0 /\ 2 - 1 = 1 /\ 3 - 1 = 2 /\ 4 - 1 = 3 /\ 5 - 1 = 4
        /\ 6 - 1 = 5 /\ 7 - 1 = 6 /\ 8 - 1 = 7
    OBVIOUS
  <2>2. CASE c <= 4
    <3>1. (Pow2[1 - 1] < c /\ c <= Pow2[1]) \/ (Pow2[2 - 1] < c /\ c <= Pow2[2])
      BY <2>1, <2>2, PowValues
    <3> QED BY <3>1
  <2>3. CASE c > 4 /\ c <= 16
    <3>1. (Pow2[3 - 1] < c /\ c <= Pow2[3]) \/ (Pow2[4 - 1] < c /\ c <= Pow2[4])
      BY <2>1, <2>3, PowValues
    <3> QED BY <3>1
  <2>4. CASE c > 16 /\ c <= 64
    <3>1. (Pow2[5 - 1] < c /\ c <= Pow2[5]) \/ (Pow2[6 - 1] < c /\ c <= Pow2[6])
      BY <2>1, <2>4, PowValues
    <3> QED BY <3>1
  <2>5. CASE c > 64
    <3>1. (Pow2[7 - 1] < c /\ c <= Pow2[7]) \/ (Pow2[8 - 1] < c /\ c <= Pow2[8])
      BY <2>1, <2>5, PowValues
    <3> QED BY <3>1
  <2> QED BY <2>1, <2>2, <2>3, <2>4, <2>5
<1>2. BitsNeeded(c) = CHOOSE b \in 1..8 : Pow2[b - 1] < c /\ c <= Pow2[b]
  BY DEF BitsNeeded
<1> QED BY <1>1, <1>2

LEMMA SumOfEquals ==
    ASSUME NEW m \in Nat, NEW c \in Nat, NEW f, \A k \in 1..m : f[k] = c
    PROVE  SumFunctionOnSet(f, 1..m) = m * c
<1> DEFINE I == 1..m
           Q == {k \in Nat : k <= m => SumFunctionOnSet(f, 1..k) = k * c}
<1>1. IsFiniteSet(I)
  <2>1. 1 \in Int /\ m \in Int
    OBVIOUS
  <2> QED BY <2>1, FS_Interval
<1>2. SumAdds(f, I)
  BY <1>1, SumAddsUp
<1>3. 0 \in Q
  <2>1. 1..0 = {} /\ 0 * c = 0
    OBVIOUS
  <2> QED BY <1>2, <2>1 DEF SumAdds
<1>4. ASSUME NEW k \in Q PROVE k + 1 \in Q
  <2>1. k \in Nat /\ k + 1 \in Nat
    OBVIOUS
  <2> SUFFICES ASSUME k + 1 <= m PROVE SumFunctionOnSet(f, 1..(k + 1)) = (k + 1) * c
    BY <2>1
  <2>2. 1..(k + 1) \in SUBSET I /\ k + 1 \in 1..(k + 1) /\ (1..(k + 1)) \ {k + 1} = 1..k /\ k + 1 \in I
    BY <2>1
  <2>3. SumFunctionOnSet(f, 1..(k + 1)) = f[k + 1] + SumFunctionOnSet(f, 1..k)
    <3> DEFINE A == 1..(k + 1)
               B == 1..k
    <3>1. A \in SUBSET I /\ k + 1 \in A /\ A \ {k + 1} = B
      BY <2>2
    <3> HIDE DEF A, B, I
    <3>2. SumFunctionOnSet(f, A) = f[k + 1] + SumFunctionOnSet(f, B)
      BY <1>2, <3>1 DEF SumAdds
    <3> QED BY <3>2 DEF A, B
  <2>4. SumFunctionOnSet(f, 1..k) = k * c /\ f[k + 1] = c
    <3>1. k <= m
      BY <2>1
    <3> QED BY <2>2, <3>1
  <2>5. c + k * c = (k + 1) * c
    BY <2>1
  <2> QED BY <2>3, <2>4, <2>5, Zenon
<1>5. Q \in SUBSET Nat
  OBVIOUS
<1> HIDE DEF Q
<1>6. m \in Q
  BY <1>3, <1>4, <1>5, NatSetInduction
<1> QED BY <1>6 DEF Q

\* What the symbols of an input cost, counted by symbol and counted by number.
LEMMA CostOfSymbols ==
    ASSUME NEW in \in Seq(0..255), NEW l, \A x \in ToSet(in) : l[x] \in Nat,
           NEW lens, \A k \in 1..Len(UniqueSymbols(in)) : lens[k] = l[UniqueSymbols(in)[k]]
    PROVE  SumFunctionOnSet([x \in ToSet(in) |-> Frequency(in, x) * l[x]], ToSet(in)) = CostIn(in, lens)
<1> DEFINE s == UniqueSymbols(in)
           I == 1..Len(s)
           S == ToSet(in)
           g == [k \in I |-> s[k]]
           f == [x \in S |-> Frequency(in, x) * l[x]]
           h == [k \in I |-> Frequency(in, s[k]) * lens[k]]
<1>1. /\ s \in Seq(0..255) /\ Len(s) \in 0..256 /\ ToSet(s) = S
      /\ \A i, j \in DOMAIN s : s[i] = s[j] => i = j
  BY SymbolsAre
<1>2. DOMAIN s = I /\ \A k \in I : lens[k] = l[s[k]]
  BY <1>1, SeqElement
<1>3. CostIn(in, lens) = SumFunctionOnSet(h, I)
  BY DEF CostIn
<1> HIDE DEF s
<1>4. IsFiniteSet(I)
  <2>1. 1 \in Int /\ Len(s) \in Int
    BY <1>1
  <2> QED BY <2>1, FS_Interval
<1>5. Numbered(I, S, g)
  <2>1. S = {s[k] : k \in I}
    BY <1>1, <1>2, Zenon DEF ToSet
  <2> HIDE DEF S
  <2>2. (\A k \in I : g[k] \in S) /\ (\A x \in S : \E k \in I : g[k] = x)
    BY <2>1
  <2>3. \A i, j \in I : g[i] = g[j] => i = j
    BY <1>1, <1>2
  <2> HIDE DEF I, g
  <2> QED BY <1>4, <2>2, <2>3, Zenon DEF Numbered
<1>6. \A k \in I : h[k] = f[g[k]]
  <2> SUFFICES ASSUME NEW k \in I PROVE h[k] = f[g[k]]
    OBVIOUS
  <2>1. g[k] = s[k] /\ g[k] \in S /\ lens[k] = l[s[k]]
    BY <1>2, <1>5 DEF Numbered
  <2> HIDE DEF g, S
  <2> QED BY <2>1
<1>7. \A x \in S : f[x] \in Nat
  <2> SUFFICES ASSUME NEW x \in S PROVE f[x] \in Nat
    OBVIOUS
  <2>1. Frequency(in, x) \in Nat /\ l[x] \in Nat
    BY SymbolsAreFinite
  <2>2. Frequency(in, x) * l[x] \in Nat
    BY <2>1
  <2> QED BY <2>2
<1> HIDE DEF f, g, h, I, S
<1>8. SumFunctionOnSet(f, S) = SumFunctionOnSet(h, I)
  BY <1>5, <1>6, <1>7, SumOfNumbered
<1> QED BY <1>3, <1>8 DEF f, S

\* Every symbol has a code of its length.
LEMMA CodeLengthIs ==
    ASSUME NEW in \in Seq(0..255), NEW lens, LengthsOK(in, lens), NEW k \in 1..Len(UniqueSymbols(in))
    PROVE  Len(CanonicalCodes(UniqueSymbols(in), lens)[UniqueSymbols(in)[k]]) = lens[k]
<1> DEFINE s == UniqueSymbols(in)
           n == Len(s)
           K == EntrySet(s, lens)
           E == Entries(s, lens)
           c == CodeNumbers(E)
           x == s[k]
           p == CHOOSE q \in DOMAIN E : EntrySymbol(E[q]) = x
<1>1. /\ s \in Seq(0..255) /\ ToSet(s) = ToSet(in) /\ \A i, j \in DOMAIN s : s[i] = s[j] => i = j
  BY SymbolsAre
<1>2. DOMAIN s = 1..n /\ k \in 1..n /\ \A i \in 1..n : s[i] \in 0..255 /\ lens[i] \in Nat
  <2>1. DOMAIN s = 1..n /\ \A i \in 1..n : s[i] \in 0..255
    BY <1>1, SeqElement
  <2>2. \A i \in 1..n : lens[i] \in 1..MaxCodeBits
    BY DEF LengthsOK
  <2>3. \A v \in 1..MaxCodeBits : v \in Nat
    OBVIOUS
  <2> QED BY <2>1, <2>2, <2>3
<1>3. CanonicalCodes(s, lens)[x] = BitsOf(c[p], EntryLength(E[p]))
  <2>1. x \in ToSet(s)
    BY <1>2, Zenon DEF ToSet
  <2> QED BY <2>1, Zenon DEF CanonicalCodes
<1>4. EntriesOK(E, K, n, in)
  <2> HIDE DEF s, K, E, n
  <2>1. s = UniqueSymbols(in) /\ K = EntrySet(s, lens) /\ E = Entries(s, lens) /\ n = Len(s)
    BY DEF s, K, E, n
  <2> QED BY <2>1, EntriesAre
<1>5. c \in [1..n -> Nat]
  <2> HIDE DEF E, n
  <2>1. E = Entries(UniqueSymbols(in), lens) /\ n = Len(UniqueSymbols(in))
    BY DEF E, n
  <2> QED BY <2>1, CodesFollow
<1>6. K = {Entry(lens[i], s[i]) : i \in 1..n}
  BY <1>2 DEF EntrySet
<1>7. x \in ToSet(in)
  <2>1. k \in DOMAIN s
    BY <1>2, Zenon
  <2>2. x \in ToSet(s)
    BY <2>1, Zenon DEF ToSet
  <2> QED BY <1>1, <2>2, Zenon
<1> HIDE DEF s, K, E, n, c
<1>8. DOMAIN E = 1..n /\ {E[q] : q \in 1..n} = K /\ \E q \in 1..n : EntrySymbol(E[q]) = x
  BY <1>4, <1>7 DEF EntriesOK
<1>9. p \in 1..n /\ EntrySymbol(E[p]) = x
  BY <1>8, Zenon
<1> HIDE DEF p
<1>10. PICK i \in 1..n : E[p] = Entry(lens[i], s[i])
  <2>1. E[p] \in K
    BY <1>8, <1>9
  <2> QED BY <1>6, <2>1, ZenonT(20)
<1>11. EntryLength(E[p]) = lens[i] /\ EntrySymbol(E[p]) = s[i]
  <2>1. lens[i] \in Nat /\ s[i] \in 0..255
    BY <1>2
  <2>2. EntryLength(Entry(lens[i], s[i])) = lens[i] /\ EntrySymbol(Entry(lens[i], s[i])) = s[i]
    BY <2>1, EntryIs
  <2> QED BY <1>10, <2>2, Zenon
<1>12. i = k
  BY <1>1, <1>2, <1>9, <1>11
<1>13. c[p] \in Nat /\ lens[k] \in Nat /\ EntryLength(E[p]) = lens[k]
  BY <1>2, <1>5, <1>9, <1>11, <1>12
<1>14. Len(BitsOf(c[p], lens[k])) = lens[k]
  BY <1>13, BitsOfIs
<1> QED BY <1>3, <1>13, <1>14 DEF s

\* The code stream has as many bits as its lengths cost.
LEMMA CodeStreamCosts ==
    ASSUME NEW in \in Seq(0..255), NEW lens, LengthsOK(in, lens)
    PROVE  CodePayload(in, CanonicalCodes(UniqueSymbols(in), lens)).size = CeilDiv(CostIn(in, lens), 8)
<1> DEFINE s == UniqueSymbols(in)
           codes0 == CanonicalCodes(s, lens)
           l == [x \in ToSet(in) |-> Len(codes0[x])]
           e == [k \in 0..Len(in) |-> Len(Emitted(in, codes0, k))]
           n == Len(in)
<1>1. DOMAIN codes0 = ToSet(in) /\ \A x \in ToSet(in) : codes0[x] \in Seq(Bits)
  <2> HIDE DEF codes0
  <2>1. codes0 = CanonicalCodes(UniqueSymbols(in), lens)
    BY DEF codes0
  <2> QED BY <2>1, CanonicalCodesAre
<1>2. \A k \in 1..Len(s) : Len(codes0[s[k]]) = lens[k]
  BY CodeLengthIs
<1>3. n \in Nat /\ DOMAIN in = 1..n /\ \A k \in 1..n : in[k] \in ToSet(in)
  BY SeqElement DEF ToSet
<1>4. CodePayload(in, codes0).size = CeilDiv(Len(Emitted(in, codes0, n)), 8)
  <2>1. Emitted(in, codes0, n) = FlattenSeq([i \in DOMAIN in |-> codes0[in[i]]])
    BY <1>3, Zenon DEF Emitted
  <2> HIDE DEF codes0, n
  <2> QED BY <2>1 DEF CodePayload
<1> HIDE DEF codes0, n
<1>5. /\ Emitted(in, codes0, 0) = <<>>
      /\ \A k \in 0..n : Emitted(in, codes0, k) \in Seq(Bits)
      /\ \A k \in 0..n : k + 1 <= n =>
             Emitted(in, codes0, k + 1) = Emitted(in, codes0, k) \o codes0[in[k + 1]]
  <2>1. \A k \in 1..n : codes0[in[k]] \in Seq(Bits)
    BY <1>1, <1>3
  <2> QED BY <1>3, <2>1, EmittedIs DEF n
<1>6. \A x \in ToSet(in) : l[x] = Len(codes0[x]) /\ l[x] \in Nat
  BY <1>1
<1>7. \A k \in 0..n : e[k] = Len(Emitted(in, codes0, k))
  BY DEF n
<1> HIDE DEF e, l
<1>8. e[0] = 0
  BY <1>3, <1>5, <1>7
<1>9. \A k \in 0..n : k + 1 <= n => e[k + 1] = e[k] + l[in[k + 1]]
  <2> SUFFICES ASSUME NEW k \in 0..n, k + 1 <= n PROVE e[k + 1] = e[k] + l[in[k + 1]]
    OBVIOUS
  <2>1. k + 1 \in 1..n /\ k + 1 \in 0..n
    BY <1>3
  <2>2. in[k + 1] \in ToSet(in)
    BY <1>3, <2>1
  <2>3. Len(Emitted(in, codes0, k) \o codes0[in[k + 1]]) = Len(Emitted(in, codes0, k)) + Len(codes0[in[k + 1]])
    BY <1>1, <1>5, <2>2
  <2> QED BY <1>5, <1>6, <1>7, <2>1, <2>2, <2>3
<1>10. e[n] = SumFunctionOnSet([x \in ToSet(in) |-> Frequency(in, x) * l[x]], ToSet(in))
  BY <1>6, <1>8, <1>9, CountedTwice DEF n
<1>11. \A k \in 1..Len(s) : lens[k] = l[s[k]]
  <2> SUFFICES ASSUME NEW k \in 1..Len(s) PROVE lens[k] = l[s[k]]
    OBVIOUS
  <2>1. s \in Seq(0..255) /\ ToSet(s) = ToSet(in)
    BY SymbolsAre
  <2>2. s[k] \in ToSet(in)
    <3>1. DOMAIN s = 1..Len(s)
      BY <2>1, SeqElement
    <3> QED BY <2>1, <3>1, Zenon DEF ToSet
  <2> QED BY <1>2, <1>6, <2>2, Zenon
<1>12. e[n] = CostIn(in, lens)
  <2>1. SumFunctionOnSet([x \in ToSet(in) |-> Frequency(in, x) * l[x]], ToSet(in)) = CostIn(in, lens)
    BY <1>6, <1>11, CostOfSymbols
  <2> QED BY <1>10, <2>1
<1>13. n \in 0..n
  BY <1>3
<1> QED BY <1>4, <1>7, <1>12, <1>13 DEF codes0, n

\* Indices are a prefix code, of one length.
LEMMA IndicesAreACode ==
    ASSUME NEW in \in Seq(0..255), in # <<>>,
           NEW b, b = BitsNeeded(Len(UniqueSymbols(in))), NEW len, len = [k \in 1..Len(UniqueSymbols(in)) |-> b]
    PROVE  len \in LengthsIn(in) /\ CostIn(in, len) = Len(in) * b
<1> DEFINE s == UniqueSymbols(in)
           m == Len(s)
           I == 1..m
           n == Len(in)
<1>1. s \in Seq(0..255) /\ m \in 0..256 /\ ToSet(s) = ToSet(in)
  BY SymbolsAre
<1>2. n \in Nat /\ n # 0 /\ DOMAIN in = 1..n /\ \A k \in 1..n : in[k] \in ToSet(in)
  BY SeqElement DEF ToSet
<1>3. m >= 1
  <2>1. in[1] \in ToSet(s)
    BY <1>1, <1>2
  <2>2. DOMAIN s = 1..m
    BY <1>1, SeqElement
  <2>3. \E k \in 1..m : s[k] = in[1]
    BY <2>1, <2>2 DEF ToSet
  <2> QED BY <1>1, <2>3
<1> HIDE DEF s, m, n
<1>4. b \in 1..8 /\ m <= Pow2[b] /\ (m > 1 => Pow2[b - 1] < m)
  <2>1. BitsNeeded(m) \in 1..8 /\ m <= Pow2[BitsNeeded(m)]
    BY <1>1, WidthIs
  <2>2. m > 1 => Pow2[BitsNeeded(m) - 1] < m
    BY <1>1, WidthIsNarrow
  <2> QED BY <2>1, <2>2 DEF m, s
<1>5. b \in 1..Max({1, m - 1})
  <2>1. m - 1 \in Nat
    BY <1>1, <1>3
  <2> DEFINE d == m - 1
  <2>2. Max({1, d}) = IF d >= 1 THEN d ELSE 1
    <3>1. d \in Nat
      BY <2>1
    <3> HIDE DEF d
    <3> QED BY <3>1, MaxOfOneAnd
  <2>3. CASE m = 1
    <3>1. b = 1
      BY <2>3 DEF BitsNeeded, m, s
    <3> QED BY <2>2, <2>3, <3>1
  <2>4. CASE m > 1
    <3>1. b - 1 \in Nat /\ b - 1 + 1 = b
      BY <1>4
    <3>2. b - 1 + 1 <= Pow2[b - 1]
      BY <3>1, PowGrows
    <3>3. Pow2[b - 1] \in Nat
      BY <3>1, PowType
    <3>4. b <= m - 1
      BY <1>1, <1>4, <2>4, <3>1, <3>2, <3>3
    <3> QED BY <1>4, <2>1, <2>2, <3>4
  <2> QED BY <1>1, <1>3, <2>3, <2>4
<1>6. SumFunctionOnSet([k \in I |-> Pow2[m - len[k]]], I) <= Pow2[m]
  <2> DEFINE c == Pow2[m - b]
             f == [k \in I |-> Pow2[m - len[k]]]
  <2>1. \A k \in I : len[k] = b
    BY DEF m, s
  <2>2. m - b \in Nat
    <3>1. CASE m = 1
      <4>1. b = 1
        BY <3>1 DEF BitsNeeded, m, s
      <4> QED BY <3>1, <4>1
    <3>2. CASE m > 1
      <4>1. b - 1 \in Nat /\ b - 1 + 1 = b
        BY <1>4
      <4>2. b - 1 + 1 <= Pow2[b - 1] /\ Pow2[b - 1] \in Nat
        BY <4>1, PowGrows, PowType
      <4> QED BY <1>1, <1>4, <3>2, <4>1, <4>2
    <3> QED BY <1>1, <1>3, <3>1, <3>2
  <2>3. c \in Nat
    BY <2>2, PowType
  <2>4. \A k \in I : f[k] = c
    BY <2>1
  <2> HIDE DEF c, f
  <2>5. SumFunctionOnSet(f, I) = m * c
    <3>1. m \in Nat
      BY <1>1
    <3> QED BY <2>3, <2>4, <3>1, SumOfEquals
  <2>6. Pow2[m] = Pow2[b] * c /\ Pow2[b] \in Nat
    <3> DEFINE a == m - b
    <3>1. a \in Nat /\ b \in Nat /\ b + a = m
      BY <1>1, <1>4, <2>2
    <3> HIDE DEF a
    <3>2. Pow2[b + a] = Pow2[b] * Pow2[a] /\ Pow2[b] \in Nat
      BY <3>1, PowSum, PowType
    <3> QED BY <3>1, <3>2 DEF a, c
  <2>7. m * c <= Pow2[b] * c
    <3> DEFINE P == Pow2[b]
               a == P - m
    <3>1. a \in Nat /\ P = m + a /\ m \in Nat
      BY <1>1, <1>4, <2>6
    <3> HIDE DEF P, a
    <3>2. (m + a) * c = m * c + a * c /\ a * c \in Nat /\ m * c \in Nat
      BY <2>3, <3>1
    <3>3. m * c <= P * c
      BY <3>1, <3>2
    <3> QED BY <3>3 DEF P
  <2> QED BY <2>5, <2>6, <2>7 DEF f
<1>7. len \in LengthsIn(in)
  <2>1. len \in [I -> 1..Max({1, m - 1})]
    BY <1>5 DEF m, s
  <2> QED BY <1>6, <2>1 DEF LengthsIn, m, s
<1>8. CostIn(in, len) = n * b
  <2> DEFINE l == [x \in ToSet(in) |-> b]
             e == [k \in 0..n |-> k * b]
  <2>1. \A x \in ToSet(in) : l[x] \in Nat /\ l[x] = b
    BY <1>4
  <2>2. \A k \in 0..n : e[k] = k * b
    OBVIOUS
  <2> HIDE DEF l, e
  <2>3. e[0] = 0
    BY <1>2, <1>4, <2>2
  <2>4. \A k \in 0..n : k + 1 <= n => e[k + 1] = e[k] + l[in[k + 1]]
    <3> SUFFICES ASSUME NEW k \in 0..n, k + 1 <= n PROVE e[k + 1] = e[k] + l[in[k + 1]]
      OBVIOUS
    <3>1. k + 1 \in 1..n /\ k + 1 \in 0..n /\ k \in Nat
      BY <1>2
    <3>2. in[k + 1] \in ToSet(in)
      BY <1>2, <3>1
    <3>3. b \in Nat
      BY <1>4
    <3>4. (k + 1) * b = k * b + b
      BY <3>1, <3>3
    <3>5. l[in[k + 1]] = b /\ e[k + 1] = (k + 1) * b /\ e[k] = k * b
      BY <2>1, <2>2, <3>1, <3>2
    <3> QED BY <3>4, <3>5, Zenon
  <2>5. e[n] = SumFunctionOnSet([x \in ToSet(in) |-> Frequency(in, x) * l[x]], ToSet(in))
    BY <2>1, <2>3, <2>4, CountedTwice DEF n
  <2>6. \A k \in 1..Len(UniqueSymbols(in)) : len[k] = l[UniqueSymbols(in)[k]]
    <3> SUFFICES ASSUME NEW k \in 1..m PROVE len[k] = l[s[k]]
      BY DEF m, s
    <3>1. DOMAIN s = 1..m
      BY <1>1, SeqElement DEF m
    <3>2. s[k] \in ToSet(in)
      BY <1>1, <3>1, Zenon DEF ToSet
    <3>3. len[k] = b
      BY DEF m, s
    <3> QED BY <2>1, <3>2, <3>3
  <2>7. SumFunctionOnSet([x \in ToSet(in) |-> Frequency(in, x) * l[x]], ToSet(in)) = CostIn(in, len)
    BY <2>1, <2>6, CostOfSymbols
  <2>8. e[n] = n * b
    BY <1>2, <2>2
  <2> QED BY <2>5, <2>7, <2>8
<1> QED BY <1>7, <1>8 DEF n

LEMMA LengthsCost ==
    ASSUME NEW in \in Seq(0..255), NEW lens, LengthsOK(in, lens)
    PROVE  CostIn(in, lens) \in Nat
<1> DEFINE s == UniqueSymbols(in)
           I == 1..Len(s)
           cost == [k \in I |-> Frequency(in, s[k]) * lens[k]]
<1>1. s \in Seq(0..255) /\ Len(s) \in 0..256 /\ ToSet(s) = ToSet(in)
  BY SymbolsAre
<1>2. DOMAIN s = I /\ lens \in [I -> 1..MaxCodeBits]
  BY <1>1, SeqElement DEF LengthsOK
<1>3. IsFiniteSet(I)
  <2>1. 1 \in Int /\ Len(s) \in Int
    BY <1>1
  <2> QED BY <2>1, FS_Interval
<1>4. \A k \in I : cost[k] \in Nat
  <2> SUFFICES ASSUME NEW k \in I PROVE cost[k] \in Nat
    OBVIOUS
  <2>1. s[k] \in ToSet(in)
    BY <1>1, <1>2 DEF ToSet
  <2>2. Frequency(in, s[k]) \in Nat
    BY <2>1, SymbolsAreFinite
  <2>3. lens[k] \in Nat
    BY <1>2
  <2>4. Frequency(in, s[k]) * lens[k] \in Nat
    BY <2>2, <2>3
  <2> QED BY <2>4
<1> HIDE DEF cost, I
<1>5. SumAdds(cost, I)
  BY <1>3, <1>4, SumAddsUp
<1> QED BY <1>5 DEF SumAdds, CostIn, cost, I, s

----------------------------------------------------------------------------
(* The specification.                                                      *)

CheapInv ==
    /\ stage = "merge" => HeapCheap(heap, input)
    /\ (stage = "coded" /\ lengths # <<>>) =>
           \A len \in LengthsIn(input) : CostIn(input, lengths) <= CostIn(input, len)

LEMMA CheapStep ==
    ASSUME StreamsInv, CheapInv, [Next]_vars
    PROVE  CheapInv'
<1>1. CASE \E in \in Inputs : Begin(in)
  <2>1. PICK in \in Inputs : Begin(in)
    BY <1>1
  <2>2. in \in Seq(0..255)
    BY InputAssumption
  <2>3. stage' = "merge" /\ input' = in
        /\ heap' = {Leaf(in, UniqueSymbols(in), k) : k \in DOMAIN UniqueSymbols(in)}
    BY <2>1 DEF Begin
  <2>4. HeapCheap(heap', input')
    BY <2>2, <2>3, LeavesAreCheap
  <2> QED BY <2>3, <2>4 DEF CheapInv
<1>2. CASE Merge
  <2> DEFINE s == First(heap)
             t == First(heap \ {s})
             H == (heap \ {s, t}) \cup {Joined(s, t, tie)}
  <2>1. stage = "merge" /\ Cardinality(heap) > 1 /\ heap' = H /\ input' = input /\ stage' = "merge"
    BY <1>2 DEF Merge
  <2>2. HeapOK(heap, tie, input) /\ input \in Seq(0..255) /\ HeapCheap(heap, input)
    BY <2>1 DEF StreamsInv, Computed, CheapInv
  <2>3. HeapCheap(H, input)
    BY <2>1, <2>2, JoiningIsCheap
  <2> HIDE DEF H
  <2>4. HeapCheap(heap', input')
    BY <2>1, <2>3
  <2> QED BY <2>1, <2>4 DEF CheapInv
<1>3. CASE Code
  <2>1. /\ stage = "merge" /\ Cardinality(heap) <= 1 /\ stage' = "coded" /\ input' = input
        /\ IF input # <<>> /\ \A k \in DOMAIN symbols : CodeLengths[k] <= MaxCodeBits
           THEN lengths' = CodeLengths
           ELSE lengths' = lengths
    BY <1>3 DEF Code
  <2>2. /\ HeapOK(heap, tie, input) /\ input \in Seq(0..255) /\ HeapCheap(heap, input)
        /\ symbols = UniqueSymbols(input) /\ lengths = <<>>
    BY <2>1 DEF StreamsInv, Computed, CheapInv
  <2>3. ASSUME lengths' # <<>>, NEW len \in LengthsIn(input)
        PROVE  CostIn(input, lengths') <= CostIn(input, len)
    <3> DEFINE lens == CodeLengths
    <3>1. input # <<>> /\ lengths' = lens
      BY <2>1, <2>2, <2>3
    <3>2. lens = [k \in DOMAIN UniqueSymbols(input) |->
                     Max({1, First(heap).depth[UniqueSymbols(input)[k]]})]
      BY <2>2, Zenon DEF CodeLengths
    <3> HIDE DEF lens
    <3>3. CostIn(input, lens) <= CostIn(input, len)
      BY <2>1, <2>2, <2>3, <3>1, <3>2, RootIsCheapest
    <3> QED BY <3>1, <3>3, Zenon
  <2>4. input' = input /\ stage' = "coded" /\ "coded" # "merge"
    BY <2>1
  <2>5. lengths' # <<>> => \A len \in LengthsIn(input') : CostIn(input', lengths') <= CostIn(input', len)
    BY <2>3, <2>4, Zenon
  <2> QED BY <2>4, <2>5 DEF CheapInv
<1>4. CASE ReadIndices \/ DecodeIndex \/ ReadCodes \/ DecodeCode \/ DecodeBit \/ Finish
  <2>1. stage' \notin {"merge", "coded"}
    BY <1>4 DEF ReadIndices, DecodeIndex, ReadCodes, DecodeCode, DecodeBit, Finish
  <2> QED BY <2>1 DEF CheapInv
<1>5. CASE UNCHANGED vars
  <2>1. stage' = stage /\ input' = input /\ heap' = heap /\ lengths' = lengths
    BY <1>5 DEF vars
  <2> QED BY <2>1 DEF CheapInv
<1> QED BY <1>1, <1>2, <1>3, <1>4, <1>5 DEF Next, Step

LEMMA CheapIsOptimal ==
    ASSUME StreamsInv, CheapInv
    PROVE  CodesAreOptimal
<1> SUFFICES ASSUME stage = "coded", lengths # <<>>
             PROVE  /\ \A len \in PrefixLengths : Cost(lengths) <= Cost(len)
                    /\ coded.size <= indices.size
  BY DEF CodesAreOptimal
<1> DEFINE s == UniqueSymbols(input)
           m == Len(s)
<1>1. /\ input \in Seq(0..255) /\ symbols = s /\ indices = IndexPayload(input, symbols, width)
      /\ LengthsOK(input, lengths) /\ coded = CodePayload(input, CanonicalCodes(symbols, lengths))
  BY DEF StreamsInv, Computed, Stream
<1>2. \A len \in LengthsIn(input) : CostIn(input, lengths) <= CostIn(input, len)
  BY DEF CheapInv
<1>3. m \in Nat /\ m >= 1 /\ DOMAIN s = 1..m
  <2>1. s \in Seq(0..255)
    BY <1>1, SymbolsAre
  <2>2. m >= 1
    BY <1>1 DEF LengthsOK
  <2> QED BY <2>1, <2>2, SeqElement
<1>4. input # <<>>
  <2> SUFFICES ASSUME input = <<>> PROVE FALSE
    OBVIOUS
  <2>1. ToSet(input) = {}
    BY DEF ToSet
  <2>2. ToSet(s) = {}
    BY <1>1, <2>1, SymbolsAre
  <2>3. s[1] \in ToSet(s)
    <3>1. 1 \in DOMAIN s
      BY <1>3
    <3> QED BY <3>1 DEF ToSet
  <2> QED BY <2>2, <2>3
<1>5. \A len : Cost(len) = CostIn(input, len)
  <2> TAKE len
  <2> DEFINE f == [k \in 1..m |-> Frequency(input, s[k]) * len[k]]
  <2>1. Cost(len) = SumFunction(f)
    BY <1>1, <1>3, Zenon DEF Cost
  <2>2. DOMAIN f = 1..m
    OBVIOUS
  <2>3. CostIn(input, len) = SumFunctionOnSet(f, 1..m)
    BY DEF CostIn
  <2> HIDE DEF f, m
  <2> QED BY <2>1, <2>2, <2>3 DEF SumFunction
<1>6. PrefixLengths = LengthsIn(input)
  <2> DEFINE B == [1..m -> 1..Max({1, m - 1})]
             f(len) == [k \in 1..m |-> Pow2[m - len[k]]]
  <2>1. PrefixLengths = {len \in B : SumFunction(f(len)) <= Pow2[m]}
    BY <1>1, Zenon DEF PrefixLengths
  <2>2. LengthsIn(input) = {len \in B : SumFunctionOnSet(f(len), 1..m) <= Pow2[m]}
    BY Zenon DEF LengthsIn
  <2>3. \A len : SumFunction(f(len)) = SumFunctionOnSet(f(len), 1..m)
    <3> TAKE len
    <3> DEFINE g == f(len)
    <3>1. DOMAIN g = 1..m
      OBVIOUS
    <3> HIDE DEF g
    <3>2. SumFunction(g) = SumFunctionOnSet(g, 1..m)
      BY <3>1 DEF SumFunction
    <3> QED BY <3>2 DEF g
  <2> HIDE DEF B, f, m
  <2> QED BY <2>1, <2>2, <2>3
<1>7. \A len \in PrefixLengths : Cost(lengths) <= Cost(len)
  BY <1>2, <1>5, <1>6
<1>8. coded.size = CeilDiv(CostIn(input, lengths), 8)
  BY <1>1, CodeStreamCosts
<1> DEFINE b == BitsNeeded(m)
           same == [k \in 1..m |-> b]
<1>9. indices.size = CeilDiv(Len(input) * b, 8)
  <2>1. width = b
    BY <1>1 DEF width
  <2>2. indices.size = CeilDiv(Len(input) * width, 8)
    BY <1>1 DEF IndexPayload
  <2> QED BY <2>1, <2>2
<1>10. same \in LengthsIn(input) /\ CostIn(input, same) = Len(input) * b
  <2> HIDE DEF b, same
  <2>1. b = BitsNeeded(Len(UniqueSymbols(input))) /\ same = [k \in 1..Len(UniqueSymbols(input)) |-> b]
    BY DEF b, same
  <2> QED BY <1>1, <1>4, <2>1, IndicesAreACode
<1> HIDE DEF b, same, m
<1>11. CostIn(input, lengths) <= Len(input) * b
  BY <1>2, <1>10
<1>12. CostIn(input, lengths) \in Nat /\ Len(input) * b \in Nat
  <2>1. CostIn(input, same) \in Nat
    BY <1>1, <1>10, CostType
  <2>2. CostIn(input, lengths) \in Nat
    BY <1>1, LengthsCost
  <2> QED BY <1>10, <2>1, <2>2
<1>13. coded.size <= indices.size
  <2> DEFINE x == CostIn(input, lengths)
             y == Len(input) * b
  <2>1. x \in Nat /\ y \in Nat /\ x <= y
    BY <1>11, <1>12
  <2> HIDE DEF x, y
  <2>2. (x + 8 - 1) \div 8 <= (y + 8 - 1) \div 8
    BY <2>1
  <2>3. CeilDiv(x, 8) <= CeilDiv(y, 8)
    BY <2>2 DEF CeilDiv
  <2> QED BY <1>8, <1>9, <2>3 DEF x, y
<1> QED BY <1>7, <1>13

\* The merging loop finds the shortest prefix code there is, for every input, every
\* number of symbols and every choice among equally rare trees, and its stream is no
\* longer than that of the indices (core.rs:1001-1078).
THEOREM CodesAreShortest == Spec => []CodesAreOptimal
<1>1. Init => CheapInv
  BY DEF Init, CheapInv
<1>2. StreamsInv /\ CheapInv /\ [Next]_vars => CheapInv'
  BY CheapStep
<1>3. StreamsInv /\ CheapInv => CodesAreOptimal
  BY CheapIsOptimal
<1> QED BY <1>1, <1>2, <1>3, StreamsInvariant, PTL DEF Spec

================================================================================
