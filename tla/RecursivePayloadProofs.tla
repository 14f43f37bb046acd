------------------------- MODULE RecursivePayloadProofs -------------------------
(***************************************************************************)
(* Proofs about CircuitBitStream, ByteTransforms and RecursivePayload:     *)
(* that what the interning stream refers to is what was defined, where a   *)
(* run of frames ends, how long the sections of a dictionary are, that     *)
(* every plan of transforms is undone, and that framed and transformed     *)
(* packs are decoded to the input.                                         *)
(***************************************************************************)
EXTENDS RecursivePayload, CircuitBitStream, DataLemmas

----------------------------------------------------------------------------
(* Fields and nibbles: what was written is read back where it lies.        *)

Bit == {0, 1}
\* A sequence lies in a stream behind a position.
Lies(s, st, pos) == \A i \in 1..Len(s) : pos + i <= Len(st) /\ st[pos + i] = s[i]

LEMMA NumberOfIs ==
    ASSUME NEW n \in Nat, NEW d, Len(d) = n, NEW base, NEW w, w[0] = 0,
           \A i \in 1..n : w[i] = base * w[i - 1] + d[i]
    PROVE  NumberOf(d, base) = w[n]
<1> DEFINE Next1(g, i) == IF i = 0 THEN 0 ELSE base * g[i - 1] + d[i]
           f == CHOOSE g : g = [i \in 0..Len(d) |-> Next1(g, i)]
           h == [i \in 0..n |-> w[i]]
<1>1. ASSUME NEW i \in 0..n PROVE h[i] = Next1(h, i) /\ h[i] = w[i]
  <2>1. CASE i = 0
    BY <2>1
  <2>2. CASE i # 0
    <3>1. i - 1 \in 0..n /\ i \in 1..n
      BY <2>2
    <3>2. h[i] = w[i] /\ h[i - 1] = w[i - 1]
      BY <3>1
    <3>3. w[i] = base * w[i - 1] + d[i]
      BY <3>1
    <3> HIDE DEF h
    <3>4. h[i] = base * h[i - 1] + d[i]
      BY <3>2, <3>3, Zenon
    <3> QED BY <2>2, <3>2, <3>4
  <2> QED BY <2>1, <2>2
<1>2. h = [i \in 0..Len(d) |-> Next1(h, i)]
  <2> HIDE DEF Next1
  <2> QED BY <1>1
<1> HIDE DEF h
<1>3. f = [i \in 0..Len(d) |-> Next1(f, i)]
  BY <1>2, Zenon
<1> HIDE DEF f
<1>4. \A i \in 0..n : f[i] = Next1(f, i)
  <2> HIDE DEF Next1
  <2> QED BY <1>3
<1> DEFINE Q == {k \in Nat : k <= n => f[k] = w[k]}
<1>5. 0 \in Q
  <2>1. 0 \in 0..n
    OBVIOUS
  <2>2. f[0] = 0
    BY <1>4, <2>1
  <2> QED BY <2>2
<1>6. ASSUME NEW k \in Q PROVE k + 1 \in Q
  <2>1. k \in Nat
    OBVIOUS
  <2> SUFFICES ASSUME k + 1 <= n PROVE f[k + 1] = w[k + 1]
    BY <2>1
  <2> DEFINE j == k + 1
  <2>2. j \in 0..n /\ j \in 1..n /\ j # 0 /\ j - 1 = k /\ k <= n
    BY <2>1
  <2> HIDE DEF j
  <2>3. f[j - 1] = w[j - 1]
    BY <2>2
  <2>4. f[j] = base * f[j - 1] + d[j] /\ w[j] = base * w[j - 1] + d[j]
    BY <1>4, <2>2
  <2>5. f[j] = w[j]
    BY <2>3, <2>4, Zenon
  <2> QED BY <2>5 DEF j
<1>7. Q \in SUBSET Nat
  OBVIOUS
<1> HIDE DEF Q
<1>8. f[n] = w[n]
  <2>1. n \in Q
    BY <1>5, <1>6, <1>7, NatSetInduction, Zenon
  <2> QED BY <2>1 DEF Q
<1>9. NumberOf(d, base) = f[Len(d)]
  BY Zenon DEF NumberOf, f
<1> QED BY <1>8, <1>9

LEMMA BitsType ==
    ASSUME NEW v \in Nat, NEW width \in Nat
    PROVE  Bits(v, width) \in Seq(Bit) /\ Len(Bits(v, width)) = width
           /\ \A i \in 1..width : Bits(v, width)[i] = (v \div Pow2[width - i]) % 2
<1>1. ASSUME NEW i \in 1..width PROVE (v \div Pow2[width - i]) % 2 \in Bit
  <2>1. width - i \in Nat
    OBVIOUS
  <2>2. Pow2[width - i] \in Nat \ {0}
    BY <2>1, PowType
  <2>3. v \div Pow2[width - i] \in Nat
    BY <2>2, DivType
  <2> QED BY <2>3 DEF Bit
<1> QED BY <1>1 DEF Bits

LEMMA LiesOfTwo ==
    ASSUME NEW st, NEW pos \in Nat, NEW s \in Seq(Bit), NEW t \in Seq(Bit)
    PROVE  /\ s \o t \in Seq(Bit) /\ Len(s \o t) = Len(s) + Len(t)
           /\ Lies(s \o t, st, pos) <=> Lies(s, st, pos) /\ Lies(t, st, pos + Len(s))
<1>1. s \o t \in Seq(Bit) /\ Len(s \o t) = Len(s) + Len(t) /\ Len(s) \in Nat /\ Len(t) \in Nat
  OBVIOUS
<1>2. \A i \in 1..Len(s) : (s \o t)[i] = s[i] /\ i \in 1..Len(s \o t)
  OBVIOUS
<1>3. \A i \in 1..Len(t) : (s \o t)[Len(s) + i] = t[i] /\ Len(s) + i \in 1..Len(s \o t)
  OBVIOUS
<1> DEFINE u == s \o t
           m == Len(s)
           n == Len(t)
<1> HIDE DEF u
<1>4. ASSUME Lies(u, st, pos) PROVE Lies(s, st, pos) /\ Lies(t, st, pos + Len(s))
  <2>1. \A i \in 1..m : pos + i <= Len(st) /\ st[pos + i] = s[i]
    BY <1>2, <1>4 DEF Lies, u
  <2>2. ASSUME NEW i \in 1..n PROVE (pos + m) + i <= Len(st) /\ st[(pos + m) + i] = t[i]
    <3>1. u[m + i] = t[i] /\ m + i \in 1..Len(u)
      BY <1>3 DEF u
    <3>2. pos + (m + i) = (pos + m) + i
      BY <1>1
    <3> QED BY <1>4, <3>1, <3>2 DEF Lies
  <2> QED BY <2>1, <2>2 DEF Lies
<1>5. ASSUME Lies(s, st, pos), Lies(t, st, pos + Len(s)) PROVE Lies(u, st, pos)
  <2> SUFFICES ASSUME NEW i \in 1..Len(u) PROVE pos + i <= Len(st) /\ st[pos + i] = u[i]
    BY DEF Lies
  <2>1. CASE i <= m
    <3>1. i \in 1..m
      BY <1>1, <2>1
    <3> QED BY <1>2, <1>5, <3>1 DEF Lies, u
  <2>2. CASE ~(i <= m)
    <3>1. i - m \in 1..n /\ m + (i - m) = i /\ (pos + m) + (i - m) = pos + i
      BY <1>1, <2>2 DEF u
    <3>2. u[i] = t[i - m]
      BY <1>3, <3>1 DEF u
    <3>3. (pos + m) + (i - m) <= Len(st) /\ st[(pos + m) + (i - m)] = t[i - m]
      BY <1>5, <3>1, Zenon DEF Lies
    <3> QED BY <3>1, <3>2, <3>3
  <2> QED BY <2>1, <2>2
<1> QED BY <1>1, <1>4, <1>5 DEF u

\* A longer stream still holds it.
LEMMA LiesInLonger ==
    ASSUME NEW s \in Seq(Bit), NEW st \in Seq(Bit), NEW more \in Seq(Bit), NEW pos \in Nat, Lies(s, st, pos)
    PROVE  Lies(s, st \o more, pos)
<1> SUFFICES ASSUME NEW i \in 1..Len(s)
             PROVE  pos + i <= Len(st \o more) /\ (st \o more)[pos + i] = s[i]
  BY DEF Lies
<1>1. pos + i <= Len(st) /\ st[pos + i] = s[i]
  BY DEF Lies
<1>2. i \in Nat /\ i >= 1 /\ Len(s) \in Nat
  OBVIOUS
<1>3. pos + i \in 1..Len(st)
  BY <1>1, <1>2
<1> QED BY <1>1, <1>3

LEMMA LiesAtTheEnd ==
    ASSUME NEW st \in Seq(Bit), NEW s \in Seq(Bit)
    PROVE  Lies(s, st \o s, Len(st))
<1> SUFFICES ASSUME NEW i \in 1..Len(s)
             PROVE  Len(st) + i <= Len(st \o s) /\ (st \o s)[Len(st) + i] = s[i]
  BY DEF Lies
<1> QED OBVIOUS

\* read_bits gives the value that write_bits wrote.
LEMMA FieldIs ==
    ASSUME NEW st, NEW pos \in Nat, NEW width \in Nat, NEW v \in 0..(Pow2[width] - 1),
           Lies(Bits(v, width), st, pos)
    PROVE  Field(st, pos, width) = v
<1> DEFINE w == [i \in 0..width |-> v \div Pow2[width - i]]
           d == [i \in 1..width |-> BitAt(st, pos + i)]
<1>1. v \in Nat /\ Pow2[width] \in Nat \ {0}
  BY PowType
<1>2. ASSUME NEW i \in 1..width PROVE d[i] = (v \div Pow2[width - i]) % 2
  <2>1. Len(Bits(v, width)) = width /\ Bits(v, width)[i] = (v \div Pow2[width - i]) % 2
    BY <1>1, BitsType
  <2>2. pos + i <= Len(st) /\ st[pos + i] = Bits(v, width)[i]
    BY <2>1 DEF Lies
  <2> QED BY <2>1, <2>2 DEF BitAt
<1>3. w[0] = 0
  <2>1. width - 0 = width /\ 0 \in 0..width
    OBVIOUS
  <2>2. v \div Pow2[width] = 0
    BY <1>1, DivOfSmaller
  <2> QED BY <2>1, <2>2
<1>4. ASSUME NEW i \in 1..width PROVE w[i] = 2 * w[i - 1] + d[i]
  <2>1. width - i \in Nat /\ (width - i) + 1 = width - (i - 1) /\ i - 1 \in 0..width /\ i \in 0..width
    OBVIOUS
  <2>2. v \div Pow2[width - i] = 2 * (v \div Pow2[(width - i) + 1]) + ((v \div Pow2[width - i]) % 2)
    BY <1>1, <2>1, OneBitMore
  <2>3. w[i] = v \div Pow2[width - i] /\ w[i - 1] = v \div Pow2[width - (i - 1)]
    BY <2>1
  <2> HIDE DEF w, d
  <2> QED BY <1>2, <2>1, <2>2, <2>3
<1>5. w[width] = v
  <2>1. width - width = 0 /\ width \in 0..width
    OBVIOUS
  <2>2. w[width] = v \div Pow2[0]
    BY <2>1
  <2>3. v \div 1 = v
    BY <1>1
  <2> QED BY <2>2, <2>3, PowIs
<1>6. Len(d) = width
  OBVIOUS
<1>7. Field(st, pos, width) = NumberOf(d, 2)
  BY DEF Field
<1> HIDE DEF w, d
<1>8. NumberOf(d, 2) = w[width]
  BY <1>3, <1>4, <1>6, NumberOfIs, SMTT(30)
<1> QED BY <1>5, <1>7, <1>8

----------------------------------------------------------------------------
(* Widths.                                                                 *)

LEMMA WidthUnfolds ==
    /\ BitsForValue \in [Nat -> Nat] /\ BitsForValue[0] = 0
    /\ \A v \in Nat : v # 0 => BitsForValue[v] = 1 + BitsForValue[v \div 2]
<1> DEFINE F(g, v) == IF v = 0 THEN 0 ELSE 1 + g[v \div 2]
           first == [v \in Nat |-> 0]
           step == [v \in Nat |-> [x \in Nat |-> 1 + x]]
<1>1. first \in [Nat -> Nat] /\ step \in [Nat -> [Nat -> Nat]]
  OBVIOUS
<1>2. \A v \in Nat : first[v] = 0 /\ \A x \in Nat : step[v][x] = 1 + x
  OBVIOUS
<1> HIDE DEF first, step
<1>3. \E f \in [Nat -> Nat] : \A v \in Nat : f[v] = IF v < 1 THEN first[v] ELSE step[v][f[v \div 2]]
  <2> DEFINE V == Nat
             m == 1
             d == 2
  <2>1. m \in Nat \ {0} /\ d \in Nat /\ d >= 2
    OBVIOUS
  <2>2. first \in [Nat -> V] /\ step \in [Nat -> [V -> V]]
    BY <1>1, Zenon
  <2> HIDE DEF V, m, d
  <2>3. \E f : Dividing(V, m, d, first, step, f)
    BY <2>1, <2>2, DividingExists, Zenon
  <2> QED BY <2>3 DEF V, m, d, Dividing
<1>a. PICK f \in [Nat -> Nat] : \A v \in Nat : f[v] = IF v < 1 THEN first[v] ELSE step[v][f[v \div 2]]
  BY <1>3
<1>4. ASSUME NEW v \in Nat PROVE f[v] = F(f, v)
  <2>1. v \div 2 \in Nat /\ (v < 1 <=> v = 0)
    OBVIOUS
  <2> QED BY <1>2, <1>a, <2>1, Zenon
<1>5. f = [v \in Nat |-> F(f, v)]
  <2> HIDE DEF F
  <2> QED BY <1>4
<1>6. BitsForValue = CHOOSE g : g = [v \in Nat |-> F(g, v)]
  BY Zenon DEF BitsForValue
<1>7. BitsForValue = [v \in Nat |-> F(BitsForValue, v)]
  BY <1>5, <1>6, Zenon
<1> DEFINE B == BitsForValue
<1>8. DOMAIN B = Nat /\ \A v \in Nat : B[v] = F(B, v)
  BY <1>7, Zenon
<1> HIDE DEF B
<1>9. \A v \in Nat : B[v] \in Nat
  <2> DEFINE Q == {k \in Nat : \A v \in 0..k : B[v] \in Nat}
  <2>1. 0 \in Q
    BY <1>8
  <2>2. ASSUME NEW k \in Q PROVE k + 1 \in Q
    <3>1. k \in Nat /\ \A v \in 0..k : B[v] \in Nat
      OBVIOUS
    <3>2. (k + 1) \div 2 \in 0..k /\ k + 1 \in Nat /\ k + 1 # 0
      BY <3>1
    <3>3. B[k + 1] = 1 + B[(k + 1) \div 2]
      BY <1>8, <3>2
    <3>4. \A v \in 0..(k + 1) : v \in 0..k \/ v = k + 1
      BY <3>1
    <3> QED BY <3>1, <3>2, <3>3, <3>4
  <2>3. Q \in SUBSET Nat
    OBVIOUS
  <2> HIDE DEF Q
  <2>4. \A k \in Nat : k \in Q
    BY <2>1, <2>2, <2>3, NatSetInduction
  <2>5. \A k \in Nat : k \in 0..k
    OBVIOUS
  <2> QED BY <2>4, <2>5, Zenon DEF Q
<1>10. B \in [Nat -> Nat]
  <2>1. B = [v \in Nat |-> B[v]]
    BY <1>7 DEF B
  <2> QED BY <1>9, <2>1
<1> QED BY <1>8, <1>10 DEF B

LEMMA WidthHolds ==
    ASSUME NEW v \in Nat
    PROVE  BitsForValue[v] \in Nat /\ v \in 0..(Pow2[BitsForValue[v]] - 1)
<1> DEFINE P(x) == x + 1 <= Pow2[BitsForValue[x]]
           Q == {k \in Nat : \A x \in 0..k : P(x)}
<1>1. \A x \in Nat : BitsForValue[x] \in Nat /\ Pow2[BitsForValue[x]] \in Nat
  BY WidthUnfolds, PowType
<1>2. 0 \in Q
  <2>1. \A x \in 0..0 : x = 0
    OBVIOUS
  <2> QED BY <2>1, WidthUnfolds, PowIs
<1>3. ASSUME NEW k \in Q PROVE k + 1 \in Q
  <2>1. k \in Nat /\ \A x \in 0..k : P(x)
    OBVIOUS
  <2> DEFINE h == (k + 1) \div 2
  <2>2. h \in 0..k /\ h \in Nat /\ k + 1 \in Nat /\ k + 1 # 0 /\ k + 1 <= 2 * h + 1
    BY <2>1
  <2>3. BitsForValue[k + 1] = 1 + BitsForValue[h]
    BY <2>2, WidthUnfolds
  <2> HIDE DEF h
  <2>4. Pow2[BitsForValue[h] + 1] = 2 * Pow2[BitsForValue[h]]
    BY <1>1, <2>2, PowType
  <2>5. BitsForValue[k + 1] = BitsForValue[h] + 1
    BY <1>1, <2>2, <2>3
  <2>6. h + 1 <= Pow2[BitsForValue[h]]
    BY <2>1, <2>2
  <2>7. P(k + 1)
    BY <1>1, <2>1, <2>2, <2>4, <2>5, <2>6
  <2>8. \A x \in 0..(k + 1) : x \in 0..k \/ x = k + 1
    BY <2>1
  <2> HIDE DEF P
  <2> QED BY <2>1, <2>7, <2>8
<1>4. Q \in SUBSET Nat
  OBVIOUS
<1>5. \A k \in Nat : k \in Q
  <2> HIDE DEF Q
  <2> QED BY <1>2, <1>3, <1>4, NatSetInduction
<1>6. v \in 0..v
  OBVIOUS
<1>7. P(v)
  <2> HIDE DEF P
  <2> QED BY <1>5, <1>6
<1> QED BY <1>1, <1>7

\* An index below a count fits the width for that count.
LEMMA IndexFits ==
    ASSUME NEW count \in Nat, NEW k \in 0..(count - 1)
    PROVE  BitsForIndex(count) \in Nat /\ k \in 0..(Pow2[BitsForIndex(count)] - 1)
<1>1. CASE count <= 1
  <2>1. BitsForIndex(count) = 0 /\ k = 0
    BY <1>1 DEF BitsForIndex
  <2> QED BY <2>1, PowIs
<1>2. CASE ~(count <= 1)
  <2>1. count - 1 \in Nat /\ BitsForIndex(count) = BitsForValue[count - 1]
    BY <1>2 DEF BitsForIndex
  <2>2. BitsForValue[count - 1] \in Nat /\ count - 1 \in 0..(Pow2[BitsForValue[count - 1]] - 1)
    BY <2>1, WidthHolds
  <2>3. Pow2[BitsForValue[count - 1]] \in Nat
    BY <2>2, PowType
  <2> QED BY <2>1, <2>2, <2>3
<1> QED BY <1>1, <1>2

LEMMA IndexWidth ==
    ASSUME NEW count \in Nat
    PROVE  BitsForIndex(count) \in Nat
<1>1. CASE count <= 1
  BY <1>1 DEF BitsForIndex
<1>2. CASE ~(count <= 1)
  <2>1. count - 1 \in Nat
    BY <1>2
  <2> QED BY <1>2, <2>1, WidthUnfolds DEF BitsForIndex
<1> QED BY <1>1, <1>2

\* Every kind has an index of six bits that gives it back.
LEMMA KindsAreIndexed ==
    ASSUME NEW kind \in 0..26 \cup 200..222
    PROVE  /\ KindIndex(kind) \in 0..(Pow2[KindIndexBits] - 1) /\ KindIndexBits = 6
           /\ HasKind(KindIndex(kind)) /\ KindOf(KindIndex(kind)) = kind
<1>1. Pow2[6] = 64
  BY PowValues
<1>2. KindIndex(kind) \in 0..49 /\ KindOf(KindIndex(kind)) = kind
  BY DEF KindIndex, KindOf
<1> QED BY <1>1, <1>2 DEF HasKind, KindIndexBits

----------------------------------------------------------------------------
(* Nibbles.                                                                *)

LEMMA NibblesUnfold ==
    /\ Nibbles \in [Nat -> Seq(Bit)]
    /\ \A v \in Nat : Nibbles[v] = IF v < 8 THEN Bits(v, 3) \o <<0>>
                                   ELSE Bits(v % 8, 3) \o <<1>> \o Nibbles[v \div 8]
<1> DEFINE V == Seq(Bit)
           F(g, v) == IF v < 8 THEN Bits(v, 3) \o <<0>> ELSE Bits(v % 8, 3) \o <<1>> \o g[v \div 8]
           first == [v \in Nat |-> Bits(v, 3) \o <<0>>]
           step == [v \in Nat |-> [s \in V |-> Bits(v % 8, 3) \o <<1>> \o s]]
<1>1. \A v \in Nat : v \div 8 \in Nat /\ v % 8 \in Nat
  OBVIOUS
<1>2. \A v \in Nat : Bits(v, 3) \in V /\ Bits(v, 3) \o <<0>> \in V /\ Bits(v % 8, 3) \o <<1>> \in V
  <2>1. 3 \in Nat /\ <<0>> \in V /\ <<1>> \in V
    BY DEF Bit
  <2>2. \A v \in Nat : Bits(v, 3) \in V /\ Bits(v % 8, 3) \in V
    BY <1>1, <2>1, BitsType, Zenon
  <2>3. \A s, t \in V : s \o t \in V
    OBVIOUS
  <2> HIDE DEF V
  <2> QED BY <2>1, <2>2, <2>3
<1>3. \A v \in Nat : first[v] = Bits(v, 3) \o <<0>> /\ \A s \in V : step[v][s] = Bits(v % 8, 3) \o <<1>> \o s
  BY Zenon
<1>4. first \in [Nat -> V] /\ step \in [Nat -> [V -> V]]
  <2>1. \A v \in Nat : \A s \in V : Bits(v % 8, 3) \o <<1>> \o s \in V
    BY <1>2
  <2> HIDE DEF V
  <2> QED BY <1>2, <2>1
<1> HIDE DEF first, step, V
<1>a. \E f \in [Nat -> V] : \A v \in Nat : f[v] = IF v < 8 THEN first[v] ELSE step[v][f[v \div 8]]
  <2> DEFINE m == 8
  <2>1. m \in Nat \ {0} /\ m \in Nat /\ m >= 2
    OBVIOUS
  <2> HIDE DEF m
  <2>2. \E f : Dividing(V, m, m, first, step, f)
    BY <1>4, <2>1, DividingExists, Zenon
  <2> QED BY <2>2 DEF m, Dividing
<1>5. PICK f \in [Nat -> V] : \A v \in Nat : f[v] = IF v < 8 THEN first[v] ELSE step[v][f[v \div 8]]
  BY <1>a
<1>6. ASSUME NEW v \in Nat PROVE f[v] = F(f, v)
  <2>1. v \div 8 \in Nat
    BY <1>1
  <2>2. f[v \div 8] \in V
    BY <2>1
  <2> QED BY <1>3, <1>5, <2>2, Zenon
<1>7. f = [v \in Nat |-> F(f, v)]
  <2> HIDE DEF F
  <2> QED BY <1>6
<1>8. Nibbles = CHOOSE g : g = [v \in Nat |-> F(g, v)]
  BY Zenon DEF Nibbles
<1>9. Nibbles = [v \in Nat |-> F(Nibbles, v)]
  BY <1>7, <1>8, Zenon
<1> DEFINE N == Nibbles
<1>10. DOMAIN N = Nat /\ \A v \in Nat : N[v] = F(N, v)
  BY <1>9, Zenon
<1> HIDE DEF N
<1>11. \A v \in Nat : N[v] \in V
  <2> DEFINE Q == {k \in Nat : \A v \in 0..k : N[v] \in V}
  <2>1. 0 \in Q
    <3>1. N[0] = F(N, 0)
      <4> HIDE DEF F
      <4> QED BY <1>10
    <3>2. F(N, 0) = Bits(0, 3) \o <<0>>
      OBVIOUS
    <3>3. N[0] \in V
      BY <1>2, <3>1, <3>2
    <3>4. \A v \in 0..0 : v = 0
      OBVIOUS
    <3> QED BY <3>3, <3>4
  <2>2. ASSUME NEW k \in Q PROVE k + 1 \in Q
    <3>1. k \in Nat /\ \A v \in 0..k : N[v] \in V
      OBVIOUS
    <3>2. (k + 1) \div 8 \in 0..k /\ k + 1 \in Nat
      BY <3>1
    <3>3. F(N, k + 1) \in V
      <4>1. N[(k + 1) \div 8] \in V
        BY <3>1, <3>2
      <4>2. \A s, t \in V : s \o t \in V
        BY DEF V
      <4>3. Bits(k + 1, 3) \o <<0>> \in V /\ Bits((k + 1) % 8, 3) \o <<1>> \in V
        BY <1>2, <3>2
      <4>4. Bits((k + 1) % 8, 3) \o <<1>> \o N[(k + 1) \div 8] \in V
        BY <4>1, <4>2, <4>3
      <4> QED BY <4>3, <4>4
    <3>4. N[k + 1] \in V
      <4> HIDE DEF F
      <4> QED BY <1>10, <3>2, <3>3
    <3>5. \A v \in 0..(k + 1) : v \in 0..k \/ v = k + 1
      BY <3>1
    <3> QED BY <3>1, <3>4, <3>5
  <2>3. Q \in SUBSET Nat
    OBVIOUS
  <2> HIDE DEF Q
  <2>4. \A k \in Nat : k \in Q
    BY <2>1, <2>2, <2>3, NatSetInduction
  <2>5. \A k \in Nat : k \in 0..k
    OBVIOUS
  <2> QED BY <2>4, <2>5 DEF Q
<1>12. N \in [Nat -> V]
  <2>1. N = [v \in Nat |-> N[v]]
    BY <1>9 DEF N
  <2> QED BY <1>11, <2>1
<1> QED BY <1>10, <1>12, Zenon DEF N, V

\* What a sequence of two parts holds.
LEMMA PartsOfTwo ==
    ASSUME NEW s \in Seq(Bit), NEW t \in Seq(Bit)
    PROVE  /\ s \o t \in Seq(Bit) /\ Len(s \o t) = Len(s) + Len(t)
           /\ \A i \in 1..Len(s) : (s \o t)[i] = s[i]
           /\ \A i \in 1..Len(t) : (s \o t)[Len(s) + i] = t[i]
<1>1. s \o t \in Seq(Bit) /\ Len(s \o t) = Len(s) + Len(t)
  OBVIOUS
<1>2. \A i \in 1..Len(s) : (s \o t)[i] = s[i]
  OBVIOUS
<1>3. \A i \in 1..Len(t) : (s \o t)[Len(s) + i] = t[i]
  OBVIOUS
<1> QED BY <1>1, <1>2, <1>3

\* The same, under a name.
Parts(s, t, u) ==
    /\ u \in Seq(Bit) /\ Len(u) = Len(s) + Len(t)
    /\ \A i \in 1..Len(s) : u[i] = s[i]
    /\ \A i \in 1..Len(t) : u[Len(s) + i] = t[i]

LEMMA PartsAre ==
    ASSUME NEW s \in Seq(Bit), NEW t \in Seq(Bit)
    PROVE  Parts(s, t, s \o t)
BY PartsOfTwo DEF Parts

LEMMA LenOfTwo ==
    ASSUME NEW s \in Seq(Bit), NEW t \in Seq(Bit)
    PROVE  s \o t \in Seq(Bit) /\ Len(s \o t) = Len(s) + Len(t)
OBVIOUS

NibbleStep(v, q, r) ==
    /\ q \in Nat /\ r \in 0..7 /\ v = 8 * q + r /\ Nibbles[v] \in Seq(Bit)
    /\ \A i \in 1..3 : Nibbles[v][i] = Bits(r, 3)[i]
    /\ v < 8 => Len(Nibbles[v]) = 4 /\ Nibbles[v][4] = 0
    /\ v >= 8 => /\ q >= 1 /\ q < v
                 /\ Len(Nibbles[v]) = 4 + Len(Nibbles[q]) /\ Nibbles[v][4] = 1
                 /\ \A i \in 1..Len(Nibbles[q]) : Nibbles[v][4 + i] = Nibbles[q][i]

LEMMA NibblesOf ==
    ASSUME NEW v \in Nat
    PROVE  NibbleStep(v, v \div 8, v % 8)
<1> DEFINE q == v \div 8
           r == v % 8
<1>1. q \in Nat /\ r \in 0..7 /\ v = 8 * q + r /\ (v < 8 => r = v) /\ (v >= 8 => q >= 1 /\ q < v)
  OBVIOUS
<1>2. Nibbles[v] \in Seq(Bit) /\ Nibbles[q] \in Seq(Bit)
  BY <1>1, NibblesUnfold
<1>3. Bits(r, 3) \in Seq(Bit) /\ Len(Bits(r, 3)) = 3
  <2>1. 3 \in Nat /\ r \in Nat
    OBVIOUS
  <2> QED BY <2>1, BitsType, Zenon
<1> DEFINE b == Bits(r, 3)
           s == Nibbles[q]
           t == Nibbles[v]
           flag0 == <<0>>
           flag1 == <<1>>
<1>4. v < 8 => t = b \o flag0
  BY <1>1, NibblesUnfold, Zenon
<1>5. v >= 8 => t = (b \o flag1) \o s
  <2>1. v >= 8 => ~(v < 8)
    OBVIOUS
  <2> QED BY <2>1, NibblesUnfold, Zenon
<1>6. b \in Seq(Bit) /\ Len(b) = 3 /\ s \in Seq(Bit) /\ t \in Seq(Bit)
  BY <1>2, <1>3
<1>a. flag0 \in Seq(Bit) /\ Len(flag0) = 1 /\ flag0[1] = 0 /\ flag1 \in Seq(Bit) /\ Len(flag1) = 1 /\ flag1[1] = 1
  BY DEF Bit
<1> HIDE DEF b, s, t, flag0, flag1
<1>7. CASE v < 8
  <2>0. Parts(b, flag0, t)
    <3>1. Parts(b, flag0, b \o flag0)
      BY <1>6, <1>a, PartsAre, Zenon
    <3> QED BY <1>4, <1>7, <3>1, Zenon
  <2>1. Len(t) = 4 /\ t[4] = 0 /\ \A i \in 1..3 : t[i] = b[i]
    <3>1. 3 + 1 = 4 /\ 1 \in 1..1
      OBVIOUS
    <3> QED BY <1>6, <1>a, <2>0, <3>1 DEF Parts
  <2> QED BY <1>1, <1>2, <1>7, <2>1 DEF t, b, NibbleStep
<1>8. CASE ~(v < 8)
  <2> DEFINE c == b \o flag1
  <2>0. Parts(b, flag1, c)
    BY <1>6, <1>a, PartsAre, Zenon
  <2>2. t = c \o s
    BY <1>5, <1>8
  <2> HIDE DEF c
  <2>1. c \in Seq(Bit) /\ Len(c) = 4 /\ c[3 + 1] = 1 /\ \A i \in 1..3 : c[i] = b[i]
    <3>1. Len(b) = 3 /\ Len(flag1) = 1 /\ 1 \in 1..1 /\ 3 + 1 = 4
      BY <1>6, <1>a
    <3> QED BY <1>a, <2>0, <3>1 DEF Parts
  <2>a. /\ Len(t) = Len(c) + Len(s) /\ \A i \in 1..Len(c) : t[i] = c[i]
        /\ \A i \in 1..Len(s) : t[Len(c) + i] = s[i]
    <3>1. Parts(c, s, c \o s)
      BY <1>6, <2>1, PartsAre, Zenon
    <3> QED BY <2>2, <3>1 DEF Parts
  <2>3. Len(t) = 4 + Len(s) /\ t[4] = 1 /\ \A i \in 1..3 : t[i] = b[i]
    <3>1. 4 \in 1..4 /\ 3 + 1 = 4 /\ \A i \in 1..3 : i \in 1..4
      OBVIOUS
    <3> QED BY <2>1, <2>a, <3>1
  <2>4. \A i \in 1..Len(s) : t[4 + i] = s[i]
    BY <2>1, <2>a
  <2> QED BY <1>1, <1>2, <1>8, <2>3, <2>4 DEF t, b, s, NibbleStep
<1> QED BY <1>7, <1>8

\* The nibbles of a number: how many, what each holds, and what is left of the number
\* at each.
Nib(v, k, d, w) ==
    /\ k \in Nat /\ k >= 1 /\ Len(Nibbles[v]) = 4 * k /\ Nibbles[v] \in Seq(Bit)
    /\ w[1] = v /\ w[k + 1] = 0
    /\ \A j \in 1..k : /\ Nibbles[v][4 * j] = IF j = k THEN 0 ELSE 1
                       /\ d[j] \in 0..7 /\ w[j] = 8 * w[j + 1] + d[j]
                       /\ \A i \in 1..3 : Nibbles[v][(4 * j - 4) + i] = Bits(d[j], 3)[i]
    /\ v >= 1 => BitsForValue[v] >= 3 * (k - 1) + 1

LEMMA OneNibble ==
    ASSUME NEW v \in 0..7
    PROVE  \E k, d, w : Nib(v, k, d, w)
<1> DEFINE d == [j \in {1} |-> v]
           w == [j \in 1..2 |-> IF j = 1 THEN v ELSE 0]
<1>1. v \div 8 = 0 /\ v % 8 = v /\ v \in Nat /\ v < 8
  OBVIOUS
<1>2. Nibbles[v] \in Seq(Bit) /\ Len(Nibbles[v]) = 4 /\ Nibbles[v][4] = 0
      /\ \A i \in 1..3 : Nibbles[v][i] = Bits(v, 3)[i]
  <2>1. NibbleStep(v, v \div 8, v % 8)
    BY <1>1, NibblesOf
  <2> QED BY <1>1, <2>1 DEF NibbleStep
<1>3. v >= 1 => BitsForValue[v] >= 1
  <2>1. v >= 1 => v # 0 /\ v \div 2 \in Nat
    OBVIOUS
  <2>2. v >= 1 => BitsForValue[v] = 1 + BitsForValue[v \div 2] /\ BitsForValue[v \div 2] \in Nat
    BY <1>1, <2>1, WidthUnfolds
  <2> QED BY <2>2
<1>4. w[1] = v /\ w[2] = 0 /\ d[1] = v
  OBVIOUS
<1> HIDE DEF w, d
<1>5. \A j \in 1..1 : /\ Nibbles[v][4 * j] = IF j = 1 THEN 0 ELSE 1
                      /\ d[j] \in 0..7 /\ w[j] = 8 * w[j + 1] + d[j]
                      /\ \A i \in 1..3 : Nibbles[v][(4 * j - 4) + i] = Bits(d[j], 3)[i]
  <2> SUFFICES ASSUME NEW j \in 1..1
               PROVE  /\ Nibbles[v][4 * j] = IF j = 1 THEN 0 ELSE 1
                      /\ d[j] \in 0..7 /\ w[j] = 8 * w[j + 1] + d[j]
                      /\ \A i \in 1..3 : Nibbles[v][(4 * j - 4) + i] = Bits(d[j], 3)[i]
    OBVIOUS
  <2>1. j = 1
    OBVIOUS
  <2>2. \A i \in 1..3 : (4 * 1 - 4) + i = i
    OBVIOUS
  <2>3. v = 8 * 0 + v /\ 4 * 1 = 4 /\ 1 + 1 = 2
    OBVIOUS
  <2> QED BY <1>2, <1>4, <2>1, <2>2, <2>3, Zenon
<1>6. Nib(v, 1, d, w)
  <2>1. 4 * 1 = 4 /\ 1 + 1 = 2 /\ 3 * (1 - 1) + 1 = 1 /\ 1 \in Nat /\ 1 >= 1
    OBVIOUS
  <2> QED BY <1>2, <1>3, <1>4, <1>5, <2>1 DEF Nib
<1> QED BY <1>6

LEMMA NextNibble ==
    ASSUME NEW v \in Nat, v >= 8, NEW k, NEW d, NEW w, Nib(v \div 8, k, d, w)
    PROVE  \E d2, w2 : Nib(v, k + 1, d2, w2)
<1> DEFINE q == v \div 8
           r == v % 8
           d2 == [j \in 1..(k + 1) |-> IF j = 1 THEN r ELSE d[j - 1]]
           w2 == [j \in 1..(k + 2) |-> IF j = 1 THEN v ELSE w[j - 1]]
           s == Nibbles[q]
           t == Nibbles[v]
<1>1. /\ q \in Nat /\ r \in 0..7 /\ v = 8 * q + r /\ t \in Seq(Bit) /\ q >= 1
      /\ \A i \in 1..3 : t[i] = Bits(r, 3)[i]
      /\ Len(t) = 4 + Len(s) /\ t[4] = 1 /\ \A i \in 1..Len(s) : t[4 + i] = s[i]
  <2>1. NibbleStep(v, q, r)
    BY NibblesOf
  <2> HIDE DEF q, r
  <2> QED BY <2>1, Zenon DEF NibbleStep
<1>2. Nib(q, k, d, w)
  OBVIOUS
<1>3. BitsForValue[v] = 3 + BitsForValue[q] /\ BitsForValue[q] \in Nat
  <2>1. (v \div 2) \div 2 \in Nat /\ v \div 2 \in Nat /\ v \div 2 # 0 /\ (v \div 2) \div 2 # 0 /\ v # 0
        /\ ((v \div 2) \div 2) \div 2 = v \div 8
    OBVIOUS
  <2>2. BitsForValue[v] = 1 + BitsForValue[v \div 2]
    BY <2>1, WidthUnfolds
  <2>3. BitsForValue[v \div 2] = 1 + BitsForValue[(v \div 2) \div 2]
    BY <2>1, WidthUnfolds
  <2>4. BitsForValue[(v \div 2) \div 2] = 1 + BitsForValue[((v \div 2) \div 2) \div 2]
    BY <2>1, WidthUnfolds
  <2>5. BitsForValue[q] \in Nat
    BY <1>1, WidthUnfolds
  <2> QED BY <2>1, <2>2, <2>3, <2>4, <2>5
<1> HIDE DEF q, r, s, t
<1>4. /\ k \in Nat /\ k >= 1 /\ Len(s) = 4 * k /\ w[1] = q /\ w[k + 1] = 0
      /\ BitsForValue[q] >= 3 * (k - 1) + 1
  BY <1>1, <1>2, Zenon DEF Nib, s
<1>5. \A j \in 1..k : /\ s[4 * j] = IF j = k THEN 0 ELSE 1
                      /\ d[j] \in 0..7 /\ w[j] = 8 * w[j + 1] + d[j]
                      /\ \A i \in 1..3 : s[(4 * j - 4) + i] = Bits(d[j], 3)[i]
  BY <1>2 DEF Nib, s
<1>6. /\ w2[1] = v /\ w2[(k + 1) + 1] = 0 /\ w2[2] = q /\ d2[1] = r
      /\ \A j \in 1..(k + 1) : j # 1 => w2[j] = w[j - 1] /\ w2[j + 1] = w[j] /\ d2[j] = d[j - 1]
  BY <1>4
<1> HIDE DEF w2, d2
<1>7. ASSUME NEW j \in 1..(k + 1)
      PROVE  /\ t[4 * j] = IF j = k + 1 THEN 0 ELSE 1
             /\ d2[j] \in 0..7 /\ w2[j] = 8 * w2[j + 1] + d2[j]
             /\ \A i \in 1..3 : t[(4 * j - 4) + i] = Bits(d2[j], 3)[i]
  <2>1. CASE j = 1
    <3>1. j # k + 1 /\ 4 * j = 4 /\ j + 1 = 2 /\ \A i \in 1..3 : (4 * j - 4) + i = i
      BY <1>4, <2>1
    <3> QED BY <1>1, <1>6, <2>1, <3>1, Zenon
  <2>2. CASE j # 1
    <3> DEFINE i1 == j - 1
    <3>1. i1 \in 1..k /\ i1 + 1 = j /\ (j = k + 1 <=> i1 = k) /\ 4 * j = 4 + 4 * i1
          /\ 4 * i1 \in 1..(4 * k)
      BY <1>4, <2>2
    <3>2. \A i \in 1..3 : (4 * j - 4) + i = 4 + ((4 * i1 - 4) + i) /\ (4 * i1 - 4) + i \in 1..(4 * k)
      BY <1>4, <2>2
    <3>3. w2[j] = w[i1] /\ w2[j + 1] = w[i1 + 1] /\ d2[j] = d[i1]
      BY <1>6, <2>2, <3>1
    <3> HIDE DEF i1
    <3>4. t[4 * j] = s[4 * i1]
      BY <1>1, <1>4, <3>1, Zenon
    <3>5. \A i \in 1..3 : t[(4 * j - 4) + i] = s[(4 * i1 - 4) + i]
      BY <1>1, <1>4, <3>2, Zenon
    <3>6. t[4 * j] = IF j = k + 1 THEN 0 ELSE 1
      BY <1>5, <3>1, <3>4
    <3>7. d2[j] \in 0..7 /\ w2[j] = 8 * w2[j + 1] + d2[j]
      BY <1>5, <3>1, <3>3
    <3>8. \A i \in 1..3 : t[(4 * j - 4) + i] = Bits(d2[j], 3)[i]
      BY <1>5, <3>1, <3>3, <3>5
    <3> QED BY <3>6, <3>7, <3>8
  <2> QED BY <2>1, <2>2
<1>8. Len(t) = 4 * (k + 1) /\ k + 1 \in Nat /\ k + 1 >= 1 /\ BitsForValue[v] >= 3 * ((k + 1) - 1) + 1
  <2> DEFINE x == BitsForValue[v]
             y == BitsForValue[q]
  <2>1. x = 3 + y /\ y \in Nat /\ y >= 3 * (k - 1) + 1
    BY <1>3, <1>4
  <2> HIDE DEF x, y
  <2>2. x >= 3 * ((k + 1) - 1) + 1
    BY <1>4, <2>1
  <2> QED BY <1>1, <1>4, <2>2 DEF x
<1>9. Nib(v, k + 1, d2, w2)
  BY <1>1, <1>6, <1>7, <1>8 DEF Nib, t
<1> QED BY <1>9

LEMMA NibblesAre ==
    ASSUME NEW v \in Nat
    PROVE  \E k, d, w : Nib(v, k, d, w)
<1> DEFINE P(x) == \E k, d, w : Nib(x, k, d, w)
           Q == {n \in Nat : \A x \in 0..n : P(x)}
<1>1. ASSUME NEW n \in Nat, \A x \in 0..(n - 1) : P(x) PROVE P(n)
  <2>1. CASE n < 8
    <3>1. n \in 0..7
      BY <2>1
    <3> QED BY <3>1, OneNibble
  <2>2. CASE ~(n < 8)
    <3>1. n \div 8 \in 0..(n - 1) /\ n >= 8
      BY <2>2
    <3>2. PICK k, d, w : Nib(n \div 8, k, d, w)
      BY <1>1, <3>1
    <3>3. \E d2, w2 : Nib(n, k + 1, d2, w2)
      BY <3>1, <3>2, NextNibble
    <3> QED BY <3>3
  <2> QED BY <2>1, <2>2
<1> HIDE DEF P
<1>2. 0 \in Q
  <2>1. P(0)
    BY <1>1
  <2> QED BY <2>1
<1>3. ASSUME NEW n \in Q PROVE n + 1 \in Q
  <2>1. n \in Nat /\ \A x \in 0..n : P(x)
    OBVIOUS
  <2>2. n + 1 \in Nat /\ (n + 1) - 1 = n /\ \A x \in 0..(n + 1) : x \in 0..n \/ x = n + 1
    BY <2>1
  <2>3. P(n + 1)
    BY <1>1, <2>1, <2>2
  <2> QED BY <2>1, <2>2, <2>3
<1>4. Q \in SUBSET Nat
  OBVIOUS
<1>5. v \in Q
  <2> HIDE DEF Q
  <2> QED BY <1>2, <1>3, <1>4, NatSetInduction
<1> QED BY <1>5 DEF P


LEMMA OneBit ==
    ASSUME NEW st, NEW pos \in Nat, NEW b \in Bit, pos + 1 <= Len(st), st[pos + 1] = b
    PROVE  Field(st, pos, 1) = b
<1>1. b \in Nat /\ 1 \in Nat /\ b \in 0..(2 - 1) /\ 1 - 1 = 0 /\ (b \div 1) % 2 = b
  BY DEF Bit
<1>2. Pow2[1] = 2 /\ Pow2[0] = 1
  BY PowValues, PowIs
<1>3. Len(Bits(b, 1)) = 1 /\ \A i \in 1..1 : Bits(b, 1)[i] = (b \div Pow2[1 - i]) % 2
  BY <1>1, BitsType, Zenon
<1>4. Lies(Bits(b, 1), st, pos)
  <2> SUFFICES ASSUME NEW i \in 1..Len(Bits(b, 1))
               PROVE  pos + i <= Len(st) /\ st[pos + i] = Bits(b, 1)[i]
    BY DEF Lies
  <2>1. i = 1 /\ 1 \in 1..1
    <3> DEFINE n == Len(Bits(b, 1))
    <3>1. n = 1 /\ i \in 1..n
      BY <1>3
    <3> HIDE DEF n
    <3> QED BY <3>1
  <2>2. Bits(b, 1)[1] = (b \div Pow2[1 - 1]) % 2
    BY <1>3, <2>1
  <2>3. Bits(b, 1)[1] = b
    BY <1>1, <1>2, <2>2
  <2> QED BY <2>1, <2>3
<1>5. b \in 0..(Pow2[1] - 1)
  BY <1>1, <1>2
<1> QED BY <1>1, <1>4, <1>5, FieldIs

LEMMA ThreeBits ==
    ASSUME NEW st, NEW pos \in Nat, NEW d \in 0..7, Lies(Bits(d, 3), st, pos)
    PROVE  Field(st, pos, 3) = d
<1>1. 3 \in Nat /\ Pow2[3] = 8
  BY PowValues
<1>2. d \in 0..(Pow2[3] - 1)
  BY <1>1
<1> QED BY <1>1, <1>2, FieldIs

\* read_nibble_varint gives the number that write_nibble_varint wrote, and ends with it.
LEMMA NibblesRead ==
    ASSUME NEW v \in Nat, BitsForValue[v] <= 32, NEW st, NEW pos \in Nat, Lies(Nibbles[v], st, pos)
    PROVE  NibblesEnd(st, pos) = pos + Len(Nibbles[v]) /\ NibblesValue(st, pos) = v
<1>1. PICK k, d, w : Nib(v, k, d, w)
  BY NibblesAre
<1>2. /\ k \in Nat /\ k >= 1 /\ Len(Nibbles[v]) = 4 * k /\ w[1] = v /\ w[k + 1] = 0
      /\ v >= 1 => BitsForValue[v] >= 3 * (k - 1) + 1
  BY <1>1 DEF Nib
<1>3. ASSUME NEW j \in 1..k
      PROVE  /\ Nibbles[v][4 * j] = (IF j = k THEN 0 ELSE 1) /\ d[j] \in 0..7
             /\ w[j] = 8 * w[j + 1] + d[j]
             /\ \A i \in 1..3 : Nibbles[v][(4 * j - 4) + i] = Bits(d[j], 3)[i]
  BY <1>1 DEF Nib
<1>4. k \in 1..MaxNibbles
  <2>1. CASE v = 0
    <3>1. v < 8
      BY <2>1
    <3>2. Len(Nibbles[v]) = 4
      <4> DEFINE q == v \div 8
                 r == v % 8
      <4>1. NibbleStep(v, q, r)
        BY NibblesOf
      <4> HIDE DEF q, r
      <4> QED BY <3>1, <4>1 DEF NibbleStep
    <3>3. k = 1
      <4>1. 4 * k = 4 /\ k \in Nat
        BY <1>2, <3>2, Zenon
      <4> QED BY <4>1
    <3> QED BY <3>3 DEF MaxNibbles
  <2>2. CASE v # 0
    <3>1. BitsForValue[v] \in Nat
      BY WidthUnfolds
    <3> QED BY <1>2, <2>2, <3>1 DEF MaxNibbles
  <2> QED BY <2>1, <2>2
<1>5. ASSUME NEW j \in 1..k
      PROVE  Field(st, pos + 4 * j - 1, 1) = (IF j = k THEN 0 ELSE 1)
  <2>1. 4 * j \in 1..(4 * k) /\ pos + 4 * j - 1 \in Nat /\ (pos + 4 * j - 1) + 1 = pos + 4 * j
    BY <1>2
  <2>2. pos + 4 * j <= Len(st) /\ st[pos + 4 * j] = Nibbles[v][4 * j]
    BY <1>2, <2>1 DEF Lies
  <2> DEFINE p == pos + 4 * j - 1
             b == IF j = k THEN 0 ELSE 1
  <2>3. p \in Nat /\ p + 1 <= Len(st) /\ st[p + 1] = b /\ b \in Bit
    BY <1>3, <2>1, <2>2 DEF Bit
  <2> HIDE DEF p, b
  <2>4. Field(st, p, 1) = b
    BY <2>3, OneBit
  <2> QED BY <2>4 DEF p, b
<1> DEFINE Ends(x) == /\ Field(st, pos + 4 * x - 1, 1) = 0
                      /\ \A j \in 1..(x - 1) : Field(st, pos + 4 * j - 1, 1) = 1
<1>6. Ends(k)
  <2>1. Field(st, pos + 4 * k - 1, 1) = 0
    BY <1>2, <1>5
  <2>2. ASSUME NEW j \in 1..(k - 1) PROVE Field(st, pos + 4 * j - 1, 1) = 1
    <3>1. j \in 1..k /\ j # k
      BY <1>2
    <3> QED BY <1>5, <3>1
  <2> QED BY <2>1, <2>2
<1>7. ASSUME NEW x \in 1..MaxNibbles, Ends(x) PROVE x = k
  <2>1. x \in Nat /\ x >= 1
    BY DEF MaxNibbles
  <2>2. ~(x < k)
    <3> SUFFICES ASSUME x < k PROVE FALSE
      OBVIOUS
    <3>1. x \in 1..k /\ x # k
      BY <1>2, <2>1
    <3>2. Field(st, pos + 4 * x - 1, 1) = 1
      BY <1>5, <3>1
    <3> QED BY <1>7, <3>2
  <2>3. ~(k < x)
    <3> SUFFICES ASSUME k < x PROVE FALSE
      OBVIOUS
    <3>1. k \in 1..(x - 1) /\ k \in 1..k
      BY <1>2, <2>1
    <3>2. Field(st, pos + 4 * k - 1, 1) = 0 /\ Field(st, pos + 4 * k - 1, 1) = 1
      BY <1>6, <1>7, <3>1
    <3> QED BY <3>2
  <2> QED BY <1>2, <2>1, <2>2, <2>3
<1>8. NibbleCount(st, pos) = k
  <2>1. NibbleCount(st, pos) = CHOOSE x \in 1..MaxNibbles : Ends(x)
    BY DEF NibbleCount
  <2> HIDE DEF Ends
  <2>2. (CHOOSE x \in 1..MaxNibbles : Ends(x)) = k
    BY <1>4, <1>6, <1>7
  <2> QED BY <2>1, <2>2
<1>9. ASSUME NEW j \in 1..k PROVE Field(st, pos + (4 * j - 4), 3) = d[j]
  <2> DEFINE p == pos + (4 * j - 4)
  <2>1. p \in Nat /\ \A i \in 1..3 : p + i = pos + ((4 * j - 4) + i) /\ (4 * j - 4) + i \in 1..(4 * k)
    BY <1>2
  <2>2. d[j] \in 0..7
    BY <1>3
  <2>3. Len(Bits(d[j], 3)) = 3
    <3>1. 3 \in Nat /\ d[j] \in Nat
      BY <2>2
    <3> QED BY <3>1, BitsType, Zenon
  <2>4. Lies(Bits(d[j], 3), st, p)
    <3> SUFFICES ASSUME NEW i \in 1..3 PROVE p + i <= Len(st) /\ st[p + i] = Bits(d[j], 3)[i]
      BY <2>3, Zenon DEF Lies
    <3>1. p + i = pos + ((4 * j - 4) + i) /\ (4 * j - 4) + i \in 1..Len(Nibbles[v])
      BY <1>2, <2>1
    <3>2. pos + ((4 * j - 4) + i) <= Len(st) /\ st[pos + ((4 * j - 4) + i)] = Nibbles[v][(4 * j - 4) + i]
      BY <3>1, Zenon DEF Lies
    <3>3. Nibbles[v][(4 * j - 4) + i] = Bits(d[j], 3)[i]
      BY <1>3
    <3> QED BY <3>1, <3>2, <3>3
  <2> HIDE DEF p
  <2>5. Field(st, p, 3) = d[j]
    BY <2>1, <2>2, <2>4, ThreeBits
  <2> QED BY <2>5 DEF p
<1> DEFINE digits == [i \in 1..k |-> Field(st, pos + 4 * (k - i), 3)]
           up == [i \in 0..k |-> w[(k - i) + 1]]
<1>10. ASSUME NEW i \in 1..k PROVE up[i] = 8 * up[i - 1] + digits[i]
  <2> DEFINE j == (k - i) + 1
  <2>1. j \in 1..k /\ i \in 0..k /\ i - 1 \in 0..k /\ (k - (i - 1)) + 1 = j + 1 /\ 4 * (k - i) = 4 * j - 4
    BY <1>2
  <2>2. up[i] = w[j] /\ up[i - 1] = w[j + 1]
    BY <2>1
  <2>3. digits[i] = d[j]
    <3>1. digits[i] = Field(st, pos + 4 * (k - i), 3)
      OBVIOUS
    <3> HIDE DEF j, digits
    <3> QED BY <1>9, <2>1, <3>1
  <2> HIDE DEF j, digits, up
  <2>4. w[j] = 8 * w[j + 1] + d[j]
    BY <1>3, <2>1
  <2> QED BY <2>2, <2>3, <2>4
<1>11. up[0] = 0 /\ up[k] = v
  <2>1. 0 \in 0..k /\ k \in 0..k /\ (k - 0) + 1 = k + 1 /\ (k - k) + 1 = 1
    BY <1>2
  <2> QED BY <1>2, <2>1
<1>12. Len(digits) = k
  BY <1>2
<1>13. NibblesValue(st, pos) = NumberOf(digits, 8)
  BY <1>8 DEF NibblesValue
<1> HIDE DEF digits, up
<1>14. NumberOf(digits, 8) = up[k]
  BY <1>2, <1>10, <1>11, <1>12, NumberOfIs
<1> QED BY <1>2, <1>8, <1>11, <1>13, <1>14 DEF NibblesEnd


----------------------------------------------------------------------------
(* The bits of a circuit give it back.                                     *)

LEMMA NibblesType ==
    ASSUME NEW v \in U32
    PROVE  v \in Nat /\ BitsForValue[v] <= 32 /\ Nibbles[v] \in Seq(Bit) /\ Len(Nibbles[v]) \in Nat
<1>1. v \in Nat /\ BitsForValue[v] <= 32
  BY DEF U32
<1> QED BY <1>1, NibblesUnfold

\* A field at the start of what is left, and where the rest is.
LEMMA FieldThenRest ==
    ASSUME NEW st, NEW pos \in Nat, NEW width \in Nat, NEW v \in 0..(Pow2[width] - 1), NEW rest \in Seq(Bit),
           Lies(Bits(v, width) \o rest, st, pos)
    PROVE  Field(st, pos, width) = v /\ Lies(rest, st, pos + width)
<1>1. v \in Nat
  OBVIOUS
<1>2. Bits(v, width) \in Seq(Bit) /\ Len(Bits(v, width)) = width
  BY <1>1, BitsType
<1>3. Lies(Bits(v, width), st, pos) /\ Lies(rest, st, pos + width)
  BY <1>2, LiesOfTwo
<1> QED BY <1>3, FieldIs

LEMMA NibblesThenRest ==
    ASSUME NEW st, NEW pos \in Nat, NEW v \in U32, NEW rest \in Seq(Bit), Lies(Nibbles[v] \o rest, st, pos)
    PROVE  /\ NibblesEnd(st, pos) = pos + Len(Nibbles[v]) /\ NibblesEnd(st, pos) \in Nat
           /\ NibblesValue(st, pos) = v /\ Lies(rest, st, NibblesEnd(st, pos))
<1>1. v \in Nat /\ BitsForValue[v] <= 32 /\ Nibbles[v] \in Seq(Bit) /\ Len(Nibbles[v]) \in Nat
  BY NibblesType
<1>2. Lies(Nibbles[v], st, pos) /\ Lies(rest, st, pos + Len(Nibbles[v]))
  BY <1>1, LiesOfTwo, Zenon
<1>3. NibblesEnd(st, pos) = pos + Len(Nibbles[v]) /\ NibblesValue(st, pos) = v
  BY <1>1, <1>2, NibblesRead
<1> QED BY <1>1, <1>2, <1>3

LEMMA NibblesAlone ==
    ASSUME NEW st, NEW pos \in Nat, NEW v \in U32, Lies(Nibbles[v], st, pos)
    PROVE  /\ NibblesEnd(st, pos) = pos + Len(Nibbles[v]) /\ NibblesEnd(st, pos) \in Nat
           /\ NibblesValue(st, pos) = v
<1>1. v \in Nat /\ BitsForValue[v] <= 32 /\ Nibbles[v] \in Seq(Bit) /\ Len(Nibbles[v]) \in Nat
  BY NibblesType
<1>2. NibblesEnd(st, pos) = pos + Len(Nibbles[v]) /\ NibblesValue(st, pos) = v
  BY <1>1, NibblesRead
<1> QED BY <1>1, <1>2

\* The parts of sequences of bits, from the left.
LEMMA Regrouped ==
    ASSUME NEW s \in Seq(Bit), NEW t \in Seq(Bit), NEW u \in Seq(Bit)
    PROVE  (s \o t) \o u = s \o (t \o u) /\ t \o u \in Seq(Bit) /\ Len(t \o u) = Len(t) + Len(u)
<1>1. t \o u \in Seq(Bit) /\ Len(t \o u) = Len(t) + Len(u)
  OBVIOUS
<1>2. (s \o t) \o u = s \o (t \o u)
  OBVIOUS
<1> QED BY <1>1, <1>2


\* A sequence of m bits, and one made of two.
Has(s, m) == s \in Seq(Bit) /\ Len(s) = m

MadeOf(u, s, t) == u = s \o t

LEMMA JoinedHas ==
    ASSUME NEW u, NEW s, NEW t, NEW m, NEW n, MadeOf(u, s, t), Has(s, m), Has(t, n)
    PROVE  Has(u, m + n)
BY LenOfTwo DEF Has, MadeOf

LEMMA JoinedLies ==
    ASSUME NEW u, NEW s, NEW t, NEW m, NEW n, MadeOf(u, s, t), Has(s, m), Has(t, n),
           NEW st, NEW pos \in Nat, Lies(u, st, pos)
    PROVE  Lies(s, st, pos) /\ Lies(t, st, pos + m)
BY LiesOfTwo, Zenon DEF Has, MadeOf

\* What the reader finds behind a position.
Reads(type, pos, value, len) ==
    /\ ReadValue(type, pos).ok /\ ReadValue(type, pos).end = pos + len
    /\ ReadValue(type, pos).value = value

LEMMA PlanReads ==
    ASSUME NEW v \in PlanType, NEW p \in Nat, NEW c, c = [type |-> "plan", value |-> v]
    PROVE  /\ CircuitBits(c) \in Seq(Bit) /\ Content(c) = c
           /\ Lies(CircuitBits(c), bits, p) => Reads("plan", p, v, Len(CircuitBits(c)))
<1> DEFINE index == KindIndex(v.kind)
           f == Bits(index, 6)
           s == Nibbles[v.period]
           t == Nibbles[v.head]
<1>1. /\ v.kind \in Kinds /\ v.period \in U32 /\ v.head \in U32
      /\ v = [kind |-> v.kind, period |-> v.period, head |-> v.head]
  BY DEF PlanType
<1>2. /\ index \in 0..(Pow2[6] - 1) /\ index \in Nat /\ KindIndexBits = 6 /\ HasKind(index) /\ KindOf(index) = v.kind
  <2>1. v.kind \in 0..26 \cup 200..222
    BY <1>1 DEF Kinds
  <2> QED BY <2>1, KindsAreIndexed
<1>3. f \in Seq(Bit) /\ Len(f) = 6 /\ s \in Seq(Bit) /\ t \in Seq(Bit) /\ Len(s) \in Nat /\ Len(t) \in Nat
  <2>1. 6 \in Nat
    OBVIOUS
  <2> HIDE DEF index
  <2>2. f \in Seq(Bit) /\ Len(f) = 6
    BY <1>2, <2>1, BitsType, Zenon
  <2> QED BY <1>1, <2>2, NibblesType
<1>4. CircuitBits(c) = (f \o s) \o t /\ Content(c) = c /\ c.type = "plan" /\ c.value = v
  BY <1>2, Zenon DEF CircuitBits, Content
<1> HIDE DEF f, s, t, index
<1>5. (f \o s) \o t = f \o (s \o t) /\ s \o t \in Seq(Bit) /\ Len(s \o t) = Len(s) + Len(t)
  BY <1>3, Regrouped
<1>6. f \o (s \o t) \in Seq(Bit) /\ Len(f \o (s \o t)) = 6 + (Len(s) + Len(t))
  <2>1. Has(f, 6) /\ Has(s \o t, Len(s) + Len(t)) /\ MadeOf(f \o (s \o t), f, s \o t)
    BY <1>3, <1>5, Zenon DEF Has, MadeOf
  <2>2. Has(f \o (s \o t), 6 + (Len(s) + Len(t)))
    BY <2>1, JoinedHas, Zenon
  <2> QED BY <2>2 DEF Has
<1>7. ASSUME Lies(f \o (s \o t), bits, p) PROVE Reads("plan", p, v, 6 + (Len(s) + Len(t)))
  <2>1. Field(bits, p, 6) = index /\ Lies(s \o t, bits, p + 6)
    <3>1. 6 \in Nat
      OBVIOUS
    <3>2. Lies(Bits(index, 6) \o (s \o t), bits, p)
      BY <1>7 DEF f
    <3> QED BY <1>2, <1>5, <3>1, <3>2, FieldThenRest, Zenon
  <2>2. /\ NibblesEnd(bits, p + 6) = (p + 6) + Len(s) /\ NibblesEnd(bits, p + 6) \in Nat
        /\ NibblesValue(bits, p + 6) = v.period /\ Lies(t, bits, NibblesEnd(bits, p + 6))
    <3>1. p + 6 \in Nat
      OBVIOUS
    <3> QED BY <1>1, <1>3, <2>1, <3>1, NibblesThenRest DEF s
  <2> DEFINE headAt == NibblesEnd(bits, p + 6)
  <2>3. NibblesEnd(bits, headAt) = headAt + Len(t) /\ NibblesValue(bits, headAt) = v.head
    <3>1. headAt \in Nat /\ Lies(Nibbles[v.head], bits, headAt)
      BY <2>2 DEF t
    <3> HIDE DEF headAt
    <3> QED BY <1>1, <3>1, NibblesAlone DEF t
  <2>4. /\ ReadPlan(p).ok /\ ReadPlan(p).end = NibblesEnd(bits, headAt)
        /\ ReadPlan(p).value = Plan(KindOf(index), NibblesValue(bits, p + 6), NibblesValue(bits, headAt))
    <3>1. HasKind(index) /\ KindOf(index) \in Kinds
      BY <1>1, <1>2
    <3> HIDE DEF headAt
    <3> QED BY <1>2, <2>1, <3>1, Zenon DEF ReadPlan, headAt
  <2>5. ReadPlan(p).value = v
    BY <1>1, <1>2, <2>2, <2>3, <2>4 DEF Plan
  <2>6. ReadPlan(p).end = p + (6 + (Len(s) + Len(t)))
    BY <1>3, <2>2, <2>3, <2>4
  <2> QED BY <2>4, <2>5, <2>6 DEF Reads, ReadValue
<1> QED BY <1>4, <1>5, <1>6, <1>7, Zenon


LEMMA BitThere ==
    ASSUME NEW st, NEW pos \in Nat, NEW b \in Bit, Lies(<<b>>, st, pos)
    PROVE  Field(st, pos, 1) = b
<1>1. Len(<<b>>) = 1 /\ 1 \in 1..1 /\ <<b>>[1] = b
  OBVIOUS
<1>2. pos + 1 <= Len(st) /\ st[pos + 1] = <<b>>[1]
  BY <1>1 DEF Lies
<1> QED BY <1>1, <1>2, OneBit

LEMMA FieldAlone ==
    ASSUME NEW st, NEW pos \in Nat, NEW width \in Nat, NEW v \in 0..(Pow2[width] - 1), Lies(Bits(v, width), st, pos)
    PROVE  Field(st, pos, width) = v
BY FieldIs

LEMMA NodeReads ==
    ASSUME NEW v \in NodeType, NEW p \in Nat, NEW c, c = [type |-> "node", value |-> v]
    PROVE  /\ CircuitBits(c) \in Seq(Bit) /\ Content(c) = [type |-> "node", value |-> [v EXCEPT !.id = 0]]
           /\ Lies(CircuitBits(c), bits, p) => Reads("node", p, [v EXCEPT !.id = 0], Len(CircuitBits(c)))
<1> DEFINE index == KindIndex(v.kind)
           r == Bits(v.relation, 1)
           o == Bits(v.order, 2)
           f == Bits(index, 6)
           up == IF v.parent = NoParent THEN <<1>> ELSE <<0>> \o Nibbles[v.parent]
           s == Nibbles[v.a]
           t == Nibbles[v.b]
<1>1. /\ v.kind \in 0..26 \cup 200..222 /\ v.a \in U32 /\ v.b \in U32 /\ v.parent \in U32
      /\ v.relation \in 0..1 /\ v.order \in 0..3
      /\ v = [id |-> v.id, parent |-> v.parent, relation |-> v.relation, order |-> v.order, kind |-> v.kind,
              a |-> v.a, b |-> v.b]
  BY DEF NodeType
<1>2. /\ index \in 0..(Pow2[6] - 1) /\ index \in Nat /\ KindIndexBits = 6 /\ HasKind(index) /\ KindOf(index) = v.kind
  BY <1>1, KindsAreIndexed
<1>a. /\ v.relation % 2 = v.relation /\ v.order % 4 = v.order /\ OrderBits = 2
      /\ v.relation \in 0..(Pow2[1] - 1) /\ v.order \in 0..(Pow2[2] - 1)
  <2>1. Pow2[1] = 2 /\ Pow2[2] = 4
    BY PowValues
  <2>2. \A x \in 0..1 : x % 2 = x /\ x \in 0..(2 - 1)
    OBVIOUS
  <2>3. \A x \in 0..3 : x % 4 = x /\ x \in 0..(4 - 1)
    OBVIOUS
  <2> QED BY <1>1, <2>1, <2>2, <2>3 DEF OrderBits
<1>3. /\ f \in Seq(Bit) /\ Len(f) = 6 /\ r \in Seq(Bit) /\ Len(r) = 1 /\ o \in Seq(Bit) /\ Len(o) = 2
      /\ s \in Seq(Bit) /\ t \in Seq(Bit) /\ Len(s) \in Nat /\ Len(t) \in Nat
  <2>1. 6 \in Nat /\ 1 \in Nat /\ 2 \in Nat /\ v.relation \in Nat /\ v.order \in Nat
    BY <1>1
  <2> HIDE DEF index
  <2>2. f \in Seq(Bit) /\ Len(f) = 6
    BY <1>2, <2>1, BitsType, Zenon
  <2>3. r \in Seq(Bit) /\ Len(r) = 1
    BY <1>2, <2>1, BitsType, Zenon
  <2>4. o \in Seq(Bit) /\ Len(o) = 2
    BY <1>2, <2>1, BitsType, Zenon
  <2> QED BY <1>1, <2>2, <2>3, <2>4, NibblesType
<1>4. <<0>> \in Seq(Bit) /\ <<1>> \in Seq(Bit) /\ Len(<<0>>) = 1 /\ Len(<<1>>) = 1
  BY DEF Bit
<1>5. Nibbles[v.parent] \in Seq(Bit) /\ Len(Nibbles[v.parent]) \in Nat
  BY <1>1, NibblesType
<1>6. up \in Seq(Bit) /\ Len(up) \in Nat
      /\ Len(up) = IF v.parent = NoParent THEN 1 ELSE 1 + Len(Nibbles[v.parent])
  <2>1. CASE v.parent = NoParent
    BY <1>4, <2>1
  <2>2. CASE v.parent # NoParent
    <3>1. <<0>> \o Nibbles[v.parent] \in Seq(Bit) /\ Len(<<0>> \o Nibbles[v.parent]) = 1 + Len(Nibbles[v.parent])
      BY <1>4, <1>5, PartsOfTwo
    <3> QED BY <1>5, <2>2, <3>1
  <2> QED BY <2>1, <2>2
<1> DEFINE all == ((((r \o o) \o f) \o up) \o s) \o t
<1>7. c.type = "node" /\ c.value = v
  OBVIOUS
<1>8. CircuitBits(c) = all
  BY <1>2, <1>7, <1>a, Zenon DEF CircuitBits
<1>9. Content(c) = [type |-> "node", value |-> [v EXCEPT !.id = 0]]
  BY <1>7 DEF Content
<1> DEFINE x1 == r \o o
           x2 == x1 \o f
           x3 == x2 \o up
           x4 == x3 \o s
           n == Len(up)
           k == Len(s)
           m == Len(t)
<1>b. all = x4 \o t
  OBVIOUS
<1> HIDE DEF r, o, f, s, t, up, index, all
<1>c. /\ MadeOf(x1, r, o) /\ MadeOf(x2, x1, f) /\ MadeOf(x3, x2, up) /\ MadeOf(x4, x3, s) /\ MadeOf(all, x4, t)
      /\ Len(up) = n /\ Len(s) = k /\ Len(t) = m
  BY <1>b, Zenon DEF MadeOf
<1>d. 1 + 2 = 3 /\ 3 + 6 = 9 /\ n \in Nat /\ k \in Nat /\ m \in Nat
  BY <1>3, <1>6
<1>e. Has(r, 1) /\ Has(o, 2) /\ Has(f, 6) /\ Has(up, n) /\ Has(s, k) /\ Has(t, m)
  BY <1>3, <1>6, Zenon DEF Has
<1>f. n = IF v.parent = NoParent THEN 1 ELSE 1 + Len(Nibbles[v.parent])
  BY <1>6
<1> HIDE DEF x1, x2, x3, x4, n, k, m
<1>10. Has(x1, 1 + 2)
  BY <1>c, <1>e, JoinedHas, Zenon
<1>y. Has(x1, 3)
  BY <1>d, <1>10, Zenon
<1>11. Has(x2, 3 + 6)
  BY <1>y, <1>c, <1>e, JoinedHas, Zenon
<1>z. Has(x2, 9)
  BY <1>d, <1>11, Zenon
<1>12. Has(x3, 9 + n)
  BY <1>z, <1>c, <1>e, JoinedHas, Zenon
<1>13. Has(x4, 9 + n + k)
  BY <1>12, <1>c, <1>e, JoinedHas, Zenon
<1>14. Has(all, 9 + n + k + m)
  BY <1>13, <1>c, <1>e, JoinedHas, Zenon
<1>15. ASSUME Lies(all, bits, p) PROVE Reads("node", p, [v EXCEPT !.id = 0], 9 + n + k + m)
  <2>1. Lies(x4, bits, p) /\ Lies(t, bits, p + (9 + n + k))
    BY <1>13, <1>15, <1>c, <1>e, JoinedLies, SMT
  <2>2. Lies(x3, bits, p) /\ Lies(s, bits, p + (9 + n))
    BY <1>12, <1>c, <1>e, <2>1, JoinedLies, SMT
  <2>3. Lies(x2, bits, p) /\ Lies(up, bits, p + 9)
    BY <1>z, <1>c, <1>e, <2>2, JoinedLies, SMT
  <2>4. Lies(x1, bits, p) /\ Lies(f, bits, p + 3)
    BY <1>y, <1>c, <1>e, <2>3, JoinedLies, SMT
  <2>5. Lies(r, bits, p) /\ Lies(o, bits, p + 1)
    BY <1>c, <1>e, <2>4, JoinedLies, Zenon
  <2>6. Field(bits, p, 1) = v.relation
    <3>1. 1 \in Nat /\ Lies(Bits(v.relation, 1), bits, p)
      BY <2>5 DEF r
    <3> QED BY <1>a, <3>1, FieldAlone
  <2>7. Field(bits, p + 1, 2) = v.order
    <3>1. 2 \in Nat /\ p + 1 \in Nat /\ Lies(Bits(v.order, 2), bits, p + 1)
      BY <2>5 DEF o
    <3> QED BY <1>a, <3>1, FieldAlone
  <2>8. Field(bits, p + 3, 6) = index
    <3>1. 6 \in Nat /\ p + 3 \in Nat /\ Lies(Bits(index, 6), bits, p + 3)
      BY <2>4 DEF f
    <3> QED BY <1>2, <3>1, FieldAlone
  <2> DEFINE root == Field(bits, p + 9, 1) = 1
             aAt == IF root THEN p + 10 ELSE NibblesEnd(bits, p + 10)
             upValue == IF root THEN NoParent ELSE NibblesValue(bits, p + 10)
  <2>9. aAt = p + (9 + n) /\ aAt \in Nat /\ upValue = v.parent
    <3>1. CASE v.parent = NoParent
      <4>1. up = <<1>> /\ n = 1
        BY <1>f, <3>1 DEF up
      <4>2. 1 \in Bit /\ p + 9 \in Nat /\ Lies(<<1>>, bits, p + 9)
        BY <2>3, <4>1 DEF Bit
      <4>3. Field(bits, p + 9, 1) = 1
        BY <4>2, BitThere
      <4>4. root /\ aAt = p + 10 /\ upValue = NoParent
        BY <4>3
      <4> HIDE DEF root, aAt, upValue
      <4> QED BY <3>1, <4>1, <4>4
    <3>2. CASE v.parent # NoParent
      <4>1. up = <<0>> \o Nibbles[v.parent] /\ n = 1 + Len(Nibbles[v.parent])
        BY <1>f, <3>2 DEF up
      <4>2. 0 \in Bit /\ p + 9 \in Nat /\ (p + 9) + 1 = p + 10 /\ p + 10 \in Nat
        BY DEF Bit
      <4>3. Lies(<<0>>, bits, p + 9) /\ Lies(Nibbles[v.parent], bits, p + 10)
        <5>1. Lies(<<0>> \o Nibbles[v.parent], bits, p + 9)
          BY <2>3, <4>1
        <5>2. /\ Has(<<0>>, 1) /\ Has(Nibbles[v.parent], Len(Nibbles[v.parent]))
              /\ MadeOf(<<0>> \o Nibbles[v.parent], <<0>>, Nibbles[v.parent])
          BY <1>4, <1>5, Zenon DEF Has, MadeOf
        <5>3. Lies(<<0>>, bits, p + 9) /\ Lies(Nibbles[v.parent], bits, (p + 9) + 1)
          BY <4>2, <5>1, <5>2, JoinedLies, SMT
        <5> QED BY <4>2, <5>3, Zenon
      <4>4. Field(bits, p + 9, 1) = 0
        BY <4>2, <4>3, BitThere
      <4>5. NibblesEnd(bits, p + 10) = (p + 10) + Len(Nibbles[v.parent]) /\ NibblesValue(bits, p + 10) = v.parent
        BY <1>1, <4>2, <4>3, NibblesAlone
      <4>7. ~root
        BY <4>4
      <4>6. aAt = (p + 10) + Len(Nibbles[v.parent]) /\ upValue = v.parent
        BY <4>5, <4>7, Zenon
      <4> HIDE DEF root, aAt, upValue
      <4> QED BY <1>5, <4>1, <4>6
    <3> QED BY <3>1, <3>2
  <2> HIDE DEF aAt
  <2>10. NibblesEnd(bits, aAt) = p + (9 + n + k) /\ NibblesEnd(bits, aAt) \in Nat /\ NibblesValue(bits, aAt) = v.a
    <3>1. Lies(Nibbles[v.a], bits, aAt)
      BY <2>2, <2>9 DEF s
    <3>2. NibblesEnd(bits, aAt) = aAt + Len(s) /\ NibblesEnd(bits, aAt) \in Nat /\ NibblesValue(bits, aAt) = v.a
      BY <1>1, <2>9, <3>1, NibblesAlone DEF s
    <3> QED BY <1>c, <1>d, <2>9, <3>2
  <2> DEFINE bAt == NibblesEnd(bits, aAt)
  <2>11. NibblesEnd(bits, bAt) = p + (9 + n + k + m) /\ NibblesValue(bits, bAt) = v.b
    <3>1. Lies(Nibbles[v.b], bits, bAt) /\ bAt \in Nat /\ bAt = p + (9 + n + k)
      BY <2>1, <2>10 DEF t
    <3> HIDE DEF bAt
    <3>2. NibblesEnd(bits, bAt) = bAt + Len(t) /\ NibblesValue(bits, bAt) = v.b
      BY <1>1, <3>1, NibblesAlone DEF t
    <3> QED BY <1>c, <1>d, <3>1, <3>2
  <2>12. /\ ReadStandaloneNode(p).ok = HasKind(index) /\ ReadStandaloneNode(p).end = NibblesEnd(bits, bAt)
         /\ ReadStandaloneNode(p).value = Node(0, upValue, v.relation, v.order, KindOf(index),
                                               NibblesValue(bits, aAt), NibblesValue(bits, bAt))
    <3> HIDE DEF bAt
    <3> QED BY <1>2, <1>a, <2>6, <2>7, <2>8, Zenon DEF ReadStandaloneNode, aAt, bAt
  <2> HIDE DEF bAt, upValue, root
  <2>13. ReadStandaloneNode(p).value = [v EXCEPT !.id = 0]
    <3>1. ReadStandaloneNode(p).value = Node(0, v.parent, v.relation, v.order, v.kind, v.a, v.b)
      BY <1>2, <2>9, <2>10, <2>11, <2>12 DEF bAt
    <3> QED BY <1>1, <3>1 DEF Node
  <2>14. ReadValue("node", p) = ReadStandaloneNode(p)
    BY DEF ReadValue
  <2> QED BY <1>2, <2>11, <2>12, <2>13, <2>14, Zenon DEF Reads
<1> QED BY <1>8, <1>9, <1>14, <1>15 DEF Has


LEMMA CircuitReads ==
    ASSUME NEW c \in Circuits
    PROVE  /\ CircuitBits(c) \in Seq(Bit) /\ Len(CircuitBits(c)) \in Nat /\ Content(c).type = c.type
           /\ \A p \in Nat : Lies(CircuitBits(c), bits, p)
                  => Reads(c.type, p, Content(c).value, Len(CircuitBits(c)))
<1>1. c \in [type : {"plan"}, value : PlanType] \/ c \in [type : {"node"}, value : NodeType]
  BY CircuitAssumption
<1>2. CASE c \in [type : {"plan"}, value : PlanType]
  <2>1. c.value \in PlanType /\ c = [type |-> "plan", value |-> c.value] /\ c.type = "plan"
    BY <1>2
  <2>2. CircuitBits(c) \in Seq(Bit) /\ Content(c) = c
    <3>1. 0 \in Nat
      OBVIOUS
    <3> QED BY <2>1, <3>1, PlanReads
  <2>3. ASSUME NEW p \in Nat, Lies(CircuitBits(c), bits, p)
        PROVE  Reads(c.type, p, Content(c).value, Len(CircuitBits(c)))
    BY <2>1, <2>2, <2>3, PlanReads
  <2> QED BY <2>2, <2>3
<1>3. CASE c \in [type : {"node"}, value : NodeType]
  <2>1. c.value \in NodeType /\ c = [type |-> "node", value |-> c.value] /\ c.type = "node"
    BY <1>3
  <2>2. CircuitBits(c) \in Seq(Bit) /\ Content(c) = [type |-> "node", value |-> [c.value EXCEPT !.id = 0]]
    <3>1. 0 \in Nat
      OBVIOUS
    <3> QED BY <2>1, <3>1, NodeReads, Zenon
  <2>3. Content(c).type = c.type /\ Content(c).value = [c.value EXCEPT !.id = 0]
    BY <2>1, <2>2
  <2>4. ASSUME NEW p \in Nat, Lies(CircuitBits(c), bits, p)
        PROVE  Reads(c.type, p, Content(c).value, Len(CircuitBits(c)))
    BY <2>1, <2>3, <2>4, NodeReads
  <2> QED BY <2>2, <2>3, <2>4
<1> QED BY <1>1, <1>2, <1>3

----------------------------------------------------------------------------
(* What lies in the stream.                                                *)

Contents == {Content(c) : c \in Circuits}

\* A circuit and its id, the bits it takes in st (from and to), and how many contents
\* were defined before it and after it.
Definition(circuit, id, st, from, to, before, after) ==
    /\ id = before /\ after = before + 1
    /\ Lies(<<0>>, st, from) /\ Lies(CircuitBits(circuit), st, from + 1)
    /\ to = from + 1 + Len(CircuitBits(circuit))
Reference(circuit, id, st, from, to, before, after) ==
    /\ id < before /\ after = before
    /\ Lies(<<1>>, st, from) /\ Lies(Bits(id, BitsForIndex(before)), st, from + 1)
    /\ to = from + 1 + BitsForIndex(before)
Item(circuit, id, st, contents, from, to, before, after) ==
    /\ circuit \in Circuits /\ id \in Nat /\ from \in Nat /\ to \in Nat /\ before \in Nat /\ after \in Nat
    /\ to <= Len(st) /\ after <= Len(contents) /\ contents[id + 1] = Content(circuit)
    /\ \/ Definition(circuit, id, st, from, to, before, after)
       \/ Reference(circuit, id, st, from, to, before, after)

LEMMA ItemOrder ==
    ASSUME NEW circuit, NEW id, NEW st, NEW contents, NEW from, NEW to, NEW before, NEW after,
           Item(circuit, id, st, contents, from, to, before, after)
    PROVE  id \in Nat /\ ((id = before /\ after = before + 1) \/ (id < before /\ after = before))
<1>1. id \in Nat /\ (Definition(circuit, id, st, from, to, before, after) \/ Reference(circuit, id, st, from, to, before, after))
  BY Zenon DEF Item
<1>2. Definition(circuit, id, st, from, to, before, after) => id = before /\ after = before + 1
  BY Zenon DEF Definition
<1>3. Reference(circuit, id, st, from, to, before, after) => id < before /\ after = before
  BY Zenon DEF Reference
<1> QED BY <1>1, <1>2, <1>3, Zenon

\* An item stays one when bits and contents follow.
LEMMA ItemStays ==
    ASSUME NEW circuit, NEW id, NEW st \in Seq(Bit), NEW contents \in Seq(Contents),
           NEW from, NEW to, NEW before, NEW after,
           Item(circuit, id, st, contents, from, to, before, after),
           NEW more \in Seq(Bit), NEW others \in Seq(Contents), Len(contents) <= Len(others),
           \A e \in 1..Len(contents) : others[e] = contents[e]
    PROVE  Item(circuit, id, st \o more, others, from, to, before, after)
<1>1. /\ circuit \in Circuits /\ id \in Nat /\ from \in Nat /\ to \in Nat /\ before \in Nat /\ after \in Nat
      /\ to <= Len(st) /\ after <= Len(contents) /\ contents[id + 1] = Content(circuit)
      /\ \/ Definition(circuit, id, st, from, to, before, after)
         \/ Reference(circuit, id, st, from, to, before, after)
  BY DEF Item
<1>2. Len(st \o more) = Len(st) + Len(more) /\ Len(st) \in Nat /\ Len(more) \in Nat
  OBVIOUS
<1>3. Len(contents) \in Nat /\ Len(others) \in Nat
  OBVIOUS
<1>4. <<0>> \in Seq(Bit) /\ <<1>> \in Seq(Bit) /\ from + 1 \in Nat
  BY <1>1 DEF Bit
<1>5. id < after
  BY <1>1 DEF Definition, Reference
<1>6. others[id + 1] = Content(circuit)
  BY <1>1, <1>3, <1>5
<1>7. CASE Definition(circuit, id, st, from, to, before, after)
  <2>1. Lies(<<0>>, st, from) /\ Lies(CircuitBits(circuit), st, from + 1)
    BY <1>7 DEF Definition
  <2>2. CircuitBits(circuit) \in Seq(Bit)
    BY <1>1, CircuitReads
  <2>3. Lies(<<0>>, st \o more, from) /\ Lies(CircuitBits(circuit), st \o more, from + 1)
    BY <1>1, <1>4, <2>1, <2>2, LiesInLonger, Zenon
  <2>4. Definition(circuit, id, st \o more, from, to, before, after)
    BY <1>7, <2>3 DEF Definition
  <2> QED BY <1>1, <1>2, <1>3, <1>6, <2>4 DEF Item
<1>8. CASE Reference(circuit, id, st, from, to, before, after)
  <2>1. Lies(<<1>>, st, from) /\ Lies(Bits(id, BitsForIndex(before)), st, from + 1)
    BY <1>8 DEF Reference
  <2>2. Bits(id, BitsForIndex(before)) \in Seq(Bit)
    BY <1>1, IndexWidth, BitsType
  <2>3. Lies(<<1>>, st \o more, from) /\ Lies(Bits(id, BitsForIndex(before)), st \o more, from + 1)
    BY <1>1, <1>4, <2>1, <2>2, LiesInLonger, Zenon
  <2>4. Reference(circuit, id, st \o more, from, to, before, after)
    BY <1>8, <2>3 DEF Reference
  <2> QED BY <1>1, <1>2, <1>3, <1>6, <2>4 DEF Item
<1> QED BY <1>1, <1>7, <1>8

\* A tag and what follows it, at the end of a stream.
LEMMA TaggedAtTheEnd ==
    ASSUME NEW st \in Seq(Bit), NEW tag \in Bit, NEW s \in Seq(Bit)
    PROVE  LET all == st \o <<tag>> \o s
           IN /\ all \in Seq(Bit) /\ Len(all) = Len(st) + 1 + Len(s) /\ Len(st) \in Nat
              /\ Lies(<<tag>>, all, Len(st)) /\ Lies(s, all, Len(st) + 1)
              /\ all = st \o (<<tag>> \o s) /\ <<tag>> \o s \in Seq(Bit)
<1> DEFINE one == <<tag>>
<1>1. one \in Seq(Bit) /\ Len(one) = 1 /\ Len(st) \in Nat
  OBVIOUS
<1> HIDE DEF one
<1>2. st \o one \in Seq(Bit) /\ Len(st \o one) = Len(st) + 1
  BY <1>1, LenOfTwo, ZenonT(40)
<1>3. (st \o one) \o s \in Seq(Bit) /\ Len((st \o one) \o s) = Len(st) + 1 + Len(s)
  BY <1>2, LenOfTwo
<1>4. Lies(one, st \o one, Len(st))
  BY <1>1, LiesAtTheEnd
<1>5. Lies(one, (st \o one) \o s, Len(st))
  BY <1>1, <1>2, <1>4, LiesInLonger, Zenon
<1>6. Lies(s, (st \o one) \o s, Len(st \o one))
  BY <1>2, LiesAtTheEnd, Zenon
<1>7. (st \o one) \o s = st \o (one \o s) /\ one \o s \in Seq(Bit)
  BY <1>1, Regrouped
<1> QED BY <1>1, <1>2, <1>3, <1>5, <1>6, <1>7 DEF one


----------------------------------------------------------------------------
(* The invariant of the interning stream: where each circuit lies, and     *)
(* what the reader knows.                                                  *)

Count == Len(written)
ReadType == [ok : {TRUE}, id : Nat, value : {Content(c).value : c \in Circuits}]
StreamTypes ==
    /\ written \in Seq(Circuits) /\ ids \in Seq(Nat) /\ Len(ids) = Count /\ bits \in Seq(Bit)
    /\ interning \in Seq(Contents) /\ reading \in BOOLEAN /\ bitPos \in Nat
    /\ table \in Seq([start : Nat, end : Nat]) /\ decoded \in Seq(ReadType) /\ Len(decoded) <= Count

\* Where each circuit ends (pos) and how many contents are defined by then (seen).
Layout(pos, seen) ==
    /\ pos \in [0..Count -> Nat] /\ seen \in [0..Count -> Nat]
    /\ pos[0] = 0 /\ seen[0] = 0 /\ seen[Count] = Len(interning)
    /\ ~reading => pos[Count] = Len(bits) /\ decoded = <<>> /\ table = <<>> /\ bitPos = 0
    /\ \A i \in 1..Count :
          Item(written[i], ids[i], bits, interning, pos[i - 1], pos[i], seen[i - 1], seen[i])

\* An entry of the reader's table holds the definition of its id.
Known(entry, id, upTo) ==
    \E j \in 1..upTo : /\ ids[j] = id /\ Lies(CircuitBits(written[j]), bits, entry.start)
                       /\ entry.end = entry.start + Len(CircuitBits(written[j]))
Progress(pos, seen) ==
    LET k == Len(decoded)
    IN /\ bitPos = pos[k] /\ Len(table) = seen[k]
       /\ \A e \in 1..Len(table) : Known(table[e], e - 1, k)
       /\ \A i \in 1..k : /\ decoded[i].id = ids[i] /\ decoded[i].value = Content(written[i]).value
                          /\ ids[i] < seen[k]

StreamInv == StreamTypes /\ \E pos, seen : Layout(pos, seen) /\ Progress(pos, seen)

LEMMA StreamInitially ==
    StreamInit => StreamInv
<1> SUFFICES ASSUME StreamInit PROVE StreamInv
  OBVIOUS
<1> DEFINE pos == [i \in 0..0 |-> 0]
<1>1. /\ written = <<>> /\ ids = <<>> /\ bits = <<>> /\ interning = <<>>
      /\ reading = FALSE /\ bitPos = 0 /\ table = <<>> /\ decoded = <<>>
  BY DEF StreamInit
<1>2. StreamTypes /\ Count = 0
  <2>1. /\ written \in Seq(Circuits) /\ ids \in Seq(Nat) /\ bits \in Seq(Bit) /\ interning \in Seq(Contents)
        /\ table \in Seq([start : Nat, end : Nat]) /\ decoded \in Seq(ReadType)
    <3> HIDE DEF ReadType
    <3> QED BY <1>1
  <2>2. Len(written) = 0 /\ Len(ids) = 0 /\ Len(decoded) = 0
    BY <1>1
  <2>3. reading \in BOOLEAN /\ bitPos \in Nat /\ Len(ids) = Len(written) /\ Len(decoded) <= Len(written)
    <3>1. reading \in BOOLEAN
      BY <1>1, Zenon
    <3> QED BY <1>1, <2>2, <3>1
  <2> QED BY <2>1, <2>2, <2>3, Zenon DEF StreamTypes, Count
<1>3. pos \in [0..0 -> Nat] /\ pos[0] = 0 /\ Len(<<>>) = 0
  OBVIOUS
<1> HIDE DEF pos
<1>4. Layout(pos, pos)
  BY <1>1, <1>2, <1>3 DEF Layout
<1>5. Progress(pos, pos)
  BY <1>1, <1>3 DEF Progress
<1> QED BY <1>2, <1>4, <1>5 DEF StreamInv

\* A circuit appended by the writer, whatever is appended to the contents.
LEMMA OneMoreItem ==
    ASSUME StreamTypes, StreamTypes', NEW pos, NEW seen, Layout(pos, seen), Progress(pos, seen), ~reading,
           NEW circuit \in Circuits, NEW id \in Nat, NEW more \in Seq(Bit),
           bits' = bits \o more, written' = Append(written, circuit), ids' = Append(ids, id),
           Len(interning) <= Len(interning'),
           \A e \in 1..Len(interning) : interning'[e] = interning[e],
           Item(circuit, id, bits', interning', Len(bits), Len(bits'), Len(interning), Len(interning')),
           UNCHANGED <<reading, bitPos, table, decoded>>
    PROVE  StreamInv'
<1> DEFINE n == Count
           posAll == [i \in 0..(n + 1) |-> IF i <= n THEN pos[i] ELSE Len(bits')]
           seenAll == [i \in 0..(n + 1) |-> IF i <= n THEN seen[i] ELSE Len(interning')]
<1>1. /\ n \in Nat /\ Len(bits) \in Nat /\ Len(interning) \in Nat /\ Len(bits') \in Nat /\ Len(interning') \in Nat
      /\ Count' = n + 1 /\ Len(written) = n /\ Len(ids) = n
  BY DEF StreamTypes, Count
<1>2. /\ pos \in [0..n -> Nat] /\ seen \in [0..n -> Nat] /\ pos[0] = 0 /\ seen[0] = 0
      /\ seen[n] = Len(interning) /\ pos[n] = Len(bits)
      /\ decoded = <<>> /\ table = <<>> /\ bitPos = 0
  BY Zenon DEF Layout
<1>3. \A i \in 1..n : written'[i] = written[i] /\ ids'[i] = ids[i]
  BY <1>1 DEF StreamTypes
<1>4. written'[n + 1] = circuit /\ ids'[n + 1] = id
  BY <1>1 DEF StreamTypes
<1>p. PICK pos2 : pos2 = posAll
  BY Zenon
<1>q. PICK seen2 : seen2 = seenAll
  BY Zenon
<1>5. /\ pos2 \in [0..(n + 1) -> Nat] /\ seen2 \in [0..(n + 1) -> Nat] /\ pos2[0] = 0 /\ seen2[0] = 0
      /\ pos2[n + 1] = Len(bits') /\ seen2[n + 1] = Len(interning')
      /\ \A i \in 0..n : pos2[i] = pos[i] /\ seen2[i] = seen[i]
  <2> HIDE DEF n
  <2>1. /\ posAll \in [0..(n + 1) -> Nat] /\ seenAll \in [0..(n + 1) -> Nat] /\ posAll[0] = 0 /\ seenAll[0] = 0
        /\ posAll[n + 1] = Len(bits') /\ seenAll[n + 1] = Len(interning')
        /\ \A i \in 0..n : posAll[i] = pos[i] /\ seenAll[i] = seen[i]
    BY <1>1, <1>2, SMTT(30)
  <2> HIDE DEF posAll, seenAll
  <2> QED BY <2>1, <1>p, <1>q, Zenon
<1> HIDE DEF n, posAll, seenAll
<1>6. ASSUME NEW i \in 1..(n + 1)
      PROVE  Item(written'[i], ids'[i], bits', interning', pos2[i - 1], pos2[i], seen2[i - 1], seen2[i])
  <2>1. CASE i = n + 1
    <3>1. i - 1 = n /\ n \in 0..n
      BY <1>1, <2>1
    <3>2. pos2[i - 1] = Len(bits) /\ seen2[i - 1] = Len(interning) /\ pos2[i] = Len(bits') /\ seen2[i] = Len(interning')
          /\ written'[i] = circuit /\ ids'[i] = id
      BY <1>2, <1>4, <1>5, <2>1, <3>1, Zenon
    <3> QED BY <3>2
  <2>2. CASE i # n + 1
    <3>1. i \in 1..n /\ i \in 0..n /\ i - 1 \in 0..n
      BY <1>1, <2>2
    <3>2. Item(written[i], ids[i], bits, interning, pos[i - 1], pos[i], seen[i - 1], seen[i])
      BY <3>1 DEF Layout, n
    <3>3. bits \in Seq(Bit) /\ interning \in Seq(Contents) /\ interning' \in Seq(Contents)
      BY DEF StreamTypes
    <3>4. Item(written[i], ids[i], bits \o more, interning', pos[i - 1], pos[i], seen[i - 1], seen[i])
      BY <3>2, <3>3, ItemStays
    <3>5. /\ pos2[i - 1] = pos[i - 1] /\ pos2[i] = pos[i] /\ seen2[i - 1] = seen[i - 1] /\ seen2[i] = seen[i]
          /\ written'[i] = written[i] /\ ids'[i] = ids[i]
      BY <1>3, <1>5, <3>1, Zenon
    <3> QED BY <3>4, <3>5
  <2> QED BY <2>1, <2>2, Zenon
<1>7. Layout(pos2, seen2)'
  <2>1. /\ Count' = n + 1 /\ reading' = reading /\ bitPos' = 0 /\ table' = <<>> /\ decoded' = <<>>
    BY <1>1, <1>2
  <2>2. \A i \in 1..Count' :
          Item(written[i], ids[i], bits, interning, pos2[i - 1], pos2[i], seen2[i - 1], seen2[i])'
    BY <1>6, <2>1, Zenon DEF Item, Definition, Reference
  <2> QED BY <1>5, <2>1, <2>2, Zenon DEF Layout
<1>8. Progress(pos2, seen2)'
  <2>1. bitPos' = 0 /\ table' = <<>> /\ decoded' = <<>> /\ Len(<<>>) = 0
    BY <1>2
  <2> QED BY <1>5, <2>1 DEF Progress
<1> QED BY <1>7, <1>8 DEF StreamInv


LEMMA WriteReferenceKeeps ==
    ASSUME StreamInv, WriteReference
    PROVE  StreamInv'
<1>1. PICK pos, seen : Layout(pos, seen) /\ Progress(pos, seen)
  BY DEF StreamInv
<1>2. PICK circuit \in Circuits, id \in 0..(Len(interning) - 1) :
          /\ interning[id + 1] = Content(circuit)
          /\ bits' = bits \o <<1>> \o Bits(id, WriterWidth)
          /\ written' = Append(written, circuit) /\ ids' = Append(ids, id)
  BY Zenon DEF WriteReference
<1>3. ~reading /\ UNCHANGED <<interning, reading, bitPos, table, decoded>> /\ StreamTypes
  BY DEF WriteReference, Accepts, StreamInv
<1>4. Len(interning) \in Nat /\ id \in Nat /\ bits \in Seq(Bit)
  BY <1>3 DEF StreamTypes
<1> DEFINE s == Bits(id, WriterWidth)
           tag == 1
<1>5. WriterWidth \in Nat /\ s \in Seq(Bit) /\ Len(s) = WriterWidth /\ WriterWidth = BitsForIndex(Len(interning))
  <2>1. WriterWidth \in Nat /\ WriterWidth = BitsForIndex(Len(interning))
    BY <1>4, IndexWidth DEF WriterWidth
  <2> QED BY <1>4, <2>1, BitsType, Zenon
<1>6. tag \in Bit
  BY DEF Bit
<1>7. bits' = bits \o <<tag>> \o s
  BY <1>2
<1> HIDE DEF s, tag
<1>8. /\ bits' \in Seq(Bit) /\ Len(bits') = Len(bits) + 1 + Len(s) /\ Len(bits) \in Nat
      /\ Lies(<<tag>>, bits', Len(bits)) /\ Lies(s, bits', Len(bits) + 1)
      /\ bits' = bits \o (<<tag>> \o s) /\ <<tag>> \o s \in Seq(Bit)
  BY <1>4, <1>5, <1>6, <1>7, TaggedAtTheEnd, Zenon
<1>9. StreamTypes'
  <2>1. written' \in Seq(Circuits) /\ ids' \in Seq(Nat) /\ Len(ids') = Len(written') /\ Len(written') = Len(written) + 1
    BY <1>2, <1>3, <1>4 DEF StreamTypes, Count
  <2> QED BY <1>3, <1>8, <2>1 DEF StreamTypes, Count
<1>10. Reference(circuit, id, bits', Len(bits), Len(bits'), Len(interning), Len(interning'))
  BY <1>2, <1>3, <1>4, <1>5, <1>8 DEF Reference, s, tag
<1>11. Item(circuit, id, bits', interning', Len(bits), Len(bits'), Len(interning), Len(interning'))
  BY <1>2, <1>3, <1>4, <1>5, <1>8, <1>10 DEF Item
<1>12. Len(interning) <= Len(interning') /\ \A e \in 1..Len(interning) : interning'[e] = interning[e]
  BY <1>3, <1>4
<1>13. UNCHANGED <<reading, bitPos, table, decoded>>
  BY <1>3
<1> QED BY <1>1, <1>2, <1>3, <1>4, <1>8, <1>9, <1>11, <1>12, <1>13, OneMoreItem, Zenon

LEMMA WriteDefinitionKeeps ==
    ASSUME StreamInv, WriteDefinition
    PROVE  StreamInv'
<1>1. PICK pos, seen : Layout(pos, seen) /\ Progress(pos, seen)
  BY DEF StreamInv
<1>2. PICK circuit \in Circuits :
          /\ bits' = bits \o <<0>> \o CircuitBits(circuit)
          /\ interning' = Append(interning, Content(circuit))
          /\ written' = Append(written, circuit) /\ ids' = Append(ids, Len(interning))
  BY Zenon DEF WriteDefinition
<1>3. ~reading /\ UNCHANGED <<reading, bitPos, table, decoded>> /\ StreamTypes
  BY DEF WriteDefinition, Accepts, StreamInv
<1> DEFINE id == Len(interning)
<1>4. id \in Nat /\ bits \in Seq(Bit) /\ interning \in Seq(Contents)
  BY <1>3 DEF StreamTypes
<1> DEFINE s == CircuitBits(circuit)
           tag == 0
<1>5. s \in Seq(Bit) /\ Len(s) \in Nat
  BY CircuitReads
<1>6. tag \in Bit
  BY DEF Bit
<1>7. bits' = bits \o <<tag>> \o s
  BY <1>2
<1> HIDE DEF s, tag
<1>8. /\ bits' \in Seq(Bit) /\ Len(bits') = Len(bits) + 1 + Len(s) /\ Len(bits) \in Nat
      /\ Lies(<<tag>>, bits', Len(bits)) /\ Lies(s, bits', Len(bits) + 1)
      /\ bits' = bits \o (<<tag>> \o s) /\ <<tag>> \o s \in Seq(Bit)
  BY <1>4, <1>5, <1>6, <1>7, TaggedAtTheEnd, Zenon
<1>a. /\ Content(circuit) \in Contents /\ interning' \in Seq(Contents) /\ Len(interning') = id + 1
      /\ interning'[id + 1] = Content(circuit) /\ \A e \in 1..id : interning'[e] = interning[e]
  <2>1. Content(circuit) \in Contents
    BY DEF Contents
  <2> QED BY <1>2, <1>4, <2>1
<1>9. StreamTypes'
  <2>1. written' = Append(written, circuit) /\ ids' = Append(ids, id) /\ written \in Seq(Circuits) /\ ids \in Seq(Nat)
        /\ Len(ids) = Len(written)
    BY <1>2, <1>3 DEF StreamTypes, Count
  <2> HIDE DEF id
  <2>2. written' \in Seq(Circuits) /\ ids' \in Seq(Nat) /\ Len(ids') = Len(written') /\ Len(written') = Len(written) + 1
    BY <1>4, <2>1
  <2> QED BY <1>3, <1>8, <1>a, <2>2 DEF StreamTypes, Count
<1>10. Definition(circuit, id, bits', Len(bits), Len(bits'), Len(interning), Len(interning'))
  BY <1>4, <1>5, <1>8, <1>a DEF Definition, s, tag
<1>11. Item(circuit, id, bits', interning', Len(bits), Len(bits'), Len(interning), Len(interning'))
  BY <1>4, <1>5, <1>8, <1>10, <1>a DEF Item
<1>12. Len(interning) <= Len(interning') /\ \A e \in 1..Len(interning) : interning'[e] = interning[e]
  BY <1>4, <1>a
<1>13. ids' = Append(ids, id)
  BY <1>2
<1> HIDE DEF id
<1> QED BY <1>1, <1>2, <1>3, <1>4, <1>8, <1>9, <1>11, <1>12, <1>13, OneMoreItem, Zenon

LEMMA PaddedIs ==
    ASSUME NEW s \in Seq(Bit)
    PROVE  \E more \in Seq(Bit) : /\ Padded(s) = s \o more /\ Padded(s) \in Seq(Bit)
                                  /\ Len(more) = (0 - Len(s)) % 8 /\ Len(more) \in Nat
<1> DEFINE n == (0 - Len(s)) % 8
           more == [i \in 1..n |-> 0]
<1>1. n \in Nat
  OBVIOUS
<1>2. more \in Seq(Bit) /\ Len(more) = n
  <2> HIDE DEF n
  <2>1. more \in [1..n -> Bit]
    BY DEF Bit
  <2>2. more \in Seq(Bit)
    BY <1>1, <2>1
  <2> QED BY <1>1, <2>2
<1>3. Padded(s) = s \o more
  BY DEF Padded
<1>4. s \o more \in Seq(Bit)
  <2> HIDE DEF more
  <2> QED BY <1>2
<1> HIDE DEF more, n
<1> QED BY <1>1, <1>2, <1>3, <1>4, Zenon DEF n

LEMMA EndWritingKeeps ==
    ASSUME StreamInv, EndWriting
    PROVE  StreamInv'
<1>1. PICK pos, seen : Layout(pos, seen) /\ Progress(pos, seen)
  BY DEF StreamInv
<1>2. /\ ~reading /\ reading' = TRUE /\ bits' = Padded(bits) /\ StreamTypes
      /\ UNCHANGED <<written, ids, interning, bitPos, table, decoded>>
  BY DEF EndWriting, StreamInv
<1>3. bits \in Seq(Bit) /\ interning \in Seq(Contents)
  BY <1>2 DEF StreamTypes
<1>4. PICK more \in Seq(Bit) : bits' = bits \o more /\ bits' \in Seq(Bit)
  BY <1>2, <1>3, PaddedIs, Zenon
<1>5. StreamTypes'
  BY <1>2, <1>4 DEF StreamTypes, Count
<1>6. Count' = Count
  BY <1>2 DEF Count
<1>7. ASSUME NEW i \in 1..Count
      PROVE  Item(written[i], ids[i], bits', interning, pos[i - 1], pos[i], seen[i - 1], seen[i])
  <2>1. Item(written[i], ids[i], bits, interning, pos[i - 1], pos[i], seen[i - 1], seen[i])
    BY <1>1 DEF Layout
  <2>2. Len(interning) <= Len(interning) /\ \A e \in 1..Len(interning) : interning[e] = interning[e]
    BY <1>3
  <2> QED BY <1>3, <1>4, <2>1, <2>2, ItemStays
<1>8. Layout(pos, seen)'
  <2>1. /\ pos \in [0..Count -> Nat] /\ seen \in [0..Count -> Nat]
        /\ pos[0] = 0 /\ seen[0] = 0 /\ seen[Count] = Len(interning)
    BY <1>1 DEF Layout
  <2> QED BY <1>2, <1>6, <1>7, <2>1 DEF Layout
<1>9. Progress(pos, seen)'
  <2>1. decoded = <<>> /\ table = <<>> /\ bitPos = 0 /\ pos[0] = 0 /\ seen[0] = 0
    BY <1>1, <1>2 DEF Layout
  <2>2. Len(<<>>) = 0
    OBVIOUS
  <2> QED BY <1>2, <2>1, <2>2 DEF Progress
<1> QED BY <1>5, <1>8, <1>9 DEF StreamInv


\* A circuit returned by the reader.
LEMMA OneMoreRead ==
    ASSUME StreamTypes, NEW pos, NEW seen, Layout(pos, seen), Progress(pos, seen), reading,
           Len(decoded) < Count, UNCHANGED <<written, ids, bits, interning, reading>>,
           decoded' = Append(decoded, [ok |-> TRUE, id |-> ids[Len(decoded) + 1],
                                       value |-> Content(written[Len(decoded) + 1]).value]),
           bitPos' = pos[Len(decoded) + 1],
           table' \in Seq([start : Nat, end : Nat]), Len(table') = seen[Len(decoded) + 1],
           \A e \in 1..Len(table') : Known(table'[e], e - 1, Len(decoded) + 1)
    PROVE  StreamInv'
<1> DEFINE k == Len(decoded)
           c == written[k + 1]
           new == [ok |-> TRUE, id |-> ids[k + 1], value |-> Content(c).value]
<1>1. /\ k \in Nat /\ Count \in Nat /\ k + 1 \in 1..Count /\ k \in 0..Count /\ k + 1 \in 0..Count
      /\ decoded \in Seq(ReadType) /\ Len(written) = Count /\ Len(ids) = Count
  BY SMTT(30) DEF StreamTypes, Count
<1>2. /\ pos \in [0..Count -> Nat] /\ seen \in [0..Count -> Nat]
      /\ pos[0] = 0 /\ seen[0] = 0 /\ seen[Count] = Len(interning)
  BY DEF Layout
<1>3. /\ bitPos = pos[k] /\ Len(table) = seen[k]
      /\ \A e \in 1..Len(table) : Known(table[e], e - 1, k)
      /\ \A i \in 1..k : /\ decoded[i].id = ids[i] /\ decoded[i].value = Content(written[i]).value
                         /\ ids[i] < seen[k]
  BY DEF Progress
<1>4. c \in Circuits /\ ids[k + 1] \in Nat
  BY <1>1, SMTT(30) DEF StreamTypes
<1>5. new \in ReadType
  BY <1>4 DEF ReadType
<1>6. /\ decoded' \in Seq(ReadType) /\ Len(decoded') = k + 1 /\ decoded'[k + 1] = new
      /\ \A i \in 1..k : decoded'[i] = decoded[i]
  <2>1. decoded' = Append(decoded, new)
    OBVIOUS
  <2> HIDE DEF new
  <2> QED BY <1>1, <1>5, <2>1
<1>7. Count' = Count
  BY DEF Count
<1>8. StreamTypes'
  <2>1. bitPos' \in Nat
    BY <1>1, <1>2
  <2> HIDE DEF k
  <2> QED BY <1>1, <1>6, <1>7, <2>1 DEF StreamTypes
<1>9. Layout(pos, seen)'
  <2>1. \A i \in 1..Count :
          Item(written[i], ids[i], bits, interning, pos[i - 1], pos[i], seen[i - 1], seen[i])
    BY DEF Layout
  <2> QED BY <1>2, <1>7, <2>1 DEF Layout
<1>10. ids[k + 1] < seen[k + 1] /\ seen[k] <= seen[k + 1]
  <2>1. Item(written[k + 1], ids[k + 1], bits, interning, pos[(k + 1) - 1], pos[k + 1], seen[(k + 1) - 1], seen[k + 1])
    BY <1>1 DEF Layout
  <2>2. (k + 1) - 1 = k /\ seen[k] \in Nat /\ seen[k + 1] \in Nat
    BY <1>1, <1>2
  <2> DEFINE x == seen[k]
             y == seen[k + 1]
             id == ids[k + 1]
  <2>3. id \in Nat /\ ((id = x /\ y = x + 1) \/ (id < x /\ y = x))
    <3>1. Item(written[k + 1], ids[k + 1], bits, interning, pos[k], pos[k + 1], x, y)
      BY <2>1, <2>2
    <3> HIDE DEF x, y, id
    <3> QED BY <3>1, ItemOrder DEF id
  <2>4. x \in Nat /\ y \in Nat
    BY <2>2
  <2> HIDE DEF x, y, id
  <2>5. id < y /\ x <= y
    BY <2>3, <2>4
  <2> QED BY <2>5 DEF x, y, id
<1>11. \A i \in 1..(k + 1) : /\ decoded'[i].id = ids[i] /\ decoded'[i].value = Content(written[i]).value
                             /\ ids[i] < seen[k + 1]
  <2> SUFFICES ASSUME NEW i \in 1..(k + 1)
               PROVE  /\ decoded'[i].id = ids[i] /\ decoded'[i].value = Content(written[i]).value
                      /\ ids[i] < seen[k + 1]
    BY Zenon
  <2>1. CASE i = k + 1
    BY <1>6, <1>10, <2>1
  <2>2. CASE i # k + 1
    <3>1. i \in 1..k /\ i \in 1..Count
      BY <1>1, <2>2
    <3>2. ids[i] \in Nat
      BY <1>1, <3>1, SMTT(30) DEF StreamTypes
    <3>3. ids[i] < seen[k] /\ seen[k] \in Nat /\ seen[k + 1] \in Nat
      BY <1>1, <1>2, <1>3, <3>1
    <3>4. decoded'[i].id = ids[i] /\ decoded'[i].value = Content(written[i]).value
      BY <1>3, <1>6, <3>1
    <3>5. \A x, y, z \in Nat : x < y /\ y <= z => x < z
      OBVIOUS
    <3>6. ids[i] < seen[k + 1]
      BY <1>10, <3>2, <3>3, <3>5, Zenon
    <3> QED BY <3>4, <3>6
  <2> QED BY <2>1, <2>2
<1>12. Progress(pos, seen)'
  <2>1. PICK upTo : upTo = k + 1
    OBVIOUS
  <2>2. \A e \in 1..Len(table') : Known(table'[e], e - 1, upTo)
    BY <2>1
  <2>3. \A e \in 1..Len(table') : Known(table[e], e - 1, upTo)'
    BY <2>2 DEF Known
  <2>4. /\ Len(decoded') = upTo /\ bitPos' = pos[upTo] /\ Len(table') = seen[upTo] /\ ids' = ids
        /\ \A i \in 1..upTo : /\ decoded'[i].id = ids[i] /\ decoded'[i].value = Content(written[i]).value
                              /\ ids[i] < seen[upTo]
        /\ written' = written
    BY <1>6, <1>11, <2>1
  <2> HIDE DEF k
  <2> QED BY <2>3, <2>4 DEF Progress, Content
<1> QED BY <1>8, <1>9, <1>12 DEF StreamInv

\* The circuit that the reader comes to.
LEMMA NextItem ==
    ASSUME StreamTypes, NEW pos, NEW seen, Layout(pos, seen), Progress(pos, seen), Expects
    PROVE  LET k == Len(decoded)
           IN /\ Item(written[k + 1], ids[k + 1], bits, interning, bitPos, pos[k + 1], Len(table), seen[k + 1])
              /\ written[k + 1] \in Circuits /\ ids[k + 1] \in Nat /\ Type = written[k + 1].type
              /\ Definition(written[k + 1], ids[k + 1], bits, bitPos, pos[k + 1], Len(table), seen[k + 1])
                    => TagBit = 0
              /\ Reference(written[k + 1], ids[k + 1], bits, bitPos, pos[k + 1], Len(table), seen[k + 1])
                    => TagBit = 1
<1> DEFINE k == Len(decoded)
<1>1. k \in Nat /\ k + 1 \in 1..Count /\ (k + 1) - 1 = k /\ bitPos = pos[k] /\ Len(table) = seen[k] /\ bitPos \in Nat
  BY DEF StreamTypes, Count, Expects, Progress
<1>2. Item(written[k + 1], ids[k + 1], bits, interning, bitPos, pos[k + 1], Len(table), seen[k + 1])
  <2>1. Item(written[k + 1], ids[k + 1], bits, interning, pos[(k + 1) - 1], pos[k + 1], seen[(k + 1) - 1], seen[k + 1])
    BY <1>1 DEF Layout
  <2> HIDE DEF k
  <2> QED BY <1>1, <2>1
<1>3. 0 \in Bit /\ 1 \in Bit
  BY DEF Bit
<1>4. Lies(<<0>>, bits, bitPos) => TagBit = 0
  BY <1>1, <1>3, BitThere DEF TagBit
<1>5. Lies(<<1>>, bits, bitPos) => TagBit = 1
  BY <1>1, <1>3, BitThere DEF TagBit
<1>6. written[k + 1] \in Circuits /\ ids[k + 1] \in Nat
  BY <1>2 DEF Item
<1> QED BY <1>2, <1>4, <1>5, <1>6 DEF Definition, Reference, Type

LEMMA ReadDefinitionKeeps ==
    ASSUME StreamInv, ReadDefinition
    PROVE  StreamInv'
<1>1. PICK pos, seen : Layout(pos, seen) /\ Progress(pos, seen)
  BY DEF StreamInv
<1> DEFINE k == Len(decoded)
           c == written[k + 1]
           id == ids[k + 1]
           read == ReadValue(Type, bitPos + 1)
<1>2. /\ Expects /\ TagBit = 0 /\ StreamTypes /\ UNCHANGED <<written, ids, bits, interning, reading>>
      /\ decoded' = Append(decoded, [ok |-> read.ok /\ read.end <= Len(bits), id |-> Len(table), value |-> read.value])
      /\ bitPos' = read.end /\ table' = Append(table, [start |-> bitPos + 1, end |-> read.end])
  BY DEF ReadDefinition, StreamInv
<1>3. /\ Item(c, id, bits, interning, bitPos, pos[k + 1], Len(table), seen[k + 1])
      /\ c \in Circuits /\ id \in Nat /\ Type = c.type
      /\ Definition(c, id, bits, bitPos, pos[k + 1], Len(table), seen[k + 1])
  <2>1. ~Reference(c, id, bits, bitPos, pos[k + 1], Len(table), seen[k + 1])
    BY <1>1, <1>2, NextItem
  <2>2. /\ Item(c, id, bits, interning, bitPos, pos[k + 1], Len(table), seen[k + 1])
        /\ c \in Circuits /\ id \in Nat /\ Type = c.type
    BY <1>1, <1>2, NextItem
  <2> QED BY <2>1, <2>2 DEF Item
<1>4. /\ bitPos \in Nat /\ bitPos + 1 \in Nat /\ k \in Nat /\ k < Count /\ reading
      /\ table \in Seq([start : Nat, end : Nat]) /\ Len(table) \in Nat
  BY <1>2 DEF StreamTypes, Expects, Count
<1>5. /\ id = Len(table) /\ seen[k + 1] = Len(table) + 1 /\ Lies(CircuitBits(c), bits, bitPos + 1)
      /\ pos[k + 1] = bitPos + 1 + Len(CircuitBits(c)) /\ pos[k + 1] <= Len(bits) /\ pos[k + 1] \in Nat
  BY <1>3 DEF Item, Definition
<1>6. read.ok /\ read.end = pos[k + 1] /\ read.value = Content(c).value
  <2>1. Reads(c.type, bitPos + 1, Content(c).value, Len(CircuitBits(c)))
    BY <1>3, <1>4, <1>5, CircuitReads, Zenon
  <2> HIDE DEF c, k
  <2> QED BY <1>3, <1>5, <2>1 DEF Reads
<1>7. decoded' = Append(decoded, [ok |-> TRUE, id |-> id, value |-> Content(c).value])
  <2> HIDE DEF read, c, k, id
  <2>1. (read.ok /\ read.end <= Len(bits)) = TRUE
    BY <1>5, <1>6
  <2> QED BY <1>2, <1>5, <1>6, <2>1, Zenon
<1> DEFINE entry == [start |-> bitPos + 1, end |-> pos[k + 1]]
<1>8. table' = Append(table, entry) /\ entry \in [start : Nat, end : Nat]
  <2> HIDE DEF read, c, k
  <2> QED BY <1>2, <1>4, <1>5, <1>6
<1>9. /\ table' \in Seq([start : Nat, end : Nat]) /\ Len(table') = seen[k + 1]
      /\ table'[Len(table) + 1] = entry /\ \A e \in 1..Len(table) : table'[e] = table[e]
  <2> HIDE DEF entry
  <2> QED BY <1>4, <1>5, <1>8
<1>10. ASSUME NEW e \in 1..Len(table') PROVE Known(table'[e], e - 1, k + 1)
  <2>1. CASE e = Len(table) + 1
    <3>1. e - 1 = id /\ table'[e] = entry /\ k + 1 \in 1..(k + 1)
      BY <1>4, <1>5, <1>9, <2>1
    <3>2. entry.start = bitPos + 1 /\ entry.end = entry.start + Len(CircuitBits(c))
      BY <1>5
    <3> HIDE DEF entry
    <3> QED BY <1>5, <3>1, <3>2, Zenon DEF Known
  <2>2. CASE e # Len(table) + 1
    <3>1. e \in 1..Len(table)
      BY <1>4, <1>5, <1>9, <2>2
    <3>2. Known(table[e], e - 1, k)
      BY <1>1, <3>1 DEF Progress
    <3>3. \A j \in 1..k : j \in 1..(k + 1)
      BY <1>4
    <3> QED BY <1>9, <3>1, <3>2, <3>3, Zenon DEF Known
  <2> QED BY <2>1, <2>2
<1>11. bitPos' = pos[k + 1]
  BY <1>2, <1>6
<1>12. StreamTypes /\ UNCHANGED <<written, ids, bits, interning, reading>>
  BY <1>2
<1> HIDE DEF entry, read
<1> QED BY <1>1, <1>4, <1>7, <1>9, <1>10, <1>11, <1>12, OneMoreRead

LEMMA ReadReferenceKeeps ==
    ASSUME StreamInv, ReadReference
    PROVE  StreamInv'
<1>1. PICK pos, seen : Layout(pos, seen) /\ Progress(pos, seen)
  BY DEF StreamInv
<1> DEFINE k == Len(decoded)
           c == written[k + 1]
           id == ids[k + 1]
           given == Field(bits, bitPos + 1, ReaderWidth)
           replay == ReadValue(Type, table[given + 1].start)
           ok == given < Len(table) /\ replay.ok /\ replay.end = table[given + 1].end
<1>2. /\ Expects /\ TagBit = 1 /\ StreamTypes /\ UNCHANGED <<written, ids, bits, interning, reading, table>>
      /\ decoded' = Append(decoded, [ok |-> ok, id |-> given, value |-> IF ok THEN replay.value ELSE Identity])
      /\ bitPos' = bitPos + 1 + ReaderWidth
  BY DEF ReadReference, StreamInv
<1>3. /\ Item(c, id, bits, interning, bitPos, pos[k + 1], Len(table), seen[k + 1])
      /\ c \in Circuits /\ id \in Nat /\ Type = c.type
      /\ Reference(c, id, bits, bitPos, pos[k + 1], Len(table), seen[k + 1])
  <2>1. ~Definition(c, id, bits, bitPos, pos[k + 1], Len(table), seen[k + 1])
    BY <1>1, <1>2, NextItem
  <2>2. /\ Item(c, id, bits, interning, bitPos, pos[k + 1], Len(table), seen[k + 1])
        /\ c \in Circuits /\ id \in Nat /\ Type = c.type
    BY <1>1, <1>2, NextItem
  <2> QED BY <2>1, <2>2 DEF Item
<1>4. /\ bitPos \in Nat /\ bitPos + 1 \in Nat /\ k \in Nat /\ k < Count /\ reading
      /\ table \in Seq([start : Nat, end : Nat]) /\ Len(table) \in Nat
  BY <1>2, SMTT(30) DEF StreamTypes, Expects, Count
<1>5. /\ id < Len(table) /\ seen[k + 1] = Len(table) /\ Lies(Bits(id, BitsForIndex(Len(table))), bits, bitPos + 1)
      /\ pos[k + 1] = bitPos + 1 + BitsForIndex(Len(table)) /\ interning[id + 1] = Content(c)
  BY <1>3 DEF Item, Reference
<1>6. given = id
  <2>1. id \in 0..(Len(table) - 1)
    BY <1>3, <1>4, <1>5
  <2>2. BitsForIndex(Len(table)) \in Nat /\ id \in 0..(Pow2[BitsForIndex(Len(table))] - 1)
    BY <1>4, <2>1, IndexFits, Zenon
  <2> HIDE DEF id
  <2> QED BY <1>4, <1>5, <2>2, FieldIs, Zenon DEF ReaderWidth
<1>i. id + 1 \in 1..Len(table) /\ (id + 1) - 1 = id
  <2>1. id \in Nat /\ Len(table) \in Nat /\ id < Len(table)
    BY <1>3, <1>4, <1>5
  <2> HIDE DEF id
  <2> QED BY <2>1
<1> DEFINE entry == table[id + 1]
<1>7. PICK j \in 1..k : /\ ids[j] = id /\ Lies(CircuitBits(written[j]), bits, entry.start)
                        /\ entry.end = entry.start + Len(CircuitBits(written[j]))
  <2>1. \A e \in 1..Len(table) : Known(table[e], e - 1, k)
    BY <1>1 DEF Progress
  <2> HIDE DEF k, id
  <2>2. Known(entry, (id + 1) - 1, k)
    BY <1>i, <2>1, Zenon
  <2>3. Known(entry, id, k)
    BY <1>i, <2>2, Zenon
  <2> QED BY <2>3, Zenon DEF Known
<1>8. entry.start \in Nat
  <2>1. \A e \in 1..Len(table) : table[e] \in [start : Nat, end : Nat]
    <3> DEFINE E == [start : Nat, end : Nat]
    <3>1. table \in Seq(E)
      BY <1>4
    <3> HIDE DEF E
    <3>2. \A e \in 1..Len(table) : table[e] \in E
      BY <3>1
    <3> QED BY <3>2 DEF E
  <2>2. entry \in [start : Nat, end : Nat]
    BY <1>i, <2>1, Zenon
  <2> HIDE DEF entry
  <2> QED BY <2>2
<1>9. written[j] \in Circuits /\ Content(written[j]) = Content(c)
  <2>1. j \in 1..Count
    <3>1. Count \in Nat
      BY <1>2 DEF StreamTypes, Count
    <3> HIDE DEF k
    <3> QED BY <1>4, <3>1
  <2>2. Item(written[j], ids[j], bits, interning, pos[j - 1], pos[j], seen[j - 1], seen[j])
    BY <1>1, <2>1 DEF Layout
  <2>3. interning[ids[j] + 1] = Content(written[j]) /\ written[j] \in Circuits
    BY <2>2 DEF Item
  <2> QED BY <1>5, <1>7, <2>3
<1>10. written[j].type = c.type
  <2>1. Content(written[j]).type = written[j].type /\ Content(c).type = c.type
    BY <1>3, <1>9, CircuitReads
  <2> QED BY <1>9, <2>1
<1>11. replay.ok /\ replay.end = entry.end /\ replay.value = Content(c).value
  <2>1. Reads(written[j].type, entry.start, Content(written[j]).value, Len(CircuitBits(written[j])))
    BY <1>7, <1>8, <1>9, CircuitReads, Zenon
  <2>2. replay = ReadValue(written[j].type, entry.start)
    BY <1>3, <1>6, <1>10
  <2> HIDE DEF replay, entry, c
  <2> QED BY <1>7, <1>9, <2>1, <2>2 DEF Reads
<1>12. ok
  <2>1. given < Len(table) /\ table[given + 1] = entry
    BY <1>5, <1>6
  <2> HIDE DEF given, replay, entry
  <2> QED BY <1>11, <2>1
<1>13. decoded' = Append(decoded, [ok |-> TRUE, id |-> id, value |-> Content(c).value])
  <2> HIDE DEF ok, given, replay, c, k, id
  <2>1. ok = TRUE
    BY <1>12, <1>2, Zenon
  <2> QED BY <1>2, <1>6, <1>11, <2>1
<1>14. bitPos' = pos[k + 1]
  BY <1>2, <1>5 DEF ReaderWidth
<1>15. table' = table /\ StreamTypes /\ UNCHANGED <<written, ids, bits, interning, reading>>
  BY <1>2
<1>16. ASSUME NEW e \in 1..Len(table') PROVE Known(table'[e], e - 1, k + 1)
  <2>1. Known(table[e], e - 1, k)
    BY <1>1, <1>15 DEF Progress
  <2>2. \A i \in 1..k : i \in 1..(k + 1)
    BY <1>4
  <2> QED BY <1>15, <2>1, <2>2, Zenon DEF Known
<1> HIDE DEF ok, given, replay, entry
<1> QED BY <1>1, <1>4, <1>5, <1>13, <1>14, <1>15, <1>16, OneMoreRead


LEMMA StreamKeeps ==
    ASSUME StreamInv, [StreamNext]_streamVars
    PROVE  StreamInv'
<1>1. CASE WriteReference
  BY <1>1, WriteReferenceKeeps
<1>2. CASE WriteDefinition
  BY <1>2, WriteDefinitionKeeps
<1>3. CASE EndWriting
  BY <1>3, EndWritingKeeps
<1>4. CASE ReadReference
  BY <1>4, ReadReferenceKeeps
<1>5. CASE ReadDefinition
  BY <1>5, ReadDefinitionKeeps
<1>6. CASE UNCHANGED streamVars
  BY <1>6, ZenonT(40) DEF streamVars, StreamInv, StreamTypes, Layout, Progress, Known, Count
<1> QED BY <1>1, <1>2, <1>3, <1>4, <1>5, <1>6 DEF StreamNext

LEMMA StreamAgrees ==
    ASSUME StreamInv
    PROVE  ReferencesAgree
<1>1. PICK pos, seen : Layout(pos, seen) /\ Progress(pos, seen)
  BY DEF StreamInv
<1> DEFINE k == Len(decoded)
<1>2. /\ StreamTypes /\ k \in Nat /\ k <= Count /\ Count \in Nat /\ DOMAIN decoded = 1..k
      /\ decoded \in Seq(ReadType) /\ \A i \in 1..Count : ids[i] \in Nat
  BY SMTT(30) DEF StreamInv, StreamTypes, Count
<1>3. \A i \in 1..k : /\ decoded[i].ok /\ decoded[i].id = ids[i] /\ decoded[i].value = Content(written[i]).value
                      /\ ids[i] < seen[k]
  <2>1. \A i \in 1..k : decoded[i] \in ReadType
    BY <1>2
  <2>2. \A i \in 1..k : decoded[i].ok
    BY <2>1, Zenon DEF ReadType
  <2> QED BY <1>1, <2>2 DEF Progress
<1>4. Len(table) = seen[k] /\ \A e \in 1..Len(table) : Known(table[e], e - 1, k)
  BY <1>1 DEF Progress
<1>5. ASSUME k # 0 PROVE Len(table) = Max({ids[j] : j \in 1..k}) + 1
  <2> DEFINE S == {ids[j] : j \in 1..k}
             n == Len(table)
  <2>1. n \in Nat /\ \A j \in 1..k : ids[j] \in Nat /\ ids[j] < n
    <3>1. n \in Nat
      BY <1>2 DEF StreamTypes
    <3>2. \A j \in 1..k : j \in 1..Count
      BY <1>2
    <3> HIDE DEF k
    <3> QED BY <1>2, <1>3, <1>4, <3>1, <3>2
  <2>2. 1 \in 1..k
    BY <1>2, <1>5
  <2>3. n >= 1 /\ n \in 1..Len(table) /\ n - 1 \in Nat
    BY <2>1, <2>2
  <2>4. n - 1 \in S
    <3>1. Known(table[n], n - 1, k)
      BY <1>4, <2>3
    <3>2. PICK j \in 1..k : ids[j] = n - 1
      BY <3>1 DEF Known
    <3> QED BY <3>2
  <2>5. S \in SUBSET Nat /\ S # {} /\ \A s \in S : s <= n - 1
    <3>1. \A s \in S : s \in Nat /\ s < n
      BY <2>1
    <3> QED BY <2>1, <2>3, <2>4, <3>1
  <2> HIDE DEF S, n
  <2>6. Max(S) \in S /\ \A s \in S : s <= Max(S)
    BY <2>3, <2>5, MaxProperty, Zenon
  <2>7. Max(S) = n - 1
    <3>1. n - 1 <= Max(S) /\ Max(S) <= n - 1 /\ Max(S) \in Nat
      BY <2>4, <2>5, <2>6, Zenon
    <3> QED BY <2>3, <3>1
  <2>8. Max(S) + 1 = n
    BY <2>1, <2>7
  <2> QED BY <2>8 DEF S, n
<1>6. ASSUME NEW i \in 1..k, i = k PROVE k # 0
  BY <1>6
<1> QED BY <1>2, <1>3, <1>5, <1>6, Zenon DEF ReferencesAgree

(***************************************************************************)
(* Whatever circuits are written in whatever order, with whatever          *)
(* references between them, the reader of the interning stream returns     *)
(* each with the writer's id and its value (write_def_or_ref and           *)
(* read_def_or_ref of bitstream.rs).                                       *)
(***************************************************************************)
THEOREM ReferencesResolve == StreamSpec => []ReferencesAgree
<1>1. StreamInit => StreamInv
  BY StreamInitially
<1>2. StreamInv /\ [StreamNext]_streamVars => StreamInv'
  BY StreamKeeps
<1>3. StreamInv => ReferencesAgree
  BY StreamAgrees
<1> QED BY <1>1, <1>2, <1>3, PTL DEF StreamSpec


----------------------------------------------------------------------------
(* Where a run of frames ends.                                             *)

LEMMA BaseIs ==
    Base \in Nat /\ Base >= 1 /\ Bytes \subseteq Nat
<1>1. Base \in Nat /\ Base >= 1
  BY ByteAssumption, PowType DEF Base
<1> QED BY <1>1 DEF Bytes

LEMMA NumberOfType ==
    ASSUME NEW n \in Nat, NEW d, Len(d) = n, \A i \in 1..n : d[i] \in Nat, NEW base \in Nat
    PROVE  NumberOf(d, base) \in Nat
<1> DEFINE digit == [i \in Nat |-> IF i \in 1..n THEN d[i] ELSE 0]
           step == [i \in Nat |-> [x \in Nat |-> base * x + digit[i]]]
           V == Nat
           first == 0
<1>1. digit \in [Nat -> Nat] /\ \A i \in 1..n : digit[i] = d[i]
  OBVIOUS
<1> HIDE DEF digit
<1>2. step \in [Nat -> [V -> V]] /\ first \in V
  <2> SUFFICES ASSUME NEW i \in Nat, NEW x \in Nat PROVE base * x + digit[i] \in Nat
    BY Zenon
  <2>1. digit[i] \in Nat /\ base * x \in Nat
    BY <1>1
  <2> QED BY <2>1
<1>3. \A i \in Nat, x \in Nat : step[i][x] = base * x + digit[i]
  OBVIOUS
<1> HIDE DEF step, first, V
<1>4. PICK w : Recursive(V, first, step, w)
  BY <1>2, RecursionExists
<1>5. w \in [Nat -> Nat] /\ w[0] = 0 /\ \A i \in Nat : w[i + 1] = step[i + 1][w[i]]
  BY <1>4, Zenon DEF Recursive, V, first
<1>6. ASSUME NEW i \in 1..n PROVE w[i] = base * w[i - 1] + d[i]
  <2>1. i - 1 \in Nat /\ (i - 1) + 1 = i /\ i \in Nat
    OBVIOUS
  <2>2. w[i] = step[i][w[i - 1]] /\ w[i - 1] \in Nat
    BY <1>5, <2>1, Zenon
  <2>3. step[i][w[i - 1]] = base * w[i - 1] + digit[i]
    BY <1>3, <2>1, <2>2, Zenon
  <2>4. digit[i] = d[i]
    BY <1>1
  <2> QED BY <2>2, <2>3, <2>4
<1>a. w[0] = 0 /\ w[n] \in Nat
  BY <1>5
<1>7. NumberOf(d, base) = w[n]
  BY <1>a, <1>6, NumberOfIs
<1> QED BY <1>a, <1>7

\* The fields of the input are numbers.
LEMMA LengthsAreNumbers ==
    ASSUME input \in Seq(Bytes), NEW at \in Nat, Fits(at)
    PROVE  LenAt(at) \in Nat /\ NextAt(at) \in Nat /\ NextAt(at) <= Size /\ Cost(at) \in Nat
<1> DEFINE d == Slice(input, at, at + FieldBytes)
<1>1. FieldBytes \in Nat /\ at + FieldBytes <= Size /\ Size \in Nat /\ Base \in Nat
  BY BaseIs, PayloadAssumption DEF Fits, Size
<1>2. Len(d) = FieldBytes /\ \A i \in 1..FieldBytes : d[i] \in Nat
  <2>1. d = SubSeq(input, at + 1, at + FieldBytes)
    BY DEF Slice
  <2>2. Len(d) = FieldBytes
    BY <1>1, <2>1 DEF Size
  <2>3. ASSUME NEW i \in 1..FieldBytes PROVE d[i] \in Nat
    <3>1. d[i] = input[at + i] /\ at + i \in 1..Len(input)
      BY <1>1, <2>1 DEF Size
    <3>2. input[at + i] \in Bytes
      BY <3>1
    <3> QED BY <3>1, <3>2, BaseIs, Zenon
  <2> QED BY <2>2, <2>3
<1> HIDE DEF d
<1>3. LenAt(at) = NumberOf(d, Base)
  BY DEF LenAt, Value, d
<1>4. LenAt(at) \in Nat
  BY <1>1, <1>2, <1>3, NumberOfType, Zenon
<1>5. NextAt(at) \in Nat /\ Cost(at) \in Nat
  BY <1>1, <1>4 DEF NextAt, Cost
<1> QED BY <1>4, <1>5 DEF Fits

RunInv ==
    /\ input \in Seq(Bytes) /\ start \in Nat /\ cursor \in Nat /\ cursor <= Size /\ budget \in Nat
    /\ RunEndsWhereItMust

\* Hashing a frame leaves a budget.
LEMMA BudgetIsLeft ==
    ASSUME RunInv, NEW at \in Nat, Spend(at)
    PROVE  budget' \in Nat
<1>1. CASE Hashed(at)
  <2>1. Cost(at) \in Nat /\ Cost(at) <= budget
    BY <1>1, LengthsAreNumbers DEF RunInv, Hashed
  <2> QED BY <1>1, <2>1 DEF RunInv, Spend
<1>2. CASE ~Hashed(at)
  BY <1>2 DEF RunInv, Spend
<1> QED BY <1>1, <1>2

\* The property, of a run that ends where the scan stands.
LEMMA EndOfRun ==
    ASSUME RunInv, ~Continues
    PROVE  LET end == Size - Len(Found.suffix)
           IN Fits(end) /\ TagAt(end) = Found.tag
                /\ Crc(TagAt(end), DataAt(end)) = Slice(input, NextAt(end) - FieldBytes, NextAt(end))
                => Cost(end) > Found.left
<1>1. input \in Seq(Bytes) /\ cursor \in Nat /\ cursor <= Size /\ budget \in Nat /\ Size = Len(input)
  BY DEF RunInv, Size
<1>2. Found.suffix = Slice(input, cursor, Size) /\ Found.tag = run.tag /\ Found.left = budget
  BY DEF Found
<1>3. Len(Slice(input, cursor, Size)) = Size - cursor
  BY <1>1 DEF Slice
<1>4. Size - Len(Found.suffix) = cursor
  BY <1>1, <1>2, <1>3
<1>5. ASSUME Fits(cursor), TagAt(cursor) = run.tag,
             Crc(TagAt(cursor), DataAt(cursor)) = Slice(input, NextAt(cursor) - FieldBytes, NextAt(cursor))
      PROVE  Cost(cursor) > budget
  <2>1. ~FrameAt(cursor)
    BY <1>5 DEF Continues
  <2>2. ~(Cost(cursor) <= budget)
    BY <1>5, <2>1 DEF FrameAt, Hashed
  <2>3. Cost(cursor) \in Nat
    BY <1>1, <1>5, LengthsAreNumbers
  <2> QED BY <1>1, <2>2, <2>3
<1> QED BY <1>2, <1>4, <1>5


LEMMA RunKeeps ==
    ASSUME RunInv, [Next]_vars
    PROVE  RunInv'
<1> USE DEF RunInv
<1>1. CASE SkipByte
  <2>1. UNCHANGED <<input, cursor, best>> /\ start' = start + 1 /\ Spend(start)
    BY <1>1 DEF SkipByte
  <2>2. budget' \in Nat
    BY <2>1, BudgetIsLeft
  <2> QED BY <2>1, <2>2 DEF RunEndsWhereItMust, Size, Fits, NextAt, LenAt, TagAt, DataAt, Cost
<1>2. CASE FirstFrame
  <2>1. UNCHANGED <<input, start, best>> /\ FrameAt(start) /\ cursor' = NextAt(start) /\ Spend(start)
    BY <1>2 DEF FirstFrame
  <2>2. budget' \in Nat
    BY <2>1, BudgetIsLeft
  <2>3. NextAt(start) \in Nat /\ NextAt(start) <= Size
    BY <2>1, LengthsAreNumbers DEF FrameAt, Hashed
  <2> QED BY <2>1, <2>2, <2>3 DEF RunEndsWhereItMust, Size, Fits, NextAt, LenAt, TagAt, DataAt, Cost
<1>3. CASE NextFrame
  <2>1. UNCHANGED <<input, start, best>> /\ FrameAt(cursor) /\ cursor' = NextAt(cursor) /\ Spend(cursor)
    BY <1>3 DEF NextFrame, Continues
  <2>2. budget' \in Nat
    BY <2>1, BudgetIsLeft
  <2>3. NextAt(cursor) \in Nat /\ NextAt(cursor) <= Size
    BY <2>1, LengthsAreNumbers DEF FrameAt, Hashed
  <2> QED BY <2>1, <2>2, <2>3 DEF RunEndsWhereItMust, Size, Fits, NextAt, LenAt, TagAt, DataAt, Cost
<1>4. CASE DropRun
  <2>1. UNCHANGED <<input, cursor, best>> /\ start' = start + 1 /\ Spend(cursor)
    BY <1>4 DEF DropRun, RunEnds
  <2>2. budget' \in Nat
    BY <2>1, BudgetIsLeft
  <2> QED BY <2>1, <2>2 DEF RunEndsWhereItMust, Size, Fits, NextAt, LenAt, TagAt, DataAt, Cost
<1>5. CASE KeepRun
  <2>1. /\ UNCHANGED <<input, cursor>> /\ start' = cursor /\ Spend(cursor) /\ ~Continues
        /\ best' = best \/ best' = Found
    BY <1>5 DEF KeepRun, RunEnds
  <2>2. budget' \in Nat
    BY <2>1, BudgetIsLeft
  <2>3. input' \in Seq(Bytes) /\ start' \in Nat /\ cursor' \in Nat /\ cursor' <= Size'
    BY <2>1 DEF Size
  <2>4. CASE best' = best
    BY <2>1, <2>2, <2>3, <2>4 DEF RunEndsWhereItMust, Size, Fits, NextAt, LenAt, TagAt, DataAt, Cost
  <2>5. CASE best' = Found
    <3> DEFINE found == Found
    <3>1. LET end == Size - Len(found.suffix)
          IN Fits(end) /\ TagAt(end) = found.tag
               /\ Crc(TagAt(end), DataAt(end)) = Slice(input, NextAt(end) - FieldBytes, NextAt(end))
               => Cost(end) > found.left
      BY <2>1, EndOfRun
    <3>2. best' = found
      BY <2>5
    <3> HIDE DEF found
    <3>3. RunEndsWhereItMust'
      BY <2>1, <3>1, <3>2 DEF RunEndsWhereItMust, Size, Fits, NextAt, LenAt, TagAt, DataAt, Cost
    <3> QED BY <2>2, <2>3, <3>3
  <2> QED BY <2>1, <2>4, <2>5
<1>6. ASSUME UNCHANGED <<input, scan>> PROVE RunInv'
  BY <1>6 DEF scan, RunEndsWhereItMust, Size, Fits, NextAt, LenAt, TagAt, DataAt, Cost
<1>7. ASSUME \/ EndScan \/ PackFramed \/ Preflate \/ PlanWhole \/ PlanBlocks \/ PackRecursive
             \/ PackTransformed \/ PackMonotonic \/ PackPrimes \/ PackAtlas \/ PackTensors
             \/ PackOtherwise \/ Decode \/ UNCHANGED vars
      PROVE  UNCHANGED <<input, scan>>
  BY <1>7, Zenon DEF EndScan, PackFramed, Preflate, PlanWhole, PlanBlocks, PackRecursive, PackTransformed,
          PackMonotonic, PackPrimes, PackAtlas, PackTensors, PackOtherwise, Decode, vars, scan
<1> QED BY <1>1, <1>2, <1>3, <1>4, <1>5, <1>6, <1>7 DEF Next

(***************************************************************************)
(* Whatever the input, the widths and the budget, a run of frames that is  *)
(* kept was not cut short in front of a good frame that could still be     *)
(* hashed (build_framed_payload_run of recursive.rs).                      *)
(***************************************************************************)
THEOREM RunsAreWhole == Spec => []RunEndsWhereItMust
<1>1. Init => RunInv
  BY PayloadAssumption DEF Init, RunInv, RunEndsWhereItMust, Size
<1>2. RunInv /\ [Next]_vars => RunInv'
  BY RunKeeps
<1>3. RunInv => RunEndsWhereItMust
  BY DEF RunInv
<1> QED BY <1>1, <1>2, <1>3, PTL DEF Spec


----------------------------------------------------------------------------
(* How long the sections of a dictionary are.                              *)

\* The bits of a field are as many as its width, whatever the value.
LEMMA BitsLength ==
    ASSUME NEW v \in Int, NEW width \in Nat
    PROVE  Bits(v, width) \in Seq(Bit) /\ Len(Bits(v, width)) = width
<1>1. ASSUME NEW i \in 1..width PROVE (v \div Pow2[width - i]) % 2 \in Bit
  <2>1. width - i \in Nat
    OBVIOUS
  <2>2. Pow2[width - i] \in Nat \ {0}
    BY <2>1, PowType
  <2>3. v \div Pow2[width - i] \in Int
    <3> DEFINE p == Pow2[width - i]
    <3>1. p \in Nat \ {0}
      BY <2>2
    <3> HIDE DEF p
    <3>2. v \div p \in Int
      BY <3>1
    <3> QED BY <3>2 DEF p
  <2>4. \A x \in Int : x % 2 \in {0, 1}
    OBVIOUS
  <2> QED BY <2>3, <2>4 DEF Bit
<1> QED BY <1>1 DEF Bits

\* What all of some sequences hold together.
Summed(n, sq, sums) ==
    /\ sums \in [0..n -> Nat] /\ sums[0] = 0
    /\ \A i \in 1..n : sums[i] = sums[i - 1] + Len(sq[i])
    /\ FlattenSeq(sq) \in Seq(Bit) /\ Len(FlattenSeq(sq)) = sums[n]

Gathers(n, sq, g) ==
    /\ n \in Nat /\ n >= 1 /\ DOMAIN sq = 1..n /\ Len(sq) = n
    /\ \A i \in 1..n : g[i] = IF i = 1 THEN sq[i] ELSE g[i - 1] \o sq[i]

LEMMA FlattenOf ==
    ASSUME NEW n, NEW sq, NEW g, Gathers(n, sq, g)
    PROVE  FlattenSeq(sq) = g[n]
<1>1. n \in Nat /\ n >= 1 /\ DOMAIN sq = 1..n /\ Len(sq) = n
  BY DEF Gathers
<1>2. \A i \in 1..n : g[i] = IF i = 1 THEN sq[i] ELSE g[i - 1] \o sq[i]
  BY Zenon DEF Gathers
<1> QED BY <1>1, <1>2, FlattenIsLast

LEMMA FlattenLength ==
    ASSUME NEW n \in Nat, NEW sq \in [1..n -> Seq(Bit)]
    PROVE  \E sums : Summed(n, sq, sums)
<1> DEFINE V == Seq(Bit)
           part == [i \in Nat |-> IF i \in 1..n THEN sq[i] ELSE <<>>]
           step == [i \in Nat |-> [s \in V |-> s \o part[i]]]
           first == <<>>
<1>1. part \in [Nat -> V] /\ \A i \in 1..n : part[i] = sq[i]
  OBVIOUS
<1> HIDE DEF part
<1>2. step \in [Nat -> [V -> V]] /\ first \in V /\ \A i \in Nat, s \in V : step[i][s] = s \o part[i]
  <2>1. \A s, t \in V : s \o t \in V
    OBVIOUS
  <2>2. first \in V
    OBVIOUS
  <2> HIDE DEF V, first
  <2> QED BY <1>1, <2>1, <2>2
<1> HIDE DEF step, V
<1>3. PICK g : Recursive(V, first, step, g)
  <2> HIDE DEF first
  <2> QED BY <1>2, RecursionExists, Zenon
<1>4. g \in [Nat -> Seq(Bit)] /\ g[0] = <<>> /\ \A i \in Nat : g[i + 1] = step[i + 1][g[i]]
  BY <1>3, Zenon DEF Recursive, V
<1>5. ASSUME NEW i \in 1..n PROVE g[i] = g[i - 1] \o sq[i] /\ g[i - 1] \in Seq(Bit) /\ g[i] \in Seq(Bit)
  <2>1. i - 1 \in Nat /\ (i - 1) + 1 = i /\ i \in Nat
    OBVIOUS
  <2>2. g[i] = step[i][g[i - 1]] /\ g[i - 1] \in V /\ g[i] \in V
    BY <1>4, <2>1, Zenon DEF V
  <2> QED BY <1>1, <1>2, <2>1, <2>2, Zenon DEF V
<1> DEFINE sums == [i \in 0..n |-> Len(g[i])]
<1>6. sums \in [0..n -> Nat] /\ sums[0] = 0 /\ sums[n] = Len(g[n])
  <2>1. \A i \in 0..n : Len(g[i]) \in Nat
    <3> SUFFICES ASSUME NEW i \in 0..n PROVE Len(g[i]) \in Nat
      OBVIOUS
    <3>1. g[i] \in Seq(Bit)
      BY <1>4
    <3> QED BY <3>1
  <2>2. 0 \in 0..n /\ n \in 0..n /\ Len(<<>>) = 0
    OBVIOUS
  <2>3. g[0] = <<>>
    BY <1>4, Zenon
  <2>4. sums \in [0..n -> Nat]
    BY <2>1
  <2>5. sums[0] = Len(g[0]) /\ sums[n] = Len(g[n])
    BY <2>2, Zenon
  <2> HIDE DEF sums
  <2> QED BY <2>2, <2>3, <2>4, <2>5, Zenon
<1>7. ASSUME NEW i \in 1..n PROVE sums[i] = sums[i - 1] + Len(sq[i])
  <2>1. i \in 0..n /\ i - 1 \in 0..n /\ sq[i] \in Seq(Bit)
    OBVIOUS
  <2>2. sums[i] = Len(g[i]) /\ sums[i - 1] = Len(g[i - 1])
    BY <2>1
  <2>3. Len(g[i - 1] \o sq[i]) = Len(g[i - 1]) + Len(sq[i])
    BY <1>5, <2>1
  <2> HIDE DEF sums
  <2> QED BY <1>5, <2>2, <2>3, Zenon
<1>8. FlattenSeq(sq) \in Seq(Bit) /\ FlattenSeq(sq) = g[n]
  <2>1. DOMAIN sq = 1..n /\ Len(sq) = n
    OBVIOUS
  <2>2. CASE n = 0
    <3>1. FlattenSeq(sq) = sq
      BY <2>1, <2>2 DEF FlattenSeq
    <3>2. sq = <<>>
      BY <2>1, <2>2
    <3> QED BY <1>4, <2>2, <3>1, <3>2
  <2>3. CASE n # 0
    <3>1. ASSUME NEW i \in 1..n PROVE g[i] = IF i = 1 THEN sq[i] ELSE g[i - 1] \o sq[i]
      <4>1. CASE i = 1
        <5>1. 1 \in 1..n /\ 1 - 1 = 0 /\ g[0] = <<>>
          BY <1>4, <4>1
        <5>2. g[1] = g[1 - 1] \o sq[1] /\ sq[1] \in Seq(Bit)
          BY <1>5, <5>1, Zenon
        <5>3. g[1] = <<>> \o sq[1]
          BY <5>1, <5>2, Zenon
        <5>4. <<>> \o sq[1] = sq[1]
          BY <5>2
        <5> QED BY <4>1, <5>3, <5>4
      <4>2. CASE i # 1
        BY <1>5, <4>2, Zenon
      <4> QED BY <4>1, <4>2
    <3>2. n >= 1 /\ n \in 1..n
      BY <2>3
    <3>a. \A i \in 1..n : g[i] = IF i = 1 THEN sq[i] ELSE g[i - 1] \o sq[i]
      BY <3>1, Zenon
    <3>3. FlattenSeq(sq) = g[n]
      <4>1. Gathers(n, sq, g)
        BY <2>1, <3>2, <3>a, Zenon DEF Gathers
      <4> QED BY <4>1, FlattenOf, Zenon
    <3> QED BY <1>5, <3>2, <3>3
  <2> QED BY <2>2, <2>3
<1> HIDE DEF sums
<1> QED BY <1>6, <1>7, <1>8, Zenon DEF Summed

\* As many of one length.
LEMMA FlattenOfEqual ==
    ASSUME NEW n \in Nat, NEW sq \in [1..n -> Seq(Bit)], NEW width \in Nat, \A i \in 1..n : Len(sq[i]) = width
    PROVE  FlattenSeq(sq) \in Seq(Bit) /\ Len(FlattenSeq(sq)) = width * n
<1>1. PICK sums : Summed(n, sq, sums)
  BY FlattenLength
<1>2. /\ sums \in [0..n -> Nat] /\ sums[0] = 0 /\ \A i \in 1..n : sums[i] = sums[i - 1] + width
      /\ FlattenSeq(sq) \in Seq(Bit) /\ Len(FlattenSeq(sq)) = sums[n]
  BY <1>1 DEF Summed
<1> DEFINE Q == {k \in Nat : k <= n => sums[k] = width * k}
<1>3. 0 \in Q
  BY <1>2
<1>4. ASSUME NEW k \in Q PROVE k + 1 \in Q
  <2>1. k \in Nat
    OBVIOUS
  <2> SUFFICES ASSUME k + 1 <= n PROVE sums[k + 1] = width * (k + 1)
    BY <2>1
  <2>2. k + 1 \in 1..n /\ (k + 1) - 1 = k /\ sums[k] = width * k
    BY <2>1
  <2>3. sums[k + 1] = width * k + width
    BY <1>2, <2>2
  <2>4. width * (k + 1) = width * k + width
    BY <2>1
  <2> QED BY <2>3, <2>4
<1>5. Q \in SUBSET Nat
  OBVIOUS
<1>6. n \in Q
  <2> HIDE DEF Q
  <2> QED BY <1>3, <1>4, <1>5, NatSetInduction, Zenon
<1> QED BY <1>2, <1>6

\* The sum that the prediction takes is that of the lengths.
LEMMA FlattenOfSum ==
    ASSUME NEW n \in Nat, NEW sq \in [1..n -> Seq(Bit)], NEW len, \A i \in 1..n : len[i] = Len(sq[i])
    PROVE  FlattenSeq(sq) \in Seq(Bit) /\ Len(FlattenSeq(sq)) = SumFunctionOnSet(len, 1..n)
<1>1. PICK sums : Summed(n, sq, sums)
  BY FlattenLength
<1>2. /\ sums \in [0..n -> Nat] /\ sums[0] = 0 /\ \A i \in 1..n : sums[i] = sums[i - 1] + len[i]
      /\ FlattenSeq(sq) \in Seq(Bit) /\ Len(FlattenSeq(sq)) = sums[n]
  BY <1>1, Zenon DEF Summed
<1> DEFINE S == 1..n
           F(T) == SumFunctionOnSet(len, T)
<1>3. IsFiniteSet(S) /\ \A i \in S : len[i] \in Nat
  BY FS_Interval
<1>4. SumAdds(len, S)
  <2> HIDE DEF S
  <2> QED BY <1>3, SumAddsUp
<1>5. /\ F({}) = 0
      /\ \A T \in SUBSET S : F(T) \in Nat
      /\ \A T \in SUBSET S : \A x \in T : F(T) = len[x] + F(T \ {x})
  BY <1>4, Zenon DEF SumAdds
<1> HIDE DEF F
<1> DEFINE Q == {k \in Nat : k <= n => sums[k] = F(1..k)}
<1>6. 0 \in Q
  <2>1. 1..0 = {}
    OBVIOUS
  <2> QED BY <1>2, <1>5, <2>1
<1>7. ASSUME NEW k \in Q PROVE k + 1 \in Q
  <2>1. k \in Nat
    OBVIOUS
  <2> SUFFICES ASSUME k + 1 <= n PROVE sums[k + 1] = F(1..(k + 1))
    BY <2>1
  <2>2. k + 1 \in 1..n /\ (k + 1) - 1 = k /\ sums[k] = F(1..k)
    BY <2>1
  <2>3. sums[k + 1] = F(1..k) + len[k + 1]
    BY <1>2, <2>2
  <2>4. (1..(k + 1)) \ {k + 1} = 1..k /\ k + 1 \in 1..(k + 1) /\ 1..(k + 1) \in SUBSET S /\ 1..k \in SUBSET S
    BY <2>1
  <2> DEFINE T == 1..(k + 1)
             R == 1..k
             x == k + 1
  <2>a. T \in SUBSET S /\ x \in T /\ T \ {x} = R
    BY <2>4
  <2>b. F(T) = len[x] + F(T \ {x})
    <3> HIDE DEF T, x, S
    <3> QED BY <1>5, <2>a, Zenon
  <2>5. F(1..(k + 1)) = len[k + 1] + F(1..k)
    BY <2>a, <2>b, Zenon
  <2>6. len[k + 1] \in Nat /\ F(1..k) \in Nat
    BY <1>3, <1>5, <2>2, <2>4
  <2> QED BY <2>3, <2>5, <2>6
<1>8. Q \in SUBSET Nat
  OBVIOUS
<1>9. n \in Q
  <2> HIDE DEF Q
  <2> QED BY <1>6, <1>7, <1>8, NatSetInduction, Zenon
<1>10. n <= n
  OBVIOUS
<1> QED BY <1>2, <1>9, <1>10 DEF F

----------------------------------------------------------------------------
(* The predicted length of a number in nibbles.                            *)

LEMMA NibbleLenUnfolds ==
    \A v \in Nat : NibbleBitLen[v] = IF v < 8 THEN 4 ELSE 4 + NibbleBitLen[v \div 8]
<1> DEFINE F(g, v) == IF v < 8 THEN 4 ELSE 4 + g[v \div 8]
           first == [v \in Nat |-> 4]
           step == [v \in Nat |-> [x \in Nat |-> 4 + x]]
<1>1. first \in [Nat -> Nat] /\ step \in [Nat -> [Nat -> Nat]]
  OBVIOUS
<1>2. \A v \in Nat : first[v] = 4 /\ \A x \in Nat : step[v][x] = 4 + x
  OBVIOUS
<1> HIDE DEF first, step
<1>3. \E f \in [Nat -> Nat] : \A v \in Nat : f[v] = IF v < 8 THEN first[v] ELSE step[v][f[v \div 8]]
  <2> DEFINE V == Nat
             m == 8
             d == 8
  <2>1. m \in Nat \ {0} /\ d \in Nat /\ d >= 2
    OBVIOUS
  <2>2. first \in [Nat -> V] /\ step \in [Nat -> [V -> V]]
    BY <1>1, Zenon
  <2> HIDE DEF V, m, d
  <2>3. \E f : Dividing(V, m, d, first, step, f)
    BY <2>1, <2>2, DividingExists, Zenon
  <2> QED BY <2>3 DEF V, m, d, Dividing
<1>a. PICK f \in [Nat -> Nat] : \A v \in Nat : f[v] = IF v < 8 THEN first[v] ELSE step[v][f[v \div 8]]
  BY <1>3
<1>4. ASSUME NEW v \in Nat PROVE f[v] = F(f, v)
  <2> DEFINE q == v \div 8
  <2>1. q \in Nat
    OBVIOUS
  <2>2. f[v] = IF v < 8 THEN first[v] ELSE step[v][f[q]]
    BY <1>a
  <2> HIDE DEF q
  <2>3. first[v] = 4 /\ f[q] \in Nat /\ step[v][f[q]] = 4 + f[q]
    BY <1>2, <2>1, Zenon
  <2>4. f[v] = IF v < 8 THEN 4 ELSE 4 + f[q]
    BY <2>2, <2>3, Zenon
  <2> QED BY <2>4 DEF q
<1>5. f = [v \in Nat |-> F(f, v)]
  <2> HIDE DEF F
  <2> QED BY <1>4
<1>6. NibbleBitLen = CHOOSE g : g = [v \in Nat |-> F(g, v)]
  BY Zenon DEF NibbleBitLen
<1>7. NibbleBitLen = [v \in Nat |-> F(NibbleBitLen, v)]
  BY <1>5, <1>6, Zenon
<1> DEFINE B == NibbleBitLen
<1>8. \A v \in Nat : B[v] = F(B, v)
  BY <1>7, Zenon
<1> HIDE DEF B
<1> QED BY <1>8 DEF B

LEMMA NibbleLen ==
    ASSUME NEW v \in Nat
    PROVE  Nibbles[v] \in Seq(Bit) /\ Len(Nibbles[v]) = NibbleBitLen[v] /\ NibbleBitLen[v] \in Nat
<1> DEFINE P(x) == Nibbles[x] \in Seq(Bit) /\ Len(Nibbles[x]) = NibbleBitLen[x] /\ NibbleBitLen[x] \in Nat
           Q == {n \in Nat : \A x \in 0..n : P(x)}
<1>1. ASSUME NEW n \in Nat, \A x \in 0..(n - 1) : P(x) PROVE P(n)
  <2>1. PICK q, r : q \in Nat /\ NibbleStep(n, q, r) /\ q = n \div 8
    <3>1. NibbleStep(n, n \div 8, n % 8)
      BY NibblesOf
    <3>2. n \div 8 \in Nat
      OBVIOUS
    <3> QED BY <3>1, <3>2
  <2>3. NibbleBitLen[n] = IF n < 8 THEN 4 ELSE 4 + NibbleBitLen[q]
    BY <2>1, NibbleLenUnfolds
  <2>4. CASE n < 8
    <3>1. Len(Nibbles[n]) = 4
      BY <2>1, <2>4, Zenon DEF NibbleStep
    <3>2. Nibbles[n] \in Seq(Bit)
      BY <2>1 DEF NibbleStep
    <3> QED BY <2>3, <2>4, <3>1, <3>2
  <2>5. CASE ~(n < 8)
    <3>1. n >= 8 /\ Nibbles[n] \in Seq(Bit)
      BY <2>1, <2>5 DEF NibbleStep
    <3>2. q >= 1 /\ q < n /\ Len(Nibbles[n]) = 4 + Len(Nibbles[q])
      BY <2>1, <3>1, Zenon DEF NibbleStep
    <3>3. q \in 0..(n - 1)
      BY <2>1, <3>2
    <3>4. P(q)
      BY <1>1, <3>3
    <3> QED BY <2>3, <2>5, <3>1, <3>2, <3>4
  <2> QED BY <2>4, <2>5
<1> HIDE DEF P
<1>2. 0 \in Q
  <2>1. 0..(0 - 1) = {} /\ 0..0 = {0}
    OBVIOUS
  <2> QED BY <1>1, <2>1
<1>3. ASSUME NEW k \in Q PROVE k + 1 \in Q
  <2>1. k \in Nat /\ \A x \in 0..k : P(x)
    OBVIOUS
  <2>2. k + 1 \in Nat /\ (k + 1) - 1 = k
    BY <2>1
  <2>3. P(k + 1)
    BY <1>1, <2>1, <2>2
  <2>4. \A x \in 0..(k + 1) : x \in 0..k \/ x = k + 1
    BY <2>1
  <2> QED BY <2>1, <2>2, <2>3, <2>4
<1>4. Q \in SUBSET Nat
  OBVIOUS
<1>5. v \in Q
  <2> HIDE DEF Q
  <2> QED BY <1>2, <1>3, <1>4, NatSetInduction
<1>6. v \in 0..v
  OBVIOUS
<1> QED BY <1>5, <1>6 DEF P

----------------------------------------------------------------------------
(* The topology.                                                           *)

\* A node with fields of these types takes as many bits as predicted.
NodeFields(node) ==
    /\ node.relation \in Nat /\ node.order \in Nat /\ node.kind \in 0..26 \cup 200..222
    /\ node.parent \in Nat /\ node.a \in Nat /\ node.b \in Nat

LEMMA ThreeParts ==
    ASSUME NEW r \in Seq(Bit), NEW s \in Seq(Bit), NEW t \in Seq(Bit)
    PROVE  (r \o s) \o t \in Seq(Bit) /\ Len((r \o s) \o t) = Len(r) + Len(s) + Len(t)
<1>1. r \o s \in Seq(Bit) /\ Len(r \o s) = Len(r) + Len(s) /\ Len(r) \in Nat /\ Len(s) \in Nat /\ Len(t) \in Nat
  BY PartsOfTwo
<1> DEFINE u == r \o s
<1>2. u \in Seq(Bit) /\ Len(u) = Len(r) + Len(s)
  BY <1>1
<1> HIDE DEF u
<1>3. u \o t \in Seq(Bit) /\ Len(u \o t) = Len(u) + Len(t)
  BY <1>2, PartsOfTwo, Zenon
<1> QED BY <1>1, <1>2, <1>3 DEF u

LEMMA NodeLength ==
    ASSUME NEW node, NodeFields(node), NEW prev \in Nat
    PROVE  NodeBits(node, prev) \in Seq(Bit) /\ Len(NodeBits(node, prev)) = NodeBitLen(node, prev)
<1> DEFINE r == Bits(node.relation, 1)
           o == Bits(node.order, OrderBits)
           k == Bits(KindIndex(node.kind), KindIndexBits)
           w == IF node.parent = NoParent THEN 0 ELSE BitsForIndex(prev)
           p == IF node.parent = NoParent THEN <<1>> ELSE <<0>> \o Bits(node.parent - 1, BitsForIndex(prev))
           a == Nibbles[node.a]
           b == Nibbles[node.b]
<1>1. r \in Seq(Bit) /\ Len(r) = 1
  <2> DEFINE one == 1
  <2>1. one \in Nat /\ node.relation \in Int
    BY DEF NodeFields
  <2> HIDE DEF one
  <2>2. Bits(node.relation, one) \in Seq(Bit) /\ Len(Bits(node.relation, one)) = one
    BY <2>1, BitsLength
  <2> QED BY <2>2 DEF one
<1>2. o \in Seq(Bit) /\ Len(o) = OrderBits /\ OrderBits \in Nat
  <2>1. OrderBits \in Nat /\ node.order \in Int
    BY DEF NodeFields, OrderBits
  <2> QED BY <2>1, BitsLength
<1>3. k \in Seq(Bit) /\ Len(k) = KindIndexBits /\ KindIndexBits \in Nat
  <2>1. KindIndexBits \in Nat /\ KindIndex(node.kind) \in Int
    <3>1. node.kind \in 0..26 \cup 200..222
      BY DEF NodeFields
    <3> QED BY <3>1 DEF KindIndex, KindIndexBits
  <2> QED BY <2>1, BitsLength
<1>4. p \in Seq(Bit) /\ Len(p) = 1 + w /\ w \in Nat
  <2>1. <<0>> \in Seq(Bit) /\ <<1>> \in Seq(Bit) /\ Len(<<0>>) = 1 /\ Len(<<1>>) = 1
    BY DEF Bit
  <2>2. CASE node.parent = NoParent
    BY <2>1, <2>2
  <2>3. CASE node.parent # NoParent
    <3> DEFINE width == BitsForIndex(prev)
               v == node.parent - 1
    <3>1. width \in Nat /\ v \in Int
      BY IndexWidth DEF NodeFields
    <3> HIDE DEF width, v
    <3>2. Bits(v, width) \in Seq(Bit) /\ Len(Bits(v, width)) = width
      BY <3>1, BitsLength
    <3> DEFINE s == Bits(v, width)
               zero == <<0>>
    <3>3. s \in Seq(Bit) /\ Len(s) = width /\ zero \in Seq(Bit) /\ Len(zero) = 1
      BY <2>1, <3>2
    <3> HIDE DEF s, zero
    <3>4. zero \o s \in Seq(Bit) /\ Len(zero \o s) = Len(zero) + Len(s)
      BY <3>3, PartsOfTwo, Zenon
    <3>5. p = zero \o s /\ w = width
      BY <2>3 DEF s, zero, v, width
    <3> QED BY <3>1, <3>3, <3>4, <3>5, Zenon
  <2> QED BY <2>2, <2>3
<1>5. /\ a \in Seq(Bit) /\ Len(a) = NibbleBitLen[node.a] /\ NibbleBitLen[node.a] \in Nat
      /\ b \in Seq(Bit) /\ Len(b) = NibbleBitLen[node.b] /\ NibbleBitLen[node.b] \in Nat
  BY NibbleLen, Zenon DEF NodeFields
<1>6. NodeBits(node, prev) = ((((r \o o) \o k) \o p) \o a) \o b
  BY DEF NodeBits
<1>7. NodeBitLen(node, prev) = 1 + OrderBits + KindIndexBits + 1 + w + NibbleBitLen[node.a] + NibbleBitLen[node.b]
  BY DEF NodeBitLen
<1> HIDE DEF r, o, k, w, p, a, b
<1> DEFINE rok == (r \o o) \o k
<1>8. rok \in Seq(Bit) /\ Len(rok) = 1 + OrderBits + KindIndexBits
  <2>1. rok \in Seq(Bit) /\ Len(rok) = Len(r) + Len(o) + Len(k)
    BY <1>1, <1>2, <1>3, ThreeParts, ZenonT(40)
  <2> QED BY <2>1, <1>1, <1>2, <1>3
<1>9. NodeBits(node, prev) = ((rok \o p) \o a) \o b
  BY <1>6
<1> HIDE DEF rok
<1> DEFINE pa == (rok \o p) \o a
<1>10. pa \in Seq(Bit) /\ Len(pa) = Len(rok) + Len(p) + Len(a)
  BY <1>8, <1>4, <1>5, ThreeParts, ZenonT(40)
<1>11. NodeBits(node, prev) = pa \o b
  BY <1>9
<1> HIDE DEF pa
<1>12. pa \o b \in Seq(Bit) /\ Len(pa \o b) = Len(pa) + Len(b)
  BY <1>10, <1>5, PartsOfTwo, Zenon
<1>13. Len(pa \o b) = 1 + OrderBits + KindIndexBits + 1 + w + NibbleBitLen[node.a] + NibbleBitLen[node.b]
  BY <1>2, <1>3, <1>4, <1>5, <1>8, <1>10, <1>12, SMTT(30)
<1> QED BY <1>7, <1>11, <1>12, <1>13

LEMMA TopologyLength ==
    ASSUME NEW n \in Nat, NEW nodes, DOMAIN nodes = 1..n, \A i \in 1..n : NodeFields(nodes[i])
    PROVE  TopologyBits(nodes) \in Seq(Bit) /\ Len(TopologyBits(nodes)) = TopologyBitLen(nodes)
<1> DEFINE sq == [i \in 1..n |-> NodeBits(nodes[i], i - 1)]
           len == [i \in 1..n |-> NodeBitLen(nodes[i], i - 1)]
<1>1. ASSUME NEW i \in 1..n
      PROVE  NodeBits(nodes[i], i - 1) \in Seq(Bit) /\ Len(NodeBits(nodes[i], i - 1)) = NodeBitLen(nodes[i], i - 1)
  <2> DEFINE prev == i - 1
             node == nodes[i]
  <2>1. prev \in Nat /\ NodeFields(node)
    OBVIOUS
  <2> HIDE DEF prev, node
  <2>2. NodeBits(node, prev) \in Seq(Bit) /\ Len(NodeBits(node, prev)) = NodeBitLen(node, prev)
    BY <2>1, NodeLength, Zenon
  <2> QED BY <2>2 DEF node, prev
<1>2. sq \in [1..n -> Seq(Bit)] /\ \A i \in 1..n : len[i] = Len(sq[i])
  BY <1>1
<1>3. TopologyBits(nodes) = FlattenSeq(sq) /\ TopologyBitLen(nodes) = SumFunctionOnSet(len, 1..n)
  BY Zenon DEF TopologyBits, TopologyBitLen
<1> HIDE DEF sq, len
<1> QED BY <1>2, <1>3, FlattenOfSum, Zenon

\* The nodes of a topology: each has its place for an id, and none an order above most.
NodeKinds == 0..26 \cup 200..222
SomeNode == [id : Nat, parent : Nat, relation : Nat, order : Nat, kind : NodeKinds, a : Nat, b : Nat]
GoodNodes(nodes, most) ==
    /\ nodes \in Seq(SomeNode) /\ Len(nodes) \in Nat
    /\ \A i \in 1..Len(nodes) : nodes[i].id = i /\ nodes[i].order <= most

LEMMA NodeIs ==
    ASSUME NEW id \in Nat, NEW parent \in Nat, NEW relation \in Nat, NEW order \in Nat, NEW kind \in NodeKinds,
           NEW a \in Nat, NEW b \in Nat
    PROVE  /\ Node(id, parent, relation, order, kind, a, b) \in SomeNode
           /\ Node(id, parent, relation, order, kind, a, b).id = id
           /\ Node(id, parent, relation, order, kind, a, b).order = order
BY DEF Node, SomeNode

LEMMA OneMoreNode ==
    ASSUME NEW most \in Nat, NEW nodes, GoodNodes(nodes, most), NEW node \in SomeNode, node.id = Len(nodes) + 1,
           node.order <= most
    PROVE  GoodNodes(Append(nodes, node), most) /\ Len(Append(nodes, node)) = Len(nodes) + 1
<1>1. /\ Append(nodes, node) \in Seq(SomeNode) /\ Len(Append(nodes, node)) = Len(nodes) + 1
      /\ \A i \in 1..Len(nodes) : Append(nodes, node)[i] = nodes[i]
      /\ Append(nodes, node)[Len(nodes) + 1] = node /\ Len(nodes) \in Nat
  BY DEF GoodNodes
<1> DEFINE s == Append(nodes, node)
<1> HIDE DEF s
<1>2. ASSUME NEW i \in 1..Len(s) PROVE s[i].id = i /\ s[i].order <= most
  <2>1. CASE i = Len(nodes) + 1
    BY <1>1, <2>1 DEF s
  <2>2. CASE i # Len(nodes) + 1
    <3>1. i \in 1..Len(nodes)
      BY <1>1, <2>2 DEF s
    <3>2. s[i] = nodes[i]
      BY <1>1, <3>1 DEF s
    <3> QED BY <3>1, <3>2 DEF GoodNodes
  <2> QED BY <2>1, <2>2
<1> QED BY <1>1, <1>2 DEF s, GoodNodes

Nodes(nodes, most, n) == most \in Nat /\ GoodNodes(nodes, most) /\ Len(nodes) = n
IsNext(node, most, n) == node \in SomeNode /\ node.id = n /\ node.order <= most

LEMMA LongerNodes ==
    ASSUME NEW nodes, NEW most, NEW n, NEW node, NEW m, Nodes(nodes, most, n), IsNext(node, most, m), m = n + 1
    PROVE  Nodes(Append(nodes, node), most, m)
<1>1. most \in Nat /\ GoodNodes(nodes, most) /\ node \in SomeNode /\ node.id = Len(nodes) + 1 /\ node.order <= most
      /\ Len(nodes) + 1 = m
  BY Zenon DEF Nodes, IsNext
<1>2. GoodNodes(Append(nodes, node), most) /\ Len(Append(nodes, node)) = Len(nodes) + 1
  BY <1>1, OneMoreNode
<1> QED BY <1>1, <1>2, Zenon DEF Nodes

LEMMA RootAlone ==
    GoodNodes(<<Root>>, 1) /\ Len(<<Root>>) = 1
<1>1. Root \in SomeNode /\ Root.id = 1 /\ Root.order = 0
  BY DEF Root, Node, SomeNode, NodeKinds, NoParent
<1> DEFINE root == Root
<1> HIDE DEF root, Root
<1>2. <<root>> \in Seq(SomeNode) /\ Len(<<root>>) = 1 /\ \A i \in 1..1 : <<root>>[i] = root /\ i = 1
  BY <1>1 DEF root
<1>3. root.id = 1 /\ root.order = 0 /\ 0 <= 1 /\ 1 \in Nat
  BY <1>1 DEF root
<1>4. \A i \in 1..1 : <<root>>[i].id = i /\ <<root>>[i].order <= 1
  BY <1>2, <1>3
<1>5. GoodNodes(<<root>>, 1)
  BY <1>2, <1>3, <1>4, Zenon DEF GoodNodes
<1> QED BY <1>2, <1>5 DEF root

LEMMA ChainIsGood ==
    ASSUME NEW kind \in NodeKinds, NEW a \in Nat, NEW b \in Nat
    PROVE  GoodNodes(Chain(kind, a, b), 1) /\ Len(Chain(kind, a, b)) = 2
<1> DEFINE root == Root
           node == Node(2, 1, 0, 0, kind, a, b)
           most == 1
<1>1. GoodNodes(<<root>>, most) /\ Len(<<root>>) = 1 /\ most \in Nat
  BY RootAlone
<1>2. node \in SomeNode /\ node.id = 2 /\ node.order <= most
  BY DEF Node, SomeNode
<1>3. Chain(kind, a, b) = Append(<<root>>, node)
  BY DEF Chain
<1> HIDE DEF node, root, most
<1>4. GoodNodes(Append(<<root>>, node), most) /\ Len(Append(<<root>>, node)) = 2
  <2>1. Nodes(<<root>>, most, 1) /\ IsNext(node, most, 2)
    BY <1>1, <1>2, Zenon DEF Nodes, IsNext
  <2>2. 2 = 1 + 1
    OBVIOUS
  <2>3. Nodes(Append(<<root>>, node), most, 2)
    BY <2>1, <2>2, LongerNodes, Zenon
  <2> QED BY <2>3, Zenon DEF Nodes
<1> QED BY <1>3, <1>4 DEF most

LEMMA Chain2IsGood ==
    ASSUME NEW kind \in NodeKinds, NEW a \in Nat, NEW next \in NodeKinds
    PROVE  GoodNodes(Chain2(kind, a, next), 1) /\ Len(Chain2(kind, a, next)) = 3
<1> DEFINE chain == Chain(kind, a, 0)
           node == Node(3, 2, 0, 0, next, 1, 0)
           most == 1
<1>1. GoodNodes(chain, most) /\ Len(chain) = 2 /\ most \in Nat
  BY ChainIsGood
<1>2. node \in SomeNode /\ node.id = 3 /\ node.order <= most
  BY DEF Node, SomeNode
<1>3. Chain2(kind, a, next) = Append(chain, node)
  BY DEF Chain, Chain2
<1> HIDE DEF node, chain, most
<1>4. GoodNodes(Append(chain, node), most) /\ Len(Append(chain, node)) = 3
  <2>1. Nodes(chain, most, 2) /\ IsNext(node, most, 3)
    BY <1>1, <1>2, Zenon DEF Nodes, IsNext
  <2>2. 3 = 2 + 1
    OBVIOUS
  <2>3. Nodes(Append(chain, node), most, 3)
    BY <2>1, <2>2, LongerNodes, Zenon
  <2> QED BY <2>3, Zenon DEF Nodes
<1> QED BY <1>3, <1>4 DEF most

LEMMA ForkIsGood ==
    ASSUME NEW p \in Nat, NEW h \in Nat, h <= p
    PROVE  GoodNodes(Fork(p, h), 1) /\ Len(Fork(p, h)) = 4
<1> DEFINE chain == Chain(4, p, h)
           left == Node(3, 2, 1, 0, 10, h, 0)
           right == Node(4, 2, 1, 1, 11, p - h, 0)
           most == 1
<1>1. GoodNodes(chain, most) /\ Len(chain) = 2 /\ most \in Nat
  BY ChainIsGood DEF NodeKinds
<1>2. left \in SomeNode /\ left.id = 3 /\ left.order <= most
  BY DEF Node, SomeNode, NodeKinds
<1>3. right \in SomeNode /\ right.id = 4 /\ right.order <= most
  <2>1. p - h \in Nat
    OBVIOUS
  <2> QED BY <2>1 DEF Node, SomeNode, NodeKinds
<1>4. Fork(p, h) = Append(Append(chain, left), right)
  BY DEF Chain, Fork
<1> HIDE DEF left, right, chain, most
<1> DEFINE more == Append(chain, left)
<1>5. GoodNodes(more, most) /\ Len(more) = 3
  <2>1. Nodes(chain, most, 2) /\ IsNext(left, most, 3)
    BY <1>1, <1>2, Zenon DEF Nodes, IsNext
  <2>2. 3 = 2 + 1
    OBVIOUS
  <2>3. Nodes(Append(chain, left), most, 3)
    BY <2>1, <2>2, LongerNodes, Zenon
  <2> QED BY <2>3, Zenon DEF Nodes
<1>6. Fork(p, h) = Append(more, right)
  BY <1>4
<1> HIDE DEF more
<1>7. GoodNodes(Append(more, right), most) /\ Len(Append(more, right)) = 4
  <2>1. Nodes(more, most, 3) /\ IsNext(right, most, 4)
    BY <1>1, <1>3, <1>5, Zenon DEF Nodes, IsNext
  <2>2. 4 = 3 + 1
    OBVIOUS
  <2>3. Nodes(Append(more, right), most, 4)
    BY <2>1, <2>2, LongerNodes, Zenon
  <2> QED BY <2>3, Zenon DEF Nodes
<1> QED BY <1>6, <1>7 DEF most

LEMMA OfTailIsGood ==
    ASSUME NEW p \in Nat, p >= 1, NEW kind \in NodeKinds, NEW a \in Nat
    PROVE  GoodNodes(OfTail(p, kind, a), 1) /\ Len(OfTail(p, kind, a)) = 5
<1> DEFINE fork == Fork(p, 1)
           node == Node(5, 4, 0, 0, kind, a, 0)
           most == 1
<1>1. GoodNodes(fork, most) /\ Len(fork) = 4 /\ most \in Nat
  BY ForkIsGood
<1>2. node \in SomeNode /\ node.id = 5 /\ node.order <= most
  BY DEF Node, SomeNode
<1>3. OfTail(p, kind, a) = Append(fork, node)
  BY DEF OfTail
<1> HIDE DEF node, fork, most
<1>4. GoodNodes(Append(fork, node), most) /\ Len(Append(fork, node)) = 5
  <2>1. Nodes(fork, most, 4) /\ IsNext(node, most, 5)
    BY <1>1, <1>2, Zenon DEF Nodes, IsNext
  <2>2. 5 = 4 + 1
    OBVIOUS
  <2>3. Nodes(Append(fork, node), most, 5)
    BY <2>1, <2>2, LongerNodes, Zenon
  <2> QED BY <2>3, Zenon DEF Nodes
<1> QED BY <1>3, <1>4 DEF most

\* One more, as the kinds of several steps have it.
LEMMA ThenOneMore ==
    ASSUME NEW nodes, GoodNodes(nodes, 1), NEW n \in Nat, Len(nodes) = n, NEW id, id = n + 1,
           NEW parent \in Nat, NEW kind \in NodeKinds
    PROVE  GoodNodes(Append(nodes, Node(id, parent, 0, 0, kind, 1, 0)), 1)
<1> DEFINE node == Node(id, parent, 0, 0, kind, 1, 0)
           most == 1
<1>1. node \in SomeNode /\ node.id = Len(nodes) + 1 /\ node.order <= most /\ most \in Nat
  BY DEF Node, SomeNode
<1>2. GoodNodes(nodes, most)
  OBVIOUS
<1> HIDE DEF node, most
<1>3. GoodNodes(Append(nodes, node), most)
  BY <1>1, <1>2, OneMoreNode
<1> QED BY <1>3 DEF node, most

\* The first step of the kinds that split checks the period and the head.
SplitKinds == {10, 11, 12, 13, 18, 19, 20, 21, 22}

LEMMA SplitsCheck ==
    ASSUME NEW plan \in PlanType, NEW n, NEW h, 1 \in DOMAIN Steps(plan),
           Steps(plan)[1] = OnAll("split", plan.period, h), Applies(plan, n)
    PROVE  plan.period >= 2 /\ 0 < h /\ h < plan.period
<1> DEFINE step == OnAll("split", plan.period, h)
<1>1. StepApplies(step, plan.period, n)
  BY DEF Applies
<1>2. step.op = "split" /\ step.a = plan.period /\ step.b = h
  BY DEF OnAll
<1> HIDE DEF step
<1>3. StepApplies(step, plan.period, n) <=> step.a >= 2 /\ 0 < step.b /\ step.b < step.a
  BY <1>2 DEF StepApplies
<1> QED BY <1>1, <1>2, <1>3

LEMMA SplitsFirst ==
    ASSUME NEW plan
    PROVE  /\ plan.kind = 4 => 1 \in DOMAIN Steps(plan) /\ Steps(plan)[1] = OnAll("split", plan.period, plan.head)
           /\ plan.kind \in SplitKinds => 1 \in DOMAIN Steps(plan) /\ Steps(plan)[1] = OnAll("split", plan.period, 1)
<1> DEFINE p == plan.period
           h == plan.head
           first == OnAll("split", p, 1)
<1>1. ASSUME plan.kind = 4 PROVE 1 \in DOMAIN Steps(plan) /\ Steps(plan)[1] = OnAll("split", p, h)
  BY <1>1 DEF Steps
<1>2. ASSUME plan.kind = 10 PROVE 1 \in DOMAIN Steps(plan) /\ Steps(plan)[1] = first
  BY <1>2 DEF Steps
<1>3. ASSUME plan.kind = 11 PROVE 1 \in DOMAIN Steps(plan) /\ Steps(plan)[1] = first
  BY <1>3 DEF Steps
<1>4. ASSUME plan.kind = 12 PROVE 1 \in DOMAIN Steps(plan) /\ Steps(plan)[1] = first
  BY <1>4 DEF Steps
<1>5. ASSUME plan.kind = 13 PROVE 1 \in DOMAIN Steps(plan) /\ Steps(plan)[1] = first
  BY <1>5 DEF Steps
<1>6. ASSUME plan.kind = 18 PROVE 1 \in DOMAIN Steps(plan) /\ Steps(plan)[1] = first
  BY <1>6 DEF Steps
<1>7. ASSUME plan.kind = 19 PROVE 1 \in DOMAIN Steps(plan) /\ Steps(plan)[1] = first
  BY <1>7 DEF Steps
<1>8. ASSUME plan.kind = 20 PROVE 1 \in DOMAIN Steps(plan) /\ Steps(plan)[1] = first
  BY <1>8 DEF Steps
<1>9. ASSUME plan.kind = 21 PROVE 1 \in DOMAIN Steps(plan) /\ Steps(plan)[1] = first
  BY <1>9 DEF Steps
<1>10. ASSUME plan.kind = 22 PROVE 1 \in DOMAIN Steps(plan) /\ Steps(plan)[1] = first
  BY <1>10 DEF Steps
<1> QED BY <1>1, <1>2, <1>3, <1>4, <1>5, <1>6, <1>7, <1>8, <1>9, <1>10 DEF SplitKinds

LEMMA SplitFits ==
    ASSUME NEW plan \in PlanType, NEW n, Applies(plan, n)
    PROVE  (plan.kind = 4 => plan.head <= plan.period) /\ (plan.kind \in SplitKinds => plan.period >= 1)
<1>1. plan.period \in Nat /\ plan.head \in Nat
  BY DEF PlanType, U32
<1>2. ASSUME plan.kind = 4 PROVE plan.head <= plan.period
  <2>1. plan.head < plan.period
    BY <1>2, SplitsFirst, SplitsCheck
  <2> QED BY <1>1, <2>1
<1>3. ASSUME plan.kind \in SplitKinds PROVE plan.period >= 1
  <2>1. plan.period >= 2
    BY <1>3, SplitsFirst, SplitsCheck
  <2> QED BY <1>1, <2>1
<1> QED BY <1>2, <1>3

\* The topology of a plan that applies.
LEMMA TopologyIsGood ==
    ASSUME NEW plan \in PlanType, NEW n, Applies(plan, n)
    PROVE  GoodNodes(TopologyOf(plan), 1)
<1> DEFINE p == plan.period
           h == plan.head
           t == TopologyOf(plan)
<1>1. p \in Nat /\ h \in Nat /\ plan.kind \in 0..22 /\ 0 \in Nat /\ 1 \in Nat /\ 8 \in Nat
  BY DEF PlanType, U32, Kinds
<1>2. (plan.kind = 4 => h <= p) /\ (plan.kind \in SplitKinds => p >= 1)
  BY SplitFits
<1>3. \A k \in 0..26 : k \in NodeKinds
  BY DEF NodeKinds
<1>c0. CASE plan.kind = 0
  <2>1. t = Chain(1, 0, 0)
    BY <1>c0 DEF TopologyOf
  <2>2. 1 \in NodeKinds
    BY <1>3
  <2> QED BY <1>1, <2>1, <2>2, ChainIsGood
<1>c1. CASE plan.kind = 1
  <2>1. t = Chain(2, 1, 0)
    BY <1>c1 DEF TopologyOf
  <2>2. 2 \in NodeKinds
    BY <1>3
  <2> QED BY <1>1, <2>1, <2>2, ChainIsGood
<1>c2. CASE plan.kind = 2
  <2>1. t = Chain(3, 1, 0)
    BY <1>c2 DEF TopologyOf
  <2>2. 3 \in NodeKinds
    BY <1>3
  <2> QED BY <1>1, <2>1, <2>2, ChainIsGood
<1>c3. CASE plan.kind = 3
  <2>1. t = Chain(19, 8, 0)
    BY <1>c3 DEF TopologyOf
  <2>2. 19 \in NodeKinds
    BY <1>3
  <2> QED BY <1>1, <2>1, <2>2, ChainIsGood
<1>c4. CASE plan.kind = 4
  <2>1. t = Fork(p, h)
    BY <1>c4 DEF TopologyOf
  <2> QED BY <1>1, <1>2, <1>c4, <2>1, ForkIsGood
<1>c5. CASE plan.kind = 5
  <2>1. t = Chain(5, p, 0)
    BY <1>c5 DEF TopologyOf
  <2>2. 5 \in NodeKinds
    BY <1>3
  <2> QED BY <1>1, <2>1, <2>2, ChainIsGood
<1>c6. CASE plan.kind = 6
  <2>1. t = Chain(6, p, 0)
    BY <1>c6 DEF TopologyOf
  <2>2. 6 \in NodeKinds
    BY <1>3
  <2> QED BY <1>1, <2>1, <2>2, ChainIsGood
<1>c7. CASE plan.kind = 7
  <2>1. t = Chain(7, p, 0)
    BY <1>c7 DEF TopologyOf
  <2>2. 7 \in NodeKinds
    BY <1>3
  <2> QED BY <1>1, <2>1, <2>2, ChainIsGood
<1>c8. CASE plan.kind = 8
  <2>1. t = Chain2(5, p, 12)
    BY <1>c8 DEF TopologyOf
  <2>2. 5 \in NodeKinds /\ 12 \in NodeKinds
    BY <1>3
  <2> QED BY <1>1, <2>1, <2>2, Chain2IsGood
<1>c9. CASE plan.kind = 9
  <2>1. t = Chain2(5, p, 13)
    BY <1>c9 DEF TopologyOf
  <2>2. 5 \in NodeKinds /\ 13 \in NodeKinds
    BY <1>3
  <2> QED BY <1>1, <2>1, <2>2, Chain2IsGood
<1>c10. CASE plan.kind = 10
  <2>1. t = OfTail(p, 14, h)
    BY <1>c10 DEF TopologyOf
  <2>2. 14 \in NodeKinds /\ p >= 1
    BY <1>2, <1>3, <1>c10 DEF SplitKinds
  <2> QED BY <1>1, <2>1, <2>2, OfTailIsGood
<1>c11. CASE plan.kind = 11
  <2>1. t = Append(OfTail(p, 14, h), Node(6, 5, 0, 0, 12, 1, 0))
    BY <1>c11 DEF TopologyOf
  <2>2. 14 \in NodeKinds /\ 12 \in NodeKinds /\ p >= 1 /\ 5 \in Nat /\ 6 = 5 + 1
    BY <1>2, <1>3, <1>c11 DEF SplitKinds
  <2>3. GoodNodes(OfTail(p, 14, h), 1) /\ Len(OfTail(p, 14, h)) = 5
    BY <1>1, <2>2, OfTailIsGood
  <2> QED BY <2>1, <2>2, <2>3, ThenOneMore, Zenon
<1>c12. CASE plan.kind = 12
  <2>1. t = OfTail(p, 15, h)
    BY <1>c12 DEF TopologyOf
  <2>2. 15 \in NodeKinds /\ p >= 1
    BY <1>2, <1>3, <1>c12 DEF SplitKinds
  <2> QED BY <1>1, <2>1, <2>2, OfTailIsGood
<1>c13. CASE plan.kind = 13
  <2>1. t = OfTail(p, 16, h)
    BY <1>c13 DEF TopologyOf
  <2>2. 16 \in NodeKinds /\ p >= 1
    BY <1>2, <1>3, <1>c13 DEF SplitKinds
  <2> QED BY <1>1, <2>1, <2>2, OfTailIsGood
<1>c14. CASE plan.kind = 14
  <2>1. t = Append(Chain(4, p, h), Node(3, 2, 0, 0, 17, 1, 0))
    BY <1>c14 DEF TopologyOf
  <2>2. 4 \in NodeKinds /\ 17 \in NodeKinds /\ 2 \in Nat /\ 3 = 2 + 1
    BY <1>3
  <2>3. GoodNodes(Chain(4, p, h), 1) /\ Len(Chain(4, p, h)) = 2
    BY <1>1, <2>2, ChainIsGood
  <2> QED BY <2>1, <2>2, <2>3, ThenOneMore, Zenon
<1>c15. CASE plan.kind = 15
  <2>1. t = Append(Chain(4, p, h), Node(3, 2, 0, 0, 18, 1, 0))
    BY <1>c15 DEF TopologyOf
  <2>2. 4 \in NodeKinds /\ 18 \in NodeKinds /\ 2 \in Nat /\ 3 = 2 + 1
    BY <1>3
  <2>3. GoodNodes(Chain(4, p, h), 1) /\ Len(Chain(4, p, h)) = 2
    BY <1>1, <2>2, ChainIsGood
  <2> QED BY <2>1, <2>2, <2>3, ThenOneMore, Zenon
<1>c16. CASE plan.kind = 16
  <2>1. t = Chain2(19, 8, 20)
    BY <1>c16 DEF TopologyOf
  <2>2. 19 \in NodeKinds /\ 20 \in NodeKinds
    BY <1>3
  <2> QED BY <1>1, <2>1, <2>2, Chain2IsGood
<1>c17. CASE plan.kind = 17
  <2>1. t = Chain2(19, 8, 21)
    BY <1>c17 DEF TopologyOf
  <2>2. 19 \in NodeKinds /\ 21 \in NodeKinds
    BY <1>3
  <2> QED BY <1>1, <2>1, <2>2, Chain2IsGood
<1>c18. CASE plan.kind = 18
  <2>1. t = OfTail(p, 22, h)
    BY <1>c18 DEF TopologyOf
  <2>2. 22 \in NodeKinds /\ p >= 1
    BY <1>2, <1>3, <1>c18 DEF SplitKinds
  <2> QED BY <1>1, <2>1, <2>2, OfTailIsGood
<1>c19. CASE plan.kind = 19
  <2>1. t = OfTail(p, 23, h)
    BY <1>c19 DEF TopologyOf
  <2>2. 23 \in NodeKinds /\ p >= 1
    BY <1>2, <1>3, <1>c19 DEF SplitKinds
  <2> QED BY <1>1, <2>1, <2>2, OfTailIsGood
<1>c20. CASE plan.kind = 20
  <2>1. t = OfTail(p, 24, 0)
    BY <1>c20 DEF TopologyOf
  <2>2. 24 \in NodeKinds /\ p >= 1
    BY <1>2, <1>3, <1>c20 DEF SplitKinds
  <2> QED BY <1>1, <2>1, <2>2, OfTailIsGood
<1>c21. CASE plan.kind = 21
  <2>1. t = OfTail(p, 25, 8)
    BY <1>c21 DEF TopologyOf
  <2>2. 25 \in NodeKinds /\ p >= 1
    BY <1>2, <1>3, <1>c21 DEF SplitKinds
  <2> QED BY <1>1, <2>1, <2>2, OfTailIsGood
<1>c22. CASE plan.kind = 22
  <2>1. t = Append(OfTail(p, 25, 8), Node(6, 5, 0, 0, 26, 1, 0))
    BY <1>c22 DEF TopologyOf
  <2>2. 25 \in NodeKinds /\ 26 \in NodeKinds /\ p >= 1 /\ 5 \in Nat /\ 6 = 5 + 1
    BY <1>2, <1>3, <1>c22 DEF SplitKinds
  <2>3. GoodNodes(OfTail(p, 25, 8), 1) /\ Len(OfTail(p, 25, 8)) = 5
    BY <1>1, <2>2, OfTailIsGood
  <2> QED BY <2>1, <2>2, <2>3, ThenOneMore, Zenon
<1> HIDE DEF t
<1> QED BY <1>1, <1>c0, <1>c1, <1>c2, <1>c3, <1>c4, <1>c5, <1>c6, <1>c7, <1>c8, <1>c9, <1>c10,
          <1>c11, <1>c12, <1>c13, <1>c14, <1>c15, <1>c16, <1>c17, <1>c18, <1>c19, <1>c20, <1>c21, <1>c22

\* And with the plan of the corrections, whose node follows its siblings.
LEMMA CorrectedIsGood ==
    ASSUME NEW nodes, GoodNodes(nodes, 1), NEW plan \in PlanType
    PROVE  GoodNodes(WithCorrectionPlan(nodes, plan), 3)
<1> DEFINE siblings == {i \in DOMAIN nodes : nodes[i].parent = 1 /\ nodes[i].relation = 0}
           orders == {0} \cup {nodes[i].order : i \in siblings}
           order == Max(orders) + 1
           node == Node(Len(nodes) + 1, 1, 0, order, CorrectionBase + plan.kind, plan.period, plan.head)
           one == 1
           three == 3
<1>1. /\ nodes \in Seq(SomeNode) /\ Len(nodes) \in Nat /\ DOMAIN nodes = 1..Len(nodes)
      /\ \A i \in 1..Len(nodes) : nodes[i] \in SomeNode /\ nodes[i].id = i /\ nodes[i].order <= one
  BY DEF GoodNodes
<1>2. \A i \in 1..Len(nodes) : nodes[i].order \in Nat
  BY <1>1 DEF SomeNode
<1>3. orders \in SUBSET Nat /\ orders # {} /\ \A x \in orders : x <= one
  BY <1>1, <1>2
<1>4. order \in Nat /\ order <= three
  <2> HIDE DEF orders
  <2>1. one \in Nat
    OBVIOUS
  <2> HIDE DEF one
  <2>2. Max(orders) \in orders
    BY <1>3, <2>1, MaxProperty
  <2>3. Max(orders) \in Nat /\ Max(orders) <= one
    BY <1>3, <2>2, Zenon
  <2> QED BY <2>3 DEF one
<1>5. GoodNodes(nodes, three)
  <2> SUFFICES ASSUME NEW i \in 1..Len(nodes) PROVE nodes[i].order <= three
    BY <1>1 DEF GoodNodes
  <2> QED BY <1>1, <1>2
<1>6. WithCorrectionPlan(nodes, plan) = IF plan = Identity THEN nodes ELSE Append(nodes, node)
  BY DEF WithCorrectionPlan
<1> HIDE DEF order
<1>7. node \in SomeNode /\ node.id = Len(nodes) + 1 /\ node.order <= three /\ three \in Nat
  <2>1. plan.kind \in 0..22 /\ plan.period \in Nat /\ plan.head \in Nat
    BY DEF PlanType, U32, Kinds
  <2>2. CorrectionBase + plan.kind \in NodeKinds
    BY <2>1 DEF CorrectionBase, NodeKinds
  <2> QED BY <1>1, <1>4, <2>1, <2>2 DEF Node, SomeNode
<1> HIDE DEF node, three
<1>8. GoodNodes(Append(nodes, node), three)
  BY <1>5, <1>7, OneMoreNode
<1> QED BY <1>5, <1>6, <1>8 DEF three

\* Good nodes can be bit-packed, into as many bits as predicted.
LEMMA GoodNodesPack ==
    ASSUME NEW nodes, GoodNodes(nodes, 3)
    PROVE  /\ Eligible(nodes) /\ TopologyBits(nodes) \in Seq(Bit)
           /\ Len(TopologyBits(nodes)) = TopologyBitLen(nodes)
<1> DEFINE n == Len(nodes)
<1>1. /\ n \in Nat /\ DOMAIN nodes = 1..n
      /\ \A i \in 1..n : nodes[i] \in SomeNode /\ nodes[i].id = i /\ nodes[i].order <= 3
  BY DEF GoodNodes
<1> HIDE DEF n
<1>2. ASSUME NEW i \in 1..n PROVE NodeFields(nodes[i]) /\ HasIndex(nodes[i].kind)
  <2>1. nodes[i] \in SomeNode
    BY <1>1
  <2> QED BY <2>1 DEF SomeNode, NodeFields, NodeKinds, HasIndex
<1>3. Eligible(nodes)
  BY <1>1, <1>2 DEF Eligible
<1>4. TopologyBits(nodes) \in Seq(Bit) /\ Len(TopologyBits(nodes)) = TopologyBitLen(nodes)
  BY <1>1, <1>2, TopologyLength
<1> QED BY <1>3, <1>4

----------------------------------------------------------------------------
(* The blocks.                                                             *)

LEMMA PlanAdded ==
    ASSUME NEW t \in Seq(PlanType), NEW plan \in PlanType
    PROVE  /\ WithPlan(t, plan) \in Seq(PlanType) /\ plan \in Range(WithPlan(t, plan))
           /\ Range(t) \subseteq Range(WithPlan(t, plan))
<1> DEFINE V == PlanType
<1>1. t \in Seq(V) /\ plan \in V
  OBVIOUS
<1> HIDE DEF V
<1>2. CASE plan \in Range(t)
  <2>1. WithPlan(t, plan) = t
    BY <1>2 DEF WithPlan
  <2> QED BY <1>1, <1>2, <2>1 DEF V
<1>3. CASE plan \notin Range(t)
  <2>1. WithPlan(t, plan) = Append(t, plan)
    BY <1>3 DEF WithPlan
  <2>2. /\ Append(t, plan) \in Seq(V) /\ DOMAIN Append(t, plan) = 1..(Len(t) + 1) /\ Len(t) \in Nat
        /\ DOMAIN t = 1..Len(t) /\ Append(t, plan)[Len(t) + 1] = plan
        /\ \A i \in 1..Len(t) : Append(t, plan)[i] = t[i]
    BY <1>1
  <2>3. Len(t) + 1 \in DOMAIN Append(t, plan) /\ \A i \in DOMAIN t : i \in DOMAIN Append(t, plan)
    BY <2>2
  <2>4. plan \in Range(Append(t, plan))
    BY <2>2, <2>3 DEF Range
  <2>5. ASSUME NEW x \in Range(t) PROVE x \in Range(Append(t, plan))
    <3>1. PICK i \in DOMAIN t : t[i] = x
      BY DEF Range
    <3>2. Append(t, plan)[i] = x /\ i \in DOMAIN Append(t, plan)
      BY <2>2, <2>3, <3>1
    <3> QED BY <3>2 DEF Range
  <2> QED BY <2>1, <2>2, <2>4, <2>5 DEF V
<1> QED BY <1>2, <1>3

\* Every plan of the blocks is in their table.
LEMMA UniquePlansAre ==
    ASSUME NEW blocks, blocks.plans \in Seq(PlanType)
    PROVE  /\ UniquePlans(blocks) \in Seq(PlanType)
           /\ \A j \in 1..Len(blocks.plans) : blocks.plans[j] \in Range(UniquePlans(blocks))
<1> DEFINE V == Seq(PlanType)
           plans == blocks.plans
           n == Len(plans)
           first == <<>>
           step == [i \in Nat |-> [t \in V |-> IF i \in 1..n THEN WithPlan(t, plans[i]) ELSE t]]
           Next1(g, i) == IF i = 0 THEN <<>> ELSE WithPlan(g[i - 1], plans[i])
           f == CHOOSE g : g = [i \in 0..n |-> Next1(g, i)]
<1>1. n \in Nat /\ \A i \in 1..n : plans[i] \in PlanType
  OBVIOUS
<1>2. \A i \in 1..n, t \in V : WithPlan(t, plans[i]) \in V
  BY <1>1, PlanAdded, Zenon
<1>3. step \in [Nat -> [V -> V]] /\ \A i \in 1..n, t \in V : step[i][t] = WithPlan(t, plans[i])
  <2> HIDE DEF V, n, plans
  <2>1. \A i \in 1..n : i \in Nat
    BY <1>1
  <2> QED BY <1>2, <2>1
<1>4. first \in V
  OBVIOUS
<1> HIDE DEF step, first
<1>5. PICK h : Recursive(V, first, step, h)
  <2> HIDE DEF V
  <2> QED BY <1>3, <1>4, RecursionExists
<1>6. h \in [Nat -> V] /\ h[0] = first /\ \A i \in Nat : h[i + 1] = step[i + 1][h[i]]
  BY <1>5, Zenon DEF Recursive
<1> HIDE DEF n, plans, V
<1> DEFINE g == [i \in 0..n |-> h[i]]
<1>7. ASSUME NEW i \in 1..n PROVE i - 1 \in 0..n /\ g[i] = h[i] /\ g[i - 1] = h[i - 1] /\ g[i] = WithPlan(g[i - 1], plans[i])
  <2>1. i - 1 \in Nat /\ (i - 1) + 1 = i /\ i - 1 \in 0..n /\ i \in 0..n /\ i \in Nat
    BY <1>1
  <2>2. h[i] = step[i][h[i - 1]] /\ h[i - 1] \in V
    BY <1>6, <2>1, Zenon
  <2>3. h[i] = WithPlan(h[i - 1], plans[i])
    BY <1>3, <2>2
  <2> QED BY <2>1, <2>3
<1>8. g \in [0..n -> V] /\ g[0] = <<>>
  BY <1>1, <1>6 DEF first
<1>9. g = [i \in 0..n |-> Next1(g, i)]
  <2>1. ASSUME NEW i \in 0..n PROVE g[i] = Next1(g, i)
    <3>1. CASE i = 0
      BY <1>8, <3>1
    <3>2. CASE i # 0
      <4>1. i \in 1..n
        BY <1>1, <3>2
      <4>2. g[i] = WithPlan(g[i - 1], plans[i])
        BY <1>7, <4>1, Zenon
      <4> HIDE DEF g
      <4> QED BY <3>2, <4>2
    <3> QED BY <3>1, <3>2
  <2> HIDE DEF Next1
  <2> QED BY <2>1
<1> HIDE DEF g
<1>10. f = [i \in 0..n |-> Next1(f, i)]
  BY <1>9, Zenon
<1> HIDE DEF f
<1>11. f[0] = <<>> /\ \A i \in 1..n : f[i] = WithPlan(f[i - 1], plans[i])
  <2>1. \A i \in 0..n : f[i] = Next1(f, i)
    <3> HIDE DEF Next1
    <3> QED BY <1>10, Zenon
  <2>2. 0 \in 0..n /\ \A i \in 1..n : i \in 0..n /\ i # 0
    BY <1>1
  <2>3. f[0] = <<>>
    BY <2>1, <2>2
  <2>4. ASSUME NEW i \in 1..n PROVE f[i] = WithPlan(f[i - 1], plans[i])
    BY <2>1, <2>2, Zenon
  <2> QED BY <2>3, <2>4
<1> DEFINE Q == {k \in Nat : k <= n => f[k] \in V /\ \A j \in 1..k : plans[j] \in Range(f[k])}
<1>12. 0 \in Q
  <2>1. f[0] \in V
    BY <1>11 DEF V
  <2>2. 1..0 = {}
    OBVIOUS
  <2> QED BY <2>1, <2>2
<1>13. ASSUME NEW k \in Q PROVE k + 1 \in Q
  <2>1. k \in Nat
    OBVIOUS
  <2> SUFFICES ASSUME k + 1 <= n
               PROVE  f[k + 1] \in V /\ \A j \in 1..(k + 1) : plans[j] \in Range(f[k + 1])
    BY <2>1
  <2>2. k + 1 \in 1..n /\ (k + 1) - 1 = k /\ k <= n
    BY <2>1, <1>1
  <2>3. f[k] \in V /\ \A j \in 1..k : plans[j] \in Range(f[k])
    BY <2>2
  <2>4. f[k + 1] = WithPlan(f[k], plans[k + 1]) /\ plans[k + 1] \in PlanType
    BY <1>1, <1>11, <2>2
  <2>5. /\ f[k + 1] \in V /\ plans[k + 1] \in Range(f[k + 1]) /\ Range(f[k]) \subseteq Range(f[k + 1])
    BY <2>3, <2>4, PlanAdded DEF V
  <2>6. \A j \in 1..(k + 1) : j \in 1..k \/ j = k + 1
    BY <2>1
  <2> QED BY <2>3, <2>5, <2>6
<1>14. Q \in SUBSET Nat
  OBVIOUS
<1>15. n \in Q
  <2> HIDE DEF Q
  <2> QED BY <1>1, <1>12, <1>13, <1>14, NatSetInduction
<1>16. f[n] \in V /\ \A j \in 1..n : plans[j] \in Range(f[n])
  BY <1>1, <1>15
<1>17. UniquePlans(blocks) = f[n]
  BY Zenon DEF UniquePlans, f, n, plans
<1> QED BY <1>16, <1>17 DEF V, n, plans

\* The widest value of a group has a width.
LEMMA SomeBound ==
    ASSUME NEW n \in Nat, NEW f, \A i \in 1..n : f[i] \in Nat
    PROVE  \E b \in Nat : \A i \in 1..n : f[i] <= b
<1> DEFINE Q == {k \in Nat : k <= n => \E b \in Nat : \A i \in 1..k : f[i] <= b}
<1>1. 0 \in Q
  <2>1. 1..0 = {} /\ 0 \in Nat
    OBVIOUS
  <2> QED BY <2>1
<1>2. ASSUME NEW k \in Q PROVE k + 1 \in Q
  <2>1. k \in Nat
    OBVIOUS
  <2> SUFFICES ASSUME k + 1 <= n PROVE \E b \in Nat : \A i \in 1..(k + 1) : f[i] <= b
    BY <2>1
  <2>2. k <= n /\ k + 1 \in 1..n /\ f[k + 1] \in Nat
    BY <2>1
  <2>3. PICK b \in Nat : \A i \in 1..k : f[i] <= b
    BY <2>2
  <2> DEFINE c == b + f[k + 1]
  <2>4. c \in Nat /\ b <= c /\ f[k + 1] <= c
    BY <2>2
  <2> HIDE DEF c
  <2>5. ASSUME NEW i \in 1..(k + 1) PROVE f[i] <= c
    <3>1. CASE i = k + 1
      BY <2>4, <3>1
    <3>2. CASE i # k + 1
      <4>1. i \in 1..k /\ i \in 1..n
        BY <2>1, <2>2, <3>2
      <4>2. f[i] <= b /\ f[i] \in Nat
        BY <2>3, <4>1
      <4> QED BY <2>4, <4>2
    <3> QED BY <3>1, <3>2
  <2> QED BY <2>4, <2>5
<1>3. Q \in SUBSET Nat
  OBVIOUS
<1>4. n \in Q
  <2> HIDE DEF Q
  <2> QED BY <1>1, <1>2, <1>3, NatSetInduction
<1>5. n <= n
  OBVIOUS
<1> QED BY <1>4, <1>5

LEMMA WidestIs ==
    ASSUME NEW n \in Nat, n >= 1, NEW f, \A i \in 1..n : f[i] \in Nat
    PROVE  BitsForValue[Max({f[i] : i \in 1..n})] \in Nat
<1> DEFINE S == {f[i] : i \in 1..n}
<1>1. PICK b \in Nat : \A i \in 1..n : f[i] <= b
  BY SomeBound, Zenon
<1>2. S \in SUBSET Nat /\ \A x \in S : x <= b
  BY <1>1
<1>3. S # {}
  <2>1. 1 \in 1..n
    OBVIOUS
  <2> QED BY <2>1
<1> HIDE DEF S
<1>4. Max(S) \in S
  BY <1>2, <1>3, MaxProperty, Zenon
<1>5. Max(S) \in Nat
  BY <1>2, <1>4, Zenon
<1> HIDE DEF S
<1>6. BitsForValue[Max(S)] \in Nat
  BY <1>5, WidthHolds
<1> QED BY <1>6 DEF S

LEMMA GroupWidths ==
    ASSUME NEW t \in Seq(PlanType), Len(t) >= 1
    PROVE  PeriodWidth(t) \in Nat /\ HeadWidth(t) \in Nat
<1> DEFINE n == Len(t)
           periods == [i \in 1..n |-> t[i].period]
           heads == [i \in 1..n |-> t[i].head]
<1>1. n \in Nat /\ n >= 1 /\ DOMAIN t = 1..n /\ \A i \in 1..n : t[i] \in PlanType
  OBVIOUS
<1>2. \A i \in 1..n : t[i].period \in Nat /\ t[i].head \in Nat
  BY <1>1 DEF PlanType, U32
<1> HIDE DEF n
<1>3. (\A i \in 1..n : periods[i] \in Nat) /\ (\A i \in 1..n : heads[i] \in Nat)
  BY <1>2
<1>4. {periods[i] : i \in 1..n} = {t[i].period : i \in DOMAIN t} /\ {heads[i] : i \in 1..n} = {t[i].head : i \in DOMAIN t}
  BY <1>1
<1> HIDE DEF periods, heads
<1>5. BitsForValue[Max({periods[i] : i \in 1..n})] \in Nat /\ BitsForValue[Max({heads[i] : i \in 1..n})] \in Nat
  BY <1>1, <1>3, WidestIs, Zenon
<1>6. PeriodWidth(t) = BitsForValue[Max({t[i].period : i \in DOMAIN t})]
  BY Zenon DEF PeriodWidth, GroupWidth
<1>7. HeadWidth(t) = BitsForValue[Max({t[i].head : i \in DOMAIN t})]
  BY Zenon DEF HeadWidth, GroupWidth
<1> QED BY <1>4, <1>5, <1>6, <1>7, Zenon

\* A section ends at a byte.
LEMMA PaddedLength ==
    ASSUME NEW s \in Seq(Bit)
    PROVE  Padded(s) \in Seq(Bit) /\ Len(Padded(s)) = 8 * CeilDiv(Len(s), 8) /\ CeilDiv(Len(s), 8) \in Nat
<1>1. PICK more \in Seq(Bit) : /\ Padded(s) = s \o more /\ Padded(s) \in Seq(Bit)
                               /\ Len(more) = (0 - Len(s)) % 8 /\ Len(more) \in Nat
  BY PaddedIs, Zenon
<1>2. Len(s \o more) = Len(s) + Len(more) /\ Len(s) \in Nat
  BY PartsOfTwo
<1> DEFINE n == Len(s)
<1>3. n \in Nat
  BY <1>2
<1> HIDE DEF n
<1>4. n + ((0 - n) % 8) = 8 * CeilDiv(n, 8) /\ CeilDiv(n, 8) \in Nat
  BY <1>3 DEF CeilDiv
<1> QED BY <1>1, <1>2, <1>4 DEF n

\* A column of the table has a field for each of its plans.
LEMMA ColumnLength ==
    ASSUME NEW n \in Nat, NEW v, \A i \in 1..n : v[i] \in Int, NEW width \in Nat, NEW sq,
           sq = [i \in 1..n |-> Bits(v[i], width)]
    PROVE  FlattenSeq(sq) \in Seq(Bit) /\ Len(FlattenSeq(sq)) = width * n
<1>1. \A i \in 1..n : Bits(v[i], width) \in Seq(Bit) /\ Len(Bits(v[i], width)) = width
  BY BitsLength
<1>2. sq \in [1..n -> Seq(Bit)] /\ \A i \in 1..n : Len(sq[i]) = width
  BY <1>1
<1> QED BY <1>2, FlattenOfEqual, Zenon

\* The blocks: where they end, and a plan for each.
BlocksType(blocks) ==
    blocks.size \in Nat /\ blocks.plans \in Seq(PlanType) /\ Len(blocks.plans) \in Nat /\ Len(blocks.plans) >= 1

\* Choice(i), as a function of i.
ChoiceOf(blocks) ==
    LET t == UniquePlans(blocks)
    IN [i \in 1..Len(blocks.plans) |-> (CHOOSE j \in DOMAIN t : t[j] = blocks.plans[i]) - 1]

LEMMA BlocksTable ==
    ASSUME NEW blocks, BlocksType(blocks)
    PROVE  LET t == UniquePlans(blocks)
           IN /\ t \in Seq(PlanType) /\ Len(t) \in Nat /\ Len(t) >= 1 /\ DOMAIN t = 1..Len(t)
              /\ \A i \in 1..Len(t) : /\ KindIndex(t[i].kind) \in Int
                                      /\ t[i].period \in Int /\ t[i].head \in Int
              /\ \A i \in 1..Len(blocks.plans) : ChoiceOf(blocks)[i] \in Int
<1> DEFINE t == UniquePlans(blocks)
           n == Len(blocks.plans)
<1>1. blocks.plans \in Seq(PlanType) /\ n \in Nat /\ n >= 1
  BY DEF BlocksType
<1>2. t \in Seq(PlanType) /\ \A j \in 1..n : blocks.plans[j] \in Range(t)
  BY <1>1, UniquePlansAre
<1>3. /\ ChoiceOf(blocks) = [i \in 1..n |-> (CHOOSE j \in DOMAIN t : t[j] = blocks.plans[i]) - 1]
  BY DEF ChoiceOf
<1> HIDE DEF t
<1>4. Len(t) \in Nat /\ DOMAIN t = 1..Len(t) /\ \A i \in 1..Len(t) : t[i] \in PlanType
  BY <1>2
<1>5. Len(t) >= 1
  <2>1. PICK j \in DOMAIN t : t[j] = blocks.plans[1]
    BY <1>1, <1>2 DEF Range
  <2> QED BY <1>4, <2>1
<1>6. ASSUME NEW i \in 1..Len(t) PROVE KindIndex(t[i].kind) \in Int /\ t[i].period \in Int /\ t[i].head \in Int
  <2>1. t[i] \in PlanType
    BY <1>4
  <2> DEFINE kind == t[i].kind
  <2>2. kind \in 0..26 \cup 200..222 /\ t[i].period \in Nat /\ t[i].head \in Nat
    BY <2>1 DEF PlanType, U32, Kinds
  <2> HIDE DEF kind
  <2>3. KindIndex(kind) \in Int
    <3>1. KindIndex(kind) \in 0..(Pow2[KindIndexBits] - 1)
      BY <2>2, KindsAreIndexed, Zenon
    <3> QED BY <3>1
  <2> QED BY <2>2, <2>3 DEF kind
<1>7. ASSUME NEW i \in 1..n PROVE ChoiceOf(blocks)[i] \in Int
  <2> DEFINE c == CHOOSE j \in DOMAIN t : t[j] = blocks.plans[i]
  <2>1. \E j \in DOMAIN t : t[j] = blocks.plans[i]
    BY <1>2 DEF Range
  <2>2. c \in DOMAIN t
    BY <2>1
  <2>3. ChoiceOf(blocks)[i] = c - 1
    BY <1>3
  <2> HIDE DEF c
  <2> QED BY <1>4, <2>2, <2>3
<1> QED BY <1>2, <1>4, <1>5, <1>6, <1>7 DEF t

Column(sq, n, v, width) ==
    /\ n \in Nat /\ width \in Nat /\ \A i \in 1..n : v[i] \in Int
    /\ sq = [i \in 1..n |-> Bits(v[i], width)]

LEMMA ColumnIs ==
    ASSUME NEW sq, NEW n, NEW v, NEW width, Column(sq, n, v, width)
    PROVE  FlattenSeq(sq) \in Seq(Bit) /\ Len(FlattenSeq(sq)) = width * n
BY ColumnLength, ZenonT(40) DEF Column

LEMMA BlocksLength ==
    ASSUME NEW blocks, BlocksType(blocks)
    PROVE  BlocksBits(blocks) \in Seq(Bit) /\ Len(BlocksBits(blocks)) = BlocksBitLen(blocks)
<1> DEFINE n == Len(blocks.plans)
           t == UniquePlans(blocks)
           m == Len(t)
           sw == BitsForValue[blocks.size]
           pw == PeriodWidth(t)
           hw == HeadWidth(t)
           nw == BitsForIndex(n)
           mw == BitsForIndex(m)
           kinds == [i \in 1..m |-> KindIndex(t[i].kind)]
           periods == [i \in 1..m |-> t[i].period]
           heads == [i \in 1..m |-> t[i].head]
           choices == ChoiceOf(blocks)
           ks == [i \in 1..m |-> Bits(kinds[i], KindIndexBits)]
           ps == [i \in 1..m |-> Bits(periods[i], pw)]
           hs == [i \in 1..m |-> Bits(heads[i], hw)]
           cs == [i \in 1..n |-> Bits(choices[i], mw)]
           x1 == Bits(n, CountBits)
           x2 == Bits(sw, WidthBits)
           x3 == Bits(blocks.size, sw)
           x4 == Bits(m - 1, nw)
           x5 == FlattenSeq(ks)
           x6 == Bits(pw, WidthBits)
           x7 == FlattenSeq(ps)
           x8 == Bits(hw, WidthBits)
           x9 == FlattenSeq(hs)
           x10 == FlattenSeq(cs)
<1>1. /\ t \in Seq(PlanType) /\ m \in Nat /\ m >= 1 /\ DOMAIN t = 1..m
      /\ \A i \in 1..m : KindIndex(t[i].kind) \in Int /\ t[i].period \in Int /\ t[i].head \in Int
      /\ \A i \in 1..n : choices[i] \in Int
  BY BlocksTable
<1>2. n \in Nat /\ n >= 1 /\ blocks.size \in Nat
  BY DEF BlocksType
<1>3. sw \in Nat /\ pw \in Nat /\ hw \in Nat /\ nw \in Nat /\ mw \in Nat
  <2>1. sw \in Nat
    BY <1>2, WidthHolds
  <2>2. pw \in Nat /\ hw \in Nat
    BY <1>1, GroupWidths
  <2>3. nw \in Nat /\ mw \in Nat
    BY <1>1, <1>2, IndexWidth, Zenon
  <2> QED BY <2>1, <2>2, <2>3
<1>4. KindIndexBits \in Nat /\ WidthBits \in Nat /\ CountBits \in Nat
  BY DEF KindIndexBits, WidthBits, CountBits
<1>5. BlocksBits(blocks) = ((((((((x1 \o x2) \o x3) \o x4) \o x5) \o x6) \o x7) \o x8) \o x9) \o x10
  <2>1. x5 = FlattenSeq([i \in DOMAIN t |-> Bits(KindIndex(t[i].kind), KindIndexBits)])
    <3>1. ks = [i \in 1..m |-> Bits(KindIndex(t[i].kind), KindIndexBits)]
      <4> HIDE DEF t, m
      <4> QED OBVIOUS
    <3> HIDE DEF ks, m, t
    <3> QED BY <1>1, <3>1, Zenon
  <2>2. x7 = FlattenSeq([i \in DOMAIN t |-> Bits(t[i].period, pw)])
    <3>1. ps = [i \in 1..m |-> Bits(t[i].period, pw)]
      <4> HIDE DEF t, m, pw
      <4> QED OBVIOUS
    <3> HIDE DEF ps, m, t
    <3> QED BY <1>1, <3>1, Zenon
  <2>3. x9 = FlattenSeq([i \in DOMAIN t |-> Bits(t[i].head, hw)])
    <3>1. hs = [i \in 1..m |-> Bits(t[i].head, hw)]
      <4> HIDE DEF t, m, hw
      <4> QED OBVIOUS
    <3> HIDE DEF hs, m, t
    <3> QED BY <1>1, <3>1, Zenon
  <2>4. x10 = FlattenSeq([i \in 1..n |-> Bits((CHOOSE j \in DOMAIN t : t[j] = blocks.plans[i]) - 1, mw)])
    <3>1. cs = [i \in 1..n |-> Bits((CHOOSE j \in DOMAIN t : t[j] = blocks.plans[i]) - 1, mw)]
      <4>1. choices = [i \in 1..n |-> (CHOOSE j \in DOMAIN t : t[j] = blocks.plans[i]) - 1]
        BY DEF ChoiceOf
      <4> HIDE DEF choices, n, t, mw
      <4> QED BY <4>1
    <3> HIDE DEF cs, n, m, t
    <3> QED BY <3>1
  <2> HIDE DEF ks, ps, hs, cs
  <2> QED BY <2>1, <2>2, <2>3, <2>4, Zenon DEF BlocksBits
<1>6. BlocksBitLen(blocks) = CountBits + (WidthBits + sw) + nw + KindIndexBits * m + (WidthBits + pw * m)
                               + (WidthBits + hw * m) + mw * n
  BY Zenon DEF BlocksBitLen
<1>7. /\ x1 \in Seq(Bit) /\ Len(x1) = CountBits /\ x2 \in Seq(Bit) /\ Len(x2) = WidthBits
      /\ x3 \in Seq(Bit) /\ Len(x3) = sw /\ x4 \in Seq(Bit) /\ Len(x4) = nw
      /\ x6 \in Seq(Bit) /\ Len(x6) = WidthBits /\ x8 \in Seq(Bit) /\ Len(x8) = WidthBits
  <2> DEFINE last == m - 1
  <2>1. last \in Int
    BY <1>1
  <2>2. Bits(last, nw) \in Seq(Bit) /\ Len(Bits(last, nw)) = nw
    <3> HIDE DEF last, nw
    <3> QED BY <2>1, <1>3, BitsLength, Zenon
  <2> HIDE DEF n, t, m, sw, pw, hw, nw, mw
  <2>3. \A x \in Nat : x \in Int
    OBVIOUS
  <2> QED BY <1>2, <1>3, <1>4, <2>2, <2>3, BitsLength, Zenon
<1>8. x5 \in Seq(Bit) /\ Len(x5) = KindIndexBits * m
  <2>1. \A i \in 1..m : kinds[i] \in Int
    BY <1>1
  <2>2. ks = [i \in 1..m |-> Bits(kinds[i], KindIndexBits)]
    OBVIOUS
  <2> HIDE DEF kinds, m, ks
  <2>3. Column(ks, m, kinds, KindIndexBits)
    BY <2>1, <2>2, <1>1, <1>4, Zenon DEF Column
  <2> QED BY <2>3, ColumnIs, Zenon
<1>9. x7 \in Seq(Bit) /\ Len(x7) = pw * m
  <2>1. \A i \in 1..m : periods[i] \in Int
    BY <1>1
  <2>2. ps = [i \in 1..m |-> Bits(periods[i], pw)]
    OBVIOUS
  <2> HIDE DEF periods, m, pw, ps
  <2>3. Column(ps, m, periods, pw)
    BY <2>1, <2>2, <1>1, <1>3, Zenon DEF Column
  <2> QED BY <2>3, ColumnIs, Zenon
<1>10. x9 \in Seq(Bit) /\ Len(x9) = hw * m
  <2>1. \A i \in 1..m : heads[i] \in Int
    BY <1>1
  <2>2. hs = [i \in 1..m |-> Bits(heads[i], hw)]
    OBVIOUS
  <2> HIDE DEF heads, m, hw, hs
  <2>3. Column(hs, m, heads, hw)
    BY <2>1, <2>2, <1>1, <1>3, Zenon DEF Column
  <2> QED BY <2>3, ColumnIs, Zenon
<1>11. x10 \in Seq(Bit) /\ Len(x10) = mw * n
  <2>2. cs = [i \in 1..n |-> Bits(choices[i], mw)]
    OBVIOUS
  <2> HIDE DEF choices, n, mw, cs
  <2>3. Column(cs, n, choices, mw)
    BY <2>2, <1>1, <1>2, <1>3, Zenon DEF Column
  <2> QED BY <2>3, ColumnIs, Zenon
<1> HIDE DEF x1, x2, x3, x4, x5, x6, x7, x8, x9, x10
<1> DEFINE y2 == (x1 \o x2) \o x3
           y3 == (y2 \o x4) \o x5
           y4 == (y3 \o x6) \o x7
           y5 == (y4 \o x8) \o x9
<1>12. y2 \in Seq(Bit) /\ Len(y2) = Len(x1) + Len(x2) + Len(x3)
  <2>1. x1 \in Seq(Bit) /\ x2 \in Seq(Bit) /\ x3 \in Seq(Bit)
    BY <1>7
  <2> QED BY <2>1, ThreeParts, ZenonT(40)
<1>13. BlocksBits(blocks) = y5 \o x10
  BY <1>5
<1> HIDE DEF y2
<1>14. y3 \in Seq(Bit) /\ Len(y3) = Len(y2) + Len(x4) + Len(x5)
  BY <1>7, <1>8, <1>12, ThreeParts, ZenonT(40)
<1> HIDE DEF y3
<1>15. y4 \in Seq(Bit) /\ Len(y4) = Len(y3) + Len(x6) + Len(x7)
  BY <1>7, <1>9, <1>14, ThreeParts, ZenonT(40)
<1> HIDE DEF y4
<1>16. y5 \in Seq(Bit) /\ Len(y5) = Len(y4) + Len(x8) + Len(x9)
  BY <1>7, <1>10, <1>15, ThreeParts, ZenonT(40)
<1> HIDE DEF y5
<1>17. y5 \o x10 \in Seq(Bit) /\ Len(y5 \o x10) = Len(y5) + Len(x10)
  BY <1>11, <1>16, PartsOfTwo, Zenon
<1> DEFINE km == KindIndexBits * m
           pm == pw * m
           hm == hw * m
           mn == mw * n
<1>18. km \in Nat /\ pm \in Nat /\ hm \in Nat /\ mn \in Nat
  <2>1. \A a, b \in Nat : a * b \in Nat
    OBVIOUS
  <2> HIDE DEF n, t, m, pw, hw, mw
  <2> QED BY <1>1, <1>2, <1>3, <1>4, <2>1
<1> HIDE DEF n, t, m, sw, pw, hw, nw, mw
<1>19. /\ BlocksBitLen(blocks) = CountBits + (WidthBits + sw) + nw + km + (WidthBits + pm) + (WidthBits + hm) + mn
       /\ Len(x5) = km /\ Len(x7) = pm /\ Len(x9) = hm /\ Len(x10) = mn
  BY <1>6, <1>8, <1>9, <1>10, <1>11
<1> HIDE DEF km, pm, hm, mn
<1>20. Len(y5 \o x10) = BlocksBitLen(blocks)
  BY <1>3, <1>4, <1>7, <1>12, <1>14, <1>15, <1>16, <1>17, <1>18, <1>19
<1> QED BY <1>13, <1>17, <1>20

----------------------------------------------------------------------------
(* The recursive pack: what each stage has prepared for the next.          *)

SizeInv ==
    /\ pack # Nothing => stage \in {"packed", "done"}
    /\ stage = "preflated" =>
           /\ stream = [plain |-> stream.plain, corrections |-> stream.corrections, header |-> stream.header,
                        checksum |-> stream.checksum, plan |-> stream.plan, blocks |-> Nothing,
                        codec |-> stream.codec, encoded |-> stream.encoded]
           /\ stream.plain \in Seq(Bytes)
    /\ stage = "planned" =>
           /\ stream.plan \in PlanType /\ \E n : Applies(stream.plan, n)
           /\ stream.blocks # Nothing => BlocksType(stream.blocks)
    /\ SizeIsPredicted

LEMMA PreflateSized ==
    ASSUME SizeInv, Preflate
    PROVE  SizeInv'
<1>1. PICK answer \in Preflated(Deflate) :
          stream' = [plain |-> answer.plain, corrections |-> answer.corrections,
                     header |-> best.payload[1], checksum |-> best.payload[Len(best.payload)],
                     plan |-> Identity, blocks |-> Nothing, codec |-> Raw, encoded |-> <<>>]
  BY Zenon DEF Preflate
<1>2. Deflate \in Deflates /\ stage = "found" /\ stage' = "preflated" /\ pack' = pack
  BY DEF Preflate, Unwraps
<1>3. answer.plain \in Seq(Bytes)
  BY <1>1, <1>2, PayloadAssumption
<1>4. pack = Nothing /\ pack' = Nothing
  BY <1>2 DEF SizeInv
<1>5. /\ stream'.plain = answer.plain
      /\ stream' = [plain |-> stream'.plain, corrections |-> stream'.corrections, header |-> stream'.header,
                    checksum |-> stream'.checksum, plan |-> stream'.plan, blocks |-> Nothing,
                    codec |-> stream'.codec, encoded |-> stream'.encoded]
  BY <1>1
<1> QED BY <1>2, <1>3, <1>4, <1>5 DEF SizeInv, SizeIsPredicted

LEMMA PlanWholeSized ==
    ASSUME SizeInv, PlanWhole
    PROVE  SizeInv'
<1>1. PICK plan \in Proposed(stream.plain), codec \in Codecs :
          stream' = [stream EXCEPT !.plan = plan, !.codec = codec,
                                   !.encoded = Packed(codec, Transformed(plan, stream.plain))]
  BY Zenon DEF PlanWhole
<1>2. stage = "preflated" /\ stage' = "planned" /\ pack' = pack
  BY DEF PlanWhole
<1>3. stream = [plain |-> stream.plain, corrections |-> stream.corrections, header |-> stream.header,
                checksum |-> stream.checksum, plan |-> stream.plan, blocks |-> Nothing,
                codec |-> stream.codec, encoded |-> stream.encoded]
  BY <1>2 DEF SizeInv
<1>4. pack = Nothing
  BY <1>2 DEF SizeInv
<1>5. stream'.plan = plan /\ stream'.blocks = Nothing
  BY <1>1, <1>3
<1>6. plan \in PlanType /\ Applies(plan, Len(stream.plain))
  BY DEF Proposed
<1> QED BY <1>2, <1>4, <1>5, <1>6 DEF SizeInv, SizeIsPredicted

LEMMA PlanBlocksSized ==
    ASSUME SizeInv, PlanBlocks
    PROVE  SizeInv'
<1>1. PICK count \in Splits, whole \in Proposed(stream.plain), codec \in Codecs :
          LET size == Len(stream.plain) \div count
              LastBlock == BlockOf(stream.plain, size, count, count)
          IN /\ count >= 2 /\ Len(stream.plain) >= count * MinBlockBytes
             /\ \E plans \in [1..(count - 1) -> Proposed(BlockOf(stream.plain, size, count, 1))],
                   last \in Proposed(LastBlock) :
                   LET all == Append(plans, last)
                   IN stream' = [stream EXCEPT !.plan = whole, !.blocks = [size |-> size, plans |-> all], !.codec = codec,
                                     !.encoded = Packed(codec, InBlocks(stream.plain, size, all, Transformed))]
  BY Zenon DEF PlanBlocks
<1> DEFINE size == Len(stream.plain) \div count
           A == Proposed(BlockOf(stream.plain, size, count, 1))
           B == Proposed(BlockOf(stream.plain, size, count, count))
<1>2. PICK plans \in [1..(count - 1) -> A], last \in B :
          LET all == Append(plans, last)
          IN stream' = [stream EXCEPT !.plan = whole, !.blocks = [size |-> size, plans |-> all], !.codec = codec,
                            !.encoded = Packed(codec, InBlocks(stream.plain, size, all, Transformed))]
  BY <1>1, Zenon
<1>3. stage = "preflated" /\ stage' = "planned" /\ pack' = pack
  BY DEF PlanBlocks
<1>4. /\ stream = [plain |-> stream.plain, corrections |-> stream.corrections, header |-> stream.header,
                   checksum |-> stream.checksum, plan |-> stream.plan, blocks |-> Nothing,
                   codec |-> stream.codec, encoded |-> stream.encoded]
      /\ stream.plain \in Seq(Bytes)
  BY <1>3 DEF SizeInv
<1>5. pack = Nothing
  BY <1>3 DEF SizeInv
<1>6. count \in Nat /\ count >= 2
  BY <1>1, PayloadAssumption
<1>7. size \in Nat
  <2>1. Len(stream.plain) \in Nat
    BY <1>4
  <2> DEFINE l == Len(stream.plain)
  <2>2. l \in Nat
    BY <2>1
  <2> HIDE DEF l
  <2>3. l \div count \in Nat
    <3>1. count \in Nat \ {0}
      BY <1>6
    <3> QED BY <2>2, <3>1, DivType, Zenon
  <2> QED BY <2>3 DEF l
<1> HIDE DEF size
<1>8. A \subseteq PlanType /\ B \subseteq PlanType
  BY DEF Proposed
<1> HIDE DEF A, B
<1> DEFINE all == Append(plans, last)
<1>9. all \in Seq(PlanType) /\ Len(all) = count
  <2>1. plans \in [1..(count - 1) -> PlanType] /\ count - 1 \in Nat /\ last \in PlanType
    BY <1>6, <1>8
  <2>2. plans \in Seq(PlanType) /\ Len(plans) = count - 1
    BY <2>1
  <2> QED BY <1>6, <2>1, <2>2
<1> HIDE DEF all
<1>10. stream'.plan = whole /\ stream'.blocks = [size |-> size, plans |-> all]
  BY <1>2, <1>4 DEF all
<1>11. BlocksType(stream'.blocks)
  BY <1>6, <1>7, <1>9, <1>10 DEF BlocksType
<1>12. whole \in PlanType /\ Applies(whole, Len(stream.plain))
  BY DEF Proposed
<1> QED BY <1>3, <1>5, <1>10, <1>11, <1>12 DEF SizeInv, SizeIsPredicted, BlocksType

LEMMA PackRecursiveSized ==
    ASSUME SizeInv, PackRecursive
    PROVE  SizeInv'
<1>1. PICK plan \in Proposed(stream.corrections), codec \in Codecs :
          LET nodes == WithCorrectionPlan(TopologyOf(stream.plan), plan)
              corrections == Packed(codec, Transformed(plan, stream.corrections))
          IN pack' = [method |-> "recursive", nodes |-> nodes,
                      dict |-> RecursiveDictionary(nodes, codec, Len(corrections)),
                      payload |-> stream.encoded \o corrections]
  BY Zenon DEF PackRecursive
<1> DEFINE nodes == WithCorrectionPlan(TopologyOf(stream.plan), plan)
           topology == TopologyBits(nodes)
           section == BlocksBits(stream.blocks)
<1>2. /\ pack'.method = "recursive" /\ pack'.nodes = nodes
      /\ pack'.dict.compact = Eligible(nodes) /\ pack'.dict.nodeBitLen = Len(topology)
      /\ pack'.dict.bits = Padded(topology) \o (IF stream.blocks = Nothing THEN <<>> ELSE Padded(section))
  BY <1>1, Zenon DEF RecursiveDictionary
<1>3. stage = "planned" /\ stage' = "packed" /\ stream' = stream
  BY DEF PackRecursive
<1>4. /\ stream.plan \in PlanType /\ \E n : Applies(stream.plan, n)
      /\ stream.blocks # Nothing => BlocksType(stream.blocks)
  BY <1>3 DEF SizeInv
<1>5. plan \in PlanType
  BY DEF Proposed
<1>6. GoodNodes(nodes, 3)
  <2>1. GoodNodes(TopologyOf(stream.plan), 1)
    BY <1>4, TopologyIsGood
  <2> QED BY <1>5, <2>1, CorrectedIsGood
<1>7. Eligible(nodes) /\ topology \in Seq(Bit) /\ Len(topology) = TopologyBitLen(nodes)
  BY <1>6, GoodNodesPack
<1>8. ASSUME stream.blocks # Nothing
      PROVE  Len(pack'.dict.bits) = 8 * (CeilDiv(Len(topology), 8) + CeilDiv(BlocksBitLen(stream.blocks), 8))
  <2>1. section \in Seq(Bit) /\ Len(section) = BlocksBitLen(stream.blocks)
    BY <1>4, <1>8, BlocksLength
  <2> HIDE DEF topology, section
  <2> DEFINE a == Padded(topology)
             b == Padded(section)
             x == CeilDiv(Len(topology), 8)
             y == CeilDiv(Len(section), 8)
  <2>2. /\ a \in Seq(Bit) /\ Len(a) = 8 * x /\ x \in Nat
        /\ b \in Seq(Bit) /\ Len(b) = 8 * y /\ y \in Nat
    BY <1>7, <2>1, PaddedLength
  <2>3. pack'.dict.bits = a \o b
    BY <1>2, <1>8
  <2>4. y = CeilDiv(BlocksBitLen(stream.blocks), 8)
    BY <2>1
  <2> HIDE DEF a, b, x, y
  <2>5. Len(a \o b) = Len(a) + Len(b)
    BY <2>2, PartsOfTwo, Zenon
  <2>6. Len(a \o b) = 8 * (x + y)
    BY <2>2, <2>5
  <2> QED BY <2>3, <2>4, <2>6 DEF x
<1> HIDE DEF nodes, topology, section
<1>9. SizeIsPredicted'
  BY <1>2, <1>3, <1>7, <1>8 DEF SizeIsPredicted
<1> QED BY <1>3, <1>9 DEF SizeInv

LEMMA MethodIs ==
    ASSUME NEW method, NEW dict, NEW payload, NEW packed,
           packed = [method |-> method, dict |-> dict, payload |-> payload]
    PROVE  packed.method = method
OBVIOUS

LEMMA SizeKeeps ==
    ASSUME SizeInv, [Next]_vars
    PROVE  SizeInv'
<1>1. CASE SkipByte \/ FirstFrame \/ NextFrame \/ DropRun \/ KeepRun \/ EndScan
  <2>1. stage \in {"scan", "run"} /\ stage' \in {"scan", "run", "found"} /\ pack' = pack
    BY <1>1 DEF SkipByte, FirstFrame, NextFrame, DropRun, KeepRun, EndScan, Scanning, RunEnds
  <2>2. pack = Nothing
    BY <2>1 DEF SizeInv
  <2> QED BY <2>1, <2>2 DEF SizeInv, SizeIsPredicted
<1>2. CASE PackFramed \/ PackTransformed \/ PackMonotonic \/ PackPrimes \/ PackAtlas \/ PackTensors
  <2>1. stage' = "packed"
    BY <1>2 DEF PackFramed, PackTransformed, PackMonotonic, PackPrimes, PackAtlas, PackTensors
  <2>2. pack'.method \in {"framed", "transformed", "monotonic", "primes", "atlas", "tensors"}
    <3>1. CASE PackFramed
      <4>1. pack'.method = "framed"
        BY <3>1, MethodIs, Zenon DEF PackFramed
      <4> QED BY <4>1
    <3>2. CASE PackTransformed
      <4>1. PICK plan \in Proposed(input), codec \in Codecs :
               pack' = [method |-> "transformed",
                        dict |-> [codecKind |-> CodecAndKind(codec, plan.kind), period |-> plan.period,
                                  head |-> plan.head, plainLen |-> Size],
                        payload |-> Packed(codec, Transformed(plan, input))]
        BY <3>2, Zenon DEF PackTransformed
      <4>2. pack'.method = "transformed"
        BY <4>1, MethodIs, Zenon
      <4> QED BY <4>2
    <3>3. CASE PackMonotonic
      <4>1. PICK width \in Range(CandidateWidths), mode \in Modes, codec \in Codecs :
               LET gaps == Gaps(Numbers(input, width))
               IN \E plan \in Proposed(GapStream(mode, gaps)) \cup {Identity} :
                      pack' = [method |-> "monotonic",
                               dict |-> MonotonicDictionary(input, width, mode, codec, plan),
                               payload |-> Packed(codec, Transformed(plan, GapStream(mode, gaps)))]
        BY <3>3, Zenon DEF PackMonotonic
      <4> DEFINE gaps == Gaps(Numbers(input, width))
      <4>2. PICK plan \in Proposed(GapStream(mode, gaps)) \cup {Identity} :
               pack' = [method |-> "monotonic",
                        dict |-> MonotonicDictionary(input, width, mode, codec, plan),
                        payload |-> Packed(codec, Transformed(plan, GapStream(mode, gaps)))]
        BY <4>1, Zenon
      <4>3. pack'.method = "monotonic"
        BY <4>2, MethodIs, Zenon
      <4> QED BY <4>3
    <3>4. CASE PackPrimes
      <4>1. pack'.method = "primes"
        BY <3>4, MethodIs, Zenon DEF PackPrimes
      <4> QED BY <4>1
    <3>5. CASE PackAtlas
      <4>1. PICK size \in ChunkSizes, codecs \in [1..3 -> Codecs] : pack' = AtlasPack(input, size, codecs)
        BY <3>5, Zenon DEF PackAtlas
      <4>2. pack'.method = "atlas"
        BY <4>1, MethodIs, Zenon DEF AtlasPack
      <4> QED BY <4>2
    <3>6. CASE PackTensors
      <4>1. PICK codecs \in [1..2 -> Codecs] : pack' = SplitPack(input, codecs)
        BY <3>6, Zenon DEF PackTensors
      <4>2. pack'.method = "tensors"
        BY <4>1, MethodIs, Zenon DEF SplitPack
      <4> QED BY <4>2
    <3> QED BY <1>2, <3>1, <3>2, <3>3, <3>4, <3>5, <3>6
  <2> QED BY <2>1, <2>2 DEF SizeInv, SizeIsPredicted
<1>3. CASE PackOtherwise
  BY <1>3 DEF PackOtherwise, SizeInv, SizeIsPredicted
<1>4. CASE Decode
  <2>1. stage' = "done" /\ pack' = pack /\ stream' = stream
    BY <1>4 DEF Decode
  <2> QED BY <2>1 DEF SizeInv, SizeIsPredicted
<1>5. CASE UNCHANGED vars
  <2>1. stage' = stage /\ pack' = pack /\ stream' = stream
    BY <1>5 DEF vars
  <2> QED BY <2>1 DEF SizeInv, SizeIsPredicted
<1> QED BY <1>1, <1>2, <1>3, <1>4, <1>5, PreflateSized, PlanWholeSized, PlanBlocksSized, PackRecursiveSized DEF Next

(***************************************************************************)
(* The sections of a recursive dictionary are as long as the writers       *)
(* reserve for them, for every plan, split and correction plan, and every  *)
(* topology that is built can be bit-packed (recursive.rs).                *)
(***************************************************************************)
THEOREM SectionsAreAsPredicted == Spec => []SizeIsPredicted
<1>1. Init => SizeInv
  BY DEF Init, SizeInv, SizeIsPredicted
<1>2. SizeInv /\ [Next]_vars => SizeInv'
  BY SizeKeeps
<1>3. SizeInv => SizeIsPredicted
  BY DEF SizeInv
<1> QED BY <1>1, <1>2, <1>3, PTL DEF Spec

----------------------------------------------------------------------------
(* Bytes and their bits.                                                   *)

Places == 0..(ByteBits - 1)
\* The number that the bits of the first places make.
Lowest(bit, m) == SumFunctionOnSet([k \in Places |-> bit[k] * Pow2[k]], 0..(m - 1))

LEMMA BitsBelow ==
    ASSUME NEW bit \in [Places -> 0..1], NEW m \in 0..(ByteBits - 1)
    PROVE  /\ Lowest(bit, 0) = 0 /\ Lowest(bit, m) \in Nat
           /\ Lowest(bit, m + 1) = Lowest(bit, m) + bit[m] * Pow2[m]
<1> DEFINE f == [k \in Places |-> bit[k] * Pow2[k]]
           S == Places
<1>1. ByteBits \in Nat \ {0} /\ IsFiniteSet(S)
  BY ByteAssumption, FS_Interval DEF Places
<1>2. \A k \in S : f[k] \in Nat /\ f[k] = bit[k] * Pow2[k]
  <2>1. ASSUME NEW k \in S PROVE bit[k] * Pow2[k] \in Nat
    <3>0. k \in Nat /\ bit[k] \in 0..1
      <4>1. bit[k] \in 0..1
        OBVIOUS
      <4>2. k \in 0..(ByteBits - 1)
        BY DEF Places
      <4> QED BY <1>1, <4>1, <4>2
    <3>1. Pow2[k] \in Nat /\ bit[k] \in 0..1
      BY <3>0, PowType
    <3>2. bit[k] = 0 \/ bit[k] = 1
      BY <3>1
    <3> QED BY <3>1, <3>2
  <2>2. \A k \in S : f[k] = bit[k] * Pow2[k]
    OBVIOUS
  <2> HIDE DEF f, S
  <2> QED BY <2>1, <2>2
<1> HIDE DEF f
<1>3. SumAdds(f, S)
  BY <1>1, <1>2, SumAddsUp
<1>4. 0..(0 - 1) = {} /\ 0..(m - 1) \in SUBSET S /\ 0..((m + 1) - 1) \in SUBSET S /\ m \in 0..((m + 1) - 1)
      /\ (0..((m + 1) - 1)) \ {m} = 0..(m - 1) /\ m \in S
  BY <1>1 DEF Places
<1> DEFINE F(T) == SumFunctionOnSet(f, T)
<1>5. F({}) = 0 /\ F(0..(m - 1)) \in Nat /\ F(0..((m + 1) - 1)) = f[m] + F(0..(m - 1))
  <2>1. F({}) = 0 /\ F(0..(m - 1)) \in Nat
    BY <1>3, <1>4, Zenon DEF SumAdds
  <2>2. F(0..((m + 1) - 1)) = f[m] + F((0..((m + 1) - 1)) \ {m})
    BY <1>3, <1>4, Zenon DEF SumAdds
  <2> HIDE DEF F
  <2> QED BY <2>1, <2>2, <1>4, Zenon
<1>6. Lowest(bit, 0) = F(0..(0 - 1)) /\ Lowest(bit, m) = F(0..(m - 1)) /\ Lowest(bit, m + 1) = F(0..((m + 1) - 1))
  BY DEF Lowest, f
<1>7. f[m] \in Nat /\ f[m] = bit[m] * Pow2[m]
  BY <1>2, <1>4
<1> HIDE DEF F
<1> QED BY <1>4, <1>5, <1>6, <1>7

\* Its bits are the ones given.
LEMMA LowestHas ==
    ASSUME NEW bit \in [Places -> 0..1], NEW m \in 0..ByteBits
    PROVE  /\ Lowest(bit, m) \in 0..(Pow2[m] - 1)
           /\ \A k \in 0..(m - 1) : BitOf(Lowest(bit, m), k) = bit[k]
<1> DEFINE P(j) == /\ Lowest(bit, j) \in 0..(Pow2[j] - 1)
                   /\ \A k \in 0..(j - 1) : BitOf(Lowest(bit, j), k) = bit[k]
           Q == {j \in Nat : j <= ByteBits => P(j)}
<1>1. ByteBits \in Nat \ {0}
  BY ByteAssumption
<1>2. 0 \in Q
  <2>1. Lowest(bit, 0) = 0 /\ Pow2[0] = 1 /\ 0..(0 - 1) = {}
    BY <1>1, BitsBelow, PowIs
  <2> QED BY <2>1
<1>3. ASSUME NEW j \in Q PROVE j + 1 \in Q
  <2>1. j \in Nat
    OBVIOUS
  <2> SUFFICES ASSUME j + 1 <= ByteBits PROVE P(j + 1)
    BY <2>1
  <2>2. j \in 0..(ByteBits - 1) /\ j \in Places /\ P(j)
    BY <1>1, <2>1 DEF Places
  <2> DEFINE x == Lowest(bit, j)
             y == Lowest(bit, j + 1)
  <2>3. y = x + bit[j] * Pow2[j] /\ Pow2[j] \in Nat \ {0} /\ Pow2[j + 1] = 2 * Pow2[j] /\ bit[j] \in 0..1
    BY <2>1, <2>2, BitsBelow, PowType
  <2>4. x \in 0..(Pow2[j] - 1) /\ \A k \in 0..(j - 1) : BitOf(x, k) = bit[k]
    BY <2>2
  <2> HIDE DEF x, y
  <2>5. bit[j] = 0 \/ bit[j] = 1
    BY <2>3
  <2>6. y \in 0..(Pow2[j + 1] - 1)
    BY <2>3, <2>4, <2>5
  <2>7. ASSUME NEW k \in 0..j PROVE BitOf(y, k) = bit[k]
    <3>1. CASE k = j
      <4>1. y \div Pow2[j] = bit[j]
        <5>1. bit[j] \in Nat /\ y \in Nat
          BY <2>3, <2>6
        <5> DEFINE b == bit[j]
                   d == Pow2[j]
        <5>2. y = b * d + x /\ b \in Nat /\ d \in Nat \ {0} /\ x \in 0..(d - 1) /\ y \in Nat
          <6>1. bit[j] * Pow2[j] \in Nat
            BY <2>3, <2>5
          <6> QED BY <2>3, <2>4, <5>1, <6>1
        <5> HIDE DEF b, d
        <5>3. y \div d = b
          BY <5>2, DivIs
        <5> QED BY <5>3 DEF b, d
      <4> QED BY <2>5, <3>1, <4>1 DEF BitOf
    <3>2. CASE k # j
      <4>1. k \in 0..(j - 1) /\ k \in Nat /\ (j - k) - 1 \in Nat /\ k + ((j - k) - 1) + 1 = j
        BY <2>1, <3>2
      <4> DEFINE c == (j - k) - 1
      <4>2. c \in Nat /\ k + (c + 1) = j /\ c + 1 \in Nat
        BY <4>1, <2>1
      <4> HIDE DEF c
      <4>3. Pow2[j] = Pow2[k] * Pow2[c + 1] /\ Pow2[c + 1] = 2 * Pow2[c] /\ Pow2[k] \in Nat \ {0} /\ Pow2[c] \in Nat
        BY <4>1, <4>2, PowSum, PowType, Zenon
      <4> DEFINE q == x \div Pow2[k]
                 r == x % Pow2[k]
      <4>4. x = q * Pow2[k] + r /\ q \in Nat /\ r \in 0..(Pow2[k] - 1) /\ x \in Nat
        <5>1. x \in Nat /\ Pow2[k] \in Nat \ {0}
          BY <2>4, <4>3
        <5> QED BY <5>1, DivType, Zenon
      <4> HIDE DEF q, r
      <4> DEFINE e == 2 * (bit[j] * Pow2[c])
      <4>5. bit[j] * Pow2[c] \in Nat /\ e \in Nat
        BY <2>5, <4>3
      <4>6. bit[j] * Pow2[j] = e * Pow2[k]
        <5>1. CASE bit[j] = 0
          BY <5>1, <2>3, <4>3
        <5>2. CASE bit[j] = 1
          <6>1. Pow2[j] = Pow2[k] * (2 * Pow2[c]) /\ e = 2 * Pow2[c]
            BY <4>3, <5>2
          <6> QED BY <5>2, <6>1, <4>3, <4>5
        <5> QED BY <2>5, <5>1, <5>2
      <4>7. y = (q + e) * Pow2[k] + r
        <5> HIDE DEF e
        <5> QED BY <2>3, <4>3, <4>4, <4>5, <4>6
      <4>8. y \div Pow2[k] = q + e
        <5> HIDE DEF e
        <5>1. q + e \in Nat /\ y \in Nat
          BY <2>6, <4>4, <4>5
        <5> QED BY <4>3, <4>4, <4>7, <5>1, DivIs, Zenon
      <4>9. (q + e) % 2 = q % 2
        BY <4>4, <4>5
      <4> QED BY <2>4, <4>1, <4>8, <4>9 DEF BitOf, q
    <3> QED BY <3>1, <3>2
  <2>8. (j + 1) - 1 = j
    BY <2>1
  <2> QED BY <2>6, <2>7, <2>8 DEF y
<1>4. Q \in SUBSET Nat
  OBVIOUS
<1> HIDE DEF P
<1>5. \A j \in Nat : j \in Q
  <2> HIDE DEF Q
  <2> QED BY <1>2, <1>3, <1>4, NatSetInduction
<1>6. P(m)
  BY <1>1, <1>5
<1> QED BY <1>6 DEF P

\* A byte is the number of its bits.
LEMMA LowestOf ==
    ASSUME NEW x \in Nat, NEW bit \in [Places -> 0..1], \A k \in Places : bit[k] = BitOf(x, k), NEW m \in 0..ByteBits
    PROVE  Lowest(bit, m) = x % Pow2[m]
<1> DEFINE Q == {j \in Nat : j <= ByteBits => Lowest(bit, j) = x % Pow2[j]}
<1>1. ByteBits \in Nat \ {0}
  BY ByteAssumption
<1>2. 0 \in Q
  <2>1. Lowest(bit, 0) = 0 /\ Pow2[0] = 1
    BY <1>1, BitsBelow, PowIs
  <2> QED BY <2>1
<1>3. ASSUME NEW j \in Q PROVE j + 1 \in Q
  <2>1. j \in Nat
    OBVIOUS
  <2> SUFFICES ASSUME j + 1 <= ByteBits PROVE Lowest(bit, j + 1) = x % Pow2[j + 1]
    BY <2>1
  <2>2. j \in 0..(ByteBits - 1) /\ j \in Places /\ Lowest(bit, j) = x % Pow2[j]
    BY <1>1, <2>1 DEF Places
  <2>3. Lowest(bit, j + 1) = (x % Pow2[j]) + bit[j] * Pow2[j] /\ Pow2[j] \in Nat \ {0}
    BY <2>1, <2>2, BitsBelow, PowType
  <2>4. bit[j] = (x \div Pow2[j]) % 2 /\ bit[j] \in 0..1
    BY <2>2 DEF BitOf
  <2>5. x % Pow2[j + 1] = (x % Pow2[j]) + (IF (x \div Pow2[j]) % 2 = 1 THEN Pow2[j] ELSE 0)
    BY <2>1, OneBitMore
  <2>6. bit[j] = 0 \/ bit[j] = 1
    BY <2>4
  <2>7. bit[j] * Pow2[j] = IF bit[j] = 1 THEN Pow2[j] ELSE 0
    BY <2>3, <2>6
  <2> QED BY <2>3, <2>4, <2>5, <2>7
<1>4. Q \in SUBSET Nat
  OBVIOUS
<1>5. \A j \in Nat : j \in Q
  <2> HIDE DEF Q
  <2> QED BY <1>2, <1>3, <1>4, NatSetInduction
<1> QED BY <1>1, <1>5

LEMMA BitType ==
    ASSUME NEW x \in Nat, NEW k \in Places
    PROVE  BitOf(x, k) \in 0..1
<1>1. Pow2[k] \in Nat \ {0}
  BY ByteAssumption, PowType DEF Places
<1>2. x \div Pow2[k] \in Nat
  BY <1>1, DivType
<1> QED BY <1>2 DEF BitOf

\* What FromBits makes of some bits.
LEMMA ByteOfBits ==
    ASSUME NEW bit \in [Places -> 0..1]
    PROVE  /\ Lowest(bit, ByteBits) \in Bytes
           /\ \A k \in Places : BitOf(Lowest(bit, ByteBits), k) = bit[k]
           /\ \A x \in Bytes : (\A k \in Places : BitOf(x, k) = bit[k]) => x = Lowest(bit, ByteBits)
<1>1. ByteBits \in Nat /\ ByteBits \in 0..ByteBits
  BY ByteAssumption
<1>2. Lowest(bit, ByteBits) \in Bytes /\ \A k \in Places : BitOf(Lowest(bit, ByteBits), k) = bit[k]
  BY <1>1, LowestHas DEF Bytes, Base, Places
<1>3. ASSUME NEW x \in Bytes, \A k \in Places : BitOf(x, k) = bit[k] PROVE x = Lowest(bit, ByteBits)
  <2>1. x \in Nat /\ Pow2[ByteBits] \in Nat \ {0} /\ x \in 0..(Pow2[ByteBits] - 1)
    BY <1>1, BaseIs, PowType DEF Bytes, Base
  <2>2. Lowest(bit, ByteBits) = x % Pow2[ByteBits]
    BY <1>1, <1>3, <2>1, LowestOf
  <2> QED BY <2>1, <2>2, DivOfSmaller
<1> QED BY <1>2, <1>3

LEMMA XorIs ==
    ASSUME NEW a \in Bytes, NEW b \in Bytes
    PROVE  Xor(a, b) \in Bytes /\ Xor(Xor(a, b), b) = a
<1> DEFINE Both(x, y) == [k \in Places |-> (BitOf(x, k) + BitOf(y, k)) % 2]
<1>1. \A x \in Bytes, y \in Bytes : Both(x, y) \in [Places -> 0..1] /\ Xor(x, y) = Lowest(Both(x, y), ByteBits)
  <2> SUFFICES ASSUME NEW x \in Bytes, NEW y \in Bytes
               PROVE  Both(x, y) \in [Places -> 0..1] /\ Xor(x, y) = Lowest(Both(x, y), ByteBits)
    OBVIOUS
  <2>1. x \in Nat /\ y \in Nat
    BY BaseIs
  <2>2. \A k \in Places : BitOf(x, k) \in 0..1 /\ BitOf(y, k) \in 0..1
    BY <2>1, BitType
  <2>3. Both(x, y) \in [Places -> 0..1]
    BY <2>2
  <2>4. \A k \in Places : Both(x, y)[k] * Pow2[k] = ((BitOf(x, k) + BitOf(y, k)) % 2) * Pow2[k]
    OBVIOUS
  <2>5. [k \in Places |-> Both(x, y)[k] * Pow2[k]] = [k \in Places |-> ((BitOf(x, k) + BitOf(y, k)) % 2) * Pow2[k]]
    BY <2>4, Zenon
  <2>6. Xor(x, y) = Lowest(Both(x, y), ByteBits)
    BY <2>5, Zenon DEF Xor, FromBits, Lowest, Places
  <2> QED BY <2>3, <2>6
<1>2. a \in Nat /\ b \in Nat
  BY BaseIs
<1> DEFINE c == Xor(a, b)
<1>3. c \in Bytes /\ \A k \in Places : BitOf(c, k) = (BitOf(a, k) + BitOf(b, k)) % 2
  <2>1. Both(a, b) \in [Places -> 0..1] /\ c = Lowest(Both(a, b), ByteBits)
    BY <1>1
  <2>2. \A k \in Places : Both(a, b)[k] = (BitOf(a, k) + BitOf(b, k)) % 2
    OBVIOUS
  <2> HIDE DEF c, Both
  <2> QED BY <2>1, <2>2, ByteOfBits
<1>4. \A k \in Places : (BitOf(c, k) + BitOf(b, k)) % 2 = BitOf(a, k)
  <2> SUFFICES ASSUME NEW k \in Places PROVE (BitOf(c, k) + BitOf(b, k)) % 2 = BitOf(a, k)
    OBVIOUS
  <2>1. BitOf(a, k) \in 0..1 /\ BitOf(b, k) \in 0..1
    BY <1>2, BitType
  <2>2. BitOf(c, k) = (BitOf(a, k) + BitOf(b, k)) % 2
    BY <1>3
  <2> HIDE DEF c
  <2> QED BY <2>1, <2>2
<1>5. Xor(c, b) = a
  <2>1. Both(c, b) \in [Places -> 0..1] /\ Xor(c, b) = Lowest(Both(c, b), ByteBits)
    BY <1>1, <1>3
  <2>2. \A k \in Places : Both(c, b)[k] = BitOf(a, k)
    BY <1>4
  <2> HIDE DEF c, Both
  <2> QED BY <2>1, <2>2, ByteOfBits
<1> QED BY <1>3, <1>5 DEF c


----------------------------------------------------------------------------
(* Transforms that link a byte to one before it.                           *)

\* What is computed from what was computed k places before is what was there, if every
\* such step gives back its own.
Linked(n, k, L, f, t) ==
    /\ n \in Nat /\ k \in Nat \ {0} /\ \A i \in L : i \in Nat /\ i > k
    /\ \A i \in 1..n : /\ i \notin L => f[i] = t[i]
                       /\ i \in L /\ f[i - k] = t[i - k] => f[i] = t[i]

LEMMA LinkedIs ==
    ASSUME NEW n, NEW k, NEW L, NEW f, NEW t, Linked(n, k, L, f, t)
    PROVE  \A i \in 1..n : f[i] = t[i]
<1> DEFINE Q == {m \in Nat : \A i \in 1..n : i <= m => f[i] = t[i]}
<1>1. n \in Nat /\ k \in Nat \ {0} /\ \A i \in L : i \in Nat /\ i > k
  BY DEF Linked
<1>2. 0 \in Q
  OBVIOUS
<1>3. ASSUME NEW m \in Q PROVE m + 1 \in Q
  <2>1. m \in Nat /\ \A i \in 1..n : i <= m => f[i] = t[i]
    OBVIOUS
  <2> SUFFICES ASSUME NEW i \in 1..n, i <= m + 1 PROVE f[i] = t[i]
    BY <2>1
  <2>2. CASE i \in L
    <3>1. i - k \in 1..n /\ i - k <= m
      BY <1>1, <2>1, <2>2
    <3> QED BY <2>1, <2>2, <3>1 DEF Linked
  <2>3. CASE i \notin L
    BY <2>3 DEF Linked
  <2> QED BY <2>2, <2>3
<1>4. Q \in SUBSET Nat
  OBVIOUS
<1>5. \A m \in Nat : m \in Q
  <2> HIDE DEF Q
  <2> QED BY <1>2, <1>3, <1>4, NatSetInduction
<1>6. n \in Q
  BY <1>1, <1>5
<1> QED BY <1>1, <1>6

\* A sequence as long as n with given elements.
LEMMA SameSequence ==
    ASSUME NEW G, NEW t \in Seq(G), NEW f, f = [i \in 1..Len(t) |-> f[i]], \A i \in 1..Len(t) : f[i] = t[i]
    PROVE  f = t
<1>1. t = [i \in 1..Len(t) |-> t[i]]
  OBVIOUS
<1>2. [i \in 1..Len(t) |-> f[i]] = [i \in 1..Len(t) |-> t[i]]
  OBVIOUS
<1> QED BY <1>1, <1>2, Zenon

\* The difference of two bytes, and the sum that undoes it.
LEMMA DifferenceIs ==
    ASSUME NEW a \in Bytes, NEW b \in Bytes
    PROVE  (a - b) % Base \in Bytes /\ (((a - b) % Base) + b) % Base = a
<1>1. Base \in Nat /\ Base >= 1 /\ a \in Nat /\ b \in Nat /\ a < Base /\ b < Base
  BY BaseIs DEF Bytes
<1>2. CASE a >= b
  <2> DEFINE d == a - b
  <2>1. d \in 0..(Base - 1) /\ a \in 0..(Base - 1) /\ d + b = a /\ Base \in Nat \ {0}
    BY <1>1, <1>2
  <2> HIDE DEF d
  <2>2. d % Base = d
    BY <2>1, DivOfSmaller
  <2>3. a % Base = a
    BY <2>1, DivOfSmaller
  <2> QED BY <2>1, <2>2, <2>3 DEF Bytes, d
<1>3. CASE a < b
  <2> DEFINE x == (a - b) + Base
  <2>1. x \in 0..(Base - 1) /\ x \in Nat /\ a \in 0..(Base - 1) /\ x + b = a + Base /\ x + b \in Nat /\ a - b \in Int
    BY <1>1, <1>3
  <2>2. (a - b) % Base = x
    BY <1>1, <1>3
  <2>3. (x + b) % Base = a
    <3>1. x + b = 1 * Base + a
      BY <1>1, <2>1
    <3> HIDE DEF x
    <3> QED BY <1>1, <2>1, <3>1, DivIs
  <2> HIDE DEF x
  <2> QED BY <2>1, <2>2, <2>3 DEF Bytes
<1> QED BY <1>1, <1>2, <1>3

----------------------------------------------------------------------------
(* Differences and exclusive-ors.                                          *)

\* What is behind a period is the sum of what was subtracted.
LEMMA DeltaBack ==
    ASSUME NEW t \in Seq(Bytes), NEW p \in Nat \ {0}
    PROVE  /\ Delta(t, p) \in Seq(Bytes) /\ Len(Delta(t, p)) = Len(t)
           /\ Undelta(Delta(t, p), p) = t
<1> DEFINE n == Len(t)
           s == Delta(t, p)
           L == {i \in 1..n : i > p}
           Body(g, i) == IF i > p THEN (s[i] + g[i - p]) % Base ELSE s[i]
           f == CHOOSE g : g = [i \in 1..Len(s) |-> Body(g, i)]
<1>0. \A i \in L : i \in Nat /\ i > p
  OBVIOUS
<1>1. n \in Nat /\ p \in Nat \ {0} /\ \A i \in 1..n : t[i] \in Bytes
  OBVIOUS
<1>2. \A i \in 1..n : i \in L => t[i - p] \in Bytes /\ i - p \in 1..n
  <2> HIDE DEF L
  <2> QED BY <1>0, <1>1
<1>3. ASSUME NEW i \in 1..n
      PROVE  /\ s[i] = IF i > p THEN (t[i] - t[i - p]) % Base ELSE t[i]
             /\ s[i] \in Bytes
             /\ i > p => (s[i] + t[i - p]) % Base = t[i]
  <2>1. s[i] = IF i > p THEN (t[i] - t[i - p]) % Base ELSE t[i]
    BY DEF Delta
  <2>2. CASE i > p
    <3>1. i \in L
      BY <2>2
    <3>2. t[i] \in Bytes /\ t[i - p] \in Bytes
      BY <1>1, <1>2, <3>1
    <3>3. (t[i] - t[i - p]) % Base \in Bytes /\ (((t[i] - t[i - p]) % Base) + t[i - p]) % Base = t[i]
      BY <3>2, DifferenceIs
    <3>4. s[i] = (t[i] - t[i - p]) % Base
      BY <2>1, <2>2
    <3> HIDE DEF s
    <3> QED BY <2>1, <3>3, <3>4
  <2>3. CASE ~(i > p)
    BY <1>1, <2>1, <2>3
  <2> QED BY <2>2, <2>3, <2>1
<1>4. s = [i \in 1..n |-> s[i]] /\ s \in [1..n -> Bytes]
  <2>1. s = [i \in 1..n |-> IF i > p THEN (t[i] - t[i - p]) % Base ELSE t[i]]
    BY DEF Delta
  <2> HIDE DEF s
  <2> QED BY <1>3, <2>1
<1>5. s \in Seq(Bytes) /\ Len(s) = n
  <2> HIDE DEF s, n
  <2> QED BY <1>1, <1>4, FromFunction
<1>6. t = [i \in 1..Len(s) |-> Body(t, i)]
  <2>1. \A i \in 1..n : Body(t, i) = t[i]
    BY <1>3
  <2>2. t = [i \in 1..n |-> t[i]]
    OBVIOUS
  <2> HIDE DEF Body, s, n
  <2>3. [i \in 1..n |-> Body(t, i)] = [i \in 1..n |-> t[i]]
    BY <2>1
  <2> QED BY <1>5, <2>2, <2>3, Zenon
<1> HIDE DEF s
<1>7. f = [i \in 1..Len(s) |-> Body(f, i)]
  <2> HIDE DEF Body
  <2> QED BY <1>6, Zenon
<1>8. Undelta(s, p) = f
  BY Zenon DEF Undelta, f
<1> HIDE DEF f
<1>9. Linked(n, p, L, f, t)
  <2>1. ASSUME NEW i \in 1..n PROVE f[i] = Body(f, i)
    <3> HIDE DEF Body
    <3> QED BY <1>5, <1>7, Zenon
  <2>2. ASSUME NEW i \in 1..n, i \notin L PROVE f[i] = t[i]
    <3>1. ~(i > p)
      BY <2>2
    <3>2. f[i] = s[i]
      BY <2>1, <3>1
    <3> QED BY <1>3, <3>1, <3>2
  <2>3. ASSUME NEW i \in 1..n, i \in L, f[i - p] = t[i - p] PROVE f[i] = t[i]
    <3>1. i > p
      BY <2>3
    <3>2. f[i] = (s[i] + f[i - p]) % Base
      BY <2>1, <3>1
    <3>3. f[i] = (s[i] + t[i - p]) % Base
      BY <2>3, <3>2, Zenon
    <3> QED BY <1>3, <3>1, <3>3
  <2> HIDE DEF L
  <2> QED BY <1>0, <1>1, <2>2, <2>3 DEF Linked
<1>10. \A i \in 1..n : f[i] = t[i]
  <2> HIDE DEF L, n
  <2> QED BY <1>9, LinkedIs
<1>11. f = t
  <2>1. f = [i \in 1..n |-> f[i]]
    <3> HIDE DEF Body
    <3>1. DOMAIN f = 1..n /\ f = [i \in 1..n |-> Body(f, i)]
      BY <1>5, <1>7
    <3> QED BY <3>1
  <2> QED BY <1>10, <2>1, SameSequence
<1> QED BY <1>5, <1>8, <1>11 DEF s

\* The same for exclusive-or.
LEMMA XoredBack ==
    ASSUME NEW t \in Seq(Bytes), NEW p \in Nat \ {0}
    PROVE  /\ Xored(t, p) \in Seq(Bytes) /\ Len(Xored(t, p)) = Len(t)
           /\ Unxored(Xored(t, p), p) = t
<1> DEFINE n == Len(t)
           s == Xored(t, p)
           L == {i \in 1..n : i > p}
           Body(g, i) == IF i > p THEN Xor(s[i], g[i - p]) ELSE s[i]
           f == CHOOSE g : g = [i \in 1..Len(s) |-> Body(g, i)]
<1>0. \A i \in L : i \in Nat /\ i > p
  OBVIOUS
<1>1. n \in Nat /\ p \in Nat \ {0} /\ \A i \in 1..n : t[i] \in Bytes
  OBVIOUS
<1>2. \A i \in 1..n : i \in L => t[i - p] \in Bytes /\ i - p \in 1..n
  <2> HIDE DEF L
  <2> QED BY <1>0, <1>1
<1>3. ASSUME NEW i \in 1..n
      PROVE  /\ s[i] = IF i > p THEN Xor(t[i], t[i - p]) ELSE t[i]
             /\ s[i] \in Bytes
             /\ i > p => Xor(s[i], t[i - p]) = t[i]
  <2>1. s[i] = IF i > p THEN Xor(t[i], t[i - p]) ELSE t[i]
    BY DEF Xored
  <2>2. CASE i > p
    <3>1. i \in L
      BY <2>2
    <3>2. t[i] \in Bytes /\ t[i - p] \in Bytes
      BY <1>1, <1>2, <3>1
    <3>3. Xor(t[i], t[i - p]) \in Bytes /\ Xor(Xor(t[i], t[i - p]), t[i - p]) = t[i]
      BY <3>2, XorIs
    <3>4. s[i] = Xor(t[i], t[i - p])
      BY <2>1, <2>2
    <3> HIDE DEF s
    <3> QED BY <2>1, <3>3, <3>4
  <2>3. CASE ~(i > p)
    BY <1>1, <2>1, <2>3
  <2> QED BY <2>2, <2>3, <2>1
<1>4. s = [i \in 1..n |-> s[i]] /\ s \in [1..n -> Bytes]
  <2>1. s = [i \in 1..n |-> IF i > p THEN Xor(t[i], t[i - p]) ELSE t[i]]
    BY DEF Xored
  <2> HIDE DEF s
  <2> QED BY <1>3, <2>1
<1>5. s \in Seq(Bytes) /\ Len(s) = n
  <2> HIDE DEF s, n
  <2> QED BY <1>1, <1>4, FromFunction
<1>6. t = [i \in 1..Len(s) |-> Body(t, i)]
  <2>1. \A i \in 1..n : Body(t, i) = t[i]
    BY <1>3
  <2>2. t = [i \in 1..n |-> t[i]]
    OBVIOUS
  <2> HIDE DEF Body, s, n
  <2>3. [i \in 1..n |-> Body(t, i)] = [i \in 1..n |-> t[i]]
    BY <2>1
  <2> QED BY <1>5, <2>2, <2>3, Zenon
<1> HIDE DEF s
<1>7. f = [i \in 1..Len(s) |-> Body(f, i)]
  <2> HIDE DEF Body
  <2> QED BY <1>6, Zenon
<1>8. Unxored(s, p) = f
  BY Zenon DEF Unxored, f
<1> HIDE DEF f
<1>9. Linked(n, p, L, f, t)
  <2>1. ASSUME NEW i \in 1..n PROVE f[i] = Body(f, i)
    <3> HIDE DEF Body
    <3> QED BY <1>5, <1>7, Zenon
  <2>2. ASSUME NEW i \in 1..n, i \notin L PROVE f[i] = t[i]
    <3>1. ~(i > p)
      BY <2>2
    <3>2. f[i] = s[i]
      BY <2>1, <3>1
    <3> QED BY <1>3, <3>1, <3>2
  <2>3. ASSUME NEW i \in 1..n, i \in L, f[i - p] = t[i - p] PROVE f[i] = t[i]
    <3>1. i > p
      BY <2>3
    <3>2. f[i] = Xor(s[i], f[i - p])
      BY <2>1, <3>1
    <3>3. f[i] = Xor(s[i], t[i - p])
      BY <2>3, <3>2, Zenon
    <3> QED BY <1>3, <3>1, <3>3
  <2> HIDE DEF L
  <2> QED BY <1>0, <1>1, <2>2, <2>3 DEF Linked
<1>10. \A i \in 1..n : f[i] = t[i]
  <2> HIDE DEF L, n
  <2> QED BY <1>9, LinkedIs
<1>11. f = t
  <2>1. f = [i \in 1..n |-> f[i]]
    <3> HIDE DEF Body
    <3>1. DOMAIN f = 1..n /\ f = [i \in 1..n |-> Body(f, i)]
      BY <1>5, <1>7
    <3> QED BY <3>1
  <2> QED BY <1>10, <2>1, SameSequence
<1> QED BY <1>5, <1>8, <1>11 DEF s

\* Within rows.
LEMMA RowDeltaBack ==
    ASSUME NEW t \in Seq(Bytes), NEW row \in Nat, NEW stride \in Nat \ {0}, stride <= row
    PROVE  /\ RowDelta(t, row, stride) \in Seq(Bytes) /\ Len(RowDelta(t, row, stride)) = Len(t)
           /\ RowUndelta(RowDelta(t, row, stride), row, stride) = t
<1> DEFINE n == Len(t)
           s == RowDelta(t, row, stride)
           L == {i \in 1..n : InRow(i, row, stride)}
           Body(g, i) == IF InRow(i, row, stride) THEN (s[i] + g[i - stride]) % Base ELSE s[i]
           f == CHOOSE g : g = [i \in 1..Len(s) |-> Body(g, i)]
<1>0. \A i \in L : i \in Nat /\ i > stride
  <2> SUFFICES ASSUME NEW i \in 1..n, InRow(i, row, stride) PROVE i > stride
    OBVIOUS
  <2>1. i - 1 \in Nat /\ row \in Nat \ {0}
    OBVIOUS
  <2>2. (i - 1) % row <= i - 1
    <3>1. (i - 1) \div row \in Nat /\ (i - 1) % row \in Nat /\ i - 1 = ((i - 1) \div row) * row + ((i - 1) % row)
      BY <2>1, DivType, Zenon
    <3>2. ((i - 1) \div row) * row \in Nat
      BY <2>1, <3>1
    <3> QED BY <2>1, <3>1, <3>2
  <2>3. (i - 1) % row >= stride /\ (i - 1) % row \in Nat
    BY <2>1, DivType DEF InRow
  <2> QED BY <2>1, <2>2, <2>3
<1>1. n \in Nat /\ stride \in Nat \ {0} /\ \A i \in 1..n : t[i] \in Bytes
  OBVIOUS
<1>2. \A i \in 1..n : i \in L => t[i - stride] \in Bytes /\ i - stride \in 1..n
  <2> HIDE DEF L
  <2> QED BY <1>0, <1>1
<1>3. ASSUME NEW i \in 1..n
      PROVE  /\ s[i] = IF InRow(i, row, stride) THEN (t[i] - t[i - stride]) % Base ELSE t[i]
             /\ s[i] \in Bytes
             /\ InRow(i, row, stride) => (s[i] + t[i - stride]) % Base = t[i]
  <2>1. s[i] = IF InRow(i, row, stride) THEN (t[i] - t[i - stride]) % Base ELSE t[i]
    BY DEF RowDelta
  <2>2. CASE InRow(i, row, stride)
    <3>1. i \in L
      BY <2>2
    <3>2. t[i] \in Bytes /\ t[i - stride] \in Bytes
      BY <1>1, <1>2, <3>1
    <3>3. (t[i] - t[i - stride]) % Base \in Bytes /\ (((t[i] - t[i - stride]) % Base) + t[i - stride]) % Base = t[i]
      BY <3>2, DifferenceIs
    <3>4. s[i] = (t[i] - t[i - stride]) % Base
      BY <2>1, <2>2
    <3> HIDE DEF s
    <3> QED BY <2>1, <3>3, <3>4
  <2>3. CASE ~(InRow(i, row, stride))
    BY <1>1, <2>1, <2>3
  <2> QED BY <2>2, <2>3, <2>1
<1>4. s = [i \in 1..n |-> s[i]] /\ s \in [1..n -> Bytes]
  <2>1. s = [i \in 1..n |-> IF InRow(i, row, stride) THEN (t[i] - t[i - stride]) % Base ELSE t[i]]
    BY DEF RowDelta
  <2> HIDE DEF s
  <2> QED BY <1>3, <2>1
<1>5. s \in Seq(Bytes) /\ Len(s) = n
  <2> HIDE DEF s, n
  <2> QED BY <1>1, <1>4, FromFunction
<1>6. t = [i \in 1..Len(s) |-> Body(t, i)]
  <2>1. \A i \in 1..n : Body(t, i) = t[i]
    BY <1>3
  <2>2. t = [i \in 1..n |-> t[i]]
    OBVIOUS
  <2> HIDE DEF Body, s, n
  <2>3. [i \in 1..n |-> Body(t, i)] = [i \in 1..n |-> t[i]]
    BY <2>1
  <2> QED BY <1>5, <2>2, <2>3, Zenon
<1> HIDE DEF s
<1>7. f = [i \in 1..Len(s) |-> Body(f, i)]
  <2> HIDE DEF Body
  <2> QED BY <1>6, Zenon
<1>8. RowUndelta(s, row, stride) = f
  BY Zenon DEF RowUndelta, f
<1> HIDE DEF f
<1>9. Linked(n, stride, L, f, t)
  <2>1. ASSUME NEW i \in 1..n PROVE f[i] = Body(f, i)
    <3> HIDE DEF Body
    <3> QED BY <1>5, <1>7, Zenon
  <2>2. ASSUME NEW i \in 1..n, i \notin L PROVE f[i] = t[i]
    <3>1. ~(InRow(i, row, stride))
      BY <2>2
    <3>2. f[i] = s[i]
      BY <2>1, <3>1
    <3> QED BY <1>3, <3>1, <3>2
  <2>3. ASSUME NEW i \in 1..n, i \in L, f[i - stride] = t[i - stride] PROVE f[i] = t[i]
    <3>1. InRow(i, row, stride)
      BY <2>3
    <3>2. f[i] = (s[i] + f[i - stride]) % Base
      BY <2>1, <3>1
    <3>3. f[i] = (s[i] + t[i - stride]) % Base
      BY <2>3, <3>2, Zenon
    <3> QED BY <1>3, <3>1, <3>3
  <2> HIDE DEF L
  <2> QED BY <1>0, <1>1, <2>2, <2>3 DEF Linked
<1>10. \A i \in 1..n : f[i] = t[i]
  <2> HIDE DEF L, n
  <2> QED BY <1>9, LinkedIs
<1>11. f = t
  <2>1. f = [i \in 1..n |-> f[i]]
    <3> HIDE DEF Body
    <3>1. DOMAIN f = 1..n /\ f = [i \in 1..n |-> Body(f, i)]
      BY <1>5, <1>7
    <3> QED BY <3>1
  <2> QED BY <1>10, <2>1, SameSequence
<1> QED BY <1>5, <1>8, <1>11 DEF s

\* The same for exclusive-or.
LEMMA RowXoredBack ==
    ASSUME NEW t \in Seq(Bytes), NEW row \in Nat, NEW stride \in Nat \ {0}, stride <= row
    PROVE  /\ RowXored(t, row, stride) \in Seq(Bytes) /\ Len(RowXored(t, row, stride)) = Len(t)
           /\ RowUnxored(RowXored(t, row, stride), row, stride) = t
<1> DEFINE n == Len(t)
           s == RowXored(t, row, stride)
           L == {i \in 1..n : InRow(i, row, stride)}
           Body(g, i) == IF InRow(i, row, stride) THEN Xor(s[i], g[i - stride]) ELSE s[i]
           f == CHOOSE g : g = [i \in 1..Len(s) |-> Body(g, i)]
<1>0. \A i \in L : i \in Nat /\ i > stride
  <2> SUFFICES ASSUME NEW i \in 1..n, InRow(i, row, stride) PROVE i > stride
    OBVIOUS
  <2>1. i - 1 \in Nat /\ row \in Nat \ {0}
    OBVIOUS
  <2>2. (i - 1) % row <= i - 1
    <3>1. (i - 1) \div row \in Nat /\ (i - 1) % row \in Nat /\ i - 1 = ((i - 1) \div row) * row + ((i - 1) % row)
      BY <2>1, DivType, Zenon
    <3>2. ((i - 1) \div row) * row \in Nat
      BY <2>1, <3>1
    <3> QED BY <2>1, <3>1, <3>2
  <2>3. (i - 1) % row >= stride /\ (i - 1) % row \in Nat
    BY <2>1, DivType DEF InRow
  <2> QED BY <2>1, <2>2, <2>3
<1>1. n \in Nat /\ stride \in Nat \ {0} /\ \A i \in 1..n : t[i] \in Bytes
  OBVIOUS
<1>2. \A i \in 1..n : i \in L => t[i - stride] \in Bytes /\ i - stride \in 1..n
  <2> HIDE DEF L
  <2> QED BY <1>0, <1>1
<1>3. ASSUME NEW i \in 1..n
      PROVE  /\ s[i] = IF InRow(i, row, stride) THEN Xor(t[i], t[i - stride]) ELSE t[i]
             /\ s[i] \in Bytes
             /\ InRow(i, row, stride) => Xor(s[i], t[i - stride]) = t[i]
  <2>1. s[i] = IF InRow(i, row, stride) THEN Xor(t[i], t[i - stride]) ELSE t[i]
    BY DEF RowXored
  <2>2. CASE InRow(i, row, stride)
    <3>1. i \in L
      BY <2>2
    <3>2. t[i] \in Bytes /\ t[i - stride] \in Bytes
      BY <1>1, <1>2, <3>1
    <3>3. Xor(t[i], t[i - stride]) \in Bytes /\ Xor(Xor(t[i], t[i - stride]), t[i - stride]) = t[i]
      BY <3>2, XorIs
    <3>4. s[i] = Xor(t[i], t[i - stride])
      BY <2>1, <2>2
    <3> HIDE DEF s
    <3> QED BY <2>1, <3>3, <3>4
  <2>3. CASE ~(InRow(i, row, stride))
    BY <1>1, <2>1, <2>3
  <2> QED BY <2>2, <2>3, <2>1
<1>4. s = [i \in 1..n |-> s[i]] /\ s \in [1..n -> Bytes]
  <2>1. s = [i \in 1..n |-> IF InRow(i, row, stride) THEN Xor(t[i], t[i - stride]) ELSE t[i]]
    BY DEF RowXored
  <2> HIDE DEF s
  <2> QED BY <1>3, <2>1
<1>5. s \in Seq(Bytes) /\ Len(s) = n
  <2> HIDE DEF s, n
  <2> QED BY <1>1, <1>4, FromFunction
<1>6. t = [i \in 1..Len(s) |-> Body(t, i)]
  <2>1. \A i \in 1..n : Body(t, i) = t[i]
    BY <1>3
  <2>2. t = [i \in 1..n |-> t[i]]
    OBVIOUS
  <2> HIDE DEF Body, s, n
  <2>3. [i \in 1..n |-> Body(t, i)] = [i \in 1..n |-> t[i]]
    BY <2>1
  <2> QED BY <1>5, <2>2, <2>3, Zenon
<1> HIDE DEF s
<1>7. f = [i \in 1..Len(s) |-> Body(f, i)]
  <2> HIDE DEF Body
  <2> QED BY <1>6, Zenon
<1>8. RowUnxored(s, row, stride) = f
  BY Zenon DEF RowUnxored, f
<1> HIDE DEF f
<1>9. Linked(n, stride, L, f, t)
  <2>1. ASSUME NEW i \in 1..n PROVE f[i] = Body(f, i)
    <3> HIDE DEF Body
    <3> QED BY <1>5, <1>7, Zenon
  <2>2. ASSUME NEW i \in 1..n, i \notin L PROVE f[i] = t[i]
    <3>1. ~(InRow(i, row, stride))
      BY <2>2
    <3>2. f[i] = s[i]
      BY <2>1, <3>1
    <3> QED BY <1>3, <3>1, <3>2
  <2>3. ASSUME NEW i \in 1..n, i \in L, f[i - stride] = t[i - stride] PROVE f[i] = t[i]
    <3>1. InRow(i, row, stride)
      BY <2>3
    <3>2. f[i] = Xor(s[i], f[i - stride])
      BY <2>1, <3>1
    <3>3. f[i] = Xor(s[i], t[i - stride])
      BY <2>3, <3>2, Zenon
    <3> QED BY <1>3, <3>1, <3>3
  <2> HIDE DEF L
  <2> QED BY <1>0, <1>1, <2>2, <2>3 DEF Linked
<1>10. \A i \in 1..n : f[i] = t[i]
  <2> HIDE DEF L, n
  <2> QED BY <1>9, LinkedIs
<1>11. f = t
  <2>1. f = [i \in 1..n |-> f[i]]
    <3> HIDE DEF Body
    <3>1. DOMAIN f = 1..n /\ f = [i \in 1..n |-> Body(f, i)]
      BY <1>5, <1>7
    <3> QED BY <3>1
  <2> QED BY <1>10, <2>1, SameSequence
<1> QED BY <1>5, <1>8, <1>11 DEF s

----------------------------------------------------------------------------
(* Where the parts of a joined sequence lie.                               *)

LEMMA TwoParts ==
    ASSUME NEW G, NEW s \in Seq(G), NEW t \in Seq(G)
    PROVE  /\ s \o t \in Seq(G) /\ Len(s \o t) = Len(s) + Len(t) /\ Len(s) \in Nat /\ Len(t) \in Nat
           /\ \A i \in 1..Len(s) : (s \o t)[i] = s[i]
           /\ \A i \in 1..Len(t) : (s \o t)[Len(s) + i] = t[i]
<1>1. s \o t \in Seq(G) /\ Len(s \o t) = Len(s) + Len(t) /\ Len(s) \in Nat /\ Len(t) \in Nat
  OBVIOUS
<1>2. \A i \in 1..Len(s) : (s \o t)[i] = s[i]
  OBVIOUS
<1>3. \A i \in 1..Len(t) : (s \o t)[Len(s) + i] = t[i]
  OBVIOUS
<1> QED BY <1>1, <1>2, <1>3

\* What the parts up to each one give together.
Chained(G, n, sq, g) ==
    /\ g \in [Nat -> Seq(G)] /\ g[0] = <<>> /\ FlattenSeq(sq) = g[n]
    /\ \A i \in 1..n : g[i] = g[i - 1] \o sq[i]

LEMMA FlattenSteps ==
    ASSUME NEW G, NEW n \in Nat, NEW sq \in [1..n -> Seq(G)]
    PROVE  \E g : Chained(G, n, sq, g)
<1> DEFINE V == Seq(G)
           part == [i \in Nat |-> IF i \in 1..n THEN sq[i] ELSE <<>>]
           step == [i \in Nat |-> [s \in V |-> s \o part[i]]]
           first == <<>>
<1>1. part \in [Nat -> V] /\ \A i \in 1..n : part[i] = sq[i]
  OBVIOUS
<1> HIDE DEF part
<1>2. step \in [Nat -> [V -> V]] /\ first \in V /\ \A i \in Nat, s \in V : step[i][s] = s \o part[i]
  <2>1. \A s, t \in V : s \o t \in V
    OBVIOUS
  <2>2. first \in V
    OBVIOUS
  <2> HIDE DEF V, first
  <2> QED BY <1>1, <2>1, <2>2
<1> HIDE DEF step, V
<1>3. PICK g : Recursive(V, first, step, g)
  <2> HIDE DEF first
  <2> QED BY <1>2, RecursionExists, Zenon
<1>4. g \in [Nat -> Seq(G)] /\ g[0] = <<>> /\ \A i \in Nat : g[i + 1] = step[i + 1][g[i]]
  BY <1>3, Zenon DEF Recursive, V
<1>5. ASSUME NEW i \in 1..n PROVE g[i] = g[i - 1] \o sq[i] /\ g[i - 1] \in Seq(G) /\ g[i] \in Seq(G)
  <2>1. i - 1 \in Nat /\ (i - 1) + 1 = i /\ i \in Nat
    OBVIOUS
  <2>2. g[i] = step[i][g[i - 1]] /\ g[i - 1] \in V /\ g[i] \in V
    BY <1>4, <2>1, Zenon DEF V
  <2> QED BY <1>1, <1>2, <2>1, <2>2, Zenon DEF V
<1>6. FlattenSeq(sq) = g[n]
  <2>1. DOMAIN sq = 1..n /\ Len(sq) = n
    OBVIOUS
  <2>2. CASE n = 0
    <3>1. FlattenSeq(sq) = sq
      BY <2>1, <2>2 DEF FlattenSeq
    <3>2. sq = <<>>
      BY <2>1, <2>2
    <3> QED BY <1>4, <2>2, <3>1, <3>2
  <2>3. CASE n # 0
    <3>1. ASSUME NEW i \in 1..n PROVE g[i] = IF i = 1 THEN sq[i] ELSE g[i - 1] \o sq[i]
      <4>1. CASE i = 1
        <5>1. 1 \in 1..n /\ 1 - 1 = 0 /\ g[0] = <<>>
          BY <1>4, <4>1
        <5>2. g[1] = g[1 - 1] \o sq[1] /\ sq[1] \in Seq(G)
          BY <1>5, <5>1, Zenon
        <5>3. g[1] = <<>> \o sq[1]
          BY <5>1, <5>2, Zenon
        <5>4. <<>> \o sq[1] = sq[1]
          BY <5>2
        <5> QED BY <4>1, <5>3, <5>4
      <4>2. CASE i # 1
        BY <1>5, <4>2, Zenon
      <4> QED BY <4>1, <4>2
    <3>2. n >= 1
      BY <2>3
    <3>a. \A i \in 1..n : g[i] = IF i = 1 THEN sq[i] ELSE g[i - 1] \o sq[i]
      BY <3>1, Zenon
    <3>3. Gathers(n, sq, g)
      BY <2>1, <3>2, <3>a, Zenon DEF Gathers
    <3> QED BY <3>3, FlattenOf, Zenon
  <2> QED BY <2>2, <2>3
<1>7. Chained(G, n, sq, g)
  BY <1>4, <1>5, <1>6, Zenon DEF Chained
<1> QED BY <1>7

\* ends[i] is where part i ends in all.
Placed(n, sq, all, ends) ==
    /\ ends \in [0..n -> Nat] /\ ends[0] = 0
    /\ \A i \in 1..n : ends[i] = ends[i - 1] + Len(sq[i])
    /\ Len(all) = ends[n] /\ \A i \in 0..n : ends[i] <= ends[n]
    /\ \A i \in 1..n : \A j \in 1..Len(sq[i]) : all[ends[i - 1] + j] = sq[i][j]

LEMMA FlattenPlaces ==
    ASSUME NEW G, NEW n \in Nat, NEW sq \in [1..n -> Seq(G)]
    PROVE  FlattenSeq(sq) \in Seq(G) /\ \E ends : Placed(n, sq, FlattenSeq(sq), ends)
<1>3. PICK g : Chained(G, n, sq, g)
  BY FlattenSteps
<1>4. g \in [Nat -> Seq(G)] /\ g[0] = <<>>
  BY <1>3 DEF Chained
<1>5. ASSUME NEW i \in 1..n PROVE g[i] = g[i - 1] \o sq[i] /\ g[i - 1] \in Seq(G) /\ g[i] \in Seq(G)
  <2>1. i - 1 \in Nat /\ i \in Nat
    OBVIOUS
  <2> QED BY <1>3, <1>4, <2>1, Zenon DEF Chained
<1>6. FlattenSeq(sq) = g[n]
  BY <1>3 DEF Chained
<1> DEFINE ends == [i \in 0..n |-> Len(g[i])]
<1>7. ends \in [0..n -> Nat] /\ ends[0] = 0 /\ ends[n] = Len(g[n]) /\ \A i \in 0..n : ends[i] = Len(g[i])
  <2>1. \A i \in 0..n : Len(g[i]) \in Nat
    <3> SUFFICES ASSUME NEW i \in 0..n PROVE Len(g[i]) \in Nat
      OBVIOUS
    <3>1. g[i] \in Seq(G)
      BY <1>4
    <3> QED BY <3>1
  <2> QED BY <1>4, <2>1
<1> HIDE DEF ends
<1>8. ASSUME NEW i \in 1..n
      PROVE  /\ ends[i] = ends[i - 1] + Len(sq[i]) /\ ends[i - 1] \in Nat /\ Len(sq[i]) \in Nat
             /\ \A j \in 1..ends[i - 1] : g[i][j] = g[i - 1][j]
             /\ \A j \in 1..Len(sq[i]) : g[i][ends[i - 1] + j] = sq[i][j]
  <2>1. i \in 0..n /\ i - 1 \in 0..n /\ sq[i] \in Seq(G)
    OBVIOUS
  <2>2. ends[i] = Len(g[i]) /\ ends[i - 1] = Len(g[i - 1])
    BY <1>7, <2>1
  <2>3. g[i] = g[i - 1] \o sq[i] /\ g[i - 1] \in Seq(G)
    BY <1>5
  <2>4. /\ Len(g[i]) = Len(g[i - 1]) + Len(sq[i]) /\ Len(g[i - 1]) \in Nat /\ Len(sq[i]) \in Nat
        /\ \A j \in 1..Len(g[i - 1]) : g[i][j] = g[i - 1][j]
        /\ \A j \in 1..Len(sq[i]) : g[i][Len(g[i - 1]) + j] = sq[i][j]
    BY <2>1, <2>3, TwoParts
  <2> QED BY <2>2, <2>4
\* What lies in a prefix lies in the whole.
<1> DEFINE Kept(m) == \A i \in 1..n : i <= m => \A j \in 1..Len(sq[i]) : g[m][ends[i - 1] + j] = sq[i][j]
           Q == {m \in Nat : m <= n => /\ Kept(m) /\ \A i \in 0..m : ends[i] <= ends[m]}
<1>9. 0 \in Q
  <2>1. \A i \in 0..0 : i = 0
    OBVIOUS
  <2>2. ends[0] <= ends[0]
    BY <1>7
  <2>3. Kept(0)
    OBVIOUS
  <2> HIDE DEF Kept
  <2> QED BY <2>1, <2>2, <2>3
<1>10. ASSUME NEW m \in Q PROVE m + 1 \in Q
  <2>1. m \in Nat
    OBVIOUS
  <2> SUFFICES ASSUME m + 1 <= n PROVE Kept(m + 1) /\ \A i \in 0..(m + 1) : ends[i] <= ends[m + 1]
    BY <2>1
  <2>2. m + 1 \in 1..n /\ (m + 1) - 1 = m /\ m <= n
    BY <2>1
  <2>3. Kept(m) /\ \A i \in 0..m : ends[i] <= ends[m]
    BY <2>2
  <2>4. /\ ends[m + 1] = ends[m] + Len(sq[m + 1]) /\ ends[m] \in Nat /\ Len(sq[m + 1]) \in Nat
        /\ \A j \in 1..ends[m] : g[m + 1][j] = g[m][j]
        /\ \A j \in 1..Len(sq[m + 1]) : g[m + 1][ends[m] + j] = sq[m + 1][j]
    <3> DEFINE i == m + 1
    <3>1. i \in 1..n /\ i - 1 = m
      BY <2>2
    <3> HIDE DEF i
    <3>2. /\ ends[i] = ends[i - 1] + Len(sq[i]) /\ ends[i - 1] \in Nat /\ Len(sq[i]) \in Nat
          /\ \A j \in 1..ends[i - 1] : g[i][j] = g[i - 1][j]
          /\ \A j \in 1..Len(sq[i]) : g[i][ends[i - 1] + j] = sq[i][j]
      BY <1>8, <3>1, Zenon
    <3>3. /\ ends[i] = ends[m] + Len(sq[i]) /\ ends[m] \in Nat /\ Len(sq[i]) \in Nat
          /\ \A j \in 1..ends[m] : g[i][j] = g[m][j]
          /\ \A j \in 1..Len(sq[i]) : g[i][ends[m] + j] = sq[i][j]
      BY <3>1, <3>2, Zenon
    <3> QED BY <3>3 DEF i
  <2>5. \A i \in 0..(m + 1) : ends[i] <= ends[m + 1]
    <3> SUFFICES ASSUME NEW i \in 0..(m + 1) PROVE ends[i] <= ends[m + 1]
      OBVIOUS
    <3>1. i \in 0..m \/ i = m + 1
      BY <2>1
    <3>2. ends[i] \in Nat /\ ends[m + 1] \in Nat
      BY <1>7, <2>1
    <3> QED BY <2>3, <2>4, <3>1, <3>2
  <2>6. Kept(m + 1)
    <3> SUFFICES ASSUME NEW i \in 1..n, i <= m + 1, NEW j \in 1..Len(sq[i])
                 PROVE  g[m + 1][ends[i - 1] + j] = sq[i][j]
      BY Zenon
    <3>1. CASE i = m + 1
      BY <2>2, <2>4, <3>1
    <3>2. CASE i # m + 1
      <4>1. i <= m /\ i \in 0..m
        BY <2>1, <3>2
      <4>2. g[m][ends[i - 1] + j] = sq[i][j]
        BY <2>3, <4>1
      <4>3. ends[i] = ends[i - 1] + Len(sq[i]) /\ ends[i - 1] \in Nat /\ Len(sq[i]) \in Nat /\ ends[i] <= ends[m]
        BY <1>8, <2>3, <4>1
      <4>4. ends[i - 1] + j \in 1..ends[m]
        BY <2>4, <4>3, SMTT(30)
      <4> QED BY <2>4, <4>2, <4>4, Zenon
    <3> QED BY <3>1, <3>2
  <2> QED BY <2>5, <2>6
<1>11. Q \in SUBSET Nat
  OBVIOUS
<1>12. \A m \in Nat : m \in Q
  <2> HIDE DEF Q
  <2> QED BY <1>9, <1>10, <1>11, NatSetInduction, Zenon
<1>13. Kept(n) /\ \A i \in 0..n : ends[i] <= ends[n]
  BY <1>12
<1>14. \A i \in 1..n : \A j \in 1..Len(sq[i]) : g[n][ends[i - 1] + j] = sq[i][j]
  BY <1>13
<1>15. g[n] \in Seq(G)
  BY <1>4
<1>16. Placed(n, sq, g[n], ends)
  BY <1>7, <1>8, <1>13, <1>14 DEF Placed
<1> QED BY <1>6, <1>15, <1>16

----------------------------------------------------------------------------
(* Heads and tails.                                                        *)

LEMMA MinOfTwo ==
    ASSUME NEW a \in Nat, NEW b \in Nat
    PROVE  Min({a, b}) = IF a <= b THEN a ELSE b
<1>1. {a, b} \in SUBSET Nat /\ {a, b} # {}
  OBVIOUS
<1>2. Min({a, b}) \in {a, b} /\ \A x \in {a, b} : Min({a, b}) <= x
  BY <1>1, MinProperty
<1> QED BY <1>2

\* How many chunks of p there are, and where they begin.
LEMMA ChunksOf ==
    ASSUME NEW n \in Nat, NEW p \in Nat \ {0}
    PROVE  /\ CeilDiv(n, p) \in Nat /\ (n = 0 <=> CeilDiv(n, p) = 0) /\ n <= CeilDiv(n, p) * p
           /\ \A c \in 1..CeilDiv(n, p) : /\ (c - 1) * p \in Nat /\ (c - 1) * p < n
                                          /\ c * p = (c - 1) * p + p
                                          /\ c < CeilDiv(n, p) => (c - 1) * p + p < n
                                          /\ c = CeilDiv(n, p) => n <= (c - 1) * p + p
<1> DEFINE N == CeilDiv(n, p)
           x == (n + p) - 1
           r == x % p
<1>1. x \in Nat /\ N = x \div p
  BY DEF CeilDiv
<1>2. N \in Nat /\ r \in 0..(p - 1) /\ x = N * p + r
  BY <1>1, DivType, Zenon
<1>3. N * p \in Nat /\ n = (N * p - p) + (r + 1)
  <2>1. N * p \in Nat
    BY <1>2
  <2> DEFINE y == N * p
  <2> HIDE DEF y, N, r
  <2> QED BY <1>2, <2>1 DEF y
<1>4. n <= N * p /\ N * p - p < n
  <2> DEFINE y == N * p
  <2>1. y \in Nat /\ n = (y - p) + (r + 1) /\ r \in 0..(p - 1)
    BY <1>2, <1>3
  <2> HIDE DEF y, N, r
  <2>2. n <= y /\ y - p < n
    BY <2>1
  <2> QED BY <2>2 DEF y
<1> HIDE DEF N, x, r
<1>5. n = 0 <=> N = 0
  <2>1. CASE N = 0
    <3>1. N * p = 0
      BY <2>1
    <3> QED BY <1>4, <2>1, <3>1
  <2>2. CASE N # 0
    <3>1. 1 <= N /\ 1 \in Nat
      BY <1>2, <2>2
    <3>2. 1 * p <= N * p /\ 1 * p = p
      BY <1>2, <3>1, ProductOrder
    <3> QED BY <1>3, <1>4, <2>2, <3>2
  <2> QED BY <2>1, <2>2
<1>6. ASSUME NEW c \in 1..N
      PROVE  /\ (c - 1) * p \in Nat /\ (c - 1) * p < n
             /\ c * p = (c - 1) * p + p
             /\ c < N => (c - 1) * p + p < n
             /\ c = N => n <= (c - 1) * p + p
  <2>1. c \in Nat /\ c - 1 \in Nat /\ c <= N /\ c * p \in Nat /\ (c - 1) * p \in Nat
    BY <1>2
  <2>2. c * p = (c - 1) * p + p
    BY <2>1
  <2>3. c * p <= N * p
    BY <1>2, <2>1, ProductOrder
  <2> DEFINE y == (c - 1) * p
             z == N * p
  <2>4. y \in Nat /\ z \in Nat /\ c * p = y + p /\ y + p <= z /\ n <= z /\ z - p < n
    BY <1>3, <1>4, <2>1, <2>2, <2>3
  <2>5. c < N => y + p < n
    <3> SUFFICES ASSUME c < N PROVE y + p < n
      OBVIOUS
    <3>1. c + 1 <= N /\ c + 1 \in Nat
      BY <1>2, <2>1
    <3>2. (c + 1) * p <= N * p
      BY <1>2, <3>1, ProductOrder
    <3>3. (c + 1) * p = c * p + p
      BY <2>1
    <3>4. (c * p) + p <= z
      BY <3>2, <3>3
    <3> HIDE DEF y, z
    <3> QED BY <2>4, <3>4
  <2>6. c = N => n <= y + p
    BY <2>4
  <2> HIDE DEF z
  <2>7. y < n
    <3> HIDE DEF y
    <3> QED BY <2>4
  <2> QED BY <2>1, <2>2, <2>5, <2>6, <2>7
<1> QED BY <1>2, <1>4, <1>5, <1>6 DEF N

\* The head and the tail of a chunk.
HeadOf(s, p, h, c) == SubSeq(s, (c - 1) * p + 1, Min({(c - 1) * p + h, Len(s)}))
TailOf(s, p, h, c) == SubSeq(s, Min({(c - 1) * p + h, Len(s)}) + 1, Min({(c - 1) * p + p, Len(s)}))

LEMMA ChunkParts ==
    ASSUME NEW s \in Seq(Bytes), NEW p \in Nat \ {0}, NEW h \in 0..p, NEW c \in 1..CeilDiv(Len(s), p)
    PROVE  LET from == (c - 1) * p
               size == IF c < CeilDiv(Len(s), p) THEN p ELSE Len(s) - from
               head == IF h <= size THEN h ELSE size
           IN /\ from \in Nat /\ size \in 1..p /\ from + size <= Len(s) /\ head \in Nat
              /\ HeadOf(s, p, h, c) \in Seq(Bytes) /\ TailOf(s, p, h, c) \in Seq(Bytes)
              /\ Len(HeadOf(s, p, h, c)) = head /\ Len(TailOf(s, p, h, c)) = size - head
              /\ \A j \in 1..head : HeadOf(s, p, h, c)[j] = s[from + j]
              /\ \A j \in 1..(size - head) : TailOf(s, p, h, c)[j] = s[(from + head) + j]
<1> DEFINE from == (c - 1) * p
           n == Len(s)
           last == c < CeilDiv(Len(s), p)
           size == IF last THEN p ELSE n - from
           head == IF h <= size THEN h ELSE size
<1>1. n \in Nat /\ CeilDiv(n, p) \in Nat /\ p \in Nat
  BY ChunksOf
<1>2. from \in Nat /\ from < n /\ (last => from + p < n) /\ (~last => n <= from + p)
  <2>1. c = CeilDiv(n, p) \/ last
    BY <1>1
  <2> QED BY <1>1, <2>1, ChunksOf, Zenon
<1>3. /\ HeadOf(s, p, h, c) = SubSeq(s, from + 1, Min({from + h, n}))
      /\ TailOf(s, p, h, c) = SubSeq(s, Min({from + h, n}) + 1, Min({from + p, n}))
  BY DEF HeadOf, TailOf
<1> HIDE DEF from, n, last
<1>4. size \in 1..p /\ from + size <= n /\ head \in Nat /\ head <= size
  BY <1>1, <1>2
<1>5. Min({from + h, n}) = from + head /\ Min({from + p, n}) = from + size
  <2>1. from + h \in Nat /\ from + p \in Nat
    BY <1>1, <1>2
  <2>2. /\ Min({from + h, n}) = (IF from + h <= n THEN from + h ELSE n)
        /\ Min({from + p, n}) = (IF from + p <= n THEN from + p ELSE n)
    BY <1>1, <2>1, MinOfTwo
  <2>3. CASE last
    BY <1>1, <1>2, <2>2, <2>3
  <2>4. CASE ~last
    BY <1>1, <1>2, <2>2, <2>4
  <2> QED BY <2>3, <2>4
<1> DEFINE a == SubSeq(s, from + 1, from + head)
           b == SubSeq(s, (from + head) + 1, from + size)
<1> HIDE DEF size, head
<1>6. a \in Seq(Bytes) /\ Len(a) = head /\ \A j \in 1..head : a[j] = s[from + j]
  BY <1>1, <1>2, <1>4 DEF n
<1>7. b \in Seq(Bytes) /\ Len(b) = size - head /\ \A j \in 1..(size - head) : b[j] = s[(from + head) + j]
  BY <1>1, <1>2, <1>4 DEF n
<1>8. HeadOf(s, p, h, c) = a /\ TailOf(s, p, h, c) = b
  BY <1>3, <1>5, Zenon
<1> HIDE DEF a, b
<1> QED BY <1>2, <1>4, <1>6, <1>7, <1>8 DEF from, size, head, last, n

LEMMA HeadTailLies ==
    ASSUME NEW s \in Seq(Bytes), NEW p \in Nat, p >= 2, NEW h \in 1..(p - 1)
    PROVE  LET n == Len(s)
               H == HeadBytes(n, p, h)
           IN /\ HeadTail(s, p, h) \in Seq(Bytes) /\ Len(HeadTail(s, p, h)) = n /\ H \in 0..n
              /\ \A c \in 1..CeilDiv(n, p) :
                     LET from == (c - 1) * p
                         size == IF c < CeilDiv(n, p) THEN p ELSE n - from
                         head == IF h <= size THEN h ELSE size
                     IN /\ \A j \in 1..head : HeadTail(s, p, h)[(c - 1) * h + j] = s[from + j]
                        /\ \A j \in 1..(size - head) :
                              HeadTail(s, p, h)[H + ((c - 1) * (p - h) + j)] = s[(from + head) + j]
<1> DEFINE n == Len(s)
           N == CeilDiv(n, p)
           from(c) == (c - 1) * p
           size(c) == IF c < N THEN p ELSE n - from(c)
           head(c) == IF h <= size(c) THEN h ELSE size(c)
           hs == [c \in 1..N |-> HeadOf(s, p, h, c)]
           ts == [c \in 1..N |-> TailOf(s, p, h, c)]
           A == FlattenSeq(hs)
           B == FlattenSeq(ts)
<1>1. n \in Nat /\ N \in Nat /\ p \in Nat \ {0} /\ h \in Nat /\ h < p /\ p - h \in Nat /\ h \in 0..p
  <2>1. n \in Nat /\ p \in Nat \ {0}
    OBVIOUS
  <2> QED BY <2>1, ChunksOf
<1>2. \A c \in 1..N : /\ from(c) \in Nat /\ size(c) \in 1..p /\ from(c) + size(c) <= n /\ head(c) \in Nat
                      /\ hs[c] \in Seq(Bytes) /\ ts[c] \in Seq(Bytes)
                      /\ Len(hs[c]) = head(c) /\ Len(ts[c]) = size(c) - head(c)
                      /\ \A j \in 1..head(c) : hs[c][j] = s[from(c) + j]
                      /\ \A j \in 1..(size(c) - head(c)) : ts[c][j] = s[(from(c) + head(c)) + j]
  <2> SUFFICES ASSUME NEW c \in 1..N
               PROVE  /\ from(c) \in Nat /\ size(c) \in 1..p /\ from(c) + size(c) <= n /\ head(c) \in Nat
                      /\ hs[c] \in Seq(Bytes) /\ ts[c] \in Seq(Bytes)
                      /\ Len(hs[c]) = head(c) /\ Len(ts[c]) = size(c) - head(c)
                      /\ \A j \in 1..head(c) : hs[c][j] = s[from(c) + j]
                      /\ \A j \in 1..(size(c) - head(c)) : ts[c][j] = s[(from(c) + head(c)) + j]
    BY Zenon
  <2>1. hs[c] = HeadOf(s, p, h, c) /\ ts[c] = TailOf(s, p, h, c)
    OBVIOUS
  <2> HIDE DEF hs, ts
  <2>2. /\ from(c) \in Nat /\ size(c) \in 1..p /\ from(c) + size(c) <= n /\ head(c) \in Nat
        /\ HeadOf(s, p, h, c) \in Seq(Bytes) /\ TailOf(s, p, h, c) \in Seq(Bytes)
        /\ Len(HeadOf(s, p, h, c)) = head(c) /\ Len(TailOf(s, p, h, c)) = size(c) - head(c)
        /\ \A j \in 1..head(c) : HeadOf(s, p, h, c)[j] = s[from(c) + j]
        /\ \A j \in 1..(size(c) - head(c)) : TailOf(s, p, h, c)[j] = s[(from(c) + head(c)) + j]
    BY <1>1, ChunkParts, ZenonT(40)
  <2> HIDE DEF from, size, head, n
  <2> QED BY <2>1, <2>2, Zenon
<1>3. HeadTail(s, p, h) = A \o B
  BY Zenon DEF HeadTail, HeadOf, TailOf
<1>4. \A c \in 1..N : c < N => size(c) = p /\ head(c) = h
  BY <1>1
<1>5. N # 0 => N \in 1..N /\ size(N) = n - from(N)
  BY <1>1
<1>6. hs \in [1..N -> Seq(Bytes)] /\ ts \in [1..N -> Seq(Bytes)]
  <2> HIDE DEF from, size, head
  <2>1. \A c \in 1..N : hs[c] \in Seq(Bytes) /\ ts[c] \in Seq(Bytes)
    BY <1>2
  <2> QED BY <2>1
<1> HIDE DEF hs, ts, n, N, size, head, from
<1>7. A \in Seq(Bytes) /\ B \in Seq(Bytes)
  BY <1>1, <1>6, FlattenPlaces
<1>8. PICK eh : Placed(N, hs, A, eh)
  BY <1>1, <1>6, FlattenPlaces, Zenon
<1>9. PICK et : Placed(N, ts, B, et)
  BY <1>1, <1>6, FlattenPlaces, Zenon
<1> DEFINE Q == {c \in Nat : c < N => eh[c] = c * h /\ et[c] = c * (p - h)}
<1>10. 0 \in Q
  <2>1. eh[0] = 0 /\ et[0] = 0 /\ 0 * h = 0 /\ 0 * (p - h) = 0
    BY <1>1, <1>8, <1>9 DEF Placed
  <2> QED BY <2>1
<1>11. ASSUME NEW c \in Q PROVE c + 1 \in Q
  <2>1. c \in Nat
    OBVIOUS
  <2> SUFFICES ASSUME c + 1 < N PROVE eh[c + 1] = (c + 1) * h /\ et[c + 1] = (c + 1) * (p - h)
    BY <2>1
  <2>2. c + 1 \in 1..N /\ (c + 1) - 1 = c /\ c < N
    BY <1>1, <2>1
  <2>3. eh[c] = c * h /\ et[c] = c * (p - h)
    BY <2>2
  <2>4. Len(hs[c + 1]) = h /\ Len(ts[c + 1]) = p - h
    BY <1>2, <1>4, <2>2, Zenon
  <2>5. eh[c + 1] = eh[c] + h /\ et[c + 1] = et[c] + (p - h)
    BY <1>8, <1>9, <2>2, <2>4, Zenon DEF Placed
  <2> DEFINE d == p - h
  <2>6. (c + 1) * h = c * h + h /\ (c + 1) * d = c * d + d /\ d \in Nat
    BY <1>1, <2>1
  <2> QED BY <2>3, <2>5, <2>6
<1>12. Q \in SUBSET Nat
  OBVIOUS
<1>13. \A c \in Nat : c \in Q
  <2> HIDE DEF Q
  <2> QED BY <1>10, <1>11, <1>12, NatSetInduction
<1>14. \A c \in 1..N : eh[c - 1] = (c - 1) * h /\ et[c - 1] = (c - 1) * (p - h)
  <2> SUFFICES ASSUME NEW c \in 1..N PROVE eh[c - 1] = (c - 1) * h /\ et[c - 1] = (c - 1) * (p - h)
    OBVIOUS
  <2>1. c - 1 \in Nat /\ c - 1 < N
    BY <1>1
  <2>2. c - 1 \in Q
    BY <1>13, <2>1
  <2> QED BY <2>1, <2>2
<1>15. Len(A) = HeadBytes(n, p, h) /\ Len(A) + Len(B) = n /\ Len(A) \in Nat /\ Len(B) \in Nat
  <2>1. Len(A) = eh[N] /\ Len(B) = et[N] /\ eh[0] = 0 /\ et[0] = 0
    BY <1>8, <1>9 DEF Placed
  <2>2. Len(A) \in Nat /\ Len(B) \in Nat
    BY <1>7
  <2>3. CASE N = 0
    <3>1. n = 0
      BY <1>1, <2>3, ChunksOf DEF N
    <3>2. 0 \div p = 0 /\ 0 % p = 0 /\ 0 * h = 0
      <4>1. 0 \in 0..(p - 1)
        BY <1>1
      <4> QED BY <1>1, <4>1, DivOfSmaller
    <3>3. Min({h, 0}) = 0
      BY <1>1, MinOfTwo
    <3>a. HeadBytes(0, p, h) = (0 \div p) * h + Min({h, 0 % p})
      BY DEF HeadBytes
    <3>b. HeadBytes(0, p, h) = 0 + 0
      BY <3>2, <3>3, <3>a, Zenon
    <3>4. HeadBytes(0, p, h) = 0
      BY <3>b
    <3> QED BY <2>1, <2>3, <3>1, <3>4
  <2>4. CASE N # 0
    <3> DEFINE k == N - 1
               z == size(N)
               y == head(N)
    <3>1. N \in 1..N /\ k \in Nat /\ k + 1 = N
      BY <1>1, <2>4
    <3>2. eh[N] = eh[N - 1] + Len(hs[N]) /\ et[N] = et[N - 1] + Len(ts[N])
      BY <1>8, <1>9, <3>1, Zenon DEF Placed
    <3>3. Len(hs[N]) = y /\ Len(ts[N]) = z - y /\ z \in 1..p /\ y \in Nat /\ y = IF h <= z THEN h ELSE z
      BY <1>2, <3>1, Zenon DEF head
    <3>4. n = from(N) + z /\ from(N) = k * p /\ from(N) \in Nat
      <4>1. from(N) \in Nat
        BY <1>2, <3>1
      <4> QED BY <1>1, <1>5, <2>4, <4>1 DEF from
    <3>5. eh[N] = k * h + y /\ et[N] = k * (p - h) + (z - y)
      BY <1>14, <3>1, <3>2, <3>3, Zenon
    <3> HIDE DEF k, y, z
    <3>6. k * h + k * (p - h) = k * p /\ k * h \in Nat /\ k * (p - h) \in Nat /\ k * p \in Nat
      <4> DEFINE d == p - h
      <4>1. d \in Nat /\ p = h + d
        BY <1>1
      <4> HIDE DEF d
      <4>2. k * (h + d) = k * h + k * d /\ k * h \in Nat /\ k * d \in Nat
        BY <1>1, <3>1, <4>1
      <4> QED BY <4>1, <4>2 DEF d
    <3>7. Len(A) + Len(B) = n
      <4> DEFINE a == k * h
                 b == k * (p - h)
      <4>1. Len(A) = a + y /\ Len(B) = b + (z - y) /\ n = (a + b) + z /\ a \in Nat /\ b \in Nat
        BY <2>1, <3>4, <3>5, <3>6
      <4> HIDE DEF a, b
      <4> QED BY <3>3, <4>1
    <3>8. HeadBytes(n, p, h) = k * h + y
      <4>1. HeadBytes(n, p, h) = (n \div p) * h + Min({h, n % p})
        BY DEF HeadBytes
      <4>2. CASE z < p
        <5>1. n = k * p + z /\ z \in 0..(p - 1) /\ z \in Nat
          BY <3>3, <3>4, <4>2
        <5>2. n \div p = k /\ n % p = z
          BY <1>1, <3>1, <5>1, DivIs
        <5>3. Min({h, z}) = y
          BY <1>1, <3>3, <5>1, MinOfTwo
        <5> QED BY <4>1, <5>2, <5>3, Zenon
      <4>3. CASE z = p
        <5>1. n = N * p + 0 /\ 0 \in 0..(p - 1)
          <6>1. N * p = k * p + p
            BY <1>1, <3>1
          <6> QED BY <1>1, <3>4, <4>3, <6>1
        <5>2. n \div p = N /\ n % p = 0
          BY <1>1, <5>1, DivIs
        <5>3. Min({h, 0}) = 0 /\ y = h
          BY <1>1, <3>3, <4>3, MinOfTwo
        <5>4. N * h = k * h + h
          BY <1>1, <3>1
        <5>5. N * h \in Nat
          BY <1>1
        <5>6. HeadBytes(n, p, h) = (k * h + h) + 0
          BY <4>1, <5>2, <5>3, <5>4, Zenon
        <5>7. k * h + h \in Nat
          BY <5>4, <5>5
        <5> QED BY <5>3, <5>6, <5>7
      <4> QED BY <1>1, <3>3, <4>2, <4>3
    <3> QED BY <2>1, <2>2, <3>5, <3>7, <3>8
  <2> QED BY <2>3, <2>4
<1>16. /\ A \o B \in Seq(Bytes) /\ Len(A \o B) = n
       /\ \A i \in 1..Len(A) : (A \o B)[i] = A[i]
       /\ \A i \in 1..Len(B) : (A \o B)[Len(A) + i] = B[i]
  <2> HIDE DEF A, B
  <2>1. /\ A \o B \in Seq(Bytes) /\ Len(A \o B) = Len(A) + Len(B)
        /\ \A i \in 1..Len(A) : (A \o B)[i] = A[i]
        /\ \A i \in 1..Len(B) : (A \o B)[Len(A) + i] = B[i]
    BY <1>7, TwoParts
  <2> QED BY <1>15, <2>1, Zenon
<1>17. ASSUME NEW c \in 1..N
       PROVE  /\ \A j \in 1..head(c) : (A \o B)[(c - 1) * h + j] = s[from(c) + j]
              /\ \A j \in 1..(size(c) - head(c)) : (A \o B)[Len(A) + ((c - 1) * (p - h) + j)] = s[(from(c) + head(c)) + j]
  <2>1. /\ Len(hs[c]) = head(c) /\ Len(ts[c]) = size(c) - head(c) /\ c \in 0..N /\ c - 1 \in 0..N
        /\ head(c) \in Nat /\ size(c) \in Nat
        /\ \A j \in 1..head(c) : hs[c][j] = s[from(c) + j]
        /\ \A j \in 1..(size(c) - head(c)) : ts[c][j] = s[(from(c) + head(c)) + j]
    BY <1>1, <1>2
  <2>2. /\ eh[c - 1] \in Nat /\ eh[c] = eh[c - 1] + head(c) /\ eh[c] <= Len(A)
        /\ \A j \in 1..head(c) : A[eh[c - 1] + j] = hs[c][j]
    BY <1>8, <2>1, Zenon DEF Placed
  <2>3. /\ et[c - 1] \in Nat /\ et[c] = et[c - 1] + (size(c) - head(c)) /\ et[c] <= Len(B)
        /\ \A j \in 1..(size(c) - head(c)) : B[et[c - 1] + j] = ts[c][j]
    BY <1>9, <2>1, Zenon DEF Placed
  <2>4. ASSUME NEW j \in 1..head(c) PROVE (A \o B)[(c - 1) * h + j] = s[from(c) + j]
    <3>1. eh[c - 1] + j \in 1..Len(A)
      BY <1>15, <2>1, <2>2, SMTT(30)
    <3>2. (A \o B)[eh[c - 1] + j] = s[from(c) + j]
      BY <1>16, <2>1, <2>2, <3>1
    <3> QED BY <1>14, <3>2, Zenon
  <2>5. ASSUME NEW j \in 1..(size(c) - head(c))
        PROVE  (A \o B)[Len(A) + ((c - 1) * (p - h) + j)] = s[(from(c) + head(c)) + j]
    <3>1. et[c - 1] + j \in 1..Len(B)
      BY <1>15, <2>1, <2>3, SMTT(30)
    <3>2. (A \o B)[Len(A) + (et[c - 1] + j)] = s[(from(c) + head(c)) + j]
      BY <1>16, <2>1, <2>3, <3>1, Zenon
    <3> QED BY <1>14, <3>2, Zenon
  <2> QED BY <2>4, <2>5, Zenon
<1> HIDE DEF A, B
<1>18. HeadBytes(n, p, h) \in 0..n
  BY <1>15
<1>19. HeadTail(s, p, h) \in Seq(Bytes) /\ Len(HeadTail(s, p, h)) = n
  BY <1>3, <1>16
<1>20. \A c \in 1..N : /\ \A j \in 1..head(c) : HeadTail(s, p, h)[(c - 1) * h + j] = s[from(c) + j]
                       /\ \A j \in 1..(size(c) - head(c)) :
                              HeadTail(s, p, h)[HeadBytes(n, p, h) + ((c - 1) * (p - h) + j)] = s[(from(c) + head(c)) + j]
  BY <1>3, <1>15, <1>17, Zenon
<1> QED BY <1>18, <1>19, <1>20, Zenon DEF n, N, from, size, head

\* Which chunk a place is in.
LEMMA ChunkOfPlace ==
    ASSUME NEW n \in Nat, NEW p \in Nat \ {0}, NEW i \in 1..n
    PROVE  LET k == (i - 1) \div p
               o == (i - 1) % p
           IN /\ k \in Nat /\ o \in 0..(p - 1) /\ k + 1 \in 1..CeilDiv(n, p)
              /\ k * p \in Nat /\ i = k * p + (o + 1)
<1> DEFINE k == (i - 1) \div p
           o == (i - 1) % p
           N == CeilDiv(n, p)
<1>1. i - 1 \in Nat /\ N \in Nat /\ n <= N * p
  BY ChunksOf
<1>2. k \in Nat /\ o \in 0..(p - 1) /\ i - 1 = k * p + o
  BY <1>1, DivType, Zenon
<1> HIDE DEF k, o, N
<1>3. k * p \in Nat /\ i = k * p + (o + 1)
  <2>1. k * p \in Nat
    BY <1>2
  <2> DEFINE y == k * p
  <2> HIDE DEF y
  <2> QED BY <1>2, <2>1 DEF y
<1>4. k < N
  <2> SUFFICES ASSUME N <= k PROVE FALSE
    BY <1>1, <1>2
  <2>1. N * p <= k * p /\ N * p \in Nat
    BY <1>1, <1>2, ProductOrder
  <2> DEFINE y == k * p
             z == N * p
  <2> HIDE DEF y, z
  <2>2. n <= y /\ y \in Nat /\ i = y + (o + 1)
    BY <1>1, <1>3, <2>1 DEF y, z
  <2> QED BY <1>2, <2>2
<1> QED BY <1>1, <1>2, <1>3, <1>4 DEF k, o, N

LEMMA HeadTailUndone ==
    ASSUME NEW s \in Seq(Bytes), NEW p \in Nat, p >= 2, NEW h \in 1..(p - 1)
    PROVE  HeadTailBack(HeadTail(s, p, h), p, h) = s
<1> DEFINE n == Len(s)
           N == CeilDiv(n, p)
           t == HeadTail(s, p, h)
           H == HeadBytes(n, p, h)
           Place(i) == LET chunk == (i - 1) \div p
                           offset == (i - 1) % p
                       IN IF offset < h THEN t[(chunk * h) + offset + 1]
                          ELSE t[H + chunk * (p - h) + offset - h + 1]
<1>1. n \in Nat /\ p \in Nat \ {0} /\ N \in Nat /\ h \in Nat /\ h < p
  <2>1. n \in Nat /\ p \in Nat \ {0}
    OBVIOUS
  <2> QED BY <2>1, ChunksOf
<1>2. t \in Seq(Bytes) /\ Len(t) = n /\ H \in 0..n
  BY HeadTailLies, Zenon
<1>3. HeadTailBack(t, p, h) = [i \in 1..n |-> Place(i)]
  BY <1>2, Zenon DEF HeadTailBack
<1> HIDE DEF t, H
<1>4. ASSUME NEW i \in 1..n PROVE Place(i) = s[i]
  <2> DEFINE k == (i - 1) \div p
             o == (i - 1) % p
             c == k + 1
             size == IF c < N THEN p ELSE n - k * p
             head == IF h <= size THEN h ELSE size
  <2>1. k \in Nat /\ o \in 0..(p - 1) /\ c \in 1..N /\ k * p \in Nat /\ i = k * p + (o + 1)
    BY <1>1, ChunkOfPlace
  <2>2. c - 1 = k /\ o + 1 <= size /\ size \in Nat /\ head \in Nat
    <3> DEFINE y == k * p
    <3> HIDE DEF y, k, o
    <3> QED BY <1>1, <2>1 DEF y
  <2>3. Place(i) = IF o < h THEN t[(k * h) + o + 1] ELSE t[H + k * (p - h) + o - h + 1]
    OBVIOUS
  <2>4. /\ \A j \in 1..head : t[k * h + j] = s[k * p + j]
        /\ \A j \in 1..(size - head) : t[H + (k * (p - h) + j)] = s[(k * p + head) + j]
    <3>1. LET from == (c - 1) * p
              z == IF c < N THEN p ELSE n - from
              y == IF h <= z THEN h ELSE z
          IN /\ \A j \in 1..y : t[(c - 1) * h + j] = s[from + j]
             /\ \A j \in 1..(z - y) : t[H + ((c - 1) * (p - h) + j)] = s[(from + y) + j]
      BY <2>1, HeadTailLies, Zenon DEF t, H
    <3> HIDE DEF k, n, N
    <3> QED BY <2>2, <3>1, Zenon
  <2> HIDE DEF Place, k, o, size
  <2>5. CASE o < h
    <3>1. o + 1 \in 1..head
      BY <1>1, <2>1, <2>2, <2>5
    <3>2. t[k * h + (o + 1)] = s[k * p + (o + 1)]
      BY <2>4, <3>1
    <3>3. (k * h) + o + 1 = k * h + (o + 1)
      <4>1. k * h \in Nat
        BY <1>1, <2>1
      <4> QED BY <2>1, <4>1
    <3> QED BY <2>1, <2>3, <2>5, <3>2, <3>3
  <2>6. CASE ~(o < h)
    <3> DEFINE j == (o - h) + 1
    <3>1. head = h /\ j \in 1..(size - head)
      BY <1>1, <2>1, <2>2, <2>6
    <3>2. t[H + (k * (p - h) + j)] = s[(k * p + head) + j]
      BY <2>4, <3>1
    <3>3. H + k * (p - h) + o - h + 1 = H + (k * (p - h) + j)
      <4>1. k * (p - h) \in Nat
        BY <1>1, <2>1
      <4> DEFINE y == k * (p - h)
      <4> HIDE DEF y
      <4> QED BY <1>1, <1>2, <2>1, <4>1 DEF y
    <3>4. (k * p + head) + j = i
      <4> DEFINE y == k * p
      <4>1. y \in Nat /\ i = y + (o + 1)
        BY <2>1
      <4> HIDE DEF y
      <4>2. (y + h) + j = i
        BY <1>1, <2>1, <4>1
      <4> QED BY <3>1, <4>2 DEF y
    <3> HIDE DEF j
    <3> QED BY <2>3, <2>6, <3>2, <3>3, <3>4
  <2> QED BY <2>5, <2>6
<1> HIDE DEF Place, n
<1>5. [i \in 1..n |-> Place(i)] = [i \in 1..n |-> s[i]]
  BY <1>4
<1>6. s = [i \in 1..n |-> s[i]]
  BY DEF n
<1> QED BY <1>3, <1>5, <1>6, Zenon DEF t

----------------------------------------------------------------------------
(* Bytes gathered by their place in a period.                              *)

Lens(n, p) == [o \in 0..(p - 1) |-> CeilDiv(n - o, p)]
Columns(s, p) == [c \in 1..p |-> [r \in 1..CeilDiv(Len(s) - (c - 1), p) |-> s[(c - 1) + (r - 1) * p + 1]]]

\* The columns before column c have this many bytes.
LEMMA ColumnsBefore ==
    ASSUME NEW n \in Nat, NEW p \in 1..n
    PROVE  /\ \A o \in 0..(p - 1) : /\ Lens(n, p)[o] = CeilDiv(n - o, p)
                                    /\ CeilDiv(n - o, p) = (n \div p) + (IF o < n % p THEN 1 ELSE 0)
           /\ \A c \in 0..p : SumFunctionOnSet(Lens(n, p), 0..(c - 1)) = c * (n \div p) + (IF c <= n % p THEN c ELSE n % p)
<1> DEFINE q == n \div p
           r == n % p
           f == Lens(n, p)
           S == 0..(p - 1)
           F(c) == SumFunctionOnSet(f, 0..(c - 1))
<1>1. q \in Nat /\ r \in 0..(p - 1) /\ n = q * p + r /\ p \in Nat \ {0} /\ q * p \in Nat
  <2>1. p \in Nat \ {0}
    OBVIOUS
  <2>2. q \in Nat /\ r \in 0..(p - 1) /\ n = q * p + r
    BY <2>1, DivType, Zenon
  <2> HIDE DEF q, r
  <2> QED BY <2>1, <2>2
<1> HIDE DEF q, r
<1>2. ASSUME NEW o \in S PROVE f[o] = CeilDiv(n - o, p) /\ CeilDiv(n - o, p) = q + (IF o < r THEN 1 ELSE 0)
  <2>1. f[o] = CeilDiv(n - o, p)
    BY DEF Lens
  <2> DEFINE x == ((n - o) + p) - 1
  <2>2. x \in Nat /\ CeilDiv(n - o, p) = x \div p
    BY DEF CeilDiv
  <2> DEFINE y == q * p
  <2>3. y \in Nat /\ n = y + r
    BY <1>1
  <2>4. CASE o < r
    <3>1. x = (q + 1) * p + ((r - o) - 1) /\ (r - o) - 1 \in 0..(p - 1) /\ q + 1 \in Nat
      <4>1. (q + 1) * p = y + p
        BY <1>1
      <4> HIDE DEF y
      <4> QED BY <1>1, <2>3, <2>4, <4>1
    <3> DEFINE z == (r - o) - 1
               w == q + 1
    <3> HIDE DEF x, z, w
    <3>2. x \div p = w
      BY <1>1, <2>2, <3>1, DivIs, ZenonT(40) DEF z, w
    <3> QED BY <1>1, <2>1, <2>2, <2>4, <3>2 DEF w
  <2>5. CASE ~(o < r)
    <3>1. x = q * p + (((r - o) + p) - 1) /\ ((r - o) + p) - 1 \in 0..(p - 1)
      <4>1. x = y + (((r - o) + p) - 1) /\ ((r - o) + p) - 1 \in 0..(p - 1)
        <5> HIDE DEF y
        <5> QED BY <1>1, <2>3, <2>5
      <4> QED BY <4>1
    <3> DEFINE z == ((r - o) + p) - 1
    <3> HIDE DEF x, z
    <3>2. x \div p = q
      BY <1>1, <2>2, <3>1, DivIs DEF z
    <3> QED BY <1>1, <2>1, <2>2, <2>5, <3>2
  <2> QED BY <2>4, <2>5
<1>3. SumAdds(f, S)
  <2>1. IsFiniteSet(S)
    BY <1>1, FS_Interval
  <2>2. \A o \in S : f[o] \in Nat
    BY <1>1, <1>2
  <2> HIDE DEF S, f
  <2> QED BY <2>1, <2>2, SumAddsUp
<1> DEFINE G(c) == c * q + (IF c <= r THEN c ELSE r)
           Q == {c \in Nat : c <= p => F(c) = G(c)}
<1>4. 0 \in Q
  <2>1. F(0) = 0
    <3>1. SumFunctionOnSet(f, {}) = 0
      BY <1>3, Zenon DEF SumAdds
    <3>2. 0..(0 - 1) = {}
      OBVIOUS
    <3> QED BY <3>1, <3>2
  <2>2. 0 * q = 0 /\ 0 <= r
    BY <1>1
  <2> HIDE DEF F
  <2> QED BY <2>1, <2>2
<1>5. ASSUME NEW c \in Q PROVE c + 1 \in Q
  <2>1. c \in Nat
    OBVIOUS
  <2> SUFFICES ASSUME c + 1 <= p PROVE F(c + 1) = G(c + 1)
    BY <2>1
  <2>2. c \in S /\ F(c) = G(c)
    BY <1>1, <2>1
  <2>3. F(c + 1) = f[c] + F(c)
    <3>1. 0..((c + 1) - 1) \in SUBSET S /\ c \in 0..((c + 1) - 1) /\ (0..((c + 1) - 1)) \ {c} = 0..(c - 1)
      BY <1>1, <2>1, <2>2
    <3>2. SumFunctionOnSet(f, 0..((c + 1) - 1)) = f[c] + SumFunctionOnSet(f, (0..((c + 1) - 1)) \ {c})
      BY <1>3, <3>1, Zenon DEF SumAdds
    <3> QED BY <3>1, <3>2, Zenon
  <2>4. f[c] = q + (IF c < r THEN 1 ELSE 0)
    BY <1>2, <2>2
  <2>5. (c + 1) * q = c * q + q /\ c * q \in Nat
    BY <1>1, <2>1
  <2> DEFINE z == c * q
  <2>6. F(c + 1) = (q + (IF c < r THEN 1 ELSE 0)) + (z + (IF c <= r THEN c ELSE r))
    BY <2>2, <2>3, <2>4
  <2>7. G(c + 1) = (z + q) + (IF c + 1 <= r THEN c + 1 ELSE r)
    BY <2>5
  <2> HIDE DEF F, G, z
  <2> QED BY <1>1, <2>1, <2>5, <2>6, <2>7 DEF z
<1>6. Q \in SUBSET Nat
  OBVIOUS
<1>7. \A c \in Nat : c \in Q
  <2> HIDE DEF Q
  <2> QED BY <1>4, <1>5, <1>6, NatSetInduction
<1>8. \A c \in 0..p : F(c) = G(c)
  <2> HIDE DEF F, G
  <2> QED BY <1>1, <1>7
<1> QED BY <1>2, <1>8 DEF q, r

LEMMA GatherUndone ==
    ASSUME NEW s \in Seq(Bytes), NEW p \in 1..Len(s)
    PROVE  /\ Gather(s, p) \in Seq(Bytes) /\ Len(Gather(s, p)) = Len(s)
           /\ GatherBack(Gather(s, p), p) = s
<1> DEFINE n == Len(s)
           sq == Columns(s, p)
           t == FlattenSeq(sq)
           q == n \div p
           r == n % p
           G(c) == c * q + (IF c <= r THEN c ELSE r)
           B(o) == SumFunctionOnSet(Lens(n, p), 0..(o - 1))
<1>1. n \in Nat /\ p \in Nat \ {0} /\ p \in 1..n /\ p \in Nat
  OBVIOUS
<1>2. Gather(s, p) = t
  BY Zenon DEF Gather, Columns
<1>3. \A o \in 0..(p - 1) : CeilDiv(n - o, p) \in Nat /\ n - o \in Nat
  <2> SUFFICES ASSUME NEW o \in 0..(p - 1) PROVE CeilDiv(n - o, p) \in Nat /\ n - o \in Nat
    OBVIOUS
  <2>1. n - o \in Nat
    BY <1>1
  <2> QED BY <1>1, <2>1, ChunksOf, Zenon
\* The place of row k of column o.
<1>4. ASSUME NEW o \in 0..(p - 1), NEW k \in 1..CeilDiv(n - o, p)
      PROVE  o + (k - 1) * p + 1 \in 1..n
  <2>1. (k - 1) * p \in Nat /\ (k - 1) * p < n - o
    BY <1>1, <1>3, ChunksOf, Zenon
  <2> DEFINE y == (k - 1) * p
  <2> HIDE DEF y
  <2>2. o + y + 1 \in 1..n
    BY <1>1, <2>1 DEF y
  <2> QED BY <2>2 DEF y
<1>5. ASSUME NEW c \in 1..p
      PROVE  /\ sq[c] \in Seq(Bytes) /\ Len(sq[c]) = CeilDiv(n - (c - 1), p)
             /\ \A k \in 1..CeilDiv(n - (c - 1), p) : sq[c][k] = s[(c - 1) + (k - 1) * p + 1]
  <2> DEFINE o == c - 1
             m == CeilDiv(n - o, p)
             col == [k \in 1..m |-> s[o + (k - 1) * p + 1]]
  <2>1. o \in 0..(p - 1) /\ m \in Nat
    BY <1>3
  <2>2. sq[c] = col
    BY DEF Columns
  <2>3. \A k \in 1..m : s[o + (k - 1) * p + 1] \in Bytes
    <3> SUFFICES ASSUME NEW k \in 1..m PROVE s[o + (k - 1) * p + 1] \in Bytes
      BY Zenon
    <3>1. o + (k - 1) * p + 1 \in 1..n
      BY <1>4, <2>1, Zenon
    <3> DEFINE x == o + (k - 1) * p + 1
    <3> HIDE DEF x
    <3> QED BY <3>1 DEF x
  <2> HIDE DEF sq, m, n, o
  <2>4. col \in [1..m -> Bytes]
    BY <2>3
  <2>5. col \in Seq(Bytes) /\ Len(col) = m /\ \A k \in 1..m : col[k] = s[o + (k - 1) * p + 1]
    <3>1. \A k \in 1..m : col[k] = s[o + (k - 1) * p + 1]
      BY Zenon
    <3> HIDE DEF col
    <3>2. col \in Seq(Bytes) /\ Len(col) = m
      BY <2>1, <2>4, FromFunction
    <3> QED BY <3>1, <3>2, Zenon
  <2> QED BY <2>2, <2>5, Zenon DEF o, m
<1>6. sq \in [1..p -> Seq(Bytes)]
  <2>1. \A c \in 1..p : sq[c] \in Seq(Bytes)
    BY <1>5
  <2>2. sq = [c \in 1..p |-> sq[c]]
    BY DEF Columns
  <2> HIDE DEF sq
  <2> QED BY <2>1, <2>2
<1> HIDE DEF sq, n, q, r
<1>7. t \in Seq(Bytes)
  BY <1>1, <1>6, FlattenPlaces
<1>8. PICK ends : Placed(p, sq, t, ends)
  BY <1>1, <1>6, FlattenPlaces
<1>9. q \in Nat /\ r \in 0..(p - 1) /\ n = q * p + r
  BY <1>1, DivType, Zenon DEF q, r
<1> HIDE DEF t
<1> DEFINE Q == {c \in Nat : c <= p => ends[c] = G(c)}
<1>10. 0 \in Q
  <2>1. ends[0] = 0 /\ 0 * q = 0 /\ 0 <= r
    BY <1>8, <1>9 DEF Placed
  <2> QED BY <2>1
<1>11. ASSUME NEW c \in Q PROVE c + 1 \in Q
  <2>1. c \in Nat
    OBVIOUS
  <2> SUFFICES ASSUME c + 1 <= p PROVE ends[c + 1] = G(c + 1)
    BY <2>1
  <2>2. c + 1 \in 1..p /\ (c + 1) - 1 = c /\ c \in 0..(p - 1) /\ ends[c] = G(c)
    BY <1>1, <2>1
  <2>3. Len(sq[c + 1]) = CeilDiv(n - c, p)
    BY <1>5, <2>2
  <2>4. CeilDiv(n - c, p) = q + (IF c < r THEN 1 ELSE 0)
    BY <1>1, <2>2, ColumnsBefore, Zenon DEF q, r
  <2>5. ends[c + 1] = ends[c] + Len(sq[c + 1])
    BY <1>8, <2>2 DEF Placed
  <2>6. (c + 1) * q = c * q + q /\ c * q \in Nat
    BY <1>9, <2>1
  <2> DEFINE z == c * q
  <2>7. ends[c + 1] = (q + (IF c < r THEN 1 ELSE 0)) + (z + (IF c <= r THEN c ELSE r)) /\ z \in Nat
    <3> HIDE DEF z
    <3>1. ends[c] = z + (IF c <= r THEN c ELSE r) /\ z \in Nat
      BY <2>2, <2>6 DEF z
    <3> QED BY <1>9, <2>1, <2>3, <2>4, <2>5, <3>1
  <2>8. G(c + 1) = (z + q) + (IF c + 1 <= r THEN c + 1 ELSE r)
    BY <2>6
  <2> HIDE DEF G, z
  <2> QED BY <1>9, <2>1, <2>7, <2>8
<1>12. Q \in SUBSET Nat
  OBVIOUS
<1>13. \A c \in Nat : c \in Q
  <2> HIDE DEF Q
  <2> QED BY <1>10, <1>11, <1>12, NatSetInduction
<1>14. \A c \in 0..p : ends[c] = G(c) /\ B(c) = G(c)
  <2>1. \A c \in 0..p : ends[c] = G(c)
    <3> HIDE DEF G
    <3> QED BY <1>1, <1>13
  <2>2. \A c \in 0..p : B(c) = G(c)
    BY <1>1, ColumnsBefore, Zenon DEF q, r
  <2> HIDE DEF G, B
  <2> QED BY <2>1, <2>2
<1>15. Len(t) = n
  <2>1. Len(t) = ends[p] /\ p \in 0..p
    BY <1>1, <1>8 DEF Placed
  <2>2. Len(t) = p * q + r
    <3>1. Len(t) = G(p)
      BY <1>14, <2>1
    <3>2. ~(p <= r)
      BY <1>1, <1>9
    <3> QED BY <3>1, <3>2
  <2>3. p * q = q * p
    BY <1>1, <1>9
  <2> QED BY <1>9, <2>2, <2>3
<1> DEFINE Place(i) == t[B((i - 1) % p) + ((i - 1) \div p) + 1]
<1>16. GatherBack(t, p) = [i \in 1..n |-> Place(i)]
  BY <1>15, Zenon DEF GatherBack, Lens
<1>17. ASSUME NEW i \in 1..n PROVE Place(i) = s[i]
  <2> DEFINE k == (i - 1) \div p
             o == (i - 1) % p
             c == o + 1
  <2>1. k \in Nat /\ o \in 0..(p - 1) /\ k * p \in Nat /\ i = k * p + (o + 1)
    BY <1>1, ChunkOfPlace, Zenon
  <2> HIDE DEF k, o
  <2>2. c \in 1..p /\ c - 1 = o /\ o \in 0..p
    BY <1>1, <2>1
  <2>3. k + 1 \in 1..CeilDiv(n - o, p)
    <3> DEFINE m == CeilDiv(n - o, p)
    <3>1. m \in Nat /\ n - o <= m * p
      BY <1>1, <1>3, <2>1, ChunksOf
    <3> HIDE DEF m
    <3>2. ASSUME m <= k PROVE FALSE
      <4>1. m * p <= k * p /\ m * p \in Nat
        BY <1>1, <2>1, <3>1, <3>2, ProductOrder
      <4> DEFINE y == k * p
                 z == m * p
      <4> HIDE DEF y, z
      <4>2. z <= y /\ y \in Nat /\ z \in Nat /\ i = y + (o + 1) /\ n - o <= z
        BY <2>1, <3>1, <4>1 DEF y, z
      <4> QED BY <1>1, <2>1, <4>2
    <3>3. k + 1 \in 1..m
      BY <2>1, <3>1, <3>2
    <3> QED BY <3>3 DEF m
  <2>4. t[ends[c - 1] + (k + 1)] = sq[c][k + 1]
    <3>1. k + 1 \in 1..Len(sq[c])
      BY <1>5, <2>2, <2>3, Zenon
    <3> QED BY <1>8, <2>2, <3>1, Zenon DEF Placed
  <2>5. sq[c][k + 1] = s[o + k * p + 1]
    <3>1. (k + 1) - 1 = k
      BY <2>1
    <3>2. sq[c][k + 1] = s[o + ((k + 1) - 1) * p + 1]
      BY <1>5, <2>2, <2>3, SMTT(30)
    <3> QED BY <3>1, <3>2
  <2>6. o + k * p + 1 = i
    <3> DEFINE y == k * p
    <3> HIDE DEF y
    <3>1. o + y + 1 = i
      BY <2>1 DEF y
    <3> QED BY <3>1 DEF y
  <2>7. B(o) = ends[o] /\ ends[o] \in Nat
    <3>1. ends[o] \in Nat
      BY <1>1, <1>8, <2>2 DEF Placed
    <3> HIDE DEF B, G
    <3> QED BY <1>14, <2>2, <3>1
  <2>8. B(o) + k + 1 = ends[o] + (k + 1)
    <3> HIDE DEF B
    <3> QED BY <2>1, <2>7
  <2>9. Place(i) = t[B(o) + k + 1]
    BY DEF k, o
  <2> HIDE DEF Place, B
  <2> QED BY <2>2, <2>4, <2>5, <2>6, <2>8, <2>9
<1>18. [i \in 1..n |-> Place(i)] = [i \in 1..n |-> s[i]]
  <2> HIDE DEF Place
  <2> QED BY <1>17
<1>19. s = [i \in 1..n |-> s[i]]
  BY DEF n
<1> HIDE DEF Place
<1>20. GatherBack(t, p) = s
  BY <1>16, <1>18, <1>19, Zenon
<1> QED BY <1>2, <1>7, <1>15, <1>20 DEF n

----------------------------------------------------------------------------
(* Bit planes.                                                             *)

\* The bits of byte j of the planes of s, and of byte i of what they are the planes of.
PlaneBit(s, j, k) == BitOf(s[(((j - 1) * ByteBits + k) % Len(s)) + 1], ((j - 1) * ByteBits + k) \div Len(s))
BackBit(t, i, k) == BitOf(t[((k * Len(t) + i - 1) \div ByteBits) + 1], (k * Len(t) + i - 1) % ByteBits)

LEMMA PlanesAre ==
    ASSUME NEW s
    PROVE  /\ BitPlanes(s) = [j \in 1..Len(s) |-> Lowest([k \in Places |-> PlaneBit(s, j, k)], ByteBits)]
           /\ BitPlanesBack(s) = [i \in 1..Len(s) |-> Lowest([k \in Places |-> BackBit(s, i, k)], ByteBits)]
<1>1. ASSUME NEW j
      PROVE  [k \in Places |-> [l \in Places |-> PlaneBit(s, j, l)][k] * Pow2[k]]
                = [k \in Places |-> PlaneBit(s, j, k) * Pow2[k]]
  BY Zenon
<1>2. ASSUME NEW i
      PROVE  [k \in Places |-> [l \in Places |-> BackBit(s, i, l)][k] * Pow2[k]]
                = [k \in Places |-> BackBit(s, i, k) * Pow2[k]]
  BY Zenon
<1>3. BitPlanes(s) = [j \in 1..Len(s) |-> SumFunctionOnSet([k \in Places |-> PlaneBit(s, j, k) * Pow2[k]], Places)]
  BY Zenon DEF BitPlanes, FromBits, PlaneBit, Places
<1>4. BitPlanesBack(s) = [i \in 1..Len(s) |-> SumFunctionOnSet([k \in Places |-> BackBit(s, i, k) * Pow2[k]], Places)]
  BY Zenon DEF BitPlanesBack, FromBits, BackBit, Places
<1>5. \A j : Lowest([k \in Places |-> PlaneBit(s, j, k)], ByteBits)
               = SumFunctionOnSet([k \in Places |-> PlaneBit(s, j, k) * Pow2[k]], Places)
  BY <1>1, Zenon DEF Lowest, Places
<1>6. \A i : Lowest([k \in Places |-> BackBit(s, i, k)], ByteBits)
               = SumFunctionOnSet([k \in Places |-> BackBit(s, i, k) * Pow2[k]], Places)
  BY <1>2, Zenon DEF Lowest, Places
<1> QED BY <1>3, <1>4, <1>5, <1>6, Zenon

\* A place below the product of two numbers has a quotient below the other one.
LEMMA PlaceBelow ==
    ASSUME NEW a \in Nat \ {0}, NEW b \in Nat \ {0}, NEW x \in 0..(a - 1), NEW y \in 0..(b - 1)
    PROVE  /\ x * b + y \in Nat /\ (x * b + y) \div b = x /\ (x * b + y) % b = y
           /\ (x * b + y) \div a \in 0..(b - 1) /\ (x * b + y) % a \in 0..(a - 1)
           /\ x * b + y = ((x * b + y) \div a) * a + ((x * b + y) % a)
<1> DEFINE z == x * b + y
           q == z \div a
           r == z % a
<1>1. x * b \in Nat /\ z \in Nat /\ a * b \in Nat
  OBVIOUS
<1>2. z \div b = x /\ z % b = y
  <2>1. x \in Nat /\ z = x * b + y
    OBVIOUS
  <2> HIDE DEF z
  <2> QED BY <1>1, <2>1, DivIs
<1>3. q \in Nat /\ r \in 0..(a - 1) /\ z = q * a + r
  <2> HIDE DEF z
  <2> QED BY <1>1, DivType, Zenon
<1>4. z < a * b
  <2>1. (x + 1) * b <= a * b /\ (x + 1) * b = x * b + b
    <3>1. x + 1 \in Nat /\ x + 1 <= a /\ a \in Nat /\ b \in Nat
      OBVIOUS
    <3> QED BY <3>1, ProductOrder
  <2> DEFINE u == x * b
             v == a * b
  <2>2. u \in Nat /\ v \in Nat /\ u + b <= v /\ z = u + y
    BY <1>1, <2>1
  <2> HIDE DEF u, v, z
  <2>3. z < v
    BY <2>2
  <2> QED BY <2>3 DEF v
<1>5. q < b
  <2> SUFFICES ASSUME b <= q PROVE FALSE
    BY <1>3
  <2> HIDE DEF z, q, r
  <2>1. b * a <= q * a /\ b * a = a * b
    BY <1>3, ProductOrder
  <2> DEFINE u == q * a
             v == a * b
  <2>2. v <= u /\ u \in Nat /\ v \in Nat /\ z = u + r /\ z < v
    BY <1>1, <1>3, <1>4, <2>1
  <2> HIDE DEF u, v
  <2> QED BY <1>3, <2>2
<1> HIDE DEF z, q, r
<1>6. q \in 0..(b - 1)
  BY <1>3, <1>5
<1> QED BY <1>1, <1>2, <1>3, <1>6 DEF z, q, r

LEMMA PlanesUndone ==
    ASSUME NEW s \in Seq(Bytes)
    PROVE  BitPlanes(s) \in Seq(Bytes) /\ Len(BitPlanes(s)) = Len(s) /\ BitPlanesBack(BitPlanes(s)) = s
<1> DEFINE n == Len(s)
           b == ByteBits
           t == BitPlanes(s)
           taken(j) == [k \in Places |-> PlaneBit(s, j, k)]
           back(i) == [k \in Places |-> BackBit(t, i, k)]
<1>1. n \in Nat /\ b \in Nat \ {0} /\ \A i \in 1..n : s[i] \in Bytes /\ s[i] \in Nat
  <2>1. n \in Nat /\ b \in Nat \ {0} /\ s \in [1..n -> Bytes]
    BY ByteAssumption
  <2>2. Bytes \subseteq Nat
    BY BaseIs DEF Bytes
  <2> QED BY <2>1, <2>2, Zenon
<1>2. t = [j \in 1..n |-> Lowest(taken(j), b)]
  BY PlanesAre, Zenon
<1> HIDE DEF n, t
<1>3. ASSUME NEW j \in 1..n PROVE taken(j) \in [Places -> 0..1]
  <2> SUFFICES ASSUME NEW k \in Places PROVE PlaneBit(s, j, k) \in 0..1
    OBVIOUS
  <2> DEFINE z == (j - 1) * b + k
  <2>1. n \in Nat \ {0} /\ j - 1 \in 0..(n - 1) /\ k \in 0..(b - 1)
    BY <1>1 DEF Places
  <2>2. z \div n \in 0..(b - 1) /\ z % n \in 0..(n - 1)
    BY <1>1, <2>1, PlaceBelow, ZenonT(40)
  <2>3. PlaneBit(s, j, k) = BitOf(s[(z % n) + 1], z \div n)
    BY DEF PlaneBit, n
  <2> HIDE DEF z
  <2>4. (z % n) + 1 \in 1..n /\ z \div n \in Places
    BY <1>1, <2>1, <2>2 DEF Places
  <2>5. s[(z % n) + 1] \in Nat
    BY <1>1, <2>4
  <2> QED BY <2>3, <2>4, <2>5, BitType
<1>4. ASSUME NEW j \in 1..n
      PROVE  t[j] = Lowest(taken(j), b) /\ t[j] \in Bytes /\ \A k \in Places : BitOf(t[j], k) = PlaneBit(s, j, k)
  <2>1. t[j] = Lowest(taken(j), b)
    <3> HIDE DEF taken
    <3> QED BY <1>2
  <2>2. \A k \in Places : taken(j)[k] = PlaneBit(s, j, k)
    OBVIOUS
  <2>3. taken(j) \in [Places -> 0..1]
    BY <1>3
  <2> HIDE DEF taken
  <2> QED BY <2>1, <2>2, <2>3, ByteOfBits
<1>5. t \in Seq(Bytes) /\ Len(t) = n
  <2>1. \A j \in 1..n : Lowest(taken(j), b) \in Bytes
    BY <1>4
  <2> HIDE DEF taken
  <2>2. t \in [1..n -> Bytes]
    BY <1>2, <2>1
  <2> QED BY <1>1, <2>2, FromFunction
<1>6. ASSUME NEW i \in 1..n, NEW k \in Places PROVE BackBit(t, i, k) = BitOf(s[i], k)
  <2> DEFINE z == k * n + i - 1
             x == k * n + (i - 1)
             j == (z \div b) + 1
             l == z % b
  <2>1. n \in Nat \ {0} /\ i - 1 \in 0..(n - 1) /\ k \in 0..(b - 1) /\ i \in Nat /\ k \in Nat
    BY <1>1 DEF Places
  <2>2. z = x
    <3>1. k * n \in Nat
      BY <1>1, <2>1
    <3> DEFINE y == k * n
    <3> HIDE DEF y
    <3>2. y + i - 1 = y + (i - 1)
      BY <2>1, <3>1 DEF y
    <3> QED BY <3>2 DEF y
  <2>3. /\ x \in Nat /\ x \div n = k /\ x % n = i - 1
        /\ x \div b \in 0..(n - 1) /\ x % b \in 0..(b - 1)
        /\ x = (x \div b) * b + (x % b)
    <3> HIDE DEF b, n
    <3>1. b \in Nat \ {0} /\ n \in Nat \ {0} /\ k \in 0..(b - 1) /\ i - 1 \in 0..(n - 1)
      BY <1>1, <2>1
    <3> DEFINE w == i - 1
    <3>2. w \in 0..(n - 1)
      BY <3>1
    <3> HIDE DEF w
    <3>3. /\ k * n + w \in Nat /\ (k * n + w) \div n = k /\ (k * n + w) % n = w
          /\ (k * n + w) \div b \in 0..(n - 1) /\ (k * n + w) % b \in 0..(b - 1)
          /\ k * n + w = ((k * n + w) \div b) * b + ((k * n + w) % b)
      BY <3>1, <3>2, PlaceBelow, ZenonT(40)
    <3> QED BY <3>3, Zenon DEF w
  <2>4. BackBit(t, i, k) = BitOf(t[j], l)
    BY <1>5 DEF BackBit
  <2> HIDE DEF z, x
  <2>5. j \in 1..n /\ l \in Places
    BY <1>1, <2>1, <2>2, <2>3 DEF Places
  <2>6. BitOf(t[j], l) = PlaneBit(s, j, l)
    <3> HIDE DEF j, l
    <3> QED BY <1>4, <2>5, Zenon
  <2>7. (j - 1) * b + l = z
    <3>1. j - 1 = z \div b
      BY <1>1, <2>2, <2>3
    <3> HIDE DEF j
    <3> QED BY <2>2, <2>3, <3>1
  <2>8. PlaneBit(s, j, l) = BitOf(s[(((j - 1) * b + l) % n) + 1], ((j - 1) * b + l) \div n)
    BY DEF PlaneBit, n
  <2> HIDE DEF j, l
  <2>9. PlaneBit(s, j, l) = BitOf(s[(i - 1) + 1], k)
    BY <2>2, <2>3, <2>7, <2>8, Zenon
  <2>10. (i - 1) + 1 = i
    BY <2>1
  <2> QED BY <2>4, <2>6, <2>9, <2>10
<1>7. ASSUME NEW i \in 1..n PROVE Lowest(back(i), b) = s[i]
  <2>1. \A k \in Places : back(i)[k] = BitOf(s[i], k)
    BY <1>6
  <2>2. back(i) \in [Places -> 0..1]
    <3>1. \A k \in Places : BackBit(t, i, k) \in 0..1
      BY <1>1, <1>6, BitType
    <3> QED BY <3>1
  <2>3. s[i] \in Bytes
    BY <1>1
  <2> HIDE DEF back
  <2> QED BY <2>1, <2>2, <2>3, ByteOfBits
<1>8. BitPlanesBack(t) = [i \in 1..n |-> Lowest(back(i), b)]
  BY <1>5, PlanesAre, Zenon
<1>9. [i \in 1..n |-> Lowest(back(i), b)] = [i \in 1..n |-> s[i]]
  <2> HIDE DEF back
  <2> QED BY <1>7
<1>10. s = [i \in 1..n |-> s[i]]
  BY DEF n
<1> HIDE DEF back
<1> QED BY <1>5, <1>8, <1>9, <1>10, Zenon DEF t, n


----------------------------------------------------------------------------
(* Steps and plans.                                                        *)

DeltaOps == {"delta", "prevDelta", "up"}
XorOps == {"xor", "prevXor"}
RowOps == {"rowDelta", "rowXor"}

\* What a step needs of its parameters, for so many bytes.
Fitting(step, len) ==
    /\ step.a \in Nat /\ step.b \in Nat
    /\ step.op \in DeltaOps \cup XorOps \cup RowOps \cup {"planes", "split", "gather"}
    /\ step.op \in DeltaOps \cup XorOps => step.a >= 1
    /\ step.op \in RowOps => step.b >= 1 /\ step.b <= step.a
    /\ step.op = "split" => step.a >= 2 /\ step.b \in 1..(step.a - 1)
    /\ step.op = "gather" => step.a \in 1..len

LEMMA OpUndone ==
    ASSUME NEW s \in Seq(Bytes), NEW step, Fitting(step, Len(s))
    PROVE  /\ Forward(step, s) \in Seq(Bytes) /\ Len(Forward(step, s)) = Len(s)
           /\ Back(step, Forward(step, s)) = s
<1> DEFINE a == step.a
           b == step.b
           t == Forward(step, s)
<1>1. a \in Nat /\ b \in Nat
  BY DEF Fitting
<1>2. CASE step.op \in DeltaOps
  <2>1. a \in Nat \ {0}
    BY <1>1, <1>2 DEF Fitting
  <2>2. t = Delta(s, a) /\ Back(step, t) = Undelta(t, a)
    BY <1>2 DEF Forward, Back, DeltaOps
  <2> QED BY <2>1, <2>2, DeltaBack
<1>3. CASE step.op \in XorOps
  <2>1. a \in Nat \ {0}
    BY <1>1, <1>3 DEF Fitting
  <2>2. t = Xored(s, a) /\ Back(step, t) = Unxored(t, a)
    BY <1>3 DEF Forward, Back, XorOps
  <2> QED BY <2>1, <2>2, XoredBack
<1>4. CASE step.op = "planes"
  <2>1. t = BitPlanes(s) /\ Back(step, t) = BitPlanesBack(t)
    BY <1>4 DEF Forward, Back
  <2> QED BY <2>1, PlanesUndone
<1>5. CASE step.op = "split"
  <2>1. a \in Nat /\ a >= 2 /\ b \in 1..(a - 1)
    BY <1>1, <1>5 DEF Fitting
  <2>2. t = HeadTail(s, a, b) /\ Back(step, t) = HeadTailBack(t, a, b)
    BY <1>5 DEF Forward, Back
  <2> HIDE DEF a, b
  <2>3. t \in Seq(Bytes) /\ Len(t) = Len(s)
    <3>1. HeadTail(s, a, b) \in Seq(Bytes) /\ Len(HeadTail(s, a, b)) = Len(s)
      BY <2>1, HeadTailLies, Zenon
    <3> QED BY <2>2, <3>1, Zenon
  <2>4. Back(step, t) = s
    BY <2>1, <2>2, HeadTailUndone
  <2> QED BY <2>3, <2>4
<1>6. CASE step.op = "gather"
  <2>1. a \in 1..Len(s)
    BY <1>6 DEF Fitting
  <2>2. t = Gather(s, a) /\ Back(step, t) = GatherBack(t, a)
    BY <1>6 DEF Forward, Back
  <2> QED BY <2>1, <2>2, GatherUndone
<1>7. CASE step.op = "rowDelta"
  <2>1. a \in Nat /\ b \in Nat \ {0} /\ b <= a
    <3>1. step.op \in RowOps
      BY <1>7 DEF RowOps
    <3>2. b >= 1 /\ b <= a
      BY <3>1 DEF Fitting
    <3> QED BY <1>1, <3>2
  <2>2. t = RowDelta(s, a, b) /\ Back(step, t) = RowUndelta(t, a, b)
    BY <1>7 DEF Forward, Back
  <2> QED BY <2>1, <2>2, RowDeltaBack
<1>8. CASE step.op = "rowXor"
  <2>1. a \in Nat /\ b \in Nat \ {0} /\ b <= a
    <3>1. step.op \in RowOps
      BY <1>8 DEF RowOps
    <3>2. b >= 1 /\ b <= a
      BY <3>1 DEF Fitting
    <3> QED BY <1>1, <3>2
  <2>2. t = RowXored(s, a, b) /\ Back(step, t) = RowUnxored(t, a, b)
    BY <1>8 DEF Forward, Back
  <2> QED BY <2>1, <2>2, RowXoredBack
<1> QED BY <1>2, <1>3, <1>4, <1>5, <1>6, <1>7, <1>8 DEF Fitting, RowOps

\* The bytes in front of the tail are some of the bytes.
LEMMA HeadsFit ==
    ASSUME NEW n \in Nat, NEW p \in Nat, p >= 2
    PROVE  HeadBytes(n, p, 1) \in 0..n /\ TailLen(n, p) = n - HeadBytes(n, p, 1)
<1> DEFINE q == n \div p
           r == n % p
           m == Min({1, r})
<1>1. q \in Nat /\ r \in 0..(p - 1) /\ n = q * p + r
  <2>1. p \in Nat \ {0}
    OBVIOUS
  <2> QED BY <2>1, DivType, Zenon
<1>2. HeadBytes(n, p, 1) = q * 1 + m
  BY DEF HeadBytes
<1> HIDE DEF q, r
<1>3. m \in Nat /\ m <= r
  BY <1>1, MinOfTwo
<1> HIDE DEF m
<1>4. q <= q * p /\ q * p \in Nat
  BY <1>1, ProductOrder
<1> DEFINE y == q * p
<1>5. y \in Nat /\ q <= y /\ n = y + r
  BY <1>1, <1>4
<1> HIDE DEF y
<1>6. q * 1 + m \in 0..n
  BY <1>1, <1>3, <1>5
<1> QED BY <1>2, <1>6 DEF TailLen

\* The part of the bytes that a step works on.
PartFrom(step, period, n) == IF step.tail THEN HeadBytes(n, period, 1) ELSE 0
PartOf(step, period, n) == n - PartFrom(step, period, n)

LEMMA StepUndone ==
    ASSUME NEW s \in Seq(Bytes), NEW step, NEW period, step.tail => period \in Nat /\ period >= 2,
           Fitting(step, PartOf(step, period, Len(s)))
    PROVE  LET t == InPart(Forward, step, period, s)
           IN t \in Seq(Bytes) /\ Len(t) = Len(s) /\ InPart(Back, step, period, t) = s
<1> DEFINE n == Len(s)
           h == PartFrom(step, period, n)
           front == SubSeq(s, 1, h)
           rest == SubSeq(s, h + 1, n)
           made == Forward(step, rest)
           t == InPart(Forward, step, period, s)
<1>1. n \in Nat /\ h \in 0..n
  <2>1. n \in Nat
    OBVIOUS
  <2> HIDE DEF n
  <2>2. CASE step.tail
    <3>1. period \in Nat /\ period >= 2 /\ h = HeadBytes(n, period, 1)
      BY <2>2 DEF PartFrom
    <3> HIDE DEF h
    <3> QED BY <2>1, <3>1, HeadsFit
  <2>3. CASE ~step.tail
    BY <2>1, <2>3 DEF PartFrom
  <2> QED BY <2>1, <2>2, <2>3
<1>2. t = front \o made
  BY Zenon DEF InPart, PartFrom
<1>3. front \in Seq(Bytes) /\ Len(front) = h /\ \A i \in 1..h : front[i] = s[i]
  <2> HIDE DEF h
  <2> QED BY <1>1
<1>4. rest \in Seq(Bytes) /\ Len(rest) = n - h /\ \A i \in 1..(n - h) : rest[i] = s[h + i]
  <2> HIDE DEF h
  <2> QED BY <1>1
<1>5. PartOf(step, period, n) = n - h
  BY DEF PartOf
<1> HIDE DEF h, front, rest
<1>6. made \in Seq(Bytes) /\ Len(made) = n - h /\ Back(step, made) = rest
  BY <1>4, <1>5, OpUndone DEF n
<1> HIDE DEF made
<1>7. t \in Seq(Bytes) /\ Len(t) = n
  <2> HIDE DEF t
  <2> QED BY <1>1, <1>2, <1>3, <1>6, TwoParts
<1>8. InPart(Back, step, period, t) = SubSeq(t, 1, h) \o Back(step, SubSeq(t, h + 1, n))
  <2> HIDE DEF t, n
  <2> QED BY <1>7, Zenon DEF InPart, PartFrom, h
<1> HIDE DEF t
<1>9. SubSeq(t, 1, h) = front
  BY <1>1, <1>2, <1>3, <1>6, <1>7 DEF n
<1>10. SubSeq(t, h + 1, n) = made
  <2>1. \A i \in 1..(n - h) : t[h + i] = made[i]
    BY <1>2, <1>3, <1>6, TwoParts
  <2>2. SubSeq(t, h + 1, n) = [i \in 1..(n - h) |-> t[h + i]]
    BY <1>1, <1>7
  <2>3. made = [i \in 1..(n - h) |-> made[i]]
    BY <1>1, <1>6
  <2> QED BY <2>1, <2>2, <2>3
<1>11. front \o rest = s
  <2> HIDE DEF h
  <2>1. n \in Nat /\ n = Len(s)
    BY DEF n
  <2> HIDE DEF n
  <2>5. /\ front \o rest \in Seq(Bytes) /\ Len(front \o rest) = Len(front) + Len(rest)
        /\ \A i \in 1..Len(front) : (front \o rest)[i] = front[i]
        /\ \A i \in 1..Len(rest) : (front \o rest)[Len(front) + i] = rest[i]
    <3>1. front \in Seq(Bytes) /\ rest \in Seq(Bytes)
      BY <1>3, <1>4
    <3> QED BY <3>1, TwoParts
  <2> DEFINE t1 == front \o rest
  <2> HIDE DEF t1
  <2>6. /\ t1 \in Seq(Bytes) /\ Len(t1) = n
        /\ \A i \in 1..h : t1[i] = s[i]
        /\ \A i \in 1..(n - h) : t1[h + i] = s[h + i]
    <3>1. /\ t1 \in Seq(Bytes) /\ Len(t1) = Len(front) + Len(rest)
          /\ \A i \in 1..Len(front) : t1[i] = front[i]
          /\ \A i \in 1..Len(rest) : t1[Len(front) + i] = rest[i]
      BY <2>5 DEF t1
    <3>2. Len(t1) = n
      BY <1>1, <1>3, <1>4, <2>1, <3>1
    <3>3. \A i \in 1..h : t1[i] = s[i]
      BY <1>3, <3>1
    <3>4. \A i \in 1..(n - h) : t1[h + i] = s[h + i]
      BY <1>3, <1>4, <3>1
    <3> QED BY <3>1, <3>2, <3>3, <3>4
  <2>2. \A i \in 1..n : t1[i] = s[i]
    <3> SUFFICES ASSUME NEW i \in 1..n PROVE t1[i] = s[i]
      OBVIOUS
    <3>1. CASE i <= h
      BY <1>1, <2>1, <2>6, <3>1
    <3>2. CASE i > h
      <4>1. i - h \in 1..(n - h) /\ h + (i - h) = i
        BY <1>1, <2>1, <3>2
      <4>2. t1[h + (i - h)] = s[h + (i - h)]
        BY <2>6, <4>1
      <4> QED BY <4>1, <4>2
    <3> QED BY <1>1, <3>1, <3>2
  <2>3. t1 = [i \in 1..n |-> t1[i]]
    BY <2>6
  <2>4. s = [i \in 1..n |-> s[i]]
    BY <2>1
  <2>7. t1 = s
    BY <2>2, <2>3, <2>4
  <2> QED BY <2>7 DEF t1
<1> QED BY <1>6, <1>7, <1>8, <1>9, <1>10, <1>11, Zenon DEF t, n

\* The steps there are.
StepsWith(p, h) ==
    {OnAll("prevDelta", 1, 0), OnAll("prevXor", 1, 0), OnAll("planes", 0, 0), OnAll("gather", p, 0),
     OnAll("split", p, h), OnAll("split", p, 1), OnAll("delta", p, 0), OnAll("xor", p, 0),
     OnTail("gather", h, 0), OnTail("prevDelta", 1, 0), OnTail("delta", h, 0), OnTail("xor", h, 0),
     OnTail("rowDelta", p - 1, h), OnTail("rowXor", p - 1, h), OnTail("up", p - 1, 0), OnTail("planes", 0, 0)}

LEMMA StepsAre ==
    ASSUME NEW plan, plan.kind \in Kinds
    PROVE  Steps(plan) \in Seq(StepsWith(plan.period, plan.head))
<1> DEFINE p == plan.period
           h == plan.head
           S == StepsWith(p, h)
<1> SUFFICES Steps(plan) \in Seq(S)
  BY DEF S
<1>1. \A x \in S : <<x>> \in Seq(S)
  <2> HIDE DEF S
  <2> QED OBVIOUS
<1>2. \A x, y \in S : <<x, y>> \in Seq(S)
  <2> HIDE DEF S
  <2> QED OBVIOUS
<1>3. \A x, y, z \in S : <<x, y, z>> \in Seq(S)
  <2> HIDE DEF S
  <2> QED OBVIOUS
<1>4. <<>> \in Seq(S)
  OBVIOUS
<1>5. /\ OnAll("prevDelta", 1, 0) \in S /\ OnAll("prevXor", 1, 0) \in S /\ OnAll("planes", 0, 0) \in S
      /\ OnAll("gather", p, 0) \in S /\ OnAll("split", p, h) \in S /\ OnAll("split", p, 1) \in S
      /\ OnAll("delta", p, 0) \in S /\ OnAll("xor", p, 0) \in S
  BY Zenon DEF StepsWith
<1>6. /\ OnTail("gather", h, 0) \in S /\ OnTail("prevDelta", 1, 0) \in S /\ OnTail("delta", h, 0) \in S
      /\ OnTail("xor", h, 0) \in S /\ OnTail("rowDelta", p - 1, h) \in S /\ OnTail("rowXor", p - 1, h) \in S
      /\ OnTail("up", p - 1, 0) \in S /\ OnTail("planes", 0, 0) \in S
  BY Zenon DEF StepsWith
<1> HIDE DEF S
<1>c0. CASE plan.kind = 0
  <2>1. Steps(plan) = <<>>
    BY <1>c0 DEF Steps
  <2> QED BY <1>4, <1>5, <1>6, <2>1, Zenon
<1>c1. CASE plan.kind = 1
  <2>1. Steps(plan) = <<OnAll("prevDelta", 1, 0)>>
    BY <1>c1 DEF Steps
  <2> QED BY <1>1, <1>5, <1>6, <2>1, Zenon
<1>c2. CASE plan.kind = 2
  <2>1. Steps(plan) = <<OnAll("prevXor", 1, 0)>>
    BY <1>c2 DEF Steps
  <2> QED BY <1>1, <1>5, <1>6, <2>1, Zenon
<1>c3. CASE plan.kind = 3
  <2>1. Steps(plan) = <<OnAll("planes", 0, 0)>>
    BY <1>c3 DEF Steps
  <2> QED BY <1>1, <1>5, <1>6, <2>1, Zenon
<1>c4. CASE plan.kind = 4
  <2>1. Steps(plan) = <<OnAll("split", p, h)>>
    BY <1>c4 DEF Steps
  <2> QED BY <1>1, <1>5, <1>6, <2>1, Zenon
<1>c5. CASE plan.kind = 5
  <2>1. Steps(plan) = <<OnAll("gather", p, 0)>>
    BY <1>c5 DEF Steps
  <2> QED BY <1>1, <1>5, <1>6, <2>1, Zenon
<1>c6. CASE plan.kind = 6
  <2>1. Steps(plan) = <<OnAll("delta", p, 0)>>
    BY <1>c6 DEF Steps
  <2> QED BY <1>1, <1>5, <1>6, <2>1, Zenon
<1>c7. CASE plan.kind = 7
  <2>1. Steps(plan) = <<OnAll("xor", p, 0)>>
    BY <1>c7 DEF Steps
  <2> QED BY <1>1, <1>5, <1>6, <2>1, Zenon
<1>c8. CASE plan.kind = 8
  <2>1. Steps(plan) = <<OnAll("gather", p, 0), OnAll("prevDelta", 1, 0)>>
    BY <1>c8 DEF Steps
  <2> QED BY <1>2, <1>5, <1>6, <2>1, Zenon
<1>c9. CASE plan.kind = 9
  <2>1. Steps(plan) = <<OnAll("gather", p, 0), OnAll("prevXor", 1, 0)>>
    BY <1>c9 DEF Steps
  <2> QED BY <1>2, <1>5, <1>6, <2>1, Zenon
<1>c10. CASE plan.kind = 10
  <2>1. Steps(plan) = <<OnAll("split", p, 1), OnTail("gather", h, 0)>>
    BY <1>c10 DEF Steps
  <2> QED BY <1>2, <1>5, <1>6, <2>1, Zenon
<1>c11. CASE plan.kind = 11
  <2>1. Steps(plan) = <<OnAll("split", p, 1), OnTail("gather", h, 0), OnTail("prevDelta", 1, 0)>>
    BY <1>c11 DEF Steps
  <2> QED BY <1>3, <1>5, <1>6, <2>1, ZenonT(40)
<1>c12. CASE plan.kind = 12
  <2>1. Steps(plan) = <<OnAll("split", p, 1), OnTail("delta", h, 0)>>
    BY <1>c12 DEF Steps
  <2> QED BY <1>2, <1>5, <1>6, <2>1, Zenon
<1>c13. CASE plan.kind = 13
  <2>1. Steps(plan) = <<OnAll("split", p, 1), OnTail("xor", h, 0)>>
    BY <1>c13 DEF Steps
  <2> QED BY <1>2, <1>5, <1>6, <2>1, Zenon
<1>c14. CASE plan.kind = 14
  <2>1. Steps(plan) = <<OnAll("split", p, h), OnAll("prevDelta", 1, 0)>>
    BY <1>c14 DEF Steps
  <2> QED BY <1>2, <1>5, <1>6, <2>1, Zenon
<1>c15. CASE plan.kind = 15
  <2>1. Steps(plan) = <<OnAll("split", p, h), OnAll("prevXor", 1, 0)>>
    BY <1>c15 DEF Steps
  <2> QED BY <1>2, <1>5, <1>6, <2>1, Zenon
<1>c16. CASE plan.kind = 16
  <2>1. Steps(plan) = <<OnAll("planes", 0, 0), OnAll("prevDelta", 1, 0)>>
    BY <1>c16 DEF Steps
  <2> QED BY <1>2, <1>5, <1>6, <2>1, Zenon
<1>c17. CASE plan.kind = 17
  <2>1. Steps(plan) = <<OnAll("planes", 0, 0), OnAll("prevXor", 1, 0)>>
    BY <1>c17 DEF Steps
  <2> QED BY <1>2, <1>5, <1>6, <2>1, Zenon
<1>c18. CASE plan.kind = 18
  <2>1. Steps(plan) = <<OnAll("split", p, 1), OnTail("rowDelta", p - 1, h)>>
    BY <1>c18 DEF Steps
  <2> QED BY <1>2, <1>5, <1>6, <2>1, Zenon
<1>c19. CASE plan.kind = 19
  <2>1. Steps(plan) = <<OnAll("split", p, 1), OnTail("rowXor", p - 1, h)>>
    BY <1>c19 DEF Steps
  <2> QED BY <1>2, <1>5, <1>6, <2>1, Zenon
<1>c20. CASE plan.kind = 20
  <2>1. Steps(plan) = <<OnAll("split", p, 1), OnTail("up", p - 1, 0)>>
    BY <1>c20 DEF Steps
  <2> QED BY <1>2, <1>5, <1>6, <2>1, Zenon
<1>c21. CASE plan.kind = 21
  <2>1. Steps(plan) = <<OnAll("split", p, 1), OnTail("planes", 0, 0)>>
    BY <1>c21 DEF Steps
  <2> QED BY <1>2, <1>5, <1>6, <2>1, Zenon
<1>c22. CASE plan.kind = 22
  <2>1. Steps(plan) = <<OnAll("split", p, 1), OnTail("planes", 0, 0), OnTail("prevDelta", 1, 0)>>
    BY <1>c22 DEF Steps
  <2> QED BY <1>3, <1>5, <1>6, <2>1, ZenonT(40)
<1>7. plan.kind \in 0..22
  BY DEF Kinds
<1> QED BY <1>c0, <1>c1, <1>c2, <1>c3, <1>c4, <1>c5, <1>c6, <1>c7, <1>c8, <1>c9, <1>c10, <1>c11,
           <1>c12, <1>c13, <1>c14, <1>c15, <1>c16, <1>c17, <1>c18, <1>c19, <1>c20, <1>c21, <1>c22, <1>7

LEMMA StepFits ==
    ASSUME NEW p \in Nat, NEW h \in Nat, NEW n \in Nat, NEW step \in StepsWith(p, h),
           step.tail => p >= 2, StepApplies(step, p, n)
    PROVE  Fitting(step, PartOf(step, p, n))
<1> DEFINE len == PartOf(step, p, n)
<1> SUFFICES Fitting(step, len)
  BY DEF len
<1>1. step.tail => len = TailLen(n, p)
  BY HeadsFit DEF PartOf, PartFrom, TailLen
<1>2. ~step.tail => len = n
  BY DEF PartOf, PartFrom
<1> HIDE DEF len
<1>s0. CASE step = OnAll("prevDelta", 1, 0)
  <2>1. step.op = "prevDelta" /\ step.a = 1 /\ step.b = 0 /\ step.tail = FALSE
    BY <1>s0 DEF OnAll
  <2>2. len = n
    BY <1>2, <2>1
  <2> QED BY <2>1 DEF Fitting, DeltaOps, XorOps, RowOps
<1>s1. CASE step = OnAll("prevXor", 1, 0)
  <2>1. step.op = "prevXor" /\ step.a = 1 /\ step.b = 0 /\ step.tail = FALSE
    BY <1>s1 DEF OnAll
  <2>2. len = n
    BY <1>2, <2>1
  <2> QED BY <2>1 DEF Fitting, DeltaOps, XorOps, RowOps
<1>s2. CASE step = OnAll("planes", 0, 0)
  <2>1. step.op = "planes" /\ step.a = 0 /\ step.b = 0 /\ step.tail = FALSE
    BY <1>s2 DEF OnAll
  <2>2. len = n
    BY <1>2, <2>1
  <2> QED BY <2>1 DEF Fitting, DeltaOps, XorOps, RowOps
<1>s3. CASE step = OnAll("gather", p, 0)
  <2>1. step.op = "gather" /\ step.a = p /\ step.b = 0 /\ step.tail = FALSE
    BY <1>s3 DEF OnAll
  <2>2. len = n
    BY <1>2, <2>1
  <2>3. 2 <= step.a /\ step.a <= len
    BY <2>1, <2>2 DEF StepApplies
  <2> QED BY <2>1, <2>2, <2>3 DEF Fitting, DeltaOps, XorOps, RowOps
<1>s4. CASE step = OnAll("split", p, h)
  <2>1. step.op = "split" /\ step.a = p /\ step.b = h /\ step.tail = FALSE
    BY <1>s4 DEF OnAll
  <2>2. len = n
    BY <1>2, <2>1
  <2>3. step.a >= 2 /\ 0 < step.b /\ step.b < step.a
    BY <2>1, <2>2 DEF StepApplies
  <2> QED BY <2>1, <2>2, <2>3 DEF Fitting, DeltaOps, XorOps, RowOps
<1>s5. CASE step = OnAll("split", p, 1)
  <2>1. step.op = "split" /\ step.a = p /\ step.b = 1 /\ step.tail = FALSE
    BY <1>s5 DEF OnAll
  <2>2. len = n
    BY <1>2, <2>1
  <2>3. step.a >= 2 /\ 0 < step.b /\ step.b < step.a
    BY <2>1, <2>2 DEF StepApplies
  <2> QED BY <2>1, <2>2, <2>3 DEF Fitting, DeltaOps, XorOps, RowOps
<1>s6. CASE step = OnAll("delta", p, 0)
  <2>1. step.op = "delta" /\ step.a = p /\ step.b = 0 /\ step.tail = FALSE
    BY <1>s6 DEF OnAll
  <2>2. len = n
    BY <1>2, <2>1
  <2>3. 1 <= step.a
    BY <2>1, <2>2 DEF StepApplies
  <2> QED BY <2>1, <2>2, <2>3 DEF Fitting, DeltaOps, XorOps, RowOps
<1>s7. CASE step = OnAll("xor", p, 0)
  <2>1. step.op = "xor" /\ step.a = p /\ step.b = 0 /\ step.tail = FALSE
    BY <1>s7 DEF OnAll
  <2>2. len = n
    BY <1>2, <2>1
  <2>3. 1 <= step.a
    BY <2>1, <2>2 DEF StepApplies
  <2> QED BY <2>1, <2>2, <2>3 DEF Fitting, DeltaOps, XorOps, RowOps
<1>s8. CASE step = OnTail("gather", h, 0)
  <2>1. step.op = "gather" /\ step.a = h /\ step.b = 0 /\ step.tail = TRUE
    BY <1>s8 DEF OnTail
  <2>2. len = TailLen(n, p)
    BY <1>1, <2>1
  <2>3. 2 <= step.a /\ step.a <= len
    BY <2>1, <2>2 DEF StepApplies
  <2> QED BY <2>1, <2>2, <2>3 DEF Fitting, DeltaOps, XorOps, RowOps
<1>s9. CASE step = OnTail("prevDelta", 1, 0)
  <2>1. step.op = "prevDelta" /\ step.a = 1 /\ step.b = 0 /\ step.tail = TRUE
    BY <1>s9 DEF OnTail
  <2>2. len = TailLen(n, p)
    BY <1>1, <2>1
  <2> QED BY <2>1 DEF Fitting, DeltaOps, XorOps, RowOps
<1>s10. CASE step = OnTail("delta", h, 0)
  <2>1. step.op = "delta" /\ step.a = h /\ step.b = 0 /\ step.tail = TRUE
    BY <1>s10 DEF OnTail
  <2>2. len = TailLen(n, p)
    BY <1>1, <2>1
  <2>3. 1 <= step.a
    BY <2>1, <2>2 DEF StepApplies
  <2> QED BY <2>1, <2>2, <2>3 DEF Fitting, DeltaOps, XorOps, RowOps
<1>s11. CASE step = OnTail("xor", h, 0)
  <2>1. step.op = "xor" /\ step.a = h /\ step.b = 0 /\ step.tail = TRUE
    BY <1>s11 DEF OnTail
  <2>2. len = TailLen(n, p)
    BY <1>1, <2>1
  <2>3. 1 <= step.a
    BY <2>1, <2>2 DEF StepApplies
  <2> QED BY <2>1, <2>2, <2>3 DEF Fitting, DeltaOps, XorOps, RowOps
<1>s12. CASE step = OnTail("rowDelta", p - 1, h)
  <2>1. step.op = "rowDelta" /\ step.a = p - 1 /\ step.b = h /\ step.tail = TRUE
    BY <1>s12 DEF OnTail
  <2>2. len = TailLen(n, p)
    BY <1>1, <2>1
  <2>3. 1 <= step.b /\ step.b <= step.a
    BY <2>1, <2>2 DEF StepApplies
  <2> QED BY <2>1, <2>2, <2>3 DEF Fitting, DeltaOps, XorOps, RowOps
<1>s13. CASE step = OnTail("rowXor", p - 1, h)
  <2>1. step.op = "rowXor" /\ step.a = p - 1 /\ step.b = h /\ step.tail = TRUE
    BY <1>s13 DEF OnTail
  <2>2. len = TailLen(n, p)
    BY <1>1, <2>1
  <2>3. 1 <= step.b /\ step.b <= step.a
    BY <2>1, <2>2 DEF StepApplies
  <2> QED BY <2>1, <2>2, <2>3 DEF Fitting, DeltaOps, XorOps, RowOps
<1>s14. CASE step = OnTail("up", p - 1, 0)
  <2>1. step.op = "up" /\ step.a = p - 1 /\ step.b = 0 /\ step.tail = TRUE
    BY <1>s14 DEF OnTail
  <2>2. len = TailLen(n, p)
    BY <1>1, <2>1
  <2> QED BY <2>1 DEF Fitting, DeltaOps, XorOps, RowOps
<1>s15. CASE step = OnTail("planes", 0, 0)
  <2>1. step.op = "planes" /\ step.a = 0 /\ step.b = 0 /\ step.tail = TRUE
    BY <1>s15 DEF OnTail
  <2>2. len = TailLen(n, p)
    BY <1>1, <2>1
  <2> QED BY <2>1 DEF Fitting, DeltaOps, XorOps, RowOps
<1> QED BY <1>s0, <1>s1, <1>s2, <1>s3, <1>s4, <1>s5, <1>s6, <1>s7, <1>s8, <1>s9,
           <1>s10, <1>s11, <1>s12, <1>s13, <1>s14, <1>s15 DEF StepsWith

\* What a step of a plan makes of some bytes.
LEMMA PlanStep ==
    ASSUME NEW plan \in PlanType, NEW s \in Seq(Bytes), Applies(plan, Len(s)), NEW i \in 1..Len(Steps(plan))
    PROVE  LET t == InPart(Forward, Steps(plan)[i], plan.period, s)
           IN t \in Seq(Bytes) /\ Len(t) = Len(s) /\ InPart(Back, Steps(plan)[i], plan.period, t) = s
<1> DEFINE p == plan.period
           h == plan.head
           step == Steps(plan)[i]
           n == Len(s)
<1>1. p \in Nat /\ h \in Nat /\ plan.kind \in Kinds /\ n \in Nat
  BY DEF PlanType, U32
<1>2. Steps(plan) \in Seq(StepsWith(p, h))
  BY <1>1, StepsAre
<1>3. step \in StepsWith(p, h) /\ i \in DOMAIN Steps(plan)
  <2> HIDE DEF p, h
  <2> QED BY <1>2
<1>4. (step.tail => p >= 2) /\ StepApplies(step, p, n)
  BY <1>3 DEF Applies
<1> HIDE DEF p, h, step, n
<1>5. Fitting(step, PartOf(step, p, n))
  BY <1>1, <1>3, <1>4, StepFits
<1>6. /\ InPart(Forward, step, p, s) \in Seq(Bytes) /\ Len(InPart(Forward, step, p, s)) = n
      /\ InPart(Back, step, p, InPart(Forward, step, p, s)) = s
  <2>1. step.tail => p \in Nat /\ p >= 2
    BY <1>1, <1>4
  <2> QED BY <1>5, <2>1, StepUndone, Zenon DEF n
<1> QED BY <1>6, Zenon DEF step, p, n

\* The bytes after each step.
StepsTaken(plan, s, f) ==
    /\ f[0] = s /\ \A i \in 0..Len(Steps(plan)) : f[i] \in Seq(Bytes) /\ Len(f[i]) = Len(s)
    /\ \A i \in 1..Len(Steps(plan)) : /\ f[i] = InPart(Forward, Steps(plan)[i], plan.period, f[i - 1])
                                      /\ InPart(Back, Steps(plan)[i], plan.period, f[i]) = f[i - 1]

LEMMA StepsCanBeTaken ==
    ASSUME NEW plan \in PlanType, NEW s \in Seq(Bytes), Applies(plan, Len(s))
    PROVE  \E f : StepsTaken(plan, s, f)
<1> DEFINE m == Len(Steps(plan))
           n == Len(s)
           V == {v \in Seq(Bytes) : Len(v) = n}
           Made(i, v) == InPart(Forward, Steps(plan)[i], plan.period, v)
           next == [i \in Nat |-> [v \in V |-> IF i \in 1..m THEN Made(i, v) ELSE v]]
<1>1. ASSUME NEW i \in 1..m, NEW v \in V
      PROVE  Made(i, v) \in V /\ InPart(Back, Steps(plan)[i], plan.period, Made(i, v)) = v
  BY PlanStep, Zenon
<1>2. m \in Nat
  <2>1. plan.kind \in Kinds
    BY DEF PlanType
  <2>2. Steps(plan) \in Seq(StepsWith(plan.period, plan.head))
    BY <2>1, StepsAre
  <2> QED BY <2>2
<1>3. s \in V
  OBVIOUS
<1> HIDE DEF m, V, Made
<1>4. next \in [Nat -> [V -> V]]
  BY <1>1
<1> HIDE DEF next
<1>5. PICK f : Recursive(V, s, next, f)
  BY <1>3, <1>4, RecursionExists, Zenon
<1>6. \A i \in Nat : f[i] \in V
  BY <1>5 DEF Recursive
<1>7. ASSUME NEW i \in 1..m PROVE f[i] = Made(i, f[i - 1])
  <2>1. i - 1 \in Nat /\ (i - 1) + 1 = i /\ i \in Nat
    BY <1>2
  <2>2. f[(i - 1) + 1] = next[(i - 1) + 1][f[i - 1]]
    BY <1>5, <2>1, Zenon DEF Recursive
  <2>3. f[i - 1] \in V
    BY <1>6, <2>1
  <2>4. next[i][f[i - 1]] = Made(i, f[i - 1])
    BY <2>1, <2>3 DEF next
  <2> QED BY <2>1, <2>2, <2>4
<1>8. \A i \in 1..m : i - 1 \in Nat /\ i \in Nat
  BY <1>2
<1>9. ASSUME NEW i \in 1..m
      PROVE  f[i] = Made(i, f[i - 1]) /\ InPart(Back, Steps(plan)[i], plan.period, f[i]) = f[i - 1]
  BY <1>1, <1>6, <1>7, <1>8
<1>10. \A i \in 0..m : f[i] \in Seq(Bytes) /\ Len(f[i]) = n
  BY <1>2, <1>6 DEF V
<1>11. f[0] = s
  BY <1>5 DEF Recursive
<1>12. StepsTaken(plan, s, f)
  BY <1>9, <1>10, <1>11, Zenon DEF StepsTaken, Made, m
<1> QED BY <1>12

(***************************************************************************)
(* Every plan that applies to some bytes is undone: whatever its kind, its *)
(* period and its head, and however long the bytes are,                    *)
(* invert_transform_plan gives back what apply_transform_plan was given,   *)
(* and neither changes their number.                                       *)
(***************************************************************************)
THEOREM PlansAreUndone ==
    ASSUME NEW plan \in PlanType, NEW s \in Seq(Bytes), Applies(plan, Len(s))
    PROVE  /\ Transformed(plan, s) \in Seq(Bytes) /\ Len(Transformed(plan, s)) = Len(s)
           /\ Inverted(plan, Transformed(plan, s)) = s
<1> DEFINE m == Len(Steps(plan))
           t == Transformed(plan, s)
           Body(g, i) == IF i = 0 THEN s ELSE InPart(Forward, Steps(plan)[i], plan.period, g[i - 1])
           Made(g, i) == IF i > m THEN t ELSE InPart(Back, Steps(plan)[i], plan.period, g[i + 1])
           after == CHOOSE g : g = [i \in 0..m |-> Body(g, i)]
           before == CHOOSE g : g = [i \in 1..(m + 1) |-> Made(g, i)]
<1>1. m \in Nat
  <2>1. plan.kind \in Kinds
    BY DEF PlanType
  <2>2. Steps(plan) \in Seq(StepsWith(plan.period, plan.head))
    BY <2>1, StepsAre
  <2> QED BY <2>2
<1>2. PICK f : StepsTaken(plan, s, f)
  BY StepsCanBeTaken
<1>3. Transformed(plan, s) = after[m]
  BY Zenon DEF Transformed
<1>4. Inverted(plan, t) = before[1]
  <2> HIDE DEF t
  <2> QED BY Zenon DEF Inverted
<1>5. /\ f[0] = s /\ \A i \in 0..m : f[i] \in Seq(Bytes) /\ Len(f[i]) = Len(s)
      /\ \A i \in 1..m : /\ f[i] = InPart(Forward, Steps(plan)[i], plan.period, f[i - 1])
                         /\ InPart(Back, Steps(plan)[i], plan.period, f[i]) = f[i - 1]
  BY <1>2, Zenon DEF StepsTaken
<1> HIDE DEF m, t
<1>6. after = [i \in 0..m |-> Body(after, i)]
  <2> DEFINE h == [i \in 0..m |-> f[i]]
  <2>1. ASSUME NEW i \in 0..m PROVE h[i] = Body(h, i)
    <3>1. CASE i = 0
      BY <1>5, <3>1
    <3>2. CASE i # 0
      <4>1. i \in 1..m /\ i - 1 \in 0..m
        BY <1>1, <3>2
      <4>2. h[i] = f[i] /\ h[i - 1] = f[i - 1]
        BY <4>1
      <4> HIDE DEF h
      <4> QED BY <1>5, <3>2, <4>1, <4>2, Zenon
    <3> QED BY <3>1, <3>2
  <2>2. h = [i \in 0..m |-> Body(h, i)]
    <3> HIDE DEF Body
    <3> QED BY <2>1
  <2> HIDE DEF h, Body
  <2> QED BY <2>2, Zenon
<1> HIDE DEF after
<1>7. \A i \in 0..m : after[i] = Body(after, i)
  <2> HIDE DEF Body
  <2> QED BY <1>6, Zenon
<1>8. after[m] = f[m]
  <2> DEFINE Q == {k \in Nat : k <= m => after[k] = f[k]}
  <2>1. 0 \in Q
    BY <1>1, <1>5, <1>7
  <2>2. ASSUME NEW k \in Q PROVE k + 1 \in Q
    <3>1. k \in Nat
      OBVIOUS
    <3> SUFFICES ASSUME k + 1 <= m PROVE after[k + 1] = f[k + 1]
      BY <3>1
    <3> DEFINE j == k + 1
    <3>2. j \in 0..m /\ j \in 1..m /\ j # 0 /\ j - 1 = k /\ k <= m
      BY <1>1, <3>1
    <3> HIDE DEF j
    <3>3. after[j - 1] = f[j - 1]
      BY <3>2
    <3>4. after[j] = f[j]
      BY <1>5, <1>7, <3>2, <3>3, Zenon
    <3> QED BY <3>4 DEF j
  <2>3. Q \in SUBSET Nat
    OBVIOUS
  <2> HIDE DEF Q
  <2>4. m \in Q
    BY <1>1, <2>1, <2>2, <2>3, NatSetInduction
  <2> QED BY <1>1, <2>4 DEF Q
<1>9. t = f[m]
  BY <1>3, <1>8 DEF t
<1>10. before = [i \in 1..(m + 1) |-> Made(before, i)]
  <2> DEFINE h == [i \in 1..(m + 1) |-> f[i - 1]]
  <2>1. ASSUME NEW i \in 1..(m + 1) PROVE h[i] = Made(h, i)
    <3>1. CASE i > m
      <4>1. i - 1 = m
        BY <1>1, <3>1
      <4>2. h[i] = f[m]
        BY <4>1
      <4> HIDE DEF h
      <4> QED BY <1>9, <3>1, <4>2
    <3>2. CASE ~(i > m)
      <4>1. i \in 1..m /\ i + 1 \in 1..(m + 1) /\ (i + 1) - 1 = i
        BY <1>1, <3>2
      <4>2. h[i] = f[i - 1] /\ h[i + 1] = f[i]
        BY <4>1
      <4> HIDE DEF h
      <4> QED BY <1>5, <3>2, <4>1, <4>2, Zenon
    <3> QED BY <3>1, <3>2
  <2>2. h = [i \in 1..(m + 1) |-> Made(h, i)]
    <3> HIDE DEF Made
    <3> QED BY <2>1
  <2> HIDE DEF h, Made
  <2> QED BY <2>2, Zenon
<1> HIDE DEF before
<1>11. \A i \in 1..(m + 1) : before[i] = Made(before, i)
  <2> HIDE DEF Made
  <2> QED BY <1>10, Zenon
<1>12. before[1] = f[0]
  <2> DEFINE Q == {k \in Nat : k <= m => before[m + 1 - k] = f[m - k]}
  <2>1. 0 \in Q
    <3>1. m + 1 \in 1..(m + 1) /\ m + 1 > m /\ m + 1 - 0 = m + 1 /\ m - 0 = m
      BY <1>1
    <3>2. before[m + 1] = f[m]
      BY <1>9, <1>11, <3>1, Zenon
    <3> QED BY <3>1, <3>2
  <2>2. ASSUME NEW k \in Q PROVE k + 1 \in Q
    <3>1. k \in Nat
      OBVIOUS
    <3> SUFFICES ASSUME k + 1 <= m PROVE before[m + 1 - (k + 1)] = f[m - (k + 1)]
      BY <3>1
    <3> DEFINE j == m - k
    <3>2. /\ j \in 1..m /\ j \in 1..(m + 1) /\ ~(j > m) /\ j + 1 = m + 1 - k /\ k <= m
          /\ m + 1 - (k + 1) = j /\ m - (k + 1) = j - 1
      BY <1>1, <3>1
    <3>3. before[m + 1 - k] = f[m - k]
      BY <3>2
    <3>4. before[j + 1] = f[j]
      BY <3>2, <3>3, Zenon
    <3> HIDE DEF j
    <3>5. before[j] = f[j - 1]
      BY <1>5, <1>11, <3>2, <3>4, Zenon
    <3> QED BY <3>2, <3>5
  <2>3. Q \in SUBSET Nat
    OBVIOUS
  <2> HIDE DEF Q
  <2>4. m \in Q
    BY <1>1, <2>1, <2>2, <2>3, NatSetInduction
  <2>5. m + 1 - m = 1 /\ m - m = 0 /\ m <= m
    BY <1>1
  <2> QED BY <2>4, <2>5 DEF Q
<1>13. m \in 0..m
  BY <1>1
<1> HIDE DEF Body, Made
<1> QED BY <1>4, <1>5, <1>9, <1>12, <1>13, Zenon DEF t

----------------------------------------------------------------------------
(* What a codec packed is unpacked, and a transform of it undone.          *)

LEMMA SinglesAre ==
    ASSUME NEW G, NEW s \in Seq(G)
    PROVE  FlattenSeq([i \in 1..Len(s) |-> <<s[i]>>]) = s
<1> DEFINE n == Len(s)
           sq == [i \in 1..n |-> <<s[i]>>]
           t == FlattenSeq(sq)
<1>1. n \in Nat /\ \A i \in 1..n : s[i] \in G
  OBVIOUS
<1>2. sq \in [1..n -> Seq(G)] /\ \A i \in 1..n : Len(sq[i]) = 1 /\ sq[i][1] = s[i]
  <2>1. \A x \in G : <<x>> \in Seq(G)
    OBVIOUS
  <2> QED BY <1>1, <2>1
<1> HIDE DEF n, sq
<1>3. PICK ends : Placed(n, sq, t, ends)
  BY <1>1, <1>2, FlattenPlaces
<1>4. t \in Seq(G)
  BY <1>1, <1>2, FlattenPlaces
<1> HIDE DEF t
<1>5. /\ ends \in [0..n -> Nat] /\ ends[0] = 0 /\ \A i \in 1..n : ends[i] = ends[i - 1] + 1
      /\ Len(t) = ends[n] /\ \A i \in 1..n : t[ends[i - 1] + 1] = s[i]
  <2>1. \A i \in 1..n : 1 \in 1..Len(sq[i])
    BY <1>2
  <2> QED BY <1>2, <1>3, <2>1, Zenon DEF Placed
<1> DEFINE Q == {k \in Nat : k <= n => ends[k] = k}
<1>6. 0 \in Q
  BY <1>5
<1>7. ASSUME NEW k \in Q PROVE k + 1 \in Q
  <2>1. k \in Nat /\ (k + 1 <= n => k <= n /\ k + 1 \in 1..n /\ (k + 1) - 1 = k)
    BY <1>1
  <2> QED BY <1>5, <2>1
<1>8. Q \in SUBSET Nat
  OBVIOUS
<1>9. \A k \in Nat : k \in Q
  <2> HIDE DEF Q
  <2> QED BY <1>6, <1>7, <1>8, NatSetInduction
<1>10. \A k \in 0..n : ends[k] = k
  BY <1>1, <1>9
<1> HIDE DEF Q
<1>11. Len(t) = n
  BY <1>1, <1>5, <1>10
<1>12. \A i \in 1..n : t[i] = s[i]
  <2> SUFFICES ASSUME NEW i \in 1..n PROVE t[i] = s[i]
    OBVIOUS
  <2>1. i - 1 \in 0..n /\ (i - 1) + 1 = i
    BY <1>1
  <2> QED BY <1>5, <1>10, <2>1
<1>13. t = [i \in 1..n |-> t[i]] /\ s = [i \in 1..n |-> s[i]]
  BY <1>4, <1>11 DEF n
<1>14. [i \in 1..n |-> t[i]] = [i \in 1..n |-> s[i]]
  BY <1>12
<1> QED BY <1>13, <1>14 DEF t, sq, n

LEMMA FlattenOne ==
    ASSUME NEW s, NEW sq, DOMAIN sq = 1..1, Len(sq) = 1, sq[1] = s
    PROVE  FlattenSeq(sq) = s
<1> DEFINE g == [i \in 1..1 |-> s]
           m == 1
<1>1. g[1] = s /\ \A i \in 1..1 : i = 1
  OBVIOUS
<1> HIDE DEF g
<1>2. \A i \in 1..1 : g[i] = IF i = 1 THEN sq[i] ELSE g[i - 1] \o sq[i]
  <2> SUFFICES ASSUME NEW i \in 1..1 PROVE g[i] = IF i = 1 THEN sq[i] ELSE g[i - 1] \o sq[i]
    OBVIOUS
  <2>1. i = 1 /\ g[1] = sq[1]
    BY <1>1
  <2> QED BY <2>1, Zenon
<1>3. m \in Nat /\ m >= 1 /\ DOMAIN sq = 1..m /\ Len(sq) = m
  OBVIOUS
<1>4. \A i \in 1..m : g[i] = IF i = 1 THEN sq[i] ELSE g[i - 1] \o sq[i]
  BY <1>2
<1> HIDE DEF m
<1>5. FlattenSeq(sq) = g[m]
  BY <1>3, <1>4, FlattenIsLast
<1> QED BY <1>1, <1>5 DEF m

LEMMA UnpackedIs ==
    ASSUME NEW G, NEW s \in Seq(G), NEW codec \in 0..3
    PROVE  Unpacked(Packed(codec, s), codec, Len(s)) = s
<1> DEFINE pieces == Packed(codec, s)
           parts == [i \in DOMAIN pieces |-> pieces[i].data]
           data == FlattenSeq(parts)
<1>1. CASE codec = Raw
  <2>1. pieces = [i \in 1..Len(s) |-> [family |-> Raw, data |-> <<s[i]>>]]
    BY <1>1 DEF Packed
  <2>2. parts = [i \in 1..Len(s) |-> <<s[i]>>]
    BY <2>1
  <2>3. data = s
    BY <2>2, SinglesAre, Zenon
  <2>4. \A i \in DOMAIN pieces : pieces[i].family = Family(codec)
    BY <1>1, <2>1 DEF Family, Raw
  <2> HIDE DEF parts, pieces
  <2>5. Unpacked(pieces, codec, Len(s)) = data
    BY <1>1, <2>3, <2>4, Zenon DEF Unpacked, parts
  <2> QED BY <2>3, <2>5 DEF pieces
<1>2. CASE codec # Raw
  <2>1. pieces = <<[family |-> Family(codec), data |-> s]>>
    BY <1>2 DEF Packed
  <2>2. parts = <<s>>
    BY <2>1
  <2>3. data = s
    <3>1. DOMAIN parts = 1..1 /\ Len(parts) = 1 /\ parts[1] = s
      BY <2>2
    <3> HIDE DEF parts
    <3> QED BY <3>1, FlattenOne, Zenon
  <2>4. Len(pieces) = 1 /\ \A i \in DOMAIN pieces : pieces[i].family = Family(codec)
    BY <2>1
  <2> HIDE DEF parts, pieces
  <2>5. Unpacked(pieces, codec, Len(s)) = data
    BY <2>3, <2>4, Zenon DEF Unpacked, parts
  <2> QED BY <2>3, <2>5 DEF pieces
<1> QED BY <1>1, <1>2

LEMMA NotError ==
    ASSUME NEW s \in Seq(Bytes)
    PROVE  s # Error
<1> SUFFICES ASSUME s = Error PROVE FALSE
  OBVIOUS
<1>1. Len(s) = 1 /\ s[1] = -1
  BY DEF Error
<1>2. s[1] \in Nat
  BY <1>1, BaseIs, SMTT(30)
<1> QED BY <1>1, <1>2

LEMMA UndoneIs ==
    ASSUME NEW plan \in PlanType, NEW s \in Seq(Bytes), Applies(plan, Len(s)), NEW codec \in 0..3
    PROVE  Undone(Unpacked(Packed(codec, Transformed(plan, s)), codec, Len(s)), plan) = s
<1> DEFINE t == Transformed(plan, s)
<1>1. t \in Seq(Bytes) /\ Len(t) = Len(s) /\ Inverted(plan, t) = s
  BY PlansAreUndone
<1> HIDE DEF t
<1>2. Unpacked(Packed(codec, t), codec, Len(s)) = t
  <2>1. Unpacked(Packed(codec, t), codec, Len(t)) = t
    BY <1>1, UnpackedIs
  <2> QED BY <1>1, <2>1
<1>3. t # Error
  BY <1>1, NotError
<1>4. Undone(t, plan) = s
  BY <1>1, <1>3 DEF Undone
<1> QED BY <1>2, <1>4 DEF t

\* Two numbers in one, the lower below m.
LEMMA TwoInOne ==
    ASSUME NEW a \in Nat, NEW b \in Nat, NEW m \in Nat, a < m
    PROVE  (a + m * b) % m = a /\ (a + m * b) \div m = b
<1> DEFINE y == b * m
           x == a + m * b
<1>1. x \in Nat /\ m \in Nat \ {0} /\ x = b * m + a /\ a \in 0..(m - 1)
  OBVIOUS
<1> HIDE DEF x
<1>2. x \div m = b /\ x % m = a
  BY <1>1, DivIs
<1> QED BY <1>2 DEF x

LEMMA TransformedReads ==
    ASSUME NEW plan \in PlanType, input \in Seq(Bytes), Applies(plan, Len(input)), NEW codec \in 0..3,
           NEW dict, dict = [codecKind |-> CodecAndKind(codec, plan.kind), period |-> plan.period,
                             head |-> plan.head, plainLen |-> Size],
           NEW payload, payload = Packed(codec, Transformed(plan, input))
    PROVE  DecodeTransformed(dict, payload) = input
<1> DEFINE k == plan.kind
<1>1. k \in 0..22 /\ plan = Plan(k, plan.period, plan.head)
  <2>1. plan = [kind |-> plan.kind, period |-> plan.period, head |-> plan.head]
    BY DEF PlanType
  <2>2. plan.kind \in 0..22
    BY DEF PlanType, Kinds
  <2>3. plan = Plan(plan.kind, plan.period, plan.head)
    BY <2>1, Zenon DEF Plan
  <2> QED BY <2>2, <2>3
<1>2. KindIndex(k) = k /\ HasKind(k) /\ KindOf(k) = k
  <2>1. k \in 0..22
    BY <1>1, Zenon
  <2> HIDE DEF k
  <2> QED BY <2>1 DEF KindIndex, HasKind, KindOf
<1>3. dict.codecKind = codec + 4 * k /\ dict.period = plan.period /\ dict.head = plan.head /\ dict.plainLen = Size
  <2>1. /\ dict.codecKind = CodecAndKind(codec, plan.kind) /\ dict.period = plan.period
        /\ dict.head = plan.head /\ dict.plainLen = Size
    OBVIOUS
  <2>2. CodecAndKind(codec, k) = codec + 4 * KindIndex(k)
    BY DEF CodecAndKind
  <2>3. CodecAndKind(codec, k) = codec + 4 * k
    BY <1>2, <2>2
  <2> QED BY <2>1, <2>3
<1>4. dict.codecKind % 4 = codec /\ dict.codecKind \div 4 = k
  <2>1. k \in Nat
    <3>1. k \in 0..22
      BY <1>1, Zenon
    <3> HIDE DEF k
    <3> QED BY <3>1
  <2> HIDE DEF k
  <2>2. codec \in Nat /\ codec < 4 /\ 4 \in Nat
    OBVIOUS
  <2>3. (codec + 4 * k) % 4 = codec /\ (codec + 4 * k) \div 4 = k
    BY <2>1, <2>2, TwoInOne
  <2> QED BY <1>3, <2>3, Zenon
<1>5. k \in Kinds
  BY <1>1 DEF Kinds
<1> HIDE DEF k
<1>6. DecodeTransformed(dict, payload) = Undone(Unpacked(payload, codec, Size), plan)
  BY <1>1, <1>2, <1>3, <1>4, <1>5, Zenon DEF DecodeTransformed
<1> QED BY <1>6, UndoneIs DEF Size

----------------------------------------------------------------------------
(* Parts of sequences.                                                     *)

\* Some sequences and one more, at N.
Longer(G, n, sq, x, N, more) ==
    /\ n \in Nat /\ N = n + 1 /\ sq \in [1..n -> Seq(G)] /\ x \in Seq(G)
    /\ more \in [1..N -> Seq(G)] /\ more[N] = x /\ \A i \in 1..n : more[i] = sq[i]

LEMMA FlattenMore ==
    ASSUME NEW G, NEW n, NEW sq, NEW x, NEW N, NEW more, Longer(G, n, sq, x, N, more)
    PROVE  FlattenSeq(more) = FlattenSeq(sq) \o x
<1>0. /\ n \in Nat /\ N = n + 1 /\ sq \in [1..n -> Seq(G)] /\ x \in Seq(G)
      /\ more \in [1..N -> Seq(G)] /\ more[N] = x /\ \A i \in 1..n : more[i] = sq[i]
  BY DEF Longer
<1>1. N \in Nat /\ N \in 1..N /\ N - 1 = n /\ more[N] = x /\ \A i \in 1..n : more[i] = sq[i] /\ i \in 1..N
  BY <1>0
<1>2. PICK g : Chained(G, n, sq, g)
  BY <1>0, FlattenSteps, Zenon
<1>3. PICK h : Chained(G, N, more, h)
  BY <1>0, <1>1, FlattenSteps, Zenon
<1>4. /\ g[0] = h[0] /\ FlattenSeq(sq) = g[n] /\ FlattenSeq(more) = h[N]
      /\ \A i \in 1..n : g[i] = g[i - 1] \o sq[i] /\ h[i] = h[i - 1] \o sq[i]
      /\ h[N] = h[N - 1] \o x
  BY <1>1, <1>2, <1>3, Zenon DEF Chained
<1> DEFINE Q == {k \in Nat : k <= n => g[k] = h[k]}
<1>5. 0 \in Q
  BY <1>4
<1>6. ASSUME NEW k \in Q PROVE k + 1 \in Q
  <2>1. k \in Nat /\ (k + 1 <= n => k <= n /\ k + 1 \in 1..n /\ (k + 1) - 1 = k)
    BY <1>0
  <2> SUFFICES ASSUME k + 1 <= n PROVE g[k + 1] = h[k + 1]
    BY <2>1
  <2>2. g[k] = h[k]
    BY <2>1
  <2> DEFINE j == k + 1
  <2>3. j \in 1..n /\ j - 1 = k
    BY <2>1
  <2> HIDE DEF j
  <2>4. g[j] = h[j]
    BY <1>4, <2>2, <2>3, Zenon
  <2> QED BY <2>4 DEF j
<1>7. Q \in SUBSET Nat
  OBVIOUS
<1> HIDE DEF Q
<1>8. n \in Q
  BY <1>0, <1>5, <1>6, <1>7, NatSetInduction, Zenon
<1>9. g[n] = h[n]
  BY <1>0, <1>8 DEF Q
<1> QED BY <1>1, <1>4, <1>9, Zenon

LEMMA SliceIs ==
    ASSUME NEW G, NEW s \in Seq(G), NEW a \in Nat, NEW b \in Nat, a <= b, b <= Len(s)
    PROVE  /\ Slice(s, a, b) \in Seq(G) /\ Len(Slice(s, a, b)) = b - a
           /\ \A i \in 1..(b - a) : Slice(s, a, b)[i] = s[a + i]
BY DEF Slice

\* Three places of a sequence, in their order.
InTurn(G, s, a, b, c) == s \in Seq(G) /\ a \in Nat /\ b \in Nat /\ c \in Nat /\ a <= b /\ b <= c /\ c <= Len(s)

LEMMA SliceJoin ==
    ASSUME NEW G, NEW s, NEW a, NEW b, NEW c, InTurn(G, s, a, b, c)
    PROVE  Slice(s, a, c) = Slice(s, a, b) \o Slice(s, b, c)
<1> USE DEF InTurn
<1> DEFINE x == Slice(s, a, b)
           y == Slice(s, b, c)
           z == Slice(s, a, c)
           t == x \o y
<1>1. /\ x \in Seq(G) /\ Len(x) = b - a /\ \A i \in 1..(b - a) : x[i] = s[a + i]
      /\ y \in Seq(G) /\ Len(y) = c - b /\ \A i \in 1..(c - b) : y[i] = s[b + i]
  <2>1. b <= Len(s)
    OBVIOUS
  <2>2. x \in Seq(G) /\ Len(x) = b - a /\ \A i \in 1..(b - a) : x[i] = s[a + i]
    <3> HIDE DEF x
    <3> QED BY <2>1, SliceIs DEF x
  <2>3. y \in Seq(G) /\ Len(y) = c - b /\ \A i \in 1..(c - b) : y[i] = s[b + i]
    <3> HIDE DEF y
    <3> QED BY SliceIs, ZenonT(40) DEF y
  <2> QED BY <2>2, <2>3
<1>2. z \in Seq(G) /\ Len(z) = c - a /\ \A i \in 1..(c - a) : z[i] = s[a + i]
  <2>1. a <= c
    OBVIOUS
  <2> HIDE DEF z
  <2> QED BY <2>1, SliceIs, ZenonT(40) DEF z
<1> HIDE DEF x, y, z
<1>3. /\ t \in Seq(G) /\ Len(t) = Len(x) + Len(y)
      /\ \A i \in 1..Len(x) : t[i] = x[i]
      /\ \A i \in 1..Len(y) : t[Len(x) + i] = y[i]
  <2>1. x \in Seq(G) /\ y \in Seq(G)
    BY <1>1
  <2> QED BY <2>1, TwoParts
<1> HIDE DEF t
<1>4. Len(t) = c - a
  BY <1>1, <1>3
<1>5. ASSUME NEW i \in 1..(c - a) PROVE t[i] = z[i]
  <2>1. CASE i <= b - a
    BY <1>1, <1>2, <1>3, <2>1
  <2>2. CASE i > b - a
    <3> DEFINE j == i - (b - a)
    <3>1. j \in 1..(c - b) /\ (b - a) + j = i /\ b + j = a + i
      BY <2>2
    <3> HIDE DEF j
    <3>2. t[(b - a) + j] = y[j]
      BY <1>1, <1>3, <3>1
    <3>3. y[j] = s[b + j] /\ z[i] = s[a + i]
      BY <1>1, <1>2, <3>1, Zenon
    <3> QED BY <3>1, <3>2, <3>3
  <2> QED BY <2>1, <2>2
<1>6. t = [i \in 1..(c - a) |-> t[i]] /\ z = [i \in 1..(c - a) |-> z[i]]
  BY <1>2, <1>3, <1>4
<1>7. [i \in 1..(c - a) |-> t[i]] = [i \in 1..(c - a) |-> z[i]]
  BY <1>5
<1>8. t = z
  BY <1>6, <1>7, Zenon
<1> QED BY <1>8 DEF t, x, y, z

\* The digits of the number that some bytes are.
LEMMA BytesOfNumber ==
    ASSUME NEW n \in Nat, NEW d \in Seq(Bytes), Len(d) = n
    PROVE  /\ NumberOf(d, Base) \in Nat
           /\ [i \in 1..n |-> (NumberOf(d, Base) \div Pow2[ByteBits * (n - i)]) % Base] = d
<1> DEFINE digit == [i \in Nat |-> IF i \in 1..n THEN d[i] ELSE 0]
           step == [i \in Nat |-> [x \in Nat |-> Base * x + digit[i]]]
           V == Nat
           first == 0
<1>0. Base \in Nat \ {0} /\ Base \in Nat /\ \A i \in 1..n : d[i] \in Nat /\ d[i] \in 0..(Base - 1)
  <2>1. Base \in Nat \ {0}
    BY BaseIs
  <2>2. \A i \in 1..n : d[i] \in Bytes
    OBVIOUS
  <2> QED BY <2>1, <2>2 DEF Bytes
<1>1. digit \in [Nat -> Nat] /\ \A i \in 1..n : digit[i] = d[i]
  BY <1>0
<1> HIDE DEF digit
<1>2. step \in [Nat -> [V -> V]] /\ first \in V
  <2> SUFFICES ASSUME NEW i \in Nat, NEW x \in Nat PROVE Base * x + digit[i] \in Nat
    BY Zenon
  <2>1. digit[i] \in Nat /\ Base * x \in Nat
    BY <1>0, <1>1
  <2> QED BY <2>1
<1>3. \A i \in Nat, x \in Nat : step[i][x] = Base * x + digit[i]
  OBVIOUS
<1> HIDE DEF step, first, V
<1>4. PICK w : Recursive(V, first, step, w)
  BY <1>2, RecursionExists, Zenon
<1>5. w \in [Nat -> Nat] /\ w[0] = 0 /\ \A i \in Nat : w[i + 1] = step[i + 1][w[i]]
  BY <1>4, Zenon DEF Recursive, V, first
<1>6. ASSUME NEW i \in 1..n PROVE w[i] = Base * w[i - 1] + d[i]
  <2>1. i - 1 \in Nat /\ (i - 1) + 1 = i /\ i \in Nat
    OBVIOUS
  <2>2. w[i] = step[i][w[i - 1]] /\ w[i - 1] \in Nat
    BY <1>5, <2>1, Zenon
  <2>3. step[i][w[i - 1]] = Base * w[i - 1] + digit[i]
    BY <1>3, <2>1, <2>2
  <2>4. digit[i] = d[i]
    BY <1>1
  <2> QED BY <2>2, <2>3, <2>4
<1> DEFINE v == NumberOf(d, Base)
<1>7. v = w[n] /\ v \in Nat
  <2>1. w[0] = 0 /\ w[n] \in Nat
    BY <1>5
  <2>2. v = w[n]
    BY <1>6, <2>1, NumberOfIs
  <2> QED BY <2>1, <2>2
<1> HIDE DEF v
<1>8. ASSUME NEW i \in 1..n PROVE w[i] \div Base = w[i - 1] /\ w[i] % Base = d[i]
  <2>1. w[i - 1] \in Nat /\ w[i] = w[i - 1] * Base + d[i] /\ w[i] \in Nat
    <3>1. i - 1 \in Nat /\ i \in Nat
      OBVIOUS
    <3>2. w[i - 1] \in Nat /\ w[i] \in Nat
      BY <1>5, <3>1, Zenon
    <3>3. Base * w[i - 1] = w[i - 1] * Base
      BY <1>0, <3>2
    <3> QED BY <1>6, <3>2, <3>3
  <2> QED BY <1>0, <2>1, DivIs, Zenon
<1>9. ByteBits \in Nat /\ Base = Pow2[ByteBits]
  BY ByteAssumption DEF Base
<1> DEFINE P(k) == Pow2[ByteBits * k]
<1>10. ASSUME NEW k \in Nat PROVE ByteBits * k \in Nat /\ P(k) \in Nat \ {0} /\ P(k + 1) = P(k) * Base
  <2>1. ByteBits * k \in Nat /\ ByteBits * (k + 1) = ByteBits * k + ByteBits
    BY <1>9
  <2> DEFINE m == ByteBits * k
  <2>2. m \in Nat /\ ByteBits * (k + 1) = m + ByteBits
    BY <2>1
  <2> HIDE DEF m
  <2>3. Pow2[m + ByteBits] = Pow2[m] * Pow2[ByteBits]
    BY <1>9, <2>2, PowSum
  <2>4. Pow2[m] \in Nat \ {0}
    BY <2>2, PowType
  <2> QED BY <1>9, <2>1, <2>2, <2>3, <2>4, Zenon DEF m
<1> DEFINE Q == {k \in Nat : k <= n => v \div P(k) = w[n - k]}
<1>11. 0 \in Q
  <2>1. ByteBits * 0 = 0
    BY <1>9
  <2>2. P(0) = 1
    BY <2>1, PowValues
  <2>3. v \div 1 = v
    BY <1>7
  <2> QED BY <1>7, <2>2, <2>3
<1>12. ASSUME NEW k \in Q PROVE k + 1 \in Q
  <2>1. k \in Nat
    OBVIOUS
  <2> SUFFICES ASSUME k + 1 <= n PROVE v \div P(k + 1) = w[n - (k + 1)]
    BY <2>1
  <2>2. k <= n /\ n - k \in 1..n /\ (n - k) - 1 = n - (k + 1)
    BY <2>1
  <2>3. v \div P(k) = w[n - k]
    BY <2>2
  <2> HIDE DEF P
  <2>4. (v \div P(k)) \div Base = v \div (P(k) * Base)
    BY <1>0, <1>7, <1>10, <2>1, DivOfDiv, ZenonT(40)
  <2>5. w[n - k] \div Base = w[(n - k) - 1]
    BY <1>8, <2>2
  <2> QED BY <1>10, <2>1, <2>2, <2>3, <2>4, <2>5
<1>13. Q \in SUBSET Nat
  OBVIOUS
<1> HIDE DEF P
<1>14. \A k \in Nat : k \in Q
  <2> HIDE DEF Q
  <2> QED BY <1>11, <1>12, <1>13, NatSetInduction
<1>15. ASSUME NEW i \in 1..n PROVE (v \div P(n - i)) % Base = d[i]
  <2>1. n - i \in Nat /\ n - i <= n /\ n - (n - i) = i
    OBVIOUS
  <2>2. n - i \in Q
    BY <1>14, <2>1
  <2>3. v \div P(n - i) = w[i]
    BY <2>1, <2>2
  <2> QED BY <1>8, <2>3
<1>16. d = [i \in 1..n |-> d[i]]
  OBVIOUS
<1>17. [i \in 1..n |-> (v \div P(n - i)) % Base] = [i \in 1..n |-> d[i]]
  BY <1>15
<1> QED BY <1>7, <1>16, <1>17, Zenon DEF v, P

----------------------------------------------------------------------------
(* Runs of frames.                                                         *)

\* A frame of some data, as the decoders write it.
FrameOf(tag, data) == Encoded(Len(data)) \o tag \o data \o Crc(tag, data)

LEMMA FrameIs ==
    ASSUME input \in Seq(Bytes), NEW at \in Nat, FrameAt(at)
    PROVE  /\ LenAt(at) \in Nat /\ NextAt(at) \in Nat /\ at <= NextAt(at) /\ NextAt(at) <= Size
           /\ TagAt(at) \in Seq(Bytes) /\ DataAt(at) \in Seq(Bytes) /\ Len(DataAt(at)) = LenAt(at)
           /\ Slice(input, at, NextAt(at)) = FrameOf(TagAt(at), DataAt(at))
<1> DEFINE F == FieldBytes
           len == LenAt(at)
           next == NextAt(at)
           d == Slice(input, at, at + F)
<1>1. F \in Nat /\ Size \in Nat /\ Size = Len(input)
  BY PayloadAssumption DEF Size
<1>2. len \in Nat /\ next \in Nat /\ next <= Size
  BY LengthsAreNumbers DEF FrameAt, Hashed
<1>3. next = at + 3 * F + len /\ len = NumberOf(d, Base)
  BY DEF NextAt, LenAt, Value
<1>4. /\ TagAt(at) = Slice(input, at + F, at + 2 * F) /\ DataAt(at) = Slice(input, at + 2 * F, next - F)
      /\ Crc(TagAt(at), DataAt(at)) = Slice(input, next - F, next)
  BY DEF TagAt, DataAt, FrameAt
<1> HIDE DEF len, next
<1> DEFINE b == at + F
           c == at + 2 * F
           e == next - F
<1>5. /\ b \in Nat /\ c \in Nat /\ e \in Nat /\ at <= b /\ b <= c /\ c <= e /\ e <= next /\ at <= c /\ at <= e
      /\ b <= Len(input) /\ c <= Len(input) /\ e <= Len(input) /\ next <= Len(input)
      /\ e - c = len /\ b - at = F /\ at <= next /\ next \in Nat
  BY <1>1, <1>2, <1>3, SMTT(30)
<1>6. d = Slice(input, at, b) /\ TagAt(at) = Slice(input, b, c) /\ DataAt(at) = Slice(input, c, e)
      /\ Crc(TagAt(at), DataAt(at)) = Slice(input, e, next)
  BY <1>4
<1> HIDE DEF b, c, e, d
<1>7. d \in Seq(Bytes) /\ Len(d) = F
  BY <1>5, <1>6, SliceIs, ZenonT(40)
<1>8. Encoded(len) = d
  <2>1. FieldBytes \in Nat /\ Len(d) = FieldBytes /\ d \in Seq(Bytes)
    BY <1>1, <1>7
  <2>2. [i \in 1..FieldBytes |-> (NumberOf(d, Base) \div Pow2[ByteBits * (FieldBytes - i)]) % Base] = d
    BY <1>7, <2>1, BytesOfNumber, Zenon
  <2>3. [i \in 1..FieldBytes |-> (len \div Pow2[ByteBits * (FieldBytes - i)]) % Base] = d
    BY <1>3, <2>2, Zenon
  <2> QED BY <2>3, Zenon DEF Encoded
<1>9. TagAt(at) \in Seq(Bytes) /\ DataAt(at) \in Seq(Bytes) /\ Len(DataAt(at)) = len
  <2>1. Slice(input, b, c) \in Seq(Bytes)
    BY <1>5, SliceIs, ZenonT(40)
  <2>2. Slice(input, c, e) \in Seq(Bytes) /\ Len(Slice(input, c, e)) = e - c
    BY <1>5, SliceIs, Zenon
  <2> QED BY <1>5, <1>6, <2>1, <2>2, Zenon
<1>10. /\ Slice(input, at, c) = Slice(input, at, b) \o Slice(input, b, c)
       /\ Slice(input, at, e) = Slice(input, at, c) \o Slice(input, c, e)
       /\ Slice(input, at, next) = Slice(input, at, e) \o Slice(input, e, next)
  <2> HIDE DEF F
  <2>1. Slice(input, at, c) = Slice(input, at, b) \o Slice(input, b, c)
    <3>1. InTurn(Bytes, input, at, b, c)
      BY <1>5 DEF InTurn
    <3> QED BY <3>1, SliceJoin
  <2>2. Slice(input, at, e) = Slice(input, at, c) \o Slice(input, c, e)
    <3>1. InTurn(Bytes, input, at, c, e)
      BY <1>5 DEF InTurn
    <3> QED BY <3>1, SliceJoin
  <2>a. at \in Nat /\ e \in Nat /\ next \in Nat /\ at <= e /\ e <= next /\ next <= Len(input)
    BY <1>5
  <2>3. Slice(input, at, next) = Slice(input, at, e) \o Slice(input, e, next)
    <3>1. InTurn(Bytes, input, at, e, next)
      BY <2>a DEF InTurn
    <3> QED BY <3>1, SliceJoin
  <2> QED BY <2>1, <2>2, <2>3
<1>11. Slice(input, at, next) = Encoded(len) \o TagAt(at) \o DataAt(at) \o Crc(TagAt(at), DataAt(at))
  BY <1>6, <1>8, <1>10, Zenon
<1>12. Slice(input, at, next) = FrameOf(TagAt(at), DataAt(at))
  BY <1>9, <1>11, Zenon DEF FrameOf
<1> QED BY <1>2, <1>5, <1>9, <1>12 DEF len, next

\* The input between two places is frames of one tag and of some lengths.
RunOf(parts, lens, data, tag, bytes) ==
    /\ parts \in [1..Len(lens) -> Seq(Bytes)] /\ \A i \in 1..Len(lens) : Len(parts[i]) = lens[i]
    /\ data = FlattenSeq(parts)
    /\ \A i \in 1..Len(lens) : FrameOf(tag, parts[i]) \in Seq(Bytes)
    /\ bytes = FlattenSeq([i \in 1..Len(lens) |-> FrameOf(tag, parts[i])])

\* The sum of the first numbers, one more at a time.
SumsTo(n, f, ends) ==
    /\ ends[0] = 0
    /\ \A i \in 1..n : f[i] \in Nat
    /\ \A i \in 1..n : ends[i] = ends[i - 1] + f[i]
    /\ \A i \in 0..n : ends[i] \in Nat

LEMMA SumOfFirst ==
    ASSUME NEW n \in Nat, NEW f, NEW ends, SumsTo(n, f, ends)
    PROVE  SumFunctionOnSet(f, 1..n) = ends[n]
<1>0. /\ ends[0] = 0
      /\ \A i \in 1..n : f[i] \in Nat
      /\ \A i \in 1..n : ends[i] = ends[i - 1] + f[i]
      /\ \A i \in 0..n : ends[i] \in Nat
  BY DEF SumsTo
<1> DEFINE S(k) == SumFunctionOnSet(f, 1..k)
           Q == {k \in Nat : k <= n => S(k) = ends[k]}
<1>1. SumAdds(f, 1..n)
  <2>1. IsFiniteSet(1..n)
    BY FS_Interval
  <2> QED BY <1>0, <2>1, SumAddsUp
<1>2. S(0) = 0
  <2>1. 1..0 = {}
    OBVIOUS
  <2>2. SumFunctionOnSet(f, {}) = 0
    BY <1>1 DEF SumAdds
  <2> QED BY <2>1, <2>2, Zenon
<1>3. ASSUME NEW k \in 1..n PROVE S(k) = f[k] + S(k - 1)
  <2>1. (1..k) \in SUBSET (1..n) /\ k \in 1..k /\ (1..k) \ {k} = 1..(k - 1)
    OBVIOUS
  <2>2. SumFunctionOnSet(f, 1..k) = f[k] + SumFunctionOnSet(f, (1..k) \ {k})
    BY <1>1, <2>1, Zenon DEF SumAdds
  <2> QED BY <2>1, <2>2, Zenon
<1> HIDE DEF S
<1>4. 0 \in Q
  BY <1>0, <1>2
<1>5. ASSUME NEW k \in Q PROVE k + 1 \in Q
  <2>1. k \in Nat /\ (k + 1 <= n => k <= n /\ k + 1 \in 1..n /\ (k + 1) - 1 = k /\ k \in 0..n)
    OBVIOUS
  <2> SUFFICES ASSUME k + 1 <= n PROVE S(k + 1) = ends[k + 1]
    BY <2>1
  <2>2. S(k) = ends[k]
    BY <2>1
  <2>3. S(k + 1) = f[k + 1] + S(k) /\ ends[k + 1] = ends[k] + f[k + 1]
    BY <1>0, <1>3, <2>1
  <2>4. ends[k] \in Nat /\ f[k + 1] \in Nat
    BY <1>0, <2>1
  <2> QED BY <2>2, <2>3, <2>4
<1>6. Q \in SUBSET Nat
  OBVIOUS
<1>7. \A k \in Nat : k \in Q
  <2> HIDE DEF Q
  <2> QED BY <1>4, <1>5, <1>6, NatSetInduction
<1>8. S(n) = ends[n]
  BY <1>7
<1> QED BY <1>8 DEF S

\* What a dictionary says of a run of n frames.
Describes(dict, prefix, suffix, tag, lens, n) ==
    /\ dict.prefix = prefix /\ dict.suffix = suffix /\ dict.tag = tag
    /\ dict.base = lens[1] /\ dict.total = n
    /\ dict.full = (IF lens[n] = lens[1] THEN n ELSE n - 1)
    /\ dict.tail = (IF lens[n] = lens[1] THEN 0 ELSE lens[n])

LEMMA RunRebuilt ==
    ASSUME input \in Seq(Bytes), NEW at \in Nat, NEW end \in Nat, at <= end, end <= Size,
           NEW lens, NEW n \in Nat, Len(lens) = n, n >= 2, \A i \in 1..n : lens[i] \in Nat,
           \A i \in 1..(n - 1) : lens[i] = lens[1],
           NEW parts, NEW data, NEW tag, RunOf(parts, lens, data, tag, Slice(input, at, end)),
           NEW dict, Describes(dict, Slice(input, 0, at), Slice(input, end, Size), tag, lens, n)
    PROVE  Rebuilt(dict, data) = input
<1> DEFINE base == lens[1]
<1>0. /\ dict.prefix = Slice(input, 0, at) /\ dict.suffix = Slice(input, end, Size) /\ dict.tag = tag
      /\ dict.base = lens[1] /\ dict.total = n
      /\ dict.full = (IF lens[n] = lens[1] THEN n ELSE n - 1)
      /\ dict.tail = (IF lens[n] = lens[1] THEN 0 ELSE lens[n])
  BY Zenon DEF Describes
<1> USE <1>0
<1>1. base \in Nat /\ n \in 1..n
  OBVIOUS
<1>2. ASSUME NEW i \in 1..n PROVE Chunks(dict)[i] = lens[i]
  <2>1. Chunks(dict)[i] = IF i <= dict.full THEN dict.base ELSE dict.tail
    BY DEF Chunks
  <2>2. CASE lens[n] = lens[1]
    <3>1. lens[i] = lens[1]
      <4>1. i \in 1..(n - 1) \/ i = n
        OBVIOUS
      <4> QED BY <2>2, <4>1
    <3> QED BY <2>1, <2>2, <3>1
  <2>3. CASE lens[n] # lens[1]
    <3>1. CASE i = n
      BY <2>1, <2>3, <3>1
    <3>2. CASE i # n
      <4>1. i \in 1..(n - 1) /\ i <= n - 1
        BY <3>2
      <4> QED BY <2>1, <2>3, <4>1
    <3> QED BY <3>1, <3>2
  <2> QED BY <2>2, <2>3
<1>3. /\ parts \in [1..n -> Seq(Bytes)] /\ data = FlattenSeq(parts) /\ \A i \in 1..n : Len(parts[i]) = lens[i]
      /\ Slice(input, at, end) = FlattenSeq([i \in 1..n |-> FrameOf(tag, parts[i])])
  BY DEF RunOf
<1>4. PICK ends : Placed(n, parts, data, ends)
  BY <1>3, FlattenPlaces, Zenon
<1>5. /\ ends \in [0..n -> Nat] /\ ends[0] = 0 /\ Len(data) = ends[n]
      /\ \A i \in 1..n : ends[i] = ends[i - 1] + lens[i]
      /\ \A i \in 0..n : ends[i] <= ends[n]
      /\ \A i \in 1..n : \A j \in 1..lens[i] : data[ends[i - 1] + j] = parts[i][j]
  BY <1>3, <1>4, ZenonT(40) DEF Placed
<1>6. data \in Seq(Bytes)
  BY <1>3, FlattenPlaces
<1>7. ASSUME NEW i \in 1..n PROVE ends[i - 1] = (i - 1) * base
  <2> DEFINE Q == {k \in Nat : k < n => ends[k] = k * base}
  <2> HIDE DEF base
  <2>1. 0 \in Q
    BY <1>1, <1>5
  <2>2. ASSUME NEW k \in Q PROVE k + 1 \in Q
    <3>1. k \in Nat
      OBVIOUS
    <3> SUFFICES ASSUME k + 1 < n PROVE ends[k + 1] = (k + 1) * base
      BY <3>1
    <3>2. k < n /\ k + 1 \in 1..n /\ k + 1 \in 1..(n - 1) /\ (k + 1) - 1 = k
      BY <3>1
    <3>3. ends[k] = k * base
      BY <3>2
    <3>4. ends[k + 1] = ends[k] + lens[k + 1] /\ lens[k + 1] = base
      BY <1>5, <3>2, Zenon DEF base
    <3>5. (k + 1) * base = k * base + base
      BY <1>1, <3>1
    <3> QED BY <3>3, <3>4, <3>5
  <2>3. Q \in SUBSET Nat
    OBVIOUS
  <2> HIDE DEF Q
  <2>4. \A k \in Nat : k \in Q
    BY <2>1, <2>2, <2>3, NatSetInduction, Zenon
  <2>5. i - 1 \in Nat /\ i - 1 < n
    OBVIOUS
  <2> QED BY <2>4, <2>5 DEF Q
<1> DEFINE Before(i) == (i - 1) * dict.base
           Data(i) == Slice(data, Before(i), Before(i) + Chunks(dict)[i])
           Frame(i) == Encoded(Chunks(dict)[i]) \o dict.tag \o Data(i) \o Crc(dict.tag, Data(i))
<1>8. ASSUME NEW i \in 1..n PROVE Data(i) = parts[i]
  <2>1. Before(i) = ends[i - 1] /\ Chunks(dict)[i] = lens[i]
    BY <1>2, <1>7
  <2> HIDE DEF Before
  <2>2. Data(i) = Slice(data, ends[i - 1], ends[i - 1] + lens[i])
    BY <2>1
  <2> HIDE DEF Data
  <2>3. i - 1 \in 0..n /\ i \in 0..n
    OBVIOUS
  <2> DEFINE from == ends[i - 1]
             to == ends[i]
             len == lens[i]
  <2>a. from \in Nat /\ to \in Nat /\ to <= ends[n] /\ to = from + len /\ len \in Nat /\ Len(data) = ends[n]
    BY <1>5, <2>3, Zenon
  <2> HIDE DEF from, to, len
  <2>4. from \in Nat /\ to \in Nat /\ from <= to /\ to <= Len(data) /\ to - from = len /\ to = from + len
    BY <2>a
  <2> DEFINE p == Slice(data, from, to)
  <2>5. p \in Seq(Bytes) /\ Len(p) = len /\ \A j \in 1..len : p[j] = data[from + j]
    <3>1. p \in Seq(Bytes) /\ Len(p) = to - from /\ \A j \in 1..(to - from) : p[j] = data[from + j]
      <4>1. from \in Nat /\ to \in Nat /\ from <= to /\ to <= Len(data) /\ data \in Seq(Bytes)
        BY <1>6, <2>4
      <4> HIDE <1>6, <2>4
      <4> QED BY ONLY <4>1, SliceIs, ZenonT(40)
    <3> HIDE DEF p
    <3> QED BY <2>4, <3>1, Zenon
  <2> HIDE DEF p
  <2>6. \A j \in 1..lens[i] : p[j] = parts[i][j]
    <3>1. \A j \in 1..lens[i] : data[ends[i - 1] + j] = parts[i][j]
      BY <1>5, Zenon
    <3> QED BY <2>5, <3>1, Zenon DEF len, from
  <2>7. p = [j \in 1..lens[i] |-> p[j]] /\ parts[i] = [j \in 1..lens[i] |-> parts[i][j]]
    <3>1. p \in Seq(Bytes) /\ Len(p) = lens[i] /\ parts[i] \in Seq(Bytes) /\ Len(parts[i]) = lens[i]
      BY <1>3, <2>5 DEF len
    <3> DEFINE q == parts[i]
               l == lens[i]
    <3>a. p \in Seq(Bytes) /\ Len(p) = l /\ q \in Seq(Bytes) /\ Len(q) = l
      BY <3>1
    <3> HIDE DEF q, l
    <3>2. p = [j \in 1..l |-> p[j]] /\ q = [j \in 1..l |-> q[j]]
      BY <3>a
    <3> QED BY <3>2 DEF q, l
  <2>8. [j \in 1..lens[i] |-> p[j]] = [j \in 1..lens[i] |-> parts[i][j]]
    BY <2>6
  <2>9. p = parts[i]
    BY <2>7, <2>8, Zenon
  <2>10. Data(i) = p
    BY <2>2, <2>4, Zenon DEF p, from, to, len
  <2> QED BY <2>9, <2>10
<1>9. \A i \in 1..n : Frame(i) = FrameOf(tag, parts[i])
  <2> SUFFICES ASSUME NEW i \in 1..n PROVE Frame(i) = FrameOf(tag, parts[i])
    BY Zenon
  <2>1. Data(i) = parts[i] /\ Chunks(dict)[i] = Len(parts[i]) /\ dict.tag = tag
    BY <1>2, <1>3, <1>8, Zenon
  <2> HIDE DEF Data
  <2> QED BY <2>1, Zenon DEF FrameOf
<1>10. [i \in 1..dict.total |-> Frame(i)] = [i \in 1..n |-> FrameOf(tag, parts[i])]
  <2> HIDE DEF Frame
  <2> QED BY <1>9
<1>11. dict.total \in {dict.full, dict.full + 1}
  <2>1. dict.full = n \/ dict.full = n - 1
    BY Zenon
  <2> QED BY <2>1
<1>12. Len(data) = SumFunctionOnSet(Chunks(dict), 1..dict.total)
  <2>1. \A i \in 1..n : Chunks(dict)[i] \in Nat /\ ends[i] = ends[i - 1] + Chunks(dict)[i]
    BY <1>2, <1>5, Zenon
  <2>2. \A i \in 0..n : ends[i] \in Nat
    BY <1>5, Zenon
  <2>a. ends[0] = 0
    BY <1>5
  <2> DEFINE f == Chunks(dict)
  <2>b. \A i \in 1..n : f[i] \in Nat
    BY <2>1
  <2>c. \A i \in 1..n : ends[i] = ends[i - 1] + f[i]
    BY <2>1
  <2> HIDE DEF f
  <2>d. SumsTo(n, f, ends)
    BY <2>a, <2>b, <2>c, <2>2, Zenon DEF SumsTo
  <2>e. SumFunctionOnSet(f, 1..n) = ends[n]
    BY <2>d, SumOfFirst, Zenon
  <2>3. SumFunctionOnSet(Chunks(dict), 1..n) = ends[n]
    BY <2>e DEF f
  <2> QED BY <1>5, <2>3
<1>13. Rebuilt(dict, data) = dict.prefix \o FlattenSeq([i \in 1..dict.total |-> Frame(i)]) \o dict.suffix
  BY <1>11, <1>12, Zenon DEF Rebuilt
<1> HIDE DEF Frame
<1>14. Rebuilt(dict, data) = Slice(input, 0, at) \o Slice(input, at, end) \o Slice(input, end, Size)
  BY <1>3, <1>10, <1>13, Zenon
<1>15. /\ Slice(input, 0, at) \o Slice(input, at, end) = Slice(input, 0, end)
       /\ Slice(input, 0, end) \o Slice(input, end, Size) = Slice(input, 0, Size)
       /\ Slice(input, 0, Size) = input
  <2>1. 0 \in Nat /\ 0 <= at /\ 0 <= end /\ Size \in Nat /\ Size = Len(input) /\ Size <= Len(input) /\ end <= Len(input)
    BY DEF Size
  <2> DEFINE z == 0
             size == Size
  <2>a. z \in Nat /\ z <= at /\ z <= end /\ at <= end /\ end <= Len(input) /\ size \in Nat /\ end <= size /\ size <= Len(input)
    BY <2>1
  <2> HIDE DEF z, size
  <2>b. Slice(input, z, end) = Slice(input, z, at) \o Slice(input, at, end)
    <3>1. InTurn(Bytes, input, z, at, end)
      BY <2>a DEF InTurn
    <3> QED BY <3>1, SliceJoin
  <2>c. Slice(input, z, size) = Slice(input, z, end) \o Slice(input, end, size)
    <3>1. InTurn(Bytes, input, z, end, size)
      BY <2>a DEF InTurn
    <3> QED BY <3>1, SliceJoin
  <2>2. Slice(input, 0, at) \o Slice(input, at, end) = Slice(input, 0, end)
    BY <2>b, Zenon DEF z
  <2>3. Slice(input, 0, end) \o Slice(input, end, Size) = Slice(input, 0, Size)
    BY <2>c, Zenon DEF z, size
  <2>4. Slice(input, 0, Size) = input
    BY <2>1 DEF Slice
  <2> QED BY <2>2, <2>3, <2>4, Zenon
<1> QED BY <1>14, <1>15, Zenon

----------------------------------------------------------------------------
(* The packs that are decoded to the input.                                *)

\* What the decoders need to know of the run in the making.
GoodRun ==
    /\ start \in Nat /\ start <= cursor /\ run.lens \in Seq(Nat) /\ Len(run.lens) >= 1
    /\ \E parts : RunOf(parts, run.lens, run.data, run.tag, Slice(input, start, cursor))

LEMMA FirstOfRun ==
    ASSUME input \in Seq(Bytes), start \in Nat, FirstFrame
    PROVE  GoodRun'
<1> DEFINE len == LenAt(start)
           tag == TagAt(start)
           data == DataAt(start)
           next == NextAt(start)
           lens == <<len>>
           parts == [i \in 1..1 |-> data]
           frame == FrameOf(tag, data)
<1>1. /\ FrameAt(start) /\ cursor' = next /\ UNCHANGED <<input, start>>
      /\ run' = [tag |-> tag, lens |-> lens, data |-> data]
  BY DEF FirstFrame
<1>2. /\ len \in Nat /\ next \in Nat /\ start <= next /\ next <= Size
      /\ tag \in Seq(Bytes) /\ data \in Seq(Bytes) /\ Len(data) = len
      /\ Slice(input, start, next) = frame
  BY <1>1, FrameIs
<1>3. run'.tag = tag /\ run'.lens = lens /\ run'.data = data
  BY <1>1
<1> HIDE DEF len, tag, data, next, frame
<1>4. lens \in Seq(Nat) /\ Len(lens) = 1 /\ lens[1] = len
  BY <1>2
<1>5. frame \in Seq(Bytes)
  <2>1. input \in Seq(Bytes) /\ start \in Nat /\ next \in Nat /\ start <= next /\ next <= Len(input)
    BY <1>2 DEF Size
  <2>2. Slice(input, start, next) \in Seq(Bytes)
    BY <2>1, SliceIs
  <2> QED BY <1>2, <2>2
<1> HIDE DEF lens
<1>6. RunOf(parts, lens, data, tag, Slice(input, start, next))
  <2>1. FlattenSeq(parts) = data
    <3>1. DOMAIN parts = 1..1 /\ Len(parts) = 1 /\ parts[1] = data
      OBVIOUS
    <3> HIDE DEF parts
    <3> QED BY <3>1, FlattenOne, Zenon
  <2>2. FlattenSeq([i \in 1..1 |-> frame]) = frame
    <3> DEFINE sq == [i \in 1..1 |-> frame]
    <3>1. DOMAIN sq = 1..1 /\ Len(sq) = 1 /\ sq[1] = frame
      OBVIOUS
    <3> HIDE DEF sq
    <3>2. FlattenSeq(sq) = frame
      BY <3>1, FlattenOne, Zenon
    <3> QED BY <3>2 DEF sq
  <2>3. parts \in [1..1 -> Seq(Bytes)] /\ \A i \in 1..1 : parts[i] = data /\ Len(parts[i]) = lens[i]
    BY <1>2, <1>4
  <2> HIDE DEF parts
  <2>4. [i \in 1..1 |-> FrameOf(tag, parts[i])] = [i \in 1..1 |-> frame]
    BY <2>3, Zenon DEF frame
  <2>5. \A i \in 1..1 : FrameOf(tag, parts[i]) \in Seq(Bytes)
    BY <1>5, <2>3, Zenon DEF frame
  <2> QED BY <1>2, <1>4, <2>1, <2>2, <2>3, <2>4, <2>5, Zenon DEF RunOf
<1> HIDE DEF parts
<1>7. RunOf(parts, run'.lens, run'.data, run'.tag, Slice(input', start', cursor'))
  BY <1>1, <1>3, <1>6, Zenon
<1>8. /\ start' \in Nat /\ start' <= cursor' /\ run'.lens \in Seq(Nat) /\ Len(run'.lens) >= 1
  <2>1. start' = start /\ cursor' = next /\ start \in Nat /\ start <= next
    BY <1>1, <1>2
  <2>2. run'.lens \in Seq(Nat) /\ Len(run'.lens) = 1
    BY <1>3, <1>4, Zenon
  <2> QED BY <2>1, <2>2
<1> QED BY <1>7, <1>8, Zenon DEF GoodRun

LEMMA NextOfRun ==
    ASSUME input \in Seq(Bytes), cursor \in Nat, cursor <= Size, GoodRun, NextFrame
    PROVE  GoodRun'
<1> DEFINE len == LenAt(cursor)
           tag == TagAt(cursor)
           data == DataAt(cursor)
           next == NextAt(cursor)
           frame == FrameOf(tag, data)
           old == run.lens
           n == Len(old)
           N == n + 1
           lens == Append(old, len)
           before == run.data
           after == before \o data
           bytes == Slice(input, start, cursor)
<1>1. /\ FrameAt(cursor) /\ tag = run.tag /\ cursor' = next /\ UNCHANGED <<input, start>>
      /\ run' = [run EXCEPT !.lens = Append(@, len), !.data = @ \o data]
  BY DEF NextFrame, Continues
<1>2. /\ len \in Nat /\ next \in Nat /\ cursor <= next /\ next <= Size
      /\ tag \in Seq(Bytes) /\ data \in Seq(Bytes) /\ Len(data) = len
      /\ Slice(input, cursor, next) = frame
  BY <1>1, FrameIs
<1>3. run'.tag = tag /\ run'.lens = lens /\ run'.data = after
  BY <1>1
<1>4. start \in Nat /\ start <= cursor /\ old \in Seq(Nat) /\ n >= 1
  BY DEF GoodRun
<1>5. PICK parts : RunOf(parts, old, before, tag, bytes)
  BY <1>1 DEF GoodRun
<1>6. /\ parts \in [1..n -> Seq(Bytes)] /\ \A i \in 1..n : Len(parts[i]) = old[i]
      /\ before = FlattenSeq(parts)
      /\ \A i \in 1..n : FrameOf(tag, parts[i]) \in Seq(Bytes)
      /\ bytes = FlattenSeq([i \in 1..n |-> FrameOf(tag, parts[i])])
  BY <1>5, Zenon DEF RunOf
<1> HIDE DEF len, tag, data, next, frame
<1> DEFINE frames == [i \in 1..n |-> FrameOf(tag, parts[i])]
           more == [i \in 1..N |-> IF i <= n THEN parts[i] ELSE data]
           all == [i \in 1..N |-> IF i <= n THEN frames[i] ELSE frame]
<1>7. n \in Nat /\ N \in Nat /\ N \in 1..N /\ \A i \in 1..N : i \in 1..n \/ i = N
  BY <1>4
<1>8. lens \in Seq(Nat) /\ Len(lens) = N /\ lens[N] = len /\ \A i \in 1..n : lens[i] = old[i]
  BY <1>2, <1>4
<1>9. frame \in Seq(Bytes) /\ next <= Len(input)
  <2>1. input \in Seq(Bytes) /\ cursor \in Nat /\ next \in Nat /\ cursor <= next /\ next <= Len(input)
    BY <1>2 DEF Size
  <2>2. Slice(input, cursor, next) \in Seq(Bytes)
    BY <2>1, SliceIs
  <2> QED BY <1>2, <2>1, <2>2
<1>10. more \in [1..N -> Seq(Bytes)] /\ more[N] = data /\ \A i \in 1..n : more[i] = parts[i]
  <2> HIDE DEF bytes, frames, lens, old, before
  <2> QED BY <1>2, <1>6, <1>7
<1>11. frames \in [1..n -> Seq(Bytes)]
  BY <1>6
<1>12. \A i \in 1..N : FrameOf(tag, more[i]) = all[i]
  <2> HIDE DEF more, old
  <2> SUFFICES ASSUME NEW i \in 1..N PROVE FrameOf(tag, more[i]) = all[i]
    OBVIOUS
  <2>1. CASE i \in 1..n
    <3>1. i <= n /\ more[i] = parts[i]
      BY <1>7, <1>10, <2>1
    <3> QED BY <2>1, <3>1
  <2>2. CASE i = N
    <3>1. ~(i <= n) /\ more[i] = data
      BY <1>7, <1>10, <2>2
    <3> QED BY <3>1 DEF frame
  <2> QED BY <1>7, <2>1, <2>2
<1>13. after = FlattenSeq(more)
  <2> HIDE DEF old, bytes, frames, more
  <2>1. n \in Nat /\ parts \in [1..n -> Seq(Bytes)] /\ data \in Seq(Bytes) /\ N = n + 1
    BY <1>2, <1>6, <1>7
  <2> HIDE DEF n, N
  <2>2. Longer(Bytes, n, parts, data, N, more)
    BY <2>1, <1>6, <1>10, Zenon DEF Longer
  <2>3. FlattenSeq(more) = FlattenSeq(parts) \o data
    BY <2>2, FlattenMore
  <2> QED BY <1>6, <2>3, Zenon
<1>14. Slice(input, start, next) = FlattenSeq(all)
  <2> HIDE DEF old
  <2>1. n \in Nat /\ frame \in Seq(Bytes) /\ N = n + 1
    BY <1>7, <1>9
  <2>2. all \in [1..N -> Seq(Bytes)] /\ all[N] = frame /\ \A i \in 1..n : all[i] = frames[i]
    <3> HIDE DEF frames
    <3> QED BY <1>7, <1>9, <1>11
  <2> HIDE DEF all, n, N
  <2>3. FlattenSeq(all) = FlattenSeq(frames) \o frame
    <3> HIDE DEF frames
    <3>1. Longer(Bytes, n, frames, frame, N, all)
      BY <1>11, <2>1, <2>2, Zenon DEF Longer
    <3> QED BY <3>1, FlattenMore
  <2>4. start \in Nat /\ cursor \in Nat /\ next \in Nat /\ start <= cursor /\ cursor <= next /\ next <= Len(input)
    BY <1>2, <1>4, <1>9
  <2>5. Slice(input, start, next) = Slice(input, start, cursor) \o Slice(input, cursor, next)
    <3>1. InTurn(Bytes, input, start, cursor, next)
      BY <2>4 DEF InTurn
    <3> QED BY <3>1, SliceJoin
  <2> QED BY <1>2, <1>6, <2>3, <2>5, Zenon
<1>15. all = [i \in 1..N |-> FrameOf(tag, more[i])]
  <2> HIDE DEF more, frames, frame
  <2>1. all = [i \in 1..N |-> all[i]]
    OBVIOUS
  <2> HIDE DEF all
  <2> QED BY <1>12, <2>1, Zenon
<1>16. RunOf(more, lens, after, tag, Slice(input, start, next))
  <2>1. \A i \in 1..N : Len(more[i]) = lens[i]
    <3> HIDE DEF lens, more, N, old
    <3> SUFFICES ASSUME NEW i \in 1..N PROVE Len(more[i]) = lens[i]
      OBVIOUS
    <3>1. CASE i \in 1..n
      BY <1>6, <1>8, <1>10, <3>1, Zenon
    <3>2. CASE i = N
      BY <1>2, <1>8, <1>10, <3>2
    <3> QED BY <1>7, <3>1, <3>2
  <2>2. \A i \in 1..N : FrameOf(tag, more[i]) \in Seq(Bytes)
    <3>1. \A i \in 1..N : all[i] \in Seq(Bytes)
      <4> HIDE DEF frames, N, old
      <4> SUFFICES ASSUME NEW i \in 1..N PROVE all[i] \in Seq(Bytes)
        OBVIOUS
      <4>1. CASE i \in 1..n
        BY <1>7, <1>9, <1>11, <4>1, Zenon
      <4>2. CASE i = N
        BY <1>7, <1>9, <4>2 DEF N
      <4> QED BY <1>7, <4>1, <4>2
    <3> HIDE DEF all, more, N
    <3> QED BY <1>12, <3>1, Zenon
  <2> HIDE DEF lens, more, N, all, after
  <2> QED BY <1>8, <1>10, <1>13, <1>14, <1>15, <2>1, <2>2, Zenon DEF RunOf
<1>17. RunOf(more, run'.lens, run'.data, run'.tag, Slice(input', start', cursor'))
  <2> HIDE DEF more, lens, after
  <2> QED BY <1>1, <1>3, <1>16, Zenon
<1>18. /\ start' \in Nat /\ start' <= cursor' /\ run'.lens \in Seq(Nat) /\ Len(run'.lens) >= 1
  <2> HIDE DEF lens, old
  <2>1. start' = start /\ cursor' = next /\ start \in Nat /\ start <= next
    BY <1>1, <1>2, <1>4
  <2>2. run'.lens \in Seq(Nat) /\ Len(run'.lens) = N
    BY <1>3, <1>8, Zenon
  <2> QED BY <1>4, <2>1, <2>2
<1> HIDE DEF more
<1> QED BY <1>17, <1>18, Zenon DEF GoodRun

\* The run that is kept is rebuilt from its dictionary.
LEMMA FoundIsRebuilt ==
    ASSUME input \in Seq(Bytes), cursor \in Nat, cursor <= Size, GoodRun, Regular
    PROVE  Rebuilt(FramedDictionary(Found), Found.payload) = input
<1> DEFINE lens == run.lens
           n == Len(lens)
           dict == FramedDictionary(Found)
           first == lens[1]
           last == lens[n]
<1>1. Describes(dict, Slice(input, 0, start), Slice(input, cursor, Size), run.tag, lens, n) /\ Found.payload = run.data
  <2>1. /\ Found.prefix = Slice(input, 0, start) /\ Found.suffix = Slice(input, cursor, Size) /\ Found.tag = run.tag
        /\ Found.base = run.lens[1] /\ Found.total = Len(run.lens) /\ Found.payload = run.data
        /\ Found.full = (IF run.lens[Len(run.lens)] = run.lens[1] THEN Len(run.lens) ELSE Len(run.lens) - 1)
        /\ Found.tail = (IF run.lens[Len(run.lens)] = run.lens[1] THEN 0 ELSE run.lens[Len(run.lens)])
    BY DEF Found
  <2>2. /\ dict.prefix = Found.prefix /\ dict.suffix = Found.suffix /\ dict.tag = Found.tag
        /\ dict.base = Found.base /\ dict.full = Found.full /\ dict.tail = Found.tail /\ dict.total = Found.total
    BY DEF FramedDictionary
  <2> HIDE DEF dict
  <2> QED BY <2>1, <2>2, Zenon DEF Describes
<1>2. /\ lens \in Seq(Nat) /\ n \in Nat /\ n >= 2 /\ \A i \in 1..n : lens[i] \in Nat
      /\ \A i \in 1..(n - 1) : lens[i] = first
  BY SMTT(30) DEF GoodRun, Regular
<1>3. PICK parts : RunOf(parts, lens, run.data, run.tag, Slice(input, start, cursor))
  BY DEF GoodRun
<1>4. start \in Nat /\ start <= cursor
  BY DEF GoodRun
<1>5. Len(lens) = n /\ \A i \in 1..(n - 1) : lens[i] = lens[1]
  BY <1>2
<1> HIDE DEF lens, dict, n
<1>6. Rebuilt(dict, run.data) = input
  BY <1>1, <1>2, <1>3, <1>4, <1>5, RunRebuilt, ZenonT(40)
<1> QED BY <1>1, <1>6 DEF dict

\* The packs of the other methods.
LEMMA OtherMethods ==
    ASSUME PackRecursive \/ PackMonotonic \/ PackPrimes \/ PackAtlas \/ PackTensors
    PROVE  pack'.method \in {"recursive", "monotonic", "primes", "atlas", "tensors"}
<1>1. CASE PackRecursive
  <2> DEFINE PackOf(plan, codec) ==
               LET nodes == WithCorrectionPlan(TopologyOf(stream.plan), plan)
                   corrections == Packed(codec, Transformed(plan, stream.corrections))
               IN [method |-> "recursive", nodes |-> nodes,
                   dict |-> RecursiveDictionary(nodes, codec, Len(corrections)),
                   payload |-> stream.encoded \o corrections]
  <2>1. \E plan \in Proposed(stream.corrections), codec \in Codecs : pack' = PackOf(plan, codec)
    BY <1>1, Zenon DEF PackRecursive
  <2>2. \A plan, codec : PackOf(plan, codec).method = "recursive"
    OBVIOUS
  <2> HIDE DEF PackOf
  <2> QED BY <2>1, <2>2
<1>2. CASE PackMonotonic
  <2>1. PICK width \in Range(CandidateWidths), mode \in Modes, codec \in Codecs :
           LET gaps == Gaps(Numbers(input, width))
           IN \E plan \in Proposed(GapStream(mode, gaps)) \cup {Identity} :
                  pack' = [method |-> "monotonic",
                           dict |-> MonotonicDictionary(input, width, mode, codec, plan),
                           payload |-> Packed(codec, Transformed(plan, GapStream(mode, gaps)))]
    BY <1>2, Zenon DEF PackMonotonic
  <2> DEFINE gaps == Gaps(Numbers(input, width))
  <2>2. PICK plan \in Proposed(GapStream(mode, gaps)) \cup {Identity} :
           pack' = [method |-> "monotonic",
                    dict |-> MonotonicDictionary(input, width, mode, codec, plan),
                    payload |-> Packed(codec, Transformed(plan, GapStream(mode, gaps)))]
    BY <2>1, Zenon
  <2>3. pack'.method = "monotonic"
    BY <2>2, MethodIs, Zenon
  <2> QED BY <2>3
<1>3. CASE PackPrimes
  <2>1. pack'.method = "primes"
    BY <1>3, MethodIs, Zenon DEF PackPrimes
  <2> QED BY <2>1
<1>4. CASE PackAtlas
  <2>1. PICK size \in ChunkSizes, codecs \in [1..3 -> Codecs] : pack' = AtlasPack(input, size, codecs)
    BY <1>4, Zenon DEF PackAtlas
  <2>2. pack'.method = "atlas"
    BY <2>1, MethodIs, Zenon DEF AtlasPack
  <2> QED BY <2>2
<1>5. CASE PackTensors
  <2>1. PICK codecs \in [1..2 -> Codecs] : pack' = SplitPack(input, codecs)
    BY <1>5, Zenon DEF PackTensors
  <2>2. pack'.method = "tensors"
    BY <2>1, MethodIs, Zenon DEF SplitPack
  <2> QED BY <2>2
<1> QED BY <1>1, <1>2, <1>3, <1>4, <1>5

DecodesRight ==
    /\ pack.method = "framed" => DecodeFramed(pack.dict, pack.payload) = input
    /\ pack.method = "transformed" => DecodeTransformed(pack.dict, pack.payload) = input

DecodedInv ==
    /\ RunInv
    /\ stage = "run" => GoodRun
    /\ best # NoRun => Rebuilt(FramedDictionary(best), best.payload) = input
    /\ stage \in {"scan", "run", "found", "preflated", "planned"} => pack = Nothing
    /\ stage = "packed" => DecodesRight
    /\ stage = "done" /\ pack.method \in {"framed", "transformed"} => output = input

LEMMA DecodedKeeps ==
    ASSUME DecodedInv, [Next]_vars
    PROVE  DecodedInv'
<1>1. RunInv'
  BY RunKeeps DEF DecodedInv
<1>2. input \in Seq(Bytes) /\ start \in Nat /\ cursor \in Nat /\ cursor <= Size
  BY DEF DecodedInv, RunInv
<1>3. best # NoRun => Rebuilt(FramedDictionary(best), best.payload) = input
  BY DEF DecodedInv
<1> DEFINE BestIs == best' # NoRun => Rebuilt(FramedDictionary(best'), best'.payload) = input'
<1>4. ASSUME UNCHANGED <<input, best>> PROVE BestIs
  BY <1>3, <1>4, Zenon
<1> HIDE DEF BestIs
<1>a. ASSUME BestIs, stage' = "run" => GoodRun',
             stage' \in {"scan", "run", "found", "preflated", "planned"} => pack' = Nothing,
             stage' = "packed" => DecodesRight',
             stage' = "done" /\ pack'.method \in {"framed", "transformed"} => output' = input'
      PROVE  DecodedInv'
  <2>1. (best # NoRun => Rebuilt(FramedDictionary(best), best.payload) = input)'
    BY <1>a, Zenon DEF BestIs, FramedDictionary
  <2> QED BY <1>1, <1>a, <2>1, Zenon DEF DecodedInv
<1>b. stage \in {"scan", "run", "found", "preflated", "planned"} => pack = Nothing
  BY DEF DecodedInv
<1>5. CASE SkipByte
  <2>1. stage = "scan" /\ UNCHANGED <<input, best, stage, pack>>
    BY <1>5 DEF SkipByte, Scanning
  <2> QED BY <1>4, <1>a, <1>b, <2>1
<1>6. CASE FirstFrame
  <2>1. stage = "scan" /\ stage' = "run" /\ UNCHANGED <<input, best, pack>>
    BY <1>6 DEF FirstFrame, Scanning
  <2>2. GoodRun'
    BY <1>2, <1>6, FirstOfRun
  <2> QED BY <1>4, <1>a, <1>b, <2>1, <2>2
<1>7. CASE NextFrame
  <2>1. stage = "run" /\ UNCHANGED <<input, best, pack, stage>>
    BY <1>7 DEF NextFrame
  <2>2. GoodRun'
    BY <1>2, <1>7, <2>1, NextOfRun DEF DecodedInv
  <2> QED BY <1>4, <1>a, <1>b, <2>1, <2>2
<1>8. CASE DropRun
  <2>1. stage = "run" /\ stage' = "scan" /\ UNCHANGED <<input, best, pack>>
    BY <1>8 DEF DropRun, RunEnds
  <2> QED BY <1>4, <1>a, <1>b, <2>1
<1>9. CASE KeepRun
  <2>1. stage = "run" /\ stage' = "scan" /\ UNCHANGED <<input, pack>> /\ Regular /\ (best' = best \/ best' = Found)
    BY <1>9 DEF KeepRun, RunEnds
  <2>2. BestIs
    <3>1. CASE best' = best
      BY <1>4, <2>1, <3>1
    <3>2. CASE best' = Found
      <4>1. Rebuilt(FramedDictionary(Found), Found.payload) = input
        BY <1>2, <2>1, FoundIsRebuilt DEF DecodedInv
      <4> QED BY <2>1, <3>2, <4>1, Zenon DEF BestIs
    <3> QED BY <2>1, <3>1, <3>2
  <2> QED BY <1>a, <1>b, <2>1, <2>2
<1>10. CASE EndScan \/ Preflate \/ PlanWhole \/ PlanBlocks
  <2>1. /\ stage \in {"scan", "found", "preflated", "planned"} /\ stage' \in {"found", "preflated", "planned"}
        /\ UNCHANGED <<input, best, pack>>
    BY <1>10, Zenon DEF EndScan, Preflate, PlanWhole, PlanBlocks, scan, Scanning
  <2> QED BY <1>4, <1>a, <1>b, <2>1
<1>11. CASE PackFramed
  <2>1. /\ stage' = "packed" /\ UNCHANGED <<input, best>> /\ best # NoRun
        /\ pack' = [method |-> "framed", dict |-> FramedDictionary(best), payload |-> best.payload]
    BY <1>11 DEF PackFramed, scan
  <2>2. pack'.method = "framed" /\ pack'.dict = FramedDictionary(best) /\ pack'.payload = best.payload
    <3> DEFINE dict == FramedDictionary(best)
               payload == best.payload
    <3>1. pack' = [method |-> "framed", dict |-> dict, payload |-> payload]
      BY <2>1
    <3> HIDE DEF dict, payload
    <3>2. pack'.method = "framed" /\ pack'.dict = dict /\ pack'.payload = payload
      BY <3>1
    <3> QED BY <3>2 DEF dict, payload
  <2>3. Rebuilt(pack'.dict, pack'.payload) = input'
    BY <1>3, <2>1, <2>2, Zenon
  <2>4. input # Error
    BY <1>2, NotError
  <2>5. DecodesRight'
    <3>1. DecodeFramed(pack.dict, pack.payload)' = input'
      BY <2>1, <2>3, <2>4 DEF DecodeFramed, Checked, Size
    <3> QED BY <2>2, <3>1 DEF DecodesRight
  <2> QED BY <1>4, <1>a, <2>1, <2>5
<1>12. CASE PackTransformed
  <2>1. PICK plan \in Proposed(input), codec \in Codecs :
           pack' = [method |-> "transformed",
                    dict |-> [codecKind |-> CodecAndKind(codec, plan.kind), period |-> plan.period,
                              head |-> plan.head, plainLen |-> Size],
                    payload |-> Packed(codec, Transformed(plan, input))]
    BY <1>12, Zenon DEF PackTransformed
  <2>2. stage' = "packed" /\ UNCHANGED <<input, best>>
    BY <1>12 DEF PackTransformed, scan
  <2> DEFINE dict == [codecKind |-> CodecAndKind(codec, plan.kind), period |-> plan.period,
                      head |-> plan.head, plainLen |-> Size]
             payload == Packed(codec, Transformed(plan, input))
  <2>3. pack'.method = "transformed" /\ pack'.dict = dict /\ pack'.payload = payload
    <3>1. pack' = [method |-> "transformed", dict |-> dict, payload |-> payload]
      BY <2>1
    <3> HIDE DEF dict, payload
    <3> QED BY <3>1
  <2>4. plan \in PlanType /\ Applies(plan, Len(input)) /\ codec \in 0..3
    BY PayloadAssumption DEF Proposed
  <2>5. DecodeTransformed(dict, payload) = input
    <3>1. dict = [codecKind |-> CodecAndKind(codec, plan.kind), period |-> plan.period,
                  head |-> plan.head, plainLen |-> Size]
      OBVIOUS
    <3>2. payload = Packed(codec, Transformed(plan, input))
      OBVIOUS
    <3> HIDE DEF dict, payload
    <3> QED BY <1>2, <2>4, <3>1, <3>2, TransformedReads
  <2> HIDE DEF dict, payload
  <2>6. DecodesRight'
    <3>1. DecodeTransformed(pack.dict, pack.payload)' = input'
      BY <2>2, <2>3, <2>5 DEF DecodeTransformed, Size
    <3> QED BY <2>3, <3>1 DEF DecodesRight
  <2> QED BY <1>4, <1>a, <2>2, <2>6
<1>13. ASSUME stage' = "packed", UNCHANGED <<input, best>>, pack'.method \notin {"framed", "transformed"}
       PROVE  DecodedInv'
  <2>1. DecodesRight'
    BY <1>13 DEF DecodesRight
  <2> QED BY <1>4, <1>a, <1>13, <2>1
<1>14. CASE PackRecursive \/ PackMonotonic \/ PackPrimes \/ PackAtlas \/ PackTensors
  <2>1. stage' = "packed" /\ UNCHANGED <<input, best>>
    BY <1>14, Zenon DEF PackRecursive, PackMonotonic, PackPrimes, PackAtlas, PackTensors, scan
  <2>2. pack'.method \in {"recursive", "monotonic", "primes", "atlas", "tensors"}
    BY <1>14, OtherMethods
  <2> QED BY <1>13, <2>1, <2>2
<1>15. CASE PackOtherwise
  <2>1. stage = "found" /\ stage' = "done" /\ UNCHANGED <<input, best, pack>>
    BY <1>15 DEF PackOtherwise, scan
  <2>2. pack'.method = "none"
    BY <1>b, <2>1 DEF Nothing
  <2> QED BY <1>4, <1>a, <2>1, <2>2
<1>16. CASE Decode
  <2>1. stage = "packed" /\ stage' = "done" /\ UNCHANGED <<input, best, pack>>
    BY <1>16 DEF Decode, scan
  <2>2. DecodesRight
    BY <2>1 DEF DecodedInv
  <2>3. ASSUME pack.method = "framed" PROVE output' = input
    <3>1. output' = DecodeFramed(pack.dict, pack.payload)
      BY <1>16, <2>3 DEF Decode
    <3> QED BY <2>2, <2>3, <3>1 DEF DecodesRight
  <2>4. ASSUME pack.method = "transformed" PROVE output' = input
    <3>1. output' = DecodeTransformed(pack.dict, pack.payload)
      BY <1>16, <2>4 DEF Decode
    <3> QED BY <2>2, <2>4, <3>1 DEF DecodesRight
  <2> QED BY <1>4, <1>a, <2>1, <2>3, <2>4
<1>17. CASE UNCHANGED vars
  <2>1. UNCHANGED <<stage, input, budget, start, cursor, run, best, stream, pack, output>>
    BY <1>17 DEF vars
  <2>2. stage' = "run" => GoodRun'
    <3>1. stage = "run" => GoodRun
      BY DEF DecodedInv
    <3> QED BY <2>1, <3>1 DEF GoodRun
  <2>3. stage' = "packed" => DecodesRight'
    <3>1. stage = "packed" => DecodesRight
      BY DEF DecodedInv
    <3> QED BY <2>1, <3>1 DEF DecodesRight, DecodeFramed, Checked, DecodeTransformed, Size
  <2>4. stage' = "done" /\ pack'.method \in {"framed", "transformed"} => output' = input'
    BY <2>1 DEF DecodedInv
  <2> QED BY <1>4, <1>a, <1>b, <2>1, <2>2, <2>3, <2>4
<1> QED BY <1>5, <1>6, <1>7, <1>8, <1>9, <1>10, <1>11, <1>12, <1>14, <1>15, <1>16, <1>17 DEF Next

(***************************************************************************)
(* The decoders accept the framed pack of every run of frames and the pack *)
(* of an input under every plan and codec, and return the input, whatever  *)
(* the widths, the budget and the plans (decode_framed_payload of          *)
(* recursive.rs and decode_adaptive_transformed_xz_payload of codecs.rs).  *)
(***************************************************************************)
THEOREM FramesAndTransformsAreDecoded ==
    Spec => [](Decoded /\ pack.method \in {"framed", "transformed"} => output = input)
<1>1. Init => DecodedInv
  <2>1. Init => RunInv
    BY PayloadAssumption DEF Init, RunInv, RunEndsWhereItMust, Size
  <2> QED BY <2>1 DEF Init, DecodedInv
<1>2. DecodedInv /\ [Next]_vars => DecodedInv'
  BY DecodedKeeps
<1>3. DecodedInv => (Decoded /\ pack.method \in {"framed", "transformed"} => output = input)
  BY DEF DecodedInv, Decoded
<1> QED BY <1>1, <1>2, <1>3, PTL DEF Spec

================================================================================
