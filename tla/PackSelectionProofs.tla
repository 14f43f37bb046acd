------------------------- MODULE PackSelectionProofs -------------------------
(***************************************************************************)
(* Proofs about PackSelection: for every set of inputs and whatever the    *)
(* codecs make of them, the pack written passes the checks of its decoder, *)
(* is no larger than it was estimated, hardly larger than a raw copy, and  *)
(* the tuning of xz is skipped where the probe loses.                      *)
(***************************************************************************)
EXTENDS PackSelection, FiniteSetTheorems, TLAPS

(***************************************************************************)
(* The inductive invariant.                                                *)
(***************************************************************************)

\* After the prelude the raw copy is always among the candidates.
Started == stage \in {"models", "xz", "choose", "write", "done"}

InputIsKnown == stage # "begin" => input \in Inputs

\* Whatever was built passes the decoder's checks of its method.
CandidatesAccepted ==
    \A m \in Methods : Built(cand[m]) => HeaderAccepted(m, cand[m])

RawCopyIsBuilt == Started => cand["RawCopy"] = Plain(n)

\* The dictionary of an adaptive candidate fits into the margin it has to win by.
AdaptiveIsShort == cand["AdaptiveTransformedXz"].dict <= 16

MatrixIsTunable == Started => Tunable(cheap, easy9, matrix)

\* What a tier promises of the candidates it was taken for.
TierHolds ==
    stage \in {"choose", "write", "done"} =>
        /\ tier # "none" =>
              \E m \in Methods : Built(cand[m]) /\ Estimate(cand[m]) < Estimate(cand["RawXz"])
        /\ tier \in {"widely", "easy9"} =>
              \E m \in Methods : Built(cand[m]) /\ Estimate(cand[m]) < HeaderBytes + matrix

\* The raw copy, where the comparison starts, is only left for less.
ChosenIsSmallest ==
    stage \in {"write", "done"} =>
        /\ Built(cand[chosen])
        /\ chosen # "RawCopy" => Estimate(cand[chosen]) < Estimate(cand["RawCopy"])
        /\ \A m \in Methods : Built(cand[m]) => Estimate(cand[chosen]) <= Estimate(cand[m])

PackIsChosen == stage = "done" => pack = cand[chosen]

SelectionInv ==
    /\ TypeOK /\ InputIsKnown /\ CandidatesAccepted /\ RawCopyIsBuilt
    /\ AdaptiveIsShort /\ MatrixIsTunable /\ TierHolds /\ ChosenIsSmallest
    /\ PackIsChosen

(***************************************************************************)
(* Methods, widths and lengths.                                            *)
(***************************************************************************)

LEMMA MethodsAre ==
    Methods = {"RawCopy", "IndexedRaw", "IndexedHuffman", "RawDeflate", "RawZstd",
               "RawXz", "RawBrotli", "FramedRaw", "RecursiveCircuitXz",
               "MonotonicDelta", "PrimeSequence", "AdaptiveTransformedXz",
               "ExactBlockAtlas", "ZipTensorSplit"}
BY DEF Methods, Order

LEMMA StructuralAreMethods == Structural \subseteq Methods /\ "RawXz" \notin Structural
BY MethodsAre DEF Structural

\* No part of an interval from one to k has more than k elements.
LEMMA PartOfInterval ==
    ASSUME NEW k \in Nat, NEW T \in SUBSET (1..k)
    PROVE  IsFiniteSet(T) /\ Cardinality(T) \in 0..k
<1>1. k - 1 + 1 = k /\ 1 \in Int /\ k \in Int
  OBVIOUS
<1>2. IsFiniteSet(1..k) /\ Cardinality(1..k) = IF 1 > k THEN 0 ELSE k - 1 + 1
  BY <1>1, FS_Interval
<1>3. IsFiniteSet(T) /\ Cardinality(T) <= Cardinality(1..k)
  BY <1>2, FS_Subset
<1>4. Cardinality(T) \in Nat
  BY <1>3, FS_CardinalityType
<1> QED BY <1>2, <1>3, <1>4

LEMMA BitsNeededType == ASSUME NEW count PROVE BitsNeeded(count) \in 1..8
<1> DEFINE T == {k \in 1..7 : count > 2 ^ k}
<1>1. T \in SUBSET (1..7)
  OBVIOUS
<1> HIDE DEF T
<1>2. Cardinality(T) \in 0..7
  BY <1>1, PartOfInterval
<1>3. BitsNeeded(count) = 1 + Cardinality(T)
  BY DEF BitsNeeded, T
<1> QED BY <1>2, <1>3

LEMMA StepsAreFinite ==
    /\ IsFiniteSet(VarintSteps) /\ Cardinality(VarintSteps) <= 4
    /\ IsFiniteSet(VarintSteps \ {268435456}) /\ Cardinality(VarintSteps \ {268435456}) <= 3
    /\ IsFiniteSet({128}) /\ Cardinality({128}) = 1
<1>1. IsFiniteSet({}) /\ Cardinality({}) = 0
  BY FS_EmptySet
<1>2. IsFiniteSet({128}) /\ Cardinality({128}) = 1
  BY FS_Singleton
<1>3. {128, 16384} = {128} \cup {16384} /\ 16384 \notin {128}
  OBVIOUS
<1>4. IsFiniteSet({128, 16384}) /\ Cardinality({128, 16384}) = 2
  BY <1>2, <1>3, FS_AddElement
<1>5. {128, 16384, 2097152} = {128, 16384} \cup {2097152} /\ 2097152 \notin {128, 16384}
  OBVIOUS
<1>6. IsFiniteSet({128, 16384, 2097152}) /\ Cardinality({128, 16384, 2097152}) = 3
  BY <1>4, <1>5, FS_AddElement
<1>7. /\ VarintSteps = {128, 16384, 2097152} \cup {268435456}
      /\ 268435456 \notin {128, 16384, 2097152}
      /\ VarintSteps \ {268435456} = {128, 16384, 2097152}
  BY DEF VarintSteps
<1>8. IsFiniteSet(VarintSteps) /\ Cardinality(VarintSteps) = 4
  BY <1>6, <1>7, FS_AddElement
<1> QED BY <1>2, <1>6, <1>7, <1>8

\* The length of a varint: at least a byte, and a byte more at every step.
LEMMA VarintLenType ==
    ASSUME NEW v \in Int
    PROVE  /\ VarintLen(v) \in 1..5
           /\ v < 128 => VarintLen(v) = 1
           /\ v < 16384 => VarintLen(v) <= 2
           /\ v < 268435456 => VarintLen(v) <= 4
<1> DEFINE T == {t \in VarintSteps : v >= t}
<1>1. /\ T \subseteq VarintSteps
      /\ v < 128 => T = {}
      /\ v < 16384 => T \subseteq {128}
      /\ v < 268435456 => T \subseteq VarintSteps \ {268435456}
  BY DEF VarintSteps
<1>2. VarintLen(v) = 1 + Cardinality(T)
  BY DEF VarintLen
<1> HIDE DEF T
<1>3. IsFiniteSet(T) /\ Cardinality(T) <= Cardinality(VarintSteps)
  BY <1>1, StepsAreFinite, FS_Subset
<1>4. Cardinality(T) \in Nat /\ Cardinality(VarintSteps) \in Nat
  BY <1>3, StepsAreFinite, FS_CardinalityType
<1>5. v < 128 => Cardinality(T) = 0
  BY <1>1, FS_EmptySet
<1>6. v < 16384 => Cardinality(T) <= 1
  BY <1>1, StepsAreFinite, FS_Subset
<1>7. v < 268435456 => Cardinality(T) <= Cardinality(VarintSteps \ {268435456})
  BY <1>1, StepsAreFinite, FS_Subset
<1>8. Cardinality(VarintSteps \ {268435456}) \in Nat
  BY StepsAreFinite, FS_CardinalityType
<1> QED BY <1>2, <1>3, <1>4, <1>5, <1>6, <1>7, <1>8, StepsAreFinite

\* A longer length takes no shorter varint.
LEMMA VarintLenMonotone ==
    ASSUME NEW v \in Int, NEW w \in Int, v <= w
    PROVE  VarintLen(v) <= VarintLen(w)
<1> DEFINE T == {t \in VarintSteps : v >= t}
           W == {t \in VarintSteps : w >= t}
<1>1. T \subseteq W /\ W \subseteq VarintSteps
  BY DEF VarintSteps
<1>2. VarintLen(v) = 1 + Cardinality(T) /\ VarintLen(w) = 1 + Cardinality(W)
  BY DEF VarintLen
<1> HIDE DEF T, W
<1>3. IsFiniteSet(W)
  BY <1>1, StepsAreFinite, FS_Subset
<1>4. IsFiniteSet(T) /\ Cardinality(T) <= Cardinality(W)
  BY <1>1, <1>3, FS_Subset
<1>5. Cardinality(T) \in Nat /\ Cardinality(W) \in Nat
  BY <1>3, <1>4, FS_CardinalityType
<1> QED BY <1>2, <1>4, <1>5

(***************************************************************************)
(* Every candidate is well formed and passes the decoder's checks.         *)
(***************************************************************************)

\* What the invariant asks of a candidate of method m.
GoodCandidate(m, c) == c \in CandidateSpace /\ (Built(c) => HeaderAccepted(m, c))

LEMMA AbsentIsGood == ASSUME NEW m PROVE GoodCandidate(m, Absent) /\ ~Built(Absent)
BY DEF GoodCandidate, Absent, Built, CandidateSpace

LEMMA PlainIsGood ==
    ASSUME NEW load \in Int, NEW m \in {"RawDeflate", "RawZstd", "RawXz", "RawBrotli"}
    PROVE  GoodCandidate(m, Plain(load))
BY DEF GoodCandidate, Plain, Candidate, CandidateSpace, HeaderAccepted

LEMMA ModelIsGood ==
    ASSUME NEW d \in Nat, NEW load \in Int, NEW m \in Structural \cup {"FramedRaw"}
    PROVE  GoodCandidate(m, Model(d, load))
BY DEF GoodCandidate, Model, Candidate, CandidateSpace, HeaderAccepted, Structural

LEMMA RawCopyIsGood ==
    ASSUME n \in Nat
    PROVE  GoodCandidate("RawCopy", Plain(n)) /\ Built(Plain(n))
BY DEF GoodCandidate, Plain, Candidate, CandidateSpace, HeaderAccepted, Built

\* The indices fill the last byte in part only, but they all fit.
LEMMA IndexStreamIsGood ==
    ASSUME input \in InputSpace
    PROVE  /\ GoodCandidate("IndexedRaw", IndexStream)
           /\ IndexStream.load \in Nat
<1> DEFINE b == BitsNeeded(input.unique)
           l == CeilDiv(n * b, 8)
<1>1. n \in Nat /\ input.unique \in 0..256
  BY DEF n, InputSpace
<1>2. b \in 1..8
  BY BitsNeededType
<1>3. IndexStream = [bits |-> b, unique |-> input.unique, dict |-> input.unique, load |-> l]
  BY DEF IndexStream, Candidate
<1> HIDE DEF b
<1>4. n * b \in Nat
  BY <1>1, <1>2
<1>5. l \in Nat /\ l * 8 >= n * b
  BY <1>4 DEF CeilDiv
<1> HIDE DEF l
<1> QED BY <1>1, <1>2, <1>3, <1>5 DEF GoodCandidate, CandidateSpace, HeaderAccepted

LEMMA SizesOfInput ==
    ASSUME input \in Inputs
    PROVE  /\ input \in InputSpace /\ n \in Nat
           /\ PlainSizes(n) \subseteq Nat /\ XzSizes(n) \subseteq Nat
           /\ ModelSizes(n) \subseteq Nat
BY InputAssumption DEF n, InputSpace

LEMMA HuffmanIsGood ==
    ASSUME input \in Inputs, NEW c \in HuffmanStreams
    PROVE  GoodCandidate("IndexedHuffman", c)
<1>1. CASE c = Absent
  BY <1>1, AbsentIsGood
<1>2. CASE c # Absent
  <2>1. PICK load \in PlainSizes(n) : c = Candidate(0, input.unique, input.unique * 2, load)
    BY <1>2 DEF HuffmanStreams
  <2>2. load \in Nat /\ input.unique \in 0..256
    BY SizesOfInput DEF InputSpace
  <2>3. c = [bits |-> 0, unique |-> input.unique, dict |-> input.unique * 2, load |-> load]
    BY <2>1 DEF Candidate
  <2> QED BY <2>2, <2>3 DEF GoodCandidate, CandidateSpace, HeaderAccepted
<1> QED BY <1>1, <1>2

LEMMA FramedDictionaryType ==
    ASSUME input \in Inputs
    PROVE  FramedDictionary(input.frames) \in Nat /\ FramedPayload(input.frames) \in Nat
<1> DEFINE f == input.frames
<1>1. /\ f.prefix \in Nat /\ f.suffix \in Nat /\ f.chunk \in Nat /\ f.full \in Nat
      /\ f.tail \in Nat /\ f.total \in Nat
  BY SizesOfInput DEF InputSpace, FrameRuns
<1> HIDE DEF f
<1>2. /\ VarintLen(f.prefix) \in Nat /\ VarintLen(f.suffix) \in Nat
      /\ VarintLen(f.chunk) \in Nat /\ VarintLen(f.full) \in Nat
      /\ VarintLen(f.tail) \in Nat /\ VarintLen(f.total) \in Nat
  BY <1>1, VarintLenType
<1>3. FramedDictionary(f) \in Nat
  BY <1>1, <1>2 DEF FramedDictionary
<1>4. f.full * f.chunk \in Nat
  BY <1>1
<1>5. FramedPayload(f) \in Nat
  BY <1>1, <1>4 DEF FramedPayload
<1> QED BY <1>3, <1>5 DEF f

LEMMA RecursiveIsGood ==
    ASSUME input \in Inputs, NEW c \in RecursiveStreams
    PROVE  GoodCandidate("RecursiveCircuitXz", c)
<1>1. CASE c = Absent
  BY <1>1, AbsentIsGood
<1>2. CASE c # Absent
  <2>1. PICK d \in RecursiveDictionaries(input.frames), load \in ModelSizes(n) :
            c = Model(d, load)
    BY <1>2 DEF RecursiveStreams
  <2>2. d \in Nat /\ load \in Nat
    BY FramedDictionaryType, SizesOfInput DEF RecursiveDictionaries
  <2> QED BY <2>1, <2>2, ModelIsGood DEF Structural
<1> QED BY <1>1, <1>2

LEMMA PrimeIsGood ==
    ASSUME NEW c \in PrimeStreams
    PROVE  GoodCandidate("PrimeSequence", c)
<1>1. CASE c = Absent
  BY <1>1, AbsentIsGood
<1>2. CASE c # Absent
  <2>1. PICK d \in PrimeDictionaries : c = Model(d, 0)
    BY <1>2 DEF PrimeStreams
  <2>2. d \in Nat
    BY DEF PrimeDictionaries
  <2> QED BY <2>1, <2>2, ModelIsGood DEF Structural
<1> QED BY <1>1, <1>2

LEMMA MonotonicIsGood ==
    ASSUME input \in Inputs, NEW prime, NEW c \in MonotonicStreams(prime)
    PROVE  GoodCandidate("MonotonicDelta", c)
<1>1. CASE c = Absent
  BY <1>1, AbsentIsGood
<1>2. CASE c # Absent
  <2>1. PICK d \in MonotonicDictionaries, load \in ModelSizes(n) : c = Model(d, load)
    BY <1>2 DEF MonotonicStreams
  <2>2. d \in Nat /\ load \in Nat
    BY SizesOfInput DEF MonotonicDictionaries
  <2> QED BY <2>1, <2>2, ModelIsGood DEF Structural
<1> QED BY <1>1, <1>2

LEMMA AdaptiveIsGood ==
    ASSUME input \in Inputs, NEW recursive, NEW c \in AdaptiveStreams(recursive)
    PROVE  GoodCandidate("AdaptiveTransformedXz", c) /\ c.dict <= 16
<1>1. CASE c = Absent
  BY <1>1, AbsentIsGood DEF Absent
<1>2. CASE c # Absent
  <2>1. PICK d \in AdaptiveDictionaries(n), load \in ModelSizes(n) : c = Model(d, load)
    BY <1>2 DEF AdaptiveStreams
  <2>2. n \in Nat /\ load \in Nat
    BY SizesOfInput
  <2>3. VarintLen(n) \in 1..5
    BY <2>2, VarintLenType
  <2>4. d \in Nat /\ d <= 16
    BY <2>3 DEF AdaptiveDictionaries
  <2> QED BY <2>1, <2>2, <2>4, ModelIsGood DEF Structural, Model, Candidate
<1> QED BY <1>1, <1>2

LEMMA AtlasIsGood ==
    ASSUME input \in Inputs, NEW c \in AtlasStreams
    PROVE  GoodCandidate("ExactBlockAtlas", c)
<1>1. CASE c = Absent
  BY <1>1, AbsentIsGood
<1>2. CASE c # Absent
  <2>1. PICK d \in AtlasDictionaries, load \in ModelSizes(n) : c = Model(d, load)
    BY <1>2 DEF AtlasStreams
  <2>2. d \in Nat /\ load \in Nat
    BY SizesOfInput DEF AtlasDictionaries
  <2> QED BY <2>1, <2>2, ModelIsGood DEF Structural
<1> QED BY <1>1, <1>2

LEMMA ZipIsGood ==
    ASSUME input \in Inputs, NEW c \in ZipSplits
    PROVE  /\ c \in CandidateSpace
           /\ GoodCandidate("ZipTensorSplit", ZipStream(c))
<1>1. GoodCandidate("ZipTensorSplit", c)
  <2>1. CASE c = Absent
    BY <2>1, AbsentIsGood
  <2>2. CASE c # Absent
    <3>1. PICK d \in ZipDictionaries, load \in ModelSizes(n) : c = Model(d, load)
      BY <2>2 DEF ZipSplits
    <3>2. d \in Nat /\ load \in Nat
      BY SizesOfInput DEF ZipDictionaries
    <3> QED BY <3>1, <3>2, ModelIsGood DEF Structural
  <2> QED BY <2>1, <2>2
<1>2. ZipStream(c) \in {c, Absent}
  BY DEF ZipStream
<1> QED BY <1>1, <1>2, AbsentIsGood DEF GoodCandidate

\* The candidates are good together with their methods, and those of other methods
\* are unchanged.
LEMMA CandidatesAreGood ==
    ASSUME cand \in [Methods -> CandidateSpace]
    PROVE  CandidatesAccepted <=> \A m \in Methods : GoodCandidate(m, cand[m])
BY DEF CandidatesAccepted, GoodCandidate

(***************************************************************************)
(* One lemma for every step.                                               *)
(***************************************************************************)

LEMMA SelectionInit == Init => SelectionInv
<1> SUFFICES ASSUME Init PROVE SelectionInv
  OBVIOUS
<1> USE DEF Init
<1>1. Absent \in CandidateSpace /\ ~Built(Absent) /\ Absent.dict = 0
  BY DEF Absent, Built, CandidateSpace
<1>2. cand \in [Methods -> CandidateSpace] /\ \A m \in Methods : cand[m] = Absent
  BY <1>1
<1>3. input \in InputSpace
  BY DEF InputSpace, FrameRuns, NoFrames
<1>4. "RawCopy" \in Methods /\ "AdaptiveTransformedXz" \in Methods
  BY MethodsAre
<1>5. TypeOK
  BY <1>1, <1>2, <1>3, <1>4 DEF TypeOK
<1>6. CandidatesAccepted /\ AdaptiveIsShort
  BY <1>1, <1>2, <1>4 DEF CandidatesAccepted, AdaptiveIsShort
<1> QED
  BY <1>5, <1>6 DEF SelectionInv, InputIsKnown, RawCopyIsBuilt, Started, MatrixIsTunable,
                    TierHolds, ChosenIsSmallest, PackIsChosen

LEMMA BeginInv ==
    ASSUME SelectionInv, NEW i \in Inputs, Begin(i)
    PROVE  SelectionInv'
<1>1. Absent \in CandidateSpace /\ ~Built(Absent) /\ Absent.dict = 0
  BY DEF Absent, Built, CandidateSpace
<1>2. cand' \in [Methods -> CandidateSpace] /\ \A m \in Methods : cand'[m] = Absent
  BY <1>1 DEF Begin
<1>3. input' \in InputSpace
  BY InputAssumption DEF Begin
<1>4. "RawCopy" \in Methods /\ "AdaptiveTransformedXz" \in Methods
  BY MethodsAre
<1>5. TypeOK'
  BY <1>1, <1>2, <1>3, <1>4 DEF TypeOK, Begin
<1>6. CandidatesAccepted' /\ AdaptiveIsShort'
  BY <1>1, <1>2, <1>4 DEF CandidatesAccepted, AdaptiveIsShort
<1>7. stage' = "prelude" /\ InputIsKnown'
  BY DEF Begin, InputIsKnown
<1> QED
  BY <1>5, <1>6, <1>7 DEF SelectionInv, RawCopyIsBuilt, Started, MatrixIsTunable,
                          TierHolds, ChosenIsSmallest, PackIsChosen

LEMMA PreludeInv == SelectionInv /\ Prelude => SelectionInv'
<1> SUFFICES ASSUME SelectionInv, Prelude PROVE SelectionInv'
  OBVIOUS
<1> USE DEF SelectionInv
<1>1. input \in Inputs /\ input' = input /\ n' = n /\ stage = "prelude" /\ stage' = "models"
  BY DEF Prelude, InputIsKnown, n
<1>2. PICK huffman \in HuffmanStreams, d \in PlainSizes(n), z \in PlainSizes(n),
          brotli \in {Absent} \cup {Plain(b) : b \in PlainSizes(n)},
          c \in XzSizes(n), e \in XzSizes(n), m \in XzSizes(n) :
         /\ Tunable(c, e, m)
         /\ cheap' = c /\ easy9' = e /\ matrix' = m
         /\ cand' = [cand EXCEPT !.RawCopy = Plain(n),
                                 !.IndexedRaw = IndexStream,
                                 !.IndexedHuffman = huffman,
                                 !.RawDeflate = Plain(d),
                                 !.RawZstd = Plain(z),
                                 !.RawBrotli = brotli,
                                 !.FramedRaw =
                                     IF input.frames = NoFrames THEN Absent
                                     ELSE Model(FramedDictionary(input.frames),
                                                FramedPayload(input.frames))]
  BY ZenonT(20) DEF Prelude
<1> DEFINE framed == IF input.frames = NoFrames THEN Absent
                     ELSE Model(FramedDictionary(input.frames),
                                FramedPayload(input.frames))
<1>3. d \in Nat /\ z \in Nat /\ c \in Nat /\ e \in Nat /\ m \in Nat /\ n \in Nat
  BY <1>1, SizesOfInput
<1>4. /\ GoodCandidate("RawCopy", Plain(n))
      /\ GoodCandidate("RawDeflate", Plain(d))
      /\ GoodCandidate("RawZstd", Plain(z))
  BY <1>3, RawCopyIsGood, PlainIsGood
<1>5. GoodCandidate("IndexedRaw", IndexStream) /\ GoodCandidate("IndexedHuffman", huffman)
  BY <1>1, SizesOfInput, IndexStreamIsGood, HuffmanIsGood
<1>6. GoodCandidate("RawBrotli", brotli)
  <2>1. CASE brotli = Absent
    BY <2>1, AbsentIsGood
  <2>2. CASE brotli # Absent
    <3>1. PICK b \in PlainSizes(n) : brotli = Plain(b)
      BY <2>2
    <3> QED BY <1>1, <3>1, SizesOfInput, PlainIsGood
  <2> QED BY <2>1, <2>2
<1>7. GoodCandidate("FramedRaw", framed)
  BY <1>1, FramedDictionaryType, AbsentIsGood, ModelIsGood
<1> HIDE DEF framed
<1>8. \A x \in Methods : GoodCandidate(x, cand[x])
  BY CandidatesAreGood DEF TypeOK
<1>9. /\ cand' = [x \in Methods |->
                    CASE x = "RawCopy" -> Plain(n)
                      [] x = "IndexedRaw" -> IndexStream
                      [] x = "IndexedHuffman" -> huffman
                      [] x = "RawDeflate" -> Plain(d)
                      [] x = "RawZstd" -> Plain(z)
                      [] x = "RawBrotli" -> brotli
                      [] x = "FramedRaw" -> framed
                      [] OTHER -> cand[x]]
  BY <1>2, MethodsAre DEF TypeOK, framed
<1>10. \A x \in Methods : GoodCandidate(x, cand'[x])
  BY <1>4, <1>5, <1>6, <1>7, <1>8, <1>9
<1>11. cand' \in [Methods -> CandidateSpace]
  BY <1>9, <1>10 DEF GoodCandidate
<1>12. CandidatesAccepted'
  BY <1>1, <1>10 DEF CandidatesAccepted, GoodCandidate, HeaderAccepted
<1>13. TypeOK'
  BY <1>1, <1>2, <1>3, <1>11 DEF TypeOK, Prelude
<1>14. cand'["RawCopy"] = Plain(n) /\ cand'["AdaptiveTransformedXz"] = cand["AdaptiveTransformedXz"]
  BY <1>9, MethodsAre
<1>15. RawCopyIsBuilt' /\ AdaptiveIsShort' /\ MatrixIsTunable' /\ InputIsKnown'
  BY <1>1, <1>2, <1>14
     DEF RawCopyIsBuilt, AdaptiveIsShort, MatrixIsTunable, InputIsKnown, Plain, Candidate
<1> QED
  BY <1>1, <1>12, <1>13, <1>15 DEF TierHolds, ChosenIsSmallest, PackIsChosen

LEMMA ModelsInv == SelectionInv /\ Models => SelectionInv'
<1> SUFFICES ASSUME SelectionInv, Models PROVE SelectionInv'
  OBVIOUS
<1> USE DEF SelectionInv
<1>1. input \in Inputs /\ input' = input /\ n' = n /\ stage = "models" /\ stage' = "xz"
  BY DEF Models, InputIsKnown, n
<1>2. PICK recursive \in RecursiveStreams, prime \in PrimeStreams :
      \E monotonic \in MonotonicStreams(prime),
          adaptive \in AdaptiveStreams(recursive),
          atlas \in AtlasStreams, zip \in ZipSplits :
         /\ split' = zip
         /\ cand' = [cand EXCEPT !.RecursiveCircuitXz = recursive,
                                 !.PrimeSequence = prime,
                                 !.MonotonicDelta = monotonic,
                                 !.AdaptiveTransformedXz = adaptive,
                                 !.ExactBlockAtlas = atlas,
                                 !.ZipTensorSplit = ZipStream(zip)]
  BY DEF Models
<1>3. PICK monotonic \in MonotonicStreams(prime),
          adaptive \in AdaptiveStreams(recursive),
          atlas \in AtlasStreams, zip \in ZipSplits :
         /\ split' = zip
         /\ cand' = [cand EXCEPT !.RecursiveCircuitXz = recursive,
                                 !.PrimeSequence = prime,
                                 !.MonotonicDelta = monotonic,
                                 !.AdaptiveTransformedXz = adaptive,
                                 !.ExactBlockAtlas = atlas,
                                 !.ZipTensorSplit = ZipStream(zip)]
  BY <1>2
<1>4. /\ GoodCandidate("RecursiveCircuitXz", recursive)
      /\ GoodCandidate("PrimeSequence", prime)
      /\ GoodCandidate("MonotonicDelta", monotonic)
      /\ GoodCandidate("AdaptiveTransformedXz", adaptive) /\ adaptive.dict <= 16
      /\ GoodCandidate("ExactBlockAtlas", atlas)
      /\ GoodCandidate("ZipTensorSplit", ZipStream(zip)) /\ zip \in CandidateSpace
  BY <1>1, RecursiveIsGood, PrimeIsGood, MonotonicIsGood, AdaptiveIsGood, AtlasIsGood,
     ZipIsGood
<1>5. \A x \in Methods : GoodCandidate(x, cand[x])
  BY CandidatesAreGood DEF TypeOK
<1>6. /\ cand' = [x \in Methods |->
                    CASE x = "RecursiveCircuitXz" -> recursive
                      [] x = "PrimeSequence" -> prime
                      [] x = "MonotonicDelta" -> monotonic
                      [] x = "AdaptiveTransformedXz" -> adaptive
                      [] x = "ExactBlockAtlas" -> atlas
                      [] x = "ZipTensorSplit" -> ZipStream(zip)
                      [] OTHER -> cand[x]]
  BY <1>3, MethodsAre DEF TypeOK
<1>7. \A x \in Methods : GoodCandidate(x, cand'[x])
  BY <1>4, <1>5, <1>6
<1>8. cand' \in [Methods -> CandidateSpace]
  BY <1>6, <1>7 DEF GoodCandidate
<1>9. CandidatesAccepted'
  BY <1>1, <1>7 DEF CandidatesAccepted, GoodCandidate, HeaderAccepted
<1>10. TypeOK'
  BY <1>1, <1>3, <1>4, <1>8 DEF TypeOK, Models
<1>11. cand'["RawCopy"] = cand["RawCopy"] /\ cand'["AdaptiveTransformedXz"] = adaptive
  BY <1>6, MethodsAre
<1>12. RawCopyIsBuilt' /\ AdaptiveIsShort' /\ InputIsKnown'
  BY <1>1, <1>4, <1>11
     DEF RawCopyIsBuilt, AdaptiveIsShort, InputIsKnown, Started, Plain, Candidate
<1>13. MatrixIsTunable'
  BY <1>1 DEF MatrixIsTunable, Started, Models, Tunable
<1> QED
  BY <1>1, <1>9, <1>10, <1>12, <1>13 DEF TierHolds, ChosenIsSmallest, PackIsChosen

\* Estimates are numbers.
LEMMA EstimateType ==
    ASSUME TypeOK, NEW m \in Methods
    PROVE  /\ Estimate(cand[m]) \in Int
           /\ Estimate(cand[m]) = HeaderBytes + cand[m].dict + cand[m].load
           /\ cand[m].dict \in Nat /\ cand[m].load \in Int
BY DEF TypeOK, CandidateSpace, Estimate, HeaderBytes

\* A tier is only taken if some candidate is smaller than the probe that will stand
\* in for the matrix, and than anything the matrix could make if it is a wide one.
LEMMA AdaptiveTier ==
    ASSUME TypeOK, AdaptiveIsShort, AdaptiveClearlyWins
    PROVE  \E m \in Structural : Built(cand[m]) /\ Estimate(cand[m]) < HeaderBytes + cheap
<1> DEFINE a == "AdaptiveTransformedXz"
<1>1. a \in Methods /\ a \in Structural
  BY MethodsAre DEF Structural
<1>2. Built(cand[a]) /\ cand[a].load + 1024 < cheap /\ cand[a].dict <= 16
  BY DEF AdaptiveClearlyWins, AdaptiveIsShort
<1>3. Estimate(cand[a]) < HeaderBytes + cheap
  BY <1>1, <1>2, EstimateType DEF TypeOK, HeaderBytes
<1> QED BY <1>1, <1>2, <1>3

LEMMA WideTier ==
    ASSUME TypeOK, Tunable(cheap, easy9, matrix), BeatsCheapWidely
    PROVE  \E m \in Structural :
               /\ Built(cand[m])
               /\ Estimate(cand[m]) < HeaderBytes + cheap
               /\ Estimate(cand[m]) < HeaderBytes + matrix
<1>1. PICK m \in Structural : Built(cand[m]) /\ Estimate(cand[m]) + 1024 <= (CheapTotal * 5) \div 8
  BY DEF BeatsCheapWidely, StructuralBelow, BuiltStructural
<1>2. m \in Methods /\ cheap \in Nat /\ matrix \in Nat
  BY StructuralAreMethods DEF TypeOK
<1>3. Estimate(cand[m]) \in Int
  BY <1>2, EstimateType
<1>4. matrix * 8 >= cheap * 5
  BY DEF Tunable
<1>5. Estimate(cand[m]) + 1024 <= ((29 + cheap) * 5) \div 8
  BY <1>1 DEF CheapTotal, HeaderBytes
<1>6. Estimate(cand[m]) < 29 + cheap /\ Estimate(cand[m]) < 29 + matrix
  BY <1>2, <1>3, <1>4, <1>5
<1> QED BY <1>1, <1>6 DEF HeaderBytes

LEMMA CheapTier ==
    ASSUME TypeOK, BeatsCheap
    PROVE  \E m \in Structural : Built(cand[m]) /\ Estimate(cand[m]) < HeaderBytes + cheap
<1>1. PICK m \in Structural : Built(cand[m]) /\ Estimate(cand[m]) + 1024 <= CheapTotal - 1
  BY DEF BeatsCheap, StructuralBelow, BuiltStructural
<1>2. m \in Methods /\ cheap \in Nat
  BY StructuralAreMethods DEF TypeOK
<1> QED BY <1>1, <1>2, EstimateType DEF CheapTotal, HeaderBytes

LEMMA EasyTier ==
    ASSUME TypeOK, Tunable(cheap, easy9, matrix), BeatsEasy9
    PROVE  \E m \in Structural :
               /\ Built(cand[m])
               /\ Estimate(cand[m]) < HeaderBytes + easy9
               /\ Estimate(cand[m]) < HeaderBytes + matrix
<1>1. PICK m \in Structural :
          /\ Built(cand[m])
          /\ Estimate(cand[m]) + 1024
                <= (HeaderBytes + easy9) - (HeaderBytes + easy9) \div 16
  BY DEF BeatsEasy9, StructuralBelow, BuiltStructural
<1>2. m \in Methods /\ easy9 \in Nat /\ matrix \in Nat
  BY StructuralAreMethods DEF TypeOK
<1>3. Estimate(cand[m]) \in Int
  BY <1>2, EstimateType
<1>4. matrix * 16 >= easy9 * 15
  BY DEF Tunable
<1>5. Estimate(cand[m]) + 1024 <= (29 + easy9) - (29 + easy9) \div 16
  BY <1>1 DEF HeaderBytes
<1>6. Estimate(cand[m]) < 29 + easy9 /\ Estimate(cand[m]) < 29 + matrix
  BY <1>2, <1>3, <1>4, <1>5
<1> QED BY <1>1, <1>6 DEF HeaderBytes

LEMMA TuneXzInv == SelectionInv /\ TuneXz => SelectionInv'
<1> SUFFICES ASSUME SelectionInv, TuneXz PROVE SelectionInv'
  OBVIOUS
<1> USE DEF SelectionInv
<1> DEFINE load == CASE Tier \in {"adaptive", "widely"} -> cheap
                     [] Tier = "easy9" -> IF easy9 < cheap THEN easy9 ELSE cheap
                     [] Tier = "none" -> matrix
<1>1. /\ input \in Inputs /\ input' = input /\ n' = n /\ stage = "xz" /\ stage' = "choose"
      /\ cheap' = cheap /\ easy9' = easy9 /\ matrix' = matrix /\ split' = split
      /\ chosen' = chosen /\ pack' = pack
  BY DEF TuneXz, InputIsKnown, n
<1>2. tier' = Tier /\ cand' = [cand EXCEPT !["RawXz"] = Plain(load)]
  BY DEF TuneXz
<1>3. /\ Tier \in {"none", "adaptive", "widely", "easy9"}
      /\ Tier = "adaptive" => AdaptiveClearlyWins
      /\ Tier = "widely" => BeatsCheapWidely
      /\ Tier = "easy9" => BeatsCheap /\ BeatsEasy9
  BY DEF Tier
<1>4. /\ Tier \in {"adaptive", "widely"} => load = cheap
      /\ Tier = "easy9" => load = IF easy9 < cheap THEN easy9 ELSE cheap
      /\ load \in Nat
  BY <1>3 DEF TypeOK
<1> HIDE DEF load
<1>5. GoodCandidate("RawXz", Plain(load)) /\ Plain(load).dict = 0 /\ Plain(load).load = load
  BY <1>4, PlainIsGood DEF Plain, Candidate
<1>6. "RawXz" \in Methods /\ "RawCopy" \in Methods /\ "AdaptiveTransformedXz" \in Methods
  BY MethodsAre
<1>7. /\ cand' \in [Methods -> CandidateSpace]
      /\ cand'["RawXz"] = Plain(load)
      /\ \A x \in Methods : x # "RawXz" => cand'[x] = cand[x]
  BY <1>2, <1>5, <1>6 DEF TypeOK, GoodCandidate
<1>8. \A x \in Methods : GoodCandidate(x, cand[x])
  BY CandidatesAreGood DEF TypeOK
<1>9. \A x \in Methods : GoodCandidate(x, cand'[x])
  BY <1>5, <1>7, <1>8
<1>10. CandidatesAccepted'
  BY <1>1, <1>9 DEF CandidatesAccepted, GoodCandidate, HeaderAccepted
<1>11. TypeOK'
  BY <1>1, <1>2, <1>3, <1>7 DEF TypeOK
<1>12. RawCopyIsBuilt' /\ AdaptiveIsShort' /\ InputIsKnown'
  BY <1>1, <1>6, <1>7
     DEF RawCopyIsBuilt, AdaptiveIsShort, InputIsKnown, Started, Plain, Candidate
<1>13. Tunable(cheap, easy9, matrix)
  BY <1>1 DEF MatrixIsTunable, Started
<1>14. MatrixIsTunable'
  BY <1>1, <1>13 DEF MatrixIsTunable, Tunable
<1>15. Estimate(cand'["RawXz"]) = HeaderBytes + load
  BY <1>4, <1>5, <1>7 DEF Estimate, HeaderBytes
<1>16. Tier # "none" =>
          \E m \in Structural : Built(cand[m]) /\ Estimate(cand[m]) < HeaderBytes + load
  BY <1>3, <1>4, <1>13, AdaptiveTier, WideTier, CheapTier, EasyTier
<1>17. Tier \in {"widely", "easy9"} =>
          \E m \in Structural : Built(cand[m]) /\ Estimate(cand[m]) < HeaderBytes + matrix
  BY <1>3, <1>13, WideTier, EasyTier
<1>18. \A m \in Structural : m \in Methods /\ cand'[m] = cand[m]
  BY <1>7, StructuralAreMethods
<1>19. TierHolds'
  <2>1. tier' # "none" => \E m \in Methods : /\ Built(cand'[m])
                                             /\ Estimate(cand'[m]) < Estimate(cand'["RawXz"])
    BY <1>2, <1>15, <1>16, <1>18
  <2>2. tier' \in {"widely", "easy9"} =>
           \E m \in Methods : Built(cand'[m]) /\ Estimate(cand'[m]) < HeaderBytes + matrix'
    BY <1>1, <1>2, <1>17, <1>18
  <2> QED BY <2>1, <2>2 DEF TierHolds
<1> QED
  BY <1>1, <1>10, <1>11, <1>12, <1>14, <1>19 DEF ChosenIsSmallest, PackIsChosen

LEMMA ChooseInv == SelectionInv /\ Choose => SelectionInv'
<1> SUFFICES ASSUME SelectionInv, Choose PROVE SelectionInv'
  OBVIOUS
<1> USE DEF SelectionInv
<1>1. /\ stage = "choose" /\ stage' = "write"
      /\ UNCHANGED <<input, cand, cheap, easy9, matrix, tier, split, pack>> /\ n' = n
  BY DEF Choose, n
<1>2. PICK k \in DOMAIN Order : Evaluated(Order[k]) /\ FirstOfSmallest(k) /\ chosen' = Order[k]
  BY DEF Choose
<1>3. chosen' \in Methods
  BY <1>2 DEF Methods
<1>4. cand["RawCopy"] = Plain(n) /\ n \in Nat
  BY <1>1, SizesOfInput DEF RawCopyIsBuilt, Started, InputIsKnown
<1>5. Built(cand["RawCopy"])
  BY <1>4, RawCopyIsGood
<1>6. Built(cand[chosen'])
  BY <1>2, <1>5 DEF Evaluated
<1>7. \A m \in Methods : Built(cand[m]) => Estimate(cand[chosen']) <= Estimate(cand[m])
  <2> SUFFICES ASSUME NEW m \in Methods, Built(cand[m])
               PROVE  Estimate(cand[chosen']) <= Estimate(cand[m])
    OBVIOUS
  <2>1. PICK j \in DOMAIN Order : m = Order[j]
    BY DEF Methods
  <2> QED BY <1>2, <2>1 DEF FirstOfSmallest, Evaluated
<1>8. chosen' # "RawCopy" => Estimate(cand[chosen']) < Estimate(cand["RawCopy"])
  <2>1. 1 \in DOMAIN Order /\ Order[1] = "RawCopy" /\ DOMAIN Order \subseteq Nat \ {0}
    BY DEF Order
  <2>2. chosen' # "RawCopy" => 1 < k
    BY <1>2, <2>1
  <2> QED BY <1>2, <1>5, <2>1, <2>2 DEF FirstOfSmallest, Evaluated
<1>9. ChosenIsSmallest'
  BY <1>1, <1>6, <1>7, <1>8 DEF ChosenIsSmallest
<1>10. TypeOK'
  BY <1>1, <1>3 DEF TypeOK
<1>11. TierHolds'
  BY <1>1 DEF TierHolds
<1>12. InputIsKnown' /\ RawCopyIsBuilt' /\ AdaptiveIsShort' /\ MatrixIsTunable'
  BY <1>1 DEF InputIsKnown, RawCopyIsBuilt, AdaptiveIsShort, MatrixIsTunable, Started,
              Plain, Candidate, Tunable
<1>13. CandidatesAccepted'
  BY <1>1 DEF CandidatesAccepted, Built, HeaderAccepted
<1> QED BY <1>1, <1>10, <1>11, <1>12, <1>13, <1>9 DEF PackIsChosen

\* The chosen stream is always there.
LEMMA WriteSucceedsStep == SelectionInv /\ Write => stage' = "done" /\ pack' = cand[chosen]
BY DEF SelectionInv, Write, ChosenIsSmallest

LEMMA WriteInv == SelectionInv /\ Write => SelectionInv'
<1> SUFFICES ASSUME SelectionInv, Write PROVE SelectionInv'
  OBVIOUS
<1> USE DEF SelectionInv
<1>1. /\ stage = "write" /\ stage' = "done" /\ pack' = cand[chosen] /\ n' = n
      /\ UNCHANGED <<input, cand, cheap, easy9, matrix, tier, split, chosen>>
  BY WriteSucceedsStep DEF Write, n
<1>2. TypeOK'
  BY <1>1 DEF TypeOK
<1>3. TierHolds' /\ ChosenIsSmallest' /\ PackIsChosen'
  BY <1>1 DEF TierHolds, ChosenIsSmallest, PackIsChosen
<1>4. InputIsKnown' /\ RawCopyIsBuilt' /\ AdaptiveIsShort' /\ MatrixIsTunable'
  BY <1>1 DEF InputIsKnown, RawCopyIsBuilt, AdaptiveIsShort, MatrixIsTunable, Started,
              Plain, Candidate, Tunable
<1>5. CandidatesAccepted'
  BY <1>1 DEF CandidatesAccepted, Built, HeaderAccepted
<1> QED BY <1>2, <1>3, <1>4, <1>5

LEMMA CodecFailsInv == SelectionInv /\ CodecFails => SelectionInv'
<1> SUFFICES ASSUME SelectionInv, CodecFails PROVE SelectionInv'
  OBVIOUS
<1> USE DEF SelectionInv
<1>1. /\ stage # "begin" /\ stage' = "failed" /\ n' = n
      /\ UNCHANGED <<input, cand, cheap, easy9, matrix, tier, split, chosen, pack>>
  BY DEF CodecFails, n
<1>2. TypeOK' /\ InputIsKnown' /\ AdaptiveIsShort'
  BY <1>1 DEF TypeOK, InputIsKnown, AdaptiveIsShort
<1>3. CandidatesAccepted'
  BY <1>1 DEF CandidatesAccepted, Built, HeaderAccepted
<1> QED
  BY <1>1, <1>2, <1>3 DEF RawCopyIsBuilt, Started, MatrixIsTunable, TierHolds,
                          ChosenIsSmallest, PackIsChosen

LEMMA SelectionStutter == SelectionInv /\ UNCHANGED vars => SelectionInv'
<1> SUFFICES ASSUME SelectionInv, UNCHANGED vars PROVE SelectionInv'
  OBVIOUS
<1> USE DEF SelectionInv
<1>1. UNCHANGED <<stage, input, cand, cheap, easy9, matrix, tier, split, chosen, pack>> /\ n' = n
  BY DEF vars, n
<1>2. TypeOK' /\ InputIsKnown' /\ AdaptiveIsShort' /\ RawCopyIsBuilt' /\ MatrixIsTunable'
  BY <1>1 DEF TypeOK, InputIsKnown, AdaptiveIsShort, RawCopyIsBuilt, MatrixIsTunable,
              Started, Plain, Candidate, Tunable
<1>3. CandidatesAccepted'
  BY <1>1 DEF CandidatesAccepted, Built, HeaderAccepted
<1>4. TierHolds' /\ ChosenIsSmallest' /\ PackIsChosen'
  BY <1>1 DEF TierHolds, ChosenIsSmallest, PackIsChosen
<1> QED BY <1>2, <1>3, <1>4

\* Every step keeps the invariant.
LEMMA SelectionStep == SelectionInv /\ [Next]_vars => SelectionInv'
BY BeginInv, PreludeInv, ModelsInv, TuneXzInv, ChooseInv, WriteInv, CodecFailsInv,
   SelectionStutter DEF Next

(***************************************************************************)
(* The theorems.                                                           *)
(***************************************************************************)

\* The candidates of a call, the tier, the choice and the pack always fit together
\* (compress_adaptive_to_bytes_inner).
THEOREM SelectionInvariant == Spec => []SelectionInv
<1>1. Init => SelectionInv
  BY SelectionInit
<1>2. SelectionInv /\ [Next]_vars => SelectionInv'
  BY SelectionStep
<1> QED BY <1>1, <1>2, PTL DEF Spec

\* The locals of the call keep their types: widths are of at most 8 bits, tables of
\* at most 256 symbols, and no length is negative.
THEOREM SelectionTypes == Spec => []TypeOK
<1>1. SelectionInv => TypeOK
  BY DEF SelectionInv
<1> QED BY <1>1, SelectionInvariant, PTL

\* The header of every pack written passes the decoder's checks of its method.
THEOREM HeadersAreAccepted == Spec => []DecoderAcceptsHeader
<1>1. SelectionInv => DecoderAcceptsHeader
  BY DEF SelectionInv, DecoderAcceptsHeader, PackIsChosen, ChosenIsSmallest,
         CandidatesAccepted, TypeOK
<1> QED BY <1>1, SelectionInvariant, PTL

\* write_pack_bytes never misses the stream of the method that was chosen.
THEOREM EveryWriteSucceeds == Spec => WriteSucceeds
<1>1. SelectionInv /\ [Next]_vars => [Write => stage' = "done"]_vars
  BY WriteSucceedsStep
<1> QED BY <1>1, SelectionInvariant, PTL DEF Spec, WriteSucceeds

\* No pack is larger than the estimate it was chosen for: the varints of the header
\* stay within the five bytes each that the estimate allows.
THEOREM PacksFitTheirEstimate == Spec => []PackWithinEstimate
<1>1. SelectionInv => PackWithinEstimate
  <2> SUFFICES ASSUME SelectionInv, stage = "done"
               PROVE  PackLength(pack, n) <= Estimate(pack)
    BY DEF PackWithinEstimate
  <2>1. pack \in CandidateSpace /\ n \in Nat
    BY SizesOfInput DEF SelectionInv, TypeOK, InputIsKnown
  <2>2. pack.unique \in Int /\ pack.dict \in Nat /\ pack.load \in Int
    BY <2>1 DEF CandidateSpace
  <2>3. /\ VarintLen(pack.unique) \in 1..5 /\ VarintLen(n) \in 1..5
        /\ VarintLen(pack.dict) \in 1..5 /\ VarintLen(pack.load) \in 1..5
    BY <2>1, <2>2, VarintLenType
  <2> QED BY <2>1, <2>2, <2>3 DEF PackLength, Estimate, FixedHeader, HeaderBytes
<1> QED BY <1>1, SelectionInvariant, PTL

\* The probe that stands in for a matrix that was skipped is never chosen: there is
\* a smaller candidate.
THEOREM ProbesLose == Spec => []ProbeLoses
<1>1. SelectionInv => ProbeLoses
  <2> SUFFICES ASSUME SelectionInv, stage = "done", tier # "none" PROVE chosen # "RawXz"
    BY DEF ProbeLoses
  <2>1. PICK m \in Methods : Built(cand[m]) /\ Estimate(cand[m]) < Estimate(cand["RawXz"])
    BY DEF SelectionInv, TierHolds
  <2>2. Estimate(cand[chosen]) <= Estimate(cand[m])
    BY <2>1 DEF SelectionInv, ChosenIsSmallest
  <2>3. Estimate(cand[m]) \in Int /\ Estimate(cand["RawXz"]) \in Int
    BY EstimateType, MethodsAre DEF SelectionInv
  <2>4. Estimate(cand[chosen]) \in Int
    BY EstimateType DEF SelectionInv, TypeOK
  <2> QED BY <2>1, <2>2, <2>3, <2>4
<1> QED BY <1>1, SelectionInvariant, PTL

\* Where a structural candidate is why the matrix is skipped, nothing the matrix
\* could make would have been smaller than the pack.
THEOREM StructuralTiersLoseNothing == Spec => []StructuralTiersAreSafe
<1>1. SelectionInv => StructuralTiersAreSafe
  <2> SUFFICES ASSUME SelectionInv, stage = "done", tier \in {"widely", "easy9"}
               PROVE  Estimate(pack) < HeaderBytes + matrix
    BY DEF StructuralTiersAreSafe
  <2>1. PICK m \in Methods : Built(cand[m]) /\ Estimate(cand[m]) < HeaderBytes + matrix
    BY DEF SelectionInv, TierHolds
  <2>2. Estimate(cand[chosen]) <= Estimate(cand[m]) /\ pack = cand[chosen]
    BY <2>1 DEF SelectionInv, ChosenIsSmallest, PackIsChosen
  <2>3. Estimate(cand[m]) \in Int /\ Estimate(cand[chosen]) \in Int /\ matrix \in Nat
    BY EstimateType DEF SelectionInv, TypeOK
  <2> QED BY <2>1, <2>2, <2>3 DEF HeaderBytes
<1> QED BY <1>1, SelectionInvariant, PTL

\* A table of symbols only goes with a dictionary of one or two bytes for each.
LEMMA TablesAreShort ==
    ASSUME SelectionInv, stage = "done"
    PROVE  /\ pack.unique \in 0..256 /\ pack.dict \in Nat /\ pack.load \in Nat
           /\ pack.unique > 0 => pack.dict <= 512
<1>1. /\ pack = cand[chosen] /\ chosen \in Methods /\ Built(cand[chosen])
      /\ cand[chosen] \in CandidateSpace /\ HeaderAccepted(chosen, pack)
  BY DEF SelectionInv, PackIsChosen, ChosenIsSmallest, TypeOK, CandidatesAccepted
<1>2. pack.unique \in 0..256 /\ pack.dict \in Nat /\ pack.load \in Nat
  BY <1>1 DEF CandidateSpace, Built
<1>3. chosen \notin {"IndexedRaw", "IndexedHuffman"} => pack.unique = 0
  BY <1>1 DEF HeaderAccepted, Plain, Candidate
<1>4. chosen \in {"IndexedRaw", "IndexedHuffman"} => pack.dict \in {pack.unique, 2 * pack.unique}
  BY <1>1 DEF HeaderAccepted
<1> QED BY <1>2, <1>3, <1>4

\* A pack may be larger than the raw copy that it replaced, by the few bytes that
\* its longer varints take.
THEOREM PacksAreNearlyRaw == Spec => []NearlyNeverWorseThanRaw
<1>1. SelectionInv => NearlyNeverWorseThanRaw
  <2> DEFINE wide == pack.dict >= 256 * MiB /\ pack.load >= 256 * MiB
             u == VarintLen(pack.unique)
             d == VarintLen(pack.dict)
             l == VarintLen(pack.load)
             s == VarintLen(n)
  <2> SUFFICES ASSUME SelectionInv, stage = "done"
               PROVE  PackLength(pack, n) <= PackLength(Plain(n), n) + (IF wide THEN 3 ELSE 2)
    BY DEF NearlyNeverWorseThanRaw
  <2>1. n \in Nat /\ pack = cand[chosen] /\ chosen \in Methods
    BY SizesOfInput DEF SelectionInv, InputIsKnown, PackIsChosen, TypeOK
  <2>2. /\ pack.unique \in 0..256 /\ pack.dict \in Nat /\ pack.load \in Nat
        /\ pack.unique > 0 => pack.dict <= 512
    BY TablesAreShort
  <2>3. cand["RawCopy"] = Plain(n)
    BY DEF SelectionInv, RawCopyIsBuilt, Started
  <2>4. CASE chosen = "RawCopy"
    <3>1. pack = Plain(n) /\ PackLength(Plain(n), n) \in Int
      BY <2>1, <2>3, <2>4, VarintLenType DEF PackLength, Plain, Candidate, FixedHeader
    <3> QED BY <3>1
  <2> SUFFICES ASSUME chosen # "RawCopy"
               PROVE  PackLength(pack, n) <= PackLength(Plain(n), n) + (IF wide THEN 3 ELSE 2)
    BY <2>4
  <2>5. pack.dict + pack.load < n
    <3>1. Estimate(pack) < Estimate(Plain(n))
      BY <2>1, <2>3 DEF SelectionInv, ChosenIsSmallest
    <3> QED BY <2>1, <2>2, <3>1 DEF Estimate, Plain, Candidate, HeaderBytes
  <2>6. /\ PackLength(pack, n) = FixedHeader + u + s + d + l + pack.dict + pack.load
        /\ PackLength(Plain(n), n) = FixedHeader + 1 + s + 1 + s + n
    BY <2>1, <2>2, VarintLenType DEF PackLength, Plain, Candidate, FixedHeader
  <2>7. u \in 1..2 /\ (pack.unique = 0 => u = 1)
    BY <2>2, VarintLenType
  <2>8. d \in 1..5 /\ l \in 1..5 /\ s \in 1..5
    BY <2>1, <2>2, VarintLenType
  <2>9. pack.unique > 0 => d <= 2
    BY <2>2, VarintLenType
  <2>10. d <= s /\ l <= s
    BY <2>1, <2>2, <2>5, VarintLenMonotone
  <2>11. (pack.dict >= 256 * MiB \/ d <= 4) /\ (pack.load >= 256 * MiB \/ l <= 4)
    BY <2>2, VarintLenType, SMT DEF MiB
  <2> HIDE DEF u, d, l, s
  <2>12. u + d + l <= s + 5 \/ (d = 5 /\ l = 5 /\ u + d + l <= s + 6)
    BY <2>2, <2>7, <2>8, <2>9, <2>10
  <2>13. u + d + l <= s + 6
    BY <2>7, <2>8, <2>12
  <2>14. PackLength(pack, n) <= PackLength(Plain(n), n) + 3
    BY <2>1, <2>2, <2>5, <2>6, <2>7, <2>8, <2>13 DEF FixedHeader
  <2>15. u + d + l <= s + 5 => PackLength(pack, n) <= PackLength(Plain(n), n) + 2
    BY <2>1, <2>2, <2>5, <2>6, <2>7, <2>8 DEF FixedHeader
  <2>16. u + d + l <= s + 5 \/ wide
    BY <2>8, <2>11, <2>12
  <2> QED
    BY <2>14, <2>15, <2>16
<1> QED BY <1>1, SelectionInvariant, PTL

================================================================================
