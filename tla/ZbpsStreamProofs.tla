---------------------------- MODULE ZbpsStreamProofs ----------------------------
(***************************************************************************)
(* Proofs about ZbpsStream: type correctness of the writer, then what a    *)
(* reader of an archive gets, and when it fails.                           *)
(***************************************************************************)
EXTENDS ZbpsStream, TLAPS

----------------------------------------------------------------------------
(* Arithmetic.                                                             *)

\* A factor on the left of a product keeps an order.
LEMMA ProductMonotone ==
    ASSUME NEW a \in Nat, NEW b \in Nat, NEW d \in Nat, a <= b
    PROVE  a * d <= b * d
<1>1. PICK e \in Nat : b = a + e
    <2>1. b - a \in Nat /\ b = a + (b - a)
        BY SMT
    <2> QED
        BY <2>1
<1>2. b * d = a * d + e * d
    BY <1>1, SMT
<1>3. e * d \in Nat /\ a * d \in Nat
    BY SMT
<1> QED
    BY <1>2, <1>3, SMT

\* What div says of a rounded-up quotient.
LEMMA CeilDivBounds ==
    ASSUME NEW n \in Nat, NEW d \in Nat \ {0}
    PROVE  /\ CeilDiv(n, d) \in Nat
           /\ n <= CeilDiv(n, d) * d
           /\ CeilDiv(n, d) * d < n + d
<1>1. DEFINE q == (n + d - 1) \div d
             r == (n + d - 1) % d
<1>2. n + d - 1 \in Nat
    BY SMT
<1>3. q \in Nat /\ r \in 0..(d - 1) /\ n + d - 1 = d * q + r
    BY <1>2, SMT
<1>4. d * q = q * d
    BY <1>3, SMT
<1> HIDE DEF q, r
<1>5. q \in Nat /\ n <= q * d /\ q * d < n + d
    BY <1>3, <1>4, SMT
<1> QED
    BY <1>5 DEF CeilDiv, q

\* Item i of a sequence of n items begins before its end, d items to the block.
LEMMA BelowCeilDiv ==
    ASSUME NEW n \in Nat, NEW d \in Nat \ {0}, NEW i \in Nat, i < CeilDiv(n, d)
    PROVE  i * d < n
<1>1. CeilDiv(n, d) \in Nat /\ CeilDiv(n, d) * d < n + d
    BY CeilDivBounds
<1>2. (i + 1) * d <= CeilDiv(n, d) * d
    BY <1>1, ProductMonotone
<1>3. (i + 1) * d = i * d + d /\ i * d \in Nat
    BY SMT
<1> QED
    BY <1>1, <1>2, <1>3, SMT

----------------------------------------------------------------------------
(* Types of the helpers.                                                   *)

LEMMA SpanType ==
    ASSUME NEW s \in Nat, NEW lo \in Nat, NEW hi \in Nat
    PROVE  Span(s, lo, hi) \in Spans /\ SpanLen(Span(s, lo, hi)) \in Nat
BY SMT DEF Span, Spans, EmptySpan, Garbled, SpanLen

LEMMA ConcatType ==
    ASSUME NEW a \in Spans, NEW b \in Spans
    PROVE  Concat(a, b) \in Spans
BY SMT DEF Concat, Span, Spans, EmptySpan, Garbled, SpanLen

LEMMA GarbleType ==
    ASSUME NEW a \in Spans
    PROVE  Garble(a) \in Spans
BY SMT DEF Garble, Span, Spans, EmptySpan, Garbled, SpanLen

LEMMA ByteAtType ==
    ASSUME NEW size \in Nat, NEW cs \in Nat, NEW c \in Nat
    PROVE  ByteAt(size, cs, c) \in Nat /\ ByteAt(size, cs, c) <= size
BY SMT DEF ByteAt, Lesser

LEMMA ChunkSpanType ==
    ASSUME NEW src \in Nat, NEW size \in Nat, NEW cs \in Nat, NEW c \in Nat,
           NEW n \in Nat
    PROVE  /\ ChunkSpan(src, size, cs, c, n) \in Spans
           /\ SpanLen(ChunkSpan(src, size, cs, c, n)) \in Nat
<1>1. c + n \in Nat
    BY SMT
<1>2. ByteAt(size, cs, c) \in Nat /\ ByteAt(size, cs, c + n) \in Nat
    BY <1>1, ByteAtType
<1> QED
    BY <1>2, SpanType DEF ChunkSpan

LEMMA PlainPacksType ==
    ASSUME NEW s \in Spans, NEW p \in PlainPacks(s)
    PROVE  p \in Packs /\ p.data = s
<1>1. PICK m \in StreamCodecs, n \in PackSizes : p = PackOf(m, 0, s, n)
    BY DEF PlainPacks
<1>2. m \in Nat
    BY ConstantsAssumption
       DEF ConstantsAssumption, RawCopy, RawDeflate, RawZstd, FramedRaw
<1>3. m + 16 * 0 \in Nat
    BY <1>2, SMT
<1> QED
    BY <1>1, <1>3 DEF PackOf, Packs, PackedByte

LEMMA ValidatedRecursiveType ==
    ASSUME NEW s \in Spans, NEW p \in ValidatedRecursive(s)
    PROVE  p \in Packs /\ p.data = s
<1>1. PICK d \in RecursiveDecodes(s), n \in PackSizes :
          p = PackOf(RecursiveCircuitXz, 0, d, n)
    BY DEF ValidatedRecursive
<1>2. p.data = s
    BY DEF ValidatedRecursive
<1>3. 7 + 16 * 0 \in Nat
    BY SMT
<1>4. d = s
    BY <1>1, <1>2 DEF PackOf
<1> QED
    BY <1>1, <1>2, <1>3, <1>4 DEF PackOf, Packs, PackedByte, RecursiveCircuitXz

LEMMA AdaptivePacksType ==
    ASSUME NEW s \in Spans, NEW p \in AdaptivePacks(s)
    PROVE  p \in Packs /\ p.data = s
<1>1. PICK c \in AdaptiveCodecs, n \in PackSizes : p = PackOf(c[1], c[2], s, n)
    BY DEF AdaptivePacks
<1>2. c[1] \in Nat /\ c[2] \in Nat
    BY ConstantsAssumption DEF ConstantsAssumption
<1>3. c[1] + 16 * c[2] \in Nat
    BY <1>2, SMT
<1> QED
    BY <1>1, <1>3 DEF PackOf, Packs, PackedByte

\* Every pack the writer stores decodes to what was packed: the recursive ones
\* because they are validated, the others because their codecs are lossless.
LEMMA WidePacksType ==
    ASSUME NEW s \in Spans, NEW r, NEW p \in WidePacks(s, r)
    PROVE  p \in Packs /\ p.data = s
BY PlainPacksType, ValidatedRecursiveType DEF WidePacks

LEMMA RealtimePacksType ==
    ASSUME NEW s \in Spans, NEW f, NEW r, NEW p \in RealtimePacks(s, f, r)
    PROVE  p \in Packs /\ p.data = s
BY PlainPacksType, ValidatedRecursiveType DEF RealtimePacks

LEMMA PackSizeBound ==
    ASSUME NEW p \in Packs
    PROVE  p.size \in Nat /\ p # NoPack
<1>1. p.size \in PackSizes
    BY DEF Packs
<1>2. p.size \in Nat /\ p.size >= MinPackSize
    BY <1>1, ConstantsAssumption, Zenon DEF ConstantsAssumption
<1>3. MinPackSize = 13
    BY SMT DEF MinPackSize
<1> QED
    BY <1>2, <1>3, SMT DEF NoPack

LEMMA MethodOfType ==
    ASSUME NEW p \in Packs
    PROVE  MethodOf(p) \in Nat
<1>1. p.byte8 \in Nat
    BY DEF Packs
<1> QED
    BY <1>1, SMT DEF MethodOf

LEMMA SplitPointsInside ==
    ASSUME NEW profile, NEW lo \in Nat, NEW hi \in Nat, lo < hi,
           NEW mid \in SplitPoints(profile, lo, hi)
    PROVE  mid \in Nat /\ lo < mid /\ mid < hi
BY SMT DEF SplitPoints


----------------------------------------------------------------------------
(* Type correctness.                                                       *)

LEMMA LeafTokenType ==
    ASSUME NEW n \in Nat, NEW len \in Nat, NEW p \in Packs
    PROVE  PieceToken(len, p) \in Tokens /\ GroupToken(n, len, p) \in Tokens
<1>1. MethodOf(p) \in Nat
    BY MethodOfType
<1>2. PieceToken(len, p) \in LeafTokens /\ GroupToken(n, len, p) \in LeafTokens
    BY <1>1 DEF PieceToken, GroupToken, LeafTokens
<1> QED
    BY <1>2 DEF Tokens

LEMMA InnerTokenType ==
    ASSUME NEW n \in Nat, NEW offset \in Nat, NEW len \in Nat
    PROVE  SplitToken(n) \in Tokens /\ SliceToken(n, offset, len) \in Tokens
<1>1. SplitToken(n) \in SplitTokens
    BY DEF SplitToken, SplitTokens
<1>2. SliceToken(n, offset, len) \in SliceTokens
    BY DEF SliceToken, SliceTokens
<1> QED
    BY <1>1, <1>2 DEF Tokens

\* A call whose options were accepted works on blocks that lie in the input.
Working == wpc # "idle" => ValidOptions(opts) /\ writes # 0

\* The subranges still to be written are not empty.
Ordered == \A i \in 1..Len(todo) : todo[i].lo < todo[i].hi

TypeInv == TypeOK /\ Working /\ Ordered

LEMMA OptsType ==
    ASSUME WriterTypeOK
    PROVE  /\ opts.chunk_size \in Nat /\ opts.key_piece_interval \in Nat
           /\ opts.max_group_depth \in Nat /\ opts.max_group_pieces \in Nat
           /\ job.size \in Nat /\ writes \in Nat
           /\ opts.wide_overfitting_circuits \in BOOLEAN
BY DEF WriterTypeOK, Options, opts

LEMMA JobChunksType ==
    ASSUME WriterTypeOK, ValidOptions(opts)
    PROVE  /\ jobChunks \in Nat /\ jobBlocks \in Nat
           /\ opts.chunk_size \in Nat \ {0}
           /\ opts.key_piece_interval \in Nat \ {0}
<1>1. opts.chunk_size \in Nat \ {0} /\ opts.key_piece_interval \in Nat \ {0}
    <2>1. U32Max \in Nat
        BY ConstantsAssumption DEF ConstantsAssumption
    <2> QED
        BY <2>1, OptsType, SMT DEF ValidOptions
<1>2. jobChunks \in Nat
    BY <1>1, OptsType, CeilDivBounds DEF jobChunks, ChunkCount
<1>3. jobBlocks \in Nat
    BY <1>1, <1>2, CeilDivBounds DEF jobBlocks, BlockCount
<1> QED
    BY <1>1, <1>2, <1>3

LEMMA BlockGeometry ==
    ASSUME WriterTypeOK, ValidOptions(opts), NEW i \in Nat, i < jobBlocks
    PROVE  /\ BlockFirst(i) \in Nat /\ BlockEnd(i) \in Nat
           /\ BlockFirst(i) < BlockEnd(i)
           /\ BlockEnd(i) - BlockFirst(i) \in Nat
<1>1. jobChunks \in Nat /\ opts.key_piece_interval \in Nat \ {0}
    BY JobChunksType
<1>2. jobChunks # 0 /\ i < CeilDiv(jobChunks, opts.key_piece_interval)
    BY <1>1, SMT DEF jobBlocks, BlockCount
<1>3. i * opts.key_piece_interval < jobChunks
    BY <1>1, <1>2, BelowCeilDiv
<1>4. i * opts.key_piece_interval \in Nat
    BY <1>1, SMT
<1>5. BlockFirst(i) \in Nat /\ BlockFirst(i) < jobChunks
    BY <1>3, <1>4 DEF BlockFirst
<1>6. BlockEnd(i) = Lesser(BlockFirst(i) + opts.key_piece_interval, jobChunks)
    BY DEF BlockEnd
<1> HIDE DEF BlockFirst, BlockEnd
<1> QED
    BY <1>1, <1>5, <1>6, SMT DEF Lesser

LEMMA RangeType ==
    ASSUME WriterTypeOK, NEW lo \in Nat, NEW hi \in Nat, lo <= hi
    PROVE  Range(lo, hi) \in Spans /\ SpanLen(Range(lo, hi)) \in Nat
<1>1. hi - lo \in Nat
    BY SMT
<1> QED
    BY <1>1, OptsType, ChunkSpanType DEF Range

LEMMA BlockRecordType ==
    ASSUME WriterTypeOK, ValidOptions(opts), NEW i \in Nat, i < jobBlocks,
           NEW tokens \in Seq(Tokens)
    PROVE  BlockRecord(i, tokens) \in Blocks
<1>1. /\ BlockFirst(i) \in Nat /\ BlockEnd(i) \in Nat
      /\ BlockFirst(i) < BlockEnd(i)
      /\ BlockEnd(i) - BlockFirst(i) \in Nat
    BY BlockGeometry
<1>2. SpanLen(Range(BlockFirst(i), BlockEnd(i))) \in Nat
    <2>1. BlockFirst(i) <= BlockEnd(i)
        BY <1>1, SMT
    <2> QED
        BY <1>1, <2>1, RangeType
<1>3. (IF opts.carry_grouping_history THEN history ELSE HistoryNone) \in Nat
    BY SMT DEF WriterTypeOK, HistoryNone
<1> QED
    BY <1>1, <1>2, <1>3 DEF BlockRecord, Blocks

LEMMA BlockSliceType ==
    ASSUME WriterTypeOK, ValidOptions(opts), NEW i \in Nat, i < jobBlocks
    PROVE  BlockSlice(i) \in Tokens
<1>1. /\ BlockFirst(i) \in Nat /\ BlockEnd(i) \in Nat
      /\ BlockFirst(i) < BlockEnd(i)
      /\ BlockEnd(i) - BlockFirst(i) \in Nat
    BY BlockGeometry
<1>2. SpanLen(Range(BlockFirst(i), BlockEnd(i))) \in Nat
    <2>1. BlockFirst(i) <= BlockEnd(i)
        BY <1>1, SMT
    <2> QED
        BY <1>1, <2>1, RangeType
<1>3. BlockFirst(i) * opts.chunk_size \in Nat
    BY <1>1, OptsType, SMT
<1> QED
    BY <1>1, <1>2, <1>3, InnerTokenType DEF BlockSlice

LEMMA ArchiveType ==
    ASSUME WriterTypeOK, ValidOptions(opts)
    PROVE  Archive \in Archives
<1>1. jobChunks \in Nat /\ jobBlocks \in Nat
    BY JobChunksType
<1>2. Shared \in BOOLEAN
    BY DEF Shared
<1> QED
    BY <1>1, <1>2, OptsType DEF Archive, Archives, WriterTypeOK


LEMMA InitTypeInv == Init => TypeInv
<1> SUFFICES ASSUME Init PROVE TypeInv
    OBVIOUS
<1>1. EmptySpan \in Spans /\ HistoryNone \in Nat
    BY SMT DEF EmptySpan, Spans, Garbled, HistoryNone
<1>2. job \in [size : Nat, opts : Options,
               profile : {"fast", "balanced", "deep", "research"}]
    BY SMT DEF Init, NoJob, Options
<1>3. WriterTypeOK
    BY <1>1, <1>2, SMT DEF Init, WriterTypeOK
<1>4. disk \in [arc : Archives, have : Nat]
    BY SMT DEF Init, NoArchive, Archives
<1>5. FileTypeOK
    BY <1>4 DEF Init, FileTypeOK
<1>6. ReaderTypeOK
    <2>1. result \in [kind : {"none", "ok", "err"}, data : Spans]
        BY <1>1 DEF Init, NoResult
    <2>2. rd \in [arc : Archives, have : Nat]
        BY <1>4 DEF Init
    <2>3. part \in Spans /\ out \in Spans
        BY <1>1 DEF Init
    <2> QED
        BY <2>1, <2>2, <2>3 DEF Init, ReaderTypeOK
<1> QED
    BY <1>3, <1>5, <1>6, SMT DEF Init, TypeInv, TypeOK, Working, Ordered

\* The writer's steps keep its types.
LEMMA CompressTypes ==
    ASSUME TypeInv, NEW size \in 0..MaxSize, NEW o \in OptionSpace,
           NEW profile \in Profiles, Compress(size, o, profile)
    PROVE  WriterTypeOK' /\ Working' /\ Ordered'
<1>1. size \in Nat /\ o \in Options
      /\ profile \in {"fast", "balanced", "deep", "research"}
    <2>1. MaxSize \in Nat
        BY ConstantsAssumption DEF ConstantsAssumption
    <2> QED
        BY <2>1, ConstantsAssumption DEF ConstantsAssumption
<1>2. writes' \in Nat
    BY SMT DEF Compress, TypeInv, TypeOK, WriterTypeOK
<1>3. job' \in [size : Nat, opts : Options,
                profile : {"fast", "balanced", "deep", "research"}]
    BY <1>1 DEF Compress
<1>4. WriterTypeOK'
    BY <1>2, <1>3, SMT DEF Compress, WriterTypeOK, HistoryNone
<1>5. Working' /\ Ordered'
    BY SMT DEF Compress, Working, Ordered, opts, TypeInv, TypeOK, WriterTypeOK
<1> QED
    BY <1>4, <1>5

LEMMA ShareTypes ==
    ASSUME TypeInv, Share
    PROVE  WriterTypeOK' /\ Working' /\ Ordered'
<1> USE DEF TypeInv, TypeOK
<1>1. wholeInput \in Spans
    <2>1. writes \in Nat /\ job.size \in Nat /\ 0 \in Nat
        BY OptsType
    <2> QED
        BY <2>1, SpanType DEF wholeInput
<1>2. payload' \in Packs \cup {NoPack}
    BY <1>1, WidePacksType DEF Share
<1>3. WriterTypeOK'
    BY <1>2, Zenon DEF Share, WriterTypeOK
<1>4. Working' /\ Ordered'
    BY Zenon DEF Share, Working, Ordered, opts
<1> QED
    BY <1>3, <1>4

LEMMA WideBlockTypes ==
    ASSUME TypeInv, WideBlock
    PROVE  WriterTypeOK' /\ Working' /\ Ordered'
<1> USE DEF TypeInv, TypeOK
<1>1. ValidOptions(opts) /\ Len(blocks) \in Nat /\ Len(blocks) < jobBlocks
    BY DEF WideBlock, Working, WriterTypeOK
<1>2. BlockSlice(Len(blocks)) \in Tokens
    BY <1>1, BlockSliceType
<1>3. <<BlockSlice(Len(blocks))>> \in Seq(Tokens)
    BY <1>2
<1>4. BlockRecord(Len(blocks), <<BlockSlice(Len(blocks))>>) \in Blocks
    BY <1>1, <1>3, BlockRecordType
<1>5. blocks' \in Seq(Blocks)
    BY <1>4 DEF WideBlock, WriterTypeOK
<1>6. history' \in Nat
    <2>1. MethodOf(NoPack) \in Nat
        BY SMT DEF MethodOf, NoPack, HistoryNone
    <2> QED
        BY <2>1, MethodOfType DEF WideBlock, WriterTypeOK
<1>7. WriterTypeOK'
    BY <1>5, <1>6, Zenon DEF WideBlock, WriterTypeOK
<1>8. Working' /\ Ordered'
    BY Zenon DEF WideBlock, Working, Ordered, opts
<1> QED
    BY <1>7, <1>8

LEMMA BeginBlockTypes ==
    ASSUME TypeInv, BeginBlock
    PROVE  WriterTypeOK' /\ Working' /\ Ordered'
<1> USE DEF TypeInv, TypeOK
<1>1. ValidOptions(opts) /\ Len(blocks) \in Nat /\ Len(blocks) < jobBlocks
    BY DEF BeginBlock, Working, WriterTypeOK
<1> DEFINE e == [lo |-> BlockFirst(Len(blocks)), hi |-> BlockEnd(Len(blocks)),
                 depth |-> opts.max_group_depth, root |-> TRUE, main |-> TRUE]
<1>2. e.lo \in Nat /\ e.hi \in Nat /\ e.lo < e.hi
    BY <1>1, BlockGeometry
<1>3. e \in Subranges
    BY <1>2, OptsType DEF Subranges
<1>4. todo' = <<e>>
    BY DEF BeginBlock
<1> HIDE DEF e
<1>5. todo' \in Seq(Subranges)
    BY <1>3, <1>4
<1>6. WriterTypeOK'
    BY <1>5, SMT DEF BeginBlock, WriterTypeOK
<1>7. Working' /\ Ordered'
    BY <1>2, <1>4, SMT DEF BeginBlock, Working, Ordered, opts
<1> QED
    BY <1>6, <1>7

LEMMA HeadOfTodo ==
    ASSUME TypeInv, todo # <<>>
    PROVE  /\ Head(todo) \in Subranges
           /\ Head(todo).lo \in Nat /\ Head(todo).hi \in Nat
           /\ Head(todo).lo < Head(todo).hi
           /\ Tail(todo) \in Seq(Subranges)
           /\ Len(Tail(todo)) = Len(todo) - 1
           /\ \A i \in 1..Len(Tail(todo)) : Tail(todo)[i] = todo[i + 1]
<1>1. todo \in Seq(Subranges) /\ Len(todo) \in Nat /\ Len(todo) # 0
    BY DEF TypeInv, TypeOK, WriterTypeOK
<1>2. Head(todo) \in Subranges /\ Head(todo) = todo[1]
    BY <1>1
<1>3. todo[1].lo < todo[1].hi
    BY <1>1, SMT DEF TypeInv, Ordered
<1> QED
    BY <1>1, <1>2, <1>3 DEF Subranges

LEMMA RangePacksType ==
    ASSUME WriterTypeOK, NEW e \in Subranges, e.lo < e.hi, NEW p \in RangePacks(e)
    PROVE  p \in Packs /\ p.data = Range(e.lo, e.hi)
<1>1. Range(e.lo, e.hi) \in Spans
    BY RangeType, SMT DEF Subranges
<1> QED
    BY <1>1, RealtimePacksType, AdaptivePacksType DEF RangePacks

LEMMA WriteLeafTypes ==
    ASSUME TypeInv, todo # <<>>, wpc = "node",
           NEW p \in Packs, NEW token \in Tokens, NEW bytes \in Nat,
           token.pack = p, token.method = MethodOf(p), WriteLeaf(token, bytes)
    PROVE  WriterTypeOK' /\ Working' /\ Ordered'
<1> USE DEF TypeInv, TypeOK
<1>1. node' \in Seq(Tokens)
    BY DEF WriteLeaf, WriterTypeOK
<1>2. encoded' \in Nat
    BY PackSizeBound, SMT DEF WriteLeaf, WriterTypeOK
<1>3. hint' \in Nat
    BY MethodOfType DEF WriteLeaf, WriterTypeOK
<1>4. todo' \in Seq(Subranges)
    BY HeadOfTodo DEF WriteLeaf
<1>5. WriterTypeOK'
    BY <1>1, <1>2, <1>3, <1>4, Zenon DEF WriteLeaf, WriterTypeOK
<1>6. Ordered'
    <2>1. Len(todo) \in Nat
        BY DEF WriterTypeOK
    <2> QED
        BY <2>1, HeadOfTodo, SMT DEF WriteLeaf, Ordered
<1>7. Working'
    BY DEF WriteLeaf, Working, opts
<1> QED
    BY <1>5, <1>6, <1>7

LEMMA WritePieceTypes ==
    ASSUME TypeInv, WritePiece
    PROVE  WriterTypeOK' /\ Working' /\ Ordered'
<1>1. todo # <<>> /\ wpc = "node"
    BY DEF WritePiece
<1> DEFINE e == Head(todo)
           len == SpanLen(Range(e.lo, e.hi))
<1>2. PICK p \in RangePacks(e) : WriteLeaf(PieceToken(len, p), PieceBytes)
    BY DEF WritePiece
<1>3. e \in Subranges /\ e.lo < e.hi /\ e.lo \in Nat /\ e.hi \in Nat
    BY <1>1, HeadOfTodo
<1>4. p \in Packs /\ len \in Nat
    <2>1. e.lo <= e.hi
        BY <1>3, SMT
    <2> HIDE DEF e
    <2> QED
        BY <1>2, <1>3, <2>1, RangePacksType, RangeType DEF TypeInv, TypeOK
<1>5. PieceToken(len, p) \in Tokens /\ PieceBytes \in Nat
    BY <1>4, LeafTokenType, SMT DEF PieceBytes
<1>6. PieceToken(len, p).pack = p /\ PieceToken(len, p).method = MethodOf(p)
    BY DEF PieceToken
<1> HIDE DEF e, len
<1> QED
    BY <1>1, <1>2, <1>4, <1>5, <1>6, WriteLeafTypes

LEMMA WriteGroupTypes ==
    ASSUME TypeInv, WriteGroup
    PROVE  WriterTypeOK' /\ Working' /\ Ordered'
<1>1. todo # <<>> /\ wpc = "node"
    BY DEF WriteGroup
<1> DEFINE e == Head(todo)
           n == e.hi - e.lo
           len == SpanLen(Range(e.lo, e.hi))
<1>2. PICK p \in RangePacks(e) : WriteLeaf(GroupToken(n, len, p), GroupBytes)
    BY DEF WriteGroup
<1>3. e \in Subranges /\ e.lo < e.hi /\ e.lo \in Nat /\ e.hi \in Nat
    BY <1>1, HeadOfTodo
<1>4. p \in Packs /\ len \in Nat /\ n \in Nat
    <2>1. e.lo <= e.hi /\ n \in Nat
        BY <1>3, SMT
    <2> HIDE DEF e
    <2> QED
        BY <1>2, <1>3, <2>1, RangePacksType, RangeType DEF TypeInv, TypeOK
<1>5. GroupToken(n, len, p) \in Tokens /\ GroupBytes \in Nat
    BY <1>4, LeafTokenType, SMT DEF GroupBytes
<1>6. GroupToken(n, len, p).pack = p /\ GroupToken(n, len, p).method = MethodOf(p)
    BY DEF GroupToken
<1> HIDE DEF e, len, n
<1> QED
    BY <1>1, <1>2, <1>4, <1>5, <1>6, WriteLeafTypes


LEMMA WriteSplitTypes ==
    ASSUME TypeInv, WriteSplit
    PROVE  WriterTypeOK' /\ Working' /\ Ordered'
<1> USE DEF TypeInv, TypeOK
<1>1. todo # <<>> /\ wpc = "node"
    BY DEF WriteSplit
<1> DEFINE e == Head(todo)
           larger(mid) == SpanLen(Range(e.lo, mid)) >= SpanLen(Range(mid, e.hi))
           left(mid) == [lo |-> e.lo, hi |-> mid, depth |-> ChildDepth(e.depth),
                         root |-> FALSE, main |-> e.main /\ larger(mid)]
           right(mid) == [lo |-> mid, hi |-> e.hi, depth |-> ChildDepth(e.depth),
                          root |-> FALSE, main |-> e.main /\ ~larger(mid)]
<1>2. PICK mid \in SplitPoints(job.profile, e.lo, e.hi) :
          todo' = <<left(mid), right(mid)>> \o Tail(todo)
    BY DEF WriteSplit
<1>3. e \in Subranges /\ e.lo < e.hi /\ e.lo \in Nat /\ e.hi \in Nat
      /\ Tail(todo) \in Seq(Subranges)
    BY <1>1, HeadOfTodo
<1>4. e.depth \in Nat
    BY <1>3 DEF Subranges
<1>5. mid \in Nat /\ e.lo < mid /\ mid < e.hi
    <2> HIDE DEF e
    <2> QED
        BY <1>3, <1>2, SplitPointsInside
<1>6. ChildDepth(e.depth) \in Nat
    BY <1>4, SMT DEF ChildDepth
<1>7. left(mid) \in Subranges /\ right(mid) \in Subranges
    <2>1. /\ (e.main /\ larger(mid)) \in BOOLEAN
          /\ (e.main /\ ~larger(mid)) \in BOOLEAN
        OBVIOUS
    <2> HIDE DEF e, larger
    <2> QED
        BY <1>3, <1>5, <1>6, <2>1 DEF Subranges
<1>8. left(mid).lo < left(mid).hi /\ right(mid).lo < right(mid).hi
    BY <1>5
<1> HIDE DEF left, right
<1>9. todo' \in Seq(Subranges)
    BY <1>2, <1>3, <1>7
<1>10. Ordered'
    <2>1. \A i \in 1..Len(Tail(todo)) : Tail(todo)[i].lo < Tail(todo)[i].hi
        <3> SUFFICES ASSUME NEW i \in 1..Len(Tail(todo))
                     PROVE  Tail(todo)[i].lo < Tail(todo)[i].hi
            OBVIOUS
        <3>1. Len(todo) \in Nat /\ Len(Tail(todo)) = Len(todo) - 1
              /\ Tail(todo)[i] = todo[i + 1]
            BY <1>1, HeadOfTodo DEF WriterTypeOK
        <3>2. i + 1 \in 1..Len(todo)
            BY <3>1, SMT
        <3> QED
            BY <3>1, <3>2 DEF Ordered
    <2>2. <<left(mid), right(mid)>> \in Seq(Subranges)
          /\ Len(<<left(mid), right(mid)>>) = 2
          /\ <<left(mid), right(mid)>>[1] = left(mid)
          /\ <<left(mid), right(mid)>>[2] = right(mid)
        BY <1>7
    <2>3. /\ Len(todo') = 2 + Len(Tail(todo))
          /\ Len(Tail(todo)) \in Nat
          /\ todo'[1] = left(mid) /\ todo'[2] = right(mid)
          /\ \A i \in 1..Len(Tail(todo)) : todo'[i + 2] = Tail(todo)[i]
        BY <1>2, <1>3, <2>2
    <2>4. ASSUME NEW i \in 1..Len(todo')
          PROVE  todo'[i].lo < todo'[i].hi
        <3>1. i = 1 \/ i = 2 \/ i - 2 \in 1..Len(Tail(todo))
            BY <2>3, SMT
        <3>2. ASSUME i - 2 \in 1..Len(Tail(todo))
              PROVE  todo'[i] = Tail(todo)[i - 2]
            <4>1. todo'[(i - 2) + 2] = Tail(todo)[i - 2]
                BY <2>3, <3>2, Zenon
            <4>2. (i - 2) + 2 = i
                BY <2>3, SMT
            <4> QED
                BY <4>1, <4>2
        <3> QED
            BY <3>1, <3>2, <2>1, <2>3, <1>8
    <2> QED
        BY <2>4 DEF Ordered
<1>11. node' \in Seq(Tokens)
    <2> HIDE DEF e
    <2>1. node' = Append(node, SplitToken(e.depth))
        BY DEF WriteSplit, e
    <2>2. SplitToken(e.depth) \in Tokens
        BY <1>4, InnerTokenType
    <2> QED
        BY <2>1, <2>2 DEF WriterTypeOK
<1>12. encoded' \in Nat
    BY SMT DEF WriteSplit, SplitBytes, WriterTypeOK
<1>13. WriterTypeOK'
    BY <1>9, <1>11, <1>12, Zenon DEF WriteSplit, WriterTypeOK
<1>14. Working'
    BY DEF WriteSplit, Working, opts
<1> QED
    BY <1>10, <1>13, <1>14

\* Blocks are written in their order, and no more of them than there are: the
\* next one has a number below jobBlocks.
BlocksInRange ==
    /\ wpc = "node" => Len(blocks) < jobBlocks
    /\ wpc = "node" => ~opts.wide_overfitting_circuits

LEMMA EndBlockTypes ==
    ASSUME TypeInv, BlocksInRange, EndBlock
    PROVE  WriterTypeOK' /\ Working' /\ Ordered'
<1> USE DEF TypeInv, TypeOK
<1>1. ValidOptions(opts) /\ Len(blocks) \in Nat /\ Len(blocks) < jobBlocks
    BY DEF EndBlock, Working, WriterTypeOK, BlocksInRange
<1>2. BlockSlice(Len(blocks)) \in Tokens
    BY <1>1, BlockSliceType
<1>3. <<BlockSlice(Len(blocks))>> \in Seq(Tokens) /\ node \in Seq(Tokens)
    BY <1>2 DEF WriterTypeOK
<1>4. /\ BlockRecord(Len(blocks), <<BlockSlice(Len(blocks))>>) \in Blocks
      /\ BlockRecord(Len(blocks), node) \in Blocks
    BY <1>1, <1>3, BlockRecordType
<1>5. blocks' \in Seq(Blocks)
    <2>1. \/ blocks' = Append(blocks, BlockRecord(Len(blocks), <<BlockSlice(Len(blocks))>>))
          \/ blocks' = Append(blocks, BlockRecord(Len(blocks), node))
        <3>1. CASE Shared /\ SliceBytes <= encoded
            BY <3>1, Zenon DEF EndBlock
        <3>2. CASE ~(Shared /\ SliceBytes <= encoded)
            BY <3>2, Zenon DEF EndBlock
        <3> QED
            BY <3>1, <3>2
    <2>2. blocks \in Seq(Blocks)
        BY DEF WriterTypeOK
    <2> QED
        BY <1>4, <2>1, <2>2
<1>6. history' \in Nat
    BY SMT DEF EndBlock, RecursiveCircuitXz, WriterTypeOK
<1>7. WriterTypeOK'
    BY <1>5, <1>6, Zenon DEF EndBlock, WriterTypeOK
<1>8. Working' /\ Ordered'
    BY Zenon DEF EndBlock, Working, Ordered, opts
<1> QED
    BY <1>7, <1>8

LEMMA CreateTypes ==
    ASSUME TypeInv, Create
    PROVE  /\ WriterTypeOK' /\ FileTypeOK' /\ Working' /\ Ordered'
           /\ stored' \in Promise!Contents /\ stored'.src = writes
<1> USE DEF TypeInv, TypeOK
<1>1. ValidOptions(opts) /\ writes \in Nat \ {0}
    BY OptsType DEF Create, Working
<1>2. Archive \in Archives
    BY <1>1, ArchiveType
<1>3. disk' \in [arc : Archives, have : Nat]
    BY <1>2 DEF Create
<1>4. stored' \in Promise!Contents /\ stored'.src = writes
    BY <1>1, OptsType DEF Create, Promise!Contents
<1>5. FileTypeOK'
    BY <1>3, <1>4 DEF FileTypeOK
<1>6. WriterTypeOK'
    BY Zenon DEF Create, WriterTypeOK
<1>7. Working' /\ Ordered'
    BY Zenon DEF Create, Working, Ordered, opts
<1> QED
    BY <1>4, <1>5, <1>6, <1>7

LEMMA FillTypes ==
    ASSUME TypeInv, Fill \/ SaveFails
    PROVE  WriterTypeOK' /\ FileTypeOK' /\ Working' /\ Ordered'
<1> USE DEF TypeInv, TypeOK
<1>1. UNCHANGED <<writes, job, payload, blocks, todo, node, encoded, hint, history,
                  stored>>
    BY Zenon DEF Fill, SaveFails, fileVars
<1>2. wpc = "save" /\ wpc' \in {"idle", "save"}
    BY SMT DEF Fill, SaveFails
<1>3. disk' \in [arc : Archives, have : Nat]
    BY SMT DEF Fill, SaveFails, fileVars, FileTypeOK
<1>4. FileTypeOK'
    BY <1>1, <1>3 DEF FileTypeOK
<1>5. WriterTypeOK'
    BY <1>1, <1>2, SMT DEF WriterTypeOK
<1>6. Working' /\ Ordered'
    BY <1>1, <1>2, SMT DEF Working, Ordered, opts
<1> QED
    BY <1>4, <1>5, <1>6


\* The file holds a prefix of the records of an archive, and so does what a
\* reader has of it.
HaveBounded ==
    /\ disk.have <= Records(disk.arc)
    /\ rd.have <= Records(rd.arc)

\* The block being decoded is a block of the archive that was read.
BlockRead == rpc = "node" => bi < Len(rd.arc.blocks)

\* The number of the write an input belongs to.
Num(s) == IF s = Nothing THEN 0 ELSE s.src

\* A reader gets the bytes of later and later writes, of which the file holds
\* the last; the current one has not reached it before wpc is "save".
Fresh ==
    /\ Num(asked) <= Num(last)
    /\ last = stored \/ Num(last) < Num(stored)
    /\ Num(stored) <= writes
    /\ wpc \in {"share", "block", "node"} => Num(stored) < writes
    /\ rpc = "garbled" => last # asked
    /\ asked = Nothing => last = Nothing

\* As long as the file is the one the reader's last bytes are of, the reader
\* and the file agree on the number of records.
SameFile ==
    (rpc = "read" /\ asked # Nothing /\ last = stored) =>
        Records(rd.arc) = Records(disk.arc)

Bounds == BlocksInRange /\ HaveBounded /\ BlockRead /\ Fresh /\ SameFile

LEMMA NumType ==
    ASSUME NEW s \in Promise!Contents \cup {Nothing}
    PROVE  Num(s) \in Nat /\ (s # Nothing => Num(s) > 0)
BY DEF Num, Promise!Contents

LEMMA RecordsType ==
    ASSUME NEW arc \in Archives
    PROVE  /\ Preamble(arc) \in {1, 2} /\ Len(arc.blocks) \in Nat
           /\ Records(arc) \in Nat
<1>1. Preamble(arc) \in {1, 2}
    BY Zenon DEF Preamble
<1>2. Len(arc.blocks) \in Nat
    BY DEF Archives
<1> QED
    BY <1>1, <1>2, SMT DEF Records

\* The splice of two archives with the same preamble is one, with the records
\* of the second.
LEMMA SplicedType ==
    ASSUME NEW a \in Archives, NEW b \in Archives, NEW n \in Nat, n >= 1,
           n <= Records(a), n < Records(b), HasGlobal(a) <=> HasGlobal(b)
    PROVE  Spliced(a, b, n) \in Archives /\ Records(Spliced(a, b, n)) = Records(b)
<1> DEFINE c == Spliced(a, b, n)
           kept == n - Preamble(a)
<1>1. Preamble(a) \in {1, 2} /\ Preamble(b) = Preamble(a)
    BY Zenon DEF Preamble
<1>2. /\ a.blocks \in Seq(Blocks) /\ b.blocks \in Seq(Blocks)
      /\ Len(a.blocks) \in Nat /\ Len(b.blocks) \in Nat
    BY DEF Archives
<1>3. CASE n < Preamble(a)
    <2>1. c = [a EXCEPT !.payload = b.payload, !.blocks = b.blocks]
        BY <1>3, Zenon DEF Spliced
    <2>2. c \in Archives /\ c.blocks = b.blocks /\ c.wide = a.wide /\ c.shared = a.shared
        BY <2>1 DEF Archives
    <2>3. Preamble(c) = Preamble(b)
        BY <1>1, <2>2, Zenon DEF Preamble, HasGlobal
    <2> QED
        BY <2>2, <2>3, Zenon DEF Records
<1>4. CASE ~(n < Preamble(a))
    <2> DEFINE bs == SubSeq(a.blocks, 1, kept) \o SubSeq(b.blocks, kept + 1, Len(b.blocks))
    <2>1. kept \in Nat /\ kept <= Len(a.blocks) /\ kept < Len(b.blocks)
        BY <1>1, <1>2, <1>4, SMT DEF Records
    <2>2. /\ SubSeq(a.blocks, 1, kept) \in Seq(Blocks)
          /\ Len(SubSeq(a.blocks, 1, kept)) = kept
        BY <1>2, <2>1, SMT
    <2>3. /\ SubSeq(b.blocks, kept + 1, Len(b.blocks)) \in Seq(Blocks)
          /\ Len(SubSeq(b.blocks, kept + 1, Len(b.blocks))) = Len(b.blocks) - kept
        BY <1>2, <2>1, SMT
    <2>4. bs \in Seq(Blocks) /\ Len(bs) = Len(b.blocks)
        BY <1>2, <2>1, <2>2, <2>3, SMT
    <2>5. c = [a EXCEPT !.blocks = bs]
        BY <1>4, Zenon DEF Spliced
    <2> HIDE DEF bs
    <2>6. c \in Archives /\ c.blocks = bs /\ c.wide = a.wide /\ c.shared = a.shared
        BY <2>4, <2>5 DEF Archives
    <2>7. Preamble(c) = Preamble(b)
        BY <1>1, <2>6, Zenon DEF Preamble, HasGlobal
    <2> QED
        BY <2>4, <2>6, <2>7, Zenon DEF Records
<1> QED
    BY <1>3, <1>4

\* The writer leaves the reader alone; all but Create and Fill leave the file
\* alone.
LEMMA WriterKeepsReader ==
    ASSUME TypeInv, Bounds, UNCHANGED readerVars, UNCHANGED fileVars
    PROVE  FileTypeOK' /\ ReaderTypeOK' /\ HaveBounded' /\ BlockRead'
<1> USE DEF TypeInv, TypeOK, Bounds, readerVars, fileVars
<1>1. FileTypeOK'
    BY Zenon DEF FileTypeOK
<1>2. ReaderTypeOK'
    BY Zenon DEF ReaderTypeOK
<1>3. HaveBounded' /\ BlockRead'
    BY Zenon DEF HaveBounded, BlockRead
<1> QED
    BY <1>1, <1>2, <1>3

\* The reader leaves the writer and the file alone.
LEMMA ReaderKeepsOthers == ReaderStep => UNCHANGED <<writerVars, fileVars>>
BY Zenon DEF ReaderStep, ReadFirst, ReadMore, ReadOther, EndRead, Misread, ReadHead,
             ReadBlock, ReadToken, EndNode, Finish

\* A node is begun only for a block that is still to be written.
LEMMA WriterBlocksInRange ==
    ASSUME Bounds, Next
    PROVE  BlocksInRange'
<1> USE DEF Bounds, BlocksInRange
<1>1. ASSUME wpc' # "node" PROVE BlocksInRange'
    BY <1>1
<1>2. ASSUME UNCHANGED <<wpc, blocks, job>> PROVE BlocksInRange'
    BY <1>2, Zenon DEF jobBlocks, jobChunks, opts
<1>3. ASSUME NEW size \in 0..MaxSize, NEW o \in OptionSpace,
             NEW profile \in Profiles, Compress(size, o, profile)
      PROVE  wpc' # "node"
    BY <1>3, SMT DEF Compress
<1>4. Share => wpc' # "node"
    BY SMT DEF Share
<1>5. WideBlock => wpc' # "node"
    BY SMT DEF WideBlock
<1>6. BeginBlock => BlocksInRange'
    BY Zenon DEF BeginBlock, jobBlocks, jobChunks, opts
<1>7. WritePiece \/ WriteGroup \/ WriteSplit => UNCHANGED <<wpc, blocks, job>>
    BY Zenon DEF WritePiece, WriteGroup, WriteSplit, WriteLeaf
<1>8. EndBlock \/ Create \/ Fill \/ SaveFails \/ CompressFails => wpc' # "node"
    BY SMT DEF EndBlock, Create, Fill, SaveFails, CompressFails
<1>9. (\E k \in Starts : Open(k)) \/ ReaderStep => UNCHANGED <<wpc, blocks, job>>
    BY ReaderKeepsOthers, Zenon DEF Open, writerVars
<1> QED
    BY <1>1, <1>2, <1>3, <1>4, <1>5, <1>6, <1>7, <1>8, <1>9, Zenon
       DEF Next, WriterStep

LEMMA CreateBounds ==
    ASSUME TypeInv, Bounds, Create \/ Fill \/ SaveFails
    PROVE  ReaderTypeOK' /\ HaveBounded' /\ BlockRead'
<1> USE DEF TypeInv, TypeOK
<1>1. UNCHANGED readerVars
    BY DEF Create, Fill, SaveFails
<1>2. ReaderTypeOK' /\ BlockRead'
    BY <1>1, Zenon DEF readerVars, ReaderTypeOK, Bounds, BlockRead
<1>3. disk'.have <= Records(disk'.arc)
    <2>1. CASE Create
        <3>1. Archive \in Archives
            BY <2>1, ArchiveType DEF Create, Working
        <3>2. 0 <= Records(Archive)
            BY <3>1, RecordsType, SMT
        <3> QED
            BY <2>1, <3>2 DEF Create
    <2>2. CASE Fill
        <3>1. disk'.arc = disk.arc /\ disk'.have = disk.have + 1
            BY <2>2 DEF Fill, FileTypeOK
        <3>2. Records(disk.arc) \in Nat
            BY RecordsType DEF FileTypeOK
        <3>3. disk.have < Records(disk.arc) /\ disk.have \in Nat
            BY <2>2 DEF Fill, FileTypeOK
        <3> QED
            BY <3>1, <3>2, <3>3, SMT
    <2>3. CASE SaveFails
        BY <2>3, Zenon DEF SaveFails, fileVars, Bounds, HaveBounded
    <2> QED
        BY <2>1, <2>2, <2>3
<1>4. rd'.have <= Records(rd'.arc)
    BY <1>1, Zenon DEF readerVars, Bounds, HaveBounded
<1> QED
    BY <1>2, <1>3, <1>4 DEF HaveBounded

\* The reader's steps keep its types.
LEMMA FailTypes ==
    ASSUME TypeInv, Bounds, Fail
    PROVE  ReaderTypeOK' /\ BlockRead' /\ rd' = rd
<1>1. result' \in [kind : {"none", "ok", "err"}, data : Spans]
    BY SMT DEF Fail, Error, EmptySpan, Spans, Garbled
<1>2. ReaderTypeOK'
    BY <1>1, SMT DEF TypeInv, TypeOK, ReaderTypeOK, Fail
<1> QED
    BY <1>2, SMT DEF Fail, BlockRead

\* What the reader starts from.
LEMMA OpenTypes ==
    ASSUME TypeInv, Bounds, NEW k \in Starts, Open(k)
    PROVE  ReaderTypeOK' /\ BlockRead' /\ HaveBounded'
<1> USE DEF TypeInv, TypeOK
<1>1. k \in Nat \cup {WholeInput}
    BY ConstantsAssumption, SMT DEF ConstantsAssumption
<1>2. EmptySpan \in Spans
    BY SMT DEF EmptySpan, Spans, Garbled
<1>3. rd' \in [arc : Archives, have : Nat]
    BY SMT DEF Open, NoArchive, Archives
<1>4. result' \in [kind : {"none", "ok", "err"}, data : Spans]
    BY <1>2, SMT DEF Open, NoResult
<1>5. asked' = Nothing /\ last' = Nothing /\ key' = k /\ started' \in BOOLEAN
    BY Zenon DEF Open
<1>6. ReaderTypeOK'
    BY <1>1, <1>2, <1>3, <1>4, <1>5, SMT DEF ReaderTypeOK, Open
<1>7. BlockRead'
    BY SMT DEF BlockRead, Open
<1>8. HaveBounded'
    <2>1. rd'.have <= Records(rd'.arc)
        BY SMT DEF Open, NoArchive, Records, Preamble, HasGlobal
    <2> QED
        BY <2>1, Zenon DEF Open, Bounds, HaveBounded, fileVars
<1> QED
    BY <1>6, <1>7, <1>8

\* The steps of fs::read.
LEMMA ReadFirstTypes ==
    ASSUME TypeInv, Bounds, ReadFirst
    PROVE  ReaderTypeOK' /\ BlockRead' /\ HaveBounded'
<1> USE DEF TypeInv, TypeOK
<1>1. PICK n \in {0, 1} \cap 0..disk.have : rd' = [arc |-> disk.arc, have |-> n]
    BY DEF ReadFirst
<1>2. n \in Nat /\ n <= disk.have /\ disk.have \in Nat /\ disk.arc \in Archives
    BY SMT DEF FileTypeOK
<1>3. /\ UNCHANGED decoderVars /\ rpc' = rpc /\ rpc = "read"
      /\ asked' = stored /\ last' = stored
    BY Zenon DEF ReadFirst
<1>4. rd' \in [arc : Archives, have : Nat]
    BY <1>1, <1>2
<1>5. /\ asked' \in Promise!Contents \cup {Nothing}
      /\ last' \in Promise!Contents \cup {Nothing}
    BY <1>3, Zenon DEF FileTypeOK
<1>6. ReaderTypeOK'
    BY <1>3, <1>4, <1>5, SMT DEF ReaderTypeOK, decoderVars
<1>7. BlockRead'
    BY <1>3, SMT DEF BlockRead
<1>8. HaveBounded'
    <2>1. Records(disk.arc) \in Nat
        BY <1>2, RecordsType
    <2>2. disk.have <= Records(disk.arc)
        BY DEF Bounds, HaveBounded
    <2>3. rd'.have = n /\ rd'.arc = disk.arc
        BY <1>1
    <2>4. n <= Records(disk.arc)
        BY <1>2, <2>1, <2>2, SMT
    <2>5. rd'.have <= Records(rd'.arc)
        BY <2>3, <2>4, Zenon
    <2> QED
        BY <2>5, Zenon DEF ReadFirst, fileVars, Bounds, HaveBounded
<1> QED
    BY <1>6, <1>7, <1>8

LEMMA ReadMoreTypes ==
    ASSUME TypeInv, Bounds, ReadMore
    PROVE  ReaderTypeOK' /\ BlockRead' /\ HaveBounded'
<1> USE DEF TypeInv, TypeOK
<1>1. UNCHANGED <<rpc, asked, last, decoderVars, fileVars>> /\ rpc = "read"
    BY Zenon DEF ReadMore
<1>2. /\ rd' \in [arc : Archives, have : Nat]
      /\ rd'.arc = rd.arc /\ rd'.have = rd.have + 1
    BY DEF ReadMore, ReaderTypeOK
<1>3. ReaderTypeOK'
    BY <1>1, <1>2, SMT DEF ReaderTypeOK, decoderVars
<1>4. BlockRead'
    BY <1>1, SMT DEF BlockRead
<1>5. HaveBounded'
    <2>1. Records(rd.arc) = Records(disk.arc)
        BY DEF ReadMore, Bounds, SameFile
    <2>2. Records(disk.arc) \in Nat
        BY RecordsType DEF FileTypeOK
    <2>3. /\ rd.have < disk.have /\ disk.have <= Records(disk.arc)
          /\ rd.have \in Nat /\ disk.have \in Nat
        BY DEF ReadMore, Bounds, HaveBounded, ReaderTypeOK, FileTypeOK
    <2>4. rd.have + 1 <= Records(disk.arc)
        BY <2>2, <2>3, SMT
    <2>5. rd'.have <= Records(rd'.arc)
        BY <1>2, <2>1, <2>4, Zenon
    <2> QED
        BY <1>1, <2>5, Zenon DEF fileVars, Bounds, HaveBounded
<1> QED
    BY <1>3, <1>4, <1>5

LEMMA ReadOtherTypes ==
    ASSUME TypeInv, Bounds, ReadOther
    PROVE  /\ ReaderTypeOK' /\ BlockRead' /\ HaveBounded'
           /\ rpc' = "read" => Records(rd'.arc) = Records(disk.arc)
<1> USE DEF TypeInv, TypeOK
<1>1. /\ UNCHANGED <<asked, decoderVars, fileVars>> /\ last' = stored
      /\ rpc = "read" /\ rpc' \in {"read", "garbled"}
    BY SMT DEF ReadOther
<1>2. CASE rd' = rd /\ rpc' = "garbled"
    <2>1. ReaderTypeOK'
        BY <1>1, <1>2, SMT DEF ReaderTypeOK, decoderVars, FileTypeOK
    <2>2. BlockRead'
        BY <1>2, SMT DEF BlockRead
    <2>3. HaveBounded'
        BY <1>1, <1>2, Zenon DEF fileVars, Bounds, HaveBounded
    <2> QED
        BY <1>2, <2>1, <2>2, <2>3, SMT
<1>3. CASE /\ Aligned /\ UNCHANGED rpc
           /\ rd' = [arc |-> Spliced(rd.arc, disk.arc, rd.have), have |-> rd.have + 1]
    <2>1. /\ rd.arc \in Archives /\ disk.arc \in Archives
          /\ rd.have \in Nat /\ disk.have \in Nat
        BY DEF ReaderTypeOK, FileTypeOK
    <2>2. Records(disk.arc) \in Nat
        BY <2>1, RecordsType
    <2>4. /\ rd.have >= 1 /\ rd.have <= Records(rd.arc) /\ rd.have < disk.have
          /\ disk.have <= Records(disk.arc) /\ (HasGlobal(rd.arc) <=> HasGlobal(disk.arc))
        BY <1>3, Zenon DEF Aligned, Bounds, HaveBounded
    <2>5. rd.have < Records(disk.arc) /\ rd.have + 1 <= Records(disk.arc)
        BY <2>1, <2>2, <2>4, SMT
    <2>6. /\ Spliced(rd.arc, disk.arc, rd.have) \in Archives
          /\ Records(Spliced(rd.arc, disk.arc, rd.have)) = Records(disk.arc)
        BY <2>1, <2>4, <2>5, SplicedType
    <2>7. /\ rd' \in [arc : Archives, have : Nat]
          /\ rd'.arc = Spliced(rd.arc, disk.arc, rd.have) /\ rd'.have = rd.have + 1
        BY <1>3, <2>1, <2>6
    <2>8. last' \in Promise!Contents \cup {Nothing}
        BY <1>1, Zenon DEF FileTypeOK
    <2>9. ReaderTypeOK'
        BY <1>1, <2>7, <2>8, SMT DEF ReaderTypeOK, decoderVars
    <2>10. BlockRead'
        BY <1>1, SMT DEF BlockRead
    <2>11. rd'.have <= Records(rd'.arc)
        BY <2>5, <2>6, <2>7, Zenon
    <2>12. HaveBounded'
        BY <1>1, <2>11, Zenon DEF fileVars, Bounds, HaveBounded
    <2> QED
        BY <2>6, <2>7, <2>9, <2>10, <2>12, Zenon
<1> QED
    BY <1>2, <1>3, Zenon DEF ReadOther

LEMMA EndReadTypes ==
    ASSUME TypeInv, Bounds, EndRead \/ Misread
    PROVE  ReaderTypeOK' /\ BlockRead' /\ rd' = rd
<1> USE DEF TypeInv, TypeOK
<1>1. CASE EndRead
    BY <1>1, SMT DEF EndRead, decoderVars, ReaderTypeOK, BlockRead
<1>2. CASE Misread
    <2>1. result' \in [kind : {"none", "ok", "err"}, data : Spans]
        <3>1. CASE result' = Error
            BY <3>1, SMT DEF Error, EmptySpan, Spans, Garbled
        <3>2. ASSUME NEW n \in 0..MaxOutput,
                     result' = [kind |-> "ok", data |-> Span(Garbled, 0, n)]
              PROVE  result' \in [kind : {"none", "ok", "err"}, data : Spans]
            <4>1. n \in Nat
                BY ConstantsAssumption, SMT DEF ConstantsAssumption
            <4>2. Span(Garbled, 0, n) \in Spans
                BY <4>1, SMT DEF Span, Spans, EmptySpan, Garbled
            <4> QED
                BY <3>2, <4>2
        <3> QED
            BY <1>2, <3>1, <3>2 DEF Misread
    <2>2. /\ UNCHANGED <<rd, asked, last, key, bi, started, tok, need, count, part,
                         chunks, out, low>>
          /\ rpc' = "idle"
        BY <1>2, Zenon DEF Misread
    <2> QED
        BY <2>1, <2>2, SMT DEF ReaderTypeOK, BlockRead
<1> QED
    BY <1>1, <1>2

LEMMA ReadHeadTypes ==
    ASSUME TypeInv, Bounds, ReadHead
    PROVE  ReaderTypeOK' /\ BlockRead' /\ rd' = rd
<1> USE DEF TypeInv, TypeOK
<1>1. CASE Fail
    BY <1>1, FailTypes
<1>2. CASE ~Fail
    <2>1. /\ rpc' = "block"
          /\ low' = IF HasGlobal(rd.arc) THEN rd.arc.payload.data.lo
                    ELSE rd.arc.original_size
          /\ UNCHANGED <<rd, asked, last, key, bi, started, tok, need, count, part,
                         chunks, out, result>>
        BY <1>2, Zenon DEF ReadHead
    <2>2. EmptySpan \in Spans
        BY SMT DEF EmptySpan, Spans, Garbled
    <2>3. rd.arc.original_size \in Nat /\ rd.arc.payload.data.lo \in Nat
        <3>1. rd.arc \in Archives
            BY DEF ReaderTypeOK
        <3>2. rd.arc.payload.data \in Spans
            BY <2>2, <3>1 DEF Archives, Packs, NoPack
        <3> QED
            BY <3>1, <3>2 DEF Archives, Spans
    <2>4. low' \in Nat
        BY <2>1, <2>3, Zenon
    <2> QED
        BY <2>1, <2>4, SMT DEF ReaderTypeOK, BlockRead
<1> QED
    BY <1>1, <1>2

LEMMA ReadBlockTypes ==
    ASSUME TypeInv, Bounds, ReadBlock
    PROVE  ReaderTypeOK' /\ BlockRead' /\ rd' = rd
<1> USE DEF TypeInv, TypeOK
<1>1. CASE ~BlockOK
    BY <1>1, FailTypes, Zenon DEF ReadBlock
<1>2. CASE BlockOK /\ SkipsBlock
    <2>1. ReaderTypeOK'
        BY <1>2, SMT DEF ReadBlock, ReaderTypeOK
    <2> QED
        BY <1>2, <2>1, SMT DEF ReadBlock, BlockRead
<1>3. CASE BlockOK /\ ~SkipsBlock
    <2>1. ReaderTypeOK' /\ rd' = rd
        BY <1>3, SMT DEF ReadBlock, ReaderTypeOK, EmptySpan, Spans, Garbled
    <2>2. bi < Len(rd.arc.blocks)
        <3>1. /\ Preamble(rd.arc) + bi + 1 <= rd.have
              /\ rd.have <= Preamble(rd.arc) + Len(rd.arc.blocks)
            BY <1>3 DEF BlockOK, Bounds, HaveBounded, Records
        <3>2. Preamble(rd.arc) \in {1, 2}
            BY Zenon DEF Preamble
        <3>3. bi \in Nat /\ rd.have \in Nat /\ Len(rd.arc.blocks) \in Nat
            BY DEF ReaderTypeOK, Archives
        <3> QED
            BY <3>1, <3>2, <3>3, SMT
    <2>3. bi' = bi
        BY <1>3, Zenon DEF ReadBlock
    <2> QED
        BY <2>1, <2>2, <2>3, Zenon DEF BlockRead
<1> QED
    BY <1>1, <1>2, <1>3

LEMMA DecodedTypes ==
    ASSUME TypeInv, Bounds, need > 0, NEW data \in Spans, NEW n \in Nat,
           NEW opened \in Nat, Decoded(data, n, opened)
    PROVE  ReaderTypeOK' /\ BlockRead' /\ rd' = rd
<1> USE DEF TypeInv, TypeOK
<1>1. need' \in Nat /\ tok' \in Nat /\ count' \in Nat
    BY SMT DEF Decoded, ReaderTypeOK
<1>2. part' \in Spans
    BY ConcatType DEF Decoded, ReaderTypeOK
<1>3. low' \in Nat
    BY SMT DEF Decoded, ReaderTypeOK, Lesser, Spans
<1>4. ReaderTypeOK'
    BY <1>1, <1>2, <1>3, Zenon DEF ReaderTypeOK, Decoded
<1> QED
    BY <1>4, Zenon DEF Decoded, BlockRead, Bounds

LEMMA ReadTokenTypes ==
    ASSUME TypeInv, Bounds, ReadToken
    PROVE  ReaderTypeOK' /\ BlockRead' /\ rd' = rd
<1> USE DEF TypeInv, TypeOK
<1>1. CASE tok >= Len(Block.node)
    BY <1>1, FailTypes, Zenon DEF ReadToken
<1>2. CASE ~(tok >= Len(Block.node))
    <2> DEFINE t == Block.node[tok + 1]
    <2>1. Block \in Blocks
        <3>1. bi + 1 \in 1..Len(rd.arc.blocks) /\ rd.arc.blocks \in Seq(Blocks)
            BY SMT DEF ReadToken, Bounds, BlockRead, ReaderTypeOK, Archives
        <3> QED
            BY <3>1 DEF Block
    <2>2. t \in Tokens
        <3>1. Block.node \in Seq(Tokens)
            BY <2>1 DEF Blocks
        <3>2. tok + 1 \in 1..Len(Block.node)
            BY <1>2, <3>1, SMT DEF ReaderTypeOK
        <3> QED
            BY <3>1, <3>2
    <2>3. EmptySpan \in Spans
        BY SMT DEF EmptySpan, Spans, Garbled
    <2>4. /\ t.kind \in {"piece", "group"} => t.pack.data \in Spans /\ t.count \in Nat
          /\ t.kind = "slice" => t.count \in Nat /\ t.offset \in Nat /\ t.len \in Nat
        BY <2>2 DEF Tokens, LeafTokens, SplitTokens, SliceTokens, Packs
    <2> HIDE DEF t
    <2>5. rd.arc.payload.data \in Spans
        BY <2>3 DEF ReaderTypeOK, Archives, Packs, NoPack
    <2>6. t.kind = "slice" =>
              SubSpan(rd.arc.payload.data, t.offset, t.offset + t.len) \in Spans
        BY <2>4, <2>5, SMT DEF SubSpan, Span, Spans, EmptySpan, Garbled
    <2>7. \/ Fail
          \/ t.kind \in {"piece", "group"} /\ Decoded(t.pack.data, t.count, 0)
          \/ Decoded(EmptySpan, 0, 2)
          \/ t.kind = "slice"
             /\ Decoded(SubSpan(rd.arc.payload.data, t.offset, t.offset + t.len),
                        t.count, 0)
        BY <1>2, Zenon DEF ReadToken, t
    <2>8. need > 0
        BY DEF ReadToken
    <2> QED
        BY <2>3, <2>4, <2>6, <2>7, <2>8, FailTypes, DecodedTypes
<1> QED
    BY <1>1, <1>2

LEMMA EndNodeTypes ==
    ASSUME TypeInv, Bounds, EndNode
    PROVE  ReaderTypeOK' /\ BlockRead' /\ rd' = rd
<1> USE DEF TypeInv, TypeOK
<1>1. CASE Fail
    BY <1>1, FailTypes
<1>2. CASE ~Fail
    <2>1. /\ out' = Concat(out, part) /\ chunks' = chunks + count /\ bi' = bi + 1
          /\ rpc' = "block"
          /\ UNCHANGED <<rd, asked, last, key, started, tok, need, count, part, low,
                         result>>
        BY <1>2, Zenon DEF EndNode
    <2>2. out' \in Spans /\ chunks' \in Nat /\ bi' \in Nat
        BY <2>1, ConcatType, SMT DEF ReaderTypeOK
    <2> QED
        BY <2>1, <2>2, SMT DEF ReaderTypeOK, BlockRead
<1> QED
    BY <1>1, <1>2

LEMMA FinishTypes ==
    ASSUME TypeInv, Bounds, Finish
    PROVE  ReaderTypeOK' /\ BlockRead' /\ rd' = rd
<1> USE DEF TypeInv, TypeOK
<1>1. CASE EndChecks
    BY <1>1, SMT DEF Finish, ReaderTypeOK, BlockRead
<1>2. CASE ~EndChecks
    BY <1>2, FailTypes, Zenon DEF Finish
<1> QED
    BY <1>1, <1>2

\* The reader leaves the writer and the file as they are.
LEMMA ReaderKeepsWriter ==
    ASSUME TypeInv, UNCHANGED <<writerVars, fileVars>>
    PROVE  WriterTypeOK' /\ FileTypeOK' /\ Working' /\ Ordered'
<1> USE DEF TypeInv, TypeOK, writerVars, fileVars
<1>1. WriterTypeOK'
    BY Zenon DEF WriterTypeOK
<1> QED
    BY <1>1, Zenon DEF FileTypeOK, Working, Ordered, opts

LEMMA ReaderTypes ==
    ASSUME TypeInv, Bounds, ReaderStep
    PROVE  ReaderTypeOK' /\ BlockRead' /\ HaveBounded'
<1>1. CASE rd' = rd
    <2>1. HaveBounded'
        BY <1>1, ReaderKeepsOthers, Zenon DEF fileVars, Bounds, HaveBounded
    <2> QED
        BY <2>1, ReadFirstTypes, ReadMoreTypes, ReadOtherTypes, EndReadTypes,
           ReadHeadTypes, ReadBlockTypes, ReadTokenTypes, EndNodeTypes, FinishTypes
           DEF ReaderStep
<1>2. CASE rd' # rd
    BY <1>2, ReadFirstTypes, ReadMoreTypes, ReadOtherTypes, EndReadTypes,
       ReadHeadTypes, ReadBlockTypes, ReadTokenTypes, EndNodeTypes, FinishTypes
       DEF ReaderStep
<1> QED
    BY <1>1, <1>2

\* Bytes of another write are bytes of a later one than the reader's first.
LEMMA OtherIsLater ==
    ASSUME TypeInv, Bounds, ReadOther
    PROVE  /\ asked' = asked /\ last' = stored
           /\ asked # Nothing /\ asked # stored /\ Num(asked) <= Num(stored)
<1>1. /\ asked' = asked /\ last' = stored /\ last # stored /\ asked # Nothing
    BY Zenon DEF ReadOther
<1>2. Num(asked) <= Num(last) /\ Num(last) < Num(stored)
    BY <1>1 DEF Bounds, Fresh
<1>3. Num(asked) \in Nat /\ Num(last) \in Nat /\ Num(stored) \in Nat
    BY NumType DEF TypeInv, TypeOK, FileTypeOK, ReaderTypeOK
<1>4. Num(asked) < Num(stored)
    BY <1>2, <1>3, SMT
<1> QED
    BY <1>1, <1>3, <1>4, SMT

\* Nothing gets into a reader or the file but what is written later.
LEMMA FreshStep ==
    ASSUME TypeInv, Bounds, Next
    PROVE  Fresh'
<1> USE DEF TypeInv, TypeOK
<1>1. /\ stored \in Promise!Contents \cup {Nothing}
      /\ asked \in Promise!Contents \cup {Nothing}
      /\ last \in Promise!Contents \cup {Nothing}
      /\ writes \in Nat
    BY SMT DEF FileTypeOK, ReaderTypeOK, WriterTypeOK
<1>2. /\ Num(stored) \in Nat /\ Num(asked) \in Nat /\ Num(last) \in Nat
      /\ asked # Nothing => Num(asked) > 0
    BY <1>1, NumType
<1>3. Fresh
    BY DEF Bounds
<1>4. ASSUME UNCHANGED <<asked, last, rpc, stored, writes>>,
             wpc' \in {"share", "block", "node"} => wpc \in {"share", "block", "node"}
      PROVE  Fresh'
    BY <1>3, <1>4, Zenon DEF Fresh, Num
<1>5. ASSUME NEW size \in 0..MaxSize, NEW o \in OptionSpace,
             NEW profile \in Profiles, Compress(size, o, profile)
      PROVE  Fresh'
    <2>1. UNCHANGED <<asked, last, rpc, stored>> /\ writes' = writes + 1
        BY <1>5, Zenon DEF Compress, fileVars, readerVars
    <2>2. Num(stored) < writes'
        BY <1>1, <1>2, <1>3, <2>1, SMT DEF Fresh
    <2>3. Num(stored) <= writes'
        BY <1>1, <1>2, <2>1, <2>2, SMT
    <2> QED
        BY <1>3, <2>1, <2>2, <2>3, Zenon DEF Fresh, Num
<1>6. CASE Create
    <2>1. UNCHANGED <<asked, last, rpc, writes>> /\ wpc = "block" /\ wpc' = "save"
        BY <1>6, SMT DEF Create, readerVars
    <2>2. stored' \in Promise!Contents /\ stored'.src = writes
        BY <1>6, CreateTypes
    <2>3. Num(stored)' = writes
        BY <2>1, <2>2, NothingAssumption DEF Num, Promise!Contents
    <2>4. Num(last) < writes
        BY <1>1, <1>2, <1>3, <2>1, SMT DEF Fresh
    <2>5. Num(asked) <= Num(last) /\ writes <= writes
        BY <1>1, <1>3, SMT DEF Fresh
    <2>6. /\ rpc = "garbled" => last # asked
          /\ asked = Nothing => last = Nothing
        BY <1>3 DEF Fresh
    <2> QED
        BY <2>1, <2>3, <2>4, <2>5, <2>6, SMT DEF Fresh, Num
<1>7. CASE \/ Share \/ WideBlock \/ BeginBlock \/ WritePiece \/ WriteGroup
           \/ WriteSplit \/ EndBlock \/ Fill \/ SaveFails \/ CompressFails
    <2>1. UNCHANGED <<asked, last, rpc, stored, writes>>
        BY <1>7, Zenon DEF Share, WideBlock, BeginBlock, WritePiece, WriteGroup,
           WriteLeaf, WriteSplit, EndBlock, Fill, SaveFails, CompressFails, fileVars,
           readerVars
    <2>2. wpc' \in {"share", "block", "node"} => wpc \in {"share", "block", "node"}
        <3>1. CASE Share \/ WideBlock \/ BeginBlock \/ EndBlock
            <4>1. wpc \in {"share", "block", "node"}
                BY <3>1, Zenon DEF Share, WideBlock, BeginBlock, EndBlock
            <4> QED
                BY <4>1
        <3>2. CASE WritePiece \/ WriteGroup \/ WriteSplit
            BY <3>2, Zenon DEF WritePiece, WriteGroup, WriteLeaf, WriteSplit
        <3>3. CASE Fill \/ SaveFails \/ CompressFails
            BY <3>3, SMT DEF Fill, SaveFails, CompressFails
        <3> QED
            BY <1>7, <3>1, <3>2, <3>3
    <2> QED
        BY <1>4, <2>1, <2>2
<1>8. ASSUME NEW k \in Starts, Open(k) PROVE Fresh'
    <2>1. /\ asked' = Nothing /\ last' = Nothing /\ rpc' = "read"
          /\ UNCHANGED <<stored, writes, wpc>>
        BY <1>8, Zenon DEF Open, writerVars, fileVars
    <2>2. stored = Nothing \/ 0 < Num(stored)
        BY <1>1, NumType
    <2> QED
        BY <1>3, <2>1, <2>2, SMT DEF Fresh, Num
<1>9. CASE ReaderStep
    <2>1. UNCHANGED <<stored, writes, wpc>>
        BY <1>9, ReaderKeepsOthers, Zenon DEF writerVars, fileVars
    <2>2. CASE ReadFirst
        BY <1>2, <1>3, <2>1, <2>2, SMT DEF ReadFirst, Fresh, Num
    <2>3. CASE ReadOther
        BY <1>3, <2>1, <2>3, OtherIsLater, Zenon DEF Fresh, Num
    <2>4. CASE ~ReadFirst /\ ~ReadOther
        <3>1. UNCHANGED <<asked, last>> /\ (rpc' # "garbled" \/ UNCHANGED rpc)
            BY <1>9, <2>4, SMT DEF ReaderStep, ReadMore, EndRead, Misread, ReadHead,
               ReadBlock, ReadToken, EndNode, Finish, Fail, Decoded
        <3> QED
            BY <1>3, <2>1, <3>1, Zenon DEF Fresh, Num
    <2> QED
        BY <2>2, <2>3, <2>4
<1> QED
    BY <1>5, <1>6, <1>7, <1>8, <1>9, Zenon DEF Next, WriterStep

LEMMA SameFileStep ==
    ASSUME TypeInv, Bounds, Next
    PROVE  SameFile'
<1> USE DEF TypeInv, TypeOK
<1>1. SameFile
    BY DEF Bounds
<1>2. ASSUME UNCHANGED <<rpc, asked, last, stored, rd>>, disk'.arc = disk.arc
      PROVE  SameFile'
    BY <1>1, <1>2, Zenon DEF SameFile
<1>3. CASE Create
    <2>1. /\ last \in Promise!Contents \cup {Nothing} /\ writes \in Nat
          /\ stored \in Promise!Contents \cup {Nothing}
        BY DEF ReaderTypeOK, WriterTypeOK, FileTypeOK
    <2>2. stored' \in Promise!Contents /\ stored'.src = writes /\ last' = last
        BY <1>3, CreateTypes DEF Create, readerVars
    <2>3. Num(last) < writes
        BY <1>3, <2>1, NumType, SMT DEF Create, Bounds, Fresh
    <2>4. last # Nothing => last.src < writes
        BY <2>3 DEF Num
    <2>5. stored' # Nothing
        BY <2>2, NothingAssumption DEF Promise!Contents
    <2>6. last' # stored'
        BY <2>1, <2>2, <2>4, <2>5, SMT
    <2> QED
        BY <2>6, Zenon DEF SameFile
<1>4. CASE Fill
    <2>1. UNCHANGED <<rpc, asked, last, stored, rd>>
        BY <1>4, Zenon DEF Fill, readerVars
    <2>2. disk'.arc = disk.arc
        BY <1>4 DEF Fill, FileTypeOK
    <2> QED
        BY <1>2, <2>1, <2>2
<1>5. CASE \/ Share \/ WideBlock \/ BeginBlock \/ WritePiece \/ WriteGroup
           \/ WriteSplit \/ EndBlock \/ SaveFails \/ CompressFails
           \/ \E size \in 0..MaxSize, o \in OptionSpace, profile \in Profiles :
                  Compress(size, o, profile)
    <2>1. UNCHANGED readerVars /\ UNCHANGED fileVars
        BY <1>5, Zenon DEF Share, WideBlock, BeginBlock, WritePiece, WriteGroup,
           WriteLeaf, WriteSplit, EndBlock, SaveFails, CompressFails, Compress
    <2> QED
        BY <1>2, <2>1, Zenon DEF readerVars, fileVars
<1>6. ASSUME NEW k \in Starts, Open(k) PROVE SameFile'
    BY <1>6, Zenon DEF Open, SameFile
<1>7. CASE ReaderStep
    <2>1. UNCHANGED fileVars
        BY <1>7, ReaderKeepsOthers, Zenon
    <2>2. CASE ReadFirst
        <3>1. rd'.arc = disk.arc
            BY <2>2 DEF ReadFirst
        <3> QED
            BY <2>1, <3>1, Zenon DEF SameFile, fileVars
    <2>3. CASE ReadMore
        <3>1. rd'.arc = rd.arc
            BY <2>3 DEF ReadMore, ReaderTypeOK
        <3> QED
            BY <1>1, <2>1, <2>3, <3>1, Zenon DEF SameFile, ReadMore, fileVars
    <2>4. CASE ReadOther
        BY <2>1, <2>4, ReadOtherTypes, Zenon DEF SameFile, fileVars
    <2>5. CASE ~ReadFirst /\ ~ReadMore /\ ~ReadOther
        <3>1. rpc' # "read"
            BY <1>7, <2>5, SMT DEF ReaderStep, EndRead, Misread, ReadHead, ReadBlock,
               ReadToken, EndNode, Finish, Fail, Decoded
        <3> QED
            BY <3>1, Zenon DEF SameFile
    <2> QED
        BY <2>2, <2>3, <2>4, <2>5
<1> QED
    BY <1>3, <1>4, <1>5, <1>6, <1>7, Zenon DEF Next, WriterStep

LEMMA TypeStep ==
    ASSUME TypeInv, Bounds, [Next]_vars
    PROVE  TypeInv' /\ Bounds'
<1>1. CASE UNCHANGED vars
    <2>1. UNCHANGED readerVars /\ UNCHANGED fileVars /\ UNCHANGED writerVars
        BY <1>1, Zenon DEF vars
    <2>2. FileTypeOK' /\ ReaderTypeOK' /\ HaveBounded' /\ BlockRead'
        BY <2>1, WriterKeepsReader
    <2>3. WriterTypeOK' /\ Working' /\ Ordered'
        BY <2>1, Zenon DEF writerVars, TypeInv, TypeOK, WriterTypeOK, Working,
                          Ordered, opts
    <2>4. BlocksInRange'
        BY <2>1, Zenon DEF writerVars, Bounds, BlocksInRange, jobBlocks, jobChunks,
                          opts
    <2>5. Fresh' /\ SameFile'
        BY <2>1, Zenon DEF writerVars, fileVars, readerVars, Bounds, Fresh, SameFile, Num
    <2> QED
        BY <2>2, <2>3, <2>4, <2>5 DEF TypeInv, TypeOK, Bounds
<1>2. CASE Next
    <2>1. BlocksInRange'
        BY <1>2, WriterBlocksInRange
    <2>2. SUFFICES /\ WriterTypeOK' /\ Working' /\ Ordered'
                   /\ FileTypeOK' /\ ReaderTypeOK' /\ HaveBounded' /\ BlockRead'
        BY <1>2, <2>1, FreshStep, SameFileStep DEF TypeInv, TypeOK, Bounds
    <2>3. ASSUME NEW size \in 0..MaxSize, NEW o \in OptionSpace,
                 NEW profile \in Profiles, Compress(size, o, profile)
          PROVE  /\ WriterTypeOK' /\ Working' /\ Ordered'
                 /\ UNCHANGED readerVars /\ UNCHANGED fileVars
        BY <2>3, CompressTypes DEF Compress
    <2>4. CASE Share
        BY <2>4, ShareTypes, WriterKeepsReader DEF Share
    <2>5. CASE WideBlock
        BY <2>5, WideBlockTypes, WriterKeepsReader DEF WideBlock
    <2>6. CASE BeginBlock
        BY <2>6, BeginBlockTypes, WriterKeepsReader DEF BeginBlock
    <2>7. CASE WritePiece \/ WriteGroup
        <3>1. UNCHANGED readerVars /\ UNCHANGED fileVars
            BY <2>7, Zenon DEF WritePiece, WriteGroup, WriteLeaf
        <3> QED
            BY <2>7, <3>1, WritePieceTypes, WriteGroupTypes, WriterKeepsReader
    <2>8. CASE WriteSplit
        BY <2>8, WriteSplitTypes, WriterKeepsReader DEF WriteSplit
    <2>9. CASE EndBlock
        BY <2>9, EndBlockTypes, WriterKeepsReader DEF EndBlock, Bounds
    <2>10. CASE Create \/ Fill \/ SaveFails
        BY <2>10, CreateTypes, FillTypes, CreateBounds
    <2>11. CASE CompressFails
        <3>1. WriterTypeOK' /\ Working' /\ Ordered'
            BY <2>11, SMT DEF CompressFails, TypeInv, TypeOK, WriterTypeOK, Working,
                             Ordered
        <3> QED
            BY <2>11, <3>1, WriterKeepsReader DEF CompressFails
    <2>12. ASSUME NEW k \in Starts, Open(k)
           PROVE  /\ WriterTypeOK' /\ Working' /\ Ordered'
                  /\ FileTypeOK' /\ ReaderTypeOK' /\ HaveBounded' /\ BlockRead'
        BY <2>12, OpenTypes, ReaderKeepsWriter DEF Open
    <2>13. CASE ReaderStep
        BY <2>13, ReaderTypes, ReaderKeepsOthers, ReaderKeepsWriter
    <2> QED
        BY <1>2, <2>3, <2>4, <2>5, <2>6, <2>7, <2>8, <2>9, <2>10, <2>11, <2>12,
           <2>13, WriterKeepsReader DEF Next, WriterStep
<1> QED
    BY <1>1, <1>2

LEMMA InitBounds == Init => Bounds
<1> SUFFICES ASSUME Init PROVE Bounds
    OBVIOUS
<1>1. BlocksInRange /\ HaveBounded /\ BlockRead
    BY SMT DEF Init, BlocksInRange, HaveBounded, BlockRead, NoArchive, Records,
               Preamble, HasGlobal
<1>2. Fresh /\ SameFile
    BY SMT DEF Init, Fresh, SameFile, Num
<1> QED
    BY <1>1, <1>2 DEF Bounds

\* The variables of the writer, of the file and of the reader keep their types
\* for every input size, option, profile, codec and number of writes.
THEOREM TypeCorrect == Spec => []TypeOK
<1>1. Init => TypeInv /\ Bounds
    BY InitTypeInv, InitBounds
<1>2. TypeInv /\ Bounds /\ [Next]_vars => TypeInv' /\ Bounds'
    BY TypeStep
<1>3. TypeInv => TypeOK
    BY DEF TypeInv
<1> QED
    BY <1>1, <1>2, <1>3, PTL DEF Spec

----------------------------------------------------------------------------
(* Spans of chunks.                                                        *)

\* A later chunk does not begin before an earlier one.
LEMMA ByteAtMonotone ==
    ASSUME NEW size \in Nat, NEW cs \in Nat, NEW a \in Nat, NEW b \in Nat, a <= b
    PROVE  /\ ByteAt(size, cs, a) \in Nat /\ ByteAt(size, cs, b) \in Nat
           /\ ByteAt(size, cs, a) <= ByteAt(size, cs, b)
<1>1. a * cs \in Nat /\ b * cs \in Nat
    BY SMT
<1>2. a * cs <= b * cs
    BY ProductMonotone
<1>3. \A x, y \in Nat : x <= y => Lesser(x, size) <= Lesser(y, size)
                                  /\ Lesser(x, size) \in Nat /\ Lesser(y, size) \in Nat
    BY SMT DEF Lesser
<1> QED
    BY <1>1, <1>2, <1>3 DEF ByteAt

\* The chunks of an input end where it ends.
LEMMA LastChunkEnds ==
    ASSUME NEW size \in Nat, NEW cs \in Nat \ {0}
    PROVE  /\ ChunkCount(size, cs) \in Nat
           /\ ByteAt(size, cs, ChunkCount(size, cs)) = size
<1>1. CASE size = 0
    BY <1>1, SMT DEF ChunkCount, ByteAt, Lesser
<1>2. CASE size # 0
    <2>1. ChunkCount(size, cs) = CeilDiv(size, cs)
        BY <1>2 DEF ChunkCount
    <2>2. CeilDiv(size, cs) \in Nat /\ size <= CeilDiv(size, cs) * cs
        BY CeilDivBounds
    <2>3. CeilDiv(size, cs) * cs \in Nat
        BY <2>2, SMT
    <2> QED
        BY <2>1, <2>2, <2>3, SMT DEF ByteAt, Lesser
<1> QED
    BY <1>1, <1>2

LEMMA NextMultiple ==
    ASSUME NEW b \in Nat, NEW d \in Nat
    PROVE  (b + 1) * d = b * d + d
BY SMT

\* Chunk c of an input begins c whole chunks behind its start.
LEMMA ChunkBegins ==
    ASSUME NEW size \in Nat, NEW cs \in Nat \ {0}, NEW c \in Nat,
           c < ChunkCount(size, cs)
    PROVE  c * cs \in Nat /\ c * cs < size /\ ByteAt(size, cs, c) = c * cs
<1>1. c < CeilDiv(size, cs)
    BY SMT DEF ChunkCount
<1>2. c * cs < size
    BY <1>1, BelowCeilDiv
<1>3. c * cs \in Nat
    BY SMT
<1> QED
    BY <1>2, <1>3, SMT DEF ByteAt, Lesser

\* Joining adjacent spans of chunks gives the span of all of them.
LEMMA ConcatChunks ==
    ASSUME NEW src \in Nat \ {0}, NEW size \in Nat, NEW cs \in Nat,
           NEW a \in Nat, NEW n \in Nat, NEW m \in Nat
    PROVE  Concat(ChunkSpan(src, size, cs, a, n), ChunkSpan(src, size, cs, a + n, m))
               = ChunkSpan(src, size, cs, a, n + m)
<1> DEFINE x == ByteAt(size, cs, a)
           y == ByteAt(size, cs, a + n)
           z == ByteAt(size, cs, (a + n) + m)
<1>1. a + n \in Nat /\ (a + n) + m \in Nat /\ a + (n + m) = (a + n) + m
      /\ a <= a + n /\ a + n <= (a + n) + m
    BY SMT
<1>2. x \in Nat /\ y \in Nat /\ z \in Nat /\ x <= y /\ y <= z
    BY <1>1, ByteAtMonotone
<1>3. /\ ChunkSpan(src, size, cs, a, n) = Span(src, x, y)
      /\ ChunkSpan(src, size, cs, a + n, m) = Span(src, y, z)
      /\ ChunkSpan(src, size, cs, a, n + m) = Span(src, x, z)
    BY <1>1 DEF ChunkSpan
<1> HIDE DEF x, y, z
<1>4. Concat(Span(src, x, y), Span(src, y, z)) = Span(src, x, z)
    BY <1>2, SMT DEF Concat, Span, EmptySpan, Garbled, SpanLen
<1> QED
    BY <1>3, <1>4

\* No chunks are no bytes.
LEMMA NoChunks ==
    ASSUME NEW src \in Nat, NEW size \in Nat, NEW cs \in Nat, NEW a \in Nat
    PROVE  ChunkSpan(src, size, cs, a, 0) = EmptySpan
<1>1. ByteAt(size, cs, a) \in Nat /\ a + 0 = a
    BY ByteAtType, SMT
<1> QED
    BY <1>1, SMT DEF ChunkSpan, Span

\* A slice of the whole input, with the offset and the length the writer gives
\* it, is the bytes of the chunks it covers.
LEMMA SliceOfInput ==
    ASSUME NEW src \in Nat \ {0}, NEW size \in Nat, NEW cs \in Nat \ {0},
           NEW c \in Nat, NEW n \in Nat, c < ChunkCount(size, cs)
    PROVE  SubSpan(Span(src, 0, size), c * cs,
                   c * cs + SpanLen(ChunkSpan(src, size, cs, c, n)))
               = ChunkSpan(src, size, cs, c, n)
<1> DEFINE x == c * cs
           y == ByteAt(size, cs, c + n)
<1>1. x \in Nat /\ x < size /\ ByteAt(size, cs, c) = x
    BY ChunkBegins
<1>2. c + n \in Nat /\ c <= c + n
    BY SMT
<1>3. y \in Nat /\ x <= y
    <2>1. /\ ByteAt(size, cs, c + n) \in Nat
          /\ ByteAt(size, cs, c) <= ByteAt(size, cs, c + n)
        BY <1>2, ByteAtMonotone
    <2> QED
        BY <1>1, <2>1
<1>4. ChunkSpan(src, size, cs, c, n) = Span(src, x, y)
    BY <1>1 DEF ChunkSpan
<1> HIDE DEF x, y
<1>5. SubSpan(Span(src, 0, size), x, x + SpanLen(Span(src, x, y))) = Span(src, x, y)
    BY <1>1, <1>3, SMT DEF SubSpan, Span, SpanLen, EmptySpan, Garbled
<1> QED
    BY <1>4, <1>5 DEF x

----------------------------------------------------------------------------
(* Tokens laid end to end.                                                 *)

\* The number of chunks a token stands for, and their bytes.
TokenCount(t) == IF t.kind = "split" THEN 0 ELSE t.count

TokenData(t, global) ==
    IF t.kind = "split" THEN EmptySpan
    ELSE IF t.kind = "slice" THEN SubSpan(global, t.offset, t.offset + t.len)
    ELSE t.pack.data

\* The tokens cover adjacent runs of chunks of input src, from chunk first on;
\* token j ends where pos[j] says.
Laid(tokens, pos, first, global, src, size, cs) ==
    /\ pos \in [0..Len(tokens) -> Nat]
    /\ pos[0] = first
    /\ \A j \in 1..Len(tokens) :
          /\ pos[j] = pos[j - 1] + TokenCount(tokens[j])
          /\ TokenData(tokens[j], global)
                 = ChunkSpan(src, size, cs, pos[j - 1], TokenCount(tokens[j]))

LEMMA TokenCountType ==
    ASSUME NEW t \in Tokens
    PROVE  TokenCount(t) \in Nat
BY SMT DEF Tokens, LeafTokens, SplitTokens, SliceTokens, TokenCount

\* Nothing is laid yet.
LEMMA LaidNone ==
    ASSUME NEW first \in Nat, NEW global, NEW src, NEW size, NEW cs
    PROVE  /\ Laid(<<>>, [j \in 0..0 |-> first], first, global, src, size, cs)
           /\ [j \in 0..0 |-> first][Len(<<>>)] = first
<1>1. Len(<<>>) = 0 /\ 1..0 = {} /\ 0 \in 0..0
    BY SMT
<1> QED
    BY <1>1 DEF Laid

\* One more token is laid where the last one ends.
LEMMA LaidAppend ==
    ASSUME NEW tokens \in Seq(Tokens), NEW t \in Tokens, NEW first \in Nat,
           NEW global, NEW src, NEW size, NEW cs, NEW pos,
           Laid(tokens, pos, first, global, src, size, cs),
           TokenData(t, global)
               = ChunkSpan(src, size, cs, pos[Len(tokens)], TokenCount(t))
    PROVE  \E new : /\ Laid(Append(tokens, t), new, first, global, src, size, cs)
                    /\ new[Len(Append(tokens, t))] = pos[Len(tokens)] + TokenCount(t)
<1> DEFINE k == Len(tokens)
           more == Append(tokens, t)
           new == [j \in 0..(k + 1) |-> IF j <= k THEN pos[j] ELSE pos[k] + TokenCount(t)]
<1>1. /\ k \in Nat /\ Len(more) = k + 1 /\ more[k + 1] = t
      /\ \A j \in 1..k : more[j] = tokens[j]
    OBVIOUS
<1>2. TokenCount(t) \in Nat
    BY TokenCountType
<1>3. pos \in [0..k -> Nat] /\ pos[0] = first
    BY DEF Laid
<1>4. /\ \A j \in 0..k : new[j] = pos[j] /\ pos[j] \in Nat
      /\ new[k + 1] = pos[k] + TokenCount(t)
      /\ 0 \in 0..k /\ k \in 0..k
    BY <1>1, <1>3, SMT
<1>5. new \in [0..(k + 1) -> Nat]
    BY <1>1, <1>2, <1>3, SMT
<1> HIDE DEF new, more
<1>6. ASSUME NEW j \in 1..(k + 1)
      PROVE  /\ new[j] = new[j - 1] + TokenCount(more[j])
             /\ TokenData(more[j], global)
                    = ChunkSpan(src, size, cs, new[j - 1], TokenCount(more[j]))
    <2>1. CASE j \in 1..k
        <3>1. j - 1 \in 0..k /\ j \in 0..k
            BY <1>1, <2>1, SMT
        <3>2. new[j] = pos[j] /\ new[j - 1] = pos[j - 1] /\ more[j] = tokens[j]
            BY <1>1, <1>4, <2>1, <3>1
        <3> QED
            BY <2>1, <3>2 DEF Laid
    <2>2. CASE j = k + 1
        <3>1. j - 1 = k
            BY <1>1, <2>2, SMT
        <3> QED
            BY <1>1, <1>4, <2>2, <3>1
    <2> QED
        BY <1>1, <2>1, <2>2, SMT
<1>7. new[0] = first
    BY <1>3, <1>4
<1>8. Laid(more, new, first, global, src, size, cs)
    BY <1>1, <1>5, <1>6, <1>7 DEF Laid
<1> QED
    BY <1>1, <1>4, <1>8 DEF more

----------------------------------------------------------------------------
(* What the writer has laid down.                                          *)

\* Blocks bs are the first ones of input src, each with its place and length.
BlocksLaid(bs, global, src, size, cs, interval) ==
    \A i \in 1..Len(bs) :
        LET first == (i - 1) * interval IN
        /\ bs[i].first = first
        /\ bs[i].count = Lesser(first + interval, ChunkCount(size, cs)) - first
        /\ \E pos : Laid(bs[i].node, pos, first, global, src, size, cs)

\* The global payload is the whole input, the blocks so far are in place, and so
\* are the tokens of the current one, up to where the rest of its plan begins.
GlobalWhole ==
    (opts.wide_overfitting_circuits \/ payload # NoPack) => payload.data = wholeInput

BlocksInPlace ==
    BlocksLaid(blocks, payload.data, writes, job.size, opts.chunk_size,
               opts.key_piece_interval)

Adjacent == \A i \in 1..(Len(todo) - 1) : todo[i].hi = todo[i + 1].lo

NodeInPlace ==
    \E pos : /\ Laid(node, pos, BlockFirst(Len(blocks)), payload.data, writes,
                     job.size, opts.chunk_size)
             /\ todo # <<>> => pos[Len(node)] = todo[1].lo

WriterInv ==
    /\ wpc = "share" => blocks = <<>>
    /\ wpc \in {"block", "node"} => GlobalWhole /\ BlocksInPlace
    /\ wpc = "node" => Adjacent /\ NodeInPlace

\* BlocksLaid for one block more.
LEMMA BlocksAppend ==
    ASSUME NEW bs \in Seq(Blocks), NEW b \in Blocks, NEW global, NEW src, NEW size,
           NEW cs, NEW interval \in Nat, NEW pos,
           BlocksLaid(bs, global, src, size, cs, interval),
           b.first = Len(bs) * interval,
           b.count = Lesser(Len(bs) * interval + interval, ChunkCount(size, cs))
                         - Len(bs) * interval,
           Laid(b.node, pos, Len(bs) * interval, global, src, size, cs)
    PROVE  BlocksLaid(Append(bs, b), global, src, size, cs, interval)
<1> DEFINE more == Append(bs, b)
           InPlace(x, first) ==
               /\ x.first = first
               /\ x.count = Lesser(first + interval, ChunkCount(size, cs)) - first
               /\ \E p : Laid(x.node, p, first, global, src, size, cs)
<1>1. /\ Len(bs) \in Nat /\ Len(more) = Len(bs) + 1 /\ more[Len(bs) + 1] = b
      /\ \A i \in 1..Len(bs) : more[i] = bs[i]
    OBVIOUS
<1>2. \A i \in 1..Len(bs) : InPlace(bs[i], (i - 1) * interval)
    BY DEF BlocksLaid
<1>3. InPlace(b, Len(bs) * interval)
    OBVIOUS
<1>4. (Len(bs) + 1) - 1 = Len(bs)
    BY <1>1, SMT
<1> HIDE DEF more, InPlace
<1>5. ASSUME NEW i \in 1..Len(more)
      PROVE  InPlace(more[i], (i - 1) * interval)
    <2>1. CASE i \in 1..Len(bs)
        BY <1>1, <1>2, <2>1
    <2>2. CASE i = Len(bs) + 1
        BY <1>1, <1>3, <1>4, <2>2
    <2> QED
        BY <1>1, <2>1, <2>2, SMT
<1>6. BlocksLaid(more, global, src, size, cs, interval)
    BY <1>5 DEF BlocksLaid, InPlace
<1> QED
    BY <1>6 DEF more

\* Block i with its one slice is in place if the global payload is the input.
LEMMA SliceInPlace ==
    ASSUME WriterTypeOK, ValidOptions(opts), writes # 0, NEW i \in Nat, i < jobBlocks,
           payload.data = wholeInput
    PROVE  \E pos : Laid(<<BlockSlice(i)>>, pos, BlockFirst(i), payload.data, writes,
                         job.size, opts.chunk_size)
<1> DEFINE t == BlockSlice(i)
           first == BlockFirst(i)
           n == BlockEnd(i) - first
<1>1. /\ first \in Nat /\ n \in Nat /\ first < jobChunks
      /\ opts.chunk_size \in Nat \ {0} /\ job.size \in Nat /\ writes \in Nat \ {0}
    <2>1. BlockFirst(i) \in Nat /\ BlockEnd(i) \in Nat /\ BlockFirst(i) < BlockEnd(i)
          /\ BlockEnd(i) - BlockFirst(i) \in Nat
        BY BlockGeometry
    <2>2. jobChunks \in Nat /\ opts.chunk_size \in Nat \ {0}
          /\ opts.key_piece_interval \in Nat
        BY JobChunksType
    <2>3. BlockEnd(i) <= jobChunks
        BY <2>1, <2>2, SMT DEF BlockEnd, Lesser
    <2>4. BlockFirst(i) < jobChunks
        BY <2>1, <2>2, <2>3, SMT
    <2> QED
        BY <2>1, <2>2, <2>4, OptsType
<1>2. t \in Tokens
    BY BlockSliceType
<1>3. t.kind = "slice" /\ t.count = n /\ t.offset = first * opts.chunk_size
      /\ t.len = SpanLen(ChunkSpan(writes, job.size, opts.chunk_size, first, n))
    BY DEF BlockSlice, SliceToken, Range
<1>4. TokenCount(t) = n
    BY <1>3 DEF TokenCount
<1>5. TokenData(t, payload.data)
          = SubSpan(Span(writes, 0, job.size), first * opts.chunk_size,
                    first * opts.chunk_size
                      + SpanLen(ChunkSpan(writes, job.size, opts.chunk_size, first, n)))
    BY <1>3 DEF TokenData, wholeInput
<1> HIDE DEF t, first, n
<1>6. TokenData(t, payload.data)
          = ChunkSpan(writes, job.size, opts.chunk_size, first, TokenCount(t))
    BY <1>1, <1>4, <1>5, SliceOfInput DEF jobChunks
<1>7. /\ Laid(<<>>, [j \in 0..0 |-> first], first, payload.data, writes, job.size,
              opts.chunk_size)
      /\ [j \in 0..0 |-> first][Len(<<>>)] = first
    BY <1>1, LaidNone
<1>8. \E pos : Laid(Append(<<>>, t), pos, first, payload.data, writes, job.size,
                    opts.chunk_size)
    <2>1. <<>> \in Seq(Tokens)
        OBVIOUS
    <2> QED
        BY <1>1, <1>2, <1>6, <1>7, <2>1, LaidAppend
<1>9. Append(<<>>, t) = <<t>>
    OBVIOUS
<1> QED
    BY <1>8, <1>9 DEF t, first

\* A block record keeps the blocks in place if its node is.
LEMMA RecordInPlace ==
    ASSUME WriterTypeOK, ValidOptions(opts), Len(blocks) < jobBlocks, BlocksInPlace,
           NEW tokens \in Seq(Tokens), NEW pos,
           Laid(tokens, pos, BlockFirst(Len(blocks)), payload.data, writes, job.size,
                opts.chunk_size)
    PROVE  BlocksLaid(Append(blocks, BlockRecord(Len(blocks), tokens)), payload.data,
                      writes, job.size, opts.chunk_size, opts.key_piece_interval)
<1> DEFINE b == BlockRecord(Len(blocks), tokens)
<1>1. Len(blocks) \in Nat /\ blocks \in Seq(Blocks) /\ opts.key_piece_interval \in Nat
    BY OptsType DEF WriterTypeOK
<1>2. b \in Blocks
    BY <1>1, BlockRecordType
<1>3. /\ b.first = Len(blocks) * opts.key_piece_interval
      /\ b.count = Lesser(Len(blocks) * opts.key_piece_interval + opts.key_piece_interval,
                          ChunkCount(job.size, opts.chunk_size))
                       - Len(blocks) * opts.key_piece_interval
      /\ b.node = tokens
    BY DEF BlockRecord, BlockFirst, BlockEnd, jobChunks
<1> HIDE DEF b
<1>4. BlocksLaid(Append(blocks, b), payload.data, writes, job.size, opts.chunk_size,
                 opts.key_piece_interval)
    BY <1>1, <1>2, <1>3, BlocksAppend DEF BlocksInPlace, BlockFirst
<1> QED
    BY <1>4 DEF b

----------------------------------------------------------------------------
(* Each step of the writer keeps what was written in place.                *)

LEMMA InitWriterInv == Init => WriterInv
BY DEF Init, WriterInv

LEMMA CompressWrites ==
    ASSUME TypeInv, WriterInv, NEW size \in 0..MaxSize, NEW o \in OptionSpace,
           NEW profile \in Profiles, Compress(size, o, profile)
    PROVE  WriterInv'
BY SMT DEF Compress, WriterInv

LEMMA ShareWrites ==
    ASSUME TypeInv, WriterInv, Share
    PROVE  WriterInv'
<1> USE DEF TypeInv, TypeOK
<1>1. wpc' \in {"block", "idle"}
    BY SMT DEF Share
<1>2. GlobalWhole'
    <2>1. wholeInput \in Spans
        BY OptsType, SpanType DEF wholeInput
    <2>2. \/ payload' = NoPack /\ ~opts.wide_overfitting_circuits
          \/ payload'.data = wholeInput
        <3>1. CASE opts.wide_overfitting_circuits /\ payload' \in WidePacks(wholeInput, TRUE)
            BY <2>1, <3>1, WidePacksType
        <3>2. CASE ~opts.wide_overfitting_circuits
                   /\ \E p \in WidePacks(wholeInput, SharedRecursive) :
                          payload' = IF Unpacks(p) /\ p.data = wholeInput THEN p ELSE NoPack
            BY <3>2
        <3> QED
            BY <3>1, <3>2, Zenon DEF Share, TriesShared
    <2>3. job' = job /\ writes' = writes
        BY DEF Share
    <2> QED
        BY <2>2, <2>3, Zenon DEF GlobalWhole, wholeInput, opts
<1>3. BlocksInPlace'
    <2>1. blocks' = <<>>
        BY Zenon DEF Share, WriterInv
    <2>2. 1..Len(<<>>) = {}
        BY SMT
    <2> QED
        BY <2>1, <2>2, Zenon DEF BlocksInPlace, BlocksLaid
<1> QED
    BY <1>1, <1>2, <1>3, SMT DEF WriterInv

\* The payload and the input stay what they are while blocks are written.
LEMMA WideBlockWrites ==
    ASSUME TypeInv, WriterInv, WideBlock
    PROVE  WriterInv'
<1> USE DEF TypeInv, TypeOK
<1>1. /\ ValidOptions(opts) /\ writes # 0 /\ Len(blocks) \in Nat
      /\ Len(blocks) < jobBlocks /\ opts.wide_overfitting_circuits /\ wpc = "block"
    BY DEF WideBlock, Working, WriterTypeOK
<1>2. GlobalWhole /\ BlocksInPlace
    BY <1>1, SMT DEF WriterInv
<1>3. payload.data = wholeInput
    BY <1>1, <1>2 DEF GlobalWhole
<1>4. PICK pos : Laid(<<BlockSlice(Len(blocks))>>, pos, BlockFirst(Len(blocks)),
                      payload.data, writes, job.size, opts.chunk_size)
    BY <1>1, <1>3, SliceInPlace
<1>5. <<BlockSlice(Len(blocks))>> \in Seq(Tokens)
    BY <1>1, BlockSliceType
<1>6. BlocksInPlace'
    <2>1. BlocksLaid(Append(blocks, BlockRecord(Len(blocks), <<BlockSlice(Len(blocks))>>)),
                     payload.data, writes, job.size, opts.chunk_size,
                     opts.key_piece_interval)
        BY <1>1, <1>2, <1>4, <1>5, RecordInPlace
    <2>2. /\ blocks' = Append(blocks, BlockRecord(Len(blocks),
                                                  <<BlockSlice(Len(blocks))>>))
          /\ payload' = payload /\ writes' = writes /\ job' = job
        BY DEF WideBlock
    <2> QED
        BY <2>1, <2>2, Zenon DEF BlocksInPlace, opts
<1>7. GlobalWhole' /\ wpc' = "block"
    BY <1>1, <1>2, Zenon DEF WideBlock, GlobalWhole, wholeInput, opts
<1> QED
    BY <1>6, <1>7, SMT DEF WriterInv

LEMMA BeginBlockWrites ==
    ASSUME TypeInv, WriterInv, BeginBlock
    PROVE  WriterInv'
<1> USE DEF TypeInv, TypeOK
<1>1. /\ ValidOptions(opts) /\ Len(blocks) \in Nat
      /\ Len(blocks) < jobBlocks /\ wpc = "block" /\ wpc' = "node"
      /\ UNCHANGED <<payload, writes, job, blocks>>
    BY DEF BeginBlock, Working, WriterTypeOK
<1>2. GlobalWhole' /\ BlocksInPlace'
    <2>1. GlobalWhole /\ BlocksInPlace
        BY <1>1, SMT DEF WriterInv
    <2> QED
        BY <1>1, <2>1, Zenon DEF GlobalWhole, BlocksInPlace, wholeInput, opts
<1> DEFINE first == BlockFirst(Len(blocks))
           e == [lo |-> first, hi |-> BlockEnd(Len(blocks)),
                 depth |-> opts.max_group_depth, root |-> TRUE, main |-> TRUE]
<1>3. todo' = <<e>> /\ node' = <<>> /\ e.lo = first
    BY DEF BeginBlock
<1>4. Adjacent'
    <2>1. Len(todo') = 1 /\ 1..(1 - 1) = {}
        BY <1>3, SMT
    <2> QED
        BY <2>1, Zenon DEF Adjacent
<1>5. NodeInPlace'
    <2>1. first \in Nat
        BY <1>1, BlockGeometry
    <2>2. /\ Laid(<<>>, [j \in 0..0 |-> first], first, payload.data, writes, job.size,
                  opts.chunk_size)
          /\ [j \in 0..0 |-> first][Len(<<>>)] = first
        BY <2>1, LaidNone
    <2>3. todo'[1].lo = first
        BY <1>3
    <2>4. first' = first
        BY <1>1, Zenon DEF BlockFirst, opts
    <2> HIDE DEF first, e
    <2> QED
        BY <1>1, <1>3, <2>2, <2>3, <2>4, Zenon DEF NodeInPlace, first, opts
<1> QED
    BY <1>1, <1>2, <1>4, <1>5, SMT DEF WriterInv

\* What is to be written of a plan starts where the first subrange does.
LEMMA FirstOfTodo ==
    ASSUME TypeInv, todo # <<>>
    PROVE  Head(todo) = todo[1] /\ Len(todo) \in Nat /\ Len(todo) > 0
BY DEF TypeInv, TypeOK, WriterTypeOK

\* A leaf with the bytes and the chunks of the first subrange moves the end of
\* what was written to the beginning of the second one.
LEMMA WriteLeafWrites ==
    ASSUME TypeInv, Adjacent, NodeInPlace, todo # <<>>,
           NEW token \in Tokens, NEW bytes, WriteLeaf(token, bytes),
           token.kind \in {"piece", "group"},
           token.count = Head(todo).hi - Head(todo).lo,
           token.pack.data = Range(Head(todo).lo, Head(todo).hi)
    PROVE  Adjacent' /\ NodeInPlace'
<1> USE DEF TypeInv, TypeOK
<1> DEFINE e == Head(todo)
           first == BlockFirst(Len(blocks))
<1>1. /\ e = todo[1] /\ Len(todo) \in Nat /\ Len(todo) > 0
      /\ e.lo \in Nat /\ e.hi \in Nat /\ e.lo < e.hi
      /\ todo \in Seq(Subranges)
    BY FirstOfTodo, HeadOfTodo DEF WriterTypeOK
<1>2. /\ todo' = Tail(todo) /\ node' = Append(node, token)
      /\ UNCHANGED <<payload, writes, job, blocks>>
    BY DEF WriteLeaf
<1>3. /\ Len(todo') = Len(todo) - 1
      /\ \A i \in 1..Len(todo') : todo'[i] = todo[i + 1]
    BY <1>1, <1>2
<1>4. Adjacent'
    <2>1. ASSUME NEW i \in 1..(Len(todo') - 1)
          PROVE  todo'[i].hi = todo'[i + 1].lo
        <3>1. /\ i \in 1..Len(todo') /\ i + 1 \in 1..Len(todo')
              /\ i + 1 \in 1..(Len(todo) - 1)
            BY <1>1, <1>3, SMT
        <3>2. todo'[i] = todo[i + 1] /\ todo'[i + 1] = todo[(i + 1) + 1]
            BY <1>3, <3>1
        <3> QED
            BY <3>1, <3>2 DEF Adjacent
    <2> QED
        BY <2>1 DEF Adjacent
<1>5. PICK pos : /\ Laid(node, pos, first, payload.data, writes, job.size,
                         opts.chunk_size)
                 /\ pos[Len(node)] = e.lo
    BY <1>1 DEF NodeInPlace
<1>6. node \in Seq(Tokens) /\ first \in Nat
    <2>1. first \in Nat
        BY OptsType, SMT DEF BlockFirst, WriterTypeOK
    <2> QED
        BY <2>1 DEF WriterTypeOK
<1>7. /\ TokenCount(token) = e.hi - e.lo
      /\ TokenData(token, payload.data)
             = ChunkSpan(writes, job.size, opts.chunk_size, pos[Len(node)],
                         TokenCount(token))
    BY <1>5, SMT DEF TokenCount, TokenData, Range
<1> HIDE DEF e, first
<1>8. PICK new : /\ Laid(Append(node, token), new, first, payload.data, writes,
                         job.size, opts.chunk_size)
                 /\ new[Len(Append(node, token))] = pos[Len(node)] + TokenCount(token)
    BY <1>5, <1>6, <1>7, LaidAppend
<1>9. new[Len(Append(node, token))] = e.hi
    BY <1>1, <1>5, <1>7, <1>8, SMT
<1>10. todo' # <<>> => todo'[1].lo = e.hi
    <2> SUFFICES ASSUME todo' # <<>> PROVE todo'[1].lo = e.hi
        OBVIOUS
    <2>1. Len(todo') \in Nat /\ Len(todo') # 0
        BY <1>1, <1>2, SMTT(20)
    <2>2. 1 \in 1..Len(todo') /\ 1 \in 1..(Len(todo) - 1)
        BY <1>1, <1>3, <2>1, SMT
    <2>3. todo'[1] = todo[1 + 1] /\ todo[1].hi = todo[1 + 1].lo
        BY <1>3, <2>2 DEF Adjacent
    <2> QED
        BY <1>1, <2>3
<1>11. NodeInPlace'
    BY <1>2, <1>8, <1>9, <1>10, Zenon DEF NodeInPlace, first, BlockFirst, opts
<1> QED
    BY <1>4, <1>11

\* The payload, the input and the whole blocks stay what they are while a node
\* is written.
LEMMA NodeKeepsBlocks ==
    ASSUME WriterInv, wpc = "node", wpc' = "node",
           UNCHANGED <<payload, writes, job, blocks>>, Adjacent', NodeInPlace'
    PROVE  WriterInv'
<1>1. GlobalWhole /\ BlocksInPlace
    BY SMT DEF WriterInv
<1>2. GlobalWhole' /\ BlocksInPlace'
    BY <1>1, Zenon DEF GlobalWhole, BlocksInPlace, wholeInput, opts
<1> QED
    BY <1>2, SMT DEF WriterInv

LEMMA WritePieceWrites ==
    ASSUME TypeInv, WriterInv, WritePiece
    PROVE  WriterInv'
<1> USE DEF TypeInv, TypeOK
<1> DEFINE e == Head(todo)
           len == SpanLen(Range(e.lo, e.hi))
<1>1. wpc = "node" /\ todo # <<>> /\ e.hi - e.lo = 1
    BY DEF WritePiece
<1>2. PICK p \in RangePacks(e) : WriteLeaf(PieceToken(len, p), PieceBytes)
    BY Zenon DEF WritePiece
<1>3. e \in Subranges /\ e.lo \in Nat /\ e.hi \in Nat /\ e.lo < e.hi
    BY <1>1, HeadOfTodo
<1>4. len \in Nat
    BY <1>3, RangeType, SMT
<1>5. p \in Packs /\ p.data = Range(e.lo, e.hi)
    BY <1>2, <1>3, RangePacksType
<1>6. PieceToken(len, p) \in Tokens
    <2>1. 1 \in Nat
        OBVIOUS
    <2> QED
        BY <1>4, <1>5, <2>1, LeafTokenType
<1>7. /\ PieceToken(len, p).kind = "piece" /\ PieceToken(len, p).count = 1
      /\ PieceToken(len, p).pack = p
    BY DEF PieceToken
<1>8. Adjacent /\ NodeInPlace
    BY <1>1 DEF WriterInv
<1>9. Adjacent' /\ NodeInPlace'
    BY <1>1, <1>2, <1>5, <1>6, <1>7, <1>8, WriteLeafWrites
<1>10. wpc' = "node" /\ UNCHANGED <<payload, writes, job, blocks>>
    BY <1>1, <1>2 DEF WriteLeaf
<1> QED
    BY <1>1, <1>9, <1>10, NodeKeepsBlocks

LEMMA WriteGroupWrites ==
    ASSUME TypeInv, WriterInv, WriteGroup
    PROVE  WriterInv'
<1> USE DEF TypeInv, TypeOK
<1> DEFINE e == Head(todo)
           n == e.hi - e.lo
           len == SpanLen(Range(e.lo, e.hi))
<1>1. wpc = "node" /\ todo # <<>>
    BY DEF WriteGroup
<1>2. PICK p \in RangePacks(e) : WriteLeaf(GroupToken(n, len, p), GroupBytes)
    BY Zenon DEF WriteGroup
<1>3. e \in Subranges /\ e.lo \in Nat /\ e.hi \in Nat /\ e.lo < e.hi
    BY <1>1, HeadOfTodo
<1>4. len \in Nat /\ n \in Nat
    BY <1>3, RangeType, SMT
<1>5. p \in Packs /\ p.data = Range(e.lo, e.hi)
    BY <1>2, <1>3, RangePacksType
<1>6. GroupToken(n, len, p) \in Tokens
    BY <1>4, <1>5, LeafTokenType
<1>7. /\ GroupToken(n, len, p).kind = "group" /\ GroupToken(n, len, p).count = n
      /\ GroupToken(n, len, p).pack = p
    BY DEF GroupToken
<1>8. Adjacent /\ NodeInPlace
    BY <1>1 DEF WriterInv
<1>9. Adjacent' /\ NodeInPlace'
    BY <1>1, <1>2, <1>5, <1>6, <1>7, <1>8, WriteLeafWrites
<1>10. wpc' = "node" /\ UNCHANGED <<payload, writes, job, blocks>>
    BY <1>1, <1>2 DEF WriteLeaf
<1> QED
    BY <1>1, <1>9, <1>10, NodeKeepsBlocks

\* A split puts two adjacent subranges in the place of the first one, and adds a
\* token without bytes.
LEMMA WriteSplitWrites ==
    ASSUME TypeInv, WriterInv, WriteSplit
    PROVE  WriterInv'
<1> USE DEF TypeInv, TypeOK
<1> DEFINE e == Head(todo)
           first == BlockFirst(Len(blocks))
           t == SplitToken(e.depth)
<1>1. /\ todo # <<>> /\ wpc = "node" /\ wpc' = "node" /\ node' = Append(node, t)
      /\ UNCHANGED <<payload, writes, job, blocks>>
    BY DEF WriteSplit
<1>2. PICK left, right :
          /\ todo' = <<left, right>> \o Tail(todo)
          /\ left \in Subranges /\ right \in Subranges
          /\ left.lo = e.lo /\ left.hi = right.lo /\ right.hi = e.hi
    <2> DEFINE larger(mid) == SpanLen(Range(e.lo, mid)) >= SpanLen(Range(mid, e.hi))
               l(mid) == [lo |-> e.lo, hi |-> mid, depth |-> ChildDepth(e.depth),
                          root |-> FALSE, main |-> e.main /\ larger(mid)]
               r(mid) == [lo |-> mid, hi |-> e.hi, depth |-> ChildDepth(e.depth),
                          root |-> FALSE, main |-> e.main /\ ~larger(mid)]
    <2>1. PICK mid \in SplitPoints(job.profile, e.lo, e.hi) :
              todo' = <<l(mid), r(mid)>> \o Tail(todo)
        BY DEF WriteSplit
    <2>2. e \in Subranges /\ e.lo < e.hi /\ e.lo \in Nat /\ e.hi \in Nat
        BY <1>1, HeadOfTodo
    <2>3. e.depth \in Nat /\ ChildDepth(e.depth) \in Nat
        BY <2>2, SMT DEF Subranges, ChildDepth
    <2>4. mid \in Nat
        <3> HIDE DEF e
        <3> QED
            BY <2>1, <2>2, SplitPointsInside
    <2>5. /\ (e.main /\ larger(mid)) \in BOOLEAN
          /\ (e.main /\ ~larger(mid)) \in BOOLEAN
        OBVIOUS
    <2>6. l(mid) \in Subranges /\ r(mid) \in Subranges
        <3> HIDE DEF e, larger
        <3> QED
            BY <2>2, <2>3, <2>4, <2>5 DEF Subranges
    <2>7. l(mid).lo = e.lo /\ l(mid).hi = r(mid).lo /\ r(mid).hi = e.hi
        OBVIOUS
    <2> HIDE DEF l, r
    <2> QED
        BY <2>1, <2>6, <2>7
<1>3. /\ e \in Subranges /\ e = todo[1] /\ Len(todo) \in Nat /\ Len(todo) > 0
      /\ Tail(todo) \in Seq(Subranges) /\ Len(Tail(todo)) = Len(todo) - 1
      /\ \A i \in 1..Len(Tail(todo)) : Tail(todo)[i] = todo[i + 1]
    <2>1. todo \in Seq(Subranges)
        BY DEF WriterTypeOK
    <2> QED
        BY <1>1, <2>1, HeadOfTodo, FirstOfTodo
<1>4. /\ Len(todo') = Len(todo) + 1 /\ todo' # <<>>
      /\ todo'[1] = left /\ todo'[2] = right
      /\ \A i \in 1..(Len(todo) - 1) : todo'[i + 2] = todo[i + 1]
    <2>1. /\ <<left, right>> \in Seq(Subranges) /\ Len(<<left, right>>) = 2
          /\ <<left, right>>[1] = left /\ <<left, right>>[2] = right
        BY <1>2
    <2>2. /\ Len(todo') = 2 + Len(Tail(todo)) /\ todo'[1] = left /\ todo'[2] = right
          /\ \A i \in 1..Len(Tail(todo)) : todo'[i + 2] = Tail(todo)[i]
        BY <1>2, <1>3, <2>1
    <2>3. Len(todo') = Len(todo) + 1
        BY <1>3, <2>2, SMT
    <2>4. todo' # <<>>
        <3>1. Len(<<>>) = 0
            OBVIOUS
        <3> QED
            BY <1>3, <2>3, <3>1, SMT
    <2> QED
        BY <1>3, <2>2, <2>3, <2>4
<1>5. Adjacent /\ NodeInPlace
    BY <1>1 DEF WriterInv
<1>6. Adjacent'
    <2>1. ASSUME NEW i \in 1..(Len(todo') - 1)
          PROVE  todo'[i].hi = todo'[i + 1].lo
        <3>1. CASE i = 1
            BY <1>2, <1>4, <3>1
        <3>2. CASE i = 2
            <4>1. 1 \in 1..(Len(todo) - 1) /\ i = 2 /\ i + 1 = 1 + 2
                BY <1>3, <1>4, <2>1, <3>2, SMT
            <4>2. todo'[1 + 2] = todo[1 + 1] /\ todo[1].hi = todo[1 + 1].lo
                BY <1>4, <1>5, <4>1, Zenon DEF Adjacent
            <4> QED
                BY <1>2, <1>3, <1>4, <4>1, <4>2
        <3>3. CASE i > 2
            <4> DEFINE j == i - 2
            <4>1. /\ j \in 1..(Len(todo) - 1) /\ j + 1 \in 1..(Len(todo) - 1)
                  /\ i = j + 2 /\ i + 1 = (j + 1) + 2
                BY <1>3, <1>4, <2>1, <3>3, SMT
            <4> HIDE DEF j
            <4>2. todo'[j + 2] = todo[j + 1] /\ todo'[(j + 1) + 2] = todo[(j + 1) + 1]
                BY <1>4, <4>1, Zenon
            <4>3. todo[j + 1].hi = todo[(j + 1) + 1].lo
                BY <1>5, <4>1, Zenon DEF Adjacent
            <4> QED
                BY <4>1, <4>2, <4>3
        <3> QED
            BY <1>3, <1>4, <2>1, <3>1, <3>2, <3>3, SMT
    <2> QED
        BY <2>1 DEF Adjacent
<1>7. PICK pos : /\ Laid(node, pos, first, payload.data, writes, job.size,
                         opts.chunk_size)
                 /\ pos[Len(node)] = e.lo
    BY <1>1, <1>3, <1>5 DEF NodeInPlace
<1>8. node \in Seq(Tokens) /\ first \in Nat /\ t \in Tokens /\ e.lo \in Nat
      /\ writes \in Nat /\ job.size \in Nat /\ opts.chunk_size \in Nat
    <2>1. first \in Nat
        BY OptsType, SMT DEF BlockFirst, WriterTypeOK
    <2>2. e.depth \in Nat /\ e.lo \in Nat
        BY <1>3 DEF Subranges
    <2>3. t \in Tokens
        BY <2>2, InnerTokenType
    <2> QED
        BY <2>1, <2>2, <2>3, OptsType DEF WriterTypeOK
<1>9. TokenCount(t) = 0 /\ TokenData(t, payload.data) = EmptySpan
    BY DEF TokenCount, TokenData, SplitToken
<1>10. TokenData(t, payload.data)
           = ChunkSpan(writes, job.size, opts.chunk_size, pos[Len(node)], TokenCount(t))
    BY <1>7, <1>8, <1>9, NoChunks
<1> HIDE DEF e, first, t
<1>11. PICK new : /\ Laid(Append(node, t), new, first, payload.data, writes, job.size,
                          opts.chunk_size)
                  /\ new[Len(Append(node, t))] = pos[Len(node)] + TokenCount(t)
    BY <1>7, <1>8, <1>10, LaidAppend
<1>12. new[Len(Append(node, t))] = todo'[1].lo
    BY <1>2, <1>4, <1>7, <1>8, <1>9, <1>11, SMT
<1>13. NodeInPlace'
    BY <1>1, <1>11, <1>12, Zenon DEF NodeInPlace, first, BlockFirst, opts
<1> QED
    BY <1>1, <1>6, <1>13, NodeKeepsBlocks

LEMMA EndBlockWrites ==
    ASSUME TypeInv, Bounds, WriterInv, EndBlock
    PROVE  WriterInv'
<1> USE DEF TypeInv, TypeOK
<1>1. /\ ValidOptions(opts) /\ writes # 0 /\ Len(blocks) \in Nat
      /\ Len(blocks) < jobBlocks /\ wpc = "node" /\ wpc' = "block"
      /\ UNCHANGED <<payload, writes, job>>
    BY DEF EndBlock, Working, WriterTypeOK, Bounds, BlocksInRange
<1>2. GlobalWhole /\ BlocksInPlace /\ NodeInPlace
    BY <1>1, SMT DEF WriterInv
<1>3. PICK tokens \in Seq(Tokens) :
          /\ blocks' = Append(blocks, BlockRecord(Len(blocks), tokens))
          /\ \E pos : Laid(tokens, pos, BlockFirst(Len(blocks)), payload.data, writes,
                           job.size, opts.chunk_size)
    <2>1. CASE Shared /\ SliceBytes <= encoded
        <3>1. payload.data = wholeInput
            BY <1>2, <2>1 DEF GlobalWhole, Shared
        <3>2. \E pos : Laid(<<BlockSlice(Len(blocks))>>, pos, BlockFirst(Len(blocks)),
                            payload.data, writes, job.size, opts.chunk_size)
            BY <1>1, <3>1, SliceInPlace
        <3>3. <<BlockSlice(Len(blocks))>> \in Seq(Tokens)
            BY <1>1, BlockSliceType
        <3>4. blocks' = Append(blocks, BlockRecord(Len(blocks),
                                                   <<BlockSlice(Len(blocks))>>))
            BY <2>1, Zenon DEF EndBlock
        <3> QED
            BY <3>2, <3>3, <3>4
    <2>2. CASE ~(Shared /\ SliceBytes <= encoded)
        <3>1. \E pos : Laid(node, pos, BlockFirst(Len(blocks)), payload.data, writes,
                            job.size, opts.chunk_size)
            BY <1>2, Zenon DEF NodeInPlace
        <3>2. node \in Seq(Tokens)
            BY DEF WriterTypeOK
        <3>3. blocks' = Append(blocks, BlockRecord(Len(blocks), node))
            BY <2>2, Zenon DEF EndBlock
        <3> QED
            BY <3>1, <3>2, <3>3
    <2> QED
        BY <2>1, <2>2
<1>4. BlocksInPlace'
    <2>1. BlocksLaid(blocks', payload.data, writes, job.size, opts.chunk_size,
                     opts.key_piece_interval)
        BY <1>1, <1>2, <1>3, RecordInPlace
    <2> QED
        BY <1>1, <2>1, Zenon DEF BlocksInPlace, opts
<1>5. GlobalWhole'
    BY <1>1, <1>2, Zenon DEF GlobalWhole, wholeInput, opts
<1> QED
    BY <1>1, <1>4, <1>5, SMT DEF WriterInv

----------------------------------------------------------------------------
(* What the file and a reader hold.                                        *)

\* An archive of input src, with the geometry its blocks were laid by.
ArchiveLaid(arc, src) ==
    /\ arc.chunk_size # 0 /\ arc.key_piece_interval # 0
    /\ arc.total_chunks = ChunkCount(arc.original_size, arc.chunk_size)
    /\ arc.block_count = BlockCount(arc.total_chunks, arc.key_piece_interval)
    /\ HasGlobal(arc) => arc.payload.data = Span(src, 0, arc.original_size)
    /\ BlocksLaid(arc.blocks, arc.payload.data, src, arc.original_size,
                  arc.chunk_size, arc.key_piece_interval)

InputOf(arc, src) ==
    [src |-> src, size |-> arc.original_size, chunk_size |-> arc.chunk_size,
     key_piece_interval |-> arc.key_piece_interval]

\* The records of f are those of input src, which s is.
Holds(f, s, src) ==
    /\ src \in Nat \ {0}
    /\ ArchiveLaid(f.arc, src)
    /\ s = InputOf(f.arc, src)

FileInv == stored # Nothing => \E src : Holds(disk, stored, src)

\* What a reader has got of one write are records of it.
Held ==
    /\ asked = Nothing => rd.have = 0
    /\ last = asked /\ asked # Nothing => \E src : Holds(rd, asked, src)

\* The decoder has not begun.
AtStart ==
    rpc \in {"read", "head"} =>
        /\ bi = 0 /\ chunks = 0 /\ out = EmptySpan /\ result = NoResult
        /\ started = (key = WholeInput)

\* The first chunk the reader was asked for.
Start == IF key = WholeInput THEN 0 ELSE key

\* The chunks src has from chunk c on, n of them, by the geometry that was read.
ReadSpan(src, c, n) == ChunkSpan(src, rd.arc.original_size, rd.arc.chunk_size, c, n)

\* The output so far is what comes behind the start point, up to the blocks and
\* tokens read.
OutputInPlace(src) ==
    LET first == bi * rd.arc.key_piece_interval IN
    /\ out = ReadSpan(src, Start, chunks)
    /\ ~started => chunks = 0
    /\ started /\ rpc = "block" => Start + chunks = Lesser(first, rd.arc.total_chunks)
    /\ rpc = "node" =>
          /\ started
          /\ Start + chunks = first
          /\ part = ReadSpan(src, first, count)
          /\ \E pos : /\ Laid(Block.node, pos, first, rd.arc.payload.data, src,
                              rd.arc.original_size, rd.arc.chunk_size)
                      /\ tok <= Len(Block.node)
                      /\ pos[tok] = first + count

\* No byte before the start point was decoded.
NothingBefore ==
    (key # WholeInput /\ ~HasGlobal(rd.arc)) =>
        low >= ByteAt(rd.arc.original_size, rd.arc.chunk_size, key)

\* The reader decodes what it has got of one write.
AtWork == rpc \in {"block", "node"} /\ last = asked

ReaderInv ==
    AtWork =>
        /\ rd.have # 0
        /\ KeyOK(rd.arc, key)
        /\ NothingBefore
        /\ \E src : Holds(rd, asked, src) /\ OutputInPlace(src)

Inv == TypeInv /\ Bounds /\ WriterInv /\ FileInv /\ Held /\ AtStart /\ ReaderInv
           /\ ReaderGetsTheInput

LEMMA CreateStores ==
    ASSUME TypeInv, WriterInv, Create
    PROVE  FileInv'
<1> USE DEF TypeInv, TypeOK
<1>1. /\ wpc = "block" /\ ValidOptions(opts) /\ writes # 0 /\ writes \in Nat
    BY OptsType DEF Create, Working
<1>2. GlobalWhole /\ BlocksInPlace
    BY <1>1, SMT DEF WriterInv
<1>3. /\ disk' = [arc |-> Archive, have |-> 0]
      /\ stored' = [src |-> writes, size |-> job.size, chunk_size |-> opts.chunk_size,
                    key_piece_interval |-> opts.key_piece_interval]
    BY Zenon DEF Create
<1>4. /\ Archive.chunk_size = opts.chunk_size
      /\ Archive.key_piece_interval = opts.key_piece_interval
      /\ Archive.original_size = job.size
      /\ Archive.total_chunks = jobChunks
      /\ Archive.block_count = jobBlocks
      /\ Archive.payload = payload /\ Archive.blocks = blocks
      /\ Archive.wide = opts.wide_overfitting_circuits /\ Archive.shared = Shared
    BY DEF Archive
<1>5. ArchiveLaid(Archive, writes)
    <2>1. opts.chunk_size # 0 /\ opts.key_piece_interval # 0
        BY <1>1, JobChunksType
    <2>2. HasGlobal(Archive) => payload.data = Span(writes, 0, job.size)
        BY <1>2, <1>4, Zenon DEF HasGlobal, GlobalWhole, Shared, wholeInput
    <2>3. BlocksLaid(Archive.blocks, Archive.payload.data, writes,
                     Archive.original_size, Archive.chunk_size,
                     Archive.key_piece_interval)
        BY <1>2, <1>4, Zenon DEF BlocksInPlace
    <2> QED
        BY <1>4, <2>1, <2>2, <2>3, Zenon DEF ArchiveLaid, jobChunks, jobBlocks
<1>6. stored' = InputOf(Archive, writes)
    BY <1>3, <1>4, Zenon DEF InputOf
<1>7. Holds(disk', stored', writes)
    <2>1. disk'.arc = Archive
        BY <1>3
    <2>2. writes \in Nat \ {0}
        BY <1>1
    <2> QED
        BY <1>5, <1>6, <2>1, <2>2, Zenon DEF Holds
<1> QED
    BY <1>7, Zenon DEF FileInv

LEMMA FillStores ==
    ASSUME TypeInv, FileInv, Fill \/ SaveFails
    PROVE  FileInv'
<1>1. stored' = stored
    BY Zenon DEF Fill, SaveFails, fileVars
<1>2. disk'.arc = disk.arc
    BY DEF Fill, SaveFails, fileVars, TypeInv, TypeOK, FileTypeOK
<1> QED
    BY <1>1, <1>2, Zenon DEF FileInv, Holds

\* fs::read collects records of one write, or of several and knows it.
LEMMA ReadHolds ==
    ASSUME TypeInv, Bounds, FileInv, Held, AtStart, ReaderStep
    PROVE  Held' /\ AtStart'
<1> USE DEF TypeInv, TypeOK
<1>1. CASE ReadFirst
    <2>1. PICK n : rd' = [arc |-> disk.arc, have |-> n]
        BY <1>1, Zenon DEF ReadFirst
    <2>2. rd'.arc = disk.arc
        BY <2>1
    <2>3. asked' = stored /\ stored # Nothing
        BY <1>1, Zenon DEF ReadFirst
    <2>4. Held'
        BY <2>2, <2>3, Zenon DEF Held, FileInv, Holds
    <2> QED
        BY <1>1, <2>4, Zenon DEF ReadFirst, AtStart, decoderVars
<1>2. CASE ReadMore
    <2>1. /\ rd'.arc = rd.arc /\ asked # Nothing
          /\ UNCHANGED <<rpc, asked, last, decoderVars>>
        BY <1>2 DEF ReadMore, ReaderTypeOK
    <2> QED
        BY <2>1, Zenon DEF Held, Holds, AtStart, decoderVars
<1>3. CASE ReadOther
    <2>1. Held'
        BY <1>3, OtherIsLater, Zenon DEF Held
    <2> QED
        BY <1>3, <2>1, SMT DEF ReadOther, AtStart, decoderVars
<1>4. CASE EndRead
    BY <1>4, SMT DEF EndRead, Held, AtStart, decoderVars
<1>5. CASE Misread \/ ReadHead \/ ReadBlock \/ ReadToken \/ EndNode \/ Finish
    <2>1. UNCHANGED <<rd, asked, last>>
        BY <1>5, Zenon DEF Misread, ReadHead, ReadBlock, ReadToken, EndNode, Finish,
                           Fail, Decoded
    <2>2. rpc' \notin {"read", "head"}
        BY <1>5, SMT DEF Misread, ReadHead, ReadBlock, ReadToken, EndNode, Finish,
                         Fail, Decoded
    <2> QED
        BY <2>1, <2>2, Zenon DEF Held, AtStart
<1> QED
    BY <1>1, <1>2, <1>3, <1>4, <1>5 DEF ReaderStep

LEMMA OpenHolds ==
    ASSUME NEW k \in Starts, Open(k)
    PROVE  Held' /\ AtStart' /\ ReaderInv' /\ ReaderGetsTheInput'
BY SMT DEF Open, Held, AtStart, ReaderInv, AtWork, ReaderGetsTheInput, NoResult

\* Nothing is said of a reader with bytes of several writes.
LEMMA MixedReads ==
    ASSUME last' # asked'
    PROVE  ReaderInv' /\ ReaderGetsTheInput'
BY Zenon DEF ReaderInv, AtWork, ReaderGetsTheInput

\* An error ends the work of the reader.
LEMMA FailReads ==
    ASSUME Fail
    PROVE  ReaderInv' /\ ReaderGetsTheInput'
BY SMT DEF Fail, Error, ReaderInv, AtWork, ReaderGetsTheInput

\* The part before the first block leaves the reader at the first block.
LEMMA ReadHeadReads ==
    ASSUME TypeInv, Held, AtStart, ReadHead, last = asked
    PROVE  ReaderInv' /\ (result' = result \/ Fail)
<1> USE DEF TypeInv, TypeOK
<1>1. CASE Fail
    BY <1>1, FailReads
<1>2. CASE ~Fail
    <2>1. /\ HeaderOK(rd) /\ KeyOK(rd.arc, key) /\ rpc' = "block"
          /\ low' = (IF HasGlobal(rd.arc) THEN rd.arc.payload.data.lo
                     ELSE rd.arc.original_size)
          /\ UNCHANGED <<rd, asked, key, bi, started, chunks, out, result>>
        BY <1>2, Zenon DEF ReadHead
    <2>2. rpc = "head"
        BY Zenon DEF ReadHead
    <2>3. /\ bi = 0 /\ chunks = 0 /\ out = EmptySpan /\ started = (key = WholeInput)
        BY <2>2 DEF AtStart
    <2>4. rd.have # 0
        BY <2>1 DEF HeaderOK, ReaderTypeOK
    <2>5. PICK src : Holds(rd, asked, src)
        BY <2>4 DEF Held
    <2>6. /\ rd.arc.original_size \in Nat /\ rd.arc.chunk_size \in Nat
          /\ rd.arc.total_chunks \in Nat /\ rd.arc.key_piece_interval \in Nat
          /\ key \in Nat \cup {WholeInput}
        BY DEF ReaderTypeOK, Archives
    <2>7. src \in Nat
        BY <2>5 DEF Holds
    <2>8. OutputInPlace(src)'
        <3>1. Start' \in Nat /\ (key = WholeInput => Start' = 0)
            BY <2>1, <2>6 DEF Start
        <3>2. out' = ReadSpan(src, Start, chunks)'
            BY <2>1, <2>3, <2>6, <2>7, <3>1, NoChunks DEF ReadSpan
        <3>3. bi' * rd'.arc.key_piece_interval = 0
            BY <2>1, <2>3, <2>6, SMT
        <3>4. started' => Start' + chunks' = Lesser(0, rd'.arc.total_chunks)
            <4>1. \A n \in Nat : Lesser(0, n) = 0
                BY SMT DEF Lesser
            <4>2. started' => key = WholeInput
                BY <2>1, <2>3, Zenon
            <4>3. rd'.arc.total_chunks \in Nat
                BY <2>1, <2>6
            <4> QED
                BY <2>1, <2>3, <3>1, <4>1, <4>2, <4>3
        <3> QED
            BY <2>1, <2>3, <3>2, <3>3, <3>4, SMT DEF OutputInPlace
    <2>9. NothingBefore'
        <3>1. key # WholeInput =>
                  rd.arc.original_size
                      >= ByteAt(rd.arc.original_size, rd.arc.chunk_size, key)
            BY <2>6, ByteAtType
        <3> QED
            BY <2>1, <3>1, Zenon DEF NothingBefore
    <2>10. ReaderInv'
        BY <2>1, <2>4, <2>5, <2>8, <2>9, Zenon DEF ReaderInv
    <2> QED
        BY <2>1, <2>10
<1> QED
    BY <1>1, <1>2

----------------------------------------------------------------------------
(* Each step of the reader keeps its output in place.                      *)

\* What the types and ReaderInv say of a reader at work.
LEMMA ReaderAtWork ==
    ASSUME TypeInv, ReaderInv, AtWork
    PROVE  /\ rd.arc.original_size \in Nat /\ rd.arc.chunk_size \in Nat \ {0}
           /\ rd.arc.key_piece_interval \in Nat \ {0}
           /\ rd.arc.total_chunks \in Nat
           /\ Start \in Nat /\ bi \in Nat /\ chunks \in Nat /\ count \in Nat
           /\ tok \in Nat /\ low \in Nat
           /\ bi * rd.arc.key_piece_interval \in Nat
           /\ key # WholeInput => key \in Nat
<1>1. rd \in [arc : Archives, have : Nat]
    BY DEF TypeInv, TypeOK, ReaderTypeOK
<1>2. PICK src : Holds(rd, asked, src)
    BY DEF ReaderInv
<1>3. rd.arc.chunk_size # 0 /\ rd.arc.key_piece_interval # 0
    BY <1>2 DEF Holds, ArchiveLaid
<1>4. /\ rd.arc.original_size \in Nat /\ rd.arc.chunk_size \in Nat
      /\ rd.arc.key_piece_interval \in Nat /\ rd.arc.total_chunks \in Nat
    BY <1>1 DEF Archives
<1>5. /\ bi \in Nat /\ chunks \in Nat /\ count \in Nat /\ tok \in Nat /\ low \in Nat
      /\ key \in Nat \cup {WholeInput}
    BY DEF TypeInv, TypeOK, ReaderTypeOK
<1>6. bi * rd.arc.key_piece_interval \in Nat
    BY <1>4, <1>5, SMT
<1> QED
    BY <1>3, <1>4, <1>5, <1>6, Zenon DEF Start

\* The block the reader is at is a block of the archive, in its place.
LEMMA BlockPlace ==
    ASSUME TypeInv, ReaderInv, AtWork, bi < Len(rd.arc.blocks),
           NEW src, Holds(rd, asked, src)
    PROVE  /\ Block \in Blocks
           /\ Block.first = bi * rd.arc.key_piece_interval
           /\ Block.count = Lesser(Block.first + rd.arc.key_piece_interval,
                                   rd.arc.total_chunks) - Block.first
           /\ \E pos : Laid(Block.node, pos, Block.first, rd.arc.payload.data, src,
                            rd.arc.original_size, rd.arc.chunk_size)
<1>1. rd.arc.blocks \in Seq(Blocks) /\ bi \in Nat
    BY DEF TypeInv, TypeOK, ReaderTypeOK, Archives
<1>2. bi + 1 \in 1..Len(rd.arc.blocks) /\ (bi + 1) - 1 = bi
    BY <1>1, SMT
<1>3. /\ BlocksLaid(rd.arc.blocks, rd.arc.payload.data, src, rd.arc.original_size,
                    rd.arc.chunk_size, rd.arc.key_piece_interval)
      /\ rd.arc.total_chunks = ChunkCount(rd.arc.original_size, rd.arc.chunk_size)
    BY DEF Holds, ArchiveLaid
<1>4. Block \in Blocks
    BY <1>1, <1>2 DEF Block
<1> QED
    BY <1>2, <1>3, <1>4, Zenon DEF BlocksLaid, Block

LEMMA ReadBlockReads ==
    ASSUME TypeInv, Bounds, ReaderInv, ReadBlock, last = asked
    PROVE  ReaderInv' /\ (result' = result \/ Fail)
<1> DEFINE first == bi * rd.arc.key_piece_interval
<1>1. rpc = "block" /\ AtWork
    BY SMT DEF ReadBlock, AtWork
<1>2. PICK src : Holds(rd, asked, src) /\ OutputInPlace(src)
    BY <1>1 DEF ReaderInv
<1>3. /\ rd.have # 0 /\ KeyOK(rd.arc, key) /\ NothingBefore
    BY <1>1 DEF ReaderInv
<1>4. /\ out = ReadSpan(src, Start, chunks)
      /\ ~started => chunks = 0
      /\ started => Start + chunks = Lesser(first, rd.arc.total_chunks)
    BY <1>1, <1>2 DEF OutputInPlace
<1>5. src \in Nat
    BY <1>2 DEF Holds
<1>6. CASE ~BlockOK
    BY <1>6, FailReads, Zenon DEF ReadBlock
<1>7. CASE BlockOK /\ SkipsBlock
    <2>1. /\ bi' = bi + 1 /\ rpc' = rpc
          /\ UNCHANGED <<rd, asked, key, started, chunks, out, low, result>>
        BY <1>7, Zenon DEF ReadBlock
    <2>2. ~started
        BY <1>7 DEF SkipsBlock
    <2>3. OutputInPlace(src)'
        <3>1. ~started' /\ rpc' # "node"
            BY <1>1, <2>1, <2>2, SMT
        <3>2. out' = ReadSpan(src, Start, chunks)' /\ chunks' = 0
            BY <1>4, <2>1, <2>2, Zenon DEF ReadSpan, Start
        <3> QED
            BY <3>1, <3>2, Zenon DEF OutputInPlace
    <2>4. ReaderInv'
        BY <1>2, <1>3, <2>1, <2>3, Zenon DEF ReaderInv, NothingBefore
    <2> QED
        BY <2>1, <2>4
<1>8. CASE BlockOK /\ ~SkipsBlock
    <2>1. /\ started' = TRUE /\ rpc' = "node" /\ tok' = 0 /\ count' = 0
          /\ part' = EmptySpan
          /\ UNCHANGED <<rd, asked, key, bi, chunks, out, low, result>>
        BY <1>8, Zenon DEF ReadBlock
    <2>2. bi < Len(rd.arc.blocks)
        <3>1. BlockRead'
            BY ReadBlockTypes
        <3> QED
            BY <2>1, <3>1 DEF BlockRead
    <2>3. Block \in Blocks /\ Block.first = first
        BY <1>1, <1>2, <2>2, BlockPlace
    <2>4. PICK pos : Laid(Block.node, pos, first, rd.arc.payload.data, src,
                          rd.arc.original_size, rd.arc.chunk_size)
        BY <1>1, <1>2, <2>2, <2>3, BlockPlace
    <2>5. first \in Nat /\ Start \in Nat /\ chunks \in Nat
          /\ rd.arc.original_size \in Nat /\ rd.arc.chunk_size \in Nat
          /\ rd.arc.total_chunks \in Nat
        BY <1>1, ReaderAtWork
    <2>6. first < rd.arc.total_chunks
        BY <1>8, <2>3, <2>5, SMT DEF BlockOK, Blocks
    <2>7. Start + chunks = first
        <3>1. CASE started
            BY <1>4, <2>5, <2>6, <3>1, SMT DEF Lesser
        <3>2. CASE ~started
            <4>1. key = first /\ chunks = 0
                BY <1>4, <1>8, <2>3, <3>2 DEF SkipsBlock
            <4>2. Start = first
                <5>1. first # WholeInput
                    BY <2>5, ConstantsAssumption DEF ConstantsAssumption
                <5> QED
                    BY <4>1, <5>1 DEF Start
            <4> QED
                BY <2>5, <4>1, <4>2, SMT
        <3> QED
            BY <3>1, <3>2
    <2>8. part' = ReadSpan(src, first, 0)
        BY <1>5, <2>1, <2>5, NoChunks DEF ReadSpan
    <2>9. 0 <= Len(Block.node) /\ pos[0] = first + 0
        <3>1. Len(Block.node) \in Nat
            BY <2>3 DEF Blocks
        <3>2. pos[0] = first
            BY <2>4 DEF Laid
        <3> QED
            BY <2>5, <3>1, <3>2, SMT
    <2>10. OutputInPlace(src)'
        <3>1. out' = ReadSpan(src, Start, chunks)' /\ first' = first
              /\ Start' = Start /\ Block' = Block
            BY <1>4, <2>1, Zenon DEF ReadSpan, Start, Block
        <3>2. part' = ReadSpan(src, first, count)'
            BY <2>1, <2>8, Zenon DEF ReadSpan
        <3>3. \E p : /\ Laid(Block.node, p, first, rd.arc.payload.data, src,
                             rd.arc.original_size, rd.arc.chunk_size)'
                     /\ tok' <= Len(Block'.node)
                     /\ p[tok'] = first' + count'
            BY <2>1, <2>4, <2>9, <3>1, Zenon
        <3> QED
            BY <2>1, <2>7, <3>1, <3>2, <3>3, SMT DEF OutputInPlace
    <2>11. ReaderInv'
        BY <1>2, <1>3, <2>1, <2>10, Zenon DEF ReaderInv, NothingBefore
    <2> QED
        BY <2>1, <2>11
<1> QED
    BY <1>6, <1>7, <1>8

\* A step of decode_stream_node fails or decodes what the token stands for.
LEMMA TokenDecoded ==
    ASSUME TypeInv, ReadToken, Block.node \in Seq(Tokens)
    PROVE  \/ Fail
           \/ /\ tok + 1 \in 1..Len(Block.node)
              /\ \E opened : Decoded(TokenData(Block.node[tok + 1], rd.arc.payload.data),
                                     TokenCount(Block.node[tok + 1]), opened)
<1> DEFINE t == Block.node[tok + 1]
<1>1. CASE tok >= Len(Block.node)
    BY <1>1, Zenon DEF ReadToken
<1>2. CASE ~(tok >= Len(Block.node))
    <2>1. tok + 1 \in 1..Len(Block.node)
        BY <1>2, SMT DEF TypeInv, TypeOK, ReaderTypeOK
    <2> HIDE DEF t
    <2>2. \/ Fail
          \/ t.kind \in {"piece", "group"} /\ Decoded(t.pack.data, t.count, 0)
          \/ t.kind = "split" /\ Decoded(EmptySpan, 0, 2)
          \/ t.kind = "slice"
             /\ Decoded(SubSpan(rd.arc.payload.data, t.offset, t.offset + t.len),
                        t.count, 0)
        BY <1>2, Zenon DEF ReadToken, t
    <2>3. /\ t.kind \in {"piece", "group"} =>
                 /\ TokenData(t, rd.arc.payload.data) = t.pack.data
                 /\ TokenCount(t) = t.count
          /\ t.kind = "split" => /\ TokenData(t, rd.arc.payload.data) = EmptySpan
                                 /\ TokenCount(t) = 0
          /\ t.kind = "slice" =>
                 /\ TokenData(t, rd.arc.payload.data)
                        = SubSpan(rd.arc.payload.data, t.offset, t.offset + t.len)
                 /\ TokenCount(t) = t.count
        BY SMT DEF TokenData, TokenCount
    <2>4. \/ Fail
          \/ \E opened : Decoded(TokenData(t, rd.arc.payload.data), TokenCount(t), opened)
        BY <2>2, <2>3, Zenon
    <2> QED
        BY <2>1, <2>4 DEF t
<1> QED
    BY <1>1, <1>2

LEMMA ReadTokenReads ==
    ASSUME TypeInv, Bounds, ReaderInv, ReadToken, last = asked
    PROVE  ReaderInv' /\ (result' = result \/ Fail)
<1> DEFINE first == bi * rd.arc.key_piece_interval
           size == rd.arc.original_size
           cs == rd.arc.chunk_size
           t == Block.node[tok + 1]
           data == TokenData(t, rd.arc.payload.data)
           n == TokenCount(t)
<1>1. rpc = "node" /\ AtWork /\ bi < Len(rd.arc.blocks)
    BY SMT DEF ReadToken, AtWork, Bounds, BlockRead
<1>2. PICK src : Holds(rd, asked, src) /\ OutputInPlace(src)
    BY <1>1 DEF ReaderInv
<1>3. /\ rd.have # 0 /\ KeyOK(rd.arc, key) /\ NothingBefore
    BY <1>1 DEF ReaderInv
<1>4. /\ out = ReadSpan(src, Start, chunks) /\ started
      /\ Start + chunks = first /\ part = ReadSpan(src, first, count)
    BY <1>1, <1>2 DEF OutputInPlace
<1>5. PICK pos : /\ Laid(Block.node, pos, first, rd.arc.payload.data, src, size, cs)
                 /\ pos[tok] = first + count
    BY <1>1, <1>2 DEF OutputInPlace
<1>6. src \in Nat \ {0} /\ src \in Nat
    BY <1>2 DEF Holds
<1>7. Block.node \in Seq(Tokens)
    BY <1>1, <1>2, BlockPlace DEF Blocks
<1>8. /\ size \in Nat /\ cs \in Nat /\ first \in Nat /\ Start \in Nat
      /\ chunks \in Nat /\ count \in Nat /\ tok \in Nat /\ low \in Nat
    BY <1>1, ReaderAtWork
<1>9. CASE Fail
    BY <1>9, FailReads
<1>10. CASE ~Fail
    <2>1. PICK opened : Decoded(data, n, opened)
        BY <1>7, <1>10, TokenDecoded
    <2>2. tok + 1 \in 1..Len(Block.node)
        BY <1>7, <1>10, TokenDecoded
    <2>3. n \in Nat
        BY <1>7, <2>2, TokenCountType
    <2>4. /\ pos[tok + 1] = (first + count) + n
          /\ data = ChunkSpan(src, size, cs, first + count, n)
        <3>1. (tok + 1) - 1 = tok
            BY <1>8, SMT
        <3>2. /\ pos[tok + 1] = pos[(tok + 1) - 1] + n
              /\ data = ChunkSpan(src, size, cs, pos[(tok + 1) - 1], n)
            BY <1>5, <2>2, Zenon DEF Laid
        <3> QED
            BY <1>5, <3>1, <3>2
    <2> HIDE DEF n, data, t
    <2>5. /\ tok' = tok + 1 /\ count' = count + n /\ part' = Concat(part, data)
          /\ low' = (IF data = EmptySpan THEN low ELSE Lesser(low, data.lo))
          /\ UNCHANGED <<rpc, rd, asked, key, bi, started, chunks, out, result>>
        BY <2>1 DEF Decoded
    <2>6. part' = ReadSpan(src, first, count + n)
        <3>1. /\ part = ChunkSpan(src, size, cs, first, count)
              /\ ReadSpan(src, first, count + n) = ChunkSpan(src, size, cs, first, count + n)
            BY <1>4 DEF ReadSpan
        <3> HIDE DEF first, size, cs
        <3>2. Concat(ChunkSpan(src, size, cs, first, count),
                     ChunkSpan(src, size, cs, first + count, n))
                  = ChunkSpan(src, size, cs, first, count + n)
            BY <1>6, <1>8, <2>3, ConcatChunks
        <3> QED
            BY <2>4, <2>5, <3>1, <3>2
    <2>7. pos[tok + 1] = first + (count + n) /\ tok + 1 <= Len(Block.node)
        BY <1>7, <1>8, <2>2, <2>3, <2>4, SMT
    <2>8. OutputInPlace(src)'
        <3>1. out' = ReadSpan(src, Start, chunks)' /\ first' = first
              /\ Start' = Start /\ Block' = Block
            BY <1>4, <2>5, Zenon DEF ReadSpan, Start, Block
        <3>2. part' = ReadSpan(src, first, count)'
            BY <2>5, <2>6, Zenon DEF ReadSpan
        <3>3. \E p : /\ Laid(Block.node, p, first, rd.arc.payload.data, src,
                             rd.arc.original_size, rd.arc.chunk_size)'
                     /\ tok' <= Len(Block'.node)
                     /\ p[tok'] = first' + count'
            BY <1>5, <2>5, <2>7, <3>1, Zenon
        <3>4. started' /\ rpc' = "node" /\ Start' + chunks' = first'
            BY <1>1, <1>4, <2>5, Zenon DEF Start
        <3> QED
            BY <3>1, <3>2, <3>3, <3>4, SMT DEF OutputInPlace
    <2>9. NothingBefore'
        <3> SUFFICES ASSUME key # WholeInput, ~HasGlobal(rd.arc)
                     PROVE  low' >= ByteAt(size, cs, key)
            BY <2>5, Zenon DEF NothingBefore
        <3>1. low >= ByteAt(size, cs, key) /\ key \in Nat /\ Start = key
            BY <1>1, <1>3, ReaderAtWork DEF NothingBefore, Start
        <3>2. first + count \in Nat /\ key <= first + count
              /\ (first + count) + n \in Nat
            BY <1>4, <1>8, <2>3, <3>1, SMT
        <3>3. /\ ByteAt(size, cs, key) \in Nat /\ ByteAt(size, cs, first + count) \in Nat
              /\ ByteAt(size, cs, key) <= ByteAt(size, cs, first + count)
            BY <1>8, <3>1, <3>2, ByteAtMonotone
        <3>4. data # EmptySpan => data.lo = ByteAt(size, cs, first + count)
            BY <2>4, Zenon DEF ChunkSpan, Span
        <3>5. CASE data = EmptySpan
            BY <2>5, <3>1, <3>5
        <3>6. CASE data # EmptySpan
            <4>1. low' = Lesser(low, ByteAt(size, cs, first + count))
                BY <2>5, <3>4, <3>6
            <4> HIDE DEF first, size, cs
            <4> QED
                BY <1>8, <3>1, <3>3, <4>1, SMT DEF Lesser
        <3> QED
            BY <3>5, <3>6
    <2>10. ReaderInv'
        BY <1>2, <1>3, <2>5, <2>8, <2>9, Zenon DEF ReaderInv
    <2> QED
        BY <2>5, <2>10
<1> QED
    BY <1>9, <1>10

LEMMA EndNodeReads ==
    ASSUME TypeInv, Bounds, ReaderInv, EndNode, last = asked
    PROVE  ReaderInv' /\ (result' = result \/ Fail)
<1> DEFINE interval == rd.arc.key_piece_interval
           total == rd.arc.total_chunks
           first == bi * interval
           size == rd.arc.original_size
           cs == rd.arc.chunk_size
<1>1. rpc = "node" /\ AtWork /\ bi < Len(rd.arc.blocks)
    BY SMT DEF EndNode, AtWork, Bounds, BlockRead
<1>2. PICK src : Holds(rd, asked, src) /\ OutputInPlace(src)
    BY <1>1 DEF ReaderInv
<1>3. /\ rd.have # 0 /\ KeyOK(rd.arc, key) /\ NothingBefore
    BY <1>1 DEF ReaderInv
<1>4. /\ out = ReadSpan(src, Start, chunks) /\ started
      /\ Start + chunks = first /\ part = ReadSpan(src, first, count)
    BY <1>1, <1>2 DEF OutputInPlace
<1>5. src \in Nat \ {0}
    BY <1>2 DEF Holds
<1>6. /\ size \in Nat /\ cs \in Nat /\ interval \in Nat /\ total \in Nat
      /\ first \in Nat /\ Start \in Nat /\ chunks \in Nat /\ count \in Nat
      /\ bi \in Nat
    BY <1>1, ReaderAtWork
<1>7. CASE Fail
    BY <1>7, FailReads
<1>8. CASE ~Fail
    <2>1. /\ count = Block.count
          /\ out' = Concat(out, part) /\ chunks' = chunks + count /\ bi' = bi + 1
          /\ rpc' = "block"
          /\ UNCHANGED <<rd, asked, key, started, tok, need, count, part, low, result>>
        BY <1>8, Zenon DEF EndNode
    <2>2. count = Lesser(first + interval, total) - first
        BY <1>1, <1>2, <2>1, BlockPlace
    <2>3. (bi + 1) * interval = first + interval
        BY <1>6, NextMultiple
    <2>4. Start + (chunks + count) = Lesser(first + interval, total)
        <3> DEFINE end == Lesser(first + interval, total)
        <3> HIDE DEF first, interval, total
        <3>1. end \in Nat
            BY <1>6, SMT DEF Lesser
        <3>2. count = end - first
            BY <2>2
        <3> HIDE DEF end
        <3>3. Start + (chunks + count) = end
            BY <1>4, <1>6, <3>1, <3>2, SMT
        <3> QED
            BY <3>3 DEF end
    <2> HIDE DEF first
    <2>5. out' = ReadSpan(src, Start, chunks + count)
        <3>1. /\ out = ChunkSpan(src, size, cs, Start, chunks)
              /\ part = ChunkSpan(src, size, cs, Start + chunks, count)
              /\ ReadSpan(src, Start, chunks + count)
                     = ChunkSpan(src, size, cs, Start, chunks + count)
            BY <1>4 DEF ReadSpan
        <3> HIDE DEF size, cs
        <3>2. Concat(ChunkSpan(src, size, cs, Start, chunks),
                     ChunkSpan(src, size, cs, Start + chunks, count))
                  = ChunkSpan(src, size, cs, Start, chunks + count)
            BY <1>5, <1>6, ConcatChunks
        <3> QED
            BY <2>1, <3>1, <3>2
    <2>6. OutputInPlace(src)'
        <3>1. out' = ReadSpan(src, Start, chunks)' /\ Start' = Start
            BY <2>1, <2>5, Zenon DEF ReadSpan, Start
        <3>2. bi' * rd'.arc.key_piece_interval = first + interval
            BY <2>1, <2>3
        <3>3. Start' + chunks' = Lesser(first + interval, rd'.arc.total_chunks)
            BY <2>1, <2>4, <3>1
        <3>4. started' /\ rpc' # "node"
            BY <1>4, <2>1, SMT
        <3> QED
            BY <3>1, <3>2, <3>3, <3>4, Zenon DEF OutputInPlace
    <2>7. ReaderInv'
        BY <1>2, <1>3, <2>1, <2>6, Zenon DEF ReaderInv, NothingBefore
    <2> QED
        BY <2>1, <2>7
<1> QED
    BY <1>7, <1>8

LEMMA SuffixSpan ==
    ASSUME NEW c, NEW k
    PROVE  Promise!Suffix(c, k)
               = Span(c.src, IF k = WholeInput THEN 0 ELSE k * c.chunk_size, c.size)
BY Zenon DEF Promise!Suffix, Promise!Span, Span, Promise!EmptySpan, EmptySpan,
             Promise!Garbled, Garbled

\* What a reader of a whole archive returns is the input from its start point on.
LEMMA FinishReads ==
    ASSUME TypeInv, Bounds, ReaderInv, Finish, last = asked
    PROVE  rpc' = "idle" /\ (ReaderGetsTheInput' \/ Fail)
<1> DEFINE interval == rd.arc.key_piece_interval
           total == rd.arc.total_chunks
           size == rd.arc.original_size
           cs == rd.arc.chunk_size
<1>1. rpc = "block" /\ AtWork /\ bi = rd.arc.block_count
    BY SMT DEF Finish, AtWork
<1>2. PICK src : Holds(rd, asked, src) /\ OutputInPlace(src)
    BY <1>1 DEF ReaderInv
<1>3. KeyOK(rd.arc, key)
    BY <1>1 DEF ReaderInv
<1>4. /\ out = ReadSpan(src, Start, chunks)
      /\ started => Start + chunks = Lesser(bi * interval, total)
    BY <1>1, <1>2 DEF OutputInPlace
<1>5. /\ size \in Nat /\ cs \in Nat \ {0} /\ interval \in Nat \ {0} /\ total \in Nat
      /\ Start \in Nat /\ chunks \in Nat /\ bi \in Nat
      /\ key # WholeInput => key \in Nat
    BY <1>1, ReaderAtWork
<1>6. /\ total = ChunkCount(size, cs) /\ bi = BlockCount(total, interval)
      /\ src \in Nat \ {0}
    BY <1>1, <1>2 DEF Holds, ArchiveLaid
<1>7. CASE ~EndChecks
    BY <1>7, Zenon DEF Finish, Fail
<1>8. CASE EndChecks
    <2>1. /\ rpc' = "idle" /\ result' = [kind |-> "ok", data |-> out]
          /\ asked' = asked /\ key' = key
        BY <1>8, Zenon DEF Finish
    <2>2. asked = InputOf(rd.arc, src)
        BY <1>2 DEF Holds
    <2>3. /\ asked.src = src /\ asked.size = size /\ asked.chunk_size = cs
          /\ asked.key_piece_interval = interval
        BY <2>2 DEF InputOf
    <2>4. Start + chunks = total
        <3>1. CASE key = WholeInput
            <4>1. chunks = total /\ Start = 0
                BY <1>8, <3>1 DEF EndChecks, Start
            <4> QED
                BY <1>5, <4>1, SMT
        <3>2. CASE key # WholeInput
            <4>1. Start + chunks = Lesser(bi * interval, total)
                BY <1>4, <1>8, <3>2 DEF EndChecks
            <4>2. total <= bi * interval
                <5>1. CASE total = 0
                    BY <1>5, <5>1, SMT
                <5>2. CASE total # 0
                    BY <1>5, <1>6, <5>2, CeilDivBounds DEF BlockCount
                <5> QED
                    BY <5>1, <5>2
            <4>3. bi * interval \in Nat
                BY <1>5, SMT
            <4> HIDE DEF interval, total
            <4> QED
                BY <1>5, <4>1, <4>2, <4>3, SMT DEF Lesser
        <3> QED
            BY <3>1, <3>2
    <2>5. ByteAt(size, cs, Start + chunks) = size
        BY <1>5, <1>6, <2>4, LastChunkEnds
    <2>6. out = Span(src, ByteAt(size, cs, Start), size)
        BY <1>4, <2>5, Zenon DEF ReadSpan, ChunkSpan
    <2>7. ASSUME key = WholeInput
          PROVE  out = Promise!Suffix(asked, key) /\ Promise!StartsKeyPiece(asked, key)
        <3>1. ByteAt(size, cs, Start) = 0
            <4>1. Start = 0 /\ 0 * cs = 0
                BY <1>5, <2>7, SMT DEF Start
            <4> QED
                BY <1>5, <4>1, SMT DEF ByteAt, Lesser
        <3>2. Promise!Suffix(asked, key) = Span(src, 0, size)
            BY <2>3, <2>7, SuffixSpan
        <3>3. Promise!StartsKeyPiece(asked, key)
            BY <2>7 DEF Promise!StartsKeyPiece
        <3> QED
            BY <3>1, <3>2, <3>3, <2>6
    <2>8. ASSUME key # WholeInput
          PROVE  out = Promise!Suffix(asked, key) /\ Promise!StartsKeyPiece(asked, key)
        <3>1. key \in Nat /\ Start = key /\ key < total /\ key % interval = 0
            BY <1>3, <1>5, <2>8 DEF KeyOK, Start
        <3>2. key * cs < size /\ ByteAt(size, cs, key) = key * cs
            <4>1. size \in Nat /\ cs \in Nat \ {0} /\ key < ChunkCount(size, cs)
                BY <1>5, <1>6, <3>1
            <4> HIDE DEF size, cs
            <4> QED
                BY <3>1, <4>1, ChunkBegins
        <3>3. Promise!Suffix(asked, key) = Span(src, key * cs, size)
            BY <2>3, <2>8, SuffixSpan
        <3>4. Promise!StartsKeyPiece(asked, key)
            BY <2>3, <2>8, <3>1, <3>2 DEF Promise!StartsKeyPiece
        <3> QED
            BY <3>1, <3>2, <3>3, <3>4, <2>6
    <2>9. out = Promise!Suffix(asked, key) /\ Promise!StartsKeyPiece(asked, key)
        BY <2>7, <2>8
    <2>10. asked # Nothing
        <3>1. InputOf(rd.arc, src) \in [src : Nat \ {0}, size : Nat, chunk_size : Nat,
                                       key_piece_interval : Nat]
            BY <1>5, <1>6 DEF InputOf
        <3> QED
            BY <2>2, <3>1, NothingAssumption DEF NothingAssumption
    <2> QED
        BY <2>1, <2>9, <2>10 DEF ReaderGetsTheInput
<1> QED
    BY <1>7, <1>8

----------------------------------------------------------------------------
(* The invariant, and what follows from it.                                *)

\* A reader's step leaves what was asked for alone.
LEMMA ReaderResult ==
    ASSUME ReaderGetsTheInput, result' = result, asked' = asked, last' = last,
           key' = key
    PROVE  ReaderGetsTheInput'
BY Zenon DEF ReaderGetsTheInput

\* The writer and the file are left alone.
LEMMA WriterInvKept ==
    ASSUME WriterInv, UNCHANGED writerVars
    PROVE  WriterInv'
<1>1. UNCHANGED <<wpc, writes, job, payload, blocks, todo, node>>
    BY Zenon DEF writerVars
<1>2. /\ GlobalWhole' <=> GlobalWhole
      /\ BlocksInPlace' <=> BlocksInPlace
      /\ Adjacent' <=> Adjacent
      /\ NodeInPlace' <=> NodeInPlace
    BY <1>1, Zenon DEF GlobalWhole, BlocksInPlace, Adjacent, NodeInPlace, wholeInput,
                       opts, BlockFirst
<1> QED
    BY <1>1, <1>2, Zenon DEF WriterInv

LEMMA FileInvKept ==
    ASSUME FileInv, UNCHANGED fileVars
    PROVE  FileInv'
BY Zenon DEF FileInv, fileVars

LEMMA ReaderInvKept ==
    ASSUME Held, AtStart, ReaderInv, ReaderGetsTheInput, UNCHANGED readerVars
    PROVE  Held' /\ AtStart' /\ ReaderInv' /\ ReaderGetsTheInput'
<1>1. UNCHANGED <<rpc, rd, asked, last, key, bi, started, tok, count, part, chunks, out,
                  low, result>>
    BY Zenon DEF readerVars
<1>2. \A src : OutputInPlace(src)' <=> OutputInPlace(src)
    BY <1>1, Zenon DEF OutputInPlace, ReadSpan, Start, Block
<1>3. ReaderInv'
    BY <1>1, <1>2, Zenon DEF ReaderInv, AtWork, NothingBefore
<1>4. Held' /\ AtStart'
    BY <1>1, Zenon DEF Held, AtStart
<1> QED
    BY <1>1, <1>3, <1>4, ReaderResult

LEMMA InitInv == Init => Inv
<1> SUFFICES ASSUME Init PROVE Inv
    OBVIOUS
<1>1. TypeInv /\ Bounds /\ WriterInv
    BY InitTypeInv, InitBounds, InitWriterInv
<1>2. FileInv /\ Held /\ AtStart /\ ReaderInv /\ ReaderGetsTheInput
    BY SMT DEF Init, FileInv, Held, AtStart, ReaderInv, AtWork, ReaderGetsTheInput,
               NoResult
<1> QED
    BY <1>1, <1>2 DEF Inv

LEMMA ReaderStepKeeps ==
    ASSUME Inv, ReaderStep
    PROVE  ReaderInv' /\ ReaderGetsTheInput'
<1> USE DEF Inv
<1>1. CASE Fail
    BY <1>1, FailReads
<1>2. CASE last' # asked'
    BY <1>2, MixedReads
<1>3. CASE ~Fail /\ last' = asked'
    <2>1. CASE ReadFirst
        <3>1. rpc' = "read" /\ result' = NoResult
            BY <2>1, Zenon DEF ReadFirst, AtStart, decoderVars
        <3> QED
            BY <3>1, SMT DEF ReaderInv, AtWork, ReaderGetsTheInput, NoResult
    <2>2. CASE ReadMore \/ EndRead
        <3>1. rpc' \in {"read", "head"}
            BY <2>2, SMT DEF ReadMore, EndRead
        <3>2. UNCHANGED <<result, asked, last, key>>
            BY <2>2, Zenon DEF ReadMore, EndRead, decoderVars
        <3> QED
            BY <3>1, <3>2, ReaderResult DEF ReaderInv, AtWork
    <2>3. CASE ReadOther
        BY <1>3, <2>3, OtherIsLater
    <2>4. CASE Misread
        BY <1>3, <2>4, Zenon DEF Misread, Bounds, Fresh
    <2>5. CASE ReadHead
        <3>1. UNCHANGED <<asked, last, key>>
            BY <1>3, <2>5, Zenon DEF ReadHead
        <3>2. ReaderInv' /\ result' = result
            BY <1>3, <2>5, <3>1, ReadHeadReads
        <3> QED
            BY <3>1, <3>2, ReaderResult
    <2>6. CASE ReadBlock
        <3>1. UNCHANGED <<asked, last, key>>
            BY <1>3, <2>6, Zenon DEF ReadBlock
        <3>2. ReaderInv' /\ result' = result
            BY <1>3, <2>6, <3>1, ReadBlockReads
        <3> QED
            BY <3>1, <3>2, ReaderResult
    <2>7. CASE ReadToken
        <3>1. UNCHANGED <<asked, last, key>>
            BY <1>3, <2>7, Zenon DEF ReadToken, Decoded
        <3>2. ReaderInv' /\ result' = result
            BY <1>3, <2>7, <3>1, ReadTokenReads
        <3> QED
            BY <3>1, <3>2, ReaderResult
    <2>8. CASE EndNode
        <3>1. UNCHANGED <<asked, last, key>>
            BY <1>3, <2>8, Zenon DEF EndNode
        <3>2. ReaderInv' /\ result' = result
            BY <1>3, <2>8, <3>1, EndNodeReads
        <3> QED
            BY <3>1, <3>2, ReaderResult
    <2>9. CASE Finish
        <3>1. UNCHANGED <<asked, last>>
            BY <1>3, <2>9, Zenon DEF Finish
        <3>2. rpc' = "idle" /\ ReaderGetsTheInput'
            BY <1>3, <2>9, <3>1, FinishReads
        <3> QED
            BY <3>2 DEF ReaderInv, AtWork
    <2> QED
        BY <2>1, <2>2, <2>3, <2>4, <2>5, <2>6, <2>7, <2>8, <2>9 DEF ReaderStep
<1> QED
    BY <1>1, <1>2, <1>3

LEMMA InvStep ==
    ASSUME Inv, [Next]_vars
    PROVE  Inv'
<1>1. TypeInv' /\ Bounds'
    BY TypeStep DEF Inv
<1>2. SUFFICES /\ WriterInv' /\ FileInv' /\ Held' /\ AtStart' /\ ReaderInv'
               /\ ReaderGetsTheInput'
    BY <1>1 DEF Inv
<1> USE DEF Inv
<1>3. CASE UNCHANGED vars
    BY <1>3, WriterInvKept, FileInvKept, ReaderInvKept DEF vars
<1>4. ASSUME NEW size \in 0..MaxSize, NEW o \in OptionSpace, NEW profile \in Profiles,
             Compress(size, o, profile)
      PROVE  /\ WriterInv' /\ FileInv' /\ Held' /\ AtStart' /\ ReaderInv'
             /\ ReaderGetsTheInput'
    <2>1. UNCHANGED fileVars /\ UNCHANGED readerVars
        BY <1>4 DEF Compress
    <2> QED
        BY <1>4, <2>1, CompressWrites, FileInvKept, ReaderInvKept
<1>5. CASE Share
    <2>1. UNCHANGED fileVars /\ UNCHANGED readerVars
        BY <1>5 DEF Share
    <2> QED
        BY <1>5, <2>1, ShareWrites, FileInvKept, ReaderInvKept
<1>6. CASE WideBlock
    <2>1. UNCHANGED fileVars /\ UNCHANGED readerVars
        BY <1>6 DEF WideBlock
    <2> QED
        BY <1>6, <2>1, WideBlockWrites, FileInvKept, ReaderInvKept
<1>7. CASE BeginBlock
    <2>1. UNCHANGED fileVars /\ UNCHANGED readerVars
        BY <1>7 DEF BeginBlock
    <2> QED
        BY <1>7, <2>1, BeginBlockWrites, FileInvKept, ReaderInvKept
<1>8. CASE WritePiece \/ WriteGroup
    <2>1. UNCHANGED fileVars /\ UNCHANGED readerVars
        BY <1>8, Zenon DEF WritePiece, WriteGroup, WriteLeaf
    <2> QED
        BY <1>8, <2>1, WritePieceWrites, WriteGroupWrites, FileInvKept, ReaderInvKept
<1>9. CASE WriteSplit
    <2>1. UNCHANGED fileVars /\ UNCHANGED readerVars
        BY <1>9 DEF WriteSplit
    <2> QED
        BY <1>9, <2>1, WriteSplitWrites, FileInvKept, ReaderInvKept
<1>10. CASE EndBlock
    <2>1. UNCHANGED fileVars /\ UNCHANGED readerVars
        BY <1>10 DEF EndBlock
    <2> QED
        BY <1>10, <2>1, EndBlockWrites, FileInvKept, ReaderInvKept
<1>11. CASE Create \/ Fill \/ SaveFails
    <2>1. UNCHANGED readerVars /\ wpc' \in {"save", "idle"}
        BY <1>11, SMT DEF Create, Fill, SaveFails
    <2>2. WriterInv'
        BY <2>1, SMT DEF WriterInv
    <2> QED
        BY <1>11, <2>1, <2>2, CreateStores, FillStores, ReaderInvKept
<1>12. CASE CompressFails
    <2>1. UNCHANGED fileVars /\ UNCHANGED readerVars /\ wpc' = "idle"
        BY <1>12 DEF CompressFails
    <2>2. WriterInv'
        BY <2>1, SMT DEF WriterInv
    <2> QED
        BY <2>1, <2>2, FileInvKept, ReaderInvKept
<1>13. ASSUME NEW k \in Starts, Open(k)
       PROVE  /\ WriterInv' /\ FileInv' /\ Held' /\ AtStart' /\ ReaderInv'
              /\ ReaderGetsTheInput'
    <2>1. UNCHANGED writerVars /\ UNCHANGED fileVars
        BY <1>13 DEF Open
    <2> QED
        BY <1>13, <2>1, OpenHolds, WriterInvKept, FileInvKept
<1>14. CASE ReaderStep
    BY <1>14, ReaderKeepsOthers, ReadHolds, ReaderStepKeeps, WriterInvKept, FileInvKept
<1> QED
    BY <1>3, <1>4, <1>5, <1>6, <1>7, <1>8, <1>9, <1>10, <1>11, <1>12, <1>13, <1>14
       DEF Next, WriterStep

LEMMA Invariance == Spec => []Inv
<1>1. Init => Inv
    BY InitInv
<1>2. Inv /\ [Next]_vars => Inv'
    BY InvStep
<1> QED
    BY <1>1, <1>2, PTL DEF Spec

\* A reader that has bytes of one write only is given the input of that write
\* from the start point on, or an error, for every input size, option, profile
\* and codec, wherever the file ends and however often it is written again,
\* before, during and after the reads (stream.rs:1361-1544).
THEOREM ReaderCorrect == Spec => []ReaderGetsTheInput
<1>1. Inv => ReaderGetsTheInput
    BY DEF Inv
<1> QED
    BY <1>1, Invariance, PTL

\* Without a global payload nothing before the key piece a reader starts at is
\* decoded (stream.rs:1463-1469).
THEOREM NoReplay == Spec => []NoReplayBeforeKeyPiece
<1>1. Inv => NoReplayBeforeKeyPiece
    BY Zenon DEF Inv, ReaderInv, AtWork, NothingBefore, NoReplayBeforeKeyPiece
<1> QED
    BY <1>1, Invariance, PTL

----------------------------------------------------------------------------
(* The container implements the restartable archive.                       *)

LEMMA InitPromise == Init => Promise!AInit
BY SMT DEF Init, Promise!AInit, Promise!NoAnswer, NoResult, Promise!EmptySpan,
           EmptySpan, Promise!Garbled, Garbled

\* What the reader has, as the restartable archive names it.
answer == IF rpc = "idle" THEN result
          ELSE [kind |-> IF rpc \in {"read", "garbled"} THEN "reading" ELSE "pending",
                data |-> EmptySpan]

LEMMA Answers ==
    ASSUME TypeInv
    PROVE  /\ Error = Promise!Failure
           /\ rpc = "idle" => answer \notin {Promise!Reading, Promise!Pending}
           /\ rpc \in {"read", "garbled"} => answer = Promise!Reading
           /\ rpc \in {"head", "block", "node"} => answer = Promise!Pending
<1>1. Promise!EmptySpan = EmptySpan
    BY Zenon DEF Promise!EmptySpan, EmptySpan, Promise!Garbled, Garbled
<1>2. result.kind \in {"none", "ok", "err"}
    BY DEF TypeInv, TypeOK, ReaderTypeOK
<1>3. Promise!Pending.kind = "pending" /\ Promise!Reading.kind = "reading"
    BY DEF Promise!Pending, Promise!Reading
<1>4. result # Promise!Pending /\ result # Promise!Reading
    BY <1>2, <1>3
<1>5. rpc = "idle" => answer \notin {Promise!Reading, Promise!Pending}
    BY <1>4 DEF answer
<1>6. rpc \in {"read", "garbled"} => answer = Promise!Reading
    BY <1>1 DEF answer, Promise!Reading
<1>7. rpc \in {"head", "block", "node"} => answer = Promise!Pending
    BY <1>1 DEF answer, Promise!Pending
<1> QED
    BY <1>1, <1>5, <1>6, <1>7, Zenon DEF Error, Promise!Failure

\* The answers a reader may be given.
LEMMA FailureAnswers ==
    ASSUME TypeInv, UNCHANGED <<stored, asked, last, key>>, rpc # "idle",
           rpc' = "idle", result' = Error
    PROVE  Promise!Answer
<1>1. answer \in {Promise!Reading, Promise!Pending}
    BY Answers DEF TypeInv, TypeOK, ReaderTypeOK
<1>2. answer' = Promise!Failure
    BY Answers, Zenon DEF answer
<1> QED
    BY <1>1, <1>2, Zenon DEF Promise!Answer, answer

LEMMA BytesAnswer ==
    ASSUME TypeInv, UNCHANGED <<stored, asked, last, key>>, rpc # "idle",
           rpc' = "idle", NEW s \in Spans, result' = [kind |-> "ok", data |-> s],
           ReaderGetsTheInput'
    PROVE  Promise!Answer
<1>1. answer \in {Promise!Reading, Promise!Pending}
    BY Answers DEF TypeInv, TypeOK, ReaderTypeOK
<1>2. answer' = [kind |-> "ok", data |-> s]
    BY Zenon DEF answer
<1>3. CASE last # asked
    <2>1. Promise!Spans = Spans
        BY Zenon DEF Promise!Spans, Spans
    <2>2. answer' \in [kind : {"ok"}, data : Promise!Spans]
        BY <1>2, <2>1
    <2> QED
        BY <1>1, <1>3, <2>2, Zenon DEF Promise!Answer, answer
<1>4. CASE last = asked
    <2>1. result'.kind = "ok" /\ result'.data = s
        OBVIOUS
    <2>2. /\ asked # Nothing /\ Promise!StartsKeyPiece(asked, key)
          /\ s = Promise!Suffix(asked, key)
        BY <1>4, <2>1, Zenon DEF ReaderGetsTheInput
    <2>3. answer' = Promise!Bytes(Promise!Suffix(asked, key))
        BY <1>2, <2>2, Zenon DEF Promise!Bytes
    <2> QED
        BY <1>1, <1>4, <2>2, <2>3, Zenon DEF Promise!Answer, answer
<1> QED
    BY <1>3, <1>4

\* fs::read takes bytes and meets the end.
LEMMA ReadPromise ==
    ASSUME Inv, ReadFirst \/ ReadMore \/ ReadOther \/ EndRead
    PROVE  Promise!ANext \/ UNCHANGED Promise!archiveVars
<1> USE DEF Inv
<1>1. stored' = stored /\ key' = key /\ result' = result /\ rpc = "read"
    BY Zenon DEF ReadFirst, ReadMore, ReadOther, EndRead, fileVars, decoderVars
<1>2. answer = Promise!Reading
    BY <1>1, Answers
<1>3. (rpc' = "read" \/ rpc' = "garbled") => answer' = answer
    BY <1>1, SMT DEF answer
<1>4. CASE ReadFirst
    <2>1. /\ rpc' = rpc /\ asked = Nothing /\ stored # Nothing
          /\ asked' = stored /\ last' = stored
        BY <1>4, Zenon DEF ReadFirst
    <2>2. last = Nothing
        BY <2>1 DEF Bounds, Fresh
    <2>3. (last' # asked') = (last # asked)
        BY <2>1, <2>2
    <2> QED
        BY <1>1, <1>2, <1>3, <2>1, <2>3, Zenon DEF Promise!ANext, Promise!Take, answer
<1>5. CASE ReadMore
    <2>1. rpc' = rpc /\ asked' = asked /\ last' = last
        BY <1>5, Zenon DEF ReadMore
    <2> QED
        BY <1>1, <1>3, <2>1, Zenon DEF Promise!archiveVars, answer
<1>6. CASE ReadOther
    <2>1. rpc' = "read" \/ rpc' = "garbled"
        BY <1>1, <1>6, Zenon DEF ReadOther
    <2>2. /\ asked' = asked /\ last' = stored /\ asked # Nothing /\ asked # stored
        BY <1>6, OtherIsLater
    <2>3. stored # Nothing
        <3>1. Num(asked) <= Num(stored)
            BY <1>6, OtherIsLater
        <3>2. Num(asked) > 0
            BY <2>2, NumType DEF TypeInv, TypeOK, ReaderTypeOK
        <3>3. Num(asked) \in Nat /\ Num(stored) \in Nat
            BY NumType DEF TypeInv, TypeOK, ReaderTypeOK, FileTypeOK
        <3> QED
            BY <3>1, <3>2, <3>3, SMT DEF Num
    <2>4. (last' # asked') = TRUE
        BY <2>2
    <2> QED
        BY <1>1, <1>2, <1>3, <2>1, <2>2, <2>3, <2>4, Zenon
           DEF Promise!ANext, Promise!Take, answer
<1>7. CASE EndRead
    <2>1. rpc' = "head" /\ asked' = asked /\ last' = last
        BY <1>7, Zenon DEF EndRead
    <2>2. answer' = Promise!Pending
        <3>1. Promise!EmptySpan = EmptySpan
            BY Zenon DEF Promise!EmptySpan, EmptySpan, Promise!Garbled, Garbled
        <3> QED
            BY <2>1, <3>1, SMT DEF answer, Promise!Pending
    <2> QED
        BY <1>1, <1>2, <2>1, <2>2, Zenon DEF Promise!ANext, Promise!MeetEnd, answer
<1> QED
    BY <1>4, <1>5, <1>6, <1>7

\* The parser works on what was taken and answers.
LEMMA ParsePromise ==
    ASSUME Inv, Inv', Misread \/ ReadHead \/ ReadBlock \/ ReadToken \/ EndNode \/ Finish
    PROVE  Promise!ANext \/ UNCHANGED Promise!archiveVars
<1> USE DEF Inv
<1>1. /\ stored' = stored /\ UNCHANGED <<asked, last, key>>
    BY Zenon DEF Misread, ReadHead, ReadBlock, ReadToken, EndNode, Finish, Fail, Decoded,
                 fileVars
<1>2. rpc # "idle"
    BY SMT DEF Misread, ReadHead, ReadBlock, ReadToken, EndNode, Finish
<1>3. CASE rpc' = "idle" /\ result' = Error
    BY <1>1, <1>2, <1>3, FailureAnswers, Zenon DEF Promise!ANext
<1>4. ASSUME NEW s \in Spans, rpc' = "idle", result' = [kind |-> "ok", data |-> s]
      PROVE  Promise!ANext
    BY <1>1, <1>2, <1>4, BytesAnswer, Zenon DEF Promise!ANext
<1>5. CASE Misread
    <2>1. ASSUME NEW n \in 0..MaxOutput,
                 result' = [kind |-> "ok", data |-> Span(Garbled, 0, n)]
          PROVE  Promise!ANext
        <3>1. n \in Nat
            BY ConstantsAssumption, SMT DEF ConstantsAssumption
        <3>2. Span(Garbled, 0, n) \in Spans
            BY <3>1, SMT DEF Span, Spans, EmptySpan, Garbled
        <3> QED
            BY <1>4, <1>5, <2>1, <3>2, Zenon DEF Misread
    <2> QED
        BY <1>3, <1>5, <2>1, Zenon DEF Misread
<1>6. CASE Finish /\ ~Fail
    <2>1. rpc' = "idle" /\ result' = [kind |-> "ok", data |-> out]
        BY <1>6, Zenon DEF Finish
    <2>2. out \in Spans
        BY DEF TypeInv, TypeOK, ReaderTypeOK
    <2> QED
        BY <1>4, <2>1, <2>2
<1>7. CASE ~Fail /\ ~Finish /\ ~Misread
    <2>1. rpc \in {"head", "block", "node"}
        BY <1>7, SMT DEF ReadHead, ReadBlock, ReadToken, EndNode
    <2>2. rpc' \in {"block", "node"}
        <3>1. CASE ReadHead
            BY <1>7, <3>1, Zenon DEF ReadHead
        <3>2. CASE ReadBlock
            BY <1>7, <3>2, Zenon DEF ReadBlock
        <3>3. CASE ReadToken
            BY <1>7, <3>3, Zenon DEF ReadToken, Decoded
        <3>4. CASE EndNode
            BY <1>7, <3>4, Zenon DEF EndNode
        <3> QED
            BY <1>7, <3>1, <3>2, <3>3, <3>4
    <2>3. answer' = answer
        BY <2>1, <2>2, SMT DEF answer
    <2> QED
        BY <1>1, <2>3, Zenon DEF Promise!archiveVars, answer
<1>8. CASE Fail
    BY <1>3, <1>8 DEF Fail
<1> QED
    BY <1>5, <1>6, <1>7, <1>8

LEMMA StepPromise ==
    ASSUME Inv, Inv', [Next]_vars
    PROVE  [Promise!ANext]_(Promise!archiveVars)
<1>1. ASSUME UNCHANGED <<stored, readerVars>> PROVE UNCHANGED Promise!archiveVars
    BY <1>1, Zenon DEF Promise!archiveVars, readerVars
<1>2. CASE UNCHANGED vars
    BY <1>1, <1>2, Zenon DEF vars, fileVars
<1>3. CASE Create
    <2>1. stored' \in Promise!Contents
        BY <1>3, CreateTypes DEF Inv
    <2>2. UNCHANGED <<asked, last, key, rpc, result>>
        BY <1>3, Zenon DEF Create, readerVars
    <2> QED
        BY <2>1, <2>2, Zenon DEF Promise!ANext, Promise!Replace
<1>4. ASSUME NEW k \in Starts, Open(k)
      PROVE  Promise!Ask
    <2>1. /\ rpc = "idle" /\ rpc' = "read" /\ asked' = Nothing /\ last' = Nothing
          /\ key' = k /\ stored' = stored
        BY <1>4, Zenon DEF Open, fileVars
    <2>2. k \in Nat \cup {WholeInput}
        BY ConstantsAssumption, SMT DEF ConstantsAssumption
    <2>3. answer \notin {Promise!Reading, Promise!Pending}
        BY <2>1, Answers DEF Inv
    <2>4. answer' = Promise!Reading
        <3>1. Promise!EmptySpan = EmptySpan
            BY Zenon DEF Promise!EmptySpan, EmptySpan, Promise!Garbled, Garbled
        <3> QED
            BY <2>1, <3>1, SMT DEF answer, Promise!Reading
    <2>5. (last' # asked') = FALSE
        BY <2>1
    <2> QED
        BY <2>1, <2>2, <2>3, <2>4, <2>5, Zenon DEF Promise!Ask, answer
<1>5. CASE ReaderStep
    BY <1>5, ReadPromise, ParsePromise DEF ReaderStep
<1>6. CASE \/ \E size \in 0..MaxSize, o \in OptionSpace, profile \in Profiles :
                  Compress(size, o, profile)
           \/ Share \/ WideBlock \/ BeginBlock \/ WritePiece \/ WriteGroup
           \/ WriteSplit \/ EndBlock \/ Fill \/ SaveFails \/ CompressFails
    <2>1. UNCHANGED <<stored, readerVars>>
        BY <1>6, Zenon DEF Compress, Share, WideBlock, BeginBlock, WritePiece, WriteGroup,
           WriteLeaf, WriteSplit, EndBlock, Fill, SaveFails, CompressFails, fileVars
    <2> QED
        BY <1>1, <2>1
<1> QED
    BY <1>2, <1>3, <1>4, <1>5, <1>6, Zenon DEF Next, WriterStep, Promise!ANext

\* Every behaviour of the container is one of the restartable archive, however
\* the reads of a reader and the writes of others to its file are interleaved.
THEOREM Refinement == Spec => ImplementsArchive
<1>1. Init => Promise!AInit
    BY InitPromise
<1>2. Inv /\ Inv' /\ [Next]_vars => [Promise!ANext]_(Promise!archiveVars)
    BY StepPromise
<1> QED
    BY <1>1, <1>2, Invariance, PTL DEF Spec, ImplementsArchive, Promise!ASpec

----------------------------------------------------------------------------
(* Complete nodes: why the reader's checks are met.                        *)

Children(t) == IF t.kind = "split" THEN 2 ELSE 0

\* The tokens in preorder: behind token j there are open[j] nodes still to come, and
\* the next one begins with chunk pos[j].
Walked(tokens, first, open, pos) ==
    /\ open \in [0..Len(tokens) -> Nat] /\ pos \in [0..Len(tokens) -> Nat]
    /\ open[0] = 1 /\ pos[0] = first
    /\ \A j \in 1..Len(tokens) :
          /\ open[j - 1] > 0
          /\ open[j] = open[j - 1] - 1 + Children(tokens[j])
          /\ pos[j] = pos[j - 1] + TokenCount(tokens[j])

WalksTo(tokens, first, n, c) ==
    \E open, pos : /\ Walked(tokens, first, open, pos)
                   /\ open[Len(tokens)] = n /\ pos[Len(tokens)] = c

\* A leaf announces the length and the method of its pack; a slice lies within a
\* global payload of this size.
SoundToken(t, global, size) ==
    /\ t.kind \in {"piece", "group"} =>
           t.len = SpanLen(t.pack.data) /\ t.method = MethodOf(t.pack)
    /\ t.kind = "slice" => global /\ t.offset + t.len <= size

SoundTokens(tokens, global, size) ==
    \A j \in 1..Len(tokens) : SoundToken(tokens[j], global, size)

\* The tokens are one whole tree that stands for the chunks first .. end-1.
WholeNode(tokens, global, size, first, end) ==
    /\ SoundTokens(tokens, global, size)
    /\ WalksTo(tokens, first, 0, end)

WholeBlock(b, global, size, cs) ==
    /\ b.len = SpanLen(ChunkSpan(1, size, cs, b.first, b.count))
    /\ WholeNode(b.node, global, size, b.first, b.first + b.count)

WholeBlocks(bs, global, size, cs) ==
    \A i \in 1..Len(bs) : WholeBlock(bs[i], global, size, cs)

\* Nothing is read or written of the tree yet.
LEMMA WalkedNone ==
    ASSUME NEW first \in Nat
    PROVE  WalksTo(<<>>, first, 1, first)
<1> DEFINE open == [j \in 0..0 |-> 1]
           pos == [j \in 0..0 |-> first]
<1>1. Len(<<>>) = 0 /\ 1..0 = {} /\ 0 \in 0..0
    BY SMT
<1>2. open \in [0..0 -> Nat] /\ pos \in [0..0 -> Nat] /\ open[0] = 1 /\ pos[0] = first
    BY <1>1
<1> HIDE DEF open, pos
<1>3. Walked(<<>>, first, open, pos)
    BY <1>1, <1>2 DEF Walked
<1> QED
    BY <1>1, <1>2, <1>3 DEF WalksTo

\* One more token closes a node and opens its children.
LEMMA WalkedAppend ==
    ASSUME NEW tokens \in Seq(Tokens), NEW t \in Tokens, NEW first \in Nat,
           NEW n, NEW c, WalksTo(tokens, first, n, c), n > 0
    PROVE  WalksTo(Append(tokens, t), first, n - 1 + Children(t), c + TokenCount(t))
<1> PICK open, pos : /\ Walked(tokens, first, open, pos)
                     /\ open[Len(tokens)] = n /\ pos[Len(tokens)] = c
    BY DEF WalksTo
<1> DEFINE k == Len(tokens)
           more == Append(tokens, t)
           newOpen == [j \in 0..(k + 1) |-> IF j <= k THEN open[j]
                                            ELSE open[k] - 1 + Children(t)]
           newPos == [j \in 0..(k + 1) |-> IF j <= k THEN pos[j] ELSE pos[k] + TokenCount(t)]
<1>1. /\ k \in Nat /\ Len(more) = k + 1 /\ more[k + 1] = t
      /\ \A j \in 1..k : more[j] = tokens[j]
    OBVIOUS
<1>2. TokenCount(t) \in Nat /\ Children(t) \in Nat
    BY TokenCountType, SMT DEF Children
<1>3. /\ open \in [0..k -> Nat] /\ open[0] = 1
      /\ pos \in [0..k -> Nat] /\ pos[0] = first
    BY DEF Walked
<1>4. /\ \A j \in 0..k : newOpen[j] = open[j] /\ newPos[j] = pos[j]
                         /\ open[j] \in Nat /\ pos[j] \in Nat
      /\ newOpen[k + 1] = open[k] - 1 + Children(t)
      /\ newPos[k + 1] = pos[k] + TokenCount(t)
      /\ 0 \in 0..k /\ k \in 0..k
    <2>1. 0 \in 0..k /\ k \in 0..k /\ k + 1 \in 0..(k + 1) /\ ~(k + 1 <= k)
          /\ \A j \in 0..k : j \in 0..(k + 1) /\ j <= k
        BY <1>1, SMT
    <2>2. \A j \in 0..k : open[j] \in Nat /\ pos[j] \in Nat
        BY <1>3
    <2>3. newOpen[k + 1] = open[k] - 1 + Children(t) /\ newPos[k + 1] = pos[k] + TokenCount(t)
        BY <2>1
    <2>4. \A j \in 0..k : newOpen[j] = open[j] /\ newPos[j] = pos[j]
        BY <2>1
    <2> QED
        BY <2>1, <2>2, <2>3, <2>4
<1>5. newOpen \in [0..(k + 1) -> Nat] /\ newPos \in [0..(k + 1) -> Nat]
    <2>1. open[k] - 1 + Children(t) \in Nat /\ pos[k] + TokenCount(t) \in Nat
        <3>1. open[k] \in Nat /\ pos[k] \in Nat /\ open[k] > 0
            BY <1>4
        <3> QED
            BY <1>2, <3>1, SMT
    <2> QED
        BY <1>1, <1>3, <2>1, SMT
<1> HIDE DEF newOpen, newPos, more
<1>6. ASSUME NEW j \in 1..(k + 1)
      PROVE  /\ newOpen[j - 1] > 0
             /\ newOpen[j] = newOpen[j - 1] - 1 + Children(more[j])
             /\ newPos[j] = newPos[j - 1] + TokenCount(more[j])
    <2>1. CASE j \in 1..k
        <3>1. j - 1 \in 0..k /\ j \in 0..k
            BY <1>1, <2>1, SMT
        <3>2. /\ newOpen[j] = open[j] /\ newOpen[j - 1] = open[j - 1]
              /\ newPos[j] = pos[j] /\ newPos[j - 1] = pos[j - 1] /\ more[j] = tokens[j]
            BY <1>1, <1>4, <2>1, <3>1
        <3>3. /\ open[j - 1] > 0
              /\ open[j] = open[j - 1] - 1 + Children(tokens[j])
              /\ pos[j] = pos[j - 1] + TokenCount(tokens[j])
            BY <2>1, Zenon DEF Walked
        <3> QED
            BY <3>2, <3>3
    <2>2. CASE j = k + 1
        <3>1. j - 1 = k
            BY <1>1, <2>2, SMT
        <3> QED
            BY <1>1, <1>4, <2>2, <3>1
    <2> QED
        BY <1>1, <2>1, <2>2, SMT
<1>7. newOpen[0] = 1 /\ newPos[0] = first
    BY <1>3, <1>4
<1>8. Walked(more, first, newOpen, newPos)
    BY <1>1, <1>5, <1>6, <1>7 DEF Walked
<1> QED
    BY <1>1, <1>4, <1>8 DEF more, WalksTo

LEMMA SoundAppend ==
    ASSUME NEW tokens \in Seq(Tokens), NEW t, NEW global, NEW size,
           SoundTokens(tokens, global, size), SoundToken(t, global, size)
    PROVE  SoundTokens(Append(tokens, t), global, size)
<1> DEFINE more == Append(tokens, t)
<1>1. /\ Len(tokens) \in Nat /\ Len(more) = Len(tokens) + 1 /\ more[Len(tokens) + 1] = t
      /\ \A j \in 1..Len(tokens) : more[j] = tokens[j]
    OBVIOUS
<1> HIDE DEF more
<1>2. ASSUME NEW j \in 1..Len(more)
      PROVE  SoundToken(more[j], global, size)
    <2>1. CASE j \in 1..Len(tokens)
        BY <1>1, <2>1 DEF SoundTokens
    <2>2. CASE j = Len(tokens) + 1
        BY <1>1, <2>2
    <2> QED
        BY <1>1, <2>1, <2>2, SMT
<1> QED
    BY <1>2 DEF SoundTokens, more

LEMMA WholeAppend ==
    ASSUME NEW bs \in Seq(Blocks), NEW b, NEW global, NEW size, NEW cs,
           WholeBlocks(bs, global, size, cs), WholeBlock(b, global, size, cs)
    PROVE  WholeBlocks(Append(bs, b), global, size, cs)
<1> DEFINE more == Append(bs, b)
<1>1. /\ Len(bs) \in Nat /\ Len(more) = Len(bs) + 1 /\ more[Len(bs) + 1] = b
      /\ \A j \in 1..Len(bs) : more[j] = bs[j]
    OBVIOUS
<1> HIDE DEF more
<1>2. ASSUME NEW j \in 1..Len(more)
      PROVE  WholeBlock(more[j], global, size, cs)
    <2>1. CASE j \in 1..Len(bs)
        BY <1>1, <2>1 DEF WholeBlocks
    <2>2. CASE j = Len(bs) + 1
        BY <1>1, <2>2
    <2> QED
        BY <1>1, <2>1, <2>2, SMT
<1> QED
    BY <1>2 DEF WholeBlocks, more

\* The length of a span of chunks does not depend on the input, and no such span is
\* longer than the input.
ChunkLen(size, cs, c, n) == ByteAt(size, cs, c + n) - ByteAt(size, cs, c)

LEMMA ChunkSpanLength ==
    ASSUME NEW src \in Nat, NEW size \in Nat, NEW cs \in Nat, NEW c \in Nat, NEW n \in Nat
    PROVE  /\ SpanLen(ChunkSpan(src, size, cs, c, n)) = ChunkLen(size, cs, c, n)
           /\ ChunkLen(size, cs, c, n) \in Nat
           /\ ByteAt(size, cs, c) \in Nat
           /\ ByteAt(size, cs, c) + ChunkLen(size, cs, c, n) <= size
           /\ ChunkLen(size, cs, c, n) <= size
<1> DEFINE x == ByteAt(size, cs, c)
           y == ByteAt(size, cs, c + n)
<1>1. c + n \in Nat /\ c <= c + n
    BY SMT
<1>2. x \in Nat /\ y \in Nat /\ x <= y
    BY <1>1, ByteAtMonotone
<1>3. y <= size
    <2>1. (c + n) * cs \in Nat
        BY <1>1, SMT
    <2> QED
        BY <2>1, SMT DEF ByteAt, Lesser
<1>4. ChunkSpan(src, size, cs, c, n) = Span(src, x, y) /\ ChunkLen(size, cs, c, n) = y - x
    BY DEF ChunkSpan, ChunkLen
<1> HIDE DEF x, y
<1>5. SpanLen(Span(src, x, y)) = y - x
    BY <1>2, SMT DEF Span, SpanLen, EmptySpan
<1>6. x + (y - x) <= size /\ y - x \in Nat /\ y - x <= size
    BY <1>2, <1>3, SMT
<1> QED
    BY <1>2, <1>4, <1>5, <1>6 DEF x

\* The same for the input that is being compressed.
LEMMA JobSpan ==
    ASSUME WriterTypeOK, NEW c \in Nat, NEW n \in Nat
    PROVE  /\ SpanLen(ChunkSpan(writes, job.size, opts.chunk_size, c, n))
                  = ChunkLen(job.size, opts.chunk_size, c, n)
           /\ SpanLen(ChunkSpan(1, job.size, opts.chunk_size, c, n))
                  = ChunkLen(job.size, opts.chunk_size, c, n)
           /\ ByteAt(job.size, opts.chunk_size, c)
                  + ChunkLen(job.size, opts.chunk_size, c, n) <= job.size
<1>1. \A src, size, cs \in Nat :
          /\ SpanLen(ChunkSpan(src, size, cs, c, n)) = ChunkLen(size, cs, c, n)
          /\ ByteAt(size, cs, c) + ChunkLen(size, cs, c, n) <= size
    BY ChunkSpanLength
<1>2. opts.chunk_size \in Nat /\ job.size \in Nat /\ writes \in Nat /\ 1 \in Nat
    BY OptsType
<1> QED
    BY <1>1, <1>2, Zenon

----------------------------------------------------------------------------
(* The writer leaves whole nodes.                                          *)

HasPayload == opts.wide_overfitting_circuits \/ Shared

\* The subranges still to be written are as many as the nodes still to come, they
\* begin where the tokens end, and the last one ends with the block.
NodeOpen ==
    /\ SoundTokens(node, HasPayload, job.size)
    /\ todo # <<>> => todo[Len(todo)].hi = BlockEnd(Len(blocks))
    /\ WalksTo(node, BlockFirst(Len(blocks)), Len(todo),
               IF todo = <<>> THEN BlockEnd(Len(blocks)) ELSE todo[1].lo)

PlanInv ==
    /\ wpc \in {"block", "node"} =>
           WholeBlocks(blocks, HasPayload, job.size, opts.chunk_size)
    /\ wpc = "node" => NodeOpen

\* A slice that stands for a whole block lies within the input.
LEMMA SliceWhole ==
    ASSUME WriterTypeOK, ValidOptions(opts), NEW i \in Nat, i < jobBlocks,
           NEW global, global
    PROVE  WholeNode(<<BlockSlice(i)>>, global, job.size, BlockFirst(i), BlockEnd(i))
<1> DEFINE t == BlockSlice(i)
           first == BlockFirst(i)
           end == BlockEnd(i)
           cs == opts.chunk_size
           len == SpanLen(Range(first, end))
<1>1. /\ first \in Nat /\ end \in Nat /\ first < end /\ end - first \in Nat
      /\ cs \in Nat \ {0} /\ job.size \in Nat /\ writes \in Nat
    BY BlockGeometry, JobChunksType, OptsType
<1>2. t \in Tokens
    BY BlockSliceType
<1>3. /\ t.kind = "slice" /\ t.count = end - first
      /\ t.offset = first * cs /\ t.len = len
    BY DEF BlockSlice, SliceToken
<1>4. TokenCount(t) = end - first /\ Children(t) = 0
    BY <1>3 DEF TokenCount, Children
<1>5. first * cs + len <= job.size
    <2>1. end <= jobChunks /\ jobChunks \in Nat
        BY JobChunksType, <1>1, SMT DEF BlockEnd, Lesser
    <2>2. first < ChunkCount(job.size, cs)
        BY <1>1, <2>1, SMT DEF jobChunks
    <2>3. first * cs \in Nat /\ ByteAt(job.size, cs, first) = first * cs
        BY <1>1, <2>2, ChunkBegins
    <2>4. Range(first, end) = ChunkSpan(writes, job.size, cs, first, end - first)
        BY DEF Range
    <2>5. /\ SpanLen(ChunkSpan(writes, job.size, cs, first, end - first))
                 = ChunkLen(job.size, cs, first, end - first)
          /\ ByteAt(job.size, cs, first) + ChunkLen(job.size, cs, first, end - first)
                 <= job.size
        BY <1>1, JobSpan
    <2> QED
        BY <2>3, <2>4, <2>5 DEF len
<1> HIDE DEF t, first, end, cs, len
<1>6. SoundTokens(<<>>, global, job.size)
    <2>1. 1..Len(<<>>) = {}
        BY SMT
    <2> QED
        BY <2>1 DEF SoundTokens
<1>7. SoundToken(t, global, job.size)
    BY <1>3, <1>5 DEF SoundToken
<1>8. <<>> \in Seq(Tokens) /\ Append(<<>>, t) = <<t>>
    OBVIOUS
<1>9. SoundTokens(<<t>>, global, job.size)
    BY <1>6, <1>7, <1>8, SoundAppend
<1> DEFINE none == <<>>
<1>10. WalksTo(none, first, 1, first)
    BY <1>1, WalkedNone
<1>11. 1 > 0 /\ 1 - 1 + 0 = 0 /\ first + (end - first) = end
    BY <1>1, SMT
<1>12. none \in Seq(Tokens) /\ Append(none, t) = <<t>>
    BY <1>8
<1> HIDE DEF none
<1>13. WalksTo(Append(none, t), first, 1 - 1 + Children(t), first + TokenCount(t))
    BY <1>1, <1>2, <1>10, <1>11, <1>12, WalkedAppend
<1>14. WalksTo(<<t>>, first, 0, end)
    BY <1>4, <1>11, <1>12, <1>13
<1> QED
    BY <1>9, <1>14 DEF WholeNode, t, first, end

\* A record with a whole node is a whole block.
LEMMA RecordWhole ==
    ASSUME WriterTypeOK, ValidOptions(opts), NEW i \in Nat, i < jobBlocks,
           NEW tokens, NEW global,
           WholeNode(tokens, global, job.size, BlockFirst(i), BlockEnd(i))
    PROVE  WholeBlock(BlockRecord(i, tokens), global, job.size, opts.chunk_size)
<1> DEFINE first == BlockFirst(i)
           n == BlockEnd(i) - first
           b == BlockRecord(i, tokens)
<1>1. /\ first \in Nat /\ BlockEnd(i) \in Nat /\ n \in Nat
      /\ opts.chunk_size \in Nat /\ job.size \in Nat /\ writes \in Nat /\ 1 \in Nat
    BY BlockGeometry, OptsType
<1>2. /\ b.first = first /\ b.count = n /\ b.node = tokens
      /\ b.len = SpanLen(Range(first, BlockEnd(i)))
    BY DEF BlockRecord
<1>3. first + n = BlockEnd(i)
    <2> HIDE DEF first
    <2> QED
        BY <1>1, SMT
<1> HIDE DEF first, n, b
<1>4. SpanLen(Range(first, BlockEnd(i)))
          = SpanLen(ChunkSpan(1, job.size, opts.chunk_size, first, n))
    <2>1. Range(first, BlockEnd(i)) = ChunkSpan(writes, job.size, opts.chunk_size, first, n)
        BY DEF Range, n, first
    <2>2. SpanLen(ChunkSpan(writes, job.size, opts.chunk_size, first, n))
              = ChunkLen(job.size, opts.chunk_size, first, n)
        BY <1>1, JobSpan
    <2>3. SpanLen(ChunkSpan(1, job.size, opts.chunk_size, first, n))
              = ChunkLen(job.size, opts.chunk_size, first, n)
        BY <1>1, JobSpan
    <2> QED
        BY <2>1, <2>2, <2>3
<1> QED
    BY <1>2, <1>3, <1>4 DEF WholeBlock, first, b

LEMMA InitPlanInv == Init => PlanInv
BY DEF Init, PlanInv

\* The writer begins with no blocks.
LEMMA SharePlan ==
    ASSUME TypeInv, WriterInv, Share
    PROVE  PlanInv'
<1>1. blocks' = <<>> /\ wpc' # "node"
    BY SMT DEF Share, WriterInv
<1>2. 1..Len(<<>>) = {}
    BY SMT
<1>3. WholeBlocks(blocks, HasPayload, job.size, opts.chunk_size)'
    BY <1>1, <1>2, Zenon DEF WholeBlocks
<1> QED
    BY <1>1, <1>3, Zenon DEF PlanInv

\* What the blocks written depend on while a stream is written.
LEMMA PlanKept ==
    ASSUME UNCHANGED <<payload, job>>
    PROVE  /\ HasPayload' = HasPayload /\ opts' = opts
           /\ \A i : BlockFirst(i)' = BlockFirst(i) /\ BlockEnd(i)' = BlockEnd(i)
BY Zenon DEF HasPayload, Shared, opts, BlockFirst, BlockEnd, jobChunks

LEMMA WideBlockPlan ==
    ASSUME TypeInv, PlanInv, WideBlock
    PROVE  PlanInv'
<1> USE DEF TypeInv, TypeOK
<1>1. /\ ValidOptions(opts) /\ Len(blocks) \in Nat /\ blocks \in Seq(Blocks)
      /\ Len(blocks) < jobBlocks /\ HasPayload /\ wpc = "block"
    BY DEF WideBlock, Working, WriterTypeOK, HasPayload
<1>2. WholeBlocks(blocks, HasPayload, job.size, opts.chunk_size)
    BY <1>1 DEF PlanInv
<1> DEFINE b == BlockRecord(Len(blocks), <<BlockSlice(Len(blocks))>>)
<1>3. WholeBlock(b, HasPayload, job.size, opts.chunk_size)
    BY <1>1, SliceWhole, RecordWhole
<1>4. /\ blocks' = Append(blocks, b) /\ wpc' = "block"
      /\ UNCHANGED <<payload, job>>
    BY <1>1 DEF WideBlock
<1> HIDE DEF b
<1>5. WholeBlocks(blocks', HasPayload, job.size, opts.chunk_size)
    BY <1>1, <1>2, <1>3, <1>4, WholeAppend
<1>6. WholeBlocks(blocks, HasPayload, job.size, opts.chunk_size)'
    BY <1>4, <1>5, PlanKept, Zenon
<1> QED
    BY <1>4, <1>6, SMT DEF PlanInv

LEMMA BeginBlockPlan ==
    ASSUME TypeInv, PlanInv, BeginBlock
    PROVE  PlanInv'
<1> USE DEF TypeInv, TypeOK
<1> DEFINE first == BlockFirst(Len(blocks))
           end == BlockEnd(Len(blocks))
           e == [lo |-> first, hi |-> end, depth |-> opts.max_group_depth,
                 root |-> TRUE, main |-> TRUE]
<1>1. /\ ValidOptions(opts) /\ Len(blocks) \in Nat
      /\ Len(blocks) < jobBlocks /\ wpc = "block" /\ wpc' = "node"
      /\ UNCHANGED <<payload, job, blocks>>
    BY DEF BeginBlock, Working, WriterTypeOK
<1>2. todo' = <<e>> /\ node' = <<>> /\ e.lo = first /\ e.hi = end
    BY DEF BeginBlock
<1>3. first \in Nat
    BY <1>1, BlockGeometry
<1>4. WholeBlocks(blocks, HasPayload, job.size, opts.chunk_size)'
    <2>1. WholeBlocks(blocks, HasPayload, job.size, opts.chunk_size)
        BY <1>1, SMT DEF PlanInv
    <2> QED
        BY <1>1, <2>1, PlanKept, Zenon
<1>5. WalksTo(<<>>, first, 1, first)
    BY <1>3, WalkedNone
<1>6. Len(todo') = 1 /\ todo' # <<>> /\ todo'[1] = e
    BY <1>2
<1>7. first' = first /\ end' = end
    <2>1. Len(blocks)' = Len(blocks)
        BY <1>1
    <2> QED
        BY <1>1, <2>1, PlanKept DEF BlockFirst, BlockEnd
<1> HIDE DEF first, end, e
<1>8. SoundTokens(node, HasPayload, job.size)'
    <2>1. 1..Len(<<>>) = {}
        BY SMT
    <2> QED
        BY <1>2, <2>1, Zenon DEF SoundTokens
<1>9. NodeOpen'
    <2>1. WalksTo(node', first', Len(todo'), IF todo' = <<>> THEN end' ELSE todo'[1].lo)
        BY <1>2, <1>5, <1>6, <1>7, Zenon
    <2>2. todo'[Len(todo')].hi = end'
        BY <1>2, <1>6, <1>7
    <2> QED
        BY <1>8, <2>1, <2>2, Zenon DEF NodeOpen, first, end
<1> QED
    BY <1>4, <1>9, Zenon DEF PlanInv

\* The first subrange is written: what remains begins where it ends.
LEMMA RestOfTodo ==
    ASSUME TypeInv, Adjacent, todo # <<>>, todo' = Tail(todo)
    PROVE  /\ Len(todo') = Len(todo) - 1
           /\ todo' # <<>> => /\ todo'[1].lo = Head(todo).hi
                              /\ todo'[Len(todo')] = todo[Len(todo)]
           /\ todo' = <<>> => Head(todo) = todo[Len(todo)]
<1> USE DEF TypeInv, TypeOK
<1>1. /\ Head(todo) = todo[1] /\ Len(todo) \in Nat /\ Len(todo) > 0
      /\ todo' \in Seq(Subranges)
      /\ Len(todo') = Len(todo) - 1
      /\ \A i \in 1..Len(todo') : todo'[i] = todo[i + 1]
    BY FirstOfTodo, HeadOfTodo
<1>2. ASSUME todo' # <<>>
      PROVE  todo'[1].lo = Head(todo).hi /\ todo'[Len(todo')] = todo[Len(todo)]
    <2>1. Len(todo') \in Nat /\ Len(todo') # 0
        BY <1>1, <1>2
    <2>2. /\ 1 \in 1..Len(todo') /\ 1 \in 1..(Len(todo) - 1)
          /\ Len(todo') \in 1..Len(todo') /\ Len(todo') + 1 = Len(todo)
        BY <1>1, <2>1, SMT
    <2>3. /\ todo'[1] = todo[1 + 1] /\ todo[1].hi = todo[1 + 1].lo
          /\ todo'[Len(todo')] = todo[Len(todo') + 1]
        BY <1>1, <2>2 DEF Adjacent
    <2> QED
        BY <1>1, <2>2, <2>3
<1>3. ASSUME todo' = <<>> PROVE Len(todo) = 1
    <2>1. Len(todo') = Len(<<>>)
        BY <1>3, Zenon
    <2>2. Len(<<>>) = 0
        OBVIOUS
    <2>3. Len(todo') = 0
        BY <2>1, <2>2, Zenon
    <2> QED
        BY <1>1, <2>3, SMT
<1> QED
    BY <1>1, <1>2, <1>3

\* A leaf that announces its pack stands for the first subrange.
LEMMA WriteLeafPlan ==
    ASSUME TypeInv, Adjacent, NodeOpen, todo # <<>>,
           NEW token \in Tokens, NEW bytes, WriteLeaf(token, bytes),
           token.kind \in {"piece", "group"},
           token.count = Head(todo).hi - Head(todo).lo,
           token.len = SpanLen(token.pack.data), token.method = MethodOf(token.pack)
    PROVE  NodeOpen'
<1> USE DEF TypeInv, TypeOK
<1> DEFINE e == Head(todo)
           first == BlockFirst(Len(blocks))
           end == BlockEnd(Len(blocks))
           n == Len(todo)
<1>1. /\ e = todo[1] /\ n \in Nat /\ n > 0
      /\ e.lo \in Nat /\ e.hi \in Nat /\ e.lo < e.hi
    BY FirstOfTodo, HeadOfTodo
<1>2. /\ todo' = Tail(todo) /\ node' = Append(node, token)
      /\ UNCHANGED <<payload, writes, job, blocks>>
    BY DEF WriteLeaf
<1>3. /\ Len(todo') = n - 1
      /\ todo' # <<>> => todo'[1].lo = e.hi /\ todo'[Len(todo')] = todo[n]
      /\ todo' = <<>> => e = todo[n]
    BY <1>2, RestOfTodo
<1>4. /\ SoundTokens(node, HasPayload, job.size)
      /\ todo[n].hi = end
      /\ WalksTo(node, first, n, e.lo)
    BY <1>1 DEF NodeOpen
<1>5. node \in Seq(Tokens) /\ first \in Nat
    <2>1. first \in Nat
        BY OptsType, SMT DEF BlockFirst, WriterTypeOK
    <2> QED
        BY <2>1 DEF WriterTypeOK
<1>6. TokenCount(token) = e.hi - e.lo /\ Children(token) = 0
    BY SMT DEF TokenCount, Children
<1>7. SoundToken(token, HasPayload, job.size)
    BY SMT DEF SoundToken
<1>8. SoundTokens(node', HasPayload, job.size)
    BY <1>2, <1>4, <1>5, <1>7, SoundAppend
<1>9. first' = first /\ end' = end /\ HasPayload' = HasPayload
    BY <1>2, PlanKept
<1> HIDE DEF e, first, end, n
<1>10. WalksTo(node', first, n - 1 + 0, e.lo + (e.hi - e.lo))
    <2>1. WalksTo(Append(node, token), first, n - 1 + Children(token),
                  e.lo + TokenCount(token))
        BY <1>1, <1>4, <1>5, WalkedAppend
    <2> QED
        BY <1>2, <1>6, <2>1
<1>11. n - 1 + 0 = n - 1 /\ e.lo + (e.hi - e.lo) = e.hi
    BY <1>1, SMT
<1>12. WalksTo(node', first, Len(todo'), e.hi)
    BY <1>3, <1>10, <1>11
<1>13. e.hi = (IF todo' = <<>> THEN end ELSE todo'[1].lo)
    BY <1>3, <1>4
<1>14. todo' # <<>> => todo'[Len(todo')].hi = end
    BY <1>3, <1>4
<1>15. WalksTo(node', first', Len(todo'), IF todo' = <<>> THEN end' ELSE todo'[1].lo)
    BY <1>9, <1>12, <1>13
<1>16. todo' # <<>> => todo'[Len(todo')].hi = end'
    BY <1>9, <1>14
<1>17. SoundTokens(node', HasPayload', job'.size)
    BY <1>2, <1>8, <1>9
<1> QED
    BY <1>15, <1>16, <1>17, Zenon DEF NodeOpen, first, end

\* The whole blocks stay what they are while a node is written.
LEMMA NodeKeepsPlan ==
    ASSUME PlanInv, wpc = "node", wpc' = "node",
           UNCHANGED <<payload, writes, job, blocks>>, NodeOpen'
    PROVE  PlanInv'
<1>1. WholeBlocks(blocks, HasPayload, job.size, opts.chunk_size)
    BY SMT DEF PlanInv
<1>2. WholeBlocks(blocks, HasPayload, job.size, opts.chunk_size)'
    BY <1>1, PlanKept, Zenon
<1> QED
    BY <1>2, Zenon DEF PlanInv

LEMMA WritePiecePlan ==
    ASSUME TypeInv, WriterInv, PlanInv, WritePiece
    PROVE  PlanInv'
<1> USE DEF TypeInv, TypeOK
<1> DEFINE e == Head(todo)
           len == SpanLen(Range(e.lo, e.hi))
<1>1. wpc = "node" /\ todo # <<>> /\ e.hi - e.lo = 1
    BY DEF WritePiece
<1>2. PICK p \in RangePacks(e) : WriteLeaf(PieceToken(len, p), PieceBytes)
    BY Zenon DEF WritePiece
<1>3. e \in Subranges /\ e.lo \in Nat /\ e.hi \in Nat /\ e.lo < e.hi
    BY <1>1, HeadOfTodo
<1>4. len \in Nat
    BY <1>3, RangeType, SMT
<1>5. p \in Packs /\ p.data = Range(e.lo, e.hi)
    BY <1>2, <1>3, RangePacksType
<1>6. PieceToken(len, p) \in Tokens
    <2>1. 1 \in Nat
        OBVIOUS
    <2> QED
        BY <1>4, <1>5, <2>1, LeafTokenType
<1>7. /\ PieceToken(len, p).kind = "piece" /\ PieceToken(len, p).count = 1
      /\ PieceToken(len, p).pack = p /\ PieceToken(len, p).len = SpanLen(p.data)
      /\ PieceToken(len, p).method = MethodOf(p)
    BY <1>5 DEF PieceToken
<1>8. Adjacent /\ NodeOpen
    BY <1>1, SMT DEF WriterInv, PlanInv
<1> HIDE DEF len
<1>9. NodeOpen'
    BY <1>1, <1>2, <1>6, <1>7, <1>8, WriteLeafPlan
<1>10. wpc' = "node" /\ UNCHANGED <<payload, writes, job, blocks>>
    BY <1>1, <1>2 DEF WriteLeaf
<1> QED
    BY <1>1, <1>9, <1>10, NodeKeepsPlan

LEMMA WriteGroupPlan ==
    ASSUME TypeInv, WriterInv, PlanInv, WriteGroup
    PROVE  PlanInv'
<1> USE DEF TypeInv, TypeOK
<1> DEFINE e == Head(todo)
           n == e.hi - e.lo
           len == SpanLen(Range(e.lo, e.hi))
<1>1. wpc = "node" /\ todo # <<>>
    BY DEF WriteGroup
<1>2. PICK p \in RangePacks(e) : WriteLeaf(GroupToken(n, len, p), GroupBytes)
    BY Zenon DEF WriteGroup
<1>3. e \in Subranges /\ e.lo \in Nat /\ e.hi \in Nat /\ e.lo < e.hi
    BY <1>1, HeadOfTodo
<1>4. len \in Nat /\ n \in Nat
    BY <1>3, RangeType, SMT
<1>5. p \in Packs /\ p.data = Range(e.lo, e.hi)
    BY <1>2, <1>3, RangePacksType
<1>6. GroupToken(n, len, p) \in Tokens
    BY <1>4, <1>5, LeafTokenType
<1>7. /\ GroupToken(n, len, p).kind = "group" /\ GroupToken(n, len, p).count = n
      /\ GroupToken(n, len, p).pack = p /\ GroupToken(n, len, p).len = SpanLen(p.data)
      /\ GroupToken(n, len, p).method = MethodOf(p)
    BY <1>5 DEF GroupToken
<1>8. Adjacent /\ NodeOpen
    BY <1>1, SMT DEF WriterInv, PlanInv
<1> HIDE DEF len
<1>9. NodeOpen'
    BY <1>1, <1>2, <1>6, <1>7, <1>8, WriteLeafPlan
<1>10. wpc' = "node" /\ UNCHANGED <<payload, writes, job, blocks>>
    BY <1>1, <1>2 DEF WriteLeaf
<1> QED
    BY <1>1, <1>9, <1>10, NodeKeepsPlan

\* A split puts two subranges in the place of the first one.
LEMMA SplitOfTodo ==
    ASSUME TypeInv, WriteSplit
    PROVE  /\ todo' # <<>> /\ Len(todo') = Len(todo) + 1
           /\ todo'[1].lo = Head(todo).lo
           /\ todo'[Len(todo')].hi = todo[Len(todo)].hi
<1> USE DEF TypeInv, TypeOK
<1> DEFINE e == Head(todo)
           larger(mid) == SpanLen(Range(e.lo, mid)) >= SpanLen(Range(mid, e.hi))
           l(mid) == [lo |-> e.lo, hi |-> mid, depth |-> ChildDepth(e.depth),
                      root |-> FALSE, main |-> e.main /\ larger(mid)]
           r(mid) == [lo |-> mid, hi |-> e.hi, depth |-> ChildDepth(e.depth),
                      root |-> FALSE, main |-> e.main /\ ~larger(mid)]
<1>1. PICK mid \in SplitPoints(job.profile, e.lo, e.hi) :
          todo' = <<l(mid), r(mid)>> \o Tail(todo)
    BY DEF WriteSplit
<1>2. l(mid).lo = e.lo /\ r(mid).hi = e.hi
    OBVIOUS
<1> HIDE DEF l, r
<1>3. PICK left, right : /\ todo' = <<left, right>> \o Tail(todo)
                         /\ left.lo = e.lo /\ right.hi = e.hi
    BY <1>1, <1>2
<1>4. /\ e = todo[1] /\ Len(todo) \in Nat /\ Len(todo) > 0
      /\ Tail(todo) \in Seq(Subranges) /\ Len(Tail(todo)) = Len(todo) - 1
      /\ \A i \in 1..Len(Tail(todo)) : Tail(todo)[i] = todo[i + 1]
    <2>1. todo # <<>>
        BY DEF WriteSplit
    <2> QED
        BY <2>1, HeadOfTodo, FirstOfTodo
<1> HIDE DEF e
<1>5. /\ Len(todo') = 2 + Len(Tail(todo)) /\ todo'[1] = left /\ todo'[2] = right
      /\ \A i \in 1..Len(Tail(todo)) : todo'[i + 2] = Tail(todo)[i]
    <2> DEFINE S == Subranges \cup {left, right}
    <2>1. Tail(todo) \in Seq(S)
        BY <1>4
    <2>2. /\ <<left, right>> \in Seq(S) /\ Len(<<left, right>>) = 2
          /\ <<left, right>>[1] = left /\ <<left, right>>[2] = right
        OBVIOUS
    <2> HIDE DEF S
    <2> QED
        BY <1>3, <2>1, <2>2
<1>6. Len(todo') = Len(todo) + 1
    BY <1>4, <1>5, SMT
<1>7. todo' # <<>>
    <2>1. Len(<<>>) = 0
        OBVIOUS
    <2> QED
        BY <1>4, <1>6, <2>1, SMT
<1>8. todo'[Len(todo')].hi = todo[Len(todo)].hi
    <2>1. CASE Len(todo) = 1
        <3>1. Len(todo') = 2
            BY <1>6, <2>1, SMT
        <3> QED
            BY <1>3, <1>4, <1>5, <2>1, <3>1
    <2>2. CASE Len(todo) # 1
        <3> DEFINE i == Len(Tail(todo))
        <3>1. i \in 1..Len(Tail(todo)) /\ i + 2 = Len(todo') /\ i + 1 = Len(todo)
            BY <1>4, <1>6, <2>2, SMT
        <3> HIDE DEF i
        <3>2. todo'[i + 2] = Tail(todo)[i] /\ Tail(todo)[i] = todo[i + 1]
            BY <1>4, <1>5, <3>1, Zenon
        <3> QED
            BY <3>1, <3>2
    <2> QED
        BY <2>1, <2>2
<1> QED
    BY <1>3, <1>5, <1>6, <1>7, <1>8 DEF e

LEMMA WriteSplitPlan ==
    ASSUME TypeInv, WriterInv, PlanInv, WriteSplit
    PROVE  PlanInv'
<1> USE DEF TypeInv, TypeOK
<1> DEFINE e == Head(todo)
           t == SplitToken(e.depth)
           first == BlockFirst(Len(blocks))
           end == BlockEnd(Len(blocks))
           n == Len(todo)
<1>1. /\ todo # <<>> /\ wpc = "node" /\ wpc' = "node" /\ node' = Append(node, t)
      /\ UNCHANGED <<payload, writes, job, blocks>>
    BY DEF WriteSplit
<1>2. /\ e = todo[1] /\ n \in Nat /\ n > 0 /\ e.lo \in Nat /\ e \in Subranges
    BY <1>1, FirstOfTodo, HeadOfTodo
<1>3. /\ todo' # <<>> /\ Len(todo') = n + 1
      /\ todo'[1].lo = e.lo /\ todo'[Len(todo')].hi = todo[n].hi
    BY SplitOfTodo
<1>4. /\ SoundTokens(node, HasPayload, job.size)
      /\ todo[n].hi = end
      /\ WalksTo(node, first, n, e.lo)
    BY <1>1, <1>2, SMT DEF PlanInv, NodeOpen
<1>5. node \in Seq(Tokens) /\ first \in Nat /\ t \in Tokens
    <2>1. first \in Nat
        BY OptsType, SMT DEF BlockFirst, WriterTypeOK
    <2>2. t \in Tokens
        BY <1>2, InnerTokenType DEF Subranges
    <2> QED
        BY <2>1, <2>2 DEF WriterTypeOK
<1>6. TokenCount(t) = 0 /\ Children(t) = 2
    BY SMT DEF TokenCount, Children, SplitToken
<1>7. SoundToken(t, HasPayload, job.size)
    BY SMT DEF SoundToken, SplitToken
<1> HIDE DEF t
<1>8. SoundTokens(node', HasPayload, job.size)
    BY <1>1, <1>4, <1>5, <1>7, SoundAppend
<1>9. first' = first /\ end' = end /\ HasPayload' = HasPayload
    BY <1>1, PlanKept
<1> HIDE DEF e, first, end, n
<1>10. WalksTo(node', first, n - 1 + 2, e.lo + 0)
    <2>1. WalksTo(Append(node, t), first, n - 1 + Children(t), e.lo + TokenCount(t))
        BY <1>2, <1>4, <1>5, WalkedAppend
    <2> QED
        BY <1>1, <1>6, <2>1
<1>11. n - 1 + 2 = n + 1 /\ e.lo + 0 = e.lo
    BY <1>2, SMT
<1>12. WalksTo(node', first', Len(todo'), IF todo' = <<>> THEN end' ELSE todo'[1].lo)
    <2>1. WalksTo(node', first, Len(todo'), todo'[1].lo)
        BY <1>3, <1>10, <1>11
    <2> QED
        BY <1>3, <1>9, <2>1, Zenon
<1>13. todo'[Len(todo')].hi = end'
    BY <1>3, <1>4, <1>9
<1>14. SoundTokens(node', HasPayload', job'.size)
    BY <1>1, <1>8, <1>9
<1>15. NodeOpen'
    BY <1>12, <1>13, <1>14, Zenon DEF NodeOpen, first, end
<1> QED
    BY <1>1, <1>15, NodeKeepsPlan

LEMMA EndBlockPlan ==
    ASSUME TypeInv, Bounds, PlanInv, EndBlock
    PROVE  PlanInv'
<1> USE DEF TypeInv, TypeOK
<1> DEFINE i == Len(blocks)
           first == BlockFirst(i)
           end == BlockEnd(i)
<1>1. /\ ValidOptions(opts) /\ i \in Nat /\ i < jobBlocks /\ wpc = "node"
      /\ wpc' = "block" /\ todo = <<>> /\ blocks \in Seq(Blocks)
      /\ UNCHANGED <<payload, writes, job>>
    BY DEF EndBlock, Working, WriterTypeOK, Bounds, BlocksInRange
<1>2. /\ WholeBlocks(blocks, HasPayload, job.size, opts.chunk_size)
      /\ SoundTokens(node, HasPayload, job.size)
      /\ WalksTo(node, first, Len(todo), end)
    BY <1>1, Zenon DEF PlanInv, NodeOpen
<1>3. Len(todo) = 0
    <2>1. Len(<<>>) = 0
        OBVIOUS
    <2> QED
        BY <1>1, <2>1, Zenon
<1>4. PICK tokens : /\ blocks' = Append(blocks, BlockRecord(i, tokens))
                    /\ WholeNode(tokens, HasPayload, job.size, first, end)
    <2>1. CASE Shared /\ SliceBytes <= encoded
        <3>1. HasPayload
            BY <2>1 DEF HasPayload
        <3>2. WholeNode(<<BlockSlice(i)>>, HasPayload, job.size, first, end)
            BY <1>1, <3>1, SliceWhole
        <3>3. blocks' = Append(blocks, BlockRecord(i, <<BlockSlice(i)>>))
            BY <2>1, Zenon DEF EndBlock
        <3> QED
            BY <3>2, <3>3
    <2>2. CASE ~(Shared /\ SliceBytes <= encoded)
        <3>1. blocks' = Append(blocks, BlockRecord(i, node))
            BY <2>2, Zenon DEF EndBlock
        <3>2. WholeNode(node, HasPayload, job.size, first, end)
            BY <1>2, <1>3, Zenon DEF WholeNode
        <3> QED
            BY <3>1, <3>2
    <2> QED
        BY <2>1, <2>2
<1> DEFINE b == BlockRecord(i, tokens)
<1>5. WholeBlock(b, HasPayload, job.size, opts.chunk_size)
    BY <1>1, <1>4, RecordWhole
<1> HIDE DEF b
<1>6. WholeBlocks(blocks', HasPayload, job.size, opts.chunk_size)
    BY <1>1, <1>2, <1>4, <1>5, WholeAppend DEF b
<1>7. WholeBlocks(blocks, HasPayload, job.size, opts.chunk_size)'
    BY <1>1, <1>6, PlanKept, Zenon
<1> QED
    BY <1>1, <1>7, SMT DEF PlanInv

----------------------------------------------------------------------------
(* Whole archives on disk and in the hands of a reader.                    *)

WholeArchive(arc) ==
    /\ Len(arc.blocks) = arc.block_count
    /\ WholeBlocks(arc.blocks, HasGlobal(arc), arc.original_size, arc.chunk_size)

\* What a reader has of one write are records of a whole archive.
ReadWhole == last = asked => WholeArchive(rd.arc)

\* The nodes still to be read are those that are still to come, and the chunks read
\* so far end where the next node begins.
NodeWalk ==
    \E open, pos :
        /\ Walked(Block.node, Block.first, open, pos)
        /\ open[Len(Block.node)] = 0
        /\ pos[Len(Block.node)] = Block.first + Block.count
        /\ tok <= Len(Block.node) /\ need = open[tok]
        /\ Block.first + count = pos[tok]

\* A reader at work has passed the checks of the header and did not miss its start.
Reading ==
    AtWork =>
        /\ HeaderOK(rd)
        /\ bi <= rd.arc.block_count
        /\ ~started => key # WholeInput /\ bi * rd.arc.key_piece_interval <= key
        /\ rpc = "node" => NodeWalk

CompleteInv ==
    /\ PlanInv
    /\ WholeArchive(disk.arc) /\ ReadWhole
    /\ Reading
    /\ ReadFailsOnlyForKnownReasons

\* Why a call to the reader may fail.
KnownReason ==
    \/ last # asked
    \/ rd.have < Records(rd.arc)
    \/ asked.size > MaxOutput
    \/ ~Promise!StartsKeyPiece(asked, key)
    \/ \E i \in DOMAIN rd.arc.blocks :
           /\ key = WholeInput \/ rd.arc.blocks[i].first >= key
           /\ BitPacked(rd.arc.blocks[i])

LEMMA RecordsMissing ==
    ASSUME TypeInv, Bounds, rd.have # Records(rd.arc)
    PROVE  KnownReason
<1>1. rd.have \in Nat /\ Records(rd.arc) \in Nat
    BY RecordsType DEF TypeInv, TypeOK, ReaderTypeOK
<1>2. rd.have < Records(rd.arc)
    BY <1>1, SMT DEF Bounds, HaveBounded
<1> QED
    BY <1>2 DEF KnownReason

LEMMA CreateWhole ==
    ASSUME TypeInv, WriterInv, PlanInv, Create
    PROVE  PlanInv' /\ WholeArchive(disk.arc)'
<1>1. wpc = "block" /\ wpc' = "save" /\ Len(blocks) = jobBlocks
    BY DEF Create
<1>2. disk'.arc = Archive
    BY DEF Create
<1>3. /\ Archive.blocks = blocks /\ Archive.block_count = jobBlocks
      /\ Archive.original_size = job.size /\ Archive.chunk_size = opts.chunk_size
    BY DEF Archive
<1>4. WholeBlocks(blocks, HasPayload, job.size, opts.chunk_size)
    BY <1>1, SMT DEF PlanInv
<1>5. WholeArchive(Archive)
    <2>1. HasGlobal(Archive) = HasPayload
        <3>1. Archive.wide = opts.wide_overfitting_circuits /\ Archive.shared = Shared
            BY DEF Archive
        <3> QED
            BY <3>1, Zenon DEF HasGlobal, HasPayload
    <2> QED
        BY <1>1, <1>3, <1>4, <2>1, Zenon DEF WholeArchive
<1> QED
    BY <1>1, <1>2, <1>5, SMT DEF PlanInv

LEMMA NothingWhole == WholeArchive(NoArchive)
<1>1. NoArchive.blocks = <<>> /\ NoArchive.block_count = 0
    BY DEF NoArchive
<1>2. Len(<<>>) = 0 /\ 1..0 = {}
    BY SMT
<1> QED
    BY <1>1, <1>2, Zenon DEF WholeArchive, WholeBlocks

\* Chunk k begins inside the input exactly if it is one of its chunks.
LEMMA ChunkInside ==
    ASSUME NEW size \in Nat, NEW cs \in Nat \ {0}, NEW k \in Nat, k * cs < size
    PROVE  k < ChunkCount(size, cs)
<1>1. k * cs \in Nat
    BY SMT
<1>2. size # 0 /\ ChunkCount(size, cs) = CeilDiv(size, cs)
    BY <1>1, SMT DEF ChunkCount
<1>3. CeilDiv(size, cs) \in Nat /\ size <= CeilDiv(size, cs) * cs
    BY CeilDivBounds
<1> DEFINE q == CeilDiv(size, cs)
<1> HIDE DEF q
<1>4. q \in Nat /\ size <= q * cs
    BY <1>3 DEF q
<1>5. ASSUME q <= k PROVE FALSE
    <2>1. q * cs <= k * cs /\ q * cs \in Nat
        BY <1>4, <1>5, ProductMonotone, SMT
    <2> QED
        BY <1>1, <1>4, <2>1, SMT
<1>6. k < q
    BY <1>4, <1>5, SMT
<1> QED
    BY <1>2, <1>6 DEF q

\* The header of a complete archive is accepted, and so is every start point that is
\* a key piece of it.
LEMMA HeadAccepted ==
    ASSUME TypeInv, Held, last = asked, rd.have = Records(rd.arc),
           asked.size <= MaxOutput, Promise!StartsKeyPiece(asked, key)
    PROVE  HeaderOK(rd) /\ PayloadOK(rd) /\ KeyOK(rd.arc, key)
<1> USE DEF TypeInv, TypeOK
<1> DEFINE a == rd.arc
           size == a.original_size
           cs == a.chunk_size
           interval == a.key_piece_interval
<1>1. /\ size \in Nat /\ cs \in Nat /\ interval \in Nat /\ a.total_chunks \in Nat
      /\ Len(a.blocks) \in Nat /\ key \in Nat \cup {WholeInput}
    BY DEF ReaderTypeOK, Archives
<1>2. rd.have >= 1 /\ rd.have # 0 /\ (HasGlobal(a) => rd.have >= 2)
    <2>1. Records(a) >= 1 /\ (HasGlobal(a) => Records(a) >= 2)
        <3>1. Preamble(a) \in {1, 2} /\ (HasGlobal(a) => Preamble(a) = 2)
            BY Zenon DEF Preamble
        <3> QED
            BY <1>1, <3>1, SMT DEF Records
    <2> QED
        BY <2>1, SMT
<1>3. PICK src : Holds(rd, asked, src)
    BY <1>2 DEF Held
<1>4. /\ src \in Nat \ {0} /\ cs # 0 /\ interval # 0
      /\ a.total_chunks = ChunkCount(size, cs)
      /\ a.block_count = BlockCount(a.total_chunks, interval)
      /\ HasGlobal(a) => a.payload.data = Span(src, 0, size)
    BY <1>3 DEF Holds, ArchiveLaid
<1>5. asked.size = size /\ asked.chunk_size = cs /\ asked.key_piece_interval = interval
    BY <1>3 DEF Holds, InputOf
<1>6. HeaderOK(rd)
    BY <1>1, <1>2, <1>4, <1>5, SMT DEF HeaderOK
<1>7. PayloadOK(rd)
    <2>1. SpanLen(Span(src, 0, size)) = size
        BY <1>1, SMT DEF SpanLen, Span, EmptySpan
    <2> QED
        BY <1>2, <1>4, <1>5, <2>1 DEF PayloadOK, Unpacks
<1>8. KeyOK(a, key)
    <2>1. CASE key = WholeInput
        BY <2>1 DEF KeyOK
    <2>2. CASE key # WholeInput
        <3>1. key \in Nat /\ key * cs < size /\ key % interval = 0
            BY <1>1, <1>5, <2>2 DEF Promise!StartsKeyPiece
        <3>2. cs \in Nat \ {0}
            BY <1>1, <1>4
        <3> HIDE DEF a, size, cs, interval
        <3>3. key < ChunkCount(size, cs)
            BY <1>1, <3>1, <3>2, ChunkInside
        <3> QED
            BY <1>4, <2>2, <3>1, <3>3 DEF KeyOK, interval
    <2> QED
        BY <2>1, <2>2
<1> QED
    BY <1>6, <1>7, <1>8

----------------------------------------------------------------------------
(* Each step of the reader succeeds, or fails for a known reason.          *)

LEMMA FailCompletes ==
    ASSUME KnownReason, Fail
    PROVE  Reading' /\ ReadFailsOnlyForKnownReasons'
<1>1. UNCHANGED <<rd, asked, last, key>> /\ rpc' = "idle"
    BY DEF Fail
<1>2. Reading'
    BY <1>1 DEF Reading, AtWork
<1>3. KnownReason'
    BY <1>1, Zenon DEF KnownReason
<1> QED
    BY <1>2, <1>3, Zenon DEF KnownReason, ReadFailsOnlyForKnownReasons

LEMMA ReasonKept ==
    ASSUME ReadFailsOnlyForKnownReasons, UNCHANGED <<rd, asked, last, key, result>>
    PROVE  ReadFailsOnlyForKnownReasons'
BY Zenon DEF ReadFailsOnlyForKnownReasons

\* Bytes of several writes are a reason to fail.
LEMMA MixedCompletes ==
    ASSUME last' # asked'
    PROVE  Reading' /\ ReadFailsOnlyForKnownReasons'
BY Zenon DEF Reading, AtWork, ReadFailsOnlyForKnownReasons

LEMMA ReadHeadCompletes ==
    ASSUME TypeInv, Bounds, Held, AtStart, ReadFailsOnlyForKnownReasons, ReadHead,
           last = asked
    PROVE  Reading' /\ ReadFailsOnlyForKnownReasons'
<1>1. rpc = "head"
    BY DEF ReadHead
<1>2. bi = 0 /\ started = (key = WholeInput)
    BY <1>1 DEF AtStart
<1>3. CASE HeaderOK(rd) /\ PayloadOK(rd) /\ KeyOK(rd.arc, key)
    <2>1. rpc' = "block" /\ UNCHANGED <<rd, asked, last, key, bi, started, result>>
        BY <1>3, Zenon DEF ReadHead
    <2>2. /\ rd.arc.key_piece_interval \in Nat /\ rd.arc.block_count \in Nat
          /\ key \in Nat \cup {WholeInput}
        BY DEF TypeInv, TypeOK, ReaderTypeOK, Archives
    <2>3. HeaderOK(rd)' /\ bi' <= rd'.arc.block_count
        <3>1. bi' <= rd'.arc.block_count
            BY <1>2, <2>1, <2>2, SMT
        <3> QED
            BY <1>3, <2>1, <3>1, Zenon
    <2>4. ~started' => key' # WholeInput /\ bi' * rd'.arc.key_piece_interval <= key'
        <3>1. ~started' => key' # WholeInput /\ key' \in Nat
            BY <1>2, <2>1, <2>2
        <3>2. bi' * rd'.arc.key_piece_interval = 0
            BY <1>2, <2>1, <2>2, SMT
        <3> QED
            BY <3>1, <3>2, SMT
    <2>5. Reading'
        <3>1. rpc' # "node"
            BY <2>1
        <3> QED
            BY <2>3, <2>4, <3>1, Zenon DEF Reading
    <2> QED
        BY <2>1, <2>5, ReasonKept
<1>4. CASE ~(HeaderOK(rd) /\ PayloadOK(rd) /\ KeyOK(rd.arc, key))
    <2>1. Fail
        BY <1>4, Zenon DEF ReadHead
    <2>2. KnownReason
        <3>1. CASE rd.have # Records(rd.arc)
            BY <3>1, RecordsMissing
        <3>2. CASE rd.have = Records(rd.arc)
            <4>1. \/ ~(asked.size <= MaxOutput)
                  \/ ~Promise!StartsKeyPiece(asked, key)
                BY <1>4, <3>2, HeadAccepted
            <4>2. asked.size \in Nat /\ MaxOutput \in Nat
                <5>1. Records(rd.arc) # 0
                    <6>1. Preamble(rd.arc) \in {1, 2} /\ Len(rd.arc.blocks) \in Nat
                        BY RecordsType DEF TypeInv, TypeOK, ReaderTypeOK
                    <6> QED
                        BY <6>1, SMT DEF Records
                <5>2. asked # Nothing
                    BY <3>2, <5>1 DEF Held
                <5> QED
                    BY <5>2, ConstantsAssumption DEF ConstantsAssumption, TypeInv, TypeOK,
                       ReaderTypeOK, Promise!Contents
            <4>3. asked.size > MaxOutput \/ ~Promise!StartsKeyPiece(asked, key)
                BY <4>1, <4>2, SMT
            <4> QED
                BY <4>3 DEF KnownReason
        <3> QED
            BY <3>1, <3>2
    <2> QED
        BY <2>1, <2>2, FailCompletes
<1> QED
    BY <1>3, <1>4

\* No run of chunks is longer than the input they are read from, and its length does
\* not depend on which input that is.
LEMMA ReadSpanLength ==
    ASSUME TypeInv, ReaderInv, AtWork, NEW src \in Nat, NEW c \in Nat, NEW n \in Nat
    PROVE  /\ SpanLen(ReadSpan(src, c, n)) = SpanLen(ReadSpan(1, c, n))
           /\ SpanLen(ReadSpan(src, c, n)) <= rd.arc.original_size
<1>1. \A s, size, cs \in Nat :
          /\ SpanLen(ChunkSpan(s, size, cs, c, n)) = ChunkLen(size, cs, c, n)
          /\ ChunkLen(size, cs, c, n) <= size
    BY ChunkSpanLength
<1>2. rd.arc.original_size \in Nat /\ rd.arc.chunk_size \in Nat /\ 1 \in Nat
    <2>1. rd.arc.original_size \in Nat /\ rd.arc.chunk_size \in Nat \ {0}
        BY ReaderAtWork
    <2> QED
        BY <2>1
<1> DEFINE length == ChunkLen(rd.arc.original_size, rd.arc.chunk_size, c, n)
<1>3. /\ SpanLen(ReadSpan(src, c, n)) = length /\ SpanLen(ReadSpan(1, c, n)) = length
      /\ length <= rd.arc.original_size
    BY <1>1, <1>2, Zenon DEF ReadSpan
<1> QED
    BY <1>3, Zenon

\* The block at hand is whole.
LEMMA WholeRead ==
    ASSUME TypeInv, WholeArchive(rd.arc), bi < rd.arc.block_count
    PROVE  /\ bi < Len(rd.arc.blocks)
           /\ bi + 1 \in DOMAIN rd.arc.blocks
           /\ WholeBlock(Block, HasGlobal(rd.arc), rd.arc.original_size,
                         rd.arc.chunk_size)
<1>1. rd.arc.blocks \in Seq(Blocks) /\ bi \in Nat
    BY DEF TypeInv, TypeOK, ReaderTypeOK, Archives
<1>2. /\ Len(rd.arc.blocks) = rd.arc.block_count
      /\ WholeBlocks(rd.arc.blocks, HasGlobal(rd.arc), rd.arc.original_size,
                     rd.arc.chunk_size)
    BY DEF WholeArchive
<1>3. bi + 1 \in 1..Len(rd.arc.blocks) /\ bi < Len(rd.arc.blocks)
    BY <1>1, <1>2, SMT
<1>4. DOMAIN rd.arc.blocks = 1..Len(rd.arc.blocks)
    BY <1>1
<1> QED
    BY <1>2, <1>3, <1>4, Zenon DEF WholeBlocks, Block

\* A record of a complete archive is there, and has the place and the length the
\* reader expects.
LEMMA BlockAccepted ==
    ASSUME TypeInv, ReaderInv, WholeArchive(rd.arc), last = asked, rpc = "block",
           bi < rd.arc.block_count, rd.have = Records(rd.arc)
    PROVE  BlockOK
<1> DEFINE a == rd.arc
           interval == a.key_piece_interval
           total == a.total_chunks
           first == bi * interval
<1>1. AtWork
    BY DEF AtWork
<1>2. /\ bi \in Nat /\ interval \in Nat \ {0} /\ total \in Nat /\ first \in Nat
    BY <1>1, ReaderAtWork
<1>3. PICK src : Holds(rd, asked, src)
    BY <1>1 DEF ReaderInv
<1>4. /\ bi < Len(a.blocks)
      /\ WholeBlock(Block, HasGlobal(a), a.original_size, a.chunk_size)
    BY WholeRead
<1>5. /\ Block.first = first
      /\ Block.count = Lesser(first + interval, total) - first
      /\ Block \in Blocks
    BY <1>1, <1>3, <1>4, BlockPlace
<1>6. first < total
    <2>1. bi < BlockCount(total, interval)
        BY <1>3 DEF Holds, ArchiveLaid
    <2> HIDE DEF total, interval
    <2>2. bi < CeilDiv(total, interval)
        BY <1>2, <2>1, SMT DEF BlockCount
    <2> QED
        BY <1>2, <2>2, BelowCeilDiv
<1>7. Block.count > 0 /\ Block.first + Block.count <= total
    <2> DEFINE end == Lesser(first + interval, total)
    <2> HIDE DEF first, interval, total
    <2>1. end \in Nat /\ first < end /\ end <= total
        BY <1>2, <1>6, SMT DEF Lesser
    <2>2. Block.first = first /\ Block.count = end - first
        BY <1>5
    <2> HIDE DEF end
    <2>3. end - first > 0 /\ first + (end - first) <= total
        BY <1>2, <2>1, SMT
    <2> QED
        BY <2>2, <2>3
<1>8. Preamble(a) + bi + 1 <= rd.have
    <2>1. rd.have = Preamble(a) + Len(a.blocks)
        BY DEF Records
    <2>2. Preamble(a) \in {1, 2} /\ Len(a.blocks) \in Nat
        <3>1. Preamble(a) \in {1, 2}
            BY Zenon DEF Preamble
        <3>2. Len(a.blocks) \in Nat
            BY DEF TypeInv, TypeOK, ReaderTypeOK, Archives
        <3> QED
            BY <3>1, <3>2
    <2> HIDE DEF a
    <2> QED
        BY <1>2, <1>4, <2>1, <2>2, SMT
<1>9. Block.len = SpanLen(ChunkSpan(1, a.original_size, a.chunk_size,
                                    Block.first, Block.count))
    BY <1>4 DEF WholeBlock
<1> QED
    BY <1>5, <1>7, <1>8, <1>9, Zenon DEF BlockOK

\* A multiple of d above another one is at least the next one.
LEMMA MultipleAbove ==
    ASSUME NEW i \in Nat, NEW d \in Nat \ {0}, NEW k \in Nat, k % d = 0,
           i * d <= k, i * d # k
    PROVE  (i + 1) * d <= k
<1> DEFINE q == k \div d
<1>1. q \in Nat /\ k = q * d
    <2> DEFINE r == k % d
    <2>1. q \in Nat /\ r \in 0..(d - 1) /\ k = d * q + r /\ r = 0
        BY SMT
    <2> HIDE DEF q, r
    <2>2. q \in Nat /\ k = d * q + 0
        BY <2>1
    <2>3. d * q + 0 = q * d
        BY <2>2, SMT
    <2> QED
        BY <2>2, <2>3
<1> HIDE DEF q
<1>2. ASSUME q <= i PROVE FALSE
    <2>1. q * d <= i * d
        BY <1>1, <1>2, ProductMonotone
    <2>2. i * d \in Nat /\ q * d \in Nat
        BY <1>1, SMT
    <2> QED
        BY <1>1, <2>1, <2>2, SMT
<1>3. i + 1 \in Nat /\ i + 1 <= q
    BY <1>1, <1>2, SMT
<1> QED
    BY <1>1, <1>3, ProductMonotone

LEMMA ReadBlockCompletes ==
    ASSUME TypeInv, Bounds, ReaderInv, WholeArchive(rd.arc), last = asked, Reading,
           ReadFailsOnlyForKnownReasons, ReadBlock
    PROVE  Reading' /\ ReadFailsOnlyForKnownReasons'
<1> DEFINE interval == rd.arc.key_piece_interval
<1>1. rpc = "block" /\ AtWork /\ bi < rd.arc.block_count
    BY SMT DEF ReadBlock, AtWork
<1>2. /\ HeaderOK(rd)
      /\ ~started => key # WholeInput /\ bi * interval <= key
    BY <1>1 DEF Reading
<1>3. CASE ~BlockOK
    <2>1. Fail
        BY <1>3, Zenon DEF ReadBlock
    <2>2. rd.have # Records(rd.arc)
        BY <1>1, <1>3, BlockAccepted
    <2> QED
        BY <2>1, <2>2, RecordsMissing, FailCompletes
<1>4. CASE BlockOK /\ SkipsBlock
    <2>1. /\ bi' = bi + 1 /\ rpc' = rpc
          /\ UNCHANGED <<rd, asked, last, key, started, result>>
        BY <1>4, Zenon DEF ReadBlock
    <2>2. ~started /\ Block.first = bi * interval /\ Block.first # key
        BY <1>4 DEF SkipsBlock, BlockOK
    <2>3. /\ bi \in Nat /\ interval \in Nat \ {0} /\ key \in Nat /\ key % interval = 0
        <3>1. key # WholeInput
            BY <1>2, <2>2
        <3>2. key % interval = 0
            BY <1>1, <3>1 DEF ReaderInv, KeyOK
        <3> QED
            BY <1>1, <3>1, <3>2, ReaderAtWork
    <2>4. (bi + 1) * interval <= key
        <3> HIDE DEF interval
        <3> QED
            BY <1>2, <2>2, <2>3, MultipleAbove
    <2>5. bi + 1 <= rd.arc.block_count
        <3>1. rd.arc.block_count \in Nat
            BY DEF TypeInv, TypeOK, ReaderTypeOK, Archives
        <3> QED
            BY <1>1, <2>3, <3>1, SMT
    <2>6. HeaderOK(rd)' /\ bi' <= rd'.arc.block_count
          /\ key' # WholeInput /\ bi' * rd'.arc.key_piece_interval <= key'
        BY <1>2, <2>1, <2>2, <2>4, <2>5, Zenon
    <2>7. rpc' # "node"
        BY <1>1, <2>1, SMT
    <2>8. Reading'
        BY <2>6, <2>7, Zenon DEF Reading
    <2> QED
        BY <2>1, <2>8, ReasonKept
<1>5. CASE BlockOK /\ ~SkipsBlock
    <2>1. /\ started' = TRUE /\ rpc' = "node" /\ tok' = 0 /\ need' = 1 /\ count' = 0
          /\ UNCHANGED <<rd, asked, last, key, bi, result>>
        BY <1>5, Zenon DEF ReadBlock
    <2>2. /\ WholeBlock(Block, HasGlobal(rd.arc), rd.arc.original_size,
                        rd.arc.chunk_size)
          /\ bi < Len(rd.arc.blocks)
        BY <1>1, WholeRead
    <2>3. PICK open, pos :
              /\ Walked(Block.node, Block.first, open, pos)
              /\ open[Len(Block.node)] = 0
              /\ pos[Len(Block.node)] = Block.first + Block.count
        BY <2>2, Zenon DEF WholeBlock, WholeNode, WalksTo
    <2>4. Block \in Blocks
        <3>1. \E src : Holds(rd, asked, src)
            BY <1>1 DEF ReaderInv
        <3> QED
            BY <1>1, <2>2, <3>1, BlockPlace
    <2>5. /\ 0 <= Len(Block.node) /\ open[0] = 1 /\ pos[0] = Block.first
          /\ Block.first + 0 = Block.first
        <3>1. Len(Block.node) \in Nat /\ Block.first \in Nat
            BY <2>4 DEF Blocks
        <3>2. open[0] = 1 /\ pos[0] = Block.first
            BY <2>3 DEF Walked
        <3> QED
            BY <3>1, <3>2, SMT
    <2>6. Block' = Block
        BY <2>1, Zenon DEF Block
    <2>7. NodeWalk'
        BY <2>1, <2>3, <2>5, <2>6, Zenon DEF NodeWalk
    <2>8. HeaderOK(rd)' /\ bi' <= rd'.arc.block_count
        BY <1>1, <1>2, <2>1, Zenon DEF Reading
    <2>9. Reading'
        BY <2>1, <2>7, <2>8, Zenon DEF Reading
    <2> QED
        BY <2>1, <2>9, ReasonKept
<1> QED
    BY <1>3, <1>4, <1>5

\* What is laid and walked of the block whose nodes are read.
LEMMA NodeAtHand ==
    ASSUME TypeInv, Bounds, ReaderInv, WholeArchive(rd.arc), last = asked, Reading,
           rpc = "node"
    PROVE  /\ bi < rd.arc.block_count /\ bi + 1 \in DOMAIN rd.arc.blocks
           /\ Block \in Blocks /\ Block.first = bi * rd.arc.key_piece_interval
           /\ WholeBlock(Block, HasGlobal(rd.arc), rd.arc.original_size,
                         rd.arc.chunk_size)
           /\ HeaderOK(rd) /\ NodeWalk
           /\ key = WholeInput \/ key <= Block.first
<1>1. AtWork /\ bi < Len(rd.arc.blocks)
    BY DEF AtWork, Bounds, BlockRead
<1>2. bi < rd.arc.block_count
    BY <1>1 DEF WholeArchive
<1>3. PICK src : Holds(rd, asked, src) /\ OutputInPlace(src)
    BY <1>1 DEF ReaderInv
<1>4. Block \in Blocks /\ Block.first = bi * rd.arc.key_piece_interval
    BY <1>1, <1>3, BlockPlace
<1>5. HeaderOK(rd) /\ NodeWalk
    BY <1>1 DEF Reading
<1>6. ASSUME key # WholeInput PROVE key <= Block.first
    <2>1. Start + chunks = bi * rd.arc.key_piece_interval
        BY <1>3 DEF OutputInPlace
    <2>2. Start = key /\ key \in Nat /\ chunks \in Nat
        BY <1>1, <1>6, ReaderAtWork DEF Start
    <2>3. key <= key + chunks
        BY <2>2, SMT
    <2> QED
        BY <1>4, <2>1, <2>2, <2>3
<1> QED
    BY <1>2, <1>4, <1>5, <1>6, WholeRead

\* A leaf of a whole block is refused only if its pack is bit-packed.
LEMMA LeafAccepted ==
    ASSUME TypeInv, Bounds, ReaderInv, WholeArchive(rd.arc), last = asked, Reading,
           rpc = "node", NEW j \in 1..Len(Block.node), Block.node[j].kind \in {"piece", "group"}
    PROVE  LeafOK(Block.node[j]) \/ KnownReason
<1> DEFINE t == Block.node[j]
<1>1. /\ bi + 1 \in DOMAIN rd.arc.blocks /\ Block \in Blocks /\ HeaderOK(rd)
      /\ WholeBlock(Block, HasGlobal(rd.arc), rd.arc.original_size, rd.arc.chunk_size)
      /\ key = WholeInput \/ key <= Block.first
      /\ AtWork
    BY NodeAtHand DEF AtWork
<1>2. t.len = SpanLen(t.pack.data) /\ t.method = MethodOf(t.pack)
    BY <1>1, Zenon DEF WholeBlock, WholeNode, SoundTokens, SoundToken
<1>3. Block.node \in Seq(Tokens) /\ t \in Tokens
    BY <1>1 DEF Blocks
<1>4. t.pack.byte8 \in Nat /\ TokenCount(t) = t.count /\ t.count \in Nat
    BY <1>3 DEF Tokens, LeafTokens, SplitTokens, SliceTokens, Packs, TokenCount
<1>5. CASE FromU8(t.pack.byte8) = NoMethod
    <2>1. DOMAIN Block.node = 1..Len(Block.node)
        BY <1>3
    <2>2. BitPacked(Block)
        BY <1>5, <2>1, Zenon DEF BitPacked
    <2>3. key = WholeInput \/ Block.first >= key
        <3>1. key # WholeInput => key \in Nat
            BY <1>1, ReaderAtWork
        <3>2. Block.first \in Nat
            BY <1>1 DEF Blocks
        <3> QED
            BY <1>1, <3>1, <3>2, SMT
    <2> QED
        BY <1>1, <2>2, <2>3, Zenon DEF KnownReason, Block
<1>6. CASE FromU8(t.pack.byte8) # NoMethod
    <2>1. t.pack.byte8 \in 0..14
        BY <1>6, Zenon DEF FromU8
    <2>2. FromU8(t.pack.byte8) = t.method
        <3>1. t.pack.byte8 % 16 = t.pack.byte8
            <4>1. \A b \in 0..14 : b % 16 = b
                OBVIOUS
            <4> QED
                BY <2>1, <4>1
        <3> QED
            BY <1>2, <2>1, <3>1, Zenon DEF FromU8, MethodOf
    <2>3. PICK src : Holds(rd, asked, src)
        BY <1>1 DEF ReaderInv
    <2>4. src \in Nat /\ bi < Len(rd.arc.blocks)
        BY <2>3 DEF Holds, Bounds, BlockRead
    <2>5. PICK pos : Laid(Block.node, pos, Block.first, rd.arc.payload.data, src,
                          rd.arc.original_size, rd.arc.chunk_size)
        BY <1>1, <2>3, <2>4, BlockPlace
    <2>6. t.pack.data = ReadSpan(src, pos[j - 1], t.count)
        <3>1. TokenData(t, rd.arc.payload.data) = t.pack.data
            BY SMT DEF TokenData
        <3> QED
            BY <1>4, <2>5, <3>1, Zenon DEF Laid, ReadSpan
    <2>7. pos[j - 1] \in Nat
        <3>1. Len(Block.node) \in Nat
            BY <1>3
        <3>2. j - 1 \in 0..Len(Block.node)
            BY <3>1, SMT
        <3> QED
            BY <2>5, <3>2 DEF Laid
    <2>8. SpanLen(t.pack.data) <= rd.arc.original_size
        BY <1>1, <1>4, <2>4, <2>6, <2>7, ReadSpanLength
    <2>9. Unpacks(t.pack)
        <3>1. /\ rd.arc.original_size \in Nat /\ MaxOutput \in Nat
              /\ SpanLen(t.pack.data) \in Int
            <4>1. t.pack.data \in Spans
                BY <1>3 DEF Tokens, LeafTokens, SplitTokens, SliceTokens, Packs
            <4>2. SpanLen(t.pack.data) \in Int
                BY <4>1, SMT DEF SpanLen, Spans
            <4> QED
                BY <1>1, <4>2, ReaderAtWork, ConstantsAssumption DEF ConstantsAssumption
        <3>2. rd.arc.original_size <= MaxOutput
            BY <1>1 DEF HeaderOK
        <3> QED
            BY <2>8, <3>1, <3>2, SMT DEF Unpacks
    <2> QED
        BY <1>2, <1>6, <2>2, <2>9 DEF LeafOK
<1> QED
    BY <1>5, <1>6

\* So is no slice.
LEMMA SliceAccepted ==
    ASSUME TypeInv, Bounds, ReaderInv, WholeArchive(rd.arc), last = asked, Reading,
           rpc = "node", NEW j \in 1..Len(Block.node), Block.node[j].kind = "slice"
    PROVE  SliceOK(Block.node[j])
<1> DEFINE t == Block.node[j]
           size == rd.arc.original_size
<1>1. /\ WholeBlock(Block, HasGlobal(rd.arc), size, rd.arc.chunk_size)
      /\ AtWork
    BY NodeAtHand DEF AtWork
<1>2. HasGlobal(rd.arc) /\ t.offset + t.len <= size
    BY <1>1, Zenon DEF WholeBlock, WholeNode, SoundTokens, SoundToken
<1>3. PICK src : Holds(rd, asked, src)
    BY <1>1 DEF ReaderInv
<1>4. rd.arc.payload.data = Span(src, 0, size)
    BY <1>2, <1>3 DEF Holds, ArchiveLaid
<1>5. size \in Nat
    BY <1>1, ReaderAtWork
<1> HIDE DEF size
<1>6. SpanLen(Span(src, 0, size)) = size
    BY <1>5, SMT DEF SpanLen, Span, EmptySpan
<1> QED
    BY <1>2, <1>4, <1>6 DEF SliceOK

\* A decoded token takes the walk one node further.
LEMMA WalkStep ==
    ASSUME TypeInv, NodeWalk, need > 0, Block.node \in Seq(Tokens),
           tok + 1 \in 1..Len(Block.node), Block.first \in Nat, NEW data,
           Decoded(data, TokenCount(Block.node[tok + 1]), Children(Block.node[tok + 1]))
    PROVE  NodeWalk'
<1> DEFINE t == Block.node[tok + 1]
<1>1. PICK open, pos :
          /\ Walked(Block.node, Block.first, open, pos)
          /\ open[Len(Block.node)] = 0
          /\ pos[Len(Block.node)] = Block.first + Block.count
          /\ need = open[tok] /\ Block.first + count = pos[tok]
    BY DEF NodeWalk
<1>2. /\ tok \in Nat /\ need \in Nat /\ count \in Nat /\ (tok + 1) - 1 = tok
      /\ tok + 1 <= Len(Block.node)
    BY SMT DEF TypeInv, TypeOK, ReaderTypeOK
<1>3. /\ open[tok + 1] = open[(tok + 1) - 1] - 1 + Children(t)
      /\ pos[tok + 1] = pos[(tok + 1) - 1] + TokenCount(t)
    BY <1>1, Zenon DEF Walked
<1>4. TokenCount(t) \in Nat
    BY TokenCountType
<1>5. /\ tok' = tok + 1 /\ need' = need - 1 + Children(t)
      /\ count' = count + TokenCount(t) /\ Block' = Block
    BY Zenon DEF Decoded, Block
<1>6. need' = open[tok']
    BY <1>1, <1>2, <1>3, <1>5
<1>7. Block.first + count' = pos[tok']
    <2> HIDE DEF t
    <2>1. pos[tok'] = (Block.first + count) + TokenCount(t)
        BY <1>1, <1>2, <1>3, <1>5
    <2>2. (Block.first + count) + TokenCount(t) = Block.first + (count + TokenCount(t))
        BY <1>2, <1>4, SMT
    <2> QED
        BY <1>5, <2>1, <2>2
<1>8. tok' <= Len(Block.node)
    BY <1>2, <1>5
<1> QED
    BY <1>1, <1>5, <1>6, <1>7, <1>8, Zenon DEF NodeWalk

\* Nodes that are still needed are there.
LEMMA MoreTokens ==
    ASSUME TypeInv, NodeWalk, Block.node \in Seq(Tokens)
    PROVE  /\ need > 0 => tok + 1 \in 1..Len(Block.node)
           /\ need = 0 => /\ tok = Len(Block.node)
                          /\ Block.first + count = Block.first + Block.count
<1>1. PICK open, pos :
          /\ Walked(Block.node, Block.first, open, pos)
          /\ open[Len(Block.node)] = 0
          /\ pos[Len(Block.node)] = Block.first + Block.count
          /\ tok <= Len(Block.node)
          /\ need = open[tok] /\ Block.first + count = pos[tok]
    BY DEF NodeWalk
<1>2. tok \in Nat /\ Len(Block.node) \in Nat /\ need \in Nat
    BY DEF TypeInv, TypeOK, ReaderTypeOK
<1>3. tok # Len(Block.node) => tok + 1 \in 1..Len(Block.node)
    BY <1>1, <1>2, SMT
<1>4. ASSUME need > 0 PROVE tok # Len(Block.node)
    BY <1>1, <1>4, SMT
<1>5. ASSUME need = 0 PROVE tok = Len(Block.node)
    <2> SUFFICES ASSUME tok # Len(Block.node) PROVE FALSE
        OBVIOUS
    <2>1. tok + 1 \in 1..Len(Block.node) /\ (tok + 1) - 1 = tok
        BY <1>2, <1>3, SMT
    <2>2. open[(tok + 1) - 1] > 0
        BY <1>1, <2>1, Zenon DEF Walked
    <2>3. need > 0
        BY <1>1, <2>1, <2>2, Zenon
    <2> QED
        BY <1>2, <1>5, <2>3, SMT
<1> QED
    BY <1>1, <1>3, <1>4, <1>5

\* Nodes are only decoded from the start block on.
LEMMA NodeStarted ==
    ASSUME ReaderInv, last = asked, rpc = "node"
    PROVE  started
<1>1. PICK src : OutputInPlace(src)
    BY DEF ReaderInv, AtWork
<1> QED
    BY <1>1, Zenon DEF OutputInPlace

LEMMA ReadTokenCompletes ==
    ASSUME TypeInv, Bounds, ReaderInv, WholeArchive(rd.arc), last = asked, Reading,
           ReadFailsOnlyForKnownReasons, ReadToken
    PROVE  Reading' /\ ReadFailsOnlyForKnownReasons'
<1> DEFINE t == Block.node[tok + 1]
<1>1. rpc = "node" /\ need > 0
    BY DEF ReadToken
<1>2. /\ bi < rd.arc.block_count /\ Block \in Blocks /\ HeaderOK(rd) /\ NodeWalk
    BY <1>1, NodeAtHand
<1>3. Block.node \in Seq(Tokens) /\ Block.first \in Nat
    BY <1>2 DEF Blocks
<1>4. tok + 1 \in 1..Len(Block.node)
    BY <1>1, <1>2, <1>3, MoreTokens
<1>5. ~(tok >= Len(Block.node))
    BY <1>3, <1>4, SMT DEF TypeInv, TypeOK, ReaderTypeOK
<1>6. \/ t.kind \in {"piece", "group"}
         /\ (IF LeafOK(t) THEN Decoded(t.pack.data, t.count, 0) ELSE Fail)
      \/ t.kind = "split" /\ Decoded(EmptySpan, 0, 2)
      \/ t.kind = "slice"
         /\ (IF SliceOK(t) THEN Decoded(SubSpan(rd.arc.payload.data, t.offset,
                                                t.offset + t.len), t.count, 0)
             ELSE Fail)
    BY <1>5, Zenon DEF ReadToken
<1>7. /\ t.kind \in {"piece", "group"} => LeafOK(t) \/ KnownReason
      /\ t.kind = "slice" => SliceOK(t)
    BY <1>1, <1>4, LeafAccepted, SliceAccepted
<1> HIDE DEF t
<1>8. /\ t.kind \in {"piece", "group"} \/ t.kind = "slice" =>
             TokenCount(t) = t.count /\ Children(t) = 0
      /\ t.kind = "split" => TokenCount(t) = 0 /\ Children(t) = 2
    BY SMT DEF TokenCount, Children
<1>9. CASE Fail /\ KnownReason
    BY <1>9, FailCompletes
<1>10. CASE \E data : Decoded(data, TokenCount(t), Children(t))
    <2>1. PICK data : Decoded(data, TokenCount(t), Children(t))
        BY <1>10
    <2>2. NodeWalk'
        BY <1>1, <1>2, <1>3, <1>4, <2>1, WalkStep DEF t
    <2>3. UNCHANGED <<rpc, rd, asked, last, key, bi, started, result>>
        BY <2>1, Zenon DEF Decoded
    <2>4. started
        BY <1>1, NodeStarted
    <2>5. HeaderOK(rd)' /\ started' /\ bi' <= rd'.arc.block_count
        BY <1>1, <1>2, <2>3, <2>4, Zenon DEF Reading, AtWork
    <2>6. Reading'
        BY <2>2, <2>5, Zenon DEF Reading
    <2> QED
        BY <2>3, <2>6, ReasonKept
<1> QED
    BY <1>6, <1>7, <1>8, <1>9, <1>10, Zenon

\* A whole node gives the chunks and the bytes its record announces.
LEMMA NodeEnds ==
    ASSUME TypeInv, Bounds, ReaderInv, WholeArchive(rd.arc), last = asked, Reading,
           rpc = "node", need = 0
    PROVE  tok = Len(Block.node) /\ count = Block.count /\ SpanLen(part) = Block.len
<1>1. /\ Block \in Blocks /\ Block.first = bi * rd.arc.key_piece_interval
      /\ WholeBlock(Block, HasGlobal(rd.arc), rd.arc.original_size, rd.arc.chunk_size)
      /\ NodeWalk /\ AtWork
    BY NodeAtHand DEF AtWork
<1>2. Block.node \in Seq(Tokens) /\ Block.first \in Nat /\ Block.count \in Nat
    BY <1>1 DEF Blocks
<1>3. tok = Len(Block.node) /\ Block.first + count = Block.first + Block.count
    BY <1>1, <1>2, MoreTokens
<1>4. count \in Nat
    BY DEF TypeInv, TypeOK, ReaderTypeOK
<1>5. count = Block.count
    BY <1>2, <1>3, <1>4, SMT
<1>6. PICK src : Holds(rd, asked, src) /\ OutputInPlace(src)
    BY <1>1 DEF ReaderInv
<1>7. src \in Nat /\ part = ReadSpan(src, Block.first, count)
    BY <1>1, <1>6 DEF Holds, OutputInPlace
<1>8. Block.len = SpanLen(ReadSpan(1, Block.first, count))
    BY <1>1, <1>5 DEF WholeBlock, ReadSpan
<1>9. SpanLen(ReadSpan(src, Block.first, count)) = SpanLen(ReadSpan(1, Block.first, count))
    BY <1>1, <1>2, <1>4, <1>7, ReadSpanLength
<1> QED
    BY <1>3, <1>5, <1>7, <1>8, <1>9

LEMMA EndNodeCompletes ==
    ASSUME TypeInv, Bounds, ReaderInv, WholeArchive(rd.arc), last = asked, Reading,
           ReadFailsOnlyForKnownReasons, EndNode
    PROVE  Reading' /\ ReadFailsOnlyForKnownReasons'
<1>1. rpc = "node" /\ need = 0
    BY DEF EndNode
<1>2. tok = Len(Block.node) /\ count = Block.count /\ SpanLen(part) = Block.len
    BY <1>1, NodeEnds
<1>3. /\ bi' = bi + 1 /\ rpc' = "block"
      /\ UNCHANGED <<rd, asked, last, key, started, result>>
    BY <1>2, Zenon DEF EndNode
<1>4. HeaderOK(rd) /\ bi < rd.arc.block_count
    BY <1>1, NodeAtHand
<1>5. bi + 1 <= rd.arc.block_count
    <2>1. bi \in Nat /\ rd.arc.block_count \in Nat
        BY DEF TypeInv, TypeOK, ReaderTypeOK, Archives
    <2> QED
        BY <1>4, <2>1, SMT
<1>6. started
    BY <1>1, NodeStarted
<1>7. HeaderOK(rd)' /\ started' /\ bi' <= rd'.arc.block_count /\ rpc' # "node"
    <2>1. rpc' # "node"
        BY <1>3
    <2> QED
        BY <1>3, <1>4, <1>5, <1>6, <2>1, Zenon
<1>8. Reading'
    BY <1>7, Zenon DEF Reading
<1> QED
    BY <1>3, <1>8, ReasonKept

\* Behind the last block of a complete archive nothing is missing.
LEMMA EndAccepted ==
    ASSUME TypeInv, ReaderInv, WholeArchive(rd.arc), last = asked, Reading,
           rpc = "block", bi = rd.arc.block_count, rd.have = Records(rd.arc)
    PROVE  EndChecks
<1> DEFINE a == rd.arc
           interval == a.key_piece_interval
           total == a.total_chunks
           size == a.original_size
           cs == a.chunk_size
<1>1. AtWork
    BY DEF AtWork
<1>2. /\ size \in Nat /\ cs \in Nat \ {0} /\ interval \in Nat \ {0} /\ total \in Nat
      /\ Start \in Nat /\ chunks \in Nat /\ bi \in Nat
      /\ key # WholeInput => key \in Nat
    BY <1>1, ReaderAtWork
<1>3. PICK src : Holds(rd, asked, src) /\ OutputInPlace(src)
    BY <1>1 DEF ReaderInv
<1>4. /\ total = ChunkCount(size, cs) /\ bi = BlockCount(total, interval)
      /\ src \in Nat
    BY <1>3 DEF Holds, ArchiveLaid
<1>5. /\ out = ReadSpan(src, Start, chunks)
      /\ started => Start + chunks = Lesser(bi * interval, total)
      /\ ~started => key # WholeInput /\ bi * interval <= key
    BY <1>1, <1>3 DEF OutputInPlace, Reading
<1>6. total <= bi * interval /\ bi * interval \in Nat
    <2>1. bi * interval \in Nat
        BY <1>2, SMT
    <2>2. CASE total = 0
        BY <1>2, <2>1, <2>2, SMT
    <2>3. CASE total # 0
        BY <1>2, <1>4, <2>1, <2>3, CeilDivBounds DEF BlockCount
    <2> QED
        BY <2>1, <2>2, <2>3
<1>7. rd.have = Records(a)
    OBVIOUS
<1>8. Lesser(bi * interval, total) = total
    <2>1. \A m, n \in Nat : n <= m => Lesser(m, n) = n
        BY SMT DEF Lesser
    <2> QED
        BY <1>2, <1>6, <2>1
<1>9. ASSUME key = WholeInput
      PROVE  chunks = total /\ SpanLen(out) = size
    <2>1. started /\ Start = 0
        BY <1>5, <1>9 DEF Start
    <2>2. 0 + chunks = total
        BY <1>5, <1>8, <2>1
    <2>3. chunks = total
        BY <1>2, <2>2, SMT
    <2>4. out = ChunkSpan(src, size, cs, 0, ChunkCount(size, cs))
        BY <1>4, <1>5, <2>1, <2>3 DEF ReadSpan
    <2> HIDE DEF size, cs
    <2>5. ByteAt(size, cs, ChunkCount(size, cs)) = size /\ ChunkCount(size, cs) \in Nat
        BY <1>2, LastChunkEnds
    <2>6. 0 + ChunkCount(size, cs) = ChunkCount(size, cs) /\ 0 * cs = 0
        BY <1>2, <2>5, SMT
    <2>7. ByteAt(size, cs, 0) = 0
        BY <1>2, <2>6, SMT DEF ByteAt, Lesser
    <2>8. out = Span(src, 0, size)
        BY <2>4, <2>5, <2>6, <2>7 DEF ChunkSpan
    <2>9. SpanLen(Span(src, 0, size)) = size
        BY <1>2, SMT DEF SpanLen, Span, EmptySpan
    <2> QED
        BY <2>3, <2>8, <2>9
<1>10. ASSUME key # WholeInput PROVE started
    <2> SUFFICES ASSUME ~started PROVE FALSE
        OBVIOUS
    <2>1. key < total /\ key \in Nat
        BY <1>1, <1>2, <1>10 DEF ReaderInv, KeyOK
    <2> DEFINE end == bi * interval
    <2>2. end <= key /\ total <= end /\ end \in Nat
        BY <1>5, <1>6
    <2> HIDE DEF end, total
    <2> QED
        BY <1>2, <2>1, <2>2, SMT
<1> QED
    BY <1>7, <1>9, <1>10, Zenon DEF EndChecks

LEMMA FinishCompletes ==
    ASSUME TypeInv, Bounds, ReaderInv, WholeArchive(rd.arc), last = asked, Reading,
           ReadFailsOnlyForKnownReasons, Finish
    PROVE  Reading' /\ ReadFailsOnlyForKnownReasons'
<1>1. rpc = "block" /\ bi = rd.arc.block_count
    BY DEF Finish
<1>2. CASE EndChecks
    <2>1. /\ rpc' = "idle" /\ result' = [kind |-> "ok", data |-> out]
          /\ UNCHANGED <<rd, asked>>
        BY <1>2, Zenon DEF Finish
    <2>2. result'.kind # "err"
        BY <2>1
    <2> QED
        BY <2>1, <2>2, SMT DEF Reading, AtWork, ReadFailsOnlyForKnownReasons
<1>3. CASE ~EndChecks
    <2>1. rd.have # Records(rd.arc)
        BY <1>1, <1>3, EndAccepted
    <2>2. Fail
        BY <1>3, Zenon DEF Finish
    <2> QED
        BY <2>1, <2>2, RecordsMissing, FailCompletes
<1> QED
    BY <1>2, <1>3

----------------------------------------------------------------------------
(* The invariant of whole archives.                                        *)

LEMMA PlanUnchanged ==
    ASSUME PlanInv, UNCHANGED writerVars
    PROVE  PlanInv'
<1>1. UNCHANGED <<wpc, writes, job, payload, blocks, todo, node>>
    BY Zenon DEF writerVars
<1>2. HasPayload' = HasPayload /\ opts' = opts
    BY <1>1, PlanKept
<1>3. NodeOpen => NodeOpen'
    <2>1. Len(blocks)' = Len(blocks)
        BY <1>1
    <2>2. /\ BlockFirst(Len(blocks))' = BlockFirst(Len(blocks))
          /\ BlockEnd(Len(blocks))' = BlockEnd(Len(blocks))
        BY <1>1, Zenon DEF BlockFirst, BlockEnd, jobChunks, opts
    <2> QED
        BY <1>1, <1>2, <2>2, Zenon DEF NodeOpen
<1> QED
    BY <1>1, <1>2, <1>3, Zenon DEF PlanInv

LEMMA ReadingUnchanged ==
    ASSUME CompleteInv, UNCHANGED readerVars
    PROVE  ReadWhole' /\ Reading' /\ ReadFailsOnlyForKnownReasons'
<1>1. UNCHANGED <<rpc, rd, asked, last, key, bi, started, tok, need, count, result>>
    BY Zenon DEF readerVars
<1>2. NodeWalk' <=> NodeWalk
    BY <1>1, Zenon DEF NodeWalk, Block
<1>3. Reading' /\ ReadWhole'
    BY <1>1, <1>2, Zenon DEF CompleteInv, Reading, AtWork, ReadWhole
<1> QED
    BY <1>1, <1>3, ReasonKept DEF CompleteInv

LEMMA InitCompleteInv == Init => CompleteInv
<1> SUFFICES ASSUME Init PROVE CompleteInv
    OBVIOUS
<1>1. PlanInv
    BY InitPlanInv
<1>2. WholeArchive(disk.arc) /\ WholeArchive(rd.arc)
    <2>1. disk.arc = NoArchive /\ rd.arc = NoArchive
        BY DEF Init
    <2> QED
        BY <2>1, NothingWhole
<1>3. Reading /\ ReadFailsOnlyForKnownReasons
    BY SMT DEF Init, Reading, AtWork, ReadFailsOnlyForKnownReasons, NoResult
<1> QED
    BY <1>1, <1>2, <1>3 DEF CompleteInv, ReadWhole

\* A reader is opened on nothing, which counts as whole.
LEMMA OpenCompletes ==
    ASSUME NEW k \in Starts, Open(k)
    PROVE  ReadWhole' /\ Reading' /\ ReadFailsOnlyForKnownReasons'
<1>1. rd'.arc = NoArchive /\ rpc' = "read" /\ result'.kind = "none"
    BY DEF Open, NoResult
<1>2. ReadWhole'
    BY <1>1, NothingWhole, Zenon DEF ReadWhole
<1> QED
    BY <1>1, <1>2, SMT DEF Reading, AtWork, ReadFailsOnlyForKnownReasons

LEMMA ReaderCompletes ==
    ASSUME Inv, CompleteInv, ReaderStep
    PROVE  ReadWhole' /\ Reading' /\ ReadFailsOnlyForKnownReasons'
<1> USE DEF Inv, CompleteInv
<1>1. CASE last' # asked'
    BY <1>1, MixedCompletes, Zenon DEF ReadWhole
<1>2. CASE last' = asked'
    <2>1. CASE ReadFirst \/ ReadMore
        <3>1. ReadWhole'
            <4>1. CASE ReadFirst
                <5>1. rd'.arc = disk.arc
                    BY <4>1 DEF ReadFirst
                <5> QED
                    BY <5>1, Zenon DEF ReadWhole
            <4>2. CASE ReadMore
                <5>1. rd'.arc = rd.arc /\ asked' = asked /\ last' = last
                    BY <4>2 DEF ReadMore, TypeInv, TypeOK, ReaderTypeOK
                <5> QED
                    BY <5>1, Zenon DEF ReadWhole
            <4> QED
                BY <2>1, <4>1, <4>2
        <3>2. rpc' = "read" /\ result' = NoResult
            BY <2>1, Zenon DEF ReadFirst, ReadMore, AtStart, decoderVars
        <3> QED
            BY <3>1, <3>2, SMT DEF Reading, AtWork, ReadFailsOnlyForKnownReasons, NoResult
    <2>2. CASE ReadOther
        BY <1>2, <2>2, OtherIsLater
    <2>3. CASE Misread
        BY <1>2, <2>3, Zenon DEF Misread, Bounds, Fresh
    <2>4. CASE EndRead
        <3>1. UNCHANGED <<rd, asked, last, key, result>> /\ rpc' = "head"
            BY <2>4, Zenon DEF EndRead, decoderVars
        <3> QED
            BY <3>1, ReasonKept DEF Reading, AtWork, ReadWhole
    <2>5. CASE ReadHead \/ ReadBlock \/ ReadToken \/ EndNode \/ Finish
        <3>1. UNCHANGED <<rd, asked, last>>
            BY <2>5, Zenon DEF ReadHead, ReadBlock, ReadToken, EndNode, Finish, Fail, Decoded
        <3>2. last = asked /\ WholeArchive(rd.arc)
            BY <1>2, <3>1 DEF ReadWhole
        <3>3. ReadWhole'
            BY <3>1, Zenon DEF ReadWhole
        <3> QED
            BY <2>5, <3>2, <3>3, ReadHeadCompletes, ReadBlockCompletes, ReadTokenCompletes,
               EndNodeCompletes, FinishCompletes
    <2> QED
        BY <2>1, <2>2, <2>3, <2>4, <2>5 DEF ReaderStep
<1> QED
    BY <1>1, <1>2

LEMMA CompleteStep ==
    ASSUME Inv, CompleteInv, [Next]_vars
    PROVE  CompleteInv'
<1> USE DEF Inv
<1> DEFINE Read == ReadWhole' /\ Reading' /\ ReadFailsOnlyForKnownReasons'
<1>1. PlanInv /\ WholeArchive(disk.arc)
    BY DEF CompleteInv
<1>2. SUFFICES PlanInv' /\ WholeArchive(disk.arc)' /\ Read
    BY Zenon DEF CompleteInv
<1> HIDE DEF Read
<1>3. ASSUME UNCHANGED fileVars PROVE WholeArchive(disk.arc)'
    BY <1>1, <1>3, Zenon DEF fileVars
<1>4. ASSUME UNCHANGED readerVars PROVE Read
    BY <1>4, ReadingUnchanged DEF Read
<1>5. CASE UNCHANGED vars
    BY <1>1, <1>3, <1>4, <1>5, PlanUnchanged DEF vars
<1>6. ASSUME NEW size \in 0..MaxSize, NEW o \in OptionSpace, NEW profile \in Profiles,
             Compress(size, o, profile)
      PROVE  PlanInv' /\ UNCHANGED fileVars /\ UNCHANGED readerVars
    <2>1. wpc' \in {"idle", "share"} /\ UNCHANGED fileVars /\ UNCHANGED readerVars
        BY <1>6, Zenon DEF Compress
    <2> QED
        BY <2>1, SMT DEF PlanInv
<1>7. Share => PlanInv' /\ UNCHANGED fileVars /\ UNCHANGED readerVars
    BY SharePlan DEF Share
<1>8. WideBlock => PlanInv' /\ UNCHANGED fileVars /\ UNCHANGED readerVars
    BY <1>1, WideBlockPlan DEF WideBlock
<1>9. BeginBlock => PlanInv' /\ UNCHANGED fileVars /\ UNCHANGED readerVars
    BY <1>1, BeginBlockPlan DEF BeginBlock
<1>10. WritePiece \/ WriteGroup =>
           PlanInv' /\ UNCHANGED fileVars /\ UNCHANGED readerVars
    <2>1. WritePiece \/ WriteGroup => UNCHANGED fileVars /\ UNCHANGED readerVars
        BY Zenon DEF WritePiece, WriteGroup, WriteLeaf
    <2> QED
        BY <1>1, <2>1, WritePiecePlan, WriteGroupPlan
<1>11. WriteSplit => PlanInv' /\ UNCHANGED fileVars /\ UNCHANGED readerVars
    BY <1>1, WriteSplitPlan DEF WriteSplit
<1>12. EndBlock => PlanInv' /\ UNCHANGED fileVars /\ UNCHANGED readerVars
    BY <1>1, EndBlockPlan DEF EndBlock
<1>13. CompressFails => PlanInv' /\ UNCHANGED fileVars /\ UNCHANGED readerVars
    <2> SUFFICES ASSUME CompressFails
                 PROVE  PlanInv' /\ UNCHANGED fileVars /\ UNCHANGED readerVars
        OBVIOUS
    <2>1. wpc' = "idle" /\ UNCHANGED fileVars /\ UNCHANGED readerVars
        BY DEF CompressFails
    <2> QED
        BY <2>1, SMT DEF PlanInv
<1>14. CASE Create
    <2>1. UNCHANGED readerVars
        BY <1>14 DEF Create
    <2> QED
        BY <1>1, <1>4, <1>14, <2>1, CreateWhole
<1>15. CASE Fill \/ SaveFails
    <2>1. UNCHANGED readerVars /\ wpc' \in {"save", "idle"}
        BY <1>15, SMT DEF Fill, SaveFails
    <2>2. disk'.arc = disk.arc
        BY <1>15 DEF Fill, SaveFails, fileVars, TypeInv, TypeOK, FileTypeOK
    <2>3. PlanInv'
        BY <2>1, SMT DEF PlanInv
    <2> QED
        BY <1>1, <1>4, <2>1, <2>2, <2>3
<1>16. ASSUME NEW k \in Starts, Open(k)
       PROVE  PlanInv' /\ WholeArchive(disk.arc)' /\ Read
    <2>1. UNCHANGED writerVars /\ UNCHANGED fileVars
        BY <1>16 DEF Open
    <2> QED
        BY <1>1, <1>3, <1>16, <2>1, PlanUnchanged, OpenCompletes DEF Read
<1>17. CASE ReaderStep
    BY <1>1, <1>3, <1>17, ReaderKeepsOthers, ReaderCompletes, PlanUnchanged DEF Read
<1> QED
    BY <1>3, <1>4, <1>5, <1>6, <1>7, <1>8, <1>9, <1>10, <1>11, <1>12, <1>13, <1>14,
       <1>15, <1>16, <1>17 DEF Next, WriterStep

\* A reader that has got all the bytes of one write, and no others, reads an input
\* within the output bound from its start and from every key piece, unless a block
\* holds a bit-packed pack: every check of the reader is met by what the writer wrote,
\* for every input size, option, profile, codec and number of writes, whatever becomes
\* of the file meanwhile (stream.rs:706-923, 1361-1544).
THEOREM ArchivesAreReadable == Spec => []ReadFailsOnlyForKnownReasons
<1>1. Init => CompleteInv
    BY InitCompleteInv
<1>2. Inv /\ CompleteInv /\ [Next]_vars => CompleteInv'
    BY CompleteStep
<1>3. CompleteInv => ReadFailsOnlyForKnownReasons
    BY DEF CompleteInv
<1> QED
    BY <1>1, <1>2, <1>3, Invariance, PTL DEF Spec

================================================================================
