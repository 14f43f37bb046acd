---------------------------- MODULE RecursivePayload ----------------------------
(***************************************************************************)
(* The packs whose payload is a transformed or an unwrapped input          *)
(* (zbit-rs/src/pack/recursive.rs): the search for a run of CRC-framed     *)
(* chunks, the framed pack, the recursive pack, which reconstructs the     *)
(* deflate stream inside the frames from its plain text and corrections,   *)
(* the pack of the transformed input, and the packs of NumericTables and   *)
(* InputSplits; each with its decoder.                                     *)
(*                                                                         *)
(* A length, a tag and a CRC are FieldBytes bytes wide (4 in the code),    *)
(* the header of a zlib stream and its checksum one byte each (2 and 4).   *)
(* The preflate library is external: Preflated gives, for a deflate        *)
(* stream, its plain text and the corrections of each chain length.  Which *)
(* plans and codecs give the smallest payload is up to the codecs; here    *)
(* any that apply may be chosen.                                           *)
(***************************************************************************)
EXTENDS CircuitDictionary, NumericTables, InputSplits

CONSTANTS
    FieldBytes,     \* width of a field of a frame
    MaxFrameBytes,  \* FRAMED_PAYLOAD_MAX_FRAME_BYTES
    HashBudgets,    \* what FRAMED_PAYLOAD_HASH_BUDGET_BYTES may be
    Inputs,         \* the inputs to pack
    Deflates,       \* the deflate streams preflate is given
    Preflated(_),   \* what it makes of one
    Plans(_),       \* the plans the search for a transform may find best for some bytes
    Codecs,         \* the codecs that may be
    Splits,         \* multi_block_split_counts
    MinBlockBytes,      \* min_block_bytes of build_multi_block_transform
    MinTransformBytes   \* the smallest input that is transformed (128 KiB)

ASSUME PayloadAssumption ==
    /\ FieldBytes \in Nat \ {0} /\ MinBlockBytes \in Nat \ {0} /\ MinTransformBytes \in Nat
    /\ Inputs \subseteq Seq(Bytes) /\ HashBudgets \subseteq Nat
    /\ Codecs \subseteq 0..3 /\ Splits \subseteq Nat
    /\ \A deflate \in Deflates : \A a, b \in Preflated(deflate) : a.plain = b.plain
    /\ \A deflate \in Deflates : \A a \in Preflated(deflate) : a.plain \in Seq(Bytes) /\ a.corrections \in Seq(Bytes)

VARIABLES
    stage,   \* "scan", "run", "found", "preflated", "planned", "packed", "done"
    input,
    budget,  \* bytes that may still be hashed
    start,   \* where the next run is looked for
    cursor,  \* where the current run ends so far
    run,     \* the tag, the lengths and the data of its frames
    best,    \* the smallest run, or NoRun
    stream,  \* the RecursiveCircuitStream in the making, or the transformed input
    pack,    \* the dictionary and the payload written
    output   \* what the decoder returns, or Error

vars == <<stage, input, budget, start, cursor, run, best, stream, pack, output>>
scan == <<budget, start, cursor, run, best>>

NoRun == [size |-> 0]
Nothing == [method |-> "none"]
NoFrames == [tag |-> <<>>, lens |-> <<>>, data |-> <<>>]

----------------------------------------------------------------------------
(* Fields and frames.  Offsets count from 0.                               *)

Size == Len(input)

\* read_u32_be_at and push_u32_be
Value(field) == NumberOf(field, Base)
Encoded(value) == [i \in 1..FieldBytes |-> (value \div Pow2[ByteBits * (FieldBytes - i)]) % Base]
\* The CRC of a tag and some data: any function of both.
Crc(tag, data) ==
    Encoded(FoldLeft(LAMBDA v, byte : 3 * v + byte, 1, tag \o data) % Pow2[ByteBits * FieldBytes])

\* parse_crc32_frame_at, in its parts: the frame is there, its hash can be paid for
\* (and then is, right or not), and the hash is right.
LenAt(at) == Value(Slice(input, at, at + FieldBytes))
TagAt(at) == Slice(input, at + FieldBytes, at + 2 * FieldBytes)
NextAt(at) == at + 3 * FieldBytes + LenAt(at)
DataAt(at) == Slice(input, at + 2 * FieldBytes, NextAt(at) - FieldBytes)
Cost(at) == LenAt(at) + FieldBytes
Fits(at) == at + FieldBytes <= Size /\ LenAt(at) <= MaxFrameBytes /\ NextAt(at) <= Size
Hashed(at) == Fits(at) /\ Cost(at) <= budget
FrameAt(at) == Hashed(at) /\ Crc(TagAt(at), DataAt(at)) = Slice(input, NextAt(at) - FieldBytes, NextAt(at))
Spend(at) == budget' = IF Hashed(at) THEN budget - Cost(at) ELSE budget

\* varint_u64_len
VarintLen[value \in Nat] == IF value < 128 THEN 1 ELSE 1 + VarintLen[value \div 128]

\* framed_dictionary_size and the payload after it.
FramedSize(r) ==
    FieldBytes + Len(r.prefix) + Len(r.suffix) + VarintLen[Len(r.prefix)] + VarintLen[Len(r.suffix)]
      + VarintLen[r.base] + VarintLen[r.full] + VarintLen[r.tail] + VarintLen[r.total]
      + Len(r.payload)

----------------------------------------------------------------------------
(* build_framed_payload_run                                                *)

Init ==
    /\ stage = "scan" /\ input \in Inputs /\ budget \in HashBudgets
    /\ start = 0 /\ cursor = 0 /\ run = NoFrames /\ best = NoRun
    /\ stream = Nothing /\ pack = Nothing /\ output = <<>>

Scanning == /\ stage = "scan"
            /\ Size >= 6 * FieldBytes /\ start + 3 * FieldBytes <= Size /\ budget > 0

SkipByte ==
    /\ Scanning /\ ~FrameAt(start)
    /\ Spend(start)
    /\ start' = start + 1
    /\ UNCHANGED <<stage, input, cursor, run, best, stream, pack, output>>

FirstFrame ==
    /\ Scanning /\ FrameAt(start)
    /\ Spend(start)
    /\ stage' = "run" /\ cursor' = NextAt(start)
    /\ run' = [tag |-> TagAt(start), lens |-> <<LenAt(start)>>, data |-> DataAt(start)]
    /\ UNCHANGED <<input, start, best, stream, pack, output>>

\* Mutant: a run ends where the length changes.
ContinuesEqual == FrameAt(cursor) /\ TagAt(cursor) = run.tag /\ LenAt(cursor) = run.lens[1]
Continues == FrameAt(cursor) /\ TagAt(cursor) = run.tag
NextFrame ==
    /\ stage = "run" /\ Continues
    /\ Spend(cursor)
    /\ cursor' = NextAt(cursor)
    /\ run' = [run EXCEPT !.lens = Append(@, LenAt(cursor)), !.data = @ \o DataAt(cursor)]
    /\ UNCHANGED <<stage, input, start, best, stream, pack, output>>

\* At least two frames, all of one length except perhaps the last.
Regular == /\ Len(run.lens) >= 2
           /\ \A i \in 1..(Len(run.lens) - 1) : run.lens[i] = run.lens[1]

Found ==
    LET total == Len(run.lens)
        equal == run.lens[total] = run.lens[1]
        found == [prefix |-> Slice(input, 0, start), suffix |-> Slice(input, cursor, Size), tag |-> run.tag,
                  payload |-> run.data, base |-> run.lens[1],
                  full |-> IF equal THEN total ELSE total - 1,
                  tail |-> IF equal THEN 0 ELSE run.lens[total], total |-> total, left |-> budget, size |-> 0]
    IN [found EXCEPT !.size = FramedSize(found)]

RunEnds == stage = "run" /\ ~Continues /\ Spend(cursor) /\ stage' = "scan"
DropRun ==
    /\ RunEnds /\ ~Regular
    /\ start' = start + 1
    /\ UNCHANGED <<input, cursor, run, best, stream, pack, output>>
\* A run is kept when it is smaller than the best one; either way it is passed over.
KeepRun ==
    /\ RunEnds /\ Regular
    /\ best' = IF best # NoRun /\ best.size <= Found.size THEN best ELSE Found
    /\ start' = cursor
    /\ UNCHANGED <<input, cursor, run, stream, pack, output>>

EndScan ==
    /\ stage = "scan" /\ ~Scanning
    /\ stage' = "found"
    /\ UNCHANGED <<input, scan, stream, pack, output>>

----------------------------------------------------------------------------
(* The frames around a payload, as both decoders rebuild them.             *)

Chunks(dict) == [i \in 1..dict.total |-> IF i <= dict.full THEN dict.base ELSE dict.tail]
Rebuilt(dict, payload) ==
    LET Before(i) == (i - 1) * dict.base
        Data(i) == Slice(payload, Before(i), Before(i) + Chunks(dict)[i])
        Frame(i) == Encoded(Chunks(dict)[i]) \o dict.tag \o Data(i) \o Crc(dict.tag, Data(i))
        Right == /\ dict.total \in {dict.full, dict.full + 1}
                 /\ Len(payload) = SumFunctionOnSet(Chunks(dict), 1..dict.total)
    IN IF Right THEN dict.prefix \o FlattenSeq([i \in 1..dict.total |-> Frame(i)]) \o dict.suffix ELSE Error

\* write_framed_dictionary
FramedDictionary(r) ==
    [prefix |-> r.prefix, suffix |-> r.suffix, tag |-> r.tag, base |-> r.base,
     full |-> r.full, tail |-> r.tail, total |-> r.total]

PackFramed ==
    /\ stage = "found" /\ best # NoRun
    /\ stage' = "packed"
    /\ pack' = [method |-> "framed", dict |-> FramedDictionary(best), payload |-> best.payload]
    /\ UNCHANGED <<input, scan, stream, output>>

----------------------------------------------------------------------------
(* build_recursive_circuit_stream                                          *)

Deflate == Slice(best.payload, 1, Len(best.payload) - 1)

\* Any chain length may turn out best; without an answer there is no recursive pack.
Unwraps == best # NoRun /\ Len(best.payload) >= 2 /\ Deflate \in Deflates /\ Preflated(Deflate) # {}
Preflate ==
    /\ stage = "found" /\ Unwraps
    /\ \E answer \in Preflated(Deflate) :
          stream' = [plain |-> answer.plain, corrections |-> answer.corrections,
                     header |-> best.payload[1], checksum |-> best.payload[Len(best.payload)],
                     plan |-> Identity, blocks |-> Nothing, codec |-> Raw, encoded |-> <<>>]
    /\ stage' = "preflated"
    /\ UNCHANGED <<input, scan, pack, output>>

\* choose_adaptive_transform_plan keeps the plans that apply.
Proposed(data) == {plan \in Plans(data) : plan \in PlanType /\ Applies(plan, Len(data))}

\* The blocks of build_multi_block_transform: all of one size but the last.
BlockOf(data, size, count, i) == Slice(data, (i - 1) * size, IF i = count THEN Len(data) ELSE i * size)
InBlocks(data, size, plans, Op(_, _)) ==
    FlattenSeq([i \in DOMAIN plans |-> Op(plans[i], BlockOf(data, size, Len(plans), i))])

\* The plain text is transformed as a whole; its topology is kept even if blocks win.
PlanWhole ==
    /\ stage = "preflated"
    /\ \E plan \in Proposed(stream.plain), codec \in Codecs :
          stream' = [stream EXCEPT !.plan = plan, !.codec = codec,
                                   !.encoded = Packed(codec, Transformed(plan, stream.plain))]
    /\ stage' = "planned"
    /\ UNCHANGED <<input, scan, pack, output>>

PlanBlocks ==
    /\ stage = "preflated"
    /\ \E count \in Splits, whole \in Proposed(stream.plain), codec \in Codecs :
          LET size == Len(stream.plain) \div count
              LastBlock == BlockOf(stream.plain, size, count, count)
          IN /\ count >= 2 /\ Len(stream.plain) >= count * MinBlockBytes
             /\ \E plans \in [1..(count - 1) -> Proposed(BlockOf(stream.plain, size, count, 1))],
                   last \in Proposed(LastBlock) :
                   LET all == Append(plans, last)
                   IN stream' = [stream EXCEPT !.plan = whole, !.blocks = [size |-> size, plans |-> all], !.codec = codec,
                                     !.encoded = Packed(codec, InBlocks(stream.plain, size, all, Transformed))]
    /\ stage' = "planned"
    /\ UNCHANGED <<input, scan, pack, output>>

\* write_recursive_circuit_dictionary.  The field of the topology: how many nodes, that
\* they are bit-packed, and whether blocks follow.
RecursiveDictionary(nodes, correctionCodec, correctionLen) ==
    [frames |-> FramedDictionary(best), header |-> stream.header, checksum |-> stream.checksum, plainLen |-> Len(stream.plain),
     correctionPlainLen |-> Len(stream.corrections), correctionLen |-> correctionLen,
     codecKind |-> stream.codec + 4 * correctionCodec + 16 * KindIndex(stream.plan.kind),
     period |-> stream.plan.period, head |-> stream.plan.head,
     count |-> Len(nodes), compact |-> Eligible(nodes), multiBlock |-> stream.blocks # Nothing,
     nodeBitLen |-> Len(TopologyBits(nodes)),
     bits |-> Padded(TopologyBits(nodes))
                \o (IF stream.blocks = Nothing THEN <<>> ELSE Padded(BlocksBits(stream.blocks)))]

\* choose_correction_transform_plan, then the dictionary and the payload.
PackRecursive ==
    /\ stage = "planned"
    /\ \E plan \in Proposed(stream.corrections), codec \in Codecs :
          LET nodes == WithCorrectionPlan(TopologyOf(stream.plan), plan)
              corrections == Packed(codec, Transformed(plan, stream.corrections))
          IN pack' = [method |-> "recursive", nodes |-> nodes,
                      dict |-> RecursiveDictionary(nodes, codec, Len(corrections)),
                      payload |-> stream.encoded \o corrections]
    /\ stage' = "packed"
    /\ UNCHANGED <<input, scan, stream, output>>

----------------------------------------------------------------------------
(* build_adaptive_transformed_xz_stream, of an input without a recursive   *)
(* pack.  A payload as large as the input is dropped, and so may others be *)
(* that are not worth their time.                                          *)

CodecAndKind(codec, kind) == codec + 4 * KindIndex(kind)
PackTransformed ==
    /\ stage = "found" /\ ~Unwraps /\ Size >= MinTransformBytes
    /\ \E plan \in Proposed(input), codec \in Codecs :
          /\ Len(Packed(codec, Transformed(plan, input))) < Size
          /\ pack' = [method |-> "transformed",
                      dict |-> [codecKind |-> CodecAndKind(codec, plan.kind), period |-> plan.period,
                                head |-> plan.head, plainLen |-> Size],
                      payload |-> Packed(codec, Transformed(plan, input))]
    /\ stage' = "packed"
    /\ UNCHANGED <<input, scan, stream, output>>

----------------------------------------------------------------------------
(* Inputs that are tables, repeat blocks or hold tensors.                  *)

\* Of the modes and codecs that apply the smallest is kept, with or without a plan for
\* the stream of gaps.  Tables of primes are only looked for if the environment asks for it.
PackMonotonic ==
    /\ stage = "found"
    /\ \E width \in Range(CandidateWidths), mode \in Modes, codec \in Codecs :
          /\ IsGrowingTable(input, width)
          /\ LET gaps == Gaps(Numbers(input, width)) IN
             /\ CanWrite(mode, gaps)
             /\ \E plan \in Proposed(GapStream(mode, gaps)) \cup {Identity} :
                   pack' = [method |-> "monotonic",
                            dict |-> MonotonicDictionary(input, width, mode, codec, plan),
                            payload |-> Packed(codec, Transformed(plan, GapStream(mode, gaps)))]
    /\ stage' = "packed"
    /\ UNCHANGED <<input, scan, stream, output>>

PackPrimes ==
    /\ stage = "found" /\ PrimeWidths(input) # <<>>
    /\ stage' = "packed"
    /\ pack' = [method |-> "primes", dict |-> PrimeDictionary(input, PrimeWidths(input)[1]), payload |-> <<>>]
    /\ UNCHANGED <<input, scan, stream, output>>

\* Of the sizes and codecs that apply the smallest is kept, if it promises to pay.
PackAtlas ==
    /\ stage = "found"
    /\ \E size \in ChunkSizes, codecs \in [1..3 -> Codecs] :
          /\ HasAtlas(input, size)
          /\ pack' = AtlasPack(input, size, codecs)
    /\ stage' = "packed"
    /\ UNCHANGED <<input, scan, stream, output>>

PackTensors ==
    /\ stage = "found" /\ HasTensors(input)
    /\ \E codecs \in [1..2 -> Codecs] : pack' = SplitPack(input, codecs)
    /\ stage' = "packed"
    /\ UNCHANGED <<input, scan, stream, output>>

\* None of these: other methods pack the input.
PackOtherwise ==
    /\ stage = "found"
    /\ stage' = "done"
    /\ UNCHANGED <<input, scan, stream, pack, output>>

----------------------------------------------------------------------------
(* The decoders.                                                           *)

Checked(result) == IF result # Error /\ Len(result) = Size THEN result ELSE Error

\* decode_framed_payload
DecodeFramed(dict, payload) == Checked(Rebuilt(dict, payload))

\* decode_adaptive_transformed_xz_payload
DecodeTransformed(dict, payload) ==
    LET index == dict.codecKind \div 4
        plan == Plan(KindOf(index), dict.period, dict.head)
    IN IF HasKind(index) /\ KindOf(index) \in Kinds /\ dict.plainLen = Size
       THEN Undone(Unpacked(payload, dict.codecKind % 4, dict.plainLen), plan) ELSE Error

\* The plain text, block by block when the dictionary has blocks.
Joined(data, blocks) ==
    LET leading == blocks.size * (Len(blocks.plans) - 1)
        Part(i) == BlockOf(data, blocks.size, Len(blocks.plans), i)
        Right == /\ data # Error /\ leading <= Len(data)
                 /\ \A i \in DOMAIN blocks.plans : Applies(blocks.plans[i], Len(Part(i)))
    IN IF Right THEN InBlocks(data, blocks.size, blocks.plans, Inverted) ELSE Error

\* recreate_whole_deflate_stream
Recreated(plain, corrections) ==
    {deflate \in Deflates : \E answer \in Preflated(deflate) :
                                answer.plain = plain /\ answer.corrections = corrections}

\* decode_recursive_circuit_payload, from its end: the deflate stream inside its
\* frames; the two parts of the payload; the sections of the dictionary.
Reframed(dict, plain, corrections) ==
    IF plain = Error \/ corrections = Error \/ Recreated(plain, corrections) = {} THEN Error
    ELSE LET deflate == CHOOSE d \in Recreated(plain, corrections) : TRUE
         IN Checked(Rebuilt(dict.frames, <<dict.header>> \o deflate \o <<dict.checksum>>))

DecodeParts(dict, transformed, corrections, blocks, plan, correctionPlan) ==
    LET data == Unpacked(transformed, dict.codecKind % 4, dict.plainLen)
        correctionData == Unpacked(corrections, (dict.codecKind \div 4) % 4, dict.correctionPlainLen)
    IN Reframed(dict, IF dict.multiBlock THEN Joined(data, blocks) ELSE Undone(data, plan),
                Undone(correctionData, correctionPlan))

DecodeSections(dict, payload, topology, rest, blocks) ==
    LET index == dict.codecKind \div 16
        split == Len(payload) - dict.correctionLen
        Right == /\ HasKind(index) /\ KindOf(index) \in Kinds
                 /\ dict.count > 0 /\ topology.ok /\ blocks.ok
                 /\ Len(rest) = 8 * CeilDiv(blocks.end, 8) /\ split >= 0
    IN IF Right
       THEN DecodeParts(dict, Slice(payload, 0, split), Slice(payload, split, Len(payload)), blocks,
                        Plan(KindOf(index), dict.period, dict.head), CorrectionPlan(topology.nodes))
       ELSE Error

NoBlocks == [ok |-> TRUE, end |-> 0]
DecodeRecursive(dict, payload) ==
    LET rest == SubSeq(dict.bits, 8 * CeilDiv(dict.nodeBitLen, 8) + 1, Len(dict.bits))
    IN DecodeSections(dict, payload, ReadTopology(SubSeq(dict.bits, 1, dict.nodeBitLen), dict.count), rest,
                      IF dict.multiBlock THEN ReadBlocks(rest) ELSE NoBlocks)

Decode ==
    /\ stage = "packed"
    /\ stage' = "done"
    /\ output' = CASE pack.method = "framed" -> DecodeFramed(pack.dict, pack.payload)
                   [] pack.method = "recursive" -> DecodeRecursive(pack.dict, pack.payload)
                   [] pack.method = "transformed" -> DecodeTransformed(pack.dict, pack.payload)
                   [] pack.method = "monotonic" -> DecodeMonotonic(pack.dict, pack.payload, Size)
                   [] pack.method = "primes" -> DecodePrimes(pack.dict, pack.payload, Size)
                   [] pack.method = "atlas" -> DecodeAtlas(pack.dict, pack.payload, Size)
                   [] pack.method = "tensors" -> DecodeSplit(pack.dict, pack.payload, Size)
    /\ UNCHANGED <<input, scan, stream, pack>>

Next ==
    \/ SkipByte \/ FirstFrame \/ NextFrame \/ DropRun \/ KeepRun \/ EndScan
    \/ PackFramed \/ Preflate \/ PlanWhole \/ PlanBlocks \/ PackRecursive
    \/ PackTransformed \/ PackMonotonic \/ PackPrimes \/ PackAtlas \/ PackTensors
    \/ PackOtherwise \/ Decode

Spec == Init /\ [][Next]_vars

----------------------------------------------------------------------------
(* Properties.                                                             *)

Decoded == stage = "done" /\ pack # Nothing

(***************************************************************************)
(* What the decoders accept of the writers is all they write: the widths,  *)
(* the counts, the sizes and the plans of a dictionary are read where and  *)
(* as they were written, at every boundary of a width.                     *)
(***************************************************************************)
DecoderAccepts == Decoded => output # Error

(***************************************************************************)
(* And what they return is the input, whichever run of frames was chosen,  *)
(* whichever plans transformed the plain text, its blocks or the           *)
(* corrections, however the gaps of a table were written, wherever the     *)
(* parts of an input lie, and whichever codecs packed them (the tests of   *)
(* tests.rs decode a few packs of one profile each).                       *)
(***************************************************************************)
DecodedIsTheInput == Decoded /\ output # Error => output = input

(***************************************************************************)
(* A run of frames ends where it must: at a frame of another tag, at no    *)
(* frame, or at one that could not be hashed with what was left of the     *)
(* budget.  A run cut short in front of a good frame would pack, but       *)
(* worse, and no decoder would notice.                                     *)
(***************************************************************************)
RunEndsWhereItMust ==
    best # NoRun =>
        LET end == Size - Len(best.suffix)
        IN Fits(end) /\ TagAt(end) = best.tag /\ Crc(TagAt(end), DataAt(end)) = Slice(input, NextAt(end) - FieldBytes, NextAt(end))
             => Cost(end) > best.left

(***************************************************************************)
(* The sections of the dictionary are as long as predicted before they are *)
(* written: candidates are compared by the prediction, and the writers     *)
(* reserve it (asserted in write_multi_block_section in debug builds).     *)
(* All topologies that are built are eligible for the bit-packed form.     *)
(***************************************************************************)
SizeIsPredicted ==
    pack # Nothing /\ pack.method = "recursive" =>
        /\ pack.dict.compact
        /\ pack.dict.nodeBitLen = TopologyBitLen(pack.nodes)
        /\ stream.blocks # Nothing =>
               Len(pack.dict.bits) = 8 * (CeilDiv(pack.dict.nodeBitLen, 8) + CeilDiv(BlocksBitLen(stream.blocks), 8))

================================================================================
