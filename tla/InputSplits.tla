------------------------------- MODULE InputSplits -------------------------------
(***************************************************************************)
(* Inputs packed in parts (zbit-rs/src/pack/codecs.rs): the atlas, which   *)
(* keeps each repeated block of a fixed size once, and the split of an     *)
(* archive into its stored tensors and all that is around them.            *)
(*                                                                         *)
(* The archive's local header is cut down to seven fields of one byte, in  *)
(* the code's order: a signature, flags, the method, both sizes, and the   *)
(* lengths of the name and of the extra field that follow it.              *)
(***************************************************************************)
EXTENDS PayloadCodecs, BitFields

CONSTANTS
    ChunkSizes,      \* the sizes of a block (1 KiB to 64 KiB)
    TensorNames,     \* names that tell a tensor: those under data/
    MinTensorBytes,  \* the smallest entry taken for a tensor (4096)
    MinSplitBytes    \* the smallest input, and sum of tensors, that is split (128 KiB)

ASSUME SplitAssumption ==
    ChunkSizes \subseteq Nat \ {0} /\ MinTensorBytes \in Nat /\ MinSplitBytes \in Nat

----------------------------------------------------------------------------
(* The atlas.                                                              *)

\* The blocks of a size, and the different ones in the order they first occur.
FullBlocks(s, size) == [i \in 1..(Len(s) \div size) |-> Slice(s, (i - 1) * size, i * size)]
Atlas(blocks) ==
    FoldLeft(LAMBDA atlas, block : IF block \in Range(atlas) THEN atlas ELSE Append(atlas, block), <<>>, blocks)
IndexIn(atlas, block) == CHOOSE j \in DOMAIN atlas : atlas[j] = block
Rest(s, size) == Slice(s, (Len(s) \div size) * size, Len(s))

HasAtlas(s, size) ==
    LET blocks == FullBlocks(s, size)
    IN Len(blocks) >= 4 /\ Len(blocks) - Len(Atlas(blocks)) >= 2

\* encode_atlas_indices: fields of one width in as many bytes as they need.
AtlasIndices(s, size) ==
    LET blocks == FullBlocks(s, size)
        atlas == Atlas(blocks)
        bits == FlattenSeq([i \in DOMAIN blocks |-> Bits(IndexIn(atlas, blocks[i]) - 1, BitsForIndex(Len(atlas)))])
    IN [j \in 1..CeilDiv(Len(bits), ByteBits) |-> Field(bits, (j - 1) * ByteBits, ByteBits)]

\* What an empty part is packed with.
CodecOf(codec, data) == IF data = <<>> THEN Raw ELSE codec

\* The three parts of the stream, and write_exact_block_atlas_dictionary.
AtlasParts(s, size) == <<FlattenSeq(Atlas(FullBlocks(s, size))), AtlasIndices(s, size), Rest(s, size)>>
AtlasPack(s, size, codecs) ==
    LET parts == AtlasParts(s, size)
        used == [k \in 1..3 |-> CodecOf(codecs[k], parts[k])]
        payloads == [k \in 1..3 |-> Packed(used[k], parts[k])]
    IN [method |-> "atlas",
        dict |-> [codecs |-> used[1] + 4 * used[2] + 16 * used[3], size |-> size, count |-> Len(s) \div size,
                  unique |-> Len(Atlas(FullBlocks(s, size))), tailLen |-> Len(parts[3]), indexPlainLen |-> Len(parts[2]),
                  uniqueLen |-> Len(payloads[1]), indexLen |-> Len(payloads[2]), tailPayloadLen |-> Len(payloads[3])],
        payload |-> FlattenSeq(payloads)]

\* The blocks the indices name, and the tail.
FromAtlas(dict, unique, indices, tail) ==
    LET width == BitsForIndex(dict.unique)
        bits == FlattenSeq([j \in DOMAIN indices |-> Bits(indices[j], ByteBits)])
        ids == [i \in 1..dict.count |-> Field(bits, (i - 1) * width, width)]
        Right == /\ Error \notin {unique, indices, tail} /\ dict.count * width <= Len(bits)
                 /\ \A i \in DOMAIN ids : ids[i] < dict.unique
    IN IF Right
       THEN FlattenSeq([i \in DOMAIN ids |-> Slice(unique, ids[i] * dict.size, (ids[i] + 1) * dict.size)]) \o tail
       ELSE Error

\* decode_exact_block_atlas_payload
DecodeAtlas(dict, payload, size) ==
    LET indexEnd == dict.uniqueLen + dict.indexLen
        Right == /\ dict.codecs < 64 /\ dict.size > 0 /\ dict.unique \in 1..dict.count
                 /\ dict.count * dict.size + dict.tailLen = size
                 /\ dict.indexPlainLen = CeilDiv(dict.count * BitsForIndex(dict.unique), ByteBits)
                 /\ indexEnd + dict.tailPayloadLen = Len(payload)
    IN IF Right
       THEN FromAtlas(dict,
                Unpacked(Slice(payload, 0, dict.uniqueLen), dict.codecs % 4, dict.unique * dict.size),
                Unpacked(Slice(payload, dict.uniqueLen, indexEnd), (dict.codecs \div 4) % 4, dict.indexPlainLen),
                Unpacked(Slice(payload, indexEnd, Len(payload)), dict.codecs \div 16, dict.tailLen))
       ELSE Error

----------------------------------------------------------------------------
(* The entries of an archive: parse_stored_zip_tensor_ranges.              *)

LocalHeader == 1
CentralHeader == 2
EndOfDirectory == 3
HeaderBytes == 7
WithDescriptor == 1
Stored == 0

Entry(s, at) ==
    LET name == at + HeaderBytes
        data == name + s[at + 6] + s[at + 7]
    IN [flags |-> s[at + 2], method |-> s[at + 3], compressed |-> s[at + 4], uncompressed |-> s[at + 5],
        nameStart |-> name, nameEnd |-> name + s[at + 6], start |-> data, end |-> data + s[at + 4]]
IsTensor(s, entry) ==
    /\ entry.flags # WithDescriptor /\ entry.method = Stored
    /\ entry.compressed = entry.uncompressed /\ entry.compressed >= MinTensorBytes
    /\ Slice(s, entry.nameStart, entry.nameEnd) \in TensorNames

\* Entries follow one another until the directory or the rest is too short for a header;
\* anything else there, and an entry beyond the end, make it no archive at all.
TensorRanges(s) ==
    LET from[at \in 0..Len(s)] ==
            IF at + HeaderBytes > Len(s) \/ s[at + 1] \in {CentralHeader, EndOfDirectory} THEN [ok |-> TRUE, ranges |-> <<>>]
            ELSE IF s[at + 1] # LocalHeader \/ Entry(s, at).end > Len(s) THEN [ok |-> FALSE, ranges |-> <<>>]
            ELSE LET entry == Entry(s, at)
                     rest == from[entry.end]
                     own == IF IsTensor(s, entry) THEN <<[start |-> entry.start, end |-> entry.end]>> ELSE <<>>
                 IN [ok |-> rest.ok, ranges |-> own \o rest.ranges]
    IN IF from[0].ok THEN from[0].ranges ELSE <<>>

----------------------------------------------------------------------------
(* The tensor split.                                                       *)

Total(lens) == FoldLeft(+, 0, lens)
DataLens(ranges) == [i \in DOMAIN ranges |-> ranges[i].end - ranges[i].start]
\* The gaps before, between and after the tensors.
GapsAround(s, ranges) ==
    [i \in 1..(Len(ranges) + 1) |->
        [start |-> IF i = 1 THEN 0 ELSE ranges[i - 1].end, end |-> IF i > Len(ranges) THEN Len(s) ELSE ranges[i].start]]
AllOf(s, ranges) == FlattenSeq([i \in DOMAIN ranges |-> Slice(s, ranges[i].start, ranges[i].end)])

\* build_zip_tensor_split_stream without a bound on its size, as tests.rs calls it.
HasTensors(s) ==
    /\ Len(s) >= MinSplitBytes
    /\ Len(TensorRanges(s)) >= 2 /\ Total(DataLens(TensorRanges(s))) >= MinSplitBytes

\* write_zip_tensor_split_dictionary
SplitPack(s, codecs) ==
    LET ranges == TensorRanges(s)
        gaps == GapsAround(s, ranges)
        metadata == Packed(codecs[1], AllOf(s, gaps))
        tensor == Packed(codecs[2], AllOf(s, ranges))
    IN [method |-> "tensors",
        dict |-> [codecs |-> codecs[1] + 4 * codecs[2], count |-> Len(ranges),
                  metadataPlainLen |-> Total(DataLens(gaps)), tensorPlainLen |-> Total(DataLens(ranges)),
                  metadataLen |-> Len(metadata), tensorLen |-> Len(tensor),
                  gaps |-> DataLens(gaps), data |-> DataLens(ranges)],
        payload |-> metadata \o tensor]

\* The gaps and the tensors in turn, each from its own cursor.
Woven(dict, metadata, tensor) ==
    LET Piece(s, lens, i) ==
            LET before == Total(SubSeq(lens, 1, i - 1)) IN Slice(s, before, before + lens[i])
    IN FlattenSeq([i \in 1..dict.count |-> Piece(metadata, dict.gaps, i) \o Piece(tensor, dict.data, i)])
         \o Piece(metadata, dict.gaps, dict.count + 1)

\* decode_zip_tensor_split_payload
DecodeSplit(dict, payload, size) ==
    LET metadata == Unpacked(Slice(payload, 0, dict.metadataLen), dict.codecs % 4, dict.metadataPlainLen)
        tensor == Unpacked(Slice(payload, dict.metadataLen, Len(payload)), dict.codecs \div 4, dict.tensorPlainLen)
        Right == /\ dict.codecs < 16 /\ dict.count > 0 /\ dict.metadataLen + dict.tensorLen = Len(payload)
                 /\ Error \notin {metadata, tensor}
                 /\ Total(dict.gaps) = dict.metadataPlainLen /\ Total(dict.data) = dict.tensorPlainLen
                 /\ dict.metadataPlainLen + dict.tensorPlainLen = size
    IN IF Right THEN Woven(dict, metadata, tensor) ELSE Error

================================================================================
