------------------------------- MODULE ZbpsStream -------------------------------
(***************************************************************************)
(* The .zbps stream container (zbit-rs/src/pack/stream.rs): one writer     *)
(* that compresses inputs into a file, and one reader that decodes the     *)
(* file, from its start or from a key piece.                               *)
(*                                                                         *)
(* The writer is compress_adaptive_stream_to_file.  It cuts the input into *)
(* chunks and the chunks into key-piece blocks; every block is stored as a *)
(* tree of pieces, groups and splits, or as a slice of one global payload. *)
(* The plan of a block (build_best_stream_node) is resolved while its      *)
(* preorder token sequence is written: the stack todo holds the subranges  *)
(* that remain to be written, and every tree the planner's guards allow    *)
(* can be chosen, whatever the packed sizes.                               *)
(*                                                                         *)
(* The reader is decompress_stream_from_bytes.  decode_stream_node, which  *)
(* recurses over the preorder token sequence, is a loop that counts the    *)
(* nodes still to be read (need).                                          *)
(*                                                                         *)
(* The file is shared without a lock.  fs::write truncates it and fills    *)
(* it, so a writer that stops half way leaves a prefix; fs::read calls     *)
(* read until there is nothing left, and the file may be replaced between  *)
(* two of these calls, so that a reader may hold the head of one archive   *)
(* and the tail of another.  The progress of both is counted in leading    *)
(* records (header, global payload, blocks) that are wholly there or       *)
(* wholly read; a part of the next record may be, too.                     *)
(*                                                                         *)
(* A packed range (.zbpk) is abstracted to its ninth byte, the bytes it    *)
(* decodes to and its size.                                                *)
(***************************************************************************)
EXTENDS ByteSpans, Sequences

CONSTANTS
    OptionSpace,    \* the StreamPackOptions callers use
    Profiles,       \* the compression profiles in use
    StreamCodecs,   \* the conventional methods a realtime pack may end up with
    AdaptiveCodecs, \* <<method, bits_per_symbol>> of the adaptive packer
    PackSizes,      \* sizes a .zbpk pack may have
    MaxOutput,      \* ZBPK_MAX_OUTPUT_BYTES
    SharedMin,      \* smallest input a shared payload is tried for (1 MiB)
    RecursiveMin,   \* smallest range tried recursively (512 KiB)
    U32Max,         \* the largest u32
    MaxSize,        \* bound: the largest input
    MaxWrites,      \* bound: how many inputs are compressed
    Nothing,        \* no input
    WholeInput,     \* start_key_piece is None
    Starts          \* the values of start_key_piece readers use

----------------------------------------------------------------------------
(* PackMethod ids and the packed byte of a .zbpk header.                   *)

RawCopy == 0
RawDeflate == 4
RawZstd == 5
FramedRaw == 6
RecursiveCircuitXz == 7
NoMethod == 15

\* PackMethod::from_u8, with NoMethod for None.
FromU8(b) == IF b \in 0..14 THEN b ELSE NoMethod

\* Byte 8 of a pack: the method in the low, bits_per_symbol in the high nibble.
PackedByte(method, bits) == method + 16 * bits

HistoryNone == 255

----------------------------------------------------------------------------
(* Assumptions on the constants.                                           *)

Options == [chunk_size : Nat, key_piece_interval : Nat, max_group_depth : Nat,
            max_group_pieces : Nat, carry_grouping_history : BOOLEAN,
            realtime_mode : BOOLEAN, wide_overfitting_circuits : BOOLEAN]

\* magic, version, flags, packed byte and four varints of at least one byte.
MinPackSize == 4 + 2 + 2 + 1 + 4

ASSUME ConstantsAssumption ==
    /\ OptionSpace \subseteq Options
    /\ Profiles \subseteq {"fast", "balanced", "deep", "research"}
    /\ StreamCodecs \subseteq {RawCopy, RawDeflate, RawZstd, FramedRaw}
    /\ AdaptiveCodecs \subseteq (0..14) \X (0..8)
    /\ PackSizes \subseteq Nat /\ \A n \in PackSizes : n >= MinPackSize
    /\ {MaxOutput, SharedMin, RecursiveMin, U32Max, MaxSize, MaxWrites}
           \subseteq Nat
    /\ WholeInput \notin Nat
    /\ Starts \subseteq Nat \cup {WholeInput}

ASSUME NothingAssumption ==
    Nothing \notin [src : Nat \ {0}, size : Nat, chunk_size : Nat,
                    key_piece_interval : Nat]

----------------------------------------------------------------------------
(* Geometry.                                                               *)

\* validate_stream_options
ValidOptions(o) ==
    /\ o.chunk_size \in 1..U32Max
    /\ o.key_piece_interval \in 1..U32Max
    /\ o.max_group_pieces \in 1..U32Max
    /\ o.max_group_depth <= 32

CeilDiv(n, d) == (n + d - 1) \div d

\* expected_chunk_count, also the length of split_stream_chunks.
ChunkCount(size, chunk_size) == IF size = 0 THEN 0 ELSE CeilDiv(size, chunk_size)

BlockCount(chunks, interval) == IF chunks = 0 THEN 0 ELSE CeilDiv(chunks, interval)

Lesser(a, b) == IF a <= b THEN a ELSE b

\* Where chunk c of an input of this size begins (its end for c past the last).
ByteAt(size, chunk_size, c) == Lesser(c * chunk_size, size)

\* The bytes of n chunks from chunk c on: &chunks[c..c + n] joined.
ChunkSpan(src, size, chunk_size, c, n) ==
    Span(src, ByteAt(size, chunk_size, c), ByteAt(size, chunk_size, c + n))

\* Mutant: a fast split at a third, which leaves two chunks unsplit.
ThirdSplitPoints(profile, lo, hi) ==
    IF profile = "fast" THEN {lo + (hi - lo) \div 3} \ {lo}
    ELSE (lo + 1)..(hi - 1)

\* CompressionProfile::stream_split_points
SplitPoints(profile, lo, hi) ==
    LET span == hi - lo IN
    IF profile = "fast" THEN {lo + span \div 2} \ {lo}
    ELSE IF profile = "balanced" /\ span > 4
         THEN {lo + span \div 2, lo + span \div 3, lo + (2 * span) \div 3}
                  \cap (lo + 1)..(hi - 1)
         ELSE (lo + 1)..(hi - 1)

----------------------------------------------------------------------------
(* Packs.                                                                  *)

Packs == [byte8 : Nat, data : Spans, size : PackSizes]

NoPack == [byte8 |-> HistoryNone, data |-> EmptySpan, size |-> 0]

\* write_pack_bytes
PackOf(method, bits, data, size) ==
    [byte8 |-> PackedByte(method, bits), data |-> data, size |-> size]

\* decompress_pack_bytes succeeds
Unpacks(p) == SpanLen(p.data) <= MaxOutput

\* preflate and the transforms behind a recursive pack either give the bytes
\* back or they do not; the packer finds out by decoding.
RecursiveDecodes(s) == {s, Garble(s)}

\* Mutant: the decoded bytes are not compared with the input.
UnvalidatedRecursive(s) ==
    {p \in {PackOf(RecursiveCircuitXz, 0, d, n) :
                d \in RecursiveDecodes(s), n \in PackSizes} : Unpacks(p)}

\* A recursive pack that decodes to its input: the only kind ever offered.
ValidatedRecursive(s) ==
    {p \in {PackOf(RecursiveCircuitXz, 0, d, n) :
                d \in RecursiveDecodes(s), n \in PackSizes} :
        Unpacks(p) /\ p.data = s}

PlainPacks(s) == {PackOf(m, 0, s, n) : m \in StreamCodecs, n \in PackSizes}

\* compress_stream_realtime_pack_bytes: what its smallest candidate may be.
RealtimePacks(s, profile, recursive) ==
    PlainPacks(s) \cup
        IF recursive /\ profile # "fast" /\ SpanLen(s) >= RecursiveMin
        THEN ValidatedRecursive(s) ELSE {}

\* compress_stream_wide_overfit_pack_bytes
WidePacks(s, recursive) ==
    PlainPacks(s) \cup IF recursive THEN ValidatedRecursive(s) ELSE {}

\* compress_adaptive_to_bytes, the packer of the non-realtime mode.
AdaptivePacks(s) ==
    {PackOf(c[1], c[2], s, n) : c \in AdaptiveCodecs, n \in PackSizes}

\* The method a pack was chosen with, which the planner returns beside it.
MethodOf(p) == p.byte8 % 16

----------------------------------------------------------------------------
(* The nodes of a block and the records of a file.                         *)

PieceBytes == 1 + 4 + 1 + 4
GroupBytes == 1 + 4 + 8 + 1 + 4
SliceBytes == 1 + 4 + 8 + 8
SplitBytes == 1 + 1

LeafTokens == [kind : {"piece", "group"}, count : Nat, len : Nat, method : Nat,
               pack : Packs]
SplitTokens == [kind : {"split"}, level : Nat]
SliceTokens == [kind : {"slice"}, count : Nat, offset : Nat, len : Nat]
Tokens == LeafTokens \cup SplitTokens \cup SliceTokens

PieceToken(len, p) ==
    [kind |-> "piece", count |-> 1, len |-> len, method |-> MethodOf(p), pack |-> p]
GroupToken(n, len, p) ==
    [kind |-> "group", count |-> n, len |-> len, method |-> MethodOf(p), pack |-> p]
SplitToken(level) == [kind |-> "split", level |-> level]
SliceToken(n, offset, len) ==
    [kind |-> "slice", count |-> n, offset |-> offset, len |-> len]

Blocks == [first : Nat, count : Nat, len : Nat, history : Nat, node : Seq(Tokens)]

Archives == [wide : BOOLEAN, shared : BOOLEAN, chunk_size : Nat,
             key_piece_interval : Nat, original_size : Nat, total_chunks : Nat,
             block_count : Nat, payload : Packs \cup {NoPack},
             blocks : Seq(Blocks)]

NoArchive == [wide |-> FALSE, shared |-> FALSE, chunk_size |-> 0,
              key_piece_interval |-> 0, original_size |-> 0, total_chunks |-> 0,
              block_count |-> 0, payload |-> NoPack, blocks |-> <<>>]

HasGlobal(arc) == arc.wide \/ arc.shared

\* Records before the first block: the header and the global payload, if any.
Preamble(arc) == IF HasGlobal(arc) THEN 2 ELSE 1

Records(arc) == Preamble(arc) + Len(arc.blocks)

HeaderBytes == 40
BlockHeaderBytes == 4 + 4 + 8 + 1 + 4

TokenBytes(t) ==
    CASE t.kind = "piece" -> PieceBytes + t.pack.size
      [] t.kind = "group" -> GroupBytes + t.pack.size
      [] t.kind = "split" -> SplitBytes
      [] t.kind = "slice" -> SliceBytes

Seqs == INSTANCE SequencesExt

Total(lens) == Seqs!FoldLeft(+, 0, lens)

RecordBytes(arc, i) ==
    IF i = 1 THEN HeaderBytes
    ELSE IF i <= Preamble(arc) THEN 4 + arc.payload.size
    ELSE LET tokens == arc.blocks[i - Preamble(arc)].node
         IN BlockHeaderBytes + Total([j \in DOMAIN tokens |-> TokenBytes(tokens[j])])

\* Where the n-th record ends.
Offset(arc, n) == Total([i \in 1..n |-> RecordBytes(arc, i)])

\* How many bytes there are at least and at most in n records of an archive
\* and a part of the next one.
LeastBytes(f) == Offset(f.arc, f.have)
MostBytes(f) == IF f.have < Records(f.arc) THEN Offset(f.arc, f.have + 1) - 1
                ELSE LeastBytes(f)

----------------------------------------------------------------------------

VARIABLES
    wpc,       \* the writer's next step: idle, share, block, node or save
    writes,    \* inputs compressed so far; the number of the current one
    job,       \* the current call: size, options and profile
    payload,   \* the global or shared payload, or NoPack
    blocks,    \* the blocks written to the output buffer
    todo,      \* subranges of the current block's plan still to be written
    node,      \* node_bytes of the current block
    encoded,   \* encoded_size of what was written of the plan
    hint,      \* the method of the leaf on the larger side of every split
    history,   \* history_method
    disk,      \* the file: its records, and how many of them are there
    stored,    \* the input the file was last written for, or Nothing
    rpc,       \* the reader's next step: idle, read, garbled, head, block or node
    rd,        \* the bytes fs::read has got
    asked,     \* stored when the first of them were read, or Nothing
    last,      \* stored when the last of them were read, or Nothing
    key,       \* start_key_piece
    bi,        \* blocks read so far
    started,   \* the start block was reached
    tok,       \* tokens of the current block read so far
    need,      \* nodes of the current block still to be read
    count,     \* chunk_count decoded of the current block
    part,      \* bytes decoded of the current block
    chunks,    \* total_decoded_chunks
    out,       \* the output
    low,       \* the first input byte any pack was decoded for
    result     \* what the last call to the reader returned

writerVars == <<wpc, writes, job, payload, blocks, todo, node, encoded, hint, history>>
fileVars == <<disk, stored>>
readerVars == <<rpc, rd, asked, last, key, bi, started, tok, need, count, part,
                chunks, out, low, result>>
vars == <<writerVars, fileVars, readerVars>>

NoResult == [kind |-> "none", data |-> EmptySpan]
Error == [kind |-> "err", data |-> EmptySpan]

----------------------------------------------------------------------------
(* The writer.                                                             *)

opts == job.opts
jobChunks == ChunkCount(job.size, opts.chunk_size)
jobBlocks == BlockCount(jobChunks, opts.key_piece_interval)
wholeInput == Span(writes, 0, job.size)

\* The bytes of the chunks lo .. hi-1 of the current input.
Range(lo, hi) == ChunkSpan(writes, job.size, opts.chunk_size, lo, hi - lo)

NoJob == [size |-> 0, profile |-> "balanced",
          opts |-> [chunk_size |-> 1, key_piece_interval |-> 1,
                    max_group_depth |-> 0, max_group_pieces |-> 1,
                    carry_grouping_history |-> FALSE, realtime_mode |-> FALSE,
                    wide_overfitting_circuits |-> FALSE]]

Init ==
    /\ wpc = "idle" /\ writes = 0 /\ job = NoJob /\ payload = NoPack
    /\ blocks = <<>> /\ todo = <<>> /\ node = <<>> /\ encoded = 0
    /\ hint = HistoryNone /\ history = HistoryNone
    /\ disk = [arc |-> NoArchive, have |-> 0] /\ stored = Nothing
    /\ rpc = "idle" /\ rd = disk /\ asked = Nothing /\ last = Nothing
    /\ key = WholeInput
    /\ bi = 0 /\ started = FALSE /\ tok = 0 /\ need = 0 /\ count = 0
    /\ part = EmptySpan /\ chunks = 0 /\ out = EmptySpan /\ low = 0
    /\ result = NoResult

\* compress_adaptive_stream_to_file is called; bad options are refused.
Compress(size, o, profile) ==
    /\ wpc = "idle"
    /\ writes < MaxWrites
    /\ writes' = writes + 1
    /\ job' = [size |-> size, opts |-> o, profile |-> profile]
    /\ wpc' = IF ValidOptions(o) THEN "share" ELSE "idle"
    /\ payload' = NoPack /\ blocks' = <<>> /\ todo' = <<>> /\ node' = <<>>
    /\ encoded' = 0 /\ hint' = HistoryNone /\ history' = HistoryNone
    /\ UNCHANGED <<fileVars, readerVars>>

\* A shared payload is worth a try.
TriesShared ==
    /\ ~opts.wide_overfitting_circuits
    /\ opts.realtime_mode
    /\ jobBlocks > 1
    /\ job.size >= SharedMin
    /\ job.profile # "fast"

\* should_attempt_recursive_on_stream_shared_payload
SharedRecursive == job.profile \in {"deep", "research"}

\* The global payload of a wide stream, the validated one of a shared stream,
\* or none; then the header, whose counts must fit in a u32.
Share ==
    /\ wpc = "share"
    /\ \/ /\ opts.wide_overfitting_circuits
          /\ payload' \in WidePacks(wholeInput, TRUE)
       \/ /\ TriesShared
          /\ \E p \in WidePacks(wholeInput, SharedRecursive) :
                 payload' = IF Unpacks(p) /\ p.data = wholeInput THEN p ELSE NoPack
       \/ /\ ~opts.wide_overfitting_circuits
          /\ ~TriesShared
          /\ payload' = NoPack
    /\ wpc' = IF jobChunks <= U32Max THEN "block" ELSE "idle"
    /\ UNCHANGED <<writes, job, blocks, todo, node, encoded, hint, history,
                   fileVars, readerVars>>

Shared == payload # NoPack /\ ~opts.wide_overfitting_circuits

\* The chunks of block number i, counted from 0.
BlockFirst(i) == i * opts.key_piece_interval

\* Mutant: the last block is taken for a full one.
FullBlockEnd(i) == BlockFirst(i) + opts.key_piece_interval
BlockEnd(i) == Lesser(BlockFirst(i) + opts.key_piece_interval, jobChunks)

\* Mutant: the slice starts at the number of the block, not of its first chunk.
BlockNumberSlice(i) ==
    SliceToken(BlockEnd(i) - BlockFirst(i), i * opts.chunk_size,
               SpanLen(Range(BlockFirst(i), BlockEnd(i))))

\* A slice of the global payload that covers block i.
BlockSlice(i) ==
    SliceToken(BlockEnd(i) - BlockFirst(i), BlockFirst(i) * opts.chunk_size,
               SpanLen(Range(BlockFirst(i), BlockEnd(i))))

\* Block i with its node bytes and the history hint of the block before it.
BlockRecord(i, tokens) ==
    [first |-> BlockFirst(i), count |-> BlockEnd(i) - BlockFirst(i),
     len |-> SpanLen(Range(BlockFirst(i), BlockEnd(i))),
     history |-> IF opts.carry_grouping_history THEN history ELSE HistoryNone,
     node |-> tokens]

\* A block of a wide stream is one slice.
WideBlock ==
    /\ wpc = "block"
    /\ opts.wide_overfitting_circuits
    /\ Len(blocks) < jobBlocks
    /\ blocks' = Append(blocks, BlockRecord(Len(blocks), <<BlockSlice(Len(blocks))>>))
    /\ history' = MethodOf(payload)
    /\ UNCHANGED <<wpc, writes, job, payload, todo, node, encoded, hint,
                   fileVars, readerVars>>

\* The plan of a block of any other stream starts with the whole block.
BeginBlock ==
    /\ wpc = "block"
    /\ ~opts.wide_overfitting_circuits
    /\ Len(blocks) < jobBlocks
    /\ todo' = <<[lo |-> BlockFirst(Len(blocks)), hi |-> BlockEnd(Len(blocks)),
                  depth |-> opts.max_group_depth, root |-> TRUE, main |-> TRUE]>>
    /\ node' = <<>>
    /\ encoded' = 0
    /\ wpc' = "node"
    /\ UNCHANGED <<writes, job, payload, blocks, hint, history, fileVars, readerVars>>

\* stream_pack_range_candidate for a subrange of the plan.
RangePacks(e) ==
    LET s == Range(e.lo, e.hi) IN
    IF opts.realtime_mode
    THEN RealtimePacks(s, job.profile,
             opts.max_group_depth >= 2 /\ payload = NoPack /\ e.root)
    ELSE AdaptivePacks(s)

\* Writes one leaf for the first subrange of todo.
WriteLeaf(token, bytes) ==
    /\ node' = Append(node, token)
    /\ encoded' = encoded + bytes + token.pack.size
    /\ hint' = IF Head(todo).main THEN token.method ELSE hint
    /\ todo' = Tail(todo)
    /\ UNCHANGED <<wpc, writes, job, payload, blocks, history, fileVars, readerVars>>

WritePiece ==
    /\ wpc = "node"
    /\ todo # <<>>
    /\ LET e == Head(todo) IN
       /\ e.hi - e.lo = 1
       /\ \E p \in RangePacks(e) :
              WriteLeaf(PieceToken(SpanLen(Range(e.lo, e.hi)), p), PieceBytes)

\* allow_group_candidate
AllowsGroup(e) ==
    LET span == e.hi - e.lo IN
    /\ span > 1
    /\ e.depth > 0
    /\ span <= opts.max_group_pieces
    /\ span <= 2 \/ e.root \/ span = opts.max_group_pieces

WriteGroup ==
    /\ wpc = "node"
    /\ todo # <<>>
    /\ LET e == Head(todo) IN
       /\ AllowsGroup(e)
       /\ \E p \in RangePacks(e) :
              WriteLeaf(GroupToken(e.hi - e.lo, SpanLen(Range(e.lo, e.hi)), p),
                        GroupBytes)

\* Mutant: depth - 1 instead of depth.saturating_sub(1).
UnsaturatedChildDepth(depth) == depth - 1

\* child_depth
ChildDepth(depth) == IF depth > 0 THEN depth - 1 ELSE 0

\* The two sides of a split are written next, the left one first; the history
\* hint is looked for on the side with more bytes.
WriteSplit ==
    /\ wpc = "node"
    /\ todo # <<>>
    /\ LET e == Head(todo)
           below == ChildDepth(e.depth)
       IN \E mid \in SplitPoints(job.profile, e.lo, e.hi) :
            LET leftLarger == SpanLen(Range(e.lo, mid)) >= SpanLen(Range(mid, e.hi))
                left == [lo |-> e.lo, hi |-> mid, depth |-> below, root |-> FALSE,
                         main |-> e.main /\ leftLarger]
                right == [lo |-> mid, hi |-> e.hi, depth |-> below, root |-> FALSE,
                          main |-> e.main /\ ~leftLarger]
            IN todo' = <<left, right>> \o Tail(todo)
    /\ node' = Append(node, SplitToken(Head(todo).depth))
    /\ encoded' = encoded + SplitBytes
    /\ UNCHANGED <<wpc, writes, job, payload, blocks, hint, history, fileVars,
                   readerVars>>

\* With a shared payload the slice replaces a plan that is not smaller.
EndBlock ==
    /\ wpc = "node"
    /\ todo = <<>>
    /\ LET sliced == Shared /\ SliceBytes <= encoded
           i == Len(blocks)
       IN /\ blocks' = Append(blocks,
                 BlockRecord(i, IF sliced THEN <<BlockSlice(i)>> ELSE node))
          /\ history' = IF sliced THEN RecursiveCircuitXz ELSE hint
    /\ wpc' = "block"
    /\ UNCHANGED <<writes, job, payload, todo, node, encoded, hint, fileVars,
                   readerVars>>

\* The output buffer as a file.
Archive ==
    [wide |-> opts.wide_overfitting_circuits, shared |-> Shared,
     chunk_size |-> opts.chunk_size,
     key_piece_interval |-> opts.key_piece_interval,
     original_size |-> job.size, total_chunks |-> jobChunks,
     block_count |-> jobBlocks, payload |-> payload, blocks |-> blocks]

\* fs::write opens the file, which truncates it.
Create ==
    /\ wpc = "block"
    /\ Len(blocks) = jobBlocks
    /\ disk' = [arc |-> Archive, have |-> 0]
    /\ stored' = [src |-> writes, size |-> job.size, chunk_size |-> opts.chunk_size,
                  key_piece_interval |-> opts.key_piece_interval]
    /\ wpc' = "save"
    /\ UNCHANGED <<writes, job, payload, blocks, todo, node, encoded, hint, history,
                   readerVars>>

\* It goes on writing until all of the archive is there.
Fill ==
    /\ wpc = "save"
    /\ disk.have < Records(disk.arc)
    /\ disk' = [disk EXCEPT !.have = @ + 1]
    /\ wpc' = IF disk.have + 1 = Records(disk.arc) THEN "idle" ELSE "save"
    /\ UNCHANGED <<writes, job, payload, blocks, todo, node, encoded, hint, history,
                   stored, readerVars>>

\* A write fails, or the writer dies: the file keeps what is there.
SaveFails ==
    /\ wpc = "save"
    /\ wpc' = "idle"
    /\ UNCHANGED <<writes, job, payload, blocks, todo, node, encoded, hint, history,
                   fileVars, readerVars>>

\* A codec fails or a length does not fit in a u32: the call returns the error
\* before it touches the file.
CompressFails ==
    /\ wpc \in {"share", "block", "node"}
    /\ wpc' = "idle"
    /\ UNCHANGED <<writes, job, payload, blocks, todo, node, encoded, hint, history,
                   fileVars, readerVars>>

WriterStep ==
    \/ Share \/ WideBlock \/ BeginBlock \/ WritePiece \/ WriteGroup \/ WriteSplit
    \/ EndBlock \/ Create \/ Fill

----------------------------------------------------------------------------
(* The reader.                                                             *)

\* parse_stream_header
HeaderOK(f) ==
    LET a == f.arc IN
    /\ f.have >= 1
    /\ a.chunk_size > 0 /\ a.key_piece_interval > 0
    /\ a.original_size <= MaxOutput
    /\ a.total_chunks = ChunkCount(a.original_size, a.chunk_size)
    /\ a.block_count = BlockCount(a.total_chunks, a.key_piece_interval)

\* The global payload is there and decodes to the size of the input.
PayloadOK(f) ==
    HasGlobal(f.arc) =>
        /\ f.have >= 2
        /\ Unpacks(f.arc.payload)
        /\ SpanLen(f.arc.payload.data) = f.arc.original_size

\* start_key_piece lies inside the stream, on a key-piece boundary.
KeyOK(a, k) ==
    \/ k = WholeInput
    \/ k # WholeInput /\ k < a.total_chunks /\ k % a.key_piece_interval = 0

\* decompress_stream_file or decompress_stream_file_from_key_piece is called
\* and fs::read opens the file.
Open(k) ==
    /\ rpc = "idle"
    /\ rpc' = "read" /\ key' = k /\ started' = (k = WholeInput)
    /\ rd' = [arc |-> NoArchive, have |-> 0] /\ asked' = Nothing /\ last' = Nothing
    /\ bi' = 0 /\ tok' = 0 /\ need' = 0 /\ count' = 0 /\ chunks' = 0 /\ low' = 0
    /\ part' = EmptySpan /\ out' = EmptySpan /\ result' = NoResult
    /\ UNCHANGED <<writerVars, fileVars>>

\* The variables that fs::read leaves alone.
decoderVars == <<key, bi, started, tok, need, count, part, chunks, out, low, result>>

\* The first bytes are read: the header, or a part of it.
ReadFirst ==
    /\ rpc = "read"
    /\ asked = Nothing /\ stored # Nothing
    /\ \E n \in {0, 1} \cap 0..disk.have : rd' = [arc |-> disk.arc, have |-> n]
    /\ asked' = stored /\ last' = stored
    /\ UNCHANGED <<rpc, decoderVars, writerVars, fileVars>>

\* More bytes of the same archive are read.
ReadMore ==
    /\ rpc = "read"
    /\ asked # Nothing /\ last = stored
    /\ rd.have < disk.have
    /\ rd' = [rd EXCEPT !.have = @ + 1]
    /\ UNCHANGED <<rpc, asked, last, decoderVars, writerVars, fileVars>>

\* The first n records of archive a, then those of archive b.
Spliced(a, b, n) ==
    IF n < Preamble(a)
    THEN [a EXCEPT !.payload = b.payload, !.blocks = b.blocks]
    ELSE LET kept == n - Preamble(a) IN
         [a EXCEPT !.blocks = SubSeq(@, 1, kept) \o SubSeq(b.blocks, kept + 1, Len(b.blocks))]

\* What was read ends with a record, and the next one of the file on disk
\* begins at the same byte.
Aligned ==
    /\ rd.have >= 1 /\ rd.have < disk.have
    /\ HasGlobal(rd.arc) <=> HasGlobal(disk.arc)
    /\ LeastBytes(rd) = Offset(disk.arc, rd.have)

\* The file was replaced since the last read, and the new one goes on past the
\* reader's offset: its bytes are taken for the rest of the old one.  Either
\* its next record follows, or what follows is no record.
ReadOther ==
    /\ rpc = "read"
    /\ asked # Nothing /\ last # stored
    /\ MostBytes(disk) > LeastBytes(rd)
    /\ last' = stored
    /\ \/ /\ Aligned
          /\ rd' = [arc |-> Spliced(rd.arc, disk.arc, rd.have), have |-> rd.have + 1]
          /\ UNCHANGED rpc
       \/ /\ rpc' = "garbled"
          /\ UNCHANGED rd
    /\ UNCHANGED <<asked, decoderVars, writerVars, fileVars>>

\* read returns nothing at the end of the file, which may have been replaced by
\* one that ends before the reader's offset.
EndRead ==
    /\ rpc = "read"
    /\ \/ last = stored /\ rd.have = disk.have
       \/ last # stored /\ LeastBytes(disk) <= MostBytes(rd)
    /\ rpc' = "head"
    /\ UNCHANGED <<rd, asked, last, decoderVars, writerVars, fileVars>>

\* What a parser makes of bytes that are no records of an archive is left open.
Misread ==
    /\ rpc = "garbled"
    /\ rpc' = "idle"
    /\ \/ result' = Error
       \/ \E n \in 0..MaxOutput :
              result' = [kind |-> "ok", data |-> Span(Garbled, 0, n)]
    /\ UNCHANGED <<rd, asked, last, key, bi, started, tok, need, count, part, chunks,
                   out, low, writerVars, fileVars>>

\* An Err is returned.
Fail ==
    /\ rpc' = "idle"
    /\ result' = Error
    /\ UNCHANGED <<rd, asked, last, key, bi, started, tok, need, count, part, chunks,
                   out, low>>

\* The part before the first block is read.
ReadHead ==
    /\ rpc = "head"
    /\ IF HeaderOK(rd) /\ PayloadOK(rd) /\ KeyOK(rd.arc, key)
       THEN /\ rpc' = "block"
            /\ low' = IF HasGlobal(rd.arc) THEN rd.arc.payload.data.lo
                      ELSE rd.arc.original_size
            /\ UNCHANGED <<rd, asked, last, key, bi, started, tok, need, count, part,
                           chunks, out, result>>
       ELSE Fail
    /\ UNCHANGED <<writerVars, fileVars>>

\* Mutant: blocks are read from the file when they are needed.
LazyBlock == IF bi + 1 \in DOMAIN disk.arc.blocks THEN disk.arc.blocks[bi + 1]
             ELSE rd.arc.blocks[bi + 1]

Block == rd.arc.blocks[bi + 1]

\* The block record is there and has the place and the length it must have.
BlockOK ==
    LET a == rd.arc IN
    /\ Preamble(a) + bi + 1 <= rd.have
    /\ Block.first = bi * a.key_piece_interval
    /\ Block.count > 0
    /\ Block.first + Block.count <= a.total_chunks
    /\ Block.len = SpanLen(ChunkSpan(1, a.original_size, a.chunk_size,
                                     Block.first, Block.count))

\* Mutant: only blocks that end before the start point are skipped.
SkipsEarlierBlock == ~started /\ Block.first + Block.count < key

\* The start block was not reached yet.
SkipsBlock == ~started /\ Block.first # key

\* A block before the start block is skipped, any other is decoded.
ReadBlock ==
    /\ rpc = "block"
    /\ bi < rd.arc.block_count
    /\ IF ~BlockOK THEN Fail
       ELSE IF SkipsBlock
       THEN /\ bi' = bi + 1
            /\ UNCHANGED <<rpc, rd, asked, last, key, started, tok, need, count, part,
                           chunks, out, low, result>>
       ELSE /\ started' = TRUE
            /\ rpc' = "node" /\ tok' = 0 /\ need' = 1 /\ count' = 0
            /\ part' = EmptySpan
            /\ UNCHANGED <<rd, asked, last, key, bi, chunks, out, low, result>>
    /\ UNCHANGED <<writerVars, fileVars>>

\* One node was decoded to data, n chunks of it.
Decoded(data, n, opened) ==
    /\ tok' = tok + 1
    /\ need' = need - 1 + opened
    /\ part' = Concat(part, data)
    /\ count' = count + n
    /\ low' = IF data = EmptySpan THEN low ELSE Lesser(low, data.lo)
    /\ UNCHANGED <<rpc, rd, asked, last, key, bi, started, chunks, out, result>>

\* The pack decodes to the announced length and its ninth byte is the
\* announced method.
LeafOK(t) ==
    /\ Unpacks(t.pack)
    /\ SpanLen(t.pack.data) = t.len
    /\ FromU8(t.pack.byte8) # NoMethod
    /\ FromU8(t.pack.byte8) = t.method

\* The slice lies inside the decoded global payload.
SliceOK(t) ==
    /\ HasGlobal(rd.arc)
    /\ t.offset + t.len <= SpanLen(rd.arc.payload.data)

\* decode_stream_node reads one more node of the block.
ReadToken ==
    /\ rpc = "node"
    /\ need > 0
    /\ IF tok >= Len(Block.node) THEN Fail
       ELSE LET t == Block.node[tok + 1] IN
            \/ /\ t.kind \in {"piece", "group"}
               /\ IF LeafOK(t) THEN Decoded(t.pack.data, t.count, 0) ELSE Fail
            \/ /\ t.kind = "split"
               /\ Decoded(EmptySpan, 0, 2)
            \/ /\ t.kind = "slice"
               /\ IF SliceOK(t)
                  THEN Decoded(SubSpan(rd.arc.payload.data, t.offset,
                                       t.offset + t.len), t.count, 0)
                  ELSE Fail
    /\ UNCHANGED <<writerVars, fileVars>>

\* The root of the block is complete.
EndNode ==
    /\ rpc = "node"
    /\ need = 0
    /\ IF tok = Len(Block.node) /\ count = Block.count /\ SpanLen(part) = Block.len
       THEN /\ out' = Concat(out, part)
            /\ chunks' = chunks + count
            /\ bi' = bi + 1
            /\ rpc' = "block"
            /\ UNCHANGED <<rd, asked, last, key, started, tok, need, count, part, low,
                           result>>
       ELSE Fail
    /\ UNCHANGED <<writerVars, fileVars>>

\* No bytes are left over, and all of the input or the start block was found.
EndChecks ==
    /\ rd.have = Records(rd.arc)
    /\ IF key = WholeInput
       THEN chunks = rd.arc.total_chunks /\ SpanLen(out) = rd.arc.original_size
       ELSE started

Finish ==
    /\ rpc = "block"
    /\ bi = rd.arc.block_count
    /\ IF EndChecks
       THEN /\ rpc' = "idle"
            /\ result' = [kind |-> "ok", data |-> out]
            /\ UNCHANGED <<rd, asked, last, key, bi, started, tok, need, count, part,
                           chunks, out, low>>
       ELSE Fail
    /\ UNCHANGED <<writerVars, fileVars>>

ReaderStep ==
    \/ ReadFirst \/ ReadMore \/ ReadOther \/ EndRead \/ Misread
    \/ ReadHead \/ ReadBlock \/ ReadToken \/ EndNode \/ Finish

----------------------------------------------------------------------------

Next ==
    \/ \E size \in 0..MaxSize, o \in OptionSpace, profile \in Profiles :
           Compress(size, o, profile)
    \/ WriterStep
    \/ CompressFails
    \/ SaveFails
    \/ \E k \in Starts : Open(k)
    \/ ReaderStep

\* The writer is a thread that runs: a step of it that stays possible is taken.
\* Nobody has to call, and nothing has to fail.
Spec == Init /\ [][Next]_vars /\ WF_vars(WriterStep)

----------------------------------------------------------------------------
(* Properties.                                                             *)

Promise == INSTANCE RestartableArchive WITH
    content <- stored,
    mixed <- (last # asked),
    from <- key,
    answer <- IF rpc = "idle" THEN result
              ELSE [kind |-> IF rpc \in {"read", "garbled"} THEN "reading" ELSE "pending",
                    data |-> EmptySpan]

\* What todo holds: adjacent subranges of the current block.
Subranges == [lo : Nat, hi : Nat, depth : Nat, root : BOOLEAN, main : BOOLEAN]

WriterTypeOK ==
    /\ wpc \in {"idle", "share", "block", "node", "save"}
    /\ writes \in Nat
    /\ job \in [size : Nat, opts : Options,
                profile : {"fast", "balanced", "deep", "research"}]
    /\ payload \in Packs \cup {NoPack}
    /\ blocks \in Seq(Blocks)
    /\ todo \in Seq(Subranges)
    /\ node \in Seq(Tokens)
    /\ encoded \in Nat /\ hint \in Nat /\ history \in Nat

FileTypeOK ==
    /\ disk \in [arc : Archives, have : Nat]
    /\ stored \in Promise!Contents \cup {Nothing}

ReaderTypeOK ==
    /\ rpc \in {"idle", "read", "garbled", "head", "block", "node"}
    /\ rd \in [arc : Archives, have : Nat]
    /\ {asked, last} \subseteq Promise!Contents \cup {Nothing}
    /\ key \in Nat \cup {WholeInput}
    /\ bi \in Nat /\ started \in BOOLEAN /\ tok \in Nat /\ need \in Nat
    /\ count \in Nat /\ part \in Spans /\ chunks \in Nat /\ out \in Spans
    /\ low \in Nat
    /\ result \in [kind : {"none", "ok", "err"}, data : Spans]

\* The types of the writer's, the file's and the reader's variables
\* (CompressionContext and the locals of stream.rs:942-1344 and 1371-1531).
TypeOK == WriterTypeOK /\ FileTypeOK /\ ReaderTypeOK

\* Whatever a reader is given is the input from its start point on, provided
\* that every byte it read belongs to the same write: no read of a file that is
\* torn, still being filled, cut off or replaced before it ends, and no block
\* packed by a codec that does not give the bytes back, ever yields anything but
\* that or an error (stream.rs:1361-1544).
ReaderGetsTheInput ==
    (result.kind = "ok" /\ last = asked) =>
        /\ asked # Nothing
        /\ Promise!StartsKeyPiece(asked, key)
        /\ result.data = Promise!Suffix(asked, key)

\* The packs of a block hold a packed byte that is no plain method id.
BitPacked(block) ==
    \E i \in DOMAIN block.node :
        /\ block.node[i].kind \in {"piece", "group"}
        /\ FromU8(block.node[i].pack.byte8) = NoMethod

\* A reader that has got all the bytes of one write, and no others, fails only
\* if the input is above the output bound, or if a block at or after the start
\* point holds a bit-packed pack; whatever becomes of the file meanwhile, all the
\* checks of the reader are met by what the writer wrote (stream.rs:706-923,
\* 1371-1544).
ReadFailsOnlyForKnownReasons ==
    result.kind = "err" =>
        \/ last # asked
        \/ rd.have < Records(rd.arc)
        \/ asked.size > MaxOutput
        \/ ~Promise!StartsKeyPiece(asked, key)
        \/ \E i \in DOMAIN rd.arc.blocks :
               /\ key = WholeInput \/ rd.arc.blocks[i].first >= key
               /\ BitPacked(rd.arc.blocks[i])

\* Without a global payload no pack of an earlier block is decoded for a reader
\* that starts at a key piece: the blocks before it are skipped unread, which is
\* what the key pieces are for (stream.rs:1463-1469).
NoReplayBeforeKeyPiece ==
    (key # WholeInput /\ ~HasGlobal(rd.arc) /\ last = asked /\ rpc \in {"block", "node"}) =>
        low >= ByteAt(rd.arc.original_size, rd.arc.chunk_size, key)

\* The same for every archive, as the documents have it: a receiver can start
\* from a key piece "without replaying full history" (README.md:191).
RestartNeedsNoHistory ==
    (key # WholeInput /\ last = asked /\ rpc \in {"block", "node"}) =>
        low >= ByteAt(rd.arc.original_size, rd.arc.chunk_size, key)

\* A complete archive decodes: "Every selected representation must decode back
\* to the exact original bytes" (README.md:49).
EveryArchiveReads ==
    ~(/\ result.kind = "err"
      /\ last = asked
      /\ rd.have = Records(rd.arc)
      /\ Promise!StartsKeyPiece(asked, key))

\* A call to the writer returns, even if no error ever ends it: the planner has
\* a candidate for every subrange it meets, so that it never gets stuck ("failed
\* to build stream split candidate"), every split leaves two smaller subranges,
\* and the loop over the blocks ends (stream.rs:493-609, 1232-1313).
WriterReturns == wpc # "idle" ~> wpc = "idle"

\* The container implements the restartable archive: what a reader may get, of
\* which write and when, is what RestartableArchive allows (stream.rs:1361-1544).
ImplementsArchive == Promise!ASpec

================================================================================
