------------------------------ MODULE PackSelection ------------------------------
(***************************************************************************)
(* One call of compress_adaptive_to_bytes (zbit-rs/src/pack/core.rs): the  *)
(* candidate encodings of an input are built stage by stage, gates decide  *)
(* which of the costly ones are tried, choose_best_method takes one of     *)
(* them by its estimated size, and write_pack_bytes writes the .zbpk pack. *)
(*                                                                         *)
(* An input is its size, its number of distinct bytes and its layout (the  *)
(* run of CRC32 frames or the stored tensor entries found in it).  What a  *)
(* codec makes of bytes is the length of its output, one of a set of       *)
(* lengths given as a constant.                                            *)
(***************************************************************************)
EXTENDS Integers, FiniteSets, Sequences

CONSTANTS
    Inputs,         \* the inputs of the calls
    PlainSizes(_),  \* what deflate, zstd, brotli or Huffman make of n bytes
    XzSizes(_),     \* what xz makes of n bytes
    ModelSizes(_)   \* what a structural model of n bytes takes

\* Mutant of HeaderBytes: two-byte varints are thought to be enough.
ShortHeaderBytes == 9 + 4 * 2

HeaderBytes == 9 + 4 * 5        \* ZBPK_HEADER_BYTES, an estimate
FixedHeader == 4 + 2 + 2 + 1    \* magic, version, flags and the packed byte
MiB == 1024 * 1024

\* A run of frames: what is before and behind it, the length of every chunk but
\* a shorter last one, how many are of that length, and how many there are.
FrameRuns == [prefix : Nat, suffix : Nat, chunk : Nat, full : Nat, tail : Nat,
              total : Nat]
NoFrames == [prefix |-> 0, suffix |-> 0, chunk |-> 0, full |-> 0, tail |-> 0,
             total |-> 0]
InputSpace == [size : Nat, unique : 0..256, frames : FrameRuns, zip : BOOLEAN]

\* Length, tag and checksum around the data of every frame.
FrameOverhead == 4 + 4 + 4

ASSUME InputAssumption ==
    /\ Inputs \subseteq InputSpace
    /\ \A i \in Inputs : LET f == i.frames IN
           /\ i.size \div (1024 * MiB) < 32     \* 32 GiB, see core.rs:30-31
           /\ i.unique <= i.size /\ (i.size > 0 => i.unique > 0)
           /\ f # NoFrames =>
                 /\ f.total >= 2 /\ f.total - f.full \in {0, 1}
                 /\ i.size = f.prefix + f.suffix + f.full * f.chunk + f.tail
                                + f.total * FrameOverhead
    /\ \A i \in Inputs : /\ PlainSizes(i.size) \subseteq Nat
                         /\ XzSizes(i.size) \subseteq Nat
                         /\ ModelSizes(i.size) \subseteq Nat

----------------------------------------------------------------------------
(* Sizes.                                                                  *)

\* varint_u64_len, for values below 2^35: a byte more from 2^7, 2^14, 2^21 and
\* 2^28 on.
VarintSteps == {128, 16384, 2097152, 268435456}
VarintLen(v) == 1 + Cardinality({t \in VarintSteps : v >= t})

CeilDiv(n, d) == (n + d - 1) \div d

\* Mutant of BitsNeeded: the width of the number count itself, 9 bits for 256.
BitsOfCount(count) == 1 + Cardinality({k \in 1..8 : count >= 2 ^ k})

\* bits_needed_for_count: the width of an index into count symbols, a bit more for
\* every power of two that count is above of.
BitsNeeded(count) == 1 + Cardinality({k \in 1..7 : count > 2 ^ k})

Smallest(S) == CHOOSE x \in S : \A y \in S : x <= y

\* The payload of a run of frames, without their lengths, tags and checksums.
FramedPayload(f) == f.full * f.chunk + f.tail

\* framed_dictionary_size
FramedDictionary(f) ==
    4 + f.prefix + f.suffix + VarintLen(f.prefix) + VarintLen(f.suffix)
      + VarintLen(f.chunk) + VarintLen(f.full) + VarintLen(f.tail)
      + VarintLen(f.total)

----------------------------------------------------------------------------
(* Candidates: the header fields of the pack a method would write.         *)

Absent == [bits |-> 0, unique |-> 0, dict |-> 0, load |-> -1]
Candidate(bits, unique, dict, load) ==
    [bits |-> bits, unique |-> unique, dict |-> dict, load |-> load]
Plain(load) == Candidate(0, 0, 0, load)
Model(dict, load) == Candidate(0, 0, dict, load)

\* The order in which choose_best_method looks at them.
Order == <<"RawCopy", "IndexedRaw", "IndexedHuffman", "RawDeflate", "RawZstd", "RawXz",
           "RawBrotli", "FramedRaw", "RecursiveCircuitXz", "MonotonicDelta",
           "PrimeSequence", "AdaptiveTransformedXz", "ExactBlockAtlas",
           "ZipTensorSplit">>
Methods == {Order[i] : i \in DOMAIN Order}
Structural == {"RecursiveCircuitXz", "MonotonicDelta", "PrimeSequence",
               "AdaptiveTransformedXz", "ExactBlockAtlas", "ZipTensorSplit"}

Built(c) == c.load >= 0

\* Mutant of Estimate: the dictionary is forgotten.
PayloadEstimate(c) == HeaderBytes + c.load

\* The size choose_best_method compares.
Estimate(c) == HeaderBytes + c.dict + c.load

\* The size write_pack_bytes writes for an input of n bytes.
PackLength(c, n) ==
    FixedHeader + VarintLen(c.unique) + VarintLen(n) + VarintLen(c.dict)
        + VarintLen(c.load) + c.dict + c.load

\* The dictionary sizes of the models, from the shortest to the longest.
RecursiveDictionaries(f) == {FramedDictionary(f) + 20, FramedDictionary(f) + 200}
MonotonicDictionaries == {5, 33}
PrimeDictionaries == {4, 16}
AdaptiveDictionaries(n) == {3 + VarintLen(n), 11 + VarintLen(n)}
AtlasDictionaries == {9, 41}
ZipDictionaries == {20, 60}

----------------------------------------------------------------------------

VARIABLES
    stage,   \* begin, prelude, models, xz, choose, write, done or failed
    input,   \* the input of the call
    cand,    \* the candidates built so far
    cheap,   \* the length of the xz preset 3 payload
    easy9,   \* the length an xz preset 9 payload has
    matrix,  \* the length the best entry of the tuning matrix has
    tier,    \* why the matrix was skipped, or "none"
    split,   \* what the two parts of a stored tensor ZIP compress to
    chosen,  \* the method chosen
    pack     \* the header fields of the pack written

vars == <<stage, input, cand, cheap, easy9, matrix, tier, split, chosen, pack>>

n == input.size

Init ==
    /\ stage = "begin" /\ cand = [m \in Methods |-> Absent]
    /\ input = [size |-> 0, unique |-> 0, frames |-> NoFrames, zip |-> FALSE]
    /\ cheap = 0 /\ easy9 = 0 /\ matrix = 0 /\ tier = "none" /\ split = Absent
    /\ chosen = "RawCopy" /\ pack = Absent

Begin(i) ==
    /\ stage \in {"begin", "done", "failed"}
    /\ input' = i
    /\ stage' = "prelude"
    /\ cand' = [m \in Methods |-> Absent]
    /\ cheap' = 0 /\ easy9' = 0 /\ matrix' = 0 /\ tier' = "none" /\ split' = Absent
    /\ chosen' = "RawCopy" /\ pack' = Absent

\* Mutant of IndexStream: the last byte, which the indices fill only in part, is lost.
FullBytesIndexStream ==
    Candidate(BitsNeeded(input.unique), input.unique, input.unique,
              (n * BitsNeeded(input.unique)) \div 8)

\* build_index_stream
IndexStream == Candidate(BitsNeeded(input.unique), input.unique, input.unique,
                         CeilDiv(n * BitsNeeded(input.unique), 8))

\* build_huffman_stream: nothing for an empty input or for codes above 56 bits,
\* and never more than the fixed-width indices.
HuffmanStreams ==
    {Absent} \cup
    {Candidate(0, input.unique, input.unique * 2, load) :
        load \in {s \in PlainSizes(n) : n > 0 /\ CeilDiv(n, 8) <= s /\ s <= IndexStream.load}}

\* The gains over preset 3 and preset 9 that the comments call plausible bound
\* what the matrix may reach (core.rs:1935-1945).
Tunable(c, e, m) == m * 8 >= c * 5 /\ m * 16 >= e * 15

\* The candidates that need no model of the input, built concurrently.
Prelude ==
    /\ stage = "prelude"
    /\ \E huffman \in HuffmanStreams, d \in PlainSizes(n), z \in PlainSizes(n),
          brotli \in {Absent} \cup {Plain(b) : b \in PlainSizes(n)},
          c \in XzSizes(n), e \in XzSizes(n), m \in XzSizes(n) :
         /\ n = 0 \/ n > 8 * MiB => brotli = Absent
         /\ Tunable(c, e, m)
         /\ cheap' = c /\ easy9' = e /\ matrix' = m
         /\ cand' = [cand EXCEPT !.RawCopy = Plain(n),
                                 !.IndexedRaw = IndexStream,
                                 !.IndexedHuffman = huffman,
                                 !.RawDeflate = Plain(d),
                                 !.RawZstd = Plain(z),
                                 !.RawBrotli = brotli,
                                 !.FramedRaw =
                                     IF input.frames = NoFrames THEN Absent
                                     ELSE Model(FramedDictionary(input.frames),
                                                FramedPayload(input.frames))]
    /\ stage' = "models"
    /\ UNCHANGED <<input, tier, split, chosen, pack>>

\* best_prelude_candidate_bytes
BestPrelude ==
    Smallest({Estimate(cand[m]) :
                 m \in {x \in {"RawCopy", "IndexedRaw", "IndexedHuffman", "RawDeflate",
                               "RawZstd", "RawBrotli"} : Built(cand[x])}}
             \cup {HeaderBytes + cheap})

\* build_recursive_circuit_stream
RecursiveStreams ==
    {Absent} \cup
    {Model(d, load) : d \in IF input.frames = NoFrames \/ FramedPayload(input.frames) < 6
                            THEN {} ELSE RecursiveDictionaries(input.frames),
                      load \in ModelSizes(n)}

\* build_prime_sequence_stream, which an environment variable enables
PrimeStreams ==
    {Absent} \cup {Model(d, 0) : d \in IF n > 0 THEN PrimeDictionaries ELSE {}}

\* build_monotonic_delta_stream
MonotonicStreams(prime) ==
    {Absent} \cup {Model(d, load) : d \in IF Built(prime) \/ n < 3 THEN {}
                                          ELSE MonotonicDictionaries,
                                    load \in ModelSizes(n)}

\* build_adaptive_transformed_xz_stream
AdaptiveStreams(recursive) ==
    IF Built(recursive) \/ n < 128 * 1024 \/ cheap * 10 <= n * 3 THEN {Absent}
    ELSE {IF load < n THEN Model(d, load) ELSE Absent :
             d \in AdaptiveDictionaries(n), load \in ModelSizes(n)}

\* build_exact_block_atlas_stream
AtlasStreams ==
    {Absent} \cup
    {c \in {Model(d, load) : d \in AtlasDictionaries, load \in ModelSizes(n)} :
        n >= 4096 /\ Estimate(c) < BestPrelude}

\* build_zip_tensor_split_stream: the metadata and the tensor bytes together are
\* as long as the input.
ZipGate == HeaderBytes + n + 32 < BestPrelude

ZipStream(c) ==
    IF Built(c) /\ ZipGate /\ Estimate(c) < BestPrelude THEN c ELSE Absent

\* What the two parts would compress to, if the input is such an archive.
ZipSplits ==
    IF input.zip THEN {Model(d, load) : d \in ZipDictionaries, load \in ModelSizes(n)}
    ELSE {Absent}

Models ==
    /\ stage = "models"
    /\ \E recursive \in RecursiveStreams, prime \in PrimeStreams :
       \E monotonic \in MonotonicStreams(prime),
          adaptive \in AdaptiveStreams(recursive),
          atlas \in AtlasStreams, zip \in ZipSplits :
         /\ split' = zip
         /\ cand' = [cand EXCEPT !.RecursiveCircuitXz = recursive,
                                 !.PrimeSequence = prime,
                                 !.MonotonicDelta = monotonic,
                                 !.AdaptiveTransformedXz = adaptive,
                                 !.ExactBlockAtlas = atlas,
                                 !.ZipTensorSplit = ZipStream(zip)]
    /\ stage' = "xz"
    /\ UNCHANGED <<input, cheap, easy9, matrix, tier, chosen, pack>>

----------------------------------------------------------------------------
(* Whether the xz tuning matrix is run.                                    *)

CheapTotal == HeaderBytes + cheap
BuiltStructural == {m \in Structural : Built(cand[m])}

\* Some structural candidate is at least 1 KiB below the bound (best_structural_total).
StructuralBelow(bound) ==
    \E m \in BuiltStructural : Estimate(cand[m]) + 1024 <= bound

\* Mutant of AdaptiveClearlyWins: the margin is on the wrong side.
AdaptiveNearlyWins ==
    LET a == cand["AdaptiveTransformedXz"] IN Built(a) /\ a.load < cheap + 1024

AdaptiveClearlyWins ==
    LET a == cand["AdaptiveTransformedXz"] IN Built(a) /\ a.load + 1024 < cheap

\* Mutant of BeatsEasy9: nothing is left for what the matrix gains over preset 9.
BeatsEasy9Barely == StructuralBelow(HeaderBytes + easy9)

BeatsCheapWidely == StructuralBelow((CheapTotal * 5) \div 8)
BeatsCheap == StructuralBelow(CheapTotal - 1)
BeatsEasy9 == LET t == HeaderBytes + easy9 IN StructuralBelow(t - t \div 16)

Tier ==
    IF AdaptiveClearlyWins THEN "adaptive"
    ELSE IF BeatsCheapWidely THEN "widely"
    ELSE IF BeatsCheap /\ BeatsEasy9 THEN "easy9"
    ELSE "none"

\* A probe stands in for the matrix when that is skipped.
TuneXz ==
    /\ stage = "xz"
    /\ tier' = Tier
    /\ cand' = [cand EXCEPT !.RawXz =
                   Plain(CASE Tier \in {"adaptive", "widely"} -> cheap
                           [] Tier = "easy9" -> IF easy9 < cheap THEN easy9 ELSE cheap
                           [] Tier = "none" -> matrix)]
    /\ stage' = "choose"
    /\ UNCHANGED <<input, cheap, easy9, matrix, split, chosen, pack>>

\* Mutant of Evaluated: a candidate that was not built takes part.
EvaluatedUnbuilt(m) == m \in Methods

\* What choose_best_method compares: RawCopy, where it starts, and every candidate
\* that was built.  IndexedCircuit is never evaluated, as should_evaluate_circuit
\* asks for symbols of more than 8 bits.
Evaluated(m) == m = "RawCopy" \/ Built(cand[m])

\* Each takes the place of the best one so far if its estimate is smaller: the
\* first one of the smallest remains.
FirstOfSmallest(k) ==
    \A j \in DOMAIN Order : Evaluated(Order[j]) =>
        /\ Estimate(cand[Order[k]]) <= Estimate(cand[Order[j]])
        /\ j < k => Estimate(cand[Order[k]]) < Estimate(cand[Order[j]])

\* choose_best_method
Choose ==
    /\ stage = "choose"
    /\ \E k \in DOMAIN Order :
         /\ Evaluated(Order[k]) /\ FirstOfSmallest(k)
         /\ chosen' = Order[k]
    /\ stage' = "write"
    /\ UNCHANGED <<input, cand, cheap, easy9, matrix, tier, split, pack>>

\* write_pack_bytes, which fails if the chosen stream is not there.
Write ==
    /\ stage = "write"
    /\ IF Built(cand[chosen])
       THEN stage' = "done" /\ pack' = cand[chosen]
       ELSE stage' = "failed" /\ pack' = Absent
    /\ UNCHANGED <<input, cand, cheap, easy9, matrix, tier, split, chosen>>

\* A codec returns an error, which ends the call.
CodecFails ==
    /\ stage \in {"prelude", "models", "xz"}
    /\ stage' = "failed"
    /\ UNCHANGED <<input, cand, cheap, easy9, matrix, tier, split, chosen, pack>>

Next ==
    \/ \E i \in Inputs : Begin(i)
    \/ Prelude \/ Models \/ TuneXz \/ Choose \/ Write
    \/ CodecFails

Spec == Init /\ [][Next]_vars

----------------------------------------------------------------------------
(* Properties.                                                             *)

\* The checks of the header fields in decompress_pack_bytes.
HeaderAccepted(m, h) ==
    CASE m = "RawCopy" -> h = Plain(n)
      [] m = "IndexedRaw" -> h.bits > 0 /\ h.dict = h.unique /\ h.load * 8 >= n * h.bits
      [] m = "IndexedHuffman" -> h.bits = 0 /\ h.dict = 2 * h.unique
      [] m \in {"RawDeflate", "RawZstd", "RawXz", "RawBrotli"} -> h = Plain(h.load)
      [] OTHER -> h.bits = 0 /\ h.unique = 0

CandidateSpace == [bits : 0..8, unique : 0..256, dict : Nat, load : Int]

\* The types of the locals of compress_adaptive_to_bytes_inner.
TypeOK ==
    /\ stage \in {"begin", "prelude", "models", "xz", "choose", "write", "done", "failed"}
    /\ input \in InputSpace
    /\ cand \in [Methods -> CandidateSpace]
    /\ cheap \in Nat /\ easy9 \in Nat /\ matrix \in Nat
    /\ tier \in {"none", "adaptive", "widely", "easy9"}
    /\ split \in CandidateSpace /\ chosen \in Methods /\ pack \in CandidateSpace

\* What is written can be read: the header fields of the chosen method pass the
\* decoder's checks of that method, and the chosen stream is always there, so
\* that the Internal errors of write_pack_bytes never happen (core.rs:1353-1491,
\* 2229-2390).
DecoderAcceptsHeader == stage = "done" => HeaderAccepted(chosen, pack)
WriteSucceeds == [][Write => stage' = "done"]_vars

\* The fixed estimate of the header really is the upper bound its comment
\* promises (core.rs:26-33), so that no pack is larger than what it was
\* selected for.
PackWithinEstimate == stage = "done" => PackLength(pack, n) <= Estimate(pack)

\* As the header is estimated alike for every method, a pack may be larger than
\* the raw copy it replaced; but by no more than two bytes, or three when both its
\* dictionary and its payload reach 256 MiB.
NearlyNeverWorseThanRaw ==
    stage = "done" =>
        PackLength(pack, n) <=
            PackLength(Plain(n), n)
                + (IF pack.dict >= 256 * MiB /\ pack.load >= 256 * MiB THEN 3 ELSE 2)

\* "Whenever the matrix is skipped the probe payload stands in as the raw-xz
\* candidate and loses selection" (core.rs:1945-1946).
ProbeLoses == (stage = "done" /\ tier # "none") => chosen # "RawXz"

\* Where the matrix is skipped for a structural candidate that is far smaller than
\* a probe, no entry of the matrix could have been smaller than the pack.
StructuralTiersAreSafe ==
    (stage = "done" /\ tier \in {"widely", "easy9"}) =>
        Estimate(pack) < HeaderBytes + matrix

\* The same for every tier: skipping leaves "the ratio unchanged"
\* (core.rs:1946).
SkippingIsSafe ==
    (stage = "done" /\ tier # "none") => Estimate(pack) <= HeaderBytes + matrix

\* A split of a stored tensor archive that would be the smallest pack is written:
\* the compressor "computes multiple candidate encodings, compares their full
\* serialized sizes, and writes the smallest valid one"
\* (papers/zbit_algorithm_structure.md:380), and the split is only unavailable
\* when it "cannot beat the current prelude candidate" (README.md:328).
SmallestSplitIsWritten ==
    (stage = "done" /\ Built(split)) => Estimate(pack) <= Estimate(split)

================================================================================
