------------------------------ MODULE SymbolStreams ------------------------------
(***************************************************************************)
(* The two symbol coders of zbit-rs/src/pack/core.rs: fixed-width indices  *)
(* (build_index_stream) and canonical Huffman codes (build_huffman_stream),*)
(* and the reading of both in decompress_pack_bytes.  One iteration of the *)
(* merging loop, and one decoded index or bit, is a step.                  *)
(*                                                                         *)
(* A payload is its length and the set of its bits that are 1, a bit being *)
(* a byte number and the weight of the bit in that byte: the indices fill  *)
(* a byte from its lowest bit, the codes from its highest.                 *)
(***************************************************************************)
EXTENDS PowersOfTwo, FiniteSets, Sequences, FiniteSetsExt, Functions, SequencesExt

CONSTANTS
    Inputs,        \* the inputs of the calls, sequences of bytes
    MaxCodeBits    \* MAX_HUFFMAN_CODE_BITS

ASSUME InputAssumption == Inputs \subseteq Seq(0..255) /\ MaxCodeBits \in Nat \ {0}

Bits == {0, 1}
Payloads == [size : Nat, ones : SUBSET (Nat \X (0..7))]
NoPayload == [size |-> 0, ones |-> {}]

CeilDiv(n, d) == (n + d - 1) \div d

\* bits_needed_for_count: the width of an index into count symbols.
BitsNeeded(count) ==
    IF count <= 1 THEN 1 ELSE CHOOSE b \in 1..8 : Pow2[b - 1] < count /\ count <= Pow2[b]

\* The elements of a set of numbers in growing order.
Ascending(S) == [i \in 1..Cardinality(S) |-> CHOOSE x \in S : Cardinality({y \in S : y < x}) = i - 1]

----------------------------------------------------------------------------
(* The index stream.                                                       *)

\* The distinct bytes of an input in ascending order, and how often each occurs.
UniqueSymbols(in) == Ascending(ToSet(in))
Frequency(in, s) == Cardinality({i \in DOMAIN in : in[i] = s})

\* pack_symbol_index for every symbol in turn.
IndexPayload(in, symbols, bits) ==
    LET IdAt(p) == (CHOOSE k \in DOMAIN symbols : symbols[k] = in[p \div bits + 1]) - 1
    IN [size |-> CeilDiv(Len(in) * bits, 8),
        ones |-> {<<p \div 8, p % 8>> :
                     p \in {q \in 0..(Len(in) * bits - 1) :
                               (IdAt(q) \div Pow2[q % bits]) % 2 = 1}}]

\* unpack_symbol_index: a round of its loop for every bit.
IndexAt(payload, offset, bits) ==
    LET BitIs1(i) == <<(offset + i) \div 8, (offset + i) % 8>> \in payload.ones
        value[i \in 0..bits] ==
            IF i = 0 THEN 0 ELSE value[i - 1] + (IF BitIs1(i - 1) THEN Pow2[i - 1] ELSE 0)
    IN value[bits]

----------------------------------------------------------------------------
(* Huffman codes.  A tree of the heap is its frequency, its tie breaker    *)
(* and the depth of every symbol in it.                                    *)

Leaf(in, symbols, k) ==
    [freq |-> Frequency(in, symbols[k]), tie |-> k - 1, depth |-> [x \in {symbols[k]} |-> 0]]

\* Mutant of Before: the heap yields the most frequent tree first.
BeforeInMaxHeap(s, t) == s.freq > t.freq \/ (s.freq = t.freq /\ s.tie < t.tie)

\* The order in which the heap yields its trees.
Before(s, t) == s.freq < t.freq \/ (s.freq = t.freq /\ s.tie < t.tie)
First(trees) == CHOOSE t \in trees : \A u \in trees \ {t} : Before(t, u)

Joined(s, t, tie) ==
    [freq |-> s.freq + t.freq, tie |-> tie,
     depth |-> [x \in DOMAIN s.depth \cup DOMAIN t.depth |->
                   1 + (IF x \in DOMAIN s.depth THEN s.depth[x] ELSE t.depth[x])]]

\* The entries of build_canonical_codes in their order: by length, then by symbol.
Entry(len, symbol) == len * 256 + symbol
EntryLength(entry) == entry \div 256
EntrySymbol(entry) == entry % 256
Entries(symbols, lengths) == Ascending({Entry(lengths[k], symbols[k]) : k \in DOMAIN symbols})

\* Its loop: the code of every entry, a number.
CodeNumbers(entries) ==
    LET code[k \in DOMAIN entries] ==
            IF k = 1 THEN 0
            ELSE (code[k - 1] + 1) * Pow2[EntryLength(entries[k]) - EntryLength(entries[k - 1])]
    IN code

\* The bits of a code, the highest first.
BitsOf(code, len) == [i \in 1..len |-> (code \div Pow2[len - i]) % 2]

\* build_canonical_codes: the code of every symbol.
CanonicalCodes(symbols, lengths) ==
    LET entries == Entries(symbols, lengths)
        PlaceOf(x) == CHOOSE k \in DOMAIN entries : EntrySymbol(entries[k]) = x
    IN [x \in ToSet(symbols) |->
           BitsOf(CodeNumbers(entries)[PlaceOf(x)], EntryLength(entries[PlaceOf(x)]))]

\* push_code_msb_first for every symbol in turn.
CodePayload(in, codes) ==
    LET bits == FlattenSeq([i \in DOMAIN in |-> codes[in[i]]])
    IN [size |-> CeilDiv(Len(bits), 8),
        ones |-> {<<p \div 8, 7 - (p % 8)>> : p \in {q \in 0..(Len(bits) - 1) : bits[q + 1] = 1}}]

\* Mutant of BitAt: the lowest bit of a byte is read first.
BitAtLsbFirst(payload, p) == IF <<p \div 8, p % 8>> \in payload.ones THEN 1 ELSE 0

\* bit_at_msb_first
BitAt(payload, p) == IF <<p \div 8, 7 - (p % 8)>> \in payload.ones THEN 1 ELSE 0

----------------------------------------------------------------------------

VARIABLES
    stage,    \* idle, merge, coded, index, huffman, done or failed
    input,    \* the input of the call
    symbols,  \* its distinct bytes
    indices,  \* the payload of the index stream
    heap,     \* the trees not yet merged
    tie,      \* the next tie breaker
    lengths,  \* the lengths of the codes; empty if there is no Huffman stream
    coded,    \* the payload of the Huffman stream
    codes,    \* the codes the decoder builds from the dictionary
    out,      \* the bytes decoded so far
    pos,      \* the next bit to read
    path      \* the bits of a code read so far

vars == <<stage, input, symbols, indices, heap, tie, lengths, coded, codes, out, pos, path>>

width == BitsNeeded(Len(symbols))

Init ==
    /\ stage = "idle" /\ input = <<>> /\ symbols = <<>> /\ indices = NoPayload
    /\ heap = {} /\ tie = 0 /\ lengths = <<>> /\ coded = NoPayload
    /\ codes = <<>> /\ out = <<>> /\ pos = 0 /\ path = <<>>

\* build_index_stream, and the leaves that compute_huffman_lengths begins with.
Begin(in) ==
    LET unique == UniqueSymbols(in) IN
    /\ stage = "idle"
    /\ input' = in /\ symbols' = unique
    /\ indices' = IndexPayload(in, unique, BitsNeeded(Len(unique)))
    /\ heap' = {Leaf(in, unique, k) : k \in DOMAIN unique}
    /\ tie' = Len(unique)
    /\ stage' = "merge"
    /\ UNCHANGED <<lengths, coded, codes, out, pos, path>>

\* One iteration of the loop of compute_huffman_lengths: the first two trees of the
\* heap are joined.
Merge ==
    /\ stage = "merge" /\ Cardinality(heap) > 1
    /\ LET s == First(heap)
           t == First(heap \ {s})
       IN heap' = (heap \ {s, t}) \cup {Joined(s, t, tie)}
    /\ tie' = tie + 1
    /\ UNCHANGED <<stage, input, symbols, indices, lengths, coded, codes, out, pos, path>>

\* Mutant of CodeLengths: lengths that are too long are cut.
CutLengths ==
    LET root == First(heap)
    IN [k \in DOMAIN symbols |-> Min({MaxCodeBits, Max({1, root.depth[symbols[k]]})})]

\* Mutant of CodeLengths: a lone symbol is left at the depth of the root.
Depths == LET root == First(heap) IN [k \in DOMAIN symbols |-> root.depth[symbols[k]]]

\* The lengths of the codes are the depths, of which a lone symbol has none.
CodeLengths ==
    LET root == First(heap)
    IN [k \in DOMAIN symbols |-> Max({1, root.depth[symbols[k]]})]

\* The rest of build_huffman_stream: there is no stream for an empty input or for
\* codes that are too long.
Code ==
    /\ stage = "merge" /\ Cardinality(heap) <= 1
    /\ stage' = "coded"
    /\ heap' = {}
    /\ IF input # <<>> /\ \A k \in DOMAIN symbols : CodeLengths[k] <= MaxCodeBits
       THEN lengths' = CodeLengths
            /\ coded' = CodePayload(input, CanonicalCodes(symbols, CodeLengths))
       ELSE UNCHANGED <<lengths, coded>>
    /\ UNCHANGED <<input, symbols, indices, tie, codes, out, pos, path>>

\* A reader of the pack an IndexedRaw candidate would be.
ReadIndices ==
    /\ stage = "coded"
    /\ stage' = IF indices.size * 8 < Len(input) * width THEN "failed" ELSE "index"
    /\ UNCHANGED <<input, symbols, indices, heap, tie, lengths, coded, codes, out, pos, path>>

DecodeIndex ==
    LET k == IndexAt(indices, pos, width) IN
    /\ stage = "index" /\ Len(out) < Len(input)
    /\ IF k < Len(symbols)
       THEN out' = Append(out, symbols[k + 1]) /\ pos' = pos + width /\ UNCHANGED stage
       ELSE stage' = "failed" /\ UNCHANGED <<out, pos>>
    /\ UNCHANGED <<input, symbols, indices, heap, tie, lengths, coded, codes, path>>

\* A reader of the pack an IndexedHuffman candidate would be: decode_huffman_dictionary
\* and the tree of decode_huffman_payload, in which no two symbols have one code.
ReadCodes ==
    /\ stage = "coded" /\ lengths # <<>>
    /\ codes' = CanonicalCodes(symbols, lengths)
    /\ stage' = IF /\ \A k \in DOMAIN lengths : lengths[k] \in 1..MaxCodeBits
                   /\ \A x, y \in DOMAIN codes' : codes'[x] = codes'[y] => x = y
                THEN "huffman" ELSE "failed"
    /\ UNCHANGED <<input, symbols, indices, heap, tie, lengths, coded, out, pos, path>>

\* The path is the node reached in the tree: it yields a byte if it is a code, and
\* else must have a branch for the next bit of the payload.
DecodeCode ==
    /\ stage = "huffman" /\ Len(out) < Len(input)
    /\ \E x \in DOMAIN codes : codes[x] = path /\ out' = Append(out, x)
    /\ path' = <<>>
    /\ UNCHANGED <<stage, input, symbols, indices, heap, tie, lengths, coded, codes, pos>>

DecodeBit ==
    LET next == Append(path, BitAt(coded, pos)) IN
    /\ stage = "huffman" /\ Len(out) < Len(input)
    /\ \A x \in DOMAIN codes : codes[x] # path
    /\ IF pos < coded.size * 8 /\ \E x \in DOMAIN codes : IsPrefix(next, codes[x])
       THEN path' = next /\ pos' = pos + 1 /\ UNCHANGED stage
       ELSE stage' = "failed" /\ UNCHANGED <<path, pos>>
    /\ UNCHANGED <<input, symbols, indices, heap, tie, lengths, coded, codes, out>>

\* Mutant of Finish: the decoder goes on to the end of the payload.
FinishAtEnd ==
    /\ stage \in {"index", "huffman"} /\ Len(out) = Len(input)
    /\ pos = IF stage = "index" THEN indices.size * 8 ELSE coded.size * 8
    /\ stage' = "done"
    /\ UNCHANGED <<input, symbols, indices, heap, tie, lengths, coded, codes, out, pos, path>>

Finish ==
    /\ stage \in {"index", "huffman"} /\ Len(out) = Len(input)
    /\ stage' = "done"
    /\ UNCHANGED <<input, symbols, indices, heap, tie, lengths, coded, codes, out, pos, path>>

Step == Merge \/ Code \/ ReadIndices \/ DecodeIndex \/ ReadCodes \/ DecodeCode \/ DecodeBit \/ Finish
Next == (\E in \in Inputs : Begin(in)) \/ Step

\* The loops run on one thread until they end.
Spec == Init /\ [][Next]_vars /\ WF_vars(Step)

----------------------------------------------------------------------------
(* Properties.                                                             *)

\* The types of the streams of core.rs:391-404; a tree of the heap has a symbol of
\* the input at every leaf.
TypeOK ==
    /\ stage \in {"idle", "merge", "coded", "index", "huffman", "done", "failed"}
    /\ input \in Seq(0..255) /\ symbols \in Seq(0..255)
    /\ indices \in Payloads /\ coded \in Payloads
    /\ \A t \in heap : /\ t.freq \in Nat \ {0} /\ t.tie \in 0..(tie - 1)
                       /\ DOMAIN t.depth \subseteq ToSet(symbols)
    /\ tie \in 0..(2 * Len(symbols))
    /\ lengths \in Seq(1..MaxCodeBits)
    /\ \A x \in DOMAIN codes : codes[x] \in Seq(Bits)
    /\ out \in Seq(0..255) /\ pos \in Nat /\ path \in Seq(Bits)

\* What the decoder of either coder has returned is the input up to there, and no
\* check of the decoder ever fails on what the encoder wrote (core.rs:1180-1282,
\* 2396-2455).
DecoderReturnsTheInput ==
    /\ IsPrefix(out, input)
    /\ stage = "done" => out = input
    /\ stage # "failed"

\* The bits a code of the given lengths needs, and the lengths a prefix code can have:
\* those whose sum of 2^-length is at most 1 (Kraft).  No shortest one is longer than
\* the symbols are many, less one.
Cost(len) == SumFunction([k \in DOMAIN symbols |-> Frequency(input, symbols[k]) * len[k]])
PrefixLengths ==
    LET m == Len(symbols)
    IN {len \in [1..m -> 1..Max({1, m - 1})] : SumFunction([k \in 1..m |-> Pow2[m - len[k]]]) <= Pow2[m]}

\* The merging loop finds the shortest prefix code there is, whatever the ties, and
\* that is never longer than the indices, so that choose_best_method compares the
\* two by their dictionaries (core.rs:1001-1078).
CodesAreOptimal ==
    (stage = "coded" /\ lengths # <<>>) =>
        /\ \A len \in PrefixLengths : Cost(lengths) <= Cost(len)
        /\ coded.size <= indices.size

\* The codes leave no bit string undecided: as long as the longest code may be, it
\* begins with one code and no other, so that any payload long enough decodes; a lone
\* symbol, whose code is a single 0, is the exception (core.rs:1080-1137, 1210-1236).
CodesFillTheTree ==
    (stage = "huffman" /\ Cardinality(DOMAIN codes) > 1) =>
        \A s \in [1..MaxCodeBits -> Bits] :
            \E x \in DOMAIN codes : \A y \in DOMAIN codes : IsPrefix(codes[y], s) <=> y = x

\* Every call of the coders and of the decoder comes to its end: the heap shrinks to
\* one tree, and the decoder never waits for a bit (core.rs:1031-1052, 1255-1279).
CallsReturn == (stage = "merge") ~> (stage = "done")

================================================================================
