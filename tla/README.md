# TLA+ models of zBitCompressor

zBitCompressor packs a byte string by building many representations of it
(dictionaries, Huffman codes, xz, numeric models, Boolean circuits, ...) and
keeping the one that is estimated smallest. On top of these packs sits a
streaming container whose blocks can refer to one shared or "wide" payload.
The program is a Rust library with a small command line. Little of it runs
concurrently; what is hard is that **a writer and a reader, far apart in the
source, must agree on every length, width, order and flag**, that candidates
are compared by estimates and gated by cheap probes, and that a file may be
cut short, or replaced while it is read.

Paths below are relative to `src/zbit-rs/`, line numbers are those of the commit
the models were written from.

## 1. Inventory

### Components

| Component | Code | State | Operations | Modelled |
|---|---|---|---|---|
| Stream container `.zbps` | `src/pack/stream.rs`, options in `core.rs` | one file; the writer's chunks, blocks, plans, pack cache; the reader's input, global payload, output | write a stream, read all of it, read from a block | `ZbpsStream` (partly: any permitted plan) |
| Adaptive pack selection | `core.rs:1895-2340`, `pack_rules.rs`, `codecs.rs` gates | the candidates built so far, the xz payload and its tier, the method chosen | compress, write the pack, read it back | `PackSelection` |
| Symbol coders | `core.rs:391-436, 876-1300` | bit buffers, code tree, code tables | fixed-width indices and canonical Huffman, both ways | `SymbolStreams` |
| Pack file `.zbpk` header, dictionaries | `core.rs`, `format.rs` | none that lasts | write and parse a header and the fields of each method | sizes and checks in `PackSelection` |
| Numeric and structural codecs | `codecs.rs` | none that lasts | gap encodings, atlases, prime tables, tensor split of ZIP archives | `NumericTables`, `InputSplits`, packed and decoded in `RecursivePayload`; when built and how large in `PackSelection` |
| xz tuning | `codecs.rs` | best stream so far | try presets and lc/lp/pb settings | only its result |
| Adaptive transforms, topology | `transforms.rs` | transform plans, topology nodes | apply and invert, write and walk a topology, embed the correction plan | `ByteTransforms`, used by `RecursivePayload` (partly: any plan that could be proposed) |
| Framed and recursive payloads | `recursive.rs` | runs of frames, hash budget, circuit tables | parse frames, unwrap deflate, plan whole or by block, write and read the dictionary, rebuild | `RecursivePayload`, `CircuitDictionary`, `BitFields` (partly: preflate and codecs external) |
| Circuit bit stream | `bitstream.rs` | interning tables of writer and reader | write, read definitions and references | `CircuitBitStream` |
| Boolean model | `model.rs` | hash-consed nodes, pins, root | intern, build from a table, evaluate, save and load | `CircuitModel` |
| Exact minimizer | `minimizer.rs` | implicants, rows, the recursion of the search, the best cover | minimise a function | `ExactCover` |
| Advanced minimizer, SAT | `advanced.rs`, `sat.rs` | the cover and the pool of its terms; an assignment and the branches above it | minimise by an objective, decide a formula | `AdvancedMinimizer`, `Dpll` |
| Hierarchical decomposition | `hierarchical.rs` | sub-functions, calls that wait for a half | Shannon splits, essential inputs, leaves | `HierarchicalCircuit` |
| Command line, errors, benchmark | `main.rs`, `error.rs`, `bin/` | arguments | I/O and printing | no: nothing to get wrong but text |
| preflate | `src/vendor/` | | | no: vendored |
| `circuit.rs`, `file_format.rs`, `utils.rs` | | | | no: `lib.rs` does not declare them |

### Interactions

- The **stream writer** calls the symbol and pack coders for every piece, group and
  global payload, on its own thread, and ends with one `fs::write`. The **stream
  reader** takes the file with one `fs::read`, a loop of reads up to the end of the file, and from then on works on that
  copy. Writer and readers share only the file. Nothing locks it, and
  `fs::write` truncates it in place before it fills it, so the file may change between two reads of one `fs::read`.
- Within a stream, blocks refer to the **global payload** (by chunk range), so
  one bad flag, offset or validation affects every block.
- **Pack selection** drives all codecs: some candidates exist only if another one was
  not good enough. Its result goes through `write_pack_bytes`, and whatever
  that writes must be accepted by `decompress_pack_bytes`.
- The **recursive pack** contains packs, circuits and preflate output, and is the only
  one that is decoded again before it is used.

### What is hard to test, and what makes each component correct

| Component | Hard | Correct if |
|---|---|---|
| Stream container | files that are torn, or rewritten while they are read; short last block and chunk; nested split nodes; flags that must agree with blocks; restart in the middle | a read returns exactly the input (or its tail from the key piece asked for), or an error; if all it read is one whole write, it is refused only for reasons that can be named; a call ends |
| Pack selection | gates on estimates and probes; a chosen method without its stream; field checks per method | what is written is accepted by the reader; what is skipped would have lost; the estimate bounds the pack |
| Symbol coders | widths at powers of two, padding, one symbol, ties in the tree, depth limit | the reader returns the input; codes are optimal and fill the tree; decoding ends |
| Payloads | a budget that runs out within a run; field widths computed before the fields; a plan hidden in the topology; a second text (corrections) with a plan of its own | decoders accept what was written and return the input; sections are as long as predicted; a run ends only where it must |
| Circuit bit stream | a width that depends on how many definitions came before | both sides number the same definitions at every point |
| Circuit model | rewrites at interning, in every order of operands; a second table on the same model; sorting at load | a node is the operation asked for, nothing is stored twice or unsimplified, the graph is the table, loading refuses nothing that was saved |
| Minimizers | bounds one too high, redundant terms, a wrong comparison: all give a valid but worse cover | covers are the function; the exact one is a minimum; no term of the advanced one is redundant; it never loses to the exact one |
| SAT | literals left assigned after a conflict | no model is lost, an answer is right, the search ends |
| Hierarchical decomposition | inputs that the probes miss; orders that name too few inputs | exact but for what probing dropped; fails only for want of a variable; ends |

All hazards, each with its line, are in `PROJECT.json`.

## 2. The modules

| Module | Role |
|---|---|
| `ByteSpans` | byte strings as spans of an input: concatenation, slices, garbled bytes |
| `RestartableArchive` | **abstract**: what a container promises to a reader |
| `ZbpsStream` | the stream container, writer, file and readers |
| `ZbpsStreamProofs` | theorems about `ZbpsStream`: types; what readers get, when they fail, and the refinement |
| `PackSelection`, `PackSelectionProofs` | one call of the adaptive compressor, by sizes; its theorems |
| `SymbolStreams`, `SymbolStreamsProofs` | index and Huffman coders, bit by bit; their theorems |
| `ExactCover`, `ExactCoverProofs` | the exact minimizer: merging, essential rows, branch and bound, one call of the recursion at a time; its invariant, which the next three use |
| `HierarchicalCircuit` | Shannon decomposition; EXTENDS `ExactCover`, whose steps minimize the leaves |
| `Dpll` | the satisfiability search, one clause at a time |
| `AdvancedMinimizer`, `AdvancedMinimizerProofs` | one call of `minimize_advanced`; EXTENDS `ExactCover` and `Dpll` and takes their steps; its theorems and those of `Dpll` |
| `CircuitModel` | the circuit graph; EXTENDS `ExactCover` for `compress_from_table` |
| `CircuitProofs` | theorems about `HierarchicalCircuit` and `CircuitModel`; EXTENDS both and `ExactCoverProofs` |
| `PowersOfTwo` | the powers that widths, bits and codes are made of |
| `ByteTransforms` | each transform and its inverse, plans, topologies (operators) |
| `BitFields` | the bit writer and reader: fields, nibble varints, widths (operators) |
| `CircuitDictionary` | the bit-packed topology and the multi-block trailer, both ways (operators); EXTENDS the two above |
| `PayloadCodecs` | what all payloads share: an external codec, an undone transform (operators) |
| `NumericTables` | tables of growing numbers as gaps, tables of primes, both ways (operators) |
| `InputSplits` | the block atlas and the tensor split of archives, both ways (operators) |
| `RecursivePayload` | scanning for frames; the framed, recursive, transformed, monotonic, prime, atlas and tensor packs and their decoders; EXTENDS `CircuitDictionary`, `NumericTables` and `InputSplits` |
| `CircuitBitStream` | the interning bit stream; EXTENDS `CircuitDictionary` |
| `RecursivePayloadProofs` | theorems about `RecursivePayload`, the transforms it takes from `ByteTransforms`, and `CircuitBitStream`; EXTENDS `DataLemmas` and both others |
| `DataLemmas` | lemmas the proofs share: induction over sets, finite sets, sums over sets, minima, sequences |
| `MC...` | values of the constants for TLC |

### ZbpsStream

A byte string is the span of an input it comes from (input number, first and last
offset), so that two inputs are never confused and bytes that move are seen; a string that
is no such span, because parts were joined in a wrong order or a codec gave other bytes
back, is garbled and keeps its length only. A pack is a record of the ninth byte it stores,
its size and the span its decoder returns. The node of a block is the sequence of its tokens in preorder. What codecs make of
bytes is left open (`StreamCodecs`, `AdaptiveCodecs`, `PackSizes`); *whether* a pack is
offered, validated, refused or preferred is as in the code.

| Action | Code |
|---|---|
| `Compress` | the call with its options, which may be refused (`stream.rs`: `validate_stream_options`, `split_stream_chunks`) |
| `Share` | the wide, the validated shared or no global payload, and the header with its `u32` counts |
| `WideBlock` | a block of a wide stream: one slice |
| `BeginBlock`, `WritePiece`, `WriteGroup`, `WriteSplit`, `EndBlock` | a block of any other stream: `build_best_stream_node` and the preorder encoding of its result; a shared stream's block may become one slice |
| `CompressFails` | a codec or a length conversion fails; the file is not touched |
| `Create`, `Fill`, `SaveFails` | `fs::write`: the file is truncated, then filled, and this may stop anywhere |
| `Open` | the call of a reader, and the start of its `fs::read` |
| `ReadFirst`, `ReadMore`, `ReadOther`, `EndRead` | the reads of this `fs::read`: the first one, more of the same write, bytes of another write, the end of the file |
| `Misread` | what was read is no sequence of records: any answer |
| `ReadHead` | the header, the global payload and the start point |
| `ReadBlock` | one block record is checked, then skipped or entered |
| `ReadToken`, `EndNode` | `decode_stream_node`, one node at a time, and the checks behind it |
| `Finish` | the checks at the end of the stream |

The names and line ranges of each definition are in `PROJECT.json` under "map".

**Reads that overlap writes.** The file on disk is an archive and the number of its leading records that are there (`disk.have`), and so is what a reader has read
(`rd`). A part of the next record may be there as well: it makes no difference to a parser whether that part is empty, so a record counts when its last byte has come. Between any two of
the steps of `fs::read`, `fs::write` may take any of its own. `asked` is the write whose first bytes were read, `last` the one whose bytes were read last.
After a replacement the reader goes on at its old offset, in another archive. `ReadOther` has the outcomes: if that offset is where a record of the new file begins, and both files have the
same preamble, the next record may be the new one (`Aligned`, `Spliced`, with the sizes of `write_stream_node` and of the headers); otherwise, or in the middle of a record, the bytes are
no records any more (`garbled`), and `Misread` answers with anything. If the new file is not longer than what was read, the reader is at its end (`EndRead`). As a part of a record
has no exact length here, lengths are compared as ranges (`LeastBytes`, `MostBytes`) and every outcome that some length in them allows is possible.

A read that got bytes of two writes is promised nothing (`last = asked` in the properties): in the run `zbps_overwrite` TLC reaches readers that return the head of the first input and the
tail of the second as one `ok`, and there is no field in the format that could tell. What the properties do say is that nothing else can go wrong: neither a truncated
file, nor one still being filled, nor any replacement before, between or after the reads, as long as no byte of a second write was read.

All errors of a reader are one answer;
`ReadFailsOnlyForKnownReasons` lists the causes that a file
of the writer's own can have. One reader is modelled, which opens the file as often
as it likes: readers share nothing with each other. Writers take turns: two calls of `fs::write` at the same time are not modelled.

### RestartableArchive

An archive holds one input or nothing (`content`), and what it holds may be replaced at any time (`Replace`). A reader asks (`Ask`), takes bytes (`Take`) until it meets the end
(`MeetEnd`), and is answered (`Answer`). Taking is not atomic: `asked` is what the archive held when the first byte was taken, `mixed` says that bytes of another input followed. A reader that is
not mixed gets the input `asked`, from the key piece asked for (`from`), or an error; one that is mixed gets anything. `ZbpsStream` implements it under
`Promise == INSTANCE RestartableArchive WITH ...`, checked as the property
`ImplementsArchive`.

### PackSelection

One call of `compress_adaptive_to_bytes` as a sequence of steps: `Begin`; `Prelude` (indices, Huffman,
deflate, zstd, brotli, the run of frames, the xz probes); `Models` (recursive, monotonic, prime, adaptive and
atlas streams, the tensor split, each behind its gate); `TuneXz` (the matrix, or the probe that stands in for it); `Choose`
(`choose_best_method`); `Write` (`write_pack_bytes`); and `CodecFails`. The decoder's checks of the header are the
operator `HeaderAccepted`. An input is its length,
the number of different bytes, its frame layout and whether it is an archive with
tensors; a payload is a length. Header estimates, varint lengths, field sizes,
tiers and comparisons are the code's own arithmetic. The choice is the first, in the code's order, of the methods with the smallest
estimate. An input has less than 32 GiB, the bound of the header's estimate (`core.rs:30-31`).

### SymbolStreams

Both coders, writer and reader: `Begin`, `Merge` (one pair of trees), `Code` (lengths, canonical codes and
payload), `ReadCodes`, `DecodeBit` and `DecodeCode` for Huffman codes, `ReadIndices` and `DecodeIndex` for indices, `Finish`. Index widths, bit orders (codes from the highest bit,
indices from the lowest), padding, the order of ties, the limit of the code length
and every error of the decoders are as in the code. Sorting is by rank (`Ascending`), an entry of `build_canonical_codes` is one number, length first, so that their order is that of
the code's sort key, and a code is a number (`CodeNumbers`) until it is written (`BitsOf`). The limit is lowered from the
code's own constant to 4 bits so that it is met by small inputs.

### ExactCover and HierarchicalCircuit

An implicant is its mask and its value as sets of inputs, a minterm is a set of inputs. The recursions become stacks: `open` holds the calls
of `dfs_cover` that are in their loop over rows, each with the rows it has not tried; `frames` the calls of `decompose_inner` that
wait for a half.

| Action | Code |
|---|---|
| `MergeLevel`, `BuildRows`, `SelectEssential` | `generate_prime_implicants`, and the first part of `select_minimum_cover` |
| `GiveUp`, `Record`, `Branch` | a call of `dfs_cover` that is pruned, that is complete, or that branches |
| `TryRow`, `EndCall`, `EndSearch` | its loop, its return and the end of the search |
| `Decompose`, `GoToLeaf`, `Split`, `OrderExhausted` | `decompose` and `decompose_inner` with its probing |
| `ConstantLeaf`, `MinimizeLeaf`, `MinimizeStep`, `LeafDone` | `build_leaf` |
| `OtherHalf`, `Join`, `Return` | the second half, the mux (or the half they share), the result |

The probes are those of the code: seed, factor, increment and the number of bits of a word are constants (64 bits in the code, six for TLC). Probing therefore misses inputs of sparse
functions, as the code's 64 probes do of functions of many inputs. `dropped` records what it missed.

### Dpll and AdvancedMinimizer

The solver's recursion is the stack `untried` of assignments that are still to be tried. `SkipClause`, `AssignUnit` and
`NextPass` are `unit_propagate`, `Backtrack`, `Decide` and `Satisfy` the rest of `dpll`. The minimizer's `Begin` is the start of a
call; `EspressoRound`, `EspressoDone` are `run_espresso_heuristic`; `Pick`, `Trim`, `GreedyReturns` are `greedy_cover`, whoever called it;
`Rewrite` and `BeginPruning` are `run_rewrite_flows`; `CheckTerm`, `SatRuns`, `TermChecked` are one check of
`sat_prune_redundant_terms`; `SeedExact`, `ExactRuns`, `ExactReady` are the second candidate; and `Choose` ends the call.
The code's weights are floating-point numbers with two decimals; times 10 or 100 they are exact integers. `SolveOther` and
`OtherRuns` let the solver be called alone on formulas that the minimizer does not build. Where the exact minimizer runs, an
ON-set has less than 2^31 - 1 minterms, because that minimizer counts with 32 bits; so have the tables of `CircuitModel`.

### CircuitModel

`New`, `Compress` and `CompressAdvanced` are the public calls. `Minimizes`, `Minimized` run the exact minimizer; the advanced one may
give any cover that is the function. The specification is `GraphSpec`. `AddLiteral`, `EndTerm`, `EndBuild` are `build_from_implicants`, each with its `intern_node`.
`Intern` interns a node of chosen type and operands: the function is private and today only called by
`build_from_implicants`, which never asks for XOR, for a double negation or for the negation of a constant; those branches are
reached this way. The code sorts the operands of AND, OR and XOR and drops the repeated ones before anything else; the operators work on the set of
them and put what is left in growing order. `Reload` is `to_bytes` and `from_bytes`, with every check of the latter; the counts of terms and literals are lost, as in the code.

### RecursivePayload and its operators

| Action | Code |
|---|---|
| `SkipByte`, `FirstFrame`, `NextFrame`, `DropRun`, `KeepRun`, `EndScan` | `build_framed_payload_run`, each frame through `parse_crc32_frame_at` and its budget |
| `PackFramed` | `write_framed_dictionary` and the payload |
| `Preflate`, `PlanWhole`, `PlanBlocks`, `PackRecursive` | `build_recursive_circuit_stream`: unwrapping, the plan of the text, of its blocks, of the corrections, and `write_recursive_circuit_dictionary` |
| `PackTransformed` | `build_adaptive_transformed_xz_stream` |
| `PackMonotonic` | `build_monotonic_delta_stream`, `write_monotonic_delta_dictionary`: any width and mode that applies, with or without a plan for the gaps |
| `PackPrimes` | `build_prime_sequence_stream`, when `ZBIT_ENABLE_PRIME_SEQUENCE` asks for it |
| `PackAtlas` | `build_exact_block_atlas_stream` and its dictionary, without the cost gate, which `PackSelection` has |
| `PackTensors` | `build_zip_tensor_split_stream` as `tests.rs:498` calls it, without a bound; finding 4 is about the bound |
| `PackOtherwise` | any other method, which ends the story told here |
| `Decode` | `decompress_pack_bytes` for these methods: `decode_framed_payload`, `decode_recursive_circuit_payload`, `decode_adaptive_transformed_xz_payload`, `decode_monotonic_delta_payload`, `decode_prime_sequence_payload`, `decode_exact_block_atlas_payload`, `decode_zip_tensor_split_payload` |

Bytes are real here, but have two bits, so that every transform (deltas, rows, gathers, bit planes, head and tail) is applied and
inverted on actual data. Widths are scaled with them: a field of a frame has one byte (four in the code), the header and the
checksum of a zlib stream one each (2 and 4); blocks have at least 2 bytes (64 KiB) and a transformed input 5 (128 KiB). The bit-packed
dictionary keeps the code's own widths: 2 bits of order, 6 of kind, nibble varints, five-bit width headers. A packed text is
opaque: a codec's output decodes to what went in. `preflate` is the constant `Preflated`: for a deflate stream its text and some
corrections, or nothing. Which plan and which codec wins is left open, among those that apply.

A number of a table has at most two bytes (8), so a word has four bits (64); a varint byte carries one bit of a value (7) and a varint at most four bytes (10).
The sieve ends at 12 (64 Mi). Signedness, the limit of a gap, the shift and the order of checks follow the code. An archive's local header is
seven fields of one byte in the code's order; blocks of an atlas have one or two bytes (1 to 64 KiB), a tensor two (4096), a split archive and its tensors together five (128 KiB).

### CircuitBitStream

`WriteDefinition`, `WriteReference`, `EndWriting`, `ReadDefinition`, `ReadReference`: the reader is told only the type of what comes next
and derives the width of a reference from the table it has built. Its specification is `StreamSpec`; one run checks it and `RecursivePayload`, and in each behaviour only one of the two moves. The compressor does not use this stream yet (`bitstream.rs:31-36`): it is there, with tests, for the next version of the format.

## 3. What the runs check

| Run | Shows | States |
|---|---|---|
| `zbps_stream` | in every mode, with the file torn at every record or still being filled, a reader from any start gets the input's tail or an error from the known list; restarts in local streams replay nothing; a call returns; the container implements `RestartableArchive` | 391,497 |
| `zbps_overwrite` | the reasons of errors and the refinement, which includes that answers are right, while a second input is written over the file: before, between and after the reads of a reader's `fs::read`, and while it decodes | 2,573,334 |
| `zbps_bit_packed` | **violated**: every complete archive can be read | |
| `zbps_restart` | **violated**: a reader that starts at a key piece needs no more than what follows it | |
| `pack_selection` | the pack written is accepted by the reader, is bounded by its estimate, is nearly never larger than raw; the probe that stands in for the matrix loses; the structural tiers of the matrix gate are safe; every call writes a pack | 557,641 |
| `pack_xz_matrix` | **violated**: skipping the matrix never changes the result | |
| `pack_zip_gate` | **violated**: the smallest tensor split is written | |
| `symbol_streams` | both coders return the input, Huffman codes have the least total length, their code space is full, calls return | 12,932 |
| `hierarchical_circuit` | every leaf gets a minimum cover and the search never loses one; a circuit is its function wherever the dropped inputs are 0; a call fails only if the order or the limit gives it no variable; it ends | 44,484 |
| `advanced_minimizer` | the cover is the function and has no redundant term; it is never worse than the exact one or the minterms; the solver loses no model; calls end | 115,541 |
| `circuit_model` | every node interned is the operation asked for, in a graph that stays reduced; the graph is its table; nothing saved is refused | 47,396 |
| `recursive_payload` | decoders accept what was written and return the input; runs end where they must; dictionary sections have the predicted length; writer and reader of the bit stream agree | 208,617 |

### Bounds, and why they are enough

- **ZbpsStream**: inputs of at most five bytes, chunks of 1 and 2, blocks of 2 and 3
  chunks. Five over these gives full and short last chunks, full and short last
  blocks, one to three blocks, groups within a block and splits of both sides. `MaxOutput = 4`
  and `U32Max = 4` put the 1 GiB limit and the chunk-count limit inside that
  range, `SharedMin = 3` and `RecursiveMin = 2` the thresholds. Readers start at 0, 2, 3 or from no key piece (`Starts`): on a boundary of blocks, inside a block, or past the end, depending on the stream. Depth 0 to 2 covers
  groups allowed, exhausted and refused (33 is out of range). A second writer call
  is bounded by `MaxWrites = 2` in a run of its own with inputs of up to three bytes, in local blocks or with a global payload, and with packs of two sizes, so that
  a reader's offset in the second file is a boundary of records or lies inside one, and that file is shorter, as long or longer than what was read.
- **PackSelection**: each input in `MCInputs` is at a boundary: empty, one byte, few
  symbols, just above and below where estimates cross, runs of frames with short and long ends,
  the 2 MiB fields where varints grow, sizes for each tier of the matrix gate, an archive of
  tensors. The lengths of xz and of the models are at both sides of each gate.
- **SymbolStreams**: all inputs of up to five symbols over three, up to four over four (the
  highest byte included), and inputs whose trees are as deep as the limit and one deeper.
- **HierarchicalCircuit**: leaves of up to three inputs (16 in the code), three probes (64), at most six inputs (64). All functions of two inputs with all
  don't-cares and all of three with up to two, so that essential rows, cyclic covers and every bound of the search occur; chosen ones of
  four and five inputs for nested splits, constant halves, equal halves, variables the probes miss and orders that end too soon; seven inputs are refused.
- **AdvancedMinimizer**: all functions of two inputs with all don't-cares, all of three, the cyclic ring with one don't-care and
  functions of four inputs whose first pick is redundant in the end, under every objective and without each of the flows.
  The solver alone: no variables, empty clauses, and formulas that leave one or no assignment of three variables.
- **CircuitModel**: all tables of up to two inputs, don't-cares, outputs that are also don't-cares, and the parity of three; up to three
  operands by hand, in any order and repeated, on graphs of less than five nodes.
- **RecursivePayload**: runs of equal frames, shorter and longer last ones, cut by a tag, by a wrong CRC and by the bound on lengths, two runs in one
  input, bytes before and behind; hash budgets that run out and that do not. Every kind of plan, with periods and heads at 7 and 8, where a nibble
  varint grows; blocks in two and three parts. Tables of three numbers out of nine, so that gaps lie on both sides of a byte (4), of half a word (8) and of every power of two, and longer ones
  whose gaps share different shifts; prime tables that are complete, miss one, or end at 11 and 13; one to five different blocks, the widths 0 to 3 of an index, with and without a tail;
  archives with each kind of entry that is no tensor before and after two that are, a directory or nothing behind them, cut short, followed by other bytes, and with data that looks like a header. **CircuitBitStream**: seven circuits, of both types, with nodes that have the same content but for one field and values on both sides of a nibble.
- TLC's integers have 32 bits. No quantity in these instances comes near that. Overflow of
  the code's `u64` counters would need inputs above the 1 GiB that readers accept.

### Fairness

- `ZbpsStream`: `WF_vars(WriterStep)`. A call is one thread's run without waiting for anything, so
  the steps of a call that was made are taken. `Compress`, `CompressFails`, `Open` and the reader's steps
  are not in it: nobody has to call, nothing has to fail, and no property needs a reader to go on.
- `SymbolStreams`: `WF_vars(Step)`, the loops of one call on one thread.
- `HierarchicalCircuit`, `AdvancedMinimizer`: `WF_vars(Step)`, the recursions of one call on one thread; making a call is not in it. What makes
  `DecomposeReturns` and `MinimizeReturns` hold is not fairness but that frames, rows, picks and assignments run out.
- `CircuitModel` and `RecursivePayload` state no fairness and no liveness: their loops run over lists of fixed length.
- `PackSelection` states no fairness; its `WriteSucceeds` says what a step does.

`SymbolStreams.cfg`, `HierarchicalCircuit.cfg`, `AdvancedMinimizer.cfg`, `CircuitModel.cfg` and `RecursivePayload.cfg` turn the deadlock check off where
a call ends there or the bound on calls is met. In the other models another call or another reader can always follow.

### Findings

1. **A stream does not read what it wrote** (`zbps_bit_packed`): the reader compares the whole ninth byte
   of a pack with the method (`src/pack/stream.rs:731`, `768`), where the writer keeps
   `bits_per_symbol` in the high half (`core.rs:1523`). A non-realtime stream whose piece is packed as
   indexed symbols is refused with "packed method id invalid".
2. **Restart replays the input** (`zbps_restart`): with a wide (the default) or shared payload the reader
   first decodes that payload, which is the whole input (`stream.rs:1384`), while the repository's README
   says (line 191) that receivers can start from key pieces without replaying full history.
3. **The matrix may be skipped too early** (`pack_xz_matrix`): 1025 bytes below the preset-3 payload are
   enough (`core.rs:1964`), less than what the comment above grants the matrix.
4. **The tensor split is never offered** (`pack_zip_gate`): its gate (`codecs.rs:832`) adds up the uncompressed
   parts, 61 bytes more than the input, and compares them with a candidate that is at most
   29 bytes more than the input.

Seen while modelling, not findings of a run:
- "Never worse than raw" (repository README line 168) fails. Every header is estimated alike, so a pack can replace a raw copy that would have been shorter: by two bytes, or by three when
  both its dictionary and its payload reach 256 MiB, where their varints have five bytes. `NearlyNeverWorseThanRaw` states this; that one byte is not
  enough came out when the proof of that bound failed.
- With a shared payload every block becomes a slice of it: 21 bytes are never more than the
  10 + 13 of the smallest alternative. The repository's README (line 193) says blocks "can reference" it.
- `hierarchical.rs:176-183` and `235-239` leave it to "the caller" to verify a circuit, and lines 106-107 name a `verify_against`, but there is no such function
  and no caller. `ExactButForDropped` states what holds without it.
- The comments at `recursive.rs:18-19` and `73-74` say that the analyzer stops once the hash budget is exhausted. It stops only when the budget is exactly 0; with a rest
  too small for the next frame it goes on, and such a frame ends the run. `RunEndsWhereItMust` has this case.
- `recursive.rs:1541` says that in multi-block mode the single plan is that of the first block; the writer stores the one found for the whole text (`recursive.rs:533`).
- SAT pruning never finds a term to drop: `greedy_cover`'s second loop has already left none that is redundant (`CoverIsIrredundant`, its first conjunct).
- The writer does not check the 1 GiB that readers refuse to exceed (`stream.rs:892`).

## 4. What is proved

The theorems hold for every value of the constants that satisfies the assumptions of the modules, which TLC evaluates on every run:

- `ZbpsStream`: `ConstantsAssumption` (which kinds of sets and numbers they are; a pack has at least its 13 bytes) and `NothingAssumption` (the sentinel
  is no archive content).
- `PackSelection`: `InputAssumption`. Inputs have less than 32 GiB, frames add up to the input, and codecs return natural numbers of bytes.
- `HierarchicalCircuit`: `FunctionAssumption` and `BoundAssumption`. The function's minterms are over its inputs; leaves have at most 16 inputs (`LEAF_BUDGET`), so that their minterms are counted in 32 bits.
- `Dpll`: `FormulaAssumption`, formulas are well formed. `AdvancedMinimizer`: `CallAssumption`, minterms are over the inputs, and an ON-set that goes to the
  exact minimizer has less than 2^31 - 1 of them.
- `CircuitModel`: `ConstantAssumption`, the same of the tables.
- `SymbolStreams`: `InputAssumption`. Inputs are byte strings and the limit of the code length is positive.
- `RecursivePayload`: `PayloadAssumption`. Inputs are byte strings, so are the text and the corrections preflate returns, the text depends on the deflate stream alone, budgets
  and numbers of blocks are natural numbers. `ByteTransforms`, `NumericTables`, `InputSplits`: `ByteAssumption`, `TableAssumption`, `SplitAssumption`, the sizes of bytes, words and blocks.
- `CircuitBitStream`: `CircuitAssumption`. A circuit is a plan or a node with fields of 32 bits, a relation, an order and a kind of those there are. The
  bit stream gives an order two bits, which is all that `compact_topology_eligible` lets into the compact form (`recursive.rs:694-700`).

| Theorem | Statement |
|---|---|
| `TypeCorrect` (`ZbpsStreamProofs`) | `Spec => []TypeOK` |
| `ReaderCorrect` | `Spec => []ReaderGetsTheInput` |
| `NoReplay` | `Spec => []NoReplayBeforeKeyPiece` |
| `Refinement` | `Spec => ImplementsArchive`, that is, `Spec` implements `RestartableArchive` |
| `ArchivesAreReadable` | `Spec => []ReadFailsOnlyForKnownReasons` |
| `SelectionInvariant`, `SelectionTypes` (`PackSelectionProofs`) | `Spec => []SelectionInv`, `Spec => []TypeOK` |
| `HeadersAreAccepted`, `EveryWriteSucceeds` | `Spec => []DecoderAcceptsHeader`, `Spec => WriteSucceeds` |
| `PacksFitTheirEstimate`, `PacksAreNearlyRaw` | `Spec => []PackWithinEstimate`, `Spec => []NearlyNeverWorseThanRaw` |
| `ProbesLose`, `StructuralTiersLoseNothing` | `Spec => []ProbeLoses`, `Spec => []StructuralTiersAreSafe` |
| `SatisfiabilityCorrect` (`AdvancedMinimizerProofs`) | `SatSpec => []SearchKeepsAModel` |
| `CircuitInvariant`, `CircuitTypes` (`CircuitProofs`) | `Spec => []CircuitInv`, `Spec => []TypeOK` |
| `MinimumIsKept`, `LeafCoverIsMinimum` | `Spec => []SearchKeepsAMinimum`, `Spec => []CoverIsMinimum` |
| `CircuitAgrees`, `FailuresAreKnown` | `Spec => []ExactButForDropped`, `Spec => []FailsOnlyForWantOfAVariable` |
| `AdvancedInvariant` | `Spec => []AdvancedInv` |
| `CoverCorrect`, `NoTermIsRedundant`, `ResultIsNeverWorse` | `Spec => []CoverIsTheFunction`, `Spec => []CoverIsIrredundant`, `Spec => []NeverWorseThanExact` |
| `PruningSearchCorrect` | `Spec => []SearchKeepsAModel` |
| `GraphInvariant` (`CircuitProofs`) | `GraphSpec => []GraphInv` |
| `InterningCorrect`, `GraphsAreReduced` | `GraphSpec => []InternIsTheOperation`, `GraphSpec => []GraphIsReduced` |
| `NothingRefused`, `TablesAreKept` | `GraphSpec => []NothingIsRefused`, `GraphSpec => []GraphIsTheTable` |
| `StreamsInvariant`, `TypesAreOK` (`SymbolStreamsProofs`) | `Spec => []StreamsInv`, `Spec => []TypeOK` |
| `StreamsReadBack`, `CodesAreComplete` | `Spec => []DecoderReturnsTheInput`, `Spec => []CodesFillTheTree` |
| `CodesAreShortest` | `Spec => []CodesAreOptimal` |
| `ReferencesResolve` (`RecursivePayloadProofs`) | `StreamSpec => []ReferencesAgree` |
| `RunsAreWhole` | `Spec => []RunEndsWhereItMust` |
| `SectionsAreAsPredicted` | `Spec => []SizeIsPredicted` |
| `PlansAreUndone` | `Inverted(plan, Transformed(plan, s)) = s`, for every plan that applies to the bytes `s` |
| `FramesAndTransformsAreDecoded` | `Spec => [](Decoded /\ pack.method \in {"framed", "transformed"} => output = input)` |

### The stream container

**Types.** `TypeOK` alone is not inductive. That a block record has natural numbers in it depends on the
range it is for, that on the order of the chunks of the plan, and that on options that are valid. The
invariant is `TypeInv /\ Bounds`: `Working` (a call at work has valid options and an input), `Ordered` (subranges still to be written are not empty),
`BlocksInRange` (a node is begun only for a block that is still to be written), `HaveBounded` (a file has at most the records
of its archive) and `BlockRead` (the reader's block is one of them). `Fresh` and `SameFile` concern reads that overlap writes: what is on disk, or was read, was not written later than the number of writes so far, and
a reader whose last bytes are of the write on disk, whatever it read before, has an archive with as many records as that one. It rests on the arithmetic of rounded-up quotients
(`CeilDivBounds`, `BelowCeilDiv`) and on what each source of packs offers (`PlainPacksType`,
`ValidatedRecursiveType`, ...): packs that decode to the bytes they were made of.

**Contents.** `ReaderGetsTheInput` speaks of a reader's last step; what makes it true was done long before by the writer.
The invariant `Inv` follows the bytes on that way:

1. `Laid`: the tokens of a node cover adjacent runs of chunks, a function `pos` saying where each one ends. A leaf stands for
   its pack's bytes, a slice for a part of the global payload, a split for nothing. `LaidAppend` adds a token.
2. `WriterInv`: the blocks written are in place (`BlocksInPlace`), the global payload is the whole input (`GlobalWhole`),
   the subranges still to be written are adjacent (`Adjacent`), and the tokens of the current node end where the first of them begins
   (`NodeInPlace`). A leaf moves that end on, a split adds a token and leaves it where it is.
3. `FileInv`: the file is empty or holds the records of one input, and is that input's archive if none is missing.
4. `Held`: what was read, if it is of one write (`last = asked`), holds the same, whatever is on disk by now; while it is read and the file is still that of this write, `ReadMore` takes the next record of
   the same archive. `AtStart`: nothing was decoded before the reading ended. Both are needed only because `fs::read` takes several steps.
5. `ReaderInv`: of a reader that decodes what it got of one write (`AtWork`), the output is the span of chunks from the start point to the current block, and the
   current part ends at `pos[tok]`. The checks at the end of a block (`count = Block.count`) and of the stream then give the
   whole suffix. The reader never needs to know how deep the tree was: the count of chunks decides.

The refinement follows from the same invariant: `Create` is `Replace`, `Open` is `Ask`, `ReadFirst` and `ReadOther` are `Take`, `EndRead` is `MeetEnd`, `Misread`, `Finish` and every error are `Answer`
(`ReadPromise`, `ParsePromise`), and all else stutters. That `ReadOther` maps to `Take` needs that a later write has other content (`OtherIsLater`): inputs are numbered.

**Errors.** That a reader fails *only* for the reasons listed needs the shape of what was written, which the invariant above leaves out.
`CompleteInv` adds it: while a node is written, the nodes still missing are as many as the subranges still to be written (`NodeOpen`), so that
a finished node is exactly one tree (`WalksTo` a need of 0 at its last token); each token meets the checks of `decode_stream_node`
(`SoundTokens`), each block those behind it (`WholeBlocks`), and these facts go with the record to the file, to what a reader has of one write (`ReadWhole`) and along the reader's walk
(`Reading`). Each test of the reader then either passes or is one of the known reasons.

### Pack selection

`SelectionInv` says at each stage which candidates there may be and how large. `PackWithinEstimate` compares two sums of varint lengths; it needs that a
varint of a number below 2^35 has at most five bytes and that an estimate's slack pays for each field. `ProbeLoses` follows the gates: where the matrix is skipped some candidate
was far enough below the probe, and a later choice can only be smaller. In `StructuralTiersAreSafe` the margins of both tiers are compared with what the
comments of the code grant the matrix.

### The exact minimizer and the decomposition

`CoverInv` is a conjunction with a part for each phase. *Merging* (`MergeInv`): a level holds every implicant of its size, so a cube is an
implicant if and only if it is below a prime or still on the way to one. *Essential rows* (`EssentialInv`): a row that is the only one for a column is in every
cover. *Search*: `SearchKeepsAMinimum` is inductive with `DepthInv` (each call covers a column more, so calls end and the gain is never 0) and `FoundInv` (the first descent is never given up). `BoundsAreRight` is the
heart: a cover of what is left needs at least `BoundOnTerms` rows, as no row covers more than the largest gain, and that many times
the fewest literals. `DoneIsMinimum` compares with covers by any implicants, which are replaced by primes above them (`RowsForImplicants`).

`CircuitInv` puts this invariant inside the decomposition: `CurrentCall` and `Calls` say that each frame waits for a half of its own function, that a first half agrees with it, and
that inputs dropped by a probe are among `dropped`; a mux then agrees with the function wherever these are 0.

### Satisfiability and the advanced minimizer

`SatInv` keeps every model of the formula reachable from the assignment or one on the stack. Its part `PassSettles` is what unit propagation needs: a
pass that changed nothing has left every clause satisfied, or with two literals or more that are unassigned.

In `AdvancedInv` every cover that is kept is *good*: irredundant implicants that cover the ON-set. Expansion terminates in primes by induction on the number of literals; each pick of the
greedy covering has a minterm of its own when the trimming loop is over; and a check of the pruning always finds a model, because the cover is irredundant (`NoTermIsRedundant`).
The costs are compared as tuples of integers, a total order, and no flow takes a worse cover than it was given.

### The circuit graph

`Sound` is a graph whose nodes are simplified, stored once, in growing order of operands and older than what uses them, the pins first. Evaluation is a
recursive function; `ValuesExist` shows that there is one over every sound graph, by induction over the prefix of nodes, and `ValuesStay` that a graph that goes on
keeps the values it has. Then one lemma for each rewriting: `NotIs`, `AndOrIs` and `XorIs` say that interning returns a sound graph and a node that `Holds` where the operation does. XOR
needs parities: an operand given an odd number of times counts, an even number does not (`OddFibres`, by induction over the operands), TRUE operands invert (`ConstantsOfXor`).
`GraphInv` adds what is under way: the exact minimizer's `CoverInv`, the operands of the current term, and that the terms that are built and
those that are left cover the table together. What is loaded is what was saved since sorting leaves growing operands alone (`InOrderIs`) and pins are stored once.

### Symbol coders

`DecoderReturnsTheInput` looks one symbol at a time, yet depends on every merge of the heap. `StreamsInv` carries it there in four steps:

1. *Trees*. `HeapOK`: the trees share out the symbols, no two have a tie breaker in common (so `First` is defined), and each is a `GoodTree`. A tree of depths is good
   if it fills its space: of `Pow2[L]` slots, a symbol at depth `d` takes `Pow2[L - d]`, and the slots taken are all (`Shape`, `Shared`; `SlotsAdd` for the
   disjoint union of two trees). This is Kraft's sum as a cardinality. Joining two good trees gives a good one, whichever two they are, so the order of the heap does not matter.
2. *Codes*. The entries in ascending order get adjacent intervals of numbers, from `CodeStart` to `CodeEnd` (`CodesFollow`). Full slots make them tile everything below
   `Pow2[MaxCodeBits]` (`CodesEnd`, `Tiling`). A code is a prefix of a bit string exactly if the number of that string is in its interval (`TopBits`, `CodeIsPrefix`). So no code is a
   prefix of another, and with two symbols or more every string begins with one (`CodesAreComplete`).
3. *Payload*. Flattening puts the bits of symbol `k` behind those of the first `k - 1` (`Emitted`, `FlattenIsLast`), and a bit pushed into its byte is the one read there (`PushedBit`). An index
   is the sum of its bits (`PackedAt`), all below the width.
4. *Decoder*. `OnTheWay`: the path read is a prefix of the next symbol's code, and the position is where that prefix ends. The next bit keeps to the code, and a path
   that is some code is this one.

`CodesAreShortest` compares the lengths the heap gave with those of *every* prefix code of the symbols, so nothing can be enumerated. Its argument is the textbook's, on sums:

1. Of a code only the lengths matter, and that they fit Kraft's sum (`Fits`, a sum over a set, `Pow2[m - len]` each). Two symbols that swap their lengths still fit, and if the rarer
   one becomes the longer the sum of lengths times weights does not grow (`SwapCosts`, `SwapKeeps`). So the two rarest may be taken to be the deepest (`RarestDeepest`) and, as nothing else is
   as deep, side by side (`DeepestJoin`); joined one level up they are one leaf less, with the sum of both weights (`JoinCosts`, `JoinFits`).
2. The trees of a heap are the symbols of such a problem: a code of the trees, each with its own depths below, is a code of the input. `HeapCheap`: for every prefix code of the input there is
   such a code of the heap's trees that costs no more. It holds of the leaves (`LeavesAreCheap`); `Merge` joins the two first trees, which are the rarest, so by 1 it keeps it (`JoiningIsCheap`);
   and the one tree that is left is itself that code (`RootIsCheapest`). A lone symbol, whose depth 0 becomes length 1, is a case of its own.
3. `LengthsCost` counts the payload: the stream of codes is as long as the sum of lengths times counts (`CodeStreamCosts`), and an index stream is a code as well, one of equal lengths
   (`IndicesAreACode`). Either is therefore no shorter than the tree (`CheapIsOptimal`).

The sums themselves (unfolding, comparing, renumbering, multiples) are lemmas of `DataLemmas`.

### The circuit bit stream

A reference has no width of its own: the reader takes it from the definitions it has met, so one definition more or less on either side turns all
that follows into noise. `ReferencesAgree` says of any sequence of circuits that the reader returns the ids the writer gave and the contents it was given.

1. *Reading gives back what was written.* `Lies(s, st, pos)`: the bits of `s` are in the stream behind `pos`; it stays true when bits are appended (`LiesInLonger`). A field that lies there is
   read as its number (`FieldIs`), a nibble varint as its value, ending where it ends (`NibblesRead`, by induction over its groups), and a plan or a node as itself (`PlanReads`, `NodeReads`, `CircuitReads`).
2. *Layout.* `StreamInv` says that there are functions `pos` and `seen`: where each circuit ends and how many contents are defined by then. Circuit `i` is an `Item` between `pos[i - 1]` and `pos[i]`: a
   `Definition`, whose id is the number of contents so far, or a `Reference` to an earlier one, as wide as that number asks for. Writing extends both functions by one (`OneMoreItem`); the padding at the end changes none of it (`EndWritingKeeps`).
3. *Progress.* The reader stands at `pos` of what it has read, its table has `seen` entries, and each entry spans a definition of that id (`Known`). The tag it reads is therefore the one written, the width
   of a reference the one used (`ReadReferenceKeeps`), and the entry of a reference holds bits that read as the same content.

### Framed and recursive payloads

`RunEndsWhereItMust` speaks of the best run found: if what follows it is one more frame, of its tag and with a right CRC, then that frame cost more than the budget that was left. `RunInv` adds the types of what is scanned and hashed: a run is kept only where
the scan could not go on (`EndOfRun`), and the budget never falls below zero (`BudgetIsLeft`), since a frame's cost is compared with it first (`LengthsAreNumbers`: a field of bytes is a natural number).

`SizeIsPredicted` compares what the writers emit with lengths computed beforehand, and asks for topologies that can be bit-packed. `SizeInv` carries the plan and the blocks from stage to stage.

1. *Lengths.* The length of a flattened sequence is the sum of the lengths of its parts (`FlattenLength`, `FlattenOfSum`); a nibble varint has four bits for each three of its value (`NibbleLen`); so a node, a
   topology, each column of the table of blocks and the whole of it are as long as predicted (`NodeLength`, `TopologyLength`, `ColumnLength`, `BlocksLength`). A column's width is that of its largest number, which bounds every other (`WidestIs`, `GroupWidths`).
2. *Topologies.* Every topology that is built, for one plan, for one with a plan for its corrections, or for blocks, is one the compact form admits: ids count up, orders fit two bits, kinds have an index (`TopologyIsGood`, `CorrectedIsGood`, `GoodNodesPack`).
   Plans of blocks are stored once, and the list of them has each (`UniquePlansAre`).

### Transforms, and the packs that are decoded

`PlansAreUndone` is about data: a transform and its inverse are recursive functions over bytes, and the inverse reads what it has already restored.

1. *Differences.* A transform by differences or XOR takes a byte `p` places or a row before; its inverse goes forward, so by induction over places the byte it needs is restored already (`DeltaBack`, `XoredBack`,
   `RowDeltaBack`, `RowXoredBack`). XOR twice is the identity because a byte is the sum of its bits (`LowestHas`, `ByteOfBits`, `XorIs`).
2. *Orders.* The others only move bytes or bits. Splitting heads from tails is two flattened sequences of parts: `FlattenPlaces` says where each part begins (`HeadTailLies`), and the inverse looks there (`HeadTailUndone`).
   A gather is a permutation by columns whose lengths differ by one at most (`ColumnsBefore`, `GatherUndone`). Bit planes are a permutation of all bits, read as places of two mixed radices (`PlaceBelow`, `PlanesUndone`).
3. *Plans.* Each kind of plan is a list of such steps, on all or on the tail (`StepsAre`), each of which fits the bytes it is applied to (`StepFits`) and is undone in its part (`StepUndone`); undoing goes backwards along the
   states that applying went through (`StepsCanBeTaken`).

`FramesAndTransformsAreDecoded` follows one of these packs to its decoder. `DecodedInv` has `RunInv` and, for each stage, that the decoder would return the input (`DecodesRight`).

- *Framed.* While a run grows, the input behind `start` is the frames of the data collected, one after the other (`RunOf`, kept by `FirstOfRun` and `NextOfRun`). A good frame is its own length, written back in digits, then tag, data and
  checksum (`FrameIs`, `BytesOfNumber`). The dictionary keeps a base length, a count and a tail: enough, since a run that is kept has equal lengths but for the last (`Regular`, `Describes`). The decoder's frames are therefore
  the input between prefix and suffix (`RunRebuilt`), and its sum of lengths is the payload's (`SumOfFirst`).
- *Transformed.* What the codec gives back is the transformed input (`UnpackedIs`), and its length is what the header says, so the inverse is taken (`TransformedReads`).

### Only model-checked

- Liveness (`WriterReturns`, `CallsReturn`, `DecomposeReturns`, `MinimizeReturns`): the proof system has no rules for fairness and `ENABLED`.
- `DecoderAccepts` and `DecodedIsTheInput` of `RecursivePayload` for methods other than framed and transformed. Recursive packs need the bit-packed dictionary and the blocks read back, the others the inverses of the gap and prime
  codecs, the atlas and the parser of archives: recursive functions over the data, each of which asks for an induction of its own.

Induction is over sets of numbers or finite sets (`NatSetInduction`, `SetInduction`), because the library's theorems take a predicate as a parameter and no prover here can instantiate them. A recursive
function is used through a lemma that says it exists. Sorting operators of the community modules are opaque, so orders are stated by ranks.


## 5. Not modelled, and why

- *Which* plan the stream planner picks, its memo table and the cache of packed ranges: any plan that
  the guards allow may be chosen, which is enough for correctness of reading, not for that of the cache key.
- Contents of compressed payloads: liblzma, preflate and floating-point models are outside TLC's reach.
- Wording of errors, printing, timing.
- How transform plans and block counts are *scored* (histograms, trial compressions) and the search for xz settings: any plan that could win may win.
- The byte layout of the dictionaries of methods other than the recursive one: their fields are members of a record, in the same order on both sides.
- The older byte-wise topology form: `decode_recursive_circuit_payload` still reads it, no writer produces it (`SizeIsPredicted` checks that every
  topology is eligible for the bit-packed form). The topology hash is computed but not written.
- Statistics of `minimize_advanced`'s report and the pin names of `CircuitModel`.
- The refusal of more than 16 inputs when a circuit is built exactly (`model.rs:379`): the instances are far below it.
- Reads that overlap two calls of `fs::write` at the same time, and what a parser makes of bytes that are no records (`Misread` allows any answer).

## 6. Plan

1. *(done)* `ZbpsStream` with `RestartableArchive`: the outermost promise, and the only component with crashes and shared state.
2. *(done)* `PackSelection`: what every other component feeds.
3. *(done)* `SymbolStreams`: the coders all dictionaries use.
4. *(done)* `CircuitBitStream`: interning writer and reader over one bit sequence.
5. *(done)* `RecursivePayload` with `CircuitDictionary`, `BitFields` and `ByteTransforms`: frames, recursive and transformed payloads and back.
6. *(done)* `ExactCover` with `HierarchicalCircuit`, `Dpll` with `AdvancedMinimizer`, and `CircuitModel`.
7. *(done)* `NumericTables` and `InputSplits`: gap codecs, prime tables, atlas, tensor split (`codecs.rs`).
8. Stream planning: the dynamic program with its memo and the range cache, implementing the choice `ZbpsStream` leaves open.

Theorems planned: the inverses of the codecs in `NumericTables` and `InputSplits` and the reader of `CircuitDictionary`, one by one, then `DecoderAccepts` and `DecodedIsTheInput` for the
methods that use them. Every other invariant that a run checks is stated by a theorem.
