------------------------------ MODULE NumericTables ------------------------------
(***************************************************************************)
(* Inputs that are tables of numbers (zbit-rs/src/pack/codecs.rs): tables  *)
(* of growing numbers, packed as the gaps between them in one of five      *)
(* modes, and tables of consecutive primes, packed as their ends.          *)
(*                                                                         *)
(* A number has at most MaxWidth bytes (8 in the code); arithmetic is that *)
(* of words of this width, signed where the code's is.                     *)
(***************************************************************************)
EXTENDS PayloadCodecs, BitFields

CONSTANTS
    MaxWidth,
    CandidateWidths,  \* the widths of a number, in the order they are tried
    MaxSieveValue     \* PRIME_SEQUENCE_MAX_SIEVE_VALUE

ASSUME TableAssumption ==
    /\ ByteBits > 1 /\ MaxWidth \in 1..8 /\ MaxSieveValue \in Nat
    /\ CandidateWidths \in Seq(1..MaxWidth)

Word == Base ^ MaxWidth
LargestSigned == Word \div 2 - 1

----------------------------------------------------------------------------
(* Numbers of some width, lowest byte first, and varints.                  *)

\* max_value_for_width
Capacity(width) == Base ^ width - 1
\* read_le_u64_width and write_le_u64_width
Number(bytes) == MapThenSumSet(LAMBDA i : bytes[i] * Base ^ (i - 1), DOMAIN bytes)
ToBytes(value, width) == [i \in 1..width |-> (value \div Base ^ (i - 1)) % Base]

Numbers(s, width) == [i \in 1..(Len(s) \div width) |-> Number(Slice(s, (i - 1) * width, i * width))]

\* push_varint_u64 and read_varint_u64: the highest bit of a byte says that more follow.
Half == Base \div 2
Varint[value \in Nat] ==
    IF value < Half THEN <<value>> ELSE <<Half + (value % Half)>> \o Varint[value \div Half]

MaxVarintBytes == CeilDiv(MaxWidth * ByteBits, ByteBits - 1)
\* What is read at some place, whether it is there, and where it ends.
ReadByte(s, pos) == [ok |-> pos < Len(s), end |-> pos + 1, value |-> IF pos < Len(s) THEN s[pos + 1] ELSE 0]
ReadVarint(s, pos) ==
    LET last == {k \in 1..MaxVarintBytes : pos + k <= Len(s) /\ s[pos + k] < Half}
        n == Min(last)
        value == MapThenSumSet(LAMBDA k : (s[pos + k] % Half) * Half ^ (k - 1), 1..n)
    IN IF last = {} THEN [ok |-> FALSE, end |-> pos, value |-> 0]
       ELSE [ok |-> TRUE, end |-> pos + n, value |-> value % Word]

\* encode_zigzag_i64 and decode_zigzag_i64
Zigzag(delta) == IF delta >= 0 THEN 2 * delta ELSE -2 * delta - 1
\* Mutant: negative differences are read one too high.
UnzigzagOneTooHigh(code) == IF code % 2 = 0 THEN code \div 2 ELSE -(code \div 2)
Unzigzag(code) == IF code % 2 = 0 THEN code \div 2 ELSE -((code + 1) \div 2)

----------------------------------------------------------------------------
(* The gaps of a table and the five ways to write them.                    *)

GapVarint == 0
GapDeltaVarint == 1
GapBytes == 2
GapTrailingZeroVarint == 3
GapTrailingZeroBytes == 4
Modes == 0..4
BytePerGap(mode) == mode \in {GapBytes, GapTrailingZeroBytes}
Shifted(mode) == mode \in {GapTrailingZeroVarint, GapTrailingZeroBytes}

\* A table of at least three numbers, each larger than the one before.
Grows(numbers) == \A i \in 1..(Len(numbers) - 1) : numbers[i] < numbers[i + 1]
IsGrowingTable(s, width) ==
    Len(s) >= 3 * width /\ Len(s) % width = 0 /\ Grows(Numbers(s, width))

Gaps(numbers) == [i \in 1..(Len(numbers) - 1) |-> numbers[i + 1] - numbers[i]]

\* common_suffix_trailing_zero_shift: what all gaps after the first have in common.
CommonShift(gaps) ==
    Max({k \in 0..(MaxWidth * ByteBits - 1) : \A i \in 2..Len(gaps) : gaps[i] % 2 ^ k = 0})
ShiftOf(mode, gaps) == IF Shifted(mode) THEN CommonShift(gaps) ELSE 0

\* encode_gap_varints and its kin: the first gap, then what the mode makes of the others.
GapCodes(mode, gaps) ==
    [i \in DOMAIN gaps |->
        IF i = 1 THEN gaps[1]
        ELSE IF mode = GapDeltaVarint THEN Zigzag(gaps[i] - gaps[i - 1])
        ELSE gaps[i] \div 2 ^ ShiftOf(mode, gaps)]
CanWrite(mode, gaps) ==
    /\ mode = GapDeltaVarint => \A i \in DOMAIN gaps : gaps[i] <= LargestSigned
    /\ Shifted(mode) => /\ CommonShift(gaps) > 0
                        /\ \A i \in 2..Len(gaps) : gaps[i] % 2 ^ CommonShift(gaps) = 0
    /\ BytePerGap(mode) => \A i \in DOMAIN gaps : GapCodes(mode, gaps)[i] < Base
GapStream(mode, gaps) ==
    LET codes == GapCodes(mode, gaps)
    IN FlattenSeq([i \in DOMAIN codes |-> IF BytePerGap(mode) THEN <<codes[i]>> ELSE Varint[codes[i]]])

\* write_monotonic_delta_dictionary; the plan is written only if there is one.
NoPlan == <<>>
MonotonicDictionary(s, width, mode, codec, plan) ==
    LET numbers == Numbers(s, width)
        gaps == Gaps(numbers)
    IN [meta |-> (width - 1) + 8 * mode + 64 * codec, shift |-> ShiftOf(mode, gaps), count |-> Len(numbers),
        first |-> numbers[1], plainLen |-> Len(GapStream(mode, gaps)),
        plan |-> IF plan = Identity THEN NoPlan ELSE <<KindIndex(plan.kind), plan.period, plan.head>>]

----------------------------------------------------------------------------
(* decode_monotonic_delta_payload                                          *)

\* The gap a code stands for, after the gap prev.
GapOf(mode, shift, prev, code) ==
    CASE mode = GapDeltaVarint -> prev + Unzigzag(code)
      [] Shifted(mode) -> (code * 2 ^ shift) % Word
      [] OTHER -> code

\* One more number of the table.
WithNumber(table, width, read, gap) ==
    LET next == table.last + gap
    IN [ok |-> table.ok /\ read.ok /\ gap \in 1..(Word - 1) /\ next <= Capacity(width),
        end |-> read.end, gap |-> gap, last |-> next, out |-> table.out \o ToBytes(next, width)]
ReadNumber(s, mode, shift, width, table, i) ==
    LET read == IF BytePerGap(mode) THEN ReadByte(s, table.end) ELSE ReadVarint(s, table.end)
    IN WithNumber(table, width, read,
                  IF i = 2 THEN read.value ELSE GapOf(mode, shift, table.gap, read.value))

Table(s, dict, mode, width) ==
    LET none == [ok |-> dict.first <= Capacity(width), end |-> 0, gap |-> 0, last |-> dict.first,
                 out |-> ToBytes(dict.first, width)]
        read[i \in 1..dict.count] ==
            IF i = 1 THEN none
            ELSE IF read[i - 1].ok THEN ReadNumber(s, mode, dict.shift, width, read[i - 1], i)
            ELSE read[i - 1]
    IN IF read[dict.count].ok /\ read[dict.count].end = Len(s) THEN read[dict.count].out ELSE Error

KnownPlan(plan) == plan = NoPlan \/ (HasKind(plan[1]) /\ KindOf(plan[1]) \in Kinds)
DecodeMonotonic(dict, payload, size) ==
    LET width == (dict.meta % 8) + 1
        mode == (dict.meta \div 8) % 8
        data == Unpacked(payload, dict.meta \div 64, dict.plainLen)
        plain == IF dict.plan = NoPlan THEN data
                 ELSE Undone(data, Plan(KindOf(dict.plan[1]), dict.plan[2], dict.plan[3]))
        Right == mode \in Modes /\ dict.shift < 64 /\ KnownPlan(dict.plan) /\ dict.count > 0 /\ dict.count * width = size
    IN IF Right /\ plain # Error THEN Table(plain, dict, mode, width) ELSE Error

----------------------------------------------------------------------------
(* Tables of primes.                                                       *)

\* sieve_prime_flags: what no multiple strikes out.
Sieve(limit) ==
    (2..limit) \ {p * m : p, m \in 2..limit}
PrimesBetween(first, last) == SetToSortSeq(Sieve(last) \cap (first..last), <)
PrimeEnds(first, last) ==
    2 <= first /\ first <= last /\ last <= MaxSieveValue /\ {first, last} \subseteq Sieve(last)

IsPrimeTable(s, width) ==
    /\ Len(s) >= width /\ Len(s) % width = 0
    /\ LET numbers == Numbers(s, width)
           last == numbers[Len(numbers)]
       IN PrimeEnds(numbers[1], last) /\ numbers = PrimesBetween(numbers[1], last)

\* build_prime_sequence_stream takes the first width under which the input is such a table.
PrimeWidths(s) == SelectSeq(CandidateWidths, LAMBDA width : IsPrimeTable(s, width))
PrimeDictionary(s, width) ==
    LET numbers == Numbers(s, width)
    IN [width |-> width, count |-> Len(numbers), first |-> numbers[1], last |-> numbers[Len(numbers)]]

\* decode_prime_sequence_payload
DecodePrimes(dict, payload, size) ==
    LET primes == PrimesBetween(dict.first, dict.last)
        Right == /\ payload = <<>> /\ dict.width \in 1..MaxWidth /\ dict.count * dict.width = size
                 /\ dict.last <= Capacity(dict.width) /\ PrimeEnds(dict.first, dict.last) /\ Len(primes) = dict.count
    IN IF Right THEN FlattenSeq([i \in DOMAIN primes |-> ToBytes(primes[i], dict.width)]) ELSE Error

================================================================================
