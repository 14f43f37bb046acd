-------------------------------- MODULE BitFields --------------------------------
(***************************************************************************)
(* The bit-level fields of zbit-rs/src/pack/format.rs, and the widths and  *)
(* kind numbers of recursive.rs that the bit streams share.  A stream is a *)
(* sequence of bits, the first bit of a field being its highest.           *)
(***************************************************************************)
EXTENDS PowersOfTwo, Sequences

\* The number whose digits are d, the highest first.
NumberOf(d, base) ==
    LET upTo[i \in 0..Len(d)] == IF i = 0 THEN 0 ELSE base * upTo[i - 1] + d[i] IN upTo[Len(d)]

\* BitWriter::write_bits
Bits(value, width) == [i \in 1..width |-> (value \div Pow2[width - i]) % 2]

\* BitReader::read_bits.  What lies beyond the end reads as 0 here, and a position
\* beyond the end is an error that every reader checks for when it has finished.
BitAt(bits, pos) == IF pos <= Len(bits) THEN bits[pos] ELSE 0
Field(bits, pos, width) == NumberOf([i \in 1..width |-> BitAt(bits, pos + i)], 2)

\* write_nibble_varint: three bits of the value, the lowest first, and whether more follow.
Nibbles[value \in Nat] ==
    IF value < 8 THEN Bits(value, 3) \o <<0>>
    ELSE Bits(value % 8, 3) \o <<1>> \o Nibbles[value \div 8]

\* read_nibble_varint, which shifts by no more than 63.
MaxNibbles == 22
NibbleCount(bits, pos) == CHOOSE k \in 1..MaxNibbles : /\ Field(bits, pos + 4 * k - 1, 1) = 0
                                                       /\ \A j \in 1..(k - 1) : Field(bits, pos + 4 * j - 1, 1) = 1
NibblesEnd(bits, pos) == pos + 4 * NibbleCount(bits, pos)
NibblesValue(bits, pos) ==
    LET n == NibbleCount(bits, pos) IN NumberOf([i \in 1..n |-> Field(bits, pos + 4 * (n - i), 3)], 8)

\* bits_for_value, and bits_for_index: what an index below count needs.
BitsForValue[value \in Nat] == IF value = 0 THEN 0 ELSE 1 + BitsForValue[value \div 2]
BitsForIndex(count) == IF count <= 1 THEN 0 ELSE BitsForValue[count - 1]

\* kind_to_compact_index and compact_index_to_kind
HasIndex(kind) == kind \in 0..26 \/ kind \in 200..222
\* Mutant: the correction plans follow the last kind too closely.
KindIndexFrom26(kind) == IF kind <= 26 THEN kind ELSE 26 + (kind - 200)
KindIndex(kind) == IF kind <= 26 THEN kind ELSE 27 + (kind - 200)
HasKind(index) == index \in 0..49
KindOf(index) == IF index <= 26 THEN index ELSE 200 + (index - 27)

================================================================================
