---------------------------- MODULE CircuitBitStream ----------------------------
(***************************************************************************)
(* The bit stream of zbit-rs/src/pack/bitstream.rs that interns circuits:  *)
(* a writer puts a sequence of plans and topology nodes in one stream of   *)
(* bits, each as a definition or as a reference to an earlier one, and a   *)
(* reader that is told only which type to expect next rebuilds them.  The  *)
(* width of a reference depends on how many definitions came before it,    *)
(* which both count for themselves.                                        *)
(***************************************************************************)
EXTENDS CircuitDictionary

CONSTANTS
    Circuits,   \* what may be written: [type |-> "plan", value |-> plan] or "node"
    MaxWrites   \* bound on the number of circuits in a stream

\* The fields of a node of a topology.
NodeType == [id : U32, parent : U32, relation : 0..1, order : 0..3, kind : 0..26 \cup 200..222, a : U32, b : U32]

ASSUME CircuitAssumption ==
    Circuits \subseteq [type : {"plan"}, value : PlanType] \cup [type : {"node"}, value : NodeType]

VARIABLES
    written,    \* the circuits written, in order
    ids,        \* the id write_def_or_ref returned for each
    bits,       \* the stream
    interning,  \* the contents defined so far: a content's id is its place less one
    reading,    \* whether the stream is being read
    bitPos,     \* where the reader is
    table,      \* the ranges of bits of the definitions it has read
    decoded     \* what it has returned, and whether it failed

streamVars == <<written, ids, bits, interning, reading, bitPos, table, decoded>>

\* BitSerializable for CircuitTransformPlan and CircuitTopologyNode: the bits of a
\* value, and the content that identifies it.  A node's id is not part of either.
CircuitBits(circuit) ==
    LET v == circuit.value
    IN IF circuit.type = "plan"
       THEN Bits(KindIndex(v.kind), KindIndexBits) \o Nibbles[v.period] \o Nibbles[v.head]
       ELSE Bits(v.relation % 2, 1) \o Bits(v.order % 4, OrderBits) \o Bits(KindIndex(v.kind), KindIndexBits)
              \o (IF v.parent = NoParent THEN <<1>> ELSE <<0>> \o Nibbles[v.parent])
              \o Nibbles[v.a] \o Nibbles[v.b]
Content(circuit) ==
    IF circuit.type = "plan" THEN circuit ELSE [circuit EXCEPT !.value.id = 0]

\* The reading of a value of a type: whether it is one, the value, and where it ends.
ReadPlan(pos) ==
    LET index == Field(bits, pos, KindIndexBits)
        headAt == NibblesEnd(bits, pos + KindIndexBits)
        ok == HasKind(index) /\ KindOf(index) \in Kinds
    IN [ok |-> ok, end |-> NibblesEnd(bits, headAt),
        value |-> Plan(IF ok THEN KindOf(index) ELSE 0, NibblesValue(bits, pos + KindIndexBits),
                       NibblesValue(bits, headAt))]
ReadStandaloneNode(pos) ==
    LET index == Field(bits, pos + 3, KindIndexBits)
        root == Field(bits, pos + 9, 1) = 1
        aAt == IF root THEN pos + 10 ELSE NibblesEnd(bits, pos + 10)
        bAt == NibblesEnd(bits, aAt)
    IN [ok |-> HasKind(index), end |-> NibblesEnd(bits, bAt),
        value |-> Node(0, IF root THEN NoParent ELSE NibblesValue(bits, pos + 10), Field(bits, pos, 1),
                       Field(bits, pos + 1, OrderBits), IF HasKind(index) THEN KindOf(index) ELSE 0,
                       NibblesValue(bits, aAt), NibblesValue(bits, bAt))]
ReadValue(type, pos) == IF type = "plan" THEN ReadPlan(pos) ELSE ReadStandaloneNode(pos)

StreamInit ==
    /\ written = <<>> /\ ids = <<>> /\ bits = <<>> /\ interning = <<>>
    /\ reading = FALSE /\ bitPos = 0 /\ table = <<>> /\ decoded = <<>>

----------------------------------------------------------------------------
(* The writer: write_def_or_ref.                                           *)

\* Both sides count what has been defined up to now.
WriterWidth == BitsForIndex(Len(interning))
\* Mutant: the reader's table counts the circuit it is about to read.
ReaderWidthOneMore == BitsForIndex(Len(table) + 1)
ReaderWidth == BitsForIndex(Len(table))

Accepts == ~reading /\ Len(written) < MaxWrites

WriteReference ==
    /\ Accepts
    /\ \E circuit \in Circuits, id \in 0..(Len(interning) - 1) :
          /\ interning[id + 1] = Content(circuit)
          /\ bits' = bits \o <<1>> \o Bits(id, WriterWidth)
          /\ written' = Append(written, circuit) /\ ids' = Append(ids, id)
    /\ UNCHANGED <<interning, reading, bitPos, table, decoded>>

WriteDefinition ==
    /\ Accepts
    /\ \E circuit \in Circuits :
          /\ Content(circuit) \notin Range(interning)
          /\ bits' = bits \o <<0>> \o CircuitBits(circuit)
          /\ interning' = Append(interning, Content(circuit))
          /\ written' = Append(written, circuit) /\ ids' = Append(ids, Len(interning))
    /\ UNCHANGED <<reading, bitPos, table, decoded>>

\* into_bytes: the last byte is filled with zeros, which the reader could take for more.
EndWriting ==
    /\ ~reading /\ written # <<>>
    /\ reading' = TRUE
    /\ bits' = Padded(bits)
    /\ UNCHANGED <<written, ids, interning, bitPos, table, decoded>>

----------------------------------------------------------------------------
(* The reader: read_def_or_ref, once for every circuit written.            *)

Failed == \E i \in DOMAIN decoded : ~decoded[i].ok
Expects == reading /\ ~Failed /\ Len(decoded) < Len(written)
Type == written[Len(decoded) + 1].type
TagBit == Field(bits, bitPos, 1)

\* A reference is replayed from the bits of its definition, all of which it must use.
ReadReference ==
    /\ Expects /\ TagBit = 1
    /\ LET id == Field(bits, bitPos + 1, ReaderWidth)
           known == id < Len(table)
           replay == ReadValue(Type, table[id + 1].start)
           ok == known /\ replay.ok /\ replay.end = table[id + 1].end
       IN decoded' = Append(decoded, [ok |-> ok, id |-> id, value |-> IF ok THEN replay.value ELSE Identity])
    /\ bitPos' = bitPos + 1 + ReaderWidth
    /\ UNCHANGED <<written, ids, bits, interning, reading, table>>

ReadDefinition ==
    /\ Expects /\ TagBit = 0
    /\ \E read \in {ReadValue(Type, bitPos + 1)} :
          LET ok == read.ok /\ read.end <= Len(bits)
          IN /\ decoded' = Append(decoded, [ok |-> ok, id |-> Len(table), value |-> read.value])
             /\ bitPos' = read.end
             /\ table' = Append(table, [start |-> bitPos + 1, end |-> read.end])
    /\ UNCHANGED <<written, ids, bits, interning, reading>>

StreamNext == WriteReference \/ WriteDefinition \/ EndWriting \/ ReadReference \/ ReadDefinition

StreamSpec == StreamInit /\ [][StreamNext]_streamVars

----------------------------------------------------------------------------

(***************************************************************************)
(* The writer and the reader agree at every circuit, however definitions,  *)
(* references and types alternate: the reader has the same id and an equal *)
(* value, and its table has a range for each content the writer had        *)
(* interned by then.                                                       *)
(***************************************************************************)
ReferencesAgree ==
    \A i \in DOMAIN decoded :
        /\ decoded[i].ok
        /\ decoded[i].id = ids[i]
        /\ decoded[i].value = Content(written[i]).value
        /\ i = Len(decoded) => Len(table) = Max({ids[j] : j \in 1..i}) + 1

================================================================================
