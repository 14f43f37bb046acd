---------------------------- MODULE CircuitDictionary ----------------------------
(***************************************************************************)
(* The bit-packed sections of the dictionary of a recursive pack           *)
(* (zbit-rs/src/pack/recursive.rs): the topology of the transform, and the *)
(* plans of the blocks when the plain text is split.  For each, what is    *)
(* written, what is read back, and the size predicted before writing.      *)
(***************************************************************************)
EXTENDS ByteTransforms, BitFields

OrderBits == 2
KindIndexBits == 6
CountBits == 4
WidthBits == 5

\* The fields of a plan, whose period and head are 32 bits wide.
U32 == {n \in Nat : BitsForValue[n] <= 32}
PlanType == [kind : Kinds, period : U32, head : U32]

\* Both sections end at a byte of the dictionary.
Padded(bits) == bits \o [i \in 1..((0 - Len(bits)) % 8) |-> 0]

----------------------------------------------------------------------------
(* The topology.                                                           *)

\* compact_topology_eligible
Eligible(nodes) ==
    \A i \in DOMAIN nodes : nodes[i].order <= 3 /\ HasIndex(nodes[i].kind) /\ nodes[i].id = i

\* nibble_varint_bit_len
NibbleBitLen[value \in Nat] == IF value < 8 THEN 4 ELSE 4 + NibbleBitLen[value \div 8]

\* compact_topology_node_bit_len, of a node that follows prev others.
NodeBitLen(node, prev) ==
    1 + OrderBits + KindIndexBits + 1 + (IF node.parent = NoParent THEN 0 ELSE BitsForIndex(prev))
      + NibbleBitLen[node.a] + NibbleBitLen[node.b]

\* compact_topology_total_bit_len
\* Mutant: a node counts itself among those before it.
TopologyBitLenOneMore(nodes) == SumFunctionOnSet([i \in DOMAIN nodes |-> NodeBitLen(nodes[i], i)], DOMAIN nodes)
TopologyBitLen(nodes) == SumFunctionOnSet([i \in DOMAIN nodes |-> NodeBitLen(nodes[i], i - 1)], DOMAIN nodes)

\* A child names its parent by a width that grows with the nodes already written.
NodeBits(node, prev) ==
    Bits(node.relation, 1) \o Bits(node.order, OrderBits) \o Bits(KindIndex(node.kind), KindIndexBits)
      \o (IF node.parent = NoParent THEN <<1>> ELSE <<0>> \o Bits(node.parent - 1, BitsForIndex(prev)))
      \o Nibbles[node.a] \o Nibbles[node.b]
TopologyBits(nodes) == FlattenSeq([i \in DOMAIN nodes |-> NodeBits(nodes[i], i - 1)])

\* One node, what is wrong with it, and where it ends.
ReadNode(bits, pos, prev) ==
    LET index == Field(bits, pos + 3, KindIndexBits)
        root == Field(bits, pos + 9, 1) = 1
        width == IF root THEN 0 ELSE BitsForIndex(prev)
        parent == IF root THEN NoParent ELSE Field(bits, pos + 10, width) + 1
        b == NibblesEnd(bits, pos + 10 + width)
        ok == HasKind(index) /\ (root \/ (prev > 0 /\ parent <= prev))
    IN [ok |-> ok, end |-> NibblesEnd(bits, b),
        node |-> Node(prev + 1, parent, Field(bits, pos, 1), Field(bits, pos + 1, OrderBits),
                      IF ok THEN KindOf(index) ELSE 0,
                      NibblesValue(bits, pos + 10 + width), NibblesValue(bits, b))]

\* Every node must be right, one must be a root, and all bits of the section be used.
WithNode(read, next) ==
    [ok |-> read.ok /\ next.ok, end |-> next.end, nodes |-> Append(read.nodes, next.node)]
AfterNode(bits, read) == WithNode(read, ReadNode(bits, read.end, Len(read.nodes)))
CheckedTopology(bits, read) ==
    [read EXCEPT !.ok = @ /\ read.end = Len(bits) /\ \E i \in DOMAIN read.nodes : read.nodes[i].parent = NoParent]
ReadTopology(bits, count) ==
    LET read[i \in 0..count] ==
            IF i = 0 THEN [ok |-> TRUE, end |-> 0, nodes |-> <<>>] ELSE AfterNode(bits, read[i - 1])
    IN CheckedTopology(bits, read[count])

----------------------------------------------------------------------------
(* The blocks: a size that all but the last have, and a plan for each.     *)

\* multi_block_unique_plans
WithPlan(table, plan) == IF plan \in Range(table) THEN table ELSE Append(table, plan)
UniquePlans(blocks) ==
    LET table[i \in 0..Len(blocks.plans)] == IF i = 0 THEN <<>> ELSE WithPlan(table[i - 1], blocks.plans[i])
    IN table[Len(blocks.plans)]
\* multi_block_layout
GroupWidth(table, Of(_)) == BitsForValue[Max({Of(table[i]) : i \in DOMAIN table})]
PeriodWidth(table) == GroupWidth(table, LAMBDA plan : plan.period)
HeadWidth(table) == GroupWidth(table, LAMBDA plan : plan.head)

\* multi_block_trailer_bit_len
BlocksBitLen(blocks) ==
    LET count == Len(blocks.plans)
        table == UniquePlans(blocks)
    IN CountBits + (WidthBits + BitsForValue[blocks.size]) + BitsForIndex(count) + KindIndexBits * Len(table)
         + (WidthBits + PeriodWidth(table) * Len(table)) + (WidthBits + HeadWidth(table) * Len(table))
         + BitsForIndex(Len(table)) * count

\* write_multi_block_section
BlocksBits(blocks) ==
    LET count == Len(blocks.plans)
        table == UniquePlans(blocks)
        Column(Of(_), width) == FlattenSeq([i \in DOMAIN table |-> Bits(Of(table[i]), width)])
        Choice(i) == Bits((CHOOSE j \in DOMAIN table : table[j] = blocks.plans[i]) - 1, BitsForIndex(Len(table)))
    IN Bits(count, CountBits)
         \o Bits(BitsForValue[blocks.size], WidthBits) \o Bits(blocks.size, BitsForValue[blocks.size])
         \o Bits(Len(table) - 1, BitsForIndex(count))
         \o Column(LAMBDA plan : KindIndex(plan.kind), KindIndexBits)
         \o Bits(PeriodWidth(table), WidthBits) \o Column(LAMBDA plan : plan.period, PeriodWidth(table))
         \o Bits(HeadWidth(table), WidthBits) \o Column(LAMBDA plan : plan.head, HeadWidth(table))
         \o FlattenSeq([i \in 1..count |-> Choice(i)])

\* A group of fields of one width, and one that its width precedes.
Group(bits, pos, width, n) == [i \in 1..n |-> Field(bits, pos + (i - 1) * width, width)]
WideGroup(bits, pos, n) ==
    LET width == Field(bits, pos, WidthBits)
    IN [values |-> Group(bits, pos + WidthBits, width, n), end |-> pos + WidthBits + width * n]

\* read_multi_block_section
ReadChoices(bits, count, size, kinds, periods, heads) ==
    LET table == Len(kinds)
        choices == Group(bits, heads.end, BitsForIndex(table), count)
        ok == /\ count > 0 /\ size > 0 /\ table <= count
              /\ \A j \in 1..table : HasKind(kinds[j]) /\ KindOf(kinds[j]) \in Kinds
              /\ \A i \in 1..count : choices[i] < table
        PlanAt(j) == Plan(KindOf(kinds[j]), periods.values[j], heads.values[j])
    IN [ok |-> ok, end |-> heads.end + BitsForIndex(table) * count, size |-> size,
        plans |-> IF ok THEN [i \in 1..count |-> PlanAt(choices[i] + 1)] ELSE <<>>]
ReadPlans(bits, count, size, pos, table) ==
    LET periods == WideGroup(bits, pos + KindIndexBits * table, table)
    IN ReadChoices(bits, count, size, Group(bits, pos, KindIndexBits, table), periods,
                   WideGroup(bits, periods.end, table))
ReadBlocks(bits) ==
    LET count == Field(bits, 0, CountBits)
        size == WideGroup(bits, CountBits, 1)
        lenBits == BitsForIndex(count)
    IN ReadPlans(bits, count, size.values[1], size.end + lenBits, Field(bits, size.end, lenBits) + 1)

================================================================================
