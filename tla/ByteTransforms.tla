----------------------------- MODULE ByteTransforms -----------------------------
(***************************************************************************)
(* The reversible byte transforms of zbit-rs/src/pack/transforms.rs and    *)
(* the circuit topology that describes each.  A plan is a kind, a period   *)
(* and a head; here it is a sequence of steps, applied in order and        *)
(* inverted in the opposite order, each on all bytes or only on the tail:  *)
(* what is left when the first byte of every period is moved to the front. *)
(*                                                                         *)
(* A byte has ByteBits bits (8 in the code), which no transform depends on *)
(* otherwise.  Kinds are the numbers CircuitTransformKind::as_u8 gives.    *)
(***************************************************************************)
EXTENDS PowersOfTwo, FiniteSets, Sequences, FiniteSetsExt, SequencesExt

CONSTANT ByteBits

ASSUME ByteAssumption == ByteBits \in Nat \ {0}

Base == Pow2[ByteBits]
Bytes == 0..(Base - 1)

CeilDiv(a, b) == (a + b - 1) \div b
BitOf(byte, k) == (byte \div Pow2[k]) % 2
FromBits(Bit(_)) ==
    LET places == 0..(ByteBits - 1) IN SumFunctionOnSet([k \in places |-> Bit(k) * Pow2[k]], places)
Xor(a, b) == FromBits(LAMBDA k : (BitOf(a, k) + BitOf(b, k)) % 2)

----------------------------------------------------------------------------
(* The primitive transforms and their inverses.                            *)

\* apply_periodic_delta and invert_periodic_delta; a period of 1 gives the unary delta.
Delta(s, p) == [i \in 1..Len(s) |-> IF i > p THEN (s[i] - s[i - p]) % Base ELSE s[i]]
Undelta(s, p) ==
    LET out[i \in 1..Len(s)] == IF i > p THEN (s[i] + out[i - p]) % Base ELSE s[i] IN out

Xored(s, p) == [i \in 1..Len(s) |-> IF i > p THEN Xor(s[i], s[i - p]) ELSE s[i]]
Unxored(s, p) ==
    LET out[i \in 1..Len(s)] == IF i > p THEN Xor(s[i], out[i - p]) ELSE s[i] IN out

\* The same within rows, which the first bytes of a row do not look beyond.
InRow(i, row, stride) == (i - 1) % row >= stride
RowDelta(s, row, stride) ==
    [i \in 1..Len(s) |-> IF InRow(i, row, stride) THEN (s[i] - s[i - stride]) % Base ELSE s[i]]
\* Mutant: the rows are not told apart.
RowUndeltaAcrossRows(s, row, stride) == Undelta(s, stride)
RowUndelta(s, row, stride) ==
    LET out[i \in 1..Len(s)] == IF InRow(i, row, stride) THEN (s[i] + out[i - stride]) % Base ELSE s[i]
    IN out
RowXored(s, row, stride) ==
    [i \in 1..Len(s) |-> IF InRow(i, row, stride) THEN Xor(s[i], s[i - stride]) ELSE s[i]]
RowUnxored(s, row, stride) ==
    LET out[i \in 1..Len(s)] == IF InRow(i, row, stride) THEN Xor(s[i], out[i - stride]) ELSE s[i]
    IN out

\* apply_periodic_head_tail: the first h bytes of every period, then the others.
HeadTail(s, p, h) ==
    LET chunks == 1..CeilDiv(Len(s), p)
        From(c) == (c - 1) * p
        Middle(c) == Min({From(c) + h, Len(s)})
        End(c) == Min({From(c) + p, Len(s)})
    IN FlattenSeq([c \in chunks |-> SubSeq(s, From(c) + 1, Middle(c))])
         \o FlattenSeq([c \in chunks |-> SubSeq(s, Middle(c) + 1, End(c))])
\* periodic_head_bytes
HeadBytes(n, p, h) == (n \div p) * h + Min({h, n % p})
\* invert_periodic_head_tail: one cursor in the heads, one in the tails.
HeadTailBack(s, p, h) ==
    [i \in 1..Len(s) |->
        LET chunk == (i - 1) \div p
            offset == (i - 1) % p
        IN IF offset < h THEN s[(chunk * h) + offset + 1]
           ELSE s[HeadBytes(Len(s), p, h) + chunk * (p - h) + offset - h + 1]]

\* apply_periodic_gather: the bytes of each offset of the period, one offset after another.
Gather(s, p) ==
    LET Column(offset) == [r \in 1..CeilDiv(Len(s) - offset, p) |-> s[offset + (r - 1) * p + 1]]
    IN FlattenSeq([c \in 1..p |-> Column(c - 1)])
GatherBack(s, p) ==
    LET lens == [o \in 0..(p - 1) |-> CeilDiv(Len(s) - o, p)]
        Before(offset) == SumFunctionOnSet(lens, 0..(offset - 1))
    IN [i \in 1..Len(s) |-> s[Before((i - 1) % p) + ((i - 1) \div p) + 1]]

\* apply_bit_plane_transpose: bit k of byte i (from 0) goes to place k * n + i.
BitPlanes(s) ==
    LET n == Len(s)
        BitAt(place) == BitOf(s[(place % n) + 1], place \div n)
    IN [j \in 1..n |-> FromBits(LAMBDA k : BitAt((j - 1) * ByteBits + k))]
BitPlanesBack(s) ==
    LET n == Len(s)
        BitAt(place) == BitOf(s[(place \div ByteBits) + 1], place % ByteBits)
    IN [i \in 1..n |-> FromBits(LAMBDA k : BitAt(k * n + i - 1))]

----------------------------------------------------------------------------
(* Plans.                                                                  *)

Kinds == 0..22
Plan(kind, period, head) == [kind |-> kind, period |-> period, head |-> head]
Identity == Plan(0, 0, 0)

\* A step: a primitive with its parameters, on all bytes or on the tail.
OnAll(op, a, b) == [op |-> op, a |-> a, b |-> b, tail |-> FALSE]
OnTail(op, a, b) == [op |-> op, a |-> a, b |-> b, tail |-> TRUE]

\* apply_transform_plan
Steps(plan) ==
    LET p == plan.period
        h == plan.head
        delta == OnAll("prevDelta", 1, 0)
        xor == OnAll("prevXor", 1, 0)
        planes == OnAll("planes", 0, 0)
        gather == OnAll("gather", p, 0)
        split == OnAll("split", p, h)
        split1 == OnAll("split", p, 1)
    IN CASE plan.kind = 0 -> <<>>
         [] plan.kind = 1 -> <<delta>>
         [] plan.kind = 2 -> <<xor>>
         [] plan.kind = 3 -> <<planes>>
         [] plan.kind = 4 -> <<split>>
         [] plan.kind = 5 -> <<gather>>
         [] plan.kind = 6 -> <<OnAll("delta", p, 0)>>
         [] plan.kind = 7 -> <<OnAll("xor", p, 0)>>
         [] plan.kind = 8 -> <<gather, delta>>
         [] plan.kind = 9 -> <<gather, xor>>
         [] plan.kind = 10 -> <<split1, OnTail("gather", h, 0)>>
         [] plan.kind = 11 -> <<split1, OnTail("gather", h, 0), OnTail("prevDelta", 1, 0)>>
         [] plan.kind = 12 -> <<split1, OnTail("delta", h, 0)>>
         [] plan.kind = 13 -> <<split1, OnTail("xor", h, 0)>>
         [] plan.kind = 14 -> <<split, delta>>
         [] plan.kind = 15 -> <<split, xor>>
         [] plan.kind = 16 -> <<planes, delta>>
         [] plan.kind = 17 -> <<planes, xor>>
         [] plan.kind = 18 -> <<split1, OnTail("rowDelta", p - 1, h)>>
         [] plan.kind = 19 -> <<split1, OnTail("rowXor", p - 1, h)>>
         [] plan.kind = 20 -> <<split1, OnTail("up", p - 1, 0)>>
         [] plan.kind = 21 -> <<split1, OnTail("planes", 0, 0)>>
         [] plan.kind = 22 -> <<split1, OnTail("planes", 0, 0), OnTail("prevDelta", 1, 0)>>

TailLen(n, p) == n - HeadBytes(n, p, 1)

\* The parameters that the functions accept for n bytes: those that apply a transform
\* and those that invert it make the same checks.
StepApplies(step, period, n) ==
    LET len == IF step.tail THEN TailLen(n, period) ELSE n
    IN CASE step.op = "split" -> step.a >= 2 /\ 0 < step.b /\ step.b < step.a
         [] step.op = "gather" -> 2 <= step.a /\ step.a <= len
         [] step.op \in {"delta", "xor"} -> 1 <= step.a /\ step.a <= len
         [] step.op \in {"rowDelta", "rowXor"} -> 1 <= step.b /\ step.b <= step.a
         [] OTHER -> TRUE
Applies(plan, n) ==
    \A i \in DOMAIN Steps(plan) :
        /\ Steps(plan)[i].tail => plan.period >= 2
        /\ StepApplies(Steps(plan)[i], plan.period, n)

Forward(step, s) ==
    CASE step.op \in {"delta", "prevDelta", "up"} -> Delta(s, step.a)
      [] step.op \in {"xor", "prevXor"} -> Xored(s, step.a)
      [] step.op = "planes" -> BitPlanes(s)
      [] step.op = "split" -> HeadTail(s, step.a, step.b)
      [] step.op = "gather" -> Gather(s, step.a)
      [] step.op = "rowDelta" -> RowDelta(s, step.a, step.b)
      [] step.op = "rowXor" -> RowXored(s, step.a, step.b)
Back(step, s) ==
    CASE step.op \in {"delta", "prevDelta", "up"} -> Undelta(s, step.a)
      [] step.op \in {"xor", "prevXor"} -> Unxored(s, step.a)
      [] step.op = "planes" -> BitPlanesBack(s)
      [] step.op = "split" -> HeadTailBack(s, step.a, step.b)
      [] step.op = "gather" -> GatherBack(s, step.a)
      [] step.op = "rowDelta" -> RowUndelta(s, step.a, step.b)
      [] step.op = "rowXor" -> RowUnxored(s, step.a, step.b)

InPart(Op(_, _), step, period, s) ==
    LET heads == IF step.tail THEN HeadBytes(Len(s), period, 1) ELSE 0
    IN SubSeq(s, 1, heads) \o Op(step, SubSeq(s, heads + 1, Len(s)))

\* apply_transform_plan and invert_transform_plan
Transformed(plan, s) ==
    LET after[i \in 0..Len(Steps(plan))] ==
            IF i = 0 THEN s ELSE InPart(Forward, Steps(plan)[i], plan.period, after[i - 1])
    IN after[Len(Steps(plan))]
Inverted(plan, s) ==
    LET before[i \in 1..(Len(Steps(plan)) + 1)] ==
            IF i > Len(Steps(plan)) THEN s ELSE InPart(Back, Steps(plan)[i], plan.period, before[i + 1])
    IN before[1]

----------------------------------------------------------------------------
(* The topology of a plan.  A root has no parent: NoParent is u32::MAX.    *)

NoParent == 0
Node(id, parent, relation, order, kind, a, b) ==
    [id |-> id, parent |-> parent, relation |-> relation, order |-> order, kind |-> kind, a |-> a, b |-> b]
Root == Node(1, NoParent, 0, 0, 0, 0, 0)

\* build_topology_for_plan: series (0) and parallel (1) children, by position.
Chain(kind, a, b) == <<Root, Node(2, 1, 0, 0, kind, a, b)>>
Chain2(kind, a, next) == <<Root, Node(2, 1, 0, 0, kind, a, 0), Node(3, 2, 0, 0, next, 1, 0)>>
Fork(p, h) ==
    <<Root, Node(2, 1, 0, 0, 4, p, h), Node(3, 2, 1, 0, 10, h, 0), Node(4, 2, 1, 1, 11, p - h, 0)>>
OfTail(p, kind, a) == Append(Fork(p, 1), Node(5, 4, 0, 0, kind, a, 0))

TopologyOf(plan) ==
    LET p == plan.period
        h == plan.head
    IN CASE plan.kind = 0 -> Chain(1, 0, 0)
         [] plan.kind = 1 -> Chain(2, 1, 0)
         [] plan.kind = 2 -> Chain(3, 1, 0)
         [] plan.kind = 3 -> Chain(19, 8, 0)
         [] plan.kind = 16 -> Chain2(19, 8, 20)
         [] plan.kind = 17 -> Chain2(19, 8, 21)
         [] plan.kind = 4 -> Fork(p, h)
         [] plan.kind \in {5, 6, 7} -> Chain(plan.kind, p, 0)
         [] plan.kind = 8 -> Chain2(5, p, 12)
         [] plan.kind = 9 -> Chain2(5, p, 13)
         [] plan.kind = 10 -> OfTail(p, 14, h)
         [] plan.kind = 11 -> Append(OfTail(p, 14, h), Node(6, 5, 0, 0, 12, 1, 0))
         [] plan.kind = 12 -> OfTail(p, 15, h)
         [] plan.kind = 13 -> OfTail(p, 16, h)
         [] plan.kind = 14 -> Append(Chain(4, p, h), Node(3, 2, 0, 0, 17, 1, 0))
         [] plan.kind = 15 -> Append(Chain(4, p, h), Node(3, 2, 0, 0, 18, 1, 0))
         [] plan.kind = 18 -> OfTail(p, 22, h)
         [] plan.kind = 19 -> OfTail(p, 23, h)
         [] plan.kind = 20 -> OfTail(p, 24, 0)
         [] plan.kind = 21 -> OfTail(p, 25, 8)
         [] plan.kind = 22 -> Append(OfTail(p, 25, 8), Node(6, 5, 0, 0, 26, 1, 0))

CorrectionBase == 200

\* embed_correction_plan_in_topology: one more child of the root, after its other ones.
WithCorrectionPlan(topology, plan) ==
    LET Siblings == {i \in DOMAIN topology : topology[i].parent = 1 /\ topology[i].relation = 0}
        order == Max({0} \cup {topology[i].order : i \in Siblings}) + 1
    IN IF plan = Identity THEN topology
       ELSE Append(topology, Node(Len(topology) + 1, 1, 0, order, CorrectionBase + plan.kind, plan.period, plan.head))

\* decode_embedded_correction_plan, of the last node that holds one.
CorrectionPlan(topology) ==
    LET Holders == {i \in DOMAIN topology : topology[i].kind - CorrectionBase \in Kinds}
        node == topology[Max(Holders)]
    IN IF Holders = {} THEN Identity ELSE Plan(node.kind - CorrectionBase, node.a, node.b)

================================================================================
