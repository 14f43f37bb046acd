--------------------------- MODULE HierarchicalCircuit ---------------------------
(***************************************************************************)
(* Hierarchical decomposition (zbit-rs/src/hierarchical.rs): a function of *)
(* many inputs is split on one input after another until what is left      *)
(* depends, as far as probes show, on few enough inputs for the exact      *)
(* minimizer, whose steps are those of ExactCover.  One call of            *)
(* decompose_inner, one leaf and one return is a step.                     *)
(*                                                                         *)
(* An input of the function is the set of its variables that are 1.  A     *)
(* function is the set of the inputs it is true for, and the set of its    *)
(* don't-cares; evaluate may be anything on those.                         *)
(***************************************************************************)
EXTENDS ExactCover

CONSTANTS
    Functions,     \* the functions decomposed: [n, on, dc, order]
    LeafBudget,    \* LEAF_BUDGET
    ProbeCount,    \* PROBE_COUNT
    MaxInputs,     \* the limit of decompose, 64
    WordBits,      \* the bits of an input, 64
    ProbeFactor, ProbeIncrement, ProbeSeed    \* the generator of the probes

ASSUME FunctionAssumption ==
    \A f \in Functions : /\ f.n \in Nat /\ f.order \in Seq(Nat)
                         /\ f.on \subseteq SUBSET (0..(f.n - 1))
                         /\ f.dc \subseteq SUBSET (0..(f.n - 1))
ASSUME BoundAssumption ==
    /\ LeafBudget \in 1..16 /\ ProbeCount \in Nat
    /\ WordBits \in Nat /\ MaxInputs \in 0..WordBits
    /\ ProbeFactor \in Nat /\ ProbeIncrement \in Nat /\ ProbeSeed \in Nat

VARIABLES
    mode,      \* idle, decompose, leaf, minimize, return, done or error
    func,      \* the function of the call
    live,      \* the live inputs of the current call
    fixed,     \* the variables the enclosing muxes set to 1
    frames,    \* the calls that wait: their split variable, inputs, and first result
    result,    \* the circuit the last call returned
    dropped    \* the variables probing has dropped so far, in any call (history)

ownVars == <<mode, func, live, fixed, frames, result, dropped>>
vars == <<coverVars, ownVars>>

Const(b) == [kind |-> "const", value |-> b]
Leaf(inputs, cover) == [kind |-> "leaf", inputs |-> inputs, cover |-> cover]
Mux(v, lo, hi) == [kind |-> "mux", var |-> v, lo |-> lo, hi |-> hi]
NoFunction == [n |-> 0, on |-> {}, dc |-> {}, order |-> <<>>]

\* The slot an input has in a leaf: the live inputs stay in ascending order.
Slot(v, inputs) == Cardinality({u \in inputs : u < v})

\* The conversions of HierarchicalCircuit::evaluate and build_leaf between an input and
\* the slots of a leaf.
Packed(inputs, x) == {Slot(v, inputs) : v \in inputs \cap x}
Unpacked(inputs, packed) == {v \in inputs : Slot(v, inputs) \in packed}

\* HierarchicalCircuit::evaluate: the muxes are followed to a leaf or a constant.  No path
\* has more of them than the function has inputs.
Descend(circuit, x) ==
    IF circuit.kind # "mux" THEN circuit ELSE IF circuit.var \in x THEN circuit.hi ELSE circuit.lo
Follow(circuit, x, k) ==
    LET node[j \in 0..k] == IF j = 0 THEN circuit ELSE Descend(node[j - 1], x) IN node[k]
Output(end, x) ==
    \/ end.kind = "const" /\ end.value
    \/ end.kind = "leaf" /\ \E p \in end.cover : Covers(p, Packed(end.inputs, x))
Evaluate(circuit, x) == Output(Follow(circuit, x, func.n), x)

----------------------------------------------------------------------------
(* probe_essential_inputs.  The generator of the probes works modulo       *)
(* 2^WordBits.                                                             *)

ProbeState[k \in Nat] == IF k = 0 THEN ProbeSeed
                         ELSE (ProbeState[k - 1] * ProbeFactor + ProbeIncrement) % 2 ^ WordBits
Probe(k) == {v \in live : (ProbeState[k] \div 2 ^ v) % 2 = 1}
Probes == {fixed} \cup {fixed \cup Probe(k) : k \in 1..ProbeCount}

\* The inputs that some probe shows to matter, and one input at least.
Essential ==
    LET shown == {v \in live : \E p \in Probes : (p \ {v} \in func.on) # (p \cup {v} \in func.on)}
    IN IF shown = {} THEN {Min(live)} ELSE shown

\* Mutant of SplitVariable: only the first of the order is looked at.
FirstOfOrder == {v \in Essential : func.order # <<>> /\ v = Head(func.order)}

\* The first variable of the splitting order that is essential, if there is one.
SplitVariable ==
    {v \in Essential : \E i \in DOMAIN func.order :
         func.order[i] = v /\ \A j \in 1..(i - 1) : func.order[j] \notin Essential}

----------------------------------------------------------------------------

Init ==
    /\ CoverInit
    /\ mode = "idle" /\ func = NoFunction /\ live = {} /\ fixed = {}
    /\ frames = <<>> /\ result = Const(FALSE) /\ dropped = {}

\* decompose
Decompose(f) ==
    /\ mode = "idle"
    /\ func' = f
    /\ mode' = IF f.n > MaxInputs THEN "error" ELSE "decompose"
    /\ live' = 0..(f.n - 1)
    /\ UNCHANGED <<coverVars, fixed, frames, result, dropped>>

\* decompose_inner splits the function if its inputs, and those that matter, are too many.
TooWide == Cardinality(live) > LeafBudget /\ Cardinality(Essential) > LeafBudget

GoToLeaf ==
    /\ mode = "decompose" /\ ~TooWide
    /\ live' = IF Cardinality(live) <= LeafBudget THEN live ELSE Essential
    /\ dropped' = dropped \cup (live \ live')
    /\ mode' = "leaf"
    /\ UNCHANGED <<coverVars, func, fixed, frames, result>>

\* Mutant of Split: the variable stays among the live inputs.
SplitKeepsVariable ==
    /\ mode = "decompose" /\ TooWide
    /\ \E v \in SplitVariable :
           /\ frames' = Append(frames, [var |-> v, fixed |-> fixed, rest |-> Essential, lo |-> <<>>])
           /\ fixed' = fixed \ {v}
    /\ live' = Essential
    /\ dropped' = dropped \cup (live \ Essential)
    /\ UNCHANGED <<coverVars, mode, func, result>>

\* The half in which the variable is 0 comes first.
Split ==
    /\ mode = "decompose" /\ TooWide
    /\ \E v \in SplitVariable :
           /\ frames' = Append(frames, [var |-> v, fixed |-> fixed, rest |-> Essential \ {v}, lo |-> <<>>])
           /\ live' = Essential \ {v}
           /\ fixed' = fixed \ {v}
    /\ dropped' = dropped \cup (live \ Essential)
    /\ UNCHANGED <<coverVars, mode, func, result>>

OrderExhausted ==
    /\ mode = "decompose" /\ TooWide /\ SplitVariable = {}
    /\ mode' = "error"
    /\ UNCHANGED <<coverVars, func, live, fixed, frames, result, dropped>>

\* build_leaf: constants need no cover.
LeafInput(packed) == fixed \cup Unpacked(live, packed)
Slots == 0..(Cardinality(live) - 1)
LeafDc == {packed \in SUBSET Slots : LeafInput(packed) \in func.dc}
LeafOn == {packed \in SUBSET Slots : LeafInput(packed) \in func.on \ func.dc}

LeafIsFalse == LeafOn = {}
LeafIsTrue == LeafOn \cup LeafDc = SUBSET Slots

\* Without live inputs there are no don't-cares: evaluate decides.
ConstantLeaf ==
    /\ mode = "leaf"
    /\ live = {} \/ LeafIsFalse \/ LeafIsTrue
    /\ result' = Const(IF live = {} THEN fixed \in func.on ELSE ~LeafIsFalse)
    /\ mode' = "return"
    /\ UNCHANGED <<coverVars, func, live, fixed, frames, dropped>>

MinimizeLeaf ==
    /\ mode = "leaf" /\ live # {} /\ ~LeafIsFalse /\ ~LeafIsTrue
    /\ Minimize(Slots, LeafOn, LeafDc)
    /\ mode' = "minimize"
    /\ UNCHANGED <<func, live, fixed, frames, result, dropped>>

\* A step of minimize_exact.
MinimizeStep == mode = "minimize" /\ CoverStep /\ UNCHANGED ownVars

LeafDone ==
    /\ mode = "minimize" /\ phase \in {"done", "failed"}
    /\ IF phase = "done"
       THEN mode' = "return" /\ result' = Leaf(live, best.selected)
       ELSE mode' = "error" /\ UNCHANGED result
    /\ UNCHANGED <<coverVars, func, live, fixed, frames, dropped>>

\* The first half has returned: the other one follows.
OtherHalf ==
    LET frame == Last(frames) IN
    /\ mode = "return" /\ frames # <<>> /\ frame.lo = <<>>
    /\ frames' = [frames EXCEPT ![Len(frames)].lo = <<result>>]
    /\ live' = frame.rest
    /\ fixed' = frame.fixed \cup {frame.var}
    /\ mode' = "decompose"
    /\ UNCHANGED <<coverVars, func, result, dropped>>

\* Mutant of Join: any equal halves are joined, whatever they are.
JoinConstants ==
    LET lo == Last(frames).lo[1] IN
    /\ mode = "return" /\ frames # <<>> /\ Last(frames).lo # <<>>
    /\ result' = IF lo.kind = "const" /\ result.kind = "const" THEN lo
                 ELSE Mux(Last(frames).var, lo, result)
    /\ frames' = Front(frames)
    /\ UNCHANGED <<coverVars, mode, func, live, fixed, dropped>>

\* Both halves have returned; equal constants need no mux.
Join ==
    LET lo == Last(frames).lo[1] IN
    /\ mode = "return" /\ frames # <<>> /\ Last(frames).lo # <<>>
    /\ result' = IF lo.kind = "const" /\ result = lo THEN lo
                 ELSE Mux(Last(frames).var, lo, result)
    /\ frames' = Front(frames)
    /\ UNCHANGED <<coverVars, mode, func, live, fixed, dropped>>

Return ==
    /\ mode = "return" /\ frames = <<>>
    /\ mode' = "done"
    /\ UNCHANGED <<coverVars, func, live, fixed, frames, result, dropped>>

Step ==
    GoToLeaf \/ Split \/ OrderExhausted \/ ConstantLeaf \/ MinimizeLeaf \/ MinimizeStep
    \/ LeafDone \/ OtherHalf \/ Join \/ Return
Next == (\E f \in Functions : Decompose(f)) \/ Step

\* A call runs on one thread until it returns.
Spec == Init /\ [][Next]_vars /\ WF_vars(Step)

----------------------------------------------------------------------------
(* Properties.                                                             *)

Implicants(inputs) ==
    {[mask |-> u[1], value |-> u[2]] : u \in {w \in (SUBSET inputs) \X (SUBSET inputs) : w[2] \subseteq w[1]}}

\* The implicants of the leaf that touch no minterm outside the ON- and don't-care sets.
ValidImplicants ==
    {p \in Implicants(Slots) :
        \A m \in SUBSET Slots : Covers(p, m) => m \in LeafOn \cup LeafDc}

\* Whether some of the given implicants, with so many terms and literals at most, cover
\* the given minterms: any one of those is covered by one of the terms.
Coverable(minterms, implicants, k, l) ==
    LET coverable[j \in 0..k] ==
            [left \in SUBSET minterms |-> [m \in Int |->
                \/ left = {}
                \/ /\ j > 0
                   /\ \E p \in implicants :
                          /\ Covers(p, CHOOSE x \in left : TRUE) /\ LiteralCount(p) <= m
                          /\ coverable[j - 1][{x \in left : ~Covers(p, x)}][m - LiteralCount(p)]]]
    IN coverable[k][minterms][l]

\* Types, and the sizes that keep the recursions within bounds: there are as many splits
\* above a call as its function has inputs beyond a leaf's (hierarchical.rs:15-17), none of
\* them on a live input, and no more open calls of the search than columns.
TypeOK ==
    /\ phase \in {"idle", "merge", "essential", "visit", "loop", "done", "failed"}
    /\ mode \in {"idle", "decompose", "leaf", "minimize", "return", "done", "error"}
    /\ \A p \in terms \cup primes \cup rows : p.value \subseteq p.mask
    /\ selected \subseteq rows /\ call \subseteq rows /\ best.selected \subseteq rows
    /\ Len(open) <= Cardinality(onSet)
    /\ Len(frames) <= Max({0, func.n - LeafBudget})
    /\ mode = "decompose" => live \cap ({f.var : f \in ToSet(frames)} \cup fixed) = {}
    /\ dropped \subseteq 0..(func.n - 1)

\* The cover of a leaf is true on its ON-set and false outside ON-set and don't-cares,
\* and no set of implicants at all that is so has fewer terms, or as many and fewer
\* literals: merging finds every prime, forced rows are never wrong, and no bound cuts
\* the minimum off (minimizer.rs:27-407).
CoverIsMinimum ==
    (mode = "minimize" /\ phase = "done") =>
        /\ \A m \in LeafOn : \E p \in best.selected : Covers(p, m)
        /\ best.selected \subseteq ValidImplicants
        /\ best.terms = Cardinality(best.selected) /\ best.literals = Literals(best.selected)
        /\ ~Coverable(LeafOn, ValidImplicants, best.terms - 1, Unbounded)
        /\ ~Coverable(LeafOn, ValidImplicants, best.terms, best.literals - 1)

\* What is lost is lost by probing only: the circuit agrees with the function on every
\* input in which the dropped variables are 0, so it is exact if none was dropped.  The
\* code relies on its callers to notice the rest (hierarchical.rs:176-239).
ExactButForDropped ==
    mode = "done" =>
        \A x \in SUBSET ((0..(func.n - 1)) \ dropped) :
            x \notin func.dc => Evaluate(result, x) = (x \in func.on)

\* A decomposition fails only if there are too many inputs or the order names too few of
\* them, never inside the minimizer (hierarchical.rs:148-153, 191-200, minimizer.rs:287-398).
FailsOnlyForWantOfAVariable ==
    mode = "error" => \/ func.n > MaxInputs
                      \/ Cardinality((0..(func.n - 1)) \ ToSet(func.order)) > LeafBudget

\* Every decomposition ends.
DecomposeReturns == (mode = "decompose") ~> (mode \in {"done", "error"})

================================================================================
