------------------------- MODULE MCHierarchicalCircuit -------------------------
(***************************************************************************)
(* Small instances of HierarchicalCircuit for TLC.                         *)
(***************************************************************************)
EXTENDS HierarchicalCircuit

Inputs(n) == SUBSET (0..(n - 1))
Descending(n) == [i \in 1..n |-> n - i]
Function(n, on, dc) == [n |-> n, on |-> on, dc |-> dc, order |-> Descending(n)]
Ordered(n, on, order) == [n |-> n, on |-> on, dc |-> {}, order |-> order]
Parity(s) == Cardinality(s) % 2 = 1

\* Every function of two inputs with every set of don't-cares, whatever evaluate is on those,
\* every function of three inputs with up to two don't-cares, and no input at all: leaves.
LeafFunctions ==
    {Function(2, u[1], u[2]) : u \in (SUBSET Inputs(2)) \X (SUBSET Inputs(2))}
    \cup {Function(3, u[1] \ u[2], u[2]) : u \in (SUBSET Inputs(3)) \X {dc \in SUBSET Inputs(3) : Cardinality(dc) <= 2}}
    \cup {Function(0, {}, {}), Function(0, {{}}, {})}

\* Functions of four to seven inputs: parity, which is split to the end, functions of some of
\* the inputs, sparse ones that the probes miss, a half that is constant but for its
\* don't-cares, orders that name too few variables, and too many inputs.
WideFunctions ==
    {Function(4, {x \in Inputs(4) : Parity(x)}, {}),
     Function(4, {x \in Inputs(4) : 3 \in x <=> x \cap {0, 1, 2} # {}}, {}),
     Function(4, {x \in Inputs(4) : 1 \in x <=> 2 \in x}, {}),
     Function(4, {x \in Inputs(4) : Parity(x)}, {x \in Inputs(4) : ~Parity(x)}),
     Function(4, {x \in Inputs(4) : Parity(x)}, {x \in Inputs(4) : 3 \in x}),
     Function(4, {x \in Inputs(4) : Parity(x)}, {x \in Inputs(4) : (3 \in x) # Parity(x)}),
     Function(4, {x \in Inputs(4) : Cardinality(x) \in {1, 2}}, {}),
     Function(4, {{1, 2, 3}}, {}), Function(4, {}, {}), Function(4, Inputs(4), {}),
     Function(5, {x \in Inputs(5) : Parity(x)}, {}),
     Function(5, {x \in Inputs(5) : Cardinality(x) >= 3}, {}),
     Function(5, {x \in Inputs(5) : IF 4 \in x THEN {0, 1, 2, 3} \subseteq x ELSE x # {}}, {}),
     Function(5, {x \in Inputs(5) : 4 \in x /\ Parity(x)}, {x \in Inputs(5) : {0, 3} \subseteq x}),
     Ordered(4, {x \in Inputs(4) : Parity(x)}, <<1, 3>>),
     Ordered(5, {x \in Inputs(5) : Parity(x)}, <<2>>),
     Ordered(5, {x \in Inputs(5) : 2 \in x /\ Parity(x \ {2})}, <<0, 2>>),
     Function(7, {}, {})}

MCFunctions == LeafFunctions \cup WideFunctions

================================================================================
