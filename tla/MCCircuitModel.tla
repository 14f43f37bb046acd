----------------------------- MODULE MCCircuitModel -----------------------------
(***************************************************************************)
(* Small instances of CircuitModel for TLC.                                *)
(***************************************************************************)
EXTENDS CircuitModel

All(k) == {[inputs |-> k, outputs |-> ones, dontCares |-> {}] : ones \in SUBSET Vectors(k)}

\* Every table of up to two inputs, tables with don't-cares, some of which are also
\* outputs, and the parity of three inputs.
MCTables ==
    All(0) \cup All(1) \cup All(2)
    \cup {[inputs |-> 0, outputs |-> {}, dontCares |-> {{}}],
          [inputs |-> 1, outputs |-> {{0}}, dontCares |-> {{0}}],
          [inputs |-> 1, outputs |-> {{}}, dontCares |-> {{0}}],
          [inputs |-> 2, outputs |-> {{0}, {1}}, dontCares |-> {{0}}],
          [inputs |-> 2, outputs |-> {{0}, {1}}, dontCares |-> {{0, 1}}],
          [inputs |-> 3, outputs |-> {v \in Vectors(3) : Cardinality(v) % 2 = 1}, dontCares |-> {}]}

================================================================================
