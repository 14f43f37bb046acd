-------------------------- MODULE MCAdvancedMinimizer --------------------------
(***************************************************************************)
(* Small instances of AdvancedMinimizer for TLC.                           *)
(***************************************************************************)
EXTENDS AdvancedMinimizer

Points(k) == SUBSET (0..(k - 1))
Default == [objective |-> "literal_count", rounds |-> 4, maxFree |-> 14, rewrite |-> TRUE,
            balancing |-> TRUE, resubstitution |-> TRUE, satInputs |-> 12, exactInputs |-> 16]
Call(k, ones, cares, opts) == [n |-> k, on |-> ones, dc |-> cares, options |-> opts]

\* Four pairs around a square: the square is picked first and in the end not needed.
Pinwheel == {{0}, {0, 2}, {1, 2}, {0, 1, 2}, {0, 1, 3}, {2, 3}, {0, 2, 3}, {0, 1, 2, 3}}
Ring == {{0}, {1}, {2}, {0, 1}, {1, 2}, {0, 2}}

\* The variants of the options: each objective, without each of the flows, with narrow
\* limits, and without the exact seed.
Variants ==
    {[Default EXCEPT !.objective = o, !.exactInputs = e, !.rounds = 2] : o \in Objectives, e \in {0, 3}}
    \cup {[Default EXCEPT !.rewrite = FALSE], [Default EXCEPT !.resubstitution = FALSE],
          [Default EXCEPT !.balancing = FALSE, !.objective = "asic_delay"],
          [Default EXCEPT !.balancing = FALSE, !.objective = "fpga_lut4"],
          [Default EXCEPT !.maxFree = 1, !.exactInputs = 2], [Default EXCEPT !.maxFree = 0, !.rewrite = FALSE],
          [Default EXCEPT !.satInputs = 2, !.resubstitution = FALSE, !.exactInputs = 0],
          [Default EXCEPT !.rounds = 0, !.exactInputs = 0]}

\* Functions of two inputs with all don't-cares, some of them also in the ON-set; of three
\* inputs with and without; the ring, whose cover is cyclic, and a symmetric function of
\* four inputs under every variant; no inputs at all.
MCCalls ==
    {Call(2, u[1], u[2], Default) : u \in (SUBSET Points(2)) \X (SUBSET Points(2))}
    \cup {Call(3, ones, {}, Default) : ones \in SUBSET Points(3)}
    \cup {Call(3, ones, cares, Default) : ones \in kSubset(2, Points(3)), cares \in kSubset(2, Points(3))}
    \cup {Call(4, {m \in Points(4) : Cardinality(m) \in k}, {m \in Points(4) : {0, 2} \subseteq m}, o) :
             k \in {{1, 2}}, o \in Variants}
    \cup {Call(4, Pinwheel, {}, [Default EXCEPT !.satInputs = s, !.exactInputs = e]) : s \in {2, 12}, e \in {0, 16}}
    \cup {Call(3, Ring \ {m}, {m}, o) : m \in Points(3), o \in Variants}
    \cup {Call(0, {}, {}, Default), Call(0, {{}}, {}, Default)}

\* Formulas of other callers: without variables, with an empty clause, and those that
\* leave one assignment of three variables, or none, for the decisions to find.
Excluded(m) == {<<v + 1, IF v \in m THEN -1 ELSE 1>> : v \in 0..2}
MCFormulas ==
    {[vars |-> 0, clauses |-> <<>>], [vars |-> 0, clauses |-> <<{}>>], [vars |-> 2, clauses |-> <<{<<1, 1>>}, {}>>]}
    \cup {[vars |-> 3, clauses |-> Mapped(MintermOrder(Points(3) \ keep), Excluded)] :
             keep \in {{}} \cup {{m} : m \in Points(3)}}

================================================================================
