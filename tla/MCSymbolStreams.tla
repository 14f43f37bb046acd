---------------------------- MODULE MCSymbolStreams ----------------------------
(***************************************************************************)
(* Small instances of SymbolStreams for TLC.                               *)
(***************************************************************************)
EXTENDS SymbolStreams

Repeat(x, k) == [i \in 1..k |-> x]

\* Every input of up to five bytes over three symbols and of up to four over four, the
\* highest byte among them,
\* and inputs with frequencies that make deep and flat trees: up to 6 symbols with
\* Fibonacci, equal and mixed counts.  Depth 5 is one more than the codes may have.
MCInputs ==
    SeqOf({0, 1, 255}, 5) \cup SeqOf({0, 1, 2, 255}, 4) \cup
    {<<4>> \o <<3>> \o Repeat(2, 2) \o Repeat(1, 3) \o Repeat(0, 5),
     <<4>> \o <<3>> \o Repeat(2, 2) \o Repeat(1, 3) \o Repeat(5, 5) \o Repeat(0, 8),
     <<7, 9, 8, 7>>, <<3, 2, 1, 0, 3>>, <<3, 3, 3, 2, 2, 1, 0>>, <<4, 3, 2, 1, 0>>,
     <<0, 1, 2, 3, 4, 0>>, <<0, 1, 2, 2, 3, 3>>}

================================================================================
