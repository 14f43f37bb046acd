------------------------------ MODULE MCZbpsStream ------------------------------
(***************************************************************************)
(* Small instances of ZbpsStream for TLC.                                  *)
(***************************************************************************)
EXTENDS ZbpsStream

\* Options that differ from a base of chunks of one byte, blocks of three
\* chunks and one level of groups.
Opts(chunk, interval, depth, pieces, carry, realtime, wide) ==
    [chunk_size |-> chunk, key_piece_interval |-> interval,
     max_group_depth |-> depth, max_group_pieces |-> pieces,
     carry_grouping_history |-> carry, realtime_mode |-> realtime,
     wide_overfitting_circuits |-> wide]

\* One writer call each: local, wide, shared and non-realtime streams, a last
\* chunk and a last block that are short, and options that are refused.
MCOptions ==
    {Opts(c, k, d, 2, TRUE, rt, w) : c \in {1, 2}, k \in {2, 3}, d \in {0, 2},
                                     rt \in BOOLEAN, w \in BOOLEAN}
        \cup {Opts(1, 3, 1, 3, FALSE, TRUE, FALSE), Opts(0, 1, 0, 1, TRUE, TRUE, TRUE),
              Opts(1, 1, 33, 1, TRUE, TRUE, FALSE)}

\* Two writer calls over one file.
MCFewOptions ==
    {Opts(1, 2, 1, 2, TRUE, TRUE, FALSE), Opts(2, 1, 0, 1, TRUE, TRUE, TRUE)}

\* Starts that begin a block, lie inside one or past the end, as the case may be.
MCStarts == {0, 2, 3, WholeInput}

MCAdaptive == {<<RawCopy, 0>>, <<1, 2>>}

================================================================================
