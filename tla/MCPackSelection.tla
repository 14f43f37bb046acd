---------------------------- MODULE MCPackSelection ----------------------------
(***************************************************************************)
(* Small instances of PackSelection for TLC.                               *)
(***************************************************************************)
EXTENDS PackSelection

NoLayout(size, unique) ==
    [size |-> size, unique |-> unique, frames |-> NoFrames, zip |-> FALSE]

Framed(prefix, suffix, chunk, full, tail, total) ==
    [size |-> prefix + suffix + full * chunk + tail + total * FrameOverhead,
     unique |-> 200, zip |-> FALSE,
     frames |-> [prefix |-> prefix, suffix |-> suffix, chunk |-> chunk,
                 full |-> full, tail |-> tail, total |-> total]]

\* Empty and tiny inputs, one that dictionaries hardly shrink, runs of frames with
\* long and short ends, a table of floats and an archive of tensors.
MCInputs ==
    {NoLayout(0, 0), NoLayout(1, 1), NoLayout(41, 3), NoLayout(1032, 128),
     Framed(20, 10, 100, 3, 40, 4), Framed(300, 200, 3, 1, 2, 2),
     Framed(2 * MiB, 2 * MiB, 2 * MiB, 1, 2 * MiB, 2),
     NoLayout(100000, 256), NoLayout(160000, 256),
     [NoLayout(131072, 256) EXCEPT !.zip = TRUE]}

MCPlainSizes(size) == {size + 11} \cup (IF size < 4096 THEN {(size * 7) \div 8} ELSE {})

\* The third is within what the matrix may gain over the second.
MCXzSizes(size) == {size + 60, (size * 15) \div 16, (size * 57) \div 64, (size * 9) \div 16}

\* The second is a little above one of the lengths of xz.
MCModelSizes(size) == {size \div 2, (size * 57) \div 64 + 500}

================================================================================
