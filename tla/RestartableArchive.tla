--------------------------- MODULE RestartableArchive ---------------------------
(***************************************************************************)
(* What a .zbps file promises its users, without saying how.  A reader     *)
(* asks for the input from a key piece on and takes the archive bit by     *)
(* bit, while others may replace it.  If all it took belongs to one input, *)
(* the answer is exactly the bytes of that input or an error; if the       *)
(* archive was replaced in between and the reader took bytes of both, any  *)
(* bytes may be the answer: the format has neither a lock nor a checksum.  *)
(***************************************************************************)
EXTENDS ByteSpans

CONSTANTS Nothing,      \* no input
          WholeInput    \* the reader gave no start_key_piece

VARIABLES content,      \* the input of the archive
          asked,        \* what it was when the reader took its first byte
          mixed,        \* the reader took bytes of another input, too
          from,         \* the key piece the reader asked for
          answer        \* what the reader has

archiveVars == <<content, asked, mixed, from, answer>>

\* An input as the archive knows it: its number, its size and its geometry.
Contents == [src : Nat \ {0}, size : Nat, chunk_size : Nat,
             key_piece_interval : Nat]

NoAnswer == [kind |-> "none", data |-> EmptySpan]
Failure == [kind |-> "err", data |-> EmptySpan]
Reading == [kind |-> "reading", data |-> EmptySpan]
Pending == [kind |-> "pending", data |-> EmptySpan]
Bytes(s) == [kind |-> "ok", data |-> s]

\* A reader may start at a chunk of the input that begins a key piece.
StartsKeyPiece(c, k) ==
    \/ k = WholeInput
    \/ /\ k # WholeInput
       /\ k * c.chunk_size < c.size
       /\ k % c.key_piece_interval = 0

\* The bytes a reader that starts at k must get.
Suffix(c, k) ==
    Span(c.src, IF k = WholeInput THEN 0 ELSE k * c.chunk_size, c.size)

AInit ==
    /\ content = Nothing
    /\ asked = Nothing
    /\ mixed = FALSE
    /\ from = WholeInput
    /\ answer = NoAnswer

\* A write replaces the content.
Replace ==
    /\ content' \in Contents
    /\ UNCHANGED <<asked, mixed, from, answer>>

\* A reader opens the archive.
Ask ==
    /\ answer \notin {Reading, Pending}
    /\ from' \in Nat \cup {WholeInput}
    /\ asked' = Nothing
    /\ mixed' = FALSE
    /\ answer' = Reading
    /\ UNCHANGED content

\* It takes the first bytes, or bytes of another input than the first ones.
Take ==
    /\ answer = Reading
    /\ content # Nothing
    /\ IF asked = Nothing
       THEN asked' = content /\ UNCHANGED mixed
       ELSE content # asked /\ mixed' = TRUE /\ UNCHANGED asked
    /\ UNCHANGED <<content, from, answer>>

\* It has met the end of the archive and takes no more bytes.
MeetEnd ==
    /\ answer = Reading
    /\ answer' = Pending
    /\ UNCHANGED <<content, asked, mixed, from>>

\* The answer concerns what was taken, whatever the content is now.
Answer ==
    /\ answer \in {Reading, Pending}
    /\ \/ answer' = Failure
       \/ /\ ~mixed
          /\ asked # Nothing
          /\ StartsKeyPiece(asked, from)
          /\ answer' = Bytes(Suffix(asked, from))
       \/ /\ mixed
          /\ answer' \in [kind : {"ok"}, data : Spans]
    /\ UNCHANGED <<content, asked, mixed, from>>

ANext == Replace \/ Ask \/ Take \/ MeetEnd \/ Answer

ASpec == AInit /\ [][ANext]_archiveVars

================================================================================
