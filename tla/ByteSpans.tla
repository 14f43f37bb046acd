------------------------------- MODULE ByteSpans -------------------------------
(***************************************************************************)
(* Byte strings as the stream container handles them.  Every byte string   *)
(* that moves through compress_stream_to_bytes and                         *)
(* decompress_stream_from_bytes is meant to be a contiguous part of one    *)
(* input, so it is represented by where it comes from: [src, lo, hi] is    *)
(* the bytes lo .. hi-1 of input number src (1, 2, ...).  A string that is *)
(* no such part, because parts were joined in a wrong order or a codec     *)
(* gave other bytes back, has src = Garbled and keeps only its length.     *)
(* Two spans are equal only if they are the same bytes of the same input,  *)
(* which is stronger than having equal contents.                           *)
(***************************************************************************)
EXTENDS Integers

Garbled == 0

Spans == [src : Nat, lo : Nat, hi : Nat]

\* The one representation of the empty string (Vec::new()).
EmptySpan == [src |-> Garbled, lo |-> 0, hi |-> 0]

\* The bytes lo .. hi-1 of input s.
Span(s, lo, hi) ==
    IF lo < hi THEN [src |-> s, lo |-> lo, hi |-> hi] ELSE EmptySpan

\* len()
SpanLen(a) == a.hi - a.lo

\* Some other bytes, of the length of a.
Garble(a) == Span(Garbled, 0, SpanLen(a))

\* a.extend_from_slice(b)
Concat(a, b) ==
    IF a = EmptySpan THEN b
    ELSE IF b = EmptySpan THEN a
    ELSE IF a.src = b.src /\ a.hi = b.lo /\ a.src # Garbled
         THEN [a EXCEPT !.hi = b.hi]
         ELSE Span(Garbled, 0, SpanLen(a) + SpanLen(b))

\* a.get(from..to); the caller has checked that to <= a.len().
SubSpan(a, from, to) == Span(a.src, a.lo + from, a.lo + to)

================================================================================
