------------------------------ MODULE PayloadCodecs ------------------------------
(***************************************************************************)
(* What the payloads of all packs have in common: the general-purpose      *)
(* codecs (zbit-rs/src/pack/codecs.rs), which are external and only known  *)
(* to give back what they were given, and a transform undone on what a     *)
(* codec returned.                                                         *)
(***************************************************************************)
EXTENDS ByteTransforms

Error == <<-1>>

\* Offsets count from 0.
Slice(s, from, to) == SubSeq(s, from + 1, to)

\* Raw gives the bytes, any other codec one opaque piece.
Raw == 0
Family(codec) == IF codec = 3 THEN 1 ELSE codec
Packed(codec, data) ==
    IF codec = Raw THEN [i \in DOMAIN data |-> [family |-> Raw, data |-> <<data[i]>>]]
    ELSE <<[family |-> Family(codec), data |-> data]>>
\* decode_with_codec
Unpacked(pieces, codec, size) ==
    LET data == FlattenSeq([i \in DOMAIN pieces |-> pieces[i].data])
        Right == /\ \A i \in DOMAIN pieces : pieces[i].family = Family(codec)
                 /\ codec # Raw => Len(pieces) = 1
                 /\ Len(data) = size
    IN IF Right THEN data ELSE Error
\* invert_transform_plan, of what a codec may have refused.
Undone(data, plan) == IF data # Error /\ Applies(plan, Len(data)) THEN Inverted(plan, data) ELSE Error

================================================================================
