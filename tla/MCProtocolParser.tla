-------------------------- MODULE MCProtocolParser --------------------------
(* Packets without data and with one word of it, cut in every way; and the *)
(* conversions of the frames of a link, of texts of up to four bytes, and  *)
(* of the characters at the ends of what UTF-8 has a length for.           *)
EXTENDS ProtocolParser, Codecs

MCPackets == {[command |-> 1, data |-> <<>>], [command |-> 2, data |-> <<5>>]}
MCNoise == {-1, 0, 1, 9}
MCBytes == {0, 171, 255}
MCCharacters == {0, 1, 65, 127, 128, 2047, 2048, 4095, 4096, 65535, 65536, 262143, 262144, 1114111}

(* What a link has carried when all of it has arrived, a byte per word.    *)
Carried == LET words == FlattenSeq(wire) IN [i \in DOMAIN words |-> words[i] % 256]

(* Whatever a link has carried can be dumped, encoded and encrypted, and   *)
(* comes back as it was; so does, before anything was sent, every short    *)
(* text and every character.                                               *)
ConversionsInvert ==
  /\ wire = <<>> => Utf8Inverts /\ \A s \in Texts : Inverts(s)
  /\ arriving = <<>> /\ ~parsing => Inverts(Carried)
=============================================================================
