---------------------------- MODULE SopasFraming ----------------------------
(***************************************************************************)
(* How SickScanCommonTcp cuts the byte stream of the LiDAR into datagrams  *)
(* (CoLa-B): magic word and length, payload, checksum. A datagram is two   *)
(* tokens, its head (up to somewhere behind the length) and its tail (the  *)
(* rest, with the checksum); nr numbers the datagrams of a connection and  *)
(* stays at Later from then on.                                            *)
(***************************************************************************)
EXTENDS Naturals, Sequences, DatagramQueue

Later == 3

Token == [kind : Kinds, part : {"head", "tail"}, nr : 1 .. Later]

Frame(k, n) == << [kind |-> k, part |-> "head", nr |-> n],
                  [kind |-> k, part |-> "tail", nr |-> n] >>

\* where the stream may be cut: a reply fits a segment of TCP, a scan takes two
Cuts(buf) == {k \in DOMAIN buf : buf[k].part = "head" => buf[k].kind = "scan"}

\* where the next magic word is, or 0
MagicAt(buf) == IF \E i \in DOMAIN buf : buf[i].part = "head"
                THEN CHOOSE i \in DOMAIN buf :
                       buf[i].part = "head" /\ \A j \in 1 .. i - 1 : buf[j].part = "tail"
                ELSE 0

Nothing(buf) == [frames |-> <<>>, rest |-> buf]

(* readCallbackFunction's loop over findFrameInReceiveBuffer: the datagrams  *)
(* found in a buffer and what stays in it. A head followed by a head is the  *)
(* rest of a broken connection with bytes of the next one; the checksum, an  *)
(* exclusive or of 8 bits, gives it away unless lucky, and then everything   *)
(* received is thrown away.                                                  *)
Parse(buf, lucky) ==
  LET parse[b \in Seq(Token)] ==
        LET at == MagicAt(b)
            more == parse[SubSeq(b, 3, Len(b))]
        IN  CASE at = 0                           -> Nothing(<<>>)
              [] at > 1                           -> parse[SubSeq(b, at, Len(b))]
              [] at = 1 /\ Len(b) = 1             -> Nothing(b)
              [] at = 1 /\ Len(b) > 1 /\ (b[2].part = "tail" \/ lucky) ->
                   [more EXCEPT !.frames = <<b[1].kind>> \o @]
              [] OTHER                            -> Nothing(<<>>)
  IN  parse[buf]
=============================================================================
