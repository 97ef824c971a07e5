-------------------------------- MODULE Codec --------------------------------
(***************************************************************************)
(* packet_implem.c and fec.c: how a program of the pair builds a packet,   *)
(* writes it in its one buffer (copybuf, buffer), and reads there the      *)
(* datagrams of the other.  The buffer is never cleared.  A datagram is    *)
(* its header, the fields of which are damaged as wholes, and its body:    *)
(* the bytes of the payload, then the payload's checksum as one cell.  A   *)
(* checksum is the data it was computed from, so that it matches exactly   *)
(* the same data.  A byte is a bit, enough for the parity.  Time stamps    *)
(* are left out: nothing reads the one of a packet but to copy it.         *)
(***************************************************************************)
EXTENDS Integers, SequencesExt

CONSTANTS
  MaxPayload,   \* 512: MAX_PAYLOAD_SIZE
  Slack,        \* 32: how much longer than its payload a datagram may be
  Windows,      \* the sizes of window and the numbers packets carry
  Numbers,
  Cuts          \* the lengths of datagrams cut in their header

ASSUME CodecAssumption ==
  /\ MaxPayload \in 1 .. 2^16 - 2   \* 2^16 - 1 is the length of a failed read
  /\ Slack \in Nat /\ Slack >= 16   \* header and checksums
  /\ Windows \subseteq 1 .. 31
  /\ Numbers \subseteq 0 .. 255
  /\ Cuts \subseteq 0 .. 9

CrcLen == 4
PKT_MAX_LEN == 8 + CrcLen + MaxPayload + CrcLen   \* 528

Type == {"FEC", "DATA", "ACK", "NACK"}
HasPayload(type) == type \in {"DATA", "FEC"}
predict_header_length(type) == IF HasPayload(type) THEN 8 ELSE 6

(* Bytes and the checksum of bytes as cells of a body.                     *)
Byte(b) == <<b>>
Crc(payload) == <<2>> \o payload
Cells(payload) == [i \in DOMAIN payload |-> Byte(payload[i])] \o <<Crc(payload)>>
BodyLen == MaxPayload + 1

-----------------------------------------------------------------------------
(* pkt_new, and the setters that may refuse their argument: the packet is  *)
(* then unchanged.                                                         *)
NewPkt == [type |-> "FEC", tr |-> 0, window |-> 0, length |-> 0, seqnum |-> 0,
           payload |-> <<>>]

pkt_set_lengthAny(p, length) == [p EXCEPT !.length = length]
pkt_set_length(p, length) ==
  IF HasPayload(p.type) /\ length <= MaxPayload
    THEN [p EXCEPT !.length = length] ELSE p

(* A parity packet takes MaxPayload bytes whatever the length says.        *)
pkt_set_payload(p, data, length) ==
  CASE p.type = "DATA" /\ length <= MaxPayload ->
         [pkt_set_length(p, length) EXCEPT !.payload = SubSeq(data, 1, length)]
    [] p.type = "FEC" -> [p EXCEPT !.payload = SubSeq(data, 1, MaxPayload)]
    [] OTHER -> pkt_set_length(p, length)

(* fill_window: bytes_read, -1 when pread fails, becomes a uint16_t.       *)
DataPkt(seqnum, window, data, bytes_read) ==
  pkt_set_payload([NewPkt EXCEPT !.type = "DATA", !.seqnum = seqnum,
                                 !.window = window],
                  data, bytes_read % 2^16)

(* send_final_pkt, and send_response.                                      *)
FinalPkt(seqnum, window) ==
  pkt_set_length([NewPkt EXCEPT !.type = "DATA", !.seqnum = seqnum,
                                !.window = window], 0)
ResponsePkt(type, seqnum, window) ==
  [NewPkt EXCEPT !.type = type, !.seqnum = seqnum, !.window = window]

(* A parity packet.  Its length, the xor of four, is left out: pkt_encode  *)
(* writes MAX_PAYLOAD_SIZE in its place (packet_implem.c:245).             *)
ParityPkt(seqnum, data) == [NewPkt EXCEPT !.seqnum = seqnum, !.payload = data]

(* fec_generation of four packets: the fourth byte is read in the payload  *)
(* of the third packet.                                                    *)
fec_generation(pkts) ==
  LET byte(length, payload, i) == IF i <= length THEN payload[i] ELSE 0
      xor(i) == ( byte(pkts[1].length, pkts[1].payload, i)
                + byte(pkts[2].length, pkts[2].payload, i)
                + byte(pkts[3].length, pkts[3].payload, i)
                + byte(pkts[4].length, pkts[3].payload, i)) % 2
  IN  [pkt_set_payload(NewPkt, [i \in 1 .. MaxPayload |-> xor(i)], MaxPayload)
         EXCEPT !.seqnum = pkts[1].seqnum]

-----------------------------------------------------------------------------
(* pkt_encode: what the size test counts, what is written, and the bytes.  *)
(* A final packet gets a checksum of no payload that is not counted.       *)
Counted(p) ==
  predict_header_length(p.type) + CrcLen
  + CASE p.type = "DATA" /\ p.length # 0 -> p.length + CrcLen
      [] p.type = "FEC"                  -> MaxPayload + CrcLen
      [] OTHER                           -> 0

Written(p) ==
  predict_header_length(p.type) + CrcLen
  + CASE p.type = "DATA" /\ p.tr = 0 -> p.length + CrcLen
      [] p.type = "FEC"              -> MaxPayload + CrcLen
      [] OTHER                       -> 0

(* The header's checksum covers all but the TR bit.                        *)
CoveredFew(h) == <<h.type, h.window, h.length>>
Covered(h) == <<h.type, h.window, h.length, h.seqnum>>

pkt_encode(p) ==
  LET h == [type |-> p.type, tr |-> p.tr, window |-> p.window,
            length |-> CASE p.type = "DATA" -> p.length
                         [] p.type = "FEC"  -> MaxPayload
                         [] OTHER           -> 0,
            seqnum |-> p.seqnum]
  IN  [head |-> h, crc1 |-> Covered(h), size |-> Written(p),
       body |-> IF HasPayload(p.type) THEN Cells(p.payload) ELSE <<>>]

(* Where pkt_decode looks for the payload's checksum.                      *)
Crc2AtEnd(h) == BodyLen
Crc2At(h) == IF h.type = "FEC" THEN BodyLen ELSE h.length + 1

(* pkt_set_crc2 refuses; the length pkt_decode compares is a size_t.       *)
NoCrc2ButCut(h) == h.length = 0
NoCrc2(h) == h.length = 0 \/ h.tr = 1

TooLongSigned(size) == MaxPayload + Slack < size
TooLong(size) == size = -1 \/ MaxPayload + Slack < size

(* pkt_decode of the first size bytes of a buffer, -1 when the read has    *)
(* failed: as a size_t it is larger than any length.  The tests in order,  *)
(* each with what it answers.  The packet of a refused datagram is given   *)
(* all its fields, though the code stops at the test: only the type, the   *)
(* TR bit and the number are read of it, and after an E_CRC only.          *)
Tests(buf, size) ==
  LET h       == buf.head
      nothing == ~HasPayload(h.type) \/ (h.type = "DATA" /\ h.length = 0)
      payload == [i \in 1 .. Crc2At(h) - 1 |-> buf.body[i][1]]
      matches == Crc2At(h) \in 1 .. BodyLen /\ buf.body[Crc2At(h)] = Crc(payload)
  IN  << <<size = 0, "E_UNCONSISTENT">>,
         <<size \in 1 .. 5, "E_NOHEADER">>,
         <<size \in 6 .. 9, "E_CRC">>,
         <<h.tr = 1 /\ h.type # "DATA", "E_TR">>,
         <<HasPayload(h.type) /\ h.length > MaxPayload, "E_LENGTH">>,
         <<HasPayload(h.type) /\ h.length + Slack < size, "E_UNCONSISTENT">>,
         <<Covered(h) # buf.crc1, "E_CRC">>,
         <<nothing, "PKT_OK">>,
         <<TooLong(size), "E_UNCONSISTENT">>,
         <<NoCrc2(h) \/ ~matches, "E_CRC">>,
         <<TRUE, "PKT_OK">> >>

Verdict(buf, size) == SelectInSeq(Tests(buf, size), LAMBDA t : t[1])

pkt_decode(buf, size) ==
  LET h   == buf.head
      set == [NewPkt EXCEPT !.type = h.type, !.tr = h.tr, !.window = h.window,
                            !.seqnum = h.seqnum]
      data == [i \in 1 .. MaxPayload |-> buf.body[i][1]]
  IN  [code |-> Tests(buf, size)[Verdict(buf, size)][2],
       pkt  |-> IF size \in 0 .. 9 THEN NewPkt ELSE pkt_set_payload(set, data, h.length)]

-----------------------------------------------------------------------------
VARIABLES
  role,   \* which of the two programs it is
  buf,    \* its buffer
  op,     \* the last operation
  sent,   \* the packet it encoded, or that the other program had encoded
  gram,   \* the datagram
  got,    \* what pkt_decode made of it
  group   \* fec->pkts: the packets of the parity just sent

vars == <<role, buf, op, sent, gram, got, group>>

Nothing == [code |-> "none", pkt |-> NewPkt]

(* malloc's buffer: its bytes match no checksum.                           *)
Init ==
  /\ role \in {"sender", "receiver"}
  /\ buf = [head |-> [type |-> "FEC", tr |-> 0, window |-> 0, length |-> 0,
                      seqnum |-> 0],
            crc1 |-> <<>>, body |-> [i \in 1 .. BodyLen |-> Byte(0)]]
  /\ group = <<>>
  /\ op = "start"
  /\ sent = NewPkt
  /\ gram = pkt_encode(FinalPkt(0, 0))
  /\ got = Nothing

Payloads == UNION {[1 .. n -> 0 .. 1] : n \in 1 .. MaxPayload}
DataPkts == {DataPkt(n, w, data, Len(data)) : n \in Numbers, w \in Windows, data \in Payloads}
EmptyPkts == {FinalPkt(n, w) : n \in Numbers, w \in Windows}
               \cup {DataPkt(n, w, <<>>, -1) : n \in Numbers, w \in Windows}
Responses == {ResponsePkt(t, n, w) : t \in {"ACK", "NACK"}, n \in Numbers, w \in Windows}
Parities == {ParityPkt(n, data) : n \in Numbers, data \in [1 .. MaxPayload -> 0 .. 1]}
Of(program) == IF program = "sender" THEN DataPkts \cup EmptyPkts ELSE Responses

(* The buffer with a datagram at its start.  One that ends in the header   *)
(* leaves a checksum of two origins, taken not to match.                   *)
Over(d) ==
  IF d.size = 0 THEN buf
  ELSE [head |-> d.head, crc1 |-> IF d.size < 10 THEN <<>> ELSE d.crc1,
        body |-> [i \in 1 .. BodyLen |-> IF i <= Len(d.body) THEN d.body[i]
                                         ELSE buf.body[i]]]

Write(p) ==
  /\ sent' = p
  /\ gram' = pkt_encode(p)
  /\ buf' = IF Counted(p) > PKT_MAX_LEN THEN buf ELSE Over(pkt_encode(p))
  /\ got' = Nothing

(* fill_window, resent_pkt, send_final_pkt, and send_response.             *)
Send ==
  /\ \E p \in Of(role) : Write(p)
  /\ op' = "sent"
  /\ group' = <<>>

(* The fourth packet of a group was sent: its parity follows.  The chunks  *)
(* follow each other in the file and only the last one may be short.       *)
SendParity ==
  /\ op = "sent"
  /\ sent \in DataPkts
  /\ \E first, second, third \in {p \in DataPkts : p.length = MaxPayload} :
       group' = <<first, second, third, sent>>
  /\ Write(fec_generation(group'))
  /\ op' = "parity"

(* The damage done to a datagram: none, one field or one cell changed, a   *)
(* cut that sets the TR bit, or a cut in the header.                       *)
Damaged(d) ==
  {d}
  \cup {[d EXCEPT !.head.type = t] : t \in Type}
  \cup {[d EXCEPT !.head.tr = 1 - @]}
  \cup {[d EXCEPT !.head.window = 0]}
  \cup {[d EXCEPT !.head.length = n] : n \in 0 .. MaxPayload + 1}
  \cup {[d EXCEPT !.head.seqnum = @ + 1]}
  \cup {[d EXCEPT !.crc1 = <<>>]}
  \cup {[d EXCEPT !.body[i] = Byte(b)] : i \in DOMAIN d.body, b \in 0 .. 1}
Cut(d) ==
  IF d.head.type = "DATA" /\ d.size > 12
    THEN {[d EXCEPT !.head.tr = 1, !.size = 12, !.body = <<>>]} ELSE {}
Runt(d) == {[d EXCEPT !.size = n, !.body = <<>>] : n \in Cuts}

(* read and pkt_decode.                                                    *)
Receive ==
  /\ \E p \in IF role = "receiver" THEN Of("sender") \cup Parities ELSE Of("receiver") :
       /\ sent' = p
       /\ gram' \in Damaged(pkt_encode(p)) \cup Cut(pkt_encode(p)) \cup Runt(pkt_encode(p))
  /\ buf' = Over(gram')
  /\ got' = pkt_decode(buf', gram'.size)
  /\ op' = "received"
  /\ group' = <<>>

(* read fails: pkt_decode takes what the buffer holds.                     *)
ReadFails ==
  /\ op # "failed"
  /\ got' = pkt_decode(buf, -1)
  /\ op' = "failed"
  /\ group' = <<>>
  /\ UNCHANGED <<buf, sent, gram>>

Next == (Send \/ SendParity \/ Receive \/ ReadFails) /\ UNCHANGED role

Spec == Init /\ [][Next]_vars

-----------------------------------------------------------------------------
Codes == {"PKT_OK", "E_TR", "E_LENGTH", "E_CRC", "E_NOHEADER", "E_UNCONSISTENT"}

TypeOK ==
  /\ role \in {"sender", "receiver"}
  /\ op \in {"start", "sent", "parity", "received", "failed"}
  /\ buf.body \in [1 .. BodyLen -> Seq(Int)]
  /\ got.code \in Codes \cup {"none"}
  /\ \A p \in {sent, got.pkt} :
       p.type \in Type /\ p.length \in 0 .. MaxPayload /\ p.payload \in Seq(Int)
  /\ group \in Seq(DataPkts)

(* What a receiver learns of a packet but its TR bit: the length of a      *)
(* parity packet is not among it.                                          *)
Told(p) == [p EXCEPT !.tr = 0, !.length = IF p.type = "FEC" THEN 0 ELSE @]

(* An undamaged datagram is taken for the packet that was sent, whatever   *)
(* longer datagrams have left in the buffer behind it (packet_implem.c:63, *)
(* 210).                                                                   *)
RoundTrip ==
  op = "received" /\ gram = pkt_encode(sent) =>
    got.code = "PKT_OK" /\ Told(got.pkt) = Told(sent) /\ got.pkt.tr = sent.tr

(* A packet pkt_decode takes is the one that was sent, but for the TR bit, *)
(* although it reads as many bytes as the length field says, received or   *)
(* not: a cut datagram is completed by bytes of earlier ones               *)
(* (packet_implem.c:176).                                                  *)
NoForgery ==
  op = "received" /\ got.code = "PKT_OK" => Told(got.pkt) = Told(sent)

(* Packet.tla, what the transfer is checked with, and the bytes agree.  A  *)
(* datagram of the sender as the transfer sees it:                         *)
Abs ==
  INSTANCE Packet WITH SeqSpace <- 256, MaxWindow <- 31, MinShrink <- 4, FileLen <- 1

Message ==
  [type |-> gram.head.type,
   seq  |-> gram.head.seqnum,
   pay  |-> IF sent.length = 0 THEN Abs!Empty ELSE 0,
   tr   |-> gram.head.tr,
   ok1  |-> Covered(gram.head) = gram.crc1,
   ok2  |-> gram.body = pkt_encode(sent).body]

(* pkt_decode takes exactly the data and responses it takes, and of one    *)
(* whose TR bit makes the receiver answer a NACK though it is refused      *)
(* (read_write_receiver.c:393) the number is the one of the header.        *)
AgreesWithPacket ==
  op = "received" /\ gram.size >= 10 /\ sent.type # "FEC" /\ gram.head.type = sent.type =>
    /\ sent.type = "DATA" \/ Message.tr = 0 =>
         (got.code = "PKT_OK") = (Abs!pkt_decode(Message) = "PKT_OK")
    /\ got.code = "E_CRC" /\ got.pkt.tr = 1 =>
         Message.tr = 1 /\ got.pkt.seqnum = Message.seq

(* When a read fails, what is left in the buffer is decoded: only a packet *)
(* without payload may be taken, for it was there (read_write_sender.c:547,*)
(* read_write_receiver.c:389).                                             *)
StaleReadIsEmpty ==
  op = "failed" /\ got.code = "PKT_OK" =>
    got.pkt.payload = <<>> /\ got.pkt.type # "FEC" /\ Covered(buf.head) = buf.crc1

(* What is written fits in the buffer, also the checksum of a final packet,*)
(* which the size test does not count (packet_implem.c:272), and the       *)
(* payload no read can have given (read_write_sender.c:115).               *)
FitsBuffer ==
  op \in {"sent", "parity"} => Counted(sent) <= PKT_MAX_LEN /\ Written(sent) <= PKT_MAX_LEN

-----------------------------------------------------------------------------
(* "take the value in payload or 0 if i > payload size", of each of the    *)
(* four packets (fec.c:60): the parity is the xor of the four payloads.    *)
ByteOf(p, i) == IF i <= p.length THEN p.payload[i] ELSE 0

ParityCovers ==
  op = "parity" =>
    \A i \in 1 .. MaxPayload :
      sent.payload[i] = (  ByteOf(group[1], i) + ByteOf(group[2], i)
                         + ByteOf(group[3], i) + ByteOf(group[4], i)) % 2
=============================================================================
