----------------------------- MODULE CodecProofs -----------------------------
(***************************************************************************)
(* Proofs about packet_implem.c, for payloads of every size.               *)
(***************************************************************************)
EXTENDS Codec, Lemmas

(* What pkt_decode reads in the buffer: a header, and cells none of which  *)
(* is empty.                                                               *)
Header == [type : Type, tr : 0 .. 1, window : Int, length : Nat, seqnum : Int]
Cell == {s \in Seq(Int) : Len(s) >= 1}
IsBuffer(b) == b.head \in Header /\ b.body \in [1 .. BodyLen -> Cell]

(* A packet one of the programs builds: its payload is as long as it says, *)
(* but that of a parity packet, which says nothing.                        *)
MadePkt == [type : Type, tr : {0}, window : 0 .. 31, length : 0 .. MaxPayload,
            seqnum : 0 .. 255, payload : Seq(0 .. 1)]
Made(p) ==
  /\ p \in MadePkt
  /\ p.type = "DATA" => Len(p.payload) = p.length
  /\ p.type = "FEC" => Len(p.payload) = MaxPayload /\ p.length = 0
  /\ ~HasPayload(p.type) => p.payload = <<>> /\ p.length = 0

-----------------------------------------------------------------------------
(* SelectInSeq finds the first test that says yes.                         *)
LEMMA FirstTest ==
  ASSUME NEW b, NEW size, NEW v, v = Verdict(b, size)
  PROVE  /\ v \in 1 .. 11
         /\ Tests(b, size)[v][1]
         /\ \A i \in 1 .. v - 1 : ~Tests(b, size)[i][1]
<1> PICK T : T = Tests(b, size)
  OBVIOUS
<1> DEFINE I == {i \in 1 .. 11 : T[i][1]}
<1>1. Len(T) = 11 /\ T[11][1]
  BY DEF Tests
<1>2. 11 \in I /\ I \subseteq Nat
  BY <1>1
<1>3. v = Min(I)
  BY <1>1, <1>2 DEF Verdict, SelectInSeq
<1>4. PICK m \in I : \A i \in I : m <= i
  <2> HIDE DEF I
  <2> QED
    BY <1>2, LeastNatural
<1>5. v \in I /\ \A i \in I : v <= i
  BY <1>2, <1>3, <1>4 DEF Min
<1>6. ASSUME NEW i \in 1 .. v - 1, T[i][1] PROVE FALSE
  <2>1. v \in Nat /\ i \in 1 .. 11 /\ i < v
    BY <1>5
  <2> QED
    BY <1>5, <1>6, <2>1
<1> QED
  BY <1>5, <1>6

(* What pkt_decode asks of a datagram it takes: no test refuses it.        *)
Payload1(b) == [i \in 1 .. Crc2At(b.head) - 1 |-> b.body[i][1]]
Matches(b) ==
  Crc2At(b.head) \in 1 .. BodyLen /\ b.body[Crc2At(b.head)] = Crc(Payload1(b))
Bare(h) == ~HasPayload(h.type) \/ (h.type = "DATA" /\ h.length = 0)

Accepted(b, size) ==
  LET h == b.head
  IN  /\ size \notin 0 .. 9
      /\ h.tr = 1 => h.type = "DATA"
      /\ HasPayload(h.type) => h.length <= MaxPayload /\ ~(h.length + Slack < size)
      /\ Covered(h) = b.crc1
      /\ Bare(h) \/ (~TooLong(size) /\ ~NoCrc2(h) /\ Matches(b))

(* pkt_decode answers with one of its codes, and PKT_OK exactly for what   *)
(* Accepted says (packet_implem.c:63).                                     *)
LEMMA Decodes ==
  ASSUME NEW b, IsBuffer(b), NEW size \in Int
  PROVE  /\ pkt_decode(b, size).code \in Codes
         /\ pkt_decode(b, size).code = "PKT_OK" <=> Accepted(b, size)
<1> PICK v : v = Verdict(b, size)
  OBVIOUS
<1> PICK T : T = Tests(b, size)
  OBVIOUS
<1> PICK code : code = T[v][2]
  OBVIOUS
<1>1. v \in 1 .. 11 /\ T[v][1] /\ \A i \in 1 .. v - 1 : ~T[i][1]
  BY FirstTest
<1>2. pkt_decode(b, size).code = code
  BY DEF pkt_decode
<1> DEFINE h == b.head
<1> DEFINE Test(i, test, answer) == (T[i][1] <=> test) /\ T[i][2] = answer
<1>3. /\ Test(1, size = 0, "E_UNCONSISTENT")
      /\ Test(2, size \in 1 .. 5, "E_NOHEADER")
      /\ Test(3, size \in 6 .. 9, "E_CRC")
      /\ Test(4, h.tr = 1 /\ h.type # "DATA", "E_TR")
      /\ Test(5, HasPayload(h.type) /\ h.length > MaxPayload, "E_LENGTH")
      /\ Test(6, HasPayload(h.type) /\ h.length + Slack < size, "E_UNCONSISTENT")
      /\ Test(7, Covered(h) # b.crc1, "E_CRC")
      /\ Test(8, Bare(h), "PKT_OK")
      /\ Test(9, TooLong(size), "E_UNCONSISTENT")
      /\ Test(10, NoCrc2(h) \/ ~Matches(b), "E_CRC")
      /\ Test(11, TRUE, "PKT_OK")
  BY DEF Tests, Bare, Matches, Payload1
<1>4. code \in Codes
  BY <1>1, <1>3 DEF Codes
<1>5. ASSUME code = "PKT_OK" PROVE Accepted(b, size)
  <2>1. v = 8 \/ v = 11
    <3>1. /\ T[1][2] # "PKT_OK" /\ T[2][2] # "PKT_OK" /\ T[3][2] # "PKT_OK"
          /\ T[4][2] # "PKT_OK" /\ T[5][2] # "PKT_OK" /\ T[6][2] # "PKT_OK"
          /\ T[7][2] # "PKT_OK" /\ T[9][2] # "PKT_OK" /\ T[10][2] # "PKT_OK"
      BY <1>3
    <3>2. \/ v = 1 \/ v = 2 \/ v = 3 \/ v = 4 \/ v = 5 \/ v = 6 \/ v = 7 \/ v = 8
          \/ v = 9 \/ v = 10 \/ v = 11
      BY <1>1
    <3> QED
      BY <1>5, <3>1, <3>2
  <2>2. ~T[1][1] /\ ~T[2][1] /\ ~T[3][1] /\ ~T[4][1] /\ ~T[5][1] /\ ~T[6][1] /\ ~T[7][1]
    BY <1>1, <2>1
  <2>3. T[8][1] \/ (~T[9][1] /\ ~T[10][1])
    BY <1>1, <2>1
  <2>4. h.length \in Nat /\ MaxPayload \in Nat
    BY CodecAssumption DEF IsBuffer, Header
  <2> QED
    BY <1>3, <2>2, <2>3, <2>4 DEF Accepted
<1>6. ASSUME Accepted(b, size) PROVE code = "PKT_OK"
  <2>1. h.length \in Nat /\ MaxPayload \in Nat
    BY CodecAssumption DEF IsBuffer, Header
  <2>2. ~T[1][1] /\ ~T[2][1] /\ ~T[3][1] /\ ~T[4][1] /\ ~T[5][1] /\ ~T[6][1] /\ ~T[7][1]
    BY <1>3, <1>6, <2>1 DEF Accepted
  <2>3. v \in 8 .. 11
    BY <1>1, <2>2
  <2>4. Bare(h) \/ (~T[9][1] /\ ~T[10][1])
    BY <1>3, <1>6 DEF Accepted
  <2>5. Bare(h) => v = 8
    BY <1>1, <1>3, <2>3
  <2>6. ~Bare(h) => v = 11
    BY <1>1, <1>3, <2>3, <2>4
  <2> QED
    BY <1>3, <2>5, <2>6
<1> QED
  BY <1>2, <1>4, <1>5, <1>6

-----------------------------------------------------------------------------
(* The packets the programs build.  A read that fails gives fill_window    *)
(* the length 2^16 - 1, which pkt_set_payload refuses.                     *)
LEMMA DataPktMade ==
  ASSUME NEW p \in DataPkts
  PROVE  Made(p) /\ p.type = "DATA" /\ p.length >= 1
<1>1. PICK n \in Numbers, w \in Windows, data \in Payloads : p = DataPkt(n, w, data, Len(data))
  BY DEF DataPkts
<1>2. /\ n \in 0 .. 255 /\ w \in 0 .. 31 /\ MaxPayload \in Nat /\ MaxPayload < 2^16
      /\ 2^16 \in Nat
  BY CodecAssumption
<1>3. PICK m \in 1 .. MaxPayload : data \in [1 .. m -> 0 .. 1]
  BY DEF Payloads
<1>4. data \in Seq(0 .. 1) /\ Len(data) = m
  BY <1>3, SeqDef, LenProperties
<1>5. m % 2^16 = m
  BY <1>2, <1>3, ModBelow
<1>6. SubSeq(data, 1, m) = data
  BY <1>3, <1>4
<1>7. p = [type |-> "DATA", tr |-> 0, window |-> w, length |-> m, seqnum |-> n,
           payload |-> data]
  <2>1. PICK new : new = [NewPkt EXCEPT !.type = "DATA", !.seqnum = n, !.window = w]
    OBVIOUS
  <2>2. new = [type |-> "DATA", tr |-> 0, window |-> w, length |-> 0, seqnum |-> n,
               payload |-> <<>>]
    BY <2>1 DEF NewPkt
  <2>3. p = pkt_set_payload(new, data, m)
    BY <1>1, <1>4, <1>5, <2>1 DEF DataPkt
  <2>4. m \in Nat /\ m <= MaxPayload
    BY <1>2, <1>3
  <2>5. pkt_set_length(new, m) = [type |-> "DATA", tr |-> 0, window |-> w, length |-> m,
                                  seqnum |-> n, payload |-> <<>>]
    BY <2>2, <2>4 DEF pkt_set_length, HasPayload
  <2>6. p = [pkt_set_length(new, m) EXCEPT !.payload = data]
    BY <1>6, <2>2, <2>3, <2>4 DEF pkt_set_payload
  <2> QED
    BY <2>5, <2>6
<1> QED
  BY <1>2, <1>3, <1>4, <1>7 DEF Made, MadePkt, Type, HasPayload

(* A packet without a payload, the final packet or a failed pread, is      *)
(* made.                                                                   *)
LEMMA EmptyPktMade ==
  ASSUME NEW p \in EmptyPkts
  PROVE  Made(p) /\ p.type = "DATA" /\ p.length = 0
<1>1. PICK n \in Numbers, w \in Windows : p \in {FinalPkt(n, w), DataPkt(n, w, <<>>, -1)}
  BY DEF EmptyPkts
<1>2. /\ n \in 0 .. 255 /\ w \in 0 .. 31 /\ MaxPayload \in Nat /\ MaxPayload < 2^16 - 1
      /\ 2^16 \in Nat
  BY CodecAssumption
<1>3. (-1) % 2^16 = 2^16 - 1
  <2>1. PICK u \in Nat \ {0} : u = 2^16
    OBVIOUS
  <2>2. PICK a \in (-u) .. (-1) : a = -1
    <3>1. -u <= -1 /\ u \in Int
      BY <2>1
    <3>2. -1 \in (-u) .. (-1)
      BY <3>1
    <3> QED
      BY <3>2
  <2>3. a % u = a + u /\ a + u = u - 1
    BY <2>2, ModNegative
  <2> QED
    BY <2>1, <2>2, <2>3
<1>4. p = [type |-> "DATA", tr |-> 0, window |-> w, length |-> 0, seqnum |-> n,
           payload |-> <<>>]
  BY <1>1, <1>2, <1>3
     DEF FinalPkt, DataPkt, pkt_set_payload, pkt_set_length, NewPkt, HasPayload
<1> QED
  BY <1>2, <1>4 DEF Made, MadePkt, Type, HasPayload

(* An acknowledgement or a NACK is made.                                   *)
LEMMA ResponseMade ==
  ASSUME NEW p \in Responses
  PROVE  Made(p) /\ p.type \in {"ACK", "NACK"}
<1>1. PICK t \in {"ACK", "NACK"}, n \in Numbers, w \in Windows : p = ResponsePkt(t, n, w)
  BY DEF Responses
<1>2. n \in 0 .. 255 /\ w \in 0 .. 31 /\ MaxPayload \in Nat
  BY CodecAssumption
<1>3. p = [type |-> t, tr |-> 0, window |-> w, length |-> 0, seqnum |-> n, payload |-> <<>>]
  BY <1>1 DEF ResponsePkt, NewPkt
<1> QED
  BY <1>1, <1>2, <1>3 DEF Made, MadePkt, Type, HasPayload

(* The parity packet of fec_generation is made.                            *)
LEMMA ParityMade ==
  ASSUME NEW n \in 0 .. 255, NEW data \in [1 .. MaxPayload -> 0 .. 1]
  PROVE  Made(ParityPkt(n, data))
<1>0. PICK p : p = ParityPkt(n, data)
  OBVIOUS
<1>1. MaxPayload \in Nat
  BY CodecAssumption
<1>2. data \in Seq(0 .. 1) /\ Len(data) = MaxPayload
  BY <1>1, SeqDef, LenProperties
<1>3. p = [type |-> "FEC", tr |-> 0, window |-> 0, length |-> 0, seqnum |-> n, payload |-> data]
  BY <1>0 DEF ParityPkt, NewPkt
<1>4. p \in MadePkt
  BY <1>1, <1>2, <1>3 DEF MadePkt, Type
<1>5. Made(p)
  BY <1>2, <1>3, <1>4 DEF Made, HasPayload
<1> QED
  BY <1>0, <1>5

(* fec_generation reads no byte that a payload does not have, though it    *)
(* takes the fourth packet's bytes from the third one.                     *)
LEMMA GenerationMade ==
  ASSUME NEW first \in DataPkts, NEW second \in DataPkts, NEW third \in DataPkts,
         NEW fourth \in DataPkts,
         first.length = MaxPayload, second.length = MaxPayload, third.length = MaxPayload
  PROVE  Made(fec_generation(<<first, second, third, fourth>>))
<1> PICK group4 : group4 = <<first, second, third, fourth>>
  OBVIOUS
<1>0. MaxPayload \in Nat
  BY CodecAssumption
<1>1. Made(first) /\ Made(second) /\ Made(third) /\ Made(fourth)
      /\ first.type = "DATA" /\ second.type = "DATA" /\ third.type = "DATA"
  BY DataPktMade
<1> DEFINE byte(length, payload, i) == IF i <= length THEN payload[i] ELSE 0
           xor(i) == ( byte(first.length, first.payload, i)
                     + byte(second.length, second.payload, i)
                     + byte(third.length, third.payload, i)
                     + byte(fourth.length, third.payload, i)) % 2
<1>2. ASSUME NEW i \in 1 .. MaxPayload PROVE xor(i) \in 0 .. 1
  <2>1. ASSUME NEW payload \in Seq(0 .. 1), Len(payload) = MaxPayload, NEW length \in Nat
        PROVE  byte(length, payload, i) \in Int
    BY <1>0, <2>1
  <2>2. /\ byte(first.length, first.payload, i) \in Int
        /\ byte(second.length, second.payload, i) \in Int
        /\ byte(third.length, third.payload, i) \in Int
        /\ byte(fourth.length, third.payload, i) \in Int
    BY <1>1, <2>1 DEF Made, MadePkt
  <2>3. \A a, b, c, d \in Int : (a + b + c + d) % 2 \in 0 .. 1
    OBVIOUS
  <2> HIDE DEF byte
  <2> QED
    BY <2>2, <2>3
<1> HIDE DEF xor
<1> PICK data : data = [i \in 1 .. MaxPayload |-> xor(i)]
  OBVIOUS
<1>3. data \in [1 .. MaxPayload -> 0 .. 1]
  BY <1>2
<1>4. data \in Seq(0 .. 1) /\ Len(data) = MaxPayload
  BY <1>0, <1>3, SeqDef, LenProperties
<1>5. SubSeq(data, 1, MaxPayload) = data
  BY <1>0, <1>3, <1>4
<1>6. fec_generation(group4) = ParityPkt(first.seqnum, data)
  BY <1>5 DEF fec_generation, pkt_set_payload, ParityPkt, NewPkt, xor
<1>7. first.seqnum \in 0 .. 255
  BY <1>1 DEF Made, MadePkt
<1>8. Made(fec_generation(group4))
  BY <1>3, <1>6, <1>7, ParityMade
<1> QED
  BY <1>8

(* What pkt_encode makes of such a packet: its fields, a checksum of them, *)
(* and if it has a payload its bytes and the checksum of these.  Its size  *)
(* passes every test of a length, of the encoder and of the decoder.       *)
HeadOf(p) ==
  [type |-> p.type, tr |-> 0, window |-> p.window,
   length |-> IF p.type = "FEC" THEN MaxPayload ELSE p.length, seqnum |-> p.seqnum]

BodyOf(p) == IF HasPayload(p.type) THEN Cells(p.payload) ELSE <<>>

(* What pkt_encode writes, field by field (packet_implem.c:210).           *)
LEMMA EncodedIs ==
  ASSUME NEW p, Made(p)
  PROVE  /\ pkt_encode(p) = [head |-> HeadOf(p), crc1 |-> Covered(HeadOf(p)),
                             size |-> Written(p), body |-> BodyOf(p)]
         /\ HeadOf(p) \in Header
<1>1. /\ p.type \in Type /\ p.tr = 0 /\ p.window \in Int /\ p.length \in Nat /\ p.seqnum \in Int
      /\ MaxPayload \in Nat
  <2>1. /\ p.type \in Type /\ p.tr \in {0} /\ p.window \in 0 .. 31
        /\ p.length \in 0 .. MaxPayload /\ p.seqnum \in 0 .. 255
    BY DEF Made, MadePkt
  <2> QED
    BY <2>1, CodecAssumption
<1>2. p.type # "DATA" /\ p.type # "FEC" => p.length = 0
  BY DEF Made, HasPayload
<1>3. CASE p.type = "FEC"
  BY <1>1, <1>3 DEF pkt_encode, HeadOf, BodyOf, Header
<1>4. CASE p.type = "DATA"
  BY <1>1, <1>4 DEF pkt_encode, HeadOf, BodyOf, Header
<1>5. CASE p.type # "DATA" /\ p.type # "FEC"
  BY <1>1, <1>2, <1>5 DEF pkt_encode, HeadOf, BodyOf, Header
<1> QED
  BY <1>3, <1>4, <1>5

(* What is written fits the buffer, second checksum included.              *)
LEMMA EncodedSize ==
  ASSUME NEW p, Made(p)
  PROVE  /\ Counted(p) <= PKT_MAX_LEN /\ Written(p) <= PKT_MAX_LEN
         /\ Written(p) \in Nat /\ Written(p) >= 10
         /\ HasPayload(p.type) => Written(p) <= HeadOf(p).length + 16
<1>1. /\ p.type \in Type /\ p.tr = 0 /\ p.length \in 0 .. MaxPayload /\ MaxPayload \in Nat
  BY CodecAssumption DEF Made, MadePkt
<1>2. HeadOf(p).length = IF p.type = "FEC" THEN MaxPayload ELSE p.length
  BY DEF HeadOf
<1>3. CASE p.type = "FEC"
  BY <1>1, <1>2, <1>3
     DEF Counted, Written, PKT_MAX_LEN, CrcLen, predict_header_length, HasPayload
<1>4. CASE p.type = "DATA"
  BY <1>1, <1>2, <1>4
     DEF Counted, Written, PKT_MAX_LEN, CrcLen, predict_header_length, HasPayload
<1>5. CASE p.type # "DATA" /\ p.type # "FEC"
  BY <1>1, <1>2, <1>5
     DEF Counted, Written, PKT_MAX_LEN, CrcLen, predict_header_length, HasPayload
<1> QED
  BY <1>3, <1>4, <1>5

(* Behind the header come the bytes of the payload and their checksum, or  *)
(* nothing.                                                                *)
LEMMA EncodedBody ==
  ASSUME NEW p, Made(p)
  PROVE  /\ BodyOf(p) \in Seq(Cell)
         /\ p.payload \in Seq(Int) /\ Len(p.payload) \in 0 .. MaxPayload
         /\ Crc(p.payload) \in Cell
         /\ HasPayload(p.type) =>
              /\ Len(BodyOf(p)) = Len(p.payload) + 1
              /\ \A i \in 1 .. Len(p.payload) : BodyOf(p)[i] = Byte(p.payload[i])
              /\ BodyOf(p)[Len(p.payload) + 1] = Crc(p.payload)
         /\ ~HasPayload(p.type) => BodyOf(p) = <<>>
<1> PICK payload : payload = p.payload
  OBVIOUS
<1>1. payload \in Seq(0 .. 1) /\ p.type \in Type /\ p.length \in 0 .. MaxPayload
      /\ MaxPayload \in Nat
  BY CodecAssumption DEF Made, MadePkt
<1>2. payload \in Seq(Int) /\ Len(payload) \in 0 .. MaxPayload
  <2>1. payload \in [1 .. Len(payload) -> Int] /\ Len(payload) \in Nat
    BY <1>1, LenProperties
  <2>2. payload \in Seq(Int)
    BY <2>1, SeqDef
  <2>3. Len(payload) \in 0 .. MaxPayload
    BY <1>1, <2>1 DEF Made, HasPayload, Type
  <2> QED
    BY <2>2, <2>3
<1>3. Crc(payload) \in Cell
  <2>1. <<2>> \in Seq(Int) /\ Len(<<2>>) = 1
    OBVIOUS
  <2>2. <<2>> \o payload \in Seq(Int) /\ Len(<<2>> \o payload) = 1 + Len(payload)
    BY <1>2, <2>1, ConcatProperties
  <2> QED
    BY <1>2, <2>2 DEF Crc, Cell
<1> PICK bytes : bytes = [i \in DOMAIN payload |-> Byte(payload[i])]
  OBVIOUS
<1>4. bytes \in Seq(Cell) /\ Len(bytes) = Len(payload)
      /\ \A i \in 1 .. Len(payload) : bytes[i] = Byte(payload[i])
  <2>1. DOMAIN payload = 1 .. Len(payload) /\ Len(payload) \in Nat
    BY <1>2, LenProperties
  <2>2. \A i \in 1 .. Len(payload) : Byte(payload[i]) \in Cell
    <3>1. ASSUME NEW b \in Int PROVE Byte(b) \in Cell
      BY DEF Byte, Cell
    <3> QED
      BY <1>2, <2>1, <3>1
  <2>3. bytes \in [1 .. Len(payload) -> Cell]
    BY <2>1, <2>2
  <2>4. bytes \in Seq(Cell)
    BY <2>1, <2>3, SeqDef
  <2> QED
    BY <2>1, <2>3, <2>4, LenProperties
<1>5. Cells(payload) = bytes \o <<Crc(payload)>>
  BY DEF Cells
<1>6. <<Crc(payload)>> \in Seq(Cell) /\ Len(<<Crc(payload)>>) = 1
  BY <1>3
<1>7. /\ Cells(payload) \in Seq(Cell) /\ Len(Cells(payload)) = Len(payload) + 1
      /\ \A i \in 1 .. Len(payload) : Cells(payload)[i] = Byte(payload[i])
      /\ Cells(payload)[Len(payload) + 1] = Crc(payload)
  <2> PICK crc : crc = <<Crc(payload)>>
    OBVIOUS
  <2>1. crc \in Seq(Cell) /\ Len(crc) = 1 /\ crc[1] = Crc(payload)
    BY <1>6
  <2>2. Len(payload) \in Nat
    BY <1>2
  <2>3. /\ Cells(payload) \in Seq(Cell) /\ Len(Cells(payload)) = Len(bytes) + Len(crc)
        /\ \A i \in 1 .. Len(bytes) + Len(crc) :
             Cells(payload)[i] = IF i <= Len(bytes) THEN bytes[i] ELSE crc[i - Len(bytes)]
    BY <1>4, <1>5, <2>1, ConcatProperties
  <2>4. ASSUME NEW i \in 1 .. Len(payload) PROVE Cells(payload)[i] = Byte(payload[i])
    <3>1. i \in 1 .. Len(bytes) + Len(crc) /\ i <= Len(bytes)
      BY <1>4, <2>1, <2>2
    <3> QED
      BY <1>4, <2>3, <3>1
  <2>5. Cells(payload)[Len(payload) + 1] = Crc(payload)
    <3>1. PICK i : i = Len(payload) + 1
      OBVIOUS
    <3>2. i \in 1 .. Len(bytes) + Len(crc) /\ ~(i <= Len(bytes)) /\ i - Len(bytes) = 1
      BY <1>4, <2>1, <2>2, <3>1
    <3> QED
      BY <2>1, <2>3, <3>1, <3>2
  <2> QED
    BY <1>4, <2>1, <2>3, <2>4, <2>5
<1> QED
  BY <1>2, <1>3, <1>7, EmptySeq DEF BodyOf

(* The first cell of a body that is the checksum of bytes tells them.      *)
LEMMA CrcTells ==
  ASSUME NEW s \in Seq(Int), NEW t \in Seq(Int), Crc(s) = Crc(t)
  PROVE  s = t
<1>1. <<2>> \in Seq(Int) /\ Len(<<2>>) = 1
  OBVIOUS
<1>2. \A u \in Seq(Int) : /\ Len(Crc(u)) = Len(u) + 1 /\ Len(u) \in Nat
                          /\ \A i \in 1 .. Len(u) : Crc(u)[i + 1] = u[i]
  <2> SUFFICES ASSUME NEW u \in Seq(Int)
               PROVE  /\ Len(Crc(u)) = Len(u) + 1 /\ Len(u) \in Nat
                      /\ \A i \in 1 .. Len(u) : Crc(u)[i + 1] = u[i]
    OBVIOUS
  <2> PICK two : two = <<2>>
    OBVIOUS
  <2>1. two \in Seq(Int) /\ Len(two) = 1 /\ Len(u) \in Nat
    OBVIOUS
  <2>2. /\ Len(Crc(u)) = Len(two) + Len(u)
        /\ \A i \in 1 .. Len(two) + Len(u) :
             Crc(u)[i] = IF i <= Len(two) THEN two[i] ELSE u[i - Len(two)]
    BY <2>1, ConcatProperties DEF Crc
  <2> QED
    BY <2>1, <2>2
<1>3. Len(s) = Len(t)
  BY <1>2
<1>4. ASSUME NEW i \in 1 .. Len(s) PROVE s[i] = t[i]
  <2>1. Crc(s)[i + 1] = s[i]
    BY <1>2
  <2>2. i \in 1 .. Len(t)
    BY <1>3
  <2>3. Crc(t)[i + 1] = t[i]
    BY <1>2, <2>2
  <2> QED
    BY <2>1, <2>3
<1> QED
  BY <1>3, <1>4, SeqEqual

(* What pkt_decode puts in the packet: the fields of the header, and as    *)
(* many bytes of the buffer as they say, whatever was received of them.    *)
Bytes(b) == [i \in 1 .. MaxPayload |-> b.body[i][1]]
Fits(h) == h.type = "DATA" /\ h.length <= MaxPayload
LengthIn(h) == IF Fits(h) THEN h.length ELSE 0
PayloadIn(b) ==
  IF Fits(b.head) THEN SubSeq(Bytes(b), 1, b.head.length)
  ELSE IF b.head.type = "FEC" THEN SubSeq(Bytes(b), 1, MaxPayload) ELSE <<>>

(* The packet pkt_decode fills in, whatever its verdict.                   *)
LEMMA DecodedPkt ==
  ASSUME NEW b, IsBuffer(b), NEW size \in Int, size \notin 0 .. 9
  PROVE  pkt_decode(b, size).pkt =
           [type |-> b.head.type, tr |-> b.head.tr, window |-> b.head.window,
            length |-> LengthIn(b.head), seqnum |-> b.head.seqnum, payload |-> PayloadIn(b)]
<1> PICK h, data : h = b.head /\ data = Bytes(b)
  OBVIOUS
<1>1. PICK set : set = [NewPkt EXCEPT !.type = h.type, !.tr = h.tr, !.window = h.window,
                                      !.seqnum = h.seqnum]
  OBVIOUS
<1>2. set = [type |-> h.type, tr |-> h.tr, window |-> h.window, length |-> 0,
             seqnum |-> h.seqnum, payload |-> <<>>]
  BY <1>1 DEF NewPkt
<1>3. pkt_decode(b, size).pkt = pkt_set_payload(set, data, h.length)
  BY <1>1 DEF pkt_decode, Bytes
<1>4. CASE Fits(h)
  <2>1. pkt_set_length(set, h.length) =
          [type |-> h.type, tr |-> h.tr, window |-> h.window, length |-> h.length,
           seqnum |-> h.seqnum, payload |-> <<>>]
    BY <1>2, <1>4 DEF pkt_set_length, HasPayload, Fits
  <2>2. pkt_set_payload(set, data, h.length) =
          [pkt_set_length(set, h.length) EXCEPT !.payload = SubSeq(data, 1, h.length)]
    BY <1>2, <1>4 DEF pkt_set_payload, Fits
  <2>3. LengthIn(h) = h.length /\ PayloadIn(b) = SubSeq(data, 1, h.length)
    BY <1>4 DEF LengthIn, PayloadIn
  <2>4. PICK p, bytes : p = pkt_set_payload(set, data, h.length) /\ bytes = SubSeq(data, 1, h.length)
    OBVIOUS
  <2>5. p = [pkt_set_length(set, h.length) EXCEPT !.payload = bytes]
    BY <2>2, <2>4
  <2>6. p = [type |-> h.type, tr |-> h.tr, window |-> h.window, length |-> h.length,
             seqnum |-> h.seqnum, payload |-> bytes]
    BY <2>1, <2>5
  <2> QED
    BY <1>3, <2>3, <2>4, <2>6
<1>5. CASE ~Fits(h) /\ h.type = "FEC"
  <2>1. pkt_set_payload(set, data, h.length) =
          [set EXCEPT !.payload = SubSeq(data, 1, MaxPayload)]
    BY <1>2, <1>5 DEF pkt_set_payload
  <2> QED
    BY <1>2, <1>3, <1>5, <2>1 DEF LengthIn, PayloadIn
<1>6. CASE ~Fits(h) /\ h.type # "FEC"
  <2>1. ~(HasPayload(h.type) /\ h.length <= MaxPayload)
    BY <1>6 DEF Fits, HasPayload
  <2>2. pkt_set_payload(set, data, h.length) = set
    BY <1>2, <1>6, <2>1 DEF pkt_set_payload, pkt_set_length, Fits
  <2> QED
    BY <1>2, <1>3, <1>6, <2>2 DEF LengthIn, PayloadIn
<1> QED
  BY <1>4, <1>5, <1>6

(* The bytes are numbers, and those whose checksum was tested.             *)
LEMMA PayloadInIs ==
  ASSUME NEW b, IsBuffer(b)
  PROVE  /\ LengthIn(b.head) \in 0 .. MaxPayload
         /\ PayloadIn(b) \in Seq(Int)
         /\ Bare(b.head) => PayloadIn(b) = <<>>
         /\ ~Bare(b.head) /\ (HasPayload(b.head.type) => b.head.length <= MaxPayload) =>
              PayloadIn(b) = Payload1(b)
<1> PICK h, data : h = b.head /\ data = Bytes(b)
  OBVIOUS
<1>1. MaxPayload \in Nat /\ h.length \in Nat /\ h.type \in Type
  BY CodecAssumption DEF IsBuffer, Header
<1>2. data \in [1 .. MaxPayload -> Int]
  <2>1. ASSUME NEW i \in 1 .. MaxPayload PROVE b.body[i][1] \in Int
    <3>1. b.body[i] \in Cell
      BY <1>1, <2>1 DEF IsBuffer, BodyLen
    <3> QED
      BY <3>1 DEF Cell
  <2> QED
    BY <2>1 DEF Bytes
<1>3. ASSUME NEW n \in 0 .. MaxPayload
      PROVE  SubSeq(data, 1, n) = [i \in 1 .. n |-> b.body[i][1]] /\ SubSeq(data, 1, n) \in Seq(Int)
  <2>1. data \in Seq(Int) /\ Len(data) = MaxPayload
    BY <1>1, <1>2, SeqDef, LenProperties
  <2>2. SubSeq(data, 1, n) = [i \in 1 .. n |-> data[i]]
    BY <1>1, <2>1
  <2>3. [i \in 1 .. n |-> data[i]] = [i \in 1 .. n |-> b.body[i][1]]
    BY <1>1 DEF Bytes
  <2>4. [i \in 1 .. n |-> data[i]] \in [1 .. n -> Int] /\ n \in Nat
    BY <1>1, <1>2
  <2> QED
    BY <2>2, <2>3, <2>4, SeqDef
<1>4. CASE Fits(h)
  <2>1. PayloadIn(b) = SubSeq(data, 1, h.length) /\ h.length \in 0 .. MaxPayload
    BY <1>1, <1>4 DEF PayloadIn, Fits
  <2>2. Bare(h) <=> h.length = 0
    BY <1>4 DEF Bare, Fits, HasPayload
  <2>3. Payload1(b) = [i \in 1 .. h.length |-> b.body[i][1]]
    BY <1>1, <1>4 DEF Payload1, Crc2At, Fits
  <2>4. h.length = 0 => SubSeq(data, 1, h.length) = <<>>
    BY <1>1, <1>2, SeqDef, LenProperties
  <2> QED
    BY <1>3, <1>4, <2>1, <2>2, <2>3, <2>4 DEF LengthIn
<1>5. CASE h.type = "FEC"
  <2>1. PayloadIn(b) = SubSeq(data, 1, MaxPayload) /\ LengthIn(h) = 0
    BY <1>5 DEF PayloadIn, Fits, LengthIn
  <2>2. ~Bare(h)
    BY <1>5 DEF Bare, HasPayload
  <2>3. Payload1(b) = [i \in 1 .. MaxPayload |-> b.body[i][1]]
    BY <1>1, <1>5 DEF Payload1, Crc2At, BodyLen
  <2> QED
    BY <1>1, <1>3, <2>1, <2>2, <2>3
<1>6. CASE ~Fits(h) /\ h.type # "FEC"
  <2>1. PayloadIn(b) = <<>> /\ LengthIn(h) = 0 /\ <<>> \in Seq(Int)
    BY <1>6 DEF PayloadIn, LengthIn
  <2>2. Bare(h) \/ (HasPayload(h.type) /\ h.length > MaxPayload)
    BY <1>1, <1>6 DEF Bare, Fits, HasPayload
  <2> QED
    BY <1>1, <2>1, <2>2
<1> QED
  BY <1>4, <1>5, <1>6

-----------------------------------------------------------------------------
(* What may arrive of a packet: a datagram whose checksum is right has its *)
(* fields, but the TR bit; unless it has that bit, its body is the one     *)
(* that was sent, but for a cell; and it is no longer than it should be.   *)
SameHead(h, p) ==
  /\ h.type = p.type /\ h.window = p.window /\ h.seqnum = p.seqnum
  /\ h.length = IF p.type = "FEC" THEN MaxPayload ELSE p.length

OneCell(body, p) ==
  \E i \in DOMAIN BodyOf(p), bit \in 0 .. 1 : body = [BodyOf(p) EXCEPT ![i] = Byte(bit)]

Arrives(p, g) ==
  /\ g.head \in Header /\ g.body \in Seq(Cell) /\ g.size \in Nat
  /\ g.size >= 10 =>
       /\ Covered(g.head) = g.crc1 => SameHead(g.head, p)
       /\ HasPayload(p.type) => g.size <= HeadOf(p).length + 16
       /\ g.head.tr = 0 => g.body = BodyOf(p) \/ OneCell(g.body, p)

(* A damaged, cut or emptied datagram arrives as Arrives says.             *)
LEMMA DamagedArrives ==
  ASSUME NEW p, Made(p), NEW g,
         g \in Damaged(pkt_encode(p)) \cup Cut(pkt_encode(p)) \cup Runt(pkt_encode(p))
  PROVE  Arrives(p, g)
<1> PICK d : d = pkt_encode(p)
  OBVIOUS
<1> PICK h : h = HeadOf(p)
  OBVIOUS
<1>1. /\ d = [head |-> h, crc1 |-> Covered(h), size |-> Written(p), body |-> BodyOf(p)]
      /\ h \in Header
  BY EncodedIs
<1>2. Written(p) \in Nat /\ (HasPayload(p.type) => Written(p) <= h.length + 16)
  BY EncodedSize
<1>3. BodyOf(p) \in Seq(Cell)
  BY EncodedBody
<1>4. MaxPayload \in Nat
  BY CodecAssumption
<1>5. SameHead(h, p)
  BY DEF SameHead, HeadOf
<1>6. ASSUME NEW k \in Header, g.head = k, g.size = Written(p), g.body = BodyOf(p),
             Covered(k) = g.crc1 => SameHead(k, p)
      PROVE  Arrives(p, g)
  BY <1>2, <1>3, <1>6 DEF Arrives
<1>7. CASE g = d
  BY <1>1, <1>5, <1>6, <1>7
<1>8. ASSUME NEW t \in Type, g = [d EXCEPT !.head.type = t] PROVE Arrives(p, g)
  <2>1. PICK k : k = [h EXCEPT !.type = t]
    OBVIOUS
  <2>2. /\ g.head = k /\ g.size = Written(p) /\ g.body = BodyOf(p)
        /\ g.crc1 = Covered(h)
    BY <1>1, <1>8, <2>1
  <2>3. /\ k \in Header /\ k.type = t /\ k.window = h.window /\ k.length = h.length
        /\ k.seqnum = h.seqnum
    BY <1>1, <2>1 DEF Header
  <2>4. Covered(k) = Covered(h) => SameHead(k, p)
    BY <1>5, <2>3 DEF Covered, SameHead
  <2> QED
    BY <1>6, <2>2, <2>3, <2>4
<1>9. CASE g = [d EXCEPT !.head.tr = 1 - @]
  <2>1. PICK k : k = [h EXCEPT !.tr = 1 - @]
    OBVIOUS
  <2>2. /\ g.head = k /\ g.size = Written(p) /\ g.body = BodyOf(p)
        /\ g.crc1 = Covered(h)
    BY <1>1, <1>9, <2>1
  <2>3. /\ k \in Header /\ k.type = h.type /\ k.window = h.window /\ k.length = h.length
        /\ k.seqnum = h.seqnum
    BY <1>1, <2>1 DEF Header
  <2>4. Covered(k) = Covered(h) => SameHead(k, p)
    BY <1>5, <2>3 DEF SameHead
  <2> QED
    BY <1>6, <2>2, <2>3, <2>4
<1>10. CASE g = [d EXCEPT !.head.window = 0]
  <2>1. PICK k : k = [h EXCEPT !.window = 0]
    OBVIOUS
  <2>2. /\ g.head = k /\ g.size = Written(p) /\ g.body = BodyOf(p)
        /\ g.crc1 = Covered(h)
    BY <1>1, <1>10, <2>1
  <2>3. /\ k \in Header /\ k.type = h.type /\ k.length = h.length /\ k.seqnum = h.seqnum
    BY <1>1, <2>1 DEF Header
  <2>4. Covered(k) = Covered(h) => SameHead(k, p)
    BY <1>5, <2>3 DEF Covered, SameHead
  <2> QED
    BY <1>6, <2>2, <2>3, <2>4
<1>11. ASSUME NEW n \in 0 .. MaxPayload + 1, g = [d EXCEPT !.head.length = n]
       PROVE  Arrives(p, g)
  <2>1. PICK k : k = [h EXCEPT !.length = n]
    OBVIOUS
  <2>2. /\ g.head = k /\ g.size = Written(p) /\ g.body = BodyOf(p)
        /\ g.crc1 = Covered(h)
    BY <1>1, <1>11, <2>1
  <2>3. n \in Nat
    BY <1>4
  <2>4. /\ k \in Header /\ k.type = h.type /\ k.window = h.window /\ k.seqnum = h.seqnum
    BY <1>1, <2>1, <2>3 DEF Header
  <2>5. Covered(k) = Covered(h) => SameHead(k, p)
    BY <1>5, <2>4 DEF Covered, SameHead
  <2> QED
    BY <1>6, <2>2, <2>4, <2>5
<1>12. CASE g = [d EXCEPT !.head.seqnum = @ + 1]
  <2>1. PICK k : k = [h EXCEPT !.seqnum = @ + 1]
    OBVIOUS
  <2>2. /\ g.head = k /\ g.size = Written(p) /\ g.body = BodyOf(p)
        /\ g.crc1 = Covered(h)
    BY <1>1, <1>12, <2>1
  <2>3. /\ k \in Header /\ k.type = h.type /\ k.window = h.window /\ k.length = h.length
    BY <1>1, <2>1 DEF Header
  <2>4. Covered(k) = Covered(h) => SameHead(k, p)
    BY <1>5, <2>3 DEF Covered, SameHead
  <2> QED
    BY <1>6, <2>2, <2>3, <2>4
<1>13. CASE g = [d EXCEPT !.crc1 = <<>>]
  <2>1. g.head = h /\ g.size = Written(p) /\ g.body = BodyOf(p)
    BY <1>1, <1>13
  <2> QED
    BY <1>1, <1>5, <1>6, <2>1
<1>14. ASSUME NEW i \in DOMAIN d.body, NEW bit \in 0 .. 1, g = [d EXCEPT !.body[i] = Byte(bit)]
       PROVE  Arrives(p, g)
  <2>1. /\ g.head = h /\ g.size = Written(p) /\ g.crc1 = Covered(h)
        /\ g.body = [BodyOf(p) EXCEPT ![i] = Byte(bit)] /\ i \in DOMAIN BodyOf(p)
    BY <1>1, <1>14
  <2>2. OneCell(g.body, p)
    BY <2>1 DEF OneCell
  <2>3. Byte(bit) \in Cell
    BY DEF Byte, Cell
  <2>4. g.body \in Seq(Cell)
    <3>1. BodyOf(p) \in [1 .. Len(BodyOf(p)) -> Cell] /\ Len(BodyOf(p)) \in Nat
      BY <1>3, LenProperties
    <3>2. g.body \in [1 .. Len(BodyOf(p)) -> Cell]
      BY <2>1, <2>3, <3>1
    <3> QED
      BY <3>1, <3>2, SeqDef
  <2> QED
    BY <1>1, <1>2, <1>5, <2>1, <2>2, <2>4 DEF Arrives
<1>15. CASE g \in Cut(d)
  <2>1. /\ d.head.type = "DATA" /\ d.size > 12
        /\ g = [d EXCEPT !.head.tr = 1, !.size = 12, !.body = <<>>]
    BY <1>15 DEF Cut
  <2>2. PICK k : k = [h EXCEPT !.tr = 1]
    OBVIOUS
  <2>3. /\ g.head = k /\ g.size = 12 /\ g.body = <<>> /\ g.crc1 = Covered(h)
        /\ Written(p) > 12
    BY <1>1, <2>1, <2>2
  <2>4. /\ k \in Header /\ k.type = h.type /\ k.window = h.window /\ k.length = h.length
        /\ k.seqnum = h.seqnum /\ k.tr = 1
    BY <1>1, <2>2 DEF Header
  <2>5. SameHead(k, p)
    BY <1>5, <2>4 DEF SameHead
  <2>6. HasPayload(p.type) => 12 <= h.length + 16
    BY <1>2, <2>3, <1>1 DEF Header
  <2> QED
    BY <2>3, <2>4, <2>5, <2>6, EmptySeq DEF Arrives
<1>16. CASE g \in Runt(d)
  <2>1. PICK n \in Cuts : g = [d EXCEPT !.size = n, !.body = <<>>]
    BY <1>16 DEF Runt
  <2>2. n \in 0 .. 9
    BY CodecAssumption
  <2>3. g.head = h /\ g.size = n /\ g.body = <<>>
    BY <1>1, <2>1
  <2>4. g.size \in Nat /\ ~(g.size >= 10)
    BY <2>2, <2>3
  <2> QED
    BY <1>1, <2>3, <2>4, EmptySeq DEF Arrives
<1>17. CASE g \in Damaged(d)
  BY <1>7, <1>8, <1>9, <1>10, <1>11, <1>12, <1>13, <1>14, <1>17 DEF Damaged
<1> QED
  BY <1>15, <1>16, <1>17

(* The buffer after a datagram was read in it.                             *)
LEMMA OverIs ==
  ASSUME IsBuffer(buf), NEW g, g.head \in Header, g.body \in Seq(Cell), g.size \in Nat
  PROVE  /\ IsBuffer(Over(g))
         /\ g.size >= 10 =>
              /\ Over(g).head = g.head /\ Over(g).crc1 = g.crc1
              /\ \A i \in 1 .. BodyLen : i <= Len(g.body) => Over(g).body[i] = g.body[i]
<1> PICK body : body = [i \in 1 .. BodyLen |-> IF i <= Len(g.body) THEN g.body[i] ELSE buf.body[i]]
  OBVIOUS
<1>1. body \in [1 .. BodyLen -> Cell]
  <2>1. ASSUME NEW i \in 1 .. BodyLen
        PROVE  (IF i <= Len(g.body) THEN g.body[i] ELSE buf.body[i]) \in Cell
    <3>1. MaxPayload \in Nat /\ Len(g.body) \in Nat
      BY CodecAssumption, LenProperties
    <3>2. CASE i <= Len(g.body)
      BY <3>1, <3>2, ElementOfSeq DEF BodyLen
    <3>3. CASE ~(i <= Len(g.body))
      BY <3>3 DEF IsBuffer
    <3> QED
      BY <3>2, <3>3
  <2> QED
    BY <2>1
<1>2. CASE g.size = 0
  BY <1>2 DEF Over
<1>3. CASE g.size # 0
  <2>1. Over(g) = [head |-> g.head, crc1 |-> IF g.size < 10 THEN <<>> ELSE g.crc1, body |-> body]
    BY <1>3 DEF Over
  <2>2. IsBuffer(Over(g))
    BY <1>1, <2>1 DEF IsBuffer
  <2>3. ASSUME g.size >= 10
        PROVE  Over(g).head = g.head /\ Over(g).crc1 = g.crc1
    BY <2>1, <2>3
  <2>4. \A i \in 1 .. BodyLen : i <= Len(g.body) => Over(g).body[i] = g.body[i]
    BY <2>1
  <2> QED
    BY <2>1, <2>2, <2>3, <2>4
<1> QED
  BY <1>2, <1>3

(* A payload whose checksum matches is the one that was sent, and a        *)
(* payload that was sent and arrives matches.                              *)
LEMMA MatchesSent ==
  ASSUME NEW p, Made(p), NEW b, IsBuffer(b), SameHead(b.head, p), ~Bare(b.head),
         NEW body \in Seq(Cell), body = BodyOf(p) \/ OneCell(body, p),
         \A i \in 1 .. BodyLen : i <= Len(body) => b.body[i] = body[i]
  PROVE  /\ Matches(b) <=> body = BodyOf(p)
         /\ Matches(b) => Payload1(b) = p.payload
<1> PICK payload, L : payload = p.payload /\ L = Len(p.payload)
  OBVIOUS
<1>1. /\ HasPayload(p.type) /\ MaxPayload \in Nat /\ L \in 1 .. MaxPayload
      /\ b.head.type = p.type /\ Crc2At(b.head) = L + 1
  <2>1. HasPayload(p.type) /\ b.head.type = p.type /\ p.length \in 0 .. MaxPayload
        /\ MaxPayload \in Nat \ {0}
    BY CodecAssumption DEF SameHead, Bare, Made, MadePkt
  <2>2. CASE p.type = "FEC"
    BY <2>1, <2>2 DEF Made, Crc2At, BodyLen
  <2>3. CASE p.type = "DATA"
    BY <2>1, <2>3 DEF Made, Crc2At, SameHead, Bare
  <2> QED
    BY <2>1, <2>2, <2>3 DEF HasPayload
<1>2. /\ BodyOf(p) \in Seq(Cell) /\ payload \in Seq(Int) /\ Len(BodyOf(p)) = L + 1
      /\ \A i \in 1 .. L : BodyOf(p)[i] = Byte(payload[i])
      /\ BodyOf(p)[L + 1] = Crc(payload)
  BY <1>1, EncodedBody
<1>3. Len(body) = L + 1 /\ DOMAIN BodyOf(p) = 1 .. L + 1
  <2>1. DOMAIN BodyOf(p) = 1 .. L + 1
    BY <1>2, LenProperties
  <2>2. DOMAIN body = 1 .. L + 1
    BY <2>1 DEF OneCell
  <2> QED
    BY <1>1, <2>1, <2>2, LenProperties
<1>4. \A i \in 1 .. L + 1 : b.body[i] = body[i]
  BY <1>1, <1>3 DEF BodyLen
<1>5. /\ Payload1(b) = [i \in 1 .. L |-> b.body[i][1]]
      /\ Payload1(b) \in Seq(Int)
      /\ Matches(b) <=> body[L + 1] = Crc(Payload1(b))
  <2>1. Payload1(b) = [i \in 1 .. L |-> b.body[i][1]]
    BY <1>1 DEF Payload1
  <2>2. b.head.length <= MaxPayload
    BY <1>1 DEF SameHead, Made, MadePkt
  <2>3. Payload1(b) \in Seq(Int)
    BY <2>2, PayloadInIs
  <2>4. L + 1 \in 1 .. BodyLen /\ L + 1 \in 1 .. L + 1
    BY <1>1 DEF BodyLen
  <2>5. Matches(b) <=> body[L + 1] = Crc(Payload1(b))
    BY <1>1, <1>4, <2>4 DEF Matches
  <2> QED
    BY <2>1, <2>3, <2>5
<1>6. ASSUME body = BodyOf(p) PROVE Matches(b) /\ Payload1(b) = payload
  <2>1. ASSUME NEW i \in 1 .. L PROVE Payload1(b)[i] = payload[i]
    <3>1. i \in 1 .. L + 1
      BY <1>1
    <3>2. b.body[i] = Byte(payload[i])
      BY <1>2, <1>4, <1>6, <3>1
    <3> QED
      BY <1>5, <3>2 DEF Byte
  <2>2. Payload1(b) = payload
    <3> PICK read \in Seq(Int) : read = Payload1(b)
      BY <1>5
    <3>1. Len(read) = L
      BY <1>1, <1>5, LenProperties
    <3>2. \A i \in 1 .. Len(read) : read[i] = payload[i]
      BY <2>1, <3>1
    <3>3. Len(payload) = L /\ payload \in Seq(Int)
      BY <1>2
    <3> HIDE DEF Payload1
    <3> QED
      BY <3>1, <3>2, <3>3, SeqEqual
  <2> QED
    BY <1>2, <1>5, <1>6, <2>2
<1>7. ASSUME Matches(b), OneCell(body, p) PROVE body = BodyOf(p)
  <2>1. PICK i \in 1 .. L + 1, bit \in 0 .. 1 : body = [BodyOf(p) EXCEPT ![i] = Byte(bit)]
    BY <1>3, <1>7 DEF OneCell
  <2>2. /\ body[i] = Byte(bit)
        /\ \A j \in 1 .. L + 1 : j # i => body[j] = BodyOf(p)[j]
    BY <1>3, <2>1
  <2>3. CASE i = L + 1
    <3>1. Crc(Payload1(b)) = <<bit>>
      BY <1>5, <1>7, <2>2, <2>3 DEF Byte
    <3>2. Len(<<bit>>) = 1 /\ Len(Payload1(b)) = L
      BY <1>1, <1>5, LenProperties
    <3>3. <<2>> \in Seq(Int) /\ Len(<<2>>) = 1
      OBVIOUS
    <3>4. Len(Crc(Payload1(b))) = Len(<<2>>) + Len(Payload1(b))
      BY <1>5, <3>3, ConcatProperties DEF Crc
    <3> QED
      BY <1>1, <3>1, <3>2, <3>3, <3>4
  <2>4. CASE i # L + 1
    <3>1. i \in 1 .. L /\ L + 1 \in 1 .. L + 1
      BY <1>1, <2>4
    <3>2. body[L + 1] = Crc(payload)
      BY <1>2, <2>2, <2>4, <3>1
    <3>3. Payload1(b) = payload
      BY <1>2, <1>5, <1>7, <3>2, CrcTells
    <3>4. payload[i] = bit
      BY <1>4, <1>5, <2>2, <3>1, <3>3 DEF Byte
    <3>5. body[i] = BodyOf(p)[i]
      BY <1>2, <2>2, <3>1, <3>4
    <3> QED
      BY <1>2, <1>3, <2>2, <3>5, SeqEqual
  <2> QED
    BY <2>3, <2>4
<1> QED
  BY <1>6, <1>7

(* What is made of a datagram with a whole header: what is taken is what   *)
(* was sent, and a datagram is taken exactly when its header is right and  *)
(* it has no payload, or one that is whole.                                *)
LEMMA Received ==
  ASSUME IsBuffer(buf), NEW p, Made(p), NEW g, Arrives(p, g), g.size >= 10,
         NEW b, b = Over(g)
  PROVE  /\ IsBuffer(b) /\ b.head = g.head /\ b.crc1 = g.crc1
         /\ Accepted(b, g.size) <=>
              /\ Covered(g.head) = g.crc1
              /\ g.head.tr = 1 => p.type = "DATA"
              /\ Bare(HeadOf(p)) \/ (g.head.tr = 0 /\ g.body = BodyOf(p))
         /\ Accepted(b, g.size) => PayloadIn(b) = p.payload
<1> PICK h : h = g.head
  OBVIOUS
<1>1. g.head \in Header /\ g.body \in Seq(Cell) /\ g.size \in Nat
  BY DEF Arrives
<1>2. /\ IsBuffer(b) /\ b.head = h /\ b.crc1 = g.crc1
      /\ \A i \in 1 .. BodyLen : i <= Len(g.body) => b.body[i] = g.body[i]
  BY <1>1, OverIs
<1>3. CASE Covered(h) # g.crc1
  BY <1>2, <1>3 DEF Accepted
<1>4. CASE Covered(h) = g.crc1
  <2>1. /\ SameHead(h, p)
        /\ HasPayload(p.type) => g.size <= HeadOf(p).length + 16
        /\ h.tr = 0 => g.body = BodyOf(p) \/ OneCell(g.body, p)
    BY <1>4 DEF Arrives
  <2>2. /\ h.type = p.type /\ h.length = HeadOf(p).length /\ h.tr \in 0 .. 1
        /\ h.length \in Nat /\ (Bare(HeadOf(p)) <=> Bare(h))
    BY <1>1, <2>1 DEF SameHead, HeadOf, Bare, Header
  <2>3. p.length \in 0 .. MaxPayload /\ MaxPayload \in Nat /\ Slack \in Nat /\ Slack >= 16
    BY CodecAssumption DEF Made, MadePkt
  <2>4. HasPayload(h.type) =>
          h.length <= MaxPayload /\ ~(h.length + Slack < g.size) /\ ~TooLong(g.size)
    <3>1. HasPayload(h.type) => h.length <= MaxPayload
      BY <2>1, <2>3 DEF SameHead
    <3> QED
      BY <1>1, <2>1, <2>2, <2>3, <3>1 DEF TooLong
  <2>5. Accepted(b, g.size) <=>
          /\ h.tr = 1 => p.type = "DATA"
          /\ Bare(h) \/ (~NoCrc2(h) /\ Matches(b))
    <3>1. g.size \notin 0 .. 9
      BY <1>1
    <3>2. Bare(h) \/ HasPayload(h.type)
      BY DEF Bare
    <3> QED
      BY <1>2, <1>4, <2>2, <2>4, <3>1, <3>2 DEF Accepted
  <2>6. CASE Bare(h)
    <3>1. PayloadIn(b) = <<>>
      BY <1>2, <2>6, PayloadInIs
    <3>2. p.payload = <<>>
      <4>1. ~HasPayload(p.type) \/ (p.type = "DATA" /\ p.length = 0)
        BY <2>1, <2>2, <2>6 DEF Bare, SameHead
      <4>2. p.payload \in Seq(Int)
        BY EncodedBody
      <4> QED
        BY <4>1, <4>2, EmptySeq DEF Made
    <3> QED
      BY <1>2, <1>4, <2>2, <2>5, <2>6, <3>1, <3>2
  <2>7. CASE ~Bare(h)
    <3>1. HasPayload(h.type) /\ h.length # 0
      BY <2>1, <2>3, <2>7, CodecAssumption DEF Bare, SameHead, HasPayload
    <3>2. NoCrc2(h) <=> h.tr # 0
      BY <2>2, <3>1 DEF NoCrc2
    <3>3. PayloadIn(b) = Payload1(b)
      BY <1>2, <2>4, <2>7, PayloadInIs
    <3>4. h.tr = 0 => /\ Matches(b) <=> g.body = BodyOf(p)
                      /\ Matches(b) => Payload1(b) = p.payload
      BY <1>1, <1>2, <2>1, <2>7, MatchesSent
    <3>5. h.tr = 0 \/ h.tr = 1
      BY <2>2
    <3> QED
      BY <1>2, <1>4, <2>2, <2>5, <2>7, <3>2, <3>3, <3>4, <3>5
  <2> QED
    BY <2>6, <2>7
<1> QED
  BY <1>3, <1>4

(* What a receiver learns of a packet, field by field.                     *)
LEMMA ToldIs ==
  ASSUME NEW t, NEW tr, NEW w, NEW length, NEW n, NEW payload
  PROVE  Told([type |-> t, tr |-> tr, window |-> w, length |-> length, seqnum |-> n,
               payload |-> payload]) =
           [type |-> t, tr |-> 0, window |-> w, length |-> IF t = "FEC" THEN 0 ELSE length,
            seqnum |-> n, payload |-> payload]
<1>1. PICK p : p = [type |-> t, tr |-> tr, window |-> w, length |-> length, seqnum |-> n,
                    payload |-> payload]
  OBVIOUS
<1>2. PICK q : q = Told(p)
  OBVIOUS
<1>3. q = [p EXCEPT !.tr = 0, !.length = IF t = "FEC" THEN 0 ELSE @]
  BY <1>1, <1>2 DEF Told
<1>4. q = [type |-> t, tr |-> 0, window |-> w, length |-> IF t = "FEC" THEN 0 ELSE length,
           seqnum |-> n, payload |-> payload]
  BY <1>1, <1>3
<1> QED
  BY <1>1, <1>2, <1>4

(* A made packet is the record of its fields.                              *)
LEMMA MadeIs ==
  ASSUME NEW p, Made(p)
  PROVE  p = [type |-> p.type, tr |-> 0, window |-> p.window, length |-> p.length,
              seqnum |-> p.seqnum, payload |-> p.payload]
BY DEF Made, MadePkt

(* All that a decoded datagram g of the packet p can be, r.                *)
IsPkt(p) ==
  p.type \in Type /\ p.length \in 0 .. MaxPayload /\ p.payload \in Seq(Int)

Outcome(p, g, r) ==
  /\ r.code \in Codes /\ IsPkt(r.pkt)
  /\ g.size < 10 => r.code # "PKT_OK"
  /\ g.size >= 10 =>
       /\ r.code = "PKT_OK" <=>
            /\ Covered(g.head) = g.crc1
            /\ g.head.tr = 1 => p.type = "DATA"
            /\ Bare(HeadOf(p)) \/ (g.head.tr = 0 /\ g.body = BodyOf(p))
       /\ r.code = "PKT_OK" => Told(r.pkt) = Told(p)
       /\ r.pkt.tr = g.head.tr /\ r.pkt.seqnum = g.head.seqnum

(* The packet that is decoded has the fields of a packet.                  *)
LEMMA DecodedIsPkt ==
  ASSUME NEW b, IsBuffer(b), NEW size \in Int
  PROVE  IsPkt(pkt_decode(b, size).pkt)
<1>1. CASE size \in 0 .. 9
  <2>1. pkt_decode(b, size).pkt = NewPkt
    BY <1>1 DEF pkt_decode
  <2>2. MaxPayload \in Nat
    BY CodecAssumption
  <2> QED
    BY <2>1, <2>2 DEF NewPkt, IsPkt, Type
<1>2. CASE size \notin 0 .. 9
  <2>1. PICK q : q = pkt_decode(b, size).pkt
    OBVIOUS
  <2>2. q = [type |-> b.head.type, tr |-> b.head.tr, window |-> b.head.window,
             length |-> LengthIn(b.head), seqnum |-> b.head.seqnum, payload |-> PayloadIn(b)]
    BY <1>2, <2>1, DecodedPkt
  <2>3. q.type = b.head.type /\ q.length = LengthIn(b.head) /\ q.payload = PayloadIn(b)
    BY <2>2
  <2>4. b.head.type \in Type
    BY DEF IsBuffer, Header
  <2> QED
    BY <2>1, <2>3, <2>4, PayloadInIs DEF IsPkt
<1> QED
  BY <1>1, <1>2

(* A datagram that arrives over whatever the buffer held is decoded to an  *)
(* outcome of the packet that was sent.                                    *)
LEMMA ReceivedOutcome ==
  ASSUME IsBuffer(buf), NEW p, Made(p), NEW g, Arrives(p, g),
         NEW r, r = pkt_decode(Over(g), g.size)
  PROVE  IsBuffer(Over(g)) /\ Outcome(p, g, r)
<1> PICK b : b = Over(g)
  OBVIOUS
<1>1. g.head \in Header /\ g.body \in Seq(Cell) /\ g.size \in Nat
  BY DEF Arrives
<1>2. IsBuffer(b)
  BY <1>1, OverIs
<1>3. r.code \in Codes /\ (r.code = "PKT_OK" <=> Accepted(b, g.size)) /\ IsPkt(r.pkt)
  BY <1>1, <1>2, Decodes, DecodedIsPkt
<1>4. CASE g.size < 10
  <2>1. g.size \in 0 .. 9 /\ ~(g.size >= 10)
    BY <1>1, <1>4
  <2> QED
    BY <1>2, <1>3, <2>1 DEF Outcome, Accepted
<1>5. CASE g.size >= 10
  <2>1. ~(g.size < 10) /\ g.size \notin 0 .. 9
    BY <1>1, <1>5
  <2>2. /\ b.head = g.head /\ b.crc1 = g.crc1
        /\ Accepted(b, g.size) <=>
              /\ Covered(g.head) = g.crc1
              /\ g.head.tr = 1 => p.type = "DATA"
              /\ Bare(HeadOf(p)) \/ (g.head.tr = 0 /\ g.body = BodyOf(p))
        /\ Accepted(b, g.size) => PayloadIn(b) = p.payload
    BY <1>5, Received
  <2>3. r.pkt = [type |-> b.head.type, tr |-> b.head.tr, window |-> b.head.window,
                 length |-> LengthIn(b.head), seqnum |-> b.head.seqnum, payload |-> PayloadIn(b)]
    BY <1>1, <1>2, <2>1, DecodedPkt
  <2>4. r.pkt.tr = g.head.tr /\ r.pkt.seqnum = g.head.seqnum
    BY <2>2, <2>3
  <2>5. ASSUME Accepted(b, g.size) PROVE Told(r.pkt) = Told(p)
    <3>1. SameHead(g.head, p)
      BY <1>5, <2>2, <2>5 DEF Arrives
    <3>2. g.head.type # "FEC" => LengthIn(g.head) = p.length
      <4>1. p.length \in 0 .. MaxPayload /\ p.type \in Type /\ MaxPayload \in Nat
        BY CodecAssumption DEF Made, MadePkt
      <4> QED
        BY <3>1, <4>1 DEF SameHead, LengthIn, Fits, Made, HasPayload, Type
    <3>3. Told(r.pkt) =
            [type |-> b.head.type, tr |-> 0, window |-> b.head.window,
             length |-> IF b.head.type = "FEC" THEN 0 ELSE LengthIn(b.head),
             seqnum |-> b.head.seqnum, payload |-> PayloadIn(b)]
      BY <2>3, ToldIs
    <3>4. Told(p) = [type |-> p.type, tr |-> 0, window |-> p.window,
                     length |-> IF p.type = "FEC" THEN 0 ELSE p.length,
                     seqnum |-> p.seqnum, payload |-> p.payload]
      <4>1. PICK q : q = [type |-> p.type, tr |-> 0, window |-> p.window, length |-> p.length,
                          seqnum |-> p.seqnum, payload |-> p.payload]
        OBVIOUS
      <4>2. p = q
        BY <4>1, MadeIs
      <4>3. Told(q) = [type |-> p.type, tr |-> 0, window |-> p.window,
                       length |-> IF p.type = "FEC" THEN 0 ELSE p.length,
                       seqnum |-> p.seqnum, payload |-> p.payload]
        BY <4>1, ToldIs
      <4> QED
        BY <4>2, <4>3
    <3> QED
      BY <2>2, <2>5, <3>1, <3>2, <3>3, <3>4 DEF SameHead
  <2> QED
    BY <1>2, <1>3, <2>1, <2>2, <2>4, <2>5 DEF Outcome
<1> QED
  BY <1>1, <1>2, <1>4, <1>5

(* A read that fails leaves pkt_decode a length no packet has.             *)
LEMMA StaleOutcome ==
  ASSUME IsBuffer(buf), NEW r, r = pkt_decode(buf, -1)
  PROVE  /\ r.code \in Codes /\ IsPkt(r.pkt)
         /\ r.code = "PKT_OK" =>
              r.pkt.payload = <<>> /\ r.pkt.type # "FEC" /\ Covered(buf.head) = buf.crc1
<1>1. -1 \in Int /\ -1 \notin 0 .. 9 /\ TooLong(-1)
  BY DEF TooLong
<1>2. r.code \in Codes /\ (r.code = "PKT_OK" <=> Accepted(buf, -1)) /\ IsPkt(r.pkt)
  BY <1>1, Decodes, DecodedIsPkt
<1>3. r.pkt.payload = PayloadIn(buf) /\ r.pkt.type = buf.head.type
  <2>1. PICK q : q = r.pkt
    OBVIOUS
  <2>2. q = [type |-> buf.head.type, tr |-> buf.head.tr, window |-> buf.head.window,
             length |-> LengthIn(buf.head), seqnum |-> buf.head.seqnum,
             payload |-> PayloadIn(buf)]
    BY <1>1, <2>1, DecodedPkt
  <2>3. q.payload = PayloadIn(buf) /\ q.type = buf.head.type
    BY <2>2
  <2> QED
    BY <2>1, <2>3
<1>4. ASSUME Accepted(buf, -1)
      PROVE  Covered(buf.head) = buf.crc1 /\ Bare(buf.head)
  BY <1>1, <1>4 DEF Accepted
<1>5. Bare(buf.head) => PayloadIn(buf) = <<>> /\ buf.head.type # "FEC"
  BY PayloadInIs DEF Bare, HasPayload
<1> QED
  BY <1>2, <1>3, <1>4, <1>5

-----------------------------------------------------------------------------
(* The invariant: the buffer can be decoded, whatever is left in it; what  *)
(* is sent is a packet the programs build; and what is said of a datagram  *)
(* at the two moments one is decoded.                                      *)
Kinds ==
  /\ role \in {"sender", "receiver"}
  /\ op \in {"start", "sent", "parity", "received", "failed"}
  /\ group \in Seq(DataPkts)

CodecInv ==
  /\ Kinds
  /\ IsBuffer(buf)
  /\ IsPkt(sent) /\ IsPkt(got.pkt)
  /\ got.code \in Codes \cup {"none"}
  /\ op \in {"sent", "parity"} => Made(sent)
  /\ op = "received" => Made(sent) /\ Arrives(sent, gram) /\ Outcome(sent, gram, got)
  /\ StaleReadIsEmpty

(* The packets each program sends are packets it builds.                   *)
LEMMA OfMade ==
  ASSUME NEW program, NEW p \in Of(program) \cup Parities
  PROVE  Made(p)
<1>1. CASE p \in Of(program)
  BY <1>1, DataPktMade, EmptyPktMade, ResponseMade DEF Of
<1>2. CASE p \in Parities
  <2>1. PICK n \in Numbers, data \in [1 .. MaxPayload -> 0 .. 1] : p = ParityPkt(n, data)
    BY <1>2 DEF Parities
  <2>2. n \in 0 .. 255
    BY CodecAssumption
  <2> QED
    BY <2>1, <2>2, ParityMade
<1> QED
  BY <1>1, <1>2

(* A packet that was made has the fields of a packet.                      *)
LEMMA MadeIsPkt ==
  ASSUME NEW p, Made(p)
  PROVE  IsPkt(p)
<1>1. p.type \in Type /\ p.length \in 0 .. MaxPayload
  BY DEF Made, MadePkt
<1> QED
  BY <1>1, EncodedBody DEF IsPkt

(* Nothing received yet is a new packet.                                   *)
LEMMA NothingIsPkt == IsPkt(NewPkt) /\ Nothing.pkt = NewPkt /\ Nothing.code = "none"
<1>1. MaxPayload \in Nat /\ <<>> \in Seq(Int)
  BY CodecAssumption
<1>2. NewPkt.type = "FEC" /\ NewPkt.length = 0 /\ NewPkt.payload = <<>>
  BY DEF NewPkt
<1> QED
  BY <1>1, <1>2 DEF IsPkt, Nothing, Type

(* The invariant holds before anything is sent.                            *)
LEMMA CodecInit == Init => CodecInv
<1> SUFFICES ASSUME Init PROVE CodecInv
  OBVIOUS
<1>1. IsBuffer(buf)
  <2>1. \A i \in 1 .. BodyLen : Byte(0) \in Cell
    BY DEF Byte, Cell
  <2>2. buf.body = [i \in 1 .. BodyLen |-> Byte(0)]
    BY DEF Init
  <2>3. buf.head = [type |-> "FEC", tr |-> 0, window |-> 0, length |-> 0, seqnum |-> 0]
    BY DEF Init
  <2> QED
    BY <2>1, <2>2, <2>3 DEF IsBuffer, Header, Type
<1>2. sent = NewPkt /\ got = Nothing /\ op = "start"
  BY DEF Init
<1>3. Kinds
  <2>1. group = <<>> /\ role \in {"sender", "receiver"}
    BY DEF Init
  <2> QED
    BY <1>2, <2>1, EmptySeq DEF Kinds
<1> QED
  BY <1>1, <1>2, <1>3, NothingIsPkt DEF CodecInv, StaleReadIsEmpty

(* A packet that fits is written over the start of the buffer.             *)
LEMMA WriteStep ==
  ASSUME CodecInv, NEW p, Made(p), Write(p), Kinds', op' \in {"sent", "parity"}
  PROVE  CodecInv'
<1>1. sent' = p /\ got' = Nothing
  BY DEF Write
<1>2. IsPkt(p) /\ IsPkt(got'.pkt) /\ got'.code = "none"
  BY <1>1, MadeIsPkt, NothingIsPkt
<1>3. IsBuffer(buf)'
  <2>1. PICK g : g = pkt_encode(p)
    OBVIOUS
  <2>2. g.head \in Header /\ g.body \in Seq(Cell) /\ g.size \in Nat
    <3>1. g = [head |-> HeadOf(p), crc1 |-> Covered(HeadOf(p)), size |-> Written(p),
               body |-> BodyOf(p)] /\ HeadOf(p) \in Header
      BY <2>1, EncodedIs
    <3>2. g.head = HeadOf(p) /\ g.size = Written(p) /\ g.body = BodyOf(p)
      BY <3>1
    <3> QED
      BY <3>1, <3>2, EncodedSize, EncodedBody
  <2>3. IsBuffer(Over(g))
    BY <2>2, OverIs DEF CodecInv
  <2>4. buf' = buf \/ buf' = Over(g)
    BY <2>1 DEF Write
  <2> QED
    BY <2>3, <2>4 DEF CodecInv, IsBuffer
<1> QED
  BY <1>1, <1>2, <1>3 DEF CodecInv, StaleReadIsEmpty

(* Sending a packet keeps the invariant.                                   *)
LEMMA SendStep ==
  ASSUME CodecInv, Send, UNCHANGED role
  PROVE  CodecInv'
<1>1. PICK p \in Of(role) : Write(p)
  BY DEF Send
<1>2. op' = "sent" /\ group' = <<>>
  BY DEF Send
<1>3. Kinds'
  BY <1>2, EmptySeq DEF CodecInv, Kinds
<1> QED
  BY <1>1, <1>2, <1>3, OfMade, WriteStep

(* Sending a parity packet keeps the invariant.                            *)
LEMMA SendParityStep ==
  ASSUME CodecInv, SendParity, UNCHANGED role
  PROVE  CodecInv'
<1>1. PICK first, second, third \in {p \in DataPkts : p.length = MaxPayload} :
        group' = <<first, second, third, sent>>
  BY DEF SendParity
<1>2. sent \in DataPkts /\ Write(fec_generation(group')) /\ op' = "parity"
  BY DEF SendParity
<1>3. Made(fec_generation(group'))
  BY <1>1, <1>2, GenerationMade
<1>4. Kinds'
  <2>1. <<first, second, third, sent>> \in Seq(DataPkts)
    BY <1>1, <1>2
  <2> QED
    BY <1>1, <1>2, <2>1 DEF CodecInv, Kinds
<1> QED
  BY <1>2, <1>3, <1>4, WriteStep

(* Receiving a datagram, whole or damaged, keeps the invariant.            *)
LEMMA ReceiveStep ==
  ASSUME CodecInv, Receive, UNCHANGED role
  PROVE  CodecInv'
<1>1. PICK p \in IF role = "receiver" THEN Of("sender") \cup Parities ELSE Of("receiver") :
        /\ sent' = p
        /\ gram' \in Damaged(pkt_encode(p)) \cup Cut(pkt_encode(p)) \cup Runt(pkt_encode(p))
  BY DEF Receive
<1>2. /\ buf' = Over(gram') /\ got' = pkt_decode(buf', gram'.size)
      /\ op' = "received" /\ group' = <<>>
  BY DEF Receive
<1>3. Made(p)
  BY <1>1, OfMade
<1>4. PICK g : g = gram'
  OBVIOUS
<1>5. Arrives(p, g)
  BY <1>1, <1>3, <1>4, DamagedArrives
<1>6. PICK r : r = pkt_decode(Over(g), g.size) /\ r = got'
  BY <1>2, <1>4
<1>7. IsBuffer(Over(g)) /\ Outcome(p, g, r)
  BY <1>3, <1>5, <1>6, ReceivedOutcome DEF CodecInv
<1>8. IsBuffer(buf)'
  BY <1>2, <1>4, <1>7
<1>9. Kinds'
  BY <1>2, EmptySeq DEF CodecInv, Kinds
<1>10. IsPkt(p) /\ IsPkt(r.pkt) /\ r.code \in Codes
  BY <1>3, <1>7, MadeIsPkt DEF Outcome
<1>11. StaleReadIsEmpty'
  BY <1>2 DEF StaleReadIsEmpty
<1>12. (Made(sent) /\ Arrives(sent, gram) /\ Outcome(sent, gram, got))'
  BY <1>1, <1>3, <1>4, <1>5, <1>6, <1>7
<1> QED
  BY <1>1, <1>2, <1>6, <1>8, <1>9, <1>10, <1>11, <1>12 DEF CodecInv

(* A failed read, decoded all the same, keeps the invariant                *)
(* (read_write_sender.c:544).                                              *)
LEMMA ReadFailsStep ==
  ASSUME CodecInv, ReadFails, UNCHANGED role
  PROVE  CodecInv'
<1>1. /\ got' = pkt_decode(buf, -1) /\ op' = "failed" /\ group' = <<>>
      /\ buf' = buf /\ sent' = sent
  BY DEF ReadFails
<1>2. Kinds'
  BY <1>1, EmptySeq DEF CodecInv, Kinds
<1>3. /\ got'.code \in Codes /\ IsPkt(got'.pkt)
      /\ got'.code = "PKT_OK" =>
           got'.pkt.payload = <<>> /\ got'.pkt.type # "FEC" /\ Covered(buf.head) = buf.crc1
  BY <1>1, StaleOutcome DEF CodecInv
<1>4. StaleReadIsEmpty'
  BY <1>1, <1>3 DEF StaleReadIsEmpty
<1> QED
  BY <1>1, <1>2, <1>3, <1>4 DEF CodecInv

(* Every step keeps the invariant.                                         *)
LEMMA CodecStep == CodecInv /\ [Next]_vars => CodecInv'
<1> SUFFICES ASSUME CodecInv, [Next]_vars PROVE CodecInv'
  OBVIOUS
<1>1. CASE UNCHANGED vars
  BY <1>1 DEF vars, CodecInv, Kinds, StaleReadIsEmpty
<1>2. CASE Next
  BY <1>2, SendStep, SendParityStep, ReceiveStep, ReadFailsStep DEF Next
<1> QED
  BY <1>1, <1>2

(* The invariant holds in every state.                                     *)
LEMMA CodecInvariance == Spec => []CodecInv
BY CodecInit, CodecStep, PTL DEF Spec

(* The types of what the two programs build, write, read and decode.       *)
THEOREM CodecTypeOK == Spec => []TypeOK
<1>1. CodecInv => TypeOK
  <2> SUFFICES ASSUME CodecInv PROVE TypeOK
    OBVIOUS
  <2>1. buf.body \in [1 .. BodyLen -> Seq(Int)]
    <3>1. buf.body \in [1 .. BodyLen -> Cell] /\ Cell \subseteq Seq(Int)
      BY DEF CodecInv, IsBuffer, Cell
    <3> QED
      BY <3>1
  <2> QED
    BY <2>1 DEF CodecInv, Kinds, IsPkt, TypeOK
<1> QED
  BY <1>1, CodecInvariance, PTL

(* An undamaged datagram is taken for the packet that was sent, whatever   *)
(* the buffer holds behind it.                                             *)
THEOREM CodecRoundTrip == Spec => []RoundTrip
<1>1. CodecInv => RoundTrip
  <2> SUFFICES ASSUME CodecInv, op = "received", gram = pkt_encode(sent)
               PROVE  got.code = "PKT_OK" /\ Told(got.pkt) = Told(sent) /\ got.pkt.tr = sent.tr
    BY DEF RoundTrip
  <2>1. Made(sent) /\ Outcome(sent, gram, got)
    BY DEF CodecInv
  <2>2. PICK g : g = gram
    OBVIOUS
  <2>3. g = [head |-> HeadOf(sent), crc1 |-> Covered(HeadOf(sent)), size |-> Written(sent),
             body |-> BodyOf(sent)]
    BY <2>1, <2>2, EncodedIs
  <2>4. /\ g.head = HeadOf(sent) /\ g.crc1 = Covered(g.head) /\ g.body = BodyOf(sent)
        /\ g.head.tr = 0 /\ g.size >= 10
    BY <2>1, <2>3, EncodedSize DEF HeadOf
  <2>5. sent.tr = 0
    BY <2>1 DEF Made, MadePkt
  <2> QED
    BY <2>1, <2>2, <2>4, <2>5 DEF Outcome
<1> QED
  BY <1>1, CodecInvariance, PTL

(* What pkt_decode takes is what was sent, but for the TR bit, although it *)
(* may read bytes of earlier datagrams.                                    *)
THEOREM CodecNoForgery == Spec => []NoForgery
<1>1. CodecInv => NoForgery
  <2> SUFFICES ASSUME CodecInv, op = "received", got.code = "PKT_OK"
               PROVE  Told(got.pkt) = Told(sent)
    BY DEF NoForgery
  <2>1. Arrives(sent, gram) /\ Outcome(sent, gram, got)
    BY DEF CodecInv
  <2>2. gram.size \in Nat
    BY <2>1 DEF Arrives
  <2> QED
    BY <2>1, <2>2 DEF Outcome
<1> QED
  BY <1>1, CodecInvariance, PTL

(* When a read fails only a packet without payload can be taken, and its   *)
(* header was in the buffer.                                               *)
THEOREM CodecStaleReadIsEmpty == Spec => []StaleReadIsEmpty
<1>1. CodecInv => StaleReadIsEmpty
  BY DEF CodecInv
<1> QED
  BY <1>1, CodecInvariance, PTL

(* No packet the programs build is longer than the buffer it is written    *)
(* in, the checksum of a final packet included.                            *)
THEOREM CodecFitsBuffer == Spec => []FitsBuffer
<1>1. CodecInv => FitsBuffer
  BY EncodedSize DEF CodecInv, FitsBuffer
<1> QED
  BY <1>1, CodecInvariance, PTL

(* pkt_decode of Packet, on what it sees of a datagram, says what the code *)
(* says of its bytes.                                                      *)
THEOREM CodecAgreesWithPacket == Spec => []AgreesWithPacket
<1>1. CodecInv => AgreesWithPacket
  <2> SUFFICES ASSUME CodecInv, op = "received", gram.size >= 10, sent.type # "FEC",
                      gram.head.type = sent.type
               PROVE  /\ sent.type = "DATA" \/ Message.tr = 0 =>
                           (got.code = "PKT_OK") = (Abs!pkt_decode(Message) = "PKT_OK")
                      /\ got.code = "E_CRC" /\ got.pkt.tr = 1 =>
                           Message.tr = 1 /\ got.pkt.seqnum = Message.seq
    BY DEF AgreesWithPacket
  <2>1. Made(sent) /\ Arrives(sent, gram) /\ Outcome(sent, gram, got)
    BY DEF CodecInv
  <2>2. /\ got.code = "PKT_OK" <=>
             /\ Covered(gram.head) = gram.crc1
             /\ gram.head.tr = 1 => sent.type = "DATA"
             /\ Bare(HeadOf(sent)) \/ (gram.head.tr = 0 /\ gram.body = BodyOf(sent))
        /\ got.pkt.tr = gram.head.tr /\ got.pkt.seqnum = gram.head.seqnum
    BY <2>1 DEF Outcome
  <2>3. pkt_encode(sent).body = BodyOf(sent)
    <3>1. PICK g : g = pkt_encode(sent)
      OBVIOUS
    <3>2. g = [head |-> HeadOf(sent), crc1 |-> Covered(HeadOf(sent)), size |-> Written(sent),
               body |-> BodyOf(sent)]
      BY <2>1, <3>1, EncodedIs
    <3>3. g.body = BodyOf(sent)
      BY <3>2
    <3> QED
      BY <3>1, <3>3
  <2>4. PICK m : m = Message
    OBVIOUS
  <2>5. /\ m.type = sent.type /\ m.seq = gram.head.seqnum /\ m.tr = gram.head.tr
        /\ m.pay = IF sent.length = 0 THEN 1 ELSE 0
        /\ m.ok1 <=> Covered(gram.head) = gram.crc1
        /\ m.ok2 <=> gram.body = BodyOf(sent)
    BY <2>3, <2>4 DEF Message, Abs!Empty
  <2>6. Abs!pkt_decode(m) = "PKT_OK" <=>
          m.ok1 /\ (sent.type = "DATA" /\ sent.length # 0 => m.tr = 0 /\ m.ok2)
    BY <2>5 DEF Abs!pkt_decode, Abs!HasPayload, Abs!Empty
  <2>7. Bare(HeadOf(sent)) <=> ~(sent.type = "DATA" /\ sent.length # 0)
    <3>1. sent.type \in Type
      BY <2>1 DEF Made, MadePkt
    <3> QED
      BY <3>1 DEF Bare, HeadOf, HasPayload, Type
  <2>8. gram.head.tr \in 0 .. 1
    BY <2>1 DEF Arrives, Header
  <2> QED
    BY <2>2, <2>4, <2>5, <2>6, <2>7, <2>8
<1> QED
  BY <1>1, CodecInvariance, PTL
=============================================================================
