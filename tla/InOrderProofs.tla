--------------------------- MODULE InOrderProofs ---------------------------
(***************************************************************************)
(* Proofs about a transfer over a network that keeps the order and the     *)
(* headers of the datagrams, and may lose or damage any of them: files of  *)
(* any length, so that the sequence numbers wrap.  Every number on the     *)
(* way then stands for one packet of the file, because the two windows     *)
(* stay close to each other (InOrderInv), and the transfer keeps its       *)
(* promise.                                                                *)
(***************************************************************************)
EXTENDS ReceiverProofs

(* Without these the properties are false (ClaimIntact), or it is not      *)
(* known: see README.  256 and 31 in the code.                             *)
InOrder ==
  /\ Depth = 1
  /\ Faults \cap {"cut", "header", "pread", "socket", "refused"} = {}
  /\ FileLen > 0
  /\ 2 * MaxWindow + 1 < SeqSpace

(* A packet whose number is that of its chunk; the final packet, whose     *)
(* payload is Empty, that is FileLen, comes after the chunks.              *)
InFile(p) == p.seq = p.pay % SeqSpace

(* Packets of the file, unwrapped: the first one the sender has not made,  *)
(* the first one of its list, and the one the receiver expects.            *)
Top == IF lastPkt THEN FileLen + 1
       ELSE IF sPc = "parity" THEN global_pkt + 1 ELSE global_pkt
First == Top - Len(sList)
Expected == IF rHead = Len(out) % SeqSpace THEN Len(out) ELSE Len(out) + 1

(* The list of the sender holds the packets from First to Top.             *)
SentInv ==
  /\ global_pkt \in 0 .. FileLen
  /\ sEof => global_pkt = FileLen
  /\ sPc = "parity" => global_pkt < FileLen
  /\ ~lastPkt /\ global_pkt > 0 => sTail = (global_pkt - 1) % SeqSpace
  /\ First >= 0
  /\ \A i \in DOMAIN sList : sList[i].pay = First + i - 1 /\ InFile(sList[i])
  /\ sPc = "acked" => lastPkt /\ sList = <<>>

(* No packet of a parity group was deleted.                                *)
GroupedInv ==
  /\ sPc # "ub"
  /\ \A i \in DOMAIN fec : fec[i] # 0
  /\ sPc = "parity" <=> Len(fec) = GroupSize

(* The receiver expects a packet the sender has, or the one it makes next. *)
ExpectedInv ==
  /\ First <= Expected /\ Expected <= Top
  /\ rHead = Expected % SeqSpace
  /\ sWindow <= rWindow

OutInv ==
  /\ rPc # "done" => Expected = Len(out)
  /\ Expected # Len(out) => Len(out) = FileLen
  /\ Integrity
  /\ rPc = "done" /\ "stdout" \notin Faults => Expected # Len(out)

(* Its list holds packets the sender has made, not yet expected.           *)
Awaited(p) == InFile(p) /\ Expected <= p.pay /\ p.pay < Top

StoredInv ==
  rPc # "done" => \A i \in DOMAIN rList : Awaited(rList[i]) /\ rList[i].pay # Expected

(* Data packets in flight are ones the sender has made, less than a window *)
(* behind what the receiver has, and has seen by the time they arrive.     *)
Made(m) ==
  /\ m.ok1 /\ m.tr = 0
  /\ m.type = "DATA" => InFile(m) /\ m.pay < Top

Near(m) ==
  /\ Expected <= m.pay + MaxWindow
  /\ \A i \in DOMAIN rList : rList[i].pay < m.pay + MaxWindow

MadeInv == \A i \in DOMAIN toReceiver : Made(toReceiver[i])

NearInv ==
  rPc # "done" =>
    \A i \in DOMAIN toReceiver : toReceiver[i].type = "DATA" => Near(toReceiver[i])

CloseInv ==
  \A i, j \in DOMAIN toReceiver :
    i < j /\ toReceiver[i].type = "DATA" /\ toReceiver[j].type = "DATA" =>
      toReceiver[i].pay < toReceiver[j].pay + MaxWindow

DataInv == MadeInv /\ NearInv /\ CloseInv

(* Responses in flight acknowledge packets of the sender's list the        *)
(* receiver has, each as many as the one before or more, and none shrinks  *)
(* the window.                                                             *)
Acks(m) == Dist(First % SeqSpace, m.seq)

AnswerInv ==
  \A i \in DOMAIN toSender :
    /\ toSender[i].type = "ACK"
    /\ sWindow <= toSender[i].win /\ toSender[i].win <= rWindow
    /\ Acks(toSender[i]) <= Expected - First

GrowingInv ==
  \A i, j \in DOMAIN toSender :
    i < j => /\ toSender[i].win <= toSender[j].win
             /\ Acks(toSender[i]) <= Acks(toSender[j])

SenderSide == SentInv /\ GroupedInv
ReceiverSide == ExpectedInv /\ OutInv /\ StoredInv /\ BufferInv
InFlight == DataInv /\ AnswerInv /\ GrowingInv

InOrderInv == SenderSide /\ ReceiverSide /\ InFlight

-----------------------------------------------------------------------------
(* The distance between the numbers of two packets of the file is the      *)
(* distance between the packets, when that is less than a turn.            *)
LEMMA DistOfPackets ==
  ASSUME NEW e \in Int, NEW u \in Int
  PROVE  /\ Dist(e % SeqSpace, u % SeqSpace) = (u - e) % SeqSpace
         /\ e % SeqSpace \in Seqnum /\ u % SeqSpace \in Seqnum
         /\ u - e \in 0 .. SeqSpace - 1 => Dist(e % SeqSpace, u % SeqSpace) = u - e
         /\ e - u \in 1 .. SeqSpace => Dist(e % SeqSpace, u % SeqSpace) = u - e + SeqSpace
<1>1. SeqSpace \in Nat \ {0}
  BY WindowAssumption
<1>2. Dist(e % SeqSpace, u % SeqSpace) = (u - e) % SeqSpace
  BY <1>1, ModDistance DEF Dist
<1>3. e % SeqSpace \in Seqnum /\ u % SeqSpace \in Seqnum
  BY ModType
<1>4. u - e \in 0 .. SeqSpace - 1 => (u - e) % SeqSpace = u - e
  BY <1>1, ModBelow
<1>5. e - u \in 1 .. SeqSpace => (u - e) % SeqSpace = u - e + SeqSpace
  <2> SUFFICES ASSUME e - u \in 1 .. SeqSpace
               PROVE  (u - e) % SeqSpace = u - e + SeqSpace
    OBVIOUS
  <2>1. u - e \in (-SeqSpace) .. (-1)
    BY <1>1
  <2> QED
    BY <1>1, <2>1, ModNegative
<1> QED
  BY <1>2, <1>3, <1>4, <1>5

(* The types the steps below need.                                         *)
LEMMA SenderFacts ==
  ASSUME InOrder, Inv
  PROVE  /\ sList \in Seq(Pkt) /\ Len(sList) \in Nat /\ DOMAIN sList = 1 .. Len(sList)
         /\ Len(sList) <= sWindow /\ sWindow \in WindowSize
         /\ ~sErr
         /\ fec \in Seq(0 .. Len(sList)) /\ Len(fec) <= GroupSize
         /\ sPc = "read" => sList # <<>>
         /\ sPc = "resend" => sList # <<>>
         /\ lastPkt /\ SenderRuns => sList # <<>>
         /\ lastPkt => sEof
<1>1. sList \in Seq(Pkt)
  BY SeqMonotonic DEF Inv, SenderInv, SenderListInv, Numbered
<1>2. WritesSucceed
  BY DEF InOrder, WritesSucceed
<1> QED
  BY <1>1, <1>2, LenProperties
  DEF Inv, SenderInv, SenderListInv, SenderNumbers, SenderControl, GroupInv, LinkInv, ErrorInv

(* An output that is the beginning of the file is no longer than the file. *)
LEMMA BeginningIsShort ==
  ASSUME NEW o \in Seq(0 .. FileLen - 1), \A i \in DOMAIN o : o[i] = i - 1
  PROVE  Len(o) \in 0 .. FileLen /\ DOMAIN o = 1 .. Len(o)
<1>1. Len(o) \in Nat /\ DOMAIN o = 1 .. Len(o)
  BY LenProperties
<1>2. ASSUME Len(o) # 0 PROVE Len(o) - 1 \in 0 .. FileLen - 1
  <2>1. Len(o) \in 1 .. Len(o)
    BY <1>1, <1>2
  <2>2. o[Len(o)] \in 0 .. FileLen - 1
    BY <1>1, <2>1, ElementOfSeq
  <2> QED
    BY <1>1, <2>1, <2>2
<1> QED
  BY <1>1, <1>2, FileAssumption

(* What the invariant says of the output.                                  *)
LEMMA OutFacts ==
  ASSUME Inv
  PROVE  /\ out \in Seq(0 .. FileLen - 1) /\ Len(out) \in Nat
         /\ DOMAIN out = 1 .. Len(out) /\ Expected \in Nat
         /\ Integrity => Len(out) <= FileLen
<1>1. out \in Seq(0 .. FileLen - 1) /\ Len(out) \in Nat /\ DOMAIN out = 1 .. Len(out)
  BY LenProperties DEF Inv, ReceiverInv, OutputInv
<1>2. ASSUME Integrity PROVE Len(out) <= FileLen
  <2>1. \A i \in DOMAIN out : out[i] = i - 1
    BY <1>2 DEF Integrity
  <2>2. Len(out) \in 0 .. FileLen
    BY <1>1, <2>1, BeginningIsShort
  <2> QED
    BY <2>2, FileAssumption
<1> QED
  BY <1>1, <1>2 DEF Expected

(* Top and First are integers, a window apart.                             *)
LEMMA TopFacts ==
  ASSUME InOrder, Inv, SentInv
  PROVE  /\ Top \in 0 .. FileLen + 1 /\ First \in Nat /\ First + Len(sList) = Top
         /\ Top <= First + sWindow /\ Top <= First + MaxWindow
<1>1. Top \in 0 .. FileLen + 1
  BY FileAssumption DEF SentInv, Top
<1>2. /\ Len(sList) \in Nat /\ Len(sList) <= sWindow /\ sWindow \in Nat /\ sWindow <= MaxWindow
      /\ MaxWindow \in Nat
  BY SenderFacts, WindowAssumption DEF WindowSize
<1>3. First \in Nat
  BY <1>1, <1>2 DEF First, SentInv
<1>4. First + Len(sList) = Top
  BY <1>1, <1>2 DEF First
<1> QED
  BY <1>1, <1>2, <1>3, <1>4

(* A step of the sender or of the network leaves the receiver as it is.    *)
LEMMA ReceiverSideKept ==
  ASSUME Inv, ReceiverSide, UNCHANGED receiverVars, Top \in Int, Top' \in Int,
         Top <= Top', First' <= Expected, sWindow' <= rWindow
  PROVE  ReceiverSide' /\ Expected' = Expected
<1>1. /\ Expected' = Expected /\ UNCHANGED <<rPc, rList, rHead, rWindow, rEof, eof_seqnum, out>>
  BY DEF receiverVars, Expected
<1>2. ExpectedInv'
  <2>1. Expected \in Nat
    BY OutFacts
  <2>2. Expected <= Top
    BY DEF ReceiverSide, ExpectedInv
  <2>3. Expected <= Top'
    BY <2>1, <2>2
  <2> QED
    BY <1>1, <2>3 DEF ReceiverSide, ExpectedInv
<1>3. OutInv'
  BY <1>1 DEF ReceiverSide, OutInv, Integrity
<1>4. BufferInv'
  BY <1>1 DEF ReceiverSide, BufferInv, Increases, Reaches, EofStored, Holds
<1>5. StoredInv'
  <2> SUFFICES ASSUME rPc # "done", NEW i \in DOMAIN rList
               PROVE  Awaited(rList[i])' /\ rList[i].pay # Expected
    BY <1>1 DEF StoredInv
  <2>1. Awaited(rList[i]) /\ rList[i].pay # Expected
    BY DEF ReceiverSide, StoredInv
  <2>2. rList[i].pay \in Int
    <3>1. rList \in Seq(Pkt)
      BY ReceiverFacts
    <3>2. rList[i] \in Pkt
      BY <3>1, LenProperties, ElementOfSeq
    <3> QED
      BY <3>2, FileAssumption DEF Pkt, Payload
  <2>3. rList[i].pay < Top'
    BY <2>1, <2>2 DEF Awaited
  <2>4. InFile(rList[i])' /\ rList'[i] = rList[i]
    BY <1>1, <2>1 DEF Awaited, InFile
  <2> QED
    BY <1>1, <2>1, <2>3, <2>4 DEF Awaited
<1> QED
  BY <1>1, <1>2, <1>3, <1>4, <1>5 DEF ReceiverSide

(* What a channel holds after a write: the messages of before, in their    *)
(* places, then some of those written.                                     *)
LEMMA PushElements ==
  ASSUME NEW S, NEW channel \in Seq(S), NEW msgs \in Seq(S), Len(channel) <= Capacity
  PROVE  /\ Push(channel, msgs) \in Seq(S)
         /\ \A i \in DOMAIN Push(channel, msgs) :
              IF i \in DOMAIN channel THEN Push(channel, msgs)[i] = channel[i]
              ELSE i - Len(channel) \in DOMAIN msgs /\ Push(channel, msgs)[i] = msgs[i - Len(channel)]
<1> DEFINE room == Capacity - Len(channel)
           fit == IF Len(msgs) <= room THEN msgs ELSE SubSeq(msgs, 1, room)
<1>1. /\ Len(channel) \in Nat /\ Len(msgs) \in Nat /\ room \in Nat
      /\ DOMAIN channel = 1 .. Len(channel) /\ DOMAIN msgs = 1 .. Len(msgs)
  BY LinkAssumption, LenProperties
<1>2. fit \in Seq(S) /\ Len(fit) <= Len(msgs) /\ \A i \in 1 .. Len(fit) : fit[i] = msgs[i]
  <2>1. CASE Len(msgs) <= room
    BY <1>1, <2>1
  <2>2. CASE ~(Len(msgs) <= room)
    <3>1. /\ SubSeq(msgs, 1, room) \in Seq(S)
          /\ Len(SubSeq(msgs, 1, room)) = IF 1 <= room THEN room - 1 + 1 ELSE 0
          /\ \A i \in 1 .. room - 1 + 1 : SubSeq(msgs, 1, room)[i] = msgs[1 + i - 1]
      BY <1>1, <2>2, SubSeqType
    <3>2. Len(SubSeq(msgs, 1, room)) = room
      BY <1>1, <3>1
    <3>3. ASSUME NEW i \in 1 .. room PROVE SubSeq(msgs, 1, room)[i] = msgs[i]
      <4>1. i \in 1 .. room - 1 + 1 /\ 1 + i - 1 = i
        BY <1>1
      <4> QED
        BY <3>1, <4>1
    <3> QED
      BY <1>1, <2>2, <3>1, <3>2, <3>3
  <2> QED
    BY <2>1, <2>2
<1>3. Push(channel, msgs) = channel \o fit
  BY DEF Push
<1> HIDE DEF fit
<1>4. Len(fit) \in Nat
  BY <1>2, LenProperties
<1>5. /\ channel \o fit \in Seq(S) /\ Len(channel \o fit) = Len(channel) + Len(fit)
      /\ \A i \in 1 .. Len(channel) + Len(fit) :
           (channel \o fit)[i] = IF i <= Len(channel) THEN channel[i] ELSE fit[i - Len(channel)]
  BY <1>2, ConcatProperties
<1>6. DOMAIN (channel \o fit) = 1 .. Len(channel) + Len(fit)
  BY <1>5, LenProperties
<1>7. ASSUME NEW i \in 1 .. Len(channel) + Len(fit)
      PROVE  IF i \in DOMAIN channel THEN (channel \o fit)[i] = channel[i]
             ELSE i - Len(channel) \in DOMAIN msgs /\ (channel \o fit)[i] = msgs[i - Len(channel)]
  <2>1. CASE i <= Len(channel)
    BY <1>1, <1>4, <1>5, <2>1
  <2>2. CASE ~(i <= Len(channel))
    <3>1. i - Len(channel) \in 1 .. Len(fit) /\ i - Len(channel) \in 1 .. Len(msgs)
      BY <1>1, <1>2, <1>4, <2>2
    <3> QED
      BY <1>1, <1>2, <1>5, <2>2, <3>1
  <2> QED
    BY <2>1, <2>2
<1> QED
  BY <1>3, <1>5, <1>6, <1>7

(* A packet of the sender's list may be sent, or sent again: what is in    *)
(* flight or in the receiver's list is at most a window ahead of it.       *)
Sendable(m) ==
  /\ m.ok1 /\ m.tr = 0
  /\ m.type = "DATA" => InFile(m) /\ First <= m.pay /\ m.pay < Top

(* What the sender writes may follow what is under way.                    *)
LEMMA SendDataInv ==
  ASSUME InOrder, Inv, SentInv, ReceiverSide, DataInv, UNCHANGED receiverVars,
         Top' \in Int, Top <= Top', First' = First, Top' <= First + MaxWindow,
         NEW msgs \in Seq(DataMsg), toReceiver' = Push(toReceiver, msgs),
         \A j \in DOMAIN msgs : Sendable(msgs[j])'
  PROVE  DataInv'
<1>1. /\ toReceiver \in Seq(DataMsg) /\ Len(toReceiver) <= Capacity
      /\ Len(toReceiver) \in Nat /\ DOMAIN toReceiver = 1 .. Len(toReceiver)
  BY SeqMonotonic, LenProperties DEF Inv, LinkInv, DataChannel, NumberedMsg
<1>2. /\ toReceiver' \in Seq(DataMsg)
      /\ \A i \in DOMAIN toReceiver' :
           IF i \in DOMAIN toReceiver THEN toReceiver'[i] = toReceiver[i]
           ELSE i - Len(toReceiver) \in DOMAIN msgs /\ toReceiver'[i] = msgs[i - Len(toReceiver)]
  BY <1>1, PushElements
<1>3. /\ Top \in 0 .. FileLen + 1 /\ First \in Nat /\ MaxWindow \in Nat
      /\ Expected \in Nat /\ Expected <= Top
  BY TopFacts, OutFacts, WindowAssumption DEF ReceiverSide, ExpectedInv
<1>4. UNCHANGED <<rPc, rList>> /\ Expected' = Expected
  BY DEF receiverVars, Expected
<1>5. \A i \in DOMAIN toReceiver' : toReceiver'[i].pay \in Int
  <2> SUFFICES ASSUME NEW i \in DOMAIN toReceiver' PROVE toReceiver'[i].pay \in Int
    OBVIOUS
  <2>1. toReceiver'[i] \in DataMsg
    BY <1>2, LenProperties, ElementOfSeq
  <2> QED
    BY <2>1, FileAssumption DEF DataMsg, Payload
<1>6. ASSUME NEW i \in DOMAIN toReceiver', i \notin DOMAIN toReceiver
      PROVE  /\ toReceiver'[i].ok1 /\ toReceiver'[i].tr = 0
             /\ toReceiver'[i].type = "DATA" =>
                  InFile(toReceiver'[i]) /\ First <= toReceiver'[i].pay /\ toReceiver'[i].pay < Top'
  <2>1. PICK j \in DOMAIN msgs : toReceiver'[i] = msgs[j]
    BY <1>2, <1>6
  <2>2. /\ msgs[j].ok1 /\ msgs[j].tr = 0
        /\ msgs[j].type = "DATA" => InFile(msgs[j]) /\ First' <= msgs[j].pay /\ msgs[j].pay < Top'
    BY DEF Sendable, InFile
  <2> QED
    BY <2>1, <2>2
<1>7. MadeInv'
  <2> SUFFICES ASSUME NEW i \in DOMAIN toReceiver'
               PROVE  /\ toReceiver'[i].ok1 /\ toReceiver'[i].tr = 0
                      /\ toReceiver'[i].type = "DATA" =>
                           InFile(toReceiver'[i]) /\ toReceiver'[i].pay < Top'
    BY DEF MadeInv, Made, InFile
  <2>1. CASE i \in DOMAIN toReceiver
    <3>1. toReceiver'[i] = toReceiver[i] /\ Made(toReceiver[i])
      BY <1>2, <2>1 DEF DataInv, MadeInv
    <3> QED
      BY <1>3, <1>5, <3>1 DEF Made
  <2>2. CASE i \notin DOMAIN toReceiver
    BY <1>6, <2>2
  <2> QED
    BY <2>1, <2>2
<1>8. NearInv'
  <2> SUFFICES ASSUME rPc # "done", NEW i \in DOMAIN toReceiver', toReceiver'[i].type = "DATA"
               PROVE  /\ Expected <= toReceiver'[i].pay + MaxWindow
                      /\ \A l \in DOMAIN rList : rList[l].pay < toReceiver'[i].pay + MaxWindow
    BY <1>4 DEF NearInv, Near
  <2>1. CASE i \in DOMAIN toReceiver
    <3>1. toReceiver'[i] = toReceiver[i]
      BY <1>2, <2>1
    <3>2. Near(toReceiver[i])
      BY <2>1, <3>1 DEF DataInv, NearInv
    <3> QED
      BY <3>1, <3>2 DEF Near
  <2>2. CASE i \notin DOMAIN toReceiver
    <3>1. First <= toReceiver'[i].pay
      BY <1>6, <2>2
    <3>2. Top <= toReceiver'[i].pay + MaxWindow
      BY <1>3, <1>5, <3>1
    <3>3. ASSUME NEW l \in DOMAIN rList PROVE rList[l].pay \in Int /\ rList[l].pay < Top
      <4>1. rList \in Seq(Pkt)
        BY ReceiverFacts
      <4>2. rList[l] \in Pkt
        BY <4>1, LenProperties, ElementOfSeq
      <4> QED
        BY <4>2, FileAssumption DEF Pkt, Payload, ReceiverSide, StoredInv, Awaited
    <3> QED
      BY <1>3, <1>5, <3>2, <3>3
  <2> QED
    BY <2>1, <2>2
<1>9. CloseInv'
  <2> SUFFICES ASSUME NEW i \in DOMAIN toReceiver', NEW j \in DOMAIN toReceiver', i < j,
                      toReceiver'[i].type = "DATA", toReceiver'[j].type = "DATA"
               PROVE  toReceiver'[i].pay < toReceiver'[j].pay + MaxWindow
    BY DEF CloseInv
  <2>1. CASE j \in DOMAIN toReceiver
    <3>1. i \in DOMAIN toReceiver
      BY <1>1, <1>2, <2>1, LenProperties
    <3>2. toReceiver'[i] = toReceiver[i] /\ toReceiver'[j] = toReceiver[j]
      BY <1>2, <2>1, <3>1
    <3> QED
      BY <2>1, <3>1, <3>2 DEF DataInv, CloseInv
  <2>2. CASE j \notin DOMAIN toReceiver
    <3>1. First <= toReceiver'[j].pay
      BY <1>6, <2>2
    <3>2. toReceiver'[i].pay < Top'
      BY <1>7 DEF MadeInv, Made
    <3> QED
      BY <1>3, <1>5, <3>1, <3>2
  <2> QED
    BY <2>1, <2>2
<1> QED
  BY <1>7, <1>8, <1>9 DEF DataInv

(* The responses in flight, when the sender's window stays as it is.       *)
LEMMA AnswersKept ==
  ASSUME AnswerInv, GrowingInv,
         UNCHANGED <<toSender, sWindow, rWindow>>, First' = First, Expected' = Expected
  PROVE  AnswerInv' /\ GrowingInv'
<1>1. ASSUME NEW i \in DOMAIN toSender PROVE Acks(toSender[i])' = Acks(toSender[i])
  BY DEF Acks
<1> QED
  BY <1>1 DEF AnswerInv, GrowingInv

(* A step of the sender that sends packets it has made.                    *)
LEMMA SendingStep ==
  ASSUME InOrder, Inv, InOrderInv, UNCHANGED <<receiverVars, toSender, sWindow>>,
         Top' \in Int, Top <= Top', First' = First, Top' <= First + MaxWindow,
         NEW msgs \in Seq(DataMsg), toReceiver' = Push(toReceiver, msgs),
         \A j \in DOMAIN msgs : Sendable(msgs[j])'
  PROVE  ReceiverSide' /\ InFlight'
<1>1. /\ Top \in Int /\ First <= Expected /\ sWindow' <= rWindow /\ UNCHANGED <<toSender, sWindow, rWindow>>
      /\ UNCHANGED receiverVars
  BY TopFacts DEF InOrderInv, SenderSide, ReceiverSide, ExpectedInv, receiverVars
<1>2. ReceiverSide' /\ Expected' = Expected
  BY <1>1, ReceiverSideKept DEF InOrderInv
<1>3. DataInv'
  BY <1>1, SendDataInv DEF InOrderInv, SenderSide, InFlight
<1>4. AnswerInv' /\ GrowingInv'
  BY <1>1, <1>2, AnswersKept DEF InOrderInv, InFlight
<1> QED
  BY <1>2, <1>3, <1>4 DEF InFlight

(* A step of the sender that sends nothing.                                *)
LEMMA SilentStep ==
  ASSUME InOrder, Inv, InOrderInv, UNCHANGED <<receiverVars, toReceiver, toSender, sWindow>>,
         Top' = Top, First' = First
  PROVE  ReceiverSide' /\ InFlight'
<1>1. /\ Top \in Int /\ First <= Expected /\ sWindow' <= rWindow
      /\ UNCHANGED <<toReceiver, toSender, sWindow, rWindow, rPc, rList>>
      /\ UNCHANGED receiverVars
  BY TopFacts DEF InOrderInv, SenderSide, ReceiverSide, ExpectedInv, receiverVars
<1>2. ReceiverSide' /\ Expected' = Expected
  BY <1>1, ReceiverSideKept DEF InOrderInv
<1>3. DataInv'
  BY <1>1, <1>2
  DEF InOrderInv, InFlight, DataInv, MadeInv, Made, InFile, NearInv, Near, CloseInv
<1>4. AnswerInv' /\ GrowingInv'
  BY <1>1, <1>2, AnswersKept DEF InOrderInv, InFlight
<1> QED
  BY <1>2, <1>3, <1>4 DEF InFlight

(* The number of the packet after the u-th.                                *)
LEMMA SuccOfPacket ==
  ASSUME NEW u \in Int
  PROVE  Succ(u % SeqSpace) = (u + 1) % SeqSpace
<1>1. SeqSpace \in Nat \ {0}
  BY WindowAssumption
<1>2. PICK q \in Int, r \in 0 .. SeqSpace - 1 : u = SeqSpace * q + r /\ r = u % SeqSpace
  BY <1>1, ModSplit
<1>3. CASE r + 1 < SeqSpace
  <2>1. r + 1 \in 0 .. SeqSpace - 1 /\ u + 1 = SeqSpace * q + (r + 1)
    BY <1>1, <1>2, <1>3
  <2>2. (SeqSpace * q + (r + 1)) % SeqSpace = r + 1
    BY <1>1, <2>1, ModUnique
  <2>3. (r + 1) % SeqSpace = r + 1
    BY <1>1, <2>1, ModBelow
  <2> QED
    BY <1>2, <2>1, <2>2, <2>3 DEF Succ
<1>4. CASE r + 1 = SeqSpace
  <2>1. SeqSpace * (q + 1) = SeqSpace * q + SeqSpace
    BY <1>1, <1>2
  <2>2. u + 1 = SeqSpace * (q + 1) + 0 /\ 0 \in 0 .. SeqSpace - 1
    BY <1>1, <1>2, <1>4, <2>1
  <2>3. (SeqSpace * (q + 1) + 0) % SeqSpace = 0
    BY <1>1, <1>2, <2>2, ModUnique
  <2>4. (r + 1) % SeqSpace = 0
    BY <1>1, <1>4
  <2> QED
    BY <1>2, <2>2, <2>3, <2>4 DEF Succ
<1> QED
  BY <1>1, <1>2, <1>3, <1>4

(* Polling and the end of the input keep the invariant.                    *)
LEMMA PollInOrder ==
  ASSUME InOrder, Inv, InOrderInv, SPoll \/ SEndOfFile, UNCHANGED receiverVars
  PROVE  InOrderInv'
<1>1. /\ UNCHANGED <<sList, sWindow, sTail, lastPkt, global_pkt, fec, toReceiver, toSender>>
      /\ sPc' = "parity" <=> sPc = "parity"
      /\ sPc' \notin {"ub", "acked"} /\ sPc # "ub"
  BY DEF SPoll, SEndOfFile, CanFill, window, flags, linkVars, InOrderInv, SenderSide, GroupedInv
<1>2. Top' = Top /\ First' = First
  BY <1>1 DEF Top, First
<1>3. ReceiverSide' /\ InFlight'
  BY <1>1, <1>2, SilentStep
<1>4. sEof' => global_pkt' = FileLen
  <2>1. CASE SPoll
    BY <2>1 DEF SPoll, flags, InOrderInv, SenderSide, SentInv
  <2>2. CASE SEndOfFile
    <3>1. global_pkt >= FileLen /\ global_pkt \in 0 .. FileLen /\ global_pkt' = global_pkt
      BY <2>2 DEF SEndOfFile, InOrderInv, SenderSide, SentInv
    <3> QED
      BY <3>1, FileAssumption
  <2> QED
    BY <2>1, <2>2
<1>5. SentInv'
  BY <1>1, <1>2, <1>4 DEF InOrderInv, SenderSide, SentInv, InFile
<1>6. GroupedInv'
  BY <1>1 DEF InOrderInv, SenderSide, GroupedInv
<1> QED
  BY <1>3, <1>5, <1>6 DEF InOrderInv, SenderSide

(* fill_window: the next packet joins the list and the group, and is       *)
(* counted at once or, when the group is complete, after its parity.       *)
LEMMA FillInOrder ==
  ASSUME InOrder, Inv, InOrderInv, SFill, UNCHANGED receiverVars
  PROVE  InOrderInv'
<1>12. PICK pkt \in Pkt : pkt = [seq |-> global_pkt % SeqSpace, pay |-> global_pkt]
  <2>1. global_pkt \in 0 .. FileLen
    BY DEF InOrderInv, SenderSide, SentInv
  <2>2. [seq |-> global_pkt % SeqSpace, pay |-> global_pkt] \in Pkt
    BY <2>1, ModType, FileAssumption DEF Pkt, Payload
  <2> QED
    BY <2>2
<1>13. PICK msg \in DataMsg : msg = Data(pkt)
  <2>1. Data(pkt) \in DataMsg
    BY DEF Data, DataMsg, Pkt
  <2> QED
    BY <2>1
<1> DEFINE group == IF fec_enable THEN Append(fec, Len(sList) + 1) ELSE fec
           due == Len(group) = GroupSize
<1>1. /\ sPc = "send" /\ ~sEof /\ Len(sList) < sWindow
      /\ global_pkt \in 0 .. FileLen - 1
      /\ sList' = Append(sList, pkt)
      /\ UNCHANGED <<sWindow, sEof, lastPkt, toSender>>
  BY <1>12 DEF SFill, CanFill, Fill, flags
<1>2. /\ ~sErr /\ ~lastPkt /\ sList \in Seq(Pkt) /\ Len(sList) \in Nat
      /\ DOMAIN sList = 1 .. Len(sList) /\ sWindow \in 1 .. MaxWindow
      /\ fec \in Seq(0 .. Len(sList)) /\ Len(fec) <= GroupSize
  BY <1>1, SenderFacts DEF WindowSize
<1>3. Len(fec) # GroupSize
  BY <1>1 DEF InOrderInv, SenderSide, GroupedInv
<1>4. /\ toReceiver' = Push(toReceiver, <<msg>>)
      /\ fec' = group
      /\ sPc' = IF due THEN "parity" ELSE "send"
      /\ sTail' = IF due THEN sTail ELSE global_pkt % SeqSpace
      /\ global_pkt' = IF due THEN global_pkt ELSE global_pkt + 1
  BY <1>2, <1>3, <1>12, <1>13 DEF SFill, Fill, Written, WriteFails, Count
<1>6. /\ sList' \in Seq(Pkt) /\ Len(sList') = Len(sList) + 1
      /\ DOMAIN sList' = 1 .. Len(sList) + 1
      /\ \A i \in 1 .. Len(sList) : sList'[i] = sList[i]
      /\ sList'[Len(sList) + 1] = pkt
  BY <1>1, <1>2, AppendProperties, LenProperties
<1>7. Top = global_pkt /\ Top' = global_pkt + 1
  BY <1>1, <1>2, <1>4 DEF Top
<1>8. First' = First /\ First + Len(sList) = Top /\ First \in Nat
  BY <1>1, <1>2, <1>6, <1>7 DEF First, InOrderInv, SenderSide, SentInv
<1>9. SentInv'
  <2>1. global_pkt' \in 0 .. FileLen /\ (sPc' = "parity" => global_pkt' < FileLen)
    BY <1>1, <1>4, FileAssumption
  <2>2. ASSUME global_pkt' > 0 PROVE sTail' = (global_pkt' - 1) % SeqSpace
    <3>1. CASE due
      BY <1>1, <1>2, <1>4, <2>2, <3>1 DEF InOrderInv, SenderSide, SentInv
    <3>2. CASE ~due
      <4>1. global_pkt' - 1 = global_pkt /\ sTail' = global_pkt % SeqSpace
        BY <1>1, <1>4, <3>2
      <4> QED
        BY <4>1
    <3> QED
      BY <3>1, <3>2
  <2>3. ASSUME NEW i \in DOMAIN sList'
        PROVE  sList'[i].pay = First' + i - 1 /\ InFile(sList'[i])
    <3>1. CASE i \in 1 .. Len(sList)
      <4>1. sList'[i] = sList[i] /\ i \in DOMAIN sList
        BY <1>2, <1>6, <3>1
      <4> QED
        BY <1>8, <4>1 DEF InOrderInv, SenderSide, SentInv
    <3>2. CASE i = Len(sList) + 1
      BY <1>1, <1>2, <1>6, <1>7, <1>8, <1>12, <3>2 DEF InFile
    <3> QED
      BY <1>2, <1>6, <2>3, <3>1, <3>2
  <2>4. sPc' # "acked" /\ ~sEof' /\ First' >= 0
    BY <1>1, <1>4, <1>8
  <2> QED
    BY <2>1, <2>2, <2>3, <2>4 DEF SentInv, InFile
<1>10. GroupedInv'
  <2>1. sPc' # "ub" /\ (sPc' = "parity" <=> Len(fec') = GroupSize)
    BY <1>4
  <2>2. ASSUME NEW i \in DOMAIN fec' PROVE fec'[i] # 0
    <3>1. fec' = IF fec_enable THEN Append(fec, Len(sList) + 1) ELSE fec
      BY <1>4
    <3>2. CASE fec_enable
      <4>1. /\ Append(fec, Len(sList) + 1) \in Seq(Nat)
            /\ Len(Append(fec, Len(sList) + 1)) = Len(fec) + 1
            /\ \A j \in 1 .. Len(fec) : Append(fec, Len(sList) + 1)[j] = fec[j]
            /\ Append(fec, Len(sList) + 1)[Len(fec) + 1] = Len(sList) + 1
        <5>1. fec \in Seq(Nat) /\ Len(sList) + 1 \in Nat
          BY <1>2, SeqMonotonic
        <5> QED
          BY <5>1, AppendProperties
      <4>2. Len(fec) \in Nat /\ i \in 1 .. Len(fec) + 1 /\ DOMAIN fec = 1 .. Len(fec)
        BY <1>2, <2>2, <3>1, <3>2, <4>1, LenProperties
      <4>3. CASE i \in 1 .. Len(fec)
        BY <3>1, <3>2, <4>1, <4>2, <4>3 DEF InOrderInv, SenderSide, GroupedInv
      <4>4. CASE i = Len(fec) + 1
        BY <1>2, <3>1, <3>2, <4>1, <4>4
      <4> QED
        BY <4>2, <4>3, <4>4
    <3>3. CASE ~fec_enable
      BY <2>2, <3>1, <3>3 DEF InOrderInv, SenderSide, GroupedInv
    <3> QED
      BY <3>2, <3>3
  <2> QED
    BY <2>1, <2>2 DEF GroupedInv
<1>11. ReceiverSide' /\ InFlight'
  <2>1. <<msg>> \in Seq(DataMsg) /\ Len(<<msg>>) = 1 /\ <<msg>>[1] = msg
    OBVIOUS
  <2>2. /\ msg.ok1 /\ msg.tr = 0 /\ msg.pay = global_pkt
        /\ msg.seq = global_pkt % SeqSpace
    BY <1>12, <1>13 DEF Data
  <2>3. First' <= global_pkt /\ global_pkt < Top'
    BY <1>1, <1>2, <1>7, <1>8
  <2>4. \A j \in DOMAIN <<msg>> : Sendable(<<msg>>[j])'
    BY <2>1, <2>2, <2>3 DEF Sendable, InFile
  <2>5. /\ Top' \in Int /\ Top <= Top' /\ Top' <= First + MaxWindow
        /\ UNCHANGED <<receiverVars, toSender, sWindow>>
    BY <1>1, <1>2, <1>7, <1>8, WindowAssumption
  <2> QED
    BY <1>4, <1>8, <2>1, <2>4, <2>5, SendingStep
<1> QED
  BY <1>9, <1>10, <1>11 DEF InOrderInv, SenderSide

(* The parity of a complete group: its packets are chunks of the list, and *)
(* the last packet of the list is the one that is counted.                 *)
LEMMA ParityInOrder ==
  ASSUME InOrder, Inv, InOrderInv, SParity, UNCHANGED receiverVars
  PROVE  InOrderInv'
<1>1. /\ ~sErr /\ sList \in Seq(Pkt) /\ Len(sList) \in Nat /\ DOMAIN sList = 1 .. Len(sList)
      /\ fec \in Seq(0 .. Len(sList)) /\ (lastPkt => sEof) /\ Len(sList) <= sWindow
      /\ sWindow \in 1 .. MaxWindow /\ GroupSize \in Nat \ {0} /\ FileLen \in Nat
  BY SenderFacts, SenderAssumption, FileAssumption DEF WindowSize
<1>2. /\ sPc = "parity" /\ global_pkt \in Nat /\ global_pkt < FileLen /\ ~sEof
      /\ Len(fec) = GroupSize /\ DOMAIN fec = 1 .. GroupSize
  BY <1>1, LenProperties DEF SParity, InOrderInv, SenderSide, SentInv, GroupedInv
<1>3. Top = global_pkt + 1 /\ First \in Nat /\ First + Len(sList) = Top
  BY <1>1, <1>2, TopFacts DEF Top, InOrderInv, SenderSide
<1>4. \A i \in DOMAIN sList : sList[i].pay = First + i - 1 /\ InFile(sList[i])
  BY DEF InOrderInv, SenderSide, SentInv
<1>5. \A i \in 1 .. GroupSize : fec[i] \in 1 .. Len(sList)
  <2> SUFFICES ASSUME NEW i \in 1 .. GroupSize PROVE fec[i] \in 1 .. Len(sList)
    OBVIOUS
  <2>1. fec[i] \in 0 .. Len(sList)
    BY <1>1, <1>2, ElementOfSeq
  <2>2. fec[i] # 0
    BY <1>2 DEF InOrderInv, SenderSide, GroupedInv
  <2> QED
    BY <1>1, <2>1, <2>2
<1>6. ~Unreadable
  <2>1. ASSUME GroupSize > 1 PROVE sList[fec[GroupSize - 1]].pay # Empty
    <3>1. fec[GroupSize - 1] \in 1 .. Len(sList)
      BY <1>1, <1>5, <2>1
    <3>2. sList[fec[GroupSize - 1]].pay = First + fec[GroupSize - 1] - 1
      BY <1>1, <1>4, <3>1
    <3>3. fec[GroupSize - 1] \in Int /\ fec[GroupSize - 1] <= Len(sList)
      BY <1>1, <3>1
    <3>4. First + fec[GroupSize - 1] - 1 < FileLen
      BY <1>1, <1>2, <1>3, <3>3
    <3> QED
      BY <3>2, <3>4, FileAssumption DEF Empty
  <2>2. \A i \in DOMAIN fec : fec[i] # 0
    BY DEF InOrderInv, SenderSide, GroupedInv
  <2> QED
    BY <2>1, <2>2 DEF Unreadable
<1>7. PICK msg \in DataMsg : msg = Parity(sList[fec[1]].seq)
  <2>1. fec[1] \in 1 .. Len(sList)
    BY <1>1, <1>5
  <2>2. sList[fec[1]] \in Pkt
    BY <1>1, <2>1, ElementOfSeq
  <2>3. Parity(sList[fec[1]].seq) \in DataMsg
    BY <1>1, <2>2 DEF Pkt, Parity, DataMsg, Payload, Empty
  <2> QED
    BY <2>3
<1>8. /\ toReceiver' = Push(toReceiver, <<msg>>)
      /\ Count(sList[Len(sList)]) /\ fec' = <<>> /\ sPc' = "send"
      /\ UNCHANGED <<sList, sWindow, sEof, lastPkt, toSender>>
  BY <1>1, <1>6, <1>7 DEF SParity, Written, WriteFails, flags
<1>9. global_pkt' = global_pkt + 1 /\ sTail' = global_pkt % SeqSpace
  <2>1. Len(sList) \in 1 .. Len(sList)
    BY <1>1, <1>5
  <2>2. sList[Len(sList)].pay = First + Len(sList) - 1 /\ InFile(sList[Len(sList)])
    BY <1>1, <1>4, <2>1
  <2>3. First + Len(sList) - 1 = global_pkt
    BY <1>1, <1>2, <1>3
  <2> QED
    BY <1>8, <2>2, <2>3 DEF Count, InFile
<1>10. Top' = Top /\ First' = First
  <2>1. ~lastPkt' /\ sPc' # "parity"
    BY <1>1, <1>2, <1>8
  <2>2. Top' = Top
    BY <1>3, <1>9, <2>1 DEF Top
  <2> QED
    BY <1>8, <2>2 DEF First
<1>11. SentInv'
  <2>1. global_pkt' \in 0 .. FileLen /\ global_pkt' - 1 = global_pkt /\ First' >= 0
    BY <1>1, <1>2, <1>3, <1>9, <1>10
  <2>2. sTail' = (global_pkt' - 1) % SeqSpace
    BY <1>9, <2>1
  <2>3. \A i \in DOMAIN sList' : sList'[i].pay = First' + i - 1 /\ InFile(sList'[i])
    BY <1>4, <1>8, <1>10
  <2>4. ~sEof' /\ sPc' # "parity" /\ sPc' # "acked"
    BY <1>2, <1>8
  <2> QED
    BY <2>1, <2>2, <2>3, <2>4 DEF SentInv, InFile
<1>12. GroupedInv'
  <2>1. Len(<<>>) = 0 /\ DOMAIN <<>> = {}
    OBVIOUS
  <2> QED
    BY <1>1, <1>8, <2>1 DEF GroupedInv
<1>13. ReceiverSide' /\ InFlight'
  <2>1. <<msg>> \in Seq(DataMsg) /\ Len(<<msg>>) = 1 /\ <<msg>>[1] = msg
    OBVIOUS
  <2>2. msg.ok1 /\ msg.tr = 0 /\ msg.type # "DATA"
    BY <1>7 DEF Parity
  <2>3. \A j \in DOMAIN <<msg>> : Sendable(<<msg>>[j])'
    BY <2>1, <2>2 DEF Sendable
  <2>4. /\ Top' \in Int /\ Top <= Top' /\ Top' <= First + MaxWindow
        /\ UNCHANGED <<receiverVars, toSender, sWindow>>
    BY <1>1, <1>2, <1>3, <1>8, <1>10, WindowAssumption
  <2> QED
    BY <1>8, <1>10, <2>1, <2>3, <2>4, SendingStep
<1> QED
  BY <1>11, <1>12, <1>13 DEF InOrderInv, SenderSide

(* send_final_pkt: the final packet has the number after the last chunk.   *)
LEMMA FinalInOrder ==
  ASSUME InOrder, Inv, InOrderInv, SFinal, UNCHANGED receiverVars
  PROVE  InOrderInv'
<1>1. /\ ~sErr /\ sList \in Seq(Pkt) /\ Len(sList) \in Nat /\ DOMAIN sList = 1 .. Len(sList)
      /\ Len(sList) < sWindow /\ sWindow \in 1 .. MaxWindow
      /\ sPc = "send" /\ sEof /\ ~lastPkt /\ FileLen \in Nat /\ FileLen > 0
  BY SenderFacts, FileAssumption DEF WindowSize, SFinal, CanEnd, InOrder
<1>2. /\ global_pkt = FileLen /\ sTail = (FileLen - 1) % SeqSpace
  BY <1>1 DEF InOrderInv, SenderSide, SentInv
<1>3. Succ(sTail) = FileLen % SeqSpace
  <2>1. FileLen - 1 \in Int /\ (FileLen - 1) + 1 = FileLen
    BY <1>1
  <2>2. Succ((FileLen - 1) % SeqSpace) = ((FileLen - 1) + 1) % SeqSpace
    BY <2>1, SuccOfPacket
  <2> QED
    BY <1>2, <2>1, <2>2
<1>4. PICK pkt \in Pkt : pkt = [seq |-> FileLen % SeqSpace, pay |-> FileLen]
  <2>1. [seq |-> FileLen % SeqSpace, pay |-> FileLen] \in Pkt
    BY <1>1, ModType DEF Pkt, Payload
  <2> QED
    BY <2>1
<1>5. PICK msg \in DataMsg : msg = Data(pkt)
  <2>1. Data(pkt) \in DataMsg
    BY DEF Data, DataMsg, Pkt
  <2> QED
    BY <2>1
<1>6. /\ toReceiver' = Push(toReceiver, <<msg>>) /\ sList' = Append(sList, pkt)
      /\ lastPkt' = TRUE /\ sPc' = "resend"
      /\ UNCHANGED <<sWindow, sEof, global_pkt, fec, toSender>>
  BY <1>1, <1>3, <1>4, <1>5 DEF SFinal, Written, WriteFails, Empty
<1>7. /\ sList' \in Seq(Pkt) /\ Len(sList') = Len(sList) + 1
      /\ DOMAIN sList' = 1 .. Len(sList) + 1
      /\ \A i \in 1 .. Len(sList) : sList'[i] = sList[i]
      /\ sList'[Len(sList) + 1] = pkt
  BY <1>1, <1>6, AppendProperties, LenProperties
<1>8. Top = FileLen /\ Top' = FileLen + 1
  BY <1>1, <1>2, <1>6 DEF Top
<1>9. First' = First /\ First + Len(sList) = Top /\ First \in Nat
  <2>1. First \in Nat /\ First + Len(sList) = Top
    BY TopFacts DEF InOrderInv, SenderSide
  <2>2. First' = FileLen + 1 - (Len(sList) + 1)
    BY <1>1, <1>7, <1>8 DEF First
  <2> QED
    BY <1>1, <1>8, <2>1, <2>2
<1>10. SentInv'
  <2>1. ASSUME NEW i \in DOMAIN sList'
        PROVE  sList'[i].pay = First' + i - 1 /\ InFile(sList'[i])
    <3>1. CASE i \in 1 .. Len(sList)
      <4>1. sList'[i] = sList[i] /\ i \in DOMAIN sList
        BY <1>1, <1>7, <3>1
      <4> QED
        BY <1>9, <4>1 DEF InOrderInv, SenderSide, SentInv
    <3>2. CASE i = Len(sList) + 1
      BY <1>1, <1>4, <1>7, <1>8, <1>9, <3>2 DEF InFile
    <3> QED
      BY <1>1, <1>7, <2>1, <3>1, <3>2
  <2> QED
    BY <1>1, <1>2, <1>6, <1>9, <2>1 DEF SentInv, InFile
<1>11. GroupedInv'
  BY <1>1, <1>6 DEF InOrderInv, SenderSide, GroupedInv
<1>12. ReceiverSide' /\ InFlight'
  <2>1. <<msg>> \in Seq(DataMsg) /\ Len(<<msg>>) = 1 /\ <<msg>>[1] = msg
    OBVIOUS
  <2>2. /\ msg.ok1 /\ msg.tr = 0 /\ msg.pay = FileLen /\ msg.seq = FileLen % SeqSpace
    BY <1>4, <1>5 DEF Data
  <2>3. First' <= FileLen /\ FileLen < Top'
    BY <1>1, <1>8, <1>9
  <2>4. \A j \in DOMAIN <<msg>> : Sendable(<<msg>>[j])'
    BY <2>1, <2>2, <2>3 DEF Sendable, InFile
  <2>5. /\ Top' \in Int /\ Top <= Top' /\ Top' <= First + MaxWindow
        /\ UNCHANGED <<receiverVars, toSender, sWindow>>
    BY <1>1, <1>6, <1>8, <1>9, WindowAssumption
  <2> QED
    BY <1>6, <1>9, <2>1, <2>4, <2>5, SendingStep
<1> QED
  BY <1>10, <1>11, <1>12 DEF InOrderInv, SenderSide

(* resent_pkt sends packets of the list again; the list is not empty.      *)
LEMMA ResendInOrder ==
  ASSUME InOrder, Inv, InOrderInv, NEW late \in Timeouts, Resend(late), UNCHANGED receiverVars
  PROVE  InOrderInv'
<1>1. /\ ~sErr /\ sList \in Seq(Pkt) /\ Len(sList) \in Nat /\ DOMAIN sList = 1 .. Len(sList)
      /\ Len(sList) <= sWindow /\ sWindow \in 1 .. MaxWindow
  BY SenderFacts DEF WindowSize
<1>2. SResend(late) /\ sPc \in {"send", "resend"}
  BY DEF Resend, SResend
<1>3. sList # <<>>
  <2>1. CASE sPc = "resend"
    BY <2>1, SenderFacts
  <2>2. CASE sPc = "send"
    <3>1. ~CanFill /\ ~CanEnd
      BY <1>2, <2>2 DEF SResend
    <3>2. CASE Len(sList) < sWindow
      <4>1. lastPkt /\ SenderRuns
        BY <2>2, <3>1, <3>2 DEF CanFill, CanEnd, SenderRuns, SenderLoop
      <4> QED
        BY <4>1, SenderFacts
    <3>3. CASE ~(Len(sList) < sWindow)
      <4>1. Len(sList) # 0
        BY <1>1, <3>3
      <4> QED
        BY <4>1
    <3> QED
      BY <3>2, <3>3
  <2> QED
    BY <1>2, <2>1, <2>2
<1>4. /\ UNCHANGED <<sList, sWindow, sTail, sEof, lastPkt, global_pkt, fec, toSender>>
      /\ sPc' \in {"gaveup", "read", "poll"}
      /\ toReceiver' = Push(toReceiver, [j \in DOMAIN late |-> Data(sList[late[j]])])
  BY <1>1, <1>2, <1>3 DEF SResend, window
<1>5. Top' = Top /\ First' = First
  BY <1>2, <1>4 DEF Top, First
<1>6. SentInv' /\ GroupedInv'
  <2>1. SentInv'
    BY <1>2, <1>4, <1>5 DEF InOrderInv, SenderSide, SentInv, InFile
  <2>2. GroupedInv'
    BY <1>2, <1>4 DEF InOrderInv, SenderSide, GroupedInv
  <2> QED
    BY <2>1, <2>2
<1>7. PICK msgs : msgs = [j \in DOMAIN late |-> Data(sList[late[j]])]
  OBVIOUS
<1>8. /\ \E k \in 0 .. Len(sList) : late \in [1 .. k -> 1 .. Len(sList)]
  <2>1. Len(sList) \in 0 .. MaxWindow
    BY <1>1, WindowAssumption
  <2>2. late \in UNION {{l \in [1 .. k -> 1 .. Len(sList)] :
                          \A i, j \in 1 .. k : i < j => l[i] < l[j]} : k \in 0 .. Len(sList)}
    BY <2>1 DEF Timeouts, Increasing
  <2> QED
    BY <2>2
<1>9. PICK k \in 0 .. Len(sList) : late \in [1 .. k -> 1 .. Len(sList)]
  BY <1>8
<1>10. /\ DOMAIN msgs = 1 .. k /\ k \in Nat
       /\ \A j \in 1 .. k : late[j] \in 1 .. Len(sList) /\ msgs[j] = Data(sList[late[j]])
  BY <1>1, <1>7, <1>9
<1>11. msgs \in Seq(DataMsg)
  <2>1. ASSUME NEW j \in 1 .. k PROVE msgs[j] \in DataMsg
    <3>1. sList[late[j]] \in Pkt
      BY <1>1, <1>10, ElementOfSeq
    <3>2. Data(sList[late[j]]) \in DataMsg
      BY <3>1 DEF Data, DataMsg, Pkt
    <3> QED
      BY <1>10, <3>2
  <2>2. msgs = [j \in 1 .. k |-> msgs[j]]
    BY <1>7, <1>10
  <2> QED
    BY <1>10, <2>1, <2>2, IsASeq
<1>12. \A j \in DOMAIN msgs : Sendable(msgs[j])'
  <2> SUFFICES ASSUME NEW j \in 1 .. k PROVE Sendable(msgs[j])'
    BY <1>10
  <2>1. PICK p \in Pkt, i \in 1 .. Len(sList) : p = sList[i] /\ i = late[j]
    BY <1>1, <1>10, ElementOfSeq
  <2>2. p.pay = First + i - 1 /\ InFile(p)
    BY <1>1, <2>1 DEF InOrderInv, SenderSide, SentInv
  <2>3. msgs[j] = Data(p)
    BY <1>10, <2>1
  <2>4. First' <= p.pay /\ p.pay < Top'
    <3>1. First \in Nat /\ Top \in Int /\ First + Len(sList) = Top
      BY TopFacts DEF InOrderInv, SenderSide
    <3> QED
      BY <1>1, <1>5, <2>2, <3>1
  <2> QED
    BY <2>2, <2>3, <2>4 DEF Sendable, Data, InFile
<1>13. /\ Top' \in Int /\ Top <= Top' /\ Top' <= First + MaxWindow
       /\ UNCHANGED <<receiverVars, toSender, sWindow>>
  BY <1>4, <1>5, TopFacts DEF InOrderInv, SenderSide
<1>14. ReceiverSide' /\ InFlight'
  BY <1>4, <1>5, <1>7, <1>11, <1>12, <1>13, SendingStep
<1> QED
  BY <1>6, <1>14 DEF InOrderInv, SenderSide

(* A number at distance d from that of packet e is the number of e + d.    *)
LEMMA PacketAt ==
  ASSUME NEW e \in Int, NEW s \in Seqnum
  PROVE  /\ Dist(e % SeqSpace, s) \in 0 .. SeqSpace - 1
         /\ s = (e + Dist(e % SeqSpace, s)) % SeqSpace
<1>1. e % SeqSpace \in Seqnum
  BY ModType
<1>2. PICK d \in 0 .. SeqSpace - 1 : d = Dist(e % SeqSpace, s)
  BY <1>1, DistType
<1>3. (e + d) - e = d /\ e + d \in Int
  BY <1>2, WindowAssumption
<1>4. Dist(e % SeqSpace, (e + d) % SeqSpace) = d /\ (e + d) % SeqSpace \in Seqnum
  BY <1>3, DistOfPackets
<1>5. s = (e + d) % SeqSpace
  BY <1>1, <1>2, <1>4, DistTells
<1> QED
  BY <1>2, <1>5

(* What is left in a channel a message was taken from: the others, in      *)
(* their order.                                                            *)
Origin(k, i) == IF i < k THEN i ELSE i + 1

(* What RemoveAt leaves, element by element.                               *)
LEMMA RemoveElements ==
  ASSUME NEW S, NEW channel \in Seq(S), NEW k \in DOMAIN channel
  PROVE  \A i \in DOMAIN RemoveAt(channel, k) :
           /\ Origin(k, i) \in DOMAIN channel
           /\ RemoveAt(channel, k)[i] = channel[Origin(k, i)]
           /\ \A j \in DOMAIN RemoveAt(channel, k) : i < j => Origin(k, i) < Origin(k, j)
<1>1. Len(channel) \in Nat /\ DOMAIN channel = 1 .. Len(channel) /\ k \in 1 .. Len(channel)
  BY LenProperties
<1>2. /\ RemoveAt(channel, k) \in Seq(S)
      /\ Len(RemoveAt(channel, k)) = Len(channel) - 1
      /\ \A j \in 1 .. Len(channel) - 1 :
           RemoveAt(channel, k)[j] = IF j < k THEN channel[j] ELSE channel[j + 1]
  BY <1>1, RemoveAtType
<1>3. DOMAIN RemoveAt(channel, k) = 1 .. Len(channel) - 1
  BY <1>2, LenProperties
<1> QED
  BY <1>1, <1>2, <1>3 DEF Origin

(* The sender reads the oldest response and moves its list by k packets,   *)
(* no more than the response acknowledges.                                 *)
LEMMA AnswerTaken ==
  ASSUME InOrder, Inv, InOrderInv, UNCHANGED <<receiverVars, toReceiver>>,
         1 \in DOMAIN toSender, toSender' = RemoveAt(toSender, 1),
         Top' = Top, NEW k \in Nat, First' = First + k, k <= Acks(toSender[1]),
         sWindow' \in {sWindow, toSender[1].win}
  PROVE  ReceiverSide' /\ InFlight'
<1>1. /\ toSender \in Seq(Response) /\ Expected \in Nat /\ First \in Nat /\ Top \in Int
      /\ sWindow \in Nat /\ rWindow \in Nat
  <2>1. toSender \in Seq(Response)
    BY DEF Inv, LinkInv, ResponseChannel
  <2>2. Expected \in Nat
    BY OutFacts
  <2>3. First \in Nat /\ Top \in Int
    BY TopFacts DEF InOrderInv, SenderSide
  <2>4. sWindow \in Nat /\ rWindow \in Nat
    BY SenderFacts, ReceiverFacts DEF WindowSize
  <2> QED
    BY <2>1, <2>2, <2>3, <2>4
<1>2. \A i \in DOMAIN toSender :
        /\ toSender[i].seq \in Seqnum /\ toSender[i].win \in Nat
        /\ Acks(toSender[i]) \in 0 .. SeqSpace - 1
        /\ toSender[i].seq = (First + Acks(toSender[i])) % SeqSpace
  <2> SUFFICES ASSUME NEW i \in DOMAIN toSender
               PROVE  /\ toSender[i].seq \in Seqnum /\ toSender[i].win \in Nat
                      /\ Acks(toSender[i]) \in 0 .. SeqSpace - 1
                      /\ toSender[i].seq = (First + Acks(toSender[i])) % SeqSpace
    OBVIOUS
  <2>1. toSender[i] \in Response
    BY <1>1, LenProperties, ElementOfSeq
  <2>2. toSender[i].seq \in Seqnum /\ toSender[i].win \in Nat
    BY <2>1 DEF Response, WindowSize
  <2> QED
    BY <1>1, <2>2, PacketAt DEF Acks
<1>3. \A i \in DOMAIN toSender :
        /\ toSender[i].type = "ACK"
        /\ sWindow <= toSender[i].win /\ toSender[i].win <= rWindow
        /\ Acks(toSender[i]) <= Expected - First
  BY DEF InOrderInv, InFlight, AnswerInv
<1>4. \A i \in DOMAIN toSender :
        toSender[1].win <= toSender[i].win /\ Acks(toSender[1]) <= Acks(toSender[i])
  <2> SUFFICES ASSUME NEW i \in DOMAIN toSender
               PROVE  toSender[1].win <= toSender[i].win /\ Acks(toSender[1]) <= Acks(toSender[i])
    OBVIOUS
  <2>1. CASE i = 1
    BY <1>2, <2>1
  <2>2. CASE i # 1
    <3>1. 1 < i
      BY <1>1, <2>2, LenProperties
    <3> QED
      BY <3>1 DEF InOrderInv, InFlight, GrowingInv
  <2> QED
    BY <2>1, <2>2
<1>5. First' <= Expected /\ sWindow' <= rWindow
  <2>1. /\ Acks(toSender[1]) <= Expected - First /\ Acks(toSender[1]) \in 0 .. SeqSpace - 1
        /\ toSender[1].win <= rWindow
    BY <1>2, <1>3
  <2>2. sWindow <= rWindow
    BY DEF InOrderInv, ReceiverSide, ExpectedInv
  <2> QED
    BY <1>1, <2>1, <2>2, WindowAssumption
<1>6. ReceiverSide' /\ Expected' = Expected
  BY <1>1, <1>5, ReceiverSideKept DEF InOrderInv
<1>7. DataInv'
  <2>1. UNCHANGED <<rPc, rList>>
    BY DEF receiverVars
  <2> QED
    BY <1>6, <2>1
    DEF InOrderInv, InFlight, DataInv, MadeInv, Made, InFile, NearInv, Near, CloseInv
<1>8. \A i \in DOMAIN toSender : Dist(First' % SeqSpace, toSender[i].seq) = Acks(toSender[i]) - k
  <2> SUFFICES ASSUME NEW i \in DOMAIN toSender
               PROVE  Dist(First' % SeqSpace, toSender[i].seq) = Acks(toSender[i]) - k
    OBVIOUS
  <2>1. PICK d \in 0 .. SeqSpace - 1 :
          d = Acks(toSender[i]) /\ toSender[i].seq = (First + d) % SeqSpace
    BY <1>2
  <2>2. k <= d
    <3>1. Acks(toSender[1]) <= d /\ Acks(toSender[1]) \in 0 .. SeqSpace - 1
      BY <1>2, <1>4, <2>1
    <3> QED
      BY <3>1, WindowAssumption
  <2>3. (First + d) - (First + k) = d - k /\ d - k \in 0 .. SeqSpace - 1
    BY <1>1, <2>2, WindowAssumption
  <2>4. First + k \in Int /\ First + d \in Int /\ (First + d) - (First + k) \in 0 .. SeqSpace - 1
    BY <1>1, <2>3, WindowAssumption
  <2>5. Dist((First + k) % SeqSpace, (First + d) % SeqSpace) = (First + d) - (First + k)
    BY <2>4, DistOfPackets
  <2> QED
    BY <2>1, <2>3, <2>5
<1>9. \A i \in DOMAIN toSender' :
        /\ Origin(1, i) \in DOMAIN toSender
        /\ toSender'[i] = toSender[Origin(1, i)]
        /\ \A j \in DOMAIN toSender' : i < j => Origin(1, i) < Origin(1, j)
  BY <1>1, RemoveElements
<1>10. \A i \in DOMAIN toSender' : Acks(toSender[i])' = Acks(toSender[Origin(1, i)]) - k
  BY <1>8, <1>9 DEF Acks
<1>11. UNCHANGED rWindow
  BY DEF receiverVars
<1>12. AnswerInv'
  <2> SUFFICES ASSUME NEW i \in DOMAIN toSender'
               PROVE  /\ toSender'[i].type = "ACK"
                      /\ sWindow' <= toSender'[i].win /\ toSender'[i].win <= rWindow'
                      /\ Acks(toSender[i])' <= Expected' - First'
    BY DEF AnswerInv
  <2>1. PICK p \in DOMAIN toSender : p = Origin(1, i) /\ toSender'[i] = toSender[p]
    BY <1>9
  <2>2. sWindow' <= toSender[p].win
    BY <1>3, <1>4
  <2>3. Acks(toSender[i])' = Acks(toSender[p]) - k
    BY <1>10, <2>1
  <2>4. Acks(toSender[p]) - k <= Expected - (First + k)
    <3>1. Acks(toSender[p]) <= Expected - First /\ Acks(toSender[p]) \in 0 .. SeqSpace - 1
      BY <1>2, <1>3
    <3> QED
      BY <1>1, <3>1, WindowAssumption
  <2> QED
    BY <1>3, <1>6, <1>11, <2>1, <2>2, <2>3, <2>4
<1>13. GrowingInv'
  <2> SUFFICES ASSUME NEW i \in DOMAIN toSender', NEW j \in DOMAIN toSender', i < j
               PROVE  /\ toSender'[i].win <= toSender'[j].win
                      /\ Acks(toSender[i])' <= Acks(toSender[j])'
    BY DEF GrowingInv
  <2>1. PICK p \in DOMAIN toSender, q \in DOMAIN toSender :
          /\ p = Origin(1, i) /\ toSender'[i] = toSender[p]
          /\ q = Origin(1, j) /\ toSender'[j] = toSender[q] /\ p < q
    BY <1>9
  <2>2. toSender[p].win <= toSender[q].win /\ Acks(toSender[p]) <= Acks(toSender[q])
    BY <2>1 DEF InOrderInv, InFlight, GrowingInv
  <2>3. Acks(toSender[i])' = Acks(toSender[p]) - k /\ Acks(toSender[j])' = Acks(toSender[q]) - k
    BY <1>10, <2>1
  <2>4. Acks(toSender[p]) - k <= Acks(toSender[q]) - k
    <3>1. Acks(toSender[p]) \in Int /\ Acks(toSender[q]) \in Int
      BY <1>2
    <3> QED
      BY <2>2, <3>1
  <2> QED
    BY <2>1, <2>2, <2>3, <2>4
<1> QED
  BY <1>6, <1>7, <1>12, <1>13 DEF InFlight

(* ack_window stops at the packet the acknowledgement asks for, if it is   *)
(* in the list.                                                            *)
LEMMA ReleasesNoMore ==
  ASSUME InOrder, Inv, SentInv, NEW m, m.seq \in Seqnum, NEW k \in 0 .. Len(sList),
         Releases(sList, m.seq, k)
  PROVE  k <= Acks(m)
<1>1. /\ Len(sList) \in Nat /\ DOMAIN sList = 1 .. Len(sList) /\ First \in Nat
      /\ SeqSpace \in Nat
  BY SenderFacts, TopFacts, WindowAssumption
<1>2. PICK d \in 0 .. SeqSpace - 1 : d = Acks(m) /\ m.seq = (First + d) % SeqSpace
  <2>1. PICK e \in Int, s \in Seqnum : e = First /\ s = m.seq
    BY <1>1
  <2>2. /\ Dist(e % SeqSpace, s) \in 0 .. SeqSpace - 1
        /\ s = (e + Dist(e % SeqSpace, s)) % SeqSpace
    BY PacketAt
  <2> QED
    BY <2>1, <2>2 DEF Acks
<1>3. ASSUME d < k PROVE FALSE
  <2>1. d + 1 \in 1 .. k /\ d + 1 \in DOMAIN sList
    BY <1>1, <1>3
  <2>2. sList[d + 1].seq = sList[d + 1].pay % SeqSpace /\ sList[d + 1].pay = First + (d + 1) - 1
    BY <2>1 DEF SentInv, InFile
  <2>3. First + (d + 1) - 1 = First + d
    BY <1>1
  <2>4. sList[d + 1].seq = m.seq
    BY <1>2, <2>2, <2>3
  <2>5. seqnum_in_window(sList[d + 1].seq, m.seq, sList[d + 1].seq)
    BY <2>1 DEF Releases
  <2> QED
    BY <2>4, <2>5 DEF seqnum_in_window, Unwrap, Seqnum
<1> QED
  BY <1>1, <1>2, <1>3

(* One response is read.  None shrinks the window, so that nothing is ever *)
(* read again from the file.                                               *)
LEMMA ReadInOrder ==
  ASSUME InOrder, Inv, Inv', InOrderInv, NEW n \in DOMAIN toSender, SRead(n),
         UNCHANGED receiverVars
  PROVE  InOrderInv'
<1>1. /\ sList \in Seq(Pkt) /\ Len(sList) \in Nat /\ DOMAIN sList = 1 .. Len(sList)
      /\ Len(sList) <= sWindow /\ sWindow \in 1 .. MaxWindow
      /\ fec \in Seq(0 .. Len(sList)) /\ fec' \in Seq(0 .. Len(sList'))
      /\ sPc = "read" /\ (lastPkt => sEof)
      /\ sEof \in BOOLEAN /\ lastPkt \in BOOLEAN
  BY SenderFacts DEF WindowSize, SRead, Inv, SenderInv, GroupInv, SenderControl
<1>2. /\ Top \in Int /\ First \in Nat /\ First + Len(sList) = Top
      /\ global_pkt \in 0 .. FileLen
  BY TopFacts DEF InOrderInv, SenderSide, SentInv
<1>3. n = 1
  BY LenProperties DEF SRead, Arrived, InOrder, Inv, LinkInv, ResponseChannel
<1>4. PICK m : m = toSender[1]
  OBVIOUS
<1>5. /\ m \in Response /\ m.type = "ACK" /\ sWindow <= m.win
  <2>1. m \in Response
    BY <1>3, <1>4, LenProperties, ElementOfSeq DEF Inv, LinkInv, ResponseChannel
  <2> QED
    BY <1>3, <1>4, <2>1 DEF InOrderInv, InFlight, AnswerInv
<1>6. /\ toSender' = RemoveAt(toSender, 1) /\ UNCHANGED toReceiver
      /\ IF pkt_decode(m) = "PKT_OK" THEN HandleResponse(m)
         ELSE sPc' = "poll" /\ UNCHANGED <<window, sEof, lastPkt, global_pkt, fec>>
  BY <1>3, <1>4 DEF SRead
<1>7. PICK k \in 0 .. Len(sList) :
        /\ k <= Acks(m)
        /\ sList' = SubSeq(sList, k + 1, Len(sList))
        /\ fec' = IF k > 0 THEN <<>> ELSE fec
        /\ sPc' \in {"poll", "acked"}
        /\ sPc' = "acked" => lastPkt /\ k = Len(sList)
        /\ sWindow' \in {sWindow, m.win}
        /\ UNCHANGED <<sTail, sEof, lastPkt, global_pkt>>
  <2>1. m.seq \in Seqnum /\ Acks(m) \in 0 .. SeqSpace - 1
    BY <1>2, <1>5, PacketAt DEF Response, Acks
  <2>2. CASE pkt_decode(m) # "PKT_OK"
    <3>1. SubSeq(sList, 0 + 1, Len(sList)) = sList
      BY <1>1, SubSeqFull
    <3>2. sPc' = "poll" /\ UNCHANGED <<sList, sWindow, sTail, sEof, lastPkt, global_pkt, fec>>
      BY <1>6, <2>2 DEF window
    <3> QED
      BY <1>1, <2>1, <3>1, <3>2, WindowAssumption
  <2>3. CASE pkt_decode(m) = "PKT_OK"
    <3>1. HandleResponse(m) /\ ~(m.win < sWindow)
      BY <1>1, <1>5, <1>6, <2>3 DEF Response, WindowSize
    <3>2. PICK k \in 0 .. Len(sList) :
            /\ IF can_ack_window(sHead, sTail, m.seq) THEN Releases(sList, m.seq, k) ELSE k = 0
            /\ sList' = SubSeq(sList, k + 1, Len(sList))
            /\ fec' = GroupAfterAck(Dangling(fec, Len(sList)), k)
            /\ sPc' = IF lastPkt' /\ k = Len(sList) THEN "acked" ELSE "poll"
      BY <1>5, <3>1 DEF HandleResponse
    <3>3. /\ sWindow' = m.win /\ global_pkt' = global_pkt - (Len(sList) - Len(sList))
          /\ sTail' = sTail /\ sEof' = sEof /\ lastPkt' = lastPkt
      BY <1>1, <3>1 DEF HandleResponse, UnlessShrunk, ReadAgain
    <3>4. k <= Acks(m)
      <4>1. CASE Releases(sList, m.seq, k)
        BY <2>1, <4>1, ReleasesNoMore DEF InOrderInv, SenderSide
      <4>2. CASE k = 0
        BY <2>1, <4>2, WindowAssumption
      <4> QED
        BY <3>2, <4>1, <4>2
    <3>5. Dangling(fec, Len(sList)) = fec
      <4>1. Len(fec) \in Nat /\ DOMAIN fec = 1 .. Len(fec)
        BY <1>1, LenProperties
      <4>2. \A i \in DOMAIN fec : ~(fec[i] > Len(sList))
        <5> SUFFICES ASSUME NEW i \in 1 .. Len(fec) PROVE ~(fec[i] > Len(sList))
          BY <4>1
        <5>1. fec[i] \in 0 .. Len(sList)
          BY <1>1, ElementOfSeq
        <5> QED
          BY <1>1, <5>1
      <4>3. fec = [i \in DOMAIN fec |-> fec[i]]
        BY <1>1
      <4> QED
        BY <4>2, <4>3 DEF Dangling
    <3>6. global_pkt' = global_pkt
      BY <1>1, <1>2, <3>3
    <3> QED
      BY <3>2, <3>3, <3>4, <3>5, <3>6 DEF GroupAfterAck
  <2> QED
    BY <2>2, <2>3
<1>8. /\ sList' \in Seq(Pkt) /\ Len(sList') = Len(sList) - k
      /\ DOMAIN sList' = 1 .. Len(sList) - k
      /\ \A i \in 1 .. Len(sList) - k : sList'[i] = sList[k + i]
  BY <1>1, <1>7, SuffixType
<1>9. Top' = Top /\ First' = First + k
  <2>1. Top' = Top
    BY <1>1, <1>7 DEF Top
  <2> QED
    BY <1>1, <1>2, <1>8, <2>1 DEF First
<1>10. SentInv'
  <2>1. ASSUME NEW i \in DOMAIN sList'
        PROVE  sList'[i].pay = First' + i - 1 /\ InFile(sList'[i])
    <3>1. i \in 1 .. Len(sList) - k /\ k + i \in DOMAIN sList /\ sList'[i] = sList[k + i]
      BY <1>1, <1>8
    <3>2. sList[k + i].pay = First + (k + i) - 1 /\ InFile(sList[k + i])
      BY <3>1 DEF InOrderInv, SenderSide, SentInv
    <3> QED
      BY <1>2, <1>9, <3>1, <3>2
  <2>2. First' >= 0
    BY <1>2, <1>9
  <2>3. sPc' = "acked" => lastPkt' /\ sList' = <<>>
    <3> SUFFICES ASSUME sPc' = "acked" PROVE lastPkt' /\ sList' = <<>>
      OBVIOUS
    <3>1. lastPkt /\ k = Len(sList) /\ lastPkt' = lastPkt
      BY <1>7
    <3>2. Len(sList') = 0
      BY <1>1, <1>8, <3>1
    <3> QED
      BY <1>8, <3>1, <3>2, EmptySeq
  <2>4. sPc' # "parity" /\ UNCHANGED <<sTail, sEof, lastPkt, global_pkt>>
    BY <1>7
  <2> QED
    BY <2>1, <2>2, <2>3, <2>4 DEF SentInv, InFile, InOrderInv, SenderSide
<1>11. GroupedInv'
  <2>1. Len(<<>>) = 0 /\ DOMAIN <<>> = {} /\ GroupSize \in Nat \ {0}
    BY SenderAssumption
  <2> QED
    BY <1>1, <1>7, <2>1 DEF GroupedInv, InOrderInv, SenderSide
<1>12. ReceiverSide' /\ InFlight'
  <2>1. /\ 1 \in DOMAIN toSender /\ UNCHANGED <<receiverVars, toReceiver>>
        /\ sWindow' \in {sWindow, toSender[1].win} /\ k \in Nat /\ k <= Acks(toSender[1])
    BY <1>3, <1>4, <1>6, <1>7
  <2> QED
    BY <1>6, <1>9, <2>1, AnswerTaken
<1> QED
  BY <1>10, <1>11, <1>12 DEF InOrderInv, SenderSide

(* Every step of the sender.  No pread and no write fails.                 *)
LEMMA SenderStepInOrder ==
  ASSUME InOrder, Inv, Inv', InOrderInv, SenderStep
  PROVE  InOrderInv'
<1>1. UNCHANGED receiverVars
  BY DEF SenderStep
<1>2. ~SFillUnread
  BY FileAssumption DEF SFillUnread, Fault, InOrder, InOrderInv, SenderSide, SentInv
<1>3. ~SReadFails
  BY SenderFacts DEF SReadFails
<1> QED
  BY <1>1, <1>2, <1>3, PollInOrder, FillInOrder, ParityInOrder, FinalInOrder, ResendInOrder,
     ReadInOrder
  DEF SenderStep

(* The unwrapped place of an awaited packet: as far from the expected      *)
(* packet as its number is from the expected number.                       *)
LEMMA AwaitedAt ==
  ASSUME InOrder, Inv, InOrderInv, NEW p \in Pkt, Awaited(p)
  PROVE  /\ Dist(rHead, p.seq) \in 0 .. SeqSpace - 1
         /\ p.pay = Expected + Dist(rHead, p.seq)
         /\ Dist(rHead, p.seq) < rWindow
<1>1. /\ p.pay \in Int /\ Expected \in Int /\ Top \in Int /\ First \in Int
      /\ Expected <= p.pay /\ p.pay < Top /\ Top <= First + sWindow
      /\ sWindow \in WindowSize /\ rWindow \in WindowSize
  BY OutFacts, TopFacts, SenderFacts, ReceiverFacts, FileAssumption
  DEF Pkt, Payload, Awaited, InOrderInv, SenderSide
<1>2. First <= Expected /\ sWindow <= rWindow /\ rHead = Expected % SeqSpace
  BY DEF InOrderInv, ReceiverSide, ExpectedInv
<1>3. p.seq = p.pay % SeqSpace
  BY DEF Awaited, InFile
<1>4. p.pay - Expected \in 0 .. SeqSpace - 1 /\ p.pay - Expected < rWindow
  BY <1>1, <1>2, WindowAssumption DEF WindowSize
<1>5. PICK u \in Int, e \in Int : u = p.pay /\ e = Expected
  BY <1>1
<1>6. Dist(e % SeqSpace, u % SeqSpace) = u - e
  BY <1>4, <1>5, DistOfPackets
<1> QED
  BY <1>1, <1>2, <1>3, <1>4, <1>5, <1>6

(* The number d steps after that of packet e.                              *)
LEMMA NumberForward ==
  ASSUME NEW e \in Int, NEW d \in 0 .. SeqSpace - 1
  PROVE  ((e % SeqSpace) + d) % SeqSpace = (e + d) % SeqSpace
<1>1. PICK h \in Seqnum : h = e % SeqSpace
  BY ModType
<1>2. PICK s \in Seqnum : s = (h + d) % SeqSpace /\ Dist(h, s) = d
  BY DistForward
<1>3. s = (e + Dist(e % SeqSpace, s)) % SeqSpace
  BY PacketAt
<1> QED
  BY <1>1, <1>2, <1>3

(* flush_file writes the chunks that come next.                            *)
LEMMA WrittenInOrder ==
  ASSUME InOrder, Inv, InOrderInv, rPc = "run", NEW list \in Seq(Pkt),
         \A i \in DOMAIN list : Awaited(list[i]), NEW k \in 0 .. Len(list),
         \A i \in 1 .. k : Dist(rHead, list[i].seq) = i - 1,
         out' = out \o [i \in 1 .. k |-> list[i].pay]
  PROVE  /\ Len(out') = Len(out) + k /\ Integrity'
         /\ \A i \in 1 .. k : list[i].pay = Len(out) + i - 1
<1>1. /\ out \in Seq(Payload) /\ Len(out) \in Nat /\ DOMAIN out = 1 .. Len(out)
      /\ Expected = Len(out) /\ \A i \in 1 .. Len(out) : out[i] = i - 1
  <2>1. out \in Seq(Payload)
    <3>1. 0 .. FileLen - 1 \subseteq Payload
      BY FileAssumption DEF Payload
    <3> QED
      BY <3>1, OutFacts, SeqMonotonic
  <2> QED
    BY <2>1, OutFacts DEF InOrderInv, ReceiverSide, OutInv, Integrity
<1>2. Len(list) \in Nat /\ DOMAIN list = 1 .. Len(list) /\ k \in Nat
  BY LenProperties
<1>3. \A i \in 1 .. k : list[i].pay = Len(out) + i - 1 /\ list[i].pay \in Payload
  <2> SUFFICES ASSUME NEW i \in 1 .. k
               PROVE  list[i].pay = Len(out) + i - 1 /\ list[i].pay \in Payload
    OBVIOUS
  <2>1. i \in 1 .. Len(list)
    BY <1>2
  <2>2. list[i] \in Pkt /\ Awaited(list[i])
    BY <1>2, <2>1, ElementOfSeq
  <2>3. list[i].pay = Expected + Dist(rHead, list[i].seq)
    BY <2>2, AwaitedAt
  <2>4. Dist(rHead, list[i].seq) = i - 1
    OBVIOUS
  <2> QED
    BY <1>1, <2>1, <2>2, <2>3, <2>4 DEF Pkt
<1>4. PICK chunks : chunks = [i \in 1 .. k |-> list[i].pay]
  OBVIOUS
<1>5. chunks \in Seq(Payload) /\ Len(chunks) = k /\ \A i \in 1 .. k : chunks[i] = Len(out) + i - 1
  BY <1>2, <1>3, <1>4
<1>6. /\ out' \in Seq(Payload) /\ Len(out') = Len(out) + k
      /\ \A i \in 1 .. Len(out) + k :
           out'[i] = IF i <= Len(out) THEN out[i] ELSE chunks[i - Len(out)]
  BY <1>1, <1>4, <1>5, ConcatProperties
<1>7. DOMAIN out' = 1 .. Len(out) + k
  BY <1>6, LenProperties
<1>8. ASSUME NEW i \in 1 .. Len(out) + k PROVE out'[i] = i - 1
  <2>1. CASE i <= Len(out)
    BY <1>1, <1>2, <1>6, <2>1
  <2>2. CASE ~(i <= Len(out))
    <3>1. i - Len(out) \in 1 .. k
      BY <1>1, <1>2, <2>2
    <3>2. out'[i] = chunks[i - Len(out)]
      BY <1>6, <2>2
    <3>3. chunks[i - Len(out)] = Len(out) + (i - Len(out)) - 1
      BY <1>5, <3>1
    <3> QED
      BY <1>1, <1>2, <3>2, <3>3
  <2> QED
    BY <2>1, <2>2
<1> QED
  BY <1>3, <1>6, <1>7, <1>8 DEF Integrity

(* flush_file on a list of awaited packets: what it leaves expected comes  *)
(* next in the file, and so does what it leaves in the list; after the     *)
(* final packet the file is written.                                       *)
LEMMA FlushInOrder ==
  ASSUME InOrder, Inv, InOrderInv, rPc = "run", NEW list \in Seq(Pkt),
         Increases(list, rHead), Reaches(list, rHead, 0),
         \A i \in DOMAIN list : Awaited(list[i]), NEW ack, NEW size,
         Flush(list, ack, size, <<>>)
  PROVE  /\ rWindow' = size
         /\ Expected' \in Int /\ Expected <= Expected' /\ rHead' = Expected' % SeqSpace
         /\ Expected' = Expected \/ \E j \in DOMAIN list : Expected' = list[j].pay + 1
         /\ OutInv'
         /\ rPc' # "done" =>
              \A i \in DOMAIN rList' : Holds(list, rList'[i]) /\ Expected' < rList'[i].pay
         /\ \E msgs \in {<<>>, <<Respond("ACK", rHead', size)>>} :
              toSender' = Push(toSender, msgs)
<1>1. PICK k \in 0 .. Len(list), broken \in BOOLEAN :
        /\ IF broken
             THEN /\ \E j \in k + 1 .. Len(list) : Flushable(list, j)
                  /\ Fault("stdout")
             ELSE /\ Flushable(list, k)
                  /\ UNCHANGED faults
        /\ LET rest  == SubSeq(list, k + 1, Len(list))
               final == ~broken /\ k < Len(list) /\ Follows(list, k + 1)
               head  == (rHead + IF final THEN k + 1 ELSE k) % SeqSpace
           IN  /\ rList' = rest
               /\ out' = out \o [i \in 1 .. k |-> list[i].pay]
               /\ rHead' = head
               /\ rWindow' = size
               /\ resent_ack' = (ack \/ rest = <<>>)
               /\ rPc' = IF final \/ broken THEN "done" ELSE "run"
               /\ toSender' = Push(toSender,
                    IF final \/ broken THEN Append(<<>>, Respond("ACK", head, size))
                    ELSE <<>>)
  BY DEF Flush
<1> DEFINE final == ~broken /\ k < Len(list) /\ Follows(list, k + 1)
<1>2. /\ k \in Nat /\ Len(list) \in Nat /\ k <= Len(list) /\ DOMAIN list = 1 .. Len(list)
      /\ Len(list) < SeqSpace /\ SeqSpace \in Nat /\ 2 < SeqSpace
      /\ rHead \in Seqnum /\ Expected \in Nat /\ Expected = Len(out)
      /\ rHead = Expected % SeqSpace
  <2>1. rHead \in Seqnum
    BY ReceiverFacts
  <2>2. Len(list) = 0 \/ Len(list) <= MaxWindow + 2
    BY <2>1, IncreasesBound
  <2>3. Len(list) \in Nat /\ DOMAIN list = 1 .. Len(list)
    BY LenProperties
  <2>4. Len(list) < SeqSpace /\ 2 < SeqSpace
    BY <2>2, <2>3, WindowAssumption
  <2> QED
    BY <2>1, <2>3, <2>4, OutFacts, WindowAssumption
    DEF InOrderInv, ReceiverSide, ExpectedInv, OutInv
<1>3. Flushed(list, k)
  <2>1. \A i \in 1 .. k : Follows(list, i) /\ list[i].pay # Empty
    BY <1>1, <1>2 DEF Flushable
  <2>2. rPc' = "run" => /\ rHead' = (rHead + k) % SeqSpace
                        /\ k < Len(list) => ~Follows(list, k + 1)
    BY <1>1
  <2> QED
    BY <1>1, <2>1, <2>2 DEF Flushed
<1>4. \A i \in 1 .. k : Dist(rHead, list[i].seq) = i - 1
  BY <1>2, <1>3, FlushIncreases
<1>5. /\ Len(out') = Expected + k /\ Integrity'
      /\ \A i \in 1 .. k : list[i].pay = Expected + i - 1
  BY <1>1, <1>2, <1>4, WrittenInOrder
<1>6. /\ rHead' = (rHead + IF final THEN k + 1 ELSE k) % SeqSpace
      /\ rPc' = IF final \/ broken THEN "done" ELSE "run"
      /\ toSender' = Push(toSender, IF final \/ broken THEN <<Respond("ACK", rHead', size)>> ELSE <<>>)
      /\ rWindow' = size /\ (broken => "stdout" \in Faults)
      /\ ~broken => Flushable(list, k)
  BY <1>1 DEF Fault
<1>7. ASSUME final
      PROVE  /\ Expected' = Len(out') + 1 /\ rHead' = Expected' % SeqSpace
             /\ Len(out') = FileLen /\ k + 1 \in DOMAIN list
             /\ Expected' = list[k + 1].pay + 1
  <2>1. k + 1 \in 1 .. Len(list) /\ k + 1 <= SeqSpace /\ k + 1 \in 0 .. SeqSpace - 1
        /\ (k + 1) - 1 = k
    BY <1>2, <1>7
  <2>2. Dist(rHead, list[k + 1].seq) = k
    BY <1>2, <1>7, <2>1, FollowsAtDistance
  <2>3. list[k + 1].pay = Expected + k
    <3>1. list[k + 1] \in Pkt /\ Awaited(list[k + 1])
      BY <1>2, <2>1, ElementOfSeq
    <3> QED
      BY <2>2, <3>1, AwaitedAt
  <2>4. list[k + 1].pay = FileLen
    BY <1>6, <1>7 DEF Flushable, Empty
  <2>5. rHead' = (Expected + (k + 1)) % SeqSpace
    <3>1. rHead' = (rHead + (k + 1)) % SeqSpace
      BY <1>6, <1>7
    <3>2. PICK e \in Int, d \in 0 .. SeqSpace - 1 : e = Expected /\ d = k + 1
      BY <1>2, <2>1
    <3>3. ((e % SeqSpace) + d) % SeqSpace = (e + d) % SeqSpace
      BY NumberForward
    <3> QED
      BY <1>2, <3>1, <3>2, <3>3
  <2>6. PICK u \in Int : u = Len(out')
    BY <1>2, <1>5
  <2>7. Dist(u % SeqSpace, (u + 1) % SeqSpace) = 1
        /\ u % SeqSpace \in Seqnum /\ (u + 1) % SeqSpace \in Seqnum
    <3>1. (u + 1) - u = 1 /\ (u + 1) - u \in 0 .. SeqSpace - 1 /\ u + 1 \in Int
      BY <1>2
    <3> QED
      BY <3>1, DistOfPackets
  <2>8. rHead' = (u + 1) % SeqSpace /\ rHead' # u % SeqSpace
    <3>1. u + 1 = Expected + (k + 1)
      BY <1>2, <1>5, <2>6
    <3>2. (u + 1) % SeqSpace # u % SeqSpace
      BY <2>7, DistTells
    <3> QED
      BY <2>5, <3>1, <3>2
  <2>9. Expected' = Len(out') + 1
    BY <2>6, <2>8 DEF Expected
  <2> QED
    BY <1>2, <1>5, <2>1, <2>3, <2>4, <2>6, <2>8, <2>9
<1>8. ASSUME ~final
      PROVE  Expected' = Len(out') /\ rHead' = Expected' % SeqSpace
  <2>1. rHead' = (Expected + k) % SeqSpace
    <3>1. k \in 0 .. SeqSpace - 1
      BY <1>2
    <3>2. rHead' = (rHead + k) % SeqSpace
      BY <1>6, <1>8
    <3> QED
      BY <1>2, <3>1, <3>2, NumberForward
  <2> QED
    BY <1>5, <2>1 DEF Expected
<1>9. /\ Expected' \in Int /\ Expected <= Expected' /\ rHead' = Expected' % SeqSpace
      /\ Expected' = Expected \/ \E j \in DOMAIN list : Expected' = list[j].pay + 1
  <2>1. CASE final
    <3>1. Expected' = Expected + k + 1
      BY <1>5, <1>7, <2>1
    <3> HIDE DEF final
    <3>2. Expected' \in Int /\ Expected <= Expected'
      BY <1>2, <3>1
    <3> QED
      BY <1>7, <2>1, <3>2
  <2>2. CASE ~final
    <3>1. Expected' = Expected + k
      BY <1>5, <1>8, <2>2
    <3>2. CASE k = 0
      BY <1>2, <1>8, <2>2, <3>1, <3>2
    <3>3. CASE k # 0
      <4>1. k \in 1 .. k /\ k \in DOMAIN list
        BY <1>2, <3>3
      <4>2. list[k].pay = Expected + k - 1
        BY <1>5, <4>1
      <4>3. Expected' = list[k].pay + 1
        BY <1>2, <3>1, <4>2
      <4> QED
        BY <1>2, <1>8, <2>2, <3>1, <4>1, <4>3
    <3> QED
      BY <3>2, <3>3
  <2> QED
    BY <2>1, <2>2
<1>10. OutInv'
  <2>1. rPc' # "done" => Expected' = Len(out')
    BY <1>6, <1>8
  <2>2. Expected' # Len(out') => Len(out') = FileLen
    BY <1>7, <1>8
  <2>3. rPc' = "done" /\ "stdout" \notin Faults => Expected' # Len(out')
    <3> SUFFICES ASSUME rPc' = "done", "stdout" \notin Faults PROVE Expected' # Len(out')
      OBVIOUS
    <3>1. final
      BY <1>6
    <3>2. Expected' = Len(out') + 1 /\ Len(out') \in Int
      BY <1>2, <1>5, <1>7, <3>1
    <3> QED
      BY <3>2
  <2> QED
    BY <1>5, <2>1, <2>2, <2>3 DEF OutInv
<1>11. ASSUME rPc' # "done", NEW i \in DOMAIN rList'
       PROVE  Holds(list, rList'[i]) /\ Expected' < rList'[i].pay
  <2>1. rPc' = "run" /\ ~final
    BY <1>6, <1>11
  <2>2. Expected' = Expected + k
    BY <1>5, <1>8, <2>1
  <2>3. /\ DOMAIN rList' = 1 .. Len(list) - k
        /\ \A j \in 1 .. Len(list) - k : rList'[j] = list[k + j]
    BY <1>1, SuffixType
  <2>4. k + i \in k + 1 .. Len(list) /\ k + i \in DOMAIN list /\ rList'[i] = list[k + i]
    BY <1>2, <1>11, <2>3
  <2>5. Dist(rHead, list[k + i].seq) > k
    BY <1>2, <1>3, <2>1, <2>4, FlushIncreases
  <2>6. /\ list[k + i].pay = Expected + Dist(rHead, list[k + i].seq)
        /\ Dist(rHead, list[k + i].seq) \in 0 .. SeqSpace - 1
    <3>1. list[k + i] \in Pkt /\ Awaited(list[k + i])
      BY <1>2, <2>4, ElementOfSeq
    <3> QED
      BY <3>1, AwaitedAt
  <2>7. Expected' < rList'[i].pay
    BY <1>2, <2>2, <2>4, <2>5, <2>6
  <2> QED
    BY <2>4, <2>7 DEF Holds
<1> QED
  BY <1>6, <1>9, <1>10, <1>11

-----------------------------------------------------------------------------
(* A step of the receiver or of the network leaves the sender as it is.    *)
LEMMA SenderSideKept ==
  ASSUME SenderSide, UNCHANGED senderVars
  PROVE  SenderSide' /\ Top' = Top /\ First' = First /\ sWindow' = sWindow
<1>1. UNCHANGED <<sPc, sList, sWindow, sTail, sEof, lastPkt, global_pkt, fec>>
  BY DEF senderVars, window, flags
<1>2. Top' = Top /\ First' = First
  BY <1>1 DEF Top, First
<1>3. SentInv'
  BY <1>1, <1>2 DEF SenderSide, SentInv, InFile
<1>4. GroupedInv'
  BY <1>1 DEF SenderSide, GroupedInv
<1> QED
  BY <1>1, <1>2, <1>3, <1>4 DEF SenderSide

(* A packet that is_in_window lets in is one the receiver awaits: one it   *)
(* has had already is too far behind to pass for a packet to come.         *)
LEMMA ArrivalIsAwaited ==
  ASSUME InOrder, Inv, InOrderInv, NEW m \in NumberedMsg, m.type = "DATA", Made(m), Near(m),
         InWindow(m)
  PROVE  Stored(m) \in Pkt /\ Awaited(Stored(m))
<1>1. /\ m.pay \in Int /\ m.seq \in Seqnum /\ Expected \in Int
      /\ rHead \in Seqnum /\ rWindow \in WindowSize
      /\ Stored(m) \in Pkt /\ Stored(m).pay = m.pay /\ Stored(m).seq = m.seq
  BY OutFacts, ReceiverFacts, FileAssumption
  DEF NumberedMsg, DataMsg, Pkt, Payload, Stored
<1>2. /\ m.seq = m.pay % SeqSpace /\ m.pay < Top /\ Expected <= m.pay + MaxWindow
      /\ rHead = Expected % SeqSpace
  BY DEF Made, Near, InFile, InOrderInv, ReceiverSide, ExpectedInv
<1>3. Dist(rHead, m.seq) <= rWindow + 1
  BY <1>1, Accepts DEF InWindow
<1>4. ASSUME m.pay < Expected PROVE FALSE
  <2>1. PICK u \in Int, e \in Int : u = m.pay /\ e = Expected
    BY <1>1
  <2>2. e - u \in 1 .. MaxWindow
    BY <1>2, <1>4, <2>1, WindowAssumption
  <2>3. e - u \in 1 .. SeqSpace
    BY <2>2, WindowAssumption
  <2>4. Dist(e % SeqSpace, u % SeqSpace) = u - e + SeqSpace
    BY <2>3, DistOfPackets
  <2>5. Dist(rHead, m.seq) = u - e + SeqSpace
    BY <1>2, <2>1, <2>4
  <2> QED
    BY <1>1, <1>3, <2>1, <2>2, <2>5, WindowAssumption DEF InOrder, WindowSize
<1> QED
  BY <1>1, <1>2, <1>4 DEF Awaited, InFile

(* Awaited packets are comparable, the window may wrap.                    *)
LEMMA AwaitedComparable ==
  ASSUME InOrder, Inv, InOrderInv, rPc = "run", NEW m \in NumberedMsg, Made(m), Near(m),
         RStore(m)
  PROVE  Comparables(m)
<1>1. /\ rList \in Seq(Pkt) /\ DOMAIN rList = 1 .. Len(rList) /\ rHead \in Seqnum
      /\ rWindow \in WindowSize
  BY ReceiverFacts, LenProperties
<1>2. ASSUME NEW p \in Pkt, Awaited(p) PROVE Comparable(rHead, rWindow, p.seq)
  <2>1. Dist(rHead, p.seq) \in 0 .. SeqSpace - 1 /\ Dist(rHead, p.seq) < rWindow
    BY <1>2, AwaitedAt
  <2> QED
    BY <1>1, <2>1, WindowAssumption DEF Comparable, Seqnum, WindowSize
<1>3. ASSUME NEW i \in DOMAIN rList PROVE Comparable(rHead, rWindow, rList[i].seq)
  <2>1. rList[i] \in Pkt /\ Awaited(rList[i])
    BY <1>1, ElementOfSeq DEF InOrderInv, ReceiverSide, StoredInv
  <2> QED
    BY <1>2, <2>1
<1>4. Comparable(rHead, rWindow, m.seq)
  <2>1. Stored(m) \in Pkt /\ Awaited(Stored(m)) /\ Stored(m).seq = m.seq
    BY ArrivalIsAwaited DEF RStore, Stored
  <2> QED
    BY <1>2, <2>1
<1> QED
  BY <1>3, <1>4 DEF Comparables

(* The oldest data packet leaves the channel, and those behind it are      *)
(* still near what the receiver has now.                                   *)
LEMMA ArrivalDataInv ==
  ASSUME InOrder, Inv, InOrderInv, rPc = "run", UNCHANGED senderVars,
         1 \in DOMAIN toReceiver, toReceiver' = RemoveAt(toReceiver, 1),
         NEW list \in Seq(Pkt),
         \A j \in DOMAIN list : \/ Holds(rList, list[j])
                                \/ /\ toReceiver[1].type = "DATA"
                                   /\ list[j].pay = toReceiver[1].pay,
         Expected' = Expected \/ \E j \in DOMAIN list : Expected' = list[j].pay + 1,
         rPc' # "done" => \A i \in DOMAIN rList' : Holds(list, rList'[i])
  PROVE  DataInv'
<1>1. toReceiver \in Seq(NumberedMsg)
  BY DEF Inv, LinkInv, DataChannel
<1>2. \A i \in DOMAIN toReceiver' :
        /\ Origin(1, i) \in DOMAIN toReceiver
        /\ toReceiver'[i] = toReceiver[Origin(1, i)]
        /\ \A j \in DOMAIN toReceiver' : i < j => Origin(1, i) < Origin(1, j)
  BY <1>1, RemoveElements
<1>3. Top' = Top
  BY SenderSideKept DEF InOrderInv
<1>4. DataInv
  BY DEF InOrderInv, InFlight
<1>5. MadeInv'
  <2> SUFFICES ASSUME NEW i \in DOMAIN toReceiver' PROVE Made(toReceiver[i])'
    BY DEF MadeInv
  <2>1. PICK p \in DOMAIN toReceiver : toReceiver'[i] = toReceiver[p]
    BY <1>2
  <2>2. Made(toReceiver[p])
    BY <1>4 DEF DataInv, MadeInv
  <2> QED
    BY <1>3, <2>1, <2>2 DEF Made, InFile
<1>6. CloseInv'
  <2> SUFFICES ASSUME NEW i \in DOMAIN toReceiver', NEW j \in DOMAIN toReceiver', i < j,
                      toReceiver'[i].type = "DATA", toReceiver'[j].type = "DATA"
               PROVE  toReceiver'[i].pay < toReceiver'[j].pay + MaxWindow
    BY DEF CloseInv
  <2>1. PICK p \in DOMAIN toReceiver, q \in DOMAIN toReceiver :
          toReceiver'[i] = toReceiver[p] /\ toReceiver'[j] = toReceiver[q] /\ p < q
    BY <1>2
  <2> QED
    BY <1>4, <2>1 DEF DataInv, CloseInv
<1>7. ASSUME rPc' # "done", NEW i \in DOMAIN toReceiver', toReceiver'[i].type = "DATA"
      PROVE  Near(toReceiver[i])'
  <2>1. PICK p \in DOMAIN toReceiver : p = Origin(1, i) /\ toReceiver'[i] = toReceiver[p]
    BY <1>2
  <2>2. 1 < p
    <3>1. i \in Nat /\ i >= 1
      <4>1. toReceiver' \in Seq(NumberedMsg)
        <5>1. Len(toReceiver) <= Capacity
          BY DEF Inv, LinkInv, DataChannel
        <5> QED
          BY <1>1, <5>1, RemoveFromChannel
      <4> QED
        BY <4>1, LenProperties
    <3> QED
      BY <2>1, <3>1 DEF Origin
  <2>3. Near(toReceiver[p])
    BY <1>4, <1>7, <2>1 DEF DataInv, NearInv
  <2>4. PICK bound : bound = toReceiver[p].pay + MaxWindow
    OBVIOUS
  <2>5. bound \in Int
    <3>1. toReceiver[p] \in DataMsg
      BY <1>1, LenProperties, ElementOfSeq DEF NumberedMsg
    <3> QED
      BY <2>4, <3>1, FileAssumption, WindowAssumption DEF DataMsg, Payload
  <2>6. ASSUME NEW j \in DOMAIN list PROVE list[j].pay < bound /\ list[j].pay \in Int
    <3>1. list[j].pay \in Int
      <4>1. list[j] \in Pkt
        BY LenProperties, ElementOfSeq
      <4> QED
        BY <4>1, FileAssumption DEF Pkt, Payload
    <3>2. CASE Holds(rList, list[j])
      BY <2>3, <2>4, <3>1, <3>2 DEF Near, Holds
    <3>3. CASE toReceiver[1].type = "DATA" /\ list[j].pay = toReceiver[1].pay
      BY <1>4, <1>7, <2>1, <2>2, <2>4, <3>1, <3>3 DEF DataInv, CloseInv
    <3> QED
      BY <3>2, <3>3
  <2>7. Expected' <= bound
    <3>1. CASE Expected' = Expected
      BY <2>3, <2>4, <3>1 DEF Near
    <3>2. CASE \E j \in DOMAIN list : Expected' = list[j].pay + 1
      BY <2>5, <2>6, <3>2
    <3> QED
      BY <3>1, <3>2
  <2>8. \A l \in DOMAIN rList' : rList'[l].pay < bound
    <3> SUFFICES ASSUME NEW l \in DOMAIN rList' PROVE rList'[l].pay < bound
      OBVIOUS
    <3>1. PICK j \in DOMAIN list : list[j] = rList'[l]
      BY <1>7 DEF Holds
    <3>2. list[j].pay < bound
      BY <2>6
    <3> QED
      BY <3>1, <3>2
  <2> QED
    BY <2>1, <2>4, <2>7, <2>8 DEF Near
<1>8. NearInv'
  BY <1>7 DEF NearInv
<1> QED
  BY <1>5, <1>6, <1>8 DEF DataInv

(* An acknowledgement the receiver sends asks for the packet it expects,   *)
(* which is no earlier than what the ones before it ask for.               *)
LEMMA AnswerSent ==
  ASSUME InOrder, Inv, InOrderInv, UNCHANGED senderVars,
         Expected' \in Int, Expected <= Expected', Expected' <= Top,
         rHead' = Expected' % SeqSpace, rWindow' \in WindowSize, rWindow <= rWindow',
         NEW msgs \in {<<>>, <<Respond("ACK", rHead', rWindow')>>},
         toSender' = Push(toSender, msgs)
  PROVE  AnswerInv' /\ GrowingInv'
<1>1. /\ toSender \in Seq(Response) /\ Len(toSender) <= Capacity
      /\ Expected \in Int /\ First \in Int /\ Top \in Int /\ Top <= First + MaxWindow
      /\ First <= Expected /\ sWindow \in Int /\ rWindow \in Int /\ sWindow <= rWindow
      /\ rWindow' \in Int
  BY OutFacts, TopFacts, SenderFacts, ReceiverFacts
  DEF Inv, LinkInv, ResponseChannel, InOrderInv, SenderSide, ReceiverSide, ExpectedInv,
      WindowSize
<1>2. Top' = Top /\ First' = First /\ sWindow' = sWindow
  BY SenderSideKept DEF InOrderInv
<1>3. PICK ack \in Response : ack = Respond("ACK", rHead', rWindow')
  <2>1. rHead' \in Seqnum
    BY ModType
  <2> QED
    BY <2>1 DEF Respond, Response
<1>4. /\ ack.type = "ACK" /\ ack.win = rWindow'
      /\ Dist(First % SeqSpace, ack.seq) = Expected' - First
  <2>1. PICK e \in Int, u \in Int : e = First /\ u = Expected'
    BY <1>1
  <2>2. u - e \in 0 .. SeqSpace - 1
    <3>1. e <= u
      BY <1>1, <2>1
    <3>2. u <= e + MaxWindow
      BY <1>1, <2>1, WindowAssumption
    <3> QED
      BY <3>1, <3>2, WindowAssumption
  <2>3. Dist(e % SeqSpace, u % SeqSpace) = u - e
    BY <2>2, DistOfPackets
  <2> QED
    BY <1>3, <2>1, <2>3 DEF Respond
<1>5. PICK late : late = toSender'
  OBVIOUS
<1>6. \A i \in DOMAIN late :
        IF i \in DOMAIN toSender THEN late[i] = toSender[i]
        ELSE late[i] = ack /\ i = Len(toSender) + 1
  <2>1. msgs \in {<<>>, <<ack>>}
    BY <1>3
  <2>2. msgs \in Seq(Response) /\ DOMAIN msgs \subseteq {1} /\ \A i \in DOMAIN msgs : msgs[i] = ack
    <3>1. /\ <<>> \in Seq(Response) /\ DOMAIN <<>> = {}
          /\ <<ack>> \in Seq(Response) /\ DOMAIN <<ack>> = {1} /\ <<ack>>[1] = ack
      OBVIOUS
    <3>2. CASE msgs = <<>>
      BY <3>1, <3>2
    <3>3. CASE msgs = <<ack>>
      BY <3>1, <3>3
    <3> QED
      BY <2>1, <3>2, <3>3
  <2>3. \A i \in DOMAIN Push(toSender, msgs) :
          IF i \in DOMAIN toSender THEN Push(toSender, msgs)[i] = toSender[i]
          ELSE /\ i - Len(toSender) \in DOMAIN msgs
               /\ Push(toSender, msgs)[i] = msgs[i - Len(toSender)]
    BY <1>1, <2>2, PushElements
  <2>4. Push(toSender, msgs) \in Seq(Response) /\ Len(toSender) \in Int
    BY <1>1, <2>2, PushElements, LenProperties
  <2>5. ASSUME NEW i \in DOMAIN late, i \notin DOMAIN toSender PROVE i = Len(toSender) + 1
    <3>1. i - Len(toSender) = 1
      BY <1>5, <2>2, <2>3, <2>5
    <3>2. i \in Int
      BY <1>5, <2>4, <2>5, LenProperties
    <3> QED
      BY <2>4, <3>1, <3>2
  <2> QED
    BY <1>5, <2>2, <2>3, <2>5
<1>7. DOMAIN toSender = 1 .. Len(toSender) /\ Len(toSender) \in Nat
  BY <1>1, LenProperties
<1> DEFINE acks(m) == Dist(First % SeqSpace, m.seq)
<1>8. ASSUME NEW i \in DOMAIN late
      PROVE  /\ late[i].type = "ACK" /\ late[i].win \in Int /\ acks(late[i]) \in Int
             /\ sWindow <= late[i].win /\ late[i].win <= rWindow'
             /\ acks(late[i]) <= Expected' - First
  <2>1. CASE i \in DOMAIN toSender
    <3>1. late[i] = toSender[i]
      BY <1>6, <2>1
    <3>2. /\ toSender[i].type = "ACK" /\ sWindow <= toSender[i].win /\ toSender[i].win <= rWindow
          /\ acks(toSender[i]) <= Expected - First
      BY <2>1 DEF InOrderInv, InFlight, AnswerInv, Acks
    <3>3. toSender[i].win \in Int /\ toSender[i].seq \in Seqnum
      <4>1. toSender[i] \in Response
        BY <1>1, <1>7, <2>1, ElementOfSeq
      <4> QED
        BY <4>1 DEF Response, WindowSize
    <3>4. acks(toSender[i]) \in Int
      BY <1>1, <3>3, PacketAt
    <3> HIDE DEF acks
    <3>5. acks(late[i]) \in Int /\ acks(late[i]) <= Expected - First
      BY <3>1, <3>2, <3>4
    <3>6. acks(late[i]) <= Expected' - First
      BY <1>1, <3>5
    <3>7. late[i].win \in Int /\ late[i].win <= rWindow
      BY <3>1, <3>2, <3>3
    <3>8. late[i].win <= rWindow'
      BY <1>1, <3>7
    <3> QED
      BY <3>1, <3>2, <3>5, <3>6, <3>7, <3>8
  <2>2. CASE i \notin DOMAIN toSender
    BY <1>1, <1>4, <1>6, <2>2
  <2> QED
    BY <2>1, <2>2
<1>9. AnswerInv'
  <2> SUFFICES ASSUME NEW i \in DOMAIN toSender'
               PROVE  /\ toSender'[i].type = "ACK"
                      /\ sWindow' <= toSender'[i].win /\ toSender'[i].win <= rWindow'
                      /\ Acks(toSender[i])' <= Expected' - First'
    BY DEF AnswerInv
  <2> QED
    BY <1>2, <1>5, <1>8 DEF Acks
<1>10. GrowingInv'
  <2> SUFFICES ASSUME NEW i \in DOMAIN late, NEW j \in DOMAIN late, i < j
               PROVE  late[i].win <= late[j].win /\ acks(late[i]) <= acks(late[j])
    BY <1>2, <1>5 DEF GrowingInv, Acks
  <2>1. CASE j \in DOMAIN toSender
    <3>1. i \in DOMAIN toSender
      <4>1. i \in DOMAIN toSender \/ i = Len(toSender) + 1
        BY <1>6
      <4> QED
        BY <1>7, <2>1, <4>1
    <3>2. late[i] = toSender[i] /\ late[j] = toSender[j]
      BY <1>6, <2>1, <3>1
    <3> QED
      BY <2>1, <3>1, <3>2 DEF InOrderInv, InFlight, GrowingInv, Acks
  <2>2. CASE j \notin DOMAIN toSender
    <3>1. late[j] = ack
      BY <1>6, <2>2
    <3> QED
      BY <1>4, <1>8, <3>1
  <2> QED
    BY <2>1, <2>2
<1> QED
  BY <1>9, <1>10

(* A turn of the receiver's loop that flushes list, the packets it awaits, *)
(* and leaves it a window of size packets, no smaller than before.         *)
LEMMA TurnInOrder ==
  ASSUME InOrder, Inv, InOrderInv, BufferInv', rPc = "run", UNCHANGED senderVars,
         1 \in DOMAIN toReceiver, toReceiver' = RemoveAt(toReceiver, 1),
         NEW list \in Seq(Pkt), Increases(list, rHead), Reaches(list, rHead, 0),
         \A j \in DOMAIN list : Awaited(list[j]),
         \A j \in DOMAIN list : \/ Holds(rList, list[j])
                                \/ /\ toReceiver[1].type = "DATA"
                                   /\ list[j].pay = toReceiver[1].pay,
         NEW ack, NEW size \in WindowSize, rWindow <= size, Flush(list, ack, size, <<>>)
  PROVE  InOrderInv'
<1>1. /\ rWindow' = size
      /\ Expected' \in Int /\ Expected <= Expected' /\ rHead' = Expected' % SeqSpace
      /\ Expected' = Expected \/ \E j \in DOMAIN list : Expected' = list[j].pay + 1
      /\ OutInv'
      /\ rPc' # "done" =>
           \A i \in DOMAIN rList' : Holds(list, rList'[i]) /\ Expected' < rList'[i].pay
      /\ \E msgs \in {<<>>, <<Respond("ACK", rHead', size)>>} :
           toSender' = Push(toSender, msgs)
  BY FlushInOrder
<1>2. SenderSide' /\ Top' = Top /\ First' = First /\ sWindow' = sWindow
  BY SenderSideKept DEF InOrderInv
<1>3. /\ Expected \in Int /\ First \in Int /\ Top \in Int /\ First <= Expected /\ Expected <= Top
      /\ sWindow \in Int /\ rWindow \in Int /\ size \in Int /\ sWindow <= rWindow
  BY OutFacts, TopFacts, SenderFacts, ReceiverFacts
  DEF InOrderInv, SenderSide, ReceiverSide, ExpectedInv, WindowSize
<1>4. ASSUME NEW j \in DOMAIN list
      PROVE  list[j].pay \in Int /\ list[j].pay < Top /\ InFile(list[j])
  <2>1. list[j] \in Pkt
    BY LenProperties, ElementOfSeq
  <2> QED
    BY <2>1, FileAssumption DEF Pkt, Payload, Awaited
<1>5. Expected' <= Top
  BY <1>1, <1>3, <1>4
<1>6. ExpectedInv'
  <2>1. First <= Expected' /\ sWindow <= size
    BY <1>1, <1>3
  <2> QED
    BY <1>1, <1>2, <1>5, <2>1 DEF ExpectedInv
<1>7. StoredInv'
  <2> SUFFICES ASSUME rPc' # "done", NEW i \in DOMAIN rList'
               PROVE  Awaited(rList[i])' /\ rList'[i].pay # Expected'
    BY DEF StoredInv
  <2>1. PICK j \in DOMAIN list : list[j] = rList'[i] /\ Expected' < list[j].pay
    BY <1>1 DEF Holds
  <2>2. InFile(rList'[i]) /\ Expected' <= rList'[i].pay /\ rList'[i].pay < Top
        /\ rList'[i].pay # Expected'
    BY <1>1, <1>4, <2>1
  <2> QED
    BY <1>2, <2>2 DEF Awaited, InFile
<1>8. DataInv'
  BY <1>1, ArrivalDataInv
<1>9. AnswerInv' /\ GrowingInv'
  BY <1>1, <1>5, AnswerSent
<1> QED
  BY <1>1, <1>2, <1>6, <1>7, <1>8, <1>9 DEF InOrderInv, ReceiverSide, InFlight

(* A step of the receiver that leaves its list and its output alone.       *)
LEMMA SettledInOrder ==
  ASSUME InOrder, Inv, InOrderInv, BufferInv', AnswerInv', GrowingInv', UNCHANGED senderVars,
         UNCHANGED <<rList, rHead, rWindow, out, toReceiver>>, rPc # "done", rPc' # "done"
  PROVE  InOrderInv'
<1>1. SenderSide' /\ Top' = Top /\ First' = First /\ sWindow' = sWindow
  BY SenderSideKept DEF InOrderInv
<1>2. Expected' = Expected
  BY DEF Expected
<1>3. ExpectedInv' /\ OutInv' /\ StoredInv'
  BY <1>1, <1>2
  DEF InOrderInv, ReceiverSide, ExpectedInv, OutInv, Integrity, StoredInv, Awaited, InFile
<1>4. DataInv'
  BY <1>1, <1>2
  DEF InOrderInv, InFlight, DataInv, MadeInv, Made, InFile, NearInv, Near, CloseInv
<1> QED
  BY <1>1, <1>3, <1>4 DEF InOrderInv, ReceiverSide, InFlight

(* receive_data and flush_file: the list that is flushed is the one of     *)
(* before or holds the oldest message too.  No packet is truncated.        *)
LEMMA ReceiveInOrder ==
  ASSUME InOrder, Inv, InOrderInv, BufferInv', NEW n \in DOMAIN toReceiver, RReceive(n),
         UNCHANGED senderVars
  PROVE  InOrderInv'
<1>1. n = 1 /\ rPc = "run" /\ toReceiver' = RemoveAt(toReceiver, 1) /\ 1 \in DOMAIN toReceiver
  BY LenProperties DEF RReceive, Arrived, InOrder, Inv, LinkInv, DataChannel
<1>2. PICK m \in NumberedMsg : m = toReceiver[1]
  BY <1>1, LenProperties, ElementOfSeq DEF Inv, LinkInv, DataChannel
<1>3. Made(m) /\ (m.type = "DATA" => Near(m))
  BY <1>1, <1>2 DEF InOrderInv, InFlight, DataInv, MadeInv, NearInv
<1>4. RNack(m) \/ RIgnore(m) \/ RDrop(m) \/ RStore(m)
  BY <1>1, <1>2 DEF RReceive
<1>5. ~RNack(m)
  BY <1>3 DEF Made, RNack
<1>6. /\ rList \in Seq(Pkt) /\ rHead \in Seqnum /\ rWindow \in WindowSize
      /\ Increases(rList, rHead) /\ Reaches(rList, rHead, 0)
      /\ \A i \in DOMAIN rList : Awaited(rList[i])
      /\ \A i \in DOMAIN rList : Holds(rList, rList[i])
      /\ BufferInv
  BY <1>1, ReceiverFacts, ReachesWeaken
  DEF InOrderInv, ReceiverSide, BufferInv, StoredInv, Holds
<1>7. ASSUME RIgnore(m) \/ RDrop(m) PROVE InOrderInv'
  <2>1. PICK ack : Flush(rList, ack, rWindow, <<>>)
    BY <1>7 DEF RIgnore, RDrop
  <2>2. rWindow <= rWindow
    BY <1>6 DEF WindowSize
  <2> QED
    BY <1>1, <1>6, <2>1, <2>2, TurnInOrder
<1>8. ASSUME RStore(m) PROVE InOrderInv'
  <2>1. m.type = "DATA" /\ InWindow(m)
    BY <1>8 DEF RStore
  <2>2. Stored(m) \in Pkt /\ Awaited(Stored(m)) /\ Stored(m).pay = m.pay
    BY <1>3, <2>1, ArrivalIsAwaited DEF Stored
  <2>3. Comparables(m)
    BY <1>1, <1>3, <1>8, <2>1, AwaitedComparable
  <2>4. PICK list \in Seq(Pkt) :
          /\ Increases(list, rHead) /\ Reaches(list, rHead, 0)
          /\ \A j \in DOMAIN list : list[j] = Stored(m) \/ Holds(rList, list[j])
          /\ Flush(list, m.seq # rHead,
                   IF m.seq = rHead THEN increase_window(rWindow) ELSE rWindow, <<>>)
    BY <1>1, <1>6, <1>8, <2>3, StoredList
  <2>5. \A j \in DOMAIN list : Awaited(list[j])
    BY <1>6, <2>2, <2>4 DEF Holds
  <2>6. \A j \in DOMAIN list : \/ Holds(rList, list[j])
                               \/ /\ toReceiver[1].type = "DATA"
                                  /\ list[j].pay = toReceiver[1].pay
    BY <1>2, <2>1, <2>2, <2>4
  <2>7. PICK size \in WindowSize :
          /\ rWindow <= size
          /\ size = IF m.seq = rHead THEN increase_window(rWindow) ELSE rWindow
    <3>1. /\ increase_window(rWindow) \in WindowSize /\ rWindow <= increase_window(rWindow)
          /\ rWindow <= rWindow
      BY <1>6, WindowAssumption DEF increase_window, WindowSize
    <3> QED
      BY <1>6, <3>1
  <2>8. Flush(list, m.seq # rHead, size, <<>>)
    BY <2>4, <2>7
  <2> QED
    BY <1>1, <2>4, <2>5, <2>6, <2>7, <2>8, TurnInOrder
<1> QED
  BY <1>4, <1>5, <1>7, <1>8

(* Every step of the receiver.                                             *)
LEMMA ReceiverStepInOrder ==
  ASSUME InOrder, Inv, InOrderInv, BufferInv', ReceiverStep
  PROVE  InOrderInv'
<1>1. UNCHANGED senderVars
  BY DEF ReceiverStep
<1>2. SenderSide' /\ Top' = Top /\ First' = First /\ sWindow' = sWindow
  BY <1>1, SenderSideKept DEF InOrderInv
<1>3. ASSUME RConnect \/ RTimeout PROVE InOrderInv'
  <2>1. /\ UNCHANGED <<rList, rHead, rWindow, out, toReceiver, toSender>>
        /\ rPc # "done" /\ rPc' # "done"
    BY <1>3 DEF RConnect, RTimeout, linkVars
  <2>2. AnswerInv' /\ GrowingInv'
    <3>1. Expected' = Expected
      BY <2>1 DEF Expected
    <3> QED
      BY <1>2, <2>1, <3>1, AnswersKept DEF InOrderInv, InFlight
  <2> QED
    BY <1>1, <2>1, <2>2, SettledInOrder
<1>4. ASSUME RAck PROVE InOrderInv'
  <2>1. /\ UNCHANGED <<rList, rHead, rWindow, out, toReceiver>>
        /\ rPc # "done" /\ rPc' # "done"
        /\ toSender' = Push(toSender, <<Respond("ACK", rHead, rWindow)>>)
    BY <1>4 DEF RAck
  <2>2. Expected' = Expected
    BY <2>1 DEF Expected
  <2>3. /\ Expected' \in Int /\ Expected <= Expected' /\ Expected' <= Top
        /\ rHead' = Expected' % SeqSpace /\ rWindow' \in WindowSize /\ rWindow <= rWindow'
    <3>1. Expected \in Nat /\ rWindow \in WindowSize
      BY OutFacts, ReceiverFacts
    <3> QED
      BY <2>1, <2>2, <3>1 DEF InOrderInv, ReceiverSide, ExpectedInv, WindowSize
  <2>4. PICK msgs \in {<<>>, <<Respond("ACK", rHead', rWindow')>>} :
          toSender' = Push(toSender, msgs)
    BY <2>1
  <2>5. AnswerInv' /\ GrowingInv'
    BY <1>1, <2>3, <2>4, AnswerSent
  <2> QED
    BY <1>1, <2>1, <2>5, SettledInOrder
<1> QED
  BY <1>1, <1>3, <1>4, ReceiveInOrder DEF ReceiverStep

-----------------------------------------------------------------------------
(* The network takes messages away or damages them: each that is left is   *)
(* one of before, behind the ones it was behind, with its packet.          *)
SamePacket(m, n) ==
  m.type = n.type /\ m.tr = n.tr /\ m.ok1 = n.ok1 /\ m.seq = n.seq /\ m.pay = n.pay
SameAnswer(m, n) == m.type = n.type /\ m.seq = n.seq /\ m.win = n.win

(* The network keeps the invariant of the packets when it delays, damages  *)
(* or loses some of them.                                                  *)
LEMMA DataKept ==
  ASSUME DataInv, UNCHANGED <<rPc, rList>>, Top' = Top, Expected' = Expected,
         NEW origin, \A i \in DOMAIN toReceiver' :
           /\ origin[i] \in DOMAIN toReceiver
           /\ SamePacket(toReceiver'[i], toReceiver[origin[i]])
           /\ \A j \in DOMAIN toReceiver' : i < j => origin[i] < origin[j]
  PROVE  DataInv'
<1>1. ASSUME NEW i \in DOMAIN toReceiver' PROVE Made(toReceiver[i])'
  <2>1. Made(toReceiver[origin[i]])
    BY DEF DataInv, MadeInv
  <2> QED
    BY <2>1 DEF Made, InFile, SamePacket
<1>2. ASSUME rPc' # "done", NEW i \in DOMAIN toReceiver', toReceiver'[i].type = "DATA"
      PROVE  Near(toReceiver[i])'
  <2>1. Near(toReceiver[origin[i]])
    BY <1>2 DEF DataInv, NearInv, SamePacket
  <2> QED
    BY <2>1 DEF Near, SamePacket
<1>3. ASSUME NEW i \in DOMAIN toReceiver', NEW j \in DOMAIN toReceiver', i < j,
             toReceiver'[i].type = "DATA", toReceiver'[j].type = "DATA"
      PROVE  toReceiver'[i].pay < toReceiver'[j].pay + MaxWindow
  <2>1. PICK p \in DOMAIN toReceiver, q \in DOMAIN toReceiver :
          /\ p < q /\ SamePacket(toReceiver'[i], toReceiver[p])
          /\ SamePacket(toReceiver'[j], toReceiver[q])
    BY <1>3
  <2> QED
    BY <1>3, <2>1 DEF DataInv, CloseInv, SamePacket
<1> QED
  BY <1>1, <1>2, <1>3 DEF DataInv, MadeInv, NearInv, CloseInv

(* The same for the answers.                                               *)
LEMMA AnswersLeft ==
  ASSUME AnswerInv, GrowingInv, UNCHANGED <<sWindow, rWindow>>, First' = First,
         Expected' = Expected,
         NEW origin, \A i \in DOMAIN toSender' :
           /\ origin[i] \in DOMAIN toSender
           /\ SameAnswer(toSender'[i], toSender[origin[i]])
           /\ \A j \in DOMAIN toSender' : i < j => origin[i] < origin[j]
  PROVE  AnswerInv' /\ GrowingInv'
<1>1. \A i \in DOMAIN toSender' : Acks(toSender[i])' = Acks(toSender[origin[i]])
  BY DEF Acks, SameAnswer
<1>2. AnswerInv'
  BY <1>1 DEF AnswerInv, SameAnswer
<1>3. ASSUME NEW i \in DOMAIN toSender', NEW j \in DOMAIN toSender', i < j
      PROVE  /\ toSender'[i].win <= toSender'[j].win
             /\ Acks(toSender[i])' <= Acks(toSender[j])'
  <2>1. PICK p \in DOMAIN toSender, q \in DOMAIN toSender :
          /\ p = origin[i] /\ q = origin[j] /\ p < q
          /\ SameAnswer(toSender'[i], toSender[p]) /\ SameAnswer(toSender'[j], toSender[q])
    BY <1>3
  <2>2. Acks(toSender[i])' = Acks(toSender[p]) /\ Acks(toSender[j])' = Acks(toSender[q])
    BY <1>1, <2>1
  <2> QED
    BY <2>1, <2>2 DEF GrowingInv, SameAnswer
<1> QED
  BY <1>2, <1>3 DEF GrowingInv

(* A data packet is lost, thrown away, or damaged.                         *)
LEMMA DataFaultInOrder ==
  ASSUME InOrder, Inv, InOrderInv, UNCHANGED <<senderVars, receiverVars, toSender>>,
         \/ \E k \in DOMAIN toReceiver : toReceiver' = RemoveAt(toReceiver, k)
         \/ \E k \in DOMAIN toReceiver : toReceiver' = [toReceiver EXCEPT ![k].ok2 = FALSE]
  PROVE  InOrderInv'
<1>1. toReceiver \in Seq(DataMsg) /\ DataInv
  BY SeqMonotonic DEF Inv, LinkInv, DataChannel, NumberedMsg, InOrderInv, InFlight
<1>2. /\ SenderSide' /\ Top' = Top /\ First' = First /\ sWindow' = sWindow
      /\ UNCHANGED senderVars /\ UNCHANGED receiverVars
      /\ UNCHANGED <<rPc, rList, rWindow>>
  BY SenderSideKept DEF InOrderInv, receiverVars
<1>3. ReceiverSide' /\ Expected' = Expected
  <2>1. Top \in Int /\ Top' \in Int /\ Top <= Top' /\ First' <= Expected /\ sWindow' <= rWindow
    BY <1>2, TopFacts DEF InOrderInv, SenderSide, ReceiverSide, ExpectedInv
  <2> QED
    BY <1>2, <2>1, ReceiverSideKept DEF InOrderInv
<1>4. AnswerInv' /\ GrowingInv'
  BY <1>2, <1>3, AnswersKept DEF InOrderInv, InFlight
<1>5. ASSUME NEW k \in DOMAIN toReceiver, toReceiver' = RemoveAt(toReceiver, k) PROVE DataInv'
  <2>1. PICK origin : origin = [i \in DOMAIN toReceiver' |-> Origin(k, i)]
    OBVIOUS
  <2>2. \A i \in DOMAIN toReceiver' :
          /\ Origin(k, i) \in DOMAIN toReceiver
          /\ toReceiver'[i] = toReceiver[Origin(k, i)]
          /\ \A j \in DOMAIN toReceiver' : i < j => Origin(k, i) < Origin(k, j)
    BY <1>1, <1>5, RemoveElements
  <2>3. \A i \in DOMAIN toReceiver' :
          /\ origin[i] \in DOMAIN toReceiver
          /\ SamePacket(toReceiver'[i], toReceiver[origin[i]])
          /\ \A j \in DOMAIN toReceiver' : i < j => origin[i] < origin[j]
    BY <2>1, <2>2 DEF SamePacket
  <2> QED
    BY <1>1, <1>2, <1>3, <2>3, DataKept
<1>6. ASSUME NEW k \in DOMAIN toReceiver, toReceiver' = [toReceiver EXCEPT ![k].ok2 = FALSE]
      PROVE  DataInv'
  <2>1. PICK origin : origin = [i \in DOMAIN toReceiver' |-> i]
    OBVIOUS
  <2>2. DOMAIN toReceiver' = DOMAIN toReceiver
    BY <1>1, <1>6
  <2>3. ASSUME NEW i \in DOMAIN toReceiver PROVE SamePacket(toReceiver'[i], toReceiver[i])
    <3>1. toReceiver[i] \in DataMsg
      BY <1>1, LenProperties, ElementOfSeq
    <3>2. CASE i = k
      <4>1. toReceiver'[i] = [toReceiver[i] EXCEPT !.ok2 = FALSE]
        BY <1>1, <1>6, <3>2
      <4> QED
        BY <3>1, <4>1 DEF DataMsg, SamePacket
    <3>3. CASE i # k
      <4>1. toReceiver'[i] = toReceiver[i]
        BY <1>1, <1>6, <3>3
      <4> QED
        BY <4>1 DEF SamePacket
    <3> QED
      BY <3>2, <3>3
  <2>4. \A i \in DOMAIN toReceiver' :
          /\ origin[i] \in DOMAIN toReceiver
          /\ SamePacket(toReceiver'[i], toReceiver[origin[i]])
          /\ \A j \in DOMAIN toReceiver' : i < j => origin[i] < origin[j]
    BY <2>1, <2>2, <2>3
  <2> QED
    BY <1>1, <1>2, <1>3, <2>4, DataKept
<1>7. DataInv'
  BY <1>5, <1>6
<1> QED
  BY <1>2, <1>3, <1>4, <1>7 DEF InOrderInv, InFlight

(* A response is lost or damaged.                                          *)
LEMMA AnswerFaultInOrder ==
  ASSUME InOrder, Inv, InOrderInv, UNCHANGED <<senderVars, receiverVars, toReceiver>>,
         \/ \E k \in DOMAIN toSender : toSender' = RemoveAt(toSender, k)
         \/ \E k \in DOMAIN toSender : toSender' = [toSender EXCEPT ![k].ok1 = FALSE]
  PROVE  InOrderInv'
<1>1. toSender \in Seq(Response) /\ AnswerInv /\ GrowingInv /\ DataInv
  BY DEF Inv, LinkInv, ResponseChannel, InOrderInv, InFlight
<1>2. /\ SenderSide' /\ Top' = Top /\ First' = First /\ sWindow' = sWindow
      /\ UNCHANGED senderVars /\ UNCHANGED receiverVars
      /\ UNCHANGED <<rPc, rList, rWindow>>
  BY SenderSideKept DEF InOrderInv, receiverVars
<1>3. ReceiverSide' /\ Expected' = Expected
  <2>1. Top \in Int /\ Top' \in Int /\ Top <= Top' /\ First' <= Expected /\ sWindow' <= rWindow
    BY <1>2, TopFacts DEF InOrderInv, SenderSide, ReceiverSide, ExpectedInv
  <2> QED
    BY <1>2, <2>1, ReceiverSideKept DEF InOrderInv
<1>4. DataInv'
  BY <1>1, <1>2, <1>3 DEF DataInv, MadeInv, Made, InFile, NearInv, Near, CloseInv
<1>5. ASSUME NEW k \in DOMAIN toSender, toSender' = RemoveAt(toSender, k)
      PROVE  AnswerInv' /\ GrowingInv'
  <2>1. PICK origin : origin = [i \in DOMAIN toSender' |-> Origin(k, i)]
    OBVIOUS
  <2>2. \A i \in DOMAIN toSender' :
          /\ Origin(k, i) \in DOMAIN toSender
          /\ toSender'[i] = toSender[Origin(k, i)]
          /\ \A j \in DOMAIN toSender' : i < j => Origin(k, i) < Origin(k, j)
    BY <1>1, <1>5, RemoveElements
  <2>3. \A i \in DOMAIN toSender' :
          /\ origin[i] \in DOMAIN toSender
          /\ SameAnswer(toSender'[i], toSender[origin[i]])
          /\ \A j \in DOMAIN toSender' : i < j => origin[i] < origin[j]
    BY <2>1, <2>2 DEF SameAnswer
  <2> QED
    BY <1>1, <1>2, <1>3, <2>3, AnswersLeft
<1>6. ASSUME NEW k \in DOMAIN toSender, toSender' = [toSender EXCEPT ![k].ok1 = FALSE]
      PROVE  AnswerInv' /\ GrowingInv'
  <2>1. PICK origin : origin = [i \in DOMAIN toSender' |-> i]
    OBVIOUS
  <2>2. DOMAIN toSender' = DOMAIN toSender
    BY <1>1, <1>6
  <2>3. ASSUME NEW i \in DOMAIN toSender PROVE SameAnswer(toSender'[i], toSender[i])
    <3>1. toSender[i] \in Response
      BY <1>1, LenProperties, ElementOfSeq
    <3>2. CASE i = k
      <4>1. toSender'[i] = [toSender[i] EXCEPT !.ok1 = FALSE]
        BY <1>1, <1>6, <3>2
      <4> QED
        BY <3>1, <4>1 DEF Response, SameAnswer
    <3>3. CASE i # k
      <4>1. toSender'[i] = toSender[i]
        BY <1>1, <1>6, <3>3
      <4> QED
        BY <4>1 DEF SameAnswer
    <3> QED
      BY <3>2, <3>3
  <2>4. \A i \in DOMAIN toSender' :
          /\ origin[i] \in DOMAIN toSender
          /\ SameAnswer(toSender'[i], toSender[origin[i]])
          /\ \A j \in DOMAIN toSender' : i < j => origin[i] < origin[j]
    BY <2>1, <2>2, <2>3
  <2> QED
    BY <1>1, <1>2, <1>3, <2>4, AnswersLeft
<1>7. AnswerInv' /\ GrowingInv'
  BY <1>5, <1>6
<1> QED
  BY <1>2, <1>3, <1>4, <1>7 DEF InOrderInv, InFlight

(* Every step of the network: it cuts no packet, damages no header of a    *)
(* data packet, and tells the sender of no error.                          *)
LEMMA LinkStepInOrder ==
  ASSUME InOrder, Inv, InOrderInv, LinkStep
  PROVE  InOrderInv'
<1>1. UNCHANGED senderVars /\ UNCHANGED receiverVars
  BY DEF LinkStep
<1>2. ~Truncate /\ ~CorruptHeader /\ ~SocketError
  BY DEF Truncate, CorruptHeader, SocketError, Fault, InOrder
<1>3. ASSUME LoseData \/ CorruptPayload \/ Refuse PROVE InOrderInv'
  <2>1. /\ UNCHANGED toSender
        /\ \/ \E k \in DOMAIN toReceiver : toReceiver' = RemoveAt(toReceiver, k)
           \/ \E k \in DOMAIN toReceiver : toReceiver' = [toReceiver EXCEPT ![k].ok2 = FALSE]
    <3>1. LoseData \/ CorruptPayload => UNCHANGED toSender
      BY DEF LoseData, CorruptPayload
    <3>2. ASSUME Refuse
          PROVE  /\ UNCHANGED toSender /\ 1 \in DOMAIN toReceiver
                 /\ toReceiver' = RemoveAt(toReceiver, 1)
      <4>1. toReceiver # <<>> /\ toReceiver' = Tail(toReceiver) /\ UNCHANGED toSender
        BY <3>2 DEF Refuse
      <4>2. toReceiver \in Seq(NumberedMsg)
        BY DEF Inv, LinkInv, DataChannel
      <4>3. 1 \in DOMAIN toReceiver
        BY <4>1, <4>2, EmptySeq, LenProperties
      <4> QED
        BY <4>1, <4>2, <4>3, RemoveAtEnds
    <3> QED
      BY <1>3, <3>1, <3>2 DEF LoseData, CorruptPayload
  <2> QED
    BY <1>1, <2>1, DataFaultInOrder
<1>4. ASSUME LoseResponse \/ CorruptResponse PROVE InOrderInv'
  BY <1>1, <1>4, AnswerFaultInOrder DEF LoseResponse, CorruptResponse
<1> QED
  BY <1>2, <1>3, <1>4 DEF LinkStep, LinkFault

-----------------------------------------------------------------------------
(* The invariant: it holds of the empty channels and lists, and every step *)
(* keeps it.                                                               *)
LEMMA InitInOrder ==
  ASSUME InOrder, Init
  PROVE  InOrderInv
<1>1. /\ sPc = "poll" /\ ~sEof /\ ~lastPkt /\ global_pkt = 0 /\ sList = <<>> /\ sWindow = 1
      /\ fec = <<>> /\ rPc = "wait" /\ rList = <<>> /\ rWindow = 1 /\ rHead = 0 /\ ~rEof
      /\ out = <<>> /\ toReceiver = <<>> /\ toSender = <<>>
  BY DEF Init, SenderInit, ReceiverInit, LinkInit
<1>2. Len(<<>>) = 0 /\ DOMAIN <<>> = {} /\ 0 % SeqSpace = 0
  BY WindowAssumption, ModBelow
<1>3. Top = 0 /\ First = 0 /\ Expected = 0
  BY <1>1, <1>2 DEF Top, First, Expected
<1>4. SentInv /\ GroupedInv
  BY <1>1, <1>2, <1>3, FileAssumption, SenderAssumption DEF SentInv, GroupedInv
<1>5. ExpectedInv /\ OutInv /\ StoredInv
  BY <1>1, <1>2, <1>3 DEF ExpectedInv, OutInv, Integrity, StoredInv
<1>6. BufferInv
  BY <1>1, <1>2 DEF BufferInv, Increases, Reaches
<1>7. DataInv /\ AnswerInv /\ GrowingInv
  BY <1>1, <1>2 DEF DataInv, MadeInv, NearInv, CloseInv, AnswerInv, GrowingInv
<1> QED
  BY <1>4, <1>5, <1>6, <1>7 DEF InOrderInv, SenderSide, ReceiverSide, InFlight

(* Every step keeps the invariant.                                         *)
LEMMA StepInOrder ==
  ASSUME InOrder, Inv, Inv', InOrderInv, [Next]_vars
  PROVE  InOrderInv'
<1>1. BufferInv'
  <2>1. ASSUME NEW i \in DOMAIN toReceiver, rPc = "run", RStore(toReceiver[i])
        PROVE  Comparables(toReceiver[i])
    <3>1. PICK m \in NumberedMsg : m = toReceiver[i]
      BY LenProperties, ElementOfSeq DEF Inv, LinkInv, DataChannel
    <3>2. RStore(m)
      BY <2>1, <3>1
    <3>3. Made(m) /\ Near(m)
      <4>1. m.type = "DATA"
        BY <3>2 DEF RStore
      <4> QED
        BY <2>1, <3>1, <4>1 DEF InOrderInv, InFlight, DataInv, MadeInv, NearInv
    <3> QED
      BY <2>1, <3>1, <3>2, <3>3, AwaitedComparable
  <2> QED
    BY <2>1, BufferStep DEF InOrderInv, ReceiverSide
<1>2. CASE SenderStep
  BY <1>2, SenderStepInOrder
<1>3. CASE ReceiverStep
  BY <1>1, <1>3, ReceiverStepInOrder
<1>4. CASE LinkStep
  BY <1>4, LinkStepInOrder
<1>5. CASE UNCHANGED vars
  <2>1. UNCHANGED <<receiverVars, toReceiver, toSender, sWindow>> /\ UNCHANGED senderVars
    BY <1>5 DEF vars, linkVars, senderVars, window
  <2>2. SenderSide' /\ Top' = Top /\ First' = First
    BY <2>1, SenderSideKept DEF InOrderInv
  <2> QED
    BY <2>1, <2>2, SilentStep DEF InOrderInv
<1> QED
  BY <1>2, <1>3, <1>4, <1>5 DEF Next

(* The invariant holds in every state.                                     *)
LEMMA InOrderInvariance ==
  ASSUME InOrder
  PROVE  Spec => [](Inv /\ InOrderInv)
<1>1. Init => InOrderInv
  BY InitInOrder
<1>2. Inv /\ Inv' /\ InOrderInv /\ [Next]_vars => InOrderInv'
  BY StepInOrder
<1> QED
  BY <1>1, <1>2, Invariance, PTL DEF Spec

-----------------------------------------------------------------------------
(* What was written is the beginning of the file, also when the sequence   *)
(* numbers have wrapped many times (flush_file,                            *)
(* read_write_receiver.c:520).                                             *)
THEOREM InOrderIntegrity ==
  ASSUME InOrder
  PROVE  Spec => []Integrity
<1>1. Inv /\ InOrderInv => Integrity
  BY DEF InOrderInv, ReceiverSide, OutInv
<1> QED
  BY <1>1, InOrderInvariance, PTL

(* Unless a write to the standard output fails, the receiver ends with the *)
(* whole file (flush_file, read_write_receiver.c:535).                     *)
THEOREM InOrderComplete ==
  ASSUME InOrder, "stdout" \notin Faults
  PROVE  Spec => []Complete
<1>1. Inv /\ InOrderInv => Complete
  BY DEF InOrderInv, ReceiverSide, OutInv, Complete
<1> QED
  BY <1>1, InOrderInvariance, PTL

(* A chunk that is not written is in the sender's list, where its number   *)
(* finds it (ack_window, update_window).                                   *)
THEOREM InOrderNothingForgotten ==
  ASSUME InOrder
  PROVE  Spec => []NothingForgotten
<1>1. ASSUME Inv, InOrderInv PROVE NothingForgotten
  <2> SUFFICES ASSUME rPc # "done", NEW c \in Len(out) .. global_pkt - 1
               PROVE  \E i \in DOMAIN sList : sList[i] = [seq |-> c % SeqSpace, pay |-> c]
    BY DEF NothingForgotten
  <2>1. /\ First \in Nat /\ Top \in Int /\ First + Len(sList) = Top
        /\ Len(sList) \in Nat /\ DOMAIN sList = 1 .. Len(sList)
        /\ Len(out) \in Nat /\ global_pkt \in 0 .. FileLen
    BY <1>1, TopFacts, OutFacts, SenderFacts DEF InOrderInv, SenderSide, SentInv
  <2>2. First <= Len(out)
    BY <1>1 DEF InOrderInv, ReceiverSide, ExpectedInv, OutInv
  <2>3. global_pkt <= Top
    BY <2>1, FileAssumption DEF Top
  <2>4. c - First + 1 \in DOMAIN sList
    BY <2>1, <2>2, <2>3
  <2>5. PICK i \in DOMAIN sList : i = c - First + 1
    BY <2>4
  <2>6. sList[i].pay = First + i - 1 /\ sList[i].seq = sList[i].pay % SeqSpace
    BY <1>1 DEF InOrderInv, SenderSide, SentInv, InFile
  <2>7. First + i - 1 = c
    BY <2>1, <2>5
  <2>8. sList[i] \in Pkt
    BY <1>1, ElementOfSeq, LenProperties DEF Inv, SenderInv, SenderListInv, Numbered
  <2> QED
    BY <2>6, <2>7, <2>8 DEF Pkt
<1>2. Inv /\ InOrderInv => NothingForgotten
  BY <1>1
<1> QED
  BY <1>2, InOrderInvariance, PTL

(* When every packet is acknowledged the receiver expects none of them any *)
(* more, and the final packet was among them.                              *)
LEMMA AckedIsDelivered ==
  ASSUME InOrder, Inv, InOrderInv, sPc = "acked"
  PROVE  rPc = "done" /\ Len(out) = FileLen
<1>1. lastPkt /\ Len(sList) = 0 /\ Top = FileLen + 1
  BY EmptySeq DEF InOrderInv, SenderSide, SentInv, Top
<1>2. First = FileLen + 1
  BY <1>1, FileAssumption DEF First
<1>3. /\ Expected >= FileLen + 1 /\ Expected \in Nat
      /\ Len(out) <= FileLen /\ Len(out) \in Nat
  BY <1>2, OutFacts DEF InOrderInv, ReceiverSide, ExpectedInv, OutInv
<1>4. Expected # Len(out)
  BY <1>3, FileAssumption
<1> QED
  BY <1>4 DEF InOrderInv, ReceiverSide, OutInv

(* "All packets ack": the file is written (read_write_sender.c:583), and   *)
(* the receiver has ended, which is more than holds when the network       *)
(* reorders (ClaimAllAcked).                                               *)
THEOREM InOrderAcked ==
  ASSUME InOrder
  PROVE  Spec => [](AckedMeansWritten /\ AllAckedMeansDelivered)
<1>1. Inv /\ InOrderInv => AckedMeansWritten /\ AllAckedMeansDelivered
  BY AckedIsDelivered DEF AckedMeansWritten, AllAckedMeansDelivered
<1> QED
  BY <1>1, InOrderInvariance, PTL

(* The list of the receiver is in order, bounded, and holds the final      *)
(* packet once it has come, numbers that wrap included                     *)
(* (linkedList_add_increasing, read_write_receiver.c:230).                 *)
THEOREM InOrderBuffer ==
  ASSUME InOrder
  PROVE  Spec => [](RcvSorted /\ BufferBound /\ EofInList)
<1>1. Inv /\ InOrderInv => RcvSorted /\ BufferBound /\ EofInList
  BY BufferProperties DEF InOrderInv, ReceiverSide
<1> QED
  BY <1>1, InOrderInvariance, PTL

(* The parity of a group is computed only from packets that are in the     *)
(* list, and no list is walked when it is empty, with -c too (fill_window, *)
(* read_write_sender.c:140).                                               *)
THEOREM InOrderNoUB ==
  ASSUME InOrder
  PROVE  Spec => []NoUB
<1>1. Inv /\ InOrderInv => NoUB
  BY DEF InOrderInv, SenderSide, GroupedInv, NoUB
<1> QED
  BY <1>1, InOrderInvariance, PTL

-----------------------------------------------------------------------------
(* The receiver writes chunks after those it has written, and none once it *)
(* has ended.                                                              *)
LEMMA OutputGrows ==
  ASSUME InOrder, Inv, Inv', InOrderInv, ReceiverStep
  PROVE  rPc # "done" /\ Len(out) <= Len(out')
<1>1. ASSUME NEW list \in Seq(Pkt), NEW ack, NEW size, Flush(list, ack, size, <<>>)
      PROVE  Len(out) <= Len(out')
  <2>1. PICK k \in 0 .. Len(list) : Flushed(list, k)
    BY <1>1, FlushIsFlushed
  <2>2. PICK chunks : chunks = [i \in 1 .. k |-> list[i].pay]
    OBVIOUS
  <2>3. chunks \in Seq(Payload) /\ Len(chunks) = k /\ k \in Nat
    <3>1. Len(list) \in Nat
      BY LenProperties
    <3>2. ASSUME NEW i \in 1 .. k PROVE list[i].pay \in Payload
      <4>1. list[i] \in Pkt
        BY <3>1, ElementOfSeq
      <4> QED
        BY <4>1 DEF Pkt
    <3> QED
      BY <2>2, <3>1, <3>2
  <2>4. out \in Seq(Payload) /\ Len(out) \in Nat
    <3>1. 0 .. FileLen - 1 \subseteq Payload
      BY FileAssumption DEF Payload
    <3> QED
      BY <3>1, OutFacts, SeqMonotonic
  <2>5. out' = out \o chunks
    BY <2>1, <2>2 DEF Flushed
  <2>6. Len(out') = Len(out) + k
    BY <2>3, <2>4, <2>5, ConcatProperties
  <2> QED
    BY <2>3, <2>4, <2>6
<1>2. ASSUME NEW n \in DOMAIN toReceiver, RReceive(n)
      PROVE  rPc # "done" /\ Len(out) <= Len(out')
  <2>1. PICK m \in NumberedMsg : m = toReceiver[n]
    BY LenProperties, ElementOfSeq DEF Inv, LinkInv, DataChannel
  <2>2. rPc = "run" /\ (RNack(m) \/ RIgnore(m) \/ RDrop(m) \/ RStore(m))
    BY <1>2, <2>1 DEF RReceive
  <2>3. ~RNack(m)
    BY <2>1 DEF InOrderInv, InFlight, DataInv, MadeInv, Made, RNack
  <2>4. rList \in Seq(Pkt)
    BY ReceiverFacts
  <2>5. ASSUME RIgnore(m) \/ RDrop(m) PROVE Len(out) <= Len(out')
    BY <1>1, <2>4, <2>5 DEF RIgnore, RDrop
  <2>6. ASSUME RStore(m) PROVE Len(out) <= Len(out')
    <3>1. PICK i \in 1 .. Len(rList) + 1 :
            Flush(InsertAt(rList, i, Stored(m)), m.seq # rHead,
                  IF m.seq = rHead THEN increase_window(rWindow) ELSE rWindow, <<>>)
      BY <2>6 DEF RStore
    <3>2. Stored(m) \in Pkt
      BY DEF NumberedMsg, DataMsg, Pkt, Stored
    <3>3. InsertAt(rList, i, Stored(m)) \in Seq(Pkt)
      BY <2>4, <3>2, InsertAtType
    <3> QED
      BY <1>1, <3>1, <3>3
  <2> QED
    BY <2>2, <2>3, <2>5, <2>6
<1>3. ASSUME RConnect \/ RTimeout \/ RAck PROVE rPc # "done" /\ Len(out) <= Len(out')
  <2>1. rPc # "done" /\ UNCHANGED out
    BY <1>3 DEF RConnect, RTimeout, RAck
  <2>2. Len(out) \in Nat
    BY OutFacts
  <2> QED
    BY <2>1, <2>2
<1> QED
  BY <1>2, <1>3 DEF ReceiverStep

(* A step of the receiver is a delivery.                                   *)
LEMMA ReceiverDelivers ==
  ASSUME InOrder, "stdout" \notin Faults, Inv, Inv', InOrderInv, InOrderInv', ReceiverStep
  PROVE  Promise!Next
<1>1. rPc # "done" /\ Len(out) <= Len(out') /\ UNCHANGED sPc
  BY OutputGrows DEF ReceiverStep, senderVars
<1>2. /\ out' \in Seq(0 .. FileLen - 1) /\ \A i \in DOMAIN out' : out'[i] = i - 1
      /\ rPc' = "done" => Len(out') = FileLen
  BY DEF Inv, ReceiverInv, OutputInv, InOrderInv, ReceiverSide, OutInv, Integrity
<1>3. Len(out') \in 0 .. FileLen /\ DOMAIN out' = 1 .. Len(out') /\ Len(out) \in Nat
  <2>1. PICK o \in Seq(0 .. FileLen - 1) : o = out'
    BY <1>2
  <2>2. \A i \in DOMAIN o : o[i] = i - 1
    BY <1>2, <2>1
  <2>3. Len(o) \in 0 .. FileLen /\ DOMAIN o = 1 .. Len(o)
    BY <2>2, BeginningIsShort
  <2>4. Len(out) \in Nat
    BY OutFacts
  <2> QED
    BY <2>1, <2>3, <2>4
<1>4. Len(out') \in Len(out) .. FileLen
  <2>1. Len(out) <= Len(out')
    BY <1>1
  <2> QED
    BY <1>3, <2>1, FileAssumption
<1>5. PICK n \in Len(out) .. FileLen : n = Len(out')
  BY <1>4
<1>6. out' = [i \in 1 .. n |-> i - 1]
  BY <1>2, <1>3, <1>5, LenProperties
<1>7. Promise!Deliver
  BY <1>1, <1>2, <1>5, <1>6 DEF Promise!Deliver
<1> QED
  BY <1>7 DEF Promise!Next

(* A step of the sender is its success, its giving up, or none.            *)
LEMMA SenderKeepsPromise ==
  ASSUME InOrder, AckedMeansWritten', SenderStep
  PROVE  [Promise!Next]_(Promise!promiseVars)
<1>1. UNCHANGED <<out, rPc>>
  BY DEF SenderStep, receiverVars
<1>2. sPc \notin {"acked", "gaveup"}
  BY DEF SenderStep, SPoll, SEndOfFile, CanFill, SFill, SFillUnread, SParity, SFinal, CanEnd,
         Resend, SResend, SRead, SReadFails
<1>3. CASE sPc' = "acked"
  <2>1. Len(out) = FileLen
    BY <1>1, <1>3 DEF AckedMeansWritten
  <2>2. Promise!Succeed
    BY <1>1, <1>2, <1>3, <2>1 DEF Promise!Succeed
  <2> QED
    BY <2>2 DEF Promise!Next
<1>4. CASE sPc' = "gaveup"
  <2>1. Promise!Abandon
    BY <1>1, <1>2, <1>4 DEF Promise!Abandon
  <2> QED
    BY <2>1 DEF Promise!Next
<1>5. CASE sPc' \notin {"acked", "gaveup"}
  BY <1>1, <1>2, <1>5 DEF Promise!promiseVars
<1> QED
  BY <1>3, <1>4, <1>5

(* The transfer implements what it promises to its two users: FileTransfer *)
(* with the standard output, the end of the receiver and the result of the *)
(* sender.                                                                 *)
THEOREM InOrderKeepsPromise ==
  ASSUME InOrder, "stdout" \notin Faults
  PROVE  Spec => KeepsPromise
<1>1. Init => Promise!Init
  BY DEF Init, ReceiverInit, SenderInit, Promise!Init
<1>2. ASSUME Inv, Inv', InOrderInv, InOrderInv', AckedMeansWritten', [Next]_vars
      PROVE  [Promise!Next]_(Promise!promiseVars)
  <2>1. CASE SenderStep
    BY <1>2, <2>1, SenderKeepsPromise
  <2>2. CASE ReceiverStep
    BY <1>2, <2>2, ReceiverDelivers
  <2>3. CASE LinkStep \/ UNCHANGED vars
    <3>1. UNCHANGED <<out, rPc, sPc>>
      BY <2>3 DEF LinkStep, vars, senderVars, receiverVars
    <3> QED
      BY <3>1 DEF Promise!promiseVars
  <2> QED
    BY <1>2, <2>1, <2>2, <2>3 DEF Next
<1>3. Inv /\ Inv' /\ InOrderInv /\ InOrderInv' /\ AckedMeansWritten' /\ [Next]_vars
        => [Promise!Next]_(Promise!promiseVars)
  BY <1>2
<1>4. Inv /\ InOrderInv => AckedMeansWritten
  BY AckedIsDelivered DEF AckedMeansWritten
<1> QED
  BY <1>1, <1>3, <1>4, InOrderInvariance, PTL DEF Spec, KeepsPromise, Promise!Spec
=============================================================================
