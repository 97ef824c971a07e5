--------------------------- MODULE TransferProofs ---------------------------
(***************************************************************************)
(* Proofs about the transfer, for every window, file, channel and set of   *)
(* faults.  One inductive invariant, Inv, carries the types and what the   *)
(* properties need besides them: that a packet with a payload has the      *)
(* number of its chunk, wherever it is, when the file is shorter than the  *)
(* sequence space.                                                         *)
(***************************************************************************)
EXTENDS TransferProperties, Lemmas

ShortFile == FileLen < SeqSpace
WritesSucceed == "socket" \notin Faults /\ "refused" \notin Faults

(* A packet of a list, and a message whose header is intact.               *)
Numbered == {p \in Pkt : ShortFile /\ p.pay # Empty => p.seq = p.pay}
NumberedMsg == {m \in DataMsg : m.ok1 => Stored(m) \in Numbered}

DataChannel == toReceiver \in Seq(NumberedMsg) /\ Len(toReceiver) <= Capacity
ResponseChannel == toSender \in Seq(Response) /\ Len(toSender) <= Capacity
ErrorInv == sErr \in BOOLEAN /\ (WritesSucceed => ~sErr)
FaultsInv == faults \in 0 .. MaxFaults

LinkInv == DataChannel /\ ResponseChannel /\ ErrorInv /\ FaultsInv

(* The sender: its list, its numbers, and its control state, where         *)
(* SenderControl says when the list is known not to be empty.              *)
SenderListInv == sList \in Seq(Numbered) /\ Len(sList) <= sWindow

SenderNumbers ==
  /\ sWindow \in WindowSize
  /\ sHead \in Seqnum
  /\ sTail \in Seqnum
  /\ lastRst \in 0 .. MaxResent + 1
  /\ global_pkt \in Int

SenderControl ==
  /\ sPc \in SenderLoop \cup SenderEnd
  /\ pollin \in BOOLEAN
  /\ sEof \in BOOLEAN
  /\ lastPkt \in BOOLEAN
  /\ sPc = "read" => sList # <<>>
  /\ WritesSucceed /\ ~fec_enable => sPc # "ub"
  /\ WritesSucceed /\ sPc = "resend" => sList # <<>>
  /\ WritesSucceed /\ lastPkt /\ SenderRuns => sList # <<>>
  /\ lastPkt => sEof

EofInv == sEof => global_pkt >= FileLen

(* The group of the next parity packet points into the list.               *)
GroupInv ==
  /\ fec \in Seq(0 .. Len(sList)) /\ Len(fec) <= GroupSize
  /\ ~fec_enable => fec = <<>>
  /\ sPc = "parity" => fec_enable /\ fec # <<>>

SenderInv == SenderListInv /\ SenderNumbers /\ SenderControl /\ EofInv /\ GroupInv

(* The receiver: its list, its numbers, and its output, which tells the    *)
(* number it expects while it runs.                                        *)
ReceiverControl ==
  /\ rPc \in {"wait", "run", "done", "timedout"}
  /\ rEof \in BOOLEAN
  /\ resent_ack \in BOOLEAN

ReceiverNumbers ==
  /\ rWindow \in WindowSize
  /\ rHead \in Seqnum
  /\ eof_seqnum \in Seqnum

OutputInv ==
  /\ out \in Seq(0 .. FileLen - 1)
  /\ ShortFile => Integrity /\ (rPc # "done" => rHead = Len(out))

ReceiverInv ==
  rList \in Seq(Numbered) /\ ReceiverControl /\ ReceiverNumbers /\ OutputInv

Inv == LinkInv /\ SenderInv /\ ReceiverInv

-----------------------------------------------------------------------------
(* A channel a message is taken from.                                      *)
LEMMA RemoveFromChannel ==
  ASSUME NEW S, NEW channel \in Seq(S), NEW i \in DOMAIN channel,
         Len(channel) <= Capacity
  PROVE  /\ RemoveAt(channel, i) \in Seq(S)
         /\ Len(RemoveAt(channel, i)) <= Capacity
         /\ channel[i] \in S
<1>1. i \in 1 .. Len(channel) /\ Len(channel) \in Nat
  BY LenProperties
<1> QED
  BY <1>1, RemoveAtType, ElementOfSeq, LinkAssumption

(* What does not fit in a channel is dropped.                              *)
LEMMA PushType ==
  ASSUME NEW S, NEW channel \in Seq(S), NEW msgs \in Seq(S),
         Len(channel) <= Capacity
  PROVE  Push(channel, msgs) \in Seq(S) /\ Len(Push(channel, msgs)) <= Capacity
<1> DEFINE room == Capacity - Len(channel)
           fit == IF Len(msgs) <= room THEN msgs ELSE SubSeq(msgs, 1, room)
<1>1. Len(channel) \in Nat /\ Len(msgs) \in Nat /\ room \in Nat
  BY LinkAssumption
<1>2. fit \in Seq(S) /\ Len(fit) <= room
  BY <1>1, SubSeqType
<1>3. Push(channel, msgs) = channel \o fit
  BY DEF Push
<1> HIDE DEF fit
<1>4. channel \o fit \in Seq(S) /\ Len(channel \o fit) = Len(channel) + Len(fit)
  BY <1>2, ConcatProperties
<1> QED
  BY <1>1, <1>2, <1>3, <1>4, LinkAssumption

(* The remainder of any integer is a sequence number.                      *)
LEMMA ModType ==
  ASSUME NEW a \in Int
  PROVE  a % SeqSpace \in Seqnum
  BY WindowAssumption DEF Seqnum

-----------------------------------------------------------------------------
(* The initial state.                                                      *)
LEMMA InitInv == Init => Inv
<1> SUFFICES ASSUME Init PROVE Inv
  OBVIOUS
<1>1. LinkInv
  <2>1. <<>> \in Seq(NumberedMsg) /\ <<>> \in Seq(Response) /\ Len(<<>>) = 0
    BY EmptySeq
  <2>2. DataChannel /\ ResponseChannel /\ FaultsInv
    BY <2>1, LinkAssumption
    DEF Init, LinkInit, DataChannel, ResponseChannel, FaultsInv
  <2> QED
    BY <2>2 DEF Init, LinkInit, LinkInv, ErrorInv
<1>2. SenderInv
  <2>1. SenderListInv /\ SenderNumbers
    BY EmptySeq, WindowAssumption, SenderAssumption
    DEF Init, SenderInit, SenderListInv, SenderNumbers, WindowSize, Seqnum
  <2>2. GroupInv
    BY EmptySeq, SenderAssumption DEF Init, SenderInit, GroupInv
  <2> QED
    BY <2>1, <2>2 DEF Init, SenderInit, SenderInv, SenderControl, EofInv, SenderLoop
<1>3. ReceiverInv
  <2>1. rList \in Seq(Numbered) /\ out \in Seq(0 .. FileLen - 1) /\ Len(out) = 0
    BY EmptySeq DEF Init, ReceiverInit
  <2>2. ReceiverNumbers
    BY WindowAssumption DEF Init, ReceiverInit, ReceiverNumbers, WindowSize, Seqnum
  <2>3. OutputInv
    BY <2>1 DEF Init, ReceiverInit, OutputInv, Integrity
  <2> QED
    BY <2>1, <2>2, <2>3 DEF Init, ReceiverInit, ReceiverInv, ReceiverControl
<1> QED
  BY <1>1, <1>2, <1>3 DEF Inv

-----------------------------------------------------------------------------
(* The network keeps what it carries well-formed: a packet whose header is *)
(* intact keeps its number and payload.                                    *)
LEMMA FaultType ==
  ASSUME FaultsInv, NEW kind, Fault(kind)
  PROVE  FaultsInv' /\ kind \in Faults
  BY LinkAssumption DEF FaultsInv, Fault

(* A loss or damage keeps the channels within their types.                 *)
LEMMA LinkFaultInv == LinkInv /\ LinkFault => LinkInv'
<1> SUFFICES ASSUME LinkInv, LinkFault PROVE LinkInv'
  OBVIOUS
<1> USE DEF LinkInv
<1>1. CASE LoseData
  <2>1. PICK i \in DOMAIN toReceiver : toReceiver' = RemoveAt(toReceiver, i)
    BY <1>1 DEF LoseData
  <2>2. DataChannel'
    BY <2>1, RemoveFromChannel DEF DataChannel
  <2> QED
    BY <1>1, <2>2, FaultType DEF LoseData, ResponseChannel, ErrorInv
<1>2. CASE LoseResponse
  <2>1. PICK i \in DOMAIN toSender : toSender' = RemoveAt(toSender, i)
    BY <1>2 DEF LoseResponse
  <2>2. ResponseChannel'
    BY <2>1, RemoveFromChannel DEF ResponseChannel
  <2> QED
    BY <1>2, <2>2, FaultType DEF LoseResponse, DataChannel, ErrorInv
<1>3. CASE Truncate
  <2>1. PICK i \in DOMAIN toReceiver :
          toReceiver' = [toReceiver EXCEPT ![i].tr = 1]
    BY <1>3 DEF Truncate
  <2>2. i \in 1 .. Len(toReceiver) /\ toReceiver[i] \in NumberedMsg
    BY LenProperties, ElementOfSeq DEF DataChannel
  <2>3. [toReceiver[i] EXCEPT !.tr = 1] \in NumberedMsg
    BY <2>2 DEF NumberedMsg, DataMsg, Stored
  <2>4. DataChannel'
    BY <2>1, <2>2, <2>3, ExceptSeq DEF DataChannel
  <2> QED
    BY <1>3, <2>4, FaultType DEF Truncate, ResponseChannel, ErrorInv
<1>4. CASE CorruptPayload
  <2>1. PICK i \in DOMAIN toReceiver :
          toReceiver' = [toReceiver EXCEPT ![i].ok2 = FALSE]
    BY <1>4 DEF CorruptPayload
  <2>2. i \in 1 .. Len(toReceiver) /\ toReceiver[i] \in NumberedMsg
    BY LenProperties, ElementOfSeq DEF DataChannel
  <2>3. [toReceiver[i] EXCEPT !.ok2 = FALSE] \in NumberedMsg
    BY <2>2 DEF NumberedMsg, DataMsg, Stored
  <2>4. DataChannel'
    BY <2>1, <2>2, <2>3, ExceptSeq DEF DataChannel
  <2> QED
    BY <1>4, <2>4, FaultType DEF CorruptPayload, ResponseChannel, ErrorInv
<1>5. CASE CorruptHeader
  <2>1. PICK i \in DOMAIN toReceiver, seqnum \in Seqnum, tr \in 0 .. 1 :
          toReceiver' = [toReceiver EXCEPT
                           ![i] = [@ EXCEPT !.type = "DATA", !.ok1 = FALSE,
                                            !.seq = seqnum, !.tr = tr]]
    BY <1>5 DEF CorruptHeader
  <2>2. i \in 1 .. Len(toReceiver) /\ toReceiver[i] \in NumberedMsg
    BY LenProperties, ElementOfSeq DEF DataChannel
  <2>3. [toReceiver[i] EXCEPT !.type = "DATA", !.ok1 = FALSE, !.seq = seqnum, !.tr = tr]
          \in NumberedMsg
    BY <2>2 DEF NumberedMsg, DataMsg
  <2>4. DataChannel'
    BY <2>1, <2>2, <2>3, ExceptSeq DEF DataChannel
  <2> QED
    BY <1>5, <2>4, FaultType DEF CorruptHeader, ResponseChannel, ErrorInv
<1>6. CASE CorruptResponse
  <2>1. PICK i \in DOMAIN toSender : toSender' = [toSender EXCEPT ![i].ok1 = FALSE]
    BY <1>6 DEF CorruptResponse
  <2>2. i \in 1 .. Len(toSender) /\ toSender[i] \in Response
    BY LenProperties, ElementOfSeq DEF ResponseChannel
  <2>3. [toSender[i] EXCEPT !.ok1 = FALSE] \in Response
    BY <2>2 DEF Response
  <2>4. ResponseChannel'
    BY <2>1, <2>2, <2>3, ExceptSeq DEF ResponseChannel
  <2> QED
    BY <1>6, <2>4, FaultType DEF CorruptResponse, DataChannel, ErrorInv
<1>7. CASE SocketError
  <2>1. "socket" \in Faults /\ FaultsInv'
    BY <1>7, FaultType DEF SocketError
  <2> QED
    BY <1>7, <2>1
    DEF SocketError, DataChannel, ResponseChannel, ErrorInv, WritesSucceed
<1> QED
  BY <1>1, <1>2, <1>3, <1>4, <1>5, <1>6, <1>7 DEF LinkFault

(* A refused datagram keeps the channels within their types.               *)
LEMMA RefuseInv == LinkInv /\ Refuse => LinkInv'
<1> SUFFICES ASSUME LinkInv, Refuse PROVE LinkInv'
  OBVIOUS
<1>1. DataChannel'
  <2>1. toReceiver \in Seq(NumberedMsg) /\ toReceiver # <<>> /\ Len(toReceiver) \in Nat
    BY DEF LinkInv, DataChannel, Refuse
  <2>2. Tail(toReceiver) \in Seq(NumberedMsg) /\ Len(Tail(toReceiver)) = Len(toReceiver) - 1
    BY <2>1, HeadTailProperties
  <2> QED
    BY <2>1, <2>2, LinkAssumption DEF LinkInv, DataChannel, Refuse
<1>2. ErrorInv'
  BY DEF LinkInv, Refuse, ErrorInv, WritesSucceed
<1> QED
  BY <1>1, <1>2 DEF LinkInv, Refuse, ResponseChannel, FaultsInv

-----------------------------------------------------------------------------
(* The sender's writes put packets of its list, and no other, in the data  *)
(* channel.                                                                *)
LEMMA DataType ==
  ASSUME NEW p \in Numbered
  PROVE  Data(p) \in NumberedMsg
  BY DEF Numbered, NumberedMsg, DataMsg, Pkt, Data, Stored

(* A parity packet is a message of the data channel.                       *)
LEMMA ParityType ==
  ASSUME NEW seqnum \in Seqnum
  PROVE  Parity(seqnum) \in NumberedMsg
  BY FileAssumption
  DEF Numbered, NumberedMsg, DataMsg, Pkt, Payload, Empty, Parity, Stored

(* A write, or its failure, keeps the data channel within its type.        *)
LEMMA WriteInv ==
  ASSUME LinkInv, NEW m \in NumberedMsg, Written(m) \/ WriteFails
  PROVE  DataChannel' /\ ErrorInv'
<1>1. CASE Written(m)
  <2>1. <<m>> \in Seq(NumberedMsg)
    OBVIOUS
  <2>2. DataChannel'
    BY <1>1, <2>1, PushType DEF Written, LinkInv, DataChannel
  <2> QED
    BY <1>1, <2>2 DEF Written, LinkInv, ErrorInv
<1>2. CASE WriteFails
  BY <1>2 DEF WriteFails, LinkInv, DataChannel, ErrorInv
<1> QED
  BY <1>1, <1>2

(* A packet fits the list that is not full.                                *)
LEMMA AppendToList ==
  ASSUME SenderInv, NEW p \in Numbered, Len(sList) < sWindow
  PROVE  /\ Append(sList, p) \in Seq(Numbered)
         /\ Len(Append(sList, p)) <= sWindow
         /\ Append(sList, p) # <<>>
<1>1. Len(sList) \in Nat /\ sWindow \in Int
  BY DEF SenderInv, SenderListInv, SenderNumbers, WindowSize
<1> QED
  BY <1>1, AppendProperties DEF SenderInv, SenderListInv

(* Polling keeps the invariant of the sender.                              *)
LEMMA PollInv == SenderInv /\ SPoll => SenderInv'
<1> SUFFICES ASSUME SenderInv, SPoll PROVE SenderInv'
  OBVIOUS
<1>1. pollin' \in BOOLEAN
  BY DEF SPoll
<1>2. SenderControl'
  BY <1>1 DEF SPoll, SenderInv, SenderControl, SenderLoop, SenderEnd,
              SenderRuns, window, flags
<1>3. GroupInv'
  BY DEF SPoll, SenderInv, GroupInv, window
<1> QED
  BY <1>2, <1>3
  DEF SPoll, SenderInv, SenderListInv, SenderNumbers, EofInv, window, flags

(* So does reading nothing more.                                           *)
LEMMA EndOfFileInv == SenderInv /\ SEndOfFile => SenderInv'
  BY DEF SEndOfFile, SenderInv, SenderListInv, SenderNumbers, SenderControl,
         EofInv, GroupInv, SenderRuns, window

(* One turn of fill_window, for a payload that is the next chunk or none.  *)
LEMMA FillInv ==
  ASSUME LinkInv, SenderInv, CanFill, NEW pay \in Payload, Fill(pay),
         pay # Empty => pay = global_pkt
  PROVE  /\ DataChannel' /\ ErrorInv' /\ ResponseChannel'
         /\ SenderInv'
<1> DEFINE pkt == [seq |-> global_pkt % SeqSpace, pay |-> pay]
<1>1. pkt \in Numbered
  <2>1. global_pkt % SeqSpace \in Seqnum
    BY ModType DEF SenderInv, SenderNumbers
  <2>2. ASSUME ShortFile, pay # Empty PROVE global_pkt % SeqSpace = pay
    BY <2>2, FileAssumption, WindowAssumption, ModBelow
    DEF ShortFile, Payload, Empty
  <2> QED
    BY <2>1, <2>2 DEF Numbered, Pkt
<1>2. DataChannel' /\ ErrorInv' /\ ResponseChannel'
  BY <1>1, WriteInv, DataType DEF Fill, LinkInv, ResponseChannel
<1>3. SenderListInv' /\ sList' # <<>>
  BY <1>1, AppendToList DEF Fill, CanFill, SenderListInv
<1>4. SenderNumbers' /\ pkt.seq \in Seqnum
  BY <1>1 DEF Fill, Count, SenderInv, SenderNumbers, Numbered, Pkt, flags
<1> DEFINE full == Len(fec) = GroupSize
           group == IF fec_enable /\ ~full THEN Append(fec, Len(sList) + 1) ELSE fec
           due == Len(group) = GroupSize
<1>5. /\ group \in Seq(0 .. Len(sList) + 1) /\ Len(group) <= GroupSize
      /\ ~fec_enable => group = <<>> /\ ~full
      /\ due => group # <<>>
      /\ ~full => (due => fec_enable)
  <2>1. Len(sList) \in Nat /\ Len(fec) \in Nat /\ fec \in Seq(0 .. Len(sList))
    BY LenProperties DEF SenderInv, SenderListInv, GroupInv
  <2>2. fec \in Seq(0 .. Len(sList) + 1)
    <3>1. 0 .. Len(sList) \subseteq 0 .. Len(sList) + 1
      BY <2>1
    <3> QED
      BY <2>1, <3>1, SeqMonotonic
  <2>3. Append(fec, Len(sList) + 1) \in Seq(0 .. Len(sList) + 1)
        /\ Len(Append(fec, Len(sList) + 1)) = Len(fec) + 1
    BY <2>1, <2>2, AppendProperties
  <2>4. Len(fec) <= GroupSize /\ (~fec_enable => fec = <<>>) /\ GroupSize \in Nat \ {0}
    BY SenderAssumption DEF SenderInv, GroupInv
  <2>5. group \in Seq(0 .. Len(sList) + 1) /\ Len(group) <= GroupSize
    <3>1. CASE fec_enable /\ ~full
      <4>1. group = Append(fec, Len(sList) + 1) /\ Len(fec) # GroupSize
        BY <3>1
      <4> HIDE DEF group, full
      <4>2. Len(fec) + 1 <= GroupSize
        BY <2>1, <2>4, <4>1
      <4> QED
        BY <2>3, <4>1, <4>2
    <3>2. CASE ~(fec_enable /\ ~full)
      <4>1. group = fec
        BY <3>2
      <4> QED
        BY <2>2, <2>4, <4>1
    <3> QED
      BY <3>1, <3>2
  <2>6. fec = <<>> => Len(fec) = 0
    BY EmptySeq
  <2>7. group = <<>> => Len(group) = 0
    BY EmptySeq
  <2> QED
    BY <2>4, <2>5, <2>6, <2>7
<1>6. GroupInv'
  <2>1. Len(sList') = Len(sList) + 1
    BY AppendProperties DEF Fill, SenderInv, SenderListInv
  <2>2. \/ /\ fec' = group
           /\ sPc' = IF full THEN "ub" ELSE IF due THEN "parity" ELSE "send"
        \/ fec' = fec /\ sPc' = "resend"
    BY DEF Fill
  <2>3. fec \in Seq(0 .. Len(sList) + 1) /\ Len(fec) <= GroupSize
        /\ (~fec_enable => fec = <<>>)
    <3>1. Len(sList) \in Nat
      BY LenProperties DEF SenderInv, SenderListInv
    <3>2. 0 .. Len(sList) \subseteq 0 .. Len(sList) + 1
      BY <3>1
    <3> QED
      BY <3>2, SeqMonotonic DEF SenderInv, GroupInv
  <2> HIDE DEF group, full, due
  <2> QED
    BY <1>5, <2>1, <2>2, <2>3 DEF GroupInv
<1>7. SenderControl'
  <2>1. /\ sPc' \in {"ub", "parity", "send", "resend"}
        /\ ~fec_enable => sPc' # "ub"
        /\ UNCHANGED <<pollin, flags>>
    BY <1>5 DEF Fill
  <2> QED
    BY <1>3, <2>1 DEF CanFill, SenderInv, SenderControl, SenderLoop, SenderEnd,
                      SenderRuns, flags
<1>8. EofInv'
  BY DEF Fill, CanFill, SenderInv, SenderControl, EofInv, flags
<1> QED
  BY <1>2, <1>3, <1>4, <1>6, <1>7, <1>8 DEF SenderInv

(* The parity packet carries the number of a packet of the list.           *)
LEMMA ParityInv ==
  ASSUME LinkInv, SenderInv, SParity
  PROVE  /\ DataChannel' /\ ErrorInv' /\ ResponseChannel'
         /\ SenderInv'
<1>1. /\ fec_enable /\ fec \in Seq(0 .. Len(sList)) /\ Len(fec) \in Nat \ {0}
      /\ sList \in Seq(Numbered) /\ Len(sList) \in Nat
      /\ UNCHANGED <<pollin, sList, sWindow, sHead, sEof, lastPkt, lastRst, toSender>>
  BY EmptySeq, LenProperties
  DEF SParity, SenderInv, GroupInv, SenderListInv, flags
<1>2. CASE Unreadable
  <2>1. sPc' = "ub" /\ UNCHANGED <<sTail, global_pkt, fec, toReceiver, sErr>>
    BY <1>2 DEF SParity
  <2>2. SenderListInv' /\ SenderNumbers' /\ EofInv' /\ GroupInv'
    BY <1>1, <2>1 DEF SenderInv, SenderListInv, SenderNumbers, EofInv, GroupInv
  <2>3. SenderControl'
    BY <1>1, <2>1 DEF SenderInv, SenderControl, SenderLoop, SenderEnd, SenderRuns
  <2> QED
    BY <1>1, <2>1, <2>2, <2>3
    DEF LinkInv, DataChannel, ErrorInv, ResponseChannel, SenderInv
<1>3. CASE ~Unreadable
  <2>10. \A i \in DOMAIN fec : fec[i] # 0
    BY <1>3 DEF Unreadable
  <2>1. fec[1] \in 1 .. Len(sList)
    <3>1. 1 \in DOMAIN fec /\ fec[1] \in 0 .. Len(sList)
      BY <1>1, LenProperties, ElementOfSeq
    <3> QED
      BY <1>1, <2>10, <3>1
  <2>2. sList[fec[1]] \in Numbered /\ sList[Len(sList)] \in Numbered
    BY <1>1, <2>1, ElementOfSeq
  <2>3. sList[fec[1]].seq \in Seqnum /\ sList[Len(sList)].seq \in Seqnum
    BY <2>2 DEF Numbered, Pkt
  <2>4. \/ /\ Written(Parity(sList[fec[1]].seq))
           /\ Count(sList[Len(sList)])
           /\ fec' = <<>>
           /\ sPc' = "send"
        \/ /\ WriteFails
           /\ sPc' = "resend"
           /\ UNCHANGED <<sTail, global_pkt, fec>>
    BY <1>3 DEF SParity
  <2>5. DataChannel' /\ ErrorInv' /\ ResponseChannel'
    BY <1>1, <2>3, <2>4, ParityType, WriteInv DEF LinkInv, ResponseChannel
  <2>6. SenderListInv' /\ SenderNumbers' /\ EofInv'
    <3>1. /\ sTail' \in Seqnum
          /\ global_pkt' \in {global_pkt, global_pkt + 1} /\ global_pkt \in Int
      BY <2>3, <2>4 DEF Count, SenderInv, SenderNumbers
    <3>2. SenderListInv' /\ SenderNumbers'
      BY <1>1, <3>1 DEF SenderInv, SenderListInv, SenderNumbers
    <3>3. EofInv'
      BY <1>1, <3>1, FileAssumption DEF SenderInv, EofInv
    <3> QED
      BY <3>2, <3>3
  <2>7. GroupInv'
    <3>1. sPc' # "parity" /\ fec_enable
      BY <1>1, <2>4
    <3>2. CASE fec' = <<>>
      BY <3>1, <3>2, EmptySeq, SenderAssumption DEF GroupInv
    <3>3. CASE fec' = fec
      BY <1>1, <3>1, <3>3 DEF SenderInv, GroupInv
    <3> QED
      BY <2>4, <3>2, <3>3
  <2>8. WriteFails => ~WritesSucceed
    BY DEF WriteFails, LinkInv, ErrorInv
  <2>9. SenderControl'
    BY <1>1, <2>1, <2>4, <2>8, EmptySeq
    DEF SParity, SenderInv, SenderControl, SenderLoop, SenderEnd, SenderRuns
  <2> QED
    BY <2>5, <2>6, <2>7, <2>9 DEF SenderInv
<1> QED
  BY <1>2, <1>3

(* Sending the final packet keeps the invariant (read_write_sender.c:58).  *)
LEMMA FinalInv ==
  ASSUME LinkInv, SenderInv, SFinal
  PROVE  /\ DataChannel' /\ ErrorInv' /\ ResponseChannel'
         /\ SenderInv'
<1> DEFINE pkt == [seq |-> Succ(sTail), pay |-> Empty]
<1>1. pkt \in Numbered /\ Succ(sTail) \in Seqnum
  <2>1. sTail + 1 \in Int
    BY DEF SenderInv, SenderNumbers, Seqnum
  <2> QED
    BY <2>1, ModType, FileAssumption DEF Numbered, Pkt, Payload, Empty, Succ
<1>2. DataChannel' /\ ErrorInv' /\ ResponseChannel'
  BY <1>1, WriteInv, DataType DEF SFinal, LinkInv, ResponseChannel
<1> DEFINE n == Len(sList)
<1>5. n \in Nat /\ fec \in Seq(0 .. n) /\ fec \in Seq(0 .. n + 1) /\ fec' = fec
      /\ sPc' = "resend"
  <2>1. n \in Nat
    BY LenProperties DEF SenderInv, SenderListInv
  <2>2. 0 .. n \subseteq 0 .. n + 1
    BY <2>1
  <2> QED
    BY <2>1, <2>2, SeqMonotonic DEF SFinal, SenderInv, GroupInv
<1>3. CASE Written(Data(pkt)) /\ sList' = Append(sList, pkt)
  <2>1. SenderListInv' /\ sList' # <<>>
    BY <1>1, <1>3, AppendToList DEF SFinal, CanEnd, SenderListInv
  <2>2. SenderControl'
    BY <2>1 DEF SFinal, CanEnd, SenderInv, SenderControl, SenderLoop, SenderEnd
  <2>3. GroupInv'
    <3>1. Len(sList') = n + 1
      BY <1>3, AppendProperties DEF SenderInv, SenderListInv
    <3> QED
      BY <1>5, <3>1 DEF SenderInv, GroupInv
  <2> QED
    BY <1>1, <1>2, <2>1, <2>2, <2>3 DEF SFinal, SenderInv, SenderNumbers, EofInv
<1>4. CASE WriteFails /\ UNCHANGED sList
  <2>1. ~WritesSucceed
    BY <1>4 DEF WriteFails, LinkInv, ErrorInv
  <2>2. SenderControl'
    BY <2>1 DEF SFinal, CanEnd, SenderInv, SenderControl, SenderLoop, SenderEnd
  <2>3. GroupInv'
    BY <1>4, <1>5 DEF SenderInv, GroupInv
  <2> QED
    BY <1>1, <1>2, <1>4, <2>2, <2>3
    DEF SFinal, SenderInv, SenderListInv, SenderNumbers, EofInv
<1> QED
  BY <1>3, <1>4 DEF SFinal

(* resent_pkt: with no failing write the list it walks is not empty.       *)
LEMMA ResendInv ==
  ASSUME LinkInv, SenderInv, NEW late \in Timeouts, SResend(late)
  PROVE  /\ DataChannel' /\ ErrorInv' /\ ResponseChannel'
         /\ SenderInv'
<1> DEFINE sent == IF sErr THEN <<>> ELSE late
           msgs == [j \in DOMAIN sent |-> Data(sList[sent[j]])]
           finals == Cardinality({j \in DOMAIN sent : sList[sent[j]].pay = Empty})
<1>1. Len(sList) \in 0 .. MaxWindow /\ sList \in Seq(Numbered)
  <2>1. sList \in Seq(Numbered) /\ Len(sList) \in Nat
    BY LenProperties DEF SenderInv, SenderListInv
  <2> QED
    BY <2>1, WindowAssumption DEF SenderInv, SenderListInv, SenderNumbers, WindowSize
<1>2. PICK k \in Nat : late \in [1 .. k -> 1 .. Len(sList)]
  BY <1>1 DEF Timeouts, Increasing
<1>3. PICK n \in Nat : sent \in [1 .. n -> 1 .. Len(sList)]
  <2>1. CASE sErr
    <3>1. sent \in [1 .. 0 -> 1 .. Len(sList)]
      BY <2>1
    <3> QED
      BY <3>1
  <2>2. CASE ~sErr
    BY <1>2, <2>2
  <2> QED
    BY <2>1, <2>2
<1> HIDE DEF sent
<1>4. msgs \in Seq(NumberedMsg)
  <2>1. \A j \in 1 .. n : Data(sList[sent[j]]) \in NumberedMsg
    BY <1>1, <1>3, ElementOfSeq, DataType
  <2>2. msgs \in [1 .. n -> NumberedMsg]
    BY <1>3, <2>1
  <2> QED
    BY <1>3, <2>2
<1>5. finals \in Nat
  <2>1. IsFiniteSet(1 .. n)
    BY FS_Interval
  <2>2. {j \in DOMAIN sent : sList[sent[j]].pay = Empty} \in SUBSET (1 .. n)
    BY <1>3
  <2> QED
    BY <2>1, <2>2, FS_Subset, FS_CardinalityType
<1>6. toReceiver' = Push(toReceiver, msgs)
  BY DEF SResend, sent
<1>7. DataChannel'
  BY <1>4, <1>6, PushType DEF LinkInv, DataChannel
<1>8. ErrorInv' /\ ResponseChannel'
  BY DEF SResend, LinkInv, ErrorInv, ResponseChannel
<1>9. lastRst' \in 0 .. MaxResent + 1
  <2>1. lastRst' = IF lastRst + finals > MaxResent THEN MaxResent + 1
                   ELSE lastRst + finals
    BY DEF SResend, sent
  <2> HIDE DEF finals
  <2> QED
    BY <1>5, <2>1, SenderAssumption DEF SenderInv, SenderNumbers
<1>10. SenderNumbers' /\ SenderListInv' /\ EofInv'
  BY <1>9 DEF SResend, SenderInv, SenderNumbers, SenderListInv, EofInv, window
<1>12. GroupInv'
  BY DEF SResend, SenderInv, GroupInv, window
<1>11. SenderControl'
  <2>1. sPc' \in {"ub", "gaveup", "read", "poll"}
    BY DEF SResend
  <2>2. sPc' = "ub" <=> sList = <<>>
    BY DEF SResend
  <2>3. WritesSucceed => sList # <<>>
    <3>1. Len(sList) = 0 <=> sList = <<>>
      BY <1>1, EmptySeq
    <3> QED
      BY <3>1 DEF SResend, CanFill, CanEnd, SenderInv, SenderControl, SenderNumbers,
                  SenderRuns, SenderLoop, WindowSize
  <2> QED
    BY <2>1, <2>2, <2>3
    DEF SResend, SenderInv, SenderControl, SenderLoop, SenderEnd, window
<1> QED
  BY <1>7, <1>8, <1>10, <1>11, <1>12 DEF SenderInv

(* update_window and ack_window: what is kept of the list fits in the      *)
(* window, and it is not empty unless an acknowledgement released all.     *)
LEMMA HandleResponseInv ==
  ASSUME SenderInv, sPc = "read", NEW m, m.win \in WindowSize, HandleResponse(m),
         lastRst' = 0, pollin' = FALSE
  PROVE  SenderInv'
<1> DEFINE shrink == m.win < sWindow
           kept == IF shrink /\ Len(sList) > m.win THEN SubSeq(sList, 1, m.win)
                   ELSE sList
           tail == IF shrink THEN kept[Len(kept)].seq ELSE sTail
<1>1. /\ sList \in Seq(Numbered) /\ Len(sList) \in Nat \ {0}
      /\ sWindow \in Nat /\ m.win \in WindowSize /\ m.win \in Nat \ {0}
      /\ Len(sList) <= sWindow
  BY EmptySeq, LenProperties
  DEF SenderInv, SenderListInv, SenderNumbers, SenderControl, WindowSize
<1>2. kept \in Seq(Numbered) /\ Len(kept) \in Nat \ {0} /\ Len(kept) <= m.win
  BY <1>1, SubSeqType
<1>3. Len(kept) <= Len(sList) /\ (~shrink => kept = sList)
  BY <1>1, SubSeqType
<1>4. tail \in Seqnum
  <2>1. kept[Len(kept)] \in Numbered
    BY <1>2, ElementOfSeq
  <2> QED
    BY <2>1 DEF Numbered, Pkt, SenderInv, SenderNumbers
<1>5. /\ sWindow' = m.win
      /\ global_pkt' = global_pkt - (Len(sList) - Len(kept))
      /\ sTail' = tail
      /\ sEof' = (sEof /\ ~shrink)
      /\ lastPkt' = (lastPkt /\ ~shrink)
  BY DEF HandleResponse, ReadAgain, UnlessShrunk
<1>6. PICK k \in 0 .. Len(kept) :
        /\ m.type # "ACK" => k = 0
        /\ sList' = SubSeq(kept, k + 1, Len(kept))
        /\ fec' = GroupAfterAck(Dangling(fec, Len(kept)), k)
        /\ sHead' = HeadAfterAck(sHead, kept, k)
        /\ sPc' = IF m.type = "ACK" /\ lastPkt' /\ k = Len(kept)
                    THEN "acked" ELSE "poll"
  BY DEF HandleResponse
<1> HIDE DEF kept, tail, shrink
<1>7. sList' \in Seq(Numbered) /\ Len(sList') = Len(kept) - k
  BY <1>2, <1>6, SubSeqType
<1>8. SenderListInv'
  BY <1>1, <1>2, <1>5, <1>6, <1>7 DEF SenderListInv
<1>9. SenderNumbers'
  <2>1. sHead' \in Seqnum
    <3>1. \A i \in 1 .. Len(kept) : kept[i].seq \in Seqnum
      BY <1>2, ElementOfSeq DEF Numbered, Pkt
    <3>2. PICK followed : followed = IF k < Len(kept) THEN k ELSE k - 1
      OBVIOUS
    <3>3. followed > 0 => followed + 1 \in 1 .. Len(kept)
      BY <1>2, <3>2
    <3>4. sHead' = IF followed > 0 THEN kept[followed + 1].seq ELSE sHead
      BY <1>6, <3>2 DEF HeadAfterAck
    <3> QED
      BY <3>1, <3>3, <3>4 DEF SenderInv, SenderNumbers
  <2>2. global_pkt' \in Int
    BY <1>1, <1>2, <1>5 DEF SenderInv, SenderNumbers
  <2> QED
    BY <1>1, <1>4, <1>5, <2>1, <2>2, SenderAssumption DEF SenderNumbers
<1>10. SenderControl'
  <2>1. sPc' = "poll" => sList' # <<>> \/ ~lastPkt'
    <3>1. ASSUME sPc' = "poll", lastPkt' PROVE k < Len(kept)
      BY <1>2, <1>6, <3>1
    <3>2. k < Len(kept) => Len(sList') # 0
      BY <1>2, <1>6, <1>7
    <3> QED
      BY <1>5, <3>1, <3>2, EmptySeq DEF SenderInv, SenderControl
  <2>2. sPc' \in {"poll", "acked"}
    BY <1>6
  <2>3. sEof' \in BOOLEAN /\ lastPkt' \in BOOLEAN /\ (lastPkt' => sEof')
    BY <1>5 DEF SenderInv, SenderControl
  <2> QED
    BY <2>1, <2>2, <2>3
    DEF SenderControl, SenderLoop, SenderEnd, SenderRuns
<1>11. EofInv'
  <2>1. ~shrink => global_pkt' = global_pkt
    BY <1>1, <1>3, <1>5 DEF SenderInv, SenderNumbers
  <2> QED
    BY <1>5, <2>1 DEF SenderInv, EofInv
<1>12. GroupInv'
  <2>1. fec \in Seq(0 .. Len(sList)) /\ Len(fec) \in Nat /\ Len(fec) <= GroupSize
        /\ (~fec_enable => fec = <<>>)
    BY LenProperties DEF SenderInv, GroupInv
  <2> DEFINE group == Dangling(fec, Len(kept))
  <2>2. group \in Seq(0 .. Len(kept)) /\ Len(group) = Len(fec)
    <3>1. \A i \in 1 .. Len(fec) : fec[i] \in 0 .. Len(sList)
      BY <2>1, ElementOfSeq
    <3>2. \A i \in 1 .. Len(fec) :
            (IF fec[i] > Len(kept) THEN 0 ELSE fec[i]) \in 0 .. Len(kept)
      BY <1>1, <1>2, <3>1
    <3>3. DOMAIN fec = 1 .. Len(fec)
      BY <2>1, LenProperties
    <3>4. group \in [1 .. Len(fec) -> 0 .. Len(kept)]
      BY <3>2, <3>3 DEF Dangling
    <3> QED
      BY <2>1, <3>4
  <2>3. sPc' # "parity"
    BY <1>6
  <2>4. CASE k = 0
    <3>1. fec' = group /\ Len(sList') = Len(kept)
      BY <1>2, <1>6, <1>7, <2>4 DEF GroupAfterAck
    <3>2. fec = <<>> => group = <<>>
      <4>1. fec = <<>> => Len(group) = 0
        BY <2>2, EmptySeq
      <4> QED
        BY <2>2, <4>1, EmptySeq
    <3> HIDE DEF group
    <3> QED
      BY <2>1, <2>2, <2>3, <3>1, <3>2 DEF GroupInv
  <2>5. CASE k > 0
    <3>1. fec' = <<>>
      BY <1>6, <2>5 DEF GroupAfterAck
    <3> QED
      BY <2>3, <3>1, EmptySeq, SenderAssumption DEF GroupInv
  <2> QED
    BY <1>2, <2>4, <2>5
<1> QED
  BY <1>8, <1>9, <1>10, <1>11, <1>12 DEF SenderInv

(* Reading an answer keeps the invariant.                                  *)
LEMMA ReadInv ==
  ASSUME LinkInv, SenderInv, NEW i \in DOMAIN toSender, SRead(i)
  PROVE  LinkInv' /\ SenderInv'
<1>1. toSender[i] \in Response /\ ResponseChannel'
  BY RemoveFromChannel DEF LinkInv, ResponseChannel, SRead
<1>2. LinkInv'
  BY <1>1 DEF SRead, LinkInv, DataChannel, ErrorInv, FaultsInv
<1>3. CASE pkt_decode(toSender[i]) = "PKT_OK"
  <2>1. toSender[i].win \in WindowSize
    BY <1>1 DEF Response
  <2> QED
    BY <1>2, <1>3, <2>1, HandleResponseInv DEF SRead
<1>4. CASE pkt_decode(toSender[i]) # "PKT_OK"
  <2>1. /\ sPc = "read" /\ sPc' = "poll" /\ pollin' = FALSE /\ lastRst' = 0
        /\ UNCHANGED <<window, sEof, lastPkt, global_pkt, fec>>
    BY <1>4 DEF SRead
  <2>2. SenderNumbers'
    BY <2>1, SenderAssumption DEF SenderInv, SenderNumbers, window
  <2>3. SenderControl'
    BY <2>1 DEF SenderInv, SenderControl, SenderLoop, SenderEnd, SenderRuns, window
  <2>4. GroupInv'
    BY <2>1 DEF SenderInv, GroupInv, window
  <2> QED
    BY <1>2, <2>1, <2>2, <2>3, <2>4 DEF SenderInv, SenderListInv, EofInv, window
<1> QED
  BY <1>3, <1>4

(* So does a failed read.                                                  *)
LEMMA ReadFailsInv ==
  ASSUME LinkInv, SenderInv, SReadFails
  PROVE  LinkInv' /\ SenderInv'
<1>1. LinkInv'
  BY DEF SReadFails, LinkInv, DataChannel, ResponseChannel, ErrorInv, FaultsInv
<1>2. sPc = "read" /\ lastRst' = 0 /\ pollin' = FALSE
  BY DEF SReadFails
<1>3. CASE sPc' = "poll" /\ UNCHANGED <<window, sEof, lastPkt, global_pkt, fec>>
  <2>1. SenderNumbers'
    BY <1>2, <1>3, SenderAssumption DEF SenderInv, SenderNumbers, window
  <2>2. SenderControl'
    BY <1>2, <1>3
    DEF SenderInv, SenderControl, SenderLoop, SenderEnd, SenderRuns, window
  <2>3. GroupInv'
    BY <1>2, <1>3 DEF SenderInv, GroupInv, window
  <2> QED
    BY <1>1, <1>3, <2>1, <2>2, <2>3 DEF SenderInv, SenderListInv, EofInv, window
<1>4. CASE \E win \in WindowSize : HandleResponse([type |-> "DATA", win |-> win])
  <2>1. PICK win \in WindowSize : HandleResponse([type |-> "DATA", win |-> win])
    BY <1>4
  <2>2. [type |-> "DATA", win |-> win].win \in WindowSize
    OBVIOUS
  <2> QED
    BY <1>1, <1>2, <2>1, <2>2, HandleResponseInv
<1> QED
  BY <1>3, <1>4 DEF SReadFails

(* Every step of the sender.                                               *)
LEMMA SenderStepInv == LinkInv /\ SenderInv /\ SenderStep => LinkInv' /\ SenderInv'
<1> SUFFICES ASSUME LinkInv, SenderInv, SenderStep PROVE LinkInv' /\ SenderInv'
  OBVIOUS
<1>1. CASE SPoll
  BY <1>1, PollInv
  DEF SPoll, LinkInv, DataChannel, ResponseChannel, ErrorInv, FaultsInv, linkVars
<1>2. CASE SEndOfFile
  BY <1>2, EndOfFileInv
  DEF SEndOfFile, LinkInv, DataChannel, ResponseChannel, ErrorInv, FaultsInv, linkVars
<1>3. CASE SFill
  <2>1. global_pkt \in Payload
    BY <1>3, FileAssumption DEF SFill, Payload
  <2> QED
    BY <1>3, <2>1, FillInv DEF SFill, LinkInv, FaultsInv
<1>4. CASE SFillUnread
  <2>1. Empty \in Payload
    BY FileAssumption DEF Payload, Empty
  <2>2. FaultsInv'
    BY <1>4, FaultType DEF SFillUnread, LinkInv, FaultsInv
  <2> QED
    BY <1>4, <2>1, <2>2, FillInv DEF SFillUnread, LinkInv
<1>5. CASE SFinal
  BY <1>5, FinalInv DEF SFinal, LinkInv, FaultsInv
<1>9. CASE SParity
  BY <1>9, ParityInv DEF SParity, LinkInv, FaultsInv
<1>6. CASE \E late \in Timeouts : Resend(late)
  BY <1>6, ResendInv DEF Resend, SResend, LinkInv, FaultsInv
<1>7. CASE \E i \in DOMAIN toSender : SRead(i)
  BY <1>7, ReadInv
<1>8. CASE SReadFails
  BY <1>8, ReadFailsInv
<1> QED
  BY <1>1, <1>2, <1>3, <1>4, <1>5, <1>6, <1>7, <1>8, <1>9 DEF SenderStep

-----------------------------------------------------------------------------
(* flush_file writes the chunks that come next: as the numbers follow each *)
(* other from the head, and each is that of its chunk, so do the chunks.   *)
LEMMA FlushedChunks ==
  ASSUME ReceiverInv, rPc # "done", ShortFile,
         NEW list \in Seq(Numbered), NEW k \in 0 .. Len(list),
         \A i \in 1 .. k : Follows(list, i) /\ list[i].pay # Empty
  PROVE  /\ \A i \in 1 .. k : list[i].pay = Len(out) + i - 1
         /\ (rHead + k) % SeqSpace = Len(out) + k
<1>1. rHead = Len(out) /\ rHead \in Seqnum
  BY DEF ReceiverInv, OutputInv, ReceiverNumbers
<1>2. \A i \in 1 .. k : /\ list[i].pay = (rHead + i - 1) % SeqSpace
                        /\ list[i].pay \in 0 .. FileLen - 1
  <2> TAKE i \in 1 .. k
  <2>1. list[i] \in Numbered
    BY LenProperties, ElementOfSeq
  <2>2. list[i].seq = (rHead + i - 1) % SeqSpace /\ list[i].pay # Empty
    BY DEF Follows
  <2>3. list[i].seq = list[i].pay /\ list[i].pay \in Payload
    BY <2>1, <2>2 DEF Numbered, Pkt
  <2>4. list[i].pay \in 0 .. FileLen - 1
    BY <2>2, <2>3, FileAssumption DEF Payload, Empty
  <2> QED
    BY <2>2, <2>3, <2>4
<1>3. ASSUME rHead + k > SeqSpace PROVE FALSE
  <2>1. SeqSpace - rHead \in 1 .. k
    BY <1>1, <1>3, WindowAssumption DEF Seqnum
  <2>2. rHead + (SeqSpace - rHead) - 1 = SeqSpace - 1
    BY <1>1, WindowAssumption DEF Seqnum
  <2>3. list[SeqSpace - rHead].pay = (SeqSpace - 1) % SeqSpace
    BY <1>2, <2>1, <2>2
  <2>4. (SeqSpace - 1) % SeqSpace = SeqSpace - 1
    BY ModBelow, WindowAssumption
  <2> QED
    BY <1>2, <2>1, <2>3, <2>4, FileAssumption, WindowAssumption DEF ShortFile
<1>4. \A i \in 1 .. k : list[i].pay = rHead + i - 1
  <2> TAKE i \in 1 .. k
  <2>1. rHead + i - 1 \in 0 .. SeqSpace - 1
    BY <1>1, <1>3, WindowAssumption DEF Seqnum
  <2>2. (rHead + i - 1) % SeqSpace = rHead + i - 1
    BY <2>1, ModBelow, WindowAssumption
  <2> QED
    BY <1>2, <2>2
<1>5. rHead + k \in 0 .. SeqSpace - 1
  <2>1. CASE k = 0
    BY <1>1, <2>1, WindowAssumption DEF Seqnum
  <2>2. CASE k \in 1 .. Len(list)
    <3>1. rHead + k - 1 <= FileLen - 1
      BY <1>2, <1>4, <2>2
    <3> QED
      BY <1>1, <2>2, <3>1, FileAssumption, WindowAssumption DEF ShortFile, Seqnum
  <2> QED
    BY <2>1, <2>2
<1>6. (rHead + k) % SeqSpace = rHead + k
  BY <1>5, ModBelow, WindowAssumption
<1> QED
  BY <1>1, <1>4, <1>6

(* flush_file keeps the invariant of the receiver.                         *)
LEMMA FlushInv ==
  ASSUME LinkInv, ReceiverInv, rPc = "run",
         NEW list \in Seq(Numbered), NEW ack \in BOOLEAN, NEW size \in WindowSize,
         NEW responses \in Seq(Response), Flush(list, ack, size, responses)
  PROVE  /\ ResponseChannel' /\ FaultsInv'
         /\ rList' \in Seq(Numbered) /\ OutputInv'
         /\ rPc' \in {"run", "done"} /\ resent_ack' \in BOOLEAN
         /\ rWindow' \in WindowSize /\ rHead' \in Seqnum
<1>1. PICK k \in 0 .. Len(list), broken \in BOOLEAN :
        /\ IF broken
             THEN /\ \E j \in k + 1 .. Len(list) : Flushable(list, j)
                  /\ Fault("stdout")
             ELSE /\ Flushable(list, k)
                  /\ UNCHANGED faults
        /\ LET rest  == SubSeq(list, k + 1, Len(list))
               final == ~broken /\ k < Len(list) /\ Follows(list, k + 1)
               head  == (rHead + IF final THEN k + 1 ELSE k) % SeqSpace
           IN  /\ rList' = rest
               /\ out' = out \o [i \in 1 .. k |-> list[i].pay]
               /\ rHead' = head
               /\ rWindow' = size
               /\ resent_ack' = (ack \/ rest = <<>>)
               /\ rPc' = IF final \/ broken THEN "done" ELSE "run"
               /\ toSender' = Push(toSender,
                    IF final \/ broken THEN Append(responses, Respond("ACK", head, size))
                    ELSE responses)
  BY DEF Flush
<1> DEFINE rest == SubSeq(list, k + 1, Len(list))
           final == ~broken /\ k < Len(list) /\ Follows(list, k + 1)
           head == (rHead + IF final THEN k + 1 ELSE k) % SeqSpace
           sent == IF final \/ broken THEN Append(responses, Respond("ACK", head, size))
                   ELSE responses
           chunks == [i \in 1 .. k |-> list[i].pay]
<1>2. k \in Nat /\ Len(list) \in Nat /\ k <= Len(list)
  BY LenProperties
<1>3. \A i \in 1 .. k : Follows(list, i) /\ list[i].pay # Empty
  BY <1>1, <1>2 DEF Flushable
<1>4. FaultsInv'
  BY <1>1, FaultType DEF LinkInv, FaultsInv
<1>5. rest \in Seq(Numbered)
  BY <1>2, SubSeqType
<1>6. head \in Seqnum
  <2>1. rHead + (IF final THEN k + 1 ELSE k) \in Int
    BY <1>2 DEF ReceiverInv, ReceiverNumbers, Seqnum
  <2> HIDE DEF final
  <2> QED
    BY <2>1, ModType
<1>7. ResponseChannel'
  <2>1. Respond("ACK", head, size) \in Response
    BY <1>6 DEF Respond, Response
  <2>2. sent \in Seq(Response)
    BY <2>1, AppendProperties
  <2>3. toSender' = Push(toSender, sent)
    BY <1>1
  <2> QED
    BY <2>2, <2>3, PushType DEF LinkInv, ResponseChannel
<1>8. out' = out \o chunks /\ rHead' = head
  BY <1>1
<1>9. /\ rList' \in Seq(Numbered) /\ rPc' \in {"run", "done"}
      /\ rWindow' \in WindowSize /\ rHead' \in Seqnum
  BY <1>1, <1>5, <1>6
<1>10. resent_ack' \in BOOLEAN
  BY <1>1
<1>11. rPc' # "done" => rHead' = (rHead + k) % SeqSpace
  BY <1>1
<1> HIDE DEF rest, final, head, sent
<1>12. OutputInv'
  <2>1. out \in Seq(0 .. FileLen - 1) /\ Len(out) \in Nat
    BY LenProperties DEF ReceiverInv, OutputInv
  <2>2. \A i \in 1 .. k : list[i].pay \in 0 .. FileLen - 1
    <3> TAKE i \in 1 .. k
    <3>1. list[i] \in Numbered
      BY <1>2, ElementOfSeq
    <3> QED
      BY <1>3, <3>1, FileAssumption DEF Numbered, Pkt, Payload, Empty
  <2>3. chunks \in Seq(0 .. FileLen - 1) /\ Len(chunks) = k
    BY <1>2, <2>2
  <2>4. /\ \A i \in 1 .. k : chunks[i] = list[i].pay
        /\ DOMAIN out = 1 .. Len(out)
    BY <2>1, LenProperties
  <2> HIDE DEF chunks
  <2>5. /\ out' \in Seq(0 .. FileLen - 1)
        /\ Len(out') = Len(out) + k
        /\ \A i \in 1 .. Len(out) + k :
             out'[i] = IF i <= Len(out) THEN out[i] ELSE chunks[i - Len(out)]
    BY <1>8, <2>1, <2>3, ConcatProperties
  <2>6. DOMAIN out' = 1 .. Len(out) + k
    BY <2>5, LenProperties
  <2>7. ASSUME ShortFile PROVE Integrity' /\ (rPc' # "done" => rHead' = Len(out'))
    <3>1. /\ \A i \in 1 .. k : list[i].pay = Len(out) + i - 1
          /\ (rHead + k) % SeqSpace = Len(out) + k
      BY <1>3, <2>7, FlushedChunks
    <3>2. \A i \in 1 .. Len(out) : out[i] = i - 1
      BY <2>4, <2>7 DEF ReceiverInv, OutputInv, Integrity
    <3>3. \A i \in DOMAIN out' : out'[i] = i - 1
      <4> TAKE i \in DOMAIN out'
      <4>1. CASE i <= Len(out)
        BY <2>1, <2>5, <2>6, <3>2, <4>1
      <4>2. CASE ~(i <= Len(out))
        <5>1. i - Len(out) \in 1 .. k
          BY <1>2, <2>1, <2>6, <4>2
        <5> QED
          BY <1>2, <2>1, <2>4, <2>5, <2>6, <3>1, <4>2, <5>1
      <4> QED
        BY <4>1, <4>2
    <3> QED
      BY <1>11, <2>5, <3>1, <3>3 DEF Integrity
  <2> QED
    BY <2>5, <2>7 DEF OutputInv
<1> QED
  BY <1>4, <1>7, <1>9, <1>10, <1>12

(* A truncated packet: the list is cut to the halved window.               *)
LEMMA NackInv ==
  ASSUME LinkInv, ReceiverInv, rPc = "run", NEW m \in NumberedMsg, RNack(m)
  PROVE  ResponseChannel' /\ FaultsInv' /\ ReceiverInv'
<1> DEFINE halved == rWindow > MinShrink
           size == decrease_window(rWindow)
           list == IF halved /\ size < Len(rList) THEN SubSeq(rList, 1, size)
                   ELSE rList
           nack == Respond("NACK", m.seq, size)
<1>1. size \in WindowSize
  BY WindowAssumption
  DEF ReceiverInv, ReceiverNumbers, WindowSize, decrease_window
<1>2. list \in Seq(Numbered)
  <2>1. rList \in Seq(Numbered) /\ Len(rList) \in Nat /\ size \in Nat
    BY <1>1, LenProperties DEF ReceiverInv, WindowSize
  <2> QED
    BY <2>1, SubSeqType
<1>3. <<nack>> \in Seq(Response)
  <2>1. nack \in Response
    BY <1>1 DEF NumberedMsg, DataMsg, Respond, Response
  <2> QED
    BY <2>1
<1>4. Flush(list, resent_ack, size, <<nack>>) /\ resent_ack \in BOOLEAN
  BY DEF RNack, ReceiverInv, ReceiverControl
<1> HIDE DEF list, size, nack
<1>5. /\ ResponseChannel' /\ FaultsInv'
      /\ rList' \in Seq(Numbered) /\ OutputInv'
      /\ rPc' \in {"run", "done"} /\ resent_ack' \in BOOLEAN
      /\ rWindow' \in WindowSize /\ rHead' \in Seqnum
  BY <1>1, <1>2, <1>3, <1>4, FlushInv
<1> QED
  BY <1>5
  DEF RNack, EofAfterNack, ReceiverInv, ReceiverControl, ReceiverNumbers

(* A packet refused, or received twice, only answers and flushes.          *)
LEMMA NothingStoredInv ==
  ASSUME LinkInv, ReceiverInv, rPc = "run", NEW m, RIgnore(m) \/ RDrop(m)
  PROVE  ResponseChannel' /\ FaultsInv' /\ ReceiverInv'
<1>1. /\ rList \in Seq(Numbered) /\ resent_ack \in BOOLEAN
      /\ rWindow \in WindowSize /\ <<>> \in Seq(Response)
  BY EmptySeq DEF ReceiverInv, ReceiverControl, ReceiverNumbers
<1>2. /\ \E ack \in BOOLEAN : Flush(rList, ack, rWindow, <<>>)
      /\ UNCHANGED <<rEof, eof_seqnum>>
  BY <1>1 DEF RIgnore, RDrop
<1>3. /\ ResponseChannel' /\ FaultsInv'
      /\ rList' \in Seq(Numbered) /\ OutputInv'
      /\ rPc' \in {"run", "done"} /\ resent_ack' \in BOOLEAN
      /\ rWindow' \in WindowSize /\ rHead' \in Seqnum
  BY <1>1, <1>2, FlushInv
<1> QED
  BY <1>2, <1>3 DEF ReceiverInv, ReceiverControl, ReceiverNumbers

(* A packet of the window: what pkt_decode accepts has an intact header.   *)
LEMMA StoreInv ==
  ASSUME LinkInv, ReceiverInv, rPc = "run", NEW m \in NumberedMsg, RStore(m)
  PROVE  ResponseChannel' /\ FaultsInv' /\ ReceiverInv'
<1>1. Stored(m) \in Numbered /\ m.seq \in Seqnum
  BY DEF RStore, pkt_decode, NumberedMsg, DataMsg
<1> DEFINE size == IF m.seq = rHead THEN increase_window(rWindow) ELSE rWindow
<1>2. PICK i \in 1 .. Len(rList) + 1 :
        Flush(InsertAt(rList, i, Stored(m)), m.seq # rHead, size, <<>>)
  BY DEF RStore
<1>3. InsertAt(rList, i, Stored(m)) \in Seq(Numbered)
  BY <1>1, InsertAtType DEF ReceiverInv
<1>4. size \in WindowSize
  BY WindowAssumption DEF ReceiverInv, ReceiverNumbers, WindowSize, increase_window
<1>5. (m.seq # rHead) \in BOOLEAN /\ <<>> \in Seq(Response)
  BY EmptySeq
<1> HIDE DEF size
<1>6. /\ ResponseChannel' /\ FaultsInv'
      /\ rList' \in Seq(Numbered) /\ OutputInv'
      /\ rPc' \in {"run", "done"} /\ resent_ack' \in BOOLEAN
      /\ rWindow' \in WindowSize /\ rHead' \in Seqnum
  BY <1>2, <1>3, <1>4, <1>5, FlushInv
<1>7. rEof' \in BOOLEAN /\ eof_seqnum' \in Seqnum
  BY <1>1 DEF RStore, ReceiverInv, ReceiverControl, ReceiverNumbers
<1> QED
  BY <1>6, <1>7 DEF ReceiverInv, ReceiverControl, ReceiverNumbers

(* Receiving a message keeps the invariant.                                *)
LEMMA ReceiveInv ==
  ASSUME LinkInv, ReceiverInv, NEW i \in DOMAIN toReceiver, RReceive(i)
  PROVE  LinkInv' /\ ReceiverInv'
<1>1. toReceiver[i] \in NumberedMsg /\ DataChannel'
  BY RemoveFromChannel DEF LinkInv, DataChannel, RReceive
<1>2. ResponseChannel' /\ FaultsInv' /\ ReceiverInv'
  BY <1>1, NackInv, NothingStoredInv, StoreInv DEF RReceive
<1> QED
  BY <1>1, <1>2 DEF RReceive, LinkInv, ErrorInv

(* So does an acknowledgement.                                             *)
LEMMA AckInv ==
  ASSUME LinkInv, ReceiverInv, RAck
  PROVE  LinkInv' /\ ReceiverInv'
<1>1. <<Respond("ACK", rHead, rWindow)>> \in Seq(Response)
  <2>1. Respond("ACK", rHead, rWindow) \in Response
    BY DEF ReceiverInv, ReceiverNumbers, Respond, Response
  <2> QED
    BY <2>1
<1>2. ResponseChannel'
  BY <1>1, PushType DEF RAck, LinkInv, ResponseChannel
<1> QED
  BY <1>2 DEF RAck, LinkInv, DataChannel, ErrorInv, FaultsInv, ReceiverInv,
              ReceiverControl, ReceiverNumbers, OutputInv, Integrity

(* Every step of the receiver.                                             *)
LEMMA ReceiverStepInv ==
  LinkInv /\ ReceiverInv /\ ReceiverStep => LinkInv' /\ ReceiverInv'
<1> SUFFICES ASSUME LinkInv, ReceiverInv, ReceiverStep
             PROVE  LinkInv' /\ ReceiverInv'
  OBVIOUS
<1>1. CASE RConnect
  BY <1>1 DEF RConnect, LinkInv, DataChannel, ResponseChannel, ErrorInv, FaultsInv,
              linkVars, ReceiverInv, ReceiverControl, ReceiverNumbers, OutputInv,
              Integrity
<1>2. CASE RTimeout
  <2>1. FaultsInv'
    BY <1>2, FaultType DEF RTimeout, LinkInv
  <2> QED
    BY <1>2, <2>1
    DEF RTimeout, LinkInv, DataChannel, ResponseChannel, ErrorInv, ReceiverInv,
        ReceiverControl, ReceiverNumbers, OutputInv, Integrity
<1>3. CASE RAck
  BY <1>3, AckInv
<1>4. CASE \E i \in DOMAIN toReceiver : RReceive(i)
  BY <1>4, ReceiveInv
<1> QED
  BY <1>1, <1>2, <1>3, <1>4 DEF ReceiverStep

-----------------------------------------------------------------------------
(* Inv is an invariant: each step of one part leaves the others as they    *)
(* are.                                                                    *)
LEMMA Invariance == Spec => []Inv
<1>1. Inv /\ [Next]_vars => Inv'
  <2> SUFFICES ASSUME Inv, [Next]_vars PROVE Inv'
    OBVIOUS
  <2>1. UNCHANGED receiverVars => ReceiverInv'
    BY DEF Inv, receiverVars, ReceiverInv, ReceiverControl, ReceiverNumbers,
           OutputInv, Integrity
  <2>2. UNCHANGED senderVars => SenderInv'
    BY DEF Inv, senderVars, window, flags, SenderInv, SenderListInv,
           SenderNumbers, SenderControl, SenderRuns, EofInv, GroupInv
  <2>3. CASE SenderStep
    BY <2>1, <2>3, SenderStepInv DEF Inv, SenderStep
  <2>4. CASE ReceiverStep
    BY <2>2, <2>4, ReceiverStepInv DEF Inv, ReceiverStep
  <2>5. CASE LinkStep
    BY <2>1, <2>2, <2>5, LinkFaultInv, RefuseInv DEF Inv, LinkStep
  <2>6. CASE UNCHANGED vars
    BY <2>1, <2>2, <2>6
    DEF Inv, vars, linkVars, LinkInv, DataChannel, ResponseChannel, ErrorInv,
        FaultsInv
  <2> QED
    BY <2>3, <2>4, <2>5, <2>6 DEF Next
<1> QED
  BY InitInv, <1>1, PTL DEF Spec

(* The types of all the variables: no channel overflows, no number leaves  *)
(* the sequence space and no window its range, whatever the network, the   *)
(* timers and the two loops do.                                            *)
THEOREM TransferTypes == Spec => []TypeOK
<1>1. Inv => TypeOK
  <2> SUFFICES ASSUME Inv PROVE TypeOK
    OBVIOUS
  <2>1. LinkTypeOK
    <3>1. toReceiver \in Seq(DataMsg)
      BY SeqMonotonic DEF Inv, LinkInv, DataChannel, NumberedMsg
    <3> QED
      BY <3>1 DEF Inv, LinkInv, DataChannel, ResponseChannel, ErrorInv, FaultsInv,
                  LinkTypeOK
  <2>2. SenderTypeOK
    <3>1. sList \in Seq(Pkt)
      BY SeqMonotonic DEF Inv, SenderInv, SenderListInv, Numbered
    <3>2. fec \in Seq(0 .. MaxWindow)
      <4>1. Len(sList) \in 0 .. MaxWindow /\ MaxWindow \in Nat
        BY <3>1, LenProperties, WindowAssumption
        DEF Inv, SenderInv, SenderListInv, SenderNumbers, WindowSize
      <4>2. 0 .. Len(sList) \subseteq 0 .. MaxWindow
        BY <4>1
      <4> QED
        BY <4>2, SeqMonotonic DEF Inv, SenderInv, GroupInv
    <3> QED
      BY <3>1, <3>2
      DEF Inv, SenderInv, SenderNumbers, SenderControl, GroupInv, SenderTypeOK
  <2>3. ReceiverTypeOK
    <3>1. rList \in Seq(Pkt)
      BY SeqMonotonic DEF Inv, ReceiverInv, Numbered
    <3> QED
      BY <3>1 DEF Inv, ReceiverInv, ReceiverControl, ReceiverNumbers, OutputInv,
                  ReceiverTypeOK
  <2> QED
    BY <2>1, <2>2, <2>3 DEF TypeOK
<1> QED
  BY <1>1, Invariance, PTL

(* The sender's unacknowledged packets fit in the window it was last told, *)
(* for all orders of responses (fill_window, update_window).               *)
THEOREM TransferSenderBound == Spec => []SenderBound
<1>1. Inv => SenderBound
  BY DEF Inv, SenderInv, SenderListInv, SenderBound
<1> QED
  BY <1>1, Invariance, PTL

(* Without the -c option, when no write to the socket fails, resent_pkt    *)
(* never walks an emptied list: acknowledgements that release all but the  *)
(* final packet, and the resets of update_window, always leave something   *)
(* to resend (read_write_sender.c:173).                                    *)
THEOREM TransferNoUB ==
  ASSUME WritesSucceed, ~fec_enable
  PROVE  Spec => []NoUB
<1>1. Inv => NoUB
  BY DEF Inv, SenderInv, SenderControl, NoUB
<1> QED
  BY <1>1, Invariance, PTL

(* The output is the beginning of the file, for a file shorter than the    *)
(* sequence space, under any number of losses, truncations, corruptions,   *)
(* delays, failed reads and failed writes (flush_file).                    *)
THEOREM TransferIntegrity ==
  ASSUME FileLen < SeqSpace
  PROVE  Spec => []Integrity
<1>1. Inv => Integrity
  BY DEF Inv, ReceiverInv, OutputInv, ShortFile
<1> QED
  BY <1>1, Invariance, PTL
=============================================================================
