---------------------------- MODULE FinalProofs ----------------------------
(***************************************************************************)
(* Proofs about the final packet: it comes behind the file, also when      *)
(* windows shrink with final packets in the sender's list, under all       *)
(* faults but a failing pread and all reorderings.                         *)
(***************************************************************************)
EXTENDS TransferProofs

(* Each window shrunk while a final packet is last in the list makes the   *)
(* next final packet take the next number, and each final packet dropped   *)
(* moves global_pkt back too far: the property is about transfers in which *)
(* neither goes so far that a number starts again from 0, or from behind.  *)
NoTurn == global_pkt >= 0 /\ sTail < SeqSpace - 1

NoReadError == ShortFile /\ "pread" \notin Faults

(* A packet of a list, and a message whose header is intact.               *)
Behind == {p \in Numbered : BehindFile(p)}
BehindMsg == {m \in NumberedMsg : m.type = "DATA" /\ m.ok1 => BehindFile(Stored(m))}

PlacesInv ==
  /\ sList \in Seq(Behind)
  /\ toReceiver \in Seq(BehindMsg)
  /\ rList \in Seq(Behind)

(* The next chunk to read is not beyond the one that follows a chunk of    *)
(* the list, each packet after it counted: so what update_window leaves of *)
(* the list ends with the last chunk, or a final packet, when it leaves    *)
(* global_pkt at the end of the file.                                      *)
Reading == IF sPc = "parity" THEN global_pkt + 1 ELSE global_pkt

CountedInv ==
  \A j \in 1 .. Len(sList) :
    sList[j].pay # Empty => Reading - (Len(sList) - j) <= sList[j].pay + 1

TailInv == global_pkt >= FileLen => sTail >= FileLen - 1

BehindInv == PlacesInv /\ CountedInv /\ TailInv

-----------------------------------------------------------------------------
(* Behind the last chunk, or a final packet, comes the end of the file.    *)
LEMMA LastPacket ==
  ASSUME ShortFile, NEW p \in Behind, NEW next \in Int,
         p.pay # Empty => next <= p.pay + 1, next >= FileLen
  PROVE  p.seq >= FileLen - 1 /\ p.seq \in Seqnum
<1>1. p \in Numbered /\ p.seq \in Seqnum /\ p.pay \in 0 .. FileLen
  BY DEF Behind, Numbered, Pkt, Payload
<1>2. CASE p.pay = Empty
  BY <1>1, <1>2, FileAssumption, WindowAssumption DEF Behind, BehindFile, Seqnum
<1>3. CASE p.pay # Empty
  <2>1. p.seq = p.pay
    BY <1>1, <1>3 DEF Numbered
  <2> QED
    BY <1>1, <1>3, <2>1, FileAssumption
<1> QED
  BY <1>2, <1>3

(* A packet of a list, written.                                            *)
LEMMA DataBehind ==
  ASSUME NEW p \in Behind
  PROVE  Data(p) \in BehindMsg
<1>1. p \in Numbered /\ BehindFile(p) /\ p \in Pkt
  BY DEF Behind, Numbered
<1>2. Data(p) \in NumberedMsg
  BY <1>1, DataType
<1>3. Stored(Data(p)).pay = p.pay /\ Stored(Data(p)).seq = p.seq
  BY DEF Stored, Data
<1> QED
  BY <1>1, <1>2, <1>3 DEF BehindMsg, BehindFile

(* A write, or its failure, puts only such messages in the channel.        *)
LEMMA WriteBehind ==
  ASSUME Inv, toReceiver \in Seq(BehindMsg), NEW m \in BehindMsg, Written(m) \/ WriteFails
  PROVE  toReceiver' \in Seq(BehindMsg)
<1>1. CASE Written(m)
  <2>1. <<m>> \in Seq(BehindMsg) /\ Len(toReceiver) <= Capacity
    BY DEF Inv, LinkInv, DataChannel
  <2> QED
    BY <1>1, <2>1, PushType DEF Written
<1>2. CASE WriteFails
  BY <1>2 DEF WriteFails
<1> QED
  BY <1>1, <1>2

(* A packet appended to the list keeps CountedInv if it is a final one or  *)
(* the chunk that was to be read, and at most one packet is counted.       *)
LEMMA AppendCounted ==
  ASSUME Inv, BehindInv, NEW p \in Behind, sList' = Append(sList, p),
         Reading' \in Int, Reading' <= Reading + 1,
         p.pay # Empty => Reading' <= p.pay + 1
  PROVE  sList' \in Seq(Behind) /\ CountedInv'
<1>1. PICK n \in Nat : n = Len(sList)
  BY LenProperties DEF BehindInv, PlacesInv
<1>2. /\ sList' \in Seq(Behind) /\ Len(sList') = n + 1 /\ sList'[n + 1] = p
      /\ \A j \in 1 .. n : sList'[j] = sList[j]
  BY <1>1, AppendProperties DEF BehindInv, PlacesInv
<1>3. Reading \in Int
  BY DEF Inv, SenderInv, SenderNumbers, Reading
<1>4. ASSUME NEW j \in 1 .. n + 1, sList'[j].pay # Empty
      PROVE  Reading' - (n + 1 - j) <= sList'[j].pay + 1
  <2>1. CASE j = n + 1
    <3>1. Reading' - (n + 1 - j) = Reading' /\ sList'[j] = p
      BY <1>1, <1>2, <2>1
    <3> QED
      BY <1>4, <3>1
  <2>2. CASE j \in 1 .. n
    <3>1. sList[j] \in Behind /\ sList'[j] = sList[j]
      BY <1>1, <1>2, <2>2, ElementOfSeq DEF BehindInv, PlacesInv
    <3>2. sList[j].pay \in Int
      BY <3>1, FileAssumption DEF Behind, Numbered, Pkt, Payload
    <3>3. Reading - (n - j) <= sList[j].pay + 1
      BY <1>1, <1>4, <2>2, <3>1 DEF BehindInv, CountedInv
    <3> QED
      BY <1>1, <1>3, <3>1, <3>2, <3>3
  <2> QED
    BY <1>1, <2>1, <2>2
<1> QED
  BY <1>2, <1>4 DEF CountedInv

(* The list stays and nothing is counted.                                  *)
LEMMA ListUntouched ==
  ASSUME Inv, BehindInv, UNCHANGED <<sList, sTail, global_pkt>>,
         sPc' = sPc \/ sPc' # "parity"
  PROVE  sList' \in Seq(Behind) /\ CountedInv' /\ TailInv'
<1>1. Reading' <= Reading /\ Reading' \in Int /\ Reading \in Int
  BY DEF Inv, SenderInv, SenderNumbers, Reading
<1>2. TailInv' /\ sList' \in Seq(Behind) /\ Len(sList) \in Nat
  BY LenProperties DEF BehindInv, PlacesInv, TailInv
<1>3. ASSUME NEW j \in 1 .. Len(sList), sList[j].pay # Empty
      PROVE  Reading' - (Len(sList) - j) <= sList[j].pay + 1
  <2>1. sList[j] \in Behind
    BY <1>2, ElementOfSeq DEF BehindInv, PlacesInv
  <2>2. sList[j].pay \in Int
    BY <2>1, FileAssumption DEF Behind, Numbered, Pkt, Payload
  <2>3. Reading - (Len(sList) - j) <= sList[j].pay + 1
    BY <1>3 DEF BehindInv, CountedInv
  <2> QED
    BY <1>1, <1>2, <2>2, <2>3
<1> QED
  BY <1>2, <1>3 DEF CountedInv

-----------------------------------------------------------------------------
(* fill_window puts the next chunk in the list (read_write_sender.c:90).   *)
LEMMA FillBehind ==
  ASSUME NoReadError, Inv, BehindInv, SFill
  PROVE  sList' \in Seq(Behind) /\ toReceiver' \in Seq(BehindMsg) /\ CountedInv' /\ TailInv'
<1> DEFINE pkt == [seq |-> global_pkt % SeqSpace, pay |-> global_pkt]
<1>1. /\ global_pkt \in 0 .. FileLen - 1 /\ sPc = "send"
      /\ sList' = Append(sList, pkt)
      /\ Written(Data(pkt)) \/ WriteFails
      /\ \/ sPc' = "parity" /\ UNCHANGED <<sTail, global_pkt>>
         \/ sPc' # "parity" /\ UNCHANGED <<sTail, global_pkt>>
         \/ sPc' # "parity" /\ sTail' = pkt.seq /\ global_pkt' = global_pkt + 1
  BY DEF SFill, CanFill, Fill, Count
<1>2. global_pkt % SeqSpace = global_pkt /\ global_pkt \in Seqnum
  <2>1. global_pkt \in 0 .. SeqSpace - 1 /\ SeqSpace \in Nat \ {0}
    BY <1>1, FileAssumption, WindowAssumption DEF NoReadError, ShortFile
  <2> QED
    BY <2>1, ModBelow DEF Seqnum
<1>3. pkt \in Behind
  <2>1. pkt \in Numbered
    BY <1>1, <1>2, FileAssumption DEF Numbered, Pkt, Payload
  <2> QED
    BY <1>1, <2>1, FileAssumption DEF Behind, BehindFile, Empty
<1>4. toReceiver' \in Seq(BehindMsg)
  BY <1>1, <1>3, DataBehind, WriteBehind DEF BehindInv, PlacesInv
<1>5. sList' \in Seq(Behind) /\ CountedInv'
  <2>1. Reading = global_pkt /\ Reading' \in Int /\ Reading' <= global_pkt + 1
    BY <1>1 DEF Reading
  <2> QED
    BY <1>1, <1>3, <2>1, AppendCounted
<1>6. TailInv'
  BY <1>1, <1>2, FileAssumption DEF BehindInv, TailInv
<1> QED
  BY <1>4, <1>5, <1>6

(* The parity packet of a group counts the last packet of the list.        *)
LEMMA ParityBehind ==
  ASSUME NoReadError, Inv, BehindInv, SParity
  PROVE  sList' \in Seq(Behind) /\ toReceiver' \in Seq(BehindMsg) /\ CountedInv' /\ TailInv'
<1>1. sPc = "parity" /\ UNCHANGED sList /\ sPc' # "parity"
  BY DEF SParity
<1>2. CASE Unreadable
  BY <1>1, <1>2, ListUntouched DEF SParity, BehindInv, PlacesInv
<1>3. CASE ~Unreadable
  <2>1. /\ fec \in Seq(0 .. Len(sList)) /\ 1 \in DOMAIN fec /\ Len(sList) \in Nat
        /\ sList \in Seq(Behind)
    BY <1>1, EmptySeq, LenProperties
    DEF Inv, SenderInv, GroupInv, BehindInv, PlacesInv
  <2>2. fec[1] \in 1 .. Len(sList)
    <3>1. fec[1] # 0 /\ fec[1] \in 0 .. Len(sList)
      BY <1>3, <2>1, LenProperties, ElementOfSeq DEF Unreadable
    <3> QED
      BY <2>1, <3>1
  <2>3. sList[fec[1]] \in Behind /\ Len(sList) \in 1 .. Len(sList)
    BY <2>1, <2>2, ElementOfSeq
  <2>4. Parity(sList[fec[1]].seq) \in BehindMsg
    <3>1. Parity(sList[fec[1]].seq) \in NumberedMsg
      BY <2>3, ParityType DEF Behind, Numbered, Pkt
    <3> QED
      BY <3>1 DEF BehindMsg, Parity
  <2>5. \/ /\ Written(Parity(sList[fec[1]].seq))
           /\ sTail' = sList[Len(sList)].seq /\ global_pkt' = global_pkt + 1
        \/ WriteFails /\ UNCHANGED <<sTail, global_pkt>>
    BY <1>3 DEF SParity, Count
  <2>6. toReceiver' \in Seq(BehindMsg)
    BY <2>4, <2>5, WriteBehind DEF BehindInv, PlacesInv
  <2>7. CASE WriteFails /\ UNCHANGED <<sTail, global_pkt>>
    BY <1>1, <2>6, <2>7, ListUntouched
  <2>8. CASE sTail' = sList[Len(sList)].seq /\ global_pkt' = global_pkt + 1
    <3>1. Reading' = Reading /\ Reading = global_pkt' /\ Reading \in Int
      BY <1>1, <2>8 DEF Reading, Inv, SenderInv, SenderNumbers
    <3>2. CountedInv'
      BY <1>1, <3>1 DEF BehindInv, CountedInv
    <3>3. PICK p \in Behind : p = sList[Len(sList)]
      BY <2>1, <2>3, ElementOfSeq
    <3>4. p.pay # Empty => global_pkt' - (Len(sList) - Len(sList)) <= p.pay + 1
      BY <2>3, <3>1, <3>3 DEF BehindInv, CountedInv
    <3>5. p.pay # Empty => global_pkt' <= p.pay + 1
      BY <2>1, <3>1, <3>4
    <3>6. TailInv'
      BY <2>8, <3>1, <3>3, <3>5, LastPacket DEF TailInv, NoReadError
    <3> QED
      BY <1>1, <2>1, <2>6, <3>2, <3>6
  <2> QED
    BY <2>5, <2>7, <2>8
<1> QED
  BY <1>2, <1>3

(* send_final_pkt: the end of the file is known, so the last number is     *)
(* that of the last chunk or more (read_write_sender.c:58).                *)
LEMMA FinalBehind ==
  ASSUME NoReadError, NoTurn, Inv, BehindInv, SFinal
  PROVE  sList' \in Seq(Behind) /\ toReceiver' \in Seq(BehindMsg) /\ CountedInv' /\ TailInv'
<1> DEFINE pkt == [seq |-> Succ(sTail), pay |-> Empty]
<1>1. /\ sEof /\ sPc = "send" /\ sPc' = "resend" /\ sTail' = Succ(sTail)
      /\ UNCHANGED global_pkt
      /\ \/ Written(Data(pkt)) /\ sList' = Append(sList, pkt)
         \/ WriteFails /\ UNCHANGED sList
  BY DEF SFinal, CanEnd
<1>2. sTail \in Nat /\ sTail + 1 \in 0 .. SeqSpace - 1 /\ sTail >= FileLen - 1
  BY <1>1, WindowAssumption
  DEF NoTurn, Inv, SenderInv, SenderNumbers, Seqnum, EofInv, BehindInv, TailInv
<1>3. Succ(sTail) = sTail + 1
  BY <1>2, WindowAssumption, ModBelow DEF Succ
<1>4. pkt \in Behind
  <2>1. pkt \in Numbered
    BY <1>2, <1>3, FileAssumption DEF Numbered, Pkt, Payload, Empty, Seqnum
  <2> QED
    BY <1>2, <1>3, <2>1, FileAssumption DEF Behind, BehindFile
<1>5. toReceiver' \in Seq(BehindMsg)
  BY <1>1, <1>4, DataBehind, WriteBehind DEF BehindInv, PlacesInv
<1>6. TailInv'
  BY <1>1, <1>2, <1>3, FileAssumption DEF TailInv
<1>7. Reading = global_pkt /\ Reading' = global_pkt /\ global_pkt \in Int
  BY <1>1 DEF Reading, Inv, SenderInv, SenderNumbers
<1>8. sList' \in Seq(Behind) /\ CountedInv'
  <2>1. CASE sList' = Append(sList, pkt)
    BY <1>4, <1>7, <2>1, AppendCounted
  <2>2. CASE UNCHANGED sList
    BY <1>7, <2>2 DEF BehindInv, PlacesInv, CountedInv
  <2> QED
    BY <1>1, <2>1, <2>2
<1> QED
  BY <1>5, <1>6, <1>8

(* resent_pkt sends packets of the list.                                   *)
LEMMA ResendBehind ==
  ASSUME Inv, BehindInv, NEW late \in Timeouts, SResend(late)
  PROVE  sList' \in Seq(Behind) /\ toReceiver' \in Seq(BehindMsg) /\ CountedInv' /\ TailInv'
<1> DEFINE sent == IF sErr THEN <<>> ELSE late
           msgs == [j \in DOMAIN sent |-> Data(sList[sent[j]])]
<1>1. Len(sList) \in 0 .. MaxWindow /\ sList \in Seq(Behind)
  <2>1. sList \in Seq(Behind) /\ Len(sList) \in Nat
    BY LenProperties DEF BehindInv, PlacesInv
  <2> QED
    BY <2>1, WindowAssumption DEF Inv, SenderInv, SenderListInv, SenderNumbers, WindowSize
<1>2. PICK k \in Nat : late \in [1 .. k -> 1 .. Len(sList)]
  BY <1>1 DEF Timeouts, Increasing
<1>3. PICK n \in Nat : sent \in [1 .. n -> 1 .. Len(sList)]
  <2>1. CASE sErr
    <3>1. sent \in [1 .. 0 -> 1 .. Len(sList)]
      BY <2>1
    <3> QED
      BY <3>1
  <2>2. CASE ~sErr
    BY <1>2, <2>2
  <2> QED
    BY <2>1, <2>2
<1> HIDE DEF sent
<1>4. msgs \in Seq(BehindMsg)
  <2>1. \A j \in 1 .. n : Data(sList[sent[j]]) \in BehindMsg
    BY <1>1, <1>3, ElementOfSeq, DataBehind
  <2>2. msgs \in [1 .. n -> BehindMsg]
    BY <1>3, <2>1
  <2> QED
    BY <1>3, <2>2
<1>5. toReceiver' = Push(toReceiver, msgs)
  BY DEF SResend, sent
<1>6. toReceiver' \in Seq(BehindMsg)
  BY <1>4, <1>5, PushType DEF Inv, LinkInv, DataChannel, BehindInv, PlacesInv
<1>7. sPc' # "parity" /\ UNCHANGED <<sList, sTail, global_pkt>>
  BY DEF SResend, window
<1> QED
  BY <1>6, <1>7, ListUntouched

(* update_window and ack_window: what the window drops is read again, and  *)
(* what is left ends with a packet whose number tells the end of the file  *)
(* (read_write_sender.c:395).                                              *)
LEMMA ResponseBehind ==
  ASSUME NoReadError, Inv, BehindInv, sPc = "read", NEW m, m.win \in WindowSize,
         HandleResponse(m)
  PROVE  sList' \in Seq(Behind) /\ CountedInv' /\ TailInv'
<1> DEFINE shrink == m.win < sWindow
           kept == IF shrink /\ Len(sList) > m.win THEN SubSeq(sList, 1, m.win)
                   ELSE sList
           tail == IF shrink THEN kept[Len(kept)].seq ELSE sTail
<1>1. PICK n \in Nat \ {0} : n = Len(sList)
  <2>1. sList # <<>> /\ sList \in Seq(Behind)
    BY DEF Inv, SenderInv, SenderControl, BehindInv, PlacesInv
  <2> QED
    BY <2>1, EmptySeq, LenProperties
<1>2. sList \in Seq(Behind) /\ m.win \in Nat \ {0} /\ sWindow \in Nat /\ global_pkt \in Int
  BY DEF BehindInv, PlacesInv, WindowSize, Inv, SenderInv, SenderNumbers
<1>3. /\ kept \in Seq(Behind) /\ Len(kept) \in 1 .. n
      /\ \A j \in 1 .. Len(kept) : kept[j] = sList[j]
      /\ ~shrink => Len(kept) = n
  <2>1. CASE shrink /\ Len(sList) > m.win
    <3>1. kept = SubSeq(sList, 1, m.win)
      BY <2>1
    <3>2. /\ SubSeq(sList, 1, m.win) \in Seq(Behind)
          /\ Len(SubSeq(sList, 1, m.win)) = m.win
          /\ \A j \in 1 .. m.win : SubSeq(sList, 1, m.win)[j] = sList[1 + j - 1]
      BY <1>1, <1>2, <2>1, SubSeqType
    <3>3. \A j \in 1 .. m.win : 1 + j - 1 = j
      BY <1>2
    <3> QED
      BY <1>1, <1>2, <2>1, <3>1, <3>2, <3>3
  <2>2. CASE ~(shrink /\ Len(sList) > m.win)
    <3>1. kept = sList
      BY <2>2
    <3> QED
      BY <1>1, <1>2, <3>1
  <2> QED
    BY <2>1, <2>2
<1>4. PICK q \in 1 .. n : q = Len(kept)
  BY <1>3
<1>5. global_pkt' = global_pkt - (n - q) /\ sTail' = tail
  BY <1>1, <1>4 DEF HandleResponse, ReadAgain
<1>6. PICK k \in 0 .. q : sList' = SubSeq(kept, k + 1, q) /\ sPc' # "parity"
  BY <1>4 DEF HandleResponse
<1> HIDE DEF kept
<1>7. /\ sList' \in Seq(Behind) /\ Len(sList') = q - k
      /\ \A j \in 1 .. q - k : sList'[j] = sList[k + j]
  <2>1. /\ sList' \in Seq(Behind) /\ Len(sList') = q - k
        /\ \A j \in 1 .. q - k : sList'[j] = kept[k + j]
    BY <1>3, <1>4, <1>6, SuffixType
  <2>2. \A j \in 1 .. q - k : k + j \in 1 .. q
    BY <1>4, <1>6
  <2> QED
    BY <1>3, <1>4, <2>1, <2>2
<1>8. Reading = global_pkt /\ Reading' = global_pkt'
  BY <1>6 DEF Reading
<1>9. ASSUME NEW j \in 1 .. n, sList[j].pay # Empty
      PROVE  global_pkt - (n - j) <= sList[j].pay + 1
  BY <1>1, <1>8, <1>9 DEF BehindInv, CountedInv
<1>10. CountedInv'
  <2>1. ASSUME NEW j \in 1 .. q - k, sList'[j].pay # Empty
        PROVE  global_pkt' - (q - k - j) <= sList'[j].pay + 1
    <3>1. k + j \in 1 .. n /\ sList'[j] = sList[k + j]
      BY <1>7
    <3>2. global_pkt - (n - (k + j)) <= sList[k + j].pay + 1
      BY <1>9, <2>1, <3>1
    <3>3. global_pkt' - (q - k - j) = global_pkt - (n - (k + j))
      BY <1>2, <1>5, <1>6
    <3> QED
      BY <3>1, <3>2, <3>3
  <2> QED
    BY <1>7, <1>8, <2>1 DEF CountedInv
<1>11. TailInv'
  <2>1. CASE shrink
    <3>1. PICK p \in Behind : p = sList[q]
      BY <1>1, <1>2, ElementOfSeq
    <3>2. tail = p.seq
      BY <1>3, <1>4, <2>1, <3>1
    <3>3. p.pay # Empty => global_pkt' <= p.pay + 1
      BY <1>5, <1>9, <3>1
    <3>4. global_pkt' \in Int
      BY <1>2, <1>5
    <3> QED
      BY <1>5, <3>2, <3>3, <3>4, LastPacket DEF TailInv, NoReadError
  <2>2. CASE ~shrink
    BY <1>2, <1>3, <1>4, <1>5, <2>2 DEF BehindInv, TailInv
  <2> QED
    BY <2>1, <2>2
<1> QED
  BY <1>7, <1>10, <1>11

(* Every step of the sender.                                               *)
LEMMA SenderBehind ==
  ASSUME NoReadError, NoTurn, Inv, BehindInv, SenderStep
  PROVE  BehindInv'
<1>1. rList' \in Seq(Behind)
  BY DEF SenderStep, receiverVars, BehindInv, PlacesInv
<1>2. sList' \in Seq(Behind) /\ toReceiver' \in Seq(BehindMsg) /\ CountedInv' /\ TailInv'
  <2>1. CASE SPoll
    <3>1. UNCHANGED <<sList, sTail, global_pkt, toReceiver>> /\ sPc' # "parity"
      BY <2>1 DEF SPoll, window, linkVars
    <3> QED
      BY <3>1, ListUntouched DEF BehindInv, PlacesInv
  <2>2. CASE SEndOfFile
    <3>1. UNCHANGED <<sList, sTail, global_pkt, toReceiver, sPc>>
      BY <2>2 DEF SEndOfFile, window, linkVars
    <3> QED
      BY <3>1, ListUntouched DEF BehindInv, PlacesInv
  <2>3. CASE SFill
    BY <2>3, FillBehind
  <2>4. CASE SFillUnread
    <3>1. global_pkt >= 0 /\ global_pkt \in Int /\ "pread" \notin Faults
      BY DEF NoTurn, NoReadError, Inv, SenderInv, SenderNumbers
    <3> QED
      BY <2>4, <3>1 DEF SFillUnread, Fault
  <2>5. CASE SParity
    BY <2>5, ParityBehind
  <2>6. CASE SFinal
    BY <2>6, FinalBehind
  <2>7. CASE \E late \in Timeouts : Resend(late)
    BY <2>7, ResendBehind DEF Resend
  <2>8. CASE \E i \in DOMAIN toSender : SRead(i)
    <3>1. PICK i \in DOMAIN toSender : SRead(i)
      BY <2>8
    <3>2. UNCHANGED toReceiver /\ sPc = "read"
      BY <3>1 DEF SRead
    <3>3. CASE pkt_decode(toSender[i]) = "PKT_OK"
      <4>1. toSender[i] \in Response
        BY RemoveFromChannel DEF Inv, LinkInv, ResponseChannel
      <4>2. toSender[i].win \in WindowSize
        BY <4>1 DEF Response
      <4> QED
        BY <3>1, <3>2, <3>3, <4>2, ResponseBehind DEF SRead, BehindInv, PlacesInv
    <3>4. CASE pkt_decode(toSender[i]) # "PKT_OK"
      <4>1. UNCHANGED <<sList, sTail, global_pkt>> /\ sPc' # "parity"
        BY <3>1, <3>4 DEF SRead, window
      <4> QED
        BY <3>2, <4>1, ListUntouched DEF BehindInv, PlacesInv
    <3> QED
      BY <3>3, <3>4
  <2>9. CASE SReadFails
    <3>1. UNCHANGED toReceiver /\ sPc = "read"
      BY <2>9 DEF SReadFails
    <3>2. CASE sPc' = "poll" /\ UNCHANGED <<window, sEof, lastPkt, global_pkt, fec>>
      <4>1. UNCHANGED <<sList, sTail, global_pkt>> /\ sPc' # "parity"
        BY <3>2 DEF window
      <4> QED
        BY <3>1, <4>1, ListUntouched DEF BehindInv, PlacesInv
    <3>3. CASE \E win \in WindowSize : HandleResponse([type |-> "DATA", win |-> win])
      <4>1. PICK win \in WindowSize : HandleResponse([type |-> "DATA", win |-> win])
        BY <3>3
      <4>2. [type |-> "DATA", win |-> win].win \in WindowSize
        OBVIOUS
      <4> QED
        BY <3>1, <4>1, <4>2, ResponseBehind DEF BehindInv, PlacesInv
    <3> QED
      BY <2>9, <3>2, <3>3 DEF SReadFails
  <2> QED
    BY <2>1, <2>2, <2>3, <2>4, <2>5, <2>6, <2>7, <2>8, <2>9 DEF SenderStep
<1> QED
  BY <1>1, <1>2 DEF BehindInv, PlacesInv

-----------------------------------------------------------------------------
(* The others' steps leave the sender's part of the invariant alone.       *)
LEMMA SenderIdle ==
  ASSUME BehindInv, UNCHANGED senderVars
  PROVE  sList' \in Seq(Behind) /\ CountedInv' /\ TailInv'
  BY DEF BehindInv, PlacesInv, CountedInv, TailInv, Reading, senderVars, window

(* flush_file leaves the end of a list.                                    *)
LEMMA FlushBehind ==
  ASSUME NEW list \in Seq(Behind), NEW ack, NEW size, NEW responses,
         Flush(list, ack, size, responses)
  PROVE  rList' \in Seq(Behind)
<1>1. PICK k \in 0 .. Len(list) : rList' = SubSeq(list, k + 1, Len(list))
  BY DEF Flush
<1> QED
  BY <1>1, SuffixType

(* What the receiver stores comes from an intact message.                  *)
LEMMA ReceiveBehind ==
  ASSUME Inv, BehindInv, NEW i \in DOMAIN toReceiver, RReceive(i)
  PROVE  toReceiver' \in Seq(BehindMsg) /\ rList' \in Seq(Behind)
<1>1. PICK m \in BehindMsg : m = toReceiver[i]
  BY RemoveFromChannel DEF Inv, LinkInv, DataChannel, BehindInv, PlacesInv
<1>2. toReceiver' \in Seq(BehindMsg)
  BY RemoveFromChannel DEF Inv, LinkInv, DataChannel, BehindInv, PlacesInv, RReceive
<1>3. rList \in Seq(Behind) /\ Len(rList) \in Nat
  BY LenProperties DEF BehindInv, PlacesInv
<1>4. RNack(m) \/ RIgnore(m) \/ RDrop(m) \/ RStore(m)
  BY <1>1 DEF RReceive
<1>5. CASE RNack(m)
  <2> DEFINE halved == rWindow > MinShrink
             size == decrease_window(rWindow)
             list == IF halved /\ size < Len(rList) THEN SubSeq(rList, 1, size)
                     ELSE rList
  <2>1. size \in Nat
    BY WindowAssumption
    DEF Inv, ReceiverInv, ReceiverNumbers, WindowSize, decrease_window
  <2>2. Flush(list, resent_ack, size, <<Respond("NACK", m.seq, size)>>)
    BY <1>5 DEF RNack
  <2>3. list \in Seq(Behind)
    BY <1>3, <2>1, SubSeqType
  <2> HIDE DEF list, size
  <2> QED
    BY <1>2, <2>2, <2>3, FlushBehind
<1>6. CASE RIgnore(m) \/ RDrop(m)
  BY <1>2, <1>3, <1>6, FlushBehind DEF RIgnore, RDrop
<1>7. CASE RStore(m)
  <2>1. Stored(m) \in Behind
    BY <1>7 DEF RStore, pkt_decode, BehindMsg, NumberedMsg, Behind
  <2>2. PICK j \in 1 .. Len(rList) + 1 :
          Flush(InsertAt(rList, j, Stored(m)), m.seq # rHead,
                IF m.seq = rHead THEN increase_window(rWindow) ELSE rWindow, <<>>)
    BY <1>7 DEF RStore
  <2>3. InsertAt(rList, j, Stored(m)) \in Seq(Behind)
    BY <1>3, <2>1, InsertAtType
  <2> QED
    BY <1>2, <2>2, <2>3, FlushBehind
<1> QED
  BY <1>2, <1>4, <1>5, <1>6, <1>7

(* Damage to a message leaves its number and payload, or a header that is  *)
(* not intact.                                                             *)
LEMMA DamageBehind ==
  ASSUME toReceiver \in Seq(BehindMsg), NEW i \in DOMAIN toReceiver, NEW m \in NumberedMsg,
         toReceiver' = [toReceiver EXCEPT ![i] = m],
         m.ok1 => toReceiver[i].ok1 /\ m.type = toReceiver[i].type
                  /\ Stored(m) = Stored(toReceiver[i])
  PROVE  toReceiver' \in Seq(BehindMsg)
<1>1. i \in 1 .. Len(toReceiver) /\ toReceiver[i] \in BehindMsg
  BY LenProperties, ElementOfSeq
<1>2. m \in BehindMsg
  BY <1>1 DEF BehindMsg
<1> QED
  BY <1>1, <1>2, ExceptSeq

(* The network.                                                            *)
LEMMA LinkBehind ==
  ASSUME Inv, BehindInv, LinkFault \/ Refuse
  PROVE  toReceiver' \in Seq(BehindMsg)
<1>1. toReceiver \in Seq(BehindMsg) /\ toReceiver \in Seq(NumberedMsg)
      /\ Len(toReceiver) <= Capacity
  BY DEF Inv, LinkInv, DataChannel, BehindInv, PlacesInv
<1>2. CASE LoseData
  BY <1>1, <1>2, RemoveFromChannel DEF LoseData
<1>3. CASE Truncate
  <2>1. PICK i \in DOMAIN toReceiver : toReceiver' = [toReceiver EXCEPT ![i].tr = 1]
    BY <1>3 DEF Truncate
  <2> DEFINE m == [toReceiver[i] EXCEPT !.tr = 1]
  <2>2. toReceiver[i] \in NumberedMsg
    BY <1>1, RemoveFromChannel
  <2>3. /\ m \in NumberedMsg /\ m.ok1 = toReceiver[i].ok1
        /\ m.type = toReceiver[i].type /\ Stored(m) = Stored(toReceiver[i])
    BY <2>2 DEF NumberedMsg, DataMsg, Stored
  <2> QED
    BY <1>1, <2>1, <2>3, DamageBehind
<1>4. CASE CorruptPayload
  <2>1. PICK i \in DOMAIN toReceiver : toReceiver' = [toReceiver EXCEPT ![i].ok2 = FALSE]
    BY <1>4 DEF CorruptPayload
  <2> DEFINE m == [toReceiver[i] EXCEPT !.ok2 = FALSE]
  <2>2. toReceiver[i] \in NumberedMsg
    BY <1>1, RemoveFromChannel
  <2>3. /\ m \in NumberedMsg /\ m.ok1 = toReceiver[i].ok1
        /\ m.type = toReceiver[i].type /\ Stored(m) = Stored(toReceiver[i])
    BY <2>2 DEF NumberedMsg, DataMsg, Stored
  <2> QED
    BY <1>1, <2>1, <2>3, DamageBehind
<1>5. CASE CorruptHeader
  <2>1. PICK i \in DOMAIN toReceiver, seqnum \in Seqnum, tr \in 0 .. 1 :
          toReceiver' = [toReceiver EXCEPT
                           ![i] = [@ EXCEPT !.type = "DATA", !.ok1 = FALSE,
                                            !.seq = seqnum, !.tr = tr]]
    BY <1>5 DEF CorruptHeader
  <2> DEFINE m == [toReceiver[i] EXCEPT !.type = "DATA", !.ok1 = FALSE,
                                        !.seq = seqnum, !.tr = tr]
  <2>2. toReceiver[i] \in NumberedMsg
    BY <1>1, RemoveFromChannel
  <2>3. m \in NumberedMsg /\ ~m.ok1
    BY <2>2 DEF NumberedMsg, DataMsg
  <2> QED
    BY <1>1, <2>1, <2>3, DamageBehind
<1>6. CASE Refuse
  BY <1>1, <1>6, HeadTailProperties DEF Refuse
<1>7. CASE UNCHANGED toReceiver
  BY <1>1, <1>7
<1> QED
  BY <1>2, <1>3, <1>4, <1>5, <1>6, <1>7
  DEF LinkFault, LoseResponse, CorruptResponse, SocketError

-----------------------------------------------------------------------------
(* No final packet ends the output early: for a file shorter than the      *)
(* sequence space, in a transfer whose preads succeed and whose final      *)
(* packets stay within one turn of the numbers, no final packet, in a list *)
(* or on its way, has the number of a chunk or one before it, whatever is  *)
(* lost, damaged, overtaken or not written, and however windows shrink     *)
(* (update_window and send_final_pkt).                                     *)
THEOREM TransferFinalAfterData ==
  ASSUME FileLen < SeqSpace, "pread" \notin Faults
  PROVE  Spec /\ []NoTurn => []FinalAfterData
<1>1. NoReadError
  BY DEF NoReadError, ShortFile
<1>2. Init => BehindInv
  <2> SUFFICES ASSUME Init PROVE BehindInv
    OBVIOUS
  <2>1. sList = <<>> /\ toReceiver = <<>> /\ rList = <<>> /\ global_pkt = 0 /\ sTail = 0
    BY DEF Init, SenderInit, LinkInit, ReceiverInit
  <2>2. PlacesInv
    BY <2>1, EmptySeq DEF PlacesInv
  <2>3. CountedInv /\ TailInv
    BY <2>1, EmptySeq, FileAssumption DEF CountedInv, TailInv
  <2> QED
    BY <2>2, <2>3 DEF BehindInv
<1>3. Inv /\ NoTurn /\ BehindInv /\ [Next]_vars => BehindInv'
  <2> SUFFICES ASSUME Inv, NoTurn, BehindInv, [Next]_vars PROVE BehindInv'
    OBVIOUS
  <2>1. CASE SenderStep
    BY <1>1, <2>1, SenderBehind
  <2>2. CASE ReceiverStep
    <3>1. UNCHANGED senderVars
      BY <2>2 DEF ReceiverStep
    <3>2. toReceiver' \in Seq(BehindMsg) /\ rList' \in Seq(Behind)
      <4>1. CASE RConnect \/ RTimeout \/ RAck
        BY <4>1 DEF RConnect, RTimeout, RAck, linkVars, BehindInv, PlacesInv
      <4> QED
        BY <2>2, <4>1, ReceiveBehind DEF ReceiverStep
    <3> QED
      BY <3>1, <3>2, SenderIdle DEF BehindInv, PlacesInv
  <2>3. CASE LinkStep
    <3>1. UNCHANGED <<senderVars, receiverVars>> /\ (LinkFault \/ Refuse)
      BY <2>3 DEF LinkStep
    <3>2. rList' \in Seq(Behind)
      BY <3>1 DEF receiverVars, BehindInv, PlacesInv
    <3> QED
      BY <3>1, <3>2, LinkBehind, SenderIdle DEF BehindInv, PlacesInv
  <2>4. CASE UNCHANGED vars
    <3>1. UNCHANGED <<senderVars, rList, toReceiver>>
      BY <2>4 DEF vars, receiverVars, linkVars
    <3> QED
      BY <3>1, SenderIdle DEF BehindInv, PlacesInv
  <2> QED
    BY <2>1, <2>2, <2>3, <2>4 DEF Next
<1>4. BehindInv => FinalAfterData
  <2> SUFFICES ASSUME BehindInv PROVE FinalAfterData
    OBVIOUS
  <2>1. \A i \in DOMAIN sList : BehindFile(sList[i])
    BY LenProperties, ElementOfSeq DEF BehindInv, PlacesInv, Behind
  <2>2. \A i \in DOMAIN toReceiver : toReceiver[i] \in BehindMsg
    BY LenProperties, ElementOfSeq DEF BehindInv, PlacesInv
  <2>3. \A i \in DOMAIN rList : BehindFile(rList[i])
    BY LenProperties, ElementOfSeq DEF BehindInv, PlacesInv, Behind
  <2> QED
    BY <2>1, <2>2, <2>3 DEF FinalAfterData, BehindMsg
<1> QED
  BY <1>2, <1>3, <1>4, Invariance, PTL DEF Spec

=============================================================================
