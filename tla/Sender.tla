------------------------------- MODULE Sender -------------------------------
(***************************************************************************)
(* The sender: the loop of read_write_sender.c.  One turn of the loop      *)
(* polls the socket, fills the window with new packets, sends the final    *)
(* packet, resends the packets whose timer ran out, and reads one response *)
(* if the poll had seen one.  Each of these is an action, each turn of     *)
(* fill_window too, so that the receiver and the network run between them. *)
(* With the -c option (fec_enable) fill_window also sends a parity packet  *)
(* after every GroupSize packets.                                          *)
(*                                                                         *)
(* The socket is taken to be always writable (POLLOUT): a UDP socket is,   *)
(* unless its send buffer is full.  Time is left out: a timer may run out  *)
(* at any moment.                                                          *)
(***************************************************************************)
EXTENDS Link

CONSTANTS
  MaxResent,   \* 4: MAX_RESENT_LAST_PKT
  fec_enable,  \* the -c option
  GroupSize    \* 4: the packets of fec->pkts

ASSUME SenderAssumption ==
  /\ MaxResent \in Nat
  /\ fec_enable \in BOOLEAN
  /\ GroupSize \in Nat \ {0}

VARIABLES
  sPc,         \* where the loop is, or how it ended
  pollin,      \* fds[0].revents & POLLIN at the last poll
  sList,       \* window->linkedList: packets sent and not acknowledged
  sWindow,     \* window->windowsize
  sHead,       \* window->seqnumHead
  sTail,       \* window->seqnumTail
  sEof,        \* eof_reached
  lastPkt,     \* the final packet was sent
  lastRst,     \* times a final packet was resent, MaxResent + 1 at most
  global_pkt,  \* number of the next chunk to read from the file
  fec          \* fec->pkts: places in sList of the group's packets, 0 for
               \* a packet that was deleted since

window == <<sList, sWindow, sHead, sTail>>
flags == <<sEof, lastPkt, lastRst>>
senderVars == <<sPc, pollin, window, flags, global_pkt, fec>>

(* "parity": the group is complete, in the middle of fill_window.          *)
SenderLoop == {"poll", "send", "parity", "resend", "read"}
(* "acked": all packets acknowledged; "gaveup": no news from the receiver; *)
(* "ub": the code has read a packet it had deleted or a payload there is   *)
(* none of, or written past the end of fec->pkts.                          *)
SenderEnd == {"acked", "gaveup", "ub"}

SenderTypeOK ==
  /\ sPc \in SenderLoop \cup SenderEnd
  /\ pollin \in BOOLEAN
  /\ sList \in Seq(Pkt)
  /\ sWindow \in WindowSize
  /\ sHead \in Seqnum
  /\ sTail \in Seqnum
  /\ sEof \in BOOLEAN
  /\ lastPkt \in BOOLEAN
  /\ lastRst \in 0 .. MaxResent + 1
  /\ global_pkt \in Int
  /\ fec \in Seq(0 .. MaxWindow) /\ Len(fec) <= GroupSize

SenderInit ==
  /\ sPc = "poll"
  /\ pollin = FALSE
  /\ sList = <<>>
  /\ sWindow = 1
  /\ sHead = 0
  /\ sTail = 0
  /\ sEof = FALSE
  /\ lastPkt = FALSE
  /\ lastRst = 0
  /\ global_pkt = 0
  /\ fec = <<>>

-----------------------------------------------------------------------------
SPoll ==
  /\ sPc = "poll"
  /\ pollin' \in {FALSE, toSender # <<>>}
  /\ sPc' = "send"
  /\ UNCHANGED <<window, flags, global_pkt, fec, linkVars>>

(* Mutants: one packet too few, one too many.                              *)
CanFillButOne == sPc = "send" /\ ~sEof /\ Len(sList) + 1 < sWindow
CanFillOneMore == sPc = "send" /\ ~sEof /\ Len(sList) <= sWindow

CanFill == sPc = "send" /\ ~sEof /\ Len(sList) < sWindow
CanEnd == sPc = "send" /\ sEof /\ ~lastPkt /\ Len(sList) < sWindow

(* A write on a socket with a pending error fails and clears the error.    *)
Written(msg) ==
  /\ ~sErr
  /\ toReceiver' = Push(toReceiver, <<msg>>)
  /\ UNCHANGED sErr
WriteFails ==
  /\ sErr
  /\ sErr' = FALSE
  /\ UNCHANGED toReceiver

(* fill_window: pread returns 0.                                           *)
SEndOfFile ==
  /\ CanFill
  /\ global_pkt >= FileLen
  /\ sEof' = TRUE
  /\ UNCHANGED <<sPc, pollin, window, lastPkt, lastRst, global_pkt, fec, linkVars>>

(* The end of a turn of fill_window: the packet is counted.                *)
Count(pkt) == sTail' = pkt.seq /\ global_pkt' = global_pkt + 1

(* fill_window: the chunk pay is read, stored, and written, and the packet *)
(* joins the group of the next parity packet; one that joins a group which *)
(* is full lands behind the array.  When the write fails the packet stays  *)
(* in the list and nothing else is updated.                                *)
Fill(pay) ==
  LET pkt   == [seq |-> global_pkt % SeqSpace, pay |-> pay]
      full  == Len(fec) = GroupSize
      group == IF fec_enable /\ ~full THEN Append(fec, Len(sList) + 1) ELSE fec
      due   == Len(group) = GroupSize
  IN  /\ sList' = Append(sList, pkt)
      /\ sHead' = IF sList = <<>> THEN pkt.seq ELSE sHead
      /\ \/ /\ Written(Data(pkt))
            /\ fec' = group
            /\ sPc' = IF full THEN "ub" ELSE IF due THEN "parity" ELSE "send"
            /\ IF due THEN UNCHANGED <<sTail, global_pkt>> ELSE Count(pkt)
         \/ /\ WriteFails
            /\ sPc' = "resend"
            /\ UNCHANGED <<sTail, global_pkt, fec>>
      /\ UNCHANGED <<pollin, sWindow, flags, toSender>>

SFill ==
  /\ CanFill
  /\ global_pkt \in 0 .. FileLen - 1
  /\ Fill(global_pkt)
  /\ UNCHANGED faults

(* fill_window: pread fails, pkt_set_payload refuses the length -1 and the *)
(* packet goes out empty.  It also fails before the start of the file:     *)
(* packets whose write failed were not counted, and update_window takes    *)
(* them off all the same.                                                  *)
SFillUnread ==
  /\ CanFill
  /\ IF global_pkt < 0 THEN UNCHANGED faults ELSE Fault("pread")
  /\ Fill(Empty)

(* fec_generation reads the packets of the group, and the bytes of the     *)
(* last one in the payload of the one before it (fec.c:63), which has none *)
(* when its pread failed.                                                  *)
Unreadable ==
  \/ \E i \in DOMAIN fec : fec[i] = 0
  \/ /\ GroupSize > 1
     /\ sList[fec[GroupSize - 1]].pay = Empty
     /\ sList[fec[GroupSize]].pay # Empty

(* fill_window, the group complete: the parity is computed and written and *)
(* a new group begins.  When the write fails the group stays complete and  *)
(* the packet uncounted.                                                   *)
SParity ==
  /\ sPc = "parity"
  /\ IF Unreadable
       THEN /\ sPc' = "ub"
            /\ UNCHANGED <<sTail, global_pkt, fec, toReceiver, sErr>>
       ELSE \/ /\ Written(Parity(sList[fec[1]].seq))
               /\ Count(sList[Len(sList)])
               /\ fec' = <<>>
               /\ sPc' = "send"
            \/ /\ WriteFails
               /\ sPc' = "resend"
               /\ UNCHANGED <<sTail, global_pkt, fec>>
  /\ UNCHANGED <<pollin, sList, sWindow, sHead, flags, toSender, faults>>

(* send_final_pkt.                                                         *)
SFinal ==
  /\ CanEnd
  /\ lastPkt' = TRUE
  /\ sTail' = Succ(sTail)
  /\ LET pkt == [seq |-> Succ(sTail), pay |-> Empty]
     IN  \/ Written(Data(pkt)) /\ sList' = Append(sList, pkt)
         \/ WriteFails /\ UNCHANGED sList
  /\ sPc' = "resend"
  /\ UNCHANGED <<pollin, sWindow, sHead, sEof, lastRst, global_pkt, fec, toSender,
                 faults>>

(* The positions of the packets whose timer ran out, in list order, for a  *)
(* list of n packets.                                                      *)
Increasing == [n \in 0 .. MaxWindow |->
  UNION {{late \in [1 .. k -> 1 .. n] :
            \A i, j \in 1 .. k : i < j => late[i] < late[j]} : k \in 0 .. n}]

Timeouts == Increasing[Len(sList)]

(* resent_pkt, and the test that gives up after it.  The first failed      *)
(* write ends the round.  With an empty list resent_pkt follows the        *)
(* pointer of the list to a node that was deleted or never set.            *)
SResend(late) ==
  /\ sPc = "resend" \/ (sPc = "send" /\ ~CanFill /\ ~CanEnd)
  /\ LET sent == IF sErr THEN <<>> ELSE late
         finals == Cardinality({j \in DOMAIN sent : sList[sent[j]].pay = Empty})
         giveUp == lastPkt /\ lastRst + finals > MaxResent
     IN  /\ toReceiver' =
              Push(toReceiver, [j \in DOMAIN sent |-> Data(sList[sent[j]])])
         /\ lastRst' = IF lastRst + finals > MaxResent THEN MaxResent + 1
                       ELSE lastRst + finals
         /\ sPc' = CASE sList = <<>>            -> "ub"
                     [] sList # <<>> /\ giveUp  -> "gaveup"
                     [] sList # <<>> /\ ~giveUp -> IF pollin THEN "read" ELSE "poll"
  /\ sErr' = (sErr /\ late = <<>>)
  /\ UNCHANGED <<pollin, window, sEof, lastPkt, global_pkt, fec, toSender, faults>>

-----------------------------------------------------------------------------
(* The while loop of ack_window releases the first k packets of list.      *)
Releases(list, ackSeqnum, k) ==
  LET releasable(i) == seqnum_in_window(list[i].seq, ackSeqnum, list[i].seq)
  IN  /\ \A i \in 1 .. k : releasable(i)
      /\ k < Len(list) => ~releasable(k + 1)

(* update_window: the packets dropped are read again, and the end of the   *)
(* file is found again.  Mutant: they are not.                             *)
ReadAgainNever(dropped) == global_pkt
ReadAgain(dropped) == global_pkt - dropped

UnlessShrunk(flag, shrink) == flag /\ ~shrink

(* update_window leaves pointers to the packets it drops in the group.     *)
Dangling(group, size) ==
  [i \in DOMAIN group |-> IF group[i] > size THEN 0 ELSE group[i]]

(* ack_window starts the group again when it releases a packet.  Mutant:   *)
(* it keeps the group, pointers to released packets included.              *)
GroupKept(group, k) ==
  [i \in DOMAIN group |-> IF group[i] > k THEN group[i] - k ELSE 0]
GroupAfterAck(group, k) == IF k > 0 THEN <<>> ELSE group

(* ack_window lets seqnumHead follow the head of the list after each packet*)
(* it releases, except the one that empties the list: the number is then   *)
(* that of the last packet, or the old one if there was no other.          *)
HeadAfterAck(head, list, k) ==
  LET followed == IF k < Len(list) THEN k ELSE k - 1
  IN  IF followed > 0 THEN list[followed + 1].seq ELSE head

(* A valid datagram m: update_window, then, for an acknowledgement,        *)
(* ack_window and the end of the transfer.  Another type changes nothing   *)
(* more.  The list is not empty: SResend has just walked through it.       *)
HandleResponse(m) ==
  LET shrink == m.win < sWindow
      kept   == IF shrink /\ Len(sList) > m.win THEN SubSeq(sList, 1, m.win)
                ELSE sList
      tail   == IF shrink THEN kept[Len(kept)].seq ELSE sTail
  IN  /\ sWindow' = m.win
      /\ global_pkt' = ReadAgain(Len(sList) - Len(kept))
      /\ sTail' = tail
      /\ sEof' = UnlessShrunk(sEof, shrink)
      /\ lastPkt' = UnlessShrunk(lastPkt, shrink)
      /\ \E k \in 0 .. Len(kept) :
           /\ IF m.type = "ACK" /\ can_ack_window(sHead, tail, m.seq)
                THEN Releases(kept, m.seq, k) ELSE k = 0
           /\ sList' = SubSeq(kept, k + 1, Len(kept))
           /\ fec' = GroupAfterAck(Dangling(fec, Len(kept)), k)
           /\ sHead' = HeadAfterAck(sHead, kept, k)
           /\ sPc' = IF m.type = "ACK" /\ lastPkt' /\ k = Len(kept)
                       THEN "acked" ELSE "poll"

(* One response is read; any datagram restarts the count of resends.       *)
SRead(i) ==
  /\ sPc = "read"
  /\ ~sErr
  /\ i \in Arrived(toSender)
  /\ toSender' = RemoveAt(toSender, i)
  /\ lastRst' = 0
  /\ LET m == toSender[i]
     IN  IF pkt_decode(m) = "PKT_OK" THEN HandleResponse(m)
         ELSE sPc' = "poll" /\ UNCHANGED <<window, sEof, lastPkt, global_pkt, fec>>
  /\ pollin' = FALSE
  /\ UNCHANGED <<toReceiver, sErr, faults>>

(* The read fails with the pending error, and what the last packet left in *)
(* copybuf is decoded with the length (size_t) -1: a data packet is        *)
(* refused, a response handled before changes nothing any more, but an     *)
(* empty packet is valid, and shrinks or opens the window to the size the  *)
(* sender had when it made it.                                             *)
SReadFails ==
  /\ sPc = "read"
  /\ sErr
  /\ sErr' = FALSE
  /\ lastRst' = 0
  /\ \/ sPc' = "poll" /\ UNCHANGED <<window, sEof, lastPkt, global_pkt, fec>>
     \/ /\ lastPkt \/ \E i \in DOMAIN sList : sList[i].pay = Empty
        /\ \E win \in WindowSize : HandleResponse([type |-> "DATA", win |-> win])
  /\ pollin' = FALSE
  /\ UNCHANGED <<toReceiver, toSender, faults>>

=============================================================================
