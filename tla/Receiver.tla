------------------------------ MODULE Receiver ------------------------------
(***************************************************************************)
(* The receiver: wait_for_client, then the loop of read_write_receiver.c.  *)
(* A turn of its inner loop reads one packet and flushes the packets that  *)
(* follow the last one written: RReceive.  The outer loop acknowledges     *)
(* when the socket has nothing to read: RAck.  window->seqnumTail is left  *)
(* out, only the disabled deal_with_fec reads it.                          *)
(***************************************************************************)
EXTENDS Link

VARIABLES
  rPc,          \* "wait" for a client, "run" the loop, "done", "timedout"
  rList,        \* window->linkedList: packets received and not written
  rWindow,      \* window->windowsize
  rHead,        \* window->seqnumHead: the number the receiver expects
  rEof,         \* eof_reached
  eof_seqnum,   \* number of the final packet
  resent_ack,   \* an acknowledgement is to be sent
  out           \* the chunks written to the standard output

receiverVars == <<rPc, rList, rWindow, rHead, rEof, eof_seqnum, resent_ack, out>>

ReceiverTypeOK ==
  /\ rPc \in {"wait", "run", "done", "timedout"}
  /\ rList \in Seq(Pkt)
  /\ rWindow \in WindowSize
  /\ rHead \in Seqnum
  /\ rEof \in BOOLEAN
  /\ eof_seqnum \in Seqnum
  /\ resent_ack \in BOOLEAN
  /\ out \in Seq(0 .. FileLen - 1)

(* resent_ack is 1 in the code, but nothing is acknowledged before the     *)
(* datagram wait_for_client saw is read, and with an empty list that       *)
(* always sets it (flush_file, line 522, and receive_data, line 446).      *)
ReceiverInit ==
  /\ rPc = "wait"
  /\ rList = <<>>
  /\ rWindow = 1
  /\ rHead = 0
  /\ rEof = FALSE
  /\ eof_seqnum = 0
  /\ resent_ack = FALSE
  /\ out = <<>>

-----------------------------------------------------------------------------
(* wait_for_client: the first datagram is peeked at, not consumed.         *)
RConnect ==
  /\ rPc = "wait"
  /\ toReceiver # <<>>
  /\ rPc' = "run"
  /\ UNCHANGED <<rList, rWindow, rHead, rEof, eof_seqnum, resent_ack, out, linkVars>>

(* Its ten seconds pass, or a socket call fails, and the program exits.    *)
RTimeout ==
  /\ rPc = "wait"
  /\ Fault("timeout")
  /\ rPc' = "timedout"
  /\ UNCHANGED <<rList, rWindow, rHead, rEof, eof_seqnum, resent_ack, out,
                 toReceiver, toSender, sErr>>

-----------------------------------------------------------------------------
(* flush_file writes the first k packets of list: they follow each other   *)
(* from the head and carry data.                                           *)
(* Mutant: a gap is skipped.                                               *)
FollowsOrSkips(list, i) == list[i].seq >= (rHead + i - 1) % SeqSpace

Follows(list, i) == list[i].seq = (rHead + i - 1) % SeqSpace

Flushable(list, k) ==
  /\ \A i \in 1 .. k : Follows(list, i) /\ list[i].pay # Empty
  /\ k < Len(list) => ~Follows(list, k + 1) \/ list[k + 1].pay = Empty

(* flush_file on list, once receive_data has left ack in resent_ack and    *)
(* size in windowsize and sent responses; then the end of the inner loop:  *)
(* the final packet, or a failed write of chunk k + 1 (broken), ends the   *)
(* program with a last acknowledgement.                                    *)
Flush(list, ack, size, responses) ==
  \E k \in 0 .. Len(list), broken \in BOOLEAN :
    /\ IF broken
         THEN /\ \E j \in k + 1 .. Len(list) : Flushable(list, j)
              /\ Fault("stdout")
         ELSE /\ Flushable(list, k)
              /\ UNCHANGED faults
    /\ LET rest  == SubSeq(list, k + 1, Len(list))
           final == ~broken /\ k < Len(list) /\ Follows(list, k + 1)
           head  == (rHead + IF final THEN k + 1 ELSE k) % SeqSpace
       IN  /\ rList' = rest
           /\ out' = out \o [i \in 1 .. k |-> list[i].pay]
           /\ rHead' = head
           /\ rWindow' = size
           /\ resent_ack' = (ack \/ rest = <<>>)
           /\ rPc' = IF final \/ broken THEN "done" ELSE "run"
           /\ toSender' = Push(toSender,
                IF final \/ broken THEN Append(responses, Respond("ACK", head, size))
                ELSE responses)

(* Mutant of Place: packets are kept in the order they arrive.             *)
PlaceAtEnd(pkt, i) == i = Len(rList) + 1

(* linkedList_add_increasing: i is the first position whose packet has the *)
(* number of pkt or a greater one, one past the end when there is none.    *)
Place(pkt, i) ==
  LET stop(j) == \/ rList[j].seq = pkt.seq
                 \/ is_seqnum_greater(rHead, rWindow, rList[j].seq, pkt.seq)
  IN  /\ \A j \in 1 .. i - 1 : ~stop(j)
      /\ i <= Len(rList) => stop(i)

InWindow(m) == is_in_window(rHead, rWindow, m.seq)

(* decrease_window forgets the end of the file.  Mutant: it does not.      *)
EofAfterNackKept(halved) == rEof
EofAfterNack(halved) == rEof /\ ~halved

(* send_troncated_nack: decrease_window drops the end of the list, and     *)
(* eof_reached even when the final packet is still there.                  *)
RNack(m) ==
  /\ m.type = "DATA"
  /\ m.tr = 1
  /\ pkt_decode(m) = "E_CRC" => InWindow(m)
  /\ LET halved == rWindow > MinShrink
         size   == decrease_window(rWindow)
         list   == IF halved /\ size < Len(rList) THEN SubSeq(rList, 1, size)
                   ELSE rList
     IN  /\ rEof' = EofAfterNack(halved)
         /\ Flush(list, resent_ack, size, <<Respond("NACK", m.seq, size)>>)
  /\ UNCHANGED eof_seqnum

(* A packet pkt_decode refuses is ignored, and so is a parity packet.      *)
RIgnore(m) ==
  /\ \/ m.type = "FEC"
     \/ pkt_decode(m) = "E_CRC" /\ ~(m.tr = 1 /\ InWindow(m))
  /\ Flush(rList, resent_ack, rWindow, <<>>)
  /\ UNCHANGED <<rEof, eof_seqnum>>

(* A packet out of the window, or already in the list, is answered by an   *)
(* acknowledgement.                                                        *)
RDrop(m) ==
  /\ pkt_decode(m) = "PKT_OK"
  /\ m.type = "DATA"
  /\ m.tr = 0
  /\ InWindow(m) => \E i \in DOMAIN rList :
                      Place(Stored(m), i) /\ rList[i].seq = m.seq
  /\ Flush(rList, TRUE, rWindow, <<>>)
  /\ UNCHANGED <<rEof, eof_seqnum>>

(* A packet of the window is put in its place in the list.                 *)
RStore(m) ==
  /\ pkt_decode(m) = "PKT_OK"
  /\ m.type = "DATA"
  /\ m.tr = 0
  /\ InWindow(m)
  /\ rEof' = (rEof \/ m.pay = Empty)
  /\ eof_seqnum' = IF m.pay = Empty THEN m.seq ELSE eof_seqnum
  /\ \E i \in 1 .. Len(rList) + 1 :
       /\ Place(Stored(m), i)
       /\ i <= Len(rList) => rList[i].seq # m.seq
       /\ Flush(InsertAt(rList, i, Stored(m)), m.seq # rHead,
                IF m.seq = rHead THEN increase_window(rWindow) ELSE rWindow, <<>>)

(* receive_data and flush_file.  Once the final packet is known and its    *)
(* turn has come, the loop reads nothing more and only flushes.            *)
RReceive(i) ==
  /\ rPc = "run"
  /\ ~(rEof /\ rHead = eof_seqnum)
  /\ i \in Arrived(toReceiver)
  /\ toReceiver' = RemoveAt(toReceiver, i)
  /\ LET m == toReceiver[i] IN RNack(m) \/ RIgnore(m) \/ RDrop(m) \/ RStore(m)
  /\ UNCHANGED sErr

RAck ==
  /\ rPc = "run"
  /\ resent_ack
  /\ toSender' = Push(toSender, <<Respond("ACK", rHead, rWindow)>>)
  /\ resent_ack' = FALSE
  /\ UNCHANGED <<rPc, rList, rWindow, rHead, rEof, eof_seqnum, out, toReceiver,
                 sErr, faults>>

=============================================================================
