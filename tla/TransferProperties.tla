------------------------- MODULE TransferProperties -------------------------
(***************************************************************************)
(* What makes a transfer correct: the properties the runs check.           *)
(***************************************************************************)
EXTENDS Transfer

(* The standard output is the beginning of the file: no chunk is missing,  *)
(* written twice or out of place (flush_file, read_write_receiver.c:520).  *)
Integrity == \A i \in DOMAIN out : out[i] = i - 1

(* The receiver ends on the final packet only when the whole file is       *)
(* written: the final packet never overtakes data (flush_file, line 535).  *)
Complete == rPc = "done" => Len(out) = FileLen

(* While both run, every chunk the sender has read and the receiver has    *)
(* not written is still in the sender's list, under its number, to be      *)
(* resent: acknowledgements, stale ones too, and shrinking windows drop no *)
(* other, and no failing write skips one (ack_window, update_window,       *)
(* fill_window).                                                           *)
NothingForgotten ==
  SenderRuns /\ rPc # "done" =>
    \A c \in Len(out) .. global_pkt - 1 :
      \E i \in DOMAIN sList : sList[i] = [seq |-> c % SeqSpace, pay |-> c]

(* The sender ends with "All packets ack" only when the receiver has       *)
(* written every chunk (read_write_sender.c:583).                          *)
AckedMeansWritten == sPc = "acked" => Len(out) = FileLen

(* The receiver's list holds distinct numbers, in the order they follow    *)
(* the head, whatever arrived in whatever order (linkedList_add_increasing,*)
(* read_write_receiver.c:230).                                             *)
RcvAhead(seqnum) == (seqnum - rHead) % SeqSpace

RcvSorted ==
  rPc = "run" =>
    \A i, j \in DOMAIN rList :
      i < j => RcvAhead(rList[i].seq) < RcvAhead(rList[j].seq)

(* The receiver never buffers more than the packets of the largest window  *)
(* and the one more that is_in_window lets in: what it keeps beyond a      *)
(* window it has halved comes on top of the window it fills again          *)
(* (decrease_window, line 53), but no packet is kept twice.                *)
BufferBound == rPc # "done" => Len(rList) <= MaxWindow + 1

(* The sender never has more packets unacknowledged than the last window   *)
(* it was told, shrunk windows and the final packet included (fill_window, *)
(* line 98, and update_window, line 389).                                  *)
SenderBound == Len(sList) <= sWindow

(* eof_reached says the final packet is in the list, with the number       *)
(* eof_seqnum and not yet at the head: were it stale, the receiver would   *)
(* read nothing any more (read_write_receiver.c:614).                      *)
EofInList ==
  rPc = "run" /\ rEof =>
    /\ rHead # eof_seqnum
    /\ \E i \in DOMAIN rList : rList[i] = [seq |-> eof_seqnum, pay |-> Empty]

(* No final packet, in the sender's list, on its way or in the receiver's  *)
(* list, has the number of a chunk or one before it, so that none ends the *)
(* output early: also not when a shrunk window restarts the end of the     *)
(* file with final packets still in the list, or takes the number of the   *)
(* next one from what is left of it (update_window, read_write_sender.c:   *)
(* 395-402, and send_final_pkt, line 60).                                  *)
BehindFile(p) == p.pay = Empty => p.seq >= FileLen

FinalAfterData ==
  /\ \A i \in DOMAIN sList : BehindFile(sList[i])
  /\ \A i \in DOMAIN toReceiver :
       toReceiver[i].type = "DATA" /\ toReceiver[i].ok1 => BehindFile(Stored(toReceiver[i]))
  /\ \A i \in DOMAIN rList : BehindFile(rList[i])

(* The sender never walks a list it has emptied (resent_pkt, line 173),    *)
(* and no packet of a parity group was deleted when its parity is computed *)
(* (fill_window, line 140, and the reset of fec->i in ack_window).         *)
NoUB == sPc # "ub"

(* A bound of the run with failing writes: packets that were not counted   *)
(* take global_pkt below 0, at most to here (read_write_sender.c:395).     *)
FewUncounted == global_pkt >= -1

-----------------------------------------------------------------------------
(* The sender ends "acked" only once the receiver has got the final packet *)
(* and ended: the log line "All packets ack, end of transmission"          *)
(* (read_write_sender.c:585).                                              *)
AllAckedMeansDelivered == sPc = "acked" => rPc = "done"

(* With finitely many losses and timers longer than the round trip, the    *)
(* receiver ends with the whole file.                                      *)
Delivered == <>(rPc = "done")

(* And the sender ends, with all packets acknowledged or giving up.        *)
SenderEnds == <>(sPc \in SenderEnd)

-----------------------------------------------------------------------------
Promise ==
  INSTANCE FileTransfer WITH
    written  <- out,
    receiver <- IF rPc = "done" THEN "complete" ELSE "open",
    sender   <- CASE sPc = "acked" -> "success"
                  [] sPc = "gaveup" -> "abandoned"
                  [] OTHER -> "sending"

(* The transfer keeps the promise of FileTransfer.                         *)
KeepsPromise == Promise!Spec
=============================================================================
