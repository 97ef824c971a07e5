------------------------------ MODULE Transfer ------------------------------
(***************************************************************************)
(* A transfer: the sender and the receiver at the two ends of the network. *)
(***************************************************************************)
EXTENDS Sender, Receiver

CONSTANT Timely   \* whether a timer runs out only when its packet was lost

ASSUME TimelyAssumption == Timely \in BOOLEAN

vars == <<senderVars, receiverVars, linkVars>>

TypeOK == LinkTypeOK /\ SenderTypeOK /\ ReceiverTypeOK

Init == LinkInit /\ SenderInit /\ ReceiverInit

SenderRuns == sPc \in SenderLoop
ReceiverGone == rPc \in {"done", "timedout"}

(* Nothing in flight and no response due: what a timer longer than the     *)
(* round trip waits for.                                                   *)
Quiet == toReceiver = <<>> /\ toSender = <<>> /\ ~(rPc = "run" /\ resent_ack)

Resend(late) ==
  /\ Timely => late = <<>> \/ Quiet
  /\ SResend(late)

(* A datagram for a program that has exited: it is dropped, and, when the  *)
(* two programs are on one network, the sender's socket is told.           *)
Refuse ==
  /\ ReceiverGone
  /\ toReceiver # <<>>
  /\ toReceiver' = Tail(toReceiver)
  /\ sErr' \in {sErr, sErr \/ "refused" \in Faults}
  /\ UNCHANGED <<toSender, faults>>

SenderStep ==
  /\ \/ SPoll \/ SEndOfFile \/ SFill \/ SFillUnread \/ SParity \/ SFinal
     \/ \E late \in Timeouts : Resend(late)
     \/ \E i \in DOMAIN toSender : SRead(i)
     \/ SReadFails
  /\ UNCHANGED receiverVars

ReceiverStep ==
  /\ \/ RConnect \/ RTimeout \/ RAck
     \/ \E i \in DOMAIN toReceiver : RReceive(i)
  /\ UNCHANGED senderVars

(* A response the sender's poll has seen is in its socket: it is there to  *)
(* be read.                                                                *)
LinkStep ==
  /\ Refuse \/ LinkFault
  /\ pollin => toSender' # <<>>
  /\ UNCHANGED <<senderVars, receiverVars>>

Next == SenderStep \/ ReceiverStep \/ LinkStep

Spec == Init /\ [][Next]_vars

(* Both loops run; a response that keeps being there is seen by the poll;  *)
(* a timer that may run out does, for all the packets of the list; what is *)
(* sent to an exited program leaves the network.                           *)
Fairness ==
  /\ WF_vars(SenderStep)
  /\ SF_vars(SPoll /\ pollin' /\ UNCHANGED receiverVars)
  /\ SF_vars(/\ Resend([i \in DOMAIN sList |-> i])
             /\ sList # <<>>
             /\ UNCHANGED receiverVars)
  /\ WF_vars(RConnect /\ UNCHANGED senderVars)
  /\ WF_vars(RAck /\ UNCHANGED senderVars)
  /\ WF_vars(\E i \in DOMAIN toReceiver : RReceive(i) /\ UNCHANGED senderVars)
  /\ WF_vars(Refuse /\ UNCHANGED <<senderVars, receiverVars>>)

FairSpec == Spec /\ Fairness
=============================================================================
