-------------------------------- MODULE Link --------------------------------
(***************************************************************************)
(* The network between the two programs, outside the repository: UDP and   *)
(* the link simulator the tests run the programs through.  A datagram is   *)
(* lost, damaged or overtaken by later ones, never duplicated.  A message  *)
(* of a channel stands for a datagram in flight or in the socket's buffer. *)
(***************************************************************************)
EXTENDS Packet, SequencesExt

CONSTANTS
  Capacity,   \* messages a channel holds; what does not fit is dropped
  Depth,      \* a message is received among the Depth oldest; 1 is FIFO
  Faults,     \* the kinds of fault that may happen
  MaxFaults   \* how many faults may happen

ASSUME LinkAssumption ==
  /\ Capacity \in Nat \ {0}
  /\ Depth \in Nat \ {0}
  /\ MaxFaults \in Nat

VARIABLES
  toReceiver,  \* data channel
  toSender,    \* response channel
  sErr,        \* an error is pending on the sender's socket
  faults       \* faults so far

linkVars == <<toReceiver, toSender, sErr, faults>>

LinkTypeOK ==
  /\ toReceiver \in Seq(DataMsg) /\ Len(toReceiver) <= Capacity
  /\ toSender \in Seq(Response) /\ Len(toSender) <= Capacity
  /\ sErr \in BOOLEAN
  /\ faults \in 0 .. MaxFaults

LinkInit ==
  /\ toReceiver = <<>>
  /\ toSender = <<>>
  /\ sErr = FALSE
  /\ faults = 0

(* The channel with msgs sent on it, as many as fit.                       *)
Push(channel, msgs) ==
  LET room == Capacity - Len(channel)
  IN  channel \o (IF Len(msgs) <= room THEN msgs ELSE SubSeq(msgs, 1, room))

(* The positions of the messages a read may return.                        *)
Arrived(channel) == {i \in DOMAIN channel : i <= Depth}

Fault(kind) ==
  /\ kind \in Faults
  /\ faults < MaxFaults
  /\ faults' = faults + 1

-----------------------------------------------------------------------------
LoseData ==
  /\ Fault("lose")
  /\ \E i \in DOMAIN toReceiver : toReceiver' = RemoveAt(toReceiver, i)
  /\ UNCHANGED <<toSender, sErr>>

LoseResponse ==
  /\ Fault("lose")
  /\ \E i \in DOMAIN toSender : toSender' = RemoveAt(toSender, i)
  /\ UNCHANGED <<toReceiver, sErr>>

(* A congested node cuts the payload and sets the TR bit.                  *)
Truncate ==
  /\ Fault("cut")
  /\ \E i \in DOMAIN toReceiver : toReceiver' = [toReceiver EXCEPT ![i].tr = 1]
  /\ UNCHANGED <<toSender, sErr>>

CorruptPayload ==
  /\ Fault("corrupt")
  /\ \E i \in DOMAIN toReceiver :
       toReceiver' = [toReceiver EXCEPT ![i].ok2 = FALSE]
  /\ UNCHANGED <<toSender, sErr>>

(* Any bits of the header change.  Only the type, the TR bit and the       *)
(* number are read from a header whose checksum is wrong, and another type *)
(* than DATA has the effect of a TR bit of 0.                              *)
CorruptHeader ==
  /\ Fault("header")
  /\ \E i \in DOMAIN toReceiver, seqnum \in Seqnum, tr \in 0 .. 1 :
       toReceiver' = [toReceiver EXCEPT
                        ![i] = [@ EXCEPT !.type = "DATA", !.ok1 = FALSE, !.seq = seqnum,
                                  !.tr = tr]]
  /\ UNCHANGED <<toSender, sErr>>

CorruptResponse ==
  /\ Fault("corrupt")
  /\ \E i \in DOMAIN toSender : toSender' = [toSender EXCEPT ![i].ok1 = FALSE]
  /\ UNCHANGED <<toReceiver, sErr>>

(* A transient error of the sender's interface: its next write fails.      *)
SocketError ==
  /\ Fault("socket")
  /\ sErr' = TRUE
  /\ UNCHANGED <<toReceiver, toSender>>

LinkFault ==
  \/ LoseData \/ LoseResponse
  \/ Truncate \/ CorruptPayload \/ CorruptHeader \/ CorruptResponse
  \/ SocketError
=============================================================================
