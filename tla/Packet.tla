------------------------------- MODULE Packet -------------------------------
(***************************************************************************)
(* The packets of TRTP (packet_implem.c) and what pkt_decode makes of      *)
(* them.  The file is cut in FileLen chunks of MAX_PAYLOAD_SIZE bytes; the *)
(* payload of a data packet is the index of the chunk it carries, and      *)
(* FileLen stands for the empty payload of the final packet.  A checksum   *)
(* is represented by whether it matches: ok1 for the header, ok2 for the   *)
(* payload.                                                                *)
(***************************************************************************)
EXTENDS Window, Sequences

CONSTANT FileLen   \* number of chunks of the file

ASSUME FileAssumption == FileLen \in Nat

Empty == FileLen
Payload == 0 .. FileLen

(* A pkt_t in a linked list: its sequence number and payload.              *)
Pkt == [seq : Seqnum, pay : Payload]

(* What travels to the receiver and back.  The payload of a parity packet, *)
(* type FEC, is no chunk of the file: it is written Empty.                 *)
DataMsg == [type : {"DATA", "FEC"}, seq : Seqnum, pay : Payload,
            tr : 0 .. 1, ok1 : BOOLEAN, ok2 : BOOLEAN]
Response == [type : {"ACK", "NACK"}, seq : Seqnum, win : WindowSize,
             tr : {0}, ok1 : BOOLEAN]

(* pkt_encode of a packet of a list, of the parity of a group whose first  *)
(* number is seqnum, and of a response.                                    *)
Data(pkt) == [type |-> "DATA", seq |-> pkt.seq, pay |-> pkt.pay,
              tr |-> 0, ok1 |-> TRUE, ok2 |-> TRUE]
Parity(seqnum) == [type |-> "FEC", seq |-> seqnum, pay |-> Empty,
                   tr |-> 0, ok1 |-> TRUE, ok2 |-> TRUE]
Respond(type, seqnum, window) ==
  [type |-> type, seq |-> seqnum, win |-> window, tr |-> 0, ok1 |-> TRUE]

(* The packet of a data message as the receiver stores it.                 *)
Stored(m) == [seq |-> m.seq, pay |-> m.pay]

(* The checks of pkt_decode: the header's checksum, then the payload's if  *)
(* there is one.  A TR bit makes pkt_set_crc2 answer E_CRC.                *)
HasPayload(m) == m.type = "FEC" \/ (m.type = "DATA" /\ m.pay # Empty)

pkt_decode(m) ==
  IF m.ok1 /\ (HasPayload(m) => m.tr = 0 /\ m.ok2) THEN "PKT_OK" ELSE "E_CRC"
=============================================================================
