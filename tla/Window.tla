------------------------------- MODULE Window -------------------------------
(***************************************************************************)
(* The sequence-number arithmetic of TRTP: the functions of                *)
(* read_write_sender.c and read_write_receiver.c that decide, on the       *)
(* numbers modulo 256 carried by the packets, whether a packet or an       *)
(* acknowledgement belongs to the window and in which order two packets    *)
(* come.  Each is the C function with the fields of window_pkt_t it reads  *)
(* as parameters.  The literals 256, 31 and 4 of the code are the          *)
(* constants below, so that small instances can be checked.                *)
(***************************************************************************)
EXTENDS Integers

CONSTANTS
  SeqSpace,     \* 256: sequence numbers are uint8_t
  MaxWindow,  \* 31: MAX_WINDOW_SIZE, the largest window
  MinShrink   \* 4: decrease_window leaves a window of this size or less alone

(* What the arithmetic needs: the numbers is_in_window accepts, two more   *)
(* than the window, fit in the sequence space.                             *)
ASSUME WindowAssumption ==
  /\ SeqSpace \in Nat
  /\ MaxWindow \in Nat \ {0}
  /\ MinShrink \in Nat \ {0}
  /\ MaxWindow + 2 < SeqSpace

Seqnum == 0 .. SeqSpace - 1
WindowSize == 1 .. MaxWindow

Succ(s) == (s + 1) % SeqSpace

(* The test (x < head) ? x + 256 : x that the code writes before comparing *)
(* two numbers: x on the unwrapped line that starts at head.               *)
Unwrap(head, x) == IF x < head THEN x + SeqSpace ELSE x

(* The last number of the receiver's window, plus one.                     *)
WindowEnd(head, size) == (head + size) % SeqSpace

(***************************************************************************)
(* The sender's tests.                                                     *)
(***************************************************************************)

(* Mutant: the tail is not unwrapped.                                      *)
can_ack_windowFlatTail(head, tail, seqnum) ==
  Unwrap(head, seqnum) < tail + MaxWindow

can_ack_window(head, tail, seqnum) ==
  Unwrap(head, seqnum) < Unwrap(head, tail) + MaxWindow

(* Mutants: the numbers are not unwrapped; an acknowledgement also         *)
(* releases the packet it asks for.                                        *)
seqnum_in_windowFlat(head, ackSeqnum, pktSeqnum) == pktSeqnum < ackSeqnum

seqnum_in_windowInclusive(head, ackSeqnum, pktSeqnum) ==
  Unwrap(head, pktSeqnum) <= Unwrap(head, ackSeqnum)

(* head is the number of the first packet of the list when there is one.   *)
seqnum_in_window(head, ackSeqnum, pktSeqnum) ==
  Unwrap(head, pktSeqnum) < Unwrap(head, ackSeqnum)

(* Mutant: a window of one packet is taken for a full turn.                *)
is_in_sender_windowFullTurn(head, tail, seqnum) ==
  IF head < tail
    THEN seqnum <= tail /\ seqnum >= head
    ELSE seqnum >= head \/ seqnum <= tail

is_in_sender_window(head, tail, seqnum) ==
  /\ IF head < tail
       THEN seqnum <= tail /\ seqnum >= head
       ELSE seqnum >= head \/ seqnum <= tail
  /\ head = tail => seqnum = head

(***************************************************************************)
(* The receiver's tests.                                                   *)
(***************************************************************************)

(* Mutant: no exception for 0 after 255.                                   *)
is_in_windowNoException(head, size, seqnum) ==
  LET tail == WindowEnd(head, size)
  IN  IF head < tail
        THEN seqnum <= tail + 1 /\ seqnum >= head
        ELSE seqnum >= head \/ seqnum <= tail + 1

is_in_window(head, size, seqnum) ==
  LET tail == WindowEnd(head, size)
  IN  /\ IF head < tail
           THEN \/ seqnum <= tail + 1 /\ seqnum >= head
                \/ seqnum = 0 /\ tail = SeqSpace - 1
           ELSE seqnum >= head \/ seqnum <= tail + 1
      /\ head = tail => seqnum = head

(* Mutant: the wrap is forgotten.                                          *)
is_seqnum_greaterFlat(head, size, seqnumA, seqnumB) == seqnumA > seqnumB

is_seqnum_greater(head, size, seqnumA, seqnumB) ==
  IF head < WindowEnd(head, size)
    THEN seqnumA > seqnumB
    ELSE Unwrap(head, seqnumA) > Unwrap(head, seqnumB)

(***************************************************************************)
(* The sizes the receiver's window goes through.                           *)
(***************************************************************************)

(* Mutant: no largest size.                                                *)
increase_windowUnbounded(size) == size + 1

increase_window(size) == IF size < MaxWindow THEN size + 1 ELSE size

decrease_window(size) == IF size > MinShrink THEN size \div 2 ELSE size
=============================================================================
