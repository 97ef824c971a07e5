----------------------------- MODULE WindowSlide -----------------------------
(***************************************************************************)
(* The receive window on its own: its head slides by one each time the     *)
(* expected packet is flushed, its size grows by one then and is halved    *)
(* when a truncated packet arrives.  Every position and size the window    *)
(* can take is a state, so an invariant of this module is a statement on   *)
(* the tests of Window for every window; it is small enough for the real   *)
(* constants, 256 and 31.                                                  *)
(***************************************************************************)
EXTENDS Window

VARIABLES
  head,   \* window->seqnumHead
  size    \* window->windowsize

vars == <<head, size>>

(* How far s is after the head, going forward modulo SeqSpace.             *)
Ahead(s) == (s - head) % SeqSpace

TypeOK == head \in Seqnum /\ size \in WindowSize

Init == head = 0 /\ size = 1

(* The expected packet is stored and written: receive_data, flush_file.    *)
Slide == /\ head' = Succ(head)
         /\ size' = increase_window(size)

(* A packet stored earlier is flushed in the same round: only the head     *)
(* moves.                                                                  *)
SlideStored == /\ head' = Succ(head)
               /\ UNCHANGED size

(* A truncated packet of the window: send_troncated_nack.                  *)
Halve == /\ size' = decrease_window(size)
         /\ UNCHANGED head

Next == Slide \/ SlideStored \/ Halve

Spec == Init /\ [][Next]_vars

-----------------------------------------------------------------------------
(* is_in_window accepts exactly the size + 2 numbers that start at the     *)
(* head, at every position of the window in the sequence space, the        *)
(* borders where the C code changes branch included                        *)
(* (read_write_receiver.c:168).                                            *)
AcceptsExactly ==
  \A s \in Seqnum : is_in_window(head, size, s) <=> Ahead(s) <= size + 1

(* Inside the announced window is_seqnum_greater orders two numbers as     *)
(* they follow each other from the head (read_write_receiver.c:207).       *)
Announced == {s \in Seqnum : Ahead(s) < size}

OrdersWindow ==
  \A a, b \in Announced :
    is_seqnum_greater(head, size, a, b) <=> Ahead(a) > Ahead(b)

(* With the head of the sender's list at head and its last packet size - 1 *)
(* after it, can_ack_window accepts the numbers less than size + 30 ahead  *)
(* and no other, so an acknowledgement of up to SeqSpace - 2 * MaxWindow   *)
(* packets ago is refused (read_write_sender.c:443).                       *)
RefusesOldAcks ==
  LET tail == (head + size - 1) % SeqSpace
  IN  \A s \in Seqnum :
        can_ack_window(head, tail, s) <=> Ahead(s) < size - 1 + MaxWindow

(* For the packet at the head of the list, the only one ack_window asks    *)
(* about, seqnum_in_window holds for every acknowledgement but the one     *)
(* that asks for that very packet (read_write_sender.c:233, 298).          *)
ReleasesUnlessAsked ==
  \A a \in Seqnum : seqnum_in_window(head, a, head) <=> a # head

(* is_in_sender_window accepts exactly the numbers from head to tail, with *)
(* the tail before or after the wrap (read_write_sender.c:413).            *)
NackRangeExact ==
  LET tail == (head + size - 1) % SeqSpace
  IN  \A s \in Seqnum :
        is_in_sender_window(head, tail, s) <=> Ahead(s) <= size - 1
=============================================================================
