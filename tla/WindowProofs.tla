---------------------------- MODULE WindowProofs ----------------------------
(***************************************************************************)
(* Proofs that the window tests decide what they are meant to, for every   *)
(* size of the sequence space and of the window and every threshold.  Each *)
(* rewrites the distance from the head with Unwrap (AheadUnwrap), after    *)
(* which a test is linear arithmetic.                                      *)
(***************************************************************************)
EXTENDS WindowSlide, Lemmas

(* Unwrapping a number keeps its distance from the head.                   *)
LEMMA AheadUnwrap ==
  ASSUME NEW h \in Seqnum, NEW s \in Seqnum
  PROVE  (s - h) % SeqSpace = Unwrap(h, s) - h
  BY ModDifference, WindowAssumption DEF Seqnum, Unwrap

(* A number at most a turn after the head is h + d, or that less a turn.   *)
LEMMA Forward ==
  ASSUME NEW h \in Seqnum, NEW d \in 0 .. SeqSpace - 1
  PROVE  /\ (h + d) % SeqSpace = IF h + d < SeqSpace THEN h + d ELSE h + d - SeqSpace
         /\ (h + d) % SeqSpace \in Seqnum
<1>1. SeqSpace \in Nat \ {0} /\ h \in 0 .. SeqSpace - 1
  BY WindowAssumption DEF Seqnum
<1> QED
  BY <1>1, ModForward DEF Seqnum

-----------------------------------------------------------------------------
(* The position and the size of the window stay in their ranges: one step  *)
(* never makes the window empty or larger than MAX_WINDOW_SIZE             *)
(* (increase_window, decrease_window).                                     *)
THEOREM WindowTypes == Spec => []TypeOK
<1>1. Init => TypeOK
  BY WindowAssumption DEF Init, TypeOK, Seqnum, WindowSize
<1>2. TypeOK /\ [Next]_vars => TypeOK'
  <2> SUFFICES ASSUME TypeOK, [Next]_vars PROVE TypeOK'
    OBVIOUS
  <2>1. CASE Slide
    <3>1. head' \in Seqnum
      BY <2>1, Forward, WindowAssumption DEF TypeOK, Slide, Succ
    <3>2. size' \in WindowSize
      BY <2>1, WindowAssumption DEF TypeOK, Slide, increase_window, WindowSize
    <3> QED
      BY <3>1, <3>2 DEF TypeOK
  <2>2. CASE SlideStored
    <3>1. head' \in Seqnum
      BY <2>2, Forward, WindowAssumption DEF TypeOK, SlideStored, Succ
    <3> QED
      BY <2>2, <3>1 DEF TypeOK, SlideStored
  <2>3. CASE Halve
    BY <2>3, WindowAssumption DEF TypeOK, Halve, decrease_window, WindowSize
  <2>4. CASE UNCHANGED vars
    BY <2>4 DEF TypeOK, vars
  <2> QED
    BY <2>1, <2>2, <2>3, <2>4 DEF Next
<1> QED
  BY <1>1, <1>2, PTL DEF Spec

(* is_in_window accepts the size + 2 numbers from the head on, and no      *)
(* other, wherever the window lies (read_write_receiver.c:168).            *)
THEOREM WindowAcceptsExactly == Spec => []AcceptsExactly
<1>1. TypeOK => AcceptsExactly
  <2> SUFFICES ASSUME TypeOK, NEW s \in Seqnum
               PROVE  is_in_window(head, size, s) <=> Ahead(s) <= size + 1
    BY DEF AcceptsExactly
  <2>1. head \in Seqnum /\ size \in 1 .. SeqSpace - 3
    BY WindowAssumption DEF TypeOK, WindowSize
  <2>2. Ahead(s) = Unwrap(head, s) - head
    BY <2>1, AheadUnwrap DEF Ahead
  <2>3. WindowEnd(head, size) = IF head + size < SeqSpace THEN head + size
                                ELSE head + size - SeqSpace
    BY <2>1, Forward, WindowAssumption DEF WindowEnd
  <2> QED
    BY <2>1, <2>2, <2>3, WindowAssumption DEF is_in_window, Unwrap, Seqnum
<1> QED
  BY <1>1, WindowTypes, PTL

(* Within the announced window is_seqnum_greater is the order in which the *)
(* numbers follow the head (read_write_receiver.c:207).                    *)
THEOREM WindowOrders == Spec => []OrdersWindow
<1>1. TypeOK => OrdersWindow
  <2> SUFFICES ASSUME TypeOK, NEW a \in Seqnum, NEW b \in Seqnum,
                      Ahead(a) < size, Ahead(b) < size
               PROVE  is_seqnum_greater(head, size, a, b) <=> Ahead(a) > Ahead(b)
    BY DEF OrdersWindow, Announced
  <2>1. head \in Seqnum /\ size \in 1 .. SeqSpace - 3
    BY WindowAssumption DEF TypeOK, WindowSize
  <2>2. Ahead(a) = Unwrap(head, a) - head /\ Ahead(b) = Unwrap(head, b) - head
    BY <2>1, AheadUnwrap DEF Ahead
  <2>3. WindowEnd(head, size) = IF head + size < SeqSpace THEN head + size
                                ELSE head + size - SeqSpace
    BY <2>1, Forward, WindowAssumption DEF WindowEnd
  <2> QED
    BY <2>1, <2>2, <2>3, WindowAssumption DEF is_seqnum_greater, Unwrap, Seqnum
<1> QED
  BY <1>1, WindowTypes, PTL

(* can_ack_window accepts the numbers up to MaxWindow - 1 after the last   *)
(* packet of the list and refuses the older ones: an acknowledgement is    *)
(* refused until it is SeqSpace less that far behind                       *)
(* (read_write_sender.c:443).                                              *)
THEOREM WindowRefusesOldAcks == Spec => []RefusesOldAcks
<1>1. TypeOK => RefusesOldAcks
  <2> DEFINE tail == (head + size - 1) % SeqSpace
  <2> SUFFICES ASSUME TypeOK, NEW s \in Seqnum
               PROVE  can_ack_window(head, tail, s) <=> Ahead(s) < size - 1 + MaxWindow
    BY DEF RefusesOldAcks
  <2>1. head \in Seqnum /\ size - 1 \in 0 .. SeqSpace - 1
    BY WindowAssumption DEF TypeOK, WindowSize
  <2>2. Ahead(s) = Unwrap(head, s) - head
    BY <2>1, AheadUnwrap DEF Ahead
  <2>3. tail = IF head + (size - 1) < SeqSpace THEN head + (size - 1)
               ELSE head + (size - 1) - SeqSpace
    <3>1. tail = (head + (size - 1)) % SeqSpace
      BY <2>1 DEF Seqnum, TypeOK, WindowSize
    <3> QED
      BY <2>1, <3>1, Forward
  <2> HIDE DEF tail
  <2> QED
    BY <2>1, <2>2, <2>3, WindowAssumption
    DEF can_ack_window, Unwrap, Seqnum, TypeOK, WindowSize
<1> QED
  BY <1>1, WindowTypes, PTL

(* An acknowledgement releases the packet at the head of the sender's list *)
(* unless it asks for that packet (read_write_sender.c:233).               *)
THEOREM WindowReleasesUnlessAsked == Spec => []ReleasesUnlessAsked
<1>1. TypeOK => ReleasesUnlessAsked
  BY WindowAssumption
  DEF TypeOK, ReleasesUnlessAsked, seqnum_in_window, Unwrap, Seqnum
<1> QED
  BY <1>1, WindowTypes, PTL

(* is_in_sender_window accepts the numbers from head to tail, and no other *)
(* (read_write_sender.c:413).                                              *)
THEOREM WindowNackRange == Spec => []NackRangeExact
<1>1. TypeOK => NackRangeExact
  <2> DEFINE tail == (head + size - 1) % SeqSpace
  <2> SUFFICES ASSUME TypeOK, NEW s \in Seqnum
               PROVE  is_in_sender_window(head, tail, s) <=> Ahead(s) <= size - 1
    BY DEF NackRangeExact
  <2>1. head \in Seqnum /\ size - 1 \in 0 .. SeqSpace - 1
    BY WindowAssumption DEF TypeOK, WindowSize
  <2>2. Ahead(s) = Unwrap(head, s) - head
    BY <2>1, AheadUnwrap DEF Ahead
  <2>3. tail = IF head + (size - 1) < SeqSpace THEN head + (size - 1)
               ELSE head + (size - 1) - SeqSpace
    <3>1. tail = (head + (size - 1)) % SeqSpace
      BY <2>1 DEF Seqnum, TypeOK, WindowSize
    <3> QED
      BY <2>1, <3>1, Forward
  <2> HIDE DEF tail
  <2> QED
    BY <2>1, <2>2, <2>3, WindowAssumption
    DEF is_in_sender_window, Unwrap, Seqnum, TypeOK, WindowSize
<1> QED
  BY <1>1, WindowTypes, PTL
=============================================================================
