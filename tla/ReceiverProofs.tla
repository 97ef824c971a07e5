--------------------------- MODULE ReceiverProofs ---------------------------
(***************************************************************************)
(* Proofs about the list of the receiver.  Its order is that of the        *)
(* distances from the number the receiver expects; what a packet that is   *)
(* let in and a list that is flushed do to these distances is stated for   *)
(* any list, and holds as long as is_seqnum_greater compares right         *)
(* (Comparable).  It does when the numbers never wrap: then the list stays *)
(* in order and bounded under any network.                                 *)
(***************************************************************************)
EXTENDS TransferProofs

(* The steps from the number h to the number s.                            *)
Dist(h, s) == (s - h) % SeqSpace

Increases(list, h) ==
  \A i, j \in DOMAIN list : i < j => Dist(h, list[i].seq) < Dist(h, list[j].seq)

Reaches(list, h, least) ==
  \A i \in DOMAIN list : Dist(h, list[i].seq) \in least .. MaxWindow + 1

(* A window that does not wrap holds no number that does.                  *)
Comparable(h, size, s) == h + size < SeqSpace => h + Dist(h, s) < SeqSpace

-----------------------------------------------------------------------------
(* Distances: they are below SeqSpace, the numbers they tell apart, and    *)
(* what they become when the head advances.                                *)
LEMMA DistType ==
  ASSUME NEW h \in Seqnum, NEW s \in Seqnum
  PROVE  /\ Dist(h, s) \in 0 .. SeqSpace - 1
         /\ Dist(h, s) = IF s < h THEN s - h + SeqSpace ELSE s - h
         /\ Dist(h, s) = Unwrap(h, s) - h
<1>1. SeqSpace \in Nat \ {0} /\ h \in 0 .. SeqSpace - 1 /\ s \in 0 .. SeqSpace - 1
  BY WindowAssumption DEF Seqnum
<1>2. /\ Dist(h, s) = IF s < h THEN s - h + SeqSpace ELSE s - h
      /\ Dist(h, s) \in 0 .. SeqSpace - 1
  BY <1>1, ModDifference DEF Dist
<1> QED
  BY <1>1, <1>2 DEF Unwrap

(* Two numbers at one distance are the same.                               *)
LEMMA DistTells ==
  ASSUME NEW h \in Seqnum, NEW s \in Seqnum, NEW t \in Seqnum
  PROVE  /\ Dist(h, s) = Dist(h, t) <=> s = t
         /\ Dist(h, s) = 0 <=> s = h
<1>1. SeqSpace \in Nat \ {0} /\ h \in Nat /\ s \in 0 .. SeqSpace - 1 /\ t \in 0 .. SeqSpace - 1
      /\ h < SeqSpace
  BY WindowAssumption DEF Seqnum
<1>2. /\ Dist(h, s) = IF s < h THEN s - h + SeqSpace ELSE s - h
      /\ Dist(h, t) = IF t < h THEN t - h + SeqSpace ELSE t - h
  BY DistType
<1> QED
  BY <1>1, <1>2

(* The number d steps after h.                                             *)
LEMMA DistForward ==
  ASSUME NEW h \in Seqnum, NEW d \in 0 .. SeqSpace - 1
  PROVE  (h + d) % SeqSpace \in Seqnum /\ Dist(h, (h + d) % SeqSpace) = d
<1>1. SeqSpace \in Nat \ {0} /\ h \in 0 .. SeqSpace - 1
  BY WindowAssumption DEF Seqnum
<1>2. PICK s \in Seqnum : /\ s = (h + d) % SeqSpace
                          /\ s = IF h + d < SeqSpace THEN h + d ELSE h + d - SeqSpace
  BY <1>1, ModForward DEF Seqnum
<1>3. Dist(h, s) = d
  BY <1>1, <1>2, DistType
<1> QED
  BY <1>2, <1>3

(* The head advances by k steps, not past s.                               *)
LEMMA DistAdvance ==
  ASSUME NEW h \in Seqnum, NEW s \in Seqnum, NEW k \in Nat, k <= Dist(h, s)
  PROVE  /\ (h + k) % SeqSpace \in Seqnum
         /\ Dist((h + k) % SeqSpace, s) = Dist(h, s) - k
<1>1. SeqSpace \in Nat \ {0} /\ h \in 0 .. SeqSpace - 1 /\ s \in 0 .. SeqSpace - 1
  BY WindowAssumption DEF Seqnum
<1>2. k \in 0 .. SeqSpace - 1
  BY <1>1, DistType
<1>3. PICK g \in Seqnum : /\ g = (h + k) % SeqSpace
                          /\ g = IF h + k < SeqSpace THEN h + k ELSE h + k - SeqSpace
  BY <1>1, <1>2, ModForward DEF Seqnum
<1>4. Dist(g, s) = Dist(h, s) - k
  <2>1. Dist(h, s) = IF s < h THEN s - h + SeqSpace ELSE s - h
    BY DistType
  <2>2. Dist(g, s) = IF s < g THEN s - g + SeqSpace ELSE s - g
    BY DistType
  <2> QED
    BY <1>1, <1>2, <1>3, <2>1, <2>2
<1> QED
  BY <1>3, <1>4

(* is_in_window accepts a distance of one more than the window, at most.   *)
LEMMA Accepts ==
  ASSUME NEW h \in Seqnum, NEW size \in WindowSize, NEW s \in Seqnum
  PROVE  is_in_window(h, size, s) <=> Dist(h, s) <= size + 1
<1>1. /\ SeqSpace \in Nat \ {0} /\ h \in 0 .. SeqSpace - 1 /\ s \in 0 .. SeqSpace - 1
      /\ size \in 1 .. SeqSpace - 3 /\ size \in 0 .. SeqSpace - 1
  BY WindowAssumption DEF Seqnum, WindowSize
<1>2. Dist(h, s) = IF s < h THEN s - h + SeqSpace ELSE s - h
  BY DistType
<1>3. WindowEnd(h, size) = IF h + size < SeqSpace THEN h + size ELSE h + size - SeqSpace
  BY <1>1, ModForward DEF WindowEnd
<1> QED
  BY <1>1, <1>2, <1>3 DEF is_in_window

(* is_seqnum_greater compares the distances of comparable numbers.         *)
LEMMA Compares ==
  ASSUME NEW h \in Seqnum, NEW size \in WindowSize, NEW a \in Seqnum, NEW b \in Seqnum,
         Comparable(h, size, a), Comparable(h, size, b)
  PROVE  is_seqnum_greater(h, size, a, b) <=> Dist(h, a) > Dist(h, b)
<1>1. /\ SeqSpace \in Nat \ {0} /\ h \in 0 .. SeqSpace - 1
      /\ a \in 0 .. SeqSpace - 1 /\ b \in 0 .. SeqSpace - 1
      /\ size \in 1 .. SeqSpace - 3 /\ size \in 0 .. SeqSpace - 1
  BY WindowAssumption DEF Seqnum, WindowSize
<1>2. /\ Dist(h, a) = IF a < h THEN a - h + SeqSpace ELSE a - h
      /\ Dist(h, b) = IF b < h THEN b - h + SeqSpace ELSE b - h
      /\ Dist(h, a) = Unwrap(h, a) - h /\ Dist(h, b) = Unwrap(h, b) - h
  BY DistType
<1>3. WindowEnd(h, size) = IF h + size < SeqSpace THEN h + size ELSE h + size - SeqSpace
  BY <1>1, ModForward DEF WindowEnd
<1>4. CASE h + size < SeqSpace
  BY <1>1, <1>2, <1>3, <1>4 DEF is_seqnum_greater, Comparable
<1>5. CASE ~(h + size < SeqSpace)
  BY <1>1, <1>2, <1>3, <1>5 DEF is_seqnum_greater, Unwrap
<1> QED
  BY <1>4, <1>5
-----------------------------------------------------------------------------
(* The i-th packet of an increasing list is at least i - 1 steps after the *)
(* first, so that the list is no longer than the distances it reaches.     *)
LEMMA IncreasesBound ==
  ASSUME NEW list \in Seq(Pkt), NEW h \in Seqnum, NEW least \in Nat,
         Increases(list, h), Reaches(list, h, least)
  PROVE  /\ \A i \in 1 .. Len(list) : Dist(h, list[i].seq) >= least + i - 1
         /\ Len(list) = 0 \/ Len(list) <= MaxWindow + 2 - least
<1>1. Len(list) \in Nat /\ DOMAIN list = 1 .. Len(list)
  BY LenProperties
<1>2. \A i \in 1 .. Len(list) : Dist(h, list[i].seq) \in least .. MaxWindow + 1
  BY <1>1 DEF Reaches
<1>3. MaxWindow \in Nat
  BY WindowAssumption
<1> DEFINE T == {i \in 1 .. Len(list) : Dist(h, list[i].seq) >= least + i - 1}
<1>4. CASE Len(list) = 0
  BY <1>4
<1>5. CASE Len(list) # 0
  <2>1. 1 \in T
    BY <1>1, <1>2, <1>3, <1>5
  <2>2. \A n \in 1 .. Len(list) - 1 : n \in T => n + 1 \in T
    <3> SUFFICES ASSUME NEW n \in 1 .. Len(list) - 1, n \in T PROVE n + 1 \in T
      OBVIOUS
    <3>1. n \in 1 .. Len(list) /\ n + 1 \in 1 .. Len(list) /\ n < n + 1
      BY <1>1
    <3>2. Dist(h, list[n].seq) < Dist(h, list[n + 1].seq)
      BY <1>1, <3>1 DEF Increases
    <3>3. Dist(h, list[n].seq) \in Int /\ Dist(h, list[n + 1].seq) \in Int
      BY <1>2, <3>1
    <3> QED
      BY <3>1, <3>2, <3>3
  <2>3. \A n \in 1 .. Len(list) : n \in T
    BY <1>1, <2>1, <2>2, WalkInduction
  <2>4. Len(list) \in T /\ Dist(h, list[Len(list)].seq) <= MaxWindow + 1
    BY <1>1, <1>2, <1>3, <1>5, <2>3
  <2> QED
    BY <1>1, <1>2, <1>3, <2>3, <2>4
<1> QED
  BY <1>4, <1>5

(* linkedList_add_increasing keeps the list increasing.                    *)
LEMMA PlaceIncreases ==
  ASSUME rHead \in Seqnum, rWindow \in WindowSize, rList \in Seq(Pkt),
         Increases(rList, rHead), NEW p \in Pkt, NEW i \in 1 .. Len(rList) + 1,
         Place(p, i), i <= Len(rList) => rList[i].seq # p.seq,
         \A j \in DOMAIN rList : Comparable(rHead, rWindow, rList[j].seq),
         Comparable(rHead, rWindow, p.seq)
  PROVE  Increases(InsertAt(rList, i, p), rHead)
<1>1. Len(rList) \in Nat /\ DOMAIN rList = 1 .. Len(rList) /\ p.seq \in Seqnum
  BY LenProperties DEF Pkt
<1>2. \A j \in 1 .. Len(rList) : rList[j].seq \in Seqnum
  <2>1. \A j \in 1 .. Len(rList) : rList[j] \in Pkt
    BY ElementOfSeq
  <2> QED
    BY <2>1 DEF Pkt
<1>3. \A j \in 1 .. Len(rList) :
        is_seqnum_greater(rHead, rWindow, rList[j].seq, p.seq)
          <=> Dist(rHead, rList[j].seq) > Dist(rHead, p.seq)
  BY <1>1, <1>2, Compares
<1>4. \A j \in 1 .. Len(rList) : Dist(rHead, rList[j].seq) \in Int
  BY <1>2, DistType
<1>5. Dist(rHead, p.seq) \in Int
  BY <1>1, DistType
<1>6. \A j \in 1 .. i - 1 : Dist(rHead, rList[j].seq) < Dist(rHead, p.seq)
  <2> SUFFICES ASSUME NEW j \in 1 .. i - 1
               PROVE  Dist(rHead, rList[j].seq) < Dist(rHead, p.seq)
    OBVIOUS
  <2>1. j \in 1 .. Len(rList)
    BY <1>1
  <2>2. /\ rList[j].seq # p.seq
        /\ ~is_seqnum_greater(rHead, rWindow, rList[j].seq, p.seq)
    BY DEF Place
  <2>3. Dist(rHead, rList[j].seq) # Dist(rHead, p.seq)
    BY <1>1, <1>2, <2>1, <2>2, DistTells
  <2> QED
    BY <1>3, <1>4, <1>5, <2>1, <2>2, <2>3
<1>7. \A j \in i .. Len(rList) : Dist(rHead, p.seq) < Dist(rHead, rList[j].seq)
  <2> SUFFICES ASSUME NEW j \in i .. Len(rList)
               PROVE  Dist(rHead, p.seq) < Dist(rHead, rList[j].seq)
    OBVIOUS
  <2>1. i \in 1 .. Len(rList) /\ j \in 1 .. Len(rList) /\ i <= j
    BY <1>1
  <2>2. is_seqnum_greater(rHead, rWindow, rList[i].seq, p.seq)
    BY <2>1 DEF Place
  <2>3. Dist(rHead, p.seq) < Dist(rHead, rList[i].seq)
    BY <1>3, <1>4, <1>5, <2>1, <2>2
  <2>4. i = j \/ Dist(rHead, rList[i].seq) < Dist(rHead, rList[j].seq)
    BY <1>1, <2>1 DEF Increases
  <2> QED
    BY <1>4, <1>5, <2>1, <2>3, <2>4
<1>16. PICK list : list = InsertAt(rList, i, p)
  OBVIOUS
<1>8. /\ list \in Seq(Pkt) /\ Len(list) = Len(rList) + 1
      /\ \A j \in 1 .. Len(rList) + 1 :
           list[j] = IF j < i THEN rList[j] ELSE IF j = i THEN p ELSE rList[j - 1]
  <2>1. /\ InsertAt(rList, i, p) \in Seq(Pkt)
        /\ Len(InsertAt(rList, i, p)) = Len(rList) + 1
        /\ \A j \in 1 .. Len(rList) + 1 :
             InsertAt(rList, i, p)[j] =
               IF j < i THEN rList[j] ELSE IF j = i THEN p ELSE rList[j - 1]
    BY InsertAtType
  <2> QED
    BY <1>16, <2>1
<1>9. DOMAIN list = 1 .. Len(rList) + 1
  BY <1>8, LenProperties
<1> SUFFICES ASSUME NEW j \in DOMAIN list, NEW k \in DOMAIN list, j < k
             PROVE  Dist(rHead, list[j].seq) < Dist(rHead, list[k].seq)
  BY <1>16 DEF Increases
<1>10. j \in 1 .. Len(rList) + 1 /\ k \in 1 .. Len(rList) + 1
  BY <1>9
<1>11. CASE k < i
  <2>1. list[j] = rList[j] /\ list[k] = rList[k] /\ j \in DOMAIN rList /\ k \in DOMAIN rList
    BY <1>1, <1>8, <1>10, <1>11
  <2> QED
    BY <2>1 DEF Increases
<1>12. CASE k = i
  <2>1. list[j] = rList[j] /\ list[k] = p /\ j \in 1 .. i - 1
    BY <1>1, <1>8, <1>10, <1>12
  <2> QED
    BY <1>6, <2>1
<1>13. CASE k > i /\ j = i
  <2>1. list[j] = p /\ list[k] = rList[k - 1] /\ k - 1 \in i .. Len(rList)
    BY <1>1, <1>8, <1>10, <1>13
  <2> QED
    BY <1>7, <2>1
<1>14. CASE k > i /\ j < i
  <2>1. /\ list[j] = rList[j] /\ list[k] = rList[k - 1]
        /\ j \in DOMAIN rList /\ k - 1 \in DOMAIN rList /\ j < k - 1
    BY <1>1, <1>8, <1>10, <1>14
  <2> QED
    BY <2>1 DEF Increases
<1>15. CASE k > i /\ j > i
  <2>1. /\ list[j] = rList[j - 1] /\ list[k] = rList[k - 1]
        /\ j - 1 \in DOMAIN rList /\ k - 1 \in DOMAIN rList /\ j - 1 < k - 1
    BY <1>1, <1>8, <1>10, <1>15
  <2> QED
    BY <2>1 DEF Increases
<1> QED
  BY <1>10, <1>11, <1>12, <1>13, <1>14, <1>15

(* What flush_file does to an increasing list: it writes the k packets at  *)
(* distances 0 to k - 1, and, unless the transfer ends, leaves a list that *)
(* increases from the new head, at a distance of at least one.             *)
Flushed(list, k) ==
  /\ rList' = SubSeq(list, k + 1, Len(list))
  /\ out' = out \o [i \in 1 .. k |-> list[i].pay]
  /\ \A i \in 1 .. k : Follows(list, i) /\ list[i].pay # Empty
  /\ rPc' \in {"run", "done"}
  /\ rPc' = "run" => /\ rHead' = (rHead + k) % SeqSpace
                     /\ k < Len(list) => ~Follows(list, k + 1)

(* flush_file writes some first packets of the list, and stops at one that *)
(* does not follow (read_write_receiver.c:520).                            *)
LEMMA FlushIsFlushed ==
  ASSUME NEW list \in Seq(Pkt), NEW ack, NEW size, NEW responses,
         Flush(list, ack, size, responses)
  PROVE  /\ \E k \in 0 .. Len(list) : Flushed(list, k)
         /\ rWindow' = size
<1>1. PICK k \in 0 .. Len(list), broken \in BOOLEAN :
        /\ IF broken
             THEN /\ \E j \in k + 1 .. Len(list) : Flushable(list, j)
                  /\ Fault("stdout")
             ELSE /\ Flushable(list, k)
                  /\ UNCHANGED faults
        /\ LET rest  == SubSeq(list, k + 1, Len(list))
               final == ~broken /\ k < Len(list) /\ Follows(list, k + 1)
               head  == (rHead + IF final THEN k + 1 ELSE k) % SeqSpace
           IN  /\ rList' = rest
               /\ out' = out \o [i \in 1 .. k |-> list[i].pay]
               /\ rHead' = head
               /\ rWindow' = size
               /\ resent_ack' = (ack \/ rest = <<>>)
               /\ rPc' = IF final \/ broken THEN "done" ELSE "run"
               /\ toSender' = Push(toSender,
                    IF final \/ broken THEN Append(responses, Respond("ACK", head, size))
                    ELSE responses)
  BY DEF Flush
<1>2. k \in Nat /\ Len(list) \in Nat /\ k <= Len(list)
  BY LenProperties
<1>3. \A i \in 1 .. k : Follows(list, i) /\ list[i].pay # Empty
  BY <1>1, <1>2 DEF Flushable
<1>4. rPc' = "run" => /\ rHead' = (rHead + k) % SeqSpace
                      /\ k < Len(list) => ~Follows(list, k + 1)
  BY <1>1
<1> QED
  BY <1>1, <1>3, <1>4 DEF Flushed

(* The packet that follows in the i-th place is i - 1 steps from the head. *)
LEMMA FollowsAtDistance ==
  ASSUME rHead \in Seqnum, NEW list \in Seq(Pkt), NEW i \in 1 .. Len(list), i <= SeqSpace
  PROVE  Follows(list, i) <=> Dist(rHead, list[i].seq) = i - 1
<1>1. i - 1 \in 0 .. SeqSpace - 1
  BY WindowAssumption
<1>2. /\ (rHead + (i - 1)) % SeqSpace \in Seqnum
      /\ Dist(rHead, (rHead + (i - 1)) % SeqSpace) = i - 1
  BY <1>1, DistForward
<1>3. rHead + i - 1 = rHead + (i - 1)
  BY WindowAssumption DEF Seqnum
<1>4. list[i].seq \in Seqnum
  <2>1. list[i] \in Pkt
    BY ElementOfSeq
  <2> QED
    BY <2>1 DEF Pkt
<1> QED
  BY <1>2, <1>3, <1>4, DistTells DEF Follows

(* A flushed list, as Flushed says.                                        *)
LEMMA FlushIncreases ==
  ASSUME rHead \in Seqnum, NEW list \in Seq(Pkt), Increases(list, rHead),
         Reaches(list, rHead, 0), NEW k \in 0 .. Len(list), Flushed(list, k)
  PROVE  /\ \A i \in 1 .. k : Dist(rHead, list[i].seq) = i - 1
         /\ rPc' = "run" =>
              /\ \A i \in k + 1 .. Len(list) : Dist(rHead, list[i].seq) > k
              /\ Increases(rList', rHead') /\ Reaches(rList', rHead', 1)
<1>1. /\ Len(list) \in Nat /\ DOMAIN list = 1 .. Len(list) /\ k \in Nat
      /\ Len(list) <= SeqSpace
      /\ SeqSpace \in Nat /\ MaxWindow \in Nat
  <2>1. Len(list) = 0 \/ Len(list) <= MaxWindow + 2
    BY IncreasesBound
  <2> QED
    BY <2>1, WindowAssumption, LenProperties
<1>2. \A i \in 1 .. Len(list) : list[i].seq \in Seqnum
  <2>1. \A i \in 1 .. Len(list) : list[i] \in Pkt
    BY ElementOfSeq
  <2> QED
    BY <2>1 DEF Pkt
<1>3. \A i \in 1 .. Len(list) : Dist(rHead, list[i].seq) \in 0 .. MaxWindow + 1
  BY <1>1 DEF Reaches
<1>4. \A i \in 1 .. Len(list) : Follows(list, i) <=> Dist(rHead, list[i].seq) = i - 1
  BY <1>1, FollowsAtDistance
<1>5. \A i \in 1 .. k : Dist(rHead, list[i].seq) = i - 1
  BY <1>1, <1>4 DEF Flushed
<1> SUFFICES ASSUME rPc' = "run"
             PROVE  /\ \A i \in k + 1 .. Len(list) : Dist(rHead, list[i].seq) > k
                    /\ Increases(rList', rHead') /\ Reaches(rList', rHead', 1)
  BY <1>5
<1>6. \A i \in k + 1 .. Len(list) : Dist(rHead, list[i].seq) > k
  <2> SUFFICES ASSUME NEW i \in k + 1 .. Len(list)
               PROVE  Dist(rHead, list[i].seq) > k
    OBVIOUS
  <2>1. i \in 1 .. Len(list) /\ k + 1 \in 1 .. Len(list) /\ k + 1 <= i /\ k < Len(list)
    BY <1>1
  <2>2. Dist(rHead, list[k + 1].seq) # k
    <3>1. ~Follows(list, k + 1)
      BY <2>1 DEF Flushed
    <3> QED
      BY <1>1, <1>4, <2>1, <3>1
  <2>3. Dist(rHead, list[k + 1].seq) >= k
    BY <1>1, <2>1, IncreasesBound
  <2>4. Dist(rHead, list[k + 1].seq) \in Int /\ Dist(rHead, list[i].seq) \in Int
    BY <1>3, <2>1
  <2>5. k + 1 = i \/ Dist(rHead, list[k + 1].seq) < Dist(rHead, list[i].seq)
    BY <1>1, <2>1 DEF Increases
  <2> QED
    BY <1>1, <2>1, <2>2, <2>3, <2>4, <2>5
<1> DEFINE rest == SubSeq(list, k + 1, Len(list))
           head == (rHead + k) % SeqSpace
<1>7. rList' = rest /\ rHead' = head
  BY DEF Flushed
<1>8. /\ Len(rest) = Len(list) - k /\ DOMAIN rest = 1 .. Len(list) - k
      /\ \A i \in 1 .. Len(list) - k : rest[i] = list[k + i]
  BY SuffixType
<1> HIDE DEF rest, head
<1>9. \A i \in 1 .. Len(list) - k :
        Dist(head, rest[i].seq) = Dist(rHead, list[k + i].seq) - k
  <2> SUFFICES ASSUME NEW i \in 1 .. Len(list) - k
               PROVE  Dist(head, rest[i].seq) = Dist(rHead, list[k + i].seq) - k
    OBVIOUS
  <2>1. k + i \in k + 1 .. Len(list) /\ k + i \in 1 .. Len(list)
    BY <1>1
  <2>2. k <= Dist(rHead, list[k + i].seq) /\ list[k + i].seq \in Seqnum
    <3>1. Dist(rHead, list[k + i].seq) > k /\ Dist(rHead, list[k + i].seq) \in Int
      BY <1>3, <1>6, <2>1
    <3> QED
      BY <1>1, <1>2, <2>1, <3>1
  <2> QED
    BY <1>1, <1>8, <2>2, DistAdvance DEF head
<1>10. Increases(rest, head)
  <2> SUFFICES ASSUME NEW i \in 1 .. Len(list) - k, NEW j \in 1 .. Len(list) - k, i < j
               PROVE  Dist(head, rest[i].seq) < Dist(head, rest[j].seq)
    BY <1>8 DEF Increases
  <2>1. k + i \in 1 .. Len(list) /\ k + j \in 1 .. Len(list) /\ k + i < k + j
    BY <1>1
  <2>2. Dist(rHead, list[k + i].seq) < Dist(rHead, list[k + j].seq)
    BY <1>1, <2>1 DEF Increases
  <2>3. Dist(rHead, list[k + i].seq) \in Int /\ Dist(rHead, list[k + j].seq) \in Int
    BY <1>3, <2>1
  <2> QED
    BY <1>1, <1>9, <2>2, <2>3
<1>11. Reaches(rest, head, 1)
  <2> SUFFICES ASSUME NEW i \in 1 .. Len(list) - k
               PROVE  Dist(head, rest[i].seq) \in 1 .. MaxWindow + 1
    BY <1>8 DEF Reaches
  <2>1. k + i \in k + 1 .. Len(list) /\ k + i \in 1 .. Len(list)
    BY <1>1
  <2>2. Dist(rHead, list[k + i].seq) > k /\ Dist(rHead, list[k + i].seq) \in 0 .. MaxWindow + 1
    BY <1>3, <1>6, <2>1
  <2> QED
    BY <1>1, <1>9, <2>2
<1> QED
  BY <1>5, <1>6, <1>7, <1>10, <1>11
-----------------------------------------------------------------------------
(* The invariant of the list.  It asks nothing of the network, only that   *)
(* the numbers is_seqnum_greater is given when a packet is stored be       *)
(* comparable (Comparables).                                               *)
Comparables(m) ==
  /\ \A i \in DOMAIN rList : Comparable(rHead, rWindow, rList[i].seq)
  /\ Comparable(rHead, rWindow, m.seq)

Holds(list, p) == \E i \in DOMAIN list : list[i] = p

EofStored == Holds(rList, [seq |-> eof_seqnum, pay |-> Empty])

BufferInv ==
  /\ rPc \in {"wait", "timedout"} => rList = <<>> /\ ~rEof
  /\ rPc # "done" => /\ Increases(rList, rHead)
                     /\ Reaches(rList, rHead, 1)
                     /\ rEof => EofStored

(* What Inv says of the receiver, as the lemmas above need it.             *)
LEMMA ReceiverFacts ==
  ASSUME Inv
  PROVE  /\ rList \in Seq(Pkt) /\ rHead \in Seqnum /\ rWindow \in WindowSize
         /\ rEof \in BOOLEAN
<1>1. rList \in Seq(Pkt)
  BY SeqMonotonic DEF Inv, ReceiverInv, Numbered
<1> QED
  BY <1>1 DEF Inv, ReceiverInv, ReceiverControl, ReceiverNumbers

(* Every branch of receive_data ends in flush_file.  The final packet      *)
(* leaves the list only when the transfer ends.                            *)
LEMMA FlushBufferInv ==
  ASSUME rHead \in Seqnum, NEW list \in Seq(Pkt), Increases(list, rHead),
         Reaches(list, rHead, 0), NEW ack, NEW size, NEW responses,
         Flush(list, ack, size, responses),
         rEof' => Holds(list, [seq |-> eof_seqnum', pay |-> Empty])
  PROVE  BufferInv'
<1>1. PICK k \in 0 .. Len(list) : Flushed(list, k)
  BY FlushIsFlushed
<1>2. rPc' \in {"run", "done"}
  BY <1>1 DEF Flushed
<1>3. rPc' = "run" => Increases(rList', rHead') /\ Reaches(rList', rHead', 1)
  BY <1>1, FlushIncreases
<1>4. ASSUME rPc' = "run", rEof' PROVE EofStored'
  <2>1. PICK i \in DOMAIN list : list[i] = [seq |-> eof_seqnum', pay |-> Empty]
    BY <1>4 DEF Holds
  <2>2. Len(list) \in Nat /\ i \in 1 .. Len(list) /\ k \in Nat /\ k <= Len(list)
    BY LenProperties
  <2>3. ~(i \in 1 .. k)
    BY <1>1, <2>1 DEF Flushed
  <2>4. i - k \in 1 .. Len(list) - k
    BY <2>2, <2>3
  <2>5. /\ DOMAIN SubSeq(list, k + 1, Len(list)) = 1 .. Len(list) - k
        /\ \A j \in 1 .. Len(list) - k : SubSeq(list, k + 1, Len(list))[j] = list[k + j]
    BY SuffixType
  <2>6. rList' = SubSeq(list, k + 1, Len(list))
    BY <1>1 DEF Flushed
  <2>7. i - k \in DOMAIN rList' /\ k + (i - k) = i
    BY <2>2, <2>4, <2>5, <2>6
  <2>8. rList'[i - k] = list[i]
    BY <2>4, <2>5, <2>6, <2>7
  <2>9. i - k \in DOMAIN rList'
    BY <2>7
  <2> QED
    BY <2>1, <2>8, <2>9 DEF EofStored, Holds
<1> QED
  BY <1>2, <1>3, <1>4 DEF BufferInv

(* A list that is cut at its end still increases.                          *)
LEMMA PrefixIncreases ==
  ASSUME NEW list \in Seq(Pkt), NEW h, Increases(list, h), Reaches(list, h, 1),
         NEW n \in Nat, n <= Len(list)
  PROVE  /\ SubSeq(list, 1, n) \in Seq(Pkt)
         /\ Increases(SubSeq(list, 1, n), h) /\ Reaches(SubSeq(list, 1, n), h, 1)
<1>1. Len(list) \in Nat /\ DOMAIN list = 1 .. Len(list)
  BY LenProperties
<1>2. PICK cut : cut = SubSeq(list, 1, n)
  OBVIOUS
<1>3. cut \in Seq(Pkt) /\ Len(cut) = n /\ \A i \in 1 .. n : cut[i] = list[i]
  <2>1. /\ SubSeq(list, 1, n) \in Seq(Pkt)
        /\ Len(SubSeq(list, 1, n)) = IF 1 <= n THEN n - 1 + 1 ELSE 0
        /\ \A i \in 1 .. n - 1 + 1 : SubSeq(list, 1, n)[i] = list[1 + i - 1]
    BY SubSeqType
  <2>2. Len(cut) = n
    BY <1>2, <2>1
  <2>3. ASSUME NEW i \in 1 .. n PROVE cut[i] = list[i]
    <3>1. i \in 1 .. n - 1 + 1 /\ 1 + i - 1 = i
      OBVIOUS
    <3> QED
      BY <1>2, <2>1, <3>1
  <2> QED
    BY <1>2, <2>1, <2>2, <2>3
<1>4. DOMAIN cut = 1 .. n
  BY <1>3, LenProperties
<1>5. \A i \in 1 .. n : i \in DOMAIN list
  BY <1>1
<1> QED
  BY <1>2, <1>3, <1>4, <1>5 DEF Increases, Reaches

(* A list that reaches beyond the head reaches from the head.              *)
LEMMA ReachesWeaken ==
  ASSUME NEW list, NEW h, Reaches(list, h, 1)
  PROVE  Reaches(list, h, 0)
<1>1. \A d \in 1 .. MaxWindow + 1 : d \in 0 .. MaxWindow + 1
  BY WindowAssumption
<1> QED
  BY <1>1 DEF Reaches

(* A truncated packet: when the window is halved the end of the file is    *)
(* forgotten, and when it is not the list is kept.                         *)
LEMMA NackBufferInv ==
  ASSUME Inv, BufferInv, rPc = "run", NEW m, RNack(m), UNCHANGED eof_seqnum
  PROVE  BufferInv'
<1> DEFINE halved == rWindow > MinShrink
           size == decrease_window(rWindow)
           list == IF halved /\ size < Len(rList) THEN SubSeq(rList, 1, size)
                   ELSE rList
<1>1. /\ rList \in Seq(Pkt) /\ rHead \in Seqnum /\ rWindow \in WindowSize
      /\ Increases(rList, rHead) /\ Reaches(rList, rHead, 1) /\ (rEof => EofStored)
  BY ReceiverFacts DEF BufferInv
<1>2. size \in Nat
  BY <1>1, WindowAssumption DEF WindowSize, decrease_window
<1>3. list \in Seq(Pkt) /\ Increases(list, rHead) /\ Reaches(list, rHead, 1)
  <2>1. Len(rList) \in Nat
    BY <1>1, LenProperties
  <2>2. CASE halved /\ size < Len(rList)
    <3>1. size <= Len(rList)
      BY <1>2, <2>1, <2>2
    <3> QED
      BY <1>1, <1>2, <2>2, <3>1, PrefixIncreases
  <2>3. CASE ~(halved /\ size < Len(rList))
    BY <1>1, <2>3
  <2> QED
    BY <2>2, <2>3
<1>4. /\ Flush(list, resent_ack, size, <<Respond("NACK", m.seq, size)>>)
      /\ rEof' = (rEof /\ ~halved)
  BY DEF RNack, EofAfterNack
<1>5. rEof' => Holds(list, [seq |-> eof_seqnum', pay |-> Empty])
  BY <1>1, <1>4 DEF EofStored
<1> HIDE DEF list, size
<1>6. Reaches(list, rHead, 0)
  BY <1>3, ReachesWeaken
<1> QED
  BY <1>1, <1>3, <1>4, <1>5, <1>6, FlushBufferInv

(* A packet that is not stored leaves the list to be flushed as it is.     *)
LEMMA NothingStoredBufferInv ==
  ASSUME Inv, BufferInv, rPc = "run", NEW m, RIgnore(m) \/ RDrop(m)
  PROVE  BufferInv'
<1>1. /\ rList \in Seq(Pkt) /\ rHead \in Seqnum
      /\ Increases(rList, rHead) /\ Reaches(rList, rHead, 1) /\ (rEof => EofStored)
  BY ReceiverFacts DEF BufferInv
<1>2. PICK ack : Flush(rList, ack, rWindow, <<>>)
  BY DEF RIgnore, RDrop
<1>3. UNCHANGED <<rEof, eof_seqnum>>
  BY DEF RIgnore, RDrop
<1>4. Reaches(rList, rHead, 0)
  BY <1>1, ReachesWeaken
<1>5. rEof' => Holds(rList, [seq |-> eof_seqnum', pay |-> Empty])
  BY <1>1, <1>3 DEF EofStored
<1> QED
  BY <1>1, <1>2, <1>4, <1>5, FlushBufferInv

(* What inserting a packet in its place does to the distances the list     *)
(* reaches, and to the final packet.                                       *)
LEMMA InsertReaches ==
  ASSUME NEW list \in Seq(Pkt), NEW h \in Seqnum, Reaches(list, h, 1), NEW p \in Pkt,
         Dist(h, p.seq) <= MaxWindow + 1, NEW i \in 1 .. Len(list) + 1
  PROVE  /\ InsertAt(list, i, p) \in Seq(Pkt) /\ Reaches(InsertAt(list, i, p), h, 0)
         /\ Holds(InsertAt(list, i, p), p)
         /\ \A q : Holds(list, q) => Holds(InsertAt(list, i, p), q)
         /\ \A j \in DOMAIN InsertAt(list, i, p) :
              InsertAt(list, i, p)[j] = p \/ Holds(list, InsertAt(list, i, p)[j])
<1>1. /\ InsertAt(list, i, p) \in Seq(Pkt)
      /\ Len(InsertAt(list, i, p)) = Len(list) + 1
      /\ \A j \in 1 .. Len(list) + 1 :
           InsertAt(list, i, p)[j] = IF j < i THEN list[j] ELSE IF j = i THEN p ELSE list[j - 1]
  BY InsertAtType
<1>2. PICK u : u = InsertAt(list, i, p)
  OBVIOUS
<1>3. /\ u \in Seq(Pkt) /\ Len(u) = Len(list) + 1
      /\ \A j \in 1 .. Len(list) + 1 :
           u[j] = IF j < i THEN list[j] ELSE IF j = i THEN p ELSE list[j - 1]
  BY <1>1, <1>2
<1>4. /\ DOMAIN u = 1 .. Len(list) + 1 /\ DOMAIN list = 1 .. Len(list) /\ Len(list) \in Nat
      /\ p.seq \in Seqnum /\ MaxWindow \in Nat
  BY <1>3, LenProperties, WindowAssumption DEF Pkt
<1>5. Reaches(u, h, 0)
  <2> SUFFICES ASSUME NEW j \in 1 .. Len(list) + 1
               PROVE  Dist(h, u[j].seq) \in 0 .. MaxWindow + 1
    BY <1>4 DEF Reaches
  <2>1. CASE j < i
    <3>1. u[j] = list[j] /\ j \in DOMAIN list
      BY <1>3, <1>4, <2>1
    <3>2. Dist(h, list[j].seq) \in 1 .. MaxWindow + 1
      BY <3>1 DEF Reaches
    <3> QED
      BY <1>4, <3>1, <3>2
  <2>2. CASE j = i
    <3>1. u[j] = p
      BY <1>3, <2>2
    <3>2. Dist(h, p.seq) \in 0 .. SeqSpace - 1
      BY <1>4, DistType
    <3> QED
      BY <1>4, <3>1, <3>2
  <2>3. CASE j > i
    <3>1. u[j] = list[j - 1] /\ j - 1 \in DOMAIN list
      BY <1>3, <1>4, <2>3
    <3>2. Dist(h, list[j - 1].seq) \in 1 .. MaxWindow + 1
      BY <3>1 DEF Reaches
    <3> QED
      BY <1>4, <3>1, <3>2
  <2> QED
    BY <1>4, <2>1, <2>2, <2>3
<1>6. Holds(u, p)
  BY <1>3, <1>4 DEF Holds
<1>7. ASSUME NEW j \in DOMAIN list PROVE \E l \in DOMAIN u : u[l] = list[j]
  <2>1. CASE j < i
    <3>1. j \in DOMAIN u /\ u[j] = list[j]
      BY <1>3, <1>4, <2>1
    <3> QED
      BY <3>1
  <2>2. CASE j >= i
    <3>1. j + 1 \in 1 .. Len(list) + 1 /\ ~(j + 1 < i) /\ j + 1 # i /\ (j + 1) - 1 = j
      BY <1>4, <2>2
    <3>2. u[j + 1] = list[j]
      BY <1>3, <3>1
    <3> QED
      BY <1>4, <3>1, <3>2
  <2> QED
    BY <1>4, <2>1, <2>2
<1>8. \A q : Holds(list, q) => Holds(u, q)
  BY <1>7 DEF Holds
<1>9. \A j \in DOMAIN u : u[j] = p \/ Holds(list, u[j])
  <2> SUFFICES ASSUME NEW j \in 1 .. Len(list) + 1, u[j] # p PROVE Holds(list, u[j])
    BY <1>4
  <2>1. \/ j \in DOMAIN list /\ u[j] = list[j]
        \/ j - 1 \in DOMAIN list /\ u[j] = list[j - 1]
    BY <1>3, <1>4
  <2> QED
    BY <2>1 DEF Holds
<1> QED
  BY <1>2, <1>3, <1>5, <1>6, <1>8, <1>9

(* The packet is put in its place: the list that is flushed then, which    *)
(* holds the packet and those of before, and no other.                     *)
LEMMA StoredList ==
  ASSUME Inv, BufferInv, rPc = "run", NEW m \in NumberedMsg, RStore(m), Comparables(m)
  PROVE  \E list \in Seq(Pkt) :
           /\ Increases(list, rHead) /\ Reaches(list, rHead, 0)
           /\ Holds(list, Stored(m))
           /\ \A q : Holds(rList, q) => Holds(list, q)
           /\ \A j \in DOMAIN list : list[j] = Stored(m) \/ Holds(rList, list[j])
           /\ Flush(list, m.seq # rHead,
                    IF m.seq = rHead THEN increase_window(rWindow) ELSE rWindow, <<>>)
<1>1. /\ rList \in Seq(Pkt) /\ rHead \in Seqnum /\ rWindow \in WindowSize
      /\ Increases(rList, rHead) /\ Reaches(rList, rHead, 1)
  BY ReceiverFacts DEF BufferInv
<1>2. /\ Stored(m) \in Pkt /\ Stored(m).seq = m.seq /\ Stored(m).pay = m.pay
      /\ m.seq \in Seqnum
  BY DEF NumberedMsg, DataMsg, Pkt, Stored
<1>3. Dist(rHead, m.seq) <= MaxWindow + 1
  <2>1. Dist(rHead, m.seq) <= rWindow + 1
    BY <1>1, <1>2, Accepts DEF RStore, InWindow
  <2>2. Dist(rHead, m.seq) \in Int
    BY <1>1, <1>2, DistType
  <2> QED
    BY <1>1, <2>1, <2>2, WindowAssumption DEF WindowSize
<1>4. PICK i \in 1 .. Len(rList) + 1 :
        /\ Place(Stored(m), i)
        /\ i <= Len(rList) => rList[i].seq # m.seq
        /\ Flush(InsertAt(rList, i, Stored(m)), m.seq # rHead,
                 IF m.seq = rHead THEN increase_window(rWindow) ELSE rWindow, <<>>)
  BY DEF RStore
<1>5. PICK list : list = InsertAt(rList, i, Stored(m))
  OBVIOUS
<1>6. /\ list \in Seq(Pkt) /\ Reaches(list, rHead, 0)
      /\ Holds(list, Stored(m))
      /\ \A q : Holds(rList, q) => Holds(list, q)
      /\ \A j \in DOMAIN list : list[j] = Stored(m) \/ Holds(rList, list[j])
  <2>1. PICK p \in Pkt : p = Stored(m)
    BY <1>2
  <2>2. Dist(rHead, p.seq) <= MaxWindow + 1
    BY <1>2, <1>3, <2>1
  <2>3. /\ InsertAt(rList, i, p) \in Seq(Pkt)
        /\ Reaches(InsertAt(rList, i, p), rHead, 0)
        /\ Holds(InsertAt(rList, i, p), p)
        /\ \A q : Holds(rList, q) => Holds(InsertAt(rList, i, p), q)
        /\ \A j \in DOMAIN InsertAt(rList, i, p) :
             InsertAt(rList, i, p)[j] = p \/ Holds(rList, InsertAt(rList, i, p)[j])
    <3>1. /\ rList \in Seq(Pkt) /\ rHead \in Seqnum /\ Reaches(rList, rHead, 1)
          /\ i \in 1 .. Len(rList) + 1
      BY <1>1, <1>4
    <3> QED
      BY <2>2, <3>1, InsertReaches
  <2> QED
    BY <1>5, <2>1, <2>3
<1>7. Increases(list, rHead)
  <2>1. /\ \A j \in DOMAIN rList : Comparable(rHead, rWindow, rList[j].seq)
        /\ Comparable(rHead, rWindow, m.seq)
    BY DEF Comparables
  <2> QED
    BY <1>1, <1>2, <1>4, <1>5, <2>1, PlaceIncreases
<1>8. Flush(list, m.seq # rHead,
            IF m.seq = rHead THEN increase_window(rWindow) ELSE rWindow, <<>>)
  BY <1>4, <1>5
<1> QED
  BY <1>6, <1>7, <1>8

(* Storing a packet that can be compared with the others keeps the buffer  *)
(* in order.                                                               *)
LEMMA StoreBufferInv ==
  ASSUME Inv, BufferInv, rPc = "run", NEW m \in NumberedMsg, RStore(m), Comparables(m)
  PROVE  BufferInv'
<1>1. rHead \in Seqnum /\ rEof \in BOOLEAN /\ (rEof => EofStored)
  BY ReceiverFacts DEF BufferInv
<1>2. PICK list \in Seq(Pkt) :
        /\ Increases(list, rHead) /\ Reaches(list, rHead, 0)
        /\ Holds(list, Stored(m))
        /\ \A q : Holds(rList, q) => Holds(list, q)
        /\ Flush(list, m.seq # rHead,
                 IF m.seq = rHead THEN increase_window(rWindow) ELSE rWindow, <<>>)
  BY StoredList
<1>3. /\ rEof' = (rEof \/ m.pay = Empty)
      /\ eof_seqnum' = IF m.pay = Empty THEN m.seq ELSE eof_seqnum
  BY DEF RStore
<1>4. rEof' => Holds(list, [seq |-> eof_seqnum', pay |-> Empty])
  <2>1. CASE m.pay = Empty
    <3>1. Stored(m) = [seq |-> eof_seqnum', pay |-> Empty]
      BY <1>3, <2>1 DEF Stored
    <3> QED
      BY <1>2, <3>1
  <2>2. CASE m.pay # Empty
    <3>1. rEof' => rEof /\ eof_seqnum' = eof_seqnum
      BY <1>3, <2>2
    <3> QED
      BY <1>1, <1>2, <3>1 DEF EofStored
  <2> QED
    BY <2>1, <2>2
<1> QED
  BY <1>1, <1>2, <1>4, FlushBufferInv

(* Every step keeps the invariant: outside receive_data the list and the   *)
(* head stay as they are.                                                  *)
LEMMA BufferStep ==
  ASSUME Inv, BufferInv, [Next]_vars,
         \A i \in DOMAIN toReceiver :
           rPc = "run" /\ RStore(toReceiver[i]) => Comparables(toReceiver[i])
  PROVE  BufferInv'
<1>1. ASSUME UNCHANGED <<rPc, rList, rHead, rEof, eof_seqnum>> PROVE BufferInv'
  BY <1>1 DEF BufferInv, Increases, Reaches, EofStored, Holds
<1>2. ASSUME NEW i \in DOMAIN toReceiver, RReceive(i) PROVE BufferInv'
  <2>1. PICK m : m = toReceiver[i]
    OBVIOUS
  <2>2. rPc = "run" /\ (RNack(m) \/ RIgnore(m) \/ RDrop(m) \/ RStore(m))
    BY <1>2, <2>1 DEF RReceive
  <2>3. m \in NumberedMsg
    BY <2>1, RemoveFromChannel DEF Inv, LinkInv, DataChannel
  <2>4. ASSUME RNack(m) PROVE BufferInv'
    <3>1. UNCHANGED eof_seqnum
      BY <2>4 DEF RNack
    <3> QED
      BY <2>2, <2>4, <3>1, NackBufferInv
  <2>5. ASSUME RIgnore(m) \/ RDrop(m) PROVE BufferInv'
    BY <2>2, <2>5, NothingStoredBufferInv
  <2>6. ASSUME RStore(m) PROVE BufferInv'
    <3>1. Comparables(m)
      BY <2>1, <2>2, <2>6
    <3> QED
      BY <2>2, <2>3, <2>6, <3>1, StoreBufferInv
  <2> QED
    BY <2>2, <2>4, <2>5, <2>6
<1>3. ASSUME RConnect PROVE BufferInv'
  <2>1. rPc' = "run" /\ rList' = <<>> /\ ~rEof'
    BY <1>3 DEF RConnect, BufferInv
  <2> QED
    BY <2>1 DEF BufferInv, Increases, Reaches
<1>4. ASSUME RTimeout PROVE BufferInv'
  <2>1. rPc' = "timedout" /\ rList' = <<>> /\ ~rEof'
    BY <1>4 DEF RTimeout, BufferInv
  <2> QED
    BY <2>1 DEF BufferInv, Increases, Reaches
<1>5. CASE ReceiverStep
  <2>1. RAck => UNCHANGED <<rPc, rList, rHead, rEof, eof_seqnum>>
    BY DEF RAck
  <2> QED
    BY <1>1, <1>2, <1>3, <1>4, <1>5, <2>1 DEF ReceiverStep
<1>6. CASE SenderStep \/ LinkStep \/ UNCHANGED vars
  BY <1>1, <1>6 DEF SenderStep, LinkStep, vars, receiverVars
<1> QED
  BY <1>5, <1>6 DEF Next

-----------------------------------------------------------------------------
(* When no number the receiver lets in is SeqSpace or more, the numbers    *)
(* are comparable, under any network.                                      *)
NoWrap == FileLen + MaxWindow + 1 < SeqSpace

(* The output is no longer than the file, and the head is its length.      *)
LEMMA HeadInFile ==
  ASSUME NoWrap, Inv, rPc # "done"
  PROVE  rHead <= FileLen
<1>1. Integrity /\ rHead = Len(out) /\ out \in Seq(0 .. FileLen - 1)
  BY FileAssumption, WindowAssumption DEF NoWrap, ShortFile, Inv, ReceiverInv, OutputInv
<1>2. Len(out) \in Nat /\ DOMAIN out = 1 .. Len(out)
  BY <1>1, LenProperties
<1>3. ASSUME Len(out) # 0 PROVE Len(out) - 1 \in 0 .. FileLen - 1
  <2>1. Len(out) \in 1 .. Len(out)
    BY <1>2, <1>3
  <2>2. out[Len(out)] \in 0 .. FileLen - 1
    BY <1>1, <2>1, ElementOfSeq
  <2> QED
    BY <1>1, <1>2, <2>1, <2>2 DEF Integrity
<1> QED
  BY <1>1, <1>2, <1>3, FileAssumption

(* The numbers of the list and that of a packet let in do not wrap.        *)
LEMMA NothingWraps ==
  ASSUME NoWrap, Inv, BufferInv, rPc = "run", NEW m \in NumberedMsg, RStore(m)
  PROVE  Comparables(m)
<1>1. /\ rList \in Seq(Pkt) /\ rHead \in Seqnum /\ rWindow \in WindowSize
      /\ rHead <= FileLen /\ Reaches(rList, rHead, 1) /\ m.seq \in Seqnum
  BY ReceiverFacts, HeadInFile DEF BufferInv, NumberedMsg, DataMsg
<1>2. ASSUME NEW s \in Seqnum, Dist(rHead, s) <= MaxWindow + 1
      PROVE  Comparable(rHead, rWindow, s)
  <2>1. Dist(rHead, s) \in Int
    BY <1>1, DistType
  <2> QED
    BY <1>1, <1>2, <2>1, FileAssumption, WindowAssumption DEF NoWrap, Comparable, Seqnum
<1>3. ASSUME NEW j \in DOMAIN rList PROVE Comparable(rHead, rWindow, rList[j].seq)
  <2>1. rList[j] \in Pkt
    BY <1>1, LenProperties, ElementOfSeq
  <2>2. rList[j].seq \in Seqnum /\ Dist(rHead, rList[j].seq) <= MaxWindow + 1
    BY <1>1, <2>1 DEF Pkt, Reaches
  <2> QED
    BY <1>2, <2>2
<1>4. Dist(rHead, m.seq) <= MaxWindow + 1
  <2>1. Dist(rHead, m.seq) <= rWindow + 1
    BY <1>1, Accepts DEF RStore, InWindow
  <2>2. Dist(rHead, m.seq) \in Int
    BY <1>1, DistType
  <2> QED
    BY <1>1, <2>1, <2>2, WindowAssumption DEF WindowSize
<1> QED
  BY <1>1, <1>2, <1>3, <1>4 DEF Comparables

(* The order of the buffer holds in every state.                           *)
LEMMA BufferInvariance ==
  ASSUME NoWrap
  PROVE  Spec => [](Inv /\ BufferInv)
<1>1. Init => BufferInv
  BY DEF Init, ReceiverInit, BufferInv, Increases, Reaches
<1>2. ASSUME Inv, BufferInv, [Next]_vars PROVE BufferInv'
  <2>1. ASSUME NEW i \in DOMAIN toReceiver, rPc = "run", RStore(toReceiver[i])
        PROVE  Comparables(toReceiver[i])
    <3>1. toReceiver[i] \in NumberedMsg
      BY <1>2, LenProperties, ElementOfSeq DEF Inv, LinkInv, DataChannel
    <3> QED
      BY <1>2, <2>1, <3>1, NothingWraps
  <2> QED
    BY <1>2, <2>1, BufferStep
<1> QED
  BY <1>1, <1>2, Invariance, PTL DEF Spec

(* What the invariant says of the list: its order; its length, as it is in *)
(* order and its distances are 1 to MaxWindow + 1; and the final packet,   *)
(* which is not at the head.                                               *)
LEMMA BufferProperties ==
  ASSUME Inv, BufferInv
  PROVE  RcvSorted /\ BufferBound /\ EofInList
<1>1. rList \in Seq(Pkt) /\ rHead \in Seqnum
  BY ReceiverFacts
<1>2. RcvSorted
  BY DEF BufferInv, RcvSorted, RcvAhead, Increases, Dist
<1>3. ASSUME rPc # "done" PROVE Len(rList) <= MaxWindow + 1
  <2>1. Increases(rList, rHead) /\ Reaches(rList, rHead, 1)
    BY <1>3 DEF BufferInv
  <2>2. Len(rList) = 0 \/ Len(rList) <= MaxWindow + 2 - 1
    BY <1>1, <2>1, IncreasesBound
  <2> QED
    BY <2>2, WindowAssumption
<1>4. ASSUME rPc = "run", rEof PROVE rHead # eof_seqnum /\ EofStored
  <2>1. EofStored /\ Reaches(rList, rHead, 1)
    BY <1>4 DEF BufferInv
  <2>2. PICK i \in DOMAIN rList : rList[i] = [seq |-> eof_seqnum, pay |-> Empty]
    BY <2>1 DEF EofStored, Holds
  <2>3. rList[i].seq = eof_seqnum
    BY <2>2
  <2>4. Dist(rHead, eof_seqnum) # 0
    <3>1. Dist(rHead, eof_seqnum) \in 1 .. MaxWindow + 1
      BY <2>1, <2>3 DEF Reaches
    <3> QED
      BY <3>1, WindowAssumption
  <2> QED
    BY <1>1, <2>1, <2>4, DistTells
<1> QED
  BY <1>2, <1>3, <1>4 DEF BufferBound, EofInList, EofStored, Holds

(* The list of the receiver is in the order of its numbers from the head,  *)
(* whatever the network loses, cuts, damages or reorders, when the numbers *)
(* of the file do not wrap (linkedList_add_increasing,                     *)
(* read_write_receiver.c:230).                                             *)
THEOREM ReceiverSorted ==
  ASSUME NoWrap
  PROVE  Spec => []RcvSorted
<1>1. Inv /\ BufferInv => RcvSorted
  BY BufferProperties
<1> QED
  BY <1>1, BufferInvariance, PTL

(* The receiver buffers one packet more than the largest window at most    *)
(* (receive_data, read_write_receiver.c:385).                              *)
THEOREM ReceiverBufferBound ==
  ASSUME NoWrap
  PROVE  Spec => []BufferBound
<1>1. Inv /\ BufferInv => BufferBound
  BY BufferProperties
<1> QED
  BY <1>1, BufferInvariance, PTL

(* eof_reached never outlives the final packet, and the final packet is    *)
(* never stored at the head: the receiver does not stop reading before the *)
(* end, also when decrease_window throws the end of the list away and the  *)
(* final packet comes again (read_write_receiver.c:614).                   *)
THEOREM ReceiverEofInList ==
  ASSUME NoWrap
  PROVE  Spec => []EofInList
<1>1. Inv /\ BufferInv => EofInList
  BY BufferProperties
<1> QED
  BY <1>1, BufferInvariance, PTL
=============================================================================
