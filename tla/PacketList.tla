----------------------------- MODULE PacketList -----------------------------
(***************************************************************************)
(* What linkedList.h promises to the two programs: a list of packets, with *)
(* an answer to each operation.  An answer is a sequence of numbers: what  *)
(* a function returns, or the sequence numbers a walk has read.            *)
(***************************************************************************)
EXTENDS Integers, SequencesExt

CONSTANTS
  Number,     \* the sequence numbers of the packets
  MaxSize     \* most packets in a list

VARIABLES
  list,       \* sequence numbers of the packets, in list order
  answer,     \* of the last operation
  deleted     \* the list was given back

listVars == <<list, answer, deleted>>

Ok == <<0>>
Failed == <<-1>>

Init == list = <<>> /\ answer = Ok /\ deleted = FALSE

AddLast(n) ==
  /\ Len(list) < MaxSize
  /\ list' = Append(list, n)
  /\ answer' = Ok

(* The packet goes before the first greater one, unless its number is met  *)
(* on the way.                                                             *)
AddIncreasing(n) ==
  /\ \E i \in 1 .. Len(list) + 1 :
       /\ \A j \in 1 .. i - 1 : list[j] < n
       /\ i <= Len(list) => list[i] >= n
       /\ IF i <= Len(list) /\ list[i] = n
            THEN UNCHANGED list /\ answer' = Failed
            ELSE Len(list) < MaxSize /\ list' = InsertAt(list, i, n) /\ answer' = Ok

RemoveHead ==
  IF list = <<>> THEN UNCHANGED list /\ answer' = Failed
                 ELSE list' = Tail(list) /\ answer' = Ok

RemoveEnd ==
  IF list = <<>> THEN UNCHANGED list /\ answer' = Failed
                 ELSE list' = Front(list) /\ answer' = Ok

RemoveInside ==
  /\ \E i \in 2 .. Len(list) - 1 : list' = RemoveAt(list, i)
  /\ UNCHANGED answer

(* The first packet is written and removed: was it the last one?           *)
Flush ==
  /\ list # <<>>
  /\ list' = Tail(list)
  /\ answer' = <<IF Len(list) = 1 THEN 1 ELSE 0>>

ReadAll == list # <<>> /\ answer' = list /\ UNCHANGED list

ReadLast == list # <<>> /\ answer' = <<Last(list)>> /\ UNCHANGED list

Next ==
  /\ ~deleted
  /\ \/ /\ UNCHANGED deleted
        /\ \/ \E n \in Number : AddLast(n) \/ AddIncreasing(n)
           \/ RemoveHead \/ RemoveEnd \/ RemoveInside
           \/ Flush \/ ReadAll \/ ReadLast
     \/ deleted' = TRUE /\ list' = <<>> /\ answer' = Ok

Spec == Init /\ [][Next]_listVars
=============================================================================
