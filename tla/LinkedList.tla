----------------------------- MODULE LinkedList -----------------------------
(***************************************************************************)
(* linkedList.c, and the code of the two programs that follows the         *)
(* pointers of a list by itself: resent_pkt, update_window, flush_file and *)
(* linkedList_add_increasing.  heap is the memory of the nodes: a node     *)
(* exists between malloc and free, malloc may return an address that was   *)
(* freed, and a pointer nobody has set yet holds anything.  A packet lives *)
(* and dies with its node, which carries its sequence number; a packet has *)
(* a greater number than another one when it comes later in the window.    *)
(***************************************************************************)
EXTENDS Integers, FiniteSets, Sequences

CONSTANTS
  Addr,     \* the addresses malloc returns
  NULL,
  Number    \* the sequence numbers

ASSUME ListAssumption == IsFiniteSet(Addr) /\ NULL \notin Addr /\ Number \subseteq Nat

VARIABLES
  heap,       \* the allocated nodes
  head, tail, size,
  answer,     \* of the last operation: what it returned or read
  deleted,    \* linkedList_del was called
  stray       \* a node that does not exist was read, written or freed

vars == <<heap, head, tail, size, answer, deleted, stray>>

Pointer == Addr \cup {NULL}
MaxSize == Cardinality(Addr)
Node == [seq : Number, next : Pointer]
Allocated == DOMAIN heap

TypeOK ==
  /\ Allocated \subseteq Addr
  /\ \A a \in Allocated : heap[a] \in Node
  /\ head \in Pointer /\ tail \in Pointer
  /\ size \in 0 .. MaxSize
  /\ answer \in Seq(Int)
  /\ deleted \in BOOLEAN /\ stray \in BOOLEAN

Ok == <<0>>
Failed == <<-1>>

(* linkedList_create sets the size only.                                   *)
Init ==
  /\ heap = <<>>
  /\ head \in Pointer /\ tail \in Pointer
  /\ size = 0
  /\ answer = Ok
  /\ deleted = FALSE /\ stray = FALSE

-----------------------------------------------------------------------------
(* malloc: n is a node at an address that was free.                        *)
Fresh(n) == n \in Addr \ Allocated

(* The heap with a new node, with the field next of a node set, without a  *)
(* set of nodes.                                                           *)
With(mem, n, node) == [a \in DOMAIN mem \cup {n} |-> IF a = n THEN node ELSE mem[a]]
SetNext(mem, a, n) == [mem EXCEPT ![a].next = n]
Free(nodes) == [a \in Allocated \ nodes |-> heap[a]]

(* What an operation leaves in the list's fields: p is a walk to the node  *)
(* that becomes the last one, or that a new node n is put before.  Each    *)
(* comes after a mutant.                                                   *)
SmallerNot == size
Smaller == size - 1

NewTailNot(p) == tail
NewTail(p) == p[Len(p)]

NewHeadNot(p, n) == head
NewHead(p, n) == IF Len(p) = 1 THEN n ELSE head

(* An operation that needs fine to hold of the nodes it reads, writes or   *)
(* frees: that they exist.  Otherwise the program has gone astray.         *)
Uses(fine, effect) ==
  \/ fine /\ effect /\ UNCHANGED stray
  \/ ~fine /\ stray' = TRUE /\ UNCHANGED <<heap, head, tail, size, answer>>

(* A walk: the nodes met from the head on, each the next of the one before,*)
(* until one satisfies stop, does not exist or was met already.            *)
Walks == UNION {[1 .. k -> Pointer] : k \in 1 .. MaxSize + 1}

Walk(p, stop(_)) ==
  /\ p[1] = head
  /\ \A i \in 1 .. Len(p) - 1 :
       p[i] \in Allocated /\ ~stop(p[i]) /\ p[i + 1] = heap[p[i]].next
  /\ p[Len(p)] \in Allocated =>
       stop(p[Len(p)]) \/ \E i \in 1 .. Len(p) - 1 : p[i] = p[Len(p)]

Ends(p, stop(_)) == p[Len(p)] \in Allocated /\ stop(p[Len(p)])

Numbers(p) == [i \in DOMAIN p |-> heap[p[i]].seq]

-----------------------------------------------------------------------------
(* linkedList_add: the node n, already in mem, goes to the end.            *)
linkedList_add(mem, n) ==
  Uses(size = 0 \/ tail \in Allocated,
       /\ heap' = IF size = 0 THEN mem ELSE SetNext(mem, tail, n)
       /\ head' = IF size = 0 THEN n ELSE head
       /\ tail' = n
       /\ size' = size + 1
       /\ answer' = Ok)

(* linkedList_add_pkt leaves the field next of the node as malloc gave it. *)
linkedList_add_pkt(number) ==
  \E n \in Addr, garbage \in Pointer :
    /\ Fresh(n)
    /\ linkedList_add(With(heap, n, [seq |-> number, next |-> garbage]), n)

(* linkedList_add_increasing: a packet whose number is met is refused; one *)
(* smaller than a packet of the list goes before the first such packet.    *)
linkedList_add_increasing(number) ==
  LET stop(a) == heap[a].seq >= number \/ a = tail
      before(p, n) ==
        LET mem == IF Len(p) = 1 THEN heap ELSE SetNext(heap, p[Len(p) - 1], n)
        IN  /\ heap' = With(mem, n, [seq |-> number, next |-> p[Len(p)]])
            /\ head' = NewHead(p, n)
            /\ size' = size + 1
            /\ answer' = Ok
            /\ UNCHANGED <<tail, stray>>
  IN  \/ size = 0 /\ linkedList_add_pkt(number)
      \/ /\ size # 0
         /\ \E p \in Walks :
              /\ Walk(p, stop)
              /\ \/ ~Ends(p, stop) /\ Uses(FALSE, TRUE)
                 \/ Ends(p, stop) /\
                    LET at == p[Len(p)]
                    IN  \/ /\ heap[at].seq = number
                           /\ answer' = Failed
                           /\ UNCHANGED <<heap, head, tail, size, stray>>
                        \/ heap[at].seq > number /\ \E n \in Addr : Fresh(n) /\ before(p, n)
                        \/ heap[at].seq < number /\ linkedList_add_pkt(number)

(* linkedList_remove.                                                      *)
linkedList_remove(result) ==
  \/ /\ size = 0
     /\ answer' = Failed
     /\ UNCHANGED <<heap, head, tail, size, stray>>
  \/ /\ size # 0
     /\ Uses(head \in Allocated,
             /\ heap' = Free({head})
             /\ head' = IF size = 1 THEN head ELSE heap[head].next
             /\ size' = Smaller
             /\ answer' = result
             /\ UNCHANGED tail)

(* linkedList_remove_end walks to the node before the tail.                *)
linkedList_remove_end ==
  LET stop(a) == heap[a].next = tail
  IN  \/ size <= 1 /\ linkedList_remove(Ok)
      \/ /\ size > 1
         /\ \E p \in Walks :
              /\ Walk(p, stop)
              /\ Uses(Ends(p, stop) /\ tail \in Allocated,
                      /\ heap' = Free({tail})
                      /\ tail' = NewTail(p)
                      /\ size' = Smaller
                      /\ answer' = Ok
                      /\ UNCHANGED head)

(* linkedList_remove_middle: current "is not head or tail", previous is    *)
(* the node before it.                                                     *)
linkedList_remove_middle ==
  /\ \E previous \in Allocated :
       LET current == heap[previous].next
       IN  /\ size > 2
           /\ current \in Allocated
           /\ tail \notin {previous, current}
           /\ heap' = [a \in Allocated \ {current} |->
                         IF a = previous THEN [heap[a] EXCEPT !.next = heap[current].next]
                         ELSE heap[a]]
           /\ size' = Smaller
  /\ UNCHANGED <<head, tail, answer, stray>>

(* resent_pkt and print_window walk the list to its tail.  resent_pkt does *)
(* not test the size: that the list is not empty then is NoUB of Transfer. *)
walk ==
  LET stop(a) == a = tail
  IN  /\ size # 0
      /\ \E p \in Walks :
           /\ Walk(p, stop)
           /\ Uses(Ends(p, stop),
                   answer' = Numbers(p) /\ UNCHANGED <<heap, head, tail, size>>)

(* update_window and decrease_window, after packets are dropped.           *)
readTail ==
  /\ size # 0
  /\ Uses(tail \in Allocated,
          answer' = <<heap[tail].seq>> /\ UNCHANGED <<heap, head, tail, size>>)

(* A turn of flush_file: head is written and removed, and compared, though *)
(* freed, with tail: the answer is 1 when the loop takes the list for      *)
(* emptied.  Mutant: compared after the move to the next packet.           *)
EmptiedNext == head' = tail
Emptied == head = tail

flush_file == size # 0 /\ linkedList_remove(<<IF Emptied THEN 1 ELSE 0>>)

(* linkedList_del frees size nodes from the head on.                       *)
linkedList_del ==
  /\ \/ size = 0 /\ answer' = Ok /\ UNCHANGED <<heap, head, tail, size, stray>>
     \/ \E p \in [1 .. size -> Pointer] :
          /\ size > 0 /\ p[1] = head
          /\ \A i \in 1 .. size - 1 : p[i] \in Allocated => p[i + 1] = heap[p[i]].next
          /\ Uses(/\ \A i \in 1 .. size : p[i] \in Allocated
                  /\ \A i, j \in 1 .. size : i # j => p[i] # p[j],
                  /\ heap' = Free({p[i] : i \in 1 .. size})
                  /\ size' = 0
                  /\ answer' = Ok
                  /\ UNCHANGED <<head, tail>>)
  /\ deleted' = TRUE

Next ==
  /\ ~deleted
  /\ \/ /\ UNCHANGED deleted
        /\ \/ \E number \in Number : \/ linkedList_add_pkt(number)
                                     \/ linkedList_add_increasing(number)
           \/ linkedList_remove(Ok) \/ linkedList_remove_end
           \/ linkedList_remove_middle
           \/ walk \/ readTail \/ flush_file
     \/ linkedList_del

Spec == Init /\ [][Next]_vars

-----------------------------------------------------------------------------
(* No operation reads, writes or frees a node that was freed or never      *)
(* allocated, whatever the addresses malloc gives again and whatever the   *)
(* fields it leaves unset hold: the last next, head and tail once the list *)
(* is empty (linkedList.c:60, 89).                                         *)
NoStray == ~stray

(* The nodes in list order.                                                *)
IsChain(p) ==
  /\ size > 0 => p[1] = head /\ p[size] = tail
  /\ \A i \in 1 .. size - 1 : p[i] \in Allocated /\ heap[p[i]].next = p[i + 1]
  /\ \A i, j \in 1 .. size : i # j => p[i] # p[j]

(* From head, size nodes lead to tail and are all that is allocated: the   *)
(* size is right, nothing is lost, linkedList_del included, and no node    *)
(* comes twice.                                                            *)
Shape ==
  \E p \in [1 .. size -> Addr] : IsChain(p) /\ Allocated = {p[i] : i \in 1 .. size}

Contents ==
  IF stray THEN <<>>
  ELSE Numbers(CHOOSE p \in [1 .. size -> Addr] : IsChain(p))

Abstract ==
  INSTANCE PacketList WITH list <- Contents

(* The pointers implement the list of PacketList: what is stored, what     *)
(* every walk reads, and that flush_file sees the list emptied exactly     *)
(* when it is.                                                             *)
ImplementsList == Abstract!Spec
=============================================================================
