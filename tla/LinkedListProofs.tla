-------------------------- MODULE LinkedListProofs --------------------------
(***************************************************************************)
(* Proofs about linkedList.c, for every memory and every set of numbers.   *)
(***************************************************************************)
EXTENDS LinkedList, Lemmas

(* p is the list: its nodes, first to last, and all that is allocated.     *)
Chain(p) ==
  /\ p \in [1 .. size -> Addr]
  /\ IsChain(p)
  /\ Allocated = {p[i] : i \in 1 .. size}

(* What else holds of the memory between two operations.                   *)
Fields ==
  /\ \A a \in Allocated : heap[a] \in Node
  /\ head \in Pointer /\ tail \in Pointer
  /\ size \in Nat
  /\ answer \in Seq(Int)
  /\ deleted \in BOOLEAN
  /\ stray = FALSE

ListInv == Fields /\ \E p : Chain(p)

-----------------------------------------------------------------------------
(* The facts of a chain its operations use: the first node is head, the    *)
(* last one tail and no other, next leads from each to the one after, and  *)
(* every node is at one place.                                             *)
LEMMA ChainFacts ==
  ASSUME Fields, NEW p, Chain(p)
  PROVE  /\ \A i \in 1 .. size : p[i] \in Allocated /\ p[i] \in Addr
         /\ \A a \in Allocated : \E i \in 1 .. size : p[i] = a
         /\ size > 0 => p[1] = head /\ p[size] = tail
         /\ \A i \in 1 .. size - 1 : heap[p[i]].next = p[i + 1] /\ p[i] # tail
         /\ \A i, j \in 1 .. size : p[i] = p[j] => i = j
BY DEF Chain, IsChain, Fields

(* A walk is a sequence of pointers.                                       *)
LEMMA WalkType ==
  ASSUME NEW w \in Walks
  PROVE  /\ w \in Seq(Pointer) /\ Len(w) \in 1 .. MaxSize + 1
         /\ Len(w) \in Nat /\ Len(w) >= 1
<1>1. MaxSize \in Nat
  BY ListAssumption, FS_CardinalityType DEF MaxSize
<1>2. PICK k \in 1 .. MaxSize + 1 : w \in [1 .. k -> Pointer]
  BY DEF Walks
<1>3. w \in Seq(Pointer)
  BY <1>1, <1>2, SeqDef
<1>4. Len(w) = k
  BY <1>1, <1>2, <1>3, LenProperties
<1> QED
  BY <1>1, <1>3, <1>4

(* A walk that does not go beyond the tail meets the nodes of the list in  *)
(* their order, no node twice.                                             *)
LEMMA WalkFollows ==
  ASSUME Fields, NEW p, Chain(p), size # 0,
         NEW w, NEW last \in Nat, last >= 1, w[1] = head,
         last <= size \/ \A i \in 1 .. last - 1 : w[i] # tail,
         \A i \in 1 .. last - 1 : w[i] \in Allocated => w[i + 1] = heap[w[i]].next
  PROVE  /\ last <= size /\ \A i \in 1 .. last : w[i] = p[i]
         /\ w[last] \in Allocated /\ \A i \in 1 .. last - 1 : w[i] # w[last]
<1> DEFINE T == {i \in 1 .. last : i <= size /\ w[i] = p[i]}
<1>0. size \in Nat
  BY DEF Fields
<1>1. 1 \in T
  BY <1>0, ChainFacts
<1>2. ASSUME NEW i \in 1 .. last - 1, i \in T PROVE i + 1 \in T
  <2>1. i <= size /\ w[i] = p[i]
    BY <1>2
  <2>2. i # size
    BY <1>0, <2>1, ChainFacts
  <2>3. i \in 1 .. size - 1 /\ p[i] \in Allocated
    BY <1>0, <2>1, <2>2, ChainFacts
  <2>4. w[i + 1] = p[i + 1]
    BY <2>1, <2>3, ChainFacts
  <2> QED
    BY <1>0, <2>3, <2>4
<1>3. \A i \in 1 .. last : i \in T
  <2> HIDE DEF T
  <2> QED
    BY <1>1, <1>2, WalkInduction
<1>4. last <= size /\ \A i \in 1 .. last : w[i] = p[i]
  BY <1>3
<1> QED
  BY <1>0, <1>4, ChainFacts

(* Two chains are the same: the list has one order.                        *)
LEMMA ChainUnique ==
  ASSUME Fields, NEW p, Chain(p), NEW q \in [1 .. size -> Addr], IsChain(q)
  PROVE  q = p
<1>0. size \in Nat /\ p \in [1 .. size -> Addr]
  BY DEF Fields, Chain
<1>1. CASE size = 0
  BY <1>0, <1>1
<1>2. CASE size # 0
  <2>1. q[1] = head /\ q[size] = tail
    BY <1>0, <1>2 DEF IsChain
  <2>2. \A i \in 1 .. size - 1 : q[i + 1] = heap[q[i]].next /\ q[i] # tail
    BY <1>0, <2>1 DEF IsChain
  <2>3. size >= 1
    BY <1>0, <1>2
  <2>4. \A i \in 1 .. size : q[i] = p[i]
    <3>1. PICK last \in Nat : last = size /\ last >= 1 /\ last <= size
      BY <1>0, <2>3
    <3>2. \A i \in 1 .. last - 1 : q[i] \in Allocated => q[i + 1] = heap[q[i]].next
      BY <2>2, <3>1
    <3>3. \A i \in 1 .. last : q[i] = p[i]
      BY <1>2, <2>1, <3>1, <3>2, WalkFollows
    <3> QED
      BY <3>1, <3>3
  <2> QED
    BY <1>0, <2>4
<1> QED
  BY <1>1, <1>2

(* The numbers stored are those of the nodes of the chain.                 *)
Listed(p) ==
  /\ Contents = Numbers(p)
  /\ Numbers(p) \in Seq(Number)
  /\ Len(Numbers(p)) = size
  /\ \A i \in 1 .. size : Numbers(p)[i] = heap[p[i]].seq

(* The chain is what Contents lists, so that there is one chain only.      *)
LEMMA ContentsOfChain == Fields => \A p : Chain(p) => Listed(p)
<1> SUFFICES ASSUME Fields, NEW p, Chain(p) PROVE Listed(p)
  OBVIOUS
<1>1. p \in [1 .. size -> Addr] /\ IsChain(p) /\ size \in Nat
  BY DEF Chain, Fields
<1>2. (CHOOSE q \in [1 .. size -> Addr] : IsChain(q)) = p
  BY <1>1, ChainUnique
<1>3. Contents = Numbers(p)
  BY <1>2 DEF Contents, Fields
<1>4. \A i \in 1 .. size : heap[p[i]].seq \in Number
  BY ChainFacts DEF Fields, Node
<1>5. Numbers(p) \in [1 .. size -> Number]
  BY <1>1, <1>4 DEF Numbers
<1>6. Numbers(p) \in Seq(Number)
  BY <1>1, <1>5, SeqDef
<1>7. Len(Numbers(p)) = size
  BY <1>1, <1>5, <1>6, LenProperties
<1> QED
  BY <1>1, <1>3, <1>6, <1>7 DEF Numbers, Listed

(* No list is longer than there are addresses.                             *)
LEMMA SizeBound ==
  ASSUME Fields, NEW p, Chain(p)
  PROVE  size <= MaxSize /\ MaxSize \in Nat /\ Allocated \subseteq Addr
<1>1. size \in Nat /\ p \in [1 .. size -> Addr]
  BY DEF Fields, Chain
<1>2. p \in Injection(1 .. size, Addr)
  BY <1>1, ChainFacts DEF Injection, IsInjective
<1>3. IsFiniteSet(Addr)
  BY ListAssumption
<1>4. Cardinality(1 .. size) <= Cardinality(Addr)
  BY <1>2, <1>3, FS_Injection
<1>5. Cardinality(1 .. size) = size
  BY <1>1, FS_Interval
<1>6. MaxSize \in Nat
  BY <1>3, FS_CardinalityType DEF MaxSize
<1> QED
  BY <1>1, <1>4, <1>5, <1>6, ChainFacts DEF MaxSize, Chain

(* What every state of the program satisfies, from the invariant.          *)
LEMMA ListInvTypes == ListInv => TypeOK /\ NoStray /\ Shape
<1> SUFFICES ASSUME ListInv PROVE TypeOK /\ NoStray /\ Shape
  OBVIOUS
<1>1. PICK p : Chain(p)
  BY DEF ListInv
<1>2. Fields
  BY DEF ListInv
<1>3. size <= MaxSize /\ MaxSize \in Nat /\ Allocated \subseteq Addr
  BY <1>1, <1>2, SizeBound
<1>4. TypeOK
  <2>1. stray \in BOOLEAN /\ deleted \in BOOLEAN
    BY <1>2 DEF Fields
  <2>2. size \in 0 .. MaxSize
    BY <1>2, <1>3 DEF Fields
  <2> QED
    BY <1>2, <1>3, <2>1, <2>2 DEF TypeOK, Fields
<1> QED
  BY <1>1, <1>2, <1>4 DEF Shape, Chain, NoStray, Fields

(* The same facts in the next state.                                       *)
LEMMA ListInvTypesAfter == (ListInv => TypeOK /\ NoStray /\ Shape)'
BY ListInvTypes, PTL

(* The numbers after a step: the same of the next state.                   *)
LEMMA ContentsAfter == (Fields => \A p : Chain(p) => Listed(p))'
BY ContentsOfChain, PTL

(* A node keeps its number when its next is set.                           *)
LEMMA NodeFields ==
  ASSUME NEW node \in Node
  PROVE  /\ node.seq \in Number /\ node.next \in Pointer
         /\ \A n \in Pointer : LET set == [node EXCEPT !.next = n]
                              IN  set \in Node /\ set.seq = node.seq /\ set.next = n
BY DEF Node

-----------------------------------------------------------------------------
(* What an operation does to the memory when a node n enters the list at   *)
(* place k: the one before it points to it and it to the one after; and    *)
(* when the node at place k leaves: the one before it points to the one    *)
(* after it, unless it was the last one, whose field next nothing reads.   *)
Enters(p, k, n, number) ==
  /\ k \in 1 .. size + 1 /\ n \in Addr /\ number \in Number
  /\ size' = size + 1
  /\ n \notin Allocated /\ Allocated' = Allocated \cup {n}
  /\ heap'[n].seq = number
  /\ \A i \in 1 .. size : heap'[p[i]].seq = heap[p[i]].seq
  /\ k <= size => heap'[n].next = p[k]
  /\ k > 1 => heap'[p[k - 1]].next = n
  /\ \A i \in 1 .. size - 1 : i # k - 1 => heap'[p[i]].next = heap[p[i]].next
  /\ head' = IF k = 1 THEN n ELSE head
  /\ tail' = IF k = size + 1 THEN n ELSE tail

Leaves(p, k) ==
  /\ k \in 1 .. size
  /\ size' = size - 1
  /\ Allocated' = Allocated \ {p[k]}
  /\ \A a \in Allocated' : heap'[a].seq = heap[a].seq
  /\ k > 1 /\ k < size => heap'[p[k - 1]].next = p[k + 1]
  /\ \A i \in 1 .. size - 1 : i # k - 1 /\ i # k => heap'[p[i]].next = heap[p[i]].next
  /\ size > 1 => head' = (IF k = 1 THEN p[2] ELSE head)
  /\ size > 1 => tail' = (IF k = size THEN p[size - 1] ELSE tail)

(* The list has the number of a node that enters it at that place.         *)
LEMMA InsertedChain ==
  ASSUME Fields, Fields', NEW p, Chain(p), NEW k, NEW n, NEW number, Enters(p, k, n, number)
  PROVE  \E q : Chain(q)' /\ Numbers(q)' = InsertAt(Numbers(p), k, number)
<1> USE DEF Enters
<1>0. /\ size \in Nat /\ p \in [1 .. size -> Addr]
      /\ \A i \in 1 .. size : p[i] \in Allocated
  BY ChainFacts DEF Fields, Chain
<1> PICK q : q = [i \in 1 .. size + 1 |->
                    IF i < k THEN p[i] ELSE IF i = k THEN n ELSE p[i - 1]]
  OBVIOUS
<1>1. /\ \A i \in 1 .. k - 1 : i \in 1 .. size /\ q[i] = p[i]
      /\ q[k] = n
      /\ \A i \in k .. size : i \in 1 .. size /\ q[i + 1] = p[i]
  BY <1>0
<1>2. q \in [1 .. size' -> Addr]
  BY <1>0
<1>3. \A i \in 1 .. size' : i \in 1 .. k - 1 \/ i = k \/ i - 1 \in k .. size
  BY <1>0
<1>4. Allocated' = {q[i] : i \in 1 .. size'}
  <2>1. ASSUME NEW a \in Allocated' PROVE \E i \in 1 .. size' : q[i] = a
    <3>1. CASE a = n
      BY <1>0, <1>1, <3>1
    <3>2. CASE a # n
      <4>1. PICK i \in 1 .. size : p[i] = a
        BY <3>2, ChainFacts
      <4>2. CASE i < k
        <5>1. i \in 1 .. k - 1 /\ i \in 1 .. size'
          BY <1>0, <4>2
        <5> QED
          BY <1>1, <4>1, <5>1
      <4>3. CASE i >= k
        <5>1. i \in k .. size /\ i + 1 \in 1 .. size'
          BY <1>0, <4>3
        <5> QED
          BY <1>1, <4>1, <5>1
      <4> QED
        BY <1>0, <4>2, <4>3
    <3> QED
      BY <3>1, <3>2
  <2>2. ASSUME NEW i \in 1 .. size' PROVE q[i] \in Allocated'
    <3>1. CASE i = k
      BY <1>1, <3>1
    <3>2. CASE i \in 1 .. k - 1
      BY <1>0, <1>1, <3>2
    <3>3. CASE i - 1 \in k .. size
      <4>1. q[i] = p[i - 1] /\ i - 1 \in 1 .. size
        BY <1>0, <3>3
      <4> QED
        BY <1>0, <4>1
    <3> QED
      BY <1>3, <3>1, <3>2, <3>3
  <2> QED
    BY <2>1, <2>2
<1>5. q[1] = head' /\ q[size'] = tail'
  <2>1. q[1] = head'
    BY <1>0, <1>1, ChainFacts
  <2>2. CASE k = size + 1
    BY <1>1, <2>1, <2>2
  <2>3. CASE k # size + 1
    <3>1. size \in k .. size /\ size > 0
      BY <1>0, <2>3
    <3> QED
      BY <1>0, <1>1, <2>3, <3>1, ChainFacts
  <2> QED
    BY <2>1, <2>2, <2>3
<1>6. ASSUME NEW i \in 1 .. size' - 1
      PROVE  q[i] \in Allocated' /\ heap'[q[i]].next = q[i + 1]
  <2>1. i \in 1 .. size /\ i \in 1 .. size'
    BY <1>0
  <2>2. q[i] \in Allocated'
    BY <1>4, <2>1
  <2>3. CASE i < k - 1
    <3>1. /\ i \in 1 .. size - 1 /\ i # k - 1
          /\ i \in 1 .. k - 1 /\ i + 1 \in 1 .. k - 1
      BY <1>0, <2>3
    <3> QED
      BY <1>1, <2>2, <3>1, ChainFacts
  <2>4. CASE i = k - 1
    <3>1. k > 1 /\ i \in 1 .. k - 1 /\ i + 1 = k
      BY <1>0, <2>4
    <3> QED
      BY <1>1, <2>2, <2>4, <3>1
  <2>5. CASE i = k
    <3>1. k <= size /\ k \in k .. size
      BY <1>0, <2>1, <2>5
    <3> QED
      BY <1>1, <2>2, <2>5, <3>1
  <2>6. CASE i > k
    <3>1. /\ i - 1 \in 1 .. size - 1 /\ i - 1 # k - 1
          /\ i - 1 \in k .. size /\ i \in k .. size /\ (i - 1) + 1 = i
      BY <1>0, <2>1, <2>6
    <3>2. q[i] = p[i - 1] /\ q[i + 1] = p[i]
      BY <1>1, <3>1
    <3>3. heap'[p[i - 1]].next = p[i]
      BY <3>1, ChainFacts
    <3> QED
      BY <2>2, <3>2, <3>3
  <2> QED
    BY <1>0, <2>3, <2>4, <2>5, <2>6
<1>7. ASSUME NEW i \in 1 .. size', NEW j \in 1 .. size', i # j PROVE q[i] # q[j]
  <2> DEFINE At(m) == IF m < k THEN m ELSE m - 1
  <2>1. ASSUME NEW m \in 1 .. size', m # k PROVE q[m] = p[At(m)] /\ At(m) \in 1 .. size
    BY <1>0, <2>1
  <2>2. CASE i = k
    <3>1. q[i] = n /\ q[j] \in Allocated
      BY <1>0, <1>1, <1>7, <2>1, <2>2
    <3> QED
      BY <3>1
  <2>3. CASE j = k
    <3>1. q[j] = n /\ q[i] \in Allocated
      BY <1>0, <1>1, <1>7, <2>1, <2>3
    <3> QED
      BY <3>1
  <2>4. CASE i # k /\ j # k
    <3>1. At(i) # At(j)
      BY <1>0, <1>7, <2>4
    <3> QED
      BY <2>1, <2>4, <3>1, ChainFacts
  <2> QED
    BY <2>2, <2>3, <2>4
<1>8. Chain(q)'
  BY <1>2, <1>4, <1>5, <1>6, <1>7 DEF Chain, IsChain
<1>a. size' = size + 1 /\ k \in 1 .. size + 1 /\ heap'[n].seq = number
      /\ (\A i \in 1 .. size : heap'[p[i]].seq = heap[p[i]].seq) /\ number \in Number
  OBVIOUS
<1> HIDE DEF Enters
<1>9. Listed(p) /\ Listed(q)'
  BY <1>8, ContentsOfChain, ContentsAfter
<1>10. Inserted(Numbers(p), Numbers(q)', k, number)
  <2> PICK s, u : s = Numbers(p) /\ u = Numbers(q)'
    OBVIOUS
  <2>1. /\ Len(s) = size /\ \A i \in 1 .. size : s[i] = heap[p[i]].seq
        /\ Len(u) = size + 1 /\ \A i \in 1 .. size + 1 : u[i] = heap'[q[i]].seq
    BY <1>9, <1>a DEF Listed
  <2>2. ASSUME NEW i \in 1 .. k - 1 PROVE u[i] = s[i]
    <3>1. q[i] = p[i] /\ i \in 1 .. size /\ i \in 1 .. size + 1
      BY <1>0, <1>1, <1>a
    <3>2. u[i] = heap'[q[i]].seq
      BY <2>1, <3>1
    <3> QED
      BY <1>a, <2>1, <3>1, <3>2
  <2>3. ASSUME NEW i \in k .. size PROVE u[i + 1] = s[i]
    <3>1. q[i + 1] = p[i] /\ i \in 1 .. size /\ i + 1 \in 1 .. size + 1
      BY <1>0, <1>1, <1>a
    <3>2. u[i + 1] = heap'[q[i + 1]].seq /\ s[i] = heap[p[i]].seq
      BY <2>1, <3>1
    <3>3. heap'[p[i]].seq = heap[p[i]].seq
      BY <1>a, <3>1
    <3> QED
      BY <3>1, <3>2, <3>3
  <2>4. u[k] = number
    BY <1>1, <1>a, <2>1
  <2>5. Inserted(s, u, k, number)
    BY <1>a, <2>1, <2>2, <2>3, <2>4 DEF Inserted
  <2> QED
    BY <2>5
<1>11. Numbers(q)' = InsertAt(Numbers(p), k, number)
  BY <1>9, <1>10, <1>a, IsInsertAt DEF Listed
<1> QED
  BY <1>8, <1>11

(* The list loses the number of a node that leaves it, and no other.       *)
LEMMA RemovedChain ==
  ASSUME Fields, Fields', NEW p, Chain(p), NEW k, Leaves(p, k)
  PROVE  \E q : Chain(q)' /\ Numbers(q)' = RemoveAt(Numbers(p), k)
<1> USE DEF Leaves
<1>0. /\ size \in Nat /\ p \in [1 .. size -> Addr]
      /\ \A i \in 1 .. size : p[i] \in Allocated
      /\ \A i, j \in 1 .. size : p[i] = p[j] => i = j
  BY ChainFacts DEF Fields, Chain
<1> PICK q : q = [i \in 1 .. size - 1 |-> IF i < k THEN p[i] ELSE p[i + 1]]
  OBVIOUS
<1>1. /\ \A i \in 1 .. k - 1 : i \in 1 .. size /\ i \in 1 .. size' /\ q[i] = p[i]
      /\ \A i \in k .. size' : i + 1 \in 1 .. size /\ i \in 1 .. size' /\ q[i] = p[i + 1]
      /\ \A i \in 1 .. size' : i \in 1 .. k - 1 \/ i \in k .. size'
  BY <1>0
<1>2. q \in [1 .. size' -> Addr]
  BY <1>0
<1>3. ASSUME NEW i \in 1 .. size' PROVE q[i] \in Allocated'
  <2>1. CASE i \in 1 .. k - 1
    BY <1>0, <1>1, <2>1
  <2>2. CASE i \in k .. size'
    <3>1. i + 1 \in 1 .. size /\ i + 1 # k /\ q[i] = p[i + 1]
      BY <1>0, <1>1, <2>2
    <3> QED
      BY <1>0, <3>1
  <2> QED
    BY <1>1, <2>1, <2>2
<1>4. Allocated' = {q[i] : i \in 1 .. size'}
  <2>1. ASSUME NEW a \in Allocated' PROVE \E i \in 1 .. size' : q[i] = a
    <3>1. PICK i \in 1 .. size : p[i] = a
      BY ChainFacts
    <3>2. i # k
      BY <3>1
    <3>3. CASE i < k
      <4>1. i \in 1 .. k - 1
        BY <1>0, <3>3
      <4> QED
        BY <1>1, <3>1, <4>1
    <3>4. CASE i > k
      <4>1. i - 1 \in k .. size' /\ (i - 1) + 1 = i
        BY <1>0, <3>4
      <4>2. q[i - 1] = p[i] /\ i - 1 \in 1 .. size'
        BY <1>1, <4>1
      <4> QED
        BY <3>1, <4>2
    <3> QED
      BY <1>0, <3>2, <3>3, <3>4
  <2> QED
    BY <1>3, <2>1
<1>5. size' > 0 => q[1] = head' /\ q[size'] = tail'
  <2> SUFFICES ASSUME size' > 0 PROVE q[1] = head' /\ q[size'] = tail'
    OBVIOUS
  <2>1. size > 1 /\ size > 0
    BY <1>0
  <2>a. p[1] = head /\ p[size] = tail
    BY <2>1, ChainFacts
  <2>2. CASE k = 1
    BY <1>0, <2>1, <2>a, <2>2
  <2>3. CASE k = size
    BY <1>0, <2>1, <2>a, <2>3
  <2>4. CASE k # 1 /\ k # size
    BY <1>0, <2>1, <2>a, <2>4
  <2> QED
    BY <2>2, <2>3, <2>4
<1>6. ASSUME NEW i \in 1 .. size' - 1
      PROVE  q[i] \in Allocated' /\ heap'[q[i]].next = q[i + 1]
  <2>1. i \in 1 .. size' /\ q[i] \in Allocated'
    BY <1>0, <1>3
  <2>2. CASE i < k - 1
    <3>1. /\ i \in 1 .. size - 1 /\ i # k - 1 /\ i # k
          /\ i \in 1 .. k - 1 /\ i + 1 \in 1 .. k - 1
      BY <1>0, <2>2
    <3> QED
      BY <1>1, <2>1, <3>1, ChainFacts
  <2>3. CASE i = k - 1
    <3>1. k > 1 /\ k < size /\ i \in 1 .. k - 1 /\ i + 1 = k /\ k \in k .. size'
      BY <1>0, <2>3
    <3>2. q[i] = p[k - 1] /\ q[i + 1] = p[k + 1]
      BY <1>1, <2>3, <3>1
    <3> QED
      BY <2>1, <3>1, <3>2
  <2>4. CASE i >= k
    <3>1. /\ i + 1 \in 1 .. size - 1 /\ i + 1 # k - 1 /\ i + 1 # k
          /\ i \in k .. size' /\ i + 1 \in k .. size'
      BY <1>0, <2>4
    <3>2. q[i] = p[i + 1] /\ q[i + 1] = p[(i + 1) + 1]
      BY <1>1, <3>1
    <3>3. heap'[p[i + 1]].next = p[(i + 1) + 1]
      BY <3>1, ChainFacts
    <3> QED
      BY <2>1, <3>2, <3>3
  <2> QED
    BY <1>0, <2>2, <2>3, <2>4
<1>7. ASSUME NEW i \in 1 .. size', NEW j \in 1 .. size', i # j PROVE q[i] # q[j]
  <2> DEFINE At(m) == IF m < k THEN m ELSE m + 1
  <2>1. ASSUME NEW m \in 1 .. size' PROVE q[m] = p[At(m)] /\ At(m) \in 1 .. size
    BY <1>0
  <2>2. At(i) # At(j)
    BY <1>0, <1>7
  <2> QED
    BY <1>0, <2>1, <2>2
<1>8. Chain(q)'
  BY <1>2, <1>4, <1>5, <1>6, <1>7 DEF Chain, IsChain
<1>9. Listed(p) /\ Listed(q)'
  BY <1>8, ContentsOfChain, ContentsAfter
<1>10. Removed(Numbers(p), Numbers(q)', k)
  <2> PICK s, u : s = Numbers(p) /\ u = Numbers(q)'
    OBVIOUS
  <2>1. /\ Len(s) = size /\ \A i \in 1 .. size : s[i] = heap[p[i]].seq
        /\ Len(u) = size' /\ \A i \in 1 .. size' : u[i] = heap'[q[i]].seq
    BY <1>9 DEF Listed
  <2>2. \A i \in 1 .. size' : u[i] = heap[q[i]].seq
    <3> SUFFICES ASSUME NEW i \in 1 .. size' PROVE u[i] = heap[q[i]].seq
      OBVIOUS
    <3>1. u[i] = heap'[q[i]].seq
      BY <2>1
    <3> QED
      BY <1>3, <3>1
  <2>3. ASSUME NEW i \in 1 .. k - 1 PROVE u[i] = s[i]
    <3>1. q[i] = p[i] /\ i \in 1 .. size' /\ i \in 1 .. size
      BY <1>1
    <3>2. u[i] = heap[q[i]].seq
      BY <2>2, <3>1
    <3> QED
      BY <2>1, <3>1, <3>2
  <2>4. ASSUME NEW i \in k .. size' PROVE u[i] = s[i + 1]
    <3>1. q[i] = p[i + 1] /\ i \in 1 .. size' /\ i + 1 \in 1 .. size
      BY <1>1
    <3>2. s[i + 1] = heap[p[i + 1]].seq
      BY <2>1, <3>1
    <3> QED
      BY <2>2, <3>1, <3>2
  <2>5. Removed(s, u, k)
    BY <2>1, <2>3, <2>4 DEF Removed
  <2> QED
    BY <2>5
<1>11. Numbers(q)' = RemoveAt(Numbers(p), k)
  BY <1>9, <1>10, IsRemoveAt DEF Listed
<1> QED
  BY <1>8, <1>11

-----------------------------------------------------------------------------
(* linkedList_add_pkt puts the number at the end, whatever malloc left in  *)
(* the new node and in the fields of an empty list.                        *)
LEMMA AddLastChain ==
  ASSUME Fields, NEW p, Chain(p), NEW number \in Number,
         linkedList_add_pkt(number), UNCHANGED deleted
  PROVE  /\ Fields' /\ answer' = Ok
         /\ \E q : Chain(q)' /\ Numbers(q)' = Append(Numbers(p), number)
<1>0. size \in Nat /\ p \in [1 .. size -> Addr] /\ head \in Pointer /\ tail \in Pointer
  BY DEF Fields, Chain
<1>1. PICK n \in Addr, garbage \in Pointer :
        /\ Fresh(n)
        /\ linkedList_add(With(heap, n, [seq |-> number, next |-> garbage]), n)
  BY DEF linkedList_add_pkt
<1> DEFINE mem == With(heap, n, [seq |-> number, next |-> garbage])
<1>2. size = 0 \/ tail \in Allocated
  BY <1>0, ChainFacts
<1>3. /\ heap' = IF size = 0 THEN mem ELSE SetNext(mem, tail, n)
      /\ head' = IF size = 0 THEN n ELSE head
      /\ tail' = n /\ size' = size + 1 /\ answer' = Ok /\ stray' = FALSE
  BY <1>1, <1>2 DEF linkedList_add, Uses, Fields
<1>4. /\ n \notin Allocated /\ Allocated' = Allocated \cup {n}
      /\ heap'[n] = [seq |-> number, next |-> garbage]
      /\ \A a \in Allocated :
           heap'[a] = IF size # 0 /\ a = tail THEN [heap[a] EXCEPT !.next = n] ELSE heap[a]
  BY <1>1, <1>2, <1>3 DEF Fresh, With, SetNext, Allocated
<1>5. /\ heap'[n] \in Node /\ heap'[n].seq = number
      /\ \A a \in Allocated :
           /\ heap'[a] \in Node /\ heap'[a].seq = heap[a].seq
           /\ heap'[a].next = IF size # 0 /\ a = tail THEN n ELSE heap[a].next
  <2>1. n \in Pointer
    BY DEF Pointer
  <2>2. heap'[n] \in Node /\ heap'[n].seq = number
    BY <1>4 DEF Node
  <2>3. ASSUME NEW a \in Allocated
        PROVE  /\ heap'[a] \in Node /\ heap'[a].seq = heap[a].seq
               /\ heap'[a].next = IF size # 0 /\ a = tail THEN n ELSE heap[a].next
    <3>1. heap[a] \in Node
      BY DEF Fields
    <3>2. CASE size # 0 /\ a = tail
      <4>1. heap'[a] = [heap[a] EXCEPT !.next = n]
        BY <1>4, <3>2
      <4> QED
        BY <2>1, <3>1, <3>2, <4>1, NodeFields
    <3>3. CASE ~(size # 0 /\ a = tail)
      BY <1>4, <3>1, <3>3
    <3> QED
      BY <3>2, <3>3
  <2> QED
    BY <2>2, <2>3
<1>6. Fields'
  BY <1>0, <1>1, <1>3, <1>4, <1>5 DEF Fields, Pointer, Ok
<1>7. PICK k : k = size + 1
  OBVIOUS
<1>8. PICK q : Chain(q)' /\ Numbers(q)' = InsertAt(Numbers(p), k, number)
  <2>1. \A i \in 1 .. size : heap'[p[i]].seq = heap[p[i]].seq
    BY <1>5, ChainFacts
  <2>2. k > 1 => heap'[p[k - 1]].next = n
    <3>1. k > 1 => size # 0 /\ size > 0 /\ k - 1 = size
      BY <1>0, <1>7
    <3> QED
      BY <1>2, <1>5, <3>1, ChainFacts
  <2>3. \A i \in 1 .. size - 1 : heap'[p[i]].next = heap[p[i]].next
    <3>1. ASSUME NEW i \in 1 .. size - 1 PROVE heap'[p[i]].next = heap[p[i]].next
      <4>1. i \in 1 .. size
        BY <1>0
      <4> QED
        BY <1>5, <4>1, ChainFacts
    <3> QED
      BY <3>1
  <2>4. k \in 1 .. size + 1 /\ ~(k <= size) /\ (k = 1 <=> size = 0)
    BY <1>0, <1>7
  <2>5. Enters(p, k, n, number)
    BY <1>3, <1>4, <1>5, <1>7, <2>1, <2>2, <2>3, <2>4 DEF Enters
  <2> QED
    BY <1>6, <2>5, InsertedChain
<1>9. Numbers(p) \in Seq(Number) /\ Len(Numbers(p)) = size
  BY ContentsOfChain DEF Listed
<1>10. InsertAt(Numbers(p), k, number) = Append(Numbers(p), number)
  BY <1>7, <1>9, InsertAtEnds
<1> QED
  BY <1>3, <1>6, <1>8, <1>10

(* The list is left as it is.                                              *)
LEMMA SameChain ==
  ASSUME Fields, NEW p, Chain(p), answer' \in Seq(Int), deleted' \in BOOLEAN,
         UNCHANGED <<heap, head, tail, size, stray>>
  PROVE  Fields' /\ Chain(p)' /\ Numbers(p)' = Numbers(p)
BY DEF Fields, Chain, IsChain, Allocated, Numbers

(* linkedList_remove, and flush_file after it, take the first packet: the  *)
(* second one becomes the head, and head keeps a freed node of a list that *)
(* becomes empty.                                                          *)
LEMMA RemoveHeadChain ==
  ASSUME Fields, NEW p, Chain(p), NEW result \in Seq(Int), size # 0,
         linkedList_remove(result), UNCHANGED deleted
  PROVE  /\ Fields' /\ answer' = result
         /\ \E q : Chain(q)' /\ Numbers(q)' = Tail(Numbers(p))
<1>0. size \in Nat /\ size >= 1 /\ p \in [1 .. size -> Addr] /\ 1 \in 1 .. size
  BY DEF Fields, Chain
<1>1. p[1] = head /\ head \in Allocated /\ head \in Pointer /\ heap[head] \in Node
  <2>1. p[1] = head /\ p[1] \in Allocated
    BY <1>0, ChainFacts
  <2> QED
    BY <2>1 DEF Fields
<1>2. /\ heap' = Free({head})
      /\ head' = IF size = 1 THEN head ELSE heap[head].next
      /\ size' = size - 1 /\ answer' = result
      /\ tail' = tail /\ stray' = FALSE
  BY <1>1 DEF linkedList_remove, Uses, Smaller, Fields
<1>3. /\ Allocated' = Allocated \ {head}
      /\ \A a \in Allocated' : heap'[a] = heap[a]
  BY <1>2 DEF Free, Allocated
<1>4. Fields'
  <2>1. heap[head].next \in Pointer
    BY <1>1, NodeFields
  <2>2. head' \in Pointer /\ size' \in Nat
    BY <1>0, <1>1, <1>2, <2>1
  <2> QED
    BY <1>2, <1>3, <2>2 DEF Fields
<1>5. PICK q : Chain(q)' /\ Numbers(q)' = RemoveAt(Numbers(p), 1)
  <2>1. ASSUME NEW i \in 1 .. size - 1, i # 1 PROVE heap'[p[i]].next = heap[p[i]].next
    <3>1. i \in 1 .. size /\ p[i] \in Allocated /\ p[i] # p[1]
      BY <1>0, <2>1, ChainFacts
    <3> QED
      BY <1>1, <1>3, <3>1
  <2>2. size > 1 => head' = p[2] /\ size # 1
    <3>1. size > 1 => 1 \in 1 .. size - 1 /\ 1 + 1 = 2 /\ size # 1
      BY <1>0
    <3> QED
      BY <1>1, <1>2, <3>1, ChainFacts
  <2>3. \A a \in Allocated' : heap'[a].seq = heap[a].seq
    BY <1>3
  <2>4. /\ ~(1 > 1) /\ (size > 1 => tail' = (IF 1 = size THEN p[size - 1] ELSE tail))
        /\ Allocated' = Allocated \ {p[1]} /\ size' = size - 1
    BY <1>0, <1>1, <1>2, <1>3
  <2>5. Leaves(p, 1)
    BY <1>0, <2>1, <2>2, <2>3, <2>4 DEF Leaves
  <2> QED
    BY <1>4, <2>5, RemovedChain
<1>6. Numbers(p) \in Seq(Number) /\ Numbers(p) # <<>>
  <2>1. Numbers(p) \in Seq(Number) /\ Len(Numbers(p)) = size
    BY ContentsOfChain DEF Listed
  <2> QED
    BY <1>0, <2>1
<1>7. RemoveAt(Numbers(p), 1) = Tail(Numbers(p))
  BY <1>6, RemoveAtEnds
<1> QED
  BY <1>2, <1>4, <1>5, <1>7

(* linkedList_remove_end: its walk stops at the node before the tail.      *)
LEMMA RemoveEndChain ==
  ASSUME Fields, NEW p, Chain(p), size > 1, linkedList_remove_end, UNCHANGED deleted
  PROVE  /\ Fields' /\ answer' = Ok
         /\ \E q : Chain(q)' /\ Numbers(q)' = Front(Numbers(p))
<1>0. size \in Nat /\ size \in 1 .. size /\ ~(size <= 1) /\ size # 0
  BY DEF Fields
<1>1. PICK w \in Walks :
        /\ w[1] = head
        /\ \A i \in 1 .. Len(w) - 1 :
             w[i] \in Allocated /\ heap[w[i]].next # tail /\ w[i + 1] = heap[w[i]].next
        /\ w[Len(w)] \in Allocated =>
             heap[w[Len(w)]].next = tail \/ \E i \in 1 .. Len(w) - 1 : w[i] = w[Len(w)]
        /\ Uses((w[Len(w)] \in Allocated /\ heap[w[Len(w)]].next = tail) /\ tail \in Allocated,
                /\ heap' = Free({tail})
                /\ tail' = w[Len(w)]
                /\ size' = size - 1
                /\ answer' = Ok
                /\ UNCHANGED head)
  BY <1>0 DEF linkedList_remove_end, Walk, Ends, NewTail, Smaller
<1>2. PICK last \in Nat : last = Len(w) /\ last >= 1
  BY WalkType
<1>3. p[1] = head /\ p[size] = tail /\ p[size] \in Allocated /\ p[1] # p[size]
  BY <1>0, ChainFacts
<1>4. ASSUME NEW i \in 1 .. last - 1 PROVE w[i] # tail
  <2>1. CASE i = 1
    BY <1>1, <1>3, <2>1
  <2>2. CASE i # 1
    <3>1. i - 1 \in 1 .. last - 1 /\ (i - 1) + 1 = i
      BY <1>2, <2>2
    <3> QED
      BY <1>1, <1>2, <3>1
  <2> QED
    BY <2>1, <2>2
<1>5. /\ last <= size /\ \A i \in 1 .. last : w[i] = p[i]
      /\ w[last] \in Allocated /\ \A i \in 1 .. last - 1 : w[i] # w[last]
  <2>1. /\ w[1] = head
        /\ \A i \in 1 .. last - 1 : w[i] \in Allocated => w[i + 1] = heap[w[i]].next
    BY <1>1, <1>2
  <2> QED
    BY <1>0, <1>2, <1>4, <2>1, WalkFollows
<1>6. heap[w[last]].next = tail
  BY <1>1, <1>2, <1>5
<1>7. last = size - 1
  <2>1. CASE last = size
    <3>1. size - 1 \in 1 .. last - 1 /\ size - 1 \in 1 .. last /\ size - 1 \in 1 .. size - 1
          /\ (size - 1) + 1 = size
      BY <1>0, <2>1
    <3>2. heap[p[size - 1]].next = p[size]
      BY <3>1, ChainFacts
    <3>3. heap[w[size - 1]].next # tail /\ w[size - 1] = p[size - 1]
      BY <1>1, <1>2, <1>5, <3>1
    <3> QED
      BY <1>3, <3>2, <3>3
  <2>2. CASE last # size
    <3>1. last \in 1 .. size - 1 /\ last \in 1 .. last /\ last + 1 \in 1 .. size
      BY <1>0, <1>2, <1>5, <2>2
    <3>2. p[last + 1] = p[size]
      BY <1>3, <1>5, <1>6, <3>1, ChainFacts
    <3>3. last + 1 = size
      BY <1>0, <3>1, <3>2, ChainFacts
    <3> QED
      BY <1>0, <1>2, <3>3
  <2> QED
    BY <2>1, <2>2
<1>8. /\ heap' = Free({tail}) /\ tail' = p[size - 1] /\ size' = size - 1
      /\ answer' = Ok /\ head' = head /\ stray' = FALSE
  <2>1. last \in 1 .. last
    BY <1>2
  <2> QED
    BY <1>1, <1>2, <1>3, <1>5, <1>6, <1>7, <2>1 DEF Uses, Fields
<1>9. /\ Allocated' = Allocated \ {p[size]}
      /\ \A a \in Allocated' : heap'[a] = heap[a]
  BY <1>3, <1>8 DEF Free, Allocated
<1>10. size - 1 \in 1 .. size /\ size - 1 \in Nat
  BY <1>0
<1>11. Fields'
  <2>1. tail' \in Pointer
    BY <1>8, <1>10, ChainFacts DEF Pointer
  <2>2. \A a \in Allocated' : heap'[a] \in Node
    BY <1>9 DEF Fields
  <2>3. answer' \in Seq(Int) /\ size' \in Nat
    BY <1>8, <1>10 DEF Ok
  <2> QED
    BY <1>8, <2>1, <2>2, <2>3 DEF Fields
<1>12. Leaves(p, size)
  <2>1. ASSUME NEW i \in 1 .. size - 1, i # size PROVE heap'[p[i]].next = heap[p[i]].next
    <3>1. i \in 1 .. size /\ p[i] \in Allocated /\ p[i] # p[size]
      BY <1>0, <2>1, ChainFacts
    <3> QED
      BY <1>9, <3>1
  <2>2. ~(size < size) /\ size # 1
    BY <1>0
  <2> QED
    BY <1>0, <1>8, <1>9, <2>1, <2>2 DEF Leaves
<1>13. PICK q : Chain(q)' /\ Numbers(q)' = RemoveAt(Numbers(p), size)
  BY <1>11, <1>12, RemovedChain
<1>14. RemoveAt(Numbers(p), size) = Front(Numbers(p))
  <2>1. Numbers(p) \in Seq(Number) /\ Len(Numbers(p)) = size
    BY ContentsOfChain DEF Listed
  <2>2. Numbers(p) # <<>>
    BY <1>0, <2>1
  <2> QED
    BY <2>1, <2>2, RemoveAtEnds
<1> QED
  BY <1>8, <1>11, <1>13, <1>14

(* linkedList_remove_middle: previous and current are next to each other.  *)
LEMMA RemoveMiddleChain ==
  ASSUME Fields, NEW p, Chain(p), linkedList_remove_middle, UNCHANGED deleted
  PROVE  /\ Fields' /\ answer' = answer
         /\ \E q, k : k \in 2 .. size - 1 /\ Chain(q)'
                     /\ Numbers(q)' = RemoveAt(Numbers(p), k)
<1>0. size \in Nat
  BY DEF Fields
<1>1. PICK previous \in Allocated :
        /\ size > 2 /\ heap[previous].next \in Allocated
        /\ tail \notin {previous, heap[previous].next}
        /\ heap' = [a \in Allocated \ {heap[previous].next} |->
                      IF a = previous
                        THEN [heap[a] EXCEPT !.next = heap[heap[previous].next].next]
                        ELSE heap[a]]
        /\ size' = size - 1
  BY DEF linkedList_remove_middle, Smaller
<1>2. UNCHANGED <<head, tail, answer, stray>>
  BY DEF linkedList_remove_middle
<1>3. PICK j \in 1 .. size : p[j] = previous
  BY ChainFacts
<1>4. p[size] = tail /\ size \in 1 .. size
  BY <1>0, <1>1, ChainFacts
<1>5. j \in 1 .. size - 1 /\ j + 1 \in 1 .. size
  BY <1>0, <1>1, <1>3, <1>4
<1>6. p[j + 1] = heap[previous].next
  BY <1>3, <1>5, ChainFacts
<1>7. PICK k : k = j + 1
  OBVIOUS
<1>8. k \in 2 .. size - 1 /\ k \in 1 .. size - 1 /\ k - 1 = j /\ k \in 1 .. size
  <2>1. k # size
    BY <1>1, <1>4, <1>6, <1>7
  <2> QED
    BY <1>0, <1>5, <1>7, <2>1
<1>9. /\ Allocated' = Allocated \ {p[k]} /\ p[j] \in Allocated'
      /\ heap'[p[j]] = [heap[p[j]] EXCEPT !.next = heap[p[k]].next]
      /\ \A a \in Allocated' : a # p[j] => heap'[a] = heap[a]
  <2>1. p[j] # p[k]
    BY <1>0, <1>5, <1>7, ChainFacts
  <2> QED
    BY <1>1, <1>3, <1>6, <1>7, <2>1 DEF Allocated
<1>10. heap[p[k]].next = p[k + 1] /\ p[k + 1] \in Pointer /\ heap[p[j]] \in Node
  <2>1. k + 1 \in 1 .. size
    BY <1>0, <1>8
  <2> QED
    BY <1>3, <1>8, <2>1, ChainFacts DEF Fields, Pointer
<1>11. /\ heap'[p[j]] \in Node /\ heap'[p[j]].seq = heap[p[j]].seq
       /\ heap'[p[j]].next = p[k + 1]
  BY <1>9, <1>10, NodeFields
<1>12. Fields'
  <2>1. \A a \in Allocated' : heap'[a] \in Node
    BY <1>9, <1>11 DEF Fields
  <2>2. size' \in Nat
    BY <1>0, <1>1
  <2> QED
    BY <1>2, <2>1, <2>2 DEF Fields
<1>13. Leaves(p, k)
  <2>1. \A a \in Allocated' : heap'[a].seq = heap[a].seq
    BY <1>9, <1>11
  <2>2. ASSUME NEW i \in 1 .. size - 1, i # k - 1, i # k
        PROVE  heap'[p[i]].next = heap[p[i]].next
    <3>1. i \in 1 .. size /\ p[i] \in Allocated /\ p[i] # p[k] /\ p[i] # p[j]
      BY <1>0, <1>8, <2>2, ChainFacts
    <3> QED
      BY <1>9, <3>1
  <2>3. k # 1 /\ k # size
    BY <1>0, <1>8
  <2> QED
    BY <1>1, <1>2, <1>8, <1>9, <1>11, <2>1, <2>2, <2>3 DEF Leaves
<1>14. \E q : Chain(q)' /\ Numbers(q)' = RemoveAt(Numbers(p), k)
  BY <1>12, <1>13, RemovedChain
<1> QED
  BY <1>2, <1>8, <1>12, <1>14

(* linkedList_add_increasing, when a packet of the list is greater: the    *)
(* walk has stopped at the first such packet, at place k.                  *)
Before(w, n, number) ==
  LET mem == IF Len(w) = 1 THEN heap ELSE SetNext(heap, w[Len(w) - 1], n)
  IN  /\ heap' = With(mem, n, [seq |-> number, next |-> w[Len(w)]])
      /\ head' = NewHead(w, n)
      /\ size' = size + 1
      /\ answer' = Ok
      /\ UNCHANGED <<tail, stray>>

(* A node put before the k-th of the chain (read_write_receiver.c:230).    *)
LEMMA BeforeChain ==
  ASSUME Fields, NEW p, Chain(p), NEW number \in Number, NEW n \in Addr,
         NEW w, NEW k \in 1 .. size, Len(w) = k, \A i \in 1 .. k : w[i] = p[i],
         Fresh(n), Before(w, n, number), UNCHANGED deleted
  PROVE  /\ Fields' /\ answer' = Ok
         /\ \E q : Chain(q)' /\ Numbers(q)' = InsertAt(Numbers(p), k, number)
<1>0. /\ size \in Nat /\ k \in 1 .. size + 1 /\ k <= size /\ k # size + 1
      /\ k \in 1 .. k /\ p[k] \in Allocated /\ p[k] \in Addr
      /\ \A i \in 1 .. size : p[i] \in Allocated
  <2>1. size \in Nat
    BY DEF Fields
  <2>2. p[k] \in Allocated /\ p[k] \in Addr /\ \A i \in 1 .. size : p[i] \in Allocated
    BY ChainFacts
  <2> QED
    BY <2>1, <2>2
<1>1. k # 1 => k - 1 \in 1 .. k /\ k - 1 \in 1 .. size /\ k - 1 \in 1 .. size - 1
  BY <1>0
<1> DEFINE mem == IF k = 1 THEN heap ELSE SetNext(heap, p[k - 1], n)
<1>2. /\ heap' = With(mem, n, [seq |-> number, next |-> p[k]])
      /\ head' = IF k = 1 THEN n ELSE head
      /\ size' = size + 1 /\ answer' = Ok /\ tail' = tail /\ stray' = FALSE
  BY <1>0, <1>1 DEF Before, NewHead, Fields
<1>3. /\ n \notin Allocated /\ Allocated' = Allocated \cup {n}
      /\ heap'[n] = [seq |-> number, next |-> p[k]]
      /\ \A a \in Allocated :
           heap'[a] = IF k # 1 /\ a = p[k - 1] THEN [heap[a] EXCEPT !.next = n] ELSE heap[a]
  BY <1>0, <1>1, <1>2 DEF Fresh, With, SetNext, Allocated
<1>4. heap'[n] \in Node /\ heap'[n].seq = number /\ heap'[n].next = p[k]
  BY <1>0, <1>3 DEF Node, Pointer
<1>5. ASSUME NEW a \in Allocated
      PROVE  /\ heap'[a] \in Node /\ heap'[a].seq = heap[a].seq
             /\ heap'[a].next = IF k # 1 /\ a = p[k - 1] THEN n ELSE heap[a].next
  <2>1. heap[a] \in Node /\ n \in Pointer
    BY DEF Fields, Pointer
  <2>2. CASE k # 1 /\ a = p[k - 1]
    <3>1. heap'[a] = [heap[a] EXCEPT !.next = n]
      BY <1>3, <2>2
    <3> QED
      BY <2>1, <2>2, <3>1, NodeFields
  <2>3. CASE ~(k # 1 /\ a = p[k - 1])
    BY <1>3, <2>1, <2>3
  <2> QED
    BY <2>2, <2>3
<1>6. Fields'
  <2>1. \A a \in Allocated' : heap'[a] \in Node
    BY <1>3, <1>4, <1>5
  <2>2. head' \in Pointer /\ tail' \in Pointer /\ size' \in Nat /\ answer' \in Seq(Int)
    BY <1>0, <1>2 DEF Fields, Pointer, Ok
  <2> QED
    BY <1>2, <2>1, <2>2 DEF Fields
<1>7. Enters(p, k, n, number)
  <2>1. \A i \in 1 .. size : heap'[p[i]].seq = heap[p[i]].seq
    BY <1>0, <1>5
  <2>2. k > 1 => heap'[p[k - 1]].next = n
    BY <1>0, <1>1, <1>5
  <2>3. ASSUME NEW i \in 1 .. size - 1, i # k - 1 PROVE heap'[p[i]].next = heap[p[i]].next
    <3>1. i \in 1 .. size /\ p[i] \in Allocated /\ ~(k # 1 /\ p[i] = p[k - 1])
      BY <1>0, <1>1, <2>3, ChainFacts
    <3> QED
      BY <1>5, <3>1
  <2> QED
    BY <1>0, <1>2, <1>3, <1>4, <2>1, <2>2, <2>3 DEF Enters
<1>8. \E q : Chain(q)' /\ Numbers(q)' = InsertAt(Numbers(p), k, number)
  BY <1>6, <1>7, InsertedChain
<1> QED
  BY <1>2, <1>6, <1>8

(* A walk to the tail meets the whole list.                                *)
LEMMA WalkReadsAll ==
  ASSUME Fields, NEW p, Chain(p), walk, UNCHANGED deleted
  PROVE  /\ size # 0 /\ answer' = Numbers(p)
         /\ UNCHANGED <<heap, head, tail, size, stray>>
<1>0. size \in Nat /\ size # 0 /\ p \in [1 .. size -> Addr]
  BY DEF Fields, walk, Chain
<1>1. PICK w \in Walks :
        /\ w[1] = head
        /\ \A i \in 1 .. Len(w) - 1 :
             w[i] \in Allocated /\ w[i] # tail /\ w[i + 1] = heap[w[i]].next
        /\ w[Len(w)] \in Allocated =>
             w[Len(w)] = tail \/ \E i \in 1 .. Len(w) - 1 : w[i] = w[Len(w)]
        /\ Uses(w[Len(w)] \in Allocated /\ w[Len(w)] = tail,
                answer' = Numbers(w) /\ UNCHANGED <<heap, head, tail, size>>)
  BY DEF walk, Walk, Ends
<1>2. PICK last \in Nat : last = Len(w) /\ last >= 1 /\ w \in Seq(Pointer)
  BY WalkType
<1>3. /\ last <= size /\ \A i \in 1 .. last : w[i] = p[i]
      /\ w[last] \in Allocated /\ \A i \in 1 .. last - 1 : w[i] # w[last]
  <2>1. /\ w[1] = head /\ \A i \in 1 .. last - 1 : w[i] # tail
        /\ \A i \in 1 .. last - 1 : w[i] \in Allocated => w[i + 1] = heap[w[i]].next
    BY <1>1, <1>2
  <2> QED
    BY <1>0, <1>2, <2>1, WalkFollows
<1>4. w[last] = tail
  BY <1>1, <1>2, <1>3
<1>5. answer' = Numbers(w) /\ UNCHANGED <<heap, head, tail, size, stray>>
  BY <1>1, <1>2, <1>3, <1>4 DEF Uses
<1>6. last = size
  <2>1. last \in 1 .. last /\ p[size] = tail /\ size \in 1 .. size /\ last \in 1 .. size
    BY <1>0, <1>2, <1>3, ChainFacts
  <2> QED
    BY <1>3, <1>4, <2>1, ChainFacts
<1>7. w = p
  <2>1. w \in [1 .. size -> Pointer]
    BY <1>2, <1>6, LenProperties
  <2> QED
    BY <1>0, <1>3, <1>6, <2>1
<1> QED
  BY <1>0, <1>5, <1>7

(* linkedList_del frees every node, each once.                             *)
LEMMA DeleteChain ==
  ASSUME Fields, NEW p, Chain(p), linkedList_del
  PROVE  /\ Fields' /\ answer' = Ok /\ deleted' = TRUE
         /\ \E q : Chain(q)' /\ Numbers(q)' = <<>>
<1>0. size \in Nat /\ p \in [1 .. size -> Addr]
  BY DEF Fields, Chain
<1>1. /\ Allocated' = {} /\ size' = 0 /\ answer' = Ok
      /\ UNCHANGED <<head, tail, stray>>
  <2>1. CASE size = 0
    <3>1. Allocated = {}
      BY <2>1 DEF Chain
    <3> QED
      BY <2>1, <3>1 DEF linkedList_del, Allocated
  <2>2. CASE size # 0
    <3>1. PICK w \in [1 .. size -> Pointer] :
            /\ w[1] = head
            /\ \A i \in 1 .. size - 1 : w[i] \in Allocated => w[i + 1] = heap[w[i]].next
            /\ Uses(/\ \A i \in 1 .. size : w[i] \in Allocated
                    /\ \A i, j \in 1 .. size : i # j => w[i] # w[j],
                    /\ heap' = Free({w[i] : i \in 1 .. size})
                    /\ size' = 0
                    /\ answer' = Ok
                    /\ UNCHANGED <<head, tail>>)
      BY <2>2 DEF linkedList_del
    <3>2. size >= 1 /\ size <= size
      BY <1>0, <2>2
    <3>3. \A i \in 1 .. size : w[i] = p[i]
      BY <1>0, <2>2, <3>1, <3>2, WalkFollows
    <3>4. /\ \A i \in 1 .. size : w[i] \in Allocated
          /\ \A i, j \in 1 .. size : i # j => w[i] # w[j]
      BY <3>3, ChainFacts
    <3>5. /\ heap' = Free({w[i] : i \in 1 .. size})
          /\ size' = 0 /\ answer' = Ok /\ UNCHANGED <<head, tail, stray>>
      BY <3>1, <3>4 DEF Uses
    <3>6. Allocated = {w[i] : i \in 1 .. size}
      BY <3>3 DEF Chain
    <3>7. Allocated' = {}
      BY <3>5, <3>6 DEF Free, Allocated
    <3> QED
      BY <3>5, <3>7
  <2> QED
    BY <2>1, <2>2
<1>2. deleted' = TRUE
  BY DEF linkedList_del
<1>3. Fields'
  BY <1>1, <1>2 DEF Fields, Ok
<1> PICK q : q = [i \in 1 .. 0 |-> head]
  OBVIOUS
<1>4. Chain(q)'
  <2>1. q \in [1 .. size' -> Addr] /\ Allocated' = {q[i] : i \in 1 .. size'}
    BY <1>1
  <2>2. IsChain(q)'
    BY <1>1 DEF IsChain
  <2> QED
    BY <2>1, <2>2 DEF Chain
<1>5. Numbers(q)' \in Seq(Number) /\ Len(Numbers(q)') = 0
  BY <1>1, <1>3, <1>4, ContentsAfter DEF Listed
<1> QED
  BY <1>1, <1>2, <1>3, <1>4, <1>5, EmptySeq

-----------------------------------------------------------------------------
(* The list before and after an operation, as PacketList has it.           *)
LEMMA ListBefore ==
  ASSUME Fields, NEW p, Chain(p)
  PROVE  /\ Contents = Numbers(p) /\ Contents \in Seq(Number) /\ Len(Contents) = size
         /\ \A i \in 1 .. size : Contents[i] = heap[p[i]].seq
         /\ size \in Nat /\ (Contents = <<>> <=> size = 0)
<1>1. /\ Contents = Numbers(p) /\ Contents \in Seq(Number) /\ Len(Contents) = size
      /\ \A i \in 1 .. size : Contents[i] = heap[p[i]].seq
  BY ContentsOfChain DEF Listed
<1>2. size \in Nat
  BY DEF Fields
<1>3. Contents = <<>> <=> size = 0
  BY <1>1, EmptySeq
<1> QED
  BY <1>1, <1>2, <1>3

(* A chain in the next state gives the invariant and the contents there.   *)
LEMMA ListAfter ==
  ASSUME Fields', NEW q, Chain(q)'
  PROVE  ListInv' /\ Contents' = Numbers(q)' /\ size' <= MaxSize /\ MaxSize \in Nat
<1>1. ListInv'
  BY DEF ListInv
<1>2. Contents' = Numbers(q)'
  BY ContentsAfter DEF Listed
<1>3. size' \in 0 .. MaxSize
  BY <1>1, ListInvTypesAfter DEF TypeOK
<1>4. MaxSize \in Nat
  BY ListAssumption, FS_CardinalityType DEF MaxSize
<1> QED
  BY <1>1, <1>2, <1>3, <1>4

(* linkedList_add_pkt appends the number (linkedList.c:67).                *)
LEMMA AddLastStep ==
  ASSUME ListInv, NEW number \in Number, linkedList_add_pkt(number), UNCHANGED deleted
  PROVE  /\ ListInv' /\ Abstract!AddLast(number)
         /\ Len(Contents) < MaxSize /\ Contents' = Append(Contents, number) /\ answer' = Ok
<1>1. PICK p : Fields /\ Chain(p)
  BY DEF ListInv
<1>2. PICK q : Fields' /\ answer' = Ok /\ Chain(q)' /\ Numbers(q)' = Append(Numbers(p), number)
  BY <1>1, AddLastChain
<1>3. /\ Contents = Numbers(p) /\ Contents \in Seq(Number) /\ Len(Contents) = size
      /\ size \in Nat
  BY <1>1, ListBefore
<1>4. ListInv' /\ Contents' = Numbers(q)' /\ size' <= MaxSize /\ MaxSize \in Nat
  BY <1>2, ListAfter
<1>5. Contents' = Append(Contents, number)
  BY <1>2, <1>3, <1>4
<1>6. size' = size + 1
  <2>1. size' = Len(Contents')
    BY <1>2, <1>4, ContentsAfter DEF Listed
  <2> QED
    BY <1>3, <1>5, <2>1, AppendProperties
<1>7. Len(Contents) < MaxSize
  BY <1>3, <1>4, <1>6
<1> QED
  BY <1>2, <1>4, <1>5, <1>7 DEF Abstract!AddLast, Abstract!Ok, Ok

(* The list of PacketList is what the operators of the library make of it. *)
LEMMA SameOperators ==
  /\ \A s, i, e : Abstract!InsertAt(s, i, e) = InsertAt(s, i, e)
  /\ \A s, i : Abstract!RemoveAt(s, i) = RemoveAt(s, i)
  /\ \A s : Abstract!Front(s) = Front(s) /\ Abstract!Last(s) = Last(s)
BY DEF Abstract!InsertAt, InsertAt, Abstract!RemoveAt, RemoveAt,
       Abstract!Front, Front, Abstract!Last, Last

(* linkedList_add_increasing: its walk stops at the place of the abstract  *)
(* operation.                                                              *)
LEMMA AddIncreasingStep ==
  ASSUME ListInv, NEW number \in Number, linkedList_add_increasing(number), UNCHANGED deleted
  PROVE  ListInv' /\ Abstract!AddIncreasing(number)
<1>1. PICK p : Fields /\ Chain(p)
  BY DEF ListInv
<1>2. /\ Contents = Numbers(p) /\ Contents \in Seq(Number) /\ Len(Contents) = size
      /\ \A i \in 1 .. size : Contents[i] = heap[p[i]].seq
      /\ size \in Nat
  BY <1>1, ListBefore
<1>3. number \in Nat /\ \A i \in 1 .. size : Contents[i] \in Nat
  <2>1. \A i \in 1 .. size : Contents[i] \in Number
    BY <1>2
  <2> QED
    BY <2>1, ListAssumption
<1> DEFINE Place(i) == /\ i \in 1 .. Len(Contents) + 1
                       /\ \A j \in 1 .. i - 1 : Contents[j] < number
<1>4. ASSUME NEW i, Place(i), i <= Len(Contents) => Contents[i] > number,
             ListInv', Len(Contents) < MaxSize, answer' = Ok,
             Contents' = InsertAt(Contents, i, number)
      PROVE  Abstract!AddIncreasing(number)
  <2>1. ~(i <= Len(Contents) /\ Contents[i] = number)
    BY <1>2, <1>3, <1>4
  <2>2. i <= Len(Contents) => Contents[i] >= number
    BY <1>2, <1>3, <1>4
  <2>3. Contents' = Abstract!InsertAt(Contents, i, number)
    BY <1>4, SameOperators
  <2> QED
    BY <1>4, <2>1, <2>2, <2>3 DEF Abstract!AddIncreasing, Abstract!Ok, Ok
<1>5. ASSUME linkedList_add_pkt(number), \A j \in 1 .. size : Contents[j] < number
      PROVE  ListInv' /\ Abstract!AddIncreasing(number)
  <2>1. /\ ListInv' /\ Len(Contents) < MaxSize /\ answer' = Ok
        /\ Contents' = Append(Contents, number)
    BY <1>5, AddLastStep
  <2>2. PICK k : k = Len(Contents) + 1
    OBVIOUS
  <2>3. InsertAt(Contents, k, number) = Append(Contents, number)
    BY <1>2, <2>2, InsertAtEnds
  <2>4. Place(k) /\ ~(k <= Len(Contents))
    <3>1. k - 1 = size /\ k \in 1 .. Len(Contents) + 1 /\ ~(k <= Len(Contents))
      BY <1>2, <2>2
    <3> QED
      BY <1>5, <3>1
  <2> HIDE DEF Place
  <2> QED
    BY <1>4, <2>1, <2>3, <2>4
<1>6. CASE size = 0
  <2>1. linkedList_add_pkt(number)
    BY <1>6 DEF linkedList_add_increasing
  <2>2. \A j \in 1 .. size : Contents[j] < number
    BY <1>6
  <2> QED
    BY <1>5, <2>1, <2>2
<1>7. CASE size # 0
  <2>1. PICK w \in Walks :
          /\ w[1] = head
          /\ \A i \in 1 .. Len(w) - 1 :
               /\ w[i] \in Allocated /\ ~(heap[w[i]].seq >= number \/ w[i] = tail)
               /\ w[i + 1] = heap[w[i]].next
          /\ w[Len(w)] \in Allocated =>
               \/ heap[w[Len(w)]].seq >= number \/ w[Len(w)] = tail
               \/ \E i \in 1 .. Len(w) - 1 : w[i] = w[Len(w)]
          /\ \/ /\ ~(/\ w[Len(w)] \in Allocated
                     /\ heap[w[Len(w)]].seq >= number \/ w[Len(w)] = tail)
                /\ Uses(FALSE, TRUE)
             \/ /\ heap[w[Len(w)]].seq = number
                /\ answer' = Failed
                /\ UNCHANGED <<heap, head, tail, size, stray>>
             \/ heap[w[Len(w)]].seq > number /\ \E n \in Addr : Fresh(n) /\ Before(w, n, number)
             \/ heap[w[Len(w)]].seq < number /\ linkedList_add_pkt(number)
    BY <1>7 DEF linkedList_add_increasing, Walk, Ends, Before
  <2>2. PICK last \in Nat : last = Len(w) /\ last >= 1
    BY WalkType
  <2>3. /\ last <= size /\ \A i \in 1 .. last : w[i] = p[i]
        /\ w[last] \in Allocated /\ \A i \in 1 .. last - 1 : w[i] # w[last]
    <3>1. /\ w[1] = head /\ \A i \in 1 .. last - 1 : w[i] # tail
          /\ \A i \in 1 .. last - 1 : w[i] \in Allocated => w[i + 1] = heap[w[i]].next
      BY <2>1, <2>2
    <3> QED
      BY <1>1, <1>7, <2>2, <3>1, WalkFollows
  <2>4. last \in 1 .. size /\ last \in 1 .. last /\ w[last] = p[last]
    BY <1>2, <2>2, <2>3
  <2>5. heap[w[last]].seq = Contents[last] /\ Contents[last] \in Nat
    BY <1>2, <1>3, <2>4
  <2>6. Contents[last] >= number \/ w[last] = tail
    BY <2>1, <2>2, <2>3, <2>5
  <2>7. ASSUME NEW j \in 1 .. last - 1 PROVE Contents[j] < number
    <3>1. j \in 1 .. size /\ j \in 1 .. last
      BY <1>2, <2>2, <2>4
    <3>2. Contents[j] = heap[w[j]].seq /\ Contents[j] \in Nat
      BY <1>2, <1>3, <2>3, <3>1
    <3>3. ~(heap[w[j]].seq >= number)
      BY <2>1, <2>2
    <3> QED
      BY <1>3, <3>2, <3>3
  <2>8. Place(last) /\ last <= Len(Contents)
    BY <1>2, <2>4, <2>7
  <2>9. CASE Contents[last] = number /\ answer' = Failed
             /\ UNCHANGED <<heap, head, tail, size, stray>>
    <3>1. answer' \in Seq(Int) /\ deleted' \in BOOLEAN
      <4>1. deleted' \in BOOLEAN
        BY <1>1 DEF Fields
      <4> QED
        BY <2>9, <4>1 DEF Failed
    <3>2. Fields' /\ Chain(p)' /\ Numbers(p)' = Numbers(p)
      BY <1>1, <2>9, <3>1, SameChain
    <3>3. ListInv' /\ Contents' = Contents
      BY <1>2, <3>2, ListAfter
    <3>4. Contents[last] >= number
      BY <1>3, <2>5, <2>9
    <3> QED
      BY <2>8, <2>9, <3>3, <3>4 DEF Abstract!AddIncreasing, Abstract!Failed, Failed
  <2>10. ASSUME Contents[last] > number, NEW n \in Addr, Fresh(n), Before(w, n, number)
         PROVE  ListInv' /\ Abstract!AddIncreasing(number)
    <3>1. PICK q : Fields' /\ answer' = Ok /\ Chain(q)'
                   /\ Numbers(q)' = InsertAt(Numbers(p), last, number)
      BY <1>1, <2>2, <2>3, <2>4, <2>10, BeforeChain
    <3>2. ListInv' /\ Contents' = InsertAt(Contents, last, number)
      BY <1>2, <3>1, ListAfter
    <3>3. Len(Contents) < MaxSize
      <4>1. size' <= MaxSize /\ MaxSize \in Nat
        BY <3>1, ListAfter
      <4>2. size' = size + 1
        BY <2>10 DEF Before
      <4> QED
        BY <1>2, <4>1, <4>2
    <3> HIDE DEF Place
    <3> QED
      BY <1>4, <2>8, <2>10, <3>1, <3>2, <3>3
  <2>11. CASE Contents[last] < number /\ linkedList_add_pkt(number)
    <3>1. w[last] = tail
      BY <1>3, <2>5, <2>6, <2>11
    <3>2. last = size
      <4>1. p[size] = tail /\ size \in 1 .. size
        BY <1>1, <1>2, <1>7, ChainFacts
      <4>2. \A i, j \in 1 .. size : p[i] = p[j] => i = j
        BY <1>1, ChainFacts
      <4> QED
        BY <2>4, <3>1, <4>1, <4>2
    <3>3. \A j \in 1 .. size : j = last \/ j \in 1 .. last - 1
      BY <1>2, <3>2
    <3>4. \A j \in 1 .. size : Contents[j] < number
      BY <2>7, <2>11, <3>3
    <3> QED
      BY <1>5, <2>11, <3>4
  <2> HIDE DEF Place
  <2> QED
    BY <2>1, <2>2, <2>3, <2>5, <2>6, <2>9, <2>10, <2>11
<1> QED
  BY <1>6, <1>7

(* The operations that take one packet out of the list.                    *)
LEMMA RemoveStep ==
  ASSUME ListInv, NEW result \in Seq(Int), linkedList_remove(result), UNCHANGED deleted
  PROVE  /\ ListInv'
         /\ IF Contents = <<>> THEN UNCHANGED Contents /\ answer' = Failed
                               ELSE Contents' = Tail(Contents) /\ answer' = result
<1>1. PICK p : Fields /\ Chain(p)
  BY DEF ListInv
<1>2. Contents = Numbers(p) /\ (Contents = <<>> <=> size = 0)
  BY <1>1, ListBefore
<1>3. CASE size = 0
  <2>1. answer' = Failed /\ UNCHANGED <<heap, head, tail, size, stray>>
    BY <1>3 DEF linkedList_remove
  <2>2. answer' \in Seq(Int)
    BY <2>1 DEF Failed
  <2>3. deleted' \in BOOLEAN
    BY <1>1 DEF Fields
  <2>4. Fields' /\ Chain(p)' /\ Numbers(p)' = Numbers(p)
    BY <1>1, <2>1, <2>2, <2>3, SameChain
  <2>5. ListInv' /\ Contents' = Contents
    BY <1>2, <2>4, ListAfter
  <2> QED
    BY <1>2, <1>3, <2>1, <2>5
<1>4. CASE size # 0
  <2>1. PICK q : Fields' /\ answer' = result /\ Chain(q)' /\ Numbers(q)' = Tail(Numbers(p))
    BY <1>1, <1>4, RemoveHeadChain
  <2>2. ListInv' /\ Contents' = Tail(Contents)
    BY <1>2, <2>1, ListAfter
  <2> QED
    BY <1>2, <1>4, <2>1, <2>2
<1> QED
  BY <1>3, <1>4

(* linkedList_remove takes the first one.                                  *)
LEMMA RemoveHeadStep ==
  ASSUME ListInv, linkedList_remove(Ok), UNCHANGED deleted
  PROVE  ListInv' /\ Abstract!RemoveHead
<1>1. Ok \in Seq(Int)
  BY DEF Ok
<1>2. /\ ListInv'
      /\ IF Contents = <<>> THEN UNCHANGED Contents /\ answer' = Failed
                            ELSE Contents' = Tail(Contents) /\ answer' = Ok
  BY <1>1, RemoveStep
<1> QED
  BY <1>2 DEF Abstract!RemoveHead, Abstract!Ok, Ok, Abstract!Failed, Failed

(* linkedList_remove_end takes the last one, which is the first one when   *)
(* there is no other.                                                      *)
LEMMA RemoveEndStep ==
  ASSUME ListInv, linkedList_remove_end, UNCHANGED deleted
  PROVE  ListInv' /\ Abstract!RemoveEnd
<1>1. PICK p : Fields /\ Chain(p)
  BY DEF ListInv
<1>2. /\ Contents = Numbers(p) /\ Contents \in Seq(Number) /\ Len(Contents) = size
      /\ size \in Nat /\ (Contents = <<>> <=> size = 0)
  BY <1>1, ListBefore
<1>3. CASE size > 1
  <2>1. PICK q : Fields' /\ answer' = Ok /\ Chain(q)' /\ Numbers(q)' = Front(Numbers(p))
    BY <1>1, <1>3, RemoveEndChain
  <2>2. ListInv' /\ Contents' = Abstract!Front(Contents)
    BY <1>2, <2>1, ListAfter, SameOperators
  <2>3. Contents # <<>>
    BY <1>2, <1>3
  <2> QED
    BY <2>1, <2>2, <2>3 DEF Abstract!RemoveEnd, Abstract!Ok, Ok
<1>4. CASE size <= 1
  <2>a. ~(size > 1) /\ Ok \in Seq(Int)
    BY <1>2, <1>4 DEF Ok
  <2>1. linkedList_remove(Ok) /\ Ok \in Seq(Int)
    BY <2>a DEF linkedList_remove_end
  <2>2. /\ ListInv'
        /\ IF Contents = <<>> THEN UNCHANGED Contents /\ answer' = Failed
                              ELSE Contents' = Tail(Contents) /\ answer' = Ok
    BY <2>1, RemoveStep
  <2>3. ASSUME Contents # <<>> PROVE Abstract!Front(Contents) = Tail(Contents)
    <3>1. Len(Contents) = 1
      BY <1>2, <1>4, <2>3
    <3>2. RemoveAt(Contents, 1) = Tail(Contents) /\ RemoveAt(Contents, 1) = Front(Contents)
      BY <1>2, <2>3, <3>1, RemoveAtEnds
    <3> QED
      BY <3>2, SameOperators
  <2> QED
    BY <2>2, <2>3 DEF Abstract!RemoveEnd, Abstract!Ok, Ok, Abstract!Failed, Failed
<1> QED
  BY <1>2, <1>3, <1>4

(* linkedList_remove_middle takes one that is neither.                     *)
LEMMA RemoveInsideStep ==
  ASSUME ListInv, linkedList_remove_middle, UNCHANGED deleted
  PROVE  ListInv' /\ Abstract!RemoveInside
<1>1. PICK p : Fields /\ Chain(p)
  BY DEF ListInv
<1>2. Contents = Numbers(p) /\ Len(Contents) = size
  BY <1>1, ListBefore
<1>3. PICK q, k : /\ Fields' /\ answer' = answer /\ k \in 2 .. size - 1
                  /\ Chain(q)' /\ Numbers(q)' = RemoveAt(Numbers(p), k)
  BY <1>1, RemoveMiddleChain
<1>4. ListInv' /\ Contents' = Abstract!RemoveAt(Contents, k)
  BY <1>2, <1>3, ListAfter, SameOperators
<1> QED
  BY <1>2, <1>3, <1>4 DEF Abstract!RemoveInside

(* flush_file compares the node it has freed with the tail: they are the   *)
(* same exactly when the list had one packet.                              *)
LEMMA FlushStep ==
  ASSUME ListInv, flush_file, UNCHANGED deleted
  PROVE  ListInv' /\ Abstract!Flush
<1>1. PICK p : Fields /\ Chain(p)
  BY DEF ListInv
<1>2. Len(Contents) = size /\ size \in Nat /\ (Contents = <<>> <=> size = 0)
  BY <1>1, ListBefore
<1>3. size # 0 /\ linkedList_remove(<<IF Emptied THEN 1 ELSE 0>>)
  BY DEF flush_file
<1>4. Emptied <=> size = 1
  <2>1. p[1] = head /\ p[size] = tail /\ 1 \in 1 .. size /\ size \in 1 .. size
    BY <1>1, <1>2, <1>3, ChainFacts
  <2>2. \A i, j \in 1 .. size : p[i] = p[j] => i = j
    BY <1>1, ChainFacts
  <2> QED
    BY <2>1, <2>2 DEF Emptied
<1>5. PICK result : result = <<IF Emptied THEN 1 ELSE 0>> /\ result \in Seq(Int)
  <2>1. PICK one \in Int : one = IF Emptied THEN 1 ELSE 0
    OBVIOUS
  <2>2. <<one>> \in Seq(Int)
    OBVIOUS
  <2> QED
    BY <2>1, <2>2
<1>6. ListInv' /\ Contents' = Tail(Contents) /\ answer' = result
  BY <1>2, <1>3, <1>5, RemoveStep
<1>7. result = <<IF Len(Contents) = 1 THEN 1 ELSE 0>>
  BY <1>2, <1>4, <1>5
<1> QED
  BY <1>2, <1>3, <1>6, <1>7 DEF Abstract!Flush

(* The walks and the reads of the tail see the list as it is, and leave it.*)
LEMMA ReadStep ==
  ASSUME ListInv, walk \/ readTail, UNCHANGED deleted
  PROVE  ListInv' /\ (Abstract!ReadAll \/ Abstract!ReadLast)
<1>1. PICK p : Fields /\ Chain(p)
  BY DEF ListInv
<1>2. /\ Contents = Numbers(p) /\ Contents \in Seq(Number) /\ Len(Contents) = size
      /\ \A i \in 1 .. size : Contents[i] = heap[p[i]].seq
      /\ size \in Nat /\ (Contents = <<>> <=> size = 0)
  BY <1>1, ListBefore
<1>3. Number \subseteq Int /\ deleted' \in BOOLEAN
  BY <1>1, ListAssumption DEF Fields
<1>4. ASSUME answer' \in Seq(Int), UNCHANGED <<heap, head, tail, size, stray>>
      PROVE  ListInv' /\ UNCHANGED Contents
  <2>1. Fields' /\ Chain(p)' /\ Numbers(p)' = Numbers(p)
    BY <1>1, <1>3, <1>4, SameChain
  <2> QED
    BY <1>2, <2>1, ListAfter
<1>5. CASE walk
  <2>1. /\ size # 0 /\ answer' = Contents
        /\ UNCHANGED <<heap, head, tail, size, stray>>
    BY <1>1, <1>2, <1>5, WalkReadsAll
  <2>2. answer' \in Seq(Int)
    <3>1. Contents \in Seq(Int)
      BY <1>2, <1>3, SeqMonotonic
    <3> QED
      BY <2>1, <3>1
  <2> QED
    BY <1>2, <1>4, <2>1, <2>2 DEF Abstract!ReadAll
<1>6. CASE readTail
  <2>1. size # 0 /\ size \in 1 .. size
    BY <1>2, <1>6 DEF readTail
  <2>2. p[size] = tail /\ tail \in Allocated
    BY <1>1, <1>2, <2>1, ChainFacts
  <2>3. answer' = <<heap[tail].seq>> /\ UNCHANGED <<heap, head, tail, size, stray>>
    BY <1>6, <2>2 DEF readTail, Uses
  <2>4. heap[tail].seq = Last(Contents) /\ heap[tail].seq \in Int
    <3>1. Contents[size] = heap[tail].seq /\ Contents[size] \in Number
      BY <1>2, <2>1, <2>2
    <3> QED
      BY <1>2, <1>3, <3>1 DEF Last
  <2>5. answer' \in Seq(Int)
    BY <2>3, <2>4
  <2> QED
    BY <1>2, <1>4, <2>1, <2>3, <2>4, <2>5, SameOperators DEF Abstract!ReadLast
<1> QED
  BY <1>5, <1>6

(* linkedList_del leaves an empty list.                                    *)
LEMMA DeleteStep ==
  ASSUME ListInv, linkedList_del
  PROVE  ListInv' /\ deleted' = TRUE /\ Contents' = <<>> /\ answer' = Abstract!Ok
<1>1. PICK p : Fields /\ Chain(p)
  BY DEF ListInv
<1>2. PICK q : /\ Fields' /\ answer' = Ok /\ deleted' = TRUE
               /\ Chain(q)' /\ Numbers(q)' = <<>>
  BY <1>1, DeleteChain
<1> QED
  BY <1>2, ListAfter DEF Abstract!Ok, Ok

(* A step that changes nothing.                                            *)
LEMMA StutterStep ==
  ASSUME ListInv, UNCHANGED vars
  PROVE  ListInv' /\ UNCHANGED Abstract!listVars
<1>1. PICK p : Fields /\ Chain(p)
  BY DEF ListInv
<1>2. /\ UNCHANGED <<heap, head, tail, size, stray>>
      /\ answer' = answer /\ deleted' = deleted
  BY DEF vars
<1>3. answer' \in Seq(Int) /\ deleted' \in BOOLEAN
  BY <1>1, <1>2 DEF Fields
<1>4. Fields' /\ Chain(p)' /\ Numbers(p)' = Numbers(p)
  BY <1>1, <1>2, <1>3, SameChain
<1>5. ListInv' /\ Contents' = Numbers(p)'
  BY <1>4, ListAfter
<1>6. Contents = Numbers(p)
  BY <1>1, ListBefore
<1> QED
  BY <1>2, <1>4, <1>5, <1>6 DEF Abstract!listVars

(* The list that linkedList_create makes is empty, whatever its pointers.  *)
LEMMA InitStep ==
  ASSUME Init
  PROVE  ListInv /\ Abstract!Init
<1>1. Fields
  <2>1. Allocated = {} /\ Ok \in Seq(Int)
    BY DEF Init, Allocated, Ok
  <2> QED
    BY <2>1 DEF Init, Fields
<1>2. PICK p : p = [i \in 1 .. 0 |-> head]
  OBVIOUS
<1>3. Chain(p)
  <2>1. p \in [1 .. size -> Addr] /\ Allocated = {p[i] : i \in 1 .. size}
    BY <1>2 DEF Init, Allocated
  <2>2. IsChain(p)
    BY DEF Init, IsChain
  <2> QED
    BY <2>1, <2>2 DEF Chain
<1>4. Contents = <<>>
  BY <1>1, <1>3, ListBefore DEF Init
<1> QED
  BY <1>1, <1>3, <1>4 DEF ListInv, Abstract!Init, Abstract!Ok, Init, Ok

(* Every step keeps the invariant and is one of PacketList, or none.       *)
LEMMA ListStep ==
  ListInv /\ [Next]_vars => ListInv' /\ [Abstract!Next]_(Abstract!listVars)
<1> SUFFICES ASSUME ListInv, [Next]_vars
             PROVE  ListInv' /\ [Abstract!Next]_(Abstract!listVars)
  OBVIOUS
<1>1. CASE UNCHANGED vars
  BY <1>1, StutterStep
<1>2. CASE Next /\ UNCHANGED deleted
  <2>1. ~deleted
    BY <1>2 DEF Next
  <2>2. ASSUME NEW number \in Number, linkedList_add_pkt(number)
        PROVE  ListInv' /\ Abstract!Next
    BY <1>2, <2>1, <2>2, AddLastStep DEF Abstract!Next
  <2>3. ASSUME NEW number \in Number, linkedList_add_increasing(number)
        PROVE  ListInv' /\ Abstract!Next
    BY <1>2, <2>1, <2>3, AddIncreasingStep DEF Abstract!Next
  <2>4. CASE linkedList_remove(Ok)
    BY <1>2, <2>1, <2>4, RemoveHeadStep DEF Abstract!Next
  <2>5. CASE linkedList_remove_end
    BY <1>2, <2>1, <2>5, RemoveEndStep DEF Abstract!Next
  <2>6. CASE linkedList_remove_middle
    BY <1>2, <2>1, <2>6, RemoveInsideStep DEF Abstract!Next
  <2>7. CASE walk \/ readTail
    BY <1>2, <2>1, <2>7, ReadStep DEF Abstract!Next
  <2>8. CASE flush_file
    BY <1>2, <2>1, <2>8, FlushStep DEF Abstract!Next
  <2>9. CASE linkedList_del
    BY <2>1, <2>9, DeleteStep DEF Abstract!Next
  <2> QED
    BY <1>2, <2>2, <2>3, <2>4, <2>5, <2>6, <2>7, <2>8, <2>9 DEF Next
<1>3. CASE Next /\ ~UNCHANGED deleted
  <2>1. ~deleted /\ linkedList_del
    BY <1>3 DEF Next
  <2> QED
    BY <2>1, DeleteStep DEF Abstract!Next
<1> QED
  BY <1>1, <1>2, <1>3

-----------------------------------------------------------------------------
(* The list is a chain of nodes in every state.                            *)
LEMMA ListInvariance == Spec => []ListInv
<1>1. Init => ListInv
  BY InitStep
<1>2. ListInv /\ [Next]_vars => ListInv'
  BY ListStep
<1> QED
  BY <1>1, <1>2, PTL DEF Spec

(* Every field of the list and of its nodes has its type; in particular    *)
(* linkedList_add_increasing never passes the last address.                *)
THEOREM ListTypeOK == Spec => []TypeOK
<1>1. ListInv => TypeOK
  BY ListInvTypes
<1> QED
  BY <1>1, ListInvariance, PTL

(* No operation of linkedList.c, and no walk of the two programs, touches  *)
(* a node that was freed or never allocated.                               *)
THEOREM ListNoStray == Spec => []NoStray
<1>1. ListInv => NoStray
  BY ListInvTypes
<1> QED
  BY <1>1, ListInvariance, PTL

(* From head, size nodes lead to tail and are all that is allocated: no    *)
(* node is lost, none is freed twice, and linkedList_del leaves none.      *)
THEOREM ListShape == Spec => []Shape
<1>1. ListInv => Shape
  BY ListInvTypes
<1> QED
  BY <1>1, ListInvariance, PTL

(* The nodes and pointers implement the list of PacketList, for every      *)
(* memory, every set of numbers and whatever malloc leaves in a node.      *)
THEOREM ListImplements == Spec => ImplementsList
<1>1. Init => Abstract!Init
  BY InitStep
<1>2. ListInv /\ [Next]_vars => [Abstract!Next]_(Abstract!listVars)
  BY ListStep
<1> QED
  BY <1>1, <1>2, ListInvariance, PTL DEF Spec, ImplementsList, Abstract!Spec
=============================================================================
