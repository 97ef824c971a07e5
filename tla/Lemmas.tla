------------------------------- MODULE Lemmas -------------------------------
(***************************************************************************)
(* What the proofs keep needing of numbers and sequences: induction, in a  *)
(* form the provers can use (over a set and not over a predicate that is a *)
(* parameter), remainders, and the operators that insert and remove.       *)
(***************************************************************************)
EXTENDS SequencesExt, WellFoundedInduction, SequenceTheorems, FiniteSetTheorems, TLAPS

(* Numbers that are not none have a least one.  What goes wrong on a walk  *)
(* goes wrong at a first node.                                             *)
LEMMA LeastNatural ==
  ASSUME NEW T \in SUBSET Nat, T # {}
  PROVE  \E least \in T : \A n \in T : least <= n
<1> DEFINE Less == OpToRel(<, Nat)
<1>1. IsWellFoundedOn(Less, Nat)
  BY NatLessThanWellFounded
<1>2. \A x, y \in Nat : <<y, x>> \in Less <=> y < x
  BY DEF OpToRel
<1> HIDE DEF Less
<1>3. PICK least \in T : \A n \in T : <<n, least>> \notin Less
  BY <1>1, WFMin
<1>4. ASSUME NEW n \in T PROVE least <= n
  <2>1. least \in Nat /\ n \in Nat
    OBVIOUS
  <2>2. ~(n < least)
    BY <1>2, <1>3, <2>1
  <2> QED
    BY <2>1, <2>2
<1> QED
  BY <1>4

(* A set with 1 and, with each number up to the last, the next one, has    *)
(* all of 1 .. last: a walk that starts right and whose steps are right is *)
(* right.                                                                  *)
LEMMA WalkInduction ==
  ASSUME NEW last \in Nat, NEW T,
         1 \in T, \A n \in 1 .. last - 1 : n \in T => n + 1 \in T
  PROVE  \A n \in 1 .. last : n \in T
<1> DEFINE Missing == {n \in 1 .. last : n \notin T}
<1> SUFFICES ASSUME Missing # {} PROVE FALSE
  OBVIOUS
<1>1. PICK least \in Missing : \A n \in Missing : least <= n
  <2>1. Missing \in SUBSET Nat
    OBVIOUS
  <2> HIDE DEF Missing
  <2> QED
    BY <2>1, LeastNatural
<1>2. least \in 1 .. last /\ least # 1 /\ least - 1 \in 1 .. last - 1
  BY <1>1
<1>3. least - 1 \in T
  BY <1>1, <1>2
<1> QED
  BY <1>1, <1>2, <1>3

-----------------------------------------------------------------------------
(* Remainders of numbers less than two turns away.  Within the turn:       *)
LEMMA ModBelow ==
  ASSUME NEW n \in Nat \ {0}, NEW a \in 0 .. n - 1
  PROVE  a % n = a
  OBVIOUS

(* Between one turn and two: one turn less.                                *)
LEMMA ModAbove ==
  ASSUME NEW n \in Nat \ {0}, NEW a \in n .. 2 * n - 1
  PROVE  a % n = a - n
  OBVIOUS

(* Less than a turn below zero: one turn more.                             *)
LEMMA ModNegative ==
  ASSUME NEW n \in Nat \ {0}, NEW a \in (-n) .. (-1)
  PROVE  a % n = a + n
  OBVIOUS

(* d steps from h on the circle of the numbers.                            *)
LEMMA ModForward ==
  ASSUME NEW n \in Nat \ {0}, NEW h \in 0 .. n - 1, NEW d \in 0 .. n - 1
  PROVE  /\ (h + d) % n = IF h + d < n THEN h + d ELSE h + d - n
         /\ (h + d) % n \in 0 .. n - 1
<1>1. CASE h + d < n
  <2>1. h + d \in 0 .. n - 1
    BY <1>1
  <2> QED
    BY <1>1, <2>1, ModBelow
<1>2. CASE ~(h + d < n)
  <2>1. h + d \in n .. 2 * n - 1
    BY <1>2
  <2>2. (h + d) % n = h + d - n
    BY <2>1, ModAbove
  <2> QED
    BY <1>2, <2>1, <2>2
<1> QED
  BY <1>1, <1>2

(* The number of steps from h to s on that circle.                         *)
LEMMA ModDifference ==
  ASSUME NEW n \in Nat \ {0}, NEW h \in 0 .. n - 1, NEW s \in 0 .. n - 1
  PROVE  /\ (s - h) % n = IF s < h THEN s - h + n ELSE s - h
         /\ (s - h) % n \in 0 .. n - 1
<1>1. CASE s < h
  <2>1. s - h \in (-n) .. (-1)
    BY <1>1
  <2> QED
    BY <1>1, <2>1, ModNegative
<1>2. CASE ~(s < h)
  <2>1. s - h \in 0 .. n - 1
    BY <1>2
  <2> QED
    BY <1>2, <2>1, ModBelow
<1> QED
  BY <1>1, <1>2

(* Any integer is a multiple and a remainder.                              *)
LEMMA ModSplit ==
  ASSUME NEW n \in Nat \ {0}, NEW a \in Int
  PROVE  a % n \in 0 .. n - 1 /\ a = n * (a \div n) + (a % n) /\ a \div n \in Int
  OBVIOUS

(* A multiple and a number below n: the number is the remainder.           *)
LEMMA ModUnique ==
  ASSUME NEW n \in Nat \ {0}, NEW q \in Int, NEW r \in 0 .. n - 1
  PROVE  (n * q + r) % n = r
<1> DEFINE a == n * q + r
<1>1. a \in Int
  OBVIOUS
<1>2. PICK p \in Int, s \in 0 .. n - 1 : a = n * p + s /\ s = a % n
  BY <1>1, ModSplit
<1>3. n * (q - p) = s - r
  BY <1>2
<1>4. q - p = 0
  <2>1. CASE q - p >= 1
    <3>1. n * (q - p) >= n
      BY <2>1
    <3> QED
      BY <1>2, <1>3, <3>1
  <2>2. CASE q - p <= -1
    <3>1. n * (q - p) <= -n
      BY <2>2
    <3> QED
      BY <1>2, <1>3, <3>1
  <2> QED
    BY <2>1, <2>2
<1>5. s = r
  BY <1>3, <1>4
<1> QED
  BY <1>2, <1>5

(* The distance between two remainders is that of the numbers.             *)
LEMMA ModDistance ==
  ASSUME NEW n \in Nat \ {0}, NEW u \in Int, NEW v \in Int
  PROVE  ((u % n) - (v % n)) % n = (u - v) % n
<1>1. PICK p \in Int, r \in 0 .. n - 1 : u = n * p + r /\ r = u % n
  BY ModSplit
<1>2. PICK q \in Int, s \in 0 .. n - 1 : v = n * q + s /\ s = v % n
  BY ModSplit
<1>3. PICK d \in Int : d = r - s
  OBVIOUS
<1>4. PICK k \in Int, t \in 0 .. n - 1 : d = n * k + t /\ t = d % n
  BY ModSplit
<1>5. u - v = n * (p - q + k) + t
  <2>1. n * (p - q + k) = n * p - n * q + n * k
    OBVIOUS
  <2> QED
    BY <1>1, <1>2, <1>3, <1>4, <2>1
<1>6. PICK j \in Int : j = p - q + k
  OBVIOUS
<1>7. (n * j + t) % n = t
  BY ModUnique
<1>8. u - v = n * j + t
  BY <1>5, <1>6
<1>9. (u - v) % n = t
  BY <1>7, <1>8
<1> QED
  BY <1>1, <1>2, <1>3, <1>4, <1>9

-----------------------------------------------------------------------------
(* What the operators on lists and channels return.                        *)
LEMMA SubSeqType ==
  ASSUME NEW S, NEW s \in Seq(S), NEW m \in Nat \ {0}, NEW n \in Nat, n <= Len(s)
  PROVE  /\ SubSeq(s, m, n) \in Seq(S)
         /\ Len(SubSeq(s, m, n)) = IF m <= n THEN n - m + 1 ELSE 0
         /\ \A i \in 1 .. n - m + 1 : SubSeq(s, m, n)[i] = s[m + i - 1]
<1>1. \A i \in m .. n : s[i] \in S
  BY ElementOfSeq
<1> QED
  BY <1>1, SubSeqProperties

(* What is left of a list when its first k packets leave.                  *)
LEMMA SuffixType ==
  ASSUME NEW S, NEW s \in Seq(S), NEW k \in 0 .. Len(s)
  PROVE  /\ SubSeq(s, k + 1, Len(s)) \in Seq(S)
         /\ Len(SubSeq(s, k + 1, Len(s))) = Len(s) - k
         /\ DOMAIN SubSeq(s, k + 1, Len(s)) = 1 .. Len(s) - k
         /\ \A i \in 1 .. Len(s) - k : SubSeq(s, k + 1, Len(s))[i] = s[k + i]
<1>1. PICK n \in Nat : n = Len(s)
  OBVIOUS
<1>2. k \in Nat /\ k <= n /\ k + 1 \in Nat \ {0}
  BY <1>1
<1>3. PICK u : u = SubSeq(s, k + 1, n)
  OBVIOUS
<1>4. /\ u \in Seq(S)
      /\ Len(u) = IF k + 1 <= n THEN n - (k + 1) + 1 ELSE 0
      /\ \A i \in 1 .. n - (k + 1) + 1 : u[i] = s[(k + 1) + i - 1]
  BY <1>1, <1>2, <1>3, SubSeqType
<1>5. Len(u) = n - k
  BY <1>2, <1>4
<1>6. DOMAIN u = 1 .. n - k
  BY <1>4, <1>5, LenProperties
<1>7. ASSUME NEW i \in 1 .. n - k PROVE u[i] = s[k + i]
  <2>1. i \in 1 .. n - (k + 1) + 1 /\ (k + 1) + i - 1 = k + i
    BY <1>2
  <2> QED
    BY <1>4, <2>1
<1> QED
  BY <1>1, <1>3, <1>4, <1>5, <1>6, <1>7

(* A packet that leaves the middle of a list.                              *)
LEMMA RemoveAtType ==
  ASSUME NEW S, NEW s \in Seq(S), NEW i \in 1 .. Len(s)
  PROVE  /\ RemoveAt(s, i) \in Seq(S)
         /\ Len(RemoveAt(s, i)) = Len(s) - 1
         /\ \A j \in 1 .. Len(s) - 1 :
              RemoveAt(s, i)[j] = IF j < i THEN s[j] ELSE s[j + 1]
<1> DEFINE before == SubSeq(s, 1, i - 1)
           after == SubSeq(s, i + 1, Len(s))
<1>1. Len(s) \in Nat
  OBVIOUS
<1>2. /\ before \in Seq(S) /\ Len(before) = i - 1
      /\ \A j \in 1 .. i - 1 : before[j] = s[j]
  BY <1>1, SubSeqType
<1>3. /\ after \in Seq(S) /\ Len(after) = Len(s) - i
      /\ \A j \in 1 .. Len(s) - i : after[j] = s[i + j]
  BY <1>1, SubSeqType
<1>4. RemoveAt(s, i) = before \o after
  BY DEF RemoveAt
<1> HIDE DEF before, after
<1>5. /\ before \o after \in Seq(S) /\ Len(before \o after) = Len(before) + Len(after)
      /\ \A j \in 1 .. Len(before) + Len(after) :
           (before \o after)[j] = IF j <= Len(before) THEN before[j] ELSE after[j - Len(before)]
  BY <1>2, <1>3, ConcatProperties
<1>6. \A j \in 1 .. Len(s) - 1 : (before \o after)[j] = IF j < i THEN s[j] ELSE s[j + 1]
  BY <1>1, <1>2, <1>3, <1>5
<1> QED
  BY <1>1, <1>2, <1>3, <1>4, <1>5, <1>6

(* A packet that enters one.                                               *)
LEMMA InsertAtType ==
  ASSUME NEW S, NEW s \in Seq(S), NEW i \in 1 .. Len(s) + 1, NEW e \in S
  PROVE  /\ InsertAt(s, i, e) \in Seq(S)
         /\ Len(InsertAt(s, i, e)) = Len(s) + 1
         /\ \A j \in 1 .. Len(s) + 1 :
              InsertAt(s, i, e)[j] = IF j < i THEN s[j] ELSE IF j = i THEN e ELSE s[j - 1]
<1> DEFINE before == SubSeq(s, 1, i - 1)
           after == SubSeq(s, i, Len(s))
<1>1. Len(s) \in Nat
  OBVIOUS
<1>2. /\ before \in Seq(S) /\ Len(before) = i - 1
      /\ \A j \in 1 .. i - 1 : before[j] = s[j]
  BY <1>1, SubSeqType
<1>3. /\ after \in Seq(S) /\ Len(after) = Len(s) - i + 1
      /\ \A j \in 1 .. Len(s) - i + 1 : after[j] = s[i + j - 1]
  BY <1>1, SubSeqType
<1>4. InsertAt(s, i, e) = (before \o <<e>>) \o after
  BY DEF InsertAt
<1>5. <<e>> \in Seq(S) /\ Len(<<e>>) = 1 /\ <<e>>[1] = e
  OBVIOUS
<1> HIDE DEF before, after
<1> DEFINE until == before \o <<e>>
<1>6. /\ until \in Seq(S) /\ Len(until) = i
      /\ \A j \in 1 .. i : until[j] = IF j < i THEN s[j] ELSE e
  BY <1>1, <1>2, <1>5, ConcatProperties
<1> HIDE DEF until
<1>7. /\ until \o after \in Seq(S) /\ Len(until \o after) = Len(until) + Len(after)
      /\ \A j \in 1 .. Len(until) + Len(after) :
           (until \o after)[j] = IF j <= Len(until) THEN until[j] ELSE after[j - Len(until)]
  BY <1>3, <1>6, ConcatProperties
<1>8. \A j \in 1 .. Len(s) + 1 :
        (until \o after)[j] = IF j < i THEN s[j] ELSE IF j = i THEN e ELSE s[j - 1]
  BY <1>1, <1>3, <1>6, <1>7
<1>9. InsertAt(s, i, e) = until \o after
  BY <1>4 DEF until
<1> QED
  BY <1>1, <1>3, <1>6, <1>7, <1>8, <1>9

-----------------------------------------------------------------------------
(* When a sequence u, known element by element, is what an operator makes  *)
(* of a sequence s.                                                        *)
Inserted(s, u, i, e) ==
  /\ i \in 1 .. Len(s) + 1 /\ Len(u) = Len(s) + 1
  /\ \A j \in 1 .. i - 1 : u[j] = s[j]
  /\ u[i] = e
  /\ \A j \in i .. Len(s) : u[j + 1] = s[j]

Removed(s, u, i) ==
  /\ i \in 1 .. Len(s) /\ Len(u) = Len(s) - 1
  /\ \A j \in 1 .. i - 1 : u[j] = s[j]
  /\ \A j \in i .. Len(u) : u[j] = s[j + 1]

(* A sequence that has the elements of an insertion is InsertAt.           *)
LEMMA IsInsertAt ==
  ASSUME NEW S, NEW s \in Seq(S), NEW u \in Seq(S), NEW e \in S, NEW i, Inserted(s, u, i, e)
  PROVE  u = InsertAt(s, i, e)
<1>1. /\ Len(s) \in Nat /\ i \in 1 .. Len(s) + 1 /\ Len(u) = Len(s) + 1
      /\ u[i] = e
      /\ \A j \in 1 .. i - 1 : u[j] = s[j]
      /\ \A j \in i .. Len(s) : u[j + 1] = s[j]
  BY DEF Inserted
<1> DEFINE t == InsertAt(s, i, e)
<1>2. /\ t \in Seq(S) /\ Len(t) = Len(s) + 1
      /\ \A j \in 1 .. Len(s) + 1 :
           t[j] = IF j < i THEN s[j] ELSE IF j = i THEN e ELSE s[j - 1]
  BY <1>1, InsertAtType
<1> HIDE DEF t
<1>3. ASSUME NEW j \in 1 .. Len(u) PROVE u[j] = t[j]
  <2>1. CASE j < i
    <3>1. j \in 1 .. i - 1 /\ j \in 1 .. Len(s) + 1
      BY <1>1, <2>1
    <3> QED
      BY <1>1, <1>2, <2>1, <3>1
  <2>2. CASE j = i
    BY <1>1, <1>2, <2>2
  <2>3. CASE j > i
    <3>1. j - 1 \in i .. Len(s) /\ (j - 1) + 1 = j
      BY <1>1, <2>3
    <3>2. u[j] = s[j - 1]
      BY <1>1, <3>1
    <3> QED
      BY <1>1, <1>2, <2>3, <3>2
  <2> QED
    BY <1>1, <2>1, <2>2, <2>3
<1>4. u = t
  BY <1>1, <1>2, <1>3, SeqEqual
<1> QED
  BY <1>4 DEF t

(* A sequence that has the elements of a removal is RemoveAt.              *)
LEMMA IsRemoveAt ==
  ASSUME NEW S, NEW s \in Seq(S), NEW u \in Seq(S), NEW i, Removed(s, u, i)
  PROVE  u = RemoveAt(s, i)
<1>1. /\ Len(s) \in Nat /\ i \in 1 .. Len(s) /\ Len(u) = Len(s) - 1
      /\ \A j \in 1 .. i - 1 : u[j] = s[j]
      /\ \A j \in i .. Len(u) : u[j] = s[j + 1]
  BY DEF Removed
<1> DEFINE t == RemoveAt(s, i)
<1>2. /\ t \in Seq(S) /\ Len(t) = Len(s) - 1
      /\ \A j \in 1 .. Len(s) - 1 : t[j] = IF j < i THEN s[j] ELSE s[j + 1]
  BY <1>1, RemoveAtType
<1> HIDE DEF t
<1>3. ASSUME NEW j \in 1 .. Len(u) PROVE u[j] = t[j]
  <2>1. CASE j < i
    BY <1>1, <1>2, <2>1
  <2>2. CASE j >= i
    BY <1>1, <1>2, <2>2
  <2> QED
    BY <1>1, <2>1, <2>2
<1>4. u = t
  BY <1>1, <1>2, <1>3, SeqEqual
<1> QED
  BY <1>4 DEF t

(* Adding at the end is inserting there, and taking the first or the last  *)
(* element is removing it.                                                 *)
LEMMA InsertAtEnds ==
  ASSUME NEW S, NEW s \in Seq(S), NEW e \in S
  PROVE  InsertAt(s, Len(s) + 1, e) = Append(s, e)
<1>1. Len(s) \in Nat
  OBVIOUS
<1> DEFINE t == Append(s, e)
<1>2. t \in Seq(S) /\ Inserted(s, t, Len(s) + 1, e)
  BY <1>1, AppendProperties DEF Inserted
<1> HIDE DEF t
<1>3. t = InsertAt(s, Len(s) + 1, e)
  BY <1>2, IsInsertAt
<1> QED
  BY <1>3 DEF t

(* Removing the first element leaves the tail, the last one the front.     *)
LEMMA RemoveAtEnds ==
  ASSUME NEW S, NEW s \in Seq(S), s # <<>>
  PROVE  RemoveAt(s, 1) = Tail(s) /\ RemoveAt(s, Len(s)) = Front(s)
<1>1. Len(s) \in Nat /\ Len(s) >= 1
  BY EmptySeq
<1>2. RemoveAt(s, 1) = Tail(s)
  <2> DEFINE t == Tail(s)
  <2>1. t \in Seq(S) /\ Removed(s, t, 1)
    BY <1>1, HeadTailProperties DEF Removed
  <2> HIDE DEF t
  <2>2. t = RemoveAt(s, 1)
    BY <2>1, IsRemoveAt
  <2> QED
    BY <2>2 DEF t
<1>3. RemoveAt(s, Len(s)) = Front(s)
  <2>0. PICK n \in Nat : n = Len(s) - 1 /\ Len(s) = n + 1
    BY <1>1
  <2> DEFINE t == SubSeq(s, 1, n)
  <2>1. t \in Seq(S) /\ Len(t) = n /\ \A j \in 1 .. n : t[j] = s[j]
    <3>1. /\ t \in Seq(S)
          /\ Len(t) = IF 1 <= n THEN n - 1 + 1 ELSE 0
          /\ \A j \in 1 .. n - 1 + 1 : t[j] = s[1 + j - 1]
      BY <2>0, SubSeqType
    <3> HIDE DEF t
    <3> QED
      BY <3>1
  <2> HIDE DEF t
  <2>2. Removed(s, t, Len(s))
    BY <1>1, <2>0, <2>1 DEF Removed
  <2>3. t = RemoveAt(s, Len(s))
    BY <2>1, <2>2, IsRemoveAt
  <2> QED
    BY <2>0, <2>3 DEF t, Front
<1> QED
  BY <1>2, <1>3
=============================================================================
