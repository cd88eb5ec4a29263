-------------------------- MODULE SynchDiskProofs --------------------------
(***************************************************************************)
(* Proofs about module SynchDisk, for every number of threads, every       *)
(* geometry and speed of the disk and every length of the time slices.     *)
(* Inv is inductive: the list of pending interrupts is sorted and holds    *)
(* one disk interrupt exactly while the disk is active (Clock), no         *)
(* interrupt of the past is pending unless OneTick is at work (NotLate),   *)
(* and callers that take turns wait for the request under way (Turns).     *)
(***************************************************************************)
EXTENDS SynchDisk, FiniteSetTheorems, WellFoundedInduction, TLAPS

IsSorted(list) == \A i, j \in DOMAIN list : i <= j => list[i].key <= list[j].key

(* No two disk interrupts.                                                 *)
Lone(list) ==
    \A i, j \in DOMAIN list : list[i].type = "DiskInt" /\ list[j].type = "DiskInt" => i = j

HasDisk(list) == \E i \in DOMAIN list : list[i].type = "DiskInt"

Active == disk.active = TRUE

Clock ==
    /\ IsSorted(pending) /\ Lone(pending)
    /\ Active <=> HasDisk(pending)

(* Interrupts of the past are pending only inside OneTick.                 *)
NotLate ==
    mode \in {"run", "idle", "wake"} => \A i \in DOMAIN pending : totalTicks <= pending[i].key

Waiters == {t \in Thread : pc[t] = "waits"}

Tokens == Cardinality(Waiters) = semaphore.value + (IF Active THEN 1 ELSE 0)

Ticking == mode = "tick" => pc[current] = "ready"

(* Callers that take turns: whoever waits made the last request, and when  *)
(* the disk has finished that request has had its interrupt.               *)
Turns ==
    serial = TRUE =>
        /\ mode # "aborted"
        /\ \A t \in Thread : pc[t] # "waits" => t \in answered
        /\ \A t \in Thread : pc[t] = "waits" => t = flight.by
        /\ Active \/ flight.by \in answered

Inv == TypeOK /\ Clock /\ NotLate /\ NeverLate /\ Tokens /\ Ticking /\ Turns
-----------------------------------------------------------------------------
(* Least elements, and the list.                                           *)

LEMMA LeastExists ==
  ASSUME NEW S, S \subseteq Nat, S # {}
  PROVE  \E i \in S : \A j \in S : i <= j
<1> DEFINE R == OpToRel(<, Nat)
<1>1. IsWellFoundedOn(R, Nat)
  BY NatLessThanWellFounded
<1> HIDE DEF R
<1>2. \E x \in S : \A y \in S : ~(<<y, x>> \in R)
  BY <1>1, WFMin
<1>3. PICK x \in S : \A y \in S : ~(<<y, x>> \in R)
  BY <1>2
<1>4. \A y \in S : ~(y < x)
  BY <1>3 DEF R, OpToRel
<1> QED
  BY <1>3, <1>4

(* Where SortedInsert puts the item: behind n elements.                    *)
LEMMA InsertPlace ==
  ASSUME NEW list \in Seq(PendingInterrupt), NEW item \in PendingInterrupt
  PROVE  \E n \in 0 .. Len(list) :
            /\ SortedInsert(list, item)
                 = SubSeq(list, 1, n) \o <<item>> \o SubSeq(list, n + 1, Len(list))
            /\ \A i \in 1 .. Len(list) : i <= n => list[i].key <= item.key
            /\ n < Len(list) => item.key < list[n + 1].key
<1> DEFINE larger == {i \in DOMAIN list : item.key < list[i].key}
           n == IF larger = {} THEN Len(list) ELSE Min(larger) - 1
<1>1. DOMAIN list = 1 .. Len(list) /\ Len(list) \in Nat /\ item.key \in Nat
      /\ \A i \in 1 .. Len(list) : list[i].key \in Nat
  <2>1. DOMAIN list = 1 .. Len(list) /\ Len(list) \in Nat
        /\ \A i \in 1 .. Len(list) : list[i] \in PendingInterrupt
    OBVIOUS
  <2>2. \A x \in PendingInterrupt : x.key \in Nat
    BY DEF PendingInterrupt
  <2> QED
    BY <2>1, <2>2
<1>a. \A i : i \in larger <=> i \in 1 .. Len(list) /\ item.key < list[i].key
  BY <1>1
<1>2. SortedInsert(list, item) = SubSeq(list, 1, n) \o <<item>> \o SubSeq(list, n + 1, Len(list))
  BY DEF SortedInsert
<1>3. CASE larger = {}
  <2>1. n = Len(list) /\ \A i \in 1 .. Len(list) : ~(item.key < list[i].key)
    BY <1>a, <1>3
  <2>2. n \in 0 .. Len(list) /\ ~(n < Len(list))
        /\ \A i \in 1 .. Len(list) : i <= n => list[i].key <= item.key
    BY <1>1, <2>1
  <2> HIDE DEF n, larger
  <2> QED
    BY <1>2, <2>2
<1>4. CASE larger # {}
  <2>1. larger \subseteq Nat
    BY <1>1
  <2>2. \E i \in larger : \A j \in larger : i <= j
    BY <1>4, <2>1, LeastExists
  <2>3. Min(larger) \in larger /\ \A j \in larger : Min(larger) <= j
    BY <2>2 DEF Min
  <2>4. PICK m \in larger : m = Min(larger) /\ \A j \in larger : m <= j
    BY <2>3
  <2>5. n = m - 1 /\ m \in 1 .. Len(list) /\ item.key < list[m].key
    BY <1>1, <1>4, <2>4
  <2>6. \A i \in 1 .. Len(list) : i <= n => list[i].key <= item.key
    <3> SUFFICES ASSUME NEW i \in 1 .. Len(list), i <= n PROVE list[i].key <= item.key
      OBVIOUS
    <3>1. i < m /\ i \in Nat /\ m \in Nat
      BY <1>1, <2>5
    <3> HIDE DEF n, larger
    <3>2. i \notin larger
      BY <2>4, <3>1
    <3> QED
      BY <1>1, <1>a, <3>2
  <2>7. n \in 0 .. Len(list) /\ n + 1 = m
    BY <1>1, <2>5
  <2> HIDE DEF n, larger
  <2> QED
    BY <1>2, <2>5, <2>6, <2>7
<1> QED
  BY <1>3, <1>4

(* The elements of the list with the item in it.                           *)
LEMMA InsertShape ==
  ASSUME NEW list \in Seq(PendingInterrupt), NEW item \in PendingInterrupt
  PROVE  \E r \in Seq(PendingInterrupt) :
         /\ r = SortedInsert(list, item) /\ DOMAIN r = 1 .. Len(list) + 1
         /\ \E n \in 0 .. Len(list) :
              /\ \A i \in 1 .. Len(list) : i <= n => list[i].key <= item.key
              /\ n < Len(list) => item.key < list[n + 1].key
              /\ r[n + 1] = item
              /\ \A i \in 1 .. Len(list) : IF i <= n THEN r[i] = list[i] ELSE r[i + 1] = list[i]
<1> DEFINE r == SortedInsert(list, item)
<1>1. PICK n \in 0 .. Len(list) :
            /\ r = SubSeq(list, 1, n) \o <<item>> \o SubSeq(list, n + 1, Len(list))
            /\ \A i \in 1 .. Len(list) : i <= n => list[i].key <= item.key
            /\ n < Len(list) => item.key < list[n + 1].key
  BY InsertPlace
<1> HIDE DEF r
<1> DEFINE a == SubSeq(list, 1, n)
           b == SubSeq(list, n + 1, Len(list))
<1>2. Len(list) \in Nat /\ n \in Nat /\ n <= Len(list)
  BY <1>1
<1>3. a \in Seq(PendingInterrupt) /\ Len(a) = n /\ \A i \in 1 .. n : a[i] = list[i]
  BY <1>2
<1>4. b \in Seq(PendingInterrupt) /\ Len(b) = Len(list) - n
      /\ \A i \in 1 .. Len(list) - n : b[i] = list[n + i]
  BY <1>2
<1> HIDE DEF a, b
<1>5. r = (a \o <<item>>) \o b
  BY <1>1 DEF a, b
<1>6. a \o <<item>> \in Seq(PendingInterrupt) /\ Len(a \o <<item>>) = n + 1
      /\ (\A i \in 1 .. n : (a \o <<item>>)[i] = list[i]) /\ (a \o <<item>>)[n + 1] = item
  BY <1>2, <1>3
<1> DEFINE c == a \o <<item>>
<1>7. c \in Seq(PendingInterrupt) /\ Len(c) = n + 1 /\ r = c \o b
      /\ (\A i \in 1 .. n : c[i] = list[i]) /\ c[n + 1] = item
  BY <1>5, <1>6
<1> HIDE DEF c
<1>8. r \in Seq(PendingInterrupt) /\ Len(r) = Len(list) + 1
      /\ (\A i \in 1 .. n + 1 : r[i] = c[i])
      /\ \A i \in n + 2 .. Len(list) + 1 : r[i] = b[i - (n + 1)]
  BY <1>2, <1>4, <1>7
<1>9. \A i \in 1 .. Len(list) : IF i <= n THEN r[i] = list[i] ELSE r[i + 1] = list[i]
  <2> SUFFICES ASSUME NEW i \in 1 .. Len(list)
               PROVE  IF i <= n THEN r[i] = list[i] ELSE r[i + 1] = list[i]
    OBVIOUS
  <2>1. CASE i <= n
    BY <1>2, <1>7, <1>8, <2>1
  <2>2. CASE ~(i <= n)
    <3>1. i + 1 \in n + 2 .. Len(list) + 1 /\ i - n \in 1 .. Len(list) - n /\ (i + 1) - (n + 1) = i - n
          /\ n + (i - n) = i
      BY <1>2, <2>2
    <3>2. r[i + 1] = b[i - n] /\ b[i - n] = list[n + (i - n)]
      BY <1>4, <1>8, <3>1
    <3> QED
      BY <2>2, <3>1, <3>2
  <2> QED
    BY <2>1, <2>2
<1>10. r[n + 1] = item /\ DOMAIN r = 1 .. Len(list) + 1
  BY <1>2, <1>7, <1>8
<1> QED
  BY <1>1, <1>8, <1>9, <1>10 DEF r

(* What SortedInsert keeps: the order, the one disk interrupt, and every   *)
(* element.                                                                *)
LEMMA InsertKeeps ==
  ASSUME NEW list \in Seq(PendingInterrupt), NEW item \in PendingInterrupt, NEW r,
         r = SortedInsert(list, item),
         IsSorted(list), Lone(list), item.type = "TimerInt" \/ ~HasDisk(list)
  PROVE  /\ r \in Seq(PendingInterrupt) /\ IsSorted(r) /\ Lone(r)
         /\ HasDisk(r) <=> HasDisk(list) \/ item.type = "DiskInt"
         /\ \A i \in DOMAIN r : r[i] = item \/ \E j \in DOMAIN list : r[i] = list[j]
<1>0. PICK q \in Seq(PendingInterrupt) :
         /\ q = SortedInsert(list, item) /\ DOMAIN q = 1 .. Len(list) + 1
         /\ \E n \in 0 .. Len(list) :
              /\ \A i \in 1 .. Len(list) : i <= n => list[i].key <= item.key
              /\ n < Len(list) => item.key < list[n + 1].key
              /\ q[n + 1] = item
              /\ \A i \in 1 .. Len(list) : IF i <= n THEN q[i] = list[i] ELSE q[i + 1] = list[i]
  BY InsertShape
<1>a. q = r
  BY <1>0
<1>1. PICK n \in 0 .. Len(list) :
         /\ \A i \in 1 .. Len(list) : i <= n => list[i].key <= item.key
         /\ n < Len(list) => item.key < list[n + 1].key
         /\ r[n + 1] = item
         /\ \A i \in 1 .. Len(list) : IF i <= n THEN r[i] = list[i] ELSE r[i + 1] = list[i]
  BY <1>0, <1>a
<1>2. r \in Seq(PendingInterrupt) /\ DOMAIN r = 1 .. Len(list) + 1
  BY <1>0, <1>a
<1>3. /\ DOMAIN list = 1 .. Len(list) /\ Len(list) \in Nat /\ n \in Nat /\ n <= Len(list)
      /\ item.key \in Nat /\ item.type \in {"TimerInt", "DiskInt"}
      /\ \A i \in 1 .. Len(list) : list[i].key \in Nat
  <2>1. DOMAIN list = 1 .. Len(list) /\ Len(list) \in Nat /\ n \in Nat /\ n <= Len(list)
        /\ \A i \in 1 .. Len(list) : list[i] \in PendingInterrupt
    OBVIOUS
  <2>2. \A x \in PendingInterrupt : x.key \in Nat /\ x.type \in {"TimerInt", "DiskInt"}
    BY DEF PendingInterrupt, IntType
  <2> QED
    BY <2>1, <2>2
<1>4. \A i \in 1 .. Len(list) + 1 :
        /\ i <= n => i \in 1 .. Len(list) /\ r[i] = list[i]
        /\ i = n + 1 => r[i] = item
        /\ i > n + 1 => i - 1 \in 1 .. Len(list) /\ r[i] = list[i - 1]
  <2> SUFFICES ASSUME NEW i \in 1 .. Len(list) + 1
               PROVE  /\ i <= n => i \in 1 .. Len(list) /\ r[i] = list[i]
                      /\ i = n + 1 => r[i] = item
                      /\ i > n + 1 => i - 1 \in 1 .. Len(list) /\ r[i] = list[i - 1]
    OBVIOUS
  <2>1. CASE i <= n
    <3>1. i \in 1 .. Len(list) /\ ~(i = n + 1) /\ ~(i > n + 1)
      BY <1>3, <2>1
    <3> QED
      BY <1>1, <2>1, <3>1
  <2>2. CASE i = n + 1
    BY <1>1, <1>3, <2>2
  <2>3. CASE i > n + 1
    <3>1. i - 1 \in 1 .. Len(list) /\ ~(i - 1 <= n) /\ (i - 1) + 1 = i /\ ~(i <= n) /\ ~(i = n + 1)
      BY <1>3, <2>3
    <3>2. r[(i - 1) + 1] = list[i - 1]
      BY <1>1, <3>1
    <3> QED
      BY <3>1, <3>2
  <2> QED
    BY <1>3, <2>1, <2>2, <2>3
<1>5. \A i \in DOMAIN r : r[i] = item \/ \E j \in DOMAIN list : r[i] = list[j]
  <2> SUFFICES ASSUME NEW i \in 1 .. Len(list) + 1
               PROVE  r[i] = item \/ \E j \in 1 .. Len(list) : r[i] = list[j]
    BY <1>2, <1>3
  <2>1. i <= n \/ i = n + 1 \/ i > n + 1
    BY <1>3
  <2> QED
    BY <1>4, <2>1
<1>6. IsSorted(r)
  <2>1. \A i, j \in 1 .. Len(list) : i <= j => list[i].key <= list[j].key
    BY <1>3 DEF IsSorted
  <2>2. \A i \in 1 .. Len(list) : i > n => item.key <= list[i].key
    <3> SUFFICES ASSUME NEW i \in 1 .. Len(list), i > n PROVE item.key <= list[i].key
      OBVIOUS
    <3>1. n + 1 \in 1 .. Len(list) /\ n + 1 <= i /\ n < Len(list)
      BY <1>3
    <3>2. list[n + 1].key <= list[i].key /\ item.key < list[n + 1].key
      BY <1>1, <2>1, <3>1
    <3> QED
      BY <1>3, <3>1, <3>2
  <2> SUFFICES ASSUME NEW i \in 1 .. Len(list) + 1, NEW j \in 1 .. Len(list) + 1, i <= j
               PROVE  r[i].key <= r[j].key
    BY <1>2 DEF IsSorted
  <2>3. CASE j <= n
    <3>1. i <= n /\ i \in 1 .. Len(list) /\ j \in 1 .. Len(list)
      BY <1>3, <2>3
    <3> QED
      BY <1>4, <2>1, <2>3, <3>1
  <2>4. CASE j = n + 1
    <3>1. i <= n \/ i = n + 1
      BY <1>3, <2>4
    <3>2. CASE i = n + 1
      BY <1>3, <1>4, <2>4, <3>2
    <3>3. CASE i <= n
      <4>1. i \in 1 .. Len(list) /\ r[i] = list[i] /\ r[j] = item
        BY <1>4, <2>4, <3>3
      <4> QED
        BY <1>1, <3>3, <4>1
    <3> QED
      BY <3>1, <3>2, <3>3
  <2>5. CASE j > n + 1
    <3>0. j - 1 \in 1 .. Len(list) /\ r[j] = list[j - 1] /\ j - 1 > n
      BY <1>3, <1>4, <2>5
    <3>1. CASE i <= n
      <4>1. i \in 1 .. Len(list) /\ r[i] = list[i] /\ i <= j - 1
        BY <1>3, <1>4, <3>1, <3>0
      <4> QED
        BY <2>1, <3>0, <4>1
    <3>2. CASE i = n + 1
      <4>1. r[i] = item
        BY <1>4, <3>2
      <4> QED
        BY <2>2, <3>0, <4>1
    <3>3. CASE i > n + 1
      <4>1. i - 1 \in 1 .. Len(list) /\ r[i] = list[i - 1] /\ i - 1 <= j - 1
        BY <1>4, <3>3
      <4> QED
        BY <2>1, <3>0, <4>1
    <3>4. i <= n \/ i = n + 1 \/ i > n + 1
      BY <1>3
    <3> QED
      BY <3>1, <3>2, <3>3, <3>4
  <2>6. j <= n \/ j = n + 1 \/ j > n + 1
    BY <1>3
  <2> QED
    BY <2>3, <2>4, <2>5, <2>6
<1>7. n + 1 \in 1 .. Len(list) + 1 /\ \A i \in 1 .. Len(list) : i + 1 \in 1 .. Len(list) + 1
                                                               /\ i \in 1 .. Len(list) + 1
  BY <1>3
<1>8. HasDisk(r) <=> HasDisk(list) \/ item.type = "DiskInt"
  <2>1. ASSUME HasDisk(r) PROVE HasDisk(list) \/ item.type = "DiskInt"
    BY <1>5, <2>1 DEF HasDisk
  <2>2. ASSUME item.type = "DiskInt" PROVE HasDisk(r)
    BY <1>1, <1>2, <1>7, <2>2 DEF HasDisk
  <2>3. ASSUME HasDisk(list) PROVE HasDisk(r)
    <3>1. PICK i \in 1 .. Len(list) : list[i].type = "DiskInt"
      BY <1>3, <2>3 DEF HasDisk
    <3>2. r[i] = list[i] \/ r[i + 1] = list[i]
      BY <1>1
    <3> QED
      BY <1>2, <1>7, <3>1, <3>2 DEF HasDisk
  <2> QED
    BY <2>1, <2>2, <2>3
<1>9. Lone(r)
  <2> SUFFICES ASSUME NEW i \in 1 .. Len(list) + 1, NEW j \in 1 .. Len(list) + 1,
                      r[i].type = "DiskInt", r[j].type = "DiskInt"
               PROVE  i = j
    BY <1>2 DEF Lone
  <2>1. CASE item.type = "DiskInt"
    <3>1. \A k \in 1 .. Len(list) : list[k].type # "DiskInt"
      BY <1>3, <2>1 DEF HasDisk
    <3>2. i = n + 1
      <4>1. ~(i <= n) /\ ~(i > n + 1)
        BY <1>4, <3>1
      <4> QED
        BY <1>3, <4>1
    <3>3. j = n + 1
      <4>1. ~(j <= n) /\ ~(j > n + 1)
        BY <1>4, <3>1
      <4> QED
        BY <1>3, <4>1
    <3> QED
      BY <3>2, <3>3
  <2>2. CASE item.type = "TimerInt"
    <3>1. \A k, l \in 1 .. Len(list) : list[k].type = "DiskInt" /\ list[l].type = "DiskInt" => k = l
      BY <1>3 DEF Lone
    <3>2. i # n + 1 /\ j # n + 1
      BY <1>4, <2>2
    <3>3. (i <= n \/ i > n + 1) /\ (j <= n \/ j > n + 1)
      BY <1>3, <3>2
    <3>4. CASE i <= n /\ j <= n
      BY <1>4, <3>1, <3>4
    <3>5. CASE i <= n /\ j > n + 1
      <4>1. i = j - 1
        BY <1>4, <3>1, <3>5
      <4> QED
        BY <1>3, <3>5, <4>1
    <3>6. CASE i > n + 1 /\ j <= n
      <4>1. i - 1 = j
        BY <1>4, <3>1, <3>6
      <4> QED
        BY <1>3, <3>6, <4>1
    <3>7. CASE i > n + 1 /\ j > n + 1
      <4>1. i - 1 = j - 1
        BY <1>4, <3>1, <3>7
      <4> QED
        BY <4>1
    <3> QED
      BY <3>3, <3>4, <3>5, <3>6, <3>7
  <2> QED
    BY <1>3, <2>1, <2>2
<1> QED
  BY <1>2, <1>5, <1>6, <1>8, <1>9

(* What removing the first interrupt keeps.                                *)
LEMMA RemoveKeeps ==
  ASSUME NEW list \in Seq(PendingInterrupt), list # <<>>, NEW r, r = SortedRemove(list),
         IsSorted(list), Lone(list)
  PROVE  /\ r \in Seq(PendingInterrupt) /\ IsSorted(r) /\ Lone(r)
         /\ HasDisk(r) <=> HasDisk(list) /\ Head(list).type # "DiskInt"
         /\ Head(list) = list[1] /\ Head(list) \in PendingInterrupt /\ 1 \in DOMAIN list
         /\ \A i \in DOMAIN list : Head(list).key <= list[i].key
         /\ \A i \in DOMAIN r : i + 1 \in DOMAIN list /\ r[i] = list[i + 1]
<1>1. /\ DOMAIN list = 1 .. Len(list) /\ Len(list) \in Nat /\ Len(list) # 0
      /\ \A i \in 1 .. Len(list) : list[i] \in PendingInterrupt
  OBVIOUS
<1>2. r \in Seq(PendingInterrupt) /\ DOMAIN r = 1 .. Len(list) - 1 /\ Head(list) = list[1]
      /\ \A i \in 1 .. Len(list) - 1 : r[i] = list[i + 1]
  BY DEF SortedRemove
<1>3. 1 \in 1 .. Len(list) /\ \A i \in 1 .. Len(list) : 1 <= i
  BY <1>1
<1>4. \A i \in DOMAIN r : i + 1 \in DOMAIN list /\ r[i] = list[i + 1]
  BY <1>1, <1>2
<1>5. IsSorted(r)
  <2>1. \A i, j \in DOMAIN r : i <= j => i + 1 <= j + 1
    BY <1>1, <1>2
  <2> QED
    BY <1>4, <2>1 DEF IsSorted
<1>6. Lone(r)
  <2>1. \A i, j \in DOMAIN r : i + 1 = j + 1 => i = j
    BY <1>1, <1>2
  <2> QED
    BY <1>4, <2>1 DEF Lone
<1>7. \A i \in DOMAIN list : Head(list).key <= list[i].key
  BY <1>1, <1>2, <1>3 DEF IsSorted
<1>8. HasDisk(r) <=> HasDisk(list) /\ Head(list).type # "DiskInt"
  <2>1. ASSUME HasDisk(r) PROVE HasDisk(list) /\ Head(list).type # "DiskInt"
    <3>1. PICK i \in DOMAIN r : r[i].type = "DiskInt"
      BY <2>1 DEF HasDisk
    <3>2. i + 1 \in DOMAIN list /\ list[i + 1].type = "DiskInt" /\ i + 1 # 1
      BY <1>1, <1>2, <1>4, <3>1
    <3> QED
      BY <1>1, <1>2, <1>3, <3>2 DEF HasDisk, Lone
  <2>2. ASSUME HasDisk(list), Head(list).type # "DiskInt" PROVE HasDisk(r)
    <3>1. PICK i \in 1 .. Len(list) : list[i].type = "DiskInt"
      BY <1>1, <2>2 DEF HasDisk
    <3>2. i # 1
      BY <1>2, <2>2, <3>1
    <3>3. i - 1 \in 1 .. Len(list) - 1 /\ (i - 1) + 1 = i
      BY <1>1, <3>2
    <3>4. i - 1 \in DOMAIN r /\ r[i - 1] = list[(i - 1) + 1]
      BY <1>2, <3>3
    <3>5. r[i - 1] = list[i]
      BY <3>3, <3>4
    <3> QED
      BY <3>1, <3>4, <3>5 DEF HasDisk
  <2> QED
    BY <2>1, <2>2
<1> QED
  BY <1>1, <1>2, <1>3, <1>4, <1>5, <1>6, <1>7, <1>8
-----------------------------------------------------------------------------
(* The disk's arithmetic.                                                  *)

LEMMA ProductIsNat == \A a, b \in Nat : a * b \in Nat
OBVIOUS

LEMMA DivIsInt == \A a \in Int, b \in Nat \ {0} : a \div b \in Int
OBVIOUS

LEMMA ModBounds == \A a \in Int, b \in Nat \ {0} : a % b \in 0 .. b - 1
OBVIOUS

(* A seek takes no negative time, the rotation after it neither, and every *)
(* request takes at least the time to transfer one sector.                 *)
LEMMA Timing ==
  ASSUME TypeOK, NEW s \in Sector, NEW w \in BOOLEAN
  PROVE  /\ Seek(s) \in Nat /\ Rotation(Seek(s)) \in Nat
         /\ ComputeLatency(s, w) \in Nat /\ ComputeLatency(s, w) > 0
<1>1. totalTicks \in Nat /\ disk.lastSector \in Int /\ s \in Int
  <2>1. SectorsPerTrack * NumTracks \in Int
    BY DiskAssumption
  <2>2. totalTicks \in Nat /\ disk.lastSector \in Sector
    BY DEF TypeOK
  <2> QED
    BY <2>1, <2>2 DEF Sector
<1>2. Seek(s) \in Nat
  <2>1. s \div SectorsPerTrack \in Int /\ disk.lastSector \div SectorsPerTrack \in Int
    BY <1>1, DivIsInt, DiskAssumption
  <2>2. Abs(s \div SectorsPerTrack - disk.lastSector \div SectorsPerTrack) \in Nat
    BY <2>1 DEF Abs
  <2> QED
    BY <2>2, ProductIsNat, DiskAssumption DEF Seek
<1>3. Rotation(Seek(s)) \in Nat
  <2>1. (totalTicks + Seek(s)) % RotationTime \in 0 .. RotationTime - 1
    BY <1>1, <1>2, ModBounds, DiskAssumption
  <2> QED
    BY <2>1, DiskAssumption DEF Rotation
<1>4. ComputeLatency(s, w) \in Nat /\ ComputeLatency(s, w) > 0
  <2> DEFINE seek == Seek(s)
             timeAfter == totalTicks + seek + Rotation(seek)
             turns == ModuloDiff(s, timeAfter \div RotationTime)
  <2>1. timeAfter \in Nat
    BY <1>1, <1>2, <1>3
  <2>2. timeAfter \div RotationTime \in Int
    BY <2>1, DivIsInt, DiskAssumption
  <2> DEFINE from == timeAfter \div RotationTime
  <2>3. from \in Int
    BY <2>2
  <2> HIDE DEF from
  <2>4. s % SectorsPerTrack \in Int /\ from % SectorsPerTrack \in Int
    BY <1>1, <2>3, ModBounds, DiskAssumption
  <2>5. ModuloDiff(s, from) \in Nat
    <3> DEFINE d == ((s % SectorsPerTrack) - (from % SectorsPerTrack)) + SectorsPerTrack
    <3>1. d \in Int /\ SectorsPerTrack \in Nat \ {0}
      BY <2>4, DiskAssumption
    <3> HIDE DEF d
    <3>2. d % SectorsPerTrack \in Nat
      BY <3>1, ModBounds
    <3> QED
      BY <3>2 DEF d, ModuloDiff
  <2>6. turns \in Nat
    BY <2>5 DEF from
  <2>7. turns * RotationTime \in Nat
    BY <2>6, ProductIsNat, DiskAssumption
  <2>8. ComputeLatency(s, w) \in {RotationTime, seek + Rotation(seek) + turns * RotationTime + RotationTime}
    BY DEF ComputeLatency
  <2> HIDE DEF turns, timeAfter
  <2> QED
    BY <1>2, <1>3, <2>7, <2>8, DiskAssumption
<1> QED
  BY <1>2, <1>3, <1>4

(* The state of the disk with a request under way.                         *)
LEMMA UpdateLastTyped ==
  ASSUME TypeOK, NEW s \in Sector
  PROVE  /\ UpdateLast(s) \in [active : BOOLEAN, lastSector : Sector, bufferInit : Nat]
         /\ UpdateLast(s).active = TRUE
<1>1. Seek(s) \in Nat /\ Rotation(Seek(s)) \in Nat
  BY Timing
<1>2. totalTicks \in Nat /\ disk.bufferInit \in Nat
  BY DEF TypeOK
<1>3. (IF Seek(s) # 0 THEN totalTicks + Seek(s) + Rotation(Seek(s)) ELSE disk.bufferInit) \in Nat
  BY <1>1, <1>2
<1> QED
  BY <1>3 DEF UpdateLast
-----------------------------------------------------------------------------
(* Dispatch, P and the handlers.                                           *)

LEMMA SameDisk == disk' = disk => (Active' <=> Active)
BY DEF Active

LEMMA DispatchEffect ==
  ASSUME NEW list \in Seq(Thread), readyList \in Seq(Thread), current \in Thread, Dispatch(list)
  PROVE  /\ readyList' \in Seq(Thread) /\ current' \in Thread
         /\ mode' \in {"run", "idle"}
         /\ list # <<>> => mode' = "run"
<1>1. CASE list = <<>>
  BY <1>1 DEF Dispatch
<1>2. CASE list # <<>>
  <2>1. Head(list) \in Thread /\ Tail(list) \in Seq(Thread)
    BY <1>2
  <2> QED
    BY <1>2, <2>1 DEF Dispatch
<1> QED
  BY <1>1, <1>2

(* The two outcomes of the test in P.                                      *)
LEMMA PEffect ==
  ASSUME TypeOK, NEW t \in Thread, current = t, P(t)
  PROVE  /\ readyList' \in Seq(Thread) /\ current' \in Thread
         /\ semaphore' \in [value : Nat, queue : Seq(Thread)]
         /\ \/ /\ semaphore.value = 0 /\ semaphore'.value = 0
               /\ pc' = [pc EXCEPT ![t] = "waits"]
               /\ mode' \in {"run", "idle"} /\ totalTicks' = totalTicks
            \/ /\ semaphore.value > 0 /\ semaphore'.value = semaphore.value - 1
               /\ pc' = [pc EXCEPT ![t] = "ready"]
               /\ mode' = "tick" /\ totalTicks' = totalTicks + SystemTick /\ current' = current
<1>1. readyList \in Seq(Thread) /\ semaphore \in [value : Nat, queue : Seq(Thread)]
      /\ semaphore.value \in Nat /\ semaphore.queue \in Seq(Thread) /\ current \in Thread
  BY DEF TypeOK
<1>2. CASE semaphore.value = 0
  <2>1. /\ semaphore' = [semaphore EXCEPT !.queue = Append(semaphore.queue, t)]
        /\ pc' = [pc EXCEPT ![t] = "waits"]
        /\ Dispatch(readyList) /\ totalTicks' = totalTicks
    BY <1>2 DEF P
  <2>2. Append(semaphore.queue, t) \in Seq(Thread)
    BY <1>1
  <2>3. semaphore' \in [value : Nat, queue : Seq(Thread)] /\ semaphore'.value = semaphore.value
    BY <1>1, <2>1, <2>2
  <2>4. readyList' \in Seq(Thread) /\ current' \in Thread /\ mode' \in {"run", "idle"}
    BY <1>1, <2>1, DispatchEffect
  <2> QED
    BY <1>2, <2>1, <2>3, <2>4
<1>3. CASE semaphore.value # 0
  <2>1. /\ semaphore' = [semaphore EXCEPT !.value = semaphore.value - 1]
        /\ pc' = [pc EXCEPT ![t] = "ready"]
        /\ totalTicks' = totalTicks + SystemTick /\ mode' = "tick"
        /\ readyList' = readyList /\ current' = current
    BY <1>3 DEF P, OneTick
  <2>2. semaphore.value - 1 \in Nat /\ semaphore.value > 0
    BY <1>1, <1>3
  <2>3. semaphore' \in [value : Nat, queue : Seq(Thread)] /\ semaphore'.value = semaphore.value - 1
    BY <1>1, <2>1, <2>2
  <2> QED
    BY <1>1, <2>1, <2>2, <2>3
<1> QED
  BY <1>2, <1>3

(* The slices of the timer are positive.                                   *)
LEMMA SliceTyped ==
  ASSUME NEW now \in Nat, NEW n \in TimeOfNextInterrupt(now)
  PROVE  n \in Nat /\ n > 0
<1>1. 2 * TimerTicks \in Nat /\ 2 * TimerTicks > 0
  BY DiskAssumption
<1> QED
  BY <1>1 DEF TimeOfNextInterrupt

LEMMA ItemTyped ==
  ASSUME NEW type \in IntType, NEW key \in Nat
  PROVE  [type |-> type, key |-> key] \in PendingInterrupt
BY DEF PendingInterrupt

(* The handler of the first interrupt keeps Clock, adds only interrupts of *)
(* the future, and leaves the sum of tokens and requests as it was.        *)
LEMMA FireEffect ==
  ASSUME TypeOK, Clock, pending # <<>>, NEW now \in Nat, Fire(now)
  PROVE  /\ totalTicks' = now
         /\ pending' \in Seq(PendingInterrupt) /\ yieldOnReturn' \in BOOLEAN
         /\ readyList' \in Seq(Thread)
         /\ semaphore' \in [value : Nat, queue : Seq(Thread)]
         /\ disk' \in [active : BOOLEAN, lastSector : Sector, bufferInit : Nat]
         /\ Clock'
         /\ \A i \in DOMAIN pending' :
              \/ pending'[i].key > now /\ pending'[i].type = "TimerInt"
              \/ \E j \in DOMAIN pending : pending'[i] = pending[j]
         /\ \/ /\ Active /\ ~Active' /\ Head(pending).type = "DiskInt"
               /\ disk'.bufferInit = disk.bufferInit
               /\ semaphore'.value = semaphore.value + 1
               /\ answered' = answered \cup {flight.by}
            \/ disk' = disk /\ semaphore' = semaphore /\ answered' = answered
         /\ UNCHANGED <<serial, current, pc, arrived, flight>>
<1>1. pending \in Seq(PendingInterrupt) /\ IsSorted(pending) /\ Lone(pending)
  BY DEF TypeOK, Clock
<1>2. PICK r : r = SortedRemove(pending)
  OBVIOUS
<1>3. /\ r \in Seq(PendingInterrupt) /\ IsSorted(r) /\ Lone(r)
      /\ HasDisk(r) <=> HasDisk(pending) /\ Head(pending).type # "DiskInt"
      /\ \A i \in DOMAIN r : \E j \in DOMAIN pending : r[i] = pending[j]
      /\ Head(pending) = pending[1] /\ 1 \in DOMAIN pending
  BY <1>1, <1>2, RemoveKeeps
<1>4. /\ totalTicks' = now /\ UNCHANGED <<serial, current, pc, arrived, flight>>
  BY DEF Fire
<1>5. readyList \in Seq(Thread) /\ semaphore \in [value : Nat, queue : Seq(Thread)]
      /\ semaphore.value \in Nat /\ semaphore.queue \in Seq(Thread)
  BY DEF TypeOK
<1>6. CASE Head(pending).type = "DiskInt" /\ DiskDone
  <2>1. /\ disk' = [disk EXCEPT !.active = FALSE]
        /\ semaphore' = [value |-> semaphore.value + 1,
                         queue |-> IF semaphore.queue = <<>> THEN <<>> ELSE Tail(semaphore.queue)]
        /\ readyList' = IF semaphore.queue = <<>> THEN readyList
                        ELSE Append(readyList, Head(semaphore.queue))
        /\ answered' = answered \cup {flight.by}
        /\ pending' = r /\ yieldOnReturn' = yieldOnReturn
    BY <1>2, <1>6 DEF DiskDone
  <2>2. disk' \in [active : BOOLEAN, lastSector : Sector, bufferInit : Nat] /\ ~Active'
        /\ disk'.bufferInit = disk.bufferInit
    BY <2>1 DEF TypeOK, Active
  <2>3. (IF semaphore.queue = <<>> THEN <<>> ELSE Tail(semaphore.queue)) \in Seq(Thread)
    BY <1>5
  <2>4. semaphore' \in [value : Nat, queue : Seq(Thread)] /\ semaphore'.value = semaphore.value + 1
    BY <1>5, <2>1, <2>3
  <2>5. readyList' \in Seq(Thread)
    <3>1. CASE semaphore.queue = <<>>
      BY <1>5, <2>1, <3>1
    <3>2. CASE semaphore.queue # <<>>
      <4>1. Head(semaphore.queue) \in Thread
        BY <1>5, <3>2
      <4> QED
        BY <1>5, <2>1, <3>2, <4>1
    <3> QED
      BY <3>1, <3>2
  <2>6. HasDisk(pending) /\ ~HasDisk(r)
    BY <1>3, <1>6 DEF HasDisk
  <2>7. Active
    BY <2>6 DEF Clock
  <2>8. Clock'
    BY <1>3, <2>1, <2>2, <2>6 DEF Clock
  <2>9. yieldOnReturn' \in BOOLEAN
    BY <2>1 DEF TypeOK
  <2> QED
    BY <1>3, <1>4, <1>6, <2>1, <2>2, <2>4, <2>5, <2>7, <2>8, <2>9
<1>7. CASE Head(pending).type = "TimerInt" /\ TimerExpired(now)
  <2>1. /\ \E n \in TimeOfNextInterrupt(now) :
             pending' = SortedInsert(r, [type |-> "TimerInt", key |-> now + n])
        /\ yieldOnReturn' = TRUE
        /\ disk' = disk /\ semaphore' = semaphore /\ readyList' = readyList /\ answered' = answered
    BY <1>2, <1>7 DEF TimerExpired, Schedule
  <2>2. PICK n \in TimeOfNextInterrupt(now) :
             pending' = SortedInsert(r, [type |-> "TimerInt", key |-> now + n])
    BY <2>1
  <2>3. n \in Nat /\ n > 0
    BY SliceTyped
  <2>4. PICK item \in PendingInterrupt : item = [type |-> "TimerInt", key |-> now + n]
    <3>1. now + n \in Nat /\ "TimerInt" \in IntType
      BY <2>3 DEF IntType
    <3>2. [type |-> "TimerInt", key |-> now + n] \in PendingInterrupt
      BY <3>1, ItemTyped
    <3> QED
      BY <3>2
  <2>5. item.type = "TimerInt" /\ item.key = now + n /\ item.key > now
    BY <2>3, <2>4
  <2>6. /\ pending' \in Seq(PendingInterrupt) /\ IsSorted(pending') /\ Lone(pending')
        /\ HasDisk(pending') <=> HasDisk(r) \/ item.type = "DiskInt"
        /\ \A i \in DOMAIN pending' : pending'[i] = item \/ \E j \in DOMAIN r : pending'[i] = r[j]
    <3>1. pending' = SortedInsert(r, item)
      BY <2>2, <2>4
    <3> QED
      BY <1>3, <2>5, <3>1, InsertKeeps
  <2>7. HasDisk(pending') <=> HasDisk(pending)
    BY <1>3, <1>7, <2>5, <2>6
  <2>8. Clock'
    BY <2>1, <2>6, <2>7, SameDisk DEF Clock
  <2>9. \A i \in DOMAIN pending' :
           \/ pending'[i].key > now /\ pending'[i].type = "TimerInt"
           \/ \E j \in DOMAIN pending : pending'[i] = pending[j]
    BY <1>3, <2>5, <2>6
  <2>10. disk' \in [active : BOOLEAN, lastSector : Sector, bufferInit : Nat]
    BY <2>1 DEF TypeOK
  <2> QED
    BY <1>4, <1>5, <2>1, <2>6, <2>8, <2>9, <2>10
<1> QED
  BY <1>6, <1>7 DEF Fire
-----------------------------------------------------------------------------
(* The threads that wait.                                                  *)

LEMMA WaitersCount == IsFiniteSet(Waiters) /\ Cardinality(Waiters) \in Nat
<1>1. Waiters \in SUBSET Thread /\ IsFiniteSet(Thread)
  BY DiskAssumption DEF Waiters
<1>2. IsFiniteSet(Waiters)
  BY <1>1, FS_Subset
<1> QED
  BY <1>2, FS_CardinalityType

LEMMA NowWaits ==
  ASSUME TypeOK, NEW t \in Thread, pc' = [pc EXCEPT ![t] = "waits"]
  PROVE  /\ pc' \in [Thread -> PC]
         /\ Cardinality(Waiters') = IF pc[t] = "waits" THEN Cardinality(Waiters)
                                    ELSE Cardinality(Waiters) + 1
         /\ \A u \in Thread : pc'[u] # "waits" => u # t /\ pc[u] # "waits"
         /\ \A u \in Thread : pc'[u] = "waits" => u = t \/ pc[u] = "waits"
<1>1. pc \in [Thread -> PC]
  BY DEF TypeOK
<1>2. pc' \in [Thread -> PC] /\ pc'[t] = "waits" /\ \A u \in Thread : u # t => pc'[u] = pc[u]
  BY <1>1 DEF PC
<1>3. Waiters' = Waiters \cup {t}
  BY <1>2 DEF Waiters
<1>4. t \in Waiters <=> pc[t] = "waits"
  BY DEF Waiters
<1>5. Cardinality(Waiters \cup {t}) = IF t \in Waiters THEN Cardinality(Waiters)
                                      ELSE Cardinality(Waiters) + 1
  BY WaitersCount, FS_AddElement
<1> QED
  BY <1>2, <1>3, <1>4, <1>5

LEMMA NoLongerWaits ==
  ASSUME TypeOK, NEW t \in Thread, NEW at \in PC, at # "waits", pc' = [pc EXCEPT ![t] = at]
  PROVE  /\ pc' \in [Thread -> PC] /\ pc'[t] = at
         /\ Cardinality(Waiters') = IF pc[t] = "waits" THEN Cardinality(Waiters) - 1
                                    ELSE Cardinality(Waiters)
         /\ \A u \in Thread : pc'[u] = "waits" => u # t /\ pc[u] = "waits"
         /\ \A u \in Thread : pc'[u] # "waits" => u = t \/ pc[u] # "waits"
<1>1. pc \in [Thread -> PC]
  BY DEF TypeOK
<1>2. pc' \in [Thread -> PC] /\ pc'[t] = at /\ \A u \in Thread : u # t => pc'[u] = pc[u]
  BY <1>1
<1>3. Waiters' = Waiters \ {t}
  BY <1>2 DEF Waiters
<1>4. t \in Waiters <=> pc[t] = "waits"
  BY DEF Waiters
<1>5. Cardinality(Waiters \ {t}) = IF t \in Waiters THEN Cardinality(Waiters) - 1
                                   ELSE Cardinality(Waiters)
  BY WaitersCount, FS_RemoveElement
<1> QED
  BY <1>2, <1>3, <1>4, <1>5

(* A thread that was not waiting goes somewhere else.                      *)
LEMMA StillNotWaiting ==
  ASSUME TypeOK, Tokens, Turns, NEW t \in Thread, pc[t] # "waits",
         NEW at \in PC, at # "waits", pc' = [pc EXCEPT ![t] = at],
         mode' # "aborted", UNCHANGED <<serial, semaphore, disk, history>>
  PROVE  pc' \in [Thread -> PC] /\ pc'[t] = at /\ Tokens' /\ Turns'
<1>1. /\ pc' \in [Thread -> PC] /\ pc'[t] = at
      /\ Cardinality(Waiters') = Cardinality(Waiters)
      /\ \A u \in Thread : pc'[u] = "waits" => u # t /\ pc[u] = "waits"
      /\ \A u \in Thread : pc'[u] # "waits" => u = t \/ pc[u] # "waits"
  BY NoLongerWaits
<1>2. Tokens'
  BY <1>1, SameDisk DEF Tokens
<1>3. Turns'
  BY <1>1, SameDisk DEF Turns, history
<1> QED
  BY <1>1, <1>2, <1>3

(* When the first pending interrupt is not due, none is.                   *)
LEMMA NoneDue ==
  ASSUME TypeOK, Clock, NEW x \in Nat, pending = <<>> \/ ~(Head(pending).key <= x)
  PROVE  \A i \in DOMAIN pending : x < pending[i].key
<1>1. pending \in Seq(PendingInterrupt) /\ IsSorted(pending)
  BY DEF TypeOK, Clock
<1>2. CASE pending = <<>>
  BY <1>2
<1>3. CASE pending # <<>>
  <2>1. Head(pending) = pending[1] /\ 1 \in DOMAIN pending /\ \A i \in DOMAIN pending : 1 <= i
        /\ \A j \in DOMAIN pending : pending[j] \in PendingInterrupt
    BY <1>1, <1>3
  <2>2. \A y \in PendingInterrupt : y.key \in Nat
    BY DEF PendingInterrupt
  <2>3. \A i \in DOMAIN pending : pending[1].key <= pending[i].key /\ pending[i].key \in Nat
    BY <1>1, <2>1, <2>2 DEF IsSorted
  <2> QED
    BY <1>3, <2>1, <2>3
<1> QED
  BY <1>2, <1>3

LEMMA KeysOf ==
  ASSUME NEW list \in Seq(PendingInterrupt)
  PROVE  \A i \in DOMAIN list : list[i].key \in Nat
<1>1. \A i \in DOMAIN list : list[i] \in PendingInterrupt
  OBVIOUS
<1>2. \A y \in PendingInterrupt : y.key \in Nat
  BY DEF PendingInterrupt
<1> QED
  BY <1>1, <1>2

LEMMA TokenCases ==
  ASSUME Tokens
  PROVE  /\ Active => Cardinality(Waiters) = semaphore.value + 1
         /\ ~Active => Cardinality(Waiters) = semaphore.value + 0
BY DEF Tokens

LEMMA KeysTyped ==
  ASSUME TypeOK
  PROVE  \A i \in DOMAIN pending : pending[i] \in PendingInterrupt /\ pending[i].key \in Nat
<1>1. \A i \in DOMAIN pending : pending[i] \in PendingInterrupt
  BY DEF TypeOK
<1>2. \A y \in PendingInterrupt : y.key \in Nat
  BY DEF PendingInterrupt
<1> QED
  BY <1>1, <1>2
-----------------------------------------------------------------------------
(* Inv holds at the start.                                                 *)

LEMMA Start == Init => Inv
<1> SUFFICES ASSUME Init PROVE Inv
  OBVIOUS
<1>1. /\ serial \in BOOLEAN /\ totalTicks = 0 /\ mode = "run" /\ yieldOnReturn = FALSE
      /\ current = First /\ pc = [t \in Thread |-> "ready"]
      /\ semaphore = [value |-> 0, queue |-> <<>>]
      /\ disk = [active |-> FALSE, lastSector |-> 0, bufferInit |-> 0]
      /\ arrived = 0 /\ flight = [by |-> First, sector |-> 0, from |-> 0, issued |-> 0]
      /\ answered = Thread
  BY DEF Init, SemaphoreInit
<1>2. readyList \in Seq(Thread)
  <2>1. PICK s \in [1 .. Cardinality(Thread) - 1 -> Thread \ {First}] : readyList = s
    BY DEF Init
  <2>2. Cardinality(Thread) \in Nat
    BY DiskAssumption, FS_CardinalityType
  <2>3. Cardinality(Thread) # 0
    BY DiskAssumption, FS_EmptySet
  <2>4. PICK n \in Nat : n = Cardinality(Thread) - 1
    BY <2>2, <2>3
  <2>5. s \in [1 .. n -> Thread]
    BY <2>4
  <2>6. s \in Seq(Thread)
    BY <2>5
  <2> QED
    BY <2>1, <2>6
<1>3. 0 \in Sector /\ First \in Thread /\ First \in answered
  <2>1. SectorsPerTrack * NumTracks \in Nat /\ SectorsPerTrack * NumTracks # 0
    BY DiskAssumption
  <2> QED
    BY <1>1, <2>1, DiskAssumption DEF Sector
<1>4. /\ pending \in Seq(PendingInterrupt) /\ IsSorted(pending) /\ Lone(pending) /\ ~HasDisk(pending)
      /\ \A i \in DOMAIN pending : pending[i].key > 0
  <2>1. <<>> \in Seq(PendingInterrupt) /\ IsSorted(<<>>) /\ Lone(<<>>) /\ ~HasDisk(<<>>)
        /\ DOMAIN <<>> = {}
    BY DEF IsSorted, Lone, HasDisk
  <2>2. CASE pending = <<>>
    BY <2>1, <2>2
  <2>3. CASE \E n \in TimeOfNextInterrupt(0) : pending = Schedule(<<>>, n, 0, "TimerInt")
    <3>1. PICK n \in TimeOfNextInterrupt(0) : pending = Schedule(<<>>, n, 0, "TimerInt")
      BY <2>3
    <3>2. n \in Nat /\ n > 0 /\ 0 + n \in Nat /\ "TimerInt" \in IntType
      BY SliceTyped DEF IntType
    <3>3. PICK item \in PendingInterrupt : item = [type |-> "TimerInt", key |-> 0 + n]
      <4>1. [type |-> "TimerInt", key |-> 0 + n] \in PendingInterrupt
        BY <3>2, ItemTyped
      <4> QED
        BY <4>1
    <3>4. item.type = "TimerInt" /\ item.key > 0 /\ pending = SortedInsert(<<>>, item)
      BY <3>1, <3>2, <3>3 DEF Schedule
    <3>5. PICK list \in Seq(PendingInterrupt) : list = <<>>
      BY <2>1
    <3>6. IsSorted(list) /\ Lone(list) /\ ~HasDisk(list) /\ DOMAIN list = {}
          /\ pending = SortedInsert(list, item)
      BY <2>1, <3>4, <3>5
    <3>7. /\ pending \in Seq(PendingInterrupt) /\ IsSorted(pending) /\ Lone(pending)
          /\ HasDisk(pending) <=> HasDisk(list) \/ item.type = "DiskInt"
          /\ \A i \in DOMAIN pending : pending[i] = item \/ \E j \in DOMAIN list : pending[i] = list[j]
      BY <3>4, <3>6, InsertKeeps
    <3> QED
      BY <3>4, <3>6, <3>7
  <2> QED
    BY <2>2, <2>3 DEF Init
<1>5. TypeOK
  <2>1. semaphore \in [value : Nat, queue : Seq(Thread)]
    BY <1>1
  <2>2. disk \in [active : BOOLEAN, lastSector : Sector, bufferInit : Nat]
    BY <1>1, <1>3
  <2>3. flight \in [by : Thread, sector : Sector, from : Nat, issued : Nat]
    BY <1>1, <1>3
  <2>4. pc \in [Thread -> PC] /\ mode \in Mode
    BY <1>1 DEF PC, Mode
  <2> QED
    BY <1>1, <1>2, <1>3, <1>4, <2>1, <2>2, <2>3, <2>4 DEF TypeOK
<1>6. Clock
  BY <1>1, <1>4 DEF Clock, Active
<1>7. NotLate /\ NeverLate
  <2>1. \A i \in DOMAIN pending : pending[i].key > 0 /\ pending[i].key \in Nat
    BY <1>4, <1>5, KeysTyped
  <2> QED
    BY <1>1, <2>1 DEF NotLate, NeverLate
<1>8. Tokens
  <2>1. Waiters = {}
    BY <1>1 DEF Waiters
  <2> QED
    BY <1>1, <2>1, FS_EmptySet DEF Tokens, Active
<1>9. Ticking /\ Turns
  BY <1>1, <1>3 DEF Ticking, Turns
<1> QED
  BY <1>5, <1>6, <1>7, <1>8, <1>9 DEF Inv
-----------------------------------------------------------------------------
(* Every action keeps Inv.                                                 *)

(* A request that fails an ASSERT.                                         *)
LEMMA AbortKeeps ==
  ASSUME Inv, serial # TRUE, mode' = "aborted",
         UNCHANGED <<serial, yieldOnReturn, threadVars, totalTicks, pending, semaphore, disk, history>>
  PROVE  Inv'
<1>1. TypeOK'
  BY DEF Inv, TypeOK, threadVars, history, Mode
<1>2. Clock'
  BY SameDisk DEF Inv, Clock
<1>3. NotLate' /\ NeverLate' /\ Ticking'
  BY DEF NotLate, NeverLate, Ticking
<1>4. Tokens'
  BY SameDisk DEF Inv, Tokens, Waiters, threadVars
<1>5. Turns'
  BY DEF Turns
<1> QED
  BY <1>1, <1>2, <1>3, <1>4, <1>5 DEF Inv

LEMMA AccessKeeps ==
  ASSUME Inv, NEW t \in Thread, NEW s \in Sector, NEW w \in BOOLEAN, Access(t, s, w)
  PROVE  Inv'
<1>1. /\ TypeOK /\ Clock /\ NotLate /\ NeverLate /\ Tokens /\ Ticking /\ Turns
  BY DEF Inv
<1>2. ComputeLatency(s, w) \in Nat /\ ComputeLatency(s, w) > 0 /\ Seek(s) \in Nat
  BY <1>1, Timing
<1>3. mode = "run" /\ current = t /\ pc[t] = "ready" /\ UNCHANGED <<serial, yieldOnReturn>>
  BY DEF Access, Running
<1>4. serial = TRUE => \A u \in Thread : pc[u] # "waits"
  BY DEF Access
<1>5. serial = TRUE => ~Active /\ semaphore.value = 0
  <2> SUFFICES ASSUME serial = TRUE PROVE ~Active /\ semaphore.value = 0
    OBVIOUS
  <2>1. Waiters = {}
    BY <1>4 DEF Waiters
  <2>2. Cardinality(Waiters) = 0 /\ semaphore.value \in Nat
    BY <1>1, <2>1, FS_EmptySet DEF TypeOK
  <2>3. /\ Active => Cardinality(Waiters) = semaphore.value + 1
        /\ ~Active => Cardinality(Waiters) = semaphore.value + 0
    BY <1>1, TokenCases
  <2>4. ~Active
    BY <2>2, <2>3
  <2> QED
    BY <2>2, <2>3, <2>4
<1>6. CASE Active
  <2>1. mode' = "aborted" /\ UNCHANGED <<threadVars, totalTicks, pending, semaphore, disk, history>>
    BY <1>6 DEF Access, Active
  <2>2. serial # TRUE
    BY <1>5, <1>6
  <2> QED
    BY <1>3, <2>1, <2>2, AbortKeeps
<1>7. CASE ~Active
  <2>a. disk.active = FALSE /\ ~Active
    BY <1>1, <1>7 DEF TypeOK, Active
  <2>1. /\ pending' = Schedule(pending, ComputeLatency(s, w), totalTicks, "DiskInt")
        /\ disk' = UpdateLast(s)
        /\ P(t)
        /\ arrived' = IF Seek(s) # 0 THEN totalTicks + Seek(s) ELSE arrived
        /\ flight' = [by |-> t, sector |-> s, issued |-> totalTicks,
                      from |-> IF w THEN totalTicks + Seek(s) ELSE arrived']
        /\ answered' = answered \ {t}
    <3>1. ~(disk.active \/ ComputeLatency(s, w) <= 0)
      BY <1>2, <2>a
    <3> QED
      BY <3>1 DEF Access
  <2>2. totalTicks \in Nat /\ totalTicks + ComputeLatency(s, w) \in Nat
        /\ totalTicks + ComputeLatency(s, w) > totalTicks /\ "DiskInt" \in IntType
    BY <1>1, <1>2 DEF TypeOK, IntType
  <2>3. PICK item \in PendingInterrupt :
           item = [type |-> "DiskInt", key |-> totalTicks + ComputeLatency(s, w)]
    <3>1. [type |-> "DiskInt", key |-> totalTicks + ComputeLatency(s, w)] \in PendingInterrupt
      BY <2>2, ItemTyped
    <3> QED
      BY <3>1
  <2>4. item.type = "DiskInt" /\ item.key > totalTicks /\ pending' = SortedInsert(pending, item)
    BY <2>1, <2>2, <2>3 DEF Schedule
  <2>5. pending \in Seq(PendingInterrupt) /\ IsSorted(pending) /\ Lone(pending) /\ ~HasDisk(pending)
    BY <1>1, <1>7 DEF TypeOK, Clock
  <2>6. /\ pending' \in Seq(PendingInterrupt) /\ IsSorted(pending') /\ Lone(pending')
        /\ HasDisk(pending') <=> HasDisk(pending) \/ item.type = "DiskInt"
        /\ \A i \in DOMAIN pending' : pending'[i] = item \/ \E j \in DOMAIN pending : pending'[i] = pending[j]
    BY <2>4, <2>5, InsertKeeps
  <2>7. disk' \in [active : BOOLEAN, lastSector : Sector, bufferInit : Nat] /\ Active'
    BY <1>1, <2>1, UpdateLastTyped DEF Active
  <2>8. Clock'
    BY <2>4, <2>6, <2>7 DEF Clock
  <2>9. /\ readyList' \in Seq(Thread) /\ current' \in Thread
        /\ semaphore' \in [value : Nat, queue : Seq(Thread)]
        /\ \/ /\ semaphore.value = 0 /\ semaphore'.value = 0
              /\ pc' = [pc EXCEPT ![t] = "waits"]
              /\ mode' \in {"run", "idle"} /\ totalTicks' = totalTicks
           \/ /\ semaphore.value > 0 /\ semaphore'.value = semaphore.value - 1
              /\ pc' = [pc EXCEPT ![t] = "ready"]
              /\ mode' = "tick" /\ totalTicks' = totalTicks + SystemTick /\ current' = current
    BY <1>1, <1>3, <2>1, PEffect
  <2>10. arrived' \in Nat /\ answered' \subseteq Thread
    BY <1>1, <1>2, <2>1 DEF TypeOK
  <2>11. flight' \in [by : Thread, sector : Sector, from : Nat, issued : Nat] /\ flight'.by = t
    <3>1. (IF w THEN totalTicks + Seek(s) ELSE arrived') \in Nat
      BY <1>2, <2>2, <2>10
    <3> QED
      BY <2>1, <2>2, <3>1
  <2>12. serial' \in BOOLEAN /\ yieldOnReturn' \in BOOLEAN
    BY <1>1, <1>3 DEF TypeOK
  <2>13. CASE /\ semaphore.value = 0 /\ semaphore'.value = 0
              /\ pc' = [pc EXCEPT ![t] = "waits"]
              /\ mode' \in {"run", "idle"} /\ totalTicks' = totalTicks
    <3>1. /\ pc' \in [Thread -> PC]
          /\ Cardinality(Waiters') = Cardinality(Waiters) + 1
          /\ \A u \in Thread : pc'[u] # "waits" => u # t /\ pc[u] # "waits"
          /\ \A u \in Thread : pc'[u] = "waits" => u = t \/ pc[u] = "waits"
      BY <1>1, <1>3, <2>13, NowWaits
    <3>2. TypeOK'
      BY <2>2, <2>6, <2>7, <2>9, <2>10, <2>11, <2>12, <2>13, <3>1 DEF TypeOK, Mode
    <3>3. \A i \in DOMAIN pending' : \/ pending'[i].key > totalTicks
                                     \/ \E j \in DOMAIN pending : pending'[i] = pending[j]
      BY <2>4, <2>6
    <3>4. NotLate' /\ NeverLate'
      <4>1. \A i \in DOMAIN pending : \/ pending[i].key > totalTicks
                                      \/ pending[i].type = "TimerInt" /\ pending[i].key = totalTicks
        BY <1>1, <1>3 DEF NeverLate
      <4>2. \A i \in DOMAIN pending' : \/ pending'[i].key > totalTicks
                                       \/ pending'[i].type = "TimerInt" /\ pending'[i].key = totalTicks
        BY <3>3, <4>1
      <4>3. \A i \in DOMAIN pending' : pending'[i].key \in Nat
        BY <2>6, KeysOf
      <4>4. totalTicks' = totalTicks
        BY <2>13
      <4> QED
        BY <2>2, <4>2, <4>3, <4>4 DEF NotLate, NeverLate
    <3>5. Tokens'
      BY <1>1, <2>a, <2>7, <2>13, <3>1 DEF Tokens
    <3>6. Ticking'
      BY <2>13 DEF Ticking
    <3>7. Turns'
      <4> SUFFICES ASSUME serial' = TRUE
                   PROVE  /\ mode' # "aborted"
                          /\ \A u \in Thread : pc'[u] # "waits" => u \in answered'
                          /\ \A u \in Thread : pc'[u] = "waits" => u = flight'.by
                          /\ Active' \/ flight'.by \in answered'
        BY DEF Turns
      <4>1. serial = TRUE
        BY <1>3
      <4> QED
        BY <1>1, <1>4, <2>1, <2>7, <2>11, <2>13, <3>1, <4>1 DEF Turns
    <3> QED
      BY <2>8, <3>2, <3>4, <3>5, <3>6, <3>7 DEF Inv
  <2>14. CASE /\ semaphore.value > 0 /\ semaphore'.value = semaphore.value - 1
              /\ pc' = [pc EXCEPT ![t] = "ready"]
              /\ mode' = "tick" /\ totalTicks' = totalTicks + SystemTick /\ current' = current
    <3>0. "ready" \in PC /\ serial # TRUE /\ semaphore.value \in Nat
      <4>1. semaphore.value \in Nat
        BY <1>1 DEF TypeOK
      <4>2. semaphore.value # 0
        BY <2>14, <4>1
      <4>3. serial # TRUE
        BY <1>5, <4>2
      <4> QED
        BY <4>1, <4>3 DEF PC
    <3>1. /\ pc' \in [Thread -> PC] /\ pc'[t] = "ready"
          /\ Cardinality(Waiters') = Cardinality(Waiters)
      BY <1>1, <1>3, <2>14, <3>0, NoLongerWaits
    <3>2. totalTicks' \in Nat
      BY <2>2, <2>14, DiskAssumption
    <3>3. TypeOK'
      BY <2>2, <2>6, <2>7, <2>9, <2>10, <2>11, <2>12, <2>14, <3>1, <3>2 DEF TypeOK, Mode
    <3>4. NotLate' /\ NeverLate'
      BY <2>14 DEF NotLate, NeverLate
    <3>5. Tokens'
      BY <1>1, <2>a, <2>7, <2>14, <3>0, <3>1 DEF Tokens
    <3>6. Ticking'
      BY <1>3, <2>14, <3>1 DEF Ticking
    <3>7. Turns'
      BY <1>3, <3>0 DEF Turns
    <3> QED
      BY <2>8, <3>3, <3>4, <3>5, <3>6, <3>7 DEF Inv
  <2> QED
    BY <2>9, <2>13, <2>14
<1> QED
  BY <1>6, <1>7

LEMMA WakeInPKeeps ==
  ASSUME Inv, NEW t \in Thread, WakeInP(t)
  PROVE  Inv'
<1>1. /\ TypeOK /\ Clock /\ NotLate /\ NeverLate /\ Tokens /\ Ticking /\ Turns
  BY DEF Inv
<1>2. mode = "run" /\ current = t /\ pc[t] = "waits" /\ P(t)
      /\ UNCHANGED <<serial, pending, yieldOnReturn, disk, history>>
  BY DEF WakeInP, Running
<1>3. /\ readyList' \in Seq(Thread) /\ current' \in Thread
      /\ semaphore' \in [value : Nat, queue : Seq(Thread)]
      /\ \/ /\ semaphore.value = 0 /\ semaphore'.value = 0
            /\ pc' = [pc EXCEPT ![t] = "waits"]
            /\ mode' \in {"run", "idle"} /\ totalTicks' = totalTicks
         \/ /\ semaphore.value > 0 /\ semaphore'.value = semaphore.value - 1
            /\ pc' = [pc EXCEPT ![t] = "ready"]
            /\ mode' = "tick" /\ totalTicks' = totalTicks + SystemTick /\ current' = current
  BY <1>1, <1>2, PEffect
<1>4. Clock'
  BY <1>1, <1>2, SameDisk DEF Clock
<1>5. CASE /\ semaphore.value = 0 /\ semaphore'.value = 0
           /\ pc' = [pc EXCEPT ![t] = "waits"]
           /\ mode' \in {"run", "idle"} /\ totalTicks' = totalTicks
  <2>1. /\ pc' \in [Thread -> PC]
        /\ Cardinality(Waiters') = Cardinality(Waiters)
        /\ \A u \in Thread : pc'[u] # "waits" => u # t /\ pc[u] # "waits"
        /\ \A u \in Thread : pc'[u] = "waits" => u = t \/ pc[u] = "waits"
    BY <1>1, <1>2, <1>5, NowWaits
  <2>2. TypeOK'
    BY <1>1, <1>2, <1>3, <1>5, <2>1 DEF TypeOK, Mode, history
  <2>3. NotLate' /\ NeverLate'
    BY <1>1, <1>2, <1>5 DEF NotLate, NeverLate
  <2>4. Tokens'
    BY <1>1, <1>2, <1>5, <2>1, SameDisk DEF Tokens
  <2>5. Ticking'
    BY <1>5 DEF Ticking
  <2>6. Turns'
    BY <1>1, <1>2, <1>5, <2>1, SameDisk DEF Turns, history
  <2> QED
    BY <1>4, <2>2, <2>3, <2>4, <2>5, <2>6 DEF Inv
<1>6. CASE /\ semaphore.value > 0 /\ semaphore'.value = semaphore.value - 1
           /\ pc' = [pc EXCEPT ![t] = "ready"]
           /\ mode' = "tick" /\ totalTicks' = totalTicks + SystemTick /\ current' = current
  <2>0. "ready" \in PC /\ semaphore.value \in Nat /\ totalTicks \in Nat
    BY <1>1 DEF PC, TypeOK
  <2>1. /\ pc' \in [Thread -> PC] /\ pc'[t] = "ready"
        /\ Cardinality(Waiters') = Cardinality(Waiters) - 1
        /\ \A u \in Thread : pc'[u] = "waits" => u # t /\ pc[u] = "waits"
        /\ \A u \in Thread : pc'[u] # "waits" => u = t \/ pc[u] # "waits"
    BY <1>1, <1>2, <1>6, <2>0, NoLongerWaits
  <2>2. totalTicks' \in Nat
    BY <1>6, <2>0, DiskAssumption
  <2>3. TypeOK'
    BY <1>1, <1>2, <1>3, <1>6, <2>1, <2>2 DEF TypeOK, Mode, history
  <2>4. NotLate' /\ NeverLate'
    BY <1>6 DEF NotLate, NeverLate
  <2>5. Tokens'
    <3>1. disk' = disk /\ Cardinality(Waiters) \in Nat
      BY <1>2, WaitersCount
    <3> QED
      BY <1>1, <1>6, <2>0, <2>1, <3>1, SameDisk DEF Tokens
  <2>6. Ticking'
    BY <1>2, <1>6, <2>1 DEF Ticking
  <2>7. Turns'
    <3> SUFFICES ASSUME serial' = TRUE
                 PROVE  /\ mode' # "aborted"
                        /\ \A u \in Thread : pc'[u] # "waits" => u \in answered'
                        /\ \A u \in Thread : pc'[u] = "waits" => u = flight'.by
                        /\ Active' \/ flight'.by \in answered'
      BY DEF Turns
    <3>1. serial = TRUE /\ UNCHANGED <<disk, flight, answered>>
      BY <1>2 DEF history
    <3>2. /\ \A u \in Thread : pc[u] # "waits" => u \in answered
          /\ \A u \in Thread : pc[u] = "waits" => u = flight.by
          /\ Active \/ flight.by \in answered
      BY <1>1, <3>1 DEF Turns
    <3>3. Waiters = {t}
      BY <1>2, <3>2 DEF Waiters
    <3>4. Cardinality(Waiters) = 1
      BY <3>3, FS_Singleton
    <3>a. Active => Cardinality(Waiters) = semaphore.value + 1
      BY <1>1, TokenCases
    <3>5. ~Active
      BY <1>6, <2>0, <3>4, <3>a
    <3>6. t \in answered
      BY <1>2, <3>2, <3>5
    <3> QED
      BY <1>6, <2>1, <3>1, <3>2, <3>6, SameDisk
  <2> QED
    BY <1>4, <2>3, <2>4, <2>5, <2>6, <2>7 DEF Inv
<1> QED
  BY <1>3, <1>5, <1>6

(* AfterYield and Work: a thread that does not wait runs into OneTick.     *)
LEMMA TickKeeps ==
  ASSUME Inv, NEW t \in Thread, NEW n \in Nat, current = t, pc[t] # "waits",
         pc' = [pc EXCEPT ![t] = "ready"], OneTick(n),
         UNCHANGED <<serial, readyList, current, pending, yieldOnReturn, semaphore, disk, history>>
  PROVE  Inv'
<1>1. /\ TypeOK /\ Clock /\ Tokens /\ Turns
  BY DEF Inv
<1>2. totalTicks' = totalTicks + n /\ mode' = "tick" /\ "ready" \in PC /\ totalTicks \in Nat
  BY <1>1 DEF OneTick, PC, TypeOK
<1>3. pc' \in [Thread -> PC] /\ pc'[t] = "ready" /\ Tokens' /\ Turns'
  BY <1>1, <1>2, StillNotWaiting
<1>4. totalTicks' \in Nat
  BY <1>2
<1>5. TypeOK'
  BY <1>1, <1>2, <1>3, <1>4 DEF TypeOK, Mode, history
<1>6. Clock'
  BY <1>1, SameDisk DEF Clock
<1>7. NotLate' /\ NeverLate' /\ Ticking'
  BY <1>2, <1>3 DEF NotLate, NeverLate, Ticking
<1> QED
  BY <1>3, <1>5, <1>6, <1>7 DEF Inv

LEMMA WorkKeeps ==
  ASSUME Inv, NEW t \in Thread, NEW n \in {UserTick, SystemTick}, Work(t, n)
  PROVE  Inv'
<1>1. mode = "run" /\ current = t /\ pc[t] = "ready" /\ OneTick(n)
      /\ UNCHANGED <<serial, readyList, current, pc, pending, yieldOnReturn, semaphore, disk, history>>
  BY DEF Work, Running, threadVars
<1>2. n \in Nat
  BY DiskAssumption
<1>3. pc' = [pc EXCEPT ![t] = "ready"]
  <2>1. pc \in [Thread -> PC]
    BY DEF Inv, TypeOK
  <2> QED
    BY <1>1, <2>1
<1> QED
  BY <1>1, <1>2, <1>3, TickKeeps

LEMMA AfterYieldKeeps ==
  ASSUME Inv, NEW t \in Thread, AfterYield(t)
  PROVE  Inv'
<1>1. mode = "run" /\ current = t /\ pc[t] = "yielded" /\ OneTick(SystemTick)
      /\ pc' = [pc EXCEPT ![t] = "ready"]
      /\ UNCHANGED <<serial, readyList, current, pending, yieldOnReturn, semaphore, disk, history>>
  BY DEF AfterYield, Running
<1>2. SystemTick \in Nat
  BY DiskAssumption
<1> QED
  BY <1>1, <1>2, TickKeeps

LEMMA FinishKeeps ==
  ASSUME Inv, NEW t \in Thread, Finish(t)
  PROVE  Inv'
<1>1. /\ TypeOK /\ Clock /\ NotLate /\ NeverLate /\ Tokens /\ Turns
  BY DEF Inv
<1>2. mode = "run" /\ pc[t] = "ready" /\ pc' = [pc EXCEPT ![t] = "finished"] /\ Dispatch(readyList)
      /\ UNCHANGED <<serial, totalTicks, pending, yieldOnReturn, semaphore, disk, history>>
  BY DEF Finish, Running
<1>3. readyList \in Seq(Thread) /\ current \in Thread /\ "finished" \in PC
  BY <1>1 DEF TypeOK, PC
<1>4. readyList' \in Seq(Thread) /\ current' \in Thread /\ mode' \in {"run", "idle"}
  BY <1>2, <1>3, DispatchEffect
<1>5. pc' \in [Thread -> PC] /\ Tokens' /\ Turns'
  BY <1>1, <1>2, <1>3, <1>4, StillNotWaiting
<1>6. TypeOK'
  BY <1>1, <1>2, <1>4, <1>5 DEF TypeOK, Mode, history
<1>7. Clock'
  BY <1>1, <1>2, SameDisk DEF Clock
<1>8. NotLate' /\ NeverLate' /\ Ticking'
  BY <1>1, <1>2, <1>4 DEF NotLate, NeverLate, Ticking
<1> QED
  BY <1>5, <1>6, <1>7, <1>8 DEF Inv

(* The handler of an interrupt, at a time when none before it is pending   *)
(* or inside OneTick.                                                      *)
LEMMA FireKeeps ==
  ASSUME Inv, pending # <<>>, NEW now \in Nat, Fire(now), mode' \in {"tick", "wake"},
         mode \in {"tick", "wake", "idle"}, mode' = "tick" => mode = "tick",
         mode' = "wake" => \A i \in DOMAIN pending : now <= pending[i].key
  PROVE  Inv'
<1>1. /\ TypeOK /\ Clock /\ Tokens /\ Ticking /\ Turns
  BY DEF Inv
<1>2. /\ totalTicks' = now
      /\ pending' \in Seq(PendingInterrupt) /\ yieldOnReturn' \in BOOLEAN
      /\ readyList' \in Seq(Thread)
      /\ semaphore' \in [value : Nat, queue : Seq(Thread)]
      /\ disk' \in [active : BOOLEAN, lastSector : Sector, bufferInit : Nat]
      /\ Clock'
      /\ \A i \in DOMAIN pending' :
           \/ pending'[i].key > now /\ pending'[i].type = "TimerInt"
           \/ \E j \in DOMAIN pending : pending'[i] = pending[j]
      /\ \/ /\ Active /\ ~Active' /\ Head(pending).type = "DiskInt"
            /\ disk'.bufferInit = disk.bufferInit
            /\ semaphore'.value = semaphore.value + 1
            /\ answered' = answered \cup {flight.by}
         \/ disk' = disk /\ semaphore' = semaphore /\ answered' = answered
      /\ UNCHANGED <<serial, current, pc, arrived, flight>>
  BY <1>1, FireEffect
<1>3. flight.by \in Thread /\ answered \subseteq Thread
  BY <1>1 DEF TypeOK
<1>4. answered' \subseteq Thread
  BY <1>2, <1>3
<1>5. TypeOK'
  BY <1>1, <1>2, <1>4 DEF TypeOK, Mode
<1>6. NotLate' /\ NeverLate'
  <2>1. \A i \in DOMAIN pending' : pending'[i].key \in Nat
    BY <1>2, KeysOf
  <2>2. mode' = "wake" => \A i \in DOMAIN pending' : now <= pending'[i].key
    BY <1>2, <2>1
  <2> QED
    BY <1>2, <2>2 DEF NotLate, NeverLate
<1>7. Tokens'
  <2>1. Waiters' = Waiters /\ semaphore.value \in Nat
    BY <1>1, <1>2 DEF Waiters, TypeOK
  <2>2. CASE /\ Active /\ ~Active' /\ semaphore'.value = semaphore.value + 1
    BY <1>1, <2>1, <2>2 DEF Tokens
  <2>3. CASE disk' = disk /\ semaphore' = semaphore
    BY <1>1, <2>1, <2>3, SameDisk DEF Tokens
  <2> QED
    BY <1>2, <2>2, <2>3
<1>8. Ticking'
  BY <1>1, <1>2 DEF Ticking
<1>9. Turns'
  <2> SUFFICES ASSUME serial' = TRUE
               PROVE  /\ mode' # "aborted"
                      /\ \A u \in Thread : pc'[u] # "waits" => u \in answered'
                      /\ \A u \in Thread : pc'[u] = "waits" => u = flight'.by
                      /\ Active' \/ flight'.by \in answered'
    BY DEF Turns
  <2>1. /\ \A u \in Thread : pc[u] # "waits" => u \in answered
        /\ \A u \in Thread : pc[u] = "waits" => u = flight.by
        /\ Active \/ flight.by \in answered
    BY <1>1, <1>2 DEF Turns
  <2>2. answered \subseteq answered' /\ (Active' \/ flight.by \in answered')
    BY <1>2, <2>1, SameDisk
  <2> QED
    BY <1>2, <2>1, <2>2
<1> QED
  BY <1>2, <1>5, <1>6, <1>7, <1>8, <1>9 DEF Inv

LEMMA CheckIfDueKeeps ==
  ASSUME Inv, CheckIfDue
  PROVE  Inv'
<1>1. mode \in {"tick", "wake"} /\ pending # <<>> /\ Fire(totalTicks) /\ mode' = mode
  BY DEF CheckIfDue, Due
<1>2. totalTicks \in Nat
  BY DEF Inv, TypeOK
<1>3. mode' = "wake" => \A i \in DOMAIN pending : totalTicks <= pending[i].key
  BY <1>1 DEF Inv, NotLate
<1> QED
  BY <1>1, <1>2, <1>3, FireKeeps

LEMMA IdleKeeps ==
  ASSUME Inv, Idle
  PROVE  Inv'
<1>1. mode = "idle" /\ pending # <<>> /\ Fire(Max({totalTicks, Head(pending).key})) /\ mode' = "wake"
  BY DEF Idle
<1>2. totalTicks \in Nat /\ pending \in Seq(PendingInterrupt) /\ IsSorted(pending) /\ Lone(pending)
  BY DEF Inv, TypeOK, Clock
<1>3. /\ Head(pending) = pending[1] /\ 1 \in DOMAIN pending /\ Head(pending) \in PendingInterrupt
      /\ \A i \in DOMAIN pending : Head(pending).key <= pending[i].key
  BY <1>1, <1>2, RemoveKeeps
<1>4. PICK key \in Nat : key = Head(pending).key
  BY <1>3 DEF PendingInterrupt
<1>5. totalTicks <= key
  BY <1>1, <1>3, <1>4 DEF Inv, NotLate
<1>6. Max({totalTicks, key}) = key
  <2>1. key \in {totalTicks, key} /\ \A y \in {totalTicks, key} : key >= y
    BY <1>2, <1>5
  <2>2. \A x \in {totalTicks, key} : (\A y \in {totalTicks, key} : x >= y) => x = key
    BY <1>2, <1>5
  <2> QED
    BY <2>1, <2>2 DEF Max
<1>7. Fire(key) /\ \A i \in DOMAIN pending : key <= pending[i].key
  BY <1>1, <1>3, <1>4, <1>6
<1> QED
  BY <1>1, <1>7, FireKeeps

LEMMA TickReturnsKeeps ==
  ASSUME Inv, TickReturns
  PROVE  Inv'
<1>1. /\ TypeOK /\ Clock /\ Tokens /\ Ticking /\ Turns
  BY DEF Inv
<1>2. mode = "tick" /\ ~Due /\ yieldOnReturn' = FALSE
      /\ UNCHANGED <<serial, totalTicks, pending, semaphore, disk, history>>
  BY DEF TickReturns
<1>3. totalTicks \in Nat /\ current \in Thread /\ readyList \in Seq(Thread) /\ pc \in [Thread -> PC]
      /\ pending \in Seq(PendingInterrupt) /\ pc[current] = "ready"
  BY <1>1, <1>2 DEF TypeOK, Ticking
<1>4. \A i \in DOMAIN pending : totalTicks < pending[i].key /\ pending[i].key \in Nat
  <2>1. pending = <<>> \/ ~(Head(pending).key <= totalTicks)
    BY <1>2 DEF Due
  <2> QED
    BY <1>1, <1>3, <2>1, NoneDue, KeysOf
<1>5. /\ mode' = "run" /\ readyList' \in Seq(Thread) /\ current' \in Thread
      /\ pc' \in [Thread -> PC] /\ Tokens' /\ Turns'
  <2>1. CASE yieldOnReturn = TRUE
    <3>1. pc' = [pc EXCEPT ![current] = "yielded"] /\ Dispatch(Append(readyList, current))
      BY <2>1 DEF TickReturns
    <3>a. Append(readyList, current) \in Seq(Thread)
      BY <1>3
    <3>2. PICK list \in Seq(Thread) : list = Append(readyList, current)
      BY <3>a, Zenon
    <3>3. list # <<>>
      <4>1. Len(list) = Len(readyList) + 1 /\ Len(readyList) \in Nat
        BY <1>3, <3>2
      <4> QED
        BY <4>1
    <3>4. mode' = "run" /\ readyList' \in Seq(Thread) /\ current' \in Thread
      BY <1>3, <3>1, <3>2, <3>3, DispatchEffect
    <3>5. PICK t \in Thread : t = current
      BY <1>3
    <3>6. pc[t] # "waits" /\ pc' = [pc EXCEPT ![t] = "yielded"] /\ "yielded" \in PC
      BY <1>3, <3>1, <3>5 DEF PC
    <3>7. pc' \in [Thread -> PC] /\ Tokens' /\ Turns'
      BY <1>1, <1>2, <3>4, <3>6, StillNotWaiting
    <3> QED
      BY <3>4, <3>7
  <2>2. CASE yieldOnReturn = FALSE
    <3>1. mode' = "run" /\ UNCHANGED <<readyList, current, pc>>
      BY <2>2 DEF TickReturns, threadVars
    <3>2. Tokens'
      BY <1>1, <1>2, <3>1, SameDisk DEF Tokens, Waiters
    <3>3. Turns'
      BY <1>1, <1>2, <3>1, SameDisk DEF Turns, history
    <3> QED
      BY <1>3, <3>1, <3>2, <3>3
  <2> QED
    BY <1>1, <2>1, <2>2 DEF TypeOK
<1>6. TypeOK'
  BY <1>1, <1>2, <1>5 DEF TypeOK, Mode, history
<1>7. Clock'
  BY <1>1, <1>2, SameDisk DEF Clock
<1>8. NotLate' /\ NeverLate' /\ Ticking'
  BY <1>2, <1>3, <1>4, <1>5 DEF NotLate, NeverLate, Ticking
<1> QED
  BY <1>5, <1>6, <1>7, <1>8 DEF Inv

LEMMA IdleReturnsKeeps ==
  ASSUME Inv, IdleReturns
  PROVE  Inv'
<1>1. /\ TypeOK /\ Clock /\ NotLate /\ Tokens /\ Turns
  BY DEF Inv
<1>2. mode = "wake" /\ ~Due /\ yieldOnReturn' = FALSE /\ Dispatch(readyList)
      /\ UNCHANGED <<serial, totalTicks, pending, pc, semaphore, disk, history>>
  BY DEF IdleReturns
<1>3. totalTicks \in Nat /\ current \in Thread /\ readyList \in Seq(Thread)
      /\ pending \in Seq(PendingInterrupt)
  BY <1>1 DEF TypeOK
<1>4. readyList' \in Seq(Thread) /\ current' \in Thread /\ mode' \in {"run", "idle"}
  BY <1>2, <1>3, DispatchEffect
<1>5. \A i \in DOMAIN pending : totalTicks <= pending[i].key /\ pending[i].key \in Nat
  BY <1>1, <1>2, <1>3, KeysOf DEF NotLate
<1>6. \A i \in DOMAIN pending :
        \/ pending[i].key > totalTicks
        \/ pending[i].type = "TimerInt" /\ pending[i].key = totalTicks
  <2>1. CASE pending = <<>> \/ ~(Head(pending).key <= totalTicks)
    BY <1>1, <1>3, <1>5, <2>1, NoneDue
  <2>2. CASE TimerAlone
    <3>1. DOMAIN pending = {1} /\ Head(pending) = pending[1] /\ Head(pending).type = "TimerInt"
      BY <1>3, <2>2 DEF TimerAlone
    <3> QED
      BY <1>3, <1>5, <3>1
  <2> QED
    BY <1>2, <2>1, <2>2 DEF Due
<1>7. TypeOK'
  BY <1>1, <1>2, <1>4 DEF TypeOK, Mode, history
<1>8. Clock'
  BY <1>1, <1>2, SameDisk DEF Clock
<1>9. NotLate' /\ NeverLate' /\ Ticking'
  BY <1>2, <1>4, <1>5, <1>6 DEF NotLate, NeverLate, Ticking
<1>10. Tokens'
  BY <1>1, <1>2, SameDisk DEF Tokens, Waiters
<1>11. Turns'
  BY <1>1, <1>2, <1>4, SameDisk DEF Turns, history
<1> QED
  BY <1>7, <1>8, <1>9, <1>10, <1>11 DEF Inv

LEMMA HaltKeeps ==
  ASSUME Inv, Halt
  PROVE  Inv'
<1>1. /\ TypeOK /\ Clock /\ Tokens /\ Turns
  BY DEF Inv
<1>2. mode = "idle" /\ mode' = "halted"
      /\ totalTicks' = (IF TimerAlone THEN Max({totalTicks, Head(pending).key}) ELSE totalTicks)
      /\ UNCHANGED <<serial, readyList, current, pc, pending, yieldOnReturn, semaphore, disk, history>>
  BY DEF Halt, threadVars
<1>3. totalTicks' \in Nat
  <2>1. CASE TimerAlone
    <3>0. totalTicks \in Nat /\ pending \in Seq(PendingInterrupt) /\ Len(pending) = 1
      BY <1>1, <2>1 DEF TypeOK, TimerAlone
    <3>1. totalTicks \in Nat /\ pending \in Seq(PendingInterrupt) /\ pending # <<>>
      BY <3>0
    <3>2. Head(pending) \in PendingInterrupt
      BY <3>1
    <3>3. PICK key \in Nat : key = Head(pending).key
      BY <3>2 DEF PendingInterrupt
    <3>4. \E x \in {totalTicks, key} : \A y \in {totalTicks, key} : x >= y
      <4>1. totalTicks >= totalTicks /\ key >= key /\ (totalTicks >= key \/ key >= totalTicks)
        BY <3>1
      <4> QED
        BY <4>1
    <3>5. Max({totalTicks, key}) \in {totalTicks, key}
      BY <3>4 DEF Max
    <3> QED
      BY <1>2, <2>1, <3>1, <3>3, <3>5
  <2>2. CASE ~TimerAlone
    BY <1>1, <1>2, <2>2 DEF TypeOK
  <2> QED
    BY <2>1, <2>2
<1>4. TypeOK'
  BY <1>1, <1>2, <1>3 DEF TypeOK, Mode, history
<1>5. Clock'
  BY <1>1, <1>2, SameDisk DEF Clock
<1>6. NotLate' /\ NeverLate' /\ Ticking'
  BY <1>2 DEF NotLate, NeverLate, Ticking
<1>7. Tokens'
  BY <1>1, <1>2, SameDisk DEF Tokens, Waiters
<1>8. Turns'
  BY <1>1, <1>2, SameDisk DEF Turns, history
<1> QED
  BY <1>4, <1>5, <1>6, <1>7, <1>8 DEF Inv

LEMMA StutterKeeps ==
  ASSUME Inv, UNCHANGED vars
  PROVE  Inv'
<1>1. /\ TypeOK /\ Clock /\ NotLate /\ NeverLate /\ Tokens /\ Ticking /\ Turns
  BY DEF Inv
<1>2. UNCHANGED <<serial, readyList, current, pc, totalTicks, pending, mode, yieldOnReturn,
                  semaphore, disk, arrived, flight, answered>>
  BY DEF vars, threadVars, clockVars, history
<1>3. TypeOK'
  BY <1>1, <1>2 DEF TypeOK
<1>4. Clock' /\ NotLate' /\ NeverLate' /\ Ticking'
  BY <1>1, <1>2, SameDisk DEF Clock, NotLate, NeverLate, Ticking
<1>5. Tokens'
  BY <1>1, <1>2, SameDisk DEF Tokens, Waiters
<1>6. Turns'
  BY <1>1, <1>2, SameDisk DEF Turns
<1> QED
  BY <1>3, <1>4, <1>5, <1>6 DEF Inv
-----------------------------------------------------------------------------
(* The list of pending interrupts stays sorted and holds the disk's        *)
(* interrupt while a request is under way; the rest of Inv builds on that. *)
THEOREM Invariance == Spec => []Inv
<1>1. Init => Inv
  BY Start
<1>2. Inv /\ [Next]_vars => Inv'
  <2> SUFFICES ASSUME Inv, [Next]_vars PROVE Inv'
    OBVIOUS
  <2>1. ASSUME NEW t \in Thread, NEW s \in Sector, ReadSector(t, s) PROVE Inv'
    <3>1. Access(t, s, FALSE) /\ FALSE \in BOOLEAN
      BY <2>1 DEF ReadSector
    <3> QED
      BY <3>1, AccessKeeps
  <2>2. ASSUME NEW t \in Thread, NEW s \in Sector, WriteSector(t, s) PROVE Inv'
    <3>1. Access(t, s, TRUE) /\ TRUE \in BOOLEAN
      BY <2>2 DEF WriteSector
    <3> QED
      BY <3>1, AccessKeeps
  <2>3. ASSUME NEW t \in Thread, WakeInP(t) PROVE Inv'
    BY <2>3, WakeInPKeeps
  <2>4. ASSUME NEW t \in Thread, AfterYield(t) PROVE Inv'
    BY <2>4, AfterYieldKeeps
  <2>5. ASSUME NEW t \in Thread, NEW n \in {UserTick, SystemTick}, Work(t, n) PROVE Inv'
    BY <2>5, WorkKeeps
  <2>6. ASSUME NEW t \in Thread, Finish(t) PROVE Inv'
    BY <2>6, FinishKeeps
  <2>7. CASE CheckIfDue
    BY <2>7, CheckIfDueKeeps
  <2>8. CASE TickReturns
    BY <2>8, TickReturnsKeeps
  <2>9. CASE Idle
    BY <2>9, IdleKeeps
  <2>10. CASE IdleReturns
    BY <2>10, IdleReturnsKeeps
  <2>11. CASE Halt
    BY <2>11, HaltKeeps
  <2>12. CASE Stopped \/ UNCHANGED vars
    BY <2>12, StutterKeeps DEF Stopped
  <2> QED
    BY <2>1, <2>2, <2>3, <2>4, <2>5, <2>6, <2>7, <2>8, <2>9, <2>10, <2>11, <2>12 DEF Next
<1> QED
  BY <1>1, <1>2, PTL DEF Spec

(* No interrupt fires late, and the threads inside ReadSector and          *)
(* WriteSector are matched one to one with the tokens of the semaphore and *)
(* the request under way, for every geometry and every schedule, although  *)
(* Lock is empty.                                                          *)
THEOREM DiskIsSafe == Spec => []DiskInv
<1>1. Inv => DiskInv
  <2> SUFFICES ASSUME Inv PROVE DiskInv
    OBVIOUS
  <2>1. TypeOK /\ NeverLate /\ Tokens
    BY DEF Inv
  <2>2. TokensMatchWaiters
    <3>1. disk.active <=> Active
      BY <2>1 DEF TypeOK, Active
    <3> QED
      BY <2>1, <3>1 DEF Tokens, Waiters, TokensMatchWaiters
  <2> QED
    BY <2>1, <2>2 DEF DiskInv
<1> QED
  BY <1>1, Invariance, PTL

(* Callers that take turns never fail an ASSERT of Disk and return from    *)
(* ReadSector and WriteSector only after the interrupt of their request.   *)
THEOREM ReturnsWhenDone == Spec => []ReturnsAfterDone
<1>1. Inv => ReturnsAfterDone
  <2> SUFFICES ASSUME Inv, serial PROVE mode # "aborted" /\ \A t \in Thread : pc[t] # "waits" => t \in answered
    BY DEF ReturnsAfterDone
  <2>1. serial = TRUE
    BY DEF Inv, TypeOK
  <2> QED
    BY <2>1 DEF Inv, Turns
<1> QED
  BY <1>1, Invariance, PTL
-----------------------------------------------------------------------------
(* The latency.  Time is cut into slots of RotationTime, and slot k is the *)
(* pass of sector k, modulo SectorsPerTrack.                               *)

LEMMA Distributes == \A a, b, c \in Int : a * (b + c) = a * b + a * c /\ a * (b - c) = a * b - a * c
OBVIOUS

LEMMA Commutes == \A a, b \in Int : a * b = b * a /\ a * b \in Int
OBVIOUS

LEMMA DivMod == \A a \in Int, b \in Nat \ {0} : a = b * (a \div b) + (a % b)
OBVIOUS

LEMMA AtLeast == \A b \in Nat, x \in Int : x >= 1 => b * x >= b
OBVIOUS

LEMMA AtMost == \A b \in Nat, x \in Int : x <= -1 => b * x <= -b
OBVIOUS

(* Products with b order as the factors do.                                *)
LEMMA ProductOrder ==
  ASSUME NEW b \in Nat \ {0}, NEW x \in Int, NEW y \in Int
  PROVE  /\ x <= y => b * x <= b * y
         /\ b * x < b * y => x < y
<1>1. b * x \in Int /\ b * y \in Int /\ b * (y - x) = b * y - b * x /\ b * (y - x) \in Int
  BY Distributes, Commutes
<1> DEFINE z == y - x
<1>2. z \in Int
  OBVIOUS
<1>3. z >= 1 => b * z >= b
  BY <1>2, AtLeast
<1>4. z <= -1 => b * z <= -b
  BY <1>2, AtMost
<1>5. z = 0 => b * z = 0
  OBVIOUS
<1>6. b * z = b * y - b * x
  BY <1>1
<1>7. ASSUME x <= y PROVE b * x <= b * y
  <2>1. z >= 1 \/ z = 0
    BY <1>7
  <2> HIDE DEF z
  <2> QED
    BY <1>1, <1>3, <1>5, <1>6, <2>1
<1>8. ASSUME b * x < b * y PROVE x < y
  <2>1. ~(z <= -1) /\ ~(z = 0)
    <3> HIDE DEF z
    <3> QED
      BY <1>1, <1>4, <1>5, <1>6, <1>8
  <2> QED
    BY <2>1
<1> QED
  BY <1>7, <1>8

(* Quotient and remainder are unique.                                      *)
LEMMA UniqueQuotient ==
  ASSUME NEW b \in Nat \ {0}, NEW x \in Int, NEW y \in Int, NEW r \in 0 .. b - 1, NEW u \in 0 .. b - 1,
         b * x + r = b * y + u
  PROVE  x = y /\ r = u
<1>1. b * x \in Int /\ b * y \in Int /\ b * (y + 1) = b * y + b /\ b * (x + 1) = b * x + b
  BY Distributes, Commutes
<1>2. b * x < b * (y + 1) /\ b * y < b * (x + 1)
  BY <1>1
<1>3. x < y + 1 /\ y < x + 1
  <2>1. x + 1 \in Int /\ y + 1 \in Int
    OBVIOUS
  <2> QED
    BY <1>2, <2>1, ProductOrder
<1>4. x = y
  BY <1>3
<1> QED
  BY <1>1, <1>4

LEMMA QuotientIs ==
  ASSUME NEW b \in Nat \ {0}, NEW x \in Int, NEW r \in 0 .. b - 1
  PROVE  (b * x + r) \div b = x /\ (b * x + r) % b = r
<1> DEFINE a == b * x + r
<1>1. a \in Int
  BY Commutes
<1> HIDE DEF a
<1>2. a = b * (a \div b) + (a % b) /\ a \div b \in Int /\ a % b \in 0 .. b - 1
  BY <1>1, DivMod, DivIsInt, ModBounds
<1>3. b * (a \div b) + (a % b) = b * x + r
  BY <1>2 DEF a
<1>4. a \div b = x /\ a % b = r
  BY <1>2, <1>3, UniqueQuotient
<1> QED
  BY <1>4 DEF a

(* Two slots of one sector within one turn of the disk are the same.       *)
LEMMA SlotUnique ==
  ASSUME NEW b \in Nat \ {0}, NEW j \in Int, NEW k \in Int, j % b = k % b, j < k + b, k < j + b
  PROVE  j = k
<1>1. /\ j = b * (j \div b) + (j % b) /\ k = b * (k \div b) + (k % b)
      /\ j \div b \in Int /\ k \div b \in Int /\ j % b \in 0 .. b - 1
  BY DivMod, DivIsInt, ModBounds
<1> DEFINE x == j \div b
           y == k \div b
           r == j % b
<1>2. x \in Int /\ y \in Int /\ r \in 0 .. b - 1 /\ j = b * x + r /\ k = b * y + r
  BY <1>1
<1> HIDE DEF x, y, r
<1>3. b * x \in Int /\ b * y \in Int /\ b * (y + 1) = b * y + b /\ b * (x + 1) = b * x + b
  BY <1>2, Distributes, Commutes
<1>4. b * x < b * (y + 1) /\ b * y < b * (x + 1)
  BY <1>2, <1>3
<1>5. x + 1 \in Int /\ y + 1 \in Int
  BY <1>2
<1>6. x < y + 1 /\ y < x + 1
  BY <1>2, <1>4, <1>5, ProductOrder
<1>7. x = y
  BY <1>2, <1>6
<1> QED
  BY <1>2, <1>7

(* ModuloDiff is how many slots it takes from one sector to another.       *)
LEMMA ModuloDiffIs ==
  ASSUME NEW to \in Int, NEW from \in Int
  PROVE  /\ ModuloDiff(to, from) \in 0 .. SectorsPerTrack - 1
         /\ (from + ModuloDiff(to, from)) % SectorsPerTrack = to % SectorsPerTrack
<1> DEFINE S == SectorsPerTrack
           a == to % S
           c == from % S
           f == from \div S
           e == (a - c) + S
           d == e % S
           n == e \div S
<1>0. S \in Nat \ {0}
  BY DiskAssumption
<1>1. a \in 0 .. S - 1 /\ c \in 0 .. S - 1 /\ f \in Int /\ from = S * f + c
  BY <1>0, DivMod, DivIsInt, ModBounds
<1>2. ModuloDiff(to, from) = d
  BY DEF ModuloDiff
<1> HIDE DEF a, c, f
<1>3. e \in Int
  BY <1>0, <1>1
<1>4. e = (a - c) + S
  OBVIOUS
<1> HIDE DEF e
<1>5. d \in 0 .. S - 1 /\ n \in Int /\ e = S * n + d
  BY <1>0, <1>3, DivMod, DivIsInt, ModBounds
<1> HIDE DEF d, n
<1>6. S * ((f + 1) - n) = S * (f + 1) - S * n /\ S * (f + 1) = S * f + S * 1 /\ S * 1 = S
      /\ S * f \in Int /\ S * n \in Int
  <2>1. f + 1 \in Int
    BY <1>1
  <2> QED
    BY <1>0, <1>1, <1>5, <2>1, Distributes, Commutes
<1>7. from + d = S * ((f + 1) - n) + a
  BY <1>0, <1>1, <1>4, <1>5, <1>6
<1>8. (f + 1) - n \in Int
  BY <1>1, <1>5
<1>9. (from + d) % S = a
  BY <1>0, <1>1, <1>7, <1>8, QuotientIs
<1> QED
  BY <1>2, <1>5, <1>9 DEF a

(* q is the first slot that begins at time x or later.                     *)
FirstSlot(q, x) ==
    q \in Nat /\ x <= RotationTime * q /\ RotationTime * (q - 1) < x

(* After the rotation that TimeToSeek adds, a slot begins.                 *)
LEMMA RotationEnds ==
  ASSUME TypeOK, NEW seek \in Nat
  PROVE  \E q \in Nat : /\ FirstSlot(q, totalTicks + seek)
                        /\ totalTicks + seek + Rotation(seek) = RotationTime * q
                        /\ (totalTicks + seek + Rotation(seek)) \div RotationTime = q
<1> DEFINE R == RotationTime
           x == totalTicks + seek
           n == x \div R
           over == x % R
<1>0. R \in Nat \ {0} /\ x \in Nat /\ 0 \in 0 .. R - 1
  BY DiskAssumption DEF TypeOK
<1>1. n \in Int /\ over \in 0 .. R - 1 /\ x = R * n + over
  <2> HIDE DEF x
  <2> QED
    BY <1>0, DivMod, DivIsInt, ModBounds
<1>2. Rotation(seek) = IF over > 0 THEN R - over ELSE 0
  BY DEF Rotation
<1>3. totalTicks + seek + Rotation(seek) = x + Rotation(seek)
  OBVIOUS
<1> HIDE DEF x, n, over
<1>4. R * (n + 1) = R * n + R /\ R * ((n + 1) - 1) = R * n /\ R * (n - 1) = R * n - R /\ R * n \in Int
  BY <1>0, <1>1, Distributes, Commutes
<1>5. n >= 0
  <2> SUFFICES ASSUME n <= -1 PROVE FALSE
    BY <1>1
  <2>1. R * n <= -R
    BY <1>0, <1>1, AtMost
  <2> QED
    BY <1>0, <1>1, <1>4, <2>1
<1>6. CASE over > 0
  <2> DEFINE q == n + 1
  <2>1. q \in Nat /\ x + Rotation(seek) = R * q /\ x <= R * q /\ R * (q - 1) < x
    BY <1>0, <1>1, <1>2, <1>4, <1>5, <1>6
  <2> HIDE DEF q
  <2>2. R * q + 0 = R * q
    BY <1>0, <2>1, Commutes
  <2>3. (R * q + 0) \div R = q
    BY <1>0, <2>1, QuotientIs
  <2> QED
    BY <1>3, <2>1, <2>2, <2>3 DEF FirstSlot, x
<1>7. CASE ~(over > 0)
  <2>1. n \in Nat /\ x + Rotation(seek) = R * n /\ x <= R * n /\ R * (n - 1) < x
    BY <1>0, <1>1, <1>2, <1>4, <1>5, <1>7
  <2>2. R * n + 0 = R * n
    BY <1>4
  <2>3. (R * n + 0) \div R = n
    BY <1>0, <2>1, QuotientIs
  <2> QED
    BY <1>3, <2>1, <2>2, <2>3 DEF FirstSlot, x
<1> QED
  BY <1>6, <1>7

(* The first complete pass of a sector is the slot k less than a turn      *)
(* after the first slot.                                                   *)
LEMMA PassIs ==
  ASSUME NEW sector \in Int, NEW from \in Nat, NEW q \in Nat, FirstSlot(q, from),
         NEW k \in Nat, q <= k, k < q + SectorsPerTrack,
         k % SectorsPerTrack = sector % SectorsPerTrack
  PROVE  PassEnds(sector, from) = (k + 1) * RotationTime
<1> DEFINE R == RotationTime
           S == SectorsPerTrack
           n == from \div R
           T == {j \in n .. n + S : from <= j * R /\ j % S = sector % S}
<1>0. R \in Nat \ {0} /\ S \in Nat \ {0}
  BY DiskAssumption
<1>1. n \in Int /\ from % R \in 0 .. R - 1 /\ from = R * n + (from % R)
  BY <1>0, DivMod, DivIsInt, ModBounds
<1>2. PICK r \in 0 .. R - 1 : from = R * n + r
  BY <1>1
<1>3. PassEnds(sector, from) = (Min(T) + 1) * R
  BY DEF PassEnds
<1>4. from <= R * q /\ R * (q - 1) < from
  BY DEF FirstSlot
<1>a. \A j : j \in T <=> j \in n .. n + S /\ from <= j * R /\ j % S = sector % S
  OBVIOUS
<1> HIDE DEF n, T
<1>5. R * (n + 1) = R * n + R /\ R * n \in Int /\ R * q \in Int /\ R * (q - 1) \in Int
  <2>1. q - 1 \in Int
    OBVIOUS
  <2> QED
    BY <1>0, <1>1, <2>1, Distributes, Commutes
<1>6. n <= q /\ q <= n + 1
  <2>1. R * n < R * (q + 1)
    <3>1. R * (q + 1) = R * q + R
      BY <1>0, Distributes
    <3> QED
      BY <1>0, <1>2, <1>4, <1>5, <3>1
  <2>2. R * (q - 1) < R * (n + 1)
    BY <1>0, <1>2, <1>4, <1>5
  <2>3. q + 1 \in Int /\ q - 1 \in Int /\ n + 1 \in Int
    BY <1>1
  <2>4. n < q + 1 /\ q - 1 < n + 1
    BY <1>0, <1>1, <2>1, <2>2, <2>3, ProductOrder
  <2>5. n <= q
    BY <1>1, <2>4
  <2>6. q # n + 2 /\ q - 1 <= n
    BY <1>1, <2>4
  <2> QED
    BY <1>1, <2>5, <2>6
<1>7. k \in T
  <2>1. k \in n .. n + S
    BY <1>0, <1>1, <1>6
  <2>2. R * q <= R * k /\ R * k = k * R /\ R * k \in Int
    BY <1>0, ProductOrder, Commutes
  <2> QED
    BY <1>4, <1>5, <1>a, <2>1, <2>2
<1>8. \A j \in T : k <= j
  <2> SUFFICES ASSUME NEW j \in T, j < k PROVE FALSE
    <3>1. \A j \in T : j \in Int
      BY <1>0, <1>1, <1>a
    <3> QED
      BY <3>1
  <2>1. j \in Int /\ from <= j * R /\ j % S = k % S
    BY <1>0, <1>1, <1>a
  <2>2. R * (q - 1) < R * j
    <3>1. j * R = R * j /\ R * j \in Int
      BY <1>0, <2>1, Commutes
    <3> QED
      BY <1>4, <1>5, <2>1, <3>1
  <2>3. q - 1 \in Int
    OBVIOUS
  <2>4. q - 1 < j
    BY <1>0, <2>1, <2>2, <2>3, ProductOrder
  <2>5. j < k + S /\ k < j + S /\ k \in Int
    BY <1>0, <2>1, <2>4
  <2>6. j = k
    BY <1>0, <2>1, <2>5, SlotUnique
  <2> QED
    BY <2>1, <2>6
<1>9. Min(T) = k
  <2>1. \A x \in T : (\A y \in T : x <= y) => x = k
    <3> SUFFICES ASSUME NEW x \in T, \A y \in T : x <= y PROVE x = k
      OBVIOUS
    <3>1. x \in Int /\ x <= k /\ k <= x
      BY <1>0, <1>1, <1>7, <1>8, <1>a
    <3> QED
      BY <3>1
  <2> QED
    BY <1>7, <1>8, <2>1 DEF Min
<1> QED
  BY <1>3, <1>9

LEMMA MaxOfTwo ==
  ASSUME NEW x \in Int, NEW y \in Int
  PROVE  Max({x, y}) = IF x >= y THEN x ELSE y
<1>1. CASE x >= y
  <2>1. x \in {x, y} /\ \A z \in {x, y} : x >= z
    BY <1>1
  <2>2. \A u \in {x, y} : (\A z \in {x, y} : u >= z) => u = x
    BY <1>1
  <2> QED
    BY <1>1, <2>1, <2>2 DEF Max
<1>2. CASE ~(x >= y)
  <2>1. y \in {x, y} /\ \A z \in {x, y} : y >= z
    BY <1>2
  <2>2. \A u \in {x, y} : (\A z \in {x, y} : u >= z) => u = y
    BY <1>2
  <2> QED
    BY <1>2, <2>1, <2>2 DEF Max
<1> QED
  BY <1>1, <1>2

(* The latency when the sector has to pass after the seek: the first slot  *)
(* of the sector from slot q on.                                           *)
LEMMA WaitForPass ==
  ASSUME NEW s \in Int, NEW x \in Nat, NEW q \in Nat, FirstSlot(q, x)
  PROVE  LET d == ModuloDiff(s, q) IN
         /\ d \in Nat
         /\ PassEnds(s, x) = RotationTime * q + d * RotationTime + RotationTime
         /\ PassEnds(s, x) \in Nat /\ PassEnds(s, x) >= x + RotationTime
<1> DEFINE R == RotationTime
           d == ModuloDiff(s, q)
<1>0. R \in Nat \ {0} /\ SectorsPerTrack \in Nat \ {0} /\ q \in Int
  BY DiskAssumption
<1>1. d \in 0 .. SectorsPerTrack - 1 /\ (q + d) % SectorsPerTrack = s % SectorsPerTrack
  BY <1>0, ModuloDiffIs
<1> HIDE DEF d
<1>2. q + d \in Nat /\ q <= q + d /\ q + d < q + SectorsPerTrack /\ d \in Nat
  BY <1>0, <1>1
<1>3. PassEnds(s, x) = ((q + d) + 1) * R
  BY <1>1, <1>2, PassIs
<1>4. ((q + d) + 1) * R = R * q + d * R + R /\ R * q \in Int /\ d * R \in Nat
  <2>1. (q + d) + 1 \in Int /\ d \in Int /\ q + d \in Int
    BY <1>0, <1>2
  <2>2. ((q + d) + 1) * R = R * ((q + d) + 1) /\ d * R = R * d /\ R * q \in Int
    BY <1>0, <2>1, Commutes
  <2>3. R * ((q + d) + 1) = R * (q + d) + R * 1 /\ R * (q + d) = R * q + R * d /\ R * 1 = R
    BY <1>0, <2>1, Distributes
  <2>4. d * R \in Nat
    BY <1>0, <1>2, ProductIsNat
  <2> QED
    BY <2>2, <2>3, <2>4
<1>5. x <= R * q
  BY DEF FirstSlot
<1>6. PassEnds(s, x) = R * q + d * R + R
  BY <1>3, <1>4
<1>7. PassEnds(s, x) \in Nat /\ PassEnds(s, x) >= x + R
  <2>1. PICK a \in Int : a = R * q
    BY <1>4
  <2>2. PICK c \in Nat : c = d * R
    BY <1>4
  <2>3. PassEnds(s, x) = a + c + R /\ x <= a
    BY <1>5, <1>6, <2>1, <2>2
  <2> QED
    BY <1>0, <2>1, <2>2, <2>3
<1> QED
  BY <1>2, <1>6, <1>7 DEF d

(* A read on the track that the head is on: whether or not the sector has  *)
(* passed since the head arrived, it is answered when it has passed, and   *)
(* not before one transfer.                                                *)
LEMMA ReadOnTrack ==
  ASSUME NEW s \in Int, NEW x \in Nat, NEW from \in Nat, from <= x,
         NEW q \in Nat, FirstSlot(q, x), NEW b \in Nat, FirstSlot(b, from)
  PROVE  /\ q - b > ModuloDiff(s, b) => PassEnds(s, from) <= x + RotationTime
         /\ ~(q - b > ModuloDiff(s, b)) => PassEnds(s, from) = PassEnds(s, x)
         /\ PassEnds(s, from) \in Nat
<1> DEFINE R == RotationTime
           S == SectorsPerTrack
           e == ModuloDiff(s, b)
           d == ModuloDiff(s, q)
<1>0. R \in Nat \ {0} /\ S \in Nat \ {0} /\ q \in Int /\ b \in Int
  BY DiskAssumption
<1>1. e \in 0 .. S - 1 /\ (b + e) % S = s % S /\ d \in 0 .. S - 1 /\ (q + d) % S = s % S
  BY <1>0, ModuloDiffIs
<1>2. PassEnds(s, from) \in Nat /\ PassEnds(s, x) \in Nat
  BY WaitForPass
<1> HIDE DEF d, e
<1>3. b + e \in Nat /\ b <= b + e /\ b + e < b + S
  BY <1>0, <1>1
<1>4. PassEnds(s, from) = ((b + e) + 1) * R
  BY <1>1, <1>3, PassIs
<1>5. q + d \in Nat /\ q <= q + d /\ q + d < q + S
  BY <1>0, <1>1
<1>6. PassEnds(s, x) = ((q + d) + 1) * R
  BY <1>1, <1>5, PassIs
<1>7. ASSUME q - b > e PROVE PassEnds(s, from) <= x + R
  <2>1. (b + e) + 1 <= q /\ (b + e) + 1 \in Int /\ q - 1 \in Int
    BY <1>0, <1>1, <1>7
  <2>2. R * ((b + e) + 1) <= R * q /\ R * ((b + e) + 1) = ((b + e) + 1) * R
        /\ R * (q - 1) = R * q - R * 1 /\ R * 1 = R /\ R * q \in Int
    BY <1>0, <2>1, ProductOrder, Commutes, Distributes
  <2>3. R * (q - 1) < x
    BY DEF FirstSlot
  <2> QED
    BY <1>0, <1>2, <1>4, <2>2, <2>3
<1>8. ASSUME ~(q - b > e) PROVE PassEnds(s, from) = PassEnds(s, x)
  <2>1. b <= q
    <3>1. R * (b - 1) < from /\ x <= R * q
      BY DEF FirstSlot
    <3>2. b - 1 \in Int /\ R * (b - 1) \in Int /\ R * q \in Int
      <4>1. b - 1 \in Int
        BY <1>0
      <4> QED
        BY <1>0, <4>1, Commutes
    <3>3. R * (b - 1) < R * q
      BY <3>1, <3>2
    <3>4. b - 1 < q
      BY <1>0, <3>2, <3>3, ProductOrder
    <3> QED
      BY <3>4
  <2>2. b + e < (q + d) + S /\ q + d < (b + e) + S /\ b + e \in Int /\ q + d \in Int
    BY <1>0, <1>1, <1>8, <2>1
  <2>3. b + e = q + d
    BY <1>0, <1>1, <2>2, SlotUnique
  <2> QED
    BY <1>4, <1>6, <2>3
<1> QED
  BY <1>2, <1>7, <1>8 DEF e

(* The head's position: the track buffer was started with the first slot   *)
(* after the head arrived.                                                 *)
Buffered == \E b \in Nat : FirstSlot(b, arrived) /\ disk.bufferInit = RotationTime * b

Arriving(s) == IF Seek(s) # 0 THEN totalTicks + Seek(s) ELSE arrived
From(s, w) == IF w THEN totalTicks + Seek(s) ELSE Arriving(s)

(* ComputeLatency is exact.                                                *)
LEMMA LatencyIs ==
  ASSUME TypeOK, Buffered, arrived <= totalTicks, NEW s \in Sector, NEW w \in BOOLEAN
  PROVE  /\ totalTicks + ComputeLatency(s, w)
              = Max({PassEnds(s, From(s, w)), totalTicks + RotationTime})
         /\ Arriving(s) <= totalTicks + ComputeLatency(s, w)
         /\ \E b \in Nat : FirstSlot(b, Arriving(s)) /\ UpdateLast(s).bufferInit = RotationTime * b
<1> DEFINE R == RotationTime
           seek == Seek(s)
           x == totalTicks + seek
           timeAfter == totalTicks + seek + Rotation(seek)
<1>0. R \in Nat \ {0} /\ totalTicks \in Nat /\ arrived \in Nat /\ s \in Int
  <2>1. SectorsPerTrack * NumTracks \in Int
    BY DiskAssumption
  <2> QED
    BY <2>1, DiskAssumption DEF TypeOK, Sector
<1>1. seek \in Nat /\ Rotation(seek) \in Nat /\ ComputeLatency(s, w) \in Nat /\ x \in Nat
  BY <1>0, Timing
<1>2. PICK q \in Nat : FirstSlot(q, x) /\ timeAfter = R * q /\ timeAfter \div R = q
  BY <1>1, RotationEnds
<1>3. PICK b \in Nat : FirstSlot(b, arrived) /\ disk.bufferInit = R * b
  BY DEF Buffered
<1>4. disk.bufferInit \div R = b /\ (timeAfter - disk.bufferInit) \div R = q - b
  <2>1. R * b + 0 = R * b /\ R * q - R * b = R * (q - b) + 0 /\ 0 \in 0 .. R - 1
        /\ q - b \in Int /\ b \in Int
    <3>1. q \in Int /\ b \in Int /\ q - b \in Int
      OBVIOUS
    <3> QED
      BY <1>0, <3>1, Distributes, Commutes
  <2>2. (R * b + 0) \div R = b /\ (R * (q - b) + 0) \div R = q - b
    BY <1>0, <2>1, QuotientIs
  <2> QED
    BY <1>2, <1>3, <2>1, <2>2
<1>5. ComputeLatency(s, w)
        = IF ~w /\ seek = 0 /\ q - b > ModuloDiff(s, b) THEN R
          ELSE seek + Rotation(seek) + ModuloDiff(s, q) * R + R
  BY <1>2, <1>4 DEF ComputeLatency, InTrackBuffer
<1> DEFINE d == ModuloDiff(s, q)
<1>6. /\ d \in Nat /\ PassEnds(s, x) = R * q + d * R + R
      /\ PassEnds(s, x) \in Nat /\ PassEnds(s, x) >= x + R
  BY <1>0, <1>1, <1>2, WaitForPass
<1>7. totalTicks + (seek + Rotation(seek) + d * R + R) = PassEnds(s, x)
  <2>1. d * R \in Nat
    BY <1>0, <1>6, ProductIsNat
  <2>2. PICK c \in Nat : c = d * R
    BY <2>1
  <2>3. totalTicks + (seek + Rotation(seek) + c + R) = timeAfter + c + R
    BY <1>0, <1>1, <2>2
  <2> QED
    BY <1>2, <1>6, <2>2, <2>3
<1>8. totalTicks + R \in Int /\ PassEnds(s, x) >= totalTicks + R
  BY <1>0, <1>1, <1>6
<1>9. Max({PassEnds(s, x), totalTicks + R}) = PassEnds(s, x)
  BY <1>6, <1>8, MaxOfTwo
<1> HIDE DEF d
<1>10. totalTicks + ComputeLatency(s, w) = Max({PassEnds(s, From(s, w)), totalTicks + R})
  <2>1. CASE w = TRUE \/ seek # 0
    <3>1. From(s, w) = x
      BY <2>1 DEF From, Arriving
    <3>2. ComputeLatency(s, w) = seek + Rotation(seek) + d * R + R
      <4>1. ~(~w /\ seek = 0 /\ q - b > ModuloDiff(s, b))
        BY <2>1
      <4> QED
        BY <1>5, <4>1 DEF d
    <3> QED
      BY <1>7, <1>9, <3>1, <3>2
  <2>2. CASE w = FALSE /\ seek = 0
    <3>1. From(s, w) = arrived /\ x = totalTicks
      BY <1>0, <2>2 DEF From, Arriving
    <3>2. /\ q - b > ModuloDiff(s, b) => PassEnds(s, arrived) <= totalTicks + R
          /\ ~(q - b > ModuloDiff(s, b)) => PassEnds(s, arrived) = PassEnds(s, x)
          /\ PassEnds(s, arrived) \in Nat
      <4>1. FirstSlot(q, totalTicks)
        BY <1>2, <3>1
      <4>2. /\ q - b > ModuloDiff(s, b) => PassEnds(s, arrived) <= totalTicks + R
            /\ ~(q - b > ModuloDiff(s, b)) => PassEnds(s, arrived) = PassEnds(s, totalTicks)
            /\ PassEnds(s, arrived) \in Nat
        BY <1>0, <1>3, <4>1, ReadOnTrack
      <4> QED
        BY <3>1, <4>2
    <3>3. CASE q - b > ModuloDiff(s, b)
      <4>1. ComputeLatency(s, w) = R
        BY <1>5, <2>2, <3>3
      <4>2. Max({PassEnds(s, arrived), totalTicks + R}) = totalTicks + R
        <5>1. PassEnds(s, arrived) <= totalTicks + R /\ PassEnds(s, arrived) \in Int
          BY <3>2, <3>3
        <5> QED
          BY <1>8, <5>1, MaxOfTwo
      <4> QED
        BY <3>1, <4>1, <4>2
    <3>4. CASE ~(q - b > ModuloDiff(s, b))
      <4>1. ComputeLatency(s, w) = seek + Rotation(seek) + d * R + R
        BY <1>5, <3>4 DEF d
      <4> QED
        BY <1>7, <1>9, <3>1, <3>2, <3>4, <4>1
    <3> QED
      BY <3>3, <3>4
  <2> QED
    BY <2>1, <2>2
<1>11. Arriving(s) <= totalTicks + ComputeLatency(s, w)
  <2>1. CASE seek # 0
    <3>1. totalTicks + ComputeLatency(s, w) = PassEnds(s, x)
      <4>1. ComputeLatency(s, w) = seek + Rotation(seek) + d * R + R
        BY <1>5, <2>1 DEF d
      <4> QED
        BY <1>7, <4>1
    <3> QED
      BY <1>0, <1>1, <1>6, <2>1, <3>1 DEF Arriving
  <2>2. CASE seek = 0
    BY <1>0, <1>1, <2>2 DEF Arriving
  <2> QED
    BY <2>1, <2>2
<1>12. \E c \in Nat : FirstSlot(c, Arriving(s)) /\ UpdateLast(s).bufferInit = R * c
  <2>1. CASE seek # 0
    BY <1>2, <2>1 DEF Arriving, UpdateLast
  <2>2. CASE seek = 0
    BY <1>3, <2>2 DEF Arriving, UpdateLast
  <2> QED
    BY <2>1, <2>2
<1> QED
  BY <1>10, <1>11, <1>12

(* The head is where the last request sent it by the time of its           *)
(* interrupt, and that interrupt comes when it should.                     *)
HeadInv ==
    /\ Buffered
    /\ ~Active => arrived <= totalTicks
    /\ \A i \in DOMAIN pending : pending[i].type = "DiskInt" => arrived <= pending[i].key
    /\ LatencyExact

(* Steps that leave the disk alone.                                        *)
LEMMA HeadStays ==
  ASSUME TypeOK, HeadInv, UNCHANGED <<pending, disk, arrived, flight>>,
         totalTicks' \in Nat, totalTicks <= totalTicks'
  PROVE  HeadInv'
<1>1. Buffered'
  BY DEF HeadInv, Buffered, FirstSlot
<1>2. ~Active' => arrived' <= totalTicks'
  <2>1. totalTicks \in Nat /\ arrived \in Nat
    BY DEF TypeOK
  <2> QED
    BY <2>1, SameDisk DEF HeadInv
<1>3. LatencyExact'
  BY DEF HeadInv, LatencyExact, PassEnds
<1> QED
  BY <1>1, <1>2, <1>3 DEF HeadInv

LEMMA HeadAccess ==
  ASSUME Inv, Inv', HeadInv, NEW t \in Thread, NEW s \in Sector, NEW w \in BOOLEAN, Access(t, s, w)
  PROVE  HeadInv'
<1>0. TypeOK /\ Clock /\ TypeOK' /\ Clock'
  BY DEF Inv
<1>1. ComputeLatency(s, w) \in Nat /\ ComputeLatency(s, w) > 0
  BY <1>0, Timing
<1>2. CASE Active
  <2>1. UNCHANGED <<threadVars, totalTicks, pending, semaphore, disk, history>>
    BY <1>2 DEF Access, Active
  <2>2. UNCHANGED <<pending, disk, arrived, flight>> /\ totalTicks' = totalTicks
    BY <2>1 DEF history
  <2>3. totalTicks' \in Nat /\ totalTicks <= totalTicks'
    BY <1>0, <2>2 DEF TypeOK
  <2> QED
    BY <1>0, <2>2, <2>3, HeadStays
<1>3. CASE ~Active
  <2>1. /\ pending' = Schedule(pending, ComputeLatency(s, w), totalTicks, "DiskInt")
        /\ disk' = UpdateLast(s)
        /\ P(t)
        /\ arrived' = Arriving(s)
        /\ flight' = [by |-> t, sector |-> s, issued |-> totalTicks,
                      from |-> IF w THEN totalTicks + Seek(s) ELSE arrived']
        /\ answered' = answered \ {t}
    <3>1. ~(disk.active \/ ComputeLatency(s, w) <= 0)
      <4>1. disk.active = FALSE
        BY <1>0, <1>3 DEF TypeOK, Active
      <4> QED
        BY <1>1, <4>1
    <3> QED
      BY <3>1 DEF Access, Arriving
  <2>2. Active'
    BY <1>0, <2>1, UpdateLastTyped DEF Active
  <2>3. flight'.sector = s /\ flight'.issued = totalTicks /\ flight'.from = From(s, w)
    BY <2>1 DEF From
  <2>4. arrived <= totalTicks /\ Buffered
    BY <1>3 DEF HeadInv
  <2>5. /\ totalTicks + ComputeLatency(s, w)
              = Max({PassEnds(s, From(s, w)), totalTicks + RotationTime})
        /\ Arriving(s) <= totalTicks + ComputeLatency(s, w)
        /\ \E b \in Nat : FirstSlot(b, Arriving(s)) /\ UpdateLast(s).bufferInit = RotationTime * b
    BY <1>0, <2>4, LatencyIs
  <2>a. totalTicks \in Nat /\ "DiskInt" \in IntType
    BY <1>0 DEF TypeOK, IntType
  <2>6. totalTicks + ComputeLatency(s, w) \in Nat /\ "DiskInt" \in IntType
    BY <1>1, <2>a
  <2>7. PICK item \in PendingInterrupt :
           item = [type |-> "DiskInt", key |-> totalTicks + ComputeLatency(s, w)]
    <3>1. [type |-> "DiskInt", key |-> totalTicks + ComputeLatency(s, w)] \in PendingInterrupt
      BY <2>6, ItemTyped
    <3> QED
      BY <3>1
  <2>8. item.type = "DiskInt" /\ item.key = totalTicks + ComputeLatency(s, w)
        /\ pending' = SortedInsert(pending, item)
    BY <2>1, <2>7 DEF Schedule
  <2>9. pending \in Seq(PendingInterrupt) /\ IsSorted(pending) /\ Lone(pending) /\ ~HasDisk(pending)
    BY <1>0, <1>3 DEF TypeOK, Clock
  <2>10. \A i \in DOMAIN pending' : pending'[i] = item \/ \E j \in DOMAIN pending : pending'[i] = pending[j]
    BY <2>8, <2>9, InsertKeeps
  <2>11. \A i \in DOMAIN pending' : pending'[i].type = "DiskInt" => pending'[i] = item
    BY <2>9, <2>10 DEF HasDisk
  <2>12. Buffered'
    BY <2>1, <2>5 DEF Buffered, FirstSlot
  <2>13. LatencyExact'
    <3>1. \A i \in DOMAIN pending' : pending'[i].type = "DiskInt" =>
             pending'[i].key = Max({PassEnds(flight'.sector, flight'.from), flight'.issued + RotationTime})
      BY <2>3, <2>5, <2>8, <2>11
    <3> QED
      BY <3>1 DEF LatencyExact, PassEnds
  <2>14. \A i \in DOMAIN pending' : pending'[i].type = "DiskInt" => arrived' <= pending'[i].key
    BY <2>1, <2>5, <2>8, <2>11
  <2> QED
    BY <2>2, <2>12, <2>13, <2>14 DEF HeadInv
<1> QED
  BY <1>2, <1>3

LEMMA HeadFire ==
  ASSUME Inv, HeadInv, pending # <<>>, NEW now \in Nat, Fire(now), totalTicks <= now,
         Head(pending).key <= now
  PROVE  HeadInv'
<1>1. /\ totalTicks' = now
      /\ \A i \in DOMAIN pending' :
           \/ pending'[i].key > now /\ pending'[i].type = "TimerInt"
           \/ \E j \in DOMAIN pending : pending'[i] = pending[j]
      /\ \/ Head(pending).type = "DiskInt" /\ disk'.bufferInit = disk.bufferInit
         \/ disk' = disk
      /\ UNCHANGED <<serial, current, pc, arrived, flight>>
  BY FireEffect DEF Inv
<1>2. totalTicks \in Nat /\ arrived \in Nat /\ pending \in Seq(PendingInterrupt)
  BY DEF Inv, TypeOK
<1>3. Buffered'
  <2>1. disk'.bufferInit = disk.bufferInit /\ arrived' = arrived
    BY <1>1
  <2> QED
    BY <2>1 DEF HeadInv, Buffered, FirstSlot
<1>4. LatencyExact'
  <2>1. \A i \in DOMAIN pending' : pending'[i].type = "DiskInt" =>
           pending'[i].key = Max({PassEnds(flight.sector, flight.from), flight.issued + RotationTime})
    BY <1>1 DEF HeadInv, LatencyExact
  <2> QED
    BY <1>1, <2>1 DEF LatencyExact, PassEnds
<1>5. \A i \in DOMAIN pending' : pending'[i].type = "DiskInt" => arrived' <= pending'[i].key
  BY <1>1 DEF HeadInv
<1>6. ~Active' => arrived' <= totalTicks'
  <2>1. CASE Head(pending).type = "DiskInt"
    <3>1. Head(pending) = pending[1] /\ 1 \in DOMAIN pending /\ pending[1].key \in Nat
      BY <1>2, KeysOf
    <3>2. arrived <= pending[1].key
      BY <2>1, <3>1 DEF HeadInv
    <3> QED
      BY <1>1, <1>2, <3>1, <3>2
  <2>2. CASE disk' = disk
    BY <1>1, <1>2, <2>2, SameDisk DEF HeadInv
  <2> QED
    BY <1>1, <2>1, <2>2
<1> QED
  BY <1>3, <1>4, <1>5, <1>6 DEF HeadInv

LEMMA HeadCheckIfDue ==
  ASSUME Inv, HeadInv, CheckIfDue
  PROVE  HeadInv'
<1>1. pending # <<>> /\ Fire(totalTicks) /\ Head(pending).key <= totalTicks
  BY DEF CheckIfDue, Due
<1>2. totalTicks \in Nat
  BY DEF Inv, TypeOK
<1>3. totalTicks <= totalTicks
  BY <1>2
<1> QED
  BY <1>1, <1>2, <1>3, HeadFire

LEMMA HeadIdle ==
  ASSUME Inv, HeadInv, Idle
  PROVE  HeadInv'
<1>1. pending # <<>> /\ Fire(Max({totalTicks, Head(pending).key}))
  BY DEF Idle
<1>2. totalTicks \in Nat /\ pending \in Seq(PendingInterrupt)
  BY DEF Inv, TypeOK
<1>3. Head(pending) = pending[1] /\ 1 \in DOMAIN pending /\ pending[1].key \in Nat
  BY <1>1, <1>2, KeysOf
<1>4. PICK key \in Nat : key = Head(pending).key
  BY <1>3
<1>5. Max({totalTicks, key}) = IF totalTicks >= key THEN totalTicks ELSE key
  BY <1>2, MaxOfTwo
<1>6. PICK now \in Nat : now = Max({totalTicks, key})
  BY <1>2, <1>5
<1>7. totalTicks <= now /\ key <= now
  BY <1>2, <1>5, <1>6
<1>8. Fire(now) /\ Head(pending).key <= now
  BY <1>1, <1>4, <1>6, <1>7
<1> QED
  BY <1>1, <1>7, <1>8, HeadFire

(* ComputeLatency is exact for every geometry and every history of         *)
(* requests: each is answered when its sector has completely passed under  *)
(* the head, counting from when the head came to the track for a read and  *)
(* from the request for a write, and one transfer after the request at the *)
(* earliest.                                                               *)
THEOREM LatencyIsExact == Spec => []LatencyExact
<1>1. Init => HeadInv
  <2> SUFFICES ASSUME Init PROVE HeadInv
    OBVIOUS
  <2>1. TypeOK /\ Clock /\ arrived = 0 /\ totalTicks = 0 /\ disk.bufferInit = 0 /\ ~Active
    BY Start DEF Init, Inv, Active
  <2>2. \A i \in DOMAIN pending : pending[i].type # "DiskInt"
    BY <2>1 DEF Clock, HasDisk
  <2>3. RotationTime * 0 = 0 /\ RotationTime * (0 - 1) < 0
    BY DiskAssumption
  <2>4. Buffered
    BY <2>1, <2>3 DEF Buffered, FirstSlot
  <2> QED
    BY <2>1, <2>2, <2>4 DEF HeadInv, LatencyExact
<1>2. Inv /\ Inv' /\ HeadInv /\ [Next]_vars => HeadInv'
  <2> SUFFICES ASSUME Inv, Inv', HeadInv, [Next]_vars PROVE HeadInv'
    OBVIOUS
  <2>0. TypeOK /\ totalTicks \in Nat /\ totalTicks' \in Nat
    BY DEF Inv, TypeOK
  <2>a. ASSUME UNCHANGED <<pending, disk, arrived, flight>>, totalTicks <= totalTicks' PROVE HeadInv'
    BY <2>0, <2>a, HeadStays
  <2>b. \A n \in Nat : totalTicks <= totalTicks + n
    BY <2>0
  <2>c. totalTicks' = totalTicks => totalTicks <= totalTicks'
    BY <2>0
  <2>1. ASSUME NEW t \in Thread, NEW s \in Sector, ReadSector(t, s) PROVE HeadInv'
    <3>1. Access(t, s, FALSE) /\ FALSE \in BOOLEAN
      BY <2>1 DEF ReadSector
    <3> QED
      BY <3>1, HeadAccess
  <2>2. ASSUME NEW t \in Thread, NEW s \in Sector, WriteSector(t, s) PROVE HeadInv'
    <3>1. Access(t, s, TRUE) /\ TRUE \in BOOLEAN
      BY <2>2 DEF WriteSector
    <3> QED
      BY <3>1, HeadAccess
  <2>3. ASSUME NEW t \in Thread, WakeInP(t) PROVE HeadInv'
    <3>1. UNCHANGED <<pending, disk, arrived, flight>>
      BY <2>3 DEF WakeInP, history
    <3>2. totalTicks' = totalTicks \/ totalTicks' = totalTicks + SystemTick
      BY <2>3 DEF WakeInP, P, OneTick
    <3> QED
      BY <2>a, <2>b, <2>c, <3>1, <3>2, DiskAssumption
  <2>4. ASSUME NEW t \in Thread, AfterYield(t) PROVE HeadInv'
    <3>1. UNCHANGED <<pending, disk, arrived, flight>> /\ totalTicks' = totalTicks + SystemTick
      BY <2>4 DEF AfterYield, OneTick, history
    <3> QED
      BY <2>a, <2>b, <3>1, DiskAssumption
  <2>5. ASSUME NEW t \in Thread, NEW n \in {UserTick, SystemTick}, Work(t, n) PROVE HeadInv'
    <3>1. UNCHANGED <<pending, disk, arrived, flight>> /\ totalTicks' = totalTicks + n
      BY <2>5 DEF Work, OneTick, history
    <3>2. n \in Nat
      BY DiskAssumption
    <3> QED
      BY <2>a, <2>b, <3>1, <3>2
  <2>6. ASSUME NEW t \in Thread, Finish(t) PROVE HeadInv'
    BY <2>6, <2>a, <2>c DEF Finish, history
  <2>7. CASE CheckIfDue
    BY <2>7, HeadCheckIfDue
  <2>8. CASE TickReturns
    BY <2>8, <2>a, <2>c DEF TickReturns, history
  <2>9. CASE Idle
    BY <2>9, HeadIdle
  <2>10. CASE IdleReturns
    BY <2>10, <2>a, <2>c DEF IdleReturns, history
  <2>11. CASE Halt
    <3>1. UNCHANGED <<pending, disk, arrived, flight>>
          /\ totalTicks' = (IF TimerAlone THEN Max({totalTicks, Head(pending).key}) ELSE totalTicks)
      BY <2>11 DEF Halt, history
    <3>2. CASE TimerAlone
      <4>1. pending \in Seq(PendingInterrupt) /\ Len(pending) = 1
        BY <2>0, <3>2 DEF TypeOK, TimerAlone
      <4>2. Head(pending) = pending[1] /\ 1 \in DOMAIN pending
        BY <4>1
      <4>3. PICK key \in Nat : key = Head(pending).key
        BY <4>1, <4>2, KeysOf
      <4>4. Max({totalTicks, key}) = IF totalTicks >= key THEN totalTicks ELSE key
        BY <2>0, MaxOfTwo
      <4>5. totalTicks <= totalTicks'
        BY <2>0, <3>1, <3>2, <4>3, <4>4
      <4> QED
        BY <2>a, <3>1, <4>5
    <3>3. CASE ~TimerAlone
      BY <2>a, <2>c, <3>1, <3>3
    <3> QED
      BY <3>2, <3>3
  <2>12. CASE Stopped \/ UNCHANGED vars
    BY <2>12, <2>a, <2>c DEF Stopped, vars, clockVars, history
  <2> QED
    BY <2>1, <2>2, <2>3, <2>4, <2>5, <2>6, <2>7, <2>8, <2>9, <2>10, <2>11, <2>12 DEF Next
<1>3. HeadInv => LatencyExact
  BY DEF HeadInv
<1> QED
  BY <1>1, <1>2, <1>3, Invariance, PTL DEF Spec
=============================================================================
