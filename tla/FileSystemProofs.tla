-------------------------- MODULE FileSystemProofs --------------------------
(***************************************************************************)
(* Proofs about module FileSystem: DiskInv, NeverFails, CrashLeaksNothing  *)
(* and the refinement ImplementsFlatFiles, for every geometry of the disk, *)
(* directory size, set of names, sizes and data.                           *)
(*                                                                         *)
(* The invariant has two layers.  What holds at all times, after a crash    *)
(* inside an operation too, is said of each sector by itself (Sound):      *)
(* the sectors of the map hold sets of bits, those of the directory        *)
(* halves of entries, and every header names as many sectors as its length *)
(* needs.  Each single sector write keeps it, so every part of an          *)
(* operation does.  What relates sectors to each other holds while intact: *)
(* Exact (the map is what the files own, they own disjoint sectors, and no *)
(* name occurs twice) and Current (open files hold the header that is on   *)
(* the disk).                                                              *)
(*                                                                         *)
(* The map and the directory are read and written as files.  So the first  *)
(* part says what ReadAt and WriteAt do to each byte of any file, the      *)
(* second that FetchMap and FetchDirectory read what WriteBackMap and      *)
(* WriteBackDirectory wrote, and only then come the operations.            *)
(*                                                                         *)
(* What a crash leaves is any prefix of the writes of an operation.        *)
(* CreatePart, RemovePart and WritePart list these prefixes; each is Safe  *)
(* (what is marked belongs to an entry, and an entry whose sectors are not *)
(* marked is the one being made or removed) and keeps the other files      *)
(* (Kept).  EarlyInv is needed besides: entries are taken in order,  *)
(* so an entry left under an old name hides no other file.  The refinement *)
(* maps the disk to the contents of the files in its directory, and has    *)
(* one lemma for each action.                                              *)
(***************************************************************************)
EXTENDS FileSystem, FiniteSetTheorems, FunctionTheorems, WellFoundedInduction, TLAPS

LEMMA LeastExists ==
  ASSUME NEW S, S \subseteq Nat, S # {}
  PROVE  \E i \in S : \A j \in S : i <= j
<1> DEFINE R == OpToRel(<, Nat)
<1>1. IsWellFoundedOn(R, Nat)
  BY NatLessThanWellFounded
<1> HIDE DEF R
<1>2. \E x \in S : \A y \in S : ~(<<y, x>> \in R)
  BY <1>1, WFMin
<1>3. PICK x \in S : \A y \in S : ~(<<y, x>> \in R)
  BY <1>2
<1>4. \A y \in S : ~(y < x)
  BY <1>3 DEF R, OpToRel
<1> QED
  BY <1>3, <1>4
-----------------------------------------------------------------------------
(* Arithmetic with a symbolic sector size.                                 *)

LEMMA Distributes == \A a, b, c \in Int : a * (b + c) = a * b + a * c /\ a * (b - c) = a * b - a * c
OBVIOUS

LEMMA Commutes == \A a, b \in Int : a * b = b * a /\ a * b \in Int
OBVIOUS

LEMMA DivMod == \A a \in Int, b \in Nat \ {0} : a = b * (a \div b) + (a % b)
OBVIOUS

LEMMA AtLeast == \A b \in Nat, x \in Int : x >= 1 => b * x >= b
OBVIOUS

LEMMA AtMost == \A b \in Nat, x \in Int : x <= -1 => b * x <= -b
OBVIOUS

LEMMA ModBounds == \A a \in Int, b \in Nat \ {0} : a % b \in 0 .. b - 1
OBVIOUS

LEMMA DivIsInt == \A a \in Int, b \in Nat \ {0} : a \div b \in Int
OBVIOUS

(* Products with b order as the factors do.                                *)
LEMMA ProductOrder ==
  ASSUME NEW b \in Nat \ {0}, NEW x \in Int, NEW y \in Int
  PROVE  /\ x <= y => b * x <= b * y
         /\ b * x < b * y => x < y
<1>1. b * x \in Int /\ b * y \in Int /\ b * (y - x) = b * y - b * x /\ b * (y - x) \in Int
  BY Distributes, Commutes
<1> DEFINE z == y - x
<1>2. z \in Int
  OBVIOUS
<1>3. z >= 1 => b * z >= b
  BY <1>2, AtLeast
<1>4. z <= -1 => b * z <= -b
  BY <1>2, AtMost
<1>5. z = 0 => b * z = 0
  OBVIOUS
<1>6. b * z = b * y - b * x
  BY <1>1
<1>7. ASSUME x <= y PROVE b * x <= b * y
  <2>1. z >= 1 \/ z = 0
    BY <1>7
  <2> HIDE DEF z
  <2> QED
    BY <1>1, <1>3, <1>5, <1>6, <2>1
<1>8. ASSUME b * x < b * y PROVE x < y
  <2>1. ~(z <= -1) /\ ~(z = 0)
    <3> HIDE DEF z
    <3> QED
      BY <1>1, <1>4, <1>5, <1>6, <1>8
  <2> QED
    BY <2>1
<1> QED
  BY <1>7, <1>8

(* Quotient and remainder are unique.                                      *)
LEMMA UniqueQuotient ==
  ASSUME NEW b \in Nat \ {0}, NEW x \in Int, NEW y \in Int, NEW r \in 0 .. b - 1, NEW u \in 0 .. b - 1,
         b * x + r = b * y + u
  PROVE  x = y /\ r = u
<1>1. b * x \in Int /\ b * y \in Int /\ b * (y + 1) = b * y + b /\ b * (x + 1) = b * x + b
  BY Distributes, Commutes
<1>2. b * x < b * (y + 1) /\ b * y < b * (x + 1)
  BY <1>1
<1>3. x < y + 1 /\ y < x + 1
  <2>1. x + 1 \in Int /\ y + 1 \in Int
    OBVIOUS
  <2> QED
    BY <1>2, <2>1, ProductOrder
<1>4. x = y
  BY <1>3
<1> QED
  BY <1>1, <1>4

(* A byte of a file is in one sector, at one offset.                       *)
Times(q) == SectorSize * q

LEMMA TimesIs ==
  /\ SectorSize \in Nat \ {0} /\ Times(0) = 0 /\ Times(1) = SectorSize
  /\ \A q \in Int : Times(q) \in Int /\ q * SectorSize = Times(q) /\ Times(q + 1) = Times(q) + SectorSize
  /\ \A q \in Nat : Times(q) \in Nat
  /\ \A q, p \in Int : /\ Times(q + p) = Times(q) + Times(p) /\ Times(q - p) = Times(q) - Times(p)
                       /\ q <= p => Times(q) <= Times(p)
                       /\ Times(q) < Times(p) => q < p
<1>1. SectorSize \in Nat \ {0} /\ SectorSize \in Int
  BY FileSystemAssumption
<1>2. Times(0) = 0 /\ Times(1) = SectorSize
  BY <1>1 DEF Times
<1>3. ASSUME NEW q \in Int, NEW p \in Int
      PROVE  /\ Times(q + p) = Times(q) + Times(p) /\ Times(q - p) = Times(q) - Times(p)
             /\ q <= p => Times(q) <= Times(p)
             /\ Times(q) < Times(p) => q < p
  BY <1>1, Distributes, ProductOrder DEF Times
<1>4. ASSUME NEW q \in Int
      PROVE  Times(q) \in Int /\ q * SectorSize = Times(q)
  BY <1>1, Commutes DEF Times
<1>5. ASSUME NEW q \in Int
      PROVE  Times(q + 1) = Times(q) + SectorSize
  BY <1>2, <1>3
<1>6. ASSUME NEW q \in Nat PROVE Times(q) \in Nat
  <2>1. Times(q) \in Int /\ Times(0) <= Times(q)
    BY <1>3, <1>4
  <2> QED
    BY <1>2, <2>1
<1> QED
  BY <1>1, <1>2, <1>3, <1>4, <1>5, <1>6

LEMMA TimesOrder ==
  ASSUME NEW q \in Int, NEW p \in Int
  PROVE  (q <= p => Times(q) <= Times(p)) /\ (Times(q) < Times(p) => q < p)
BY Zenon, TimesIs

LEMMA TimesNat ==
  ASSUME NEW q \in Nat
  PROVE  /\ Times(q) \in Nat /\ Times(q + 1) = Times(q) + SectorSize /\ q * SectorSize = Times(q)
         /\ Times(q + 1) \in Nat /\ SectorSize \in Nat /\ SectorSize > 0
<1>1. Times(q) \in Nat /\ SectorSize \in Nat \ {0}
  BY Zenon, TimesIs
<1>2. q \in Int
  OBVIOUS
<1>3. Times(q + 1) = Times(q) + SectorSize /\ q * SectorSize = Times(q)
  BY Zenon, <1>2, TimesIs
<1> QED
  BY <1>1, <1>3

LEMMA TimesDiff ==
  ASSUME NEW q \in Int, NEW p \in Int
  PROVE  Times(q + p) = Times(q) + Times(p) /\ Times(q - p) = Times(q) - Times(p)
BY Zenon, TimesIs

LEMMA SplitIs ==
  ASSUME NEW a \in Nat
  PROVE  /\ a \div SectorSize \in Nat /\ a % SectorSize \in Nat /\ a % SectorSize < SectorSize
         /\ a = Times(a \div SectorSize) + (a % SectorSize)
<1>1. SectorSize \in Nat \ {0}
  BY TimesIs
<1>2. a \div SectorSize \in Int /\ a % SectorSize \in 0 .. SectorSize - 1
  BY <1>1, DivIsInt, ModBounds
<1>3. a = Times(a \div SectorSize) + (a % SectorSize)
  BY <1>1, DivMod DEF Times
<1>4. PICK q \in Int : q = a \div SectorSize
  BY <1>2
<1>5. Times(-1) = -SectorSize
  BY TimesIs, <1>1
<1>6. q >= 0
  <2> SUFFICES ASSUME q <= -1 PROVE FALSE
    OBVIOUS
  <2>1. Times(q) \in Int /\ -1 \in Int
    BY TimesIs
  <2>2. Times(q) <= Times(-1)
    BY <2>1, TimesOrder
  <2> QED
    BY <1>1, <1>2, <1>3, <1>4, <1>5, <2>1, <2>2
<1> QED
  BY <1>1, <1>2, <1>3, <1>4, <1>6

LEMMA JoinIs ==
  ASSUME NEW q \in Nat, NEW r \in Nat, r < SectorSize
  PROVE  /\ (Times(q) + r) \div SectorSize = q
         /\ (Times(q) + r) % SectorSize = r
<1>1. SectorSize \in Nat \ {0} /\ Times(q) \in Nat
  BY TimesIs
<1>2. PICK a \in Nat : a = Times(q) + r
  BY <1>1
<1>3. /\ a \div SectorSize \in Nat /\ a % SectorSize \in Nat /\ a % SectorSize < SectorSize
      /\ a = Times(a \div SectorSize) + (a % SectorSize)
  BY SplitIs
<1>4. PICK x \in Nat, u \in Nat : x = a \div SectorSize /\ u = a % SectorSize
  BY <1>3
<1>5. u \in 0 .. SectorSize - 1 /\ r \in 0 .. SectorSize - 1
  BY <1>1, <1>3, <1>4
<1>6. SectorSize * x + u = SectorSize * q + r
  BY <1>2, <1>3, <1>4 DEF Times
<1>7. x = q /\ u = r
  BY <1>1, <1>5, <1>6, UniqueQuotient
<1> QED
  BY <1>2, <1>4, <1>7

(* How many sectors n bytes need.                                          *)
LEMMA RoundUpIs ==
  ASSUME NEW n \in Nat
  PROVE  /\ divRoundUp(n, SectorSize) \in Nat
         /\ n <= Times(divRoundUp(n, SectorSize))
         /\ n > 0 => Times(divRoundUp(n, SectorSize)) < n + SectorSize
         /\ n = 0 => divRoundUp(n, SectorSize) = 0
         /\ \A a \in Nat : a < n => a \div SectorSize < divRoundUp(n, SectorSize)
<1>1. SectorSize \in Nat \ {0} /\ n + SectorSize - 1 \in Nat
  BY TimesIs
<1>2. PICK m \in Nat : m = n + SectorSize - 1
  BY <1>1
<1>3. PICK k \in Nat : k = divRoundUp(n, SectorSize) /\ k = m \div SectorSize
  BY <1>1, <1>2, SplitIs DEF divRoundUp
<1>4. PICK r \in Nat : m = Times(k) + r /\ r < SectorSize /\ Times(k) \in Nat
  BY <1>3, SplitIs, TimesIs
<1>5. n <= Times(k) /\ Times(k) < n + SectorSize
  BY <1>1, <1>2, <1>4
<1>6. n = 0 => k = 0
  <2> SUFFICES ASSUME n = 0 PROVE k = 0
    OBVIOUS
  <2>1. Times(k) < Times(1)
    BY <1>5, TimesIs
  <2> QED
    BY <2>1, TimesIs
<1>7. ASSUME NEW a \in Nat, a < n PROVE a \div SectorSize < k
  <2>1. PICK q \in Nat : q = a \div SectorSize /\ Times(q) <= a /\ Times(q) \in Nat
    <3>1. /\ a \div SectorSize \in Nat /\ a % SectorSize \in Nat
          /\ a = Times(a \div SectorSize) + (a % SectorSize)
      BY SplitIs
    <3>2. Times(a \div SectorSize) \in Nat
      BY <3>1, TimesIs
    <3> QED
      BY <3>1, <3>2
  <2>2. Times(q) < Times(k) /\ q \in Int /\ k \in Int
    BY <1>4, <1>5, <1>7, <2>1
  <2> QED
    BY <2>1, <2>2, TimesOrder
<1> QED
  BY <1>3, <1>5, <1>6, <1>7
-----------------------------------------------------------------------------
(* What is on a disk.                                                      *)

EntryName == Name \cup {Junk, "stdin", "stdout"}

Byte ==
  (SUBSET Sector) \cup (BOOLEAN \X Sector) \cup EntryName \cup UNION {Seqs!ToSet(data) : data \in Data}

HeaderType == [numBytes : Nat, dataSectors : Seq(Sector)]

SectorType == [hdr : HeaderType \cup {NoHeader}, bytes : [1 .. SectorSize -> Byte]]

DiskType == [Sector -> SectorType]

WriteType == [sector : Sector, contents : SectorType]

LEMMA BytesAre ==
  /\ Junk \in EntryName /\ EntryName \subseteq Byte /\ SUBSET Sector \subseteq Byte
  /\ BOOLEAN \X Sector \subseteq Byte /\ \A data \in Data : data \in Seq(Byte)
<1>1. Junk \in EntryName
  BY DEF EntryName
<1>2. PICK A, B, C, D : /\ A = SUBSET Sector /\ B = BOOLEAN \X Sector /\ C = EntryName
                        /\ D = UNION {Seqs!ToSet(data) : data \in Data}
  OBVIOUS
<1>3. Byte = A \cup B \cup C \cup D
  BY <1>2, Zenon DEF Byte
<1>4. A \subseteq Byte /\ B \subseteq Byte /\ C \subseteq Byte /\ D \subseteq Byte
  <2>1. \A X, Y, Z, W : LET U == X \cup Y \cup Z \cup W IN
          X \subseteq U /\ Y \subseteq U /\ Z \subseteq U /\ W \subseteq U
    OBVIOUS
  <2> QED
    BY <1>3, <2>1, Zenon
<1>5. ASSUME NEW data \in Data PROVE data \in Seq(Byte)
  <2>1. data \in Seq(Seqs!ToSet(data))
    BY FileSystemAssumption
  <2>2. Seqs!ToSet(data) \subseteq Byte
    <3>1. \A x \in Seqs!ToSet(data) : x \in UNION {Seqs!ToSet(e) : e \in Data}
      BY Zenon
    <3> QED
      BY <1>2, <1>4, <3>1, Zenon
  <2>3. PICK S : S = Seqs!ToSet(data)
    OBVIOUS
  <2>4. data \in Seq(S) /\ S \subseteq Byte
    BY <2>1, <2>2, <2>3
  <2>5. Len(data) \in Nat /\ data = [i \in 1 .. Len(data) |-> data[i]] /\ \A i \in 1 .. Len(data) : data[i] \in S
    BY <2>4
  <2>6. \A i \in 1 .. Len(data) : data[i] \in Byte
    BY <2>4, <2>5
  <2>7. [i \in 1 .. Len(data) |-> data[i]] \in Seq(Byte)
    BY <2>5, <2>6
  <2> QED
    BY <2>5, <2>7
<1> QED
  BY <1>1, <1>2, <1>4, <1>5, Zenon

LEMMA SectorTypeIs ==
  /\ \A c \in SectorType : /\ c.hdr \in HeaderType \cup {NoHeader} /\ c.bytes \in [1 .. SectorSize -> Byte]
                           /\ c.bytes \in Seq(Byte) /\ Len(c.bytes) = SectorSize
  /\ \A h \in HeaderType : HeaderSector(h) \in SectorType /\ HeaderSector(h).hdr = h
  /\ \A b \in [1 .. SectorSize -> Byte] :
       DataSector(b) \in SectorType /\ DataSector(b).hdr = NoHeader /\ DataSector(b).bytes = b
<1>1. SectorSize \in Nat
  BY TimesIs
<1>2. \A c \in SectorType : c.hdr \in HeaderType \cup {NoHeader} /\ c.bytes \in [1 .. SectorSize -> Byte]
  BY DEF SectorType
<1>3. \A b \in [1 .. SectorSize -> Byte] : b \in Seq(Byte) /\ Len(b) = SectorSize
  BY <1>1
<1>4. Blank \in [1 .. SectorSize -> Byte]
  <2>1. Junk \in Byte
    BY BytesAre
  <2> QED
    BY <2>1 DEF Blank
<1>5. \A h \in HeaderType : HeaderSector(h) \in SectorType /\ HeaderSector(h).hdr = h
  BY <1>4 DEF HeaderSector, SectorType
<1>6. \A b \in [1 .. SectorSize -> Byte] :
        DataSector(b) \in SectorType /\ DataSector(b).hdr = NoHeader /\ DataSector(b).bytes = b
  BY DEF DataSector, SectorType
<1> QED
  BY <1>2, <1>3, <1>5, <1>6
-----------------------------------------------------------------------------
(* The disk after a sequence of writes.  after[i] is the disk after i.     *)

IsAfter(after, d, writes, n) ==
  after = [i \in 0 .. n |-> IF i = 0 THEN d
                            ELSE [after[i - 1] EXCEPT ![writes[i].sector] = writes[i].contents]]

LEMMA AfterExists ==
  ASSUME NEW d, NEW writes, NEW n \in Nat
  PROVE  \E after : IsAfter(after, d, writes, n)
<1> DEFINE Bad == {m \in Nat : ~\E after : IsAfter(after, d, writes, m)}
           Put(f, i) == [f EXCEPT ![writes[i].sector] = writes[i].contents]
<1> SUFFICES ASSUME Bad # {} PROVE FALSE
  OBVIOUS
<1>1. PICK m \in Bad : \A j \in Bad : m <= j
  BY LeastExists
<1>2. m \in Nat /\ ~\E after : IsAfter(after, d, writes, m)
  OBVIOUS
<1>3. CASE m = 0
  <2> DEFINE h == [i \in 0 .. 0 |-> d]
  <2>1. h = [i \in 0 .. 0 |-> IF i = 0 THEN d ELSE Put(h[i - 1], i)]
    OBVIOUS
  <2> QED
    BY <1>2, <1>3, <2>1 DEF IsAfter
<1>4. CASE m # 0
  <2>1. m - 1 \in Nat /\ m - 1 \notin Bad
    BY <1>1, <1>2, <1>4
  <2>2. PICK g : IsAfter(g, d, writes, m - 1)
    BY <2>1
  <2> DEFINE h == [i \in 0 .. m |-> IF i = m THEN Put(g[m - 1], m) ELSE g[i]]
  <2>3. \A i \in 0 .. m - 1 : g[i] = IF i = 0 THEN d ELSE Put(g[i - 1], i)
    BY <2>2 DEF IsAfter
  <2> HIDE DEF Put
  <2>4. \A i \in 0 .. m : i # m => i \in 0 .. m - 1 /\ h[i] = g[i] /\ (i # 0 => i - 1 \in 0 .. m /\ i - 1 # m)
    BY <1>2, <1>4
  <2>5. h[m] = Put(g[m - 1], m) /\ h[m - 1] = g[m - 1]
    BY <1>2, <1>4
  <2>6. \A i \in 0 .. m : h[i] = IF i = 0 THEN d ELSE Put(h[i - 1], i)
    <3> SUFFICES ASSUME NEW i \in 0 .. m PROVE h[i] = IF i = 0 THEN d ELSE Put(h[i - 1], i)
      OBVIOUS
    <3>1. CASE i = m
      BY <1>4, <2>5, <3>1
    <3>2. CASE i # m
      <4>1. h[i] = g[i] /\ i \in 0 .. m - 1 /\ (i # 0 => h[i - 1] = g[i - 1])
        BY <2>4, <3>2
      <4> HIDE DEF h
      <4> QED
        BY <2>3, <4>1
    <3> QED
      BY <3>1, <3>2
  <2>7. h = [i \in 0 .. m |-> IF i = 0 THEN d ELSE Put(h[i - 1], i)]
    <3>1. h = [i \in 0 .. m |-> h[i]]
      OBVIOUS
    <3> HIDE DEF h
    <3> QED
      BY <2>6, <3>1
  <2> QED
    BY <1>2, <2>7 DEF IsAfter, Put
<1> QED
  BY <1>3, <1>4

LEMMA ApplyIsAfter ==
  ASSUME NEW d, NEW writes \in Seq(WriteType)
  PROVE  \E after : IsAfter(after, d, writes, Len(writes)) /\ Apply(d, writes) = after[Len(writes)]
<1> DEFINE L == CHOOSE after : after = [i \in 0 .. Len(writes) |->
                  IF i = 0 THEN d ELSE [after[i - 1] EXCEPT ![writes[i].sector] = writes[i].contents]]
<1>1. L = [i \in 0 .. Len(writes) |->
             IF i = 0 THEN d ELSE [L[i - 1] EXCEPT ![writes[i].sector] = writes[i].contents]]
  <2>1. \E after : after = [i \in 0 .. Len(writes) |->
             IF i = 0 THEN d ELSE [after[i - 1] EXCEPT ![writes[i].sector] = writes[i].contents]]
    <3>1. Len(writes) \in Nat
      OBVIOUS
    <3>2. \E after : IsAfter(after, d, writes, Len(writes))
      BY <3>1, AfterExists
    <3> QED
      BY <3>2 DEF IsAfter
  <2> QED
    BY <2>1
<1>2. Apply(d, writes) = L[Len(writes)]
  BY Zenon DEF Apply
<1> QED
  BY <1>1, <1>2 DEF IsAfter

(* No sector is written twice.                                             *)
Distinct(writes) ==
  \A i, j \in 1 .. Len(writes) : writes[i].sector = writes[j].sector => i = j

(* d2 is d with these writes done.                                         *)
Done2(d2, d, writes, n) ==
  /\ d2 \in DiskType
  /\ \A j \in 1 .. n : d2[writes[j].sector] = writes[j].contents
  /\ \A q \in Sector : (\A j \in 1 .. n : writes[j].sector # q) => d2[q] = d[q]

LEMMA ApplyIs ==
  ASSUME NEW d \in DiskType, NEW writes \in Seq(WriteType), Distinct(writes)
  PROVE  Done2(Apply(d, writes), d, writes, Len(writes))
<1>1. PICK after : IsAfter(after, d, writes, Len(writes)) /\ Apply(d, writes) = after[Len(writes)]
  BY ApplyIsAfter
<1>2. PICK n \in Nat : n = Len(writes)
  OBVIOUS
<1> DEFINE Bad == {i \in 0 .. n : ~Done2(after[i], d, writes, i)}
<1>3. \A i \in 1 .. n : /\ writes[i] \in WriteType /\ writes[i].sector \in Sector
                        /\ writes[i].contents \in SectorType
  <2>1. \A i \in 1 .. n : writes[i] \in WriteType
    BY <1>2
  <2>2. \A w \in WriteType : w.sector \in Sector /\ w.contents \in SectorType
    BY DEF WriteType
  <2> QED
    BY <2>1, <2>2
<1>4. Bad = {}
  <2> SUFFICES ASSUME Bad # {} PROVE FALSE
    OBVIOUS
  <2>1. PICK i \in Bad : \A j \in Bad : i <= j
    <3>1. Bad \subseteq Nat
      OBVIOUS
    <3> HIDE DEF Bad
    <3> QED
      BY <3>1, LeastExists
  <2>2. i \in 0 .. n /\ ~Done2(after[i], d, writes, i)
    OBVIOUS
  <2>3. CASE i = 0
    <3>1. after[0] = d
      BY <1>1, <1>2 DEF IsAfter
    <3> QED
      BY <2>2, <2>3, <3>1 DEF Done2
  <2>4. CASE i # 0
    <3>1. i - 1 \in 0 .. n /\ i \in 1 .. n /\ i - 1 < i
      BY <2>2, <2>4
    <3>2. Done2(after[i - 1], d, writes, i - 1)
      BY <2>1, <3>1
    <3>3. PICK c : c = after[i - 1]
      OBVIOUS
    <3>4. after[i] = [c EXCEPT ![writes[i].sector] = writes[i].contents]
      BY <1>1, <1>2, <2>2, <2>4, <3>3 DEF IsAfter
    <3>5. /\ c \in DiskType
          /\ \A j \in 1 .. i - 1 : c[writes[j].sector] = writes[j].contents
          /\ \A q \in Sector : (\A j \in 1 .. i - 1 : writes[j].sector # q) => c[q] = d[q]
      BY <3>2, <3>3 DEF Done2
    <3>6. PICK s \in Sector, x \in SectorType : s = writes[i].sector /\ x = writes[i].contents
      BY <1>3, <3>1
    <3>7. PICK e : e = [c EXCEPT ![s] = x]
      OBVIOUS
    <3>8. e \in DiskType /\ e[s] = x /\ \A q \in Sector : q # s => e[q] = c[q]
      BY <3>5, <3>7 DEF DiskType
    <3>9. \A j \in 1 .. i : e[writes[j].sector] = writes[j].contents
      <4> SUFFICES ASSUME NEW j \in 1 .. i PROVE e[writes[j].sector] = writes[j].contents
        OBVIOUS
      <4>1. CASE j = i
        BY <3>6, <3>8, <4>1
      <4>2. CASE j # i
        <5>1. j \in 1 .. i - 1 /\ j \in 1 .. n
          BY <3>1, <4>2
        <5>2. writes[j].sector # s /\ writes[j].sector \in Sector
          BY <1>2, <1>3, <3>1, <3>6, <4>2, <5>1 DEF Distinct
        <5> QED
          BY <3>5, <3>8, <5>1, <5>2
      <4> QED
        BY <4>1, <4>2
    <3>10. \A q \in Sector : (\A j \in 1 .. i : writes[j].sector # q) => e[q] = d[q]
      <4> SUFFICES ASSUME NEW q \in Sector, \A j \in 1 .. i : writes[j].sector # q
                   PROVE  e[q] = d[q]
        OBVIOUS
      <4>1. i \in 1 .. i /\ \A j \in 1 .. i - 1 : j \in 1 .. i
        BY <3>1
      <4>2. q # s
        BY <3>6, <4>1
      <4> QED
        BY <3>5, <3>8, <4>1, <4>2
    <3>11. Done2(e, d, writes, i)
      BY <3>8, <3>9, <3>10 DEF Done2
    <3>12. e = after[i]
      BY <3>4, <3>6, <3>7
    <3> QED
      BY <2>2, <3>11, <3>12
  <2> QED
    BY <2>3, <2>4
<1>5. n \in 0 .. n
  OBVIOUS
<1> QED
  BY <1>1, <1>2, <1>4, <1>5
-----------------------------------------------------------------------------
(* A header with as many sectors as its length needs, each once.           *)

Shape(h) ==
  /\ h \in HeaderType
  /\ Len(h.dataSectors) = divRoundUp(h.numBytes, SectorSize)
  /\ \A i, j \in 1 .. Len(h.dataSectors) : h.dataSectors[i] = h.dataSectors[j] => i = j

(* The sector that holds byte a of a file, and the byte.  Bytes count from 0. *)
SectorAt(h, a) == h.dataSectors[a \div SectorSize + 1]

At(d, h, a) == d[SectorAt(h, a)].bytes[(a % SectorSize) + 1]

LEMMA ShapeIs ==
  ASSUME NEW h, Shape(h)
  PROVE  /\ h.numBytes \in Nat /\ h.dataSectors \in Seq(Sector) /\ Len(h.dataSectors) \in Nat
         /\ \A a \in Nat : a < h.numBytes =>
              /\ a \div SectorSize + 1 \in 1 .. Len(h.dataSectors)
              /\ SectorAt(h, a) \in Sector /\ SectorAt(h, a) \in Seqs!ToSet(h.dataSectors)
         /\ \A i \in 1 .. Len(h.dataSectors) :
              h.dataSectors[i] \in Sector /\ h.dataSectors[i] \in Seqs!ToSet(h.dataSectors)
         /\ \A q \in Seqs!ToSet(h.dataSectors) :
              q \in Sector /\ \E i \in 1 .. Len(h.dataSectors) : h.dataSectors[i] = q
<1>1. h.numBytes \in Nat /\ h.dataSectors \in Seq(Sector)
  BY DEF Shape, HeaderType
<1>2. PICK s \in Seq(Sector) : s = h.dataSectors
  BY <1>1
<1>3. Len(s) \in Nat /\ DOMAIN s = 1 .. Len(s) /\ \A i \in 1 .. Len(s) : s[i] \in Sector
  OBVIOUS
<1>4. \A q : q \in Seqs!ToSet(s) <=> \E i \in 1 .. Len(s) : s[i] = q
  BY <1>3 DEF Seqs!ToSet
<1>5. \A a \in Nat : a < h.numBytes => a \div SectorSize + 1 \in 1 .. Len(s)
  <2> SUFFICES ASSUME NEW a \in Nat, a < h.numBytes PROVE a \div SectorSize + 1 \in 1 .. Len(s)
    OBVIOUS
  <2>1. a \div SectorSize < divRoundUp(h.numBytes, SectorSize)
    BY <1>1, RoundUpIs
  <2>2. PICK k \in Nat : k = a \div SectorSize
    BY SplitIs
  <2>3. Len(s) = divRoundUp(h.numBytes, SectorSize)
    BY <1>2 DEF Shape
  <2>4. k < Len(s)
    BY <2>1, <2>2, <2>3
  <2>5. k + 1 \in 1 .. Len(s)
    BY <1>3, <2>4
  <2> QED
    BY <2>2, <2>5
<1>6. \A i \in 1 .. Len(s) : s[i] \in Sector /\ s[i] \in Seqs!ToSet(s)
  BY <1>3, <1>4
<1>7. \A q \in Seqs!ToSet(s) : q \in Sector /\ \E i \in 1 .. Len(s) : s[i] = q
  BY <1>3, <1>4
<1>8. \A a \in Nat : a < h.numBytes => SectorAt(h, a) \in Sector /\ SectorAt(h, a) \in Seqs!ToSet(s)
  BY <1>2, <1>5, <1>6 DEF SectorAt
<1> QED
  BY <1>1, <1>2, <1>3, <1>5, <1>6, <1>7, <1>8

LEMMA SameSector ==
  ASSUME NEW h, NEW q \in Nat, NEW r \in Nat, r < SectorSize
  PROVE  /\ SectorAt(h, Times(q) + r) = h.dataSectors[q + 1]
         /\ \A d : At(d, h, Times(q) + r) = d[h.dataSectors[q + 1]].bytes[r + 1]
BY JoinIs DEF SectorAt, At

LEMMA ByteToSectorIs ==
  ASSUME NEW h, NEW q \in Nat
  PROVE  ByteToSector(h, q * SectorSize) = h.dataSectors[q + 1]
<1>1. q * SectorSize = Times(q) + 0 /\ 0 < SectorSize /\ 0 \in Nat
  BY TimesIs
<1>2. (Times(q) + 0) \div SectorSize = q
  BY <1>1, JoinIs
<1> QED
  BY <1>1, <1>2 DEF ByteToSector
-----------------------------------------------------------------------------
(* Reading sectors first to last of a file.                                *)

IsRead(read, d, h, first, last) ==
  read = [i \in first .. last |->
            (IF i = first THEN <<>> ELSE read[i - 1]) \o d[ByteToSector(h, i * SectorSize)].bytes]

LEMMA ReadExists ==
  ASSUME NEW d, NEW h, NEW first \in Nat, NEW n \in Nat
  PROVE  \E read : IsRead(read, d, h, first, first + n)
<1> DEFINE Bad == {m \in Nat : ~\E read : IsRead(read, d, h, first, first + m)}
           Piece(f, i) == (IF i = first THEN <<>> ELSE f) \o d[ByteToSector(h, i * SectorSize)].bytes
<1> SUFFICES ASSUME Bad # {} PROVE FALSE
  OBVIOUS
<1>1. PICK m \in Bad : \A j \in Bad : m <= j
  BY LeastExists
<1>2. m \in Nat /\ ~\E read : IsRead(read, d, h, first, first + m)
  OBVIOUS
<1>a. \A f, i : i = first => Piece(f, i) = Piece(<<>>, i)
  OBVIOUS
<1>b. \A f : IsRead(f, d, h, first, first + m) <=> f = [i \in first .. first + m |-> Piece(f[i - 1], i)]
  BY DEF IsRead
<1>c. m # 0 => \A f : IsRead(f, d, h, first, first + (m - 1)) <=> f = [i \in first .. first + (m - 1) |-> Piece(f[i - 1], i)]
  BY DEF IsRead
<1> HIDE DEF Piece
<1>3. CASE m = 0
  <2> DEFINE f == [i \in first .. first + m |-> Piece(<<>>, i)]
  <2>1. \A i \in first .. first + m : i = first
    BY <1>3
  <2>2. \A i \in first .. first + m : f[i] = Piece(f[i - 1], i)
    BY <1>a, <2>1
  <2>3. f = [i \in first .. first + m |-> Piece(f[i - 1], i)]
    <3>1. f = [i \in first .. first + m |-> f[i]]
      OBVIOUS
    <3> HIDE DEF f
    <3> QED
      BY <2>2, <3>1
  <2> HIDE DEF f
  <2> QED
    BY <1>2, <1>b, <2>3
<1>4. CASE m # 0
  <2>1. m - 1 \in Nat /\ m - 1 \notin Bad
    <3>1. PICK B : B = Bad
      OBVIOUS
    <3>2. \A j \in B : m <= j
      BY <1>1, <3>1, Zenon
    <3>3. m - 1 \in Nat /\ ~(m <= m - 1)
      BY ONLY <1>2, <1>4
    <3> HIDE DEF Bad
    <3> QED
      BY <3>1, <3>2, <3>3, Zenon
  <2>2. PICK g : IsRead(g, d, h, first, first + (m - 1))
    BY <2>1
  <2> DEFINE f == [i \in first .. first + m |-> IF i = first + m THEN Piece(g[i - 1], i) ELSE g[i]]
  <2>3. \A i \in first .. first + (m - 1) : g[i] = Piece(g[i - 1], i)
    BY <1>c, <1>4, <2>2
  <2>4. \A i \in first .. first + m : i # first + m =>
          i \in first .. first + (m - 1) /\ f[i] = g[i] /\ (i # first => i - 1 \in first .. first + m /\ i - 1 # first + m)
    BY <1>2, <1>4
  <2>5. f[first + m] = Piece(g[(first + m) - 1], first + m) /\ f[(first + m) - 1] = g[(first + m) - 1]
    BY <1>2, <1>4
  <2>6. \A i \in first .. first + m : f[i] = Piece(f[i - 1], i)
    <3> SUFFICES ASSUME NEW i \in first .. first + m PROVE f[i] = Piece(f[i - 1], i)
      OBVIOUS
    <3>1. CASE i = first + m
      BY <2>5, <3>1
    <3>2. CASE i # first + m
      <4>1. f[i] = g[i] /\ i \in first .. first + (m - 1) /\ (i # first => f[i - 1] = g[i - 1])
        BY <2>4, <3>2
      <4> HIDE DEF f
      <4>2. g[i] = Piece(g[i - 1], i)
        BY <2>3, <4>1
      <4>3. CASE i = first
        BY <1>a, <4>1, <4>2, <4>3
      <4>4. CASE i # first
        BY <4>1, <4>2, <4>4
      <4> QED
        BY <4>3, <4>4
    <3> QED
      BY <3>1, <3>2
  <2>7. f = [i \in first .. first + m |-> Piece(f[i - 1], i)]
    <3>1. f = [i \in first .. first + m |-> f[i]]
      OBVIOUS
    <3> HIDE DEF f
    <3> QED
      BY <2>6, <3>1
  <2> HIDE DEF f
  <2> QED
    BY <1>2, <1>b, <2>7
<1> QED
  BY <1>3, <1>4

LEMMA Concatenation ==
  ASSUME NEW S, NEW s \in Seq(S), NEW b \in Seq(S)
  PROVE  /\ s \o b \in Seq(S) /\ Len(s \o b) = Len(s) + Len(b) /\ Len(s) \in Nat /\ Len(b) \in Nat
         /\ \A k \in 1 .. Len(s) : (s \o b)[k] = s[k] /\ s[k] \in S
         /\ \A k \in 1 .. Len(b) : (s \o b)[Len(s) + k] = b[k] /\ b[k] \in S
OBVIOUS

(* What was read so far.                                                   *)
ReadSoFar(s, d, h, first, n) ==
  /\ s \in Seq(Byte) /\ Len(s) = Times(n)
  /\ \A k \in Nat : k < Times(n) => s[k + 1] = At(d, h, Times(first) + k)

LEMMA ReadNext ==
  ASSUME NEW d \in DiskType, NEW h, NEW first \in Nat, NEW n \in Nat, NEW s,
         ReadSoFar(s, d, h, first, n), h.dataSectors[first + n + 1] \in Sector
  PROVE  ReadSoFar(s \o d[h.dataSectors[first + n + 1]].bytes, d, h, first, n + 1)
<1>1. d[h.dataSectors[first + n + 1]] \in SectorType
  BY DEF DiskType
<1>2. PICK b \in Seq(Byte) : b = d[h.dataSectors[first + n + 1]].bytes /\ Len(b) = SectorSize
  BY <1>1, SectorTypeIs
<1>3. /\ SectorSize \in Nat \ {0} /\ Times(n) \in Nat /\ Times(n + 1) = Times(n) + SectorSize
      /\ Times(first) \in Nat /\ Times(first + n) = Times(first) + Times(n)
  BY TimesIs
<1>4. /\ s \in Seq(Byte) /\ Len(s) = Times(n)
      /\ \A k \in Nat : k < Times(n) => s[k + 1] = At(d, h, Times(first) + k)
  BY DEF ReadSoFar
<1>a. s \o b \in Seq(Byte)
  BY <1>2, <1>4, Concatenation
<1>5. PICK c \in Seq(Byte) : c = s \o b
  BY <1>a, Zenon
<1>6. /\ Len(c) = Times(n) + SectorSize
      /\ \A k \in 1 .. Times(n) : c[k] = s[k]
      /\ \A k \in 1 .. SectorSize : c[Times(n) + k] = b[k]
  <2>1. /\ Len(s \o b) = Len(s) + Len(b)
        /\ \A k \in 1 .. Len(s) : (s \o b)[k] = s[k] /\ s[k] \in Byte
        /\ \A k \in 1 .. Len(b) : (s \o b)[Len(s) + k] = b[k] /\ b[k] \in Byte
    BY <1>4, Concatenation, Zenon
  <2>2. /\ Len(c) = Len(s) + Len(b)
        /\ \A k \in 1 .. Len(s) : c[k] = s[k]
        /\ \A k \in 1 .. Len(b) : c[Len(s) + k] = b[k]
    BY <1>5, <2>1, Zenon
  <2> QED
    BY <1>2, <1>4, <2>2, Zenon
<1>7. \A k \in Nat : k < Times(n + 1) => c[k + 1] = At(d, h, Times(first) + k)
  <2> SUFFICES ASSUME NEW k \in Nat, k < Times(n + 1) PROVE c[k + 1] = At(d, h, Times(first) + k)
    OBVIOUS
  <2>1. CASE k < Times(n)
    <3>1. k + 1 \in 1 .. Times(n)
      BY <1>3, <2>1
    <3> QED
      BY <1>4, <1>6, <2>1, <3>1
  <2>2. CASE ~(k < Times(n))
    <3>1. PICK r \in Nat : k = Times(n) + r /\ r < SectorSize
      <4>1. k - Times(n) \in Nat /\ k = Times(n) + (k - Times(n)) /\ k - Times(n) < SectorSize
        BY <1>3, <2>2
      <4> QED
        BY <4>1
    <3>2. c[k + 1] = b[r + 1]
      <4>1. r + 1 \in 1 .. SectorSize /\ k + 1 = Times(n) + (r + 1)
        BY <1>3, <3>1
      <4> QED
        BY <1>6, <4>1
    <3>3. Times(first) + k = Times(first + n) + r
      BY <1>3, <3>1
    <3>4. first + n \in Nat
      OBVIOUS
    <3>5. At(d, h, Times(first + n) + r) = d[h.dataSectors[(first + n) + 1]].bytes[r + 1]
      <4>1. PICK m \in Nat : m = first + n
        BY <3>4
      <4>2. \A e : At(e, h, Times(m) + r) = e[h.dataSectors[m + 1]].bytes[r + 1]
        <5>1. r < SectorSize
          BY <3>1
        <5> QED
          BY <5>1, SameSector
      <4> QED
        BY <4>1, <4>2, Zenon
    <3> QED
      BY <1>2, <3>2, <3>3, <3>5
  <2> QED
    BY <2>1, <2>2
<1> QED
  BY <1>2, <1>3, <1>5, <1>6, <1>7 DEF ReadSoFar

LEMMA ReadSectorsIs ==
  ASSUME NEW d \in DiskType, NEW h, Shape(h), NEW first \in Nat, NEW last \in Nat, first <= last,
         last < Len(h.dataSectors)
  PROVE  ReadSoFar(ReadSectors(d, h, first, last), d, h, first, (last - first) + 1)
<1> DEFINE L == CHOOSE read : read = [i \in first .. last |->
                  (IF i = first THEN <<>> ELSE read[i - 1]) \o d[ByteToSector(h, i * SectorSize)].bytes]
<1>1. L = [i \in first .. last |->
             (IF i = first THEN <<>> ELSE L[i - 1]) \o d[ByteToSector(h, i * SectorSize)].bytes]
  <2>1. \E read : read = [i \in first .. last |->
             (IF i = first THEN <<>> ELSE read[i - 1]) \o d[ByteToSector(h, i * SectorSize)].bytes]
    <3>1. last - first \in Nat /\ first + (last - first) = last
      OBVIOUS
    <3>2. \E read : IsRead(read, d, h, first, last)
      BY <3>1, ReadExists
    <3> QED
      BY <3>2 DEF IsRead
  <2> QED
    BY <2>1
<1>2. ReadSectors(d, h, first, last) = L[last]
  BY Zenon DEF ReadSectors
<1>3. PICK read : read = L
  OBVIOUS
<1>4. \A i \in first .. last :
        read[i] = (IF i = first THEN <<>> ELSE read[i - 1]) \o d[h.dataSectors[i + 1]].bytes
  <2> SUFFICES ASSUME NEW i \in first .. last
               PROVE  read[i] = (IF i = first THEN <<>> ELSE read[i - 1]) \o d[h.dataSectors[i + 1]].bytes
    OBVIOUS
  <2>1. i \in Nat
    OBVIOUS
  <2>2. ByteToSector(h, i * SectorSize) = h.dataSectors[i + 1]
    BY <2>1, ByteToSectorIs
  <2>3. read[i] = (IF i = first THEN <<>> ELSE read[i - 1]) \o d[ByteToSector(h, i * SectorSize)].bytes
    <3> HIDE DEF L
    <3> QED
      BY <1>1, <1>3
  <2> QED
    BY <2>2, <2>3
<1> HIDE DEF L
<1> DEFINE Bad == {i \in first .. last : ~ReadSoFar(read[i], d, h, first, (i - first) + 1)}
<1>5. Bad = {}
  <2> SUFFICES ASSUME Bad # {} PROVE FALSE
    OBVIOUS
  <2>1. PICK i \in Bad : \A j \in Bad : i <= j
    <3>1. Bad \subseteq Nat
      OBVIOUS
    <3> HIDE DEF Bad
    <3> QED
      BY <3>1, LeastExists
  <2>2. i \in first .. last /\ ~ReadSoFar(read[i], d, h, first, (i - first) + 1)
    OBVIOUS
  <2>3. h.dataSectors[i + 1] \in Sector
    <3>1. i + 1 \in 1 .. Len(h.dataSectors)
      BY <2>2, ShapeIs
    <3> QED
      BY <3>1, ShapeIs
  <2>4. CASE i = first
    <3>1. ReadSoFar(<<>>, d, h, first, 0)
      BY TimesIs DEF ReadSoFar
    <3>2. ReadSoFar(<<>> \o d[h.dataSectors[first + 0 + 1]].bytes, d, h, first, 0 + 1)
      <4>1. first + 0 + 1 = i + 1 /\ 0 \in Nat
        BY <2>4
      <4> QED
        BY <2>3, <3>1, <4>1, ReadNext
    <3>3. first + 0 + 1 = i + 1 /\ 0 + 1 = (i - first) + 1
      BY <2>4
    <3> QED
      BY <1>4, <2>2, <2>4, <3>2, <3>3
  <2>5. CASE i # first
    <3>1. i - 1 \in first .. last /\ i - 1 < i
      BY <2>2, <2>5
    <3>2. i - 1 \notin Bad
      BY <2>1, <2>2, <3>1
    <3>3. ReadSoFar(read[i - 1], d, h, first, ((i - 1) - first) + 1)
      BY <3>1, <3>2
    <3>4. PICK n \in Nat : n = ((i - 1) - first) + 1 /\ first + n + 1 = i + 1 /\ n + 1 = (i - first) + 1
      <4>1. i - first \in Nat /\ i - first = ((i - 1) - first) + 1 /\ first + (i - first) + 1 = i + 1
        BY <2>2
      <4> QED
        BY <4>1
    <3>5. ReadSoFar(read[i - 1] \o d[h.dataSectors[first + n + 1]].bytes, d, h, first, n + 1)
      BY <2>3, <3>3, <3>4, ReadNext
    <3> QED
      BY <1>4, <2>2, <2>5, <3>4, <3>5
  <2> QED
    BY <2>4, <2>5
<1>6. last \in first .. last
  OBVIOUS
<1> QED
  BY <1>2, <1>3, <1>5, <1>6

-----------------------------------------------------------------------------
(* Reading bytes of a file.                                                *)

LEMMA SliceIs ==
  ASSUME NEW S, NEW s \in Seq(S), NEW a \in Nat, NEW m \in Nat, a + m <= Len(s)
  PROVE  /\ SubSeq(s, a + 1, a + m) \in Seq(S) /\ Len(SubSeq(s, a + 1, a + m)) = m
         /\ \A k \in 1 .. m : SubSeq(s, a + 1, a + m)[k] = s[a + k] /\ s[a + k] \in S
<1>1. Len(s) \in Nat /\ \A k \in 1 .. m : a + k \in 1 .. Len(s)
  OBVIOUS
<1>2. \A k \in 1 .. Len(s) : s[k] \in S
  OBVIOUS
<1>3. Len(SubSeq(s, a + 1, a + m)) = m
  BY <1>1
<1>4. \A k \in 1 .. m : SubSeq(s, a + 1, a + m)[k] = s[a + k] /\ s[a + k] \in S
  <2> SUFFICES ASSUME NEW k \in 1 .. m PROVE SubSeq(s, a + 1, a + m)[k] = s[a + k] /\ s[a + k] \in S
    OBVIOUS
  <2>1. (a + 1) + k - 1 = a + k
    OBVIOUS
  <2> QED
    BY <1>1, <1>2, <2>1
<1>5. SubSeq(s, a + 1, a + m) \in Seq(S)
  BY <1>1
<1> QED
  BY <1>3, <1>4, <1>5

(* s is the m bytes from position p on.                                    *)
Got(s, d, h, p, m) ==
  /\ s \in Seq(Byte) /\ Len(s) = m
  /\ \A k \in Nat : k < m => s[k + 1] = At(d, h, p + k)

(* The sectors that m bytes from p on lie in.                              *)
LEMMA SpanIs ==
  ASSUME NEW p \in Nat, NEW m \in Nat, m > 0
  PROVE  \E first, last, r \in Nat :
           /\ first = p \div SectorSize /\ last = (p + m - 1) \div SectorSize /\ r = p % SectorSize
           /\ first <= last /\ p = Times(first) + r /\ r < SectorSize
           /\ p + m <= Times(last + 1) /\ Times(last) < p + m
           /\ Times((last - first) + 1) = Times(last + 1) - Times(first)
           /\ Times(first) \in Nat /\ Times(last + 1) \in Nat /\ Times((last - first) + 1) \in Nat
<1>1. PICK e \in Nat : e = p + m - 1
  OBVIOUS
<1>2. PICK first, r \in Nat : /\ first = p \div SectorSize /\ r = p % SectorSize
                              /\ p = Times(first) + r /\ r < SectorSize
  BY SplitIs, Zenon
<1>3. PICK last, u \in Nat : /\ last = e \div SectorSize /\ u = e % SectorSize
                             /\ e = Times(last) + u /\ u < SectorSize
  BY SplitIs, Zenon
<1>4. /\ Times(first) \in Nat /\ Times(last) \in Nat /\ Times(last + 1) = Times(last) + SectorSize
      /\ SectorSize \in Nat
  BY TimesNat
<1>5. Times(first) < Times(last + 1)
  BY <1>1, <1>2, <1>3, <1>4
<1>6. first < last + 1
  <2>1. first \in Int /\ last + 1 \in Int
    OBVIOUS
  <2> QED
    BY <1>5, <2>1, TimesOrder
<1>7. first <= last /\ (last - first) + 1 = (last + 1) - first /\ (last - first) + 1 \in Nat /\ last + 1 \in Int
  BY <1>6
<1>8. Times((last + 1) - first) = Times(last + 1) - Times(first) /\ Times((last - first) + 1) \in Nat
  <2>1. first \in Int
    OBVIOUS
  <2> QED
    BY <1>7, <2>1, TimesDiff, TimesNat, Zenon
<1>9. p + m <= Times(last + 1) /\ Times(last) < p + m /\ Times(last + 1) \in Nat
  BY <1>1, <1>3, <1>4
<1>10. last = (p + m - 1) \div SectorSize
  BY <1>1, <1>3
<1> QED
  BY <1>2, <1>4, <1>7, <1>8, <1>9, <1>10, Zenon

LEMMA ReadBytesIs ==
  ASSUME NEW d \in DiskType, NEW h, Shape(h), NEW p \in Nat, NEW m \in Nat, m > 0, p + m <= h.numBytes
  PROVE  Got(ReadBytes(d, h, m, p), d, h, p, m)
<1>1. PICK first, last, r \in Nat :
        /\ first = p \div SectorSize /\ last = (p + m - 1) \div SectorSize /\ r = p % SectorSize
        /\ first <= last /\ p = Times(first) + r /\ r < SectorSize
        /\ p + m <= Times(last + 1)
        /\ Times((last - first) + 1) = Times(last + 1) - Times(first)
        /\ Times(first) \in Nat /\ Times(last + 1) \in Nat /\ Times((last - first) + 1) \in Nat
  BY SpanIs, Zenon
<1>2. h.numBytes \in Nat /\ p + m - 1 \in Nat /\ p + m - 1 < h.numBytes
  BY ShapeIs
<1>3. last + 1 \in 1 .. Len(h.dataSectors) /\ Len(h.dataSectors) \in Nat
  BY <1>1, <1>2, ShapeIs
<1>4. last < Len(h.dataSectors)
  BY <1>3
<1>5. PICK s : s = ReadSectors(d, h, first, last)
  OBVIOUS
<1>6. ReadSoFar(s, d, h, first, (last - first) + 1)
  BY <1>1, <1>4, <1>5, ReadSectorsIs
<1>7. /\ s \in Seq(Byte) /\ Len(s) = Times((last - first) + 1)
      /\ \A k \in Nat : k < Times((last - first) + 1) => s[k + 1] = At(d, h, Times(first) + k)
  BY <1>6 DEF ReadSoFar
<1>8. r + m <= Times((last - first) + 1)
  BY <1>1
<1>9. PICK c : c = SubSeq(s, r + 1, r + m)
  OBVIOUS
<1>10. c \in Seq(Byte) /\ Len(c) = m /\ \A k \in 1 .. m : c[k] = s[r + k]
  BY <1>7, <1>8, <1>9, SliceIs
<1>11. ASSUME NEW k \in Nat, k < m PROVE c[k + 1] = At(d, h, p + k)
  <2>1. k + 1 \in 1 .. m /\ r + (k + 1) = (r + k) + 1 /\ r + k \in Nat /\ r + k < Times((last - first) + 1)
    BY <1>1, <1>8, <1>11
  <2>2. c[k + 1] = s[(r + k) + 1]
    BY <1>10, <2>1
  <2>3. s[(r + k) + 1] = At(d, h, Times(first) + (r + k))
    BY <1>7, <2>1
  <2>4. Times(first) + (r + k) = p + k
    BY <1>1
  <2> QED
    BY <2>2, <2>3, <2>4
<1>12. c = ReadBytes(d, h, m, p)
  BY <1>1, <1>5, <1>9 DEF ReadBytes
<1> QED
  BY <1>10, <1>11, <1>12 DEF Got

(* ReadAt: the bytes from p on, as many as there are.                      *)
Available(m, b, n, p) ==
  /\ m <= n
  /\ p < b => p + m <= b
  /\ p + n <= b => m = n
  /\ p + n >= b /\ p <= b => p + m = b

LEMMA ReadAtIs ==
  ASSUME NEW d \in DiskType, NEW h, Shape(h), NEW n \in Nat, NEW p \in Nat
  PROVE  \E m \in Nat : Got(ReadAt(d, h, n, p), d, h, p, m) /\ Available(m, h.numBytes, n, p)
<1>1. h.numBytes \in Nat
  BY ShapeIs
<1>2. PICK b \in Nat : b = h.numBytes
  BY <1>1
<1>3. CASE n <= 0 \/ p >= b
  <2>1. ReadAt(d, h, n, p) = <<>>
    BY <1>2, <1>3 DEF ReadAt
  <2>2. Got(<<>>, d, h, p, 0)
    BY DEF Got
  <2>3. Available(0, b, n, p)
    BY <1>3 DEF Available
  <2> QED
    BY <1>2, <2>1, <2>2, <2>3
<1>4. CASE ~(n <= 0 \/ p >= b)
  <2>1. PICK m \in Nat : m = Min2(n, b - p) /\ m > 0 /\ m <= n /\ p + m <= b /\ (m = n \/ p + m = b)
    BY <1>4 DEF Min2
  <2>2. ReadAt(d, h, n, p) = ReadBytes(d, h, m, p)
    BY <1>2, <1>4, <2>1 DEF ReadAt
  <2>3. Got(ReadBytes(d, h, m, p), d, h, p, m)
    BY <1>2, <2>1, ReadBytesIs
  <2>4. Available(m, b, n, p)
    BY <1>4, <2>1 DEF Available
  <2> QED
    BY <1>2, <2>1, <2>2, <2>3, <2>4
<1> QED
  BY <1>3, <1>4
-----------------------------------------------------------------------------
(* The buffer of WriteAt.                                                  *)

Buffer(buf, l) == buf \in Seq(Byte) /\ Len(buf) = l

IsJoin(c, s, b, m, n) ==
  /\ Buffer(c, m + n)
  /\ \A k \in 1 .. m : c[k] = s[k]
  /\ \A k \in 1 .. n : c[m + k] = b[k]

LEMMA JoinSequences ==
  ASSUME NEW s, NEW b, NEW m \in Nat, NEW n \in Nat, Buffer(s, m), Buffer(b, n)
  PROVE  IsJoin(s \o b, s, b, m, n)
<1>1. s \in Seq(Byte) /\ Len(s) = m /\ b \in Seq(Byte) /\ Len(b) = n
  BY DEF Buffer
<1>2. /\ s \o b \in Seq(Byte) /\ Len(s \o b) = Len(s) + Len(b)
      /\ \A k \in 1 .. Len(s) : (s \o b)[k] = s[k] /\ s[k] \in Byte
      /\ \A k \in 1 .. Len(b) : (s \o b)[Len(s) + k] = b[k] /\ b[k] \in Byte
  <2>1. PICK u \in Seq(Byte), v \in Seq(Byte) : u = s /\ v = b
    BY <1>1
  <2>2. /\ u \o v \in Seq(Byte) /\ Len(u \o v) = Len(u) + Len(v)
        /\ \A k \in 1 .. Len(u) : (u \o v)[k] = u[k] /\ u[k] \in Byte
        /\ \A k \in 1 .. Len(v) : (u \o v)[Len(u) + k] = v[k] /\ v[k] \in Byte
    BY ONLY u \in Seq(Byte), v \in Seq(Byte)
  <2> QED
    BY <2>1, <2>2, Zenon
<1>3. PICK c : c = s \o b
  OBVIOUS
<1>4. /\ c \in Seq(Byte) /\ Len(c) = m + n
      /\ \A k \in 1 .. m : c[k] = s[k]
      /\ \A k \in 1 .. n : c[m + k] = b[k]
  BY <1>1, <1>2, <1>3, Zenon
<1> QED
  BY <1>3, <1>4, Zenon DEF IsJoin, Buffer

IsSlice(c, s, a, m) == Buffer(c, m) /\ \A k \in 1 .. m : c[k] = s[a + k]

LEMMA SliceSequence ==
  ASSUME NEW s, NEW l \in Nat, Buffer(s, l), NEW a \in Nat, NEW m \in Nat, a + m <= l
  PROVE  IsSlice(SubSeq(s, a + 1, a + m), s, a, m)
<1>1. s \in Seq(Byte) /\ Len(s) = l
  BY DEF Buffer
<1> QED
  BY <1>1, SliceIs DEF IsSlice, Buffer

IsOverlay(o, buf, at, s, m, l) ==
  /\ Buffer(o, l)
  /\ \A k \in Nat : k < l =>
       o[k + 1] = IF at <= k /\ k < at + m THEN s[(k - at) + 1] ELSE buf[k + 1]

LEMMA OverlayIs ==
  ASSUME NEW l \in Nat, NEW buf, Buffer(buf, l), NEW at \in Nat, NEW m \in Nat, NEW s,
         Buffer(s, m), at + m <= l
  PROVE  IsOverlay(Overlay(buf, at, s), buf, at, s, m, l)
<1>1. Len(buf) = l /\ Len(s) = m
  BY DEF Buffer
<1>2. PICK x : x = SubSeq(buf, 1, at)
  OBVIOUS
<1>3. Buffer(x, at) /\ \A k \in 1 .. at : x[k] = buf[k]
  <2>1. SubSeq(buf, 0 + 1, 0 + at) = x /\ 0 \in Nat /\ 0 + at <= l
    BY <1>2
  <2>2. IsSlice(x, buf, 0, at)
    BY <2>1, SliceSequence
  <2> QED
    BY <2>2 DEF IsSlice
<1>4. PICK n \in Nat : n = l - (at + m)
  OBVIOUS
<1>5. PICK z : z = SubSeq(buf, at + Len(s) + 1, Len(buf))
  OBVIOUS
<1>6. Buffer(z, n) /\ \A k \in 1 .. n : z[k] = buf[(at + m) + k]
  <2>1. PICK j \in Nat : j = at + m
    OBVIOUS
  <2>2. SubSeq(buf, j + 1, j + n) = z /\ j + n <= l
    BY <1>1, <1>4, <1>5, <2>1
  <2>3. IsSlice(z, buf, j, n)
    BY <2>2, SliceSequence
  <2> QED
    BY <2>1, <2>3 DEF IsSlice
<1>7. PICK y : y = x \o s
  OBVIOUS
<1>8. /\ Buffer(y, at + m)
      /\ \A k \in 1 .. at : y[k] = x[k]
      /\ \A k \in 1 .. m : y[at + k] = s[k]
  <2>1. IsJoin(y, x, s, at, m)
    BY <1>3, <1>7, JoinSequences, Zenon
  <2> QED
    BY <2>1, Zenon DEF IsJoin
<1>9. PICK o : o = y \o z
  OBVIOUS
<1>10. /\ Buffer(o, (at + m) + n)
       /\ \A k \in 1 .. at + m : o[k] = y[k]
       /\ \A k \in 1 .. n : o[(at + m) + k] = z[k]
  <2>1. at + m \in Nat
    OBVIOUS
  <2>2. IsJoin(o, y, z, at + m, n)
    BY <1>6, <1>8, <1>9, <2>1, JoinSequences, Zenon
  <2> QED
    BY <2>2, Zenon DEF IsJoin
<1>11. o = Overlay(buf, at, s)
  BY <1>2, <1>5, <1>7, <1>9 DEF Overlay
<1>12. Buffer(o, l)
  <2>1. (at + m) + n = l
    BY <1>4
  <2> QED
    BY <1>10, <2>1
<1>13. ASSUME NEW k \in Nat, k < l
       PROVE  o[k + 1] = IF at <= k /\ k < at + m THEN s[(k - at) + 1] ELSE buf[k + 1]
  <2>1. CASE k < at
    <3>1. k + 1 \in 1 .. at /\ k + 1 \in 1 .. at + m
      BY <2>1
    <3>2. o[k + 1] = buf[k + 1]
      BY <1>3, <1>8, <1>10, <3>1, Zenon
    <3> QED
      BY <2>1, <3>2
  <2>2. CASE at <= k /\ k < at + m
    <3>1. PICK i \in 1 .. m : i = (k - at) + 1 /\ at + i = k + 1 /\ k + 1 \in 1 .. at + m
      <4>1. (k - at) + 1 \in 1 .. m /\ at + ((k - at) + 1) = k + 1 /\ k + 1 \in 1 .. at + m
        BY <2>2
      <4> QED
        BY <4>1
    <3>2. o[k + 1] = s[i]
      BY <1>8, <1>10, <3>1, Zenon
    <3> QED
      BY <2>2, <3>1, <3>2
  <2>3. CASE at + m <= k
    <3>1. PICK i \in 1 .. n : (at + m) + i = k + 1
      <4>1. (k - (at + m)) + 1 \in 1 .. n /\ (at + m) + ((k - (at + m)) + 1) = k + 1
        BY <1>4, <1>13, <2>3
      <4> QED
        BY <4>1
    <3>2. o[(at + m) + i] = buf[(at + m) + i]
      BY <1>6, <1>10, Zenon
    <3> QED
      BY <2>3, <3>1, <3>2
  <2> QED
    BY <2>1, <2>2, <2>3
<1> QED
  BY <1>11, <1>12, <1>13 DEF IsOverlay

(* A sector of the file is read into the buffer.                           *)
LEMMA ReadInto ==
  ASSUME NEW d \in DiskType, NEW h, Shape(h), NEW first \in Nat, NEW q \in Nat, NEW x \in Nat,
         q = first + x, Times(q) < h.numBytes,
         NEW l \in Nat, NEW buf, Buffer(buf, l), Times(x + 1) <= l
  PROVE  LET o == Overlay(buf, x * SectorSize, ReadAt(d, h, SectorSize, q * SectorSize)) IN
         /\ Buffer(o, l)
         /\ \A k \in Nat : k < l /\ ~(Times(x) <= k /\ k < Times(x + 1)) => o[k + 1] = buf[k + 1]
         /\ \A k \in Nat : k < l /\ Times(x) <= k /\ k < Times(x + 1) /\ Times(first) + k < h.numBytes =>
              o[k + 1] = At(d, h, Times(first) + k)
<1>1. /\ Times(q) \in Nat /\ q * SectorSize = Times(q) /\ Times(x) \in Nat /\ x * SectorSize = Times(x)
      /\ Times(x + 1) = Times(x) + SectorSize /\ SectorSize \in Nat /\ Times(first) \in Nat
  BY TimesNat
<1>2. Times(q) = Times(first) + Times(x)
  <2>1. first \in Int /\ x \in Int
    OBVIOUS
  <2> QED
    BY <2>1, TimesDiff
<1>3. PICK s : s = ReadAt(d, h, SectorSize, Times(q))
  OBVIOUS
<1>a. PICK m \in Nat : Got(s, d, h, Times(q), m) /\ Available(m, h.numBytes, SectorSize, Times(q))
  BY <1>1, <1>3, ReadAtIs, Zenon
<1>5. h.numBytes \in Nat
  BY ShapeIs
<1>4. /\ m <= SectorSize /\ Times(q) + m <= h.numBytes
      /\ m = SectorSize \/ Times(q) + m = h.numBytes
  <2>1. PICK b \in Nat : b = h.numBytes
    BY <1>5
  <2> QED
    BY <1>1, <1>a, <2>1 DEF Available
<1>6. Buffer(s, m) /\ \A k \in Nat : k < m => s[k + 1] = At(d, h, Times(q) + k)
  BY <1>a DEF Got, Buffer
<1>7. Times(x) + m <= l
  BY <1>1, <1>4
<1>8. PICK o : o = Overlay(buf, Times(x), s)
  OBVIOUS
<1>9. /\ Buffer(o, l)
      /\ \A k \in Nat : k < l =>
           o[k + 1] = IF Times(x) <= k /\ k < Times(x) + m THEN s[(k - Times(x)) + 1] ELSE buf[k + 1]
  <2>1. IsOverlay(o, buf, Times(x), s, m, l)
    BY <1>1, <1>6, <1>7, <1>8, OverlayIs, Zenon
  <2> QED
    BY <2>1, Zenon DEF IsOverlay
<1>10. ASSUME NEW k \in Nat, k < l, ~(Times(x) <= k /\ k < Times(x + 1)) PROVE o[k + 1] = buf[k + 1]
  <2>1. ~(Times(x) <= k /\ k < Times(x) + m)
    BY <1>1, <1>4, <1>10
  <2> QED
    BY <1>9, <1>10, <2>1
<1>11. ASSUME NEW k \in Nat, k < l, Times(x) <= k, k < Times(x + 1), Times(first) + k < h.numBytes
       PROVE  o[k + 1] = At(d, h, Times(first) + k)
  <2>1. PICK j \in Nat : j = k - Times(x)
    BY <1>1, <1>11
  <2>2. k < Times(x) + m /\ j < m
    BY <1>1, <1>2, <1>4, <1>5, <1>11, <2>1
  <2>3. o[k + 1] = s[j + 1]
    BY <1>9, <1>11, <2>1, <2>2
  <2>4. s[j + 1] = At(d, h, Times(q) + j)
    BY <1>6, <2>2
  <2>5. Times(q) + j = Times(first) + k
    BY <1>1, <1>2, <2>1
  <2> QED
    BY <2>3, <2>4, <2>5
<1>12. o = Overlay(buf, x * SectorSize, ReadAt(d, h, SectorSize, q * SectorSize))
  BY <1>1, <1>3, <1>8, Zenon
<1> QED
  BY <1>9, <1>10, <1>11, <1>12

LEMMA MemoryIs ==
  ASSUME NEW n \in Nat
  PROVE  Buffer(Memory(n), Times(n))
<1>1. n * SectorSize = Times(n) /\ Times(n) \in Nat
  BY TimesNat
<1>2. Junk \in Byte
  BY BytesAre
<1>3. PICK l \in Nat : l = Times(n)
  BY <1>1
<1>4. Memory(n) = [k \in 1 .. l |-> Junk]
  BY <1>1, <1>3 DEF Memory
<1>5. [k \in 1 .. l |-> Junk] \in Seq(Byte) /\ Len([k \in 1 .. l |-> Junk]) = l
  BY <1>2
<1> QED
  BY <1>3, <1>4, <1>5 DEF Buffer

(* Byte a of a file after from, of length n, is written at position p.     *)
NewByte(d, h, from, p, n, a) ==
  IF p <= a /\ a < p + n THEN from[(a - p) + 1] ELSE At(d, h, a)

(* The buffer holds the new bytes of the file, from sector first on.       *)
Filled(buf, d, h, from, p, n, first, l) ==
  /\ Buffer(buf, l)
  /\ \A k \in Nat : k < l /\ Times(first) + k < h.numBytes =>
       buf[k + 1] = NewByte(d, h, from, p, n, Times(first) + k)

LEMMA FillIs ==
  ASSUME NEW d \in DiskType, NEW h, Shape(h), NEW p \in Nat, NEW n \in Nat, n > 0, p + n <= h.numBytes,
         NEW from, Buffer(from, n), NEW first \in Nat, NEW last \in Nat, NEW r \in Nat,
         first <= last, p = Times(first) + r, r < SectorSize,
         p + n <= Times(last + 1), Times(last) < p + n
  PROVE  Filled(Fill(d, h, from, p, first, last), d, h, from, p, n, first, Times((last - first) + 1))
<1>1. PICK x \in Nat : x = last - first /\ last = first + x /\ x + 1 = 1 + last - first
  <2>1. last - first \in Nat /\ last = first + (last - first) /\ (last - first) + 1 = 1 + last - first
    OBVIOUS
  <2> QED
    BY <2>1
<1>2. PICK l \in Nat : l = Times(x + 1)
  BY TimesNat
<1>3. /\ Times(x) \in Nat /\ l = Times(x) + SectorSize /\ SectorSize \in Nat /\ Times(first) \in Nat
      /\ first * SectorSize = Times(first) /\ Times(last) \in Nat
      /\ Times(last + 1) = Times(last) + SectorSize /\ (last - first) * SectorSize = Times(x)
  BY <1>1, <1>2, TimesNat
<1>4. Times(last) = Times(first) + Times(x)
  <2>1. first \in Int /\ x \in Int
    OBVIOUS
  <2> QED
    BY <1>1, <2>1, TimesDiff
<1>5. h.numBytes \in Nat /\ Len(from) = n
  BY ShapeIs DEF Buffer
<1>6. (last + 1) * SectorSize = Times(last + 1)
  <2>1. last + 1 \in Nat
    OBVIOUS
  <2> QED
    BY <2>1, TimesNat
<1>a. Times(first) < h.numBytes /\ Times(last) < h.numBytes
  <2>1. PICK b \in Nat : b = h.numBytes
    BY <1>5
  <2>2. Times(first) < b /\ Times(last) < b
    BY <1>3, <2>1
  <2> QED
    BY <2>1, <2>2
<1>b. (p = Times(first) <=> r = 0) /\ (p + Len(from) = Times(last + 1) <=> p + n = Times(last + 1))
  <2>1. p = Times(first) <=> r = 0
    BY <1>3
  <2> QED
    BY <1>5, <2>1, Zenon
<1>c. (p = first * SectorSize <=> r = 0) /\ (p + Len(from) = (last + 1) * SectorSize <=> p + n = Times(last + 1))
  BY <1>3, <1>6, <1>b, Zenon
<1> DEFINE fa == p = first * SectorSize
           la == p + Len(from) = (last + 1) * SectorSize
           whole(i) == ReadAt(d, h, SectorSize, i * SectorSize)
           b0 == Memory(1 + last - first)
           b1 == OverlayIf(~fa, b0, 0, whole(first))
           b2 == OverlayIf(~la /\ (first # last \/ fa), b1, (last - first) * SectorSize, whole(last))
           b3 == Overlay(b2, p - first * SectorSize, from)
<1>7. b3 = Fill(d, h, from, p, first, last)
  BY Zenon DEF Fill
<1>8. (fa <=> r = 0) /\ (la <=> p + n = Times(last + 1))
  BY <1>c, Zenon
<1>9. Buffer(b0, l)
  BY <1>1, <1>2, MemoryIs
<1>10. /\ Buffer(b1, l)
       /\ r # 0 => \A k \in Nat : k < l /\ k < SectorSize /\ Times(first) + k < h.numBytes =>
                     b1[k + 1] = At(d, h, Times(first) + k)
  <2> HIDE DEF b0
  <2>1. CASE r = 0
    BY <1>8, <1>9, <2>1 DEF OverlayIf
  <2>2. CASE r # 0
    <3>1. first = first + 0 /\ 0 \in Nat /\ Times(first) < h.numBytes /\ Times(0 + 1) <= l
      <4>1. Times(first) < h.numBytes
        BY <1>a
      <4>2. Times(0 + 1) = SectorSize
        BY TimesIs
      <4> QED
        BY <1>3, <4>1, <4>2
    <3>2. LET o == Overlay(b0, 0 * SectorSize, ReadAt(d, h, SectorSize, first * SectorSize)) IN
          /\ Buffer(o, l)
          /\ \A k \in Nat : k < l /\ Times(0) <= k /\ k < Times(0 + 1) /\ Times(first) + k < h.numBytes =>
               o[k + 1] = At(d, h, Times(first) + k)
      BY <1>9, <3>1, ReadInto
    <3>3. 0 * SectorSize = 0 /\ Times(0) = 0 /\ Times(0 + 1) = SectorSize
      BY <1>3, TimesIs
    <3>4. b1 = Overlay(b0, 0 * SectorSize, ReadAt(d, h, SectorSize, first * SectorSize))
      BY <1>8, <2>2, <3>3 DEF OverlayIf
    <3> HIDE DEF b1
    <3> QED
      BY <3>2, <3>3, <3>4
  <2> QED
    BY <2>1, <2>2
<1>11. /\ Buffer(b2, l)
       /\ \A k \in Nat : /\ k < l /\ k < r /\ Times(first) + k < h.numBytes =>
                              b2[k + 1] = At(d, h, Times(first) + k)
                         /\ k < l /\ p + n <= Times(first) + k /\ Times(first) + k < h.numBytes =>
                              b2[k + 1] = At(d, h, Times(first) + k)
  <2> HIDE DEF b1
  <2>1. \A k \in Nat : k < r => k < SectorSize /\ r # 0
    BY <1>3
  <2>2. CASE ~la /\ (first # last \/ fa)
    <3>1. Times(last) < h.numBytes /\ Times(x + 1) <= l
      BY <1>2, <1>a
    <3>2. LET o == Overlay(b1, x * SectorSize, ReadAt(d, h, SectorSize, last * SectorSize)) IN
          /\ Buffer(o, l)
          /\ \A k \in Nat : k < l /\ ~(Times(x) <= k /\ k < Times(x + 1)) => o[k + 1] = b1[k + 1]
          /\ \A k \in Nat : k < l /\ Times(x) <= k /\ k < Times(x + 1) /\ Times(first) + k < h.numBytes =>
               o[k + 1] = At(d, h, Times(first) + k)
      BY <1>1, <1>10, <3>1, ReadInto
    <3>3. b2 = Overlay(b1, x * SectorSize, ReadAt(d, h, SectorSize, last * SectorSize))
      BY <1>1, <2>2 DEF OverlayIf
    <3> HIDE DEF b2
    <3>4. Buffer(b2, l)
      BY <3>2, <3>3
    <3>5. ASSUME NEW k \in Nat, k < l, k < r, Times(first) + k < h.numBytes
          PROVE  b2[k + 1] = At(d, h, Times(first) + k)
      <4>1. k < Times(x)
        <5>1. first # last
          BY <1>8, <2>2, <3>5
        <5>2. x # 0
          BY <1>1, <5>1
        <5>3. PICK y \in Nat : x = y + 1
          <6>1. x - 1 \in Nat /\ x = (x - 1) + 1
            BY <5>2
          <6> QED
            BY <6>1
        <5>4. Times(x) = Times(y) + SectorSize /\ Times(y) \in Nat
          BY <5>3, TimesNat
        <5> QED
          BY <1>3, <3>5, <5>4
      <4>2. ~(Times(x) <= k /\ k < Times(x + 1))
        BY <1>3, <4>1
      <4>3. b2[k + 1] = b1[k + 1]
        BY <3>2, <3>3, <3>5, <4>2, Zenon
      <4> QED
        BY <1>10, <2>1, <3>5, <4>3
    <3>6. ASSUME NEW k \in Nat, k < l, p + n <= Times(first) + k, Times(first) + k < h.numBytes
          PROVE  b2[k + 1] = At(d, h, Times(first) + k)
      <4>1. Times(x) <= k /\ k < Times(x + 1)
        BY <1>2, <1>3, <1>4, <3>6
      <4> QED
        BY <3>2, <3>3, <3>6, <4>1, Zenon
    <3> QED
      BY <3>4, <3>5, <3>6
  <2>3. CASE ~(~la /\ (first # last \/ fa))
    <3>1. b2 = b1
      BY <2>3, Zenon DEF OverlayIf
    <3> HIDE DEF b2
    <3>2. ASSUME NEW k \in Nat, k < l, p + n <= Times(first) + k, Times(first) + k < h.numBytes
          PROVE  k < SectorSize /\ r # 0
      <4>1. p + n < Times(last + 1)
        BY <1>2, <1>3, <1>4, <3>2
      <4>2. first = last /\ r # 0
        BY <1>8, <2>3, <4>1
      <4>3. x = 0
        BY <1>1, <4>2
      <4> QED
        BY <1>3, <3>2, <4>2, <4>3, TimesIs
    <3> QED
      BY <1>10, <2>1, <3>1, <3>2
  <2> HIDE DEF fa, la, b2
  <2> QED
    BY <2>2, <2>3
<1>12. p - first * SectorSize = r /\ r + n <= l
  BY <1>2, <1>3, <1>4
<1>13. IsOverlay(b3, b2, r, from, n, l)
  <2> HIDE DEF b2
  <2> QED
    BY <1>11, <1>12, OverlayIs
<1> HIDE DEF fa, la, whole, b0, b1, b2, b3
<1>14. /\ Buffer(b3, l)
       /\ \A k \in Nat : k < l => b3[k + 1] = IF r <= k /\ k < r + n THEN from[(k - r) + 1] ELSE b2[k + 1]
  BY <1>13 DEF IsOverlay
<1>15. ASSUME NEW k \in Nat, k < l, Times(first) + k < h.numBytes
       PROVE  b3[k + 1] = NewByte(d, h, from, p, n, Times(first) + k)
  <2>1. PICK a \in Nat : a = Times(first) + k
    BY <1>3
  <2>2. CASE r <= k /\ k < r + n
    <3>1. p <= a /\ a < p + n /\ (k - r) + 1 = (a - p) + 1
      BY <1>3, <2>1, <2>2
    <3> QED
      BY <1>14, <1>15, <2>1, <2>2, <3>1 DEF NewByte
  <2>3. CASE ~(r <= k /\ k < r + n)
    <3>1. ~(p <= a /\ a < p + n) /\ (k < r \/ p + n <= Times(first) + k)
      BY <1>3, <2>1, <2>3
    <3>2. b3[k + 1] = b2[k + 1]
      BY <1>14, <1>15, <2>3
    <3>3. b2[k + 1] = At(d, h, Times(first) + k)
      BY <1>11, <1>15, <3>1
    <3> QED
      BY <2>1, <3>1, <3>2, <3>3 DEF NewByte
  <2> QED
    BY <2>2, <2>3
<1>16. l = Times((last - first) + 1)
  BY <1>1, <1>2
<1> QED
  BY <1>7, <1>14, <1>15, <1>16 DEF Filled
-----------------------------------------------------------------------------
(* The sector writes of WriteAt.                                           *)

(* A write of sector q of the file, in which the bytes of the file are the *)
(* new ones.                                                               *)
FileWrite(w, d, h, from, p, n, q) ==
  /\ q + 1 \in 1 .. Len(h.dataSectors) /\ w.sector = h.dataSectors[q + 1]
  /\ w \in WriteType /\ w.contents.hdr = NoHeader
  /\ \A r \in Nat : r < SectorSize /\ Times(q) + r < h.numBytes =>
       w.contents.bytes[r + 1] = NewByte(d, h, from, p, n, Times(q) + r)

(* The writes are of the sectors first, first + 1, ... of the file.        *)
FileWrites(w, d, h, from, p, n, first, len) ==
  /\ w \in Seq(WriteType) /\ Len(w) = len
  /\ \A i \in Nat : i < len => FileWrite(w[i + 1], d, h, from, p, n, first + i)

LEMMA SectorsAre ==
  ASSUME NEW d \in DiskType, NEW h, Shape(h), NEW p \in Nat, NEW n \in Nat, NEW from,
         NEW first \in Nat, NEW len \in Nat, first + len <= Len(h.dataSectors),
         NEW buf, Filled(buf, d, h, from, p, n, first, Times(len))
  PROVE  FileWrites(Sectors(h, first, buf), d, h, from, p, n, first, len)
<1>1. /\ Buffer(buf, Times(len))
      /\ \A k \in Nat : k < Times(len) /\ Times(first) + k < h.numBytes =>
           buf[k + 1] = NewByte(d, h, from, p, n, Times(first) + k)
  BY DEF Filled
<1>2. Times(len) \in Nat /\ Times(first) \in Nat /\ SectorSize \in Nat /\ SectorSize > 0
  BY TimesNat
<1>3. Len(buf) = Times(len) + 0 /\ (Times(len) + 0) \div SectorSize = len
  <2>1. 0 \in Nat /\ 0 < SectorSize
    BY <1>2
  <2>2. (Times(len) + 0) \div SectorSize = len
    BY <2>1, JoinIs
  <2>3. Len(buf) = Times(len)
    BY <1>1 DEF Buffer
  <2> QED
    BY <1>2, <2>2, <2>3
<1>4. PICK w : w = Sectors(h, first, buf)
  OBVIOUS
<1>5. w = [i \in 1 .. len |->
            [sector |-> ByteToSector(h, (first + i - 1) * SectorSize),
             contents |-> DataSector(SubSeq(buf, (i - 1) * SectorSize + 1, i * SectorSize))]]
  BY <1>3, <1>4, Zenon DEF Sectors
<1>6. ASSUME NEW j \in Nat, j < len
      PROVE  FileWrite(w[j + 1], d, h, from, p, n, first + j)
  <2>1. j + 1 \in 1 .. len /\ first + (j + 1) - 1 = first + j /\ (j + 1) - 1 = j /\ first + j \in Nat
    BY <1>6
  <2>2. w[j + 1] = [sector |-> ByteToSector(h, (first + j) * SectorSize),
                    contents |-> DataSector(SubSeq(buf, j * SectorSize + 1, (j + 1) * SectorSize))]
    BY <1>5, <2>1
  <2>3. ByteToSector(h, (first + j) * SectorSize) = h.dataSectors[(first + j) + 1]
    BY <2>1, ByteToSectorIs, Zenon
  <2>4. (first + j) + 1 \in 1 .. Len(h.dataSectors) /\ h.dataSectors[(first + j) + 1] \in Sector
    <3>1. Len(h.dataSectors) \in Nat
      BY ShapeIs
    <3>2. (first + j) + 1 \in 1 .. Len(h.dataSectors)
      BY <1>6, <3>1
    <3> QED
      BY <3>2, ShapeIs
  <2>5. j * SectorSize = Times(j) /\ (j + 1) * SectorSize = Times(j) + SectorSize /\ Times(j) \in Nat
    <3>1. j + 1 \in Nat
      OBVIOUS
    <3> QED
      BY <3>1, TimesNat
  <2>6. Times(j) + SectorSize <= Times(len)
    <3>1. j + 1 \in Int /\ len \in Int /\ j + 1 <= len
      BY <1>6
    <3>2. Times(j + 1) <= Times(len)
      BY <3>1, TimesOrder
    <3> QED
      BY <3>2, TimesNat
  <2>7. PICK c : c = SubSeq(buf, Times(j) + 1, Times(j) + SectorSize)
    OBVIOUS
  <2>8. IsSlice(c, buf, Times(j), SectorSize)
    BY <1>1, <1>2, <2>5, <2>6, <2>7, SliceSequence
  <2>9. Buffer(c, SectorSize) /\ \A k \in 1 .. SectorSize : c[k] = buf[Times(j) + k]
    BY <2>8 DEF IsSlice
  <2>10. c \in [1 .. SectorSize -> Byte]
    BY <1>2, <2>9 DEF Buffer
  <2>11. DataSector(c) \in SectorType /\ DataSector(c).hdr = NoHeader /\ DataSector(c).bytes = c
    BY <2>10, SectorTypeIs
  <2>12. w[j + 1] = [sector |-> h.dataSectors[(first + j) + 1], contents |-> DataSector(c)]
    BY <2>2, <2>3, <2>5, <2>7
  <2>13. ASSUME NEW r \in Nat, r < SectorSize, Times(first + j) + r < h.numBytes
         PROVE  c[r + 1] = NewByte(d, h, from, p, n, Times(first + j) + r)
    <3>0. Times(j) + r \in Nat /\ Times(j) + r < Times(len)
      <4>1. r \in Nat /\ r < SectorSize
        BY <2>13
      <4> QED
        BY ONLY <1>2, <2>5, <2>6, <4>1
    <3>1. PICK k \in Nat : k = Times(j) + r /\ k < Times(len)
      BY <3>0, Zenon
    <3>2. r + 1 \in 1 .. SectorSize /\ Times(j) + (r + 1) = k + 1
      BY <1>2, <2>5, <2>13, <3>1
    <3>3. Times(first + j) = Times(first) + Times(j)
      <4>1. first \in Int /\ j \in Int
        OBVIOUS
      <4> QED
        BY <4>1, TimesDiff
    <3>4. Times(first + j) + r = Times(first) + k
      BY <1>2, <2>5, <3>1, <3>3
    <3>5. c[r + 1] = buf[k + 1]
      BY <2>9, <3>2
    <3> QED
      BY <1>1, <2>13, <3>1, <3>4, <3>5
  <2>14. /\ w[j + 1].sector = h.dataSectors[(first + j) + 1] /\ w[j + 1].contents = DataSector(c)
         /\ w[j + 1] \in WriteType
    BY <2>4, <2>11, <2>12 DEF WriteType
  <2> QED
    BY <2>4, <2>11, <2>13, <2>14 DEF FileWrite
<1>7. w \in Seq(WriteType) /\ Len(w) = len
  <2>1. \A i \in 1 .. len : w[i] \in WriteType
    <3> SUFFICES ASSUME NEW i \in 1 .. len PROVE w[i] \in WriteType
      OBVIOUS
    <3>1. PICK j \in Nat : i = j + 1 /\ j < len
      <4>1. i - 1 \in Nat /\ i = (i - 1) + 1 /\ i - 1 < len
        OBVIOUS
      <4> QED
        BY <4>1
    <3> QED
      BY <1>6, <3>1 DEF FileWrite
  <2>2. w = [i \in 1 .. len |-> w[i]]
    BY <1>5
  <2>3. [i \in 1 .. len |-> w[i]] \in Seq(WriteType) /\ Len([i \in 1 .. len |-> w[i]]) = len
    BY <2>1
  <2> QED
    BY <2>2, <2>3
<1> QED
  BY <1>4, <1>6, <1>7 DEF FileWrites

LEMMA CountIs ==
  ASSUME NEW h, Shape(h), NEW from \in Seq(Byte), NEW p \in Nat
  PROVE  /\ Count(h, from, p) \in Nat /\ Count(h, from, p) <= Len(from)
         /\ Count(h, from, p) > 0 => p + Count(h, from, p) <= h.numBytes
         /\ p + Len(from) <= h.numBytes => Count(h, from, p) = Len(from)
         /\ p < h.numBytes /\ p + Len(from) >= h.numBytes => p + Count(h, from, p) = h.numBytes
<1>1. PICK b \in Nat : b = h.numBytes
  BY ShapeIs
<1>2. PICK l \in Nat : l = Len(from) /\ (from = <<>> <=> l = 0)
  OBVIOUS
<1>3. Count(h, from, p) = IF from = <<>> \/ p >= b THEN 0 ELSE Min2(l, b - p)
  BY <1>1, <1>2 DEF Count
<1>4. PICK c : c = Count(h, from, p)
  OBVIOUS
<1>5. c = IF l = 0 \/ p >= b THEN 0 ELSE IF l < b - p THEN l ELSE b - p
  BY <1>2, <1>3, <1>4 DEF Min2
<1>6. c \in Nat /\ c <= l /\ (c > 0 => p + c <= b) /\ (p + l <= b => c = l) /\ (p < b /\ p + l >= b => p + c = b)
  BY <1>5
<1> QED
  BY <1>1, <1>2, <1>4, <1>6

(* The sector of every byte that changes is among the writes.              *)
Covers(first, len, p, n) ==
  \A a \in Nat : p <= a /\ a < p + n => first <= a \div SectorSize /\ a \div SectorSize < first + len

LEMMA WriteAtIs ==
  ASSUME NEW d \in DiskType, NEW h, Shape(h), NEW from \in Seq(Byte), NEW p \in Nat, NEW n \in Nat,
         n = Count(h, from, p)
  PROVE  \E first, len \in Nat : /\ FileWrites(WriteAt(d, h, from, p), d, h, from, p, n, first, len)
                                 /\ first + len <= Len(h.dataSectors) /\ Covers(first, len, p, n)
<1>1. CASE n = 0
  <2>1. WriteAt(d, h, from, p) = <<>>
    BY <1>1 DEF WriteAt
  <2>2. FileWrites(<<>>, d, h, from, p, n, 0, 0)
    BY DEF FileWrites
  <2>3. Covers(0, 0, p, n)
    BY <1>1 DEF Covers
  <2>4. 0 + 0 <= Len(h.dataSectors)
    BY ShapeIs
  <2> QED
    BY <2>1, <2>2, <2>3, <2>4
<1>2. CASE n # 0
  <2>1. n > 0 /\ n <= Len(from) /\ p + n <= h.numBytes
    BY <1>2, CountIs
  <2>2. PICK first, last, r \in Nat :
          /\ first = p \div SectorSize /\ last = (p + n - 1) \div SectorSize /\ r = p % SectorSize
          /\ first <= last /\ p = Times(first) + r /\ r < SectorSize
          /\ p + n <= Times(last + 1) /\ Times(last) < p + n
    BY <2>1, SpanIs, Zenon
  <2>3. PICK f : f = SubSeq(from, 1, n)
    OBVIOUS
  <2>4. Buffer(f, n) /\ \A k \in 1 .. n : f[k] = from[k]
    <3>1. SubSeq(from, 0 + 1, 0 + n) = f /\ 0 \in Nat /\ 0 + n <= Len(from) /\ Len(from) \in Nat
      BY <2>1, <2>3
    <3>2. Buffer(from, Len(from))
      BY DEF Buffer
    <3>3. IsSlice(f, from, 0, n)
      BY <3>1, <3>2, SliceSequence
    <3> QED
      BY <3>3 DEF IsSlice
  <2>5. PICK len \in Nat : len = (last - first) + 1
    BY <2>2
  <2>6. PICK buf : buf = Fill(d, h, f, p, first, last)
    OBVIOUS
  <2>7. Filled(buf, d, h, f, p, n, first, Times(len))
    BY <2>1, <2>2, <2>4, <2>5, <2>6, FillIs
  <2>8. \A a \in Nat : NewByte(d, h, f, p, n, a) = NewByte(d, h, from, p, n, a)
    <3> SUFFICES ASSUME NEW a \in Nat PROVE NewByte(d, h, f, p, n, a) = NewByte(d, h, from, p, n, a)
      OBVIOUS
    <3>1. p <= a /\ a < p + n => (a - p) + 1 \in 1 .. n
      OBVIOUS
    <3> QED
      BY <2>4, <3>1 DEF NewByte
  <2>9. Filled(buf, d, h, from, p, n, first, Times(len))
    <3>0. Times(first) \in Nat
      BY TimesNat
    <3>1. \A k \in Nat : Times(first) + k \in Nat
      BY ONLY <3>0
    <3> QED
      BY <2>7, <2>8, <3>1, Zenon DEF Filled
  <2>10. first + len <= Len(h.dataSectors)
    <3>1. h.numBytes \in Nat /\ p + n - 1 \in Nat /\ p + n - 1 < h.numBytes
      BY <2>1, ShapeIs
    <3>2. last + 1 \in 1 .. Len(h.dataSectors) /\ Len(h.dataSectors) \in Nat
      BY <2>2, <3>1, ShapeIs
    <3>3. first \in Nat /\ last \in Nat /\ first <= last
      BY <2>2
    <3> QED
      BY ONLY <2>5, <3>2, <3>3
  <2>11. FileWrites(Sectors(h, first, buf), d, h, from, p, n, first, len)
    BY <2>9, <2>10, SectorsAre
  <2>12. WriteAt(d, h, from, p) = Sectors(h, first, buf)
    BY <1>2, <2>2, <2>3, <2>6 DEF WriteAt, WriteSectors
  <2>13. Covers(first, len, p, n)
    <3> SUFFICES ASSUME NEW a \in Nat, p <= a, a < p + n
                 PROVE  first <= a \div SectorSize /\ a \div SectorSize < first + len
      BY DEF Covers
    <3>1. PICK q, u \in Nat : q = a \div SectorSize /\ a = Times(q) + u /\ u < SectorSize
      BY SplitIs, Zenon
    <3>2. /\ Times(q) \in Nat /\ Times(q + 1) = Times(q) + SectorSize /\ SectorSize \in Nat
          /\ Times(first) \in Nat /\ Times(last + 1) \in Nat
      BY TimesNat
    <3>a. p = Times(first) + r /\ r \in Nat /\ p + n <= Times(last + 1)
      BY <2>2
    <3>b. a = Times(q) + u /\ u \in Nat /\ u < SectorSize
      BY <3>1
    <3>3. Times(first) < Times(q + 1) /\ Times(q) < Times(last + 1)
      <4>1. PICK x, y, z \in Nat : x = Times(first) /\ y = Times(q) /\ z = Times(last + 1)
        BY <3>2
      <4>2. x + r <= a /\ a = y + u /\ a < p + n /\ p + n <= z /\ u < SectorSize /\ Times(q + 1) = y + SectorSize
        BY <3>2, <3>a, <3>b, <4>1, Zenon
      <4>a. PICK ss \in Nat : ss = SectorSize
        BY <3>2
      <4>b. x + r <= a /\ a = y + u /\ a < p + n /\ p + n <= z /\ u < ss
        BY <4>2, <4>a
      <4>c. x < y + ss /\ y < z
        BY ONLY <4>b, x \in Nat, y \in Nat, z \in Nat, r \in Nat, u \in Nat, ss \in Nat, p \in Nat, n \in Nat
      <4>3. x < y + SectorSize /\ y < z
        BY <4>a, <4>c
      <4> QED
        BY <4>1, <4>2, <4>3
    <3>4. q \in Int /\ q + 1 \in Int /\ first \in Int /\ last + 1 \in Int
      OBVIOUS
    <3>5. first < q + 1 /\ q < last + 1
      BY <3>3, <3>4, TimesOrder
    <3>6. first <= q /\ q < first + len
      BY ONLY <2>5, <3>5, first \in Nat, last \in Nat, q \in Nat
    <3> QED
      BY <3>1, <3>6
  <2> QED
    BY <2>10, <2>11, <2>12, <2>13
<1> QED
  BY <1>1, <1>2
-----------------------------------------------------------------------------
(* The free map: which sectors Find and Allocate give.                     *)

LEMMA SectorFinite == IsFiniteSet(Sector) /\ Sector \subseteq Nat /\ Cardinality(Sector) = NumSectors
<1>1. PICK n \in Nat : n = NumSectors
  BY FileSystemAssumption
<1>2. 0 \in Int /\ n - 1 \in Int
  OBVIOUS
<1>3. IsFiniteSet(0 .. n - 1) /\ Cardinality(0 .. n - 1) = IF 0 > n - 1 THEN 0 ELSE (n - 1) - 0 + 1
  BY <1>2, FS_Interval
<1> QED
  BY <1>1, <1>3 DEF Sector

(* In a finite set of numbers there is, for every i below its size, one    *)
(* with exactly i smaller ones.                                            *)
LEMMA RankExists ==
  ASSUME NEW C, C \subseteq Nat, IsFiniteSet(C), NEW i \in Nat, i < Cardinality(C)
  PROVE  \E f \in C : Cardinality({g \in C : g < f}) = i
<1> DEFINE Below(f) == {g \in C : g < f}
           Bad == {j \in Nat : j < Cardinality(C) /\ ~\E f \in C : Cardinality(Below(f)) = j}
<1> SUFFICES ASSUME Bad # {} PROVE FALSE
  OBVIOUS
<1>0. Cardinality(C) \in Nat
  BY FS_CardinalityType
<1>a. \A g \in C : g \in Nat
  OBVIOUS
<1>b. \A f, g : g \in Below(f) <=> g \in C /\ g < f
  OBVIOUS
<1>1. PICK j \in Bad : \A k \in Bad : j <= k
  BY LeastExists
<1>2. j \in Nat /\ j < Cardinality(C) /\ ~\E f \in C : Cardinality(Below(f)) = j
  OBVIOUS
<1>3. CASE j = 0
  <2>1. C # {}
    BY <1>0, <1>2, FS_EmptySet
  <2>2. PICK f \in C : \A g \in C : f <= g
    BY <2>1, LeastExists
  <2>3. Below(f) = {}
    <3>1. \A g \in C : ~(g < f)
      BY <1>a, <2>2
    <3> HIDE DEF Below
    <3> QED
      BY <1>b, <3>1
  <2> QED
    BY <1>2, <1>3, <2>3, FS_EmptySet
<1>4. CASE j # 0
  <2>1. j - 1 \in Nat /\ j - 1 < Cardinality(C) /\ ~(j <= j - 1)
    BY <1>0, <1>2, <1>4
  <2>2. PICK f \in C : Cardinality(Below(f)) = j - 1
    BY <1>1, <2>1
  <2> DEFINE D == {g \in C : f < g}
  <2>3. IsFiniteSet(Below(f)) /\ f \notin Below(f)
    <3>1. Below(f) \in SUBSET C
      OBVIOUS
    <3> QED
      BY <3>1, FS_Subset
  <2>4. Cardinality(Below(f) \cup {f}) = j
    <3> HIDE DEF Below
    <3>1. Cardinality(Below(f) \cup {f}) = (j - 1) + 1
      BY <2>2, <2>3, FS_AddElement
    <3> QED
      BY <1>2, <3>1
  <2>5. D # {}
    <3> SUFFICES ASSUME D = {} PROVE FALSE
      OBVIOUS
    <3>1. \A g \in C : g < f \/ g = f
      BY <1>a
    <3> HIDE DEF Below
    <3>2. C = Below(f) \cup {f}
      BY <1>b, <3>1
    <3>3. Cardinality(C) = j
      BY <2>4, <3>2
    <3> QED
      BY <1>0, <1>2, <3>3
  <2>6. PICK e \in D : \A g \in D : e <= g
    BY <2>5, LeastExists
  <2>7. Below(e) = Below(f) \cup {f}
    <3>1. \A g \in C : g < e <=> g < f \/ g = f
      BY <1>a, <2>6
    <3>2. e \in C
      OBVIOUS
    <3> HIDE DEF Below, D
    <3> QED
      BY <1>b, <3>1
  <2> QED
    BY <1>2, <2>4, <2>6, <2>7
<1> QED
  BY <1>3, <1>4

(* Find gives clear sectors, each once.                                    *)
LEMMA FindOrderIs ==
  ASSUME NEW map, map \subseteq Sector
  PROVE  /\ NumClear(map) \in Nat /\ FindOrder(map) \in Seq(Sector) /\ Len(FindOrder(map)) = NumClear(map)
         /\ \A i \in 1 .. NumClear(map) : FindOrder(map)[i] \in Sector /\ FindOrder(map)[i] \notin map
         /\ \A i, j \in 1 .. NumClear(map) : FindOrder(map)[i] = FindOrder(map)[j] => i = j
<1> DEFINE clear == Sector \ map
           rank(f) == Cardinality({g \in clear : g < f})
           pick(i) == CHOOSE f \in clear : rank(f) = i - 1
<1>1. PICK n : n = NumClear(map)
  OBVIOUS
<1>2. clear \subseteq Nat /\ IsFiniteSet(clear) /\ Cardinality(clear) = n /\ n \in Nat
  <2>1. clear \in SUBSET Sector
    OBVIOUS
  <2>2. IsFiniteSet(clear) /\ clear \subseteq Nat
    BY <2>1, SectorFinite, FS_Subset
  <2>3. Cardinality(clear) \in Nat
    BY <2>2, FS_CardinalityType
  <2>4. Cardinality(clear) = n
    BY <1>1 DEF NumClear
  <2> QED
    BY <2>2, <2>3, <2>4
<1>3. PICK s : s = [i \in 1 .. n |-> pick(i)]
  OBVIOUS
<1>4. s = FindOrder(map)
  BY <1>1, <1>3 DEF FindOrder
<1>5. \A i \in 1 .. n : s[i] \in clear /\ rank(s[i]) = i - 1
  <2> SUFFICES ASSUME NEW i \in 1 .. n PROVE s[i] \in clear /\ rank(s[i]) = i - 1
    OBVIOUS
  <2>1. i - 1 \in Nat /\ i - 1 < Cardinality(clear)
    BY <1>2
  <2>2. \E f \in clear : rank(f) = i - 1
    <3> HIDE DEF clear
    <3> QED
      BY <1>2, <2>1, RankExists
  <2>3. s[i] = CHOOSE f \in clear : rank(f) = i - 1
    BY <1>3 DEF pick
  <2> HIDE DEF clear, rank, pick
  <2> QED
    BY <2>2, <2>3
<1>6. \A i \in 1 .. n : s[i] \in Sector /\ s[i] \notin map
  BY <1>5
<1>7. \A i, j \in 1 .. n : s[i] = s[j] => i = j
  <2> HIDE DEF rank, clear
  <2> QED
    BY <1>2, <1>5
<1>8. s \in Seq(Sector) /\ Len(s) = n
  <2> HIDE DEF clear, rank, pick
  <2>1. s = [i \in 1 .. n |-> s[i]]
    BY <1>3
  <2>2. [i \in 1 .. n |-> s[i]] \in Seq(Sector) /\ Len([i \in 1 .. n |-> s[i]]) = n
    BY <1>2, <1>6
  <2> QED
    BY <2>1, <2>2
<1> HIDE DEF clear, rank, pick
<1> QED
  BY <1>1, <1>2, <1>4, <1>6, <1>7, <1>8

(* The header and the map that Allocate gives.                             *)
Allocated(a, map, size) ==
  /\ Shape(a.hdr) /\ a.hdr.numBytes = size
  /\ Seqs!ToSet(a.hdr.dataSectors) \cap map = {}
  /\ Seqs!ToSet(a.hdr.dataSectors) \subseteq Sector
  /\ a.map = map \cup Seqs!ToSet(a.hdr.dataSectors)

LEMMA AllocateIs ==
  ASSUME NEW map, map \subseteq Sector, NEW size \in Nat, Allocate(map, size).ok
  PROVE  Allocated(Allocate(map, size), map, size)
<1>1. PICK n \in Nat : n = divRoundUp(size, SectorSize)
  BY RoundUpIs
<1>2. PICK c \in Nat : c = NumClear(map)
  BY FindOrderIs
<1>3. PICK s \in Seq(Sector) : s = FindOrder(map)
  BY FindOrderIs
<1>4. /\ Len(s) = c
      /\ \A i \in 1 .. c : s[i] \in Sector /\ s[i] \notin map
      /\ \A i, j \in 1 .. c : s[i] = s[j] => i = j
  BY <1>2, <1>3, FindOrderIs
<1>5. PICK got : got = SubSeq(s, 1, Min2(n, c))
  OBVIOUS
<1>6. PICK a : a = Allocate(map, size)
  OBVIOUS
<1>7. a = [ok |-> c >= n, hdr |-> [numBytes |-> size, dataSectors |-> got],
           map |-> map \cup Seqs!ToSet(got)]
  BY <1>1, <1>2, <1>3, <1>5, <1>6 DEF Allocate
<1>8. n <= c /\ Min2(n, c) = n
  <2>1. a.ok = (c >= n)
    BY <1>7
  <2>2. c >= n
    BY <1>6, <2>1, Zenon
  <2> QED
    BY ONLY <2>2, n \in Nat, c \in Nat DEF Min2
<1>9. got \in Seq(Sector) /\ Len(got) = n /\ \A i \in 1 .. n : got[i] = s[i]
  <2>1. SubSeq(s, 0 + 1, 0 + n) = got /\ 0 \in Nat /\ 0 + n <= Len(s)
    BY <1>4, <1>5, <1>8
  <2>2. got \in Seq(Sector) /\ Len(got) = n /\ \A i \in 1 .. n : got[i] = s[0 + i] /\ s[0 + i] \in Sector
    BY <2>1, SliceIs
  <2> QED
    BY <2>2
<1>10. \A i \in 1 .. n : i \in 1 .. c
  BY <1>8
<1>11. Seqs!ToSet(got) = {got[i] : i \in 1 .. n}
  BY <1>9 DEF Seqs!ToSet
<1>12. \A q \in Seqs!ToSet(got) : q \in Sector /\ q \notin map
  BY <1>4, <1>9, <1>10, <1>11
<1>13. \A i, j \in 1 .. n : got[i] = got[j] => i = j
  BY <1>4, <1>9, <1>10
<1>14. /\ a.hdr = [numBytes |-> size, dataSectors |-> got] /\ a.map = map \cup Seqs!ToSet(got)
       /\ a.hdr.numBytes = size /\ a.hdr.dataSectors = got
  BY <1>7
<1>15. Shape(a.hdr)
  <2>1. a.hdr \in HeaderType
    BY <1>9, <1>14 DEF HeaderType
  <2> QED
    BY <1>1, <1>9, <1>13, <1>14, <2>1 DEF Shape
<1>16. Seqs!ToSet(got) \cap map = {} /\ Seqs!ToSet(got) \subseteq Sector
  BY <1>12
<1> QED
  BY <1>6, <1>14, <1>15, <1>16 DEF Allocated
-----------------------------------------------------------------------------
(* Writes as a set, when no sector is written twice.                       *)

Writes(w) == {w[i] : i \in 1 .. Len(w)}

OneEach(W) == \A v, w \in W : v.sector = w.sector => v = w

(* d2 is d with the writes of W done.                                      *)
Effect(d2, d, W) ==
  /\ d2 \in DiskType
  /\ \A w \in W : d2[w.sector] = w.contents
  /\ \A q \in Sector : (\A w \in W : w.sector # q) => d2[q] = d[q]

LEMMA ApplyEffect ==
  ASSUME NEW d \in DiskType, NEW w \in Seq(WriteType), Distinct(w)
  PROVE  Effect(Apply(d, w), d, Writes(w))
<1>1. Done2(Apply(d, w), d, w, Len(w))
  BY ApplyIs
<1>2. PICK e : e = Apply(d, w)
  OBVIOUS
<1>3. /\ e \in DiskType
      /\ \A j \in 1 .. Len(w) : e[w[j].sector] = w[j].contents
      /\ \A q \in Sector : (\A j \in 1 .. Len(w) : w[j].sector # q) => e[q] = d[q]
  BY <1>1, <1>2 DEF Done2
<1>4. \A v \in Writes(w) : e[v.sector] = v.contents
  BY <1>3 DEF Writes
<1>5. \A q \in Sector : (\A v \in Writes(w) : v.sector # q) => e[q] = d[q]
  <2> SUFFICES ASSUME NEW q \in Sector, \A v \in Writes(w) : v.sector # q PROVE e[q] = d[q]
    OBVIOUS
  <2>1. \A j \in 1 .. Len(w) : w[j].sector # q
    BY Zenon DEF Writes
  <2> QED
    BY <1>3, <2>1
<1> QED
  BY <1>2, <1>3, <1>4, <1>5 DEF Effect

LEMMA NoWrites ==
  ASSUME NEW d \in DiskType
  PROVE  <<>> \in Seq(WriteType) /\ Distinct(<<>>) /\ Writes(<<>>) = {} /\ Apply(d, <<>>) = d
<1>1. <<>> \in Seq(WriteType) /\ Len(<<>>) = 0 /\ 1 .. 0 = {}
  OBVIOUS
<1>2. Distinct(<<>>) /\ Writes(<<>>) = {}
  BY <1>1 DEF Distinct, Writes
<1>3. Effect(Apply(d, <<>>), d, {})
  BY <1>1, <1>2, ApplyEffect
<1>4. PICK e \in DiskType : e = Apply(d, <<>>) /\ \A q \in Sector : e[q] = d[q]
  BY <1>3 DEF Effect
<1>5. e = [q \in Sector |-> e[q]] /\ d = [q \in Sector |-> d[q]]
  BY DEF DiskType
<1>6. e = d
  BY <1>4, <1>5
<1> QED
  BY <1>1, <1>2, <1>4, <1>6

LEMMA OneWrite ==
  ASSUME NEW v \in WriteType
  PROVE  <<v>> \in Seq(WriteType) /\ Distinct(<<v>>) /\ Writes(<<v>>) = {v} /\ Len(<<v>>) = 1
<1>1. <<v>> \in Seq(WriteType) /\ Len(<<v>>) = 1 /\ <<v>>[1] = v
  OBVIOUS
<1>2. 1 .. 1 = {1}
  OBVIOUS
<1>3. Distinct(<<v>>)
  BY <1>1, <1>2 DEF Distinct
<1>4. Writes(<<v>>) = {v}
  BY <1>1, <1>2 DEF Writes
<1> QED
  BY <1>1, <1>3, <1>4

(* Two sequences of writes, to different sectors.                          *)
LEMMA JoinWrites ==
  ASSUME NEW u \in Seq(WriteType), NEW v \in Seq(WriteType)
  PROVE  /\ u \o v \in Seq(WriteType) /\ Writes(u \o v) = Writes(u) \cup Writes(v)
         /\ Distinct(u) /\ Distinct(v) /\ (\A x \in Writes(u), y \in Writes(v) : x.sector # y.sector)
              => Distinct(u \o v)
<1>1. PICK m, n \in Nat : m = Len(u) /\ n = Len(v)
  OBVIOUS
<1>2. PICK w : w = u \o v
  OBVIOUS
<1>3. /\ w \in Seq(WriteType) /\ Len(w) = m + n
      /\ \A i \in 1 .. m : w[i] = u[i]
      /\ \A i \in 1 .. n : w[m + i] = v[i]
  BY <1>1, <1>2
<1>4. \A i \in 1 .. m + n : i \in 1 .. m \/ \E j \in 1 .. n : i = m + j
  <2> SUFFICES ASSUME NEW i \in 1 .. m + n, i \notin 1 .. m PROVE \E j \in 1 .. n : i = m + j
    OBVIOUS
  <2>1. i - m \in 1 .. n /\ i = m + (i - m)
    OBVIOUS
  <2> QED
    BY <2>1
<1>5. \A i \in 1 .. m : i \in 1 .. m + n
  OBVIOUS
<1>6. \A j \in 1 .. n : m + j \in 1 .. m + n
  OBVIOUS
<1>7. Writes(w) = Writes(u) \cup Writes(v)
  <2>1. \A x : x \in Writes(w) <=> \E i \in 1 .. m + n : x = w[i]
    BY <1>3, Zenon DEF Writes
  <2>2. \A x : x \in Writes(u) <=> \E i \in 1 .. m : x = u[i]
    BY <1>1, Zenon DEF Writes
  <2>3. \A x : x \in Writes(v) <=> \E i \in 1 .. n : x = v[i]
    BY <1>1, Zenon DEF Writes
  <2>4. \A x : x \in Writes(w) => x \in Writes(u) \/ x \in Writes(v)
    <3> SUFFICES ASSUME NEW x, x \in Writes(w), x \notin Writes(u) PROVE x \in Writes(v)
      OBVIOUS
    <3>1. PICK i \in 1 .. m + n : x = w[i]
      BY <2>1
    <3>2. i \notin 1 .. m
      BY <1>3, <2>2, <3>1
    <3>3. PICK j \in 1 .. n : i = m + j
      BY <1>4, <3>2
    <3>4. x = v[j]
      BY <1>3, <3>1, <3>3
    <3> QED
      BY <2>3, <3>4
  <2>5. \A x : x \in Writes(u) => x \in Writes(w)
    BY <1>3, <1>5, <2>1, <2>2, Zenon
  <2>6. \A x : x \in Writes(v) => x \in Writes(w)
    BY <1>3, <1>6, <2>1, <2>3, Zenon
  <2> QED
    BY <2>4, <2>5, <2>6
<1>8. ASSUME Distinct(u), Distinct(v), \A x \in Writes(u), y \in Writes(v) : x.sector # y.sector
      PROVE  Distinct(w)
  <2> SUFFICES ASSUME NEW i \in 1 .. m + n, NEW j \in 1 .. m + n, w[i].sector = w[j].sector PROVE i = j
    BY <1>3 DEF Distinct
  <2>1. \A a \in 1 .. m, b \in 1 .. n : u[a].sector # v[b].sector
    BY <1>1, <1>8, Zenon DEF Writes
  <2>2. (\A a, b \in 1 .. m : u[a].sector = u[b].sector => a = b) /\ \A a, b \in 1 .. n : v[a].sector = v[b].sector => a = b
    BY <1>1, <1>8 DEF Distinct
  <2>3. CASE i \in 1 .. m /\ j \in 1 .. m
    BY <1>3, <2>2, <2>3
  <2>4. CASE i \in 1 .. m /\ j \notin 1 .. m
    <3>1. PICK b \in 1 .. n : j = m + b
      BY <1>4, <2>4
    <3>2. w[i] = u[i] /\ w[j] = v[b]
      BY <1>3, <2>4, <3>1
    <3>3. u[i].sector # v[b].sector
      BY <2>1, <2>4
    <3> QED
      BY <3>2, <3>3
  <2>5. CASE i \notin 1 .. m /\ j \in 1 .. m
    <3>1. PICK b \in 1 .. n : i = m + b
      BY <1>4, <2>5
    <3>2. w[j] = u[j] /\ w[i] = v[b]
      BY <1>3, <2>5, <3>1
    <3>3. u[j].sector # v[b].sector
      BY <2>1, <2>5
    <3> QED
      BY <3>2, <3>3
  <2>6. CASE i \notin 1 .. m /\ j \notin 1 .. m
    <3>1. PICK a \in 1 .. n : i = m + a
      BY <1>4, <2>6
    <3>2. PICK b \in 1 .. n : j = m + b
      BY <1>4, <2>6
    <3>3. w[i] = v[a] /\ w[j] = v[b]
      BY <1>3, <3>1, <3>2
    <3>4. a = b
      BY <2>2, <3>3
    <3> QED
      BY <3>1, <3>2, <3>4
  <2> QED
    BY <2>3, <2>4, <2>5, <2>6
<1> QED
  BY <1>2, <1>3, <1>7, <1>8

(* Some of the writes, from the first on.                                  *)
LEMMA SomeWrites ==
  ASSUME NEW w \in Seq(WriteType), NEW k \in 1 .. Len(w)
  PROVE  /\ SubSeq(w, 1, k) \in Seq(WriteType)
         /\ Writes(SubSeq(w, 1, k)) = {w[i] : i \in 1 .. k}
         /\ Writes(SubSeq(w, 1, k)) \subseteq Writes(w)
         /\ Distinct(w) => Distinct(SubSeq(w, 1, k))
<1>1. PICK c : c = SubSeq(w, 1, k)
  OBVIOUS
<1>2. c \in Seq(WriteType) /\ Len(c) = k /\ \A i \in 1 .. k : c[i] = w[i]
  <2>1. SubSeq(w, 0 + 1, 0 + k) = c /\ 0 \in Nat /\ 0 + k <= Len(w) /\ k \in Nat
    BY <1>1
  <2>2. c \in Seq(WriteType) /\ Len(c) = k /\ \A i \in 1 .. k : c[i] = w[0 + i] /\ w[0 + i] \in WriteType
    BY <2>1, SliceIs
  <2> QED
    BY <2>2
<1>3. \A i \in 1 .. k : i \in 1 .. Len(w)
  OBVIOUS
<1>4. Writes(c) = {w[i] : i \in 1 .. k}
  BY <1>2 DEF Writes
<1>5. Writes(c) \subseteq Writes(w)
  BY <1>3, <1>4 DEF Writes
<1>6. Distinct(w) => Distinct(c)
  BY <1>2, <1>3 DEF Distinct
<1> QED
  BY <1>1, <1>2, <1>4, <1>5, <1>6
-----------------------------------------------------------------------------
(* A file after a write.                                                   *)

WriteSet(W, d, h, from, p, n) ==
  /\ \A w \in W : \E q \in Nat : FileWrite(w, d, h, from, p, n, q)
  /\ \A a \in Nat : p <= a /\ a < p + n => \E w \in W : w.sector = SectorAt(h, a)

LEMMA WriteSetIs ==
  ASSUME NEW d \in DiskType, NEW h, Shape(h), NEW from \in Seq(Byte), NEW p \in Nat
  PROVE  /\ WriteAt(d, h, from, p) \in Seq(WriteType) /\ Distinct(WriteAt(d, h, from, p))
         /\ WriteSet(Writes(WriteAt(d, h, from, p)), d, h, from, p, Count(h, from, p))
<1>1. PICK n \in Nat : n = Count(h, from, p)
  BY CountIs
<1>2. PICK w : w = WriteAt(d, h, from, p)
  OBVIOUS
<1>3. PICK first, len \in Nat : /\ FileWrites(w, d, h, from, p, n, first, len)
                                /\ first + len <= Len(h.dataSectors) /\ Covers(first, len, p, n)
  BY <1>1, <1>2, WriteAtIs
<1>4. /\ w \in Seq(WriteType) /\ Len(w) = len
      /\ \A i \in Nat : i < len => FileWrite(w[i + 1], d, h, from, p, n, first + i)
  BY <1>3 DEF FileWrites
<1>5. \A j \in 1 .. len : \E i \in Nat : j = i + 1 /\ i < len /\ first + i \in Nat
  <2> SUFFICES ASSUME NEW j \in 1 .. len PROVE \E i \in Nat : j = i + 1 /\ i < len /\ first + i \in Nat
    OBVIOUS
  <2>1. j - 1 \in Nat /\ j = (j - 1) + 1 /\ j - 1 < len /\ first + (j - 1) \in Nat
    OBVIOUS
  <2> QED
    BY <2>1
<1>6. Distinct(w)
  <2> SUFFICES ASSUME NEW a \in 1 .. len, NEW b \in 1 .. len, w[a].sector = w[b].sector PROVE a = b
    BY <1>4 DEF Distinct
  <2>1. PICK i \in Nat : a = i + 1 /\ i < len
    BY <1>5
  <2>2. PICK j \in Nat : b = j + 1 /\ j < len
    BY <1>5
  <2>3. /\ (first + i) + 1 \in 1 .. Len(h.dataSectors) /\ w[a].sector = h.dataSectors[(first + i) + 1]
        /\ (first + j) + 1 \in 1 .. Len(h.dataSectors) /\ w[b].sector = h.dataSectors[(first + j) + 1]
    BY <1>4, <2>1, <2>2 DEF FileWrite
  <2>4. (first + i) + 1 = (first + j) + 1
    BY <2>3 DEF Shape
  <2> QED
    BY ONLY <2>1, <2>2, <2>4, first \in Nat, i \in Nat, j \in Nat
<1>7. \A v \in Writes(w) : \E q \in Nat : FileWrite(v, d, h, from, p, n, q)
  <2> SUFFICES ASSUME NEW j \in 1 .. len PROVE \E q \in Nat : FileWrite(w[j], d, h, from, p, n, q)
    BY <1>4, Zenon DEF Writes
  <2> QED
    BY <1>4, <1>5, Zenon
<1>8. ASSUME NEW a \in Nat, p <= a, a < p + n PROVE \E v \in Writes(w) : v.sector = SectorAt(h, a)
  <2>1. PICK x \in Nat : x = a \div SectorSize
    BY SplitIs
  <2>2. first <= x /\ x < first + len
    BY <1>3, <1>8, <2>1 DEF Covers
  <2>3. PICK i \in Nat : x = first + i /\ i < len /\ i + 1 \in 1 .. len
    <3>1. x - first \in Nat /\ x = first + (x - first) /\ x - first < len /\ (x - first) + 1 \in 1 .. len
      BY ONLY <2>2, x \in Nat, first \in Nat, len \in Nat
    <3> QED
      BY <3>1
  <2>4. w[i + 1].sector = h.dataSectors[x + 1]
    BY <1>4, <2>3 DEF FileWrite
  <2>5. w[i + 1] \in Writes(w)
    BY <1>4, <2>3, Zenon DEF Writes
  <2> QED
    BY <2>1, <2>4, <2>5, Zenon DEF SectorAt
<1> QED
  BY <1>1, <1>2, <1>4, <1>6, <1>7, <1>8 DEF WriteSet

(* The bytes of a file after the writes of WriteAt.                        *)
LEMMA BytesWritten ==
  ASSUME NEW d \in DiskType, NEW h, Shape(h), NEW from, NEW p \in Nat, NEW n \in Nat, NEW W,
         WriteSet(W, d, h, from, p, n), NEW d2, Effect(d2, d, W), NEW a \in Nat, a < h.numBytes
  PROVE  At(d2, h, a) = NewByte(d, h, from, p, n, a)
<1>1. PICK q, r \in Nat : /\ q = a \div SectorSize /\ r = a % SectorSize
                          /\ r < SectorSize /\ a = Times(q) + r
  BY SplitIs, Zenon
<1>2. PICK s : s = SectorAt(h, a) /\ s = h.dataSectors[q + 1]
  BY <1>1 DEF SectorAt
<1>3. q + 1 \in 1 .. Len(h.dataSectors) /\ s \in Sector /\ s \in Seqs!ToSet(h.dataSectors)
  BY <1>1, <1>2, ShapeIs
<1>4. \A e : At(e, h, a) = e[s].bytes[r + 1]
  BY <1>1, <1>2 DEF At
<1>5. /\ \A w \in W : d2[w.sector] = w.contents
      /\ (\A w \in W : w.sector # s) => d2[s] = d[s]
  BY <1>3 DEF Effect
<1>6. CASE \E w \in W : w.sector = s
  <2>1. PICK w \in W : w.sector = s
    BY <1>6
  <2>2. PICK x \in Nat : FileWrite(w, d, h, from, p, n, x)
    BY DEF WriteSet
  <2>3. /\ x + 1 \in 1 .. Len(h.dataSectors) /\ s = h.dataSectors[x + 1]
        /\ \A u \in Nat : u < SectorSize /\ Times(x) + u < h.numBytes =>
             w.contents.bytes[u + 1] = NewByte(d, h, from, p, n, Times(x) + u)
    BY <2>1, <2>2 DEF FileWrite
  <2>4. x + 1 = q + 1
    BY <1>2, <1>3, <2>3 DEF Shape
  <2>5. x = q
    BY ONLY <2>4, x \in Nat, q \in Nat
  <2>6. w.contents.bytes[r + 1] = NewByte(d, h, from, p, n, a)
    BY <1>1, <2>3, <2>5
  <2> QED
    BY <1>4, <1>5, <2>1, <2>6
<1>7. CASE ~\E w \in W : w.sector = s
  <2>1. ~(p <= a /\ a < p + n)
    BY <1>2, <1>7 DEF WriteSet
  <2>2. \A w \in W : w.sector # s
    BY <1>3, <1>7
  <2> QED
    BY <1>4, <1>5, <2>1, <2>2 DEF NewByte
<1> QED
  BY <1>6, <1>7

(* A file of which no sector is written keeps its bytes.                   *)
LEMMA BytesKept ==
  ASSUME NEW h, Shape(h), NEW d, NEW d2, \A q \in Seqs!ToSet(h.dataSectors) : d2[q] = d[q]
  PROVE  \A a \in Nat : a < h.numBytes => At(d2, h, a) = At(d, h, a)
<1> SUFFICES ASSUME NEW a \in Nat, a < h.numBytes PROVE At(d2, h, a) = At(d, h, a)
  OBVIOUS
<1>1. SectorAt(h, a) \in Seqs!ToSet(h.dataSectors)
  BY ShapeIs
<1> QED
  BY <1>1 DEF At
-----------------------------------------------------------------------------
(* The two files of the file system itself.                                *)

MapSpace == Allocate({FreeMapSector, DirectorySector}, FreeMapFileSize)

DirSpace == Allocate(MapSpace.map, DirectoryFileSize)

MapHdr == MapSpace.hdr

DirHdr == DirSpace.hdr

MapSector == MapHdr.dataSectors[1]

DirSectors == Seqs!ToSet(DirHdr.dataSectors)

(* The sectors that no user file has.                                      *)
Sys == DirSpace.map

LEMMA OneSector == divRoundUp(SectorSize, SectorSize) = 1
<1>1. SectorSize \in Nat /\ SectorSize > 0
  BY TimesIs
<1>2. PICK k \in Nat : k = divRoundUp(SectorSize, SectorSize)
  BY <1>1, RoundUpIs
<1>3. SectorSize <= Times(k) /\ Times(k) < SectorSize + SectorSize
  BY <1>1, <1>2, RoundUpIs
<1>4. Times(0) = 0 /\ Times(1) = SectorSize /\ Times(1 + 1) = SectorSize + SectorSize
  BY TimesIs
<1>5. Times(0) < Times(k) /\ Times(k) < Times(1 + 1)
  <2>1. Times(k) \in Nat
    BY TimesNat
  <2> QED
    BY <1>1, <1>3, <1>4, <2>1
<1>6. 0 \in Int /\ k \in Int /\ 1 + 1 \in Int
  OBVIOUS
<1>7. 0 < k /\ k < 1 + 1
  BY <1>5, <1>6, TimesOrder
<1> QED
  BY <1>2, <1>7

LEMMA SystemIs ==
  /\ Shape(MapHdr) /\ MapHdr.numBytes = SectorSize /\ Len(MapHdr.dataSectors) = 1
  /\ Shape(DirHdr) /\ DirHdr.numBytes = DirectoryFileSize
  /\ FreeMapSector \in Sector /\ DirectorySector \in Sector /\ FreeMapSector # DirectorySector
  /\ MapSector \in Sector \ {FreeMapSector, DirectorySector}
  /\ Seqs!ToSet(MapHdr.dataSectors) = {MapSector}
  /\ DirSectors \subseteq Sector /\ DirSectors \cap {FreeMapSector, DirectorySector, MapSector} = {}
  /\ Sys = {FreeMapSector, DirectorySector, MapSector} \cup DirSectors /\ Sys \subseteq Sector
<1>1. PICK k \in Nat : k = divRoundUp(DirectoryFileSize, SectorSize) /\ 3 + k <= NumSectors
  <2>1. DirectoryFileSize \in Nat
    BY FileSystemAssumption DEF DirectoryFileSize
  <2> QED
    BY <2>1, RoundUpIs, FileSystemAssumption
<1>2. PICK n \in Nat : n = NumSectors
  BY FileSystemAssumption
<1>3. FreeMapSector \in Sector /\ DirectorySector \in Sector /\ FreeMapSector # DirectorySector
  BY <1>1, <1>2 DEF FreeMapSector, DirectorySector, Sector
<1>4. PICK f, g : f = FreeMapSector /\ g = DirectorySector
  OBVIOUS
<1>5. f \in Sector /\ g \in Sector /\ f # g
  BY <1>3, <1>4
<1>6. IsFiniteSet(Sector \ {f}) /\ Cardinality(Sector \ {f}) = n - 1
  BY <1>2, <1>5, SectorFinite, FS_RemoveElement
<1>7. IsFiniteSet((Sector \ {f}) \ {g}) /\ Cardinality((Sector \ {f}) \ {g}) = (n - 1) - 1
  <2>1. g \in Sector \ {f}
    BY <1>5
  <2> QED
    BY <1>6, <2>1, FS_RemoveElement
<1>8. PICK S : S = Sector \ {f, g} /\ IsFiniteSet(S) /\ Cardinality(S) = n - 2
  <2>1. (Sector \ {f}) \ {g} = Sector \ {f, g}
    OBVIOUS
  <2> QED
    BY <1>7, <2>1
<1>9. PICK a : a = MapSpace
  OBVIOUS
<1>10. a.ok
  <2>1. NumClear({f, g}) = n - 2 /\ divRoundUp(FreeMapFileSize, SectorSize) = 1
    BY <1>8, OneSector DEF NumClear, FreeMapFileSize
  <2>2. a.ok = (NumClear({f, g}) >= divRoundUp(FreeMapFileSize, SectorSize))
    BY <1>4, <1>9 DEF MapSpace, Allocate
  <2>3. n - 2 >= 1
    BY <1>1, <1>2
  <2> QED
    BY <2>1, <2>2, <2>3
<1>11. Allocated(a, {f, g}, SectorSize)
  <2>1. {f, g} \subseteq Sector
    BY <1>5
  <2>2. FreeMapFileSize \in Nat /\ FreeMapFileSize = SectorSize
    BY FileSystemAssumption DEF FreeMapFileSize
  <2>3. a = Allocate({f, g}, FreeMapFileSize)
    BY <1>4, <1>9 DEF MapSpace
  <2> QED
    BY <1>10, <2>1, <2>2, <2>3, AllocateIs
<1>12. /\ Shape(MapHdr) /\ MapHdr.numBytes = SectorSize
       /\ Seqs!ToSet(MapHdr.dataSectors) \cap {f, g} = {} /\ Seqs!ToSet(MapHdr.dataSectors) \subseteq Sector
       /\ MapSpace.map = {f, g} \cup Seqs!ToSet(MapHdr.dataSectors)
  BY <1>9, <1>11 DEF Allocated, MapHdr
<1>13. Len(MapHdr.dataSectors) = 1
  BY <1>12, OneSector DEF Shape
<1>14. Seqs!ToSet(MapHdr.dataSectors) = {MapSector}
  <2>1. \A q \in Seqs!ToSet(MapHdr.dataSectors) : \E i \in 1 .. 1 : MapHdr.dataSectors[i] = q
    BY <1>12, <1>13, ShapeIs
  <2>2. MapHdr.dataSectors[1] \in Seqs!ToSet(MapHdr.dataSectors)
    <3>1. 1 \in 1 .. Len(MapHdr.dataSectors)
      BY <1>13
    <3> QED
      BY <1>12, <3>1, ShapeIs
  <2>3. \A i \in 1 .. 1 : i = 1
    OBVIOUS
  <2> QED
    BY <2>1, <2>2, <2>3 DEF MapSector
<1>15. PICK m : m = MapSector
  OBVIOUS
<1>16. m \in Sector /\ m # f /\ m # g /\ MapSpace.map = {f, g, m}
  BY <1>12, <1>14, <1>15
<1>17. Cardinality(Sector \ {f, g, m}) = n - 3
  <2>1. m \in S
    BY <1>8, <1>16
  <2>2. Cardinality(S \ {m}) = (n - 2) - 1
    BY <1>8, <2>1, FS_RemoveElement
  <2>3. S \ {m} = Sector \ {f, g, m}
    BY <1>8
  <2> QED
    BY <2>2, <2>3
<1>18. PICK b : b = DirSpace
  OBVIOUS
<1>19. b = Allocate({f, g, m}, DirectoryFileSize)
  BY <1>16, <1>18 DEF DirSpace
<1>20. b.ok
  <2>1. NumClear({f, g, m}) = n - 3
    BY <1>17 DEF NumClear
  <2>2. b.ok = (NumClear({f, g, m}) >= divRoundUp(DirectoryFileSize, SectorSize))
    BY <1>19 DEF Allocate
  <2>3. n - 3 >= k
    BY <1>1, <1>2
  <2> QED
    BY <1>1, <2>1, <2>2, <2>3
<1>21. Allocated(b, {f, g, m}, DirectoryFileSize)
  <2>1. {f, g, m} \subseteq Sector
    BY <1>5, <1>16
  <2>2. DirectoryFileSize \in Nat
    BY FileSystemAssumption DEF DirectoryFileSize
  <2> QED
    BY <1>19, <1>20, <2>1, <2>2, AllocateIs
<1>22. /\ Shape(DirHdr) /\ DirHdr.numBytes = DirectoryFileSize
       /\ DirSectors \cap {f, g, m} = {} /\ DirSectors \subseteq Sector /\ Sys = {f, g, m} \cup DirSectors
  BY <1>18, <1>21 DEF Allocated, DirHdr, DirSectors, Sys
<1>23. Sys \subseteq Sector
  BY <1>5, <1>16, <1>22
<1>24. MapSector \in Sector \ {f, g}
  BY <1>15, <1>16
<1> QED
  BY <1>3, <1>4, <1>12, <1>13, <1>14, <1>15, <1>22, <1>23, <1>24, Zenon
-----------------------------------------------------------------------------
(* The free map on the disk.                                               *)

MapOf(c) == UNION {c.bytes[k] : k \in 1 .. SectorSize}

LEMMA FetchMapIs ==
  ASSUME NEW d \in DiskType, d[FreeMapSector].hdr = MapHdr
  PROVE  FetchMap(d) = MapOf(d[MapSector])
<1>1. SectorSize \in Nat /\ SectorSize > 0 /\ 0 \in Nat
  BY TimesIs
<1>2. PICK s : s = ReadAt(d, MapHdr, SectorSize, 0)
  OBVIOUS
<1>3. PICK m \in Nat : Got(s, d, MapHdr, 0, m) /\ Available(m, MapHdr.numBytes, SectorSize, 0)
  BY <1>1, <1>2, SystemIs, ReadAtIs, Zenon
<1>4. m = SectorSize
  BY <1>1, <1>3, SystemIs DEF Available
<1>5. s \in Seq(Byte) /\ Len(s) = SectorSize /\ \A k \in Nat : k < SectorSize => s[k + 1] = At(d, MapHdr, 0 + k)
  BY <1>3, <1>4 DEF Got
<1>6. \A k \in Nat : k < SectorSize => At(d, MapHdr, 0 + k) = d[MapSector].bytes[k + 1]
  <2> SUFFICES ASSUME NEW k \in Nat, k < SectorSize PROVE At(d, MapHdr, 0 + k) = d[MapSector].bytes[k + 1]
    OBVIOUS
  <2>1. At(d, MapHdr, Times(0) + k) = d[MapHdr.dataSectors[0 + 1]].bytes[k + 1]
    <3>1. PICK z \in Nat : z = 0
      OBVIOUS
    <3>2. PICK h : h = MapHdr
      OBVIOUS
    <3>3. \A e : At(e, h, Times(z) + k) = e[h.dataSectors[z + 1]].bytes[k + 1]
      BY SameSector
    <3>4. At(d, MapHdr, Times(z) + k) = d[MapHdr.dataSectors[z + 1]].bytes[k + 1]
      BY <3>2, <3>3, Zenon
    <3> QED
      BY <3>1, <3>4, Zenon
  <2>2. Times(0) = 0 /\ 0 + 1 = 1
    BY TimesIs
  <2> QED
    BY <2>1, <2>2 DEF MapSector
<1>7. \A i \in 1 .. SectorSize : s[i] = d[MapSector].bytes[i]
  <2> SUFFICES ASSUME NEW i \in 1 .. SectorSize PROVE s[i] = d[MapSector].bytes[i]
    OBVIOUS
  <2>1. i - 1 \in Nat /\ (i - 1) + 1 = i /\ i - 1 < SectorSize
    BY <1>1
  <2> QED
    BY <1>5, <1>6, <2>1
<1>8. Seqs!ToSet(s) = {s[i] : i \in 1 .. SectorSize}
  BY <1>5 DEF Seqs!ToSet
<1>9. {s[i] : i \in 1 .. SectorSize} = {d[MapSector].bytes[i] : i \in 1 .. SectorSize}
  BY <1>7
<1>10. FetchMap(d) = UNION Seqs!ToSet(s)
  BY <1>2 DEF FetchMap, FreeMapFileSize
<1> QED
  BY <1>8, <1>9, <1>10 DEF MapOf

LEMMA MapBytesAre ==
  ASSUME NEW map, map \subseteq Sector
  PROVE  /\ MapBytes(map) \in [1 .. SectorSize -> Byte]
         /\ \A k \in 1 .. SectorSize : MapBytes(map)[k] \subseteq Sector
         /\ UNION {MapBytes(map)[k] : k \in 1 .. SectorSize} = map
<1>1. SectorSize \in Nat \ {0} /\ NumSectors \in Nat
  BY FileSystemAssumption
<1>2. PICK B \in Nat : B = BitsInByte /\ NumSectors <= Times(B)
  <2>1. BitsInByte = divRoundUp(NumSectors, SectorSize)
    BY DEF BitsInByte, divRoundUp
  <2> QED
    BY <1>1, <2>1, RoundUpIs
<1>3. ASSUME NEW b \in map PROVE b \div B + 1 \in 1 .. SectorSize /\ b \div B = (b \div B + 1) - 1
  <2>1. b \in Nat /\ b < NumSectors
    BY <1>1 DEF Sector
  <2>2. B # 0
    <3>1. Times(0) = 0
      BY TimesIs
    <3> QED
      BY <1>1, <1>2, <2>1, <3>1
  <2>3. b \div B \in Int /\ b % B \in 0 .. B - 1 /\ b = B * (b \div B) + (b % B)
    BY <2>1, <2>2, DivIsInt, ModBounds, DivMod
  <2>4. PICK q \in Int : q = b \div B
    BY <2>3
  <2>5. PICK r \in 0 .. B - 1 : r = b % B
    BY <2>3
  <2>6. b = B * q + r /\ B * q \in Int
    BY <2>3, <2>4, <2>5, Commutes
  <2>7. Times(B) = B * SectorSize /\ Times(B) \in Int
    BY <1>1, Commutes DEF Times
  <2>8. B * q < B * SectorSize
    <3>1. PICK x \in Int, y \in Int : x = B * q /\ y = B * SectorSize
      BY <2>6, <2>7
    <3>2. b = x + r /\ NumSectors <= y
      BY <1>2, <2>6, <2>7, <3>1
    <3>3. x < y
      BY ONLY <1>1, <2>1, <3>2, x \in Int, y \in Int, r \in 0 .. B - 1, B \in Nat
    <3> QED
      BY <3>1, <3>3
  <2>9. q < SectorSize
    <3>1. SectorSize \in Int /\ B \in Nat \ {0}
      BY <1>1, <2>2
    <3> QED
      BY <2>8, <3>1, ProductOrder
  <2>10. q >= 0
    <3>1. B * (q + 1) = B * q + B /\ B * (q + 1) \in Int /\ B * 0 = 0
      BY Distributes, Commutes
    <3>2. B * 0 < B * (q + 1)
      <4>1. PICK x \in Int : x = B * q
        BY <2>6
      <4>2. b = x + r
        BY <2>6, <4>1
      <4>3. 0 < x + B
        BY ONLY <2>1, <4>2, x \in Int, r \in 0 .. B - 1, B \in Nat
      <4> QED
        BY <3>1, <4>1, <4>3
    <3>3. 0 \in Int /\ q + 1 \in Int /\ B \in Nat \ {0}
      BY <2>2
    <3>4. 0 < q + 1
      BY <3>2, <3>3, ProductOrder
    <3> QED
      BY <3>4
  <2>11. q + 1 \in 1 .. SectorSize /\ q = (q + 1) - 1
    BY ONLY <1>1, <2>9, <2>10, q \in Int
  <2> QED
    BY <2>4, <2>11
<1>4. MapBytes(map) = [k \in 1 .. SectorSize |-> {b \in map : b \div B = k - 1}]
  BY <1>2 DEF MapBytes
<1>5. \A k \in 1 .. SectorSize : MapBytes(map)[k] = {b \in map : b \div B = k - 1}
  BY <1>4
<1>6. \A k \in 1 .. SectorSize : MapBytes(map)[k] \subseteq Sector /\ MapBytes(map)[k] \in Byte
  <2>1. \A k \in 1 .. SectorSize : MapBytes(map)[k] \subseteq map
    BY <1>5
  <2>2. SUBSET Sector \subseteq Byte
    BY BytesAre
  <2> QED
    BY <2>1, <2>2
<1>7. MapBytes(map) \in [1 .. SectorSize -> Byte]
  <2>1. MapBytes(map) = [k \in 1 .. SectorSize |-> MapBytes(map)[k]]
    BY <1>4
  <2> QED
    BY <1>6, <2>1
<1>8. ASSUME NEW b \in map PROVE b \in MapBytes(map)[b \div B + 1]
  <2>1. PICK k \in 1 .. SectorSize : k = b \div B + 1 /\ b \div B = k - 1
    BY <1>3
  <2> QED
    BY <1>5, <2>1
<1>9. \A b : b \in map <=> \E k \in 1 .. SectorSize : b \in MapBytes(map)[k]
  <2>1. \A b \in map : \E k \in 1 .. SectorSize : b \in MapBytes(map)[k]
    BY <1>3, <1>8, Zenon
  <2>2. \A k \in 1 .. SectorSize : \A b \in MapBytes(map)[k] : b \in map
    BY <1>5
  <2> QED
    BY <2>1, <2>2
<1>10. UNION {MapBytes(map)[k] : k \in 1 .. SectorSize} = map
  <2>1. PICK f : f = MapBytes(map)
    OBVIOUS
  <2>2. \A b : b \in map <=> \E k \in 1 .. SectorSize : b \in f[k]
    BY <1>9, <2>1
  <2>3. \A b : b \in UNION {f[k] : k \in 1 .. SectorSize} <=> \E k \in 1 .. SectorSize : b \in f[k]
    OBVIOUS
  <2> QED
    BY <2>1, <2>2, <2>3
<1> QED
  BY <1>6, <1>7, <1>10

(* The one write that puts a map on the disk.                              *)
MapWrite(w, map) ==
  w \in WriteType /\ w.sector = MapSector /\ w.contents = DataSector(MapBytes(map))

LEMMA WriteBackMapIs ==
  ASSUME NEW d \in DiskType, d[FreeMapSector].hdr = MapHdr, NEW map, map \subseteq Sector
  PROVE  \E w : WriteBackMap(d, map) = <<w>> /\ MapWrite(w, map)
<1>1. SectorSize \in Nat /\ SectorSize > 0 /\ 0 \in Nat /\ Times(0) = 0
  BY TimesIs
<1>2. PICK f : f = MapBytes(map)
  OBVIOUS
<1>3. f \in [1 .. SectorSize -> Byte]
  BY <1>2, MapBytesAre
<1>4. f \in Seq(Byte) /\ Len(f) = SectorSize
  BY <1>1, <1>3
<1>5. /\ Shape(MapHdr) /\ MapHdr.numBytes = SectorSize /\ Len(MapHdr.dataSectors) = 1
  BY SystemIs
<1>6. PICK n \in Nat : n = Count(MapHdr, f, 0) /\ n = SectorSize
  <2>1. Count(MapHdr, f, 0) = Len(f)
    <3>1. 0 + Len(f) <= MapHdr.numBytes
      BY <1>1, <1>4, <1>5
    <3> QED
      BY <1>1, <1>4, <1>5, <3>1, CountIs
  <2> QED
    BY <1>1, <1>4, <2>1
<1>7. PICK w : w = WriteAt(d, MapHdr, f, 0)
  OBVIOUS
<1>8. PICK first, len \in Nat : /\ FileWrites(w, d, MapHdr, f, 0, n, first, len)
                                /\ first + len <= Len(MapHdr.dataSectors) /\ Covers(first, len, 0, n)
  BY <1>1, <1>4, <1>5, <1>6, <1>7, WriteAtIs
<1>9. first = 0 /\ len = 1
  <2>1. 0 \div SectorSize = 0
    <3>1. (Times(0) + 0) \div SectorSize = 0
      BY <1>1, JoinIs
    <3> QED
      BY <1>1, <3>1
  <2>2. first <= 0 \div SectorSize /\ 0 \div SectorSize < first + len
    <3>1. 0 <= 0 /\ 0 < 0 + n
      BY <1>1, <1>6
    <3> QED
      BY <1>1, <1>8, <3>1 DEF Covers
  <2>3. first + len <= 1
    BY <1>5, <1>8
  <2> QED
    BY ONLY <2>1, <2>2, <2>3, first \in Nat, len \in Nat
<1>10. w \in Seq(WriteType) /\ Len(w) = 1 /\ FileWrite(w[0 + 1], d, MapHdr, f, 0, n, 0 + 0)
  BY <1>8, <1>9 DEF FileWrites
<1>11. PICK v : v = w[1]
  OBVIOUS
<1>12. w = <<v>>
  BY <1>10, <1>11
<1>13. 0 + 1 = 1 /\ 0 + 0 = 0
  OBVIOUS
<1>14. FileWrite(v, d, MapHdr, f, 0, n, 0)
  BY <1>10, <1>11, <1>13
<1>15. /\ v \in WriteType /\ v.sector = MapSector /\ v.contents.hdr = NoHeader
       /\ \A r \in Nat : r < SectorSize /\ Times(0) + r < MapHdr.numBytes =>
            v.contents.bytes[r + 1] = NewByte(d, MapHdr, f, 0, n, Times(0) + r)
  BY <1>13, <1>14 DEF FileWrite, MapSector
<1>16. \A i \in 1 .. SectorSize : v.contents.bytes[i] = f[i]
  <2> SUFFICES ASSUME NEW i \in 1 .. SectorSize PROVE v.contents.bytes[i] = f[i]
    OBVIOUS
  <2>1. PICK r \in Nat : r < SectorSize /\ i = r + 1 /\ Times(0) + r = r /\ (r - 0) + 1 = i
    <3>1. i - 1 \in Nat /\ i - 1 < SectorSize /\ i = (i - 1) + 1 /\ 0 + (i - 1) = i - 1 /\ ((i - 1) - 0) + 1 = i
      BY <1>1
    <3> QED
      BY <1>1, <3>1
  <2>2. v.contents.bytes[i] = NewByte(d, MapHdr, f, 0, n, r)
    BY <1>5, <1>15, <2>1
  <2>3. 0 <= r /\ r < 0 + n
    BY <1>1, <1>6, <2>1
  <2> QED
    BY <2>1, <2>2, <2>3 DEF NewByte
<1>17. v.contents = DataSector(f)
  <2>1. v.contents \in SectorType
    BY <1>15 DEF WriteType
  <2>2. v.contents.bytes \in [1 .. SectorSize -> Byte]
    BY <2>1, SectorTypeIs
  <2>3. v.contents.bytes = f
    <3>1. PICK g \in [1 .. SectorSize -> Byte] : g = v.contents.bytes
      BY <2>2
    <3>2. \A i \in 1 .. SectorSize : g[i] = f[i]
      BY <1>16, <3>1
    <3>3. g = [i \in 1 .. SectorSize |-> g[i]] /\ f = [i \in 1 .. SectorSize |-> f[i]]
      BY <1>3
    <3>4. g = f
      BY <3>2, <3>3
    <3> QED
      BY <3>1, <3>4
  <2>4. v.contents = [hdr |-> v.contents.hdr, bytes |-> v.contents.bytes]
    BY <2>1 DEF SectorType
  <2> QED
    BY <1>15, <2>3, <2>4 DEF DataSector
<1>18. MapWrite(v, map)
  BY <1>2, <1>15, <1>17 DEF MapWrite
<1>19. WriteBackMap(d, map) = w
  BY <1>2, <1>7 DEF WriteBackMap
<1> QED
  BY <1>12, <1>18, <1>19
-----------------------------------------------------------------------------
(* The directory on the disk.                                              *)

EntryType == [inUse : BOOLEAN, sector : Sector, name : EntryName]

TableType == [1 .. NumDirEntries -> EntryType]

(* The first half of an entry: an entry in use is of a user file.          *)
EntryHalf == {b \in BOOLEAN \X Sector : b[1] => b[2] \notin Sys}

SoundTable(t) == t \in TableType /\ \A i \in 1 .. NumDirEntries : t[i].inUse => t[i].sector \notin Sys

(* The bytes of a directory.                                               *)
DirFrom(table) ==
  [k \in 1 .. DirectoryFileSize |->
     LET e == table[divRoundUp(k, 2)] IN IF k % 2 = 1 THEN <<e.inUse, e.sector>> ELSE e.name]

(* The positions of the two bytes of entry i.                              *)
LEMMA EntryBytes ==
  ASSUME NEW i \in 1 .. NumDirEntries
  PROVE  /\ 2 * i - 2 \in Nat /\ 2 * i - 2 < DirectoryFileSize /\ 2 * i - 1 \in Nat /\ 2 * i - 1 < DirectoryFileSize
         /\ 2 * i - 1 = (2 * i - 2) + 1 /\ 2 * i = (2 * i - 1) + 1 /\ DirectoryFileSize \in Nat
         /\ 2 * i - 1 \in 1 .. DirectoryFileSize /\ 2 * i \in 1 .. DirectoryFileSize
<1>1. NumDirEntries \in Nat
  BY FileSystemAssumption
<1> QED
  BY <1>1 DEF DirectoryFileSize

LEMMA DirFromIs ==
  ASSUME NEW t \in TableType
  PROVE  /\ DirFrom(t) \in Seq(Byte) /\ Len(DirFrom(t)) = DirectoryFileSize
         /\ \A i \in 1 .. NumDirEntries : /\ DirFrom(t)[2 * i - 1] = <<t[i].inUse, t[i].sector>>
                                          /\ DirFrom(t)[2 * i] = t[i].name
<1>1. NumDirEntries \in Nat /\ DirectoryFileSize = 2 * NumDirEntries /\ DirectoryFileSize \in Nat
  BY FileSystemAssumption DEF DirectoryFileSize
<1>2. PICK f : f = DirFrom(t)
  OBVIOUS
<1>3. f = [k \in 1 .. DirectoryFileSize |->
             IF k % 2 = 1 THEN <<t[divRoundUp(k, 2)].inUse, t[divRoundUp(k, 2)].sector>> ELSE t[divRoundUp(k, 2)].name]
  BY <1>2 DEF DirFrom
<1>4. \A i \in 1 .. NumDirEntries : t[i].inUse \in BOOLEAN /\ t[i].sector \in Sector /\ t[i].name \in EntryName
  BY DEF TableType, EntryType
<1>5. \A k \in 1 .. DirectoryFileSize : divRoundUp(k, 2) \in 1 .. NumDirEntries
  BY <1>1 DEF divRoundUp
<1>6. \A k \in 1 .. DirectoryFileSize : f[k] \in Byte
  <2> SUFFICES ASSUME NEW k \in 1 .. DirectoryFileSize PROVE f[k] \in Byte
    OBVIOUS
  <2>1. PICK i \in 1 .. NumDirEntries : i = divRoundUp(k, 2)
    BY <1>5
  <2>2. f[k] = <<t[i].inUse, t[i].sector>> \/ f[k] = t[i].name
    BY <1>3, <2>1
  <2>3. <<t[i].inUse, t[i].sector>> \in BOOLEAN \X Sector /\ t[i].name \in EntryName
    BY <1>4
  <2> QED
    BY <2>2, <2>3, BytesAre
<1>7. f \in Seq(Byte) /\ Len(f) = DirectoryFileSize
  <2>1. f = [k \in 1 .. DirectoryFileSize |-> f[k]]
    BY <1>3
  <2>2. [k \in 1 .. DirectoryFileSize |-> f[k]] \in Seq(Byte) /\ Len([k \in 1 .. DirectoryFileSize |-> f[k]]) = DirectoryFileSize
    BY <1>1, <1>6
  <2> QED
    BY <2>1, <2>2
<1>8. ASSUME NEW i \in 1 .. NumDirEntries
      PROVE  f[2 * i - 1] = <<t[i].inUse, t[i].sector>> /\ f[2 * i] = t[i].name
  <2>1. /\ divRoundUp(2 * i - 1, 2) = i /\ (2 * i - 1) % 2 = 1
        /\ divRoundUp(2 * i, 2) = i /\ (2 * i) % 2 # 1
    BY <1>1 DEF divRoundUp
  <2>2. 2 * i - 1 \in 1 .. DirectoryFileSize /\ 2 * i \in 1 .. DirectoryFileSize
    BY EntryBytes
  <2>3. PICK j, k \in 1 .. DirectoryFileSize : j = 2 * i - 1 /\ k = 2 * i
    BY <2>2
  <2>4. divRoundUp(j, 2) = i /\ j % 2 = 1 /\ divRoundUp(k, 2) = i /\ k % 2 # 1
    BY <2>1, <2>3
  <2>5. f[j] = <<t[i].inUse, t[i].sector>> /\ f[k] = t[i].name
    BY <1>3, <2>4
  <2> QED
    BY <2>3, <2>5
<1> QED
  BY <1>2, <1>7, <1>8

LEMMA FetchDirectoryIs ==
  ASSUME NEW d \in DiskType, d[DirectorySector].hdr = DirHdr
  PROVE  FetchDirectory(d) = [i \in 1 .. NumDirEntries |->
           [inUse |-> At(d, DirHdr, 2 * i - 2)[1], sector |-> At(d, DirHdr, 2 * i - 2)[2],
            name |-> At(d, DirHdr, 2 * i - 1)]]
<1>1. NumDirEntries \in Nat /\ DirectoryFileSize = 2 * NumDirEntries /\ DirectoryFileSize \in Nat /\ 0 \in Nat
  BY FileSystemAssumption DEF DirectoryFileSize
<1>2. PICK s : s = ReadAt(d, DirHdr, DirectoryFileSize, 0)
  OBVIOUS
<1>3. PICK m \in Nat : Got(s, d, DirHdr, 0, m) /\ Available(m, DirHdr.numBytes, DirectoryFileSize, 0)
  BY <1>1, <1>2, SystemIs, ReadAtIs, Zenon
<1>4. m = DirectoryFileSize
  BY <1>1, <1>3, SystemIs DEF Available
<1>5. \A k \in Nat : k < DirectoryFileSize => s[k + 1] = At(d, DirHdr, k)
  <2>1. \A k \in Nat : k < DirectoryFileSize => s[k + 1] = At(d, DirHdr, 0 + k)
    BY <1>3, <1>4 DEF Got
  <2>2. \A k \in Nat : 0 + k = k
    OBVIOUS
  <2> QED
    BY <2>1, <2>2
<1>6. FetchDirectory(d) = [i \in 1 .. NumDirEntries |->
        [inUse |-> s[2 * i - 1][1], sector |-> s[2 * i - 1][2], name |-> s[2 * i]]]
  BY <1>2 DEF FetchDirectory
<1>7. \A i \in 1 .. NumDirEntries : s[2 * i - 1] = At(d, DirHdr, 2 * i - 2) /\ s[2 * i] = At(d, DirHdr, 2 * i - 1)
  <2> SUFFICES ASSUME NEW i \in 1 .. NumDirEntries
               PROVE  s[2 * i - 1] = At(d, DirHdr, 2 * i - 2) /\ s[2 * i] = At(d, DirHdr, 2 * i - 1)
    OBVIOUS
  <2>1. PICK a, b \in Nat : /\ a = 2 * i - 2 /\ b = 2 * i - 1 /\ a + 1 = 2 * i - 1 /\ b + 1 = 2 * i
                            /\ a < DirectoryFileSize /\ b < DirectoryFileSize
    BY EntryBytes, Zenon
  <2>2. s[a + 1] = At(d, DirHdr, a) /\ s[b + 1] = At(d, DirHdr, b)
    BY <1>5, <2>1
  <2> QED
    BY <2>1, <2>2
<1> QED
  BY <1>6, <1>7

(* A write of a directory: its entries are in it where they belong.        *)
DirWrite(w, t) ==
  /\ w \in WriteType /\ w.sector \in DirSectors /\ w.contents.hdr = NoHeader
  /\ \A i \in 1 .. NumDirEntries :
       /\ SectorAt(DirHdr, 2 * i - 2) = w.sector =>
            w.contents.bytes[((2 * i - 2) % SectorSize) + 1] = <<t[i].inUse, t[i].sector>>
       /\ SectorAt(DirHdr, 2 * i - 1) = w.sector =>
            w.contents.bytes[((2 * i - 1) % SectorSize) + 1] = t[i].name

(* The bytes of a sector in one write of a file.                           *)
LEMMA WrittenByte ==
  ASSUME NEW d, NEW h, Shape(h), NEW from, NEW p \in Nat, NEW n \in Nat, NEW w, NEW q \in Nat,
         FileWrite(w, d, h, from, p, n, q), NEW a \in Nat, a < h.numBytes, SectorAt(h, a) = w.sector
  PROVE  w.contents.bytes[(a % SectorSize) + 1] = NewByte(d, h, from, p, n, a)
<1>1. PICK x, r \in Nat : /\ x = a \div SectorSize /\ r = a % SectorSize
                          /\ r < SectorSize /\ a = Times(x) + r
  BY SplitIs, Zenon
<1>2. /\ q + 1 \in 1 .. Len(h.dataSectors) /\ w.sector = h.dataSectors[q + 1]
      /\ \A u \in Nat : u < SectorSize /\ Times(q) + u < h.numBytes =>
           w.contents.bytes[u + 1] = NewByte(d, h, from, p, n, Times(q) + u)
  BY DEF FileWrite
<1>3. x + 1 \in 1 .. Len(h.dataSectors) /\ w.sector = h.dataSectors[x + 1]
  BY <1>1, ShapeIs DEF SectorAt
<1>4. x + 1 = q + 1
  BY <1>2, <1>3 DEF Shape
<1>5. x = q
  BY ONLY <1>4, x \in Nat, q \in Nat
<1> QED
  BY <1>1, <1>2, <1>5

LEMMA WriteBackDirectoryIs ==
  ASSUME NEW d \in DiskType, d[DirectorySector].hdr = DirHdr, NEW t \in TableType
  PROVE  /\ WriteBackDirectory(d, t) \in Seq(WriteType) /\ Distinct(WriteBackDirectory(d, t))
         /\ \A w \in Writes(WriteBackDirectory(d, t)) : DirWrite(w, t)
         /\ \A a \in Nat : a < DirectoryFileSize =>
              \E w \in Writes(WriteBackDirectory(d, t)) : w.sector = SectorAt(DirHdr, a)
<1>1. NumDirEntries \in Nat /\ DirectoryFileSize = 2 * NumDirEntries /\ DirectoryFileSize \in Nat /\ 0 \in Nat
  BY FileSystemAssumption DEF DirectoryFileSize
<1>2. PICK f \in Seq(Byte) : f = DirFrom(t)
  BY DirFromIs
<1>3. Len(f) = DirectoryFileSize
  BY <1>2, DirFromIs
<1>4. Shape(DirHdr) /\ DirHdr.numBytes = DirectoryFileSize
  BY SystemIs
<1>5. PICK n \in Nat : n = DirectoryFileSize
  BY <1>1
<1>6. Count(DirHdr, f, 0) = n
  <2>1. 0 + Len(f) <= DirHdr.numBytes
    BY <1>1, <1>3, <1>4
  <2> QED
    BY <1>1, <1>3, <1>4, <1>5, <2>1, CountIs
<1>7. PICK w : w = WriteAt(d, DirHdr, f, 0)
  OBVIOUS
<1>8. w \in Seq(WriteType) /\ Distinct(w) /\ WriteSet(Writes(w), d, DirHdr, f, 0, n)
  BY <1>1, <1>4, <1>6, <1>7, WriteSetIs
<1>9. w = WriteBackDirectory(d, t)
  BY <1>2, <1>7 DEF WriteBackDirectory, DirFrom
<1>10. \A a \in Nat : a < n => NewByte(d, DirHdr, f, 0, n, a) = f[a + 1]
  <2> SUFFICES ASSUME NEW a \in Nat, a < n PROVE NewByte(d, DirHdr, f, 0, n, a) = f[a + 1]
    OBVIOUS
  <2>1. 0 <= a /\ a < 0 + n /\ (a - 0) + 1 = a + 1
    OBVIOUS
  <2> QED
    BY <2>1 DEF NewByte
<1>11. ASSUME NEW v \in Writes(w) PROVE DirWrite(v, t)
  <2>1. PICK q \in Nat : FileWrite(v, d, DirHdr, f, 0, n, q)
    BY <1>8 DEF WriteSet
  <2>2. v \in WriteType /\ v.sector \in DirSectors /\ v.contents.hdr = NoHeader
    <3>1. q + 1 \in 1 .. Len(DirHdr.dataSectors) /\ v.sector = DirHdr.dataSectors[q + 1]
      BY <2>1 DEF FileWrite
    <3>2. v.sector \in DirSectors
      BY <1>4, <3>1, ShapeIs DEF DirSectors
    <3> QED
      BY <2>1, <3>2 DEF FileWrite
  <2>3. ASSUME NEW a \in Nat, a < n, SectorAt(DirHdr, a) = v.sector
        PROVE  v.contents.bytes[(a % SectorSize) + 1] = f[a + 1]
    <3>1. a < DirHdr.numBytes
      BY <1>4, <1>5, <2>3
    <3>2. v.contents.bytes[(a % SectorSize) + 1] = NewByte(d, DirHdr, f, 0, n, a)
      BY <1>1, <1>4, <2>1, <2>3, <3>1, WrittenByte
    <3> QED
      BY <1>10, <2>3, <3>2
  <2>4. ASSUME NEW i \in 1 .. NumDirEntries
        PROVE  /\ SectorAt(DirHdr, 2 * i - 2) = v.sector =>
                    v.contents.bytes[((2 * i - 2) % SectorSize) + 1] = <<t[i].inUse, t[i].sector>>
               /\ SectorAt(DirHdr, 2 * i - 1) = v.sector =>
                    v.contents.bytes[((2 * i - 1) % SectorSize) + 1] = t[i].name
    <3>1. PICK a, b \in Nat : /\ a = 2 * i - 2 /\ b = 2 * i - 1 /\ a + 1 = 2 * i - 1 /\ b + 1 = 2 * i
                              /\ a < n /\ b < n
      BY <1>5, EntryBytes
    <3>2. f[a + 1] = <<t[i].inUse, t[i].sector>> /\ f[b + 1] = t[i].name
      BY <1>2, <3>1, DirFromIs
    <3>3. /\ SectorAt(DirHdr, a) = v.sector => v.contents.bytes[(a % SectorSize) + 1] = f[a + 1]
          /\ SectorAt(DirHdr, b) = v.sector => v.contents.bytes[(b % SectorSize) + 1] = f[b + 1]
      BY <2>3, <3>1
    <3>4. /\ SectorAt(DirHdr, a) = v.sector => v.contents.bytes[(a % SectorSize) + 1] = <<t[i].inUse, t[i].sector>>
          /\ SectorAt(DirHdr, b) = v.sector => v.contents.bytes[(b % SectorSize) + 1] = t[i].name
      BY <3>2, <3>3, Zenon
    <3> QED
      BY <3>1, <3>4, Zenon
  <2> QED
    BY <2>2, <2>4 DEF DirWrite
<1>12. ASSUME NEW a \in Nat, a < DirectoryFileSize PROVE \E v \in Writes(w) : v.sector = SectorAt(DirHdr, a)
  <2>1. 0 <= a /\ a < 0 + n
    BY <1>5, <1>12
  <2> QED
    BY <1>8, <2>1 DEF WriteSet
<1> QED
  BY <1>8, <1>9, <1>11, <1>12, Zenon

(* The directory that was written is the one that is read.                 *)
LEMMA DirectoryWritten ==
  ASSUME NEW t \in TableType, NEW d2 \in DiskType, d2[DirectorySector].hdr = DirHdr,
         NEW W, \A w \in W : DirWrite(w, t) /\ d2[w.sector] = w.contents,
         \A a \in Nat : a < DirectoryFileSize => \E w \in W : w.sector = SectorAt(DirHdr, a)
  PROVE  FetchDirectory(d2) = t
<1>1. ASSUME NEW i \in 1 .. NumDirEntries
      PROVE  At(d2, DirHdr, 2 * i - 2) = <<t[i].inUse, t[i].sector>> /\ At(d2, DirHdr, 2 * i - 1) = t[i].name
  <2>1. PICK a, b \in Nat : /\ a = 2 * i - 2 /\ b = 2 * i - 1
                            /\ a < DirectoryFileSize /\ b < DirectoryFileSize
    BY EntryBytes, Zenon
  <2>2. PICK v \in W : v.sector = SectorAt(DirHdr, a)
    BY <2>1
  <2>3. PICK w \in W : w.sector = SectorAt(DirHdr, b)
    BY <2>1
  <2>4. v.contents.bytes[(a % SectorSize) + 1] = <<t[i].inUse, t[i].sector>>
    BY <2>1, <2>2, Zenon DEF DirWrite
  <2>5. w.contents.bytes[(b % SectorSize) + 1] = t[i].name
    BY <2>1, <2>3, Zenon DEF DirWrite
  <2>6. At(d2, DirHdr, a) = <<t[i].inUse, t[i].sector>>
    BY <2>2, <2>4, Zenon DEF At
  <2>7. At(d2, DirHdr, b) = t[i].name
    BY <2>3, <2>5, Zenon DEF At
  <2> QED
    BY <2>1, <2>6, <2>7, Zenon
<1>2. \A i \in 1 .. NumDirEntries : t[i] = [inUse |-> t[i].inUse, sector |-> t[i].sector, name |-> t[i].name]
  BY DEF TableType, EntryType
<1>3. t = [i \in 1 .. NumDirEntries |-> t[i]]
  BY DEF TableType
<1>4. \A i \in 1 .. NumDirEntries :
        /\ At(d2, DirHdr, 2 * i - 2)[1] = t[i].inUse /\ At(d2, DirHdr, 2 * i - 2)[2] = t[i].sector
        /\ At(d2, DirHdr, 2 * i - 1) = t[i].name
  <2> SUFFICES ASSUME NEW i \in 1 .. NumDirEntries
               PROVE  /\ At(d2, DirHdr, 2 * i - 2)[1] = t[i].inUse /\ At(d2, DirHdr, 2 * i - 2)[2] = t[i].sector
                      /\ At(d2, DirHdr, 2 * i - 1) = t[i].name
    OBVIOUS
  <2>1. PICK b : b = At(d2, DirHdr, 2 * i - 2)
    OBVIOUS
  <2>2. b = <<t[i].inUse, t[i].sector>> /\ At(d2, DirHdr, 2 * i - 1) = t[i].name
    BY <1>1, <2>1
  <2>3. b[1] = t[i].inUse /\ b[2] = t[i].sector
    BY <2>2
  <2> QED
    BY <2>1, <2>2, <2>3, Zenon
<1>5. FetchDirectory(d2) = [i \in 1 .. NumDirEntries |->
        [inUse |-> At(d2, DirHdr, 2 * i - 2)[1], sector |-> At(d2, DirHdr, 2 * i - 2)[2],
         name |-> At(d2, DirHdr, 2 * i - 1)]]
  BY FetchDirectoryIs
<1> QED
  BY <1>2, <1>3, <1>4, <1>5
-----------------------------------------------------------------------------
(* What is true of the disk at any time, whatever was interrupted: every   *)
(* sector by itself holds what may be in it.                               *)

UserHeader(h) == Shape(h) /\ Seqs!ToSet(h.dataSectors) \cap Sys = {}

EntriesIn(q, c) ==
  \A i \in 1 .. NumDirEntries :
    /\ SectorAt(DirHdr, 2 * i - 2) = q => c.bytes[((2 * i - 2) % SectorSize) + 1] \in EntryHalf
    /\ SectorAt(DirHdr, 2 * i - 1) = q => c.bytes[((2 * i - 1) % SectorSize) + 1] \in EntryName

SectorOK(q, c) ==
  /\ c \in SectorType
  /\ q = FreeMapSector => c.hdr = MapHdr
  /\ q = DirectorySector => c.hdr = DirHdr
  /\ q \notin {FreeMapSector, DirectorySector} => c.hdr = NoHeader \/ UserHeader(c.hdr)
  /\ q = MapSector => (\A k \in 1 .. SectorSize : c.bytes[k] \subseteq Sector) /\ Sys \subseteq MapOf(c)
  /\ EntriesIn(q, c)

Sound(d) == d \in DiskType /\ \A q \in Sector : SectorOK(q, d[q])

SoundWrites(W) == \A w \in W : w \in WriteType /\ SectorOK(w.sector, w.contents)

LEMMA SoundKept ==
  ASSUME NEW d, Sound(d), NEW W, SoundWrites(W), NEW d2, Effect(d2, d, W)
  PROVE  Sound(d2)
<1> SUFFICES ASSUME NEW q \in Sector PROVE SectorOK(q, d2[q])
  BY DEF Sound, Effect
<1>1. CASE \E w \in W : w.sector = q
  BY <1>1 DEF SoundWrites, Effect
<1>2. CASE ~\E w \in W : w.sector = q
  BY <1>2 DEF Sound, Effect
<1> QED
  BY <1>1, <1>2

LEMMA SoundIs ==
  ASSUME NEW d, Sound(d)
  PROVE  /\ d \in DiskType /\ d[FreeMapSector].hdr = MapHdr /\ d[DirectorySector].hdr = DirHdr
         /\ FetchMap(d) \subseteq Sector /\ Sys \subseteq FetchMap(d)
         /\ SoundTable(FetchDirectory(d))
         /\ \A q \in Sector : q \notin {FreeMapSector, DirectorySector} =>
              d[q].hdr = NoHeader \/ UserHeader(d[q].hdr)
<1>1. d \in DiskType /\ \A q \in Sector : SectorOK(q, d[q])
  BY DEF Sound
<1>2. FreeMapSector \in Sector /\ DirectorySector \in Sector /\ MapSector \in Sector
  BY SystemIs
<1>3. d[FreeMapSector].hdr = MapHdr /\ d[DirectorySector].hdr = DirHdr
  BY <1>1, <1>2, Zenon DEF SectorOK
<1>4. (\A k \in 1 .. SectorSize : d[MapSector].bytes[k] \subseteq Sector) /\ Sys \subseteq MapOf(d[MapSector])
  BY <1>1, <1>2, Zenon DEF SectorOK
<1>5. FetchMap(d) = MapOf(d[MapSector])
  BY <1>1, <1>3, FetchMapIs
<1>6. MapOf(d[MapSector]) \subseteq Sector
  BY <1>4 DEF MapOf
<1>7. \A q \in Sector : q \notin {FreeMapSector, DirectorySector} =>
        d[q].hdr = NoHeader \/ UserHeader(d[q].hdr)
  BY <1>1, Zenon DEF SectorOK
<1>8. \A i \in 1 .. NumDirEntries : At(d, DirHdr, 2 * i - 2) \in EntryHalf /\ At(d, DirHdr, 2 * i - 1) \in EntryName
  <2> SUFFICES ASSUME NEW i \in 1 .. NumDirEntries
               PROVE  At(d, DirHdr, 2 * i - 2) \in EntryHalf /\ At(d, DirHdr, 2 * i - 1) \in EntryName
    OBVIOUS
  <2>1. PICK a, b \in Nat : /\ a = 2 * i - 2 /\ b = 2 * i - 1
                            /\ a < DirectoryFileSize /\ b < DirectoryFileSize
    BY EntryBytes, Zenon
  <2>2. SectorAt(DirHdr, a) \in Sector /\ SectorAt(DirHdr, b) \in Sector
    BY <2>1, SystemIs, ShapeIs
  <2>3. \A q \in Sector : EntriesIn(q, d[q])
    BY <1>1, Zenon DEF SectorOK
  <2>4. /\ d[SectorAt(DirHdr, a)].bytes[(a % SectorSize) + 1] \in EntryHalf
        /\ d[SectorAt(DirHdr, b)].bytes[(b % SectorSize) + 1] \in EntryName
    BY <2>1, <2>2, <2>3, Zenon DEF EntriesIn
  <2> QED
    BY <2>1, <2>4, Zenon DEF At
<1>9. FetchDirectory(d) = [i \in 1 .. NumDirEntries |->
           [inUse |-> At(d, DirHdr, 2 * i - 2)[1], sector |-> At(d, DirHdr, 2 * i - 2)[2],
            name |-> At(d, DirHdr, 2 * i - 1)]]
  BY <1>1, <1>3, FetchDirectoryIs
<1>10. \A b \in EntryHalf : b[1] \in BOOLEAN /\ b[2] \in Sector /\ (b[1] => b[2] \notin Sys)
  BY DEF EntryHalf
<1>11. PICK t : t = FetchDirectory(d)
  OBVIOUS
<1>12. \A i \in 1 .. NumDirEntries : t[i] \in EntryType /\ (t[i].inUse => t[i].sector \notin Sys)
  <2> SUFFICES ASSUME NEW i \in 1 .. NumDirEntries
               PROVE  t[i] \in EntryType /\ (t[i].inUse => t[i].sector \notin Sys)
    OBVIOUS
  <2>1. PICK b \in EntryHalf, e \in EntryName : b = At(d, DirHdr, 2 * i - 2) /\ e = At(d, DirHdr, 2 * i - 1)
    BY <1>8
  <2>2. t[i] = [inUse |-> b[1], sector |-> b[2], name |-> e]
    BY <1>9, <1>11, <2>1
  <2>3. b[1] \in BOOLEAN /\ b[2] \in Sector /\ (b[1] => b[2] \notin Sys)
    BY <1>10
  <2> QED
    BY <2>2, <2>3 DEF EntryType
<1>13. SoundTable(t)
  <2>1. t = [i \in 1 .. NumDirEntries |-> t[i]]
    BY <1>9, <1>11
  <2>2. t \in TableType
    BY <1>12, <2>1 DEF TableType
  <2> QED
    BY <1>12, <2>2 DEF SoundTable
<1> QED
  BY <1>1, <1>3, <1>4, <1>5, <1>6, <1>7, <1>11, <1>13

(* Where the sectors of the system are.                                    *)
LEMMA EntriesWhere ==
  ASSUME NEW i \in 1 .. NumDirEntries
  PROVE  SectorAt(DirHdr, 2 * i - 2) \in DirSectors /\ SectorAt(DirHdr, 2 * i - 1) \in DirSectors
<1>1. PICK a, b \in Nat : /\ a = 2 * i - 2 /\ b = 2 * i - 1
                          /\ a < DirectoryFileSize /\ b < DirectoryFileSize
  BY EntryBytes, Zenon
<1>2. SectorAt(DirHdr, a) \in DirSectors /\ SectorAt(DirHdr, b) \in DirSectors
  BY <1>1, SystemIs, ShapeIs DEF DirSectors
<1> QED
  BY <1>1, <1>2, Zenon

LEMMA NoEntries ==
  ASSUME NEW q, q \notin DirSectors, NEW c
  PROVE  EntriesIn(q, c)
BY EntriesWhere, Zenon DEF EntriesIn

LEMMA MapWriteSound ==
  ASSUME NEW map, map \subseteq Sector, Sys \subseteq map, NEW w, MapWrite(w, map)
  PROVE  w \in WriteType /\ SectorOK(w.sector, w.contents) /\ MapOf(w.contents) = map
<1>1. PICK f \in [1 .. SectorSize -> Byte] : f = MapBytes(map)
  BY MapBytesAre
<1>2. /\ w \in WriteType /\ w.sector = MapSector /\ w.contents = DataSector(f)
  BY <1>1 DEF MapWrite
<1>3. DataSector(f) \in SectorType /\ DataSector(f).hdr = NoHeader /\ DataSector(f).bytes = f
  BY SectorTypeIs
<1>4. (\A k \in 1 .. SectorSize : f[k] \subseteq Sector) /\ UNION {f[k] : k \in 1 .. SectorSize} = map
  <2>1. /\ \A k \in 1 .. SectorSize : MapBytes(map)[k] \subseteq Sector
        /\ UNION {MapBytes(map)[k] : k \in 1 .. SectorSize} = map
    BY MapBytesAre
  <2> QED
    BY <1>1, <2>1, Zenon
<1>5. MapOf(w.contents) = map
  BY <1>2, <1>3, <1>4 DEF MapOf
<1>6. w.contents \in SectorType /\ w.contents.hdr = NoHeader /\ w.contents.bytes = f
  BY <1>2, <1>3
<1>7. MapSector \notin {FreeMapSector, DirectorySector} /\ MapSector \notin DirSectors
  BY SystemIs
<1>8. EntriesIn(w.sector, w.contents)
  BY <1>2, <1>7, NoEntries
<1> QED
  BY <1>2, <1>4, <1>5, <1>6, <1>7, <1>8, Zenon DEF SectorOK

LEMMA DirWriteSound ==
  ASSUME NEW t, SoundTable(t), NEW w, DirWrite(w, t)
  PROVE  w \in WriteType /\ SectorOK(w.sector, w.contents)
<1>1. /\ w \in WriteType /\ w.sector \in DirSectors /\ w.contents.hdr = NoHeader /\ w.contents \in SectorType
  BY DEF DirWrite, WriteType
<1>2. DirSectors \cap {FreeMapSector, DirectorySector, MapSector} = {}
  BY SystemIs
<1>3. w.sector \notin {FreeMapSector, DirectorySector} /\ w.sector # FreeMapSector /\ w.sector # DirectorySector
      /\ w.sector # MapSector
  BY <1>1, <1>2
<1>4. \A i \in 1 .. NumDirEntries : <<t[i].inUse, t[i].sector>> \in EntryHalf /\ t[i].name \in EntryName
  BY DEF SoundTable, TableType, EntryType, EntryHalf
<1>5. EntriesIn(w.sector, w.contents)
  BY <1>4, Zenon DEF EntriesIn, DirWrite
<1> QED
  BY <1>1, <1>3, <1>5, Zenon DEF SectorOK

(* Outside the system's sectors, a user file's header or data.             *)
LEMMA UserSectorSound ==
  ASSUME NEW q, q \notin Sys, NEW c \in SectorType, c.hdr = NoHeader \/ UserHeader(c.hdr)
  PROVE  SectorOK(q, c)
<1>1. q \notin {FreeMapSector, DirectorySector} /\ q # FreeMapSector /\ q # DirectorySector
      /\ q # MapSector /\ q \notin DirSectors
  BY SystemIs
<1>2. EntriesIn(q, c)
  BY <1>1, NoEntries
<1> QED
  BY <1>1, <1>2, Zenon DEF SectorOK

LEMMA FileWritesSound ==
  ASSUME NEW d \in DiskType, NEW h, UserHeader(h), NEW from \in Seq(Byte), NEW p \in Nat
  PROVE  /\ WriteAt(d, h, from, p) \in Seq(WriteType) /\ Distinct(WriteAt(d, h, from, p))
         /\ SoundWrites(Writes(WriteAt(d, h, from, p)))
         /\ \A w \in Writes(WriteAt(d, h, from, p)) :
              w.sector \in Seqs!ToSet(h.dataSectors) /\ w.contents.hdr = NoHeader
<1>1. Shape(h) /\ Seqs!ToSet(h.dataSectors) \cap Sys = {}
  BY DEF UserHeader
<1>2. PICK u : u = WriteAt(d, h, from, p)
  OBVIOUS
<1>3. PICK n \in Nat : n = Count(h, from, p)
  BY <1>1, CountIs
<1>4. u \in Seq(WriteType) /\ Distinct(u) /\ WriteSet(Writes(u), d, h, from, p, n)
  BY <1>1, <1>2, <1>3, WriteSetIs
<1>5. ASSUME NEW w \in Writes(u)
      PROVE  /\ w \in WriteType /\ SectorOK(w.sector, w.contents)
             /\ w.sector \in Seqs!ToSet(h.dataSectors) /\ w.contents.hdr = NoHeader
  <2>1. PICK q \in Nat : FileWrite(w, d, h, from, p, n, q)
    BY <1>4 DEF WriteSet
  <2>2. /\ q + 1 \in 1 .. Len(h.dataSectors) /\ w.sector = h.dataSectors[q + 1]
        /\ w \in WriteType /\ w.contents.hdr = NoHeader
    BY <2>1 DEF FileWrite
  <2>3. w.sector \in Seqs!ToSet(h.dataSectors)
    BY <1>1, <2>2, ShapeIs
  <2>4. w.sector \notin Sys /\ w.contents \in SectorType
    BY <1>1, <2>2, <2>3 DEF WriteType
  <2> QED
    BY <2>2, <2>3, <2>4, UserSectorSound
<1> QED
  BY <1>2, <1>4, <1>5 DEF SoundWrites
-----------------------------------------------------------------------------
(* Looking up a directory.                                                 *)

LEMMA FirstIs ==
  ASSUME NEW S, S \subseteq Nat
  PROVE  /\ S = {} => First(S) = -1
         /\ S # {} => First(S) \in S /\ First(S) # -1 /\ \A j \in S : First(S) <= j
<1>1. S = {} => First(S) = -1
  BY DEF First
<1>2. ASSUME S # {} PROVE First(S) \in S /\ \A j \in S : First(S) <= j
  <2>1. \E i \in S : \A j \in S : i <= j
    BY <1>2, LeastExists
  <2>2. First(S) = CHOOSE i \in S : \A j \in S : i <= j
    BY <1>2 DEF First
  <2> QED
    BY <2>1, <2>2
<1>3. \A x \in S : x # -1
  OBVIOUS
<1> QED
  BY <1>1, <1>2, <1>3

Used(t) == {i \in 1 .. NumDirEntries : t[i].inUse}

LEMMA TableIs ==
  ASSUME NEW t \in TableType
  PROVE  /\ DOMAIN t = 1 .. NumDirEntries
         /\ \A i \in 1 .. NumDirEntries : /\ t[i] \in EntryType /\ t[i].inUse \in BOOLEAN
                                          /\ t[i].sector \in Sector /\ t[i].name \in EntryName
         /\ \A q \in Sector : q # -1
<1>1. \A q \in Sector : q # -1
  BY SectorFinite
<1> QED
  BY <1>1 DEF TableType, EntryType

(* The entry that FindIndex finds.                                         *)
LEMMA FindIndexIs ==
  ASSUME NEW t \in TableType, NEW name
  PROVE  \/ FindIndex(t, name) = -1 /\ \A i \in Used(t) : t[i].name # name
         \/ FindIndex(t, name) \in Used(t) /\ FindIndex(t, name) # -1 /\ t[FindIndex(t, name)].name = name
<1> DEFINE S == {i \in 1 .. NumDirEntries : t[i].inUse /\ t[i].name = name}
<1>1. FindIndex(t, name) = First(S)
  BY TableIs DEF FindIndex
<1>2. S \subseteq Nat
  OBVIOUS
<1>3. \A i : i \in S <=> i \in Used(t) /\ t[i].name = name
  BY DEF Used
<1> HIDE DEF S
<1>4. CASE S = {}
  BY <1>1, <1>2, <1>3, <1>4, FirstIs
<1>5. CASE S # {}
  <2>1. First(S) \in S /\ First(S) # -1
    BY <1>2, <1>5, FirstIs
  <2> QED
    BY <1>1, <1>3, <2>1
<1> QED
  BY <1>4, <1>5

LEMMA FindIs ==
  ASSUME NEW t \in TableType, NEW name
  PROVE  \/ Find(t, name) = -1 /\ FindIndex(t, name) = -1 /\ \A i \in Used(t) : t[i].name # name
         \/ /\ FindIndex(t, name) \in Used(t) /\ t[FindIndex(t, name)].name = name
            /\ Find(t, name) = t[FindIndex(t, name)].sector
            /\ Find(t, name) \in Sector /\ Find(t, name) # -1
<1>1. CASE FindIndex(t, name) = -1 /\ \A i \in Used(t) : t[i].name # name
  BY <1>1 DEF Find
<1>2. CASE FindIndex(t, name) \in Used(t) /\ FindIndex(t, name) # -1 /\ t[FindIndex(t, name)].name = name
  <2>1. PICK i \in Used(t) : i = FindIndex(t, name)
    BY <1>2
  <2>2. i \in 1 .. NumDirEntries
    BY DEF Used
  <2>3. Find(t, name) = t[i].sector
    BY <1>2, <2>1 DEF Find
  <2> QED
    BY <1>2, <2>1, <2>2, <2>3, TableIs
<1> QED
  BY <1>1, <1>2, FindIndexIs

(* In a directory without duplicate names there is one entry to find.      *)
OneName(t) == \A i, j \in Used(t) : t[i].name = t[j].name => i = j

LEMMA FindThe ==
  ASSUME NEW t \in TableType, OneName(t), NEW i \in Used(t)
  PROVE  Find(t, t[i].name) = t[i].sector /\ FindIndex(t, t[i].name) = i
<1>1. PICK name : name = t[i].name
  OBVIOUS
<1>2. FindIndex(t, name) \in Used(t) /\ t[FindIndex(t, name)].name = name /\ Find(t, name) = t[FindIndex(t, name)].sector
  BY <1>1, FindIs
<1>3. FindIndex(t, name) = i
  BY <1>1, <1>2 DEF OneName
<1> QED
  BY <1>1, <1>2, <1>3

(* Add: an entry that was not in use.                                      *)
Added(t, name, sector, i) == [t EXCEPT ![i] = [inUse |-> TRUE, sector |-> sector, name |-> name]]

LEMMA AddIs ==
  ASSUME NEW t \in TableType, NEW name, NEW sector, Add(t, name, sector).ok
  PROVE  \E i \in 1 .. NumDirEntries : /\ i \notin Used(t) /\ \A j \in Used(t) : t[j].name # name
                                       /\ \A j \in 1 .. NumDirEntries : j < i => j \in Used(t)
                                       /\ Add(t, name, sector).table = Added(t, name, sector, i)
<1> DEFINE S == {k \in 1 .. NumDirEntries : ~t[k].inUse}
<1>1. PICK i : i = First(S)
  OBVIOUS
<1>2. Add(t, name, sector) =
        IF FindIndex(t, name) # -1 \/ i = -1 THEN [ok |-> FALSE, table |-> t]
        ELSE [ok |-> TRUE, table |-> Added(t, name, sector, i)]
  BY <1>1, TableIs DEF Add, Added
<1>3. FindIndex(t, name) = -1 /\ i # -1
  BY <1>2
<1>4. S \subseteq Nat
  OBVIOUS
<1>5. \A k \in S : k \in 1 .. NumDirEntries /\ k \notin Used(t)
  BY DEF Used
<1>9. \A k \in 1 .. NumDirEntries : k \notin Used(t) => k \in S
  BY DEF Used
<1> HIDE DEF S
<1>6. i \in S /\ \A k \in S : i <= k
  BY <1>1, <1>3, <1>4, FirstIs
<1>10. ASSUME NEW j \in 1 .. NumDirEntries, j < i, j \notin Used(t) PROVE FALSE
  <2>1. i <= j /\ i \in Int /\ j \in Int
    BY <1>4, <1>6, <1>9, <1>10
  <2> QED
    BY <1>10, <2>1
<1>7. \A j \in Used(t) : t[j].name # name
  <2>1. \A x \in Used(t) : x # -1
    BY DEF Used
  <2> QED
    BY <1>3, <2>1, FindIndexIs
<1>8. Add(t, name, sector).table = Added(t, name, sector, i)
  BY <1>2, <1>3
<1> QED
  BY <1>5, <1>6, <1>7, <1>8, <1>10

LEMMA AddedIs ==
  ASSUME NEW t \in TableType, NEW name \in EntryName, NEW s \in Sector, NEW i \in 1 .. NumDirEntries, i \notin Used(t)
  PROVE  /\ Added(t, name, s, i) \in TableType /\ Used(Added(t, name, s, i)) = Used(t) \cup {i}
         /\ Added(t, name, s, i)[i] = [inUse |-> TRUE, sector |-> s, name |-> name]
         /\ \A j \in 1 .. NumDirEntries : j # i => Added(t, name, s, i)[j] = t[j]
<1>1. PICK u : u = Added(t, name, s, i)
  OBVIOUS
<1>2. PICK e : e = [inUse |-> TRUE, sector |-> s, name |-> name]
  OBVIOUS
<1>3. e \in EntryType /\ e.inUse
  BY <1>2 DEF EntryType
<1>4. u = [t EXCEPT ![i] = e] /\ t \in [1 .. NumDirEntries -> EntryType]
  BY <1>1, <1>2 DEF Added, TableType
<1>5. u \in [1 .. NumDirEntries -> EntryType] /\ u[i] = e /\ \A j \in 1 .. NumDirEntries : j # i => u[j] = t[j]
  BY <1>3, <1>4
<1>6. Used(u) = Used(t) \cup {i}
  BY <1>3, <1>5 DEF Used
<1> QED
  BY <1>1, <1>2, <1>5, <1>6 DEF TableType

LEMMA AddedSound ==
  ASSUME NEW t, SoundTable(t), NEW name \in EntryName, NEW s \in Sector, s \notin Sys,
         NEW i \in 1 .. NumDirEntries, i \notin Used(t)
  PROVE  SoundTable(Added(t, name, s, i))
<1>1. t \in TableType
  BY DEF SoundTable
<1>2. PICK u : u = Added(t, name, s, i)
  OBVIOUS
<1>3. u \in TableType /\ u[i] = [inUse |-> TRUE, sector |-> s, name |-> name]
      /\ \A j \in 1 .. NumDirEntries : j # i => u[j] = t[j]
  BY <1>1, <1>2, AddedIs
<1>4. u[i].sector = s
  BY <1>3
<1>5. \A j \in 1 .. NumDirEntries : u[j].inUse => u[j].sector \notin Sys
  BY <1>3, <1>4 DEF SoundTable
<1> QED
  BY <1>2, <1>3, <1>5 DEF SoundTable

LEMMA RemoveEntryIs ==
  ASSUME NEW t \in TableType, NEW name, NEW i \in Used(t), FindIndex(t, name) = i
  PROVE  /\ RemoveEntry(t, name) \in TableType /\ Used(RemoveEntry(t, name)) = Used(t) \ {i}
         /\ \A j \in 1 .. NumDirEntries : j # i => RemoveEntry(t, name)[j] = t[j]
         /\ \A j \in 1 .. NumDirEntries : RemoveEntry(t, name)[j].name = t[j].name
         /\ SoundTable(t) => SoundTable(RemoveEntry(t, name))
<1>1. PICK u : u = RemoveEntry(t, name)
  OBVIOUS
<1>2. PICK e : e = [t[i] EXCEPT !.inUse = FALSE]
  OBVIOUS
<1>3. i \in 1 .. NumDirEntries
  BY DEF Used
<1>4. e \in EntryType /\ e.inUse = FALSE /\ e.name = t[i].name
  <2>1. t[i] \in EntryType
    BY <1>3, TableIs
  <2> QED
    BY <1>2, <2>1 DEF EntryType
<1>5. u = [t EXCEPT ![i] = e] /\ t \in [1 .. NumDirEntries -> EntryType]
  BY <1>1, <1>2, <1>3 DEF RemoveEntry, TableType
<1>6. u \in [1 .. NumDirEntries -> EntryType] /\ u[i] = e /\ \A j \in 1 .. NumDirEntries : j # i => u[j] = t[j]
  BY <1>3, <1>4, <1>5
<1>7. u \in TableType
  BY <1>6 DEF TableType
<1>8. Used(u) = Used(t) \ {i}
  BY <1>4, <1>6 DEF Used
<1>9. SoundTable(t) => SoundTable(u)
  BY <1>4, <1>6, <1>7 DEF SoundTable
<1>10. \A j \in 1 .. NumDirEntries : u[j].name = t[j].name
  BY <1>4, <1>6
<1> QED
  BY <1>1, <1>6, <1>7, <1>8, <1>9, <1>10
-----------------------------------------------------------------------------
(* Create.                                                                 *)

(* A free sector s gets the header h, and entry i the name.                *)
Creation(d, name, size, s, h, i) ==
  /\ s \in Sector /\ s \notin FetchMap(d) /\ s \notin Sys
  /\ UserHeader(h) /\ h.numBytes = size
  /\ Seqs!ToSet(h.dataSectors) \cap (FetchMap(d) \cup {s}) = {}
  /\ i \in 1 .. NumDirEntries /\ i \notin Used(FetchDirectory(d))
  /\ \A j \in Used(FetchDirectory(d)) : FetchDirectory(d)[j].name # name
  /\ \A j \in 1 .. NumDirEntries : j < i => j \in Used(FetchDirectory(d))

TableAfter(d, name, s, i) == Added(FetchDirectory(d), name, s, i)

MapAfter(d, s, h) == (FetchMap(d) \cup {s}) \cup Seqs!ToSet(h.dataSectors)

LEMMA CreateCases ==
  ASSUME NEW d, Sound(d), NEW name, NEW size \in Nat
  PROVE  \/ CreateWrites(d, name, size) = Refused
         \/ /\ CreateWrites(d, name, size).ok
            /\ \E s, h, i : /\ Creation(d, name, size, s, h, i)
                            /\ CreateWrites(d, name, size).writes =
                                 CreateFlush(d, s, h, TableAfter(d, name, s, i), MapAfter(d, s, h))
<1>1. PICK t \in TableType : t = FetchDirectory(d)
  BY SoundIs DEF SoundTable
<1>2. PICK map : map = FetchMap(d) /\ map \subseteq Sector /\ Sys \subseteq map
  BY SoundIs
<1>3. PICK c : c = CreateWrites(d, name, size)
  OBVIOUS
<1>4. c = IF Find(t, name) # -1 \/ NumClear(map) = 0 THEN Refused
          ELSE CreateAt(d, name, size, t, map, FindOrder(map)[1])
  BY <1>1, <1>2, <1>3 DEF CreateWrites, CreateIn
<1>5. CASE Find(t, name) # -1 \/ NumClear(map) = 0
  BY <1>3, <1>4, <1>5
<1>6. CASE ~(Find(t, name) # -1 \/ NumClear(map) = 0)
  <2>1. PICK s : s = FindOrder(map)[1]
    OBVIOUS
  <2>2. s \in Sector /\ s \notin map
    <3>1. NumClear(map) \in Nat
      BY <1>2, FindOrderIs
    <3>2. 1 \in 1 .. NumClear(map)
      BY <1>6, <3>1
    <3> QED
      BY <1>2, <2>1, <3>2, FindOrderIs
  <2>3. PICK a, b : a = Add(t, name, s) /\ b = Allocate(map \cup {s}, size)
    OBVIOUS
  <2>4. c = IF ~a.ok \/ ~b.ok THEN Refused
            ELSE [ok |-> TRUE, writes |-> CreateFlush(d, s, b.hdr, a.table, b.map)]
    BY <1>4, <1>6, <2>1, <2>3 DEF CreateAt
  <2>5. CASE ~a.ok \/ ~b.ok
    BY <1>3, <2>4, <2>5
  <2>6. CASE ~(~a.ok \/ ~b.ok)
    <3>1. c.ok /\ c.writes = CreateFlush(d, s, b.hdr, a.table, b.map)
      BY <2>4, <2>6
    <3>2. Allocated(b, map \cup {s}, size)
      <4>1. map \cup {s} \subseteq Sector
        BY <1>2, <2>2
      <4> QED
        BY <2>3, <2>6, <4>1, AllocateIs
    <3>3. PICK i \in 1 .. NumDirEntries : /\ i \notin Used(t) /\ \A j \in Used(t) : t[j].name # name
                                          /\ \A j \in 1 .. NumDirEntries : j < i => j \in Used(t)
                                          /\ a.table = Added(t, name, s, i)
      BY <2>3, <2>6, AddIs
    <3>4. PICK h : h = b.hdr
      OBVIOUS
    <3>5. /\ Shape(h) /\ h.numBytes = size /\ Seqs!ToSet(h.dataSectors) \cap (map \cup {s}) = {}
          /\ b.map = (map \cup {s}) \cup Seqs!ToSet(h.dataSectors)
      BY <3>2, <3>4 DEF Allocated
    <3>6. UserHeader(h)
      BY <1>2, <3>5 DEF UserHeader
    <3>7. Creation(d, name, size, s, h, i)
      BY <1>1, <1>2, <2>2, <3>3, <3>5, <3>6 DEF Creation
    <3>8. a.table = TableAfter(d, name, s, i) /\ b.map = MapAfter(d, s, h)
      BY <1>1, <1>2, <3>3, <3>5 DEF TableAfter, MapAfter
    <3> QED
      BY <1>3, <3>1, <3>4, <3>7, <3>8
  <2> QED
    BY <2>5, <2>6
<1> QED
  BY <1>5, <1>6

(* The tables that Create writes.                                          *)
LEMMA CreationIs ==
  ASSUME NEW d, Sound(d), NEW name \in EntryName, NEW size, NEW s, NEW h, NEW i, Creation(d, name, size, s, h, i)
  PROVE  /\ SoundTable(TableAfter(d, name, s, i)) /\ TableAfter(d, name, s, i) \in TableType
         /\ MapAfter(d, s, h) \subseteq Sector /\ Sys \subseteq MapAfter(d, s, h)
         /\ HeaderSector(h) \in SectorType /\ HeaderSector(h).hdr = h
         /\ [sector |-> s, contents |-> HeaderSector(h)] \in WriteType
         /\ SectorOK(s, HeaderSector(h))
<1>1. SoundTable(FetchDirectory(d)) /\ FetchMap(d) \subseteq Sector /\ Sys \subseteq FetchMap(d)
  BY SoundIs
<1>2. /\ s \in Sector /\ s \notin Sys /\ UserHeader(h)
      /\ i \in 1 .. NumDirEntries /\ i \notin Used(FetchDirectory(d))
  BY DEF Creation
<1>3. SoundTable(TableAfter(d, name, s, i))
  BY <1>1, <1>2, AddedSound DEF TableAfter
<1>4. Shape(h) /\ h \in HeaderType
  BY <1>2 DEF UserHeader, Shape
<1>5. Seqs!ToSet(h.dataSectors) \subseteq Sector
  BY <1>4, ShapeIs
<1>6. HeaderSector(h) \in SectorType /\ HeaderSector(h).hdr = h
  BY <1>4, SectorTypeIs
<1>7. SectorOK(s, HeaderSector(h))
  BY <1>2, <1>6, UserSectorSound
<1>8. [sector |-> s, contents |-> HeaderSector(h)] \in WriteType
  BY <1>2, <1>6 DEF WriteType
<1>9. MapAfter(d, s, h) \subseteq Sector /\ Sys \subseteq MapAfter(d, s, h)
  BY <1>1, <1>2, <1>5 DEF MapAfter
<1> QED
  BY <1>3, <1>6, <1>7, <1>8, <1>9 DEF SoundTable

(* The writes of Create: the header, the directory, the map.               *)
HeaderWrite(s, h) == [sector |-> s, contents |-> HeaderSector(h)]

Flush(w, d, t2, s, h, map) ==
  /\ w \in Seq(WriteType) /\ Distinct(w)
  /\ \E m : /\ MapWrite(m, map)
            /\ Writes(w) = ({HeaderWrite(s, h)} \cup Writes(WriteBackDirectory(d, t2))) \cup {m}
            /\ w = (<<HeaderWrite(s, h)>> \o WriteBackDirectory(d, t2)) \o <<m>>

LEMMA CreateFlushIs ==
  ASSUME NEW d, Sound(d), NEW name \in EntryName, NEW size, NEW s, NEW h, NEW i, Creation(d, name, size, s, h, i)
  PROVE  Flush(CreateFlush(d, s, h, TableAfter(d, name, s, i), MapAfter(d, s, h)),
               d, TableAfter(d, name, s, i), s, h, MapAfter(d, s, h))
<1>1. d \in DiskType /\ d[FreeMapSector].hdr = MapHdr /\ d[DirectorySector].hdr = DirHdr
  BY SoundIs
<1>2. PICK t2 \in TableType : t2 = TableAfter(d, name, s, i)
  BY CreationIs
<1>3. PICK v \in WriteType : v = [sector |-> s, contents |-> HeaderSector(h)] /\ v = HeaderWrite(s, h)
  BY CreationIs DEF HeaderWrite
<1>4. PICK u : u = WriteBackDirectory(d, t2)
  OBVIOUS
<1>5. u \in Seq(WriteType) /\ Distinct(u) /\ \A x \in Writes(u) : DirWrite(x, t2)
  BY <1>1, <1>4, WriteBackDirectoryIs
<1>6. PICK m : WriteBackMap(d, MapAfter(d, s, h)) = <<m>> /\ MapWrite(m, MapAfter(d, s, h))
  BY <1>1, CreationIs, WriteBackMapIs
<1>7. m \in WriteType /\ m.sector = MapSector
  BY <1>6 DEF MapWrite
<1>8. CreateFlush(d, s, h, t2, MapAfter(d, s, h)) = <<v>> \o u \o <<m>>
  BY <1>3, <1>4, <1>6 DEF CreateFlush
<1>9. v.sector = s /\ s \notin Sys
  BY <1>3 DEF Creation
<1>10. \A x \in Writes(u) : x.sector \in DirSectors
  BY <1>5 DEF DirWrite
<1>11. DirSectors \subseteq Sys /\ MapSector \in Sys /\ MapSector \notin DirSectors
  BY SystemIs
<1>12. <<v>> \in Seq(WriteType) /\ Distinct(<<v>>) /\ Writes(<<v>>) = {v}
  BY OneWrite
<1>13. <<m>> \in Seq(WriteType) /\ Distinct(<<m>>) /\ Writes(<<m>>) = {m}
  BY <1>7, OneWrite
<1>14. PICK x : x = <<v>> \o u
  OBVIOUS
<1>15. x \in Seq(WriteType) /\ Writes(x) = {v} \cup Writes(u) /\ Distinct(x)
  <2>1. \A y \in {v}, z \in Writes(u) : y.sector # z.sector
    BY <1>9, <1>10, <1>11
  <2> QED
    BY <1>5, <1>12, <1>14, <2>1, JoinWrites
<1>16. /\ x \o <<m>> \in Seq(WriteType) /\ Writes(x \o <<m>>) = ({v} \cup Writes(u)) \cup {m}
       /\ Distinct(x \o <<m>>)
  <2>1. \A y \in {v} \cup Writes(u), z \in {m} : y.sector # z.sector
    BY <1>7, <1>9, <1>10, <1>11
  <2> QED
    BY <1>13, <1>15, <2>1, JoinWrites
<1> QED
  BY <1>2, <1>3, <1>4, <1>6, <1>8, <1>14, <1>16, Zenon DEF Flush

LEMMA CreateWritesSound ==
  ASSUME NEW d, Sound(d), NEW name \in EntryName, NEW size \in Nat
  PROVE  LET w == CreateWrites(d, name, size).writes IN
         w \in Seq(WriteType) /\ Distinct(w) /\ SoundWrites(Writes(w))
<1>1. PICK c : c = CreateWrites(d, name, size)
  OBVIOUS
<1>2. CASE c = Refused
  <2>1. c.writes = <<>>
    BY <1>2 DEF Refused
  <2>2. d \in DiskType
    BY SoundIs
  <2>3. SoundWrites({})
    BY DEF SoundWrites
  <2> QED
    BY <1>1, <2>1, <2>2, <2>3, NoWrites
<1>3. CASE c # Refused
  <2>1. PICK s, h, i : /\ Creation(d, name, size, s, h, i)
                       /\ c.writes = CreateFlush(d, s, h, TableAfter(d, name, s, i), MapAfter(d, s, h))
    BY <1>1, <1>3, CreateCases
  <2>2. PICK t2 \in TableType : t2 = TableAfter(d, name, s, i) /\ SoundTable(t2)
    BY <2>1, CreationIs
  <2>3. PICK v : v = [sector |-> s, contents |-> HeaderSector(h)] /\ v = HeaderWrite(s, h)
    BY DEF HeaderWrite
  <2>4. PICK w : w = c.writes
    OBVIOUS
  <2>a. Flush(w, d, t2, s, h, MapAfter(d, s, h))
    BY <2>1, <2>2, <2>4, CreateFlushIs
  <2>5. w \in Seq(WriteType) /\ Distinct(w)
    BY <2>a DEF Flush
  <2>6. PICK m : /\ MapWrite(m, MapAfter(d, s, h))
                 /\ Writes(w) = ({v} \cup Writes(WriteBackDirectory(d, t2))) \cup {m}
    BY <2>3, <2>a, Zenon DEF Flush
  <2>7. v \in WriteType /\ SectorOK(v.sector, v.contents)
    BY <2>1, <2>3, CreationIs
  <2>8. m \in WriteType /\ SectorOK(m.sector, m.contents)
    BY <2>1, <2>6, CreationIs, MapWriteSound
  <2>9. \A x \in Writes(WriteBackDirectory(d, t2)) : x \in WriteType /\ SectorOK(x.sector, x.contents)
    <3>1. d \in DiskType /\ d[DirectorySector].hdr = DirHdr
      BY SoundIs
    <3> QED
      BY <2>2, <3>1, WriteBackDirectoryIs, DirWriteSound
  <2>10. SoundWrites(Writes(w))
    BY <2>6, <2>7, <2>8, <2>9 DEF SoundWrites
  <2> QED
    BY <1>1, <2>4, <2>5, <2>10
<1> QED
  BY <1>2, <1>3

(* When the directory t2 and the map are written, they are what is read.   *)
LEMMA SystemWritten ==
  ASSUME NEW d, Sound(d), NEW t2, SoundTable(t2), NEW map, map \subseteq Sector, Sys \subseteq map,
         NEW W, NEW d2, Effect(d2, d, W), Sound(d2), Writes(WriteBackDirectory(d, t2)) \subseteq W,
         NEW m \in W, MapWrite(m, map)
  PROVE  FetchDirectory(d2) = t2 /\ FetchMap(d2) = map
<1>1. /\ d \in DiskType /\ d[DirectorySector].hdr = DirHdr
      /\ d2 \in DiskType /\ d2[DirectorySector].hdr = DirHdr /\ d2[FreeMapSector].hdr = MapHdr
  BY SoundIs
<1>2. \A w \in W : d2[w.sector] = w.contents
  BY DEF Effect
<1>3. t2 \in TableType
  BY DEF SoundTable
<1>4. PICK U : U = Writes(WriteBackDirectory(d, t2))
  OBVIOUS
<1>5. /\ \A w \in U : DirWrite(w, t2)
      /\ \A a \in Nat : a < DirectoryFileSize => \E w \in U : w.sector = SectorAt(DirHdr, a)
  BY <1>1, <1>3, <1>4, WriteBackDirectoryIs
<1>6. \A w \in U : DirWrite(w, t2) /\ d2[w.sector] = w.contents
  BY <1>2, <1>4, <1>5
<1>7. FetchDirectory(d2) = t2
  BY <1>1, <1>3, <1>5, <1>6, DirectoryWritten
<1>8. m.sector = MapSector /\ MapOf(m.contents) = map
  BY MapWriteSound DEF MapWrite
<1>9. FetchMap(d2) = map
  BY <1>1, <1>2, <1>8, FetchMapIs
<1> QED
  BY <1>7, <1>9

LEMMA CreateDone ==
  ASSUME NEW d, Sound(d), NEW name \in EntryName, NEW size, NEW s, NEW h, NEW i,
         Creation(d, name, size, s, h, i), NEW d2,
         d2 = Apply(d, CreateFlush(d, s, h, TableAfter(d, name, s, i), MapAfter(d, s, h)))
  PROVE  /\ Sound(d2) /\ d2[s].hdr = h
         /\ FetchDirectory(d2) = TableAfter(d, name, s, i) /\ FetchMap(d2) = MapAfter(d, s, h)
         /\ \A q \in Sector : q \notin Sys /\ q # s => d2[q] = d[q]
<1>1. PICK t2, map, w : /\ t2 = TableAfter(d, name, s, i) /\ map = MapAfter(d, s, h)
                        /\ w = CreateFlush(d, s, h, t2, map)
  OBVIOUS
<1>2. Flush(w, d, t2, s, h, map)
  BY <1>1, CreateFlushIs
<1>3. w \in Seq(WriteType) /\ Distinct(w)
  BY <1>2 DEF Flush
<1>4. PICK v, m : /\ v = HeaderWrite(s, h) /\ MapWrite(m, map)
                  /\ Writes(w) = ({v} \cup Writes(WriteBackDirectory(d, t2))) \cup {m}
  BY <1>2, Zenon DEF Flush
<1>5. v.sector = s /\ v.contents = HeaderSector(h)
  BY <1>4 DEF HeaderWrite
<1>6. SoundTable(t2) /\ t2 \in TableType /\ map \subseteq Sector /\ Sys \subseteq map /\ HeaderSector(h).hdr = h
  BY <1>1, CreationIs
<1>7. d \in DiskType /\ d[DirectorySector].hdr = DirHdr
  BY SoundIs
<1>8. v \in WriteType /\ SectorOK(v.sector, v.contents)
  <2>1. v = [sector |-> s, contents |-> HeaderSector(h)]
    BY <1>4 DEF HeaderWrite
  <2>2. [sector |-> s, contents |-> HeaderSector(h)] \in WriteType /\ SectorOK(s, HeaderSector(h))
    BY CreationIs
  <2> QED
    BY <1>5, <2>1, <2>2
<1>9. m \in WriteType /\ SectorOK(m.sector, m.contents) /\ m.sector = MapSector
  BY <1>4, <1>6, MapWriteSound DEF MapWrite
<1>10. \A x \in Writes(WriteBackDirectory(d, t2)) :
         x \in WriteType /\ SectorOK(x.sector, x.contents) /\ x.sector \in DirSectors
  <2>1. \A x \in Writes(WriteBackDirectory(d, t2)) : DirWrite(x, t2)
    BY <1>6, <1>7, WriteBackDirectoryIs
  <2> QED
    BY <1>6, <2>1, DirWriteSound DEF DirWrite
<1>11. Effect(d2, d, Writes(w))
  BY <1>1, <1>3, <1>7, ApplyEffect
<1>12. SoundWrites(Writes(w))
  BY <1>4, <1>8, <1>9, <1>10 DEF SoundWrites
<1>13. Sound(d2)
  BY <1>11, <1>12, SoundKept
<1>14. FetchDirectory(d2) = t2 /\ FetchMap(d2) = map
  <2>1. Writes(WriteBackDirectory(d, t2)) \subseteq Writes(w) /\ m \in Writes(w)
    BY <1>4
  <2> QED
    BY <1>4, <1>6, <1>11, <1>13, <2>1, SystemWritten
<1>15. d2[s].hdr = h
  <2>1. v \in Writes(w)
    BY <1>4
  <2> QED
    BY <1>5, <1>6, <1>11, <2>1 DEF Effect
<1>16. ASSUME NEW q \in Sector, q \notin Sys, q # s PROVE d2[q] = d[q]
  <2>1. DirSectors \subseteq Sys /\ MapSector \in Sys
    BY SystemIs
  <2>2. \A x \in Writes(w) : x.sector # q
    BY <1>4, <1>5, <1>9, <1>10, <1>16, <2>1
  <2> QED
    BY <1>11, <2>2 DEF Effect
<1> QED
  BY <1>1, <1>13, <1>14, <1>15, <1>16
-----------------------------------------------------------------------------
(* What is also true when nothing was interrupted.                         *)

Owned(d, q) == {q} \cup Seqs!ToSet(d[q].hdr.dataSectors)

(* The files of directory t: each has its header and its own sectors, and  *)
(* the marked ones are these.                                              *)
ExactOn(d, t, map) ==
  /\ \A i \in Used(t) : /\ d[t[i].sector].hdr # NoHeader
                        /\ t[i].sector \notin Seqs!ToSet(d[t[i].sector].hdr.dataSectors)
  /\ OneName(t)
  /\ \A i, j \in Used(t) : i # j => Owned(d, t[i].sector) \cap Owned(d, t[j].sector) = {}
  /\ \A q : q \in map <=> q \in Sys \/ \E i \in Used(t) : q \in Owned(d, t[i].sector)

Exact(d) == ExactOn(d, FetchDirectory(d), FetchMap(d))

LEMMA CreateExact ==
  ASSUME NEW d, Sound(d), Exact(d), NEW name \in EntryName, NEW size, NEW s, NEW h, NEW i,
         Creation(d, name, size, s, h, i), NEW d2,
         d2 = Apply(d, CreateFlush(d, s, h, TableAfter(d, name, s, i), MapAfter(d, s, h)))
  PROVE  Exact(d2)
<1>1. PICK t \in TableType : t = FetchDirectory(d) /\ SoundTable(t)
  BY SoundIs DEF SoundTable
<1>2. PICK map : map = FetchMap(d) /\ map \subseteq Sector /\ Sys \subseteq map
  BY SoundIs
<1>3. PICK H : H = Seqs!ToSet(h.dataSectors)
  OBVIOUS
<1>4. /\ s \in Sector /\ s \notin map /\ s \notin Sys /\ H \cap (map \cup {s}) = {} /\ Shape(h)
      /\ i \in 1 .. NumDirEntries /\ i \notin Used(t)
      /\ \A j \in Used(t) : t[j].name # name
  BY <1>1, <1>2, <1>3 DEF Creation, UserHeader
<1>5. PICK u : u = Added(t, name, s, i)
  OBVIOUS
<1>6. /\ u \in TableType /\ Used(u) = Used(t) \cup {i}
      /\ u[i] = [inUse |-> TRUE, sector |-> s, name |-> name]
      /\ \A j \in 1 .. NumDirEntries : j # i => u[j] = t[j]
  BY <1>4, <1>5, AddedIs
<1>7. u[i].sector = s /\ u[i].name = name
  BY <1>6
<1>8. /\ d2[s].hdr = h /\ FetchDirectory(d2) = u /\ FetchMap(d2) = (map \cup {s}) \cup H
      /\ \A q \in Sector : q \notin Sys /\ q # s => d2[q] = d[q]
  <2>1. /\ d2[s].hdr = h
        /\ FetchDirectory(d2) = TableAfter(d, name, s, i) /\ FetchMap(d2) = MapAfter(d, s, h)
        /\ \A q \in Sector : q \notin Sys /\ q # s => d2[q] = d[q]
    BY CreateDone
  <2>2. TableAfter(d, name, s, i) = u
    BY <1>1, <1>5 DEF TableAfter
  <2>3. MapAfter(d, s, h) = (map \cup {s}) \cup H
    BY <1>2, <1>3 DEF MapAfter
  <2> QED
    BY <2>1, <2>2, <2>3
<1>9. ExactOn(d, t, map)
  BY <1>1, <1>2 DEF Exact
<1>10. \A j \in Used(t) : j # i /\ u[j] = t[j] /\ t[j].sector \in Sector /\ t[j].sector \notin Sys
  <2>1. \A j \in Used(t) : j \in 1 .. NumDirEntries /\ t[j].inUse
    BY DEF Used
  <2> QED
    BY <1>1, <1>4, <1>6, <2>1, TableIs DEF SoundTable
<1>11. \A j \in Used(t) : Owned(d, t[j].sector) \subseteq map /\ t[j].sector \in Owned(d, t[j].sector)
  BY <1>9 DEF ExactOn, Owned
<1>12. \A j \in Used(t) : d2[t[j].sector] = d[t[j].sector] /\ Owned(d2, t[j].sector) = Owned(d, t[j].sector)
  <2> SUFFICES ASSUME NEW j \in Used(t)
               PROVE  d2[t[j].sector] = d[t[j].sector] /\ Owned(d2, t[j].sector) = Owned(d, t[j].sector)
    OBVIOUS
  <2>1. t[j].sector # s
    BY <1>4, <1>11
  <2>2. d2[t[j].sector] = d[t[j].sector]
    BY <1>8, <1>10, <2>1
  <2> QED
    BY <2>2 DEF Owned
<1>13. Owned(d2, s) = {s} \cup H
  BY <1>3, <1>8 DEF Owned
<1>14. \A j \in Used(u) : /\ d2[u[j].sector].hdr # NoHeader
                          /\ u[j].sector \notin Seqs!ToSet(d2[u[j].sector].hdr.dataSectors)
  <2> SUFFICES ASSUME NEW j \in Used(u)
               PROVE  /\ d2[u[j].sector].hdr # NoHeader
                      /\ u[j].sector \notin Seqs!ToSet(d2[u[j].sector].hdr.dataSectors)
    OBVIOUS
  <2>1. CASE j = i
    <3>1. h # NoHeader
      <4>1. h.numBytes \in Nat
        BY <1>4, ShapeIs
      <4>2. NoHeader.numBytes = -1
        BY DEF NoHeader
      <4> QED
        BY <4>1, <4>2
    <3>2. s \notin H
      BY <1>4
    <3> QED
      BY <1>3, <1>7, <1>8, <2>1, <3>1, <3>2
  <2>2. CASE j # i
    <3>1. j \in Used(t)
      BY <1>6, <2>2
    <3> QED
      BY <1>9, <1>10, <1>12, <3>1 DEF ExactOn
  <2> QED
    BY <2>1, <2>2
<1>15. OneName(u)
  <2> SUFFICES ASSUME NEW j \in Used(u), NEW k \in Used(u), u[j].name = u[k].name PROVE j = k
    BY DEF OneName
  <2>1. \A x \in Used(u) : x = i \/ x \in Used(t)
    BY <1>6
  <2>2. \A x \in Used(t) : u[x] = t[x] /\ t[x].name # name
    BY <1>4, <1>10
  <2>3. \A x, y \in Used(t) : t[x].name = t[y].name => x = y
    BY <1>9 DEF ExactOn, OneName
  <2> QED
    BY <1>7, <2>1, <2>2, <2>3
<1>16. ASSUME NEW j \in Used(u), NEW k \in Used(u), j # k
       PROVE  Owned(d2, u[j].sector) \cap Owned(d2, u[k].sector) = {}
  <2>1. \A x \in Used(u) : x = i \/ x \in Used(t)
    BY <1>6
  <2>2. \A x \in Used(t) : u[x] = t[x] /\ Owned(d2, u[x].sector) = Owned(d, t[x].sector)
    BY <1>10, <1>12
  <2>3. Owned(d2, u[i].sector) = {s} \cup H
    BY <1>7, <1>13
  <2>4. \A x \in Used(t) : Owned(d, t[x].sector) \cap ({s} \cup H) = {}
    BY <1>4, <1>11
  <2>5. \A x, y \in Used(t) : x # y => Owned(d, t[x].sector) \cap Owned(d, t[y].sector) = {}
    BY <1>9 DEF ExactOn
  <2>6. CASE j = i
    <3>1. k \in Used(t)
      BY <1>16, <2>1, <2>6
    <3>2. Owned(d2, u[k].sector) \cap ({s} \cup H) = {}
      BY <2>2, <2>4, <3>1
    <3> QED
      BY <2>3, <2>6, <3>2
  <2>7. CASE k = i
    <3>1. j \in Used(t)
      BY <1>16, <2>1, <2>7
    <3>2. Owned(d2, u[j].sector) \cap ({s} \cup H) = {}
      BY <2>2, <2>4, <3>1
    <3> QED
      BY <2>3, <2>7, <3>2
  <2>8. CASE j # i /\ k # i
    BY <1>16, <2>1, <2>2, <2>5, <2>8
  <2> QED
    BY <2>6, <2>7, <2>8
<1>17. \A q : q \in (map \cup {s}) \cup H <=> q \in Sys \/ \E j \in Used(u) : q \in Owned(d2, u[j].sector)
  <2>1. \A q : q \in map <=> q \in Sys \/ \E j \in Used(t) : q \in Owned(d, t[j].sector)
    BY <1>9 DEF ExactOn
  <2>2. \A j \in Used(t) : j \in Used(u) /\ Owned(d2, u[j].sector) = Owned(d, t[j].sector)
    BY <1>6, <1>10, <1>12
  <2>3. i \in Used(u) /\ Owned(d2, u[i].sector) = {s} \cup H
    BY <1>6, <1>7, <1>13
  <2>4. \A x \in Used(u) : x = i \/ x \in Used(t)
    BY <1>6
  <2>5. ASSUME NEW q, q \in map \/ q \in {s} \cup H
        PROVE  q \in Sys \/ \E j \in Used(u) : q \in Owned(d2, u[j].sector)
    BY <2>1, <2>2, <2>3, <2>5
  <2>6. ASSUME NEW q, q \in Sys \/ \E j \in Used(u) : q \in Owned(d2, u[j].sector)
        PROVE  q \in map \/ q \in {s} \cup H
    BY <2>1, <2>2, <2>3, <2>4, <2>6
  <2> QED
    BY <2>5, <2>6
<1>18. ExactOn(d2, u, (map \cup {s}) \cup H)
  BY <1>14, <1>15, <1>16, <1>17 DEF ExactOn
<1> QED
  BY <1>8, <1>18 DEF Exact
-----------------------------------------------------------------------------
(* Open files.                                                             *)

FileType == [name : Name \cup {"stdin", "stdout"}, sector : Sector, hdr : HeaderType \cup {NoHeader},
             seekPosition : Nat, live : BOOLEAN]

(* What HeaderCurrent says of one open file.                               *)
Current(f, d) == Find(FetchDirectory(d), f.name) = f.sector /\ f.hdr = d[f.sector].hdr

(* Its entry in the directory.                                             *)
LEMMA CurrentEntry ==
  ASSUME NEW d, Sound(d), NEW f, f.sector \in Sector, Current(f, d)
  PROVE  \E i \in Used(FetchDirectory(d)) : /\ FetchDirectory(d)[i].name = f.name
                                            /\ FetchDirectory(d)[i].sector = f.sector
<1>1. PICK t \in TableType : t = FetchDirectory(d)
  BY SoundIs DEF SoundTable
<1>2. Find(t, f.name) = f.sector /\ f.sector # -1
  BY <1>1, TableIs DEF Current
<1>3. FindIndex(t, f.name) \in Used(t) /\ t[FindIndex(t, f.name)].name = f.name
      /\ Find(t, f.name) = t[FindIndex(t, f.name)].sector
  BY <1>2, FindIs
<1> QED
  BY <1>1, <1>2, <1>3

LEMMA EntryCurrent ==
  ASSUME NEW d, Sound(d), OneName(FetchDirectory(d)), NEW f, NEW i \in Used(FetchDirectory(d)),
         FetchDirectory(d)[i].name = f.name, FetchDirectory(d)[i].sector = f.sector,
         f.hdr = d[f.sector].hdr
  PROVE  Current(f, d)
<1>1. PICK t \in TableType : t = FetchDirectory(d)
  BY SoundIs DEF SoundTable
<1>2. Find(t, t[i].name) = t[i].sector
  BY <1>1, FindThe
<1> QED
  BY <1>1, <1>2 DEF Current

(* The sectors of a file in the directory are marked.                      *)
LEMMA OwnedMarked ==
  ASSUME NEW d, Exact(d), NEW i \in Used(FetchDirectory(d))
  PROVE  /\ Owned(d, FetchDirectory(d)[i].sector) \subseteq FetchMap(d)
         /\ FetchDirectory(d)[i].sector \in FetchMap(d)
         /\ d[FetchDirectory(d)[i].sector].hdr # NoHeader
BY DEF Exact, ExactOn, Owned

LEMMA CreateCurrent ==
  ASSUME NEW d, Sound(d), Exact(d), NEW name \in EntryName, NEW size, NEW s, NEW h, NEW i,
         Creation(d, name, size, s, h, i), NEW d2,
         d2 = Apply(d, CreateFlush(d, s, h, TableAfter(d, name, s, i), MapAfter(d, s, h))),
         NEW f, f.sector \in Sector, Current(f, d)
  PROVE  Current(f, d2)
<1>1. PICK t \in TableType : t = FetchDirectory(d) /\ SoundTable(t)
  BY SoundIs DEF SoundTable
<1>2. PICK k \in Used(t) : t[k].name = f.name /\ t[k].sector = f.sector
  BY <1>1, CurrentEntry
<1>3. /\ Sound(d2) /\ FetchDirectory(d2) = TableAfter(d, name, s, i)
      /\ \A q \in Sector : q \notin Sys /\ q # s => d2[q] = d[q]
  BY CreateDone
<1>4. Exact(d2)
  BY CreateExact
<1>5. /\ s \in Sector /\ s \notin FetchMap(d) /\ i \in 1 .. NumDirEntries /\ i \notin Used(t)
  BY <1>1 DEF Creation
<1>a. PICK u : u = Added(t, name, s, i)
  OBVIOUS
<1>b. /\ u \in TableType /\ Used(u) = Used(t) \cup {i}
      /\ u[i] = [inUse |-> TRUE, sector |-> s, name |-> name]
      /\ \A j \in 1 .. NumDirEntries : j # i => u[j] = t[j]
  BY <1>5, <1>a, AddedIs
<1>6. u = FetchDirectory(d2)
  BY <1>1, <1>3, <1>a DEF TableAfter
<1>7. k \in Used(u) /\ u[k] = t[k]
  <2>1. k \in 1 .. NumDirEntries /\ k # i
    BY <1>5 DEF Used
  <2> QED
    BY <1>b, <2>1
<1>8. f.sector # s
  BY <1>1, <1>2, <1>5, OwnedMarked
<1>9. f.sector \notin Sys
  BY <1>1, <1>2 DEF SoundTable, Used
<1>10. f.hdr = d2[f.sector].hdr
  BY <1>3, <1>8, <1>9 DEF Current
<1>11. OneName(u)
  BY <1>4, <1>6 DEF Exact, ExactOn
<1> QED
  BY <1>2, <1>3, <1>6, <1>7, <1>10, <1>11, EntryCurrent

(* Create, all in all.                                                     *)
Goes(d, d2) ==
  /\ Sound(d2)
  /\ Exact(d) => Exact(d2) /\ \A f : f.sector \in Sector /\ Current(f, d) => Current(f, d2)

LEMMA CreateIs ==
  ASSUME NEW d, Sound(d), NEW name \in EntryName, NEW size \in Nat, NEW d2,
         d2 = Apply(d, CreateWrites(d, name, size).writes)
  PROVE  Goes(d, d2)
<1>1. PICK c : c = CreateWrites(d, name, size)
  OBVIOUS
<1>2. CASE c = Refused
  <2>1. c.writes = <<>>
    BY <1>2 DEF Refused
  <2>2. d \in DiskType
    BY SoundIs
  <2>3. d2 = d
    BY <1>1, <2>1, <2>2, NoWrites
  <2> QED
    BY <2>3 DEF Goes
<1>3. CASE c # Refused
  <2>1. PICK s, h, i : /\ Creation(d, name, size, s, h, i)
                       /\ c.writes = CreateFlush(d, s, h, TableAfter(d, name, s, i), MapAfter(d, s, h))
    BY <1>1, <1>3, CreateCases
  <2>2. d2 = Apply(d, CreateFlush(d, s, h, TableAfter(d, name, s, i), MapAfter(d, s, h)))
    BY <1>1, <2>1
  <2>3. Sound(d2)
    BY <2>1, <2>2, CreateDone
  <2>4. ASSUME Exact(d) PROVE Exact(d2)
    BY <2>1, <2>2, <2>4, CreateExact
  <2>5. ASSUME Exact(d), NEW f, f.sector \in Sector, Current(f, d) PROVE Current(f, d2)
    BY <2>1, <2>2, <2>5, CreateCurrent
  <2> QED
    BY <2>3, <2>4, <2>5 DEF Goes
<1> QED
  BY <1>2, <1>3

LEMMA BootIs ==
  ASSUME NEW d, Sound(d)
  PROVE  Sound(BootDisk(d)) /\ (Exact(d) => Exact(BootDisk(d)))
<1>1. "stdin" \in EntryName /\ "stdout" \in EntryName
  BY DEF EntryName
<1>2. PICK a, b : a = Created(d, "stdin") /\ b = Created(a, "stdout")
  OBVIOUS
<1>3. Goes(d, a)
  BY <1>1, <1>2, CreateIs DEF Created
<1>4. Sound(a)
  BY <1>3 DEF Goes
<1>5. Goes(a, b)
  BY <1>1, <1>2, <1>4, CreateIs DEF Created
<1> QED
  BY <1>2, <1>3, <1>5 DEF Goes, BootDisk

(* Any part of the writes of an operation, and the start after it.         *)
LEMMA SomeSound ==
  ASSUME NEW d, Sound(d), NEW w \in Seq(WriteType), Distinct(w), SoundWrites(Writes(w)), NEW k \in 1 .. Len(w)
  PROVE  Sound(Apply(d, SubSeq(w, 1, k)))
<1>1. PICK v \in Seq(WriteType) : v = SubSeq(w, 1, k) /\ Writes(v) \subseteq Writes(w) /\ Distinct(v)
  BY SomeWrites
<1>2. d \in DiskType
  BY SoundIs
<1>3. Effect(Apply(d, v), d, Writes(v))
  BY <1>1, <1>2, ApplyEffect
<1>4. SoundWrites(Writes(v))
  BY <1>1 DEF SoundWrites
<1> QED
  BY <1>1, <1>3, <1>4, SoundKept
-----------------------------------------------------------------------------
(* Remove.                                                                 *)

(* Entry i of the directory is of file n, with its header in sector s.     *)
Removal(d, n, s, i) ==
  /\ i \in Used(FetchDirectory(d)) /\ FindIndex(FetchDirectory(d), n) = i
  /\ FetchDirectory(d)[i].name = n /\ FetchDirectory(d)[i].sector = s
  /\ s = Find(FetchDirectory(d), n) /\ s \in Sector /\ s \notin Sys /\ UserHeader(d[s].hdr)

TableLeft(d, n) == RemoveEntry(FetchDirectory(d), n)

MapLeft(d, s) == (FetchMap(d) \ Seqs!ToSet(d[s].hdr.dataSectors)) \ {s}

LEMMA RemovalExists ==
  ASSUME NEW d, Sound(d), NEW n, NEW s, s = Find(FetchDirectory(d), n), s # -1, d[s].hdr # NoHeader
  PROVE  \E i : Removal(d, n, s, i)
<1>1. PICK t \in TableType : t = FetchDirectory(d) /\ SoundTable(t)
  BY SoundIs DEF SoundTable
<1>2. PICK i : i = FindIndex(t, n)
  OBVIOUS
<1>3. i \in Used(t) /\ t[i].name = n /\ s = t[i].sector /\ s \in Sector
  BY <1>1, <1>2, FindIs
<1>4. s \notin Sys
  BY <1>1, <1>3 DEF SoundTable, Used
<1>5. s \notin {FreeMapSector, DirectorySector}
  BY <1>4, SystemIs
<1>6. UserHeader(d[s].hdr)
  BY <1>3, <1>5, SoundIs
<1> QED
  BY <1>1, <1>2, <1>3, <1>4, <1>6 DEF Removal

LEMMA RemovalIs ==
  ASSUME NEW d, Sound(d), NEW n, NEW s, NEW i, Removal(d, n, s, i)
  PROVE  /\ SoundTable(TableLeft(d, n)) /\ TableLeft(d, n) \in TableType
         /\ Used(TableLeft(d, n)) = Used(FetchDirectory(d)) \ {i}
         /\ \A j \in 1 .. NumDirEntries : j # i => TableLeft(d, n)[j] = FetchDirectory(d)[j]
         /\ \A j \in 1 .. NumDirEntries : TableLeft(d, n)[j].name = FetchDirectory(d)[j].name
         /\ MapLeft(d, s) \subseteq Sector /\ Sys \subseteq MapLeft(d, s)
<1>1. PICK t \in TableType : t = FetchDirectory(d) /\ SoundTable(t)
  BY SoundIs DEF SoundTable
<1>2. i \in Used(t) /\ FindIndex(t, n) = i
  BY <1>1 DEF Removal
<1>3. /\ RemoveEntry(t, n) \in TableType /\ Used(RemoveEntry(t, n)) = Used(t) \ {i}
      /\ \A j \in 1 .. NumDirEntries : j # i => RemoveEntry(t, n)[j] = t[j]
      /\ \A j \in 1 .. NumDirEntries : RemoveEntry(t, n)[j].name = t[j].name
      /\ SoundTable(RemoveEntry(t, n))
  BY <1>1, <1>2, RemoveEntryIs
<1>4. FetchMap(d) \subseteq Sector /\ Sys \subseteq FetchMap(d)
  BY SoundIs
<1>5. s \notin Sys /\ Seqs!ToSet(d[s].hdr.dataSectors) \cap Sys = {}
  BY DEF Removal, UserHeader
<1>6. MapLeft(d, s) \subseteq Sector /\ Sys \subseteq MapLeft(d, s)
  BY <1>4, <1>5 DEF MapLeft
<1> QED
  BY <1>1, <1>3, <1>6 DEF TableLeft

(* Its writes: the map, the directory.                                     *)
RemoveFlush(w, d, n, s) ==
  /\ w \in Seq(WriteType) /\ Distinct(w) /\ SoundWrites(Writes(w))
  /\ \E m : /\ MapWrite(m, MapLeft(d, s))
            /\ Writes(w) = {m} \cup Writes(WriteBackDirectory(d, TableLeft(d, n)))
            /\ w = <<m>> \o WriteBackDirectory(d, TableLeft(d, n))

LEMMA RemoveFlushIs ==
  ASSUME NEW d, Sound(d), NEW n, NEW s, NEW i, Removal(d, n, s, i)
  PROVE  RemoveFlush(RemoveWrites(d, n), d, n, s)
<1>1. d \in DiskType /\ d[FreeMapSector].hdr = MapHdr /\ d[DirectorySector].hdr = DirHdr
  BY SoundIs
<1>2. PICK t2 \in TableType : t2 = TableLeft(d, n) /\ SoundTable(t2)
  BY RemovalIs
<1>3. PICK map : map = MapLeft(d, s) /\ map \subseteq Sector /\ Sys \subseteq map
  BY RemovalIs
<1>4. PICK u : u = WriteBackDirectory(d, t2)
  OBVIOUS
<1>5. u \in Seq(WriteType) /\ Distinct(u) /\ \A x \in Writes(u) : DirWrite(x, t2)
  BY <1>1, <1>4, WriteBackDirectoryIs
<1>6. PICK m : WriteBackMap(d, map) = <<m>> /\ MapWrite(m, map)
  BY <1>1, <1>3, WriteBackMapIs
<1>7. m \in WriteType /\ m.sector = MapSector /\ SectorOK(m.sector, m.contents)
  BY <1>3, <1>6, MapWriteSound DEF MapWrite
<1>8. \A x \in Writes(u) : x \in WriteType /\ SectorOK(x.sector, x.contents) /\ x.sector \in DirSectors
  BY <1>2, <1>5, DirWriteSound DEF DirWrite
<1>9. RemoveWrites(d, n) = <<m>> \o u
  <2>1. s = Find(FetchDirectory(d), n)
    BY DEF Removal
  <2> QED
    BY <1>2, <1>3, <1>4, <1>6, <2>1 DEF RemoveWrites, RemoveAt, TableLeft, MapLeft
<1>10. <<m>> \in Seq(WriteType) /\ Distinct(<<m>>) /\ Writes(<<m>>) = {m}
  BY <1>7, OneWrite
<1>11. MapSector \notin DirSectors
  BY SystemIs
<1>12. /\ <<m>> \o u \in Seq(WriteType) /\ Writes(<<m>> \o u) = {m} \cup Writes(u)
       /\ Distinct(<<m>> \o u)
  <2>1. \A y \in {m}, z \in Writes(u) : y.sector # z.sector
    BY <1>7, <1>8, <1>11
  <2> QED
    BY <1>5, <1>10, <2>1, JoinWrites
<1>13. SoundWrites(Writes(<<m>> \o u))
  BY <1>7, <1>8, <1>12 DEF SoundWrites
<1> QED
  BY <1>2, <1>3, <1>4, <1>6, <1>9, <1>12, <1>13, Zenon DEF RemoveFlush

LEMMA RemoveDone ==
  ASSUME NEW d, Sound(d), NEW n, NEW s, NEW i, Removal(d, n, s, i), NEW d2, d2 = Apply(d, RemoveWrites(d, n))
  PROVE  /\ Sound(d2) /\ FetchDirectory(d2) = TableLeft(d, n) /\ FetchMap(d2) = MapLeft(d, s)
         /\ \A q \in Sector : q \notin Sys => d2[q] = d[q]
<1>1. PICK t2, map, w : t2 = TableLeft(d, n) /\ map = MapLeft(d, s) /\ w = RemoveWrites(d, n)
  OBVIOUS
<1>2. RemoveFlush(w, d, n, s)
  BY <1>1, RemoveFlushIs
<1>3. w \in Seq(WriteType) /\ Distinct(w) /\ SoundWrites(Writes(w))
  BY <1>2 DEF RemoveFlush
<1>4. PICK m : MapWrite(m, map) /\ Writes(w) = {m} \cup Writes(WriteBackDirectory(d, t2))
  BY <1>1, <1>2 DEF RemoveFlush
<1>5. d \in DiskType /\ d[DirectorySector].hdr = DirHdr
  BY SoundIs
<1>6. Effect(d2, d, Writes(w))
  BY <1>1, <1>3, <1>5, ApplyEffect
<1>7. Sound(d2)
  BY <1>3, <1>6, SoundKept
<1>8. SoundTable(t2) /\ t2 \in TableType /\ map \subseteq Sector /\ Sys \subseteq map
  BY <1>1, RemovalIs
<1>9. FetchDirectory(d2) = t2 /\ FetchMap(d2) = map
  <2>1. Writes(WriteBackDirectory(d, t2)) \subseteq Writes(w) /\ m \in Writes(w)
    BY <1>4
  <2> QED
    BY <1>4, <1>6, <1>7, <1>8, <2>1, SystemWritten
<1>10. ASSUME NEW q \in Sector, q \notin Sys PROVE d2[q] = d[q]
  <2>1. DirSectors \subseteq Sys /\ MapSector \in Sys
    BY SystemIs
  <2>2. \A x \in Writes(WriteBackDirectory(d, t2)) : x.sector \in DirSectors
    BY <1>5, <1>8, WriteBackDirectoryIs DEF DirWrite
  <2>3. m.sector = MapSector
    BY <1>4 DEF MapWrite
  <2>4. \A x \in Writes(w) : x.sector # q
    BY <1>4, <1>10, <2>1, <2>2, <2>3
  <2> QED
    BY <1>6, <2>4 DEF Effect
<1> QED
  BY <1>1, <1>7, <1>9, <1>10

LEMMA RemoveExact ==
  ASSUME NEW d, Sound(d), Exact(d), NEW n, NEW s, NEW i, Removal(d, n, s, i), NEW d2,
         d2 = Apply(d, RemoveWrites(d, n))
  PROVE  Exact(d2)
<1>1. PICK t \in TableType : t = FetchDirectory(d) /\ SoundTable(t)
  BY SoundIs DEF SoundTable
<1>2. PICK map, u : map = FetchMap(d) /\ u = TableLeft(d, n)
  OBVIOUS
<1>3. PICK H : H = Seqs!ToSet(d[s].hdr.dataSectors)
  OBVIOUS
<1>4. /\ i \in Used(t) /\ t[i].sector = s /\ s \notin Sys /\ H \cap Sys = {}
  BY <1>1, <1>3 DEF Removal, UserHeader
<1>5. FetchDirectory(d2) = u /\ \A q \in Sector : q \notin Sys => d2[q] = d[q]
  BY <1>2, RemoveDone
<1>6. FetchMap(d2) = (map \ H) \ {s}
  <2>1. FetchMap(d2) = MapLeft(d, s)
    BY RemoveDone
  <2> QED
    BY <1>2, <1>3, <2>1 DEF MapLeft
<1>7. Used(u) = Used(t) \ {i} /\ \A j \in 1 .. NumDirEntries : j # i => u[j] = t[j]
  BY <1>1, <1>2, RemovalIs
<1>8. \A j \in Used(u) : j \in Used(t) /\ j # i /\ u[j] = t[j]
  BY <1>7 DEF Used
<1>9. ExactOn(d, t, map)
  BY <1>1, <1>2 DEF Exact
<1>10. \A j \in Used(t) : d2[t[j].sector] = d[t[j].sector] /\ Owned(d2, t[j].sector) = Owned(d, t[j].sector)
  <2> SUFFICES ASSUME NEW j \in Used(t)
               PROVE  d2[t[j].sector] = d[t[j].sector] /\ Owned(d2, t[j].sector) = Owned(d, t[j].sector)
    OBVIOUS
  <2>1. j \in 1 .. NumDirEntries /\ t[j].inUse
    BY DEF Used
  <2>2. t[j].sector \in Sector /\ t[j].sector \notin Sys
    BY <1>1, <2>1, TableIs DEF SoundTable
  <2>3. d2[t[j].sector] = d[t[j].sector]
    BY <1>5, <2>2
  <2> QED
    BY <2>3 DEF Owned
<1>11. Owned(d, s) = {s} \cup H
  BY <1>3 DEF Owned
<1>12. \A j \in Used(u) : /\ d2[u[j].sector].hdr # NoHeader
                          /\ u[j].sector \notin Seqs!ToSet(d2[u[j].sector].hdr.dataSectors)
  BY <1>8, <1>9, <1>10 DEF ExactOn
<1>13. OneName(u)
  BY <1>8, <1>9 DEF ExactOn, OneName
<1>14. \A j, k \in Used(u) : j # k => Owned(d2, u[j].sector) \cap Owned(d2, u[k].sector) = {}
  BY <1>8, <1>9, <1>10 DEF ExactOn
<1>15. \A q : q \in (map \ H) \ {s} <=> q \in Sys \/ \E j \in Used(u) : q \in Owned(d2, u[j].sector)
  <2>1. \A q : q \in map <=> q \in Sys \/ \E j \in Used(t) : q \in Owned(d, t[j].sector)
    BY <1>9 DEF ExactOn
  <2>2. \A j \in Used(u) : j \in Used(t) /\ j # i /\ Owned(d2, u[j].sector) = Owned(d, t[j].sector)
    BY <1>8, <1>10
  <2>3. \A j \in Used(t) : j # i => j \in Used(u)
    BY <1>7
  <2>4. \A j \in Used(t) : j # i => Owned(d, t[j].sector) \cap Owned(d, s) = {}
    BY <1>4, <1>9 DEF ExactOn
  <2>5. ASSUME NEW q, q \in map, q \notin H, q # s
        PROVE  q \in Sys \/ \E j \in Used(u) : q \in Owned(d2, u[j].sector)
    <3>1. q \notin Owned(d, t[i].sector)
      BY <1>4, <1>11, <2>5
    <3> QED
      BY <2>1, <2>2, <2>3, <2>5, <3>1
  <2>6. ASSUME NEW q, q \in Sys \/ \E j \in Used(u) : q \in Owned(d2, u[j].sector)
        PROVE  q \in map /\ q \notin Owned(d, s)
    <3>1. CASE q \in Sys
      BY <1>4, <1>11, <2>1, <3>1
    <3>2. CASE \E j \in Used(u) : q \in Owned(d2, u[j].sector)
      BY <2>1, <2>2, <2>4, <3>2
    <3> QED
      BY <2>6, <3>1, <3>2
  <2> QED
    BY <1>11, <2>5, <2>6
<1>16. ExactOn(d2, u, (map \ H) \ {s})
  BY <1>12, <1>13, <1>14, <1>15 DEF ExactOn
<1> QED
  BY <1>5, <1>6, <1>16 DEF Exact

(* Open files other than the removed one.                                  *)
LEMMA RemoveCurrent ==
  ASSUME NEW d, Sound(d), Exact(d), NEW n, NEW s, NEW i, Removal(d, n, s, i), NEW d2,
         d2 = Apply(d, RemoveWrites(d, n)), NEW f, f.sector \in Sector, f.name # n, Current(f, d)
  PROVE  Current(f, d2)
<1>1. PICK t \in TableType : t = FetchDirectory(d) /\ SoundTable(t)
  BY SoundIs DEF SoundTable
<1>2. PICK k \in Used(t) : t[k].name = f.name /\ t[k].sector = f.sector
  BY <1>1, CurrentEntry
<1>3. k # i /\ k \in 1 .. NumDirEntries /\ f.sector \notin Sys
  BY <1>1, <1>2 DEF Removal, SoundTable, Used
<1>4. PICK u : u = FetchDirectory(d2) /\ u = TableLeft(d, n)
  BY RemoveDone
<1>5. Used(u) = Used(t) \ {i} /\ \A j \in 1 .. NumDirEntries : j # i => u[j] = t[j]
  BY <1>1, <1>4, RemovalIs
<1>6. k \in Used(u) /\ u[k] = t[k]
  BY <1>3, <1>5
<1>7. Sound(d2) /\ \A q \in Sector : q \notin Sys => d2[q] = d[q]
  BY RemoveDone
<1>8. f.hdr = d2[f.sector].hdr
  BY <1>3, <1>7 DEF Current
<1>9. OneName(u)
  <2>1. Exact(d2)
    BY RemoveExact
  <2> QED
    BY <1>4, <2>1 DEF Exact, ExactOn
<1> QED
  BY <1>2, <1>4, <1>6, <1>7, <1>8, <1>9, EntryCurrent
-----------------------------------------------------------------------------
(* Write.                                                                  *)

LEMMA SystemKept ==
  ASSUME NEW d, Sound(d), NEW d2, Sound(d2), \A q \in Sys : d2[q] = d[q]
  PROVE  FetchMap(d2) = FetchMap(d) /\ FetchDirectory(d2) = FetchDirectory(d)
<1>1. /\ d \in DiskType /\ d[FreeMapSector].hdr = MapHdr /\ d[DirectorySector].hdr = DirHdr
      /\ d2 \in DiskType /\ d2[FreeMapSector].hdr = MapHdr /\ d2[DirectorySector].hdr = DirHdr
  BY SoundIs
<1>2. MapSector \in Sys /\ DirSectors \subseteq Sys /\ Shape(DirHdr) /\ DirHdr.numBytes = DirectoryFileSize
  BY SystemIs
<1>3. FetchMap(d2) = FetchMap(d)
  <2>1. FetchMap(d2) = MapOf(d2[MapSector]) /\ FetchMap(d) = MapOf(d[MapSector])
    BY <1>1, FetchMapIs
  <2> QED
    BY <1>2, <2>1
<1>4. \A a \in Nat : a < DirectoryFileSize => At(d2, DirHdr, a) = At(d, DirHdr, a)
  <2>1. \A q \in Seqs!ToSet(DirHdr.dataSectors) : d2[q] = d[q]
    BY <1>2 DEF DirSectors
  <2> QED
    BY <1>2, <2>1, BytesKept
<1>5. \A i \in 1 .. NumDirEntries : /\ At(d2, DirHdr, 2 * i - 2) = At(d, DirHdr, 2 * i - 2)
                                    /\ At(d2, DirHdr, 2 * i - 1) = At(d, DirHdr, 2 * i - 1)
  <2> SUFFICES ASSUME NEW i \in 1 .. NumDirEntries
               PROVE  /\ At(d2, DirHdr, 2 * i - 2) = At(d, DirHdr, 2 * i - 2)
                      /\ At(d2, DirHdr, 2 * i - 1) = At(d, DirHdr, 2 * i - 1)
    OBVIOUS
  <2>1. PICK a, b \in Nat : /\ a = 2 * i - 2 /\ b = 2 * i - 1
                            /\ a < DirectoryFileSize /\ b < DirectoryFileSize
    BY EntryBytes, Zenon
  <2> QED
    BY <1>4, <2>1, Zenon
<1>6. /\ FetchDirectory(d) = [i \in 1 .. NumDirEntries |->
           [inUse |-> At(d, DirHdr, 2 * i - 2)[1], sector |-> At(d, DirHdr, 2 * i - 2)[2],
            name |-> At(d, DirHdr, 2 * i - 1)]]
      /\ FetchDirectory(d2) = [i \in 1 .. NumDirEntries |->
           [inUse |-> At(d2, DirHdr, 2 * i - 2)[1], sector |-> At(d2, DirHdr, 2 * i - 2)[2],
            name |-> At(d2, DirHdr, 2 * i - 1)]]
  BY <1>1, FetchDirectoryIs
<1>7. FetchDirectory(d2) = FetchDirectory(d)
  BY <1>5, <1>6
<1> QED
  BY <1>3, <1>7

(* Headers that stay keep what is exact and current.                       *)
LEMMA ExactKept ==
  ASSUME NEW d, Sound(d), NEW d2, Sound(d2),
         FetchMap(d2) = FetchMap(d), FetchDirectory(d2) = FetchDirectory(d),
         \A j \in Used(FetchDirectory(d)) :
           d2[FetchDirectory(d)[j].sector].hdr = d[FetchDirectory(d)[j].sector].hdr
  PROVE  Goes(d, d2)
<1>1. PICK t, map : t = FetchDirectory(d) /\ map = FetchMap(d)
  OBVIOUS
<1>2. \A j \in Used(t) : d2[t[j].sector].hdr = d[t[j].sector].hdr /\ Owned(d2, t[j].sector) = Owned(d, t[j].sector)
  BY <1>1 DEF Owned
<1>3. ASSUME Exact(d) PROVE Exact(d2)
  <2>1. ExactOn(d, t, map)
    BY <1>1, <1>3 DEF Exact
  <2>2. ExactOn(d2, t, map)
    BY <1>2, <2>1 DEF ExactOn
  <2> QED
    BY <1>1, <2>2 DEF Exact
<1>4. ASSUME NEW f, f.sector \in Sector, Current(f, d) PROVE Current(f, d2)
  <2>1. PICK k \in Used(t) : t[k].sector = f.sector
    BY <1>1, <1>4, CurrentEntry
  <2> QED
    BY <1>1, <1>2, <1>4, <2>1 DEF Current
<1> QED
  BY <1>3, <1>4 DEF Goes

LEMMA WriteDone ==
  ASSUME NEW d, Sound(d), NEW h, UserHeader(h), NEW from \in Seq(Byte), NEW p \in Nat, NEW d2,
         d2 = Apply(d, WriteAt(d, h, from, p))
  PROVE  /\ Sound(d2) /\ \A q \in Sector : q \notin Seqs!ToSet(h.dataSectors) => d2[q] = d[q]
         /\ FetchMap(d2) = FetchMap(d) /\ FetchDirectory(d2) = FetchDirectory(d)
<1>1. d \in DiskType
  BY SoundIs
<1>2. PICK w \in Seq(WriteType) : /\ w = WriteAt(d, h, from, p) /\ Distinct(w) /\ SoundWrites(Writes(w))
                                  /\ \A x \in Writes(w) : x.sector \in Seqs!ToSet(h.dataSectors)
  BY <1>1, FileWritesSound
<1>3. Effect(d2, d, Writes(w))
  BY <1>1, <1>2, ApplyEffect
<1>4. Sound(d2)
  BY <1>2, <1>3, SoundKept
<1>5. \A q \in Sector : q \notin Seqs!ToSet(h.dataSectors) => d2[q] = d[q]
  BY <1>2, <1>3 DEF Effect
<1>6. \A q \in Sys : d2[q] = d[q]
  <2>1. Sys \subseteq Sector /\ Seqs!ToSet(h.dataSectors) \cap Sys = {}
    BY SystemIs DEF UserHeader
  <2> QED
    BY <1>5, <2>1
<1> QED
  BY <1>4, <1>5, <1>6, SystemKept

(* All or a part of the sector writes of a file.                           *)
WritePart(d, e, h) ==
  /\ Sound(e) /\ FetchMap(e) = FetchMap(d) /\ FetchDirectory(e) = FetchDirectory(d)
  /\ \A q \in Sector : q \notin Seqs!ToSet(h.dataSectors) => e[q] = d[q]

(* Writing to a file that the directory holds.                             *)
LEMMA WritePartGoes ==
  ASSUME NEW d, Sound(d), Exact(d), NEW f, f.sector \in Sector, Current(f, d), NEW d2, WritePart(d, d2, f.hdr)
  PROVE  Goes(d, d2)
<1>1. PICK h, H : h = f.hdr /\ H = Seqs!ToSet(h.dataSectors)
  OBVIOUS
<1>2. /\ Sound(d2) /\ \A q \in Sector : q \notin H => d2[q] = d[q]
      /\ FetchMap(d2) = FetchMap(d) /\ FetchDirectory(d2) = FetchDirectory(d)
  BY <1>1 DEF WritePart
<1>3. PICK t \in TableType : t = FetchDirectory(d) /\ ExactOn(d, t, FetchMap(d))
  BY SoundIs DEF SoundTable, Exact
<1>4. PICK k \in Used(t) : t[k].sector = f.sector
  BY <1>3, CurrentEntry
<1>5. H = Seqs!ToSet(d[t[k].sector].hdr.dataSectors)
  BY <1>1, <1>4 DEF Current
<1>6. H \subseteq Owned(d, t[k].sector)
  BY <1>5 DEF Owned
<1>7. ASSUME NEW j \in Used(t) PROVE d2[t[j].sector].hdr = d[t[j].sector].hdr
  <2>1. t[j].sector \in Sector
    BY TableIs DEF Used
  <2>2. t[j].sector \notin H
    <3>1. CASE j = k
      BY <1>3, <1>5, <3>1 DEF ExactOn
    <3>2. CASE j # k
      <4>1. Owned(d, t[j].sector) \cap Owned(d, t[k].sector) = {}
        BY <1>3, <3>2 DEF ExactOn
      <4>2. t[j].sector \in Owned(d, t[j].sector)
        BY DEF Owned
      <4> QED
        BY <1>6, <4>1, <4>2
    <3> QED
      BY <3>1, <3>2
  <2> QED
    BY <1>2, <2>1, <2>2
<1> QED
  BY <1>2, <1>3, <1>7, ExactKept

LEMMA WriteGoes ==
  ASSUME NEW d, Sound(d), Exact(d), NEW f, f.sector \in Sector, Current(f, d), UserHeader(f.hdr),
         NEW from \in Seq(Byte), NEW p \in Nat, NEW d2, d2 = Apply(d, WriteAt(d, f.hdr, from, p))
  PROVE  Goes(d, d2)
<1>1. WritePart(d, d2, f.hdr)
  BY WriteDone DEF WritePart
<1> QED
  BY <1>1, WritePartGoes
-----------------------------------------------------------------------------
(* Format.                                                                 *)

(* The disk with the headers of the two files and nothing else.            *)
Headers ==
  Apply([s \in Sector |-> DataSector(Blank)],
        <<[sector |-> FreeMapSector, contents |-> HeaderSector(MapHdr)],
          [sector |-> DirectorySector, contents |-> HeaderSector(DirHdr)]>>)

LEMMA HeadersAre ==
  /\ Headers \in DiskType
  /\ Headers[FreeMapSector] = HeaderSector(MapHdr) /\ Headers[DirectorySector] = HeaderSector(DirHdr)
  /\ \A q \in Sector : q \notin {FreeMapSector, DirectorySector} => Headers[q] = DataSector(Blank)
  /\ HeaderSector(MapHdr) \in SectorType /\ HeaderSector(MapHdr).hdr = MapHdr
  /\ HeaderSector(DirHdr) \in SectorType /\ HeaderSector(DirHdr).hdr = DirHdr
  /\ DataSector(Blank) \in SectorType /\ DataSector(Blank).hdr = NoHeader
<1>1. PICK g, h \in HeaderType : g = MapHdr /\ h = DirHdr
  BY SystemIs DEF Shape
<1>2. /\ HeaderSector(g) \in SectorType /\ HeaderSector(g).hdr = g
      /\ HeaderSector(h) \in SectorType /\ HeaderSector(h).hdr = h
  BY SectorTypeIs
<1>3. DataSector(Blank) \in SectorType /\ DataSector(Blank).hdr = NoHeader
  <2>1. Blank \in [1 .. SectorSize -> Byte]
    BY BytesAre DEF Blank
  <2> QED
    BY <2>1, SectorTypeIs
<1>4. PICK d : d = [s \in Sector |-> DataSector(Blank)]
  OBVIOUS
<1>5. d \in DiskType /\ \A q \in Sector : d[q] = DataSector(Blank)
  BY <1>3, <1>4 DEF DiskType
<1>6. FreeMapSector \in Sector /\ DirectorySector \in Sector /\ FreeMapSector # DirectorySector
  BY SystemIs
<1>7. PICK v, w : /\ v = [sector |-> FreeMapSector, contents |-> HeaderSector(g)]
                  /\ w = [sector |-> DirectorySector, contents |-> HeaderSector(h)]
  OBVIOUS
<1>8. v \in WriteType /\ w \in WriteType
  BY <1>2, <1>6, <1>7 DEF WriteType
<1>9. /\ v.sector = FreeMapSector /\ v.contents = HeaderSector(g)
      /\ w.sector = DirectorySector /\ w.contents = HeaderSector(h)
  BY <1>7
<1>10. PICK s \in Seq(WriteType) : s = <<v, w>> /\ Len(s) = 2 /\ s[1] = v /\ s[2] = w
  <2>1. <<v, w>> \in Seq(WriteType)
    BY <1>8
  <2> QED
    BY <2>1
<1>11. \A i \in 1 .. Len(s) : i = 1 \/ i = 2
  BY <1>10
<1>12. Distinct(s) /\ Writes(s) = {v, w}
  <2>1. Distinct(s)
    BY <1>6, <1>9, <1>10, <1>11 DEF Distinct
  <2>2. 1 \in 1 .. Len(s) /\ 2 \in 1 .. Len(s)
    BY <1>10
  <2>3. Writes(s) = {v, w}
    BY <1>10, <1>11, <2>2 DEF Writes
  <2> QED
    BY <2>1, <2>3
<1>13. Effect(Apply(d, s), d, {v, w})
  BY <1>5, <1>12, ApplyEffect
<1>14. Headers = Apply(d, s)
  BY <1>1, <1>4, <1>7, <1>10 DEF Headers
<1>15. /\ Headers \in DiskType /\ Headers[FreeMapSector] = HeaderSector(g) /\ Headers[DirectorySector] = HeaderSector(h)
  BY <1>9, <1>13, <1>14 DEF Effect
<1>16. \A q \in Sector : q \notin {FreeMapSector, DirectorySector} => Headers[q] = DataSector(Blank)
  BY <1>5, <1>9, <1>13, <1>14 DEF Effect
<1> QED
  BY <1>1, <1>2, <1>3, <1>15, <1>16

LEMMA EmptyIs == Empty \in TableType /\ SoundTable(Empty) /\ Used(Empty) = {}
<1>1. 0 \in Sector /\ Junk \in EntryName
  BY SystemIs, BytesAre DEF FreeMapSector
<1>2. \A i \in 1 .. NumDirEntries : Empty[i] = [inUse |-> FALSE, sector |-> 0, name |-> Junk]
  BY DEF Empty
<1>3. [inUse |-> FALSE, sector |-> 0, name |-> Junk] \in EntryType
  BY <1>1 DEF EntryType
<1>4. Empty \in TableType
  BY <1>3 DEF Empty, TableType
<1>5. \A i \in 1 .. NumDirEntries : ~Empty[i].inUse
  BY <1>2
<1> QED
  BY <1>4, <1>5 DEF SoundTable, Used

LEMMA FormatIs == Sound(Format) /\ Exact(Format) /\ FetchDirectory(Format) = Empty
<1>1. PICK d : d = Headers
  OBVIOUS
<1>2. /\ d \in DiskType /\ d[FreeMapSector] = HeaderSector(MapHdr) /\ d[DirectorySector] = HeaderSector(DirHdr)
      /\ \A q \in Sector : q \notin {FreeMapSector, DirectorySector} => d[q] = DataSector(Blank)
      /\ HeaderSector(MapHdr) \in SectorType /\ HeaderSector(MapHdr).hdr = MapHdr
      /\ HeaderSector(DirHdr) \in SectorType /\ HeaderSector(DirHdr).hdr = DirHdr
      /\ DataSector(Blank) \in SectorType /\ DataSector(Blank).hdr = NoHeader
  BY <1>1, HeadersAre
<1>3. d[FreeMapSector].hdr = MapHdr /\ d[DirectorySector].hdr = DirHdr
  BY <1>2
<1>4. Sys \subseteq Sector /\ DirSectors \cap {FreeMapSector, DirectorySector, MapSector} = {}
      /\ MapSector \in Sector \ {FreeMapSector, DirectorySector} /\ FreeMapSector # DirectorySector
      /\ Sys = {FreeMapSector, DirectorySector, MapSector} \cup DirSectors
      /\ FreeMapSector \in Sector /\ DirectorySector \in Sector
  BY SystemIs
<1>5. PICK m : WriteBackMap(d, Sys) = <<m>> /\ MapWrite(m, Sys)
  BY <1>2, <1>3, <1>4, WriteBackMapIs
<1>6. m \in WriteType /\ m.sector = MapSector /\ SectorOK(m.sector, m.contents) /\ MapOf(m.contents) = Sys
  BY <1>4, <1>5, MapWriteSound DEF MapWrite
<1>7. PICK t \in TableType : t = Empty /\ SoundTable(t) /\ Used(t) = {}
  BY EmptyIs
<1>8. PICK u, U : u = WriteBackDirectory(d, t) /\ U = Writes(u)
  OBVIOUS
<1>9. /\ u \in Seq(WriteType) /\ Distinct(u) /\ \A x \in U : DirWrite(x, t)
      /\ \A a \in Nat : a < DirectoryFileSize => \E x \in U : x.sector = SectorAt(DirHdr, a)
  BY <1>2, <1>3, <1>8, WriteBackDirectoryIs
<1>10. \A x \in U : x \in WriteType /\ SectorOK(x.sector, x.contents) /\ x.sector \in DirSectors
  BY <1>7, <1>9, DirWriteSound DEF DirWrite
<1>11. PICK w \in Seq(WriteType) : w = <<m>> \o u /\ Distinct(w) /\ Writes(w) = {m} \cup U
  <2>1. <<m>> \in Seq(WriteType) /\ Distinct(<<m>>) /\ Writes(<<m>>) = {m}
    BY <1>6, OneWrite
  <2>2. \A x \in {m}, y \in Writes(u) : x.sector # y.sector
    BY <1>4, <1>6, <1>8, <1>10
  <2>3. <<m>> \o u \in Seq(WriteType) /\ Writes(<<m>> \o u) = {m} \cup Writes(u) /\ Distinct(<<m>> \o u)
    BY <1>9, <2>1, <2>2, JoinWrites
  <2> QED
    BY <1>8, <2>3
<1>12. PICK d2 : d2 = Apply(d, w)
  OBVIOUS
<1>13. Format = d2
  <2>1. Format = FormatWith(MapSpace, DirSpace)
    BY DEF Format, MapSpace, DirSpace
  <2>2. FormatWith(MapSpace, DirSpace) =
          Apply(Headers, WriteBackMap(Headers, DirSpace.map) \o WriteBackDirectory(Headers, Empty))
    BY DEF FormatWith, Headers, MapHdr, DirHdr
  <2>3. DirSpace.map = Sys
    BY DEF Sys
  <2> QED
    BY <1>1, <1>5, <1>7, <1>8, <1>11, <1>12, <2>1, <2>2, <2>3
<1>14. Effect(d2, d, {m} \cup U)
  BY <1>2, <1>11, <1>12, ApplyEffect
<1>15. /\ d2 \in DiskType /\ d2[MapSector] = m.contents /\ \A x \in U : d2[x.sector] = x.contents
       /\ \A q \in Sector : q # MapSector /\ (\A x \in U : x.sector # q) => d2[q] = d[q]
  BY <1>6, <1>14 DEF Effect
<1>16. ASSUME NEW q \in Sector PROVE SectorOK(q, d2[q])
  <2>1. CASE q = FreeMapSector
    <3>1. d2[q] = HeaderSector(MapHdr)
      BY <1>2, <1>4, <1>10, <1>15, <2>1
    <3>2. EntriesIn(q, d2[q])
      BY <1>4, <2>1, NoEntries
    <3> QED
      BY <1>2, <1>4, <2>1, <3>1, <3>2 DEF SectorOK
  <2>2. CASE q = DirectorySector
    <3>1. d2[q] = HeaderSector(DirHdr)
      BY <1>2, <1>4, <1>10, <1>15, <2>2
    <3>2. EntriesIn(q, d2[q])
      BY <1>4, <2>2, NoEntries
    <3> QED
      BY <1>2, <1>4, <2>2, <3>1, <3>2 DEF SectorOK
  <2>3. CASE q = MapSector
    BY <1>6, <1>15, <2>3
  <2>4. CASE \E x \in U : x.sector = q
    BY <1>10, <1>15, <2>4
  <2>5. CASE q \in DirSectors /\ \A x \in U : x.sector # q
    <3>1. d2[q] = DataSector(Blank)
      BY <1>2, <1>4, <1>15, <2>5
    <3>2. ASSUME NEW i \in 1 .. NumDirEntries
          PROVE  SectorAt(DirHdr, 2 * i - 2) # q /\ SectorAt(DirHdr, 2 * i - 1) # q
      <4>1. PICK a, b \in Nat : /\ a = 2 * i - 2 /\ b = 2 * i - 1
                                /\ a < DirectoryFileSize /\ b < DirectoryFileSize
        BY EntryBytes, Zenon
      <4>2. SectorAt(DirHdr, a) # q /\ SectorAt(DirHdr, b) # q
        BY <1>9, <2>5, <4>1
      <4> QED
        BY <4>1, <4>2, Zenon
    <3>3. EntriesIn(q, d2[q])
      BY <3>2, Zenon DEF EntriesIn
    <3>4. q \notin {FreeMapSector, DirectorySector} /\ q # FreeMapSector /\ q # DirectorySector /\ q # MapSector
      BY <1>4, <2>5
    <3> QED
      BY <1>2, <3>1, <3>3, <3>4, Zenon DEF SectorOK
  <2>6. CASE q \notin Sys
    <3>1. d2[q] = DataSector(Blank)
      BY <1>2, <1>4, <1>10, <1>15, <2>6
    <3> QED
      BY <1>2, <2>6, <3>1, UserSectorSound
  <2> QED
    BY <1>4, <2>1, <2>2, <2>3, <2>4, <2>5, <2>6
<1>17. Sound(d2)
  BY <1>15, <1>16 DEF Sound
<1>18. FetchDirectory(d2) = t /\ FetchMap(d2) = Sys
  <2>1. d2[FreeMapSector].hdr = MapHdr /\ d2[DirectorySector].hdr = DirHdr
    BY <1>17, SoundIs
  <2>2. FetchDirectory(d2) = t
    BY <1>9, <1>15, <2>1, DirectoryWritten
  <2>3. FetchMap(d2) = Sys
    BY <1>6, <1>15, <2>1, FetchMapIs
  <2> QED
    BY <2>2, <2>3
<1>19. ExactOn(d2, t, Sys)
  BY <1>7 DEF ExactOn, OneName
<1> QED
  BY <1>7, <1>13, <1>17, <1>18, <1>19 DEF Exact
-----------------------------------------------------------------------------
(* The slots of open files.                                                *)

FilesType == [Slot -> FileType \cup {Null}]

LEMMA FileIs ==
  /\ Null \notin FileType
  /\ \A f \in FileType : /\ f # Null /\ f.name \in Name \cup {"stdin", "stdout"} /\ f.sector \in Sector
                         /\ f.hdr \in HeaderType \cup {NoHeader} /\ f.seekPosition \in Nat /\ f.live \in BOOLEAN
  /\ Null.name = "null" /\ "null" \notin Name /\ "stdin" \notin Name /\ "stdout" \notin Name
<1>1. /\ Null.name = "null" /\ "null" \notin Name /\ "stdin" \notin Name /\ "stdout" \notin Name
  BY FileSystemAssumption DEF Null
<1>2. \A f \in FileType : /\ f.name \in Name \cup {"stdin", "stdout"} /\ f.sector \in Sector
                         /\ f.hdr \in HeaderType \cup {NoHeader} /\ f.seekPosition \in Nat /\ f.live \in BOOLEAN
  BY DEF FileType
<1>3. "null" \notin Name \cup {"stdin", "stdout"}
  BY <1>1
<1>4. Null \notin FileType
  BY <1>1, <1>2, <1>3
<1> QED
  BY <1>1, <1>2, <1>4

(* A file just opened.                                                     *)
Fresh(f, d, name) ==
  /\ f \in FileType /\ f.name = name /\ Current(f, d)
  /\ f.sector = Find(FetchDirectory(d), name) /\ f.hdr = d[f.sector].hdr

LEMMA FreshIs ==
  ASSUME NEW d, Sound(d), NEW name \in Name \cup {"stdin", "stdout"}, NEW q, q = Find(FetchDirectory(d), name), q # -1
  PROVE  Fresh(OpenFile(d, name, q), d, name)
<1>1. PICK t \in TableType : t = FetchDirectory(d)
  BY SoundIs DEF SoundTable
<1>2. q \in Sector
  BY <1>1, FindIs
<1>3. d \in DiskType
  BY SoundIs
<1>4. d[q] \in SectorType
  BY <1>2, <1>3 DEF DiskType
<1>5. PICK h \in HeaderType \cup {NoHeader} : h = d[q].hdr
  BY <1>4, SectorTypeIs
<1>6. PICK f : f = [name |-> name, sector |-> q, hdr |-> h, seekPosition |-> 0, live |-> TRUE]
  OBVIOUS
<1>7. f \in FileType /\ f.name = name /\ f.sector = q /\ f.hdr = h
  BY <1>2, <1>6 DEF FileType
<1>8. OpenFile(d, name, q) = f
  BY <1>5, <1>6 DEF OpenFile
<1>9. Current(f, d)
  BY <1>5, <1>7 DEF Current
<1> QED
  BY <1>5, <1>7, <1>8, <1>9 DEF Fresh

LEMMA FreeSlotIs ==
  ASSUME NEW f, FreeSlot(f) # -1
  PROVE  FreeSlot(f) \in Slot /\ f[FreeSlot(f)] = Null
<1>1. PICK S : S = {i \in 2 .. NumFiles - 1 : f[i] = Null}
  OBVIOUS
<1>2. S \subseteq Slot /\ S \subseteq Nat
  BY <1>1, FileSystemAssumption DEF Slot
<1>3. FreeSlot(f) = First(S)
  BY <1>1 DEF FreeSlot
<1>4. First(S) \in S
  BY <1>2, <1>3, FirstIs
<1> QED
  BY <1>1, <1>2, <1>3, <1>4

LEMMA OpenedIs ==
  ASSUME NEW d, Sound(d), NEW f \in FilesType, NEW name \in Name \cup {"stdin", "stdout"},
         NEW g, g = Opened(d, f, name)
  PROVE  /\ g \in FilesType
         /\ \A s \in Slot : \/ g[s] = f[s]
                            \/ /\ Fresh(g[s], d, name) /\ Find(FetchDirectory(d), name) # -1
                               /\ FreeSlot(f) # -1
<1>1. PICK q, k : q = Find(FetchDirectory(d), name) /\ k = FreeSlot(f)
  OBVIOUS
<1>2. g = OpenedAt(d, f, name, q, k)
  BY <1>1 DEF Opened
<1>3. CASE q = -1 \/ k = -1
  BY <1>2, <1>3 DEF OpenedAt
<1>4. CASE q # -1 /\ k # -1
  <2>1. g = [f EXCEPT ![k] = OpenFile(d, name, q)]
    BY <1>2, <1>4 DEF OpenedAt
  <2>2. k \in Slot
    BY <1>1, <1>4, FreeSlotIs
  <2>3. Fresh(OpenFile(d, name, q), d, name)
    BY <1>1, <1>4, FreshIs
  <2>4. OpenFile(d, name, q) \in FileType
    BY <2>3 DEF Fresh
  <2>5. g \in FilesType
    BY <2>1, <2>2, <2>4 DEF FilesType
  <2>6. g[k] = OpenFile(d, name, q) /\ \A s \in Slot : s # k => g[s] = f[s]
    BY <2>1, <2>2 DEF FilesType
  <2> QED
    BY <1>1, <1>4, <2>3, <2>5, <2>6
<1> QED
  BY <1>3, <1>4

(* Slots that hold nothing but the console.                                *)
ConsoleOnly(f, d) ==
  \A s \in Slot : f[s] = Null \/ Fresh(f[s], d, "stdin") \/ Fresh(f[s], d, "stdout")

LEMMA ConsoleIs ==
  ASSUME NEW d, Sound(d)
  PROVE  OpenConsole(d) \in FilesType /\ ConsoleOnly(OpenConsole(d), d)
<1>1. 0 \in Slot /\ 1 \in Slot /\ 2 \in Slot /\ 3 \in Slot
  BY FileSystemAssumption DEF Slot
<1>2. PICK a : a = [s \in Slot |-> Null]
  OBVIOUS
<1>3. a \in FilesType /\ ConsoleOnly(a, d)
  BY <1>2 DEF FilesType, ConsoleOnly
<1>4. PICK b : b = Opened(d, a, "stdin")
  OBVIOUS
<1>5. b \in FilesType /\ ConsoleOnly(b, d)
  BY <1>3, <1>4, OpenedIs DEF ConsoleOnly
<1>6. PICK c : c = [b EXCEPT ![0] = b[2]]
  OBVIOUS
<1>7. c \in FilesType /\ ConsoleOnly(c, d)
  BY <1>1, <1>5, <1>6 DEF FilesType, ConsoleOnly
<1>8. PICK e : e = Opened(d, c, "stdout")
  OBVIOUS
<1>9. e \in FilesType /\ ConsoleOnly(e, d)
  BY <1>7, <1>8, OpenedIs DEF ConsoleOnly
<1>10. PICK f : f = [e EXCEPT ![1] = e[3]]
  OBVIOUS
<1>11. f \in FilesType /\ ConsoleOnly(f, d)
  BY <1>1, <1>9, <1>10 DEF FilesType, ConsoleOnly
<1>12. OpenConsole(d) = f
  BY <1>2, <1>4, <1>6, <1>8, <1>10 DEF OpenConsole
<1> QED
  BY <1>11, <1>12
-----------------------------------------------------------------------------
(* The inductive invariant.                                                *)

Ready(f) == \A s \in Slot : f[s] \in FileType /\ f[s].name \in Name => UserHeader(f[s].hdr)

AllCurrent(f, d) == \A s \in Slot : f[s] \in FileType /\ f[s].live => Current(f[s], d)

StateOK(d, fs, f, fail, int) ==
  /\ Sound(d) /\ fs = FilesOn(d) /\ f \in FilesType
  /\ fail \in {"no", "assert", "garbage"} /\ int \in BOOLEAN
  /\ fail = "no" => Ready(f)
  /\ int => Exact(d) /\ fail = "no" /\ AllCurrent(f, d)

IInv == StateOK(disk, files, file, failed, intact)

(* A start of Nachos.                                                      *)
LEMMA StartOK ==
  ASSUME NEW d, Sound(d), NEW int \in BOOLEAN, int => Exact(d)
  PROVE  StateOK(d, FilesOn(d), OpenConsole(d), "no", int)
<1>1. PICK f \in FilesType : f = OpenConsole(d) /\ ConsoleOnly(f, d)
  BY ConsoleIs
<1>2. \A s \in Slot : f[s] \in FileType => /\ f[s].name = "stdin" \/ f[s].name = "stdout"
                                           /\ Current(f[s], d)
  BY <1>1, FileIs DEF ConsoleOnly, Fresh
<1>3. Ready(f)
  BY <1>2, FileIs DEF Ready
<1>4. AllCurrent(f, d)
  BY <1>2 DEF AllCurrent
<1> QED
  BY <1>1, <1>3, <1>4 DEF StateOK

LEMMA InitOK == Init => IInv
<1> SUFFICES ASSUME Init PROVE IInv
  OBVIOUS
<1>1. Sound(Format) /\ Exact(Format)
  BY FormatIs
<1>2. PICK d : d = BootDisk(Format) /\ Sound(d) /\ Exact(d)
  BY <1>1, BootIs
<1>3. disk = d /\ files = FilesOn(d) /\ file = OpenConsole(d) /\ failed = "no" /\ intact = TRUE
  BY <1>2 DEF Init
<1>4. StateOK(d, FilesOn(d), OpenConsole(d), "no", TRUE)
  BY <1>2, StartOK
<1> QED
  BY <1>3, <1>4 DEF IInv

(* The disk goes on, and the slots stay.                                   *)
LEMMA GoesOK ==
  ASSUME NEW d, NEW fs, NEW f, NEW int, StateOK(d, fs, f, "no", int), NEW d2, Goes(d, d2)
  PROVE  StateOK(d2, FilesOn(d2), f, "no", int)
<1>1. Sound(d2) /\ f \in FilesType /\ int \in BOOLEAN /\ Ready(f)
  BY DEF StateOK, Goes
<1>2. ASSUME int PROVE Exact(d2) /\ AllCurrent(f, d2)
  <2>1. Exact(d) /\ AllCurrent(f, d)
    BY <1>2 DEF StateOK
  <2>2. \A s \in Slot : f[s] \in FileType => f[s].sector \in Sector
    BY FileIs
  <2> QED
    BY <2>1, <2>2 DEF Goes, AllCurrent
<1> QED
  BY <1>1, <1>2 DEF StateOK

LEMMA SizesAre ==
  /\ \A size \in Size : size \in Nat
  /\ \A p \in Position : p \in Nat
  /\ \A n \in Name : n \in EntryName
  /\ \A data \in Data : data \in Seq(Byte)
BY FileSystemAssumption, BytesAre DEF EntryName

LEMMA CreateOK ==
  ASSUME IInv, NEW n \in Name, NEW size \in Size, Create(n, size)
  PROVE  IInv'
<1>1. PICK d2 : d2 = Apply(disk, CreateWrites(disk, n, size).writes)
  OBVIOUS
<1>2. /\ disk' = d2 /\ files' = FilesOn(d2) /\ failed = "no"
      /\ file' = file /\ failed' = failed /\ intact' = intact
  BY <1>1 DEF Create, More, Stored
<1>3. StateOK(disk, files, file, "no", intact)
  BY <1>2 DEF IInv
<1>4. Sound(disk)
  BY <1>3 DEF StateOK
<1>5. Goes(disk, d2)
  BY <1>1, <1>4, SizesAre, CreateIs
<1>6. StateOK(d2, FilesOn(d2), file, "no", intact)
  BY <1>3, <1>5, GoesOK
<1> QED
  BY <1>2, <1>6 DEF IInv

(* What Remove finds when nothing was interrupted.                         *)
LEMMA FoundOK ==
  ASSUME NEW d, Sound(d), Exact(d), NEW n, NEW q, q = Find(FetchDirectory(d), n), q # -1
  PROVE  d[q].hdr # NoHeader /\ Deallocatable(d[q].hdr, FetchMap(d))
<1>1. PICK t \in TableType : t = FetchDirectory(d)
  BY SoundIs DEF SoundTable
<1>2. PICK i \in Used(t) : t[i].sector = q
  BY <1>1, FindIs
<1>3. Owned(d, q) \subseteq FetchMap(d) /\ d[q].hdr # NoHeader
  BY <1>1, <1>2, OwnedMarked
<1> QED
  BY <1>3 DEF Owned, Deallocatable

(* The open files after Remove.                                            *)
Removed(f, n) == [s \in Slot |-> IF f[s].name = n THEN [f[s] EXCEPT !.live = FALSE] ELSE f[s]]

LEMMA RemovedIs ==
  ASSUME NEW f \in FilesType, NEW n \in Name, NEW g, g = Removed(f, n)
  PROVE  /\ g \in FilesType
         /\ \A s \in Slot : /\ g[s] \in FileType => /\ f[s] \in FileType /\ g[s].name = f[s].name
                                                    /\ g[s].hdr = f[s].hdr
                            /\ g[s] \in FileType /\ g[s].live => g[s] = f[s] /\ f[s].name # n
<1>1. ASSUME NEW s \in Slot
      PROVE  /\ g[s] \in FileType \cup {Null}
             /\ g[s] \in FileType => f[s] \in FileType /\ g[s].name = f[s].name /\ g[s].hdr = f[s].hdr
             /\ g[s] \in FileType /\ g[s].live => g[s] = f[s] /\ f[s].name # n
  <2>1. g[s] = IF f[s].name = n THEN [f[s] EXCEPT !.live = FALSE] ELSE f[s]
    BY DEF Removed
  <2>2. f[s] \in FileType \cup {Null}
    BY DEF FilesType
  <2>3. CASE f[s].name = n
    <3>1. f[s] \in FileType
      BY <2>2, <2>3, FileIs
    <3>2. g[s] = [f[s] EXCEPT !.live = FALSE]
      BY <2>1, <2>3
    <3>3. g[s] \in FileType /\ g[s].name = f[s].name /\ g[s].hdr = f[s].hdr /\ g[s].live = FALSE
      BY <3>1, <3>2 DEF FileType
    <3> QED
      BY <3>1, <3>3
  <2>4. CASE f[s].name # n
    BY <2>1, <2>2, <2>4, FileIs
  <2> QED
    BY <2>3, <2>4
<1>2. g = [s \in Slot |-> g[s]]
  BY DEF Removed
<1> QED
  BY <1>1, <1>2 DEF FilesType

LEMMA RemoveOK ==
  ASSUME IInv, NEW n \in Name, Remove(n)
  PROVE  IInv'
<1>1. PICK q, h : q = Find(FetchDirectory(disk), n) /\ h = HeaderAt(q)
  OBVIOUS
<1>2. failed = "no" /\ intact' = intact /\ RemoveFound(n, q, h)
  BY <1>1 DEF Remove, More, Where
<1>3. Sound(disk) /\ files = FilesOn(disk) /\ file \in FilesType /\ intact \in BOOLEAN /\ Ready(file)
      /\ (intact => Exact(disk) /\ AllCurrent(file, disk))
  BY <1>2 DEF IInv, StateOK
<1>4. q # -1 => h = disk[q].hdr
  BY <1>1 DEF HeaderAt
<1>5. failed' = IF q = -1 THEN "no" ELSE IF h = NoHeader THEN "garbage"
                ELSE IF Deallocatable(h, FetchMap(disk)) THEN "no" ELSE "assert"
  BY <1>2 DEF RemoveFound
<1>6. event'.ok <=> (q # -1 /\ failed' = "no")
  BY <1>2 DEF RemoveFound
<1>7. CASE q # -1 /\ failed' = "no"
  <2>1. event'.ok
    BY <1>6, <1>7
  <2>2. PICK d2 : d2 = Apply(disk, RemoveWrites(disk, n)) /\ disk' = d2 /\ files' = FilesOn(d2)
    BY <1>2, <2>1 DEF RemoveFound, Stored
  <2>3. PICK g : g = Removed(file, n) /\ file' = g
    BY <1>2, <2>1 DEF RemoveFound, Removed
  <2>4. disk[q].hdr # NoHeader
    BY <1>4, <1>5, <1>7
  <2>5. PICK i : Removal(disk, n, q, i)
    BY <1>1, <1>3, <1>7, <2>4, RemovalExists
  <2>6. Sound(d2)
    BY <1>3, <2>2, <2>5, RemoveDone
  <2>7. /\ g \in FilesType
        /\ \A s \in Slot : /\ g[s] \in FileType => /\ file[s] \in FileType /\ g[s].name = file[s].name
                                                   /\ g[s].hdr = file[s].hdr
                           /\ g[s] \in FileType /\ g[s].live => g[s] = file[s] /\ file[s].name # n
    BY <1>3, <2>3, RemovedIs
  <2>8. Ready(g)
    BY <1>3, <2>7 DEF Ready
  <2>9. ASSUME intact PROVE Exact(d2) /\ AllCurrent(g, d2)
    <3>1. Exact(disk) /\ AllCurrent(file, disk)
      BY <1>3, <2>9
    <3>2. Exact(d2)
      BY <1>3, <2>2, <2>5, <3>1, RemoveExact
    <3>3. ASSUME NEW s \in Slot, g[s] \in FileType, g[s].live PROVE Current(g[s], d2)
      <4>1. g[s] = file[s] /\ file[s].name # n /\ file[s] \in FileType /\ file[s].live
        BY <2>7, <3>3
      <4>2. Current(file[s], disk) /\ file[s].sector \in Sector
        BY <3>1, <4>1, FileIs DEF AllCurrent
      <4>3. Current(file[s], d2)
        BY <1>3, <2>2, <2>5, <3>1, <4>1, <4>2, RemoveCurrent
      <4> QED
        BY <4>1, <4>3
    <3> QED
      BY <3>2, <3>3 DEF AllCurrent
  <2>10. StateOK(d2, FilesOn(d2), g, "no", intact)
    BY <1>3, <2>6, <2>7, <2>8, <2>9 DEF StateOK
  <2> QED
    BY <1>2, <1>7, <2>2, <2>3, <2>10 DEF IInv
<1>8. CASE ~(q # -1 /\ failed' = "no")
  <2>1. disk' = disk /\ files' = files /\ file' = file
    BY <1>2, <1>6, <1>8 DEF RemoveFound
  <2>2. failed' \in {"no", "assert", "garbage"}
    BY <1>5
  <2>3. intact => failed' = "no"
    <3>1. ASSUME intact, q # -1 PROVE h # NoHeader /\ Deallocatable(h, FetchMap(disk))
      BY <1>1, <1>3, <1>4, <3>1, FoundOK
    <3> QED
      BY <1>5, <3>1
  <2>4. StateOK(disk, files, file, failed', intact)
    BY <1>3, <2>2, <2>3 DEF StateOK
  <2> QED
    BY <1>2, <2>1, <2>4 DEF IInv
<1> QED
  BY <1>7, <1>8

LEMMA OpenOK ==
  ASSUME IInv, NEW n \in Name, Open(n)
  PROVE  IInv'
<1>1. /\ failed = "no" /\ file' = Opened(disk, file, n)
      /\ disk' = disk /\ files' = files /\ intact' = intact
  BY DEF Open
<1>2. Sound(disk) /\ files = FilesOn(disk) /\ file \in FilesType /\ intact \in BOOLEAN /\ Ready(file)
      /\ (intact => Exact(disk) /\ AllCurrent(file, disk))
  BY <1>1 DEF IInv, StateOK
<1>3. PICK q, g : q = Find(FetchDirectory(disk), n) /\ g = file'
  OBVIOUS
<1>4. event'.slot = IF q = -1 THEN -1 ELSE FreeSlot(file)
  BY <1>3 DEF Open, Where
<1>5. failed' = IF event'.slot # -1 /\ HeaderAt(q) = NoHeader THEN "garbage" ELSE "no"
  BY <1>3 DEF Open, Where
<1>6. /\ g \in FilesType
      /\ \A s \in Slot : \/ g[s] = file[s]
                         \/ Fresh(g[s], disk, n) /\ q # -1 /\ FreeSlot(file) # -1
  <2>1. n \in Name \cup {"stdin", "stdout"}
    OBVIOUS
  <2> QED
    BY <1>1, <1>2, <1>3, <2>1, OpenedIs
<1>7. failed' \in {"no", "assert", "garbage"}
  BY <1>5
<1>8. ASSUME intact PROVE failed' = "no" /\ AllCurrent(g, disk)
  <2>1. Exact(disk) /\ AllCurrent(file, disk)
    BY <1>2, <1>8
  <2>2. q # -1 => disk[q].hdr # NoHeader
    BY <1>2, <1>3, <2>1, FoundOK
  <2>3. failed' = "no"
    BY <1>4, <1>5, <2>2 DEF HeaderAt
  <2>4. AllCurrent(g, disk)
    BY <1>6, <2>1 DEF AllCurrent, Fresh
  <2> QED
    BY <2>3, <2>4
<1>9. ASSUME failed' = "no" PROVE Ready(g)
  <2>1. ASSUME NEW s \in Slot, g[s] \in FileType, g[s].name \in Name PROVE UserHeader(g[s].hdr)
    <3>1. CASE g[s] = file[s]
      BY <1>2, <2>1, <3>1 DEF Ready
    <3>2. CASE Fresh(g[s], disk, n) /\ q # -1 /\ FreeSlot(file) # -1
      <4>1. HeaderAt(q) # NoHeader
        BY <1>4, <1>5, <1>9, <3>2
      <4>2. disk[q].hdr # NoHeader
        BY <3>2, <4>1 DEF HeaderAt
      <4>3. PICK i : Removal(disk, n, q, i)
        BY <1>2, <1>3, <3>2, <4>2, RemovalExists
      <4>4. UserHeader(disk[q].hdr)
        BY <4>3 DEF Removal
      <4> QED
        BY <1>3, <3>2, <4>4 DEF Fresh
    <3> QED
      BY <1>6, <3>1, <3>2
  <2> QED
    BY <2>1 DEF Ready
<1>10. StateOK(disk, files, g, failed', intact)
  BY <1>2, <1>6, <1>7, <1>8, <1>9 DEF StateOK
<1> QED
  BY <1>1, <1>3, <1>10 DEF IInv

(* A slot that is emptied, or whose position changes.                      *)
LEMMA SlotOK ==
  ASSUME NEW d, NEW fs, NEW f, NEW int, StateOK(d, fs, f, "no", int), NEW s \in Slot, NEW g \in FilesType,
         \A k \in Slot : k # s => g[k] = f[k],
         g[s] = Null \/ /\ f[s] \in FileType /\ g[s].name = f[s].name /\ g[s].sector = f[s].sector
                        /\ g[s].hdr = f[s].hdr /\ g[s].live = f[s].live
  PROVE  StateOK(d, fs, g, "no", int)
<1>1. Ready(g)
  <2>1. Ready(f)
    BY DEF StateOK
  <2> QED
    BY <2>1, FileIs DEF Ready
<1>2. ASSUME int PROVE AllCurrent(g, d)
  <2>1. AllCurrent(f, d)
    BY <1>2 DEF StateOK
  <2>2. ASSUME NEW k \in Slot, g[k] \in FileType, g[k].live PROVE Current(g[k], d)
    <3>1. CASE k # s
      BY <2>1, <2>2, <3>1 DEF AllCurrent
    <3>2. CASE k = s
      <4>1. /\ f[s] \in FileType /\ g[s].name = f[s].name /\ g[s].sector = f[s].sector
            /\ g[s].hdr = f[s].hdr /\ f[s].live
        BY <2>2, <3>2, FileIs
      <4>2. Current(f[s], d)
        BY <2>1, <4>1 DEF AllCurrent
      <4> QED
        BY <3>2, <4>1, <4>2 DEF Current
    <3> QED
      BY <3>1, <3>2
  <2> QED
    BY <2>2 DEF AllCurrent
<1> QED
  BY <1>1, <1>2 DEF StateOK

LEMMA UserSlotIs ==
  ASSUME IInv, failed = "no", NEW s \in Slot, s \in UserSlot
  PROVE  file[s] \in FileType /\ file[s].name \in Name /\ UserHeader(file[s].hdr) /\ Shape(file[s].hdr)
<1>1. file \in FilesType /\ Ready(file)
  BY DEF IInv, StateOK
<1>2. file[s] \in FileType /\ file[s].name \in Name
  BY <1>1 DEF UserSlot, FilesType
<1>3. UserHeader(file[s].hdr)
  BY <1>1, <1>2 DEF Ready
<1> QED
  BY <1>2, <1>3 DEF UserHeader

LEMMA CloseOK ==
  ASSUME IInv, NEW s \in Slot, Close(s)
  PROVE  IInv'
<1>1. /\ failed = "no" /\ file' = [file EXCEPT ![s] = Null]
      /\ disk' = disk /\ files' = files /\ failed' = failed /\ intact' = intact
  BY DEF Close
<1>2. StateOK(disk, files, file, "no", intact) /\ file \in FilesType
  BY <1>1 DEF IInv, StateOK
<1>3. PICK g : g = [file EXCEPT ![s] = Null]
  OBVIOUS
<1>4. g \in FilesType /\ g[s] = Null /\ \A k \in Slot : k # s => g[k] = file[k]
  BY <1>2, <1>3 DEF FilesType
<1>5. StateOK(disk, files, g, "no", intact)
  BY <1>2, <1>4, SlotOK
<1> QED
  BY <1>1, <1>3, <1>5 DEF IInv

(* The position of an open file.                                           *)
LEMMA MovedOK ==
  ASSUME NEW d, NEW fs, NEW f, NEW int, StateOK(d, fs, f, "no", int), NEW s \in Slot, f[s] \in FileType,
         NEW p \in Nat, NEW g, g = [f EXCEPT ![s].seekPosition = p]
  PROVE  StateOK(d, fs, g, "no", int)
<1>1. f \in FilesType
  BY DEF StateOK
<1>2. PICK e : e = [f[s] EXCEPT !.seekPosition = p]
  OBVIOUS
<1>3. /\ e \in FileType /\ e.name = f[s].name /\ e.sector = f[s].sector /\ e.hdr = f[s].hdr /\ e.live = f[s].live
  BY <1>2 DEF FileType
<1>4. g = [f EXCEPT ![s] = e]
  BY <1>2
<1>5. g \in FilesType /\ g[s] = e /\ \A k \in Slot : k # s => g[k] = f[k]
  BY <1>1, <1>3, <1>4 DEF FilesType
<1> QED
  BY <1>3, <1>5, SlotOK

LEMMA SeekOK ==
  ASSUME IInv, NEW s \in Slot, NEW p \in Position, Seek(s, p)
  PROVE  IInv'
<1>1. /\ failed = "no" /\ s \in UserSlot /\ file' = [file EXCEPT ![s].seekPosition = p]
      /\ disk' = disk /\ files' = files /\ failed' = failed /\ intact' = intact
  BY DEF Seek
<1>2. StateOK(disk, files, file, "no", intact)
  BY <1>1 DEF IInv
<1>3. file[s] \in FileType /\ p \in Nat
  BY <1>1, UserSlotIs, SizesAre
<1>4. PICK g : g = [file EXCEPT ![s].seekPosition = p]
  OBVIOUS
<1>5. StateOK(disk, files, g, "no", intact)
  BY <1>2, <1>3, <1>4, MovedOK
<1> QED
  BY <1>1, <1>4, <1>5 DEF IInv

LEMMA ReadOK ==
  ASSUME IInv, NEW s \in Slot, Read(s, SectorSize)
  PROVE  IInv'
<1>1. PICK got : got = ReadAt(disk, file[s].hdr, SectorSize, file[s].seekPosition)
  OBVIOUS
<1>2. /\ failed = "no" /\ s \in UserSlot
      /\ file' = [file EXCEPT ![s].seekPosition = @ + Len(got)]
      /\ disk' = disk /\ files' = files /\ failed' = failed /\ intact' = intact
  BY <1>1 DEF Read
<1>3. StateOK(disk, files, file, "no", intact) /\ disk \in DiskType
  BY <1>2, SoundIs DEF IInv, StateOK
<1>4. file[s] \in FileType /\ Shape(file[s].hdr) /\ file[s].seekPosition \in Nat
  BY <1>2, UserSlotIs, FileIs
<1>5. SectorSize \in Nat
  BY FileSystemAssumption
<1>6. PICK m \in Nat : Len(got) = m
  <2>1. PICK m \in Nat : Got(got, disk, file[s].hdr, file[s].seekPosition, m)
    BY <1>1, <1>3, <1>4, <1>5, ReadAtIs
  <2> QED
    BY <2>1 DEF Got
<1>7. PICK p \in Nat : p = file[s].seekPosition + m
  BY <1>4
<1>8. PICK g : g = [file EXCEPT ![s].seekPosition = p]
  OBVIOUS
<1>9. StateOK(disk, files, g, "no", intact)
  BY <1>3, <1>4, <1>8, MovedOK
<1>10. file' = g
  BY <1>2, <1>6, <1>7, <1>8
<1> QED
  BY <1>2, <1>9, <1>10 DEF IInv

LEMMA WriteOK ==
  ASSUME IInv, NEW s \in Slot, NEW data \in Data, Write(s, data)
  PROVE  IInv'
<1>1. PICK f : f = file[s]
  OBVIOUS
<1>2. PICK n, d2 : /\ n = Count(f.hdr, data, f.seekPosition)
                   /\ d2 = Apply(disk, WriteAt(disk, f.hdr, data, f.seekPosition))
  OBVIOUS
<1>3. /\ failed = "no" /\ s \in UserSlot /\ disk' = d2 /\ files' = FilesOn(d2)
      /\ file' = [file EXCEPT ![s].seekPosition = @ + n]
      /\ intact' = (intact /\ f.live) /\ failed' = failed
  BY <1>1, <1>2 DEF Write, More, Stored
<1>4. /\ Sound(disk) /\ file \in FilesType /\ intact \in BOOLEAN /\ Ready(file)
      /\ (intact => Exact(disk) /\ AllCurrent(file, disk))
  BY <1>3 DEF IInv, StateOK
<1>5. f \in FileType /\ UserHeader(f.hdr) /\ Shape(f.hdr) /\ f.seekPosition \in Nat /\ f.live \in BOOLEAN
      /\ f.sector \in Sector
  BY <1>1, <1>3, UserSlotIs, FileIs
<1>6. data \in Seq(Byte)
  BY SizesAre
<1>7. Sound(d2)
  BY <1>2, <1>4, <1>5, <1>6, WriteDone
<1>8. ASSUME intact, f.live PROVE Exact(d2) /\ AllCurrent(file, d2)
  <2>1. Exact(disk) /\ AllCurrent(file, disk)
    BY <1>4, <1>8
  <2>2. Current(f, disk)
    BY <1>1, <1>5, <1>8, <2>1 DEF AllCurrent
  <2>3. Goes(disk, d2)
    BY <1>2, <1>4, <1>5, <1>6, <2>1, <2>2, WriteGoes
  <2>4. \A k \in Slot : file[k] \in FileType => file[k].sector \in Sector
    BY FileIs
  <2> QED
    BY <2>1, <2>3, <2>4 DEF Goes, AllCurrent
<1>9. StateOK(d2, FilesOn(d2), file, "no", intact')
  BY <1>3, <1>4, <1>5, <1>7, <1>8 DEF StateOK
<1>10. n \in Nat
  BY <1>2, <1>5, <1>6, CountIs
<1>11. PICK p \in Nat : p = f.seekPosition + n
  BY <1>5, <1>10
<1>12. PICK g : g = [file EXCEPT ![s].seekPosition = p]
  OBVIOUS
<1>13. StateOK(d2, FilesOn(d2), g, "no", intact')
  BY <1>1, <1>5, <1>9, <1>12, MovedOK
<1>14. file' = g
  BY <1>1, <1>3, <1>11, <1>12
<1> QED
  BY <1>3, <1>13, <1>14 DEF IInv

(* Nachos starts on a disk that an operation has left.                     *)
LEMMA RestartOnOK ==
  ASSUME IInv, NEW d, Sound(d), NEW interrupted \in BOOLEAN, ~interrupted => d = disk, NEW n,
         RestartOn(BootDisk(d), interrupted, n)
  PROVE  IInv'
<1>1. PICK b : b = BootDisk(d)
  OBVIOUS
<1>2. /\ failed = "no" /\ disk' = b /\ files' = FilesOn(b) /\ file' = OpenConsole(b)
      /\ intact' = (intact /\ ~interrupted) /\ failed' = failed
  BY <1>1 DEF RestartOn, Stored
<1>3. intact \in BOOLEAN /\ (intact => Exact(disk))
  BY DEF IInv, StateOK
<1>4. Sound(b) /\ (Exact(d) => Exact(b))
  BY <1>1, BootIs
<1>5. intact' \in BOOLEAN /\ (intact' => Exact(b))
  BY <1>2, <1>3, <1>4
<1>6. StateOK(b, FilesOn(b), OpenConsole(b), "no", intact')
  BY <1>4, <1>5, StartOK
<1> QED
  BY <1>2, <1>6 DEF IInv

LEMMA RestartOK ==
  ASSUME IInv, Restart
  PROVE  IInv'
<1>1. RestartOn(BootDisk(disk), FALSE, "none") /\ Sound(disk)
  BY DEF Restart, IInv, StateOK
<1> QED
  BY <1>1, RestartOnOK

LEMMA InterruptedOK ==
  ASSUME IInv, NEW w \in Seq(WriteType), Distinct(w), SoundWrites(Writes(w)), NEW n, Interrupted(w, n)
  PROVE  IInv'
<1>1. PICK k \in 1 .. Len(w) - 1 : RestartOn(BootDisk(Apply(disk, SubSeq(w, 1, k))), TRUE, n)
  BY DEF Interrupted
<1>2. k \in 1 .. Len(w)
  <2>1. Len(w) \in Nat
    OBVIOUS
  <2> QED
    BY <2>1
<1>3. Sound(disk)
  BY DEF IInv, StateOK
<1>4. Sound(Apply(disk, SubSeq(w, 1, k)))
  BY <1>2, <1>3, SomeSound
<1> QED
  BY <1>1, <1>4, RestartOnOK

LEMMA CrashInCreateOK ==
  ASSUME IInv, NEW n \in Name, NEW size \in Size, CrashInCreate(n, size)
  PROVE  IInv'
<1>1. Sound(disk) /\ n \in EntryName /\ size \in Nat
  BY SizesAre DEF IInv, StateOK
<1>2. PICK w : w = CreateWrites(disk, n, size).writes
  OBVIOUS
<1>3. w \in Seq(WriteType) /\ Distinct(w) /\ SoundWrites(Writes(w))
  BY <1>1, <1>2, CreateWritesSound
<1>4. Interrupted(w, n)
  BY <1>2 DEF CrashInCreate
<1> QED
  BY <1>3, <1>4, InterruptedOK

LEMMA CrashInRemoveOK ==
  ASSUME IInv, NEW n \in Name, CrashInRemove(n)
  PROVE  IInv'
<1>1. Sound(disk)
  BY DEF IInv, StateOK
<1>2. PICK q : q = Find(FetchDirectory(disk), n)
  OBVIOUS
<1>3. HeaderAt(q) # NoHeader
  BY <1>2 DEF CrashInRemove, Where
<1>4. q # -1 /\ disk[q].hdr # NoHeader
  BY <1>3 DEF HeaderAt
<1>5. PICK i : Removal(disk, n, q, i)
  BY <1>1, <1>2, <1>4, RemovalExists
<1>6. PICK w : w = RemoveWrites(disk, n)
  OBVIOUS
<1>7. w \in Seq(WriteType) /\ Distinct(w) /\ SoundWrites(Writes(w))
  BY <1>1, <1>5, <1>6, RemoveFlushIs DEF RemoveFlush
<1>8. Interrupted(w, n)
  BY <1>6 DEF CrashInRemove
<1> QED
  BY <1>7, <1>8, InterruptedOK

LEMMA CrashInWriteOK ==
  ASSUME IInv, NEW s \in Slot, NEW data \in Data, CrashInWrite(s, data)
  PROVE  IInv'
<1>1. PICK f : f = file[s]
  OBVIOUS
<1>2. PICK w : w = WriteAt(disk, f.hdr, data, f.seekPosition)
  OBVIOUS
<1>3. s \in UserSlot /\ failed = "no" /\ Interrupted(w, f.name)
  BY <1>1, <1>2 DEF CrashInWrite, Interrupted, More
<1>4. disk \in DiskType /\ data \in Seq(Byte)
  BY SoundIs, SizesAre DEF IInv, StateOK
<1>5. UserHeader(f.hdr) /\ f.seekPosition \in Nat
  BY <1>1, <1>3, UserSlotIs, FileIs
<1>6. w \in Seq(WriteType) /\ Distinct(w) /\ SoundWrites(Writes(w))
  BY <1>2, <1>4, <1>5, FileWritesSound
<1> QED
  BY <1>3, <1>6, InterruptedOK

LEMMA NextOK == IInv /\ [Next]_vars => IInv'
<1> SUFFICES ASSUME IInv, [Next]_vars PROVE IInv'
  OBVIOUS
<1>1. CASE UNCHANGED vars
  BY <1>1 DEF vars, IInv
<1>2. ASSUME NEW n \in Name, NEW size \in Size, Create(n, size) PROVE IInv'
  BY <1>2, CreateOK
<1>3. ASSUME NEW n \in Name, NEW size \in Size, CrashInCreate(n, size) PROVE IInv'
  BY <1>3, CrashInCreateOK
<1>4. ASSUME NEW n \in Name, Remove(n) PROVE IInv'
  BY <1>4, RemoveOK
<1>5. ASSUME NEW n \in Name, CrashInRemove(n) PROVE IInv'
  BY <1>5, CrashInRemoveOK
<1>6. ASSUME NEW n \in Name, Open(n) PROVE IInv'
  BY <1>6, OpenOK
<1>7. ASSUME NEW s \in Slot, Close(s) PROVE IInv'
  BY <1>7, CloseOK
<1>8. ASSUME NEW s \in Slot, NEW p \in Position, Seek(s, p) PROVE IInv'
  BY <1>8, SeekOK
<1>9. ASSUME NEW s \in Slot, Read(s, SectorSize) PROVE IInv'
  BY <1>9, ReadOK
<1>10. ASSUME NEW s \in Slot, NEW data \in Data, Write(s, data) PROVE IInv'
  BY <1>10, WriteOK
<1>11. ASSUME NEW s \in Slot, NEW data \in Data, CrashInWrite(s, data) PROVE IInv'
  BY <1>11, CrashInWriteOK
<1>12. CASE Restart
  BY <1>12, RestartOK
<1>13. CASE Done
  BY <1>13 DEF Done, vars, IInv
<1> QED
  BY <1>1, <1>2, <1>3, <1>4, <1>5, <1>6, <1>7, <1>8, <1>9, <1>10, <1>11, <1>12, <1>13 DEF Next

(* The inductive invariant: every sector by itself holds what may be in it *)
(* whatever sector writes a crash left out; and until an operation is      *)
(* interrupted, map, directory, headers and open files agree after each    *)
(* Create, Remove, Open, Close, Seek, Read, Write and restart.             *)
THEOREM DiskSound == Spec => []IInv
<1>1. Init => IInv
  BY InitOK
<1>2. IInv /\ [Next]_vars => IInv'
  BY NextOK
<1> QED
  BY <1>1, <1>2, PTL DEF Spec
-----------------------------------------------------------------------------
(* What follows from the invariant.                                        *)

LEMMA OneToOne ==
  ASSUME NEW S, IsFiniteSet(S), NEW T, NEW g \in [S -> T],
         \A x, y \in S : g[x] = g[y] => x = y, \A z \in T : \E x \in S : g[x] = z
  PROVE  IsFiniteSet(T) /\ Cardinality(T) = Cardinality(S)
<1>1. g \in Bijection(S, T)
  BY Fun_IsBij
<1>2. ExistsBijection(S, T)
  BY <1>1, Fun_ExistsBij
<1> QED
  BY <1>2, FS_Bijection

(* The sectors of a header.                                                *)
LEMMA ShapeCount ==
  ASSUME NEW h, Shape(h)
  PROVE  /\ IsFiniteSet(Seqs!ToSet(h.dataSectors))
         /\ Cardinality(Seqs!ToSet(h.dataSectors)) = Len(h.dataSectors)
<1>1. PICK ds, n, T : ds = h.dataSectors /\ n = Len(ds) /\ T = Seqs!ToSet(ds)
  OBVIOUS
<1>2. /\ ds \in Seq(Sector) /\ n \in Nat
      /\ \A i \in 1 .. n : ds[i] \in T
      /\ \A q \in T : \E i \in 1 .. n : ds[i] = q
  BY <1>1, ShapeIs
<1>3. \A i, j \in 1 .. n : ds[i] = ds[j] => i = j
  BY <1>1 DEF Shape
<1>4. PICK g : g = [i \in 1 .. n |-> ds[i]]
  OBVIOUS
<1>5. g \in [1 .. n -> T] /\ \A i \in 1 .. n : g[i] = ds[i]
  BY <1>2, <1>4
<1>6. IsFiniteSet(1 .. n) /\ Cardinality(1 .. n) = n
  BY <1>2, FS_Interval
<1>7. \A x, y \in 1 .. n : g[x] = g[y] => x = y
  BY <1>3, <1>5
<1>8. \A z \in T : \E x \in 1 .. n : g[x] = z
  BY <1>2, <1>5
<1>9. IsFiniteSet(T) /\ Cardinality(T) = Cardinality(1 .. n)
  BY <1>5, <1>6, <1>7, <1>8, OneToOne
<1> QED
  BY <1>1, <1>6, <1>9

LEMMA OwnedCount ==
  ASSUME NEW d, NEW q, Shape(d[q].hdr), q \notin Seqs!ToSet(d[q].hdr.dataSectors)
  PROVE  Cardinality(Owned(d, q)) = 1 + Len(d[q].hdr.dataSectors)
<1>1. PICK T, n : T = Seqs!ToSet(d[q].hdr.dataSectors) /\ n = Len(d[q].hdr.dataSectors)
  OBVIOUS
<1>2. IsFiniteSet(T) /\ Cardinality(T) = n /\ n \in Nat
  BY <1>1, ShapeCount, ShapeIs
<1>3. Cardinality(T \cup {q}) = n + 1
  BY <1>1, <1>2, FS_AddElement
<1>4. Owned(d, q) = T \cup {q}
  BY <1>1 DEF Owned
<1> QED
  BY <1>1, <1>2, <1>3, <1>4

(* The entries in use.                                                     *)
LEMMA EntriesAre ==
  ASSUME NEW t \in TableType, t = FetchDirectory(disk)
  PROVE  /\ \A e \in Entries : \E i \in Used(t) : e = t[i]
         /\ \A i \in Used(t) : t[i] \in Entries
<1>1. DOMAIN t = 1 .. NumDirEntries
  BY TableIs
<1>2. Seqs!ToSet(t) = {t[i] : i \in 1 .. NumDirEntries}
  BY <1>1 DEF Seqs!ToSet
<1> QED
  BY <1>2 DEF Entries, Used

LEMMA RootsAre ==
  ASSUME NEW t \in TableType, t = FetchDirectory(disk)
  PROVE  \A r : r \in Roots <=> r = FreeMapSector \/ r = DirectorySector \/ \E i \in Used(t) : r = t[i].sector
BY EntriesAre DEF Roots

LEMMA OwnedIs == \A q : SectorsOf(q) = Owned(disk, q)
BY DEF SectorsOf, Owned

LEMMA SystemOwned ==
  ASSUME NEW d, Sound(d)
  PROVE  /\ Owned(d, FreeMapSector) = {FreeMapSector, MapSector}
         /\ Owned(d, DirectorySector) = {DirectorySector} \cup DirSectors
         /\ Shape(d[FreeMapSector].hdr) /\ Shape(d[DirectorySector].hdr)
         /\ FreeMapSector \notin Seqs!ToSet(d[FreeMapSector].hdr.dataSectors)
         /\ DirectorySector \notin Seqs!ToSet(d[DirectorySector].hdr.dataSectors)
<1>1. d[FreeMapSector].hdr = MapHdr /\ d[DirectorySector].hdr = DirHdr
  BY SoundIs
<1>2. Owned(d, FreeMapSector) = {FreeMapSector} \cup Seqs!ToSet(MapHdr.dataSectors)
  BY <1>1 DEF Owned
<1>3. Owned(d, DirectorySector) = {DirectorySector} \cup DirSectors
  BY <1>1 DEF Owned, DirSectors
<1>4. DirectorySector \notin Seqs!ToSet(DirHdr.dataSectors)
  BY SystemIs DEF DirSectors
<1> QED
  BY <1>1, <1>2, <1>3, <1>4, SystemIs

(* The sectors of any header on the disk.                                  *)
LEMMA HeadersShape ==
  ASSUME NEW d, Sound(d), NEW q \in Sector
  PROVE  /\ d[q].hdr # NoHeader => Shape(d[q].hdr)
         /\ Owned(d, q) \subseteq Sector
<1>1. d[q].hdr = NoHeader \/ Shape(d[q].hdr)
  <2>1. CASE q = FreeMapSector \/ q = DirectorySector
    BY <2>1, SystemOwned
  <2>2. CASE ~(q = FreeMapSector \/ q = DirectorySector)
    BY <2>2, SoundIs DEF UserHeader
  <2> QED
    BY <2>1, <2>2
<1>2. CASE d[q].hdr = NoHeader
  <2>1. NoHeader.dataSectors = <<>>
    BY DEF NoHeader
  <2>2. Seqs!ToSet(<<>>) = {}
    BY DEF Seqs!ToSet
  <2> QED
    BY <1>2, <2>1, <2>2 DEF Owned
<1>3. CASE Shape(d[q].hdr)
  BY <1>3, ShapeIs DEF Owned
<1> QED
  BY <1>1, <1>2, <1>3

LEMMA TypeFollows == IInv => TypeOK
<1> SUFFICES ASSUME IInv PROVE TypeOK
  OBVIOUS
<1>1. /\ Sound(disk) /\ file \in FilesType /\ failed \in {"no", "assert", "garbage"} /\ intact \in BOOLEAN
  BY DEF IInv, StateOK
<1>2. PICK t \in TableType : t = FetchDirectory(disk)
  BY <1>1, SoundIs DEF SoundTable
<1>3. FetchMap(disk) \subseteq Sector
  BY <1>1, SoundIs
<1>4. \A r \in Roots : r \in Sector
  BY <1>2, RootsAre, TableIs, SystemIs DEF Used
<1>5. Reachable \subseteq Sector
  BY <1>1, <1>4, OwnedIs, HeadersShape DEF Reachable
<1>6. \A q \in Sector : disk[q].hdr # NoHeader =>
        Len(disk[q].hdr.dataSectors) = divRoundUp(disk[q].hdr.numBytes, SectorSize)
  BY <1>1, HeadersShape DEF Shape
<1>7. \A s \in Slot : file[s] # Null => file[s].sector \in Sector /\ file[s].seekPosition \in Nat
  BY <1>1, FileIs DEF FilesType
<1> QED
  BY <1>1, <1>3, <1>5, <1>6, <1>7 DEF TypeOK

(* The sectors of user files are none of the system's.                     *)
LEMMA UserOwned ==
  ASSUME NEW d, Sound(d), NEW i \in Used(FetchDirectory(d)), d[FetchDirectory(d)[i].sector].hdr # NoHeader
  PROVE  /\ Owned(d, FetchDirectory(d)[i].sector) \cap Sys = {}
         /\ Shape(d[FetchDirectory(d)[i].sector].hdr) /\ FetchDirectory(d)[i].sector \notin Sys
<1>1. PICK t \in TableType : t = FetchDirectory(d) /\ SoundTable(t)
  BY SoundIs DEF SoundTable
<1>2. PICK q \in Sector : q = t[i].sector /\ q \notin Sys
  BY <1>1, TableIs DEF Used, SoundTable
<1>3. q \notin {FreeMapSector, DirectorySector}
  BY <1>2, SystemIs
<1>4. UserHeader(d[q].hdr)
  BY <1>1, <1>2, <1>3, SoundIs
<1> QED
  BY <1>1, <1>2, <1>4 DEF UserHeader, Owned

LEMMA NamesCount ==
  ASSUME NEW t \in TableType, t = FetchDirectory(disk), OneName(t)
  PROVE  Cardinality({e.name : e \in Entries}) = Cardinality(Entries)
<1>1. PICK S : S = Entries
  OBVIOUS
<1>2. IsFiniteSet(S)
  <2>1. PICK U : U = Used(t)
    OBVIOUS
  <2>2. IsFiniteSet(U)
    <3>1. NumDirEntries \in Int /\ 1 \in Int
      BY FileSystemAssumption
    <3>2. IsFiniteSet(1 .. NumDirEntries)
      BY <3>1, FS_Interval
    <3>3. U \in SUBSET (1 .. NumDirEntries)
      BY <2>1 DEF Used
    <3> QED
      BY <3>2, <3>3, FS_Subset
  <2>3. PICK g : g = [i \in U |-> t[i]]
    OBVIOUS
  <2>4. g \in [U -> S] /\ (\A z \in S : \E i \in U : g[i] = z) /\ \A i \in U : g[i] = t[i]
    BY <1>1, <2>1, <2>3, EntriesAre
  <2>5. \A i, j \in U : g[i] = g[j] => i = j
    BY <2>1, <2>4 DEF OneName
  <2> QED
    BY <2>2, <2>4, <2>5, OneToOne
<1>3. PICK g : g = [e \in S |-> e.name]
  OBVIOUS
<1>4. PICK T : T = {e.name : e \in S}
  OBVIOUS
<1>5. g \in [S -> T] /\ \A e \in S : g[e] = e.name
  BY <1>3, <1>4
<1>6. \A x, y \in S : g[x] = g[y] => x = y
  <2> SUFFICES ASSUME NEW x \in S, NEW y \in S, g[x] = g[y] PROVE x = y
    OBVIOUS
  <2>1. PICK i, j \in Used(t) : x = t[i] /\ y = t[j]
    BY <1>1, EntriesAre
  <2>2. t[i].name = t[j].name
    BY <1>5, <2>1
  <2> QED
    BY <2>1, <2>2 DEF OneName
<1>7. \A z \in T : \E x \in S : g[x] = z
  BY <1>4, <1>5
<1>8. Cardinality(T) = Cardinality(S)
  BY <1>2, <1>5, <1>6, <1>7, OneToOne
<1> QED
  BY <1>1, <1>4, <1>8

LEMMA ExactFollows == IInv => MapExact
<1> SUFFICES ASSUME IInv, intact PROVE MapExact
  BY DEF MapExact
<1>1. Sound(disk) /\ Exact(disk)
  BY DEF IInv, StateOK
<1>2. PICK t \in TableType : t = FetchDirectory(disk) /\ SoundTable(t)
  BY <1>1, SoundIs DEF SoundTable
<1>3. PICK map : map = FetchMap(disk) /\ ExactOn(disk, t, map)
  BY <1>1, <1>2 DEF Exact
<1>4. /\ \A i \in Used(t) : /\ disk[t[i].sector].hdr # NoHeader
                            /\ t[i].sector \notin Seqs!ToSet(disk[t[i].sector].hdr.dataSectors)
      /\ OneName(t)
      /\ \A i, j \in Used(t) : i # j => Owned(disk, t[i].sector) \cap Owned(disk, t[j].sector) = {}
      /\ \A q : q \in map <=> q \in Sys \/ \E i \in Used(t) : q \in Owned(disk, t[i].sector)
  BY <1>3 DEF ExactOn
<1>5. \A r : r \in Roots <=> r = FreeMapSector \/ r = DirectorySector \/ \E i \in Used(t) : r = t[i].sector
  BY <1>2, RootsAre
<1>6. /\ Owned(disk, FreeMapSector) = {FreeMapSector, MapSector}
      /\ Owned(disk, DirectorySector) = {DirectorySector} \cup DirSectors
      /\ Shape(disk[FreeMapSector].hdr) /\ Shape(disk[DirectorySector].hdr)
      /\ FreeMapSector \notin Seqs!ToSet(disk[FreeMapSector].hdr.dataSectors)
      /\ DirectorySector \notin Seqs!ToSet(disk[DirectorySector].hdr.dataSectors)
  BY <1>1, SystemOwned
<1>7. \A i \in Used(t) : Owned(disk, t[i].sector) \cap Sys = {} /\ Shape(disk[t[i].sector].hdr)
  BY <1>1, <1>2, <1>4, UserOwned
<1>8. /\ Sys = {FreeMapSector, DirectorySector, MapSector} \cup DirSectors
      /\ FreeMapSector # DirectorySector /\ MapSector \notin {FreeMapSector, DirectorySector}
      /\ DirSectors \cap {FreeMapSector, DirectorySector, MapSector} = {}
  BY SystemIs
<1>9. \A q : q \in Reachable <=> \E r \in Roots : q \in Owned(disk, r)
  BY OwnedIs DEF Reachable
<1>10. \A q : q \in Sys <=> q \in Owned(disk, FreeMapSector) \/ q \in Owned(disk, DirectorySector)
  BY <1>6, <1>8
<1>11. FetchMap(disk) = Reachable
  <2>1. \A q : q \in map <=> q \in Reachable
    BY <1>4, <1>5, <1>9, <1>10
  <2> QED
    BY <1>3, <2>1
<1>12. Cardinality({e.name : e \in Entries}) = Cardinality(Entries)
  BY <1>2, <1>4, NamesCount
<1>13. ASSUME NEW r \in Roots
       PROVE  /\ disk[r].hdr # NoHeader
              /\ Shape(disk[r].hdr) /\ r \notin Seqs!ToSet(disk[r].hdr.dataSectors)
  <2>1. \A h : Shape(h) => h # NoHeader
    <3> SUFFICES ASSUME NEW h, Shape(h) PROVE h # NoHeader
      OBVIOUS
    <3>1. h.numBytes \in Nat
      BY ShapeIs
    <3>2. NoHeader.numBytes = -1
      BY DEF NoHeader
    <3> QED
      BY <3>1, <3>2
  <2> QED
    BY <1>4, <1>5, <1>6, <1>7, <1>13, <2>1
<1>14. \A r \in Roots : Cardinality(SectorsOf(r)) = 1 + Len(disk[r].hdr.dataSectors)
  BY <1>13, OwnedCount, OwnedIs
<1>15. ASSUME NEW r \in Roots, NEW q \in Roots, q # r PROVE Owned(disk, q) \cap Owned(disk, r) = {}
  <2>1. Owned(disk, FreeMapSector) \cap Owned(disk, DirectorySector) = {}
    BY <1>6, <1>8
  <2>2. \A i \in Used(t) : /\ Owned(disk, t[i].sector) \cap Owned(disk, FreeMapSector) = {}
                           /\ Owned(disk, t[i].sector) \cap Owned(disk, DirectorySector) = {}
    BY <1>7, <1>10
  <2>3. \A i, j \in Used(t) : t[i].sector # t[j].sector => Owned(disk, t[i].sector) \cap Owned(disk, t[j].sector) = {}
    BY <1>4
  <2>4. /\ r = FreeMapSector \/ r = DirectorySector \/ \E i \in Used(t) : r = t[i].sector
        /\ q = FreeMapSector \/ q = DirectorySector \/ \E i \in Used(t) : q = t[i].sector
    BY <1>5
  <2>5. CASE q = FreeMapSector
    BY <1>15, <2>1, <2>2, <2>4, <2>5
  <2>6. CASE q = DirectorySector
    BY <1>15, <2>1, <2>2, <2>4, <2>6
  <2>7. CASE \E i \in Used(t) : q = t[i].sector
    BY <1>15, <2>2, <2>3, <2>4, <2>7
  <2> QED
    BY <2>4, <2>5, <2>6, <2>7
<1> QED
  BY <1>11, <1>12, <1>13, <1>14, <1>15, OwnedIs DEF MapExact

LEMMA CurrentFollows == IInv => HeaderCurrent
<1> SUFFICES ASSUME IInv, intact PROVE HeaderCurrent
  BY DEF HeaderCurrent
<1>1. AllCurrent(file, disk) /\ file \in FilesType
  BY DEF IInv, StateOK
<1>2. \A s \in Slot : file[s] # Null => file[s] \in FileType
  BY <1>1 DEF FilesType
<1> QED
  BY <1>1, <1>2 DEF HeaderCurrent, AllCurrent, Current

(* FileSystem::Create and Remove keep free map, directory and headers in   *)
(* agreement: a sector is marked exactly when one file owns it, no name is *)
(* in the directory twice, and the header in an OpenFile stays the one on  *)
(* the disk until the file is removed.                                     *)
THEOREM DiskCorrect == Spec => []DiskInv
<1>1. IInv => DiskInv
  BY TypeFollows, ExactFollows, CurrentFollows DEF DiskInv
<1>2. Spec => []IInv
  BY DiskSound
<1> QED
  BY <1>1, <1>2, PTL

(* The ASSERT of FileHeader::Deallocate holds and no FetchFrom reads a     *)
(* header where there is none, until an operation is interrupted or a      *)
(* removed file written to.                                                *)
THEOREM FileSystemNeverFails == Spec => []NeverFails
<1>1. IInv => NeverFails
  BY DEF IInv, StateOK, NeverFails
<1>2. Spec => []IInv
  BY DiskSound
<1> QED
  BY <1>1, <1>2, PTL
-----------------------------------------------------------------------------
(* What the directory finds, and what each name stands for.                *)

LEMMA FindSame ==
  ASSUME NEW t \in TableType, NEW u \in TableType, NEW m,
         \A j \in 1 .. NumDirEntries :
           (j \in Used(u) /\ u[j].name = m) <=> (j \in Used(t) /\ t[j].name = m),
         \A j \in Used(t) : t[j].name = m => u[j].sector = t[j].sector
  PROVE  Find(u, m) = Find(t, m)
<1> DEFINE S(x) == {i \in 1 .. NumDirEntries : x[i].inUse /\ x[i].name = m}
<1>1. FindIndex(t, m) = First(S(t)) /\ FindIndex(u, m) = First(S(u))
  BY TableIs DEF FindIndex
<1>2. S(t) = S(u)
  BY DEF Used
<1> HIDE DEF S
<1>3. FindIndex(u, m) = FindIndex(t, m)
  BY <1>1, <1>2
<1>4. CASE Find(t, m) = -1 /\ FindIndex(t, m) = -1
  BY <1>3, <1>4 DEF Find
<1>5. CASE /\ FindIndex(t, m) \in Used(t) /\ t[FindIndex(t, m)].name = m
           /\ Find(t, m) = t[FindIndex(t, m)].sector
  <2>1. FindIndex(t, m) # -1
    BY <1>5 DEF Used
  <2>2. Find(u, m) = u[FindIndex(t, m)].sector
    BY <1>3, <2>1 DEF Find
  <2> QED
    BY <1>5, <2>2
<1> QED
  BY <1>4, <1>5, FindIs

LEMMA FindFirst ==
  ASSUME NEW t \in TableType, NEW m, NEW k \in Used(t), t[k].name = m,
         \A j \in Used(t) : j < k => t[j].name # m
  PROVE  Find(t, m) = t[k].sector
<1> DEFINE S == {i \in 1 .. NumDirEntries : t[i].inUse /\ t[i].name = m}
<1>1. FindIndex(t, m) = First(S)
  BY TableIs DEF FindIndex
<1>2. S \subseteq Nat /\ k \in S
  BY DEF Used
<1>3. \A i \in S : i \in Used(t) /\ t[i].name = m
  BY DEF Used
<1> HIDE DEF S
<1>4. First(S) \in S /\ First(S) # -1 /\ First(S) <= k
  BY <1>2, FirstIs
<1>5. First(S) \in Nat /\ k \in Nat
  BY <1>2, <1>4, Zenon
<1>6. ~(First(S) < k)
  BY <1>3, <1>4
<1>7. First(S) = k
  BY <1>4, <1>5, <1>6
<1> QED
  BY <1>1, <1>4, <1>7 DEF Find

(* A name is never in an entry before the one in use that has it, in use   *)
(* or not.  So an entry that Create has written in part, and that still    *)
(* bears an old name, cannot be found in place of a file of that name.     *)
Early(t) == \A k \in Used(t) : \A i \in 1 .. NumDirEntries : i < k => t[i].name # t[k].name

LEMMA EarlyAdded ==
  ASSUME NEW t \in TableType, Early(t), NEW name \in EntryName, NEW s \in Sector,
         NEW i \in 1 .. NumDirEntries, i \notin Used(t),
         \A j \in Used(t) : t[j].name # name, \A j \in 1 .. NumDirEntries : j < i => j \in Used(t)
  PROVE  Early(Added(t, name, s, i))
<1>1. PICK u : u = Added(t, name, s, i)
  OBVIOUS
<1>2. /\ Used(u) = Used(t) \cup {i} /\ u[i] = [inUse |-> TRUE, sector |-> s, name |-> name]
      /\ \A j \in 1 .. NumDirEntries : j # i => u[j] = t[j]
  BY <1>1, AddedIs
<1>3. u[i].name = name
  BY <1>2
<1> SUFFICES ASSUME NEW k \in Used(u), NEW j \in 1 .. NumDirEntries, j < k PROVE u[j].name # u[k].name
  BY <1>1 DEF Early
<1>4. k \in 1 .. NumDirEntries
  BY DEF Used
<1>5. CASE k = i
  <2>1. j \in Used(t) /\ j # i
    BY <1>5
  <2> QED
    BY <1>2, <1>3, <1>5, <2>1
<1>6. CASE k # i /\ j = i
  <2>1. k \in Used(t) /\ u[k] = t[k]
    BY <1>2, <1>4, <1>6
  <2> QED
    BY <1>3, <1>6, <2>1
<1>7. CASE k # i /\ j # i
  <2>1. k \in Used(t) /\ u[k] = t[k] /\ u[j] = t[j]
    BY <1>2, <1>4, <1>7
  <2> QED
    BY <2>1 DEF Early
<1> QED
  BY <1>5, <1>6, <1>7

LEMMA EarlyLeft ==
  ASSUME NEW t, Early(t), NEW u, Used(u) \subseteq Used(t),
         \A j \in 1 .. NumDirEntries : u[j].name = t[j].name
  PROVE  Early(u)
<1> SUFFICES ASSUME NEW k \in Used(u), NEW j \in 1 .. NumDirEntries, j < k PROVE u[j].name # u[k].name
  BY DEF Early
<1>1. k \in 1 .. NumDirEntries /\ k \in Used(t)
  BY DEF Used
<1> QED
  BY <1>1 DEF Early
-----------------------------------------------------------------------------
(* The bytes of a file, found through its header in sector q.              *)

Contents(d, q) == ReadAt(d, d[q].hdr, d[q].hdr.numBytes, 0)

LEMMA FilesAre ==
  ASSUME NEW d
  PROVE  /\ DOMAIN FilesOn(d) = {n \in Name : Find(FetchDirectory(d), n) # -1}
         /\ \A n \in DOMAIN FilesOn(d) : FilesOn(d)[n] = Contents(d, Find(FetchDirectory(d), n))
         /\ FilesOn(d) = [n \in {n \in Name : Find(FetchDirectory(d), n) # -1} |->
                            Contents(d, Find(FetchDirectory(d), n))]
<1>1. FilesOn(d) = [n \in {n \in Name : Find(FetchDirectory(d), n) # -1} |->
                      Contents(d, Find(FetchDirectory(d), n))]
  BY DEF FilesOn, Contents
<1> QED
  BY <1>1

LEMMA ContentsAre ==
  ASSUME NEW d \in DiskType, NEW q, Shape(d[q].hdr)
  PROVE  Got(Contents(d, q), d, d[q].hdr, 0, d[q].hdr.numBytes)
<1>1. PICK h : h = d[q].hdr /\ Shape(h)
  OBVIOUS
<1>2. PICK b \in Nat : b = h.numBytes
  BY <1>1, ShapeIs
<1>3. PICK m \in Nat : Got(ReadAt(d, h, b, 0), d, h, 0, m) /\ Available(m, b, b, 0)
  BY <1>1, <1>2, ReadAtIs
<1>4. m = b
  BY <1>3 DEF Available
<1> QED
  BY <1>1, <1>2, <1>3, <1>4 DEF Contents

LEMMA GotSame ==
  ASSUME NEW d, NEW e, NEW h, NEW m \in Nat, NEW s, Got(s, d, h, 0, m), NEW r, Got(r, e, h, 0, m),
         \A a \in Nat : a < m => At(e, h, a) = At(d, h, a)
  PROVE  r = s
<1>1. s \in Seq(Byte) /\ r \in Seq(Byte) /\ Len(s) = m /\ Len(r) = m
  BY DEF Got
<1>2. ASSUME NEW k \in 1 .. m PROVE r[k] = s[k]
  <2>1. PICK a \in Nat : k = a + 1 /\ a < m /\ 0 + a = a
    <3>1. k - 1 \in Nat /\ k = (k - 1) + 1 /\ k - 1 < m /\ 0 + (k - 1) = k - 1
      OBVIOUS
    <3> QED
      BY <3>1
  <2>2. s[a + 1] = At(d, h, a) /\ r[a + 1] = At(e, h, a)
    BY <2>1 DEF Got
  <2> QED
    BY <2>1, <2>2
<1> QED
  BY <1>1, <1>2

Same(d, e, q) == \A r \in Owned(d, q) : e[r] = d[r]

LEMMA ContentsKept ==
  ASSUME NEW d \in DiskType, NEW e \in DiskType, NEW q, Shape(d[q].hdr), Same(d, e, q)
  PROVE  Contents(e, q) = Contents(d, q)
<1>1. PICK h : h = d[q].hdr /\ Shape(h)
  OBVIOUS
<1>2. e[q].hdr = h /\ \A r \in Seqs!ToSet(h.dataSectors) : e[r] = d[r]
  BY <1>1 DEF Same, Owned
<1>3. h.numBytes \in Nat
  BY <1>1, ShapeIs
<1>4. Got(Contents(d, q), d, h, 0, h.numBytes) /\ Got(Contents(e, q), e, h, 0, h.numBytes)
  BY <1>1, <1>2, ContentsAre
<1>5. \A a \in Nat : a < h.numBytes => At(e, h, a) = At(d, h, a)
  BY <1>1, <1>2, BytesKept
<1> QED
  BY <1>3, <1>4, <1>5, GotSame
-----------------------------------------------------------------------------
(* Name m stands for the file with its header in sector q, whose sectors   *)
(* are marked.  It is all that one file needs, whatever became of others.  *)

Holds(d, m, q) ==
  /\ Find(FetchDirectory(d), m) = q /\ q \in Sector /\ q \notin Sys /\ UserHeader(d[q].hdr)
  /\ Owned(d, q) \subseteq FetchMap(d) /\ Owned(d, q) \cap Sys = {}

LEMMA HoldsIs ==
  ASSUME NEW d, Sound(d), NEW m \in Name, NEW q, Holds(d, m, q)
  PROVE  m \in DOMAIN FilesOn(d) /\ FilesOn(d)[m] = Contents(d, q) /\ Shape(d[q].hdr)
<1>1. Find(FetchDirectory(d), m) = q /\ q # -1
  BY DEF Holds, Sector
<1>2. m \in DOMAIN FilesOn(d)
  BY <1>1, FilesAre
<1> QED
  BY <1>1, <1>2, FilesAre DEF Holds, UserHeader

LEMMA HoldsKept ==
  ASSUME NEW d, Sound(d), NEW m, NEW q, Holds(d, m, q), NEW e, Sound(e), Same(d, e, q),
         Find(FetchDirectory(e), m) = q, Owned(d, q) \subseteq FetchMap(e)
  PROVE  Holds(e, m, q)
<1>1. e[q] = d[q]
  BY DEF Same, Owned
<1>2. Owned(e, q) = Owned(d, q)
  BY <1>1 DEF Owned
<1> QED
  BY <1>1, <1>2 DEF Holds

LEMMA ExactHolds ==
  ASSUME NEW d, Sound(d), Exact(d), NEW m, NEW q, q = Find(FetchDirectory(d), m), q # -1
  PROVE  /\ Holds(d, m, q)
         /\ \E k \in Used(FetchDirectory(d)) : FetchDirectory(d)[k].name = m /\ FetchDirectory(d)[k].sector = q
<1>1. PICK t \in TableType : t = FetchDirectory(d)
  BY SoundIs DEF SoundTable
<1>2. PICK k : k \in Used(t) /\ t[k].name = m /\ q = t[k].sector /\ q \in Sector
  BY <1>1, FindIs
<1>3. Owned(d, q) \subseteq FetchMap(d) /\ d[q].hdr # NoHeader
  BY <1>1, <1>2, OwnedMarked
<1>4. Owned(d, q) \cap Sys = {} /\ q \notin Sys
  BY <1>1, <1>2, <1>3, UserOwned
<1>5. UserHeader(d[q].hdr)
  BY <1>2, <1>3, <1>4, SoundIs, SystemIs
<1> QED
  BY <1>1, <1>2, <1>3, <1>4, <1>5 DEF Holds

(* What Create has done when it is complete.                               *)
CreatedAs(d, e, name, size, s, h, i) ==
  /\ Creation(d, name, size, s, h, i) /\ e[s].hdr = h
  /\ FetchDirectory(e) = TableAfter(d, name, s, i) /\ FetchMap(e) = MapAfter(d, s, h)
  /\ \A q \in Sector : q \notin Sys /\ q # s => e[q] = d[q]

LEMMA CreateChange ==
  ASSUME NEW d, Sound(d), NEW name \in EntryName, NEW size \in Nat, NEW e,
         e = Apply(d, CreateWrites(d, name, size).writes)
  PROVE  /\ Sound(e)
         /\ \/ e = d /\ CreateWrites(d, name, size).ok = FALSE
            \/ CreateWrites(d, name, size).ok /\ \E s, h, i : CreatedAs(d, e, name, size, s, h, i)
<1>1. PICK c : c = CreateWrites(d, name, size)
  OBVIOUS
<1>2. CASE c = Refused
  <2>1. c.writes = <<>> /\ c.ok = FALSE
    BY <1>2 DEF Refused
  <2>2. d \in DiskType
    BY SoundIs
  <2>3. e = d
    BY <1>1, <2>1, <2>2, NoWrites
  <2> QED
    BY <1>1, <2>1, <2>3
<1>3. CASE c # Refused
  <2>1. PICK s, h, i : /\ Creation(d, name, size, s, h, i) /\ c.ok
                       /\ c.writes = CreateFlush(d, s, h, TableAfter(d, name, s, i), MapAfter(d, s, h))
    BY <1>1, <1>3, CreateCases
  <2>2. e = Apply(d, CreateFlush(d, s, h, TableAfter(d, name, s, i), MapAfter(d, s, h)))
    BY <1>1, <2>1
  <2>3. /\ Sound(e) /\ e[s].hdr = h
        /\ FetchDirectory(e) = TableAfter(d, name, s, i) /\ FetchMap(e) = MapAfter(d, s, h)
        /\ \A q \in Sector : q \notin Sys /\ q # s => e[q] = d[q]
    BY <2>1, <2>2, CreateDone
  <2>4. CreatedAs(d, e, name, size, s, h, i)
    BY <2>1, <2>3 DEF CreatedAs
  <2> QED
    BY <1>1, <2>1, <2>3, <2>4
<1> QED
  BY <1>2, <1>3

AddedTo(u, t, i, s, name) ==
  /\ u \in TableType /\ Used(u) = Used(t) \cup {i} /\ i \notin Used(t) /\ i \in 1 .. NumDirEntries
  /\ u[i] = [inUse |-> TRUE, sector |-> s, name |-> name]
  /\ \A j \in 1 .. NumDirEntries : j # i => u[j] = t[j]

LEMMA CreateTable ==
  ASSUME NEW d, Sound(d), NEW name \in EntryName, NEW size, NEW s, NEW h, NEW i, Creation(d, name, size, s, h, i)
  PROVE  AddedTo(TableAfter(d, name, s, i), FetchDirectory(d), i, s, name)
<1>1. PICK t \in TableType : t = FetchDirectory(d)
  BY SoundIs DEF SoundTable
<1>2. i \in 1 .. NumDirEntries /\ i \notin Used(t) /\ s \in Sector
  BY <1>1 DEF Creation
<1> QED
  BY <1>1, <1>2, AddedIs DEF TableAfter, AddedTo

LEMMA CreateFind ==
  ASSUME NEW d, Sound(d), NEW name \in EntryName, NEW size, NEW s, NEW h, NEW i, NEW e,
         CreatedAs(d, e, name, size, s, h, i), NEW m, m # name
  PROVE  Find(FetchDirectory(e), m) = Find(FetchDirectory(d), m)
<1>1. PICK t \in TableType : t = FetchDirectory(d)
  BY SoundIs DEF SoundTable
<1>8. Creation(d, name, size, s, h, i) /\ FetchDirectory(e) = TableAfter(d, name, s, i)
  BY DEF CreatedAs
<1>9. PICK u : u = TableAfter(d, name, s, i)
  OBVIOUS
<1>10. AddedTo(u, t, i, s, name)
  BY <1>1, <1>8, <1>9, CreateTable
<1>2. /\ u \in TableType /\ u = FetchDirectory(e) /\ Used(u) = Used(t) \cup {i}
      /\ u[i] = [inUse |-> TRUE, sector |-> s, name |-> name]
      /\ \A j \in 1 .. NumDirEntries : j # i => u[j] = t[j]
  BY <1>8, <1>9, <1>10 DEF AddedTo
<1>3. i \notin Used(t)
  BY <1>10 DEF AddedTo
<1>4. u[i].name = name
  BY <1>2
<1>5. \A j \in Used(t) : j \in 1 .. NumDirEntries /\ j # i
  BY <1>3 DEF Used
<1>6. \A j \in 1 .. NumDirEntries : (j \in Used(u) /\ u[j].name = m) <=> (j \in Used(t) /\ t[j].name = m)
  BY <1>2, <1>3, <1>4
<1>7. \A j \in Used(t) : t[j].name = m => u[j].sector = t[j].sector
  BY <1>2, <1>5
<1> QED
  BY <1>1, <1>2, <1>6, <1>7, FindSame

Carries(d, e, m) ==
  /\ Sound(e) /\ Find(FetchDirectory(e), m) = Find(FetchDirectory(d), m)
  /\ \A q : Holds(d, m, q) => Holds(e, m, q) /\ Same(d, e, q)

LEMMA CreateHolds ==
  ASSUME NEW d, Sound(d), NEW name \in EntryName, NEW size \in Nat, NEW e,
         e = Apply(d, CreateWrites(d, name, size).writes), NEW m, m # name
  PROVE  Carries(d, e, m)
<1>1. Sound(e)
  BY CreateChange
<1>2. CASE e = d
  BY <1>1, <1>2 DEF Same, Carries
<1>3. CASE \E s, h, i : CreatedAs(d, e, name, size, s, h, i)
  <2>1. PICK s, h, i : CreatedAs(d, e, name, size, s, h, i)
    BY <1>3
  <2>2. Find(FetchDirectory(e), m) = Find(FetchDirectory(d), m)
    BY <2>1, CreateFind
  <2>3. ASSUME NEW q, Holds(d, m, q) PROVE Holds(e, m, q) /\ Same(d, e, q)
    <3>1. s \notin FetchMap(d) /\ FetchMap(d) \subseteq FetchMap(e)
      BY <2>1 DEF CreatedAs, Creation, MapAfter
    <3>2. Owned(d, q) \subseteq FetchMap(d) /\ Owned(d, q) \cap Sys = {} /\ Find(FetchDirectory(d), m) = q
      BY <2>3 DEF Holds
    <3>3. FetchMap(d) \subseteq Sector
      BY SoundIs
    <3>4. Same(d, e, q)
      BY <2>1, <3>1, <3>2, <3>3 DEF CreatedAs, Same
    <3> QED
      BY <1>1, <2>2, <2>3, <3>1, <3>2, <3>4, HoldsKept
  <2> QED
    BY <1>1, <2>2, <2>3 DEF Carries
<1> QED
  BY <1>2, <1>3, CreateChange

(* The constructor creates the console files and touches no other.         *)
LEMMA BootHolds ==
  ASSUME NEW d, Sound(d), NEW m \in Name, NEW e, e = BootDisk(d)
  PROVE  Carries(d, e, m)
<1>1. "stdin" \in EntryName /\ "stdout" \in EntryName /\ 0 \in Nat
  BY DEF EntryName
<1>2. m # "stdin" /\ m # "stdout"
  BY FileIs
<1>3. PICK c : c = Created(d, "stdin") /\ e = Created(c, "stdout")
  BY DEF BootDisk
<1>4. Carries(d, c, m)
  <2>1. c = Apply(d, CreateWrites(d, "stdin", 0).writes)
    BY <1>3 DEF Created
  <2> QED
    BY <1>1, <1>2, <2>1, CreateHolds
<1>7. Sound(c)
  BY <1>4 DEF Carries
<1>5. Carries(c, e, m)
  <2>1. e = Apply(c, CreateWrites(c, "stdout", 0).writes)
    BY <1>3 DEF Created
  <2> QED
    BY <1>1, <1>2, <1>7, <2>1, CreateHolds
<1>6. ASSUME NEW q, Holds(d, m, q) PROVE Holds(e, m, q) /\ Same(d, e, q)
  <2>1. Holds(c, m, q) /\ Same(d, c, q) /\ Holds(e, m, q) /\ Same(c, e, q)
    BY <1>4, <1>5, <1>6 DEF Carries
  <2>2. c[q] = d[q]
    BY <2>1 DEF Same, Owned
  <2>3. Owned(c, q) = Owned(d, q)
    BY <2>2 DEF Owned
  <2> QED
    BY <2>1, <2>3 DEF Same
<1> QED
  BY <1>4, <1>5, <1>6 DEF Carries

(* A file that is held before and after, with its sectors unchanged, is    *)
(* the same file.                                                          *)
LEMMA FileKept ==
  ASSUME NEW d, Sound(d), NEW e, Sound(e), NEW m \in Name, NEW q, Holds(d, m, q), Holds(e, m, q), Same(d, e, q)
  PROVE  m \in DOMAIN FilesOn(e) /\ FilesOn(e)[m] = FilesOn(d)[m]
<1>1. /\ m \in DOMAIN FilesOn(e) /\ FilesOn(d)[m] = Contents(d, q) /\ FilesOn(e)[m] = Contents(e, q)
      /\ Shape(d[q].hdr)
  BY HoldsIs
<1>2. d \in DiskType /\ e \in DiskType
  BY SoundIs
<1> QED
  BY <1>1, <1>2, ContentsKept
-----------------------------------------------------------------------------
(* Operations that were interrupted: what some of the sector writes leave. *)

(* Each half of an entry is the old one or the new one.                    *)
PartTable(v, t, u) ==
  \A i \in 1 .. NumDirEntries :
    /\ \/ v[i].inUse = t[i].inUse /\ v[i].sector = t[i].sector
       \/ v[i].inUse = u[i].inUse /\ v[i].sector = u[i].sector
    /\ v[i].name = t[i].name \/ v[i].name = u[i].name

PartOf(e, d, u) ==
  \A q \in DirSectors : e[q] = d[q] \/ \E w : DirWrite(w, u) /\ w.sector = q /\ e[q] = w.contents

LEMMA EntryAt ==
  ASSUME NEW d \in DiskType, d[DirectorySector].hdr = DirHdr, NEW t, t = FetchDirectory(d),
         NEW i \in 1 .. NumDirEntries, NEW a, a = 2 * i - 2, NEW b, b = 2 * i - 1
  PROVE  t[i].inUse = At(d, DirHdr, a)[1] /\ t[i].sector = At(d, DirHdr, a)[2] /\ t[i].name = At(d, DirHdr, b)
<1>1. t = [j \in 1 .. NumDirEntries |->
             [inUse |-> At(d, DirHdr, 2 * j - 2)[1], sector |-> At(d, DirHdr, 2 * j - 2)[2],
              name |-> At(d, DirHdr, 2 * j - 1)]]
  BY FetchDirectoryIs
<1>2. t[i] = [inUse |-> At(d, DirHdr, 2 * i - 2)[1], sector |-> At(d, DirHdr, 2 * i - 2)[2],
              name |-> At(d, DirHdr, 2 * i - 1)]
  BY <1>1
<1>3. t[i] = [inUse |-> At(d, DirHdr, a)[1], sector |-> At(d, DirHdr, a)[2], name |-> At(d, DirHdr, b)]
  BY <1>2, Zenon
<1> QED
  BY <1>3

LEMMA PartDirectory ==
  ASSUME NEW d, Sound(d), NEW u \in TableType, NEW e, Sound(e), PartOf(e, d, u)
  PROVE  PartTable(FetchDirectory(e), FetchDirectory(d), u)
<1>1. /\ d \in DiskType /\ d[DirectorySector].hdr = DirHdr
      /\ e \in DiskType /\ e[DirectorySector].hdr = DirHdr
  BY SoundIs
<1>2. PICK t : t = FetchDirectory(d)
  OBVIOUS
<1>3. PICK v : v = FetchDirectory(e)
  OBVIOUS
<1> SUFFICES ASSUME NEW i \in 1 .. NumDirEntries
             PROVE  /\ \/ v[i].inUse = t[i].inUse /\ v[i].sector = t[i].sector
                       \/ v[i].inUse = u[i].inUse /\ v[i].sector = u[i].sector
                    /\ v[i].name = t[i].name \/ v[i].name = u[i].name
  BY <1>2, <1>3 DEF PartTable
<1>4. PICK a, b : a = 2 * i - 2 /\ b = 2 * i - 1
  OBVIOUS
<1>5. t[i].inUse = At(d, DirHdr, a)[1] /\ t[i].sector = At(d, DirHdr, a)[2] /\ t[i].name = At(d, DirHdr, b)
  BY <1>1, <1>2, <1>4, EntryAt
<1>6. v[i].inUse = At(e, DirHdr, a)[1] /\ v[i].sector = At(e, DirHdr, a)[2] /\ v[i].name = At(e, DirHdr, b)
  BY <1>1, <1>3, <1>4, EntryAt
<1>7. PICK qa, qb : /\ qa = SectorAt(DirHdr, a) /\ qb = SectorAt(DirHdr, b)
                    /\ qa \in DirSectors /\ qb \in DirSectors
  BY <1>4, EntriesWhere
<1>8. At(e, DirHdr, a) = At(d, DirHdr, a) \/ At(e, DirHdr, a) = <<u[i].inUse, u[i].sector>>
  <2>1. CASE e[qa] = d[qa]
    BY <1>7, <2>1 DEF At
  <2>2. CASE \E w : DirWrite(w, u) /\ w.sector = qa /\ e[qa] = w.contents
    <3>1. PICK w : DirWrite(w, u) /\ w.sector = qa /\ e[qa] = w.contents
      BY <2>2
    <3>2. w.contents.bytes[(a % SectorSize) + 1] = <<u[i].inUse, u[i].sector>>
      BY <1>4, <1>7, <3>1, Zenon DEF DirWrite
    <3> QED
      BY <1>7, <3>1, <3>2, Zenon DEF At
  <2> QED
    BY <1>7, <2>1, <2>2, Zenon DEF PartOf
<1>9. At(e, DirHdr, b) = At(d, DirHdr, b) \/ At(e, DirHdr, b) = u[i].name
  <2>1. CASE e[qb] = d[qb]
    BY <1>7, <2>1 DEF At
  <2>2. CASE \E w : DirWrite(w, u) /\ w.sector = qb /\ e[qb] = w.contents
    <3>1. PICK w : DirWrite(w, u) /\ w.sector = qb /\ e[qb] = w.contents
      BY <2>2
    <3>2. w.contents.bytes[(b % SectorSize) + 1] = u[i].name
      BY <1>4, <1>7, <3>1, Zenon DEF DirWrite
    <3> QED
      BY <1>7, <3>1, <3>2, Zenon DEF At
  <2> QED
    BY <1>7, <2>1, <2>2, Zenon DEF PartOf
<1> QED
  BY <1>5, <1>6, <1>8, <1>9

LEMMA PartSame ==
  ASSUME NEW v \in TableType, NEW t \in TableType, NEW u, PartTable(v, t, u),
         NEW j \in 1 .. NumDirEntries, u[j] = t[j]
  PROVE  v[j] = t[j]
<1>1. v[j] \in EntryType /\ t[j] \in EntryType
  BY TableIs
<1>2. v[j].inUse = t[j].inUse /\ v[j].sector = t[j].sector /\ v[j].name = t[j].name
  BY DEF PartTable
<1> QED
  BY <1>1, <1>2 DEF EntryType

LEMMA SomeEffect ==
  ASSUME NEW d \in DiskType, NEW w \in Seq(WriteType), Distinct(w), NEW k \in 1 .. Len(w) - 1, NEW V,
         V = {w[i] : i \in 1 .. k}, NEW e, e = Apply(d, SubSeq(w, 1, k))
  PROVE  Effect(e, d, V) /\ V \subseteq Writes(w) /\ w[1] \in V /\ w[Len(w)] \notin V
<1>1. Len(w) \in Nat /\ k \in 1 .. Len(w) /\ 1 \in 1 .. k /\ Len(w) \in 1 .. Len(w) /\ k < Len(w)
  OBVIOUS
<1>2. PICK x \in Seq(WriteType) : x = SubSeq(w, 1, k) /\ Writes(x) = V /\ V \subseteq Writes(w) /\ Distinct(x)
  BY <1>1, SomeWrites
<1>3. Effect(Apply(d, x), d, V)
  BY <1>2, ApplyEffect
<1>4. w[1] \in V
  BY <1>1
<1>5. ASSUME w[Len(w)] \in V PROVE FALSE
  <2>1. PICK i \in 1 .. k : w[i] = w[Len(w)]
    BY <1>5
  <2>2. i \in 1 .. Len(w) /\ i # Len(w)
    BY <1>1
  <2> QED
    BY <1>1, <2>1, <2>2 DEF Distinct
<1> QED
  BY <1>2, <1>3, <1>4, <1>5

(* Create: the header and some of the directory, but not the map, which is *)
(* the last write.                                                         *)
CreatePart(d, e, name, size, s, h, i) ==
  /\ Creation(d, name, size, s, h, i) /\ Sound(e) /\ FetchMap(e) = FetchMap(d)
  /\ PartTable(FetchDirectory(e), FetchDirectory(d), TableAfter(d, name, s, i))
  /\ \A q \in Sector : q \notin Sys /\ q # s => e[q] = d[q]

LEMMA CreateBroken ==
  ASSUME NEW d, Sound(d), NEW name \in EntryName, NEW size \in Nat, NEW w, w = CreateWrites(d, name, size).writes,
         NEW k \in 1 .. Len(w) - 1, NEW e, e = Apply(d, SubSeq(w, 1, k))
  PROVE  \E s, h, i : CreatePart(d, e, name, size, s, h, i)
<1>1. w \in Seq(WriteType) /\ Distinct(w) /\ SoundWrites(Writes(w))
  BY CreateWritesSound
<1>2. CreateWrites(d, name, size) # Refused
  <2>1. ASSUME CreateWrites(d, name, size) = Refused PROVE FALSE
    <3>1. w = <<>>
      BY <2>1 DEF Refused
    <3> QED
      BY <3>1
  <2> QED
    BY <2>1
<1>3. PICK s, h, i : /\ Creation(d, name, size, s, h, i)
                     /\ w = CreateFlush(d, s, h, TableAfter(d, name, s, i), MapAfter(d, s, h))
  BY <1>2, CreateCases
<1>4. PICK u : u = TableAfter(d, name, s, i)
  OBVIOUS
<1>5. u \in TableType
  BY <1>3, <1>4, CreationIs
<1>6. PICK U : U = Writes(WriteBackDirectory(d, u))
  OBVIOUS
<1>7. Flush(w, d, u, s, h, MapAfter(d, s, h))
  BY <1>3, <1>4, CreateFlushIs
<1>8. PICK m : /\ MapWrite(m, MapAfter(d, s, h)) /\ Writes(w) = ({HeaderWrite(s, h)} \cup U) \cup {m}
               /\ w = (<<HeaderWrite(s, h)>> \o WriteBackDirectory(d, u)) \o <<m>>
  BY <1>6, <1>7 DEF Flush
<1>9. d \in DiskType /\ d[DirectorySector].hdr = DirHdr /\ d[FreeMapSector].hdr = MapHdr
  BY SoundIs
<1>10. WriteBackDirectory(d, u) \in Seq(WriteType) /\ \A x \in U : DirWrite(x, u)
  BY <1>5, <1>6, <1>9, WriteBackDirectoryIs
<1>11. w[Len(w)] = m
  <2>1. HeaderWrite(s, h) \in WriteType
    BY <1>3, CreationIs DEF HeaderWrite
  <2>2. PICK x \in Seq(WriteType) : w = x \o <<m>>
    <3>1. <<HeaderWrite(s, h)>> \o WriteBackDirectory(d, u) \in Seq(WriteType)
      BY <1>10, <2>1
    <3> QED
      BY <1>8, <3>1
  <2> QED
    BY <2>2
<1>12. PICK V : V = {w[j] : j \in 1 .. k}
  OBVIOUS
<1>13. Effect(e, d, V) /\ V \subseteq Writes(w) /\ m \notin V
  <2>1. Effect(e, d, V) /\ V \subseteq Writes(w) /\ w[Len(w)] \notin V
    <3>1. k \in 1 .. Len(w) - 1 /\ e = Apply(d, SubSeq(w, 1, k))
      OBVIOUS
    <3> QED
      BY ONLY <1>1, <1>9, <1>12, <3>1, SomeEffect
  <2> QED
    BY <1>11, <2>1
<1>14. \A x \in V : x = HeaderWrite(s, h) \/ DirWrite(x, u)
  BY <1>8, <1>10, <1>13
<1>15. HeaderWrite(s, h).sector = s /\ s \notin Sys /\ s \in Sector
  BY <1>3 DEF HeaderWrite, Creation
<1>16. \A x \in V : x.sector = s \/ x.sector \in DirSectors
  BY <1>14, <1>15 DEF DirWrite
<1>17. Sound(e)
  <2>1. SoundWrites(V)
    BY <1>1, <1>13 DEF SoundWrites
  <2> QED
    BY <1>13, <2>1, SoundKept
<1>18. /\ MapSector \in Sector /\ MapSector \in Sys /\ MapSector \notin DirSectors
       /\ DirSectors \subseteq Sys /\ DirSectors \subseteq Sector
  BY SystemIs
<1>19. \A q \in Sector : q \notin Sys /\ q # s => e[q] = d[q]
  BY <1>13, <1>16, <1>18 DEF Effect
<1>20. FetchMap(e) = FetchMap(d)
  <2>1. e[MapSector] = d[MapSector]
    BY <1>13, <1>15, <1>16, <1>18 DEF Effect
  <2>2. e \in DiskType /\ e[FreeMapSector].hdr = MapHdr
    BY <1>17, SoundIs
  <2> QED
    BY <1>9, <2>1, <2>2, FetchMapIs
<1>21. PartOf(e, d, u)
  <2> SUFFICES ASSUME NEW q \in DirSectors
               PROVE  e[q] = d[q] \/ \E x : DirWrite(x, u) /\ x.sector = q /\ e[q] = x.contents
    BY DEF PartOf
  <2>1. q \in Sector /\ q # s
    BY <1>15, <1>18
  <2>2. CASE \E x \in V : x.sector = q
    <3>1. PICK x \in V : x.sector = q
      BY <2>2
    <3>2. e[q] = x.contents
      BY <1>13, <3>1 DEF Effect
    <3>3. DirWrite(x, u)
      BY <1>14, <1>15, <2>1, <3>1
    <3> QED
      BY <3>1, <3>2, <3>3
  <2>3. CASE ~\E x \in V : x.sector = q
    BY <1>13, <2>1, <2>3 DEF Effect
  <2> QED
    BY <2>2, <2>3
<1>22. PartTable(FetchDirectory(e), FetchDirectory(d), u)
  BY <1>5, <1>17, <1>21, PartDirectory
<1> QED
  BY <1>3, <1>4, <1>17, <1>19, <1>20, <1>22 DEF CreatePart

(* Remove: the map, which is the first write, and some of the directory.   *)
RemovePart(d, e, n, s, i) ==
  /\ Removal(d, n, s, i) /\ Sound(e) /\ FetchMap(e) = MapLeft(d, s)
  /\ PartTable(FetchDirectory(e), FetchDirectory(d), TableLeft(d, n))
  /\ \A q \in Sector : q \notin Sys => e[q] = d[q]

LEMMA RemoveBroken ==
  ASSUME NEW d, Sound(d), NEW n, NEW s, NEW i, Removal(d, n, s, i), NEW w, w = RemoveWrites(d, n),
         NEW k \in 1 .. Len(w) - 1, NEW e, e = Apply(d, SubSeq(w, 1, k))
  PROVE  RemovePart(d, e, n, s, i)
<1>1. RemoveFlush(w, d, n, s)
  BY RemoveFlushIs
<1>2. PICK u, map : u = TableLeft(d, n) /\ map = MapLeft(d, s)
  OBVIOUS
<1>3. u \in TableType /\ map \subseteq Sector /\ Sys \subseteq map
  BY <1>2, RemovalIs
<1>4. PICK U : U = Writes(WriteBackDirectory(d, u))
  OBVIOUS
<1>5. w \in Seq(WriteType) /\ Distinct(w) /\ SoundWrites(Writes(w))
  BY <1>1 DEF RemoveFlush
<1>6. PICK m : MapWrite(m, map) /\ Writes(w) = {m} \cup U /\ w = <<m>> \o WriteBackDirectory(d, u)
  BY <1>1, <1>2, <1>4 DEF RemoveFlush
<1>7. d \in DiskType /\ d[DirectorySector].hdr = DirHdr
  BY SoundIs
<1>8. WriteBackDirectory(d, u) \in Seq(WriteType) /\ \A x \in U : DirWrite(x, u)
  BY <1>3, <1>4, <1>7, WriteBackDirectoryIs
<1>9. w[1] = m
  <2>1. PICK x \in Seq(WriteType) : w = <<m>> \o x
    BY <1>6, <1>8
  <2> QED
    BY <2>1
<1>10. PICK V : V = {w[j] : j \in 1 .. k}
  OBVIOUS
<1>11. Effect(e, d, V) /\ V \subseteq Writes(w) /\ m \in V
  <2>1. Effect(e, d, V) /\ V \subseteq Writes(w) /\ w[1] \in V /\ w[Len(w)] \notin V
    <3>1. k \in 1 .. Len(w) - 1 /\ e = Apply(d, SubSeq(w, 1, k))
      OBVIOUS
    <3>2. d \in DiskType /\ w \in Seq(WriteType) /\ Distinct(w)
      BY <1>5, <1>7
    <3> QED
      BY ONLY <1>10, <3>1, <3>2, SomeEffect
  <2> QED
    BY <1>9, <2>1
<1>12. \A x \in V : x = m \/ DirWrite(x, u)
  BY <1>6, <1>8, <1>11
<1>13. m.sector = MapSector /\ MapOf(m.contents) = map
  BY <1>3, <1>6, MapWriteSound DEF MapWrite
<1>14. \A x \in V : x.sector = MapSector \/ x.sector \in DirSectors
  BY <1>12, <1>13 DEF DirWrite
<1>15. Sound(e)
  <2>1. SoundWrites(V)
    BY <1>5, <1>11 DEF SoundWrites
  <2> QED
    BY <1>11, <2>1, SoundKept
<1>16. /\ MapSector \in Sector /\ MapSector \in Sys /\ MapSector \notin DirSectors
       /\ DirSectors \subseteq Sys /\ DirSectors \subseteq Sector
  BY SystemIs
<1>17. \A q \in Sector : q \notin Sys => e[q] = d[q]
  BY <1>11, <1>14, <1>16 DEF Effect
<1>18. FetchMap(e) = map
  <2>1. e[MapSector] = m.contents
    BY <1>11, <1>13 DEF Effect
  <2>2. e \in DiskType /\ e[FreeMapSector].hdr = MapHdr
    BY <1>15, SoundIs
  <2> QED
    BY <1>13, <2>1, <2>2, FetchMapIs
<1>19. PartOf(e, d, u)
  <2> SUFFICES ASSUME NEW q \in DirSectors
               PROVE  e[q] = d[q] \/ \E x : DirWrite(x, u) /\ x.sector = q /\ e[q] = x.contents
    BY DEF PartOf
  <2>1. q \in Sector /\ q # MapSector
    BY <1>16
  <2>2. CASE \E x \in V : x.sector = q
    <3>1. PICK x \in V : x.sector = q
      BY <2>2
    <3>2. e[q] = x.contents
      BY <1>11, <3>1 DEF Effect
    <3>3. DirWrite(x, u)
      BY <1>12, <1>13, <2>1, <3>1
    <3> QED
      BY <3>1, <3>2, <3>3
  <2>3. CASE ~\E x \in V : x.sector = q
    BY <1>11, <2>1, <2>3 DEF Effect
  <2> QED
    BY <2>2, <2>3
<1>20. PartTable(FetchDirectory(e), FetchDirectory(d), u)
  BY <1>3, <1>15, <1>19, PartDirectory
<1> QED
  BY <1>2, <1>15, <1>17, <1>18, <1>20 DEF RemovePart

(* Write: only sectors of the file.                                        *)
LEMMA WriteBroken ==
  ASSUME NEW d, Sound(d), NEW h, UserHeader(h), NEW from \in Seq(Byte), NEW p \in Nat, NEW w,
         w = WriteAt(d, h, from, p), NEW k \in 1 .. Len(w) - 1, NEW e, e = Apply(d, SubSeq(w, 1, k))
  PROVE  WritePart(d, e, h)
<1>1. d \in DiskType
  BY SoundIs
<1>2. /\ w \in Seq(WriteType) /\ Distinct(w) /\ SoundWrites(Writes(w))
      /\ \A x \in Writes(w) : x.sector \in Seqs!ToSet(h.dataSectors)
  BY <1>1, FileWritesSound
<1>3. PICK V : V = {w[j] : j \in 1 .. k}
  OBVIOUS
<1>4. Effect(e, d, V) /\ V \subseteq Writes(w)
  BY <1>1, <1>2, <1>3, SomeEffect
<1>5. Sound(e)
  <2>1. SoundWrites(V)
    BY <1>2, <1>4 DEF SoundWrites
  <2> QED
    BY <1>4, <2>1, SoundKept
<1>6. \A q \in Sector : q \notin Seqs!ToSet(h.dataSectors) => e[q] = d[q]
  BY <1>2, <1>4 DEF Effect
<1>7. \A q \in Sys : e[q] = d[q]
  BY <1>6, SystemIs DEF UserHeader
<1> QED
  BY <1>5, <1>6, <1>7, SystemKept DEF WritePart

(* A file that an operation is not about keeps its place and its sectors,  *)
(* however much of the operation is done.                                  *)
Kept(d, e, m, q) == Holds(d, m, q) /\ Holds(e, m, q) /\ Same(d, e, q)

LEMMA CreatePartHolds ==
  ASSUME NEW d, Sound(d), Exact(d), Early(FetchDirectory(d)), NEW name \in EntryName, NEW size, NEW s, NEW h, NEW i,
         NEW e, CreatePart(d, e, name, size, s, h, i), NEW m, m # name,
         NEW q, q = Find(FetchDirectory(d), m), q # -1
  PROVE  Kept(d, e, m, q)
<1>1. PICK t \in TableType : t = FetchDirectory(d) /\ OneName(t) /\ Early(t)
  BY SoundIs DEF SoundTable, Exact, ExactOn
<1>2. /\ Creation(d, name, size, s, h, i) /\ Sound(e) /\ FetchMap(e) = FetchMap(d)
      /\ PartTable(FetchDirectory(e), t, TableAfter(d, name, s, i))
      /\ \A r \in Sector : r \notin Sys /\ r # s => e[r] = d[r]
  BY <1>1 DEF CreatePart
<1>3. PICK v \in TableType : v = FetchDirectory(e)
  BY <1>2, SoundIs DEF SoundTable
<1>4. PICK u : u = TableAfter(d, name, s, i) /\ AddedTo(u, t, i, s, name)
  BY <1>1, <1>2, CreateTable
<1>5. Holds(d, m, q) /\ \E k \in Used(t) : t[k].name = m /\ t[k].sector = q
  BY <1>1, ExactHolds
<1>6. PICK k \in Used(t) : t[k].name = m /\ t[k].sector = q
  BY <1>5
<1>7. k \in 1 .. NumDirEntries /\ k # i /\ i \in 1 .. NumDirEntries
  BY <1>4 DEF AddedTo, Used
<1>8. \A j \in 1 .. NumDirEntries : j # i => v[j] = t[j]
  BY <1>2, <1>3, <1>4, PartSame DEF AddedTo
<1>9. k \in Used(v) /\ v[k].name = m /\ v[k].sector = q
  BY <1>6, <1>7, <1>8 DEF Used
<1>10. ASSUME NEW j \in Used(v), j < k PROVE v[j].name # m
  <2>1. j \in 1 .. NumDirEntries
    BY DEF Used
  <2>2. CASE j # i
    <3>1. v[j] = t[j]
      BY <1>8, <2>1, <2>2
    <3>2. j \in Used(t)
      BY <2>1, <3>1 DEF Used
    <3>3. t[j].name # t[k].name
      BY <1>1, <1>10, <2>1, <3>2 DEF Early
    <3> QED
      BY <1>6, <3>1, <3>3
  <2>3. CASE j = i
    <3>1. u[i].name = name
      BY <1>4 DEF AddedTo
    <3>2. t[i].name # t[k].name
      BY <1>1, <1>10, <2>1, <2>3 DEF Early
    <3>3. v[i].name = t[i].name \/ v[i].name = u[i].name
      BY <1>2, <1>3, <1>4, <1>7 DEF PartTable
    <3> QED
      BY <1>6, <2>3, <3>1, <3>2, <3>3
  <2> QED
    BY <2>2, <2>3
<1>11. Find(v, m) = q
  BY <1>9, <1>10, FindFirst
<1>12. s \notin FetchMap(d)
  BY <1>2 DEF Creation
<1>13. Owned(d, q) \subseteq FetchMap(d) /\ Owned(d, q) \cap Sys = {} /\ FetchMap(d) \subseteq Sector
  BY <1>5, SoundIs DEF Holds
<1>14. Same(d, e, q)
  BY <1>2, <1>12, <1>13 DEF Same
<1>15. Holds(e, m, q)
  BY <1>2, <1>3, <1>5, <1>11, <1>13, <1>14, HoldsKept
<1> QED
  BY <1>5, <1>14, <1>15 DEF Kept

LEMMA RemovePartHolds ==
  ASSUME NEW d, Sound(d), Exact(d), NEW n, NEW s, NEW i, NEW e, RemovePart(d, e, n, s, i), NEW m, m # n,
         NEW q, q = Find(FetchDirectory(d), m), q # -1
  PROVE  Kept(d, e, m, q)
<1>1. PICK t \in TableType : t = FetchDirectory(d)
  BY SoundIs DEF SoundTable
<1>2. /\ Removal(d, n, s, i) /\ Sound(e) /\ FetchMap(e) = MapLeft(d, s)
      /\ PartTable(FetchDirectory(e), t, TableLeft(d, n))
      /\ \A r \in Sector : r \notin Sys => e[r] = d[r]
  BY <1>1 DEF RemovePart
<1>3. PICK v \in TableType : v = FetchDirectory(e)
  BY <1>2, SoundIs DEF SoundTable
<1>4. PICK u : u = TableLeft(d, n)
  OBVIOUS
<1>5. /\ \A j \in 1 .. NumDirEntries : j # i => u[j] = t[j]
      /\ \A j \in 1 .. NumDirEntries : u[j].name = t[j].name
  BY <1>1, <1>2, <1>4, RemovalIs
<1>6. Holds(d, m, q) /\ \E k \in Used(t) : t[k].name = m /\ t[k].sector = q
  BY <1>1, ExactHolds
<1>7. PICK k \in Used(t) : t[k].name = m /\ t[k].sector = q
  BY <1>6
<1>8. i \in Used(t) /\ t[i].name = n /\ t[i].sector = s /\ i \in 1 .. NumDirEntries
  BY <1>1, <1>2 DEF Removal, Used
<1>9. \A j \in 1 .. NumDirEntries : j # i => v[j] = t[j]
  BY <1>2, <1>3, <1>4, <1>5, PartSame
<1>10. v[i].name = n
  BY <1>2, <1>3, <1>4, <1>5, <1>8 DEF PartTable
<1>11. \A j \in 1 .. NumDirEntries : (j \in Used(v) /\ v[j].name = m) <=> (j \in Used(t) /\ t[j].name = m)
  BY <1>8, <1>9, <1>10 DEF Used
<1>12. \A j \in Used(t) : t[j].name = m => v[j].sector = t[j].sector
  BY <1>8, <1>9 DEF Used
<1>13. Find(v, m) = Find(t, m)
  BY <1>11, <1>12, FindSame
<1>14. Owned(d, q) \cap Owned(d, s) = {}
  BY <1>1, <1>7, <1>8 DEF Exact, ExactOn
<1>15. Owned(d, q) \subseteq FetchMap(d) /\ Owned(d, q) \cap Sys = {} /\ FetchMap(d) \subseteq Sector
  BY <1>6, SoundIs DEF Holds
<1>16. Owned(d, q) \subseteq FetchMap(e)
  BY <1>2, <1>14, <1>15 DEF MapLeft, Owned
<1>17. Same(d, e, q)
  BY <1>2, <1>15 DEF Same
<1>18. Holds(e, m, q)
  BY <1>1, <1>2, <1>3, <1>6, <1>13, <1>16, <1>17, HoldsKept
<1> QED
  BY <1>6, <1>17, <1>18 DEF Kept

LEMMA WritePartHolds ==
  ASSUME NEW d, Sound(d), Exact(d), NEW f, f.sector \in Sector, Current(f, d), NEW e, WritePart(d, e, f.hdr),
         NEW m, m # f.name, NEW q, q = Find(FetchDirectory(d), m), q # -1
  PROVE  Kept(d, e, m, q)
<1>1. PICK t \in TableType : t = FetchDirectory(d)
  BY SoundIs DEF SoundTable
<1>2. PICK i \in Used(t) : t[i].name = f.name /\ t[i].sector = f.sector
  BY <1>1, CurrentEntry
<1>3. f.hdr = d[f.sector].hdr
  BY DEF Current
<1>4. Holds(d, m, q) /\ \E k \in Used(t) : t[k].name = m /\ t[k].sector = q
  BY <1>1, ExactHolds
<1>5. PICK k \in Used(t) : t[k].name = m /\ t[k].sector = q
  BY <1>4
<1>6. Owned(d, q) \cap Owned(d, f.sector) = {}
  BY <1>1, <1>2, <1>5 DEF Exact, ExactOn
<1>7. Owned(d, q) \subseteq FetchMap(d) /\ FetchMap(d) \subseteq Sector
  BY <1>4, SoundIs DEF Holds
<1>8. Same(d, e, q)
  BY <1>3, <1>6, <1>7 DEF WritePart, Same, Owned
<1>9. Sound(e) /\ FetchMap(e) = FetchMap(d) /\ FetchDirectory(e) = FetchDirectory(d)
  BY DEF WritePart
<1>10. Holds(e, m, q)
  BY <1>4, <1>7, <1>8, <1>9, HoldsKept
<1> QED
  BY <1>4, <1>8, <1>10 DEF Kept

(* So its contents stay, in a restart after that too.                      *)
LEMMA KeptFile ==
  ASSUME NEW d, Sound(d), NEW e, Sound(e), NEW m \in Name, NEW q, Kept(d, e, m, q)
  PROVE  /\ m \in DOMAIN FilesOn(e) /\ FilesOn(e)[m] = FilesOn(d)[m]
         /\ m \in DOMAIN FilesOn(BootDisk(e)) /\ FilesOn(BootDisk(e))[m] = FilesOn(d)[m]
<1>1. Holds(d, m, q) /\ Holds(e, m, q) /\ Same(d, e, q)
  BY DEF Kept
<1>2. m \in DOMAIN FilesOn(e) /\ FilesOn(e)[m] = FilesOn(d)[m]
  BY <1>1, FileKept
<1>3. PICK b : b = BootDisk(e)
  OBVIOUS
<1>4. Carries(e, b, m)
  BY <1>3, BootHolds
<1>5. Sound(b) /\ Holds(b, m, q) /\ Same(e, b, q)
  BY <1>1, <1>4 DEF Carries
<1>6. m \in DOMAIN FilesOn(b) /\ FilesOn(b)[m] = FilesOn(e)[m]
  BY <1>1, <1>5, FileKept
<1> QED
  BY <1>2, <1>3, <1>6

(* A restart between operations keeps every file.                          *)
LEMMA BootFiles ==
  ASSUME NEW d, Sound(d), Exact(d)
  PROVE  FilesOn(BootDisk(d)) = FilesOn(d)
<1>1. PICK b : b = BootDisk(d)
  OBVIOUS
<1>2. \A m \in Name : Carries(d, b, m)
  BY <1>1, BootHolds
<1>3. \A m \in Name : Find(FetchDirectory(b), m) = Find(FetchDirectory(d), m)
  BY <1>2 DEF Carries
<1>4. PICK N : N = {m \in Name : Find(FetchDirectory(d), m) # -1}
  OBVIOUS
<1>5. N = {m \in Name : Find(FetchDirectory(b), m) # -1}
  BY <1>3, <1>4
<1>6. DOMAIN FilesOn(d) = N /\ DOMAIN FilesOn(b) = N
  BY <1>4, <1>5, FilesAre
<1>7. ASSUME NEW m \in N PROVE FilesOn(b)[m] = FilesOn(d)[m]
  <2>1. PICK q : q = Find(FetchDirectory(d), m) /\ q # -1 /\ m \in Name
    BY <1>4
  <2>2. Holds(d, m, q)
    BY <2>1, ExactHolds
  <2>3. Sound(b) /\ Holds(b, m, q) /\ Same(d, b, q)
    BY <1>2, <2>1, <2>2 DEF Carries
  <2> QED
    BY <2>1, <2>2, <2>3, FileKept
<1>8. FilesOn(d) = [m \in N |-> FilesOn(d)[m]] /\ FilesOn(b) = [m \in N |-> FilesOn(b)[m]]
  <2>1. FilesOn(d) = [m \in {m \in Name : Find(FetchDirectory(d), m) # -1} |->
                        Contents(d, Find(FetchDirectory(d), m))]
    BY FilesAre
  <2>2. FilesOn(b) = [m \in {m \in Name : Find(FetchDirectory(b), m) # -1} |->
                        Contents(b, Find(FetchDirectory(b), m))]
    BY FilesAre
  <2> QED
    BY <1>4, <1>5, <2>1, <2>2
<1> QED
  BY <1>1, <1>7, <1>8
-----------------------------------------------------------------------------
(* Until a crash no entry, whether in use or not, bears the name of an     *)
(* entry in use further on: Add takes the first entry that is free, and a  *)
(* name that is not in use.  So the entry that a crash inside Create       *)
(* leaves under an old name hides no other file.                           *)

LEMMA EarlyCreate ==
  ASSUME NEW d, Sound(d), Early(FetchDirectory(d)), NEW name \in EntryName, NEW size \in Nat, NEW e,
         e = Apply(d, CreateWrites(d, name, size).writes)
  PROVE  Early(FetchDirectory(e))
<1>1. \/ e = d /\ CreateWrites(d, name, size).ok = FALSE
      \/ CreateWrites(d, name, size).ok /\ \E s, h, i : CreatedAs(d, e, name, size, s, h, i)
  BY CreateChange
<1>2. CASE e = d
  BY <1>2
<1>3. CASE \E s, h, i : CreatedAs(d, e, name, size, s, h, i)
  <2>1. PICK s, h, i : CreatedAs(d, e, name, size, s, h, i)
    BY <1>3
  <2>2. PICK t \in TableType : t = FetchDirectory(d)
    BY SoundIs DEF SoundTable
  <2>3. /\ FetchDirectory(e) = Added(t, name, s, i) /\ s \in Sector
        /\ i \in 1 .. NumDirEntries /\ i \notin Used(t)
        /\ \A j \in Used(t) : t[j].name # name
        /\ \A j \in 1 .. NumDirEntries : j < i => j \in Used(t)
    BY <2>1, <2>2 DEF CreatedAs, Creation, TableAfter
  <2>4. Early(t)
    BY <2>2
  <2>5. Early(Added(t, name, s, i))
    BY ONLY <2>3, <2>4, t \in TableType, name \in EntryName, EarlyAdded
  <2> QED
    BY <2>3, <2>5
<1> QED
  BY <1>1, <1>2, <1>3

LEMMA ConsoleNames == "stdin" \in EntryName /\ "stdout" \in EntryName /\ 0 \in Nat
BY DEF EntryName

LEMMA EarlyBoot ==
  ASSUME NEW d, Sound(d), Early(FetchDirectory(d))
  PROVE  Early(FetchDirectory(BootDisk(d)))
<1>1. PICK c : c = Apply(d, CreateWrites(d, "stdin", 0).writes)
  OBVIOUS
<1>2. PICK e : e = Apply(c, CreateWrites(c, "stdout", 0).writes)
  OBVIOUS
<1>3. Sound(c) /\ Early(FetchDirectory(c))
  BY <1>1, ConsoleNames, CreateChange, EarlyCreate
<1>4. Early(FetchDirectory(e))
  BY <1>2, <1>3, ConsoleNames, EarlyCreate
<1>5. BootDisk(d) = e
  BY <1>1, <1>2 DEF BootDisk, Created
<1> QED
  BY <1>4, <1>5

EarlyInv == intact => Early(FetchDirectory(disk))

LEMMA EarlyInit == Init => EarlyInv
<1> SUFFICES ASSUME Init PROVE Early(FetchDirectory(disk))
  BY DEF EarlyInv
<1>1. disk = BootDisk(Format)
  BY DEF Init
<1>2. Early(FetchDirectory(Format))
  BY FormatIs, EmptyIs DEF Early
<1> QED
  BY <1>1, <1>2, FormatIs, EarlyBoot

(* What Remove does to the disk: one entry of that name is taken out, or   *)
(* there is none.                                                          *)
LEMMA RemoveChange ==
  ASSUME IInv, intact, NEW n \in Name, Remove(n)
  PROVE  /\ event'.op = "remove" /\ event'.name = n /\ intact' = intact
         /\ \/ /\ Where(n) = -1 /\ ~event'.ok /\ UNCHANGED <<disk, files, file>>
            \/ /\ Where(n) # -1 /\ event'.ok /\ disk' = Apply(disk, RemoveWrites(disk, n))
               /\ files' = FilesOn(disk') /\ file' = Removed(file, n)
               /\ \E i : Removal(disk, n, Where(n), i)
<1>1. PICK q : q = Find(FetchDirectory(disk), n)
  OBVIOUS
<1>2. Where(n) = q
  BY <1>1 DEF Where
<1>3. RemoveFound(n, q, HeaderAt(q)) /\ intact' = intact
  BY <1>2 DEF Remove
<1>4. Sound(disk) /\ Exact(disk)
  BY DEF IInv, StateOK
<1>5. CASE q = -1
  <2>1. failed' = "no"
    BY <1>3, <1>5 DEF RemoveFound
  <2>2. event' = [op |-> "remove", name |-> n, ok |-> FALSE]
    BY <1>3, <1>5, <2>1 DEF RemoveFound
  <2>3. UNCHANGED <<disk, files, file>>
    BY <1>3, <2>2 DEF RemoveFound
  <2> QED
    BY <1>2, <1>3, <1>5, <2>2, <2>3
<1>6. CASE q # -1
  <2>1. disk[q].hdr # NoHeader /\ Deallocatable(disk[q].hdr, FetchMap(disk))
    BY <1>1, <1>4, <1>6, FoundOK
  <2>2. HeaderAt(q) = disk[q].hdr
    BY <1>6 DEF HeaderAt
  <2>3. failed' = "no"
    BY <1>3, <1>6, <2>1, <2>2 DEF RemoveFound
  <2>4. event' = [op |-> "remove", name |-> n, ok |-> TRUE]
    BY <1>3, <1>6, <2>3 DEF RemoveFound
  <2>5. event'.op = "remove" /\ event'.name = n /\ event'.ok
    BY <2>4
  <2>6. disk' = Apply(disk, RemoveWrites(disk, n)) /\ files' = FilesOn(disk') /\ file' = Removed(file, n)
    BY <1>3, <2>5 DEF RemoveFound, Removed, Stored
  <2>7. \E i : Removal(disk, n, q, i)
    BY <1>1, <1>4, <1>6, <2>1, RemovalExists
  <2> QED
    BY <1>2, <1>3, <1>6, <2>5, <2>6, <2>7
<1> QED
  BY <1>5, <1>6

LEMMA EarlyNext == IInv /\ EarlyInv /\ [Next]_vars => EarlyInv'
<1> SUFFICES ASSUME IInv, EarlyInv, [Next]_vars, intact' PROVE Early(FetchDirectory(disk))'
  BY DEF EarlyInv
<1>0. Sound(disk)
  BY DEF IInv, StateOK
<1>1. CASE intact /\ disk' = disk
  BY <1>1 DEF EarlyInv
<1>2. ASSUME NEW n \in Name, NEW size \in Size, Create(n, size) PROVE Early(FetchDirectory(disk))'
  <2>1. disk' = Apply(disk, CreateWrites(disk, n, size).writes) /\ intact
    BY <1>2 DEF Create, Stored
  <2> QED
    BY <1>0, <2>1, SizesAre, EarlyCreate DEF EarlyInv
<1>3. ASSUME NEW w, NEW n, Interrupted(w, n) PROVE FALSE
  BY <1>3 DEF Interrupted, RestartOn
<1>4. ASSUME NEW n \in Name, Remove(n) PROVE Early(FetchDirectory(disk))'
  <2>1. intact /\ Early(FetchDirectory(disk))
    BY <1>4 DEF Remove, EarlyInv
  <2>2. CASE UNCHANGED disk
    BY <2>1, <2>2
  <2>3. CASE disk' = Apply(disk, RemoveWrites(disk, n)) /\ \E i : Removal(disk, n, Where(n), i)
    <3>1. PICK i : Removal(disk, n, Where(n), i)
      BY <2>3
    <3>2. FetchDirectory(disk') = TableLeft(disk, n)
      BY <1>0, <2>3, <3>1, RemoveDone
    <3>3. /\ Used(TableLeft(disk, n)) \subseteq Used(FetchDirectory(disk))
          /\ \A j \in 1 .. NumDirEntries : TableLeft(disk, n)[j].name = FetchDirectory(disk)[j].name
      BY <1>0, <3>1, RemovalIs
    <3>4. Early(TableLeft(disk, n))
      BY <2>1, <3>3, EarlyLeft
    <3> QED
      BY <3>2, <3>4
  <2> QED
    BY <1>4, <2>1, <2>2, <2>3, RemoveChange
<1>5. ASSUME NEW s \in Slot, NEW data \in Data, Write(s, data) PROVE Early(FetchDirectory(disk))'
  <2>1. PICK f : f = file[s]
    OBVIOUS
  <2>2. intact /\ s \in UserSlot /\ failed = "no" /\ disk' = Apply(disk, WriteAt(disk, f.hdr, data, f.seekPosition))
    BY <1>5, <2>1 DEF Write, Stored, More
  <2>3. UserHeader(f.hdr) /\ f.seekPosition \in Nat /\ data \in Seq(Byte)
    BY <2>1, <2>2, UserSlotIs, FileIs, SizesAre
  <2>4. FetchDirectory(disk') = FetchDirectory(disk)
    BY <1>0, <2>2, <2>3, WriteDone
  <2> QED
    BY <2>2, <2>4 DEF EarlyInv
<1>6. CASE Restart
  <2>1. disk' = BootDisk(disk) /\ intact
    BY <1>6 DEF Restart, RestartOn, Stored
  <2> QED
    BY <1>0, <2>1, EarlyBoot DEF EarlyInv
<1>7. ASSUME NEW n \in Name, Open(n) PROVE intact /\ disk' = disk
  BY <1>7 DEF Open
<1>8. ASSUME NEW s \in Slot, Close(s) \/ (\E p \in Position : Seek(s, p)) \/ Read(s, SectorSize)
      PROVE  intact /\ disk' = disk
  BY <1>8 DEF Close, Seek, Read
<1>9. UNCHANGED vars => intact /\ disk' = disk
  BY DEF vars
<1>10. ASSUME NEW n \in Name, NEW size \in Size, CrashInCreate(n, size) PROVE FALSE
  BY <1>3, <1>10 DEF CrashInCreate
<1>11. ASSUME NEW n \in Name, CrashInRemove(n) PROVE FALSE
  BY <1>3, <1>11 DEF CrashInRemove
<1>12. ASSUME NEW s \in Slot, NEW data \in Data, CrashInWrite(s, data) PROVE FALSE
  BY <1>3, <1>12 DEF CrashInWrite
<1>13. Done => UNCHANGED vars
  BY DEF Done
<1> QED
  BY <1>1, <1>2, <1>4, <1>5, <1>6, <1>7, <1>8, <1>9, <1>10, <1>11, <1>12, <1>13 DEF Next

FullInv == IInv /\ EarlyInv

(* Beside IInv: until an operation is interrupted, no directory entry      *)
(* before the one of a file bears the file's name, in use or not.          *)
THEOREM DirectoryOrdered == Spec => []FullInv
<1>1. Init => FullInv
  BY InitOK, EarlyInit DEF FullInv
<1>2. FullInv /\ [Next]_vars => FullInv'
  BY NextOK, EarlyNext DEF FullInv
<1> QED
  BY <1>1, <1>2, PTL DEF Spec
-----------------------------------------------------------------------------
(* What a crash leaves marked, and what it leaves unmarked.                *)

(* A marked sector belongs to the system, or to an entry whose header is   *)
(* marked.                                                                 *)
BackedOn(d, t, map) ==
  \A q \in map : q \in Sys \/ \E j \in Used(t) : t[j].sector \in map /\ q \in Owned(d, t[j].sector)

(* The sectors of an entry are marked, unless it has the name n or its     *)
(* header was not in R.                                                    *)
CleanOn(d, t, map, n, R) ==
  \A j \in Used(t) : Owned(d, t[j].sector) \subseteq map \/ t[j].name = n \/ t[j].sector \notin R

Safe(d, n, R) ==
  BackedOn(d, FetchDirectory(d), FetchMap(d)) /\ CleanOn(d, FetchDirectory(d), FetchMap(d), n, R)

LEMMA OwnedSame ==
  ASSUME NEW d, NEW e, NEW q, e[q] = d[q]
  PROVE  Owned(e, q) = Owned(d, q) /\ q \in Owned(d, q)
BY DEF Owned

LEMMA ExactSafe ==
  ASSUME NEW d, Exact(d), NEW n, NEW R
  PROVE  Safe(d, n, R)
<1>1. PICK t, map : t = FetchDirectory(d) /\ map = FetchMap(d) /\ ExactOn(d, t, map)
  BY DEF Exact
<1>2. \A q : q \in Owned(d, q)
  BY DEF Owned
<1>3. BackedOn(d, t, map)
  BY <1>1, <1>2 DEF ExactOn, BackedOn
<1>4. CleanOn(d, t, map, n, R)
  BY <1>1 DEF ExactOn, CleanOn
<1> QED
  BY <1>1, <1>3, <1>4 DEF Safe

LEMMA SafeCreate ==
  ASSUME NEW d, Sound(d), NEW n, NEW R, Safe(d, n, R), NEW name \in EntryName, NEW size \in Nat, NEW e,
         e = Apply(d, CreateWrites(d, name, size).writes)
  PROVE  Sound(e) /\ Safe(e, n, R)
<1>1. /\ Sound(e)
      /\ \/ e = d /\ CreateWrites(d, name, size).ok = FALSE
         \/ CreateWrites(d, name, size).ok /\ \E s, h, i : CreatedAs(d, e, name, size, s, h, i)
  BY CreateChange
<1>2. CASE e = d
  BY <1>1, <1>2
<1>3. CASE \E s, h, i : CreatedAs(d, e, name, size, s, h, i)
  <2>1. PICK s, h, i : CreatedAs(d, e, name, size, s, h, i)
    BY <1>3
  <2>2. PICK t \in TableType : t = FetchDirectory(d) /\ SoundTable(t)
    BY SoundIs DEF SoundTable
  <2>3. PICK map : map = FetchMap(d)
    OBVIOUS
  <2>4. PICK u : u = FetchDirectory(e)
    OBVIOUS
  <2>5. PICK map2 : map2 = FetchMap(e)
    OBVIOUS
  <2>6. /\ Creation(d, name, size, s, h, i) /\ e[s].hdr = h /\ u = TableAfter(d, name, s, i)
        /\ map2 = (map \cup {s}) \cup Seqs!ToSet(h.dataSectors)
        /\ \A q \in Sector : q \notin Sys /\ q # s => e[q] = d[q]
    BY <2>1, <2>3, <2>4, <2>5 DEF CreatedAs, MapAfter
  <2>7. s \notin map
    BY <2>3, <2>6 DEF Creation
  <2>8. AddedTo(u, t, i, s, name)
    BY <2>2, <2>6, CreateTable
  <2>9. /\ u[i].sector = s /\ Used(u) = Used(t) \cup {i} /\ i \notin Used(t)
        /\ \A j \in Used(t) : u[j] = t[j]
    BY <2>8 DEF AddedTo, Used
  <2>10. \A j \in Used(t) : t[j].sector \in Sector /\ t[j].sector \notin Sys
    BY <2>2, TableIs DEF SoundTable, Used
  <2>11. \A j \in Used(t) : t[j].sector \in map => Owned(e, t[j].sector) = Owned(d, t[j].sector)
    BY <2>6, <2>7, <2>10, OwnedSame
  <2>12. Owned(e, s) = {s} \cup Seqs!ToSet(h.dataSectors)
    BY <2>6 DEF Owned
  <2>13. BackedOn(d, t, map) /\ CleanOn(d, t, map, n, R)
    BY <2>2, <2>3 DEF Safe
  <2>14. map \subseteq map2 /\ s \in map2 /\ Owned(e, s) \subseteq map2
         /\ \A q \in map2 : q \in map \/ q \in Owned(e, s)
    BY <2>6, <2>12
  <2>15. BackedOn(e, u, map2)
    <3> SUFFICES ASSUME NEW q \in map2, q \notin Sys
                 PROVE  \E j \in Used(u) : u[j].sector \in map2 /\ q \in Owned(e, u[j].sector)
      BY DEF BackedOn
    <3>1. CASE q \in map
      <4>1. PICK j \in Used(t) : t[j].sector \in map /\ q \in Owned(d, t[j].sector)
        BY <2>13, <3>1 DEF BackedOn
      <4>2. j \in Used(u) /\ u[j] = t[j] /\ q \in Owned(e, t[j].sector) /\ t[j].sector \in map2
        BY <2>9, <2>11, <2>14, <4>1
      <4> QED
        BY <4>2
    <3>2. CASE q \in Owned(e, s)
      BY <2>9, <2>14, <3>2
    <3> QED
      BY <2>14, <3>1, <3>2
  <2>16. CleanOn(e, u, map2, n, R)
    <3> SUFFICES ASSUME NEW j \in Used(u)
                 PROVE  Owned(e, u[j].sector) \subseteq map2 \/ u[j].name = n \/ u[j].sector \notin R
      BY DEF CleanOn
    <3>1. CASE j = i
      BY <2>9, <2>14, <3>1
    <3>2. CASE j \in Used(t)
      <4>1. u[j] = t[j]
        BY <2>9, <3>2
      <4>2. CASE Owned(d, t[j].sector) \subseteq map
        <5>1. t[j].sector \in map
          BY <4>2 DEF Owned
        <5> QED
          BY <2>11, <2>14, <3>2, <4>1, <4>2, <5>1
      <4>3. CASE t[j].name = n \/ t[j].sector \notin R
        BY <4>1, <4>3
      <4> QED
        BY <2>13, <3>2, <4>2, <4>3 DEF CleanOn
    <3> QED
      BY <2>9, <3>1, <3>2
  <2> QED
    BY <1>1, <2>4, <2>5, <2>15, <2>16 DEF Safe
<1> QED
  BY <1>1, <1>2, <1>3

LEMMA SafeBoot ==
  ASSUME NEW d, Sound(d), NEW n, NEW R, Safe(d, n, R)
  PROVE  Sound(BootDisk(d)) /\ Safe(BootDisk(d), n, R)
<1>1. PICK c : c = Apply(d, CreateWrites(d, "stdin", 0).writes)
  OBVIOUS
<1>2. PICK e : e = Apply(c, CreateWrites(c, "stdout", 0).writes)
  OBVIOUS
<1>3. Sound(c) /\ Safe(c, n, R)
  BY <1>1, ConsoleNames, SafeCreate
<1>4. Sound(e) /\ Safe(e, n, R)
  BY <1>2, <1>3, ConsoleNames, SafeCreate
<1>5. BootDisk(d) = e
  BY <1>1, <1>2 DEF BootDisk, Created
<1> QED
  BY <1>4, <1>5

LEMMA CreatePartSafe ==
  ASSUME NEW d, Sound(d), Exact(d), NEW name \in EntryName, NEW size, NEW s, NEW h, NEW i, NEW e,
         CreatePart(d, e, name, size, s, h, i)
  PROVE  Safe(e, name, FetchMap(d))
<1>1. PICK t \in TableType : t = FetchDirectory(d) /\ SoundTable(t)
  BY SoundIs DEF SoundTable
<1>2. PICK map : map = FetchMap(d) /\ ExactOn(d, t, map)
  BY <1>1 DEF Exact
<1>3. PICK v \in TableType : v = FetchDirectory(e)
  BY SoundIs DEF SoundTable, CreatePart
<1>4. PICK u : u = TableAfter(d, name, s, i)
  OBVIOUS
<1>5. /\ Creation(d, name, size, s, h, i) /\ FetchMap(e) = map /\ PartTable(v, t, u)
      /\ \A q \in Sector : q \notin Sys /\ q # s => e[q] = d[q]
  BY <1>1, <1>2, <1>3, <1>4 DEF CreatePart
<1>6. s \notin map
  BY <1>2, <1>5 DEF Creation
<1>7. AddedTo(u, t, i, s, name)
  BY <1>1, <1>4, <1>5, CreateTable
<1>8. \A j \in 1 .. NumDirEntries : j # i => v[j] = t[j]
  BY <1>5, <1>7, PartSame DEF AddedTo
<1>9. i \in 1 .. NumDirEntries /\ i \notin Used(t) /\ u[i].sector = s
  BY <1>7 DEF AddedTo
<1>10. i \in Used(v) => v[i].sector = s
  BY <1>5, <1>9 DEF PartTable, Used
<1>11. \A j : j \in Used(t) => j \in Used(v) /\ v[j] = t[j]
  BY <1>8, <1>9 DEF Used
<1>12. \A j \in Used(v) : j # i => j \in Used(t)
  BY <1>8 DEF Used
<1>13. \A j \in Used(t) : t[j].sector \in Sector /\ t[j].sector \notin Sys
  BY <1>1, TableIs DEF SoundTable, Used
<1>14. /\ \A j \in Used(t) : Owned(d, t[j].sector) \subseteq map
       /\ \A q \in map : q \in Sys \/ \E j \in Used(t) : q \in Owned(d, t[j].sector)
  BY <1>2 DEF ExactOn
<1>15. \A j \in Used(t) : t[j].sector \in map
  BY <1>14 DEF Owned
<1>16. \A j \in Used(t) : Owned(e, t[j].sector) = Owned(d, t[j].sector)
  BY <1>5, <1>6, <1>13, <1>15, OwnedSame
<1>17. BackedOn(e, v, map)
  <2> SUFFICES ASSUME NEW q \in map, q \notin Sys
               PROVE  \E j \in Used(v) : v[j].sector \in map /\ q \in Owned(e, v[j].sector)
    BY DEF BackedOn
  <2>1. PICK j \in Used(t) : q \in Owned(d, t[j].sector)
    BY <1>14
  <2>2. j \in Used(v) /\ v[j].sector \in map /\ q \in Owned(e, v[j].sector)
    BY <1>11, <1>15, <1>16, <2>1
  <2> QED
    BY <2>2
<1>18. CleanOn(e, v, map, name, map)
  <2> SUFFICES ASSUME NEW j \in Used(v)
               PROVE  Owned(e, v[j].sector) \subseteq map \/ v[j].sector \notin map
    BY DEF CleanOn
  <2>1. CASE j = i
    BY <1>6, <1>10, <2>1
  <2>2. CASE j # i
    <3>1. j \in Used(t) /\ v[j] = t[j]
      BY <1>11, <1>12, <2>2
    <3> QED
      BY <1>14, <1>16, <3>1
  <2> QED
    BY <2>1, <2>2
<1> QED
  BY <1>2, <1>3, <1>5, <1>17, <1>18 DEF Safe

LEMMA RemovePartSafe ==
  ASSUME NEW d, Sound(d), Exact(d), NEW n, NEW s, NEW i, NEW e, RemovePart(d, e, n, s, i)
  PROVE  Safe(e, n, FetchMap(d))
<1>1. PICK t \in TableType : t = FetchDirectory(d) /\ SoundTable(t)
  BY SoundIs DEF SoundTable
<1>2. PICK map : map = FetchMap(d) /\ ExactOn(d, t, map)
  BY <1>1 DEF Exact
<1>3. PICK v \in TableType : v = FetchDirectory(e)
  BY SoundIs DEF SoundTable, RemovePart
<1>4. PICK u : u = TableLeft(d, n)
  OBVIOUS
<1>5. PICK map2 : map2 = FetchMap(e)
  OBVIOUS
<1>6. /\ Removal(d, n, s, i) /\ map2 = MapLeft(d, s) /\ PartTable(v, t, u)
      /\ \A q \in Sector : q \notin Sys => e[q] = d[q]
  BY <1>1, <1>3, <1>4, <1>5 DEF RemovePart
<1>7. \A q : q \in map2 <=> q \in map /\ q \notin Owned(d, s)
  BY <1>2, <1>6 DEF MapLeft, Owned
<1>8. i \in Used(t) /\ i \in 1 .. NumDirEntries /\ t[i].name = n /\ t[i].sector = s
  BY <1>1, <1>6 DEF Removal, Used
<1>9. /\ \A j \in 1 .. NumDirEntries : j # i => u[j] = t[j]
      /\ u[i].name = t[i].name
  BY <1>1, <1>4, <1>6, <1>8, RemovalIs
<1>10. \A j \in 1 .. NumDirEntries : j # i => v[j] = t[j]
  BY <1>6, <1>9, PartSame
<1>11. v[i].name = n
  BY <1>6, <1>8, <1>9 DEF PartTable
<1>12. \A j : j # i => (j \in Used(t) <=> j \in Used(v))
  BY <1>10 DEF Used
<1>13. \A j \in Used(t) : t[j].sector \in Sector /\ t[j].sector \notin Sys /\ j \in 1 .. NumDirEntries
  BY <1>1, TableIs DEF SoundTable, Used
<1>14. /\ \A j \in Used(t) : Owned(d, t[j].sector) \subseteq map
       /\ \A q \in map : q \in Sys \/ \E j \in Used(t) : q \in Owned(d, t[j].sector)
       /\ \A j \in Used(t) : j # i => Owned(d, t[j].sector) \cap Owned(d, s) = {}
  BY <1>2, <1>8 DEF ExactOn
<1>15. \A j \in Used(t) : j # i => Owned(d, t[j].sector) \subseteq map2
  BY <1>7, <1>14
<1>16. \A j \in Used(t) : Owned(e, t[j].sector) = Owned(d, t[j].sector) /\ t[j].sector \in Owned(d, t[j].sector)
  BY <1>6, <1>13, OwnedSame
<1>17. BackedOn(e, v, map2)
  <2> SUFFICES ASSUME NEW q \in map2, q \notin Sys
               PROVE  \E j \in Used(v) : v[j].sector \in map2 /\ q \in Owned(e, v[j].sector)
    BY DEF BackedOn
  <2>1. q \in map /\ q \notin Owned(d, s)
    BY <1>7
  <2>2. PICK j \in Used(t) : q \in Owned(d, t[j].sector)
    BY <1>14, <2>1
  <2>3. j # i
    BY <1>8, <2>1, <2>2
  <2>4. j \in Used(v) /\ v[j] = t[j]
    BY <1>10, <1>12, <1>13, <2>3
  <2>5. t[j].sector \in map2 /\ q \in Owned(e, t[j].sector)
    BY <1>15, <1>16, <2>2, <2>3
  <2> QED
    BY <2>4, <2>5
<1>18. CleanOn(e, v, map2, n, map)
  <2> SUFFICES ASSUME NEW j \in Used(v)
               PROVE  Owned(e, v[j].sector) \subseteq map2 \/ v[j].name = n
    BY DEF CleanOn
  <2>1. CASE j = i
    BY <1>11, <2>1
  <2>2. CASE j # i
    <3>1. j \in Used(t)
      BY <1>12, <2>2
    <3>2. v[j] = t[j]
      BY <1>10, <1>13, <2>2, <3>1
    <3> QED
      BY <1>15, <1>16, <2>2, <3>1, <3>2
  <2> QED
    BY <2>1, <2>2
<1> QED
  BY <1>2, <1>3, <1>5, <1>17, <1>18 DEF Safe

(* What is left when an operation on the file n is interrupted.            *)
Survives(d, e, n) ==
  /\ Sound(e) /\ Safe(e, n, FetchMap(d))
  /\ \A m \in Name : m # n /\ Find(FetchDirectory(d), m) # -1 => Kept(d, e, m, Find(FetchDirectory(d), m))

(* A crash in some operation on n, and the restart after it.               *)
Crashed(n) ==
  /\ \E e : Survives(disk, e, n) /\ disk' = BootDisk(e)
  /\ files' = FilesOn(disk') /\ file' = OpenConsole(disk') /\ intact' = FALSE
  /\ event' = [op |-> "restart", interrupted |-> TRUE, name |-> n]

LEMMA CrashedIs ==
  ASSUME NEW w, NEW n, Interrupted(w, n),
         \A k \in 1 .. Len(w) - 1 : Survives(disk, Apply(disk, SubSeq(w, 1, k)), n)
  PROVE  Crashed(n)
<1>1. PICK k \in 1 .. Len(w) - 1 : RestartOn(BootDisk(Apply(disk, SubSeq(w, 1, k))), TRUE, n)
  BY DEF Interrupted
<1>2. PICK e : e = Apply(disk, SubSeq(w, 1, k))
  OBVIOUS
<1>3. /\ disk' = BootDisk(e) /\ files' = FilesOn(disk') /\ file' = OpenConsole(disk') /\ intact' = FALSE
      /\ event' = [op |-> "restart", interrupted |-> TRUE, name |-> n]
  BY <1>1, <1>2 DEF RestartOn, Stored
<1>4. Survives(disk, e, n)
  BY <1>2
<1> QED
  BY <1>3, <1>4 DEF Crashed

LEMMA CreateCrashed ==
  ASSUME FullInv, intact, NEW n \in Name, NEW size \in Size, CrashInCreate(n, size)
  PROVE  Crashed(n)
<1>1. Sound(disk) /\ Exact(disk) /\ Early(FetchDirectory(disk)) /\ n \in EntryName /\ size \in Nat
  BY SizesAre DEF FullInv, IInv, StateOK, EarlyInv
<1>2. PICK w : w = CreateWrites(disk, n, size).writes
  OBVIOUS
<1>3. ASSUME NEW k \in 1 .. Len(w) - 1, NEW e, e = Apply(disk, SubSeq(w, 1, k)) PROVE Survives(disk, e, n)
  <2>1. PICK s, h, i : CreatePart(disk, e, n, size, s, h, i)
    BY <1>1, <1>2, <1>3, CreateBroken
  <2>2. Sound(e)
    BY <2>1 DEF CreatePart
  <2>3. Safe(e, n, FetchMap(disk))
    BY <1>1, <2>1, CreatePartSafe
  <2>4. ASSUME NEW m \in Name, m # n, Find(FetchDirectory(disk), m) # -1
        PROVE  Kept(disk, e, m, Find(FetchDirectory(disk), m))
    BY <1>1, <2>1, <2>4, CreatePartHolds
  <2> QED
    BY <2>2, <2>3, <2>4 DEF Survives
<1>4. Interrupted(w, n)
  BY <1>2 DEF CrashInCreate
<1> QED
  BY <1>3, <1>4, CrashedIs

LEMMA RemoveCrashed ==
  ASSUME FullInv, intact, NEW n \in Name, CrashInRemove(n)
  PROVE  Crashed(n)
<1>1. Sound(disk) /\ Exact(disk)
  BY DEF FullInv, IInv, StateOK
<1>2. PICK q : q = Find(FetchDirectory(disk), n)
  OBVIOUS
<1>3. HeaderAt(q) # NoHeader
  BY <1>2 DEF CrashInRemove, Where
<1>4. q # -1 /\ disk[q].hdr # NoHeader
  BY <1>3 DEF HeaderAt
<1>5. PICK i : Removal(disk, n, q, i)
  BY <1>1, <1>2, <1>4, RemovalExists
<1>6. PICK w : w = RemoveWrites(disk, n)
  OBVIOUS
<1>7. ASSUME NEW k \in 1 .. Len(w) - 1, NEW e, e = Apply(disk, SubSeq(w, 1, k)) PROVE Survives(disk, e, n)
  <2>1. RemovePart(disk, e, n, q, i)
    BY <1>1, <1>5, <1>6, <1>7, RemoveBroken
  <2>2. Sound(e)
    BY <2>1 DEF RemovePart
  <2>3. Safe(e, n, FetchMap(disk))
    BY <1>1, <2>1, RemovePartSafe
  <2>4. ASSUME NEW m \in Name, m # n, Find(FetchDirectory(disk), m) # -1
        PROVE  Kept(disk, e, m, Find(FetchDirectory(disk), m))
    BY <1>1, <2>1, <2>4, RemovePartHolds
  <2> QED
    BY <2>2, <2>3, <2>4 DEF Survives
<1>8. Interrupted(w, n)
  BY <1>6 DEF CrashInRemove
<1> QED
  BY <1>7, <1>8, CrashedIs

LEMMA WriteCrashed ==
  ASSUME FullInv, intact, NEW s \in Slot, NEW data \in Data, CrashInWrite(s, data)
  PROVE  Crashed(file[s].name)
<1>1. PICK f : f = file[s]
  OBVIOUS
<1>2. PICK w : w = WriteAt(disk, f.hdr, data, f.seekPosition)
  OBVIOUS
<1>3. s \in UserSlot /\ failed = "no" /\ f.live /\ Interrupted(w, f.name)
  BY <1>1, <1>2 DEF CrashInWrite, Interrupted, More
<1>4. IInv /\ Sound(disk) /\ Exact(disk) /\ AllCurrent(file, disk) /\ data \in Seq(Byte)
  BY SizesAre DEF FullInv, IInv, StateOK
<1>5. f \in FileType /\ UserHeader(f.hdr) /\ f.seekPosition \in Nat /\ f.sector \in Sector
  BY <1>1, <1>3, <1>4, UserSlotIs, FileIs
<1>6. Current(f, disk)
  BY <1>1, <1>3, <1>4, <1>5 DEF AllCurrent
<1>7. ASSUME NEW k \in 1 .. Len(w) - 1, NEW e, e = Apply(disk, SubSeq(w, 1, k)) PROVE Survives(disk, e, f.name)
  <2>1. WritePart(disk, e, f.hdr)
    BY <1>2, <1>4, <1>5, <1>7, WriteBroken
  <2>2. Sound(e)
    BY <2>1 DEF WritePart
  <2>3. Exact(e)
    BY <1>4, <1>5, <1>6, <2>1, WritePartGoes DEF Goes
  <2>4. Safe(e, f.name, FetchMap(disk))
    BY <2>3, ExactSafe
  <2>5. ASSUME NEW m \in Name, m # f.name, Find(FetchDirectory(disk), m) # -1
        PROVE  Kept(disk, e, m, Find(FetchDirectory(disk), m))
    BY <1>4, <1>5, <1>6, <2>1, <2>5, WritePartHolds
  <2> QED
    BY <2>2, <2>4, <2>5 DEF Survives
<1> QED
  BY <1>1, <1>3, <1>7, CrashedIs

(* The steps that end the time without interruption.                       *)
LEMMA WhenCrashed ==
  ASSUME FullInv, [Next]_vars, intact, ~intact', event'.op = "restart"
  PROVE  \E n : Crashed(n)
<1>1. ASSUME NEW n \in Name, NEW size \in Size, CrashInCreate(n, size) PROVE \E m : Crashed(m)
  BY <1>1, CreateCrashed
<1>2. ASSUME NEW n \in Name, CrashInRemove(n) PROVE \E m : Crashed(m)
  BY <1>2, RemoveCrashed
<1>3. ASSUME NEW s \in Slot, NEW data \in Data, CrashInWrite(s, data) PROVE \E m : Crashed(m)
  BY <1>3, WriteCrashed
<1>4. ASSUME NEW n \in Name, (\E size \in Size : Create(n, size)) \/ Remove(n) \/ Open(n) PROVE FALSE
  BY <1>4 DEF Create, Remove, Open
<1>5. ASSUME NEW s \in Slot, Close(s) \/ (\E p \in Position : Seek(s, p)) \/ Read(s, SectorSize) PROVE FALSE
  BY <1>5 DEF Close, Seek, Read
<1>6. ASSUME NEW s \in Slot, NEW data \in Data, Write(s, data) PROVE FALSE
  BY <1>6 DEF Write
<1>7. Restart => FALSE
  <2> SUFFICES ASSUME Restart PROVE FALSE
    OBVIOUS
  <2>1. intact' = (intact /\ ~FALSE)
    BY DEF Restart, RestartOn
  <2> QED
    BY <2>1
<1>8. Done => UNCHANGED vars
  BY DEF Done
<1>9. UNCHANGED vars => FALSE
  BY DEF vars
<1> QED
  BY <1>1, <1>2, <1>3, <1>4, <1>5, <1>6, <1>7, <1>8, <1>9 DEF Next

(* Entries, Roots and Reachable of any disk.                               *)
EntriesOn(d) == {e \in Seqs!ToSet(FetchDirectory(d)) : e.inUse}
RootsOn(d) == {FreeMapSector, DirectorySector} \cup {e.sector : e \in EntriesOn(d)}
ReachableOn(d) == UNION {Owned(d, r) : r \in RootsOn(d)}

LEMMA SafeLeaks ==
  ASSUME NEW d, Sound(d), NEW n, NEW R, Safe(d, n, R)
  PROVE  /\ FetchMap(d) \subseteq ReachableOn(d)
         /\ \A e \in EntriesOn(d) : \/ Owned(d, e.sector) \subseteq FetchMap(d)
                                    \/ e.name = n \/ e.sector \notin R
<1>1. PICK t \in TableType : t = FetchDirectory(d)
  BY SoundIs DEF SoundTable
<1>2. PICK map : map = FetchMap(d)
  OBVIOUS
<1>3. BackedOn(d, t, map) /\ CleanOn(d, t, map, n, R)
  BY <1>1, <1>2 DEF Safe
<1>4. Seqs!ToSet(t) = {t[i] : i \in 1 .. NumDirEntries}
  BY <1>1, TableIs DEF Seqs!ToSet
<1>5. (\A e \in EntriesOn(d) : \E i \in Used(t) : e = t[i]) /\ \A i \in Used(t) : t[i] \in EntriesOn(d)
  BY <1>1, <1>4 DEF Used, EntriesOn
<1>6. ASSUME NEW q \in map PROVE q \in ReachableOn(d)
  <2>1. CASE q \in Sys
    <3>1. q \in Owned(d, FreeMapSector) \/ q \in Owned(d, DirectorySector)
      BY <2>1, SystemIs, SystemOwned
    <3> QED
      BY <3>1 DEF ReachableOn, RootsOn
  <2>2. CASE \E j \in Used(t) : q \in Owned(d, t[j].sector)
    <3>1. PICK j \in Used(t) : q \in Owned(d, t[j].sector)
      BY <2>2
    <3>2. t[j].sector \in RootsOn(d)
      BY <1>5 DEF RootsOn
    <3> QED
      BY <3>1, <3>2 DEF ReachableOn
  <2> QED
    BY <1>3, <2>1, <2>2 DEF BackedOn
<1>7. \A e \in EntriesOn(d) : Owned(d, e.sector) \subseteq map \/ e.name = n \/ e.sector \notin R
  BY <1>3, <1>5 DEF CleanOn
<1> QED
  BY <1>2, <1>6, <1>7

LEMMA LeaksNothing ==
  ASSUME FullInv, [Next]_vars, intact, ~intact', event'.op = "restart"
  PROVE  /\ FetchMap(disk)' \subseteq Reachable'
         /\ \A e \in Entries' : \/ SectorsOf(e.sector)' \subseteq FetchMap(disk)'
                                \/ e.name = event'.name
                                \/ e.sector \notin Reachable
<1>1. PICK n : Crashed(n)
  BY WhenCrashed
<1>2. PICK e : Survives(disk, e, n) /\ disk' = BootDisk(e)
  BY <1>1 DEF Crashed
<1>3. PICK R : R = Reachable
  OBVIOUS
<1>4. FetchMap(disk) = R
  BY <1>3, ExactFollows DEF FullInv, MapExact
<1>5. PICK b : b = disk'
  OBVIOUS
<1>6. Sound(b) /\ Safe(b, n, R)
  BY <1>2, <1>4, <1>5, SafeBoot DEF Survives
<1>7. event'.name = n
  BY <1>1 DEF Crashed
<1>8. /\ FetchMap(b) \subseteq ReachableOn(b)
      /\ \A x \in EntriesOn(b) : \/ Owned(b, x.sector) \subseteq FetchMap(b)
                                 \/ x.name = n \/ x.sector \notin R
  BY <1>6, SafeLeaks
<1>9. Entries' = EntriesOn(b)
  BY <1>5 DEF Entries, EntriesOn
<1>10. Roots' = RootsOn(b)
  BY <1>9 DEF Roots, RootsOn, FreeMapSector, DirectorySector
<1>11. ASSUME NEW q PROVE SectorsOf(q)' = Owned(b, q)
  BY <1>5 DEF SectorsOf, Owned
<1>12. Reachable' = ReachableOn(b)
  <2>1. Reachable' = UNION {SectorsOf(r)' : r \in Roots'}
    BY DEF Reachable
  <2> QED
    BY <1>10, <1>11, <2>1 DEF ReachableOn
<1>13. FetchMap(disk)' = FetchMap(b)
  BY <1>5
<1> QED
  BY <1>3, <1>7, <1>8, <1>9, <1>11, <1>12, <1>13

(* A crash between two sector writes of FileSystem::Create, Remove or      *)
(* Write leaks no sector: the constructor that runs afterwards finds every *)
(* marked sector reachable, and only the file that the operation was about *)
(* may have sectors that are not marked.                                   *)
THEOREM CrashesLeakNothing == Spec => CrashLeaksNothing
<1>1. FullInv /\ [Next]_vars =>
        (intact /\ ~intact' /\ event'.op = "restart" =>
           /\ FetchMap(disk)' \subseteq Reachable'
           /\ \A e \in Entries' : \/ SectorsOf(e.sector)' \subseteq FetchMap(disk)'
                                  \/ e.name = event'.name
                                  \/ e.sector \notin Reachable)
  BY LeaksNothing
<1>2. Spec => []FullInv
  BY DirectoryOrdered
<1> QED
  BY <1>1, <1>2, PTL DEF Spec, CrashLeaksNothing
-----------------------------------------------------------------------------
(* The refinement of FlatFiles: what is seen of the open files.            *)

View(f) == IF f = Null \/ f.name \notin Name THEN Null
           ELSE [name |-> f.name, pos |-> f.seekPosition, live |-> f.live]

Views(f) == [s \in Slot |-> IF f[s] = Null \/ f[s].name \notin Name THEN Null
                            ELSE [name |-> f[s].name, pos |-> f[s].seekPosition, live |-> f[s].live]]

LEMMA ViewsAre == \A f : DOMAIN Views(f) = Slot /\ \A s \in Slot : Views(f)[s] = View(f[s])
BY DEF Views, View

LEMMA ViewIs ==
  ASSUME NEW f
  PROVE  /\ f = Null \/ f.name \notin Name => View(f) = Null
         /\ f # Null /\ f.name \in Name =>
              /\ View(f) = [name |-> f.name, pos |-> f.seekPosition, live |-> f.live]
              /\ View(f) # Null /\ View(f).name = f.name /\ View(f).pos = f.seekPosition /\ View(f).live = f.live
<1>1. ASSUME f # Null, f.name \in Name PROVE View(f).name # Null.name
  BY <1>1, FileIs DEF View
<1> QED
  BY <1>1 DEF View

LEMMA ViewsSame ==
  ASSUME NEW f, NEW g, \A s \in Slot : View(g[s]) = View(f[s])
  PROVE  Views(g) = Views(f)
BY DEF Views, View

(* One slot changes.                                                       *)
Changed(o, s, v) == [o EXCEPT ![s] = v]

LEMMA ViewsChange ==
  ASSUME NEW f, NEW g, NEW s \in Slot, \A k \in Slot : k # s => g[k] = f[k], NEW v, v = View(g[s])
  PROVE  Views(g) = Changed(Views(f), s, v)
<1>1. PICK o : o = Views(f)
  OBVIOUS
<1>2. PICK o2 : o2 = Views(g)
  OBVIOUS
<1>3. /\ o = [k \in Slot |-> o[k]] /\ o2 = [k \in Slot |-> o2[k]]
      /\ \A k \in Slot : o[k] = View(f[k]) /\ o2[k] = View(g[k])
  BY <1>1, <1>2 DEF Views, View
<1>4. PICK o3 : o3 = [o EXCEPT ![s] = v]
  OBVIOUS
<1>5. o3 = [k \in Slot |-> o3[k]] /\ o3[s] = v /\ \A k \in Slot : k # s => o3[k] = o[k]
  BY <1>3, <1>4
<1>6. \A k \in Slot : o2[k] = o3[k]
  BY <1>3, <1>5
<1>7. o2 = o3
  BY <1>3, <1>5, <1>6
<1> QED
  BY <1>1, <1>2, <1>4, <1>7 DEF Changed

LEMMA FlatInit == Init => Flat!Init
<1> SUFFICES ASSUME Init PROVE DOMAIN files = {} /\ intact = TRUE
  BY DEF Flat!Init
<1>1. PICK b : b = BootDisk(Format)
  OBVIOUS
<1>2. files = FilesOn(b) /\ intact = TRUE
  BY <1>1 DEF Init
<1>3. ASSUME NEW m \in Name PROVE Find(FetchDirectory(b), m) = -1
  <2>1. Carries(Format, b, m)
    BY <1>1, FormatIs, BootHolds
  <2>2. Find(FetchDirectory(b), m) = Find(Empty, m)
    BY <2>1, FormatIs DEF Carries
  <2>3. Find(Empty, m) = -1
    BY EmptyIs, FindIs
  <2> QED
    BY <2>2, <2>3
<1> QED
  BY <1>2, <1>3, FilesAre

LEMMA FlatOpen ==
  ASSUME IInv, intact, NEW n \in Name, Open(n)
  PROVE  Flat!Call(event')
<1>1. PICK q, k : q = Find(FetchDirectory(disk), n) /\ k = FreeSlot(file)
  OBVIOUS
<1>2. PICK f, g : f = file /\ g = file'
  OBVIOUS
<1>3. /\ event'.op = "open" /\ event'.name = n /\ event'.slot = IF q = -1 THEN -1 ELSE k
      /\ g = OpenedAt(disk, f, n, q, k) /\ files' = files /\ intact' = intact
  BY <1>1, <1>2 DEF Open, Opened, Where
<1>4. f \in FilesType /\ files = FilesOn(disk)
  BY <1>2 DEF IInv, StateOK
<1>5. CASE q = -1 \/ k = -1
  <2>1. event'.slot = -1 /\ file' = file
    BY <1>2, <1>3, <1>5 DEF OpenedAt
  <2>2. Flat!Open(event')
    BY <1>3, <2>1 DEF Flat!Open
  <2> QED
    BY <1>3, <2>2 DEF Flat!Call
<1>6. CASE q # -1 /\ k # -1
  <2>1. k \in Slot /\ f[k] = Null
    BY <1>1, <1>2, <1>6, FreeSlotIs
  <2>2. PICK x : x = OpenFile(disk, n, q)
    OBVIOUS
  <2>3. event'.slot = k /\ event'.slot # -1 /\ g = [f EXCEPT ![k] = x]
    BY <1>3, <1>6, <2>2 DEF OpenedAt
  <2>4. (\A s \in Slot : s # k => g[s] = f[s]) /\ g[k] = x
    BY <1>4, <2>1, <2>3 DEF FilesType
  <2>5. View(x) = [name |-> n, pos |-> 0, live |-> TRUE]
    <3>1. x.name = n /\ x.seekPosition = 0 /\ x.live = TRUE
      BY <2>2 DEF OpenFile
    <3>2. x # Null
      BY <3>1, FileIs
    <3> QED
      BY <3>1, <3>2 DEF View
  <2>6. Views(file') = [Views(file) EXCEPT ![event'.slot] = [name |-> event'.name, pos |-> 0, live |-> TRUE]]
    <3>1. PICK v : v = View(g[k])
      OBVIOUS
    <3>2. k \in Slot /\ \A s \in Slot : s # k => g[s] = f[s]
      BY <2>1, <2>4
    <3>3. Views(g) = Changed(Views(f), k, v)
      BY ONLY <3>1, <3>2, ViewsChange
    <3> QED
      BY <1>2, <1>3, <2>3, <2>4, <2>5, <3>1, <3>3 DEF Changed
  <2>7. event'.name \in DOMAIN files /\ Views(file)[event'.slot] = Null
    <3>1. View(f[k]) = Null
      BY <2>1 DEF View
    <3>2. Views(f)[k] = Null
      BY <2>1, <3>1, ViewsAre
    <3>3. n \in DOMAIN files
      BY <1>1, <1>4, <1>6, FilesAre
    <3> QED
      BY <1>2, <1>3, <2>3, <3>2, <3>3
  <2>8. Flat!Open(event')
    BY <1>3, <2>3, <2>6, <2>7 DEF Flat!Open, Views
  <2> QED
    BY <1>3, <2>8 DEF Flat!Call
<1> QED
  BY <1>5, <1>6

LEMMA FlatClose ==
  ASSUME IInv, NEW s \in Slot, Close(s)
  PROVE  Flat!Call(event')
<1>1. PICK f, g : f = file /\ g = file'
  OBVIOUS
<1>2. /\ event'.op = "close" /\ event'.slot = s /\ g = [f EXCEPT ![s] = Null]
      /\ files' = files /\ intact' = intact
  BY <1>1 DEF Close
<1>3. f \in FilesType
  BY <1>1 DEF IInv, StateOK
<1>4. (\A k \in Slot : k # s => g[k] = f[k]) /\ g[s] = Null
  BY <1>2, <1>3 DEF FilesType
<1>5. PICK v : v = View(g[s])
  OBVIOUS
<1>6. Views(g) = Changed(Views(f), s, v)
  BY ONLY s \in Slot, <1>4, <1>5, ViewsChange
<1>7. v = Null
  BY <1>4, <1>5 DEF View
<1>8. Views(file') = [Views(file) EXCEPT ![event'.slot] = Null]
  BY <1>1, <1>2, <1>6, <1>7 DEF Changed
<1>9. Flat!Close(event')
  BY <1>2, <1>8 DEF Flat!Close, Views
<1> QED
  BY <1>2, <1>9 DEF Flat!Call

(* A file that is open for its user.                                       *)
LEMMA UserView ==
  ASSUME IInv, failed = "no", NEW s \in Slot, s \in UserSlot
  PROVE  /\ Views(file)[s] = [name |-> file[s].name, pos |-> file[s].seekPosition, live |-> file[s].live]
         /\ Views(file)[s].name = file[s].name /\ Views(file)[s].pos = file[s].seekPosition
         /\ Views(file)[s].live = file[s].live
<1>1. file[s] # Null /\ file[s].name \in Name
  BY DEF UserSlot
<1>2. Views(file)[s] = View(file[s])
  BY ViewsAre
<1> QED
  BY <1>1, <1>2 DEF View

MovedView(o, s, p) == [o EXCEPT ![s].pos = p]

LEMMA ViewsMoved ==
  ASSUME NEW f \in FilesType, NEW s \in Slot, f[s] \in FileType, f[s].name \in Name, NEW p, NEW g,
         g = [f EXCEPT ![s].seekPosition = p]
  PROVE  Views(g) = MovedView(Views(f), s, p)
<1>1. PICK x, y : x = f[s] /\ y = [x EXCEPT !.seekPosition = p]
  OBVIOUS
<1>2. (\A k \in Slot : k # s => g[k] = f[k]) /\ g[s] = y
  BY <1>1 DEF FilesType
<1>3. y.name = x.name /\ y.seekPosition = p /\ y.live = x.live /\ x # Null
  BY <1>1, FileIs DEF FileType
<1>4. y # Null
  <2>1. x.name \in Name
    BY <1>1
  <2>2. y.name # Null.name
    BY <1>3, <2>1, FileIs
  <2> QED
    BY <2>2
<1>5. PICK v : v = View(g[s])
  OBVIOUS
<1>6. v = [name |-> x.name, pos |-> p, live |-> x.live]
  BY <1>1, <1>2, <1>3, <1>4, <1>5 DEF View
<1>7. PICK o : o = Views(f)
  OBVIOUS
<1>8. o[s] = View(x)
  BY <1>1, <1>7, ViewsAre
<1>9. o[s] = [name |-> x.name, pos |-> x.seekPosition, live |-> x.live]
  BY <1>1, <1>3, <1>8 DEF View
<1>10. v = [o[s] EXCEPT !.pos = p]
  BY <1>6, <1>9
<1>11. Views(g) = Changed(o, s, v)
  BY ONLY s \in Slot, <1>2, <1>5, <1>7, ViewsChange
<1> QED
  BY <1>7, <1>10, <1>11 DEF Changed, MovedView

LEMMA FlatSeek ==
  ASSUME IInv, NEW s \in Slot, NEW p \in Position, Seek(s, p)
  PROVE  Flat!Call(event')
<1>1. PICK f, g : f = file /\ g = file'
  OBVIOUS
<1>2. /\ event'.op = "seek" /\ event'.slot = s /\ event'.pos = p /\ g = [f EXCEPT ![s].seekPosition = p]
      /\ files' = files /\ intact' = intact /\ failed = "no" /\ s \in UserSlot
  BY <1>1 DEF Seek
<1>3. f \in FilesType /\ f[s] \in FileType /\ f[s].name \in Name
  BY <1>1, <1>2, UserSlotIs DEF IInv, StateOK
<1>4. Views(g) = MovedView(Views(f), s, p)
  BY ONLY s \in Slot, <1>2, <1>3, ViewsMoved
<1>5. Views(file') = [Views(file) EXCEPT ![event'.slot].pos = event'.pos]
  BY <1>1, <1>2, <1>4 DEF MovedView
<1>6. Flat!Seek(event')
  BY <1>2, <1>5 DEF Flat!Seek, Views
<1> QED
  BY <1>2, <1>6 DEF Flat!Call

(* Files that stay what they are, whatever happens to n.                   *)
OthersStay(fs, gs, n) == \A m \in DOMAIN fs \ {n} : m \in DOMAIN gs /\ gs[m] = fs[m]

CreatedIn(fs, gs, n, size) ==
  /\ n \notin DOMAIN fs /\ DOMAIN gs = DOMAIN fs \cup {n}
  /\ Len(gs[n]) = size /\ OthersStay(fs, gs, n)

LEMMA CreateFiles ==
  ASSUME NEW d, Sound(d), Exact(d), NEW n \in Name, NEW size \in Nat, NEW e,
         e = Apply(d, CreateWrites(d, n, size).writes), CreateWrites(d, n, size).ok
  PROVE  CreatedIn(FilesOn(d), FilesOn(e), n, size)
<1>0. n \in EntryName
  BY SizesAre
<1>1. Sound(e) /\ \E s, h, i : CreatedAs(d, e, n, size, s, h, i)
  BY <1>0, CreateChange
<1>2. PICK s, h, i : CreatedAs(d, e, n, size, s, h, i)
  BY <1>1
<1>3. PICK t \in TableType : t = FetchDirectory(d)
  BY SoundIs DEF SoundTable
<1>4. PICK u \in TableType : u = FetchDirectory(e)
  BY <1>1, SoundIs DEF SoundTable
<1>5. /\ Creation(d, n, size, s, h, i) /\ e[s].hdr = h /\ u = TableAfter(d, n, s, i)
      /\ \A j \in Used(t) : t[j].name # n
  BY <1>2, <1>3, <1>4 DEF CreatedAs, Creation
<1>6. Shape(h) /\ h.numBytes = size
  BY <1>5 DEF Creation, UserHeader
<1>7. AddedTo(u, t, i, s, n)
  BY <1>0, <1>3, <1>5, CreateTable
<1>8. i \in Used(u) /\ u[i].name = n /\ u[i].sector = s /\ \A j \in Used(u) : j < i => u[j].name # n
  BY <1>5, <1>7 DEF AddedTo, Used
<1>9. Find(u, n) = s
  BY <1>4, <1>8, FindFirst
<1>10. Find(t, n) = -1
  BY <1>5, FindIs
<1>11. s # -1
  BY <1>8, TableIs DEF Used
<1>12. PICK fs, gs : fs = FilesOn(d) /\ gs = FilesOn(e)
  OBVIOUS
<1>13. /\ DOMAIN fs = {m \in Name : Find(t, m) # -1}
       /\ DOMAIN gs = {m \in Name : Find(u, m) # -1}
       /\ \A m \in DOMAIN gs : gs[m] = Contents(e, Find(u, m))
  BY <1>3, <1>4, <1>12, FilesAre
<1>14. \A m : m # n => Find(u, m) = Find(t, m)
  BY <1>0, <1>2, <1>3, <1>4, CreateFind
<1>15. n \notin DOMAIN fs /\ DOMAIN gs = DOMAIN fs \cup {n}
  BY <1>9, <1>10, <1>11, <1>13, <1>14
<1>16. Len(gs[n]) = size
  <2>1. gs[n] = Contents(e, s)
    BY <1>9, <1>13, <1>15
  <2>2. e \in DiskType
    BY <1>1, SoundIs
  <2>3. Got(Contents(e, s), e, e[s].hdr, 0, e[s].hdr.numBytes)
    BY <1>5, <1>6, <2>2, ContentsAre
  <2> QED
    BY <1>5, <1>6, <2>1, <2>3 DEF Got
<1>17. ASSUME NEW m \in DOMAIN fs, m # n PROVE m \in DOMAIN gs /\ gs[m] = fs[m]
  <2>1. PICK q : q = Find(t, m)
    OBVIOUS
  <2>2. m \in Name /\ q # -1
    BY <1>13, <1>17, <2>1
  <2>3. Holds(d, m, q)
    BY <1>3, <2>1, <2>2, ExactHolds
  <2>4. Carries(d, e, m)
    BY <1>0, <1>17, CreateHolds
  <2>5. Holds(e, m, q) /\ Same(d, e, q)
    BY <2>3, <2>4 DEF Carries
  <2> QED
    BY <1>1, <1>12, <2>2, <2>3, <2>5, FileKept
<1>18. OthersStay(fs, gs, n)
  BY <1>17 DEF OthersStay
<1> QED
  BY <1>12, <1>15, <1>16, <1>18 DEF CreatedIn

LEMMA FlatCreate ==
  ASSUME IInv, intact, NEW n \in Name, NEW size \in Size, Create(n, size)
  PROVE  Flat!Call(event')
<1>1. PICK ok : ok = CreateWrites(disk, n, size).ok
  OBVIOUS
<1>2. PICK e : e = Apply(disk, CreateWrites(disk, n, size).writes)
  OBVIOUS
<1>3. /\ event'.op = "create" /\ event'.name = n /\ event'.size = size /\ event'.ok = ok
      /\ file' = file /\ intact' = intact /\ files' = FilesOn(e)
  BY <1>1, <1>2 DEF Create, Stored
<1>4. Sound(disk) /\ Exact(disk) /\ files = FilesOn(disk) /\ size \in Nat /\ n \in EntryName
  BY SizesAre DEF IInv, StateOK
<1>5. (e = disk /\ ok = FALSE) \/ ok
  BY <1>1, <1>2, <1>4, CreateChange
<1>6. CASE ok
  <2>1. /\ n \notin DOMAIN files /\ DOMAIN files' = DOMAIN files \cup {n}
        /\ Len(files'[n]) = size /\ OthersStay(files, files', n)
    <3>1. CreateWrites(disk, n, size).ok
      BY <1>1, <1>6
    <3>2. CreatedIn(FilesOn(disk), FilesOn(e), n, size)
      BY <1>2, <1>4, <3>1, CreateFiles
    <3> QED
      BY <1>3, <1>4, <3>2 DEF CreatedIn
  <2>2. Flat!Others(event'.name)
    BY <1>3, <2>1 DEF OthersStay, Flat!Others
  <2>3. Flat!Create(event')
    BY <1>3, <1>6, <2>1, <2>2 DEF Flat!Create
  <2> QED
    BY <1>3, <2>3 DEF Flat!Call
<1>7. CASE e = disk /\ ok = FALSE
  <2>1. files' = files
    BY <1>3, <1>4, <1>7
  <2>2. Flat!Create(event')
    BY <1>3, <1>7, <2>1 DEF Flat!Create
  <2> QED
    BY <1>3, <2>2 DEF Flat!Call
<1> QED
  BY <1>5, <1>6, <1>7

LEMMA RemoveFiles ==
  ASSUME NEW d, Sound(d), Exact(d), NEW n \in Name, NEW s, NEW i, Removal(d, n, s, i), NEW e,
         e = Apply(d, RemoveWrites(d, n))
  PROVE  DOMAIN FilesOn(e) = DOMAIN FilesOn(d) \ {n} /\ OthersStay(FilesOn(d), FilesOn(e), n)
<1>1. /\ Sound(e) /\ FetchDirectory(e) = TableLeft(d, n) /\ FetchMap(e) = MapLeft(d, s)
      /\ \A q \in Sector : q \notin Sys => e[q] = d[q]
  BY RemoveDone
<1>2. PICK t \in TableType : t = FetchDirectory(d)
  BY SoundIs DEF SoundTable
<1>3. PICK u \in TableType : u = FetchDirectory(e)
  BY <1>1, SoundIs DEF SoundTable
<1>4. RemovePart(d, e, n, s, i)
  BY <1>1 DEF RemovePart, PartTable
<1>5. /\ Used(u) = Used(t) \ {i} /\ \A j \in 1 .. NumDirEntries : j # i => u[j] = t[j]
  BY <1>1, <1>2, <1>3, RemovalIs
<1>6. i \in Used(t) /\ i \in 1 .. NumDirEntries /\ t[i].name = n
  BY <1>2 DEF Removal, Used
<1>7. OneName(t)
  BY <1>2 DEF Exact, ExactOn
<1>8. \A j \in Used(u) : u[j].name # n
  BY <1>5, <1>6, <1>7 DEF OneName, Used
<1>9. Find(u, n) = -1
  BY <1>8, FindIs
<1>10. ASSUME NEW m, m # n PROVE Find(u, m) = Find(t, m)
  <2>1. \A j \in 1 .. NumDirEntries : (j \in Used(u) /\ u[j].name = m) <=> (j \in Used(t) /\ t[j].name = m)
    BY <1>5, <1>6, <1>10
  <2>2. \A j \in Used(t) : t[j].name = m => u[j].sector = t[j].sector
    BY <1>5, <1>6, <1>10 DEF Used
  <2> QED
    BY <2>1, <2>2, FindSame
<1>11. PICK fs, gs : fs = FilesOn(d) /\ gs = FilesOn(e)
  OBVIOUS
<1>12. /\ DOMAIN fs = {m \in Name : Find(t, m) # -1}
       /\ DOMAIN gs = {m \in Name : Find(u, m) # -1}
  BY <1>2, <1>3, <1>11, FilesAre
<1>13. DOMAIN gs = DOMAIN fs \ {n}
  BY <1>9, <1>10, <1>12
<1>14. ASSUME NEW m \in DOMAIN fs, m # n PROVE m \in DOMAIN gs /\ gs[m] = fs[m]
  <2>1. PICK q : q = Find(t, m)
    OBVIOUS
  <2>2. m \in Name /\ q # -1
    BY <1>12, <1>14, <2>1
  <2>3. Kept(d, e, m, q)
    BY <1>2, <1>4, <1>14, <2>1, <2>2, RemovePartHolds
  <2> QED
    BY <1>1, <1>11, <2>2, <2>3, KeptFile
<1>15. OthersStay(fs, gs, n)
  BY <1>14 DEF OthersStay
<1> QED
  BY <1>11, <1>13, <1>15

(* Open files of a removed name.                                           *)
Dead(o, n) == [s \in Slot |-> IF o[s] # Null /\ o[s].name = n THEN [o[s] EXCEPT !.live = FALSE] ELSE o[s]]

LEMMA ViewsDead ==
  ASSUME NEW f \in FilesType, NEW g, NEW n \in Name,
         \A s \in Slot : /\ f[s].name # n => g[s] = f[s]
                         /\ f[s].name = n => /\ g[s].name = n /\ g[s].seekPosition = f[s].seekPosition
                                             /\ g[s].live = FALSE
  PROVE  Views(g) = Dead(Views(f), n)
<1>1. PICK o : o = Views(f)
  OBVIOUS
<1>2. PICK o2 : o2 = Views(g)
  OBVIOUS
<1>3. PICK o3 : o3 = Dead(o, n)
  OBVIOUS
<1>4. o2 = [s \in Slot |-> o2[s]] /\ o3 = [s \in Slot |-> o3[s]]
  BY <1>2, <1>3 DEF Views, Dead
<1>5. ASSUME NEW s \in Slot PROVE o2[s] = o3[s]
  <2>1. PICK x, y : x = f[s] /\ y = g[s]
    OBVIOUS
  <2>2. o[s] = View(x) /\ o2[s] = View(y)
    BY <1>1, <1>2, <2>1, ViewsAre
  <2>3. o3[s] = IF o[s] # Null /\ o[s].name = n THEN [o[s] EXCEPT !.live = FALSE] ELSE o[s]
    BY <1>3 DEF Dead
  <2>4. CASE x.name # n
    <3>1. x = y
      BY <2>1, <2>4
    <3>2. ~(o[s] # Null /\ o[s].name = n)
      BY <2>2, <2>4, ViewIs
    <3> QED
      BY <2>2, <2>3, <3>1, <3>2
  <2>5. CASE x.name = n
    <3>1. y.name = n /\ y.seekPosition = x.seekPosition /\ y.live = FALSE
      BY <2>1, <2>5
    <3>2. x # Null /\ y # Null
      BY <2>5, <3>1, FileIs
    <3>3. o[s] = [name |-> n, pos |-> x.seekPosition, live |-> x.live]
      BY <2>2, <2>5, <3>2 DEF View
    <3>4. o2[s] = [name |-> n, pos |-> x.seekPosition, live |-> FALSE]
      BY <2>2, <3>1, <3>2 DEF View
    <3>5. o[s] # Null /\ o[s].name = n
      BY <2>2, <2>5, <3>2, ViewIs
    <3>6. o3[s] = [o[s] EXCEPT !.live = FALSE]
      BY <2>3, <3>5
    <3>7. \A p, l, c : [[name |-> n, pos |-> p, live |-> l] EXCEPT !.live = c]
                         = [name |-> n, pos |-> p, live |-> c]
      OBVIOUS
    <3>8. o3[s] = [[name |-> n, pos |-> x.seekPosition, live |-> x.live] EXCEPT !.live = FALSE]
      BY ONLY <3>3, <3>6
    <3> QED
      BY ONLY <3>4, <3>7, <3>8
  <2> QED
    BY <2>4, <2>5
<1>6. o2 = o3
  BY <1>4, <1>5
<1> QED
  BY <1>1, <1>2, <1>3, <1>6

LEMMA FlatRemove ==
  ASSUME IInv, intact, NEW n \in Name, Remove(n)
  PROVE  Flat!Call(event')
<1>1. /\ event'.op = "remove" /\ event'.name = n /\ intact' = intact
      /\ \/ /\ Where(n) = -1 /\ ~event'.ok /\ UNCHANGED <<disk, files, file>>
         \/ /\ Where(n) # -1 /\ event'.ok /\ disk' = Apply(disk, RemoveWrites(disk, n))
            /\ files' = FilesOn(disk') /\ file' = Removed(file, n)
            /\ \E i : Removal(disk, n, Where(n), i)
  BY RemoveChange
<1>2. Sound(disk) /\ Exact(disk) /\ files = FilesOn(disk) /\ file \in FilesType /\ AllCurrent(file, disk)
  BY DEF IInv, StateOK
<1>3. Where(n) # -1 <=> n \in DOMAIN files
  BY <1>2, FilesAre DEF Where
<1>4. PICK f, g : f = file /\ g = file'
  OBVIOUS
<1>5. ASSUME Flat!Others(event'.name), DOMAIN files' = DOMAIN files \ {n}, event'.ok <=> n \in DOMAIN files,
             Views(g) = Dead(Views(f), n)
      PROVE  Flat!Call(event')
  <2>1. Views(file') = Dead(Views(file), event'.name)
    BY <1>1, <1>4, <1>5
  <2>2. Flat!Remove(event')
    BY <1>1, <1>5, <2>1 DEF Flat!Remove, Views, Dead
  <2> QED
    BY <1>1, <2>2 DEF Flat!Call
<1>6. CASE Where(n) = -1
  <2>1. ~event'.ok /\ files' = files /\ g = f
    BY <1>1, <1>4, <1>6
  <2>2. Flat!Others(event'.name)
    BY <2>1 DEF Flat!Others
  <2>3. ASSUME NEW s \in Slot, f[s].name = n PROVE f[s].live = FALSE
    <3>1. f[s] \in FileType
      BY <1>2, <1>4, <2>3, FileIs DEF FilesType
    <3>2. f[s].live \in BOOLEAN /\ f[s].sector # -1
      BY <3>1, FileIs DEF Sector
    <3>3. ~f[s].live
      BY <1>2, <1>4, <1>6, <2>3, <3>1, <3>2 DEF AllCurrent, Current, Where
    <3> QED
      BY <3>2, <3>3
  <2>4. Views(g) = Dead(Views(f), n)
    <3>1. f \in FilesType
      BY <1>2, <1>4
    <3>2. \A s \in Slot :
            /\ f[s].name # n => g[s] = f[s]
            /\ f[s].name = n => g[s].name = n /\ g[s].seekPosition = f[s].seekPosition /\ g[s].live = FALSE
      BY <2>1, <2>3
    <3> QED
      BY ONLY n \in Name, <3>1, <3>2, ViewsDead
  <2>5. DOMAIN files' = DOMAIN files \ {n} /\ (event'.ok <=> n \in DOMAIN files)
    BY <1>3, <1>6, <2>1
  <2> QED
    BY <1>5, <2>2, <2>4, <2>5
<1>7. CASE Where(n) # -1
  <2>1. /\ event'.ok /\ disk' = Apply(disk, RemoveWrites(disk, n)) /\ files' = FilesOn(disk')
        /\ file' = Removed(file, n) /\ \E i : Removal(disk, n, Where(n), i)
    BY <1>1, <1>7
  <2>2. DOMAIN files' = DOMAIN files \ {n} /\ OthersStay(files, files', n)
    <3>1. PICK e : e = Apply(disk, RemoveWrites(disk, n))
      OBVIOUS
    <3>2. PICK i : Removal(disk, n, Where(n), i)
      BY <2>1
    <3>3. DOMAIN FilesOn(e) = DOMAIN FilesOn(disk) \ {n} /\ OthersStay(FilesOn(disk), FilesOn(e), n)
      BY <1>2, <3>1, <3>2, RemoveFiles
    <3> QED
      BY <1>2, <2>1, <3>1, <3>3
  <2>3. Flat!Others(event'.name)
    BY <1>1, <2>2 DEF OthersStay, Flat!Others
  <2>4. ASSUME NEW s \in Slot
        PROVE  /\ f[s].name # n => g[s] = f[s]
               /\ f[s].name = n => g[s].name = n /\ g[s].seekPosition = f[s].seekPosition /\ g[s].live = FALSE
    <3>1. g[s] = IF f[s].name = n THEN [f[s] EXCEPT !.live = FALSE] ELSE f[s]
      BY <1>4, <2>1 DEF Removed
    <3>2. f[s].name = n => f[s] \in FileType
      BY <1>2, <1>4, FileIs DEF FilesType
    <3> QED
      BY <3>1, <3>2 DEF FileType
  <2>5. Views(g) = Dead(Views(f), n)
    BY <1>2, <1>4, <2>4, ViewsDead
  <2> QED
    BY <1>3, <1>5, <1>7, <2>1, <2>2, <2>3, <2>5
<1> QED
  BY <1>6, <1>7

(* After a restart no user file is open.                                   *)
LEMMA ConsoleViews ==
  ASSUME NEW d, Sound(d)
  PROVE  \A s \in Slot : Views(OpenConsole(d))[s] = Null
<1> SUFFICES ASSUME NEW s \in Slot PROVE Views(OpenConsole(d))[s] = Null
  OBVIOUS
<1>1. PICK f : f = OpenConsole(d)[s]
  OBVIOUS
<1>2. f = Null \/ f.name = "stdin" \/ f.name = "stdout"
  BY <1>1, ConsoleIs DEF ConsoleOnly, Fresh
<1>3. View(f) = Null
  BY <1>2, FileIs DEF View
<1> QED
  BY <1>1, <1>3, ViewsAre

LEMMA FlatRestart ==
  ASSUME IInv, intact, Restart
  PROVE  Flat!Call(event')
<1>1. Sound(disk) /\ Exact(disk) /\ files = FilesOn(disk)
  BY DEF IInv, StateOK
<1>2. PICK b : b = BootDisk(disk)
  OBVIOUS
<1>3. /\ event'.op = "restart" /\ event'.interrupted = FALSE /\ file' = OpenConsole(b) /\ files' = FilesOn(b)
      /\ intact' = (intact /\ ~FALSE)
  BY <1>2 DEF Restart, RestartOn, Stored
<1>4. Sound(b) /\ FilesOn(b) = FilesOn(disk)
  BY <1>1, <1>2, BootIs, BootFiles
<1>5. \A s \in Slot : Views(file')[s] = Null
  BY <1>3, <1>4, ConsoleViews
<1>6. files' = files /\ intact' = intact
  BY <1>1, <1>3, <1>4
<1>7. Flat!Restart(event')
  BY <1>3, <1>5, <1>6 DEF Flat!Restart, Views
<1> QED
  BY <1>3, <1>7 DEF Flat!Call

LEMMA FlatCrash ==
  ASSUME IInv, NEW n, Crashed(n)
  PROVE  Flat!Call(event')
<1>1. files = FilesOn(disk) /\ Sound(disk)
  BY DEF IInv, StateOK
<1>2. PICK e : Survives(disk, e, n) /\ disk' = BootDisk(e)
  BY DEF Crashed
<1>3. PICK b : b = BootDisk(e)
  OBVIOUS
<1>4. /\ event'.op = "restart" /\ event'.interrupted = TRUE /\ event'.name = n /\ intact' = FALSE
      /\ file' = OpenConsole(b) /\ files' = FilesOn(b)
  BY <1>2, <1>3 DEF Crashed
<1>5. Sound(e) /\ Sound(b)
  BY <1>2, <1>3, BootIs DEF Survives
<1>6. \A s \in Slot : Views(file')[s] = Null
  BY <1>4, <1>5, ConsoleViews
<1>7. ASSUME NEW m \in DOMAIN files, m # n PROVE m \in DOMAIN files' /\ files'[m] = files[m]
  <2>1. PICK q : q = Find(FetchDirectory(disk), m)
    OBVIOUS
  <2>2. m \in Name /\ q # -1
    BY <1>1, <1>7, <2>1, FilesAre
  <2>3. Kept(disk, e, m, q)
    BY <1>2, <1>7, <2>1, <2>2 DEF Survives
  <2>4. m \in DOMAIN FilesOn(b) /\ FilesOn(b)[m] = FilesOn(disk)[m]
    BY <1>1, <1>3, <1>5, <2>2, <2>3, KeptFile
  <2> QED
    BY <1>1, <1>4, <2>4
<1>8. Flat!Others(event'.name)
  BY <1>4, <1>7 DEF Flat!Others
<1>9. Flat!Restart(event')
  BY <1>4, <1>6, <1>8 DEF Flat!Restart, Views
<1> QED
  BY <1>4, <1>9 DEF Flat!Call
-----------------------------------------------------------------------------
(* Transfers.                                                              *)

(* How many bytes of n there are in b from p on.                           *)
Fits(m, b, n, p) == m \in Nat /\ (p >= b => m = 0) /\ (p < b => Available(m, b, n, p))

LEMMA FitsCount ==
  ASSUME NEW b \in Nat, NEW n \in Nat, NEW p \in Nat, NEW m, Fits(m, b, n, p)
  PROVE  Cardinality({k \in p + 1 .. p + n : k <= b}) = m
<1>1. m \in Nat /\ (p >= b => m = 0) /\ (p < b => Available(m, b, n, p))
  BY DEF Fits
<1>2. \A k \in Int : (k \in p + 1 .. p + n /\ k <= b) <=> k \in p + 1 .. p + m
  BY <1>1 DEF Available
<1>3. {k \in p + 1 .. p + n : k <= b} = p + 1 .. p + m
  BY <1>2
<1>4. p + 1 \in Int /\ p + m \in Int
  BY <1>1
<1>5. Cardinality(p + 1 .. p + m) = IF p + 1 > p + m THEN 0 ELSE (p + m) - (p + 1) + 1
  BY <1>4, FS_Interval
<1>6. Cardinality(p + 1 .. p + m) = m
  BY <1>1, <1>5
<1> QED
  BY <1>3, <1>6

LEMMA SameCardinality == \A S : Flat!Cardinality(S) = Cardinality(S)
BY DEF Flat!Cardinality, Cardinality

IsPart(x, s, p, m) ==
  /\ x \in Seq(Byte) /\ Len(x) = m /\ x = [i \in 1 .. m |-> x[i]]
  /\ \A i \in 1 .. m : x[i] = s[p + i]

LEMMA PartIs ==
  ASSUME NEW s \in Seq(Byte), NEW n \in Nat, NEW p \in Nat, NEW m, Fits(m, Len(s), n, p), NEW x, x = Flat!Part(s, p, n)
  PROVE  IsPart(x, s, p, m)
<1>1. PICK b \in Nat : b = Len(s)
  OBVIOUS
<1>2. m \in Nat /\ (p >= b => m = 0) /\ (p < b => Available(m, b, n, p))
  BY <1>1 DEF Fits
<1>3. PICK c : c = Flat!Cardinality({k \in p + 1 .. p + n : k <= Len(s)})
  OBVIOUS
<1>4. x = [i \in 1 .. m |-> s[p + i]]
  <2>1. c = Cardinality({k \in p + 1 .. p + n : k <= b})
    BY <1>1, <1>3, SameCardinality
  <2>2. Cardinality({k \in p + 1 .. p + n : k <= b}) = m
    BY <1>1, FitsCount
  <2>3. x = [i \in 1 .. Flat!Cardinality({k \in p + 1 .. p + n : k <= Len(s)}) |-> s[p + i]]
    BY DEF Flat!Part
  <2>4. x = [i \in 1 .. c |-> s[p + i]]
    BY ONLY <1>3, <2>3, Zenon
  <2> QED
    BY <2>1, <2>2, <2>4
<1>5. \A i \in 1 .. m : p + i \in 1 .. b
  BY <1>2 DEF Available
<1>6. \A i \in 1 .. m : s[p + i] \in Byte
  BY <1>1, <1>5
<1>7. x \in [1 .. m -> Byte]
  BY <1>4, <1>6
<1>8. x \in Seq(Byte) /\ Len(x) = m
  BY <1>2, <1>7
<1> QED
  BY <1>4, <1>8 DEF IsPart

(* ReadAt, beyond the end of the file too.                                 *)
LEMMA ReadFits ==
  ASSUME NEW d \in DiskType, NEW h, Shape(h), NEW n \in Nat, NEW p \in Nat
  PROVE  \E m : Fits(m, h.numBytes, n, p) /\ Got(ReadAt(d, h, n, p), d, h, p, m)
<1>1. h.numBytes \in Nat
  BY ShapeIs
<1>2. PICK m \in Nat : Got(ReadAt(d, h, n, p), d, h, p, m) /\ Available(m, h.numBytes, n, p)
  BY ReadAtIs
<1>3. p >= h.numBytes => m = 0
  <2> SUFFICES ASSUME p >= h.numBytes PROVE m = 0
    OBVIOUS
  <2>1. ReadAt(d, h, n, p) = <<>>
    BY DEF ReadAt
  <2> QED
    BY <1>2, <2>1 DEF Got
<1> QED
  BY <1>1, <1>2, <1>3 DEF Fits

LEMMA ReadPart ==
  ASSUME NEW d \in DiskType, NEW h, Shape(h), NEW n \in Nat, NEW p \in Nat,
         NEW s, Got(s, d, h, 0, h.numBytes), NEW r, r = ReadAt(d, h, n, p)
  PROVE  r = Flat!Part(s, p, n)
<1>1. PICK b \in Nat : b = h.numBytes
  BY ShapeIs
<1>2. s \in Seq(Byte) /\ Len(s) = b /\ \A k \in Nat : k < b => s[k + 1] = At(d, h, 0 + k)
  BY <1>1 DEF Got
<1>3. PICK m : Fits(m, b, n, p) /\ Got(r, d, h, p, m)
  BY <1>1, ReadFits
<1>4. m \in Nat /\ (p >= b => m = 0) /\ (p < b => Available(m, b, n, p))
  BY <1>3 DEF Fits
<1>5. r \in Seq(Byte) /\ Len(r) = m /\ \A k \in Nat : k < m => r[k + 1] = At(d, h, p + k)
  BY <1>3 DEF Got
<1>6. PICK x : x = Flat!Part(s, p, n)
  OBVIOUS
<1>7. IsPart(x, s, p, m)
  BY <1>2, <1>3, <1>6, PartIs
<1>8. x \in Seq(Byte) /\ Len(x) = m /\ \A i \in 1 .. m : x[i] = s[p + i]
  BY <1>7 DEF IsPart
<1>9. ASSUME NEW i \in 1 .. m PROVE r[i] = x[i]
  <2>1. PICK k \in Nat : k = i - 1 /\ k < m
    BY <1>4
  <2>2. r[i] = At(d, h, p + k)
    BY <1>5, <2>1
  <2>3. PICK a \in Nat : a = p + k /\ a < b
    BY <1>4, <2>1 DEF Available
  <2>4. s[a + 1] = At(d, h, a)
    BY <1>2, <2>3
  <2>5. p + i = a + 1
    BY <2>1, <2>3
  <2> QED
    BY <1>8, <2>2, <2>3, <2>4, <2>5
<1> QED
  BY <1>5, <1>6, <1>8, <1>9

(* An open file that is live.                                              *)
LEMMA LiveFile ==
  ASSUME NEW d, Sound(d), Exact(d), NEW f \in FileType, f.name \in Name, Current(f, d)
  PROVE  /\ Holds(d, f.name, f.sector) /\ f.hdr = d[f.sector].hdr /\ Shape(f.hdr) /\ d \in DiskType
         /\ f.name \in DOMAIN FilesOn(d) /\ FilesOn(d)[f.name] = Contents(d, f.sector)
         /\ Got(FilesOn(d)[f.name], d, f.hdr, 0, f.hdr.numBytes)
<1>1. PICK q, m : q = f.sector /\ m = f.name
  OBVIOUS
<1>2. q = Find(FetchDirectory(d), m) /\ f.hdr = d[q].hdr /\ q # -1
  BY <1>1, FileIs DEF Current, Sector
<1>3. Holds(d, m, q)
  BY <1>2, ExactHolds
<1>4. m \in DOMAIN FilesOn(d) /\ FilesOn(d)[m] = Contents(d, q) /\ Shape(d[q].hdr)
  BY <1>1, <1>3, HoldsIs
<1>5. d \in DiskType
  BY SoundIs
<1>6. Got(Contents(d, q), d, d[q].hdr, 0, d[q].hdr.numBytes)
  BY <1>4, <1>5, ContentsAre
<1> QED
  BY <1>1, <1>2, <1>3, <1>4, <1>5, <1>6

LEMMA FlatRead ==
  ASSUME IInv, intact, NEW s \in Slot, Read(s, SectorSize)
  PROVE  Flat!Call(event')
<1>1. PICK x, p : x = file[s] /\ p = x.seekPosition
  OBVIOUS
<1>2. PICK r : r = ReadAt(disk, x.hdr, SectorSize, p)
  OBVIOUS
<1>3. PICK f, g : f = file /\ g = file'
  OBVIOUS
<1>4. /\ event'.op = "read" /\ event'.slot = s /\ event'.want = SectorSize /\ event'.got = r
      /\ failed = "no" /\ s \in UserSlot /\ files' = files /\ intact' = intact
      /\ g = [f EXCEPT ![s].seekPosition = p + Len(r)]
  BY <1>1, <1>2, <1>3 DEF Read
<1>5. Sound(disk) /\ Exact(disk) /\ files = FilesOn(disk) /\ f \in FilesType /\ AllCurrent(file, disk)
  BY <1>3 DEF IInv, StateOK
<1>6. x \in FileType /\ x.name \in Name /\ f[s] = x
  BY <1>1, <1>3, <1>4, UserSlotIs
<1>7. p \in Nat /\ SectorSize \in Nat
  BY <1>1, <1>6, FileIs, TimesIs
<1>8. Views(file)[s].name = x.name /\ Views(file)[s].pos = p /\ Views(file)[s].live = x.live
  BY <1>1, <1>4, UserView
<1>9. ASSUME x.live PROVE r = Flat!Part(files[x.name], p, SectorSize)
  <2>1. Current(x, disk)
    BY <1>1, <1>5, <1>6, <1>9 DEF AllCurrent
  <2>2. Shape(x.hdr) /\ disk \in DiskType /\ Got(files[x.name], disk, x.hdr, 0, x.hdr.numBytes)
    BY <1>5, <1>6, <2>1, LiveFile
  <2> QED
    BY <1>2, <1>7, <2>2, ReadPart
<1>10. Views(file)[event'.slot].live =>
         event'.got = Flat!Part(files[Views(file)[event'.slot].name], Views(file)[event'.slot].pos, event'.want)
  BY <1>4, <1>8, <1>9
<1>11. PICK z : z = p + Len(r)
  OBVIOUS
<1>12. Views(g) = MovedView(Views(f), s, z)
  <2>1. g = [f EXCEPT ![s].seekPosition = z] /\ f \in FilesType /\ f[s] \in FileType /\ f[s].name \in Name
    BY <1>4, <1>5, <1>6, <1>11
  <2> QED
    BY ONLY s \in Slot, <2>1, ViewsMoved
<1>13. z = Views(file)[event'.slot].pos + Len(event'.got)
  BY <1>4, <1>8, <1>11
<1>14. Views(file') = [Views(file) EXCEPT ![event'.slot].pos = Views(file)[event'.slot].pos + Len(event'.got)]
  BY <1>3, <1>4, <1>12, <1>13 DEF MovedView
<1>15. Flat!Read(event')
  BY <1>4, <1>10, <1>14 DEF Flat!Read, Views
<1> QED
  BY <1>4, <1>15 DEF Flat!Call

LEMMA CountFits ==
  ASSUME NEW h, Shape(h), NEW from \in Seq(Byte), NEW p \in Nat, NEW n, n = Count(h, from, p)
  PROVE  Fits(n, h.numBytes, Len(from), p)
<1>1. PICK b \in Nat : b = h.numBytes
  BY ShapeIs
<1>2. PICK l \in Nat : l = Len(from)
  OBVIOUS
<1>3. /\ n \in Nat /\ n <= l /\ (n > 0 => p + n <= b) /\ (p + l <= b => n = l)
      /\ (p < b /\ p + l >= b => p + n = b)
  BY <1>1, <1>2, CountIs
<1>4. p >= b => n = 0
  BY <1>1 DEF Count
<1>5. p < b => Available(n, b, l, p)
  BY <1>3 DEF Available
<1> QED
  BY <1>1, <1>2, <1>3, <1>4, <1>5 DEF Fits

(* WriteAt puts its bytes over those of the file.                          *)
LEMMA WriteOverlap ==
  ASSUME NEW d \in DiskType, NEW h, Shape(h), NEW from \in Seq(Byte), NEW p \in Nat, NEW e,
         e = Apply(d, WriteAt(d, h, from, p)),
         NEW s, Got(s, d, h, 0, h.numBytes), NEW r, Got(r, e, h, 0, h.numBytes)
  PROVE  r = Flat!Overlap(s, p, from)
<1>1. PICK b \in Nat : b = h.numBytes
  BY ShapeIs
<1>2. PICK l \in Nat : l = Len(from)
  OBVIOUS
<1>3. PICK n : n = Count(h, from, p)
  OBVIOUS
<1>4. Fits(n, b, l, p)
  BY <1>1, <1>2, <1>3, CountFits
<1>5. n \in Nat /\ (p >= b => n = 0) /\ (p < b => Available(n, b, l, p))
  BY <1>4 DEF Fits
<1>6. s \in Seq(Byte) /\ Len(s) = b /\ \A k \in Nat : k < b => s[k + 1] = At(d, h, 0 + k)
  BY <1>1 DEF Got
<1>7. r \in Seq(Byte) /\ Len(r) = b /\ \A k \in Nat : k < b => r[k + 1] = At(e, h, 0 + k)
  BY <1>1 DEF Got
<1>8. ASSUME NEW a \in Nat, a < b PROVE At(e, h, a) = NewByte(d, h, from, p, n, a)
  <2>1. PICK w : w = WriteAt(d, h, from, p)
    OBVIOUS
  <2>2. w \in Seq(WriteType) /\ Distinct(w) /\ WriteSet(Writes(w), d, h, from, p, n)
    BY <1>3, <2>1, WriteSetIs
  <2>3. PICK W : W = Writes(w)
    OBVIOUS
  <2>4. Effect(e, d, W)
    BY <2>1, <2>2, <2>3, ApplyEffect
  <2>5. a < h.numBytes /\ n \in Nat /\ WriteSet(W, d, h, from, p, n)
    BY <1>1, <1>5, <1>8, <2>2, <2>3
  <2> QED
    BY <2>4, <2>5, BytesWritten
<1>9. PICK x : x = Flat!Overlap(s, p, from)
  OBVIOUS
<1>10. x = [i \in 1 .. Len(s) |-> IF i \in p + 1 .. p + Len(from) THEN from[i - p] ELSE s[i]]
  BY <1>9 DEF Flat!Overlap
<1>11. DOMAIN x = 1 .. b /\ \A i \in 1 .. b : x[i] = IF i \in p + 1 .. p + l THEN from[i - p] ELSE s[i]
  BY <1>2, <1>6, <1>10
<1>12. ASSUME NEW i \in 1 .. b PROVE r[i] = x[i]
  <2>1. PICK a \in Nat : a = i - 1 /\ a < b /\ 0 + a = a /\ i = a + 1
    OBVIOUS
  <2>2. r[i] = NewByte(d, h, from, p, n, a) /\ s[i] = At(d, h, a)
    BY <1>6, <1>7, <1>8, <2>1
  <2>3. (p <= a /\ a < p + n) <=> i \in p + 1 .. p + l
    BY <1>5, <2>1 DEF Available
  <2>4. (a - p) + 1 = i - p
    BY <2>1
  <2> QED
    BY <1>11, <2>2, <2>3, <2>4 DEF NewByte
<1>13. r = [i \in 1 .. b |-> r[i]]
  BY <1>7
<1>14. x = [i \in 1 .. b |-> x[i]]
  BY <1>6, <1>10
<1> QED
  BY <1>9, <1>12, <1>13, <1>14

(* Write through a live OpenFile, for its own file and for the others.     *)
WrittenIn(fs, gs, m, p, from, n) ==
  /\ OthersStay(fs, gs, m) /\ DOMAIN gs = DOMAIN fs
  /\ gs[m] = Flat!Overlap(fs[m], p, from) /\ n = Len(Flat!Part(fs[m], p, Len(from)))

LEMMA WriteFiles ==
  ASSUME NEW d, Sound(d), Exact(d), NEW f \in FileType, f.name \in Name, Current(f, d), UserHeader(f.hdr),
         NEW from \in Seq(Byte), NEW p \in Nat, NEW e, e = Apply(d, WriteAt(d, f.hdr, from, p)),
         NEW n, n = Count(f.hdr, from, p)
  PROVE  WrittenIn(FilesOn(d), FilesOn(e), f.name, p, from, n)
<1>1. PICK q, m, h : q = f.sector /\ m = f.name /\ h = f.hdr
  OBVIOUS
<1>2. q \in Sector /\ m \in Name
  BY <1>1, FileIs
<1>3. /\ Holds(d, m, q) /\ h = d[q].hdr /\ Shape(h) /\ d \in DiskType
      /\ m \in DOMAIN FilesOn(d) /\ Got(FilesOn(d)[m], d, h, 0, h.numBytes)
  BY <1>1, LiveFile
<1>4. /\ Sound(e) /\ FetchMap(e) = FetchMap(d) /\ FetchDirectory(e) = FetchDirectory(d)
      /\ \A k \in Sector : k \notin Seqs!ToSet(h.dataSectors) => e[k] = d[k]
  BY <1>1, WriteDone
<1>5. WritePart(d, e, f.hdr)
  BY <1>1, <1>4 DEF WritePart
<1>6. PICK fs, gs : fs = FilesOn(d) /\ gs = FilesOn(e)
  OBVIOUS
<1>7. /\ DOMAIN gs = DOMAIN fs /\ DOMAIN fs = {y \in Name : Find(FetchDirectory(d), y) # -1}
      /\ \A y \in DOMAIN gs : gs[y] = Contents(e, Find(FetchDirectory(d), y))
  <2>1. DOMAIN fs = {y \in Name : Find(FetchDirectory(d), y) # -1}
    BY <1>6, FilesAre
  <2>2. /\ DOMAIN gs = {y \in Name : Find(FetchDirectory(e), y) # -1}
        /\ \A y \in DOMAIN gs : gs[y] = Contents(e, Find(FetchDirectory(e), y))
    BY <1>6, FilesAre
  <2>3. FetchDirectory(e) = FetchDirectory(d)
    BY <1>4
  <2> QED
    BY ONLY <2>1, <2>2, <2>3
<1>8. ASSUME NEW y \in DOMAIN fs, y # m PROVE y \in DOMAIN gs /\ gs[y] = fs[y]
  <2>1. PICK k : k = Find(FetchDirectory(d), y)
    OBVIOUS
  <2>2. y \in Name /\ k # -1
    BY <1>7, <1>8, <2>1
  <2>3. Kept(d, e, y, k)
    BY <1>1, <1>2, <1>5, <1>8, <2>1, <2>2, WritePartHolds
  <2> QED
    BY <1>4, <1>6, <2>2, <2>3, KeptFile
<1>9. Find(FetchDirectory(d), m) = q
  BY <1>3 DEF Holds
<1>10. e[q].hdr = h
  <2>1. Goes(d, e)
    BY <1>1, <1>2, <1>5, WritePartGoes
  <2>2. Current(f, e)
    BY <1>1, <1>2, <2>1 DEF Goes
  <2> QED
    BY <1>1, <2>2 DEF Current
<1>11. e \in DiskType
  BY <1>4, SoundIs
<1>12. Got(Contents(e, q), e, h, 0, h.numBytes)
  BY <1>3, <1>10, <1>11, ContentsAre
<1>13. gs[m] = Contents(e, q)
  BY <1>3, <1>6, <1>7, <1>9
<1>14. PICK s, r : s = fs[m] /\ r = gs[m]
  OBVIOUS
<1>15. Got(s, d, h, 0, h.numBytes) /\ Got(r, e, h, 0, h.numBytes)
  BY <1>3, <1>6, <1>12, <1>13, <1>14
<1>16. r = Flat!Overlap(s, p, from)
  <2>1. e = Apply(d, WriteAt(d, h, from, p))
    BY <1>1
  <2> QED
    BY ONLY <1>3, <1>15, <2>1, from \in Seq(Byte), p \in Nat, WriteOverlap
<1>17. n = Len(Flat!Part(s, p, Len(from)))
  <2>1. Fits(n, h.numBytes, Len(from), p)
    BY <1>1, <1>3, CountFits
  <2>2. s \in Seq(Byte) /\ Len(s) = h.numBytes
    BY <1>15 DEF Got
  <2>3. PICK x : x = Flat!Part(s, p, Len(from))
    OBVIOUS
  <2>4. PICK l \in Nat : l = Len(from)
    OBVIOUS
  <2>5. Fits(n, Len(s), l, p) /\ x = Flat!Part(s, p, l)
    BY <2>1, <2>2, <2>3, <2>4
  <2>6. IsPart(x, s, p, n)
    BY <2>2, <2>5, PartIs
  <2> QED
    BY <2>3, <2>6 DEF IsPart
<1>18. OthersStay(fs, gs, m)
  BY <1>8 DEF OthersStay
<1> QED
  BY <1>1, <1>6, <1>7, <1>14, <1>16, <1>17, <1>18 DEF WrittenIn

LEMMA FlatWrite ==
  ASSUME IInv, intact, NEW s \in Slot, NEW data \in Data, Write(s, data)
  PROVE  Flat!Call(event')
<1>1. PICK x, p : x = file[s] /\ p = x.seekPosition
  OBVIOUS
<1>2. PICK n, e : n = Count(x.hdr, data, p) /\ e = Apply(disk, WriteAt(disk, x.hdr, data, p))
  OBVIOUS
<1>3. PICK f, g : f = file /\ g = file'
  OBVIOUS
<1>4. /\ event'.op = "write" /\ event'.slot = s /\ event'.data = data /\ event'.count = n
      /\ failed = "no" /\ s \in UserSlot /\ files' = FilesOn(e) /\ intact' = (intact /\ x.live)
      /\ g = [f EXCEPT ![s].seekPosition = p + n]
  BY <1>1, <1>2, <1>3 DEF Write, More, Stored
<1>5. Sound(disk) /\ Exact(disk) /\ files = FilesOn(disk) /\ f \in FilesType /\ AllCurrent(file, disk)
  BY <1>3 DEF IInv, StateOK
<1>6. x \in FileType /\ x.name \in Name /\ f[s] = x /\ UserHeader(x.hdr)
  BY <1>1, <1>3, <1>4, UserSlotIs
<1>7. p \in Nat /\ data \in Seq(Byte) /\ x.live \in BOOLEAN
  BY <1>1, <1>6, FileIs, SizesAre
<1>8. Views(file)[s].name = x.name /\ Views(file)[s].pos = p /\ Views(file)[s].live = x.live
  BY <1>1, <1>4, UserView
<1>9. ASSUME x.live PROVE WrittenIn(files, files', x.name, p, data, n)
  <2>1. Current(x, disk)
    BY <1>1, <1>5, <1>6, <1>9 DEF AllCurrent
  <2>2. WrittenIn(FilesOn(disk), FilesOn(e), x.name, p, data, n)
    BY <1>2, <1>5, <1>6, <1>7, <2>1, WriteFiles
  <2> QED
    BY <1>4, <1>5, <2>2
<1>10. ASSUME Views(file)[event'.slot].live
       PROVE  /\ Flat!Others(Views(file)[event'.slot].name) /\ DOMAIN files' = DOMAIN files
              /\ files'[Views(file)[event'.slot].name] =
                   Flat!Overlap(files[Views(file)[event'.slot].name], Views(file)[event'.slot].pos, event'.data)
              /\ event'.count = Len(Flat!Part(files[Views(file)[event'.slot].name],
                                              Views(file)[event'.slot].pos, Len(event'.data)))
  <2>1. WrittenIn(files, files', x.name, p, data, n)
    BY <1>4, <1>8, <1>9, <1>10
  <2>2. OthersStay(files, files', Views(file)[event'.slot].name)
    BY <1>4, <1>8, <2>1 DEF WrittenIn
  <2>3. Flat!Others(Views(file)[event'.slot].name)
    BY <2>2 DEF OthersStay, Flat!Others
  <2> QED
    BY <1>4, <1>8, <2>1, <2>3 DEF WrittenIn
<1>11. PICK z : z = p + n
  OBVIOUS
<1>12. Views(g) = MovedView(Views(f), s, z)
  <2>1. g = [f EXCEPT ![s].seekPosition = z] /\ f \in FilesType /\ f[s] \in FileType /\ f[s].name \in Name
    BY <1>4, <1>5, <1>6, <1>11
  <2> QED
    BY ONLY s \in Slot, <2>1, ViewsMoved
<1>13. z = Views(file)[event'.slot].pos + event'.count
  BY <1>4, <1>8, <1>11
<1>14. Views(file') = [Views(file) EXCEPT ![event'.slot].pos = Views(file)[event'.slot].pos + event'.count]
  BY <1>3, <1>4, <1>12, <1>13 DEF MovedView
<1>15. intact' = Views(file)[event'.slot].live
  BY <1>4, <1>7, <1>8
<1>16. Flat!Write(event')
  BY <1>10, <1>14, <1>15 DEF Flat!Write, Views
<1> QED
  BY <1>4, <1>16 DEF Flat!Call
-----------------------------------------------------------------------------
(* Every step is one that FlatFiles allows.                                *)

LEMMA IntactIsOver == [Next]_vars /\ ~intact => ~intact'
<1> SUFFICES ASSUME [Next]_vars, ~intact PROVE ~intact'
  OBVIOUS
<1>1. ASSUME NEW n \in Name, (\E size \in Size : Create(n, size)) \/ Remove(n) \/ Open(n) PROVE ~intact'
  BY <1>1 DEF Create, Remove, Open
<1>2. ASSUME NEW s \in Slot, Close(s) \/ (\E p \in Position : Seek(s, p)) \/ Read(s, SectorSize) PROVE ~intact'
  BY <1>2 DEF Close, Seek, Read
<1>3. ASSUME NEW s \in Slot, NEW data \in Data, Write(s, data) PROVE ~intact'
  BY <1>3 DEF Write
<1>4. ASSUME NEW w, NEW n, Interrupted(w, n) PROVE ~intact'
  BY <1>4 DEF Interrupted, RestartOn
<1>5. ASSUME NEW n \in Name, (\E size \in Size : CrashInCreate(n, size)) \/ CrashInRemove(n) PROVE ~intact'
  BY <1>4, <1>5 DEF CrashInCreate, CrashInRemove
<1>6. ASSUME NEW s \in Slot, NEW data \in Data, CrashInWrite(s, data) PROVE ~intact'
  BY <1>4, <1>6 DEF CrashInWrite
<1>7. Restart => ~intact'
  BY DEF Restart, RestartOn
<1>8. Done => UNCHANGED vars
  BY DEF Done
<1>9. UNCHANGED vars => ~intact'
  BY DEF vars
<1> QED
  BY <1>1, <1>2, <1>3, <1>5, <1>6, <1>7, <1>8, <1>9 DEF Next

LEMMA FlatStep == FullInv /\ [Next]_vars => [Flat!Next]_<<files, Views(file), event, intact>>
<1> SUFFICES ASSUME FullInv, [Next]_vars PROVE [Flat!Next]_<<files, Views(file), event, intact>>
  OBVIOUS
<1>1. IInv
  BY DEF FullInv
<1>2. ASSUME UNCHANGED vars PROVE UNCHANGED <<files, Views(file), event, intact>>
  BY <1>2 DEF vars
<1>3. CASE ~intact
  BY <1>3, IntactIsOver DEF Flat!Next
<1>4. CASE intact
  <2>1. ASSUME NEW n \in Name, NEW size \in Size, Create(n, size) PROVE Flat!Call(event')
    BY <1>1, <1>4, <2>1, FlatCreate
  <2>2. ASSUME NEW n \in Name, NEW size \in Size, CrashInCreate(n, size) PROVE Flat!Call(event')
    BY <1>1, <1>4, <2>2, CreateCrashed, FlatCrash
  <2>3. ASSUME NEW n \in Name, Remove(n) PROVE Flat!Call(event')
    BY <1>1, <1>4, <2>3, FlatRemove
  <2>4. ASSUME NEW n \in Name, CrashInRemove(n) PROVE Flat!Call(event')
    BY <1>1, <1>4, <2>4, RemoveCrashed, FlatCrash
  <2>5. ASSUME NEW n \in Name, Open(n) PROVE Flat!Call(event')
    BY <1>1, <1>4, <2>5, FlatOpen
  <2>6. ASSUME NEW s \in Slot, Close(s) PROVE Flat!Call(event')
    BY <1>1, <2>6, FlatClose
  <2>7. ASSUME NEW s \in Slot, NEW p \in Position, Seek(s, p) PROVE Flat!Call(event')
    BY <1>1, <2>7, FlatSeek
  <2>8. ASSUME NEW s \in Slot, Read(s, SectorSize) PROVE Flat!Call(event')
    BY <1>1, <1>4, <2>8, FlatRead
  <2>9. ASSUME NEW s \in Slot, NEW data \in Data, Write(s, data) PROVE Flat!Call(event')
    BY <1>1, <1>4, <2>9, FlatWrite
  <2>10. ASSUME NEW s \in Slot, NEW data \in Data, CrashInWrite(s, data) PROVE Flat!Call(event')
    <3>1. Crashed(file[s].name)
      BY <1>4, <2>10, WriteCrashed
    <3> QED
      BY <1>1, <3>1, FlatCrash
  <2>11. ASSUME Restart PROVE Flat!Call(event')
    BY <1>1, <1>4, <2>11, FlatRestart
  <2>12. Done => UNCHANGED vars
    BY DEF Done
  <2>13. Flat!Call(event') \/ UNCHANGED vars
    BY <2>1, <2>2, <2>3, <2>4, <2>5, <2>6, <2>7, <2>8, <2>9, <2>10, <2>11, <2>12 DEF Next
  <2> QED
    BY <1>2, <1>4, <2>13 DEF Flat!Next
<1> QED
  BY <1>3, <1>4

(* The file system implements flat files: through Create, Remove, Open,    *)
(* Close, Seek, Read and Write its callers see names that stand for        *)
(* sequences of bytes of a fixed length; a restart keeps every file, and a *)
(* crash between two sector writes of an operation on one file costs no    *)
(* byte of any other.                                                      *)
THEOREM FileSystemIsFlat == Spec => ImplementsFlatFiles
<1>1. Init => Flat!Init
  BY FlatInit
<1>2. FullInv /\ [Next]_vars => [Flat!Next]_<<files, Views(file), event, intact>>
  BY FlatStep
<1>3. Spec => []FullInv
  BY DirectoryOrdered
<1> QED
  BY <1>1, <1>2, <1>3, PTL DEF Spec, ImplementsFlatFiles, Flat!Spec, Views
=============================================================================
