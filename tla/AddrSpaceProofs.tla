-------------------------- MODULE AddrSpaceProofs --------------------------
(***************************************************************************)
(* Proofs about module AddrSpace, for every number of processes, frames    *)
(* and bytes of a page, and every set of linked programs.                  *)
(***************************************************************************)
EXTENDS AddrSpace, FiniteSetTheorems, WellFoundedInduction, TLAPS

LEMMA LeastExists ==
  ASSUME NEW S, S \subseteq Nat, S # {}
  PROVE  \E i \in S : \A j \in S : i <= j
<1> DEFINE R == OpToRel(<, Nat)
<1>1. IsWellFoundedOn(R, Nat)
  BY NatLessThanWellFounded
<1> HIDE DEF R
<1>2. \E x \in S : \A y \in S : ~(<<y, x>> \in R)
  BY <1>1, WFMin
<1>3. PICK x \in S : \A y \in S : ~(<<y, x>> \in R)
  BY <1>2
<1>4. \A y \in S : ~(y < x)
  BY <1>3 DEF R, OpToRel
<1> QED
  BY <1>3, <1>4
-----------------------------------------------------------------------------
(* coff2noff's loop.  loop[i] is the header after i sections.              *)

Segment == [virtualAddr : Nat, inFileAddr : Nat, size : Nat]

NoffType ==
  [ok : BOOLEAN, code : Segment, initData : Segment, uninitData : Segment, file : Seq(Nat)]

IsLoop(h, sections, n) ==
  h = [i \in 0 .. n |-> IF i = 0 THEN EmptyNoff ELSE AddSection(h[i - 1], sections[i])]

(* The loop can be unrolled as far as one likes.                           *)
LEMMA LoopExists ==
  ASSUME NEW sections, NEW n \in Nat
  PROVE  \E h : IsLoop(h, sections, n)
<1> DEFINE Bad == {m \in Nat : ~\E h : IsLoop(h, sections, m)}
<1> SUFFICES ASSUME Bad # {} PROVE FALSE
  OBVIOUS
<1>1. PICK m \in Bad : \A j \in Bad : m <= j
  BY LeastExists
<1>2. m \in Nat /\ ~\E h : IsLoop(h, sections, m)
  OBVIOUS
<1>3. CASE m = 0
  <2> DEFINE h == [i \in 0 .. 0 |-> EmptyNoff]
  <2>1. h = [i \in 0 .. 0 |-> IF i = 0 THEN EmptyNoff ELSE AddSection(h[i - 1], sections[i])]
    OBVIOUS
  <2> QED
    BY <1>2, <1>3, <2>1 DEF IsLoop
<1>4. CASE m # 0
  <2>1. m - 1 \in Nat /\ m - 1 \notin Bad
    BY <1>1, <1>2, <1>4
  <2>2. PICK g : IsLoop(g, sections, m - 1)
    BY <2>1
  <2> DEFINE h == [i \in 0 .. m |-> IF i = m THEN AddSection(g[m - 1], sections[m]) ELSE g[i]]
  <2>3. \A i \in 0 .. m - 1 : g[i] = IF i = 0 THEN EmptyNoff ELSE AddSection(g[i - 1], sections[i])
    BY <2>2 DEF IsLoop
  <2>4. \A i \in 0 .. m : i # m => i \in 0 .. m - 1 /\ h[i] = g[i] /\ (i # 0 => i - 1 \in 0 .. m /\ i - 1 # m)
    BY <1>2, <1>4
  <2>5. h[m] = AddSection(g[m - 1], sections[m]) /\ h[m - 1] = g[m - 1]
    BY <1>2, <1>4
  <2>6. \A i \in 0 .. m : h[i] = IF i = 0 THEN EmptyNoff ELSE AddSection(h[i - 1], sections[i])
    <3> SUFFICES ASSUME NEW i \in 0 .. m
                 PROVE  h[i] = IF i = 0 THEN EmptyNoff ELSE AddSection(h[i - 1], sections[i])
      OBVIOUS
    <3>1. CASE i = m
      BY <1>4, <2>5, <3>1
    <3>2. CASE i # m
      <4>1. h[i] = g[i] /\ i \in 0 .. m - 1 /\ (i # 0 => h[i - 1] = g[i - 1])
        BY <2>4, <3>2
      <4> HIDE DEF h
      <4> QED
        BY <2>3, <4>1
    <3> QED
      BY <3>1, <3>2
  <2>7. h = [i \in 0 .. m |-> IF i = 0 THEN EmptyNoff ELSE AddSection(h[i - 1], sections[i])]
    <3>1. h = [i \in 0 .. m |-> h[i]]
      OBVIOUS
    <3> HIDE DEF h
    <3> QED
      BY <2>6, <3>1
  <2> QED
    BY <1>2, <2>7 DEF IsLoop
<1> QED
  BY <1>3, <1>4

(* Noff is the last element of that loop.                                  *)
LEMMA NoffIsLoop ==
  ASSUME NEW sections \in Seq(Section)
  PROVE  \E h : IsLoop(h, sections, Len(sections)) /\ Noff(sections) = h[Len(sections)]
<1> DEFINE L == CHOOSE h : h = [i \in 0 .. Len(sections) |->
                                  IF i = 0 THEN EmptyNoff ELSE AddSection(h[i - 1], sections[i])]
<1>1. L = [i \in 0 .. Len(sections) |-> IF i = 0 THEN EmptyNoff ELSE AddSection(L[i - 1], sections[i])]
  <2>1. \E h : h = [i \in 0 .. Len(sections) |->
                                  IF i = 0 THEN EmptyNoff ELSE AddSection(h[i - 1], sections[i])]
    BY LoopExists DEF IsLoop
  <2> QED
    BY <2>1
<1>2. Noff(sections) = L[Len(sections)]
  BY Zenon DEF Noff
<1> QED
  BY <1>1, <1>2 DEF IsLoop

(* One turn of the loop keeps the types of the header.                     *)
LEMMA AddSectionTyped ==
  ASSUME NEW h \in NoffType, NEW s \in Section
  PROVE  AddSection(h, s) \in NoffType
<1>1. h.ok \in BOOLEAN /\ h.code \in Segment /\ h.initData \in Segment /\ h.uninitData \in Segment
      /\ h.file \in Seq(Nat)
  BY DEF NoffType
<1>2. s.s_paddr \in Nat /\ s.s_size \in Nat /\ s.raw \in Seq(Nat)
  BY DEF Section
<1>3. Refused(h) \in NoffType
  BY DEF Refused, NoffType
<1>4. SegmentOf(h, s) \in Segment
  <2>1. HeaderSize + Len(h.file) \in Nat
    BY <1>1, AddrSpaceAssumption
  <2> QED
    BY <1>2, <2>1 DEF SegmentOf, Segment
<1>5. Copied(h, s) \in NoffType
  <2>1. h.file \o s.raw \in Seq(Nat)
    BY <1>1, <1>2
  <2> QED
    BY <2>1 DEF Copied, NoffType
<1>6. [Copied(h, s) EXCEPT !.code = SegmentOf(h, s)] \in NoffType
      /\ [Copied(h, s) EXCEPT !.initData = SegmentOf(h, s)] \in NoffType
  BY <1>4, <1>5 DEF NoffType
<1>7. AddUninitData(h, s) \in NoffType
  <2>1. h.uninitData.size \in Nat /\ h.uninitData.size + s.s_size \in Nat
    <3>1. h.uninitData.size \in Nat
      BY <1>1 DEF Segment
    <3> QED
      BY <1>2, <3>1
  <2>2. [virtualAddr |-> s.s_paddr, inFileAddr |-> 0, size |-> s.s_size] \in Segment
    BY <1>2 DEF Segment
  <2>3. [h EXCEPT !.uninitData = [virtualAddr |-> s.s_paddr, inFileAddr |-> 0, size |-> s.s_size]] \in NoffType
    BY <2>2 DEF NoffType
  <2>4. [h.uninitData EXCEPT !.size = h.uninitData.size + s.s_size] \in Segment
    BY <1>1, <2>1 DEF Segment
  <2>5. [h EXCEPT !.uninitData = [h.uninitData EXCEPT !.size = h.uninitData.size + s.s_size]] \in NoffType
    BY <2>4 DEF NoffType
  <2>6. [h EXCEPT !.uninitData.size = h.uninitData.size + s.s_size] \in NoffType
    BY <2>5
  <2> QED
    BY <1>3, <2>3, <2>6 DEF AddUninitData
<1>8. AddSection(h, s) \in {h, [Copied(h, s) EXCEPT !.code = SegmentOf(h, s)], Refused(h),
                            [Copied(h, s) EXCEPT !.initData = SegmentOf(h, s)], AddUninitData(h, s)}
  BY DEF AddSection
<1> QED
  BY <1>3, <1>6, <1>7, <1>8

LEMMA LoopTyped ==
  ASSUME NEW sections \in Seq(Section), NEW h, IsLoop(h, sections, Len(sections))
  PROVE  \A i \in 0 .. Len(sections) : h[i] \in NoffType
<1>2. Len(sections) \in Nat /\ \A i \in 1 .. Len(sections) : sections[i] \in Section
  OBVIOUS
<1>3. \A i \in 0 .. Len(sections) :
        h[i] = IF i = 0 THEN EmptyNoff ELSE AddSection(h[i - 1], sections[i])
  BY DEF IsLoop
<1>4. EmptyNoff \in NoffType
  <2>1. NoSegment \in Segment
    BY DEF NoSegment, Segment
  <2> QED
    BY <2>1 DEF EmptyNoff, NoffType
<1> DEFINE Bad == {i \in 0 .. Len(sections) : h[i] \notin NoffType}
<1>5. Bad = {}
  <2> SUFFICES ASSUME Bad # {} PROVE FALSE
    OBVIOUS
  <2>1. Bad \subseteq Nat
    BY <1>2
  <2>2. PICK i \in Bad : \A j \in Bad : i <= j
    BY <2>1, LeastExists
  <2>3. CASE i = 0
    BY <1>3, <1>4, <2>3
  <2>4. CASE i # 0
    <3>1. i - 1 \in 0 .. Len(sections) /\ i \in 1 .. Len(sections) /\ ~(i <= i - 1)
      BY <1>2, <2>4
    <3>2. h[i - 1] \in NoffType
      BY <2>2, <3>1
    <3>3. h[i] = AddSection(h[i - 1], sections[i])
      BY <1>3, <2>4
    <3> QED
      BY <1>2, <3>1, <3>2, <3>3, AddSectionTyped
  <2> QED
    BY <2>3, <2>4
<1> QED
  BY <1>5

LEMMA NoffTyped ==
  ASSUME NEW sections \in Seq(Section)
  PROVE  Noff(sections) \in NoffType
<1>1. PICK h : IsLoop(h, sections, Len(sections)) /\ Noff(sections) = h[Len(sections)]
  BY NoffIsLoop
<1>2. Len(sections) \in 0 .. Len(sections)
  OBVIOUS
<1> QED
  BY <1>1, <1>2, LoopTyped
-----------------------------------------------------------------------------
(* Pages and frames.                                                       *)

LEMMA DivModNat ==
  \A n \in Nat, b \in Nat \ {0} : n \div b \in Nat /\ n % b \in 0 .. b - 1 /\ n = b * (n \div b) + (n % b)
OBVIOUS

LEMMA RoundUpTyped == \A n \in Nat, b \in Nat \ {0} : DivRoundUp(n, b) \in Nat
<1> SUFFICES ASSUME NEW n \in Nat, NEW b \in Nat \ {0} PROVE DivRoundUp(n, b) \in Nat
  OBVIOUS
<1>1. n \div b \in Nat
  BY DivModNat
<1> QED
  BY <1>1 DEF DivRoundUp

LEMMA NumPagesTyped ==
  ASSUME NEW c \in Converted
  PROVE  NumPages(Noff(c)) \in Nat
<1> DEFINE h == Noff(c)
<1>1. h \in NoffType
  BY NoffTyped, AddrSpaceAssumption DEF Converted
<1> HIDE DEF h
<1>2. h.code.size \in Nat /\ h.initData.size \in Nat /\ h.uninitData.size \in Nat
  <2>1. h.code \in Segment /\ h.initData \in Segment /\ h.uninitData \in Segment
    BY <1>1 DEF NoffType
  <2> QED
    BY <2>1 DEF Segment
<1>a. UserStackSize \in Nat
  BY AddrSpaceAssumption
<1>3. h.code.size + h.initData.size + h.uninitData.size + UserStackSize \in Nat
  BY <1>2, <1>a
<1> QED
  BY <1>3, RoundUpTyped, AddrSpaceAssumption DEF h, NumPages

LEMMA FrameFinite == IsFiniteSet(Frame) /\ Frame \subseteq Nat
<1>1. 0 \in Int /\ NumPhysPages - 1 \in Int
  BY AddrSpaceAssumption
<1> QED
  BY <1>1, FS_Interval DEF Frame

(* In a finite set of numbers there is, for every i below its size, one    *)
(* with exactly i smaller ones.                                            *)
LEMMA RankExists ==
  ASSUME NEW C, C \subseteq Nat, IsFiniteSet(C), NEW i \in Nat, i < Cardinality(C)
  PROVE  \E f \in C : Cardinality({g \in C : g < f}) = i
<1> DEFINE Below(f) == {g \in C : g < f}
           Bad == {j \in Nat : j < Cardinality(C) /\ ~\E f \in C : Cardinality(Below(f)) = j}
<1> SUFFICES ASSUME Bad # {} PROVE FALSE
  OBVIOUS
<1>0. Cardinality(C) \in Nat
  BY FS_CardinalityType
<1>a. \A g \in C : g \in Nat
  OBVIOUS
<1>b. \A f, g : g \in Below(f) <=> g \in C /\ g < f
  OBVIOUS
<1>1. PICK j \in Bad : \A k \in Bad : j <= k
  BY LeastExists
<1>2. j \in Nat /\ j < Cardinality(C) /\ ~\E f \in C : Cardinality(Below(f)) = j
  OBVIOUS
<1>3. CASE j = 0
  <2>1. C # {}
    BY <1>0, <1>2, FS_EmptySet
  <2>2. PICK f \in C : \A g \in C : f <= g
    BY <2>1, LeastExists
  <2>3. Below(f) = {}
    <3>1. \A g \in C : ~(g < f)
      BY <1>a, <2>2
    <3> HIDE DEF Below
    <3> QED
      BY <1>b, <3>1
  <2> QED
    BY <1>2, <1>3, <2>3, FS_EmptySet
<1>4. CASE j # 0
  <2>1. j - 1 \in Nat /\ j - 1 < Cardinality(C) /\ ~(j <= j - 1)
    BY <1>0, <1>2, <1>4
  <2>2. PICK f \in C : Cardinality(Below(f)) = j - 1
    BY <1>1, <2>1
  <2> DEFINE D == {g \in C : f < g}
  <2>3. IsFiniteSet(Below(f)) /\ f \notin Below(f)
    <3>1. Below(f) \in SUBSET C
      OBVIOUS
    <3> QED
      BY <3>1, FS_Subset
  <2>4. Cardinality(Below(f) \cup {f}) = j
    <3> HIDE DEF Below
    <3>1. Cardinality(Below(f) \cup {f}) = (j - 1) + 1
      BY <2>2, <2>3, FS_AddElement
    <3> QED
      BY <1>2, <3>1
  <2>5. D # {}
    <3> SUFFICES ASSUME D = {} PROVE FALSE
      OBVIOUS
    <3>1. \A g \in C : g < f \/ g = f
      BY <1>a
    <3> HIDE DEF Below
    <3>2. C = Below(f) \cup {f}
      BY <1>b, <3>1
    <3>3. Cardinality(C) = j
      BY <2>4, <3>2
    <3> QED
      BY <1>0, <1>2, <3>3
  <2>6. PICK e \in D : \A g \in D : e <= g
    BY <2>5, LeastExists
  <2>7. Below(e) = Below(f) \cup {f}
    <3>1. \A g \in C : g < e <=> g < f \/ g = f
      BY <1>a, <2>6
    <3>2. e \in C
      OBVIOUS
    <3> HIDE DEF Below, D
    <3> QED
      BY <1>b, <3>1
  <2> QED
    BY <1>2, <2>4, <2>6, <2>7
<1> QED
  BY <1>3, <1>4

(* BitMap::Find gives clear frames, each once.                             *)
LEMMA FoundFrames ==
  ASSUME NEW marked \in SUBSET Frame, NEW n \in Nat, n <= Cardinality(Frame \ marked)
  PROVE  /\ FoundPages(marked, n) \in [0 .. n - 1 -> Frame]
         /\ \A i \in 0 .. n - 1 : FoundPages(marked, n)[i] \notin marked
         /\ \A i, j \in 0 .. n - 1 : FoundPages(marked, n)[i] = FoundPages(marked, n)[j] => i = j
<1> DEFINE clear == Frame \ marked
           rank(f) == Cardinality({g \in clear : g < f})
           pick(i) == CHOOSE f \in clear : rank(f) = i
           pages == [i \in 0 .. n - 1 |-> pick(i)]
<1>1. FoundPages(marked, n) = pages
  BY DEF FoundPages
<1>2. clear \subseteq Nat /\ IsFiniteSet(clear) /\ Cardinality(clear) \in Nat
  <2>1. clear \in SUBSET Frame
    OBVIOUS
  <2>2. IsFiniteSet(clear) /\ clear \subseteq Nat
    BY <2>1, FrameFinite, FS_Subset
  <2> QED
    BY <2>2, FS_CardinalityType
<1>3. \A i \in 0 .. n - 1 : pages[i] \in clear /\ rank(pages[i]) = i
  <2> SUFFICES ASSUME NEW i \in 0 .. n - 1 PROVE pages[i] \in clear /\ rank(pages[i]) = i
    OBVIOUS
  <2>1. i \in Nat /\ i < Cardinality(clear)
    BY <1>2
  <2>2. \E f \in clear : rank(f) = i
    <3> HIDE DEF clear
    <3> QED
      BY <1>2, <2>1, RankExists
  <2>3. pages[i] = CHOOSE f \in clear : rank(f) = i
    BY DEF pick
  <2> HIDE DEF clear, rank, pages, pick
  <2> QED
    BY <2>2, <2>3
<1>4. pages \in [0 .. n - 1 -> Frame]
  <2>1. \A i \in 0 .. n - 1 : pick(i) = pages[i]
    OBVIOUS
  <2>2. \A i \in 0 .. n - 1 : pick(i) \in Frame
    <3> HIDE DEF pages, pick, rank
    <3> QED
      BY <1>3, <2>1
  <2> HIDE DEF pick
  <2> QED
    BY <2>2
<1>5. \A i \in 0 .. n - 1 : pages[i] \notin marked
  BY <1>3
<1>6. \A i, j \in 0 .. n - 1 : pages[i] = pages[j] => i = j
  <2> HIDE DEF pages, rank
  <2> QED
    BY <1>3
<1> HIDE DEF pages
<1> QED
  BY <1>1, <1>4, <1>5, <1>6
-----------------------------------------------------------------------------
(* The inductive invariant.                                                *)

(* A page table: consecutive pages from 0.                                 *)
IsTable(t) == Cardinality(DOMAIN t) \in Nat /\ t \in [0 .. Cardinality(DOMAIN t) - 1 -> Frame]

LEMMA TableOfLength ==
  ASSUME NEW n \in Nat, NEW t \in [0 .. n - 1 -> Frame]
  PROVE  IsTable(t) /\ Cardinality(DOMAIN t) = n
<1>1. DOMAIN t = 0 .. n - 1 /\ 0 \in Int /\ n - 1 \in Int
  OBVIOUS
<1>2. Cardinality(0 .. n - 1) = IF 0 > n - 1 THEN 0 ELSE (n - 1) - 0 + 1
  BY <1>1, FS_Interval
<1>3. Cardinality(DOMAIN t) = n
  BY <1>1, <1>2
<1> QED
  BY <1>3 DEF IsTable

LEMMA NoPagesIsTable == IsTable(NoPages) /\ DOMAIN NoPages = {} /\ RangeOf(NoPages) = {}
<1>1. DOMAIN NoPages = {}
  BY DEF NoPages
<1>2. Cardinality({}) = 0
  BY FS_EmptySet
<1>3. 0 .. 0 - 1 = {}
  OBVIOUS
<1>4. NoPages \in [{} -> Frame]
  BY DEF NoPages
<1> QED
  BY <1>1, <1>2, <1>3, <1>4 DEF IsTable, RangeOf

Tables == DOMAIN space = Proc /\ \A p \in Proc : IsTable(space[p])

(* Where a process is tells whether it has frames and a space, and one at  *)
(* a time is in the critical section.                                      *)
Stages ==
  /\ \A p \in Proc : pc[p] \notin {"load", "run"} => space[p] = NoPages
  /\ \A p \in Proc : hasSpace[p] = TRUE <=> pc[p] = "run"
  /\ \A p, q \in Proc : pc[p] = "alloc" /\ pc[q] = "alloc" => p = q
  /\ addrLock = 0 <=> \E p \in Proc : pc[p] = "alloc"

(* The variables with plain types.                                         *)
PlainTypes ==
  /\ pc \in [Proc -> {"none", "boot", "lock", "alloc", "load", "start", "run"}]
  /\ program \in [Proc -> Converted]
  /\ hasSpace \in [Proc -> BOOLEAN]
  /\ addrLock \in 0 .. 1
  /\ DOMAIN mainMemory = 0 .. MemorySize - 1
  /\ cpu \in Proc
  /\ tableOf \in Proc
  /\ machine \in {"on", "off", "aborted"}

Inv == PlainTypes /\ Tables /\ Stages /\ bitmap \in SUBSET Frame /\ FramesExact /\ OwnTable

LEMMA InvImplies == Inv => FramesInv
BY DEF Inv, FramesInv, TypeOK, PlainTypes, Tables, IsTable

(* A process that has no frames gets some that are clear.                  *)
LEMMA Claim ==
  ASSUME Tables, FramesExact, bitmap \in SUBSET Frame, NEW p \in Proc, space[p] = NoPages,
         NEW n \in Nat, n <= Cardinality(Frame \ bitmap),
         space' = [space EXCEPT ![p] = FoundPages(bitmap, n)],
         bitmap' = bitmap \cup RangeOf(space'[p])
  PROVE  Tables' /\ FramesExact' /\ bitmap' \in SUBSET Frame
         /\ space'[p] = FoundPages(bitmap, n) /\ \A q \in Proc : q # p => space'[q] = space[q]
<1>1. PICK t : t = FoundPages(bitmap, n)
  OBVIOUS
<1>2. /\ t \in [0 .. n - 1 -> Frame]
      /\ \A i \in 0 .. n - 1 : t[i] \notin bitmap
      /\ \A i, j \in 0 .. n - 1 : t[i] = t[j] => i = j
  BY <1>1, FoundFrames
<1>3. IsTable(t) /\ DOMAIN t = 0 .. n - 1
  BY <1>2, TableOfLength
<1>4. DOMAIN space' = Proc /\ space'[p] = t /\ \A q \in Proc : q # p => space'[q] = space[q]
  BY <1>1 DEF Tables
<1>5. Tables'
  <2>1. \A q \in Proc : IsTable(space'[q])
    BY <1>3, <1>4 DEF Tables
  <2> QED
    BY <1>4, <2>1 DEF Tables, IsTable
<1>6. RangeOf(t) \subseteq Frame /\ \A f \in RangeOf(t) : f \notin bitmap
  BY <1>2, <1>3 DEF RangeOf
<1>7. bitmap' = bitmap \cup RangeOf(t)
  BY <1>4
<1>8. bitmap' = UNION {RangeOf(space'[q]) : q \in Proc}
  <2>1. bitmap = UNION {RangeOf(space[q]) : q \in Proc}
    BY DEF FramesExact
  <2>2. RangeOf(space[p]) = {}
    BY NoPagesIsTable
  <2>3. \A q \in Proc : q # p => RangeOf(space'[q]) = RangeOf(space[q])
    BY <1>4
  <2>4. ASSUME NEW f \in bitmap' PROVE \E q \in Proc : f \in RangeOf(space'[q])
    <3>1. CASE f \in RangeOf(t)
      BY <1>4, <3>1
    <3>2. CASE f \in bitmap
      <4>1. PICK q \in Proc : f \in RangeOf(space[q])
        BY <2>1, <3>2
      <4> QED
        BY <2>2, <2>3, <4>1
    <3> QED
      BY <1>7, <3>1, <3>2
  <2>5. ASSUME NEW q \in Proc, NEW f \in RangeOf(space'[q]) PROVE f \in bitmap'
    <3>1. CASE q = p
      BY <1>4, <1>7, <3>1
    <3>2. CASE q # p
      BY <1>7, <2>1, <2>3, <3>2
    <3> QED
      BY <3>1, <3>2
  <2> QED
    BY <2>4, <2>5
<1>9. \A q, r \in Proc : \A i \in DOMAIN space'[q], j \in DOMAIN space'[r] :
        space'[q][i] = space'[r][j] => q = r /\ i = j
  <2> SUFFICES ASSUME NEW q \in Proc, NEW r \in Proc, NEW i \in DOMAIN space'[q], NEW j \in DOMAIN space'[r],
                      space'[q][i] = space'[r][j]
               PROVE  q = r /\ i = j
    OBVIOUS
  <2>0. \A k : \A u \in Proc : k \in DOMAIN space[u] => space[u][k] \in bitmap
    BY DEF FramesExact, RangeOf
  <2>1. CASE q = p /\ r = p
    BY <1>2, <1>3, <1>4, <2>1
  <2>2. CASE q # p /\ r # p
    BY <1>4, <2>2 DEF FramesExact
  <2>3. CASE q = p /\ r # p
    BY <1>2, <1>3, <1>4, <2>0, <2>3
  <2>4. CASE q # p /\ r = p
    BY <1>2, <1>3, <1>4, <2>0, <2>4
  <2> QED
    BY <2>1, <2>2, <2>3, <2>4
<1>10. FramesExact'
  BY <1>8, <1>9 DEF FramesExact, RangeOf
<1>11. bitmap' \in SUBSET Frame
  BY <1>6, <1>7
<1> QED
  BY <1>1, <1>4, <1>5, <1>10, <1>11

(* The destructor gives the frames of a process back.                      *)
LEMMA Release ==
  ASSUME Tables, FramesExact, bitmap \in SUBSET Frame, NEW p \in Proc,
         space' = [space EXCEPT ![p] = NoPages],
         bitmap' = bitmap \ RangeOf(space[p])
  PROVE  Tables' /\ FramesExact' /\ bitmap' \in SUBSET Frame
         /\ space'[p] = NoPages /\ \A q \in Proc : q # p => space'[q] = space[q]
<1>1. DOMAIN space' = Proc /\ space'[p] = NoPages /\ \A q \in Proc : q # p => space'[q] = space[q]
  BY DEF Tables
<1>2. Tables'
  <2>1. \A q \in Proc : IsTable(space'[q])
    BY <1>1, NoPagesIsTable DEF Tables
  <2> QED
    BY <1>1, <2>1 DEF Tables, IsTable
<1>3. \A q \in Proc : q # p => RangeOf(space'[q]) = RangeOf(space[q])
                               /\ RangeOf(space[q]) \cap RangeOf(space[p]) = {}
  <2> SUFFICES ASSUME NEW q \in Proc, q # p
               PROVE  RangeOf(space'[q]) = RangeOf(space[q]) /\ RangeOf(space[q]) \cap RangeOf(space[p]) = {}
    OBVIOUS
  <2>1. \A i \in DOMAIN space[q], j \in DOMAIN space[p] : space[q][i] # space[p][j]
    BY DEF FramesExact
  <2> QED
    BY <1>1, <2>1 DEF RangeOf
<1>4. bitmap' = UNION {RangeOf(space'[q]) : q \in Proc}
  <2>1. bitmap = UNION {RangeOf(space[q]) : q \in Proc}
    BY DEF FramesExact
  <2>2. ASSUME NEW f \in bitmap' PROVE \E q \in Proc : f \in RangeOf(space'[q])
    <3>1. PICK q \in Proc : f \in RangeOf(space[q])
      BY <2>1
    <3>2. q # p
      BY <3>1
    <3> QED
      BY <1>3, <3>1, <3>2
  <2>3. ASSUME NEW q \in Proc, NEW f \in RangeOf(space'[q]) PROVE f \in bitmap'
    <3>1. q # p
      BY <1>1, NoPagesIsTable
    <3>2. f \in RangeOf(space[q]) /\ f \notin RangeOf(space[p])
      BY <1>3, <3>1
    <3> QED
      BY <2>1, <3>2
  <2> QED
    BY <2>2, <2>3
<1>5. \A q, r \in Proc : \A i \in DOMAIN space'[q], j \in DOMAIN space'[r] :
        space'[q][i] = space'[r][j] => q = r /\ i = j
  <2> SUFFICES ASSUME NEW q \in Proc, NEW r \in Proc, NEW i \in DOMAIN space'[q], NEW j \in DOMAIN space'[r],
                      space'[q][i] = space'[r][j]
               PROVE  q = r /\ i = j
    OBVIOUS
  <2>1. q # p /\ r # p
    BY <1>1, NoPagesIsTable
  <2> QED
    BY <1>1, <2>1 DEF FramesExact
<1>6. FramesExact'
  BY <1>4, <1>5 DEF FramesExact, RangeOf
<1> QED
  BY <1>1, <1>2, <1>6
-----------------------------------------------------------------------------
LEMMA Start == Init => Inv
<1> SUFFICES ASSUME Init PROVE Inv
  OBVIOUS
<1>1. PlainTypes
  BY AddrSpaceAssumption DEF Init, PlainTypes
<1>2. Tables /\ \A p \in Proc : space[p] = NoPages
  BY NoPagesIsTable DEF Init, Tables
<1>3. Stages
  BY <1>2 DEF Init, Stages
<1>4. bitmap \in SUBSET Frame /\ FramesExact
  <2>1. bitmap = {}
    BY DEF Init
  <2>2. \A p \in Proc : RangeOf(space[p]) = {} /\ DOMAIN space[p] = {}
    BY <1>2, NoPagesIsTable
  <2>3. UNION {RangeOf(space[p]) : p \in Proc} = {}
    BY <2>2
  <2> QED
    BY <2>1, <2>2, <2>3 DEF FramesExact
<1>5. OwnTable
  BY DEF Init, OwnTable
<1> QED
  BY <1>1, <1>2, <1>3, <1>4, <1>5 DEF Inv
-----------------------------------------------------------------------------
(* Every action keeps the invariant.                                       *)

(* Steps that leave the frames alone.                                      *)
LEMMA FramesStay ==
  ASSUME Tables, FramesExact, bitmap \in SUBSET Frame, UNCHANGED <<space, bitmap>>
  PROVE  Tables' /\ FramesExact' /\ bitmap' \in SUBSET Frame
BY DEF Tables, IsTable, FramesExact, RangeOf

LEMMA StartProcessKeeps ==
  ASSUME Inv, StartProcess
  PROVE  Inv'
<1> DEFINE n == NumPages(Noff(program[Main]))
<1>0. Main \in Proc
  BY AddrSpaceAssumption
<1>1. /\ PlainTypes /\ Tables /\ Stages /\ bitmap \in SUBSET Frame /\ FramesExact /\ OwnTable
      /\ machine = "on" /\ cpu = Main /\ pc[Main] = "boot" /\ UNCHANGED <<program, addrLock, cpu>>
      /\ pc \in [Proc -> {"none", "boot", "lock", "alloc", "load", "start", "run"}]
      /\ hasSpace \in [Proc -> BOOLEAN]
  <2>1. /\ PlainTypes /\ Tables /\ Stages /\ bitmap \in SUBSET Frame /\ FramesExact /\ OwnTable
    BY DEF Inv
  <2>2. /\ pc \in [Proc -> {"none", "boot", "lock", "alloc", "load", "start", "run"}]
        /\ hasSpace \in [Proc -> BOOLEAN]
    BY <2>1 DEF PlainTypes
  <2>3. machine = "on" /\ cpu = Main /\ pc[Main] = "boot" /\ UNCHANGED <<program, addrLock, cpu>>
    BY DEF StartProcess, On
  <2> QED
    BY <2>1, <2>2, <2>3
<1>2. space[Main] = NoPages
  BY <1>0, <1>1 DEF Stages
<1>3. n \in Nat
  <2>1. program[Main] \in Converted
    <3>1. program \in [Proc -> Converted]
      BY <1>1 DEF PlainTypes
    <3> QED
      BY ONLY <1>0, <3>1
  <2> QED
    BY <2>1, NumPagesTyped
<1>4. \/ /\ n <= Cardinality(Frame \ bitmap)
         /\ space' = [space EXCEPT ![Main] = FoundPages(bitmap, n)]
         /\ bitmap' = bitmap \cup RangeOf(space'[Main])
         /\ DOMAIN mainMemory' = DOMAIN mainMemory
         /\ hasSpace' = [hasSpace EXCEPT ![Main] = TRUE]
         /\ tableOf' = Main
         /\ pc' = [pc EXCEPT ![Main] = "run"]
         /\ machine' = machine
      \/ /\ machine' = "aborted"
         /\ UNCHANGED <<pc, space, hasSpace, bitmap, mainMemory, tableOf>>
  BY DEF StartProcess, GoTo, Filled, Zeroed
<1> HIDE DEF n
<1>5. CASE /\ n <= Cardinality(Frame \ bitmap)
           /\ space' = [space EXCEPT ![Main] = FoundPages(bitmap, n)]
           /\ bitmap' = bitmap \cup RangeOf(space'[Main])
           /\ DOMAIN mainMemory' = DOMAIN mainMemory
           /\ hasSpace' = [hasSpace EXCEPT ![Main] = TRUE]
           /\ tableOf' = Main
           /\ pc' = [pc EXCEPT ![Main] = "run"]
           /\ machine' = machine
  <2>1. Tables' /\ FramesExact' /\ bitmap' \in SUBSET Frame
        /\ \A q \in Proc : q # Main => space'[q] = space[q]
    BY <1>0, <1>1, <1>2, <1>3, <1>5, Claim
  <2>2. /\ pc' \in [Proc -> {"none", "boot", "lock", "alloc", "load", "start", "run"}]
        /\ pc'[Main] = "run" /\ \A q \in Proc : q # Main => pc'[q] = pc[q]
    BY <1>0, <1>1, <1>5
  <2>3. /\ hasSpace' \in [Proc -> BOOLEAN] /\ hasSpace'[Main] = TRUE
        /\ \A q \in Proc : q # Main => hasSpace'[q] = hasSpace[q]
    BY <1>0, <1>1, <1>5
  <2>4. PlainTypes'
    BY <1>0, <1>1, <1>5, <2>2, <2>3 DEF PlainTypes
  <2>5. Stages'
    <3>1. \A q \in Proc : pc'[q] \notin {"load", "run"} => space'[q] = NoPages
      BY <1>1, <2>1, <2>2 DEF Stages
    <3>2. \A q \in Proc : hasSpace'[q] = TRUE <=> pc'[q] = "run"
      BY <1>1, <2>2, <2>3 DEF Stages
    <3>3. \A q \in Proc : pc'[q] = "alloc" <=> pc[q] = "alloc"
      BY <1>1, <2>2
    <3> QED
      BY <1>1, <3>1, <3>2, <3>3 DEF Stages
  <2>6. OwnTable'
    BY <1>1, <1>5 DEF OwnTable
  <2> QED
    BY <2>1, <2>4, <2>5, <2>6 DEF Inv
<1>6. CASE /\ machine' = "aborted"
           /\ UNCHANGED <<pc, space, hasSpace, bitmap, mainMemory, tableOf>>
  <2>1. PlainTypes'
    BY <1>1, <1>6 DEF PlainTypes
  <2>2. Stages' /\ OwnTable'
    BY <1>1, <1>6 DEF Stages, OwnTable
  <2> QED
    BY <1>1, <1>6, <2>1, <2>2, FramesStay DEF Inv
<1> QED
  BY <1>4, <1>5, <1>6

LEMMA ExecKeeps ==
  ASSUME Inv, NEW p \in Proc, NEW c \in Converted, Exec(p, c)
  PROVE  Inv'
<1>1. /\ PlainTypes /\ Tables /\ Stages /\ bitmap \in SUBSET Frame /\ FramesExact /\ OwnTable
      /\ pc[cpu] = "run" /\ pc[p] = "none" /\ pc' = [pc EXCEPT ![p] = "lock"]
      /\ program' = [program EXCEPT ![p] = c]
      /\ UNCHANGED <<space, hasSpace, bitmap, addrLock, mainMemory, cpu, tableOf, machine>>
      /\ pc \in [Proc -> {"none", "boot", "lock", "alloc", "load", "start", "run"}]
      /\ program \in [Proc -> Converted] /\ cpu \in Proc
  BY DEF Inv, PlainTypes, Exec, On, GoTo
<1>2. /\ pc' \in [Proc -> {"none", "boot", "lock", "alloc", "load", "start", "run"}]
      /\ pc'[p] = "lock" /\ \A q \in Proc : q # p => pc'[q] = pc[q]
  BY <1>1
<1>3. PlainTypes'
  BY <1>1, <1>2 DEF PlainTypes
<1>4. Stages'
  BY <1>1, <1>2 DEF Stages
<1>5. OwnTable'
  BY <1>1, <1>2 DEF OwnTable
<1> QED
  BY <1>1, <1>3, <1>4, <1>5, FramesStay DEF Inv

LEMMA LockMemoryKeeps ==
  ASSUME Inv, NEW p \in Proc, LockMemory(p)
  PROVE  Inv'
<1>1. /\ PlainTypes /\ Tables /\ Stages /\ bitmap \in SUBSET Frame /\ FramesExact /\ OwnTable
      /\ cpu = p /\ pc[p] = "lock" /\ pc' = [pc EXCEPT ![p] = "alloc"]
      /\ addrLock > 0 /\ addrLock' = addrLock - 1
      /\ UNCHANGED <<program, space, hasSpace, bitmap, mainMemory, cpu, tableOf, machine>>
      /\ pc \in [Proc -> {"none", "boot", "lock", "alloc", "load", "start", "run"}]
      /\ addrLock \in 0 .. 1
  BY DEF Inv, PlainTypes, LockMemory, On, GoTo
<1>2. /\ pc' \in [Proc -> {"none", "boot", "lock", "alloc", "load", "start", "run"}]
      /\ pc'[p] = "alloc" /\ \A q \in Proc : q # p => pc'[q] = pc[q]
  BY <1>1
<1>3. addrLock = 1 /\ addrLock' = 0
  BY <1>1
<1>4. PlainTypes'
  BY <1>1, <1>2, <1>3 DEF PlainTypes
<1>5. Stages'
  <2>1. \A q \in Proc : pc[q] # "alloc"
    BY <1>1, <1>3 DEF Stages
  <2>2. \A q \in Proc : pc'[q] \notin {"load", "run"} => space'[q] = NoPages
    BY <1>1, <1>2 DEF Stages
  <2>3. \A q \in Proc : hasSpace'[q] = TRUE <=> pc'[q] = "run"
    BY <1>1, <1>2 DEF Stages
  <2> QED
    BY <1>2, <1>3, <2>1, <2>2, <2>3 DEF Stages
<1>6. OwnTable'
  BY <1>1, <1>2 DEF OwnTable
<1> QED
  BY <1>1, <1>4, <1>5, <1>6, FramesStay DEF Inv

LEMMA AllocateKeeps ==
  ASSUME Inv, NEW p \in Proc, Allocate(p)
  PROVE  Inv'
<1> DEFINE n == NumPages(Noff(program[p]))
<1>1. /\ PlainTypes /\ Tables /\ Stages /\ bitmap \in SUBSET Frame /\ FramesExact /\ OwnTable
      /\ cpu = p /\ pc[p] = "alloc" /\ addrLock' = addrLock + 1
      /\ UNCHANGED <<program, hasSpace, cpu, tableOf, machine>>
      /\ pc \in [Proc -> {"none", "boot", "lock", "alloc", "load", "start", "run"}]
  BY DEF Inv, PlainTypes, Allocate, On
<1>2. space[p] = NoPages
  BY <1>1 DEF Stages
<1>3. n \in Nat
  <2>1. program[p] \in Converted
    BY <1>1 DEF PlainTypes
  <2> QED
    BY <2>1, NumPagesTyped
<1>4. \/ /\ n <= Cardinality(Frame \ bitmap)
         /\ space' = [space EXCEPT ![p] = FoundPages(bitmap, n)]
         /\ bitmap' = bitmap \cup RangeOf(space'[p])
         /\ DOMAIN mainMemory' = DOMAIN mainMemory
         /\ pc' = [pc EXCEPT ![p] = "load"]
      \/ /\ pc' = [pc EXCEPT ![p] = "start"]
         /\ UNCHANGED <<space, bitmap, mainMemory>>
  BY DEF Allocate, GoTo, Zeroed
<1> HIDE DEF n
<1>5. addrLock = 0 /\ addrLock' = 1
  BY <1>1 DEF Stages
<1>6. ASSUME NEW at \in {"load", "start"}, pc' = [pc EXCEPT ![p] = at]
      PROVE  /\ pc' \in [Proc -> {"none", "boot", "lock", "alloc", "load", "start", "run"}]
             /\ pc'[p] = at /\ \A q \in Proc : q # p => pc'[q] = pc[q]
             /\ \A q \in Proc : pc'[q] # "alloc"
             /\ \A q \in Proc : hasSpace'[q] = TRUE <=> pc'[q] = "run"
             /\ OwnTable'
  <2>1. /\ pc' \in [Proc -> {"none", "boot", "lock", "alloc", "load", "start", "run"}]
        /\ pc'[p] = at /\ \A q \in Proc : q # p => pc'[q] = pc[q]
    BY <1>1, <1>6
  <2>2. \A q \in Proc : pc'[q] # "alloc"
    BY <1>1, <2>1 DEF Stages
  <2>3. \A q \in Proc : hasSpace'[q] = TRUE <=> pc'[q] = "run"
    BY <1>1, <2>1 DEF Stages
  <2>4. OwnTable'
    BY <1>1, <2>1 DEF OwnTable
  <2> QED
    BY <2>1, <2>2, <2>3, <2>4
<1>7. CASE /\ n <= Cardinality(Frame \ bitmap)
           /\ space' = [space EXCEPT ![p] = FoundPages(bitmap, n)]
           /\ bitmap' = bitmap \cup RangeOf(space'[p])
           /\ DOMAIN mainMemory' = DOMAIN mainMemory
           /\ pc' = [pc EXCEPT ![p] = "load"]
  <2>1. Tables' /\ FramesExact' /\ bitmap' \in SUBSET Frame
        /\ \A q \in Proc : q # p => space'[q] = space[q]
    BY <1>1, <1>2, <1>3, <1>7, Claim
  <2>2. /\ pc' \in [Proc -> {"none", "boot", "lock", "alloc", "load", "start", "run"}]
        /\ pc'[p] = "load" /\ \A q \in Proc : q # p => pc'[q] = pc[q]
        /\ \A q \in Proc : pc'[q] # "alloc"
        /\ \A q \in Proc : hasSpace'[q] = TRUE <=> pc'[q] = "run"
        /\ OwnTable'
    BY <1>6, <1>7
  <2>3. PlainTypes'
    BY <1>1, <1>5, <1>7, <2>2 DEF PlainTypes
  <2>4. Stages'
    <3>1. \A q \in Proc : pc'[q] \notin {"load", "run"} => space'[q] = NoPages
      BY <1>1, <2>1, <2>2 DEF Stages
    <3> QED
      BY <1>5, <2>2, <3>1 DEF Stages
  <2> QED
    BY <2>1, <2>2, <2>3, <2>4 DEF Inv
<1>8. CASE /\ pc' = [pc EXCEPT ![p] = "start"]
           /\ UNCHANGED <<space, bitmap, mainMemory>>
  <2>2. /\ pc' \in [Proc -> {"none", "boot", "lock", "alloc", "load", "start", "run"}]
        /\ pc'[p] = "start" /\ \A q \in Proc : q # p => pc'[q] = pc[q]
        /\ \A q \in Proc : pc'[q] # "alloc"
        /\ \A q \in Proc : hasSpace'[q] = TRUE <=> pc'[q] = "run"
        /\ OwnTable'
    BY <1>6, <1>8
  <2>3. PlainTypes'
    BY <1>1, <1>5, <1>8, <2>2 DEF PlainTypes
  <2>4. Stages'
    <3>1. \A q \in Proc : pc'[q] \notin {"load", "run"} => space'[q] = NoPages
      BY <1>1, <1>2, <1>8, <2>2 DEF Stages
    <3> QED
      BY <1>5, <2>2, <3>1 DEF Stages
  <2> QED
    BY <1>1, <1>8, <2>2, <2>3, <2>4, FramesStay DEF Inv
<1> QED
  BY <1>4, <1>7, <1>8

LEMMA LoadKeeps ==
  ASSUME Inv, NEW p \in Proc, Load(p)
  PROVE  Inv'
<1>1. /\ PlainTypes /\ Tables /\ Stages /\ bitmap \in SUBSET Frame /\ FramesExact /\ OwnTable
      /\ cpu = p /\ pc[p] \in {"load", "start"} /\ pc' = [pc EXCEPT ![p] = "run"]
      /\ hasSpace' = [hasSpace EXCEPT ![p] = TRUE] /\ tableOf' = p
      /\ UNCHANGED <<program, space, bitmap, addrLock, cpu, machine>>
      /\ pc \in [Proc -> {"none", "boot", "lock", "alloc", "load", "start", "run"}]
      /\ hasSpace \in [Proc -> BOOLEAN]
  BY DEF Inv, PlainTypes, Load, GoTo
<1>2. DOMAIN mainMemory' = DOMAIN mainMemory
  BY DEF Load, Filled
<1>3. /\ pc' \in [Proc -> {"none", "boot", "lock", "alloc", "load", "start", "run"}]
      /\ pc'[p] = "run" /\ \A q \in Proc : q # p => pc'[q] = pc[q]
  BY <1>1
<1>4. /\ hasSpace' \in [Proc -> BOOLEAN] /\ hasSpace'[p] = TRUE
      /\ \A q \in Proc : q # p => hasSpace'[q] = hasSpace[q]
  BY <1>1
<1>5. PlainTypes'
  BY <1>1, <1>2, <1>3, <1>4 DEF PlainTypes
<1>6. Stages'
  <2>1. \A q \in Proc : pc'[q] \notin {"load", "run"} => space'[q] = NoPages
    BY <1>1, <1>3 DEF Stages
  <2>2. \A q \in Proc : hasSpace'[q] = TRUE <=> pc'[q] = "run"
    BY <1>1, <1>3, <1>4 DEF Stages
  <2>3. \A q \in Proc : pc'[q] = "alloc" <=> pc[q] = "alloc"
    BY <1>1, <1>3
  <2> QED
    BY <1>1, <2>1, <2>2, <2>3 DEF Stages
<1>7. OwnTable'
  BY <1>1 DEF OwnTable
<1> QED
  BY <1>1, <1>5, <1>6, <1>7, FramesStay DEF Inv

LEMMA WriteMemKeeps ==
  ASSUME Inv, NEW p \in Proc, NEW a, NEW size, NEW v, WriteMem(p, a, size, v)
  PROVE  Inv'
<1>1. /\ PlainTypes /\ Tables /\ Stages /\ bitmap \in SUBSET Frame /\ FramesExact /\ OwnTable
      /\ UNCHANGED <<pc, program, space, hasSpace, bitmap, addrLock, cpu, tableOf>>
  BY DEF Inv, WriteMem
<1>2. DOMAIN mainMemory' = DOMAIN mainMemory /\ machine' \in {machine, "aborted"}
  BY DEF WriteMem
<1>3. PlainTypes' /\ Stages' /\ OwnTable'
  BY <1>1, <1>2 DEF PlainTypes, Stages, OwnTable
<1> QED
  BY <1>1, <1>3, FramesStay DEF Inv

LEMMA ExitKeeps ==
  ASSUME Inv, NEW p \in Proc, Exit(p)
  PROVE  Inv'
<1>1. /\ PlainTypes /\ Tables /\ Stages /\ bitmap \in SUBSET Frame /\ FramesExact /\ OwnTable
      /\ cpu = p /\ pc[p] = "run" /\ UNCHANGED <<program, addrLock, mainMemory, cpu, tableOf>>
      /\ pc \in [Proc -> {"none", "boot", "lock", "alloc", "load", "start", "run"}]
      /\ hasSpace \in [Proc -> BOOLEAN]
  BY DEF Inv, PlainTypes, Exit, On
<1>2. \/ /\ bitmap' = bitmap \ RangeOf(space[p])
         /\ space' = [space EXCEPT ![p] = NoPages]
         /\ hasSpace' = [hasSpace EXCEPT ![p] = FALSE]
         /\ pc' = [pc EXCEPT ![p] = "none"]
         /\ machine' = machine
      \/ machine' = "off" /\ UNCHANGED <<pc, space, hasSpace, bitmap>>
  BY DEF Exit, GoTo
<1>3. CASE /\ bitmap' = bitmap \ RangeOf(space[p])
           /\ space' = [space EXCEPT ![p] = NoPages]
           /\ hasSpace' = [hasSpace EXCEPT ![p] = FALSE]
           /\ pc' = [pc EXCEPT ![p] = "none"]
           /\ machine' = machine
  <2>1. Tables' /\ FramesExact' /\ bitmap' \in SUBSET Frame
        /\ space'[p] = NoPages /\ \A q \in Proc : q # p => space'[q] = space[q]
    BY <1>1, <1>3, Release
  <2>2. /\ pc' \in [Proc -> {"none", "boot", "lock", "alloc", "load", "start", "run"}]
        /\ pc'[p] = "none" /\ \A q \in Proc : q # p => pc'[q] = pc[q]
    BY <1>1, <1>3
  <2>3. /\ hasSpace' \in [Proc -> BOOLEAN] /\ hasSpace'[p] = FALSE
        /\ \A q \in Proc : q # p => hasSpace'[q] = hasSpace[q]
    BY <1>1, <1>3
  <2>4. PlainTypes'
    BY <1>1, <1>3, <2>2, <2>3 DEF PlainTypes
  <2>5. Stages'
    <3>1. \A q \in Proc : pc'[q] \notin {"load", "run"} => space'[q] = NoPages
      BY <1>1, <2>1, <2>2 DEF Stages
    <3>2. \A q \in Proc : hasSpace'[q] = TRUE <=> pc'[q] = "run"
      BY <1>1, <2>2, <2>3 DEF Stages
    <3>3. \A q \in Proc : pc'[q] = "alloc" <=> pc[q] = "alloc"
      BY <1>1, <2>2
    <3> QED
      BY <1>1, <3>1, <3>2, <3>3 DEF Stages
  <2>6. OwnTable'
    BY <1>1, <2>2 DEF OwnTable
  <2> QED
    BY <2>1, <2>4, <2>5, <2>6 DEF Inv
<1>4. CASE machine' = "off" /\ UNCHANGED <<pc, space, hasSpace, bitmap>>
  <2>1. PlainTypes' /\ Stages' /\ OwnTable'
    BY <1>1, <1>4 DEF PlainTypes, Stages, OwnTable
  <2> QED
    BY <1>1, <1>4, <2>1, FramesStay DEF Inv
<1> QED
  BY <1>2, <1>3, <1>4

LEMMA DispatchKeeps ==
  ASSUME Inv, NEW p \in Proc, Dispatch(p)
  PROVE  Inv'
<1>1. /\ PlainTypes /\ Tables /\ Stages /\ bitmap \in SUBSET Frame /\ FramesExact
      /\ cpu' = p /\ tableOf' = (IF hasSpace[p] THEN p ELSE tableOf)
      /\ UNCHANGED <<pc, program, space, hasSpace, bitmap, addrLock, mainMemory, machine>>
  BY DEF Inv, Dispatch
<1>2. PlainTypes'
  <2>1. tableOf' \in Proc
    BY <1>1 DEF PlainTypes
  <2> QED
    BY <1>1, <2>1 DEF PlainTypes
<1>3. Stages'
  BY <1>1 DEF Stages
<1>4. OwnTable'
  <2>1. pc[p] = "run" => hasSpace[p] = TRUE
    BY <1>1 DEF Stages
  <2> QED
    BY <1>1, <2>1 DEF OwnTable
<1> QED
  BY <1>1, <1>2, <1>3, <1>4, FramesStay DEF Inv

LEMMA StutterKeeps ==
  ASSUME Inv, UNCHANGED vars
  PROVE  Inv'
<1>1. /\ PlainTypes /\ Tables /\ Stages /\ bitmap \in SUBSET Frame /\ FramesExact /\ OwnTable
      /\ UNCHANGED <<pc, program, space, hasSpace, bitmap, addrLock, mainMemory, cpu, tableOf, machine>>
  BY DEF Inv, vars
<1>2. PlainTypes' /\ Stages' /\ OwnTable'
  BY <1>1 DEF PlainTypes, Stages, OwnTable
<1> QED
  BY <1>1, <1>2, FramesStay DEF Inv
-----------------------------------------------------------------------------
(* Where each process is, what it owns and what the bitmap says agree in   *)
(* every reachable state.                                                  *)
THEOREM Invariance == Spec => []Inv
<1>1. Init => Inv
  BY Start
<1>2. Inv /\ [Next]_vars => Inv'
  <2> SUFFICES ASSUME Inv, [Next]_vars PROVE Inv'
    OBVIOUS
  <2>1. CASE StartProcess
    BY <2>1, StartProcessKeeps
  <2>2. ASSUME NEW p \in Proc, NEW c \in Converted, Exec(p, c) PROVE Inv'
    BY <2>2, ExecKeeps
  <2>3. ASSUME NEW p \in Proc, LockMemory(p) PROVE Inv'
    BY <2>3, LockMemoryKeeps
  <2>4. ASSUME NEW p \in Proc, Allocate(p) PROVE Inv'
    BY <2>4, AllocateKeeps
  <2>5. ASSUME NEW p \in Proc, Load(p) PROVE Inv'
    BY <2>5, LoadKeeps
  <2>6. ASSUME NEW p \in Proc, NEW a \in 0 .. MemorySize, NEW size \in AccessSize, NEW v \in StoreByte,
               WriteMem(p, a, size, v)
        PROVE  Inv'
    BY <2>6, WriteMemKeeps
  <2>7. ASSUME NEW p \in Proc, Exit(p) PROVE Inv'
    BY <2>7, ExitKeeps
  <2>8. ASSUME NEW p \in Proc, Dispatch(p) PROVE Inv'
    BY <2>8, DispatchKeeps
  <2>9. CASE Stopped \/ UNCHANGED vars
    BY <2>9, StutterKeeps DEF Stopped
  <2> QED
    BY <2>1, <2>2, <2>3, <2>4, <2>5, <2>6, <2>7, <2>8, <2>9 DEF Next
<1> QED
  BY <1>1, <1>2, PTL DEF Spec

(* A frame belongs to exactly one page of one process or is clear in the   *)
(* bitmap, although the destructor of AddrSpace does not take addrLock,    *)
(* and user code is translated by the table of its own process.            *)
THEOREM FramesAreExact == Spec => []FramesInv
BY Invariance, InvImplies, PTL
-----------------------------------------------------------------------------
(* What coff2noff makes of a linked program.                               *)

(* What a turn of the loop does that does not refuse the section.          *)
Turn(h, s, g) ==
  \/ s.s_size = 0 /\ g = h
  \/ /\ s.s_size # 0 /\ s.s_name = ".text" /\ g.code = SegmentOf(h, s)
     /\ g.initData = h.initData /\ g.uninitData = h.uninitData /\ g.file = h.file \o s.raw
  \/ /\ s.s_size # 0 /\ s.s_name \in {".data", ".rdata"} /\ h.initData.size = 0
     /\ g.initData = SegmentOf(h, s) /\ g.file = h.file \o s.raw
     /\ g.code = h.code /\ g.uninitData = h.uninitData
  \/ /\ s.s_size # 0 /\ IsZero(s) /\ g.uninitData.size = h.uninitData.size + s.s_size
     /\ g.code = h.code /\ g.initData = h.initData /\ g.file = h.file

LEMMA TurnCases ==
  ASSUME NEW h \in NoffType, NEW s \in Section, NEW g, g = AddSection(h, s), g.ok = TRUE
  PROVE  h.ok = TRUE /\ Turn(h, s, g)
<1> USE DEF Turn
<1>1. h.ok \in BOOLEAN /\ h.uninitData \in Segment /\ s.s_size \in Nat
  BY DEF NoffType, Section
<1>2. Refused(h).ok = FALSE
  BY DEF Refused, NoffType
<1>3. h.ok = TRUE
  BY <1>1 DEF AddSection
<1>4. CASE s.s_size = 0
  <2>1. g = h
    BY <1>4 DEF AddSection
  <2> QED
    BY <1>3, <1>4, <2>1
<1>5. CASE s.s_size # 0 /\ s.s_name = ".text"
  <2>1. g = [Copied(h, s) EXCEPT !.code = SegmentOf(h, s)]
    BY <1>3, <1>5 DEF AddSection
  <2>2. /\ g.code = SegmentOf(h, s) /\ g.initData = h.initData /\ g.uninitData = h.uninitData
        /\ g.file = h.file \o s.raw
    BY <2>1 DEF Copied, NoffType
  <2> QED
    BY <1>3, <1>5, <2>2
<1>6. CASE s.s_size # 0 /\ s.s_name \in {".data", ".rdata"}
  <2>1. g = IF h.initData.size # 0 THEN Refused(h) ELSE [Copied(h, s) EXCEPT !.initData = SegmentOf(h, s)]
    BY <1>3, <1>6 DEF AddSection
  <2>2. h.initData.size = 0 /\ g = [Copied(h, s) EXCEPT !.initData = SegmentOf(h, s)]
    BY <1>2, <2>1
  <2>3. /\ g.initData = SegmentOf(h, s) /\ g.code = h.code /\ g.uninitData = h.uninitData
        /\ g.file = h.file \o s.raw
    BY <2>2 DEF Copied, NoffType
  <2> QED
    BY <1>3, <1>6, <2>2, <2>3
<1>7. CASE s.s_size # 0 /\ IsZero(s)
  <2>1. g = AddUninitData(h, s)
    BY <1>3, <1>7 DEF AddSection, IsZero
  <2>2. h.uninitData.size \in Nat
    BY <1>1 DEF Segment
  <2>3. CASE h.uninitData.size = 0
    <3>1. g = [h EXCEPT !.uninitData = [virtualAddr |-> s.s_paddr, inFileAddr |-> 0, size |-> s.s_size]]
      BY <2>1, <2>3 DEF AddUninitData
    <3>2. g.code = h.code /\ g.initData = h.initData /\ g.file = h.file /\ g.uninitData.size = s.s_size
      BY <3>1 DEF NoffType
    <3>3. g.uninitData.size = h.uninitData.size + s.s_size
      BY <1>1, <2>3, <3>2
    <3> QED
      BY <1>3, <1>7, <3>2, <3>3
  <2>4. CASE h.uninitData.size # 0
    <3>1. g = [h EXCEPT !.uninitData.size = h.uninitData.size + s.s_size]
      BY <1>2, <2>1, <2>4 DEF AddUninitData
    <3>2. g = [h EXCEPT !.uninitData = [h.uninitData EXCEPT !.size = h.uninitData.size + s.s_size]]
      BY <3>1
    <3>3. g.code = h.code /\ g.initData = h.initData /\ g.file = h.file
          /\ g.uninitData = [h.uninitData EXCEPT !.size = h.uninitData.size + s.s_size]
      BY <3>2 DEF NoffType
    <3>4. g.uninitData.size = h.uninitData.size + s.s_size
      BY <1>1, <3>3 DEF Segment
    <3> QED
      BY <1>3, <1>7, <3>3, <3>4
  <2> QED
    BY <2>3, <2>4
<1>8. CASE s.s_size # 0 /\ s.s_name \notin {".text", ".data", ".rdata"} /\ ~IsZero(s)
  <2>1. g = Refused(h)
    BY <1>3, <1>8 DEF AddSection, IsZero
  <2> QED
    BY <1>2, <2>1
<1> QED
  BY <1>4, <1>5, <1>6, <1>7, <1>8

(* The bytes of section s are where they were linked.                      *)
Placed(h, s) ==
  /\ s.s_paddr + s.s_size <= Len(h.file)
  /\ \A j \in 1 .. s.s_size : h.file[s.s_paddr + j] = s.raw[j]

(* The header after i sections: first the code, then the data, in memory   *)
(* and in the file, then room for .sbss and .bss.                          *)
LaidOut(h, sections, i) ==
  /\ h.code.virtualAddr = 0 /\ h.code.inFileAddr = HeaderSize /\ h.code.size > 0
  /\ h.initData.size # 0 => /\ h.initData.virtualAddr = h.code.size
                            /\ h.initData.inFileAddr = HeaderSize + h.code.size
  /\ Len(h.file) = h.code.size + h.initData.size
  /\ IF IsZero(sections[i])
     THEN /\ Len(h.file) <= sections[i].s_paddr
          /\ sections[i].s_paddr + sections[i].s_size <= Len(h.file) + h.uninitData.size
     ELSE /\ h.uninitData.size = 0
          /\ sections[i].s_paddr + sections[i].s_size = Len(h.file)
  /\ \A k \in 1 .. i : ~IsZero(sections[k]) => Placed(h, sections[k])
  /\ \A a \in 0 .. Len(h.file) - 1 : \E k \in 1 .. i :
       ~IsZero(sections[k]) /\ a - sections[k].s_paddr \in 0 .. sections[k].s_size - 1

LEMMA Concatenated ==
  ASSUME NEW f \in Seq(Nat), NEW r \in Seq(Nat)
  PROVE  /\ f \o r \in Seq(Nat) /\ Len(f \o r) = Len(f) + Len(r)
         /\ \A j \in 1 .. Len(f) : (f \o r)[j] = f[j]
         /\ \A j \in 1 .. Len(r) : (f \o r)[Len(f) + j] = r[j]
<1>1. f \o r \in Seq(Nat) /\ Len(f \o r) = Len(f) + Len(r) /\ Len(f) \in Nat /\ Len(r) \in Nat
  OBVIOUS
<1>2. \A i \in 1 .. Len(f) + Len(r) : (f \o r)[i] = IF i <= Len(f) THEN f[i] ELSE r[i - Len(f)]
  OBVIOUS
<1>3. \A j \in 1 .. Len(f) : j \in 1 .. Len(f) + Len(r) /\ j <= Len(f)
  BY <1>1
<1>4. \A j \in 1 .. Len(r) : /\ Len(f) + j \in 1 .. Len(f) + Len(r)
                             /\ ~(Len(f) + j <= Len(f)) /\ (Len(f) + j) - Len(f) = j
  BY <1>1
<1> QED
  BY <1>1, <1>2, <1>3, <1>4

LEMMA Behind ==
  \A n, b, start, size, next \in Nat :
    n <= start /\ start + size <= n + b /\ next \in start .. start + size => n <= next /\ next <= n + b
OBVIOUS

LEMMA InLastPart == \A n, m, size, a \in Nat : m = n + size /\ a <= m - 1 /\ ~(a < n) => a - n \in 0 .. size - 1
OBVIOUS

LEMMA FirstTurn ==
  ASSUME NEW sections \in Seq(Section), Linked(sections), NEW g, g = AddSection(EmptyNoff, sections[1])
  PROVE  LaidOut(g, sections, 1)
<1> DEFINE s == sections[1]
<1>1. 1 \in 1 .. Len(sections) /\ s \in Section
  <2>1. sections # <<>>
    BY DEF Linked
  <2> QED
    BY <2>1
<1>2. /\ s.s_name = ".text" /\ s.s_paddr = 0 /\ s.s_size > 0 /\ ~IsZero(s)
      /\ s.s_size \in Nat /\ s.raw \in Seq(Nat)
  BY <1>1 DEF Linked, IsZero, Section
<1>3. Len(s.raw) = s.s_size
  BY <1>1, <1>2 DEF Linked
<1> HIDE DEF s
<1>4. EmptyNoff.ok = TRUE /\ EmptyNoff.file = <<>> /\ EmptyNoff.initData = NoSegment
      /\ EmptyNoff.uninitData = NoSegment
  BY DEF EmptyNoff
<1>5. g = [Copied(EmptyNoff, s) EXCEPT !.code = SegmentOf(EmptyNoff, s)]
  BY <1>2, <1>4 DEF AddSection, s
<1>6. /\ g.code = SegmentOf(EmptyNoff, s) /\ g.initData = NoSegment /\ g.uninitData = NoSegment
      /\ g.file = <<>> \o s.raw
  BY <1>5 DEF Copied, EmptyNoff
<1>7. g.file = s.raw
  BY <1>2, <1>6
<1>8. /\ g.code.virtualAddr = 0 /\ g.code.inFileAddr = HeaderSize + 0 /\ g.code.size = s.s_size
      /\ g.initData.size = 0 /\ g.uninitData.size = 0
  BY <1>2, <1>4, <1>6 DEF SegmentOf, NoSegment
<1>9. HeaderSize \in Nat
  BY AddrSpaceAssumption
<1>10. Placed(g, s)
  BY <1>2, <1>3, <1>7 DEF Placed
<1>11. \A k \in 1 .. 1 : k = 1
  OBVIOUS
<1>12. \A a \in 0 .. Len(g.file) - 1 : a - s.s_paddr \in 0 .. s.s_size - 1
  BY <1>2, <1>3, <1>7
<1>13. /\ g.code.virtualAddr = 0 /\ g.code.inFileAddr = HeaderSize /\ g.code.size > 0
       /\ Len(g.file) = g.code.size + g.initData.size
       /\ s.s_paddr + s.s_size = Len(g.file)
  BY <1>2, <1>3, <1>7, <1>8, <1>9
<1> QED
  BY <1>2, <1>8, <1>10, <1>11, <1>12, <1>13 DEF LaidOut, s

LEMMA NextTurn ==
  ASSUME NEW sections \in Seq(Section), Linked(sections), NEW i \in 2 .. Len(sections),
         NEW h \in NoffType, LaidOut(h, sections, i - 1),
         NEW g, g = AddSection(h, sections[i]), g.ok = TRUE
  PROVE  LaidOut(g, sections, i)
<1> DEFINE s == sections[i]
           last == sections[i - 1]
<1>1. s \in Section /\ last \in Section /\ i \in 1 .. Len(sections) /\ i - 1 \in Nat
  OBVIOUS
<1>2. /\ s.s_size \in Nat /\ s.s_paddr \in Nat /\ s.raw \in Seq(Nat)
      /\ last.s_size \in Nat /\ last.s_paddr \in Nat
  BY <1>1 DEF Section
<1>3. /\ s.s_name # ".text"
      /\ Len(s.raw) = IF IsZero(s) THEN 0 ELSE s.s_size
      /\ IF IsZero(last)
         THEN IsZero(s) /\ s.s_paddr \in last.s_paddr .. last.s_paddr + last.s_size
         ELSE s.s_paddr = last.s_paddr + last.s_size
  BY <1>1 DEF Linked
<1>4. /\ h.code \in Segment /\ h.initData \in Segment /\ h.uninitData \in Segment /\ h.file \in Seq(Nat)
  BY DEF NoffType
<1>5. h.code.size \in Nat /\ h.initData.size \in Nat /\ h.uninitData.size \in Nat /\ HeaderSize \in Nat
  BY <1>4, AddrSpaceAssumption DEF Segment
<1>6. /\ h.code.virtualAddr = 0 /\ h.code.inFileAddr = HeaderSize /\ h.code.size > 0
      /\ h.initData.size # 0 => /\ h.initData.virtualAddr = h.code.size
                                /\ h.initData.inFileAddr = HeaderSize + h.code.size
      /\ Len(h.file) = h.code.size + h.initData.size
      /\ IF IsZero(last)
         THEN /\ Len(h.file) <= last.s_paddr
              /\ last.s_paddr + last.s_size <= Len(h.file) + h.uninitData.size
         ELSE /\ h.uninitData.size = 0
              /\ last.s_paddr + last.s_size = Len(h.file)
  BY DEF LaidOut
<1>7. /\ \A k \in 1 .. i - 1 : ~IsZero(sections[k]) => Placed(h, sections[k])
      /\ \A a \in 0 .. Len(h.file) - 1 : \E k \in 1 .. i - 1 :
           ~IsZero(sections[k]) /\ a - sections[k].s_paddr \in 0 .. sections[k].s_size - 1
  BY DEF LaidOut
<1>8. \A k \in 1 .. i : k = i \/ k \in 1 .. i - 1
  OBVIOUS
<1>9. \A k \in 1 .. i - 1 : k \in 1 .. i /\ sections[k] \in Section
  OBVIOUS
<1>a. i \in 1 .. i
  OBVIOUS
<1>b. \/ s.s_size = 0 /\ g = h
      \/ /\ s.s_size # 0 /\ s.s_name \in {".data", ".rdata"} /\ h.initData.size = 0
         /\ g.initData = SegmentOf(h, s) /\ g.file = h.file \o s.raw
         /\ g.code = h.code /\ g.uninitData = h.uninitData
      \/ /\ s.s_size # 0 /\ IsZero(s) /\ g.uninitData.size = h.uninitData.size + s.s_size
         /\ g.code = h.code /\ g.initData = h.initData /\ g.file = h.file
  <2>1. g = AddSection(h, s)
    OBVIOUS
  <2> HIDE DEF s
  <2>2. Turn(h, s, g)
    BY <1>1, <2>1, TurnCases
  <2> QED
    BY <1>3, <2>2 DEF Turn
<1>c. Len(h.file) \in Nat
  BY <1>4
<1> HIDE DEF s, last
<1>d. IF IsZero(last) THEN IsZero(s) /\ Len(h.file) <= s.s_paddr /\ s.s_paddr <= Len(h.file) + h.uninitData.size
      ELSE s.s_paddr = Len(h.file) /\ h.uninitData.size = 0
  <2>1. CASE IsZero(last)
    <3>1. /\ IsZero(s) /\ s.s_paddr \in last.s_paddr .. last.s_paddr + last.s_size
          /\ Len(h.file) <= last.s_paddr /\ last.s_paddr + last.s_size <= Len(h.file) + h.uninitData.size
      BY <1>3, <1>6, <2>1
    <3>2. Len(h.file) <= s.s_paddr /\ s.s_paddr <= Len(h.file) + h.uninitData.size
      BY <1>2, <1>5, <1>c, <3>1, Behind
    <3> QED
      BY <2>1, <3>1, <3>2
  <2>2. CASE ~IsZero(last)
    BY <1>3, <1>6, <2>2
  <2> QED
    BY <2>1, <2>2
<1>e. /\ Len(h.file) <= s.s_paddr /\ s.s_paddr <= Len(h.file) + h.uninitData.size
      /\ ~IsZero(s) => s.s_paddr = Len(h.file) /\ h.uninitData.size = 0
  <2>1. \A n \in Nat : n <= n /\ n <= n + 0
    OBVIOUS
  <2> QED
    BY <1>c, <1>d, <2>1
<1>f. \A n, u, q, z \in Nat : q <= n + u => q + z <= n + (u + z)
  OBVIOUS
<1>g. \A n \in Nat : n + 0 = n
  OBVIOUS
<1>10. ASSUME g.code = h.code, g.initData = h.initData, g.file = h.file,
              IF IsZero(s)
              THEN /\ Len(g.file) <= s.s_paddr
                   /\ s.s_paddr + s.s_size <= Len(g.file) + g.uninitData.size
              ELSE /\ g.uninitData.size = 0
                   /\ s.s_paddr + s.s_size = Len(g.file),
              ~IsZero(s) => s.s_size = 0
       PROVE  LaidOut(g, sections, i)
  <2>1. ~IsZero(s) => Placed(g, s)
    BY <1>2, <1>4, <1>10 DEF Placed
  <2>2. \A k \in 1 .. i : ~IsZero(sections[k]) => Placed(g, sections[k])
    BY <1>7, <1>8, <1>10, <2>1 DEF Placed, s
  <2>3. \A a \in 0 .. Len(g.file) - 1 : \E k \in 1 .. i :
           ~IsZero(sections[k]) /\ a - sections[k].s_paddr \in 0 .. sections[k].s_size - 1
    BY <1>7, <1>9, <1>10
  <2>4. /\ g.code.virtualAddr = 0 /\ g.code.inFileAddr = HeaderSize /\ g.code.size > 0
        /\ g.initData.size # 0 => /\ g.initData.virtualAddr = g.code.size
                                  /\ g.initData.inFileAddr = HeaderSize + g.code.size
        /\ Len(g.file) = g.code.size + g.initData.size
    BY <1>6, <1>10
  <2> QED
    BY <1>10, <2>2, <2>3, <2>4 DEF LaidOut, s
<1>11. CASE s.s_size = 0 /\ g = h
  <2>1. IF IsZero(s)
        THEN /\ Len(h.file) <= s.s_paddr
             /\ s.s_paddr + s.s_size <= Len(h.file) + h.uninitData.size
        ELSE /\ h.uninitData.size = 0
             /\ s.s_paddr + s.s_size = Len(h.file)
    BY ONLY <1>2, <1>5, <1>11, <1>c, <1>e, <1>g
  <2> QED
    BY <1>10, <1>11, <2>1
<1>12. CASE /\ s.s_size # 0 /\ IsZero(s) /\ g.uninitData.size = h.uninitData.size + s.s_size
            /\ g.code = h.code /\ g.initData = h.initData /\ g.file = h.file
  <2>1. Len(h.file) <= s.s_paddr /\ s.s_paddr + s.s_size <= Len(h.file) + g.uninitData.size
    BY ONLY <1>2, <1>5, <1>12, <1>c, <1>e, <1>f
  <2> QED
    BY <1>10, <1>12, <2>1
<1>13. CASE /\ s.s_size # 0 /\ s.s_name \in {".data", ".rdata"} /\ h.initData.size = 0
            /\ g.initData = SegmentOf(h, s) /\ g.file = h.file \o s.raw
            /\ g.code = h.code /\ g.uninitData = h.uninitData
  <2>1. ~IsZero(s) /\ ~IsZero(last)
    BY <1>3, <1>13 DEF IsZero
  <2>2. Len(s.raw) = s.s_size /\ s.s_paddr = Len(h.file) /\ Len(h.file) = h.code.size /\ g.uninitData.size = 0
    BY <1>2, <1>3, <1>4, <1>5, <1>6, <1>13, <2>1
  <2>3. /\ g.file \in Seq(Nat) /\ Len(g.file) = Len(h.file) + s.s_size
        /\ \A j \in 1 .. Len(h.file) : g.file[j] = h.file[j]
        /\ \A j \in 1 .. s.s_size : g.file[Len(h.file) + j] = s.raw[j]
    <3> DEFINE f == h.file
               r == s.raw
    <3>1. f \in Seq(Nat) /\ r \in Seq(Nat) /\ Len(r) = s.s_size /\ g.file = f \o r
      BY <1>2, <1>4, <1>13, <2>2
    <3> HIDE DEF f, r
    <3>2. /\ f \o r \in Seq(Nat) /\ Len(f \o r) = Len(f) + Len(r)
          /\ \A j \in 1 .. Len(f) : (f \o r)[j] = f[j]
          /\ \A j \in 1 .. Len(r) : (f \o r)[Len(f) + j] = r[j]
      BY <3>1, Concatenated
    <3> QED
      BY <3>1, <3>2 DEF f, r
  <2>4. g.initData.virtualAddr = s.s_paddr /\ g.initData.inFileAddr = HeaderSize + Len(h.file)
        /\ g.initData.size = s.s_size
    BY <1>13 DEF SegmentOf
  <2>5. Placed(g, s)
    BY <1>2, <1>4, <2>2, <2>3 DEF Placed
  <2>6. \A k \in 1 .. i - 1 : ~IsZero(sections[k]) => Placed(g, sections[k])
    <3> SUFFICES ASSUME NEW k \in 1 .. i - 1, ~IsZero(sections[k]) PROVE Placed(g, sections[k])
      OBVIOUS
    <3>1. /\ sections[k].s_paddr + sections[k].s_size <= Len(h.file)
          /\ \A j \in 1 .. sections[k].s_size : h.file[sections[k].s_paddr + j] = sections[k].raw[j]
      BY <1>7 DEF Placed
    <3>2. sections[k].s_paddr \in Nat /\ sections[k].s_size \in Nat /\ Len(h.file) \in Nat
      BY <1>c, <1>9 DEF Section
    <3>3. \A j \in 1 .. sections[k].s_size : sections[k].s_paddr + j \in 1 .. Len(h.file)
      BY <3>1, <3>2
    <3>4. sections[k].s_paddr + sections[k].s_size <= Len(g.file)
      <4>1. Len(g.file) = Len(h.file) + s.s_size /\ s.s_size \in Nat
        BY <1>2, <2>3
      <4>2. \A x, z, n, m \in Nat : x + z <= n => x + z <= n + m
        OBVIOUS
      <4>3. sections[k].s_paddr + sections[k].s_size <= Len(h.file) + s.s_size
        BY ONLY <3>1, <3>2, <4>1, <4>2
      <4> QED
        BY ONLY <4>1, <4>3
    <3> QED
      BY <2>3, <3>1, <3>3, <3>4 DEF Placed
  <2>7. \A k \in 1 .. i : ~IsZero(sections[k]) => Placed(g, sections[k])
    BY <1>8, <2>5, <2>6 DEF s
  <2>8. \A a \in 0 .. Len(g.file) - 1 : \E k \in 1 .. i :
           ~IsZero(sections[k]) /\ a - sections[k].s_paddr \in 0 .. sections[k].s_size - 1
    <3> SUFFICES ASSUME NEW a \in 0 .. Len(g.file) - 1
                 PROVE  \E k \in 1 .. i : ~IsZero(sections[k])
                                          /\ a - sections[k].s_paddr \in 0 .. sections[k].s_size - 1
      OBVIOUS
    <3>1. CASE a < Len(h.file)
      <4>1. a \in 0 .. Len(h.file) - 1
        BY <1>c, <2>3, <3>1
      <4> QED
        BY <1>7, <1>9, <4>1
    <3>2. CASE ~(a < Len(h.file))
      <4>1. a - s.s_paddr \in 0 .. s.s_size - 1
        <5>1. a \in Nat /\ Len(g.file) \in Nat /\ a <= Len(g.file) - 1
          BY <2>3
        <5> QED
          BY <1>2, <1>c, <2>2, <2>3, <3>2, <5>1, InLastPart
      <4> QED
        BY <1>a, <2>1, <4>1 DEF s
    <3> QED
      BY <3>1, <3>2
  <2>9. /\ g.code.virtualAddr = 0 /\ g.code.inFileAddr = HeaderSize /\ g.code.size > 0
        /\ g.initData.size # 0 => /\ g.initData.virtualAddr = g.code.size
                                  /\ g.initData.inFileAddr = HeaderSize + g.code.size
        /\ Len(g.file) = g.code.size + g.initData.size
        /\ s.s_paddr + s.s_size = Len(g.file)
    BY <1>6, <1>13, <2>2, <2>3, <2>4
  <2> QED
    BY <2>1, <2>2, <2>7, <2>8, <2>9 DEF LaidOut, s
<1> QED
  BY <1>b, <1>11, <1>12, <1>13

(* A program that is not refused is laid out.                              *)
LEMMA NoffLaidOut ==
  ASSUME NEW c \in Converted
  PROVE  /\ c \in Seq(Section) /\ Linked(c) /\ Len(c) \in Nat \ {0}
         /\ Noff(c) \in NoffType /\ LaidOut(Noff(c), c, Len(c))
<1>1. c \in Seq(Section) /\ Linked(c) /\ Noff(c).ok
  BY AddrSpaceAssumption DEF Converted
<1>2. Noff(c) \in NoffType
  BY <1>1, NoffTyped
<1>3. Noff(c).ok = TRUE
  <2>1. Noff(c).ok \in BOOLEAN
    BY <1>2 DEF NoffType
  <2> QED
    BY <1>1, <2>1
<1>4. Len(c) \in Nat \ {0}
  BY <1>1 DEF Linked
<1>5. PICK h : IsLoop(h, c, Len(c)) /\ Noff(c) = h[Len(c)]
  BY <1>1, NoffIsLoop
<1>6. \A i \in 0 .. Len(c) : h[i] = IF i = 0 THEN EmptyNoff ELSE AddSection(h[i - 1], c[i])
  BY <1>5 DEF IsLoop
<1>7. \A i \in 0 .. Len(c) : h[i] \in NoffType
  BY <1>1, <1>5, LoopTyped
<1> DEFINE Bad == {i \in 1 .. Len(c) : h[i].ok = TRUE /\ ~LaidOut(h[i], c, i)}
<1>8. Bad = {}
  <2> SUFFICES ASSUME Bad # {} PROVE FALSE
    OBVIOUS
  <2>1. PICK i \in Bad : \A j \in Bad : i <= j
    <3>1. Bad \subseteq Nat
      OBVIOUS
    <3> QED
      BY <3>1, LeastExists
  <2>2. i \in 1 .. Len(c) /\ i \in Nat /\ h[i].ok = TRUE /\ ~LaidOut(h[i], c, i)
    OBVIOUS
  <2>3. i \in 0 .. Len(c) /\ i # 0
    BY <1>4, <2>2
  <2>4. h[i] = AddSection(h[i - 1], c[i])
    BY <1>6, <2>3
  <2>5. CASE i = 1
    <3>1. h[0] = EmptyNoff /\ i - 1 = 0
      BY <1>4, <1>6, <2>5
    <3> QED
      BY <1>1, <2>2, <2>4, <2>5, <3>1, FirstTurn
  <2>6. CASE i # 1
    <3>1. i \in 2 .. Len(c) /\ i - 1 \in 1 .. Len(c) /\ i - 1 \in 0 .. Len(c) /\ ~(i <= i - 1)
      BY <1>4, <2>2, <2>6
    <3>2. i - 1 \notin Bad
      BY <2>1, <3>1
    <3>3. h[i - 1] \in NoffType /\ c[i] \in Section
      BY <1>1, <1>7, <2>2, <3>1
    <3>4. h[i - 1].ok = TRUE
      BY <2>2, <2>4, <3>3, TurnCases
    <3>5. LaidOut(h[i - 1], c, i - 1)
      BY <3>1, <3>2, <3>4
    <3> HIDE DEF Bad
    <3> QED
      BY <1>1, <2>2, <2>4, <3>1, <3>3, <3>5, NextTurn
  <2> QED
    BY <2>5, <2>6
<1>9. LaidOut(h[Len(c)], c, Len(c))
  BY <1>3, <1>4, <1>5, <1>8
<1> QED
  BY <1>1, <1>2, <1>4, <1>5, <1>9

(* The image that was linked is what the file holds, from address 0 on.    *)
LEMMA ImageIs ==
  ASSUME NEW c \in Converted, NEW n \in Nat, NEW h, h = Noff(c)
  PROVE  /\ DOMAIN LinkedImage(c, n) = 0 .. n * PageSize - 1
         /\ \A a \in 0 .. n * PageSize - 1 :
              LinkedImage(c, n)[a] = IF a < Len(h.file) THEN h.file[a + 1] ELSE 0
<1> DEFINE Holds(k, a) == a - c[k].s_paddr \in 0 .. Len(c[k].raw) - 1
           ByteAt(a) == IF \E k \in DOMAIN c : Holds(k, a)
                        THEN LET k == CHOOSE k \in DOMAIN c : Holds(k, a)
                             IN c[k].raw[a - c[k].s_paddr + 1]
                        ELSE 0
<1>1. LinkedImage(c, n) = [a \in 0 .. n * PageSize - 1 |-> ByteAt(a)]
  BY DEF LinkedImage
<1>2. c \in Seq(Section) /\ Linked(c) /\ Len(c) \in Nat /\ h \in NoffType /\ LaidOut(h, c, Len(c))
  BY NoffLaidOut
<1>3. DOMAIN c = 1 .. Len(c) /\ \A k \in 1 .. Len(c) : c[k] \in Section
  BY <1>2
<1>4. /\ \A k \in 1 .. Len(c) : ~IsZero(c[k]) => Placed(h, c[k])
      /\ \A a \in 0 .. Len(h.file) - 1 : \E k \in 1 .. Len(c) :
           ~IsZero(c[k]) /\ a - c[k].s_paddr \in 0 .. c[k].s_size - 1
  BY <1>2 DEF LaidOut
<1>5. \A k \in 1 .. Len(c) : Len(c[k].raw) = IF IsZero(c[k]) THEN 0 ELSE c[k].s_size
  BY <1>2 DEF Linked
<1>6. Len(h.file) \in Nat
  BY <1>2 DEF NoffType
<1>7. PageSize \in Nat
  BY AddrSpaceAssumption
<1>8. ASSUME NEW a \in Nat, NEW k \in 1 .. Len(c), Holds(k, a)
      PROVE  a < Len(h.file) /\ h.file[a + 1] = c[k].raw[a - c[k].s_paddr + 1]
  <2>1. c[k].s_paddr \in Nat /\ c[k].s_size \in Nat
    BY <1>3 DEF Section
  <2>2. ~IsZero(c[k]) /\ a - c[k].s_paddr \in 0 .. c[k].s_size - 1
    <3>1. a - c[k].s_paddr \in 0 .. Len(c[k].raw) - 1
      BY <1>8
    <3>2. Len(c[k].raw) # 0
      BY ONLY <3>1
    <3>3. Len(c[k].raw) = IF IsZero(c[k]) THEN 0 ELSE c[k].s_size
      BY <1>5
    <3> QED
      BY ONLY <3>1, <3>2, <3>3
  <2>3. /\ c[k].s_paddr + c[k].s_size <= Len(h.file)
        /\ \A j \in 1 .. c[k].s_size : h.file[c[k].s_paddr + j] = c[k].raw[j]
    BY <1>4, <2>2 DEF Placed
  <2>4. \A q, z, l \in Nat : a - q \in 0 .. z - 1 /\ q + z <= l =>
          a < l /\ a - q + 1 \in 1 .. z /\ q + (a - q + 1) = a + 1
    OBVIOUS
  <2> QED
    BY <1>6, <2>1, <2>2, <2>3, <2>4
<1>9. ASSUME NEW a \in Nat, a < Len(h.file) PROVE \E k \in DOMAIN c : Holds(k, a)
  <2>1. a \in 0 .. Len(h.file) - 1
    BY <1>6, <1>9
  <2>2. PICK k \in 1 .. Len(c) : ~IsZero(c[k]) /\ a - c[k].s_paddr \in 0 .. c[k].s_size - 1
    BY <1>4, <2>1
  <2> QED
    BY <1>3, <1>5, <2>2
<1> HIDE DEF Holds
<1>10. ASSUME NEW a \in Nat PROVE ByteAt(a) = IF a < Len(h.file) THEN h.file[a + 1] ELSE 0
  <2>1. CASE \E k \in DOMAIN c : Holds(k, a)
    <3> DEFINE k == CHOOSE k \in DOMAIN c : Holds(k, a)
    <3>1. k \in DOMAIN c /\ Holds(k, a) /\ ByteAt(a) = c[k].raw[a - c[k].s_paddr + 1]
      BY <2>1
    <3> HIDE DEF k, ByteAt
    <3> QED
      BY <1>3, <1>8, <3>1
  <2>2. CASE ~\E k \in DOMAIN c : Holds(k, a)
    BY <1>9, <2>2
  <2> QED
    BY <2>1, <2>2
<1> HIDE DEF ByteAt
<1>11. \A a \in 0 .. n * PageSize - 1 : a \in Nat
  OBVIOUS
<1> QED
  BY <1>1, <1>10, <1>11

LEMMA TimesMonotone == \A x, y, b \in Nat : x <= y => x * b <= y * b
OBVIOUS

LEMMA TimesNext == \A x, b \in Nat : x * b \in Nat /\ (x + 1) * b = x * b + b
OBVIOUS

(* DivRoundUp gives the least number of pages that suffices.               *)
LEMMA RoundUpIs ==
  ASSUME NEW n \in Nat, NEW b \in Nat \ {0}
  PROVE  /\ DivRoundUp(n, b) \in Nat
         /\ n <= DivRoundUp(n, b) * b /\ DivRoundUp(n, b) * b < n + b
<1>1. PICK q \in Nat, r \in 0 .. b - 1 : q = n \div b /\ r = n % b /\ n = b * q + r
  BY DivModNat
<1>2. DivRoundUp(n, b) = IF r > 0 THEN q + 1 ELSE q
  BY <1>1 DEF DivRoundUp
<1>3. b * q = q * b /\ q * b \in Nat /\ (q + 1) * b = q * b + b
  OBVIOUS
<1> QED
  BY <1>1, <1>2, <1>3

LEMMA RoundUpMonotone ==
  ASSUME NEW m \in Nat, NEW n \in Nat, m <= n, NEW b \in Nat \ {0}
  PROVE  DivRoundUp(m, b) <= DivRoundUp(n, b)
<1>1. PICK x \in Nat : x = DivRoundUp(m, b)
  BY RoundUpIs
<1>2. PICK y \in Nat : y = DivRoundUp(n, b)
  BY RoundUpIs
<1>3. x * b < m + b /\ n <= y * b
  BY <1>1, <1>2, RoundUpIs
<1>4. x * b \in Nat /\ y * b \in Nat /\ (y + 1) * b = y * b + b
  BY TimesNext
<1>5. x * b < (y + 1) * b
  BY <1>3, <1>4
<1>6. y + 1 <= x => (y + 1) * b <= x * b
  BY TimesMonotone
<1>7. ~(y + 1 <= x)
  BY <1>4, <1>5, <1>6
<1> QED
  BY <1>1, <1>2, <1>7

(* A space has room for all of the image and the stack.                    *)
LEMMA PagesSuffice ==
  ASSUME NEW c \in Converted, NEW h, h = Noff(c)
  PROVE  /\ NumPages(h) \in Nat /\ PagesNeeded(c) <= NumPages(h) /\ PagesNeeded(c) \in Nat
         /\ Len(h.file) <= NumPages(h) * PageSize
<1>1. /\ Len(c) \in Nat \ {0} /\ c \in Seq(Section) /\ Linked(c) /\ h \in NoffType
      /\ LaidOut(h, c, Len(c))
  BY NoffLaidOut
<1>2. c[Len(c)] \in Section
  BY <1>1
<1> DEFINE e == c[Len(c)].s_paddr + c[Len(c)].s_size
<1>3. c[Len(c)].s_paddr \in Nat /\ c[Len(c)].s_size \in Nat
  BY <1>2 DEF Section
<1>4. h.code.size \in Nat /\ h.initData.size \in Nat /\ h.uninitData.size \in Nat
  BY <1>1 DEF NoffType, Segment
<1>5. UserStackSize \in Nat /\ PageSize \in Nat \ {0}
  BY AddrSpaceAssumption
<1>6. /\ Len(h.file) = h.code.size + h.initData.size
      /\ IF IsZero(c[Len(c)])
         THEN e <= Len(h.file) + h.uninitData.size
         ELSE h.uninitData.size = 0 /\ e = Len(h.file)
  BY <1>1 DEF LaidOut
<1>7. e \in Nat
  BY <1>3
<1> HIDE DEF e
<1>8. e <= h.code.size + h.initData.size + h.uninitData.size
  BY ONLY <1>4, <1>6, <1>7
<1> DEFINE all == h.code.size + h.initData.size + h.uninitData.size + UserStackSize
<1>9. all \in Nat /\ e + UserStackSize \in Nat /\ e + UserStackSize <= all /\ Len(h.file) <= all
  BY ONLY <1>4, <1>5, <1>6, <1>7, <1>8 DEF all
<1>10. NumPages(h) = DivRoundUp(all, PageSize) /\ PagesNeeded(c) = DivRoundUp(e + UserStackSize, PageSize)
  BY DEF NumPages, PagesNeeded, e
<1> HIDE DEF all
<1>11. DivRoundUp(all, PageSize) \in Nat /\ all <= DivRoundUp(all, PageSize) * PageSize
       /\ DivRoundUp(e + UserStackSize, PageSize) \in Nat
  BY <1>5, <1>9, RoundUpIs
<1>12. DivRoundUp(e + UserStackSize, PageSize) <= DivRoundUp(all, PageSize)
  BY <1>5, <1>9, RoundUpMonotone
<1>13. DivRoundUp(all, PageSize) * PageSize \in Nat
  BY <1>5, <1>11
<1>14. Len(h.file) \in Nat
  BY <1>4, <1>6
<1>15. Len(h.file) <= DivRoundUp(all, PageSize) * PageSize
  BY <1>9, <1>11, <1>13, <1>14
<1> QED
  BY <1>10, <1>11, <1>12, <1>15
-----------------------------------------------------------------------------
(* What the constructor AddrSpace(char *filename) reads.                   *)

(* A call of ReadAt that stays on one page i, from offset o on, and reads  *)
(* the bytes that belong there.                                            *)
IsPiece(r, h, pages, n) ==
  \E i \in 0 .. n - 1, o \in 0 .. PageSize - 1 :
    /\ r.into = pages[i] * PageSize + o /\ r.size \in Nat /\ o + r.size <= PageSize
    /\ i * PageSize + o + r.size <= Len(h.file)
    /\ r.from = HeaderSize + (i * PageSize + o)

LEMMA Below ==
  ASSUME NEW x \in Nat, NEW y \in Nat, NEW b \in Nat, x * b < y * b
  PROVE  x < y
<1>1. y <= x => y * b <= x * b
  BY TimesMonotone
<1>2. x * b \in Nat /\ y * b \in Nat
  BY TimesNext
<1> QED
  BY <1>1, <1>2

LEMMA BelowNext ==
  ASSUME NEW x \in Nat, NEW y \in Nat, NEW b \in Nat, x < y
  PROVE  x * b + b <= y * b
<1>1. (x + 1) * b <= y * b
  BY TimesMonotone
<1> QED
  BY <1>1, TimesNext

(* The pages of code and data: code of cs bytes ends on page K - 1, and D  *)
(* pages of data follow, T bytes in all.  KB and DB are the sizes of the   *)
(* pages in bytes.                                                         *)
Divided(h, pages, n, K, D, KB, DB, cs, T) ==
  /\ cs > 0 /\ cs <= T /\ T = Len(h.file)
  /\ K > 0 /\ K + D <= n /\ KB = K * PageSize /\ DB = D * PageSize
  /\ cs <= KB /\ KB < cs + PageSize
  /\ IF T < KB THEN D = 0 ELSE T - KB <= DB /\ DB < (T - KB) + PageSize
  /\ ReadAts(h, pages) =
       {[into |-> pages[i] * PageSize,
         size |-> IF i < K - 1 THEN PageSize ELSE cs - KB + PageSize,
         from |-> HeaderSize + i * PageSize] : i \in 0 .. K - 1}
       \cup
       {[into |-> pages[i] * PageSize + (cs - KB + PageSize),
         size |-> IF T < KB THEN T - cs ELSE KB - cs,
         from |-> HeaderSize + cs] : i \in {j \in {K - 1} : cs < KB /\ T > cs}}
       \cup
       {[into |-> pages[K + j] * PageSize,
         size |-> IF j < D - 1 THEN PageSize ELSE (T - KB) - DB + PageSize,
         from |-> HeaderSize + KB + j * PageSize] : j \in 0 .. D - 1}

LEMMA ReadsAre ==
  ASSUME NEW h \in NoffType, NEW c, NEW k, LaidOut(h, c, k),
         NEW n \in Nat, NEW pages \in [0 .. n - 1 -> Frame], Len(h.file) <= n * PageSize
  PROVE  \E K, D, KB, DB, cs, T \in Nat : Divided(h, pages, n, K, D, KB, DB, cs, T)
<1>1. PageSize \in Nat \ {0} /\ HeaderSize \in Nat
  BY AddrSpaceAssumption
<1>2. /\ h.code.virtualAddr = 0 /\ h.code.inFileAddr = HeaderSize /\ h.code.size > 0
      /\ h.initData.size # 0 => h.initData.inFileAddr = HeaderSize + h.code.size
      /\ Len(h.file) = h.code.size + h.initData.size
  BY DEF LaidOut
<1>3. h.code.size \in Nat /\ h.initData.size \in Nat
  BY DEF NoffType, Segment
<1>4. PICK cs \in Nat : cs = h.code.size
  BY <1>3
<1>5. PICK ds \in Nat : ds = h.initData.size
  BY <1>3
<1>6. PICK T \in Nat : T = cs + ds
  OBVIOUS
<1>7. T = Len(h.file) /\ cs > 0 /\ cs <= T
  BY <1>2, <1>4, <1>5, <1>6
<1>8. PICK K \in Nat : K = DivRoundUp(cs, PageSize) /\ cs <= K * PageSize /\ K * PageSize < cs + PageSize
  BY <1>1, RoundUpIs
<1>9. PICK KB \in Nat : KB = K * PageSize
  BY <1>1, TimesNext
<1>10. K > 0
  <2>1. 0 * PageSize = 0
    BY <1>1
  <2> QED
    BY <1>7, <1>8, <2>1
<1>11. (K - 1) * PageSize = KB - PageSize
  <2>1. K - 1 \in Nat /\ (K - 1) + 1 = K
    BY <1>10
  <2>2. ((K - 1) + 1) * PageSize = (K - 1) * PageSize + PageSize /\ (K - 1) * PageSize \in Nat
    BY <1>1, <2>1, TimesNext
  <2> QED
    BY <1>1, <1>9, <2>1, <2>2
<1> DEFINE last == cs - (K - 1) * PageSize
           temp == ds - (PageSize - last)
           D == IF temp < 0 THEN 0 ELSE DivRoundUp(temp, PageSize)
           first == IF temp < 0 THEN ds ELSE PageSize - last
           lastData == temp - (D - 1) * PageSize
           start == h.initData.inFileAddr
<1>12. ReadAts(h, pages) =
         {[into |-> 0 + pages[i] * PageSize, size |-> IF i < K - 1 THEN PageSize ELSE last,
           from |-> HeaderSize + i * PageSize] : i \in 0 .. K - 1}
         \cup
         {[into |-> (0 + pages[i] * PageSize) + last, size |-> first, from |-> start] :
            i \in {j \in {K - 1} : last < PageSize /\ first > 0}}
         \cup
         {[into |-> 0 + pages[K + j] * PageSize, size |-> IF j < D - 1 THEN PageSize ELSE lastData,
           from |-> start + j * PageSize + first] : j \in 0 .. D - 1}
  BY <1>2, <1>4, <1>5, <1>8 DEF ReadAts
<1>13. last = cs - KB + PageSize /\ temp = T - KB /\ temp \in Int
  BY <1>1, <1>6, <1>11
<1> HIDE DEF last, temp
<1>14. D \in Nat /\ IF T < KB THEN D = 0 ELSE T - KB <= D * PageSize /\ D * PageSize < (T - KB) + PageSize
  <2>1. CASE T < KB
    BY <1>13, <2>1
  <2>2. CASE ~(T < KB)
    <3>1. temp \in Nat /\ ~(temp < 0)
      BY <1>13, <2>2
    <3>2. /\ DivRoundUp(temp, PageSize) \in Nat /\ temp <= DivRoundUp(temp, PageSize) * PageSize
          /\ DivRoundUp(temp, PageSize) * PageSize < temp + PageSize
      BY <1>1, <3>1, RoundUpIs
    <3> QED
      BY <1>13, <2>2, <3>1, <3>2
  <2> QED
    BY <2>1, <2>2
<1>15. first = IF T < KB THEN T - cs ELSE KB - cs
  BY <1>1, <1>6, <1>13
<1> HIDE DEF D, first
<1>16. PICK DB \in Nat : DB = D * PageSize
  BY <1>1, <1>14, TimesNext
<1>17. D > 0 => /\ lastData = (T - KB) - DB + PageSize
               /\ ~(T < KB) /\ start = HeaderSize + cs
  <2> SUFFICES ASSUME D > 0 PROVE /\ lastData = (T - KB) - DB + PageSize
                                  /\ ~(T < KB) /\ start = HeaderSize + cs
    OBVIOUS
  <2>1. D - 1 \in Nat /\ (D - 1) + 1 = D
    BY <1>14
  <2>2. ((D - 1) + 1) * PageSize = (D - 1) * PageSize + PageSize /\ (D - 1) * PageSize \in Nat
    BY <1>1, <2>1, TimesNext
  <2>3. (D - 1) * PageSize = DB - PageSize
    BY <1>1, <1>16, <2>1, <2>2
  <2>4. ~(T < KB) /\ lastData = (T - KB) - DB + PageSize
    BY <1>1, <1>13, <1>14, <2>3
  <2>5. DB >= PageSize
    BY <1>1, <2>2, <2>3
  <2>6. ds # 0
    <3>1. DB < (T - KB) + PageSize /\ cs <= KB
      BY <1>8, <1>9, <1>14, <1>16, <2>4
    <3> QED
      BY <1>1, <1>6, <2>5, <3>1
  <2> QED
    BY <1>2, <1>4, <1>5, <2>4, <2>6
<1> HIDE DEF lastData
<1>18. (last < PageSize /\ first > 0) <=> (cs < KB /\ T > cs)
  BY <1>1, <1>13, <1>15
<1>19. first > 0 => start = HeaderSize + cs
  <2>1. first > 0 => ds # 0
    BY <1>6, <1>8, <1>9, <1>15
  <2> QED
    BY <1>2, <1>4, <1>5, <2>1
<1> HIDE DEF start
<1>d. D \in Nat
  BY <1>14
<1>20. K + D <= n
  <2>1. (K + D) * PageSize = KB + DB /\ K + D \in Nat /\ n + 1 \in Nat
    <3>1. \A x, y, b \in Nat : (x + y) * b = x * b + y * b
      OBVIOUS
    <3> QED
      BY <1>1, <1>9, <1>14, <1>16, <3>1
  <2>2. (n + 1) * PageSize = n * PageSize + PageSize /\ n * PageSize \in Nat
    BY <1>1, TimesNext
  <2>3. KB + DB < T + PageSize
    <3>1. CASE T < KB
      <4>1. DB = 0
        BY <1>1, <1>14, <1>16, <3>1
      <4> QED
        BY <1>1, <1>7, <1>8, <1>9, <4>1
    <3>2. CASE ~(T < KB)
      BY <1>1, <1>14, <1>16, <3>2
    <3> QED
      BY <3>1, <3>2
  <2>4. (K + D) * PageSize < (n + 1) * PageSize
    BY <1>1, <1>7, <2>1, <2>2, <2>3
  <2>5. K + D < n + 1
    BY <1>1, <2>1, <2>4, Below
  <2> QED
    BY <2>1, <2>5
<1>21. \A i \in 0 .. n - 1 : pages[i] * PageSize \in Nat /\ 0 + pages[i] * PageSize = pages[i] * PageSize
  <2> SUFFICES ASSUME NEW i \in 0 .. n - 1
               PROVE  pages[i] * PageSize \in Nat /\ 0 + pages[i] * PageSize = pages[i] * PageSize
    OBVIOUS
  <2>1. pages[i] \in Nat
    BY FrameFinite
  <2>2. pages[i] * PageSize \in Nat
    BY <1>1, <2>1, TimesNext
  <2> QED
    BY <2>2
<1>22. /\ \A i \in 0 .. K - 1 : i \in 0 .. n - 1 /\ i \in Nat
       /\ \A j \in 0 .. D - 1 : K + j \in 0 .. n - 1 /\ j \in Nat
       /\ K - 1 \in 0 .. n - 1
  BY <1>10, <1>14, <1>20
<1> DEFINE Code(i) == [into |-> 0 + pages[i] * PageSize, size |-> IF i < K - 1 THEN PageSize ELSE last,
                       from |-> HeaderSize + i * PageSize]
           CodeIs(i) == [into |-> pages[i] * PageSize,
                         size |-> IF i < K - 1 THEN PageSize ELSE cs - KB + PageSize,
                         from |-> HeaderSize + i * PageSize]
           Rest(i) == [into |-> (0 + pages[i] * PageSize) + last, size |-> first, from |-> start]
           RestIs(i) == [into |-> pages[i] * PageSize + (cs - KB + PageSize),
                         size |-> IF T < KB THEN T - cs ELSE KB - cs,
                         from |-> HeaderSize + cs]
           Data(j) == [into |-> 0 + pages[K + j] * PageSize,
                       size |-> IF j < D - 1 THEN PageSize ELSE lastData,
                       from |-> start + j * PageSize + first]
           DataIs(j) == [into |-> pages[K + j] * PageSize,
                         size |-> IF j < D - 1 THEN PageSize ELSE (T - KB) - DB + PageSize,
                         from |-> HeaderSize + KB + j * PageSize]
<1>23. \A i \in 0 .. K - 1 : Code(i) = CodeIs(i)
  BY <1>13, <1>21, <1>22
<1>24. ASSUME NEW i \in {j \in {K - 1} : last < PageSize /\ first > 0} PROVE Rest(i) = RestIs(i)
  <2>1. i \in 0 .. n - 1 /\ first > 0
    BY <1>22
  <2>2. 0 + pages[i] * PageSize = pages[i] * PageSize /\ start = HeaderSize + cs
    BY <1>19, <1>21, <2>1
  <2> QED
    BY <1>13, <1>15, <2>2
<1>25. ASSUME NEW j \in 0 .. D - 1 PROVE Data(j) = DataIs(j)
  <2>1. D > 0 /\ j \in Nat /\ K + j \in 0 .. n - 1
    BY <1>d, <1>22
  <2>2. /\ lastData = (T - KB) - DB + PageSize /\ ~(T < KB) /\ start = HeaderSize + cs
        /\ 0 + pages[K + j] * PageSize = pages[K + j] * PageSize
    BY <1>17, <1>21, <2>1
  <2>3. j * PageSize \in Nat
    BY <1>1, <2>1, TimesNext
  <2>4. start + j * PageSize + first = HeaderSize + KB + j * PageSize
    BY <1>1, <1>15, <2>2, <2>3
  <2> QED
    BY <2>2, <2>4
<1>26. ReadAts(h, pages) = {Code(i) : i \in 0 .. K - 1}
                           \cup {Rest(i) : i \in {j \in {K - 1} : last < PageSize /\ first > 0}}
                           \cup {Data(j) : j \in 0 .. D - 1}
  BY <1>12
<1>27. ReadAts(h, pages) = {CodeIs(i) : i \in 0 .. K - 1}
                           \cup {RestIs(i) : i \in {j \in {K - 1} : cs < KB /\ T > cs}}
                           \cup {DataIs(j) : j \in 0 .. D - 1}
  <2> HIDE DEF Code, CodeIs, Rest, RestIs, Data, DataIs
  <2>1. {Code(i) : i \in 0 .. K - 1} = {CodeIs(i) : i \in 0 .. K - 1}
    BY <1>23
  <2>2. {Rest(i) : i \in {j \in {K - 1} : last < PageSize /\ first > 0}}
          = {RestIs(i) : i \in {j \in {K - 1} : cs < KB /\ T > cs}}
    BY <1>18, <1>24
  <2>3. {Data(j) : j \in 0 .. D - 1} = {DataIs(j) : j \in 0 .. D - 1}
    BY <1>25
  <2> QED
    BY <1>26, <2>1, <2>2, <2>3
<1>28. Divided(h, pages, n, K, D, KB, DB, cs, T)
  <2>1. /\ cs > 0 /\ cs <= T /\ T = Len(h.file)
        /\ K > 0 /\ K + D <= n /\ KB = K * PageSize /\ DB = D * PageSize
        /\ cs <= KB /\ KB < cs + PageSize
        /\ IF T < KB THEN D = 0 ELSE T - KB <= DB /\ DB < (T - KB) + PageSize
    BY <1>7, <1>8, <1>9, <1>10, <1>14, <1>16, <1>20
  <2> QED
    BY <1>27, <2>1, Zenon DEF Divided
<1> QED
  BY <1>28, <1>d

LEMMA PagesOf ==
  ASSUME NEW n \in Nat, NEW pages \in [0 .. n - 1 -> Frame], NEW i \in 0 .. n - 1
  PROVE  /\ pages[i] \in Nat /\ pages[i] * PageSize \in Nat /\ i * PageSize \in Nat
         /\ pages[i] * PageSize + 0 = pages[i] * PageSize
<1>1. pages[i] \in Nat /\ i \in Nat /\ PageSize \in Nat
  <2>1. pages[i] \in Frame /\ i \in Nat
    OBVIOUS
  <2>2. PageSize \in Nat
    BY AddrSpaceAssumption
  <2> QED
    BY <2>1, <2>2, FrameFinite
<1>2. pages[i] * PageSize \in Nat /\ i * PageSize \in Nat
  BY <1>1, TimesNext
<1> QED
  BY <1>1, <1>2

LEMMA Previous ==
  ASSUME NEW x \in Nat, x > 0, NEW b \in Nat
  PROVE  x - 1 \in Nat /\ (x - 1) * b = x * b - b
<1>1. x - 1 \in Nat /\ (x - 1) + 1 = x
  OBVIOUS
<1>2. ((x - 1) + 1) * b = (x - 1) * b + b /\ (x - 1) * b \in Nat
  BY <1>1, TimesNext
<1> QED
  BY <1>1, <1>2

LEMMA ReadsArePieces ==
  ASSUME NEW h \in NoffType, NEW n \in Nat, NEW pages \in [0 .. n - 1 -> Frame],
         NEW K \in Nat, NEW D \in Nat, NEW KB \in Nat, NEW DB \in Nat, NEW cs \in Nat, NEW T \in Nat,
         Divided(h, pages, n, K, D, KB, DB, cs, T)
  PROVE  \A r \in ReadAts(h, pages) : IsPiece(r, h, pages, n)
<1>1. PageSize \in Nat \ {0} /\ HeaderSize \in Nat
  BY AddrSpaceAssumption
<1>2. /\ cs > 0 /\ cs <= T /\ T = Len(h.file) /\ K > 0 /\ K + D <= n
      /\ cs <= KB /\ KB < cs + PageSize
  BY DEF Divided
<1>3. KB = K * PageSize /\ DB = D * PageSize
  BY DEF Divided
<1>4. IF T < KB THEN D = 0 ELSE T - KB <= DB /\ DB < (T - KB) + PageSize
  BY DEF Divided
<1>5. K - 1 \in Nat /\ (K - 1) * PageSize = KB - PageSize /\ K - 1 \in 0 .. n - 1
  <2>1. K - 1 \in Nat /\ (K - 1) * PageSize = K * PageSize - PageSize
    BY <1>1, <1>2, Previous
  <2> QED
    BY <1>2, <1>3, <2>1
<1>6. ASSUME NEW i \in 0 .. K - 1, NEW r,
             r = [into |-> pages[i] * PageSize,
                  size |-> IF i < K - 1 THEN PageSize ELSE cs - KB + PageSize,
                  from |-> HeaderSize + i * PageSize]
      PROVE  IsPiece(r, h, pages, n)
  <2>1. i \in 0 .. n - 1 /\ i \in Nat
    BY <1>2
  <2>2. i * PageSize \in Nat /\ pages[i] * PageSize + 0 = pages[i] * PageSize /\ i * PageSize + 0 = i * PageSize
    <3>1. i * PageSize \in Nat /\ pages[i] * PageSize + 0 = pages[i] * PageSize
      BY <2>1, PagesOf
    <3> QED
      BY <3>1
  <2>3. r.into = pages[i] * PageSize /\ r.from = HeaderSize + i * PageSize
        /\ r.size = IF i < K - 1 THEN PageSize ELSE cs - KB + PageSize
    BY <1>6
  <2>4. r.size \in Nat /\ 0 + r.size <= PageSize /\ i * PageSize + 0 + r.size <= Len(h.file)
    <3>1. CASE i < K - 1
      <4>1. i * PageSize + PageSize <= (K - 1) * PageSize
        BY <1>1, <1>5, <2>1, <3>1, BelowNext
      <4>2. i * PageSize + PageSize <= T
        BY ONLY <1>1, <1>2, <1>5, <2>2, <4>1
      <4> QED
        BY <1>1, <1>2, <2>2, <2>3, <3>1, <4>2
    <3>2. CASE ~(i < K - 1)
      <4>1. i = K - 1
        BY <1>5, <2>1, <3>2
      <4>2. i * PageSize = KB - PageSize /\ r.size = cs - KB + PageSize
        BY <1>5, <2>3, <3>2, <4>1
      <4> QED
        BY <1>1, <1>2, <4>2
    <3> QED
      BY <3>1, <3>2
  <2>5. 0 \in 0 .. PageSize - 1
    BY <1>1
  <2> QED
    BY <2>1, <2>2, <2>3, <2>4, <2>5 DEF IsPiece
<1>7. ASSUME cs < KB, T > cs, NEW r,
             r = [into |-> pages[K - 1] * PageSize + (cs - KB + PageSize),
                  size |-> IF T < KB THEN T - cs ELSE KB - cs,
                  from |-> HeaderSize + cs]
      PROVE  IsPiece(r, h, pages, n)
  <2> DEFINE o == cs - KB + PageSize
             i == K - 1
  <2>1. o \in 0 .. PageSize - 1 /\ i * PageSize + o = cs /\ i \in 0 .. n - 1
    BY <1>1, <1>2, <1>5, <1>7
  <2>2. r.into = pages[i] * PageSize + o /\ r.from = HeaderSize + cs
        /\ r.size = IF T < KB THEN T - cs ELSE KB - cs
    BY <1>7
  <2>3. r.size \in Nat /\ o + r.size <= PageSize /\ cs + r.size <= Len(h.file)
    <3>1. CASE T < KB
      <4>1. r.size = T - cs
        BY <2>2, <3>1
      <4> QED
        BY <1>1, <1>2, <3>1, <4>1
    <3>2. CASE ~(T < KB)
      <4>1. r.size = KB - cs
        BY <2>2, <3>2
      <4> QED
        BY <1>1, <1>2, <3>2, <4>1
    <3> QED
      BY <3>1, <3>2
  <2> HIDE DEF o, i
  <2> QED
    BY <2>1, <2>2, <2>3 DEF IsPiece
<1>8. ASSUME NEW j \in 0 .. D - 1, NEW r,
             r = [into |-> pages[K + j] * PageSize,
                  size |-> IF j < D - 1 THEN PageSize ELSE (T - KB) - DB + PageSize,
                  from |-> HeaderSize + KB + j * PageSize]
      PROVE  IsPiece(r, h, pages, n)
  <2> DEFINE i == K + j
  <2>1. i \in 0 .. n - 1 /\ j \in Nat /\ D > 0 /\ ~(T < KB)
    BY <1>2, <1>4
  <2>2. D - 1 \in Nat /\ (D - 1) * PageSize = DB - PageSize
    <3>1. D - 1 \in Nat /\ (D - 1) * PageSize = D * PageSize - PageSize
      BY <1>1, <2>1, Previous
    <3> QED
      BY <1>3, <3>1
  <2>3. j * PageSize \in Nat /\ i * PageSize = KB + j * PageSize
    <3>1. \A x, y, b \in Nat : (x + y) * b = x * b + y * b /\ y * b \in Nat
      OBVIOUS
    <3> QED
      BY <1>1, <1>3, <2>1, <3>1
  <2>4. /\ r.into = pages[i] * PageSize /\ r.from = HeaderSize + KB + j * PageSize
        /\ r.size = IF j < D - 1 THEN PageSize ELSE (T - KB) - DB + PageSize
    BY <1>8
  <2> HIDE DEF i
  <2>5. pages[i] * PageSize + 0 = pages[i] * PageSize
    BY <2>1, PagesOf
  <2>6. r.from = HeaderSize + (i * PageSize + 0)
    BY <1>1, <2>3, <2>4
  <2>7. r.size \in Nat /\ 0 + r.size <= PageSize /\ i * PageSize + 0 + r.size <= Len(h.file)
    <3>1. CASE j < D - 1
      <4>1. j * PageSize + PageSize <= (D - 1) * PageSize
        BY <1>1, <2>1, <2>2, <3>1, BelowNext
      <4>2. KB + j * PageSize + PageSize <= T
        BY <1>1, <1>4, <2>1, <2>2, <2>3, <4>1
      <4> QED
        BY <1>1, <1>2, <2>3, <2>4, <3>1, <4>2
    <3>2. CASE ~(j < D - 1)
      <4>1. j = D - 1
        BY <2>2, <3>2
      <4>2. j * PageSize = DB - PageSize /\ r.size = (T - KB) - DB + PageSize
        BY <2>2, <2>4, <3>2, <4>1
      <4>3. r.size \in Nat /\ r.size <= PageSize /\ i * PageSize = KB + (DB - PageSize)
        BY ONLY <1>1, <1>4, <2>1, <2>3, <4>2
      <4> QED
        BY ONLY <1>1, <1>2, <4>2, <4>3
    <3> QED
      BY <3>1, <3>2
  <2>8. 0 \in 0 .. PageSize - 1
    BY <1>1
  <2> QED
    BY <2>1, <2>4, <2>5, <2>6, <2>7, <2>8 DEF IsPiece
<1> SUFFICES ASSUME NEW r \in ReadAts(h, pages) PROVE IsPiece(r, h, pages, n)
  OBVIOUS
<1>9. \/ \E i \in 0 .. K - 1 :
           r = [into |-> pages[i] * PageSize,
                size |-> IF i < K - 1 THEN PageSize ELSE cs - KB + PageSize,
                from |-> HeaderSize + i * PageSize]
      \/ /\ cs < KB /\ T > cs
         /\ r = [into |-> pages[K - 1] * PageSize + (cs - KB + PageSize),
                 size |-> IF T < KB THEN T - cs ELSE KB - cs,
                 from |-> HeaderSize + cs]
      \/ \E j \in 0 .. D - 1 :
           r = [into |-> pages[K + j] * PageSize,
                size |-> IF j < D - 1 THEN PageSize ELSE (T - KB) - DB + PageSize,
                from |-> HeaderSize + KB + j * PageSize]
  BY DEF Divided
<1> QED
  BY <1>6, <1>7, <1>8, <1>9, Zenon

(* Every byte of the file is read, to where it belongs.                    *)
LEMMA ReadsCover ==
  ASSUME NEW h \in NoffType, NEW n \in Nat, NEW pages \in [0 .. n - 1 -> Frame],
         NEW K \in Nat, NEW D \in Nat, NEW KB \in Nat, NEW DB \in Nat, NEW cs \in Nat, NEW T \in Nat,
         Divided(h, pages, n, K, D, KB, DB, cs, T),
         NEW i \in 0 .. n - 1, NEW o \in 0 .. PageSize - 1, i * PageSize + o < Len(h.file)
  PROVE  \E r \in ReadAts(h, pages) : pages[i] * PageSize + o \in r.into .. r.into + r.size - 1
<1>1. PageSize \in Nat \ {0}
  BY AddrSpaceAssumption
<1>2. /\ cs > 0 /\ cs <= T /\ T = Len(h.file) /\ K > 0 /\ K + D <= n
      /\ cs <= KB /\ KB < cs + PageSize
  BY DEF Divided
<1>3. KB = K * PageSize /\ DB = D * PageSize
  BY DEF Divided
<1>4. IF T < KB THEN D = 0 ELSE T - KB <= DB /\ DB < (T - KB) + PageSize
  BY DEF Divided
<1>5. K - 1 \in Nat /\ (K - 1) * PageSize = KB - PageSize
  <2>1. K - 1 \in Nat /\ (K - 1) * PageSize = K * PageSize - PageSize
    BY <1>1, <1>2, Previous
  <2> QED
    BY <1>3, <2>1
<1>6. PICK x \in Nat : x = i * PageSize /\ x + o < T
  BY <1>2, PagesOf
<1>7. PICK base \in Nat : base = pages[i] * PageSize
  BY PagesOf
<1>8. i \in Nat /\ o \in Nat /\ o < PageSize
  BY <1>1
<1>9. CASE x + o < cs
  <2>1. i <= K - 1
    <3>1. i * PageSize < K * PageSize
      BY <1>2, <1>3, <1>6, <1>8, <1>9
    <3>2. i < K
      BY <1>1, <1>8, <3>1, Below
    <3> QED
      BY <1>8, <3>2
  <2> DEFINE r == [into |-> pages[i] * PageSize,
                   size |-> IF i < K - 1 THEN PageSize ELSE cs - KB + PageSize,
                   from |-> HeaderSize + i * PageSize]
  <2>2. r \in ReadAts(h, pages)
    <3>1. i \in 0 .. K - 1
      BY <1>8, <2>1
    <3> QED
      BY <3>1 DEF Divided
  <2>3. r.into = base /\ r.size = IF i < K - 1 THEN PageSize ELSE cs - KB + PageSize
    BY <1>7
  <2> HIDE DEF r
  <2>4. r.size \in Int /\ o < r.size
    <3>1. CASE i < K - 1
      BY <1>1, <1>8, <2>3, <3>1
    <3>2. CASE ~(i < K - 1)
      <4>1. i = K - 1
        BY <1>5, <1>8, <2>1, <3>2
      <4>2. x = KB - PageSize /\ r.size = cs - KB + PageSize
        BY <1>5, <1>6, <2>3, <3>2, <4>1
      <4> QED
        BY ONLY <1>1, <1>8, <1>9, <4>2
    <3> QED
      BY <3>1, <3>2
  <2>5. base + o \in r.into .. r.into + r.size - 1
    BY ONLY <1>8, <2>3, <2>4
  <2> QED
    BY <1>7, <2>2, <2>5
<1>10. CASE ~(x + o < cs) /\ i < K
  <2>1. i = K - 1
    <3> SUFFICES ASSUME i < K - 1 PROVE FALSE
      BY <1>5, <1>8, <1>10
    <3>1. i * PageSize + PageSize <= (K - 1) * PageSize
      BY <1>1, <1>5, <1>8, BelowNext
    <3> QED
      BY <1>1, <1>2, <1>5, <1>6, <1>8, <1>10, <3>1
  <2>2. x = KB - PageSize
    BY <1>5, <1>6, <2>1
  <2>3. cs < KB /\ T > cs
    BY <1>1, <1>2, <1>6, <1>8, <1>10, <2>2
  <2> DEFINE r == [into |-> pages[K - 1] * PageSize + (cs - KB + PageSize),
                   size |-> IF T < KB THEN T - cs ELSE KB - cs,
                   from |-> HeaderSize + cs]
  <2>4. r \in ReadAts(h, pages)
    BY <2>3 DEF Divided
  <2>5. r.into = base + (cs - KB + PageSize) /\ r.size = IF T < KB THEN T - cs ELSE KB - cs
    BY <1>7, <2>1
  <2> HIDE DEF r
  <2>6. base + o \in r.into .. r.into + r.size - 1
    <3>1. CASE T < KB
      BY <1>1, <1>6, <1>8, <1>10, <2>2, <2>5, <3>1
    <3>2. CASE ~(T < KB)
      BY <1>1, <1>6, <1>8, <1>10, <2>2, <2>5, <3>2
    <3> QED
      BY <3>1, <3>2
  <2> QED
    BY <1>7, <2>4, <2>6
<1>11. CASE ~(i < K)
  <2>1. PICK j \in Nat : i = K + j
    <3>1. i - K \in Nat /\ i = K + (i - K)
      BY <1>8, <1>11
    <3> QED
      BY <3>1
  <2>2. PICK y \in Nat : y = j * PageSize /\ x = KB + y
    <3>1. \A u, v, b \in Nat : (u + v) * b = u * b + v * b /\ v * b \in Nat
      OBVIOUS
    <3> QED
      BY <1>1, <1>3, <1>6, <2>1, <3>1
  <2>3. ~(T < KB) /\ T - KB <= DB
    <3>1. x + o < T /\ x = KB + y
      BY <1>6, <2>2
    <3>2. ~(T < KB)
      BY <1>8, <3>1
    <3> QED
      BY <1>4, <3>2
  <2>4. j < D
    <3>1. j * PageSize < D * PageSize
      <4>1. x + o < T /\ x = KB + y
        BY <1>6, <2>2
      <4>2. y < DB
        BY <1>8, <2>3, <4>1
      <4> QED
        BY <1>3, <2>2, <4>2
    <3> QED
      BY <1>1, <3>1, Below
  <2>5. D - 1 \in Nat /\ (D - 1) * PageSize = DB - PageSize
    <3>1. D > 0
      BY <2>4
    <3>2. D - 1 \in Nat /\ (D - 1) * PageSize = D * PageSize - PageSize
      BY <1>1, <3>1, Previous
    <3> QED
      BY <1>3, <3>2
  <2> DEFINE r == [into |-> pages[K + j] * PageSize,
                   size |-> IF j < D - 1 THEN PageSize ELSE (T - KB) - DB + PageSize,
                   from |-> HeaderSize + KB + j * PageSize]
  <2>6. r \in ReadAts(h, pages)
    <3>1. j \in 0 .. D - 1
      BY <2>4
    <3> QED
      BY <3>1 DEF Divided
  <2>7. r.into = base /\ r.size = IF j < D - 1 THEN PageSize ELSE (T - KB) - DB + PageSize
    BY <1>7, <2>1
  <2> HIDE DEF r
  <2>8. r.size \in Int /\ o < r.size
    <3>1. CASE j < D - 1
      BY <1>1, <1>8, <2>7, <3>1
    <3>2. CASE ~(j < D - 1)
      <4>1. j = D - 1
        BY <2>4, <3>2
      <4>2. y = DB - PageSize /\ r.size = (T - KB) - DB + PageSize
        BY <2>2, <2>5, <2>7, <3>2, <4>1
      <4> QED
        BY ONLY <1>1, <1>6, <1>8, <2>2, <4>2
    <3> QED
      BY <3>1, <3>2
  <2>9. base + o \in r.into .. r.into + r.size - 1
    BY ONLY <1>8, <2>7, <2>8
  <2> QED
    BY <1>7, <2>6, <2>9
<1> QED
  BY <1>9, <1>10, <1>11
-----------------------------------------------------------------------------
(* Physical addresses.                                                     *)

LEMMA AddressParts ==
  ASSUME NEW f \in Nat, NEW b \in Nat \ {0}, NEW o \in 0 .. b - 1
  PROVE  /\ f * b + o \in Nat /\ (f * b + o) \div b = f /\ (f * b + o) % b = o
<1>1. PICK x \in Nat : x = f * b + o
  BY TimesNext
<1>2. PICK q \in Nat, r \in 0 .. b - 1 : q = x \div b /\ r = x % b /\ x = b * q + r
  BY DivModNat
<1>3. b * q = q * b /\ q * b \in Nat /\ f * b \in Nat
  OBVIOUS
<1>4. ~(q < f)
  <2> SUFFICES ASSUME q < f PROVE FALSE
    OBVIOUS
  <2>1. q * b + b <= f * b
    BY BelowNext
  <2> QED
    BY <1>1, <1>2, <1>3, <2>1
<1>5. ~(f < q)
  <2> SUFFICES ASSUME f < q PROVE FALSE
    OBVIOUS
  <2>1. f * b + b <= q * b
    BY BelowNext
  <2> QED
    BY <1>1, <1>2, <1>3, <2>1
<1>6. q = f
  BY <1>4, <1>5
<1>7. r = o
  BY <1>1, <1>2, <1>3, <1>6
<1> QED
  BY <1>1, <1>2, <1>6, <1>7

LEMMA SameAddress ==
  ASSUME NEW f \in Nat, NEW g \in Nat, NEW o \in 0 .. PageSize - 1, NEW q \in 0 .. PageSize - 1,
         f * PageSize + o = g * PageSize + q
  PROVE  f = g /\ o = q
<1>1. PageSize \in Nat \ {0}
  BY AddrSpaceAssumption
<1>2. (f * PageSize + o) \div PageSize = f /\ (f * PageSize + o) % PageSize = o
  BY <1>1, AddressParts
<1>3. (g * PageSize + q) \div PageSize = g /\ (g * PageSize + q) % PageSize = q
  BY <1>1, AddressParts
<1> QED
  BY <1>2, <1>3

(* The bytes of a frame are in main memory.                                *)
LEMMA InMemory ==
  ASSUME NEW f \in Frame, NEW o \in 0 .. PageSize - 1
  PROVE  /\ f * PageSize + o \in 0 .. MemorySize - 1 /\ f \in Nat
         /\ (f * PageSize + o) \div PageSize = f /\ (f * PageSize + o) % PageSize = o
<1>1. PageSize \in Nat \ {0} /\ NumPhysPages \in Nat
  BY AddrSpaceAssumption
<1>2. f \in Nat /\ f < NumPhysPages /\ o \in Nat /\ o < PageSize
  BY <1>1 DEF Frame
<1>3. f * PageSize + PageSize <= NumPhysPages * PageSize
  BY <1>1, <1>2, BelowNext
<1>4. f * PageSize \in Nat /\ NumPhysPages * PageSize \in Nat
  BY <1>1, <1>2, TimesNext
<1>5. f * PageSize + o \in 0 .. MemorySize - 1
  <2>1. \A x, y, b \in Nat : x + b <= y /\ o < b => x + o \in 0 .. y - 1
    BY <1>2
  <2> QED
    BY <1>1, <1>2, <1>3, <1>4, <2>1 DEF MemorySize
<1> QED
  BY <1>1, <1>2, <1>5, AddressParts

LEMMA FilledAt ==
  ASSUME NEW memory, NEW h, NEW reads, NEW m, m = Filled(memory, h, reads), NEW a \in DOMAIN memory
  PROVE  \/ \E r \in reads : a \in r.into .. r.into + r.size - 1 /\ m[a] = FileByte(h, r.from + a - r.into)
         \/ m[a] = memory[a] /\ \A r \in reads : a \notin r.into .. r.into + r.size - 1
<1> DEFINE Covers(r) == a \in r.into .. r.into + r.size - 1
<1>1. m[a] = IF \E r \in reads : Covers(r)
             THEN LET r == CHOOSE r \in reads : Covers(r) IN FileByte(h, r.from + a - r.into)
             ELSE memory[a]
  BY DEF Filled
<1> HIDE DEF Covers
<1>2. CASE \E r \in reads : Covers(r)
  <2> DEFINE r == CHOOSE r \in reads : Covers(r)
  <2>1. r \in reads /\ Covers(r) /\ m[a] = FileByte(h, r.from + a - r.into)
    BY <1>1, <1>2
  <2> HIDE DEF r
  <2> QED
    BY <2>1 DEF Covers
<1>3. CASE ~\E r \in reads : Covers(r)
  BY <1>1, <1>3 DEF Covers
<1> QED
  BY <1>2, <1>3

LEMMA PieceHolds ==
  ASSUME NEW h \in NoffType, NEW n \in Nat, NEW pages \in [0 .. n - 1 -> Frame],
         NEW r, IsPiece(r, h, pages, n), NEW a, a \in r.into .. r.into + r.size - 1
  PROVE  \E i \in 0 .. n - 1, o \in 0 .. PageSize - 1 :
           /\ a = pages[i] * PageSize + o /\ i * PageSize + o < Len(h.file)
           /\ r.from + a - r.into = HeaderSize + (i * PageSize + o)
<1>1. PageSize \in Nat \ {0} /\ HeaderSize \in Nat
  BY AddrSpaceAssumption
<1>2. PICK i \in 0 .. n - 1, o \in 0 .. PageSize - 1 :
        /\ r.into = pages[i] * PageSize + o /\ r.size \in Nat /\ o + r.size <= PageSize
        /\ i * PageSize + o + r.size <= Len(h.file)
        /\ r.from = HeaderSize + (i * PageSize + o)
  BY DEF IsPiece
<1>3. PICK x \in Nat : x = i * PageSize
  BY PagesOf
<1>4. PICK base \in Nat : base = pages[i] * PageSize
  BY PagesOf
<1>5. Len(h.file) \in Nat
  BY DEF NoffType
<1>6. /\ r.into = base + o /\ r.size \in Nat /\ o + r.size <= PageSize
      /\ x + o + r.size <= Len(h.file) /\ r.from = HeaderSize + (x + o)
  BY <1>2, <1>3, <1>4
<1>7. o \in Nat /\ o < PageSize
  BY <1>1
<1>8. a \in Int /\ base + o <= a /\ a <= base + o + r.size - 1
  BY <1>6, <1>7
<1> DEFINE e == a - base
<1>9. e \in 0 .. PageSize - 1 /\ a = base + e
  BY ONLY <1>1, <1>6, <1>7, <1>8 DEF e
<1>10. x + e < Len(h.file)
  BY <1>5, <1>6, <1>7, <1>8
<1>11. r.from + a - r.into = HeaderSize + (x + e)
  BY <1>1, <1>6, <1>7, <1>8
<1> HIDE DEF e
<1> QED
  BY <1>3, <1>4, <1>9, <1>10, <1>11

OneToOne(pages, n) == \A i, j \in 0 .. n - 1 : pages[i] = pages[j] => i = j

(* The n pages hold the file, and behind it what memory held.              *)
HoldsFile(m, pages, n, h, memory) ==
  \A i \in 0 .. n - 1, o \in 0 .. PageSize - 1 :
    m[pages[i] * PageSize + o] =
      IF i * PageSize + o < Len(h.file) THEN h.file[(i * PageSize + o) + 1]
      ELSE memory[pages[i] * PageSize + o]

SameElsewhere(m, pages, memory) ==
  \A a \in 0 .. MemorySize - 1 : a \div PageSize \notin RangeOf(pages) => m[a] = memory[a]

(* The pages of a process hold the file after ReadAts, and no other page   *)
(* is touched.                                                             *)
LEMMA LoadIs ==
  ASSUME NEW h \in NoffType, NEW c, NEW k, LaidOut(h, c, k),
         NEW n \in Nat, NEW pages \in [0 .. n - 1 -> Frame], Len(h.file) <= n * PageSize,
         OneToOne(pages, n), NEW memory, DOMAIN memory = 0 .. MemorySize - 1,
         NEW m, m = Filled(memory, h, ReadAts(h, pages))
  PROVE  HoldsFile(m, pages, n, h, memory) /\ SameElsewhere(m, pages, memory)
<1>1. PageSize \in Nat \ {0} /\ HeaderSize \in Nat
  BY AddrSpaceAssumption
<1>2. PICK K, D, KB, DB, cs, T \in Nat : Divided(h, pages, n, K, D, KB, DB, cs, T)
  BY ReadsAre
<1>3. \A r \in ReadAts(h, pages) : IsPiece(r, h, pages, n)
  BY <1>2, ReadsArePieces
<1>6. ASSUME NEW a \in DOMAIN memory
      PROVE  \/ \E r \in ReadAts(h, pages) : /\ a \in r.into .. r.into + r.size - 1
                                              /\ m[a] = FileByte(h, r.from + a - r.into)
             \/ /\ m[a] = memory[a]
                /\ \A r \in ReadAts(h, pages) : a \notin r.into .. r.into + r.size - 1
  <2>1. PICK reads : reads = ReadAts(h, pages)
    OBVIOUS
  <2>2. m = Filled(memory, h, reads)
    BY <2>1
  <2>3. \/ \E r \in reads : a \in r.into .. r.into + r.size - 1 /\ m[a] = FileByte(h, r.from + a - r.into)
        \/ m[a] = memory[a] /\ \A r \in reads : a \notin r.into .. r.into + r.size - 1
    BY ONLY <1>6, <2>2, FilledAt
  <2> QED
    BY <2>1, <2>3
<1>4. ASSUME NEW i \in 0 .. n - 1, NEW o \in 0 .. PageSize - 1
      PROVE  m[pages[i] * PageSize + o] =
               IF i * PageSize + o < Len(h.file) THEN h.file[(i * PageSize + o) + 1]
               ELSE memory[pages[i] * PageSize + o]
  <2> DEFINE a == pages[i] * PageSize + o
  <2>0. pages[i] \in Frame
    OBVIOUS
  <2>1. a \in DOMAIN memory /\ pages[i] \in Nat
    BY <2>0, InMemory
  <2>2. ASSUME NEW r \in ReadAts(h, pages), a \in r.into .. r.into + r.size - 1
        PROVE  i * PageSize + o < Len(h.file) /\ FileByte(h, r.from + a - r.into) = h.file[(i * PageSize + o) + 1]
    <3>1. PICK j \in 0 .. n - 1, q \in 0 .. PageSize - 1 :
            /\ a = pages[j] * PageSize + q /\ j * PageSize + q < Len(h.file)
            /\ r.from + a - r.into = HeaderSize + (j * PageSize + q)
      BY <1>3, <2>2, PieceHolds
    <3>2. pages[j] \in Nat
      <4>1. pages[j] \in Frame
        OBVIOUS
      <4> QED
        BY <4>1, InMemory
    <3>3. pages[i] = pages[j] /\ o = q
      BY <2>1, <3>1, <3>2, SameAddress
    <3>4. i = j
      BY <3>3 DEF OneToOne
    <3>5. i * PageSize + o \in Nat
      <4>1. i * PageSize \in Nat
        BY PagesOf
      <4> QED
        BY <1>1, <4>1
    <3>6. \A x \in Nat : (HeaderSize + x) - HeaderSize + 1 = x + 1
      BY <1>1
    <3> HIDE DEF a
    <3> QED
      BY <3>1, <3>3, <3>4, <3>5, <3>6 DEF FileByte
  <2>3. CASE i * PageSize + o < Len(h.file)
    <3>1. \E r \in ReadAts(h, pages) : a \in r.into .. r.into + r.size - 1
      BY <1>2, <2>3, ReadsCover
    <3> HIDE DEF a
    <3>2. \E r \in ReadAts(h, pages) : /\ a \in r.into .. r.into + r.size - 1
                                       /\ m[a] = FileByte(h, r.from + a - r.into)
      BY <1>6, <2>1, <3>1
    <3>3. m[a] = h.file[(i * PageSize + o) + 1]
      BY <2>2, <3>2
    <3> QED
      BY <2>3, <3>3 DEF a
  <2>4. CASE ~(i * PageSize + o < Len(h.file))
    <3> HIDE DEF a
    <3>1. ~\E r \in ReadAts(h, pages) : a \in r.into .. r.into + r.size - 1
      BY <2>2, <2>4
    <3>2. m[a] = memory[a]
      BY <1>6, <2>1, <3>1
    <3> QED
      BY <2>4, <3>2 DEF a
  <2> QED
    BY <2>3, <2>4
<1>5. ASSUME NEW a \in 0 .. MemorySize - 1, a \div PageSize \notin RangeOf(pages)
      PROVE  m[a] = memory[a]
  <2>1. ~\E r \in ReadAts(h, pages) : a \in r.into .. r.into + r.size - 1
    <3> SUFFICES ASSUME NEW r \in ReadAts(h, pages), a \in r.into .. r.into + r.size - 1 PROVE FALSE
      OBVIOUS
    <3>1. PICK j \in 0 .. n - 1, q \in 0 .. PageSize - 1 : a = pages[j] * PageSize + q
      BY <1>3, PieceHolds
    <3>2. a \div PageSize = pages[j]
      <4>1. pages[j] \in Frame
        OBVIOUS
      <4> QED
        BY <3>1, <4>1, InMemory
    <3> QED
      BY <1>5, <3>2 DEF RangeOf
  <2> QED
    BY <1>6, <2>1
<1> QED
  BY <1>4, <1>5 DEF HoldsFile, SameElsewhere
-----------------------------------------------------------------------------
(* The memory that a process sees.                                         *)

LEMMA AddressOf ==
  ASSUME NEW n \in Nat, NEW b \in Nat \ {0}, NEW a \in 0 .. n * b - 1
  PROVE  /\ a \div b \in 0 .. n - 1 /\ a % b \in 0 .. b - 1
         /\ a = (a \div b) * b + (a % b)
<1>1. a \in Nat /\ n * b \in Nat /\ a < n * b
  BY TimesNext
<1>2. PICK q \in Nat : q = a \div b
  BY <1>1, DivModNat
<1>3. PICK o \in 0 .. b - 1 : o = a % b
  BY <1>1, DivModNat
<1>4. a = b * q + o
  BY <1>1, <1>2, <1>3, DivModNat
<1>5. b * q = q * b /\ q * b \in Nat
  BY TimesNext
<1>6. a = q * b + o
  BY <1>4, <1>5
<1>7. q < n
  <2> SUFFICES ASSUME n <= q PROVE FALSE
    BY <1>2
  <2>1. n * b <= q * b
    BY TimesMonotone
  <2> QED
    BY <1>1, <1>3, <1>5, <1>6, <2>1
<1> QED
  BY <1>2, <1>3, <1>6, <1>7

(* A process sees the same memory as long as its pages and what is in them *)
(* stay the same.                                                          *)
LEMMA SeesTheSame ==
  ASSUME NEW p \in Proc, IsTable(space[p]), pc'[p] = "run" <=> pc[p] = "run", space'[p] = space[p],
         \A a \in 0 .. MemorySize - 1 : a \div PageSize \in RangeOf(space[p]) => mainMemory'[a] = mainMemory[a]
  PROVE  VirtualMemory(p)' = VirtualMemory(p)
<1>1. PICK n : n = Cardinality(DOMAIN space[p])
  OBVIOUS
<1>2. space[p] \in [0 .. n - 1 -> Frame]
  BY <1>1 DEF IsTable
<1>3. n \in Nat
  BY <1>1 DEF IsTable
<1>4. PageSize \in Nat \ {0}
  BY AddrSpaceAssumption
<1>5. ASSUME NEW a \in 0 .. n * PageSize - 1
      PROVE  mainMemory'[space[p][a \div PageSize] * PageSize + (a % PageSize)]
               = mainMemory[space[p][a \div PageSize] * PageSize + (a % PageSize)]
  <2>1. a \div PageSize \in 0 .. n - 1 /\ a % PageSize \in 0 .. PageSize - 1
    BY <1>3, <1>4, AddressOf
  <2>2. PICK f \in Frame : f = space[p][a \div PageSize]
    BY <1>2, <2>1
  <2>3. PICK o \in 0 .. PageSize - 1 : o = a % PageSize
    BY <2>1
  <2>4. f * PageSize + o \in 0 .. MemorySize - 1 /\ (f * PageSize + o) \div PageSize = f
    BY InMemory
  <2>5. f \in RangeOf(space[p])
    BY <1>2, <2>1, <2>2 DEF RangeOf
  <2>6. mainMemory'[f * PageSize + o] = mainMemory[f * PageSize + o]
    BY <2>4, <2>5
  <2> QED
    BY <2>2, <2>3, <2>6
<1> DEFINE F(a) == mainMemory[space[p][a \div PageSize] * PageSize + (a % PageSize)]
           G(a) == mainMemory'[space[p][a \div PageSize] * PageSize + (a % PageSize)]
           X == [a \in 0 .. n * PageSize - 1 |-> F(a)]
           Y == [a \in 0 .. n * PageSize - 1 |-> G(a)]
           E == [a \in {} |-> 0]
<1>6. VirtualMemory(p) = IF pc[p] = "run" THEN X ELSE E
  BY <1>1 DEF VirtualMemory
<1>7. VirtualMemory(p)' = IF pc[p] = "run" THEN Y ELSE E
  BY <1>1 DEF VirtualMemory
<1>8. \A a \in 0 .. n * PageSize - 1 : G(a) = F(a)
  BY <1>5
<1> HIDE DEF F, G
<1>9. Y = X
  BY <1>8
<1> HIDE DEF X, Y, E
<1> QED
  BY <1>6, <1>7, <1>9

HoldsImage(m, pages, n, h) ==
  \A i \in 0 .. n - 1, o \in 0 .. PageSize - 1 :
    m[pages[i] * PageSize + o] =
      IF i * PageSize + o < Len(h.file) THEN h.file[(i * PageSize + o) + 1] ELSE 0

(* What a process with these n pages sees of memory m.                     *)
Seen(m, pages, n) ==
  [a \in 0 .. n * PageSize - 1 |-> m[pages[a \div PageSize] * PageSize + (a % PageSize)]]

(* A process whose pages hold the file, followed by zeros, sees the image  *)
(* that was linked.                                                        *)
LEMMA SeesImage ==
  ASSUME NEW c \in Converted, NEW h, h = Noff(c), NEW n, n = NumPages(h), n <= NumPhysPages,
         NEW pages \in [0 .. n - 1 -> Frame], NEW m,
         HoldsImage(m, pages, n, h)
  PROVE  Seen(m, pages, n) \in ProgramImage
<1>1. PageSize \in Nat \ {0} /\ n \in Nat /\ PagesNeeded(c) \in Nat /\ PagesNeeded(c) <= n
  BY AddrSpaceAssumption, PagesSuffice
<1>2. PICK image : image = LinkedImage(c, n)
  OBVIOUS
<1>3. /\ DOMAIN image = 0 .. n * PageSize - 1
      /\ \A a \in 0 .. n * PageSize - 1 : image[a] = IF a < Len(h.file) THEN h.file[a + 1] ELSE 0
  <2>1. n \in Nat
    BY <1>1
  <2>2. /\ DOMAIN LinkedImage(c, n) = 0 .. n * PageSize - 1
        /\ \A a \in 0 .. n * PageSize - 1 :
             LinkedImage(c, n)[a] = IF a < Len(h.file) THEN h.file[a + 1] ELSE 0
    BY <2>1, ImageIs, Zenon
  <2> QED
    BY <1>2, <2>2, Zenon
<1>4. image = [a \in 0 .. n * PageSize - 1 |-> image[a]]
  <2> DEFINE Holds(k, a) == a - c[k].s_paddr \in 0 .. Len(c[k].raw) - 1
             ByteAt(a) == IF \E k \in DOMAIN c : Holds(k, a)
                          THEN LET k == CHOOSE k \in DOMAIN c : Holds(k, a)
                               IN c[k].raw[a - c[k].s_paddr + 1]
                          ELSE 0
  <2>1. image = [a \in 0 .. n * PageSize - 1 |-> ByteAt(a)]
    BY <1>2 DEF LinkedImage
  <2> HIDE DEF ByteAt
  <2> QED
    BY <2>1
<1>5. ASSUME NEW a \in 0 .. n * PageSize - 1
      PROVE  m[pages[a \div PageSize] * PageSize + (a % PageSize)] = image[a]
  <2>1. a \div PageSize \in 0 .. n - 1 /\ a % PageSize \in 0 .. PageSize - 1
        /\ a = (a \div PageSize) * PageSize + (a % PageSize)
    BY <1>1, AddressOf
  <2>2. PICK i \in 0 .. n - 1 : i = a \div PageSize
    BY <2>1
  <2>3. PICK o \in 0 .. PageSize - 1 : o = a % PageSize
    BY <2>1
  <2>4. a = i * PageSize + o
    BY <2>1, <2>2, <2>3
  <2>5. m[pages[i] * PageSize + o] = IF a < Len(h.file) THEN h.file[a + 1] ELSE 0
    BY <2>4 DEF HoldsImage
  <2> QED
    BY <1>3, <2>2, <2>3, <2>5
<1> DEFINE F(a) == m[pages[a \div PageSize] * PageSize + (a % PageSize)]
<1>6. \A a \in 0 .. n * PageSize - 1 : F(a) = image[a]
  BY <1>5
<1> HIDE DEF F
<1>7. [a \in 0 .. n * PageSize - 1 |-> F(a)] = image
  BY <1>4, <1>6
<1>8. image \in ProgramImage
  <2>1. n \in PagesNeeded(c) .. NumPhysPages
    BY <1>1, AddrSpaceAssumption
  <2> DEFINE Images(d) == {LinkedImage(d, k) : k \in PagesNeeded(d) .. NumPhysPages}
  <2>2. image \in Images(c)
    BY <1>2, <2>1
  <2> HIDE DEF Images
  <2>3. image \in UNION {Images(d) : d \in Converted}
    BY <2>2
  <2> QED
    BY <2>3 DEF ProgramImage, Images
<1>9. Seen(m, pages, n) = image
  BY <1>7 DEF Seen, F
<1> QED
  BY <1>8, <1>9
-----------------------------------------------------------------------------
(* The invariant that the memory of a new process rests on.                *)

(* Between Allocate and Load a process has as many frames as its program   *)
(* needs, all of them zero.                                                *)
Fresh(p) ==
  LET n == NumPages(Noff(program[p])) IN
  /\ n <= NumPhysPages
  /\ space[p] \in [0 .. n - 1 -> Frame]
  /\ \A a \in 0 .. MemorySize - 1 : a \div PageSize \in RangeOf(space[p]) => mainMemory[a] = 0

Loading(p) == pc[p] = "load" => Fresh(p)

(* Until StartProcess has run, Main is the only thread.                    *)
Booting == pc[Main] = "boot" => cpu = Main /\ \A p \in Proc : p # Main => pc[p] = "none"

MemoryInv == Booting /\ \A p \in Proc : Loading(p)

LEMMA StaysFresh ==
  ASSUME NEW p \in Proc, Loading(p), pc'[p] = pc[p], space'[p] = space[p], program'[p] = program[p],
         \A a \in 0 .. MemorySize - 1 : a \div PageSize \in RangeOf(space[p]) => mainMemory'[a] = mainMemory[a]
  PROVE  Loading(p)'
<1> SUFFICES ASSUME pc'[p] = "load" PROVE Fresh(p)'
  BY DEF Loading
<1>1. Fresh(p)
  BY DEF Loading
<1>2. /\ NumPages(Noff(program'[p])) = NumPages(Noff(program[p]))
      /\ RangeOf(space'[p]) = RangeOf(space[p])
  OBVIOUS
<1>3. NumPages(Noff(program[p])) <= NumPhysPages /\ space'[p] \in [0 .. NumPages(Noff(program[p])) - 1 -> Frame]
  BY <1>1 DEF Fresh
<1>4. \A a \in 0 .. MemorySize - 1 : a \div PageSize \in RangeOf(space'[p]) => mainMemory'[a] = 0
  BY <1>1, <1>2 DEF Fresh
<1> QED
  BY <1>2, <1>3, <1>4 DEF Fresh, NumPages, MemorySize, RangeOf, Frame
-----------------------------------------------------------------------------
(* Every step is a step of private memories and keeps MemoryInv.           *)

Vm == [p \in Proc |-> VirtualMemory(p)]

PrivateStep == Private!Next \/ Vm' = Vm

(* A step leaves a process, its pages and what is in them alone.           *)
Untouched(q) ==
  /\ pc'[q] = pc[q] /\ space'[q] = space[q] /\ program'[q] = program[q]
  /\ \A a \in 0 .. MemorySize - 1 : a \div PageSize \in RangeOf(space[q]) => mainMemory'[a] = mainMemory[a]

LEMMA SeesNothing ==
  ASSUME NEW p \in Proc
  PROVE  /\ pc[p] # "run" => VirtualMemory(p) = Private!NoMemory
         /\ pc'[p] # "run" => VirtualMemory(p)' = Private!NoMemory
BY DEF VirtualMemory, Private!NoMemory

LEMMA OneMoves ==
  ASSUME Inv, MemoryInv, Booting', NEW p \in Proc, Loading(p)', \A q \in Proc : q # p => Untouched(q)
  PROVE  MemoryInv' /\ \A q \in Proc : q # p => VirtualMemory(q)' = VirtualMemory(q)
<1>1. ASSUME NEW q \in Proc, q # p
      PROVE  VirtualMemory(q)' = VirtualMemory(q) /\ Loading(q)'
  <2>1. IsTable(space[q]) /\ Loading(q)
    BY DEF Inv, Tables, MemoryInv
  <2>2. /\ pc'[q] = pc[q] /\ space'[q] = space[q] /\ program'[q] = program[q]
        /\ \A a \in 0 .. MemorySize - 1 : a \div PageSize \in RangeOf(space[q]) => mainMemory'[a] = mainMemory[a]
    BY <1>1 DEF Untouched
  <2> QED
    BY <2>1, <2>2, SeesTheSame, StaysFresh
<1>2. \A q \in Proc : Loading(q)'
  BY <1>1
<1> QED
  BY <1>1, <1>2 DEF MemoryInv

LEMMA NobodyMoves ==
  ASSUME \A p \in Proc : VirtualMemory(p)' = VirtualMemory(p)
  PROVE  PrivateStep
BY DEF PrivateStep, Vm

LEMMA OnlyOne ==
  ASSUME NEW p \in Proc, NEW m, VirtualMemory(p)' = m,
         \A q \in Proc : q # p => VirtualMemory(q)' = VirtualMemory(q)
  PROVE  Vm' = [Vm EXCEPT ![p] = m]
<1>1. Vm' = [q \in Proc |-> VirtualMemory(q)']
  BY DEF Vm
<1>2. Vm = [q \in Proc |-> VirtualMemory(q)]
  BY DEF Vm
<1> QED
  BY <1>1, <1>2

LEMMA BootingStays ==
  ASSUME Inv, MemoryInv, pc[cpu] # "boot", \A q \in Proc : pc'[q] = "boot" => pc[q] = "boot"
  PROVE  Booting'
<1>1. Main \in Proc
  BY AddrSpaceAssumption
<1>2. pc[Main] # "boot"
  BY DEF MemoryInv, Booting
<1> QED
  BY <1>1, <1>2 DEF Booting

(* The steps that move a process which sees no memory, and no frames.      *)
LEMMA QuietStep ==
  ASSUME Inv, MemoryInv, pc[cpu] # "boot", NEW p \in Proc, UNCHANGED <<space, mainMemory>>,
         \A q \in Proc : q # p => pc'[q] = pc[q] /\ program'[q] = program[q],
         pc'[p] # "boot", pc[p] # "run", pc'[p] \notin {"run", "load"}
  PROVE  MemoryInv' /\ PrivateStep
<1>1. Booting'
  BY BootingStays
<1>2. \A q \in Proc : q # p => Untouched(q)
  BY DEF Untouched
<1>3. Loading(p)'
  BY DEF Loading
<1>4. VirtualMemory(p)' = VirtualMemory(p)
  BY SeesNothing
<1>5. MemoryInv' /\ \A q \in Proc : q # p => VirtualMemory(q)' = VirtualMemory(q)
  BY <1>1, <1>2, <1>3, OneMoves
<1> QED
  BY <1>4, <1>5, NobodyMoves

(* The steps that move no process and leave pages and memory alone.        *)
LEMMA IdleStep ==
  ASSUME Inv, MemoryInv, Booting', UNCHANGED <<pc, program, space, mainMemory>>
  PROVE  MemoryInv' /\ PrivateStep
<1>1. ASSUME NEW q \in Proc
      PROVE  VirtualMemory(q)' = VirtualMemory(q) /\ Loading(q)'
  <2>1. IsTable(space[q]) /\ Loading(q)
    BY DEF Inv, Tables, MemoryInv
  <2> QED
    BY <2>1, SeesTheSame, StaysFresh
<1> QED
  BY <1>1, NobodyMoves DEF MemoryInv

LEMMA ExecPrivate ==
  ASSUME Inv, MemoryInv, NEW p \in Proc, NEW c \in Converted, Exec(p, c)
  PROVE  MemoryInv' /\ PrivateStep
<1>1. /\ pc \in [Proc -> {"none", "boot", "lock", "alloc", "load", "start", "run"}]
      /\ program \in [Proc -> Converted]
  BY DEF Inv, PlainTypes
<1>2. /\ pc[cpu] = "run" /\ pc[p] = "none" /\ pc' = [pc EXCEPT ![p] = "lock"]
      /\ program' = [program EXCEPT ![p] = c] /\ UNCHANGED <<space, mainMemory>>
  BY DEF Exec, On, GoTo
<1>3. pc'[p] = "lock" /\ \A q \in Proc : q # p => pc'[q] = pc[q] /\ program'[q] = program[q]
  BY <1>1, <1>2
<1> QED
  BY <1>2, <1>3, QuietStep

LEMMA LockMemoryPrivate ==
  ASSUME Inv, MemoryInv, NEW p \in Proc, LockMemory(p)
  PROVE  MemoryInv' /\ PrivateStep
<1>1. pc \in [Proc -> {"none", "boot", "lock", "alloc", "load", "start", "run"}]
  BY DEF Inv, PlainTypes
<1>2. /\ cpu = p /\ pc[p] = "lock" /\ pc' = [pc EXCEPT ![p] = "alloc"]
      /\ UNCHANGED <<program, space, mainMemory>>
  BY DEF LockMemory, On, GoTo
<1>3. pc'[p] = "alloc" /\ \A q \in Proc : q # p => pc'[q] = pc[q] /\ program'[q] = program[q]
  BY <1>1, <1>2
<1> QED
  BY <1>2, <1>3, QuietStep

LEMMA DispatchPrivate ==
  ASSUME Inv, MemoryInv, NEW p \in Proc, Dispatch(p)
  PROVE  MemoryInv' /\ PrivateStep
<1>1. pc[cpu] # "boot" /\ UNCHANGED <<pc, program, space, mainMemory>>
  BY DEF Dispatch
<1>2. Booting'
  BY <1>1, BootingStays
<1> QED
  BY <1>1, <1>2, IdleStep

LEMMA StutterPrivate ==
  ASSUME Inv, MemoryInv, UNCHANGED vars
  PROVE  MemoryInv' /\ PrivateStep
<1>1. UNCHANGED <<pc, program, space, mainMemory, cpu>>
  BY DEF vars
<1>2. Booting'
  BY <1>1 DEF MemoryInv, Booting
<1> QED
  BY <1>1, <1>2, IdleStep

LEMMA FewerFrames == \A marked \in SUBSET Frame : Cardinality(Frame \ marked) <= NumPhysPages
<1> SUFFICES ASSUME NEW marked \in SUBSET Frame PROVE Cardinality(Frame \ marked) <= NumPhysPages
  OBVIOUS
<1>1. NumPhysPages \in Nat \ {0} /\ 0 \in Int /\ NumPhysPages - 1 \in Int
  BY AddrSpaceAssumption
<1>2. Cardinality(Frame) = NumPhysPages
  <2>1. Cardinality(0 .. NumPhysPages - 1) = IF 0 > NumPhysPages - 1 THEN 0 ELSE (NumPhysPages - 1) - 0 + 1
    BY <1>1, FS_Interval
  <2> QED
    BY <1>1, <2>1 DEF Frame
<1>3. (Frame \ marked) \in SUBSET Frame
  OBVIOUS
<1> QED
  BY <1>2, <1>3, FrameFinite, FS_Subset

(* Whatever happens in clear frames touches no other process.              *)
LEMMA ClearFrames ==
  ASSUME Inv, NEW q \in Proc, NEW frames, \A f \in frames : f \notin bitmap,
         pc'[q] = pc[q], space'[q] = space[q], program'[q] = program[q],
         \A a \in 0 .. MemorySize - 1 : a \div PageSize \notin frames => mainMemory'[a] = mainMemory[a]
  PROVE  Untouched(q)
<1>1. RangeOf(space[q]) \subseteq bitmap
  BY DEF Inv, FramesExact
<1>2. \A f \in RangeOf(space[q]) : f \notin frames
  BY <1>1
<1> QED
  BY <1>2 DEF Untouched

LEMMA AllocatePrivate ==
  ASSUME Inv, MemoryInv, NEW p \in Proc, Allocate(p)
  PROVE  MemoryInv' /\ PrivateStep
<1> DEFINE n == NumPages(Noff(program[p]))
<1>1. /\ PlainTypes /\ Tables /\ Stages /\ bitmap \in SUBSET Frame /\ FramesExact
      /\ pc \in [Proc -> {"none", "boot", "lock", "alloc", "load", "start", "run"}]
      /\ cpu = p /\ pc[p] = "alloc" /\ UNCHANGED program
      /\ DOMAIN mainMemory = 0 .. MemorySize - 1
  BY DEF Inv, PlainTypes, Allocate, On
<1>2. \/ /\ n <= Cardinality(Frame \ bitmap)
         /\ space' = [space EXCEPT ![p] = FoundPages(bitmap, n)]
         /\ bitmap' = bitmap \cup RangeOf(space'[p])
         /\ mainMemory' = Zeroed(mainMemory, RangeOf(space'[p]))
         /\ pc' = [pc EXCEPT ![p] = "load"]
      \/ /\ pc' = [pc EXCEPT ![p] = "start"]
         /\ UNCHANGED <<space, bitmap, mainMemory>>
  BY DEF Allocate, GoTo
<1>3. n \in Nat
  <2>1. program[p] \in Converted
    BY <1>1 DEF PlainTypes
  <2> QED
    BY <2>1, NumPagesTyped
<1>4. CASE /\ n <= Cardinality(Frame \ bitmap)
           /\ space' = [space EXCEPT ![p] = FoundPages(bitmap, n)]
           /\ bitmap' = bitmap \cup RangeOf(space'[p])
           /\ mainMemory' = Zeroed(mainMemory, RangeOf(space'[p]))
           /\ pc' = [pc EXCEPT ![p] = "load"]
  <2>0. space[p] = NoPages
    BY <1>1 DEF Stages
  <2>1. /\ \A q \in Proc : q # p => space'[q] = space[q]
        /\ space'[p] = FoundPages(bitmap, n)
    <3> HIDE DEF n
    <3> QED
      BY <1>1, <1>3, <1>4, <2>0, Claim
  <2>2. PICK t : t = space'[p]
    OBVIOUS
  <2>3. /\ t \in [0 .. n - 1 -> Frame]
        /\ \A i \in 0 .. n - 1 : t[i] \notin bitmap
    <3> HIDE DEF n
    <3> QED
      BY <1>1, <1>3, <1>4, <2>1, <2>2, FoundFrames
  <2>4. \A f \in RangeOf(t) : f \notin bitmap
    BY <2>3 DEF RangeOf
  <2>5. pc'[p] = "load" /\ \A q \in Proc : q # p => pc'[q] = pc[q]
    BY <1>1, <1>4
  <2>6. \A a \in 0 .. MemorySize - 1 :
          mainMemory'[a] = IF a \div PageSize \in RangeOf(t) THEN 0 ELSE mainMemory[a]
    BY <1>1, <1>4, <2>2 DEF Zeroed
  <2>7. \A q \in Proc : q # p => Untouched(q)
    BY <1>1, <2>1, <2>4, <2>5, <2>6, ClearFrames
  <2>8. Loading(p)'
    <3>1. n <= NumPhysPages
      <4>1. Cardinality(Frame \ bitmap) <= NumPhysPages /\ Cardinality(Frame \ bitmap) \in Nat /\ NumPhysPages \in Nat
        <5>1. (Frame \ bitmap) \in SUBSET Frame
          OBVIOUS
        <5> QED
          BY <1>1, <5>1, FewerFrames, FrameFinite, FS_Subset, FS_CardinalityType, AddrSpaceAssumption
      <4> HIDE DEF n
      <4> QED
        BY <1>3, <1>4, <4>1
    <3>2. NumPages(Noff(program'[p])) = n
      BY <1>1
    <3>3. space'[p] \in [0 .. n - 1 -> Frame]
      BY <2>2, <2>3
    <3>4. \A a \in 0 .. MemorySize - 1 : a \div PageSize \in RangeOf(space'[p]) => mainMemory'[a] = 0
      BY <2>2, <2>6
    <3>5. Fresh(p)'
      <4> HIDE DEF n
      <4> QED
        BY <3>1, <3>2, <3>3, <3>4 DEF Fresh, NumPages, MemorySize, RangeOf, Frame
    <3> QED
      BY <3>5 DEF Loading
  <2>9. Booting'
    BY <1>1, <2>5, BootingStays
  <2>10. VirtualMemory(p)' = VirtualMemory(p)
    BY <1>1, <2>5, SeesNothing
  <2> QED
    BY <2>7, <2>8, <2>9, <2>10, OneMoves, NobodyMoves
<1>5. CASE /\ pc' = [pc EXCEPT ![p] = "start"]
           /\ UNCHANGED <<space, bitmap, mainMemory>>
  <2>1. pc'[p] = "start" /\ \A q \in Proc : q # p => pc'[q] = pc[q] /\ program'[q] = program[q]
    BY <1>1, <1>5
  <2> QED
    BY <1>1, <1>5, <2>1, QuietStep
<1> HIDE DEF n
<1> QED
  BY <1>2, <1>4, <1>5

LEMMA ExitPrivate ==
  ASSUME Inv, MemoryInv, NEW p \in Proc, Exit(p)
  PROVE  MemoryInv' /\ PrivateStep
<1>1. /\ Tables /\ pc \in [Proc -> {"none", "boot", "lock", "alloc", "load", "start", "run"}]
      /\ bitmap \in SUBSET Frame /\ FramesExact
      /\ cpu = p /\ pc[p] = "run" /\ UNCHANGED <<program, mainMemory, cpu>>
  BY DEF Inv, PlainTypes, Exit, On
<1>2. \/ /\ bitmap' = bitmap \ RangeOf(space[p])
         /\ space' = [space EXCEPT ![p] = NoPages]
         /\ pc' = [pc EXCEPT ![p] = "none"]
      \/ UNCHANGED <<pc, space>>
  BY DEF Exit, GoTo
<1>3. CASE /\ bitmap' = bitmap \ RangeOf(space[p])
           /\ space' = [space EXCEPT ![p] = NoPages]
           /\ pc' = [pc EXCEPT ![p] = "none"]
  <2>1. \A q \in Proc : q # p => space'[q] = space[q]
    BY <1>1, <1>3, Release
  <2>2. pc'[p] = "none" /\ \A q \in Proc : q # p => pc'[q] = pc[q]
    BY <1>1, <1>3
  <2>3. \A q \in Proc : q # p => Untouched(q)
    BY <1>1, <2>1, <2>2 DEF Untouched
  <2>4. Loading(p)'
    BY <2>2 DEF Loading
  <2>5. Booting'
    BY <1>1, <2>2, BootingStays
  <2>6. MemoryInv' /\ \A q \in Proc : q # p => VirtualMemory(q)' = VirtualMemory(q)
    BY <2>3, <2>4, <2>5, OneMoves
  <2>7. VirtualMemory(p)' = Private!NoMemory
    BY <2>2, SeesNothing
  <2>8. Vm' = [Vm EXCEPT ![p] = Private!NoMemory]
    BY <2>6, <2>7, OnlyOne
  <2>9. Private!Discard(p)
    BY <2>8 DEF Private!Discard, Vm
  <2>10. Private!Next
    BY <2>9 DEF Private!Next
  <2> QED
    BY <2>6, <2>10 DEF PrivateStep
<1>4. CASE UNCHANGED <<pc, space>>
  <2>1. Booting'
    BY <1>1, <1>4, BootingStays
  <2> QED
    BY <1>1, <1>4, <2>1, IdleStep
<1> QED
  BY <1>2, <1>3, <1>4

(* A process that begins to run with the image in its pages is created.    *)
LEMMA Creates ==
  ASSUME NEW p \in Proc, pc[p] # "run", pc'[p] = "run",
         NEW c \in Converted, NEW h, h = Noff(c), NEW n, n = NumPages(h), n <= NumPhysPages,
         space'[p] \in [0 .. n - 1 -> Frame],
         HoldsImage(mainMemory', space'[p], n, h),
         \A q \in Proc : q # p => VirtualMemory(q)' = VirtualMemory(q)
  PROVE  PrivateStep
<1>1. n \in Nat
  BY PagesSuffice
<1>2. PICK pages : pages = space'[p]
  OBVIOUS
<1>3. pages \in [0 .. n - 1 -> Frame]
  BY <1>2
<1>4. Cardinality(DOMAIN space'[p]) = n
  BY <1>1, <1>2, <1>3, TableOfLength
<1>5. PICK m : m = mainMemory'
  OBVIOUS
<1> DEFINE image == Seen(m, pages, n)
<1>6. VirtualMemory(p)' = image
  BY <1>2, <1>4, <1>5 DEF VirtualMemory, Seen
<1>7. HoldsImage(m, pages, n, h)
  BY <1>2, <1>5
<1>8. image \in ProgramImage
  BY <1>3, <1>7, SeesImage
<1> HIDE DEF image
<1>9. Vm' = [Vm EXCEPT ![p] = image]
  BY <1>6, OnlyOne
<1>10. Vm[p] = Private!NoMemory
  BY SeesNothing DEF Vm
<1>11. Private!Create(p)
  BY <1>8, <1>9, <1>10 DEF Private!Create, Vm
<1>12. Private!Next
  BY <1>11 DEF Private!Next
<1> QED
  BY <1>12 DEF PrivateStep

LEMMA LoadPrivate ==
  ASSUME Inv, MemoryInv, NEW p \in Proc, Load(p)
  PROVE  MemoryInv' /\ PrivateStep
<1>1. /\ PlainTypes /\ Tables /\ Stages /\ FramesExact
      /\ pc \in [Proc -> {"none", "boot", "lock", "alloc", "load", "start", "run"}]
      /\ cpu = p /\ pc[p] \in {"load", "start"} /\ pc' = [pc EXCEPT ![p] = "run"]
      /\ UNCHANGED <<program, space, cpu>>
      /\ DOMAIN mainMemory = 0 .. MemorySize - 1
  BY DEF Inv, PlainTypes, Load, GoTo
<1>2. pc'[p] = "run" /\ \A q \in Proc : q # p => pc'[q] = pc[q]
  BY <1>1
<1>3. Booting'
  BY <1>1, <1>2, BootingStays
<1>4. Loading(p)'
  BY <1>2 DEF Loading
<1>5. CASE pc[p] = "start"
  <2>1. mainMemory' = mainMemory
    BY <1>5 DEF Load
  <2>2. \A q \in Proc : q # p => Untouched(q)
    BY <1>1, <1>2, <2>1 DEF Untouched
  <2>3. MemoryInv' /\ \A q \in Proc : q # p => VirtualMemory(q)' = VirtualMemory(q)
    BY <1>3, <1>4, <2>2, OneMoves
  <2>4. Cardinality(DOMAIN space'[p]) = 0
    <3>1. space'[p] = NoPages
      BY <1>1, <1>5 DEF Stages
    <3> QED
      BY <3>1, NoPagesIsTable, FS_EmptySet
  <2>5. 0 .. 0 * PageSize - 1 = {}
    BY AddrSpaceAssumption
  <2>6. VirtualMemory(p)' = Private!NoMemory
    <3> DEFINE F(a) == mainMemory'[space'[p][a \div PageSize] * PageSize + (a % PageSize)]
    <3>1. VirtualMemory(p)' = [a \in 0 .. 0 * PageSize - 1 |-> F(a)]
      BY <1>2, <2>4 DEF VirtualMemory
    <3> HIDE DEF F
    <3>2. VirtualMemory(p)' = [a \in {} |-> F(a)]
      BY <2>5, <3>1
    <3>3. [a \in {} |-> F(a)] = [a \in {} |-> 0]
      OBVIOUS
    <3> QED
      BY <3>2, <3>3 DEF Private!NoMemory
  <2>7. VirtualMemory(p) = Private!NoMemory
    BY <1>5, SeesNothing
  <2> QED
    BY <2>3, <2>6, <2>7, NobodyMoves
<1>6. CASE pc[p] = "load"
  <2>1. PICK c \in Converted : c = program[p]
    BY <1>1 DEF PlainTypes
  <2>2. PICK h : h = Noff(c)
    OBVIOUS
  <2>3. PICK n : n = NumPages(h)
    OBVIOUS
  <2>4. PICK pages : pages = space[p]
    OBVIOUS
  <2>5. Fresh(p)
    BY <1>6 DEF MemoryInv, Loading
  <2>6. /\ n <= NumPhysPages /\ pages \in [0 .. n - 1 -> Frame]
        /\ \A a \in 0 .. MemorySize - 1 : a \div PageSize \in RangeOf(pages) => mainMemory[a] = 0
    BY <2>1, <2>2, <2>3, <2>4, <2>5 DEF Fresh
  <2>7. n \in Nat /\ Len(h.file) <= n * PageSize
    BY <2>2, <2>3, PagesSuffice
  <2>8. PICK k : LaidOut(h, c, k)
    BY <2>2, NoffLaidOut
  <2>9. h \in NoffType
    BY <2>2, NoffLaidOut
  <2>10. OneToOne(pages, n)
    <3>1. DOMAIN space[p] = 0 .. n - 1
      BY <2>4, <2>6
    <3>2. FramesExact
      BY <1>1
    <3>3. \A i, j \in DOMAIN space[p] : space[p][i] = space[p][j] => i = j
      BY <3>2 DEF FramesExact
    <3> QED
      BY <2>4, <3>1, <3>3 DEF OneToOne
  <2>11. PICK m : m = mainMemory'
    OBVIOUS
  <2>12. m = Filled(mainMemory, h, ReadAts(h, pages))
    BY <1>6, <2>1, <2>2, <2>4, <2>11 DEF Load
  <2>13. HoldsFile(m, pages, n, h, mainMemory) /\ SameElsewhere(m, pages, mainMemory)
    BY <1>1, <2>6, <2>7, <2>8, <2>9, <2>10, <2>12, LoadIs, Zenon
  <2>14. ASSUME NEW i \in 0 .. n - 1, NEW o \in 0 .. PageSize - 1
         PROVE  m[pages[i] * PageSize + o] =
                  IF i * PageSize + o < Len(h.file) THEN h.file[(i * PageSize + o) + 1] ELSE 0
    <3>1. PICK f \in Frame : f = pages[i]
      BY <2>6
    <3>2. f * PageSize + o \in 0 .. MemorySize - 1 /\ (f * PageSize + o) \div PageSize = f
      BY InMemory
    <3>3. f \in RangeOf(pages)
      BY <2>6, <3>1 DEF RangeOf
    <3>4. mainMemory[f * PageSize + o] = 0
      BY <2>6, <3>2, <3>3
    <3> QED
      BY <2>13, <3>1, <3>4 DEF HoldsFile
  <2>15. ASSUME NEW q \in Proc, q # p PROVE Untouched(q)
    <3>1. \A f \in RangeOf(space[q]) : f \notin RangeOf(pages)
      BY <1>1, <2>4, <2>15 DEF FramesExact, RangeOf
    <3>2. \A a \in 0 .. MemorySize - 1 : a \div PageSize \in RangeOf(space[q]) => mainMemory'[a] = mainMemory[a]
      BY <2>11, <2>13, <3>1 DEF SameElsewhere
    <3> QED
      BY <1>1, <1>2, <2>15, <3>2 DEF Untouched
  <2>16. MemoryInv' /\ \A q \in Proc : q # p => VirtualMemory(q)' = VirtualMemory(q)
    BY <1>3, <1>4, <2>15, OneMoves
  <2>17. PrivateStep
    <3>1. pages = space'[p]
      BY <1>1, <2>4
    <3>2. HoldsImage(mainMemory', space'[p], n, h)
      BY <2>11, <2>14, <3>1 DEF HoldsImage
    <3>3. pc[p] # "run" /\ space'[p] \in [0 .. n - 1 -> Frame]
      BY <1>6, <2>6, <3>1
    <3> QED
      BY <1>2, <2>2, <2>3, <2>6, <2>16, <3>2, <3>3, Creates
  <2> QED
    BY <2>16, <2>17
<1> QED
  BY <1>1, <1>5, <1>6

(* With an empty bitmap BitMap::Find gives frame i for page i.             *)
LEMMA FirstPages ==
  ASSUME NEW n \in Nat, n <= NumPhysPages
  PROVE  FoundPages({}, n) = [i \in 0 .. n - 1 |-> i]
<1> DEFINE clear == Frame \ {}
           rank(f) == Cardinality({g \in clear : g < f})
           pick(i) == CHOOSE f \in clear : rank(f) = i
<1>1. NumPhysPages \in Nat
  BY AddrSpaceAssumption
<1>2. ASSUME NEW f \in Frame PROVE rank(f) = f
  <2>1. f \in Nat /\ f < NumPhysPages /\ 0 \in Int /\ f - 1 \in Int
    BY <1>1 DEF Frame
  <2>2. {g \in clear : g < f} = 0 .. f - 1
    BY <1>1, <2>1 DEF Frame
  <2>3. Cardinality(0 .. f - 1) = IF 0 > f - 1 THEN 0 ELSE (f - 1) - 0 + 1
    BY <2>1, FS_Interval
  <2>4. Cardinality(0 .. f - 1) = f
    BY <2>1, <2>3
  <2>5. rank(f) = Cardinality(0 .. f - 1)
    BY <2>2
  <2> QED
    BY <2>4, <2>5
<1>3. ASSUME NEW i \in 0 .. n - 1 PROVE pick(i) = i
  <2>1. i \in Frame
    BY <1>1 DEF Frame
  <2>2. clear = Frame
    OBVIOUS
  <2> HIDE DEF rank, clear
  <2> QED
    BY <1>2, <2>1, <2>2
<1>4. FoundPages({}, n) = [i \in 0 .. n - 1 |-> pick(i)]
  BY DEF FoundPages
<1> HIDE DEF pick
<1> QED
  BY <1>3, <1>4

(* StartProcess loads at the virtual addresses what Load puts into pages.  *)
LEMMA StartIs ==
  ASSUME NEW h \in NoffType, NEW c, NEW k, LaidOut(h, c, k),
         NEW n \in Nat, n <= NumPhysPages, Len(h.file) <= n * PageSize,
         NEW memory, DOMAIN memory = 0 .. MemorySize - 1,
         NEW m, m = Filled(Zeroed(memory, 0 .. n - 1), h,
                           {[into |-> seg.virtualAddr, size |-> seg.size,
                             from |-> seg.inFileAddr] : seg \in {h.code, h.initData}})
  PROVE  HoldsImage(m, [i \in 0 .. n - 1 |-> i], n, h)
<1> DEFINE Read(seg) == [into |-> seg.virtualAddr, size |-> seg.size, from |-> seg.inFileAddr]
<1>1. PICK zeroed : zeroed = Zeroed(memory, 0 .. n - 1)
  OBVIOUS
<1>2. PICK reads : reads = {Read(seg) : seg \in {h.code, h.initData}}
  OBVIOUS
<1>3. m = Filled(zeroed, h, reads)
  BY <1>1, <1>2
<1>4. DOMAIN zeroed = 0 .. MemorySize - 1
      /\ \A a \in 0 .. MemorySize - 1 : a \div PageSize \in 0 .. n - 1 => zeroed[a] = 0
  BY <1>1 DEF Zeroed
<1>5. PICK K \in Nat, D \in Nat : /\ h.code.size = K /\ h.initData.size = D
                                   /\ Len(h.file) = K + D
  <2>1. h.code \in Segment /\ h.initData \in Segment
    BY DEF NoffType
  <2>2. h.code.size \in Nat /\ h.initData.size \in Nat
    BY <2>1 DEF Segment
  <2> QED
    BY <2>2 DEF LaidOut
<1>6. h.code.virtualAddr = 0 /\ h.code.inFileAddr = HeaderSize /\ HeaderSize \in Nat /\ K > 0
  BY <1>5, AddrSpaceAssumption DEF LaidOut
<1>7. D # 0 => h.initData.virtualAddr = K /\ h.initData.inFileAddr = HeaderSize + K
  BY <1>5 DEF LaidOut
<1>8. h.initData.virtualAddr \in Nat
  <2>1. h.initData \in Segment
    BY DEF NoffType
  <2> QED
    BY <2>1 DEF Segment
<1>9. ASSUME NEW r \in reads, NEW a \in Nat, a \in r.into .. r.into + r.size - 1
      PROVE  a < K + D /\ r.from + a - r.into = HeaderSize + a
  <2>1. r = Read(h.code) \/ r = Read(h.initData)
    BY <1>2
  <2>2. CASE r = Read(h.code)
    <3>1. r.into = 0 /\ r.size = K /\ r.from = HeaderSize
      BY <1>5, <1>6, <2>2
    <3>2. a <= K - 1
      BY <1>9, <3>1
    <3> QED
      BY <1>6, <3>1, <3>2
  <2>3. CASE r = Read(h.initData)
    <3>1. r.into = h.initData.virtualAddr /\ r.size = D /\ r.from = h.initData.inFileAddr
      BY <1>5, <2>3
    <3>2. D # 0
      BY <1>8, <1>9, <3>1
    <3>3. r.into = K /\ r.from = HeaderSize + K
      BY <1>7, <3>1, <3>2
    <3>4. a \in K .. K + D - 1
      BY <1>9, <3>1, <3>3
    <3> QED
      BY <1>6, <3>3, <3>4
  <2> QED
    BY <2>1, <2>2, <2>3
<1>10. ASSUME NEW a \in Nat, a < K + D
       PROVE  \E r \in reads : a \in r.into .. r.into + r.size - 1
  <2>1. Read(h.code) \in reads /\ Read(h.initData) \in reads
    BY <1>2
  <2>2. CASE a < K
    <3>1. Read(h.code).into = 0 /\ Read(h.code).size = K
      BY <1>5, <1>6
    <3>2. a \in 0 .. 0 + K - 1
      BY <2>2
    <3> HIDE DEF Read
    <3> QED
      BY <2>1, <3>1, <3>2
  <2>3. CASE ~(a < K)
    <3>1. D # 0
      BY <1>10, <2>3
    <3>2. Read(h.initData).into = K /\ Read(h.initData).size = D
      BY <1>5, <1>7, <3>1
    <3>3. a \in K .. K + D - 1
      BY <1>10, <2>3
    <3> HIDE DEF Read
    <3> QED
      BY <2>1, <3>2, <3>3
  <2> QED
    BY <2>2, <2>3
<1>11. PICK pages : pages = [i \in 0 .. n - 1 |-> i]
  OBVIOUS
<1>12. ASSUME NEW i \in 0 .. n - 1, NEW o \in 0 .. PageSize - 1
       PROVE  m[pages[i] * PageSize + o] =
                IF i * PageSize + o < Len(h.file) THEN h.file[(i * PageSize + o) + 1] ELSE 0
  <2>1. i \in Frame /\ pages[i] = i
    BY <1>11, AddrSpaceAssumption DEF Frame
  <2>2. PICK a : a = i * PageSize + o
    OBVIOUS
  <2>3. a \in 0 .. MemorySize - 1 /\ a \div PageSize = i
    BY <2>1, <2>2, InMemory
  <2>4. a \in Nat /\ zeroed[a] = 0
    BY <1>4, <2>3
  <2>5. \/ \E r \in reads : a \in r.into .. r.into + r.size - 1 /\ m[a] = FileByte(h, r.from + a - r.into)
        \/ m[a] = zeroed[a] /\ \A r \in reads : a \notin r.into .. r.into + r.size - 1
    <3>1. a \in DOMAIN zeroed
      BY <1>4, <2>3
    <3> QED
      BY ONLY <1>3, <3>1, FilledAt
  <2>6. FileByte(h, HeaderSize + a) = h.file[a + 1]
    <3>1. (HeaderSize + a) - HeaderSize + 1 = a + 1
      BY <1>6, <2>4
    <3> QED
      BY <3>1 DEF FileByte
  <2>7. CASE a < K + D
    <3>1. PICK r \in reads : a \in r.into .. r.into + r.size - 1 /\ m[a] = FileByte(h, r.from + a - r.into)
      BY <1>10, <2>4, <2>5, <2>7
    <3>2. r.from + a - r.into = HeaderSize + a
      BY <1>9, <2>4, <3>1
    <3>3. m[a] = h.file[a + 1]
      BY <2>6, <3>1, <3>2
    <3> QED
      BY <1>5, <2>1, <2>2, <2>7, <3>3
  <2>8. CASE ~(a < K + D)
    <3>1. m[a] = 0
      BY <1>9, <2>4, <2>5, <2>8
    <3> QED
      BY <1>5, <2>1, <2>2, <2>8, <3>1
  <2> QED
    BY <2>7, <2>8
<1> QED
  BY <1>11, <1>12 DEF HoldsImage

LEMMA StartProcessPrivate ==
  ASSUME Inv, MemoryInv, StartProcess
  PROVE  MemoryInv' /\ PrivateStep
<1>1. /\ PlainTypes /\ Tables /\ Stages /\ FramesExact /\ bitmap \in SUBSET Frame
      /\ pc \in [Proc -> {"none", "boot", "lock", "alloc", "load", "start", "run"}]
      /\ cpu = Main /\ pc[Main] = "boot" /\ UNCHANGED <<program, cpu>> /\ Main \in Proc
      /\ DOMAIN mainMemory = 0 .. MemorySize - 1
  BY AddrSpaceAssumption DEF Inv, PlainTypes, StartProcess, On
<1>2. \A q \in Proc : q # Main => pc[q] = "none"
  BY <1>1 DEF MemoryInv, Booting
<1>3. PICK c \in Converted : c = program[Main]
  BY <1>1 DEF PlainTypes
<1>4. PICK h : h = Noff(c)
  OBVIOUS
<1>5. PICK n : n = NumPages(h)
  OBVIOUS
<1>6. \/ /\ n <= Cardinality(Frame \ bitmap)
         /\ space' = [space EXCEPT ![Main] = FoundPages(bitmap, n)]
         /\ mainMemory' = Filled(Zeroed(mainMemory, 0 .. n - 1), h,
                                 {[into |-> seg.virtualAddr, size |-> seg.size,
                                   from |-> seg.inFileAddr] : seg \in {h.code, h.initData}})
         /\ pc' = [pc EXCEPT ![Main] = "run"]
      \/ UNCHANGED <<pc, space, mainMemory>>
  BY <1>3, <1>4, <1>5 DEF StartProcess, GoTo
<1>7. CASE /\ n <= Cardinality(Frame \ bitmap)
           /\ space' = [space EXCEPT ![Main] = FoundPages(bitmap, n)]
           /\ mainMemory' = Filled(Zeroed(mainMemory, 0 .. n - 1), h,
                                   {[into |-> seg.virtualAddr, size |-> seg.size,
                                     from |-> seg.inFileAddr] : seg \in {h.code, h.initData}})
           /\ pc' = [pc EXCEPT ![Main] = "run"]
  <2>1. bitmap = {}
    <3>1. \A q \in Proc : space[q] = NoPages
      BY <1>1, <1>2 DEF Stages
    <3>2. \A q \in Proc : RangeOf(space[q]) = {}
      BY <3>1, NoPagesIsTable
    <3>3. bitmap = UNION {RangeOf(space[q]) : q \in Proc}
      BY <1>1 DEF FramesExact
    <3> QED
      BY <3>2, <3>3
  <2>2. n \in Nat /\ Len(h.file) <= n * PageSize
    BY <1>4, <1>5, PagesSuffice
  <2>3. n <= NumPhysPages
    <3>1. Cardinality(Frame \ bitmap) <= NumPhysPages /\ Cardinality(Frame \ bitmap) \in Nat /\ NumPhysPages \in Nat
      <4>1. (Frame \ bitmap) \in SUBSET Frame
        OBVIOUS
      <4> QED
        BY <1>1, <4>1, FewerFrames, FrameFinite, FS_Subset, FS_CardinalityType, AddrSpaceAssumption
    <3> QED
      BY <1>7, <2>2, <3>1
  <2>4. PICK pages : pages = [i \in 0 .. n - 1 |-> i]
    OBVIOUS
  <2>5. pages \in [0 .. n - 1 -> Frame]
    BY <2>2, <2>3, <2>4, AddrSpaceAssumption DEF Frame
  <2>6. DOMAIN space = Proc
    BY <1>1 DEF Tables
  <2>7. space'[Main] = pages /\ \A q \in Proc : q # Main => space'[q] = space[q]
    <3>1. FoundPages(bitmap, n) = pages
      BY <2>1, <2>2, <2>3, <2>4, FirstPages
    <3> QED
      BY <1>1, <1>7, <2>6, <3>1
  <2>8. pc'[Main] = "run" /\ \A q \in Proc : q # Main => pc'[q] = "none"
    BY <1>1, <1>2, <1>7
  <2>9. PICK k : LaidOut(h, c, k)
    BY <1>4, NoffLaidOut
  <2>10. h \in NoffType
    BY <1>4, NoffLaidOut
  <2>11. HoldsImage(mainMemory', pages, n, h)
    <3>1. PICK m : m = mainMemory'
      OBVIOUS
    <3>2. m = Filled(Zeroed(mainMemory, 0 .. n - 1), h,
                     {[into |-> seg.virtualAddr, size |-> seg.size,
                       from |-> seg.inFileAddr] : seg \in {h.code, h.initData}})
      BY <1>7, <3>1
    <3>3. PICK memory : memory = mainMemory
      OBVIOUS
    <3>4. DOMAIN memory = 0 .. MemorySize - 1
      BY <1>1, <3>3
    <3>5. HoldsImage(m, [i \in 0 .. n - 1 |-> i], n, h)
      BY <2>2, <2>3, <2>9, <2>10, <3>2, <3>3, <3>4, StartIs, Zenon
    <3> QED
      BY <2>4, <3>1, <3>5
  <2>12. \A q \in Proc : q # Main => VirtualMemory(q)' = VirtualMemory(q)
    BY <1>2, <2>8, SeesNothing
  <2>13. PrivateStep
    <3>1. HoldsImage(mainMemory', space'[Main], n, h) /\ space'[Main] \in [0 .. n - 1 -> Frame]
      BY <2>5, <2>7, <2>11
    <3> QED
      BY <1>1, <1>4, <1>5, <2>3, <2>8, <2>12, <3>1, Creates
  <2>14. MemoryInv'
    <3>1. \A q \in Proc : Loading(q)'
      BY <2>8 DEF Loading
    <3>2. Booting'
      BY <2>8 DEF Booting
    <3> QED
      BY <3>1, <3>2 DEF MemoryInv
  <2> QED
    BY <2>13, <2>14
<1>8. CASE UNCHANGED <<pc, space, mainMemory>>
  <2>1. Booting'
    BY <1>1, <1>8 DEF MemoryInv, Booting
  <2> QED
    BY <1>1, <1>8, <2>1, IdleStep
<1> QED
  BY <1>6, <1>7, <1>8

(* An aligned access of 1, 2 or 4 bytes does not reach beyond its page.    *)
LEMMA WithinPage ==
  ASSUME NEW size \in {1, 2, 4}, PageSize % size = 0, NEW a \in Nat, a % size = 0,
         NEW o, o = a % PageSize
  PROVE  o \in Nat /\ o + size <= PageSize
<1>1. PageSize \in Nat \ {0} /\ size \in Nat \ {0}
  BY AddrSpaceAssumption
<1>2. PICK q \in Nat : a = PageSize * q + o /\ o \in 0 .. PageSize - 1
  BY <1>1, DivModNat
<1>3. PICK k \in Nat : a = size * k
  <2>1. a \div size \in Nat /\ a = size * (a \div size) + (a % size)
    BY <1>1, DivModNat
  <2>2. PICK k \in Nat : k = a \div size
    BY <2>1
  <2>3. a = size * k + 0
    BY <2>1, <2>2
  <2>4. size * k \in Nat
    BY <1>1, TimesNext
  <2> QED
    BY <2>3, <2>4
<1>4. PICK m \in Nat : PageSize = size * m
  <2>1. PageSize \div size \in Nat /\ PageSize = size * (PageSize \div size) + (PageSize % size)
    BY <1>1, DivModNat
  <2>2. PICK m \in Nat : m = PageSize \div size
    BY <2>1
  <2>3. PageSize = size * m + 0
    BY <2>1, <2>2
  <2>4. size * m \in Nat
    BY <1>1, TimesNext
  <2> QED
    BY <2>3, <2>4
<1>5. PICK y \in Nat : PageSize * q = size * y
  <2>1. \A s, x, z \in Nat : (s * x) * z = s * (x * z) /\ x * z \in Nat
    OBVIOUS
  <2>2. PICK y \in Nat : y = m * q
    BY <2>1, TimesNext
  <2>3. (size * m) * q = size * (m * q)
    <3>1. size \in Nat
      BY <1>1
    <3> QED
      BY ONLY <2>1, <3>1, m \in Nat, q \in Nat
  <2>4. PageSize * q = (size * m) * q
    BY ONLY <1>4
  <2> QED
    BY ONLY <2>2, <2>3, <2>4, y \in Nat
<1>6. size * k = size * y + o /\ o \in Nat /\ o < size * m
  <2>1. size * k = PageSize * q + o
    BY ONLY <1>2, <1>3
  <2>2. o \in Nat /\ o < PageSize
    BY ONLY <1>1, <1>2
  <2> QED
    BY ONLY <1>4, <1>5, <2>1, <2>2
<1>7. CASE size = 1
  BY <1>4, <1>6, <1>7
<1>8. CASE size = 2
  BY <1>4, <1>6, <1>8
<1>9. CASE size = 4
  BY <1>4, <1>6, <1>9
<1> QED
  BY <1>4, <1>6, <1>7, <1>8, <1>9

PhysAddr(pages, a) == pages[a \div PageSize] * PageSize + (a % PageSize)

InArea(b, a, size) == b \in a .. a + size - 1

(* The bytes that WriteMem changes are those that the process sees at the  *)
(* addresses it names.                                                     *)
LEMMA StoresThere ==
  ASSUME NEW n \in Nat, NEW pages \in [0 .. n - 1 -> Frame], OneToOne(pages, n),
         NEW size \in AccessSize, NEW a \in Nat, a % size = 0, a \div PageSize \in 0 .. n - 1,
         NEW x, x = PhysAddr(pages, a),
         NEW b \in 0 .. n * PageSize - 1,
         NEW y, y = PhysAddr(pages, b)
  PROVE  InArea(y, x, size) <=> InArea(b, a, size)
<1>0. size \in {1, 2, 4} /\ PageSize % size = 0
  BY AddrSpaceAssumption
<1>1. PageSize \in Nat \ {0} /\ size \in Nat \ {0}
  BY <1>0, AddrSpaceAssumption
<1>2. PICK o : o = a % PageSize
  OBVIOUS
<1>3. o \in Nat /\ o + size <= PageSize
  BY <1>0, <1>2, WithinPage
<1>4. PICK i \in 0 .. n - 1 : i = a \div PageSize
  OBVIOUS
<1>5. PICK ia \in Nat : ia = i * PageSize
  BY <1>1, TimesNext
<1>6. a = ia + o
  <2>1. a = PageSize * (a \div PageSize) + (a % PageSize)
    BY <1>1, DivModNat
  <2>2. a = PageSize * i + o
    BY <1>2, <1>4, <2>1
  <2>3. PageSize * i = i * PageSize
    BY <1>1, <1>4
  <2> QED
    BY <1>5, <2>2, <2>3
<1>7. PICK f \in Nat : f = pages[i]
  BY PagesOf
<1>8. PICK fa \in Nat : fa = f * PageSize
  BY <1>1, TimesNext
<1>9. x = fa + o
  <2>1. x = pages[a \div PageSize] * PageSize + (a % PageSize)
    BY DEF PhysAddr
  <2>2. x = f * PageSize + o
    BY ONLY <1>2, <1>4, <1>7, <2>1
  <2> QED
    BY ONLY <1>8, <2>2
<1>10. /\ b \div PageSize \in 0 .. n - 1 /\ b % PageSize \in 0 .. PageSize - 1
       /\ b = (b \div PageSize) * PageSize + (b % PageSize)
  <2>1. PageSize \in Nat \ {0}
    BY <1>1
  <2> QED
    BY ONLY <2>1, AddressOf
<1>11. PICK j \in 0 .. n - 1 : j = b \div PageSize
  BY <1>10
<1>12. PICK r \in 0 .. PageSize - 1 : r = b % PageSize
  BY <1>10
<1>13. b = j * PageSize + r
  BY <1>10, <1>11, <1>12
<1>14. PICK g \in Nat : g = pages[j]
  BY PagesOf
<1>17. y = g * PageSize + r
  <2>1. y = pages[b \div PageSize] * PageSize + (b % PageSize)
    BY DEF PhysAddr
  <2> QED
    BY ONLY <1>11, <1>12, <1>14, <2>1
<1>15. ASSUME g * PageSize + r \in x .. x + size - 1
       PROVE  b \in a .. a + size - 1
  <2>1. PICK ga \in Nat : ga = g * PageSize
    BY <1>1, TimesNext
  <2>2. PICK d \in 0 .. size - 1 : ga + r = x + d
    <3>1. ga + r \in x .. x + size - 1
      BY <1>15, <2>1
    <3>2. x \in Nat /\ ga + r \in Nat
      BY <1>1, <1>3, <1>8, <1>9
    <3>3. (ga + r) - x \in 0 .. size - 1 /\ ga + r = x + ((ga + r) - x)
      BY ONLY <1>1, <3>1, <3>2
    <3> QED
      BY <3>3
  <2>3. PICK e \in 0 .. PageSize - 1 : e = o + d
    BY <1>1, <1>3
  <2>4. fa + e = ga + r
    BY <1>1, <1>3, <1>9, <2>2, <2>3
  <2>5. f * PageSize + e = g * PageSize + r
    BY <1>8, <2>1, <2>4
  <2>6. f = g /\ e = r
    BY <2>5, SameAddress
  <2>7. i = j
    BY <1>7, <1>14, <2>6 DEF OneToOne
  <2>8. b = ia + r
    BY <1>5, <1>13, <2>7
  <2> QED
    BY <1>1, <1>3, <1>6, <2>2, <2>3, <2>6, <2>8
<1>16. ASSUME b \in a .. a + size - 1
       PROVE  g * PageSize + r \in x .. x + size - 1
  <2>1. PICK d \in 0 .. size - 1 : b = a + d
    <3>1. b - a \in 0 .. size - 1 /\ b = a + (b - a)
      BY <1>1, <1>16
    <3> QED
      BY <3>1
  <2>2. PICK e \in 0 .. PageSize - 1 : e = o + d
    BY <1>1, <1>3
  <2>3. b = ia + e
    BY <1>1, <1>3, <1>6, <2>1, <2>2
  <2>4. b = i * PageSize + e
    BY <1>5, <2>3
  <2>5. i \in Nat /\ j \in Nat
    OBVIOUS
  <2>6. i = j /\ e = r
    BY <1>13, <2>4, <2>5, SameAddress
  <2>7. g * PageSize = fa
    BY <1>7, <1>8, <1>14, <2>6
  <2> QED
    BY <1>1, <1>3, <1>9, <2>2, <2>6, <2>7
<1> QED
  BY <1>15, <1>16, <1>17 DEF InArea

LEMMA WriteMemPrivate ==
  ASSUME Inv, MemoryInv, NEW p \in Proc, NEW a \in 0 .. MemorySize, NEW size \in AccessSize, NEW v \in StoreByte,
         WriteMem(p, a, size, v)
  PROVE  MemoryInv' /\ PrivateStep
<1>1. /\ Tables /\ FramesExact /\ OwnTable /\ machine = "on" /\ cpu = p /\ pc[p] = "run"
      /\ DOMAIN mainMemory = 0 .. MemorySize - 1
      /\ UNCHANGED <<pc, program, space, cpu>>
  BY DEF Inv, PlainTypes, WriteMem, On
<1>2. tableOf = p
  BY <1>1 DEF OwnTable
<1>3. Booting'
  BY <1>1, BootingStays
<1>4. PICK x : x = Translate(a, size)
  OBVIOUS
<1>5. \/ /\ x # -1
         /\ mainMemory' = [b \in DOMAIN mainMemory |-> IF b \in x .. x + size - 1 THEN v ELSE mainMemory[b]]
      \/ mainMemory' = mainMemory
  BY <1>4 DEF WriteMem
<1>6. CASE mainMemory' = mainMemory
  BY <1>1, <1>3, <1>6, IdleStep
<1>7. CASE /\ x # -1
           /\ mainMemory' = [b \in DOMAIN mainMemory |-> IF b \in x .. x + size - 1 THEN v ELSE mainMemory[b]]
  <2>1. PICK n : n = Cardinality(DOMAIN space[p])
    OBVIOUS
  <2>2. PICK pages : pages = space[p]
    OBVIOUS
  <2>3. n \in Nat /\ pages \in [0 .. n - 1 -> Frame]
    BY <1>1, <2>1, <2>2 DEF Tables, IsTable
  <2>4. /\ a % size = 0 /\ a \div PageSize \in 0 .. n - 1
        /\ x = pages[a \div PageSize] * PageSize + (a % PageSize)
    <3>1. DOMAIN space[p] = 0 .. n - 1
      BY <2>2, <2>3
    <3> QED
      BY <1>2, <1>4, <1>7, <2>2, <3>1 DEF Translate
  <2>5. size \in {1, 2, 4} /\ PageSize % size = 0 /\ PageSize \in Nat \ {0}
    BY AddrSpaceAssumption
  <2>6. a \in Nat
    <3>1. PageSize \in Nat /\ NumPhysPages \in Nat
      BY AddrSpaceAssumption
    <3>2. MemorySize \in Nat
      BY <3>1, TimesNext DEF MemorySize
    <3> QED
      BY <3>2
  <2>7. OneToOne(pages, n)
    <3>1. DOMAIN space[p] = 0 .. n - 1
      BY <2>2, <2>3
    <3>2. FramesExact
      BY <1>1
    <3>3. \A i, j \in DOMAIN space[p] : space[p][i] = space[p][j] => i = j
      BY <3>2 DEF FramesExact
    <3> QED
      BY <2>2, <3>1, <3>3 DEF OneToOne
  <2>8. PICK o : o = a % PageSize
    OBVIOUS
  <2>9. o \in Nat /\ o + size <= PageSize
    BY <2>4, <2>5, <2>6, <2>8, WithinPage
  <2>10. PICK f \in Frame : f = pages[a \div PageSize]
    BY <2>3, <2>4
  <2>11. f \in RangeOf(space[p])
    BY <2>2, <2>3, <2>4, <2>10 DEF RangeOf
  <2>12. ASSUME NEW b \in 0 .. MemorySize - 1, b \in x .. x + size - 1
         PROVE  b \div PageSize = f
    <3>1. PICK fa : fa = f * PageSize
      OBVIOUS
    <3>2. f \in Nat /\ fa \in Nat
      <4>1. f \in Nat
        BY FrameFinite
      <4> QED
        BY <2>5, <3>1, <4>1, TimesNext
    <3>3. x = fa + o
      BY <2>4, <2>8, <2>10, <3>1
    <3>4. b - fa \in 0 .. PageSize - 1 /\ b = fa + (b - fa)
      BY <2>5, <2>9, <2>12, <3>2, <3>3
    <3>5. PICK e \in 0 .. PageSize - 1 : b = fa + e
      BY <3>4
    <3> QED
      BY <3>1, <3>5, InMemory
  <2>13. \A b \in 0 .. MemorySize - 1 :
           mainMemory'[b] = IF b \in x .. x + size - 1 THEN v ELSE mainMemory[b]
    BY <1>1, <1>7
  <2>14. ASSUME NEW q \in Proc, q # p PROVE Untouched(q)
    <3>1. f \notin RangeOf(space[q])
      BY <1>1, <2>11, <2>14 DEF FramesExact, RangeOf
    <3>2. \A b \in 0 .. MemorySize - 1 : b \div PageSize \in RangeOf(space[q]) => mainMemory'[b] = mainMemory[b]
      BY <2>12, <2>13, <3>1
    <3> QED
      BY <1>1, <3>2 DEF Untouched
  <2>15. Loading(p)'
    BY <1>1 DEF Loading
  <2>16. MemoryInv' /\ \A q \in Proc : q # p => VirtualMemory(q)' = VirtualMemory(q)
    BY <1>3, <2>14, <2>15, OneMoves
  <2> DEFINE At(b) == pages[b \div PageSize] * PageSize + (b % PageSize)
             old == [b \in 0 .. n * PageSize - 1 |-> mainMemory[At(b)]]
             new == [b \in 0 .. n * PageSize - 1 |-> mainMemory'[At(b)]]
             stored == [b \in DOMAIN old |-> IF b \in a .. a + size - 1 THEN v ELSE old[b]]
  <2>17. VirtualMemory(p) = old /\ VirtualMemory(p)' = new
    BY <1>1, <2>1, <2>2 DEF VirtualMemory
  <2>18. ASSUME NEW b \in 0 .. n * PageSize - 1
         PROVE  mainMemory'[At(b)] = IF b \in a .. a + size - 1 THEN v ELSE mainMemory[At(b)]
    <3>1. At(b) \in x .. x + size - 1 <=> b \in a .. a + size - 1
      <4>1. PICK y : y = At(b)
        OBVIOUS
      <4>2. y = PhysAddr(pages, b) /\ x = PhysAddr(pages, a)
        BY <2>4, <4>1 DEF PhysAddr
      <4> HIDE DEF At
      <4>3. InArea(y, x, size) <=> InArea(b, a, size)
        <5>1. a % size = 0 /\ a \div PageSize \in 0 .. n - 1
          BY <2>4
        <5>2. n \in Nat
          BY <2>3
        <5>3. pages \in [0 .. n - 1 -> Frame]
          BY <2>3
        <5> QED
          BY ONLY <2>6, <2>7, <4>2, <5>1, <5>2, <5>3, StoresThere, Zenon
      <4> QED
        BY <4>1, <4>3 DEF InArea
    <3>2. At(b) \in 0 .. MemorySize - 1
      <4>1. b \div PageSize \in 0 .. n - 1 /\ b % PageSize \in 0 .. PageSize - 1
        BY <2>3, <2>5, AddressOf
      <4>2. pages[b \div PageSize] \in Frame
        BY <2>3, <4>1
      <4> QED
        BY <4>1, <4>2, InMemory
    <3> HIDE DEF At
    <3> QED
      BY <2>13, <3>1, <3>2
  <2> HIDE DEF At
  <2>19. new = stored
    BY <2>18
  <2>20. DOMAIN old = 0 .. n * PageSize - 1
    OBVIOUS
  <2>21. a \in DOMAIN old
    <3>1. PICK i \in 0 .. n - 1 : i = a \div PageSize
      BY <2>4
    <3>2. a = PageSize * i + o
      BY <2>5, <2>6, <2>8, <3>1, DivModNat
    <3>3. PICK ia \in Nat : ia = i * PageSize
      BY <2>5, TimesNext
    <3>4. PageSize * i = i * PageSize
      BY <2>5
    <3>5. PICK na \in Nat : na = n * PageSize
      BY <2>3, <2>5, TimesNext
    <3>6. ia + PageSize <= na
      BY <2>3, <2>5, <3>3, <3>5, BelowNext
    <3>7. a \in 0 .. na - 1
      BY <2>5, <2>6, <2>9, <3>2, <3>3, <3>4, <3>6
    <3> QED
      BY <2>20, <3>5, <3>7
  <2> HIDE DEF old, new
  <2>22. Vm' = [Vm EXCEPT ![p] = stored]
    BY <2>16, <2>17, <2>19, OnlyOne
  <2>23. Vm[p] = old
    BY <2>17 DEF Vm
  <2>24. Private!Store(p, a .. a + size - 1, v)
    BY <2>22, <2>23 DEF Private!Store, Vm
  <2>25. Private!Next
    BY <2>5, <2>21, <2>23, <2>24 DEF Private!Next, Vm
  <2> QED
    BY <2>16, <2>25 DEF PrivateStep
<1> QED
  BY <1>5, <1>6, <1>7
-----------------------------------------------------------------------------
LEMMA StartMemory == Init => MemoryInv /\ Private!Init
<1> SUFFICES ASSUME Init PROVE MemoryInv /\ Private!Init
  OBVIOUS
<1>1. \A p \in Proc : pc[p] \in {"boot", "none"}
  BY DEF Init
<1>2. Booting /\ \A p \in Proc : Loading(p)
  BY <1>1 DEF Init, Booting, Loading
<1>3. \A p \in Proc : VirtualMemory(p) = Private!NoMemory
  BY <1>1, SeesNothing
<1> QED
  BY <1>2, <1>3 DEF MemoryInv, Private!Init

(* Every process has a memory of its own that begins as the image of the   *)
(* program that was linked and changes by its own stores only: coff2noff,  *)
(* the loader, the page tables and the bitmap of frames together implement *)
(* private memories, whatever the number of processes, the size of a page  *)
(* and of memory, and the programs.                                        *)
THEOREM MemoryStaysPrivate == Spec => MemoryIsPrivate
<1>1. Init => Inv /\ MemoryInv /\ Private!Init
  BY Start, StartMemory
<1>2. Inv /\ MemoryInv /\ [Next]_vars => MemoryInv' /\ PrivateStep
  <2> SUFFICES ASSUME Inv, MemoryInv, [Next]_vars PROVE MemoryInv' /\ PrivateStep
    OBVIOUS
  <2>1. CASE StartProcess
    BY <2>1, StartProcessPrivate
  <2>2. ASSUME NEW p \in Proc, NEW c \in Converted, Exec(p, c) PROVE MemoryInv' /\ PrivateStep
    BY <2>2, ExecPrivate
  <2>3. ASSUME NEW p \in Proc, LockMemory(p) PROVE MemoryInv' /\ PrivateStep
    BY <2>3, LockMemoryPrivate
  <2>4. ASSUME NEW p \in Proc, Allocate(p) PROVE MemoryInv' /\ PrivateStep
    BY <2>4, AllocatePrivate
  <2>5. ASSUME NEW p \in Proc, Load(p) PROVE MemoryInv' /\ PrivateStep
    BY <2>5, LoadPrivate
  <2>6. ASSUME NEW p \in Proc, NEW a \in 0 .. MemorySize, NEW size \in AccessSize, NEW v \in StoreByte,
               WriteMem(p, a, size, v)
        PROVE  MemoryInv' /\ PrivateStep
    BY <2>6, WriteMemPrivate
  <2>7. ASSUME NEW p \in Proc, Exit(p) PROVE MemoryInv' /\ PrivateStep
    BY <2>7, ExitPrivate
  <2>8. ASSUME NEW p \in Proc, Dispatch(p) PROVE MemoryInv' /\ PrivateStep
    BY <2>8, DispatchPrivate
  <2>9. CASE UNCHANGED vars
    BY <2>9, StutterPrivate
  <2> QED
    BY <2>1, <2>2, <2>3, <2>4, <2>5, <2>6, <2>7, <2>8, <2>9 DEF Next, Stopped
<1>3. PrivateStep => [Private!Next]_[p \in Proc |-> VirtualMemory(p)]
  BY DEF PrivateStep, Vm
<1>4. Inv /\ MemoryInv /\ [Next]_vars => MemoryInv' /\ [Private!Next]_[p \in Proc |-> VirtualMemory(p)]
  BY <1>2, <1>3
<1> QED
  BY <1>1, <1>4, Invariance, PTL DEF Spec, MemoryIsPrivate, Private!Spec
=============================================================================
