-------------------------- MODULE FileTableProofs --------------------------
(***************************************************************************)
(* Proofs about module FileTable, for every number of files, slots and     *)
(* calls and all data: open files and UNIX descriptors correspond one to   *)
(* one (Descriptors), a descriptor stands where the counts that were       *)
(* returned say (Offsets), and so files hold what was written and reads    *)
(* deliver it.  With the buffers of the source, the conversions of ReadNum *)
(* and PrintNum are exact for every 32-bit number.                         *)
(***************************************************************************)
EXTENDS FileTable, FiniteSetTheorems, WellFoundedInduction, TLAPS

Used == {i \in Slot : file[i] # NoFile}

(* The open files and the descriptors of the host, one to one.             *)
Descriptors ==
  /\ {0, 1} \subseteq Used
  /\ \A i \in Used : file[i].fd \in DOMAIN fds
  /\ \A fd \in DOMAIN fds : \E i \in Used : file[i].fd = fd
  /\ \A i, j \in Used : file[i].fd = file[j].fd => i = j

(* An open file is a file of the host, and the kernel's offset in it is    *)
(* where the program believes to be.                                       *)
Offsets ==
  /\ \A fd \in DOMAIN fds : unix[fds[fd]] # NoFile
  /\ \A i \in Used \ {0, 1} : fds[file[i].fd] \in Name /\ file[i].currentOffset = at[i]

Inv == TypeOK /\ Descriptors /\ Offsets /\ FilesAsWritten /\ ReadDelivers
-----------------------------------------------------------------------------
(* Least and greatest elements.                                            *)

LEMMA MinIs ==
  ASSUME NEW S, S \subseteq Nat, S # {}
  PROVE  Min(S) \in S /\ \A j \in S : Min(S) <= j
<1> DEFINE R == OpToRel(<, Nat)
<1>1. IsWellFoundedOn(R, Nat)
  BY NatLessThanWellFounded
<1> HIDE DEF R
<1>2. PICK x \in S : \A y \in S : ~(<<y, x>> \in R)
  BY <1>1, WFMin
<1>3. \A y \in S : ~(y < x)
  BY <1>2 DEF R, OpToRel
<1>4. \A y \in S : x <= y
  BY <1>3
<1> QED
  BY <1>4 DEF Min

LEMMA MinOfTwo ==
  ASSUME NEW a \in Nat, NEW b \in Nat
  PROVE  Min({a, b}) = IF a <= b THEN a ELSE b
<1>1. Min({a, b}) \in {a, b} /\ Min({a, b}) <= a /\ Min({a, b}) <= b
  BY MinIs
<1> QED
  BY <1>1

LEMMA MaxOfTwo ==
  ASSUME NEW a \in Nat, NEW b \in Nat
  PROVE  Max({a, b}) = IF a >= b THEN a ELSE b
<1> DEFINE m == IF a >= b THEN a ELSE b
<1>1. m \in {a, b} /\ \A y \in {a, b} : m >= y
  OBVIOUS
<1>2. \A x \in {a, b} : (\A y \in {a, b} : x >= y) => x = m
  OBVIOUS
<1> HIDE DEF m
<1>3. Max({a, b}) = m
  BY <1>1, <1>2 DEF Max
<1> QED
  BY <1>3 DEF m
-----------------------------------------------------------------------------
(* Transfers.                                                              *)

LEMMA SubSeqIs ==
  ASSUME NEW S, NEW s \in Seq(S), NEW a \in Nat, NEW b \in 0 .. Len(s)
  PROVE  /\ SubSeq(s, a + 1, b) \in Seq(S)
         /\ a <= b => /\ Len(SubSeq(s, a + 1, b)) = b - a
                      /\ \A i \in 1 .. b - a : SubSeq(s, a + 1, b)[i] = s[a + i]
         /\ a >= b => SubSeq(s, a + 1, b) = <<>>
OBVIOUS

LEMMA EndOfStringIs ==
  ASSUME NEW s \in Seq(Nat)
  PROVE  /\ EndOfString(s) \in 1 .. Len(s) + 1
         /\ \A i \in 1 .. Len(s) : i < EndOfString(s) => s[i] # 0
         /\ EndOfString(s) <= Len(s) => s[EndOfString(s)] = 0
<1> DEFINE S == {i \in DOMAIN s : s[i] = 0} \cup {Len(s) + 1}
<1>1. Len(s) \in Nat /\ DOMAIN s = 1 .. Len(s)
  OBVIOUS
<1>2. S \subseteq Nat /\ S # {} /\ Len(s) + 1 \in S
  BY <1>1
<1>3. \A i \in S : i \in 1 .. Len(s) + 1 /\ (i <= Len(s) => s[i] = 0)
  BY <1>1
<1>4. \A i \in 1 .. Len(s) : s[i] = 0 => i \in S
  BY <1>1
<1> HIDE DEF S
<1>5. Min(S) \in S /\ \A j \in S : Min(S) <= j
  BY <1>2, MinIs
<1>6. EndOfString(s) = Min(S)
  BY DEF EndOfString, S
<1>7. \A i \in 1 .. Len(s) : i < Min(S) => s[i] # 0
  BY <1>3, <1>4, <1>5
<1> QED
  BY <1>3, <1>5, <1>6, <1>7

(* What User2System copies has the length that was asked for, and is the   *)
(* data itself when that is a text.                                        *)
LEMMA User2SystemIs ==
  ASSUME NEW data \in Seq(Nat)
  PROVE  /\ User2System(data, Len(data)) \in Seq(Nat)
         /\ Len(User2System(data, Len(data))) = Len(data)
         /\ 0 \notin {data[i] : i \in DOMAIN data} => User2System(data, Len(data)) = data
<1>1. Len(data) \in Nat /\ DOMAIN data = 1 .. Len(data)
      /\ \A i \in 1 .. Len(data) : data[i] \in Nat
  OBVIOUS
<1>2. User2System(data, Len(data))
        = [i \in 1 .. Len(data) |-> IF i < EndOfString(data) THEN data[i] ELSE 0]
  BY DEF User2System
<1>3. User2System(data, Len(data)) \in Seq(Nat) /\ Len(User2System(data, Len(data))) = Len(data)
  BY <1>1, <1>2
<1>4. ASSUME 0 \notin {data[i] : i \in DOMAIN data}
      PROVE  User2System(data, Len(data)) = data
  <2>1. EndOfString(data) = Len(data) + 1
    <3>1. EndOfString(data) \in 1 .. Len(data) + 1
          /\ (EndOfString(data) <= Len(data) => data[EndOfString(data)] = 0)
      BY EndOfStringIs
    <3>2. EndOfString(data) \notin 1 .. Len(data)
      BY <1>1, <1>4, <3>1
    <3> QED
      BY <1>1, <3>1, <3>2
  <2>2. \A i \in 1 .. Len(data) : User2System(data, Len(data))[i] = data[i]
    BY <1>1, <1>2, <2>1
  <2> QED
    BY <1>3, <2>2
<1> QED
  BY <1>3, <1>4

(* The memory after System2User of a string: the string and its 0 at the   *)
(* beginning, up to the first 0.                                           *)
LEMMA System2UserIs ==
  ASSUME NEW s \in Seq(Nat), mem \in Seq(Nat)
  PROVE  LET m == System2User(Append(s, 0)) IN
         /\ m \in Seq(Nat)
         /\ 0 \notin {s[i] : i \in DOMAIN s} =>
              Len(m) > Len(s) /\ SubSeq(m, 1, Len(s) + 1) = Append(s, 0)
<1> DEFINE b == Append(s, 0)
           e == EndOfString(b)
           m == System2User(b)
           n == Max({Len(mem), e})
<1>1. /\ Len(s) \in Nat /\ b \in Seq(Nat) /\ Len(b) = Len(s) + 1 /\ b[Len(s) + 1] = 0
      /\ \A i \in 1 .. Len(s) : b[i] = s[i]
      /\ Len(mem) \in Nat /\ DOMAIN s = 1 .. Len(s)
      /\ \A i \in 1 .. Len(mem) : mem[i] \in Nat
  OBVIOUS
<1> HIDE DEF b
<1>2. /\ e \in 1 .. Len(b) + 1 /\ \A i \in 1 .. Len(b) : i < e => b[i] # 0
      /\ e <= Len(b) => b[e] = 0
  <2>1. b \in Seq(Nat)
    BY <1>1
  <2> QED
    BY <2>1, EndOfStringIs
<1> HIDE DEF e
<1>3. e \in 1 .. Len(b)
  <2> SUFFICES ASSUME e \notin 1 .. Len(b) PROVE FALSE
    OBVIOUS
  <2>1. e = Len(b) + 1 /\ Len(s) + 1 \in 1 .. Len(b) /\ Len(s) + 1 < e
    BY <1>1, <1>2
  <2> QED
    BY <1>1, <1>2, <2>1
<1>4. n \in Nat /\ n >= e /\ n >= Len(mem) /\ (n = e \/ n = Len(mem))
  <2>1. Len(mem) \in Nat /\ e \in Nat
    BY <1>1, <1>3
  <2>2. n = IF Len(mem) >= e THEN Len(mem) ELSE e
    BY <2>1, MaxOfTwo
  <2> QED
    BY <2>1, <2>2
<1>5. m = [i \in 1 .. n |-> IF i <= e THEN b[i] ELSE mem[i]]
  BY DEF System2User, e
<1> HIDE DEF n, m
<1>6. \A i \in 1 .. n : (IF i <= e THEN b[i] ELSE mem[i]) \in Nat
  <2> SUFFICES ASSUME NEW i \in 1 .. n
               PROVE  (IF i <= e THEN b[i] ELSE mem[i]) \in Nat
    OBVIOUS
  <2>1. CASE i <= e
    <3>1. i \in 1 .. Len(b)
      BY <1>1, <1>3, <1>4, <2>1
    <3> QED
      BY <1>1, <2>1, <3>1
  <2>2. CASE ~(i <= e)
    <3>1. i \in 1 .. Len(mem)
      BY <1>1, <1>3, <1>4, <2>2
    <3> QED
      BY <1>1, <2>2, <3>1
  <2> QED
    BY <2>1, <2>2
<1>7. m \in Seq(Nat) /\ Len(m) = n /\ \A i \in 1 .. n : i <= e => m[i] = b[i]
  BY <1>4, <1>5, <1>6
<1>8. ASSUME 0 \notin {s[i] : i \in DOMAIN s}
      PROVE  Len(m) > Len(s) /\ SubSeq(m, 1, Len(s) + 1) = b
  <2>1. e = Len(s) + 1
    <3>1. e \notin 1 .. Len(s)
      <4> SUFFICES ASSUME e \in 1 .. Len(s) PROVE FALSE
        OBVIOUS
      <4>1. b[e] = 0 /\ b[e] = s[e]
        BY <1>1, <1>2, <1>3
      <4>2. s[e] # 0
        BY <1>1, <1>8
      <4> QED
        BY <4>1, <4>2
    <3> QED
      BY <1>1, <1>3, <3>1
  <2>2. n >= Len(s) + 1 /\ Len(m) > Len(s)
    BY <1>1, <1>4, <1>7, <2>1
  <2> DEFINE q == SubSeq(m, 1, Len(s) + 1)
  <2>3. q \in Seq(Nat) /\ Len(q) = Len(s) + 1 /\ \A i \in 1 .. Len(s) + 1 : q[i] = m[i]
    <3>1. m \in Seq(Nat) /\ Len(s) + 1 \in 0 .. Len(m) /\ 0 \in Nat /\ 0 <= Len(s) + 1
      BY <1>1, <1>4, <1>7, <2>2
    <3>2. /\ q \in Seq(Nat) /\ Len(q) = Len(s) + 1 - 0
          /\ \A i \in 1 .. Len(s) + 1 - 0 : q[i] = m[0 + i]
      BY <3>1, SubSeqIs
    <3> QED
      BY <1>1, <3>2
  <2> HIDE DEF q
  <2>4. \A i \in 1 .. Len(s) + 1 : q[i] = b[i]
    <3> SUFFICES ASSUME NEW i \in 1 .. Len(s) + 1 PROVE q[i] = b[i]
      OBVIOUS
    <3>1. i \in 1 .. n /\ i <= e
      BY <1>1, <1>4, <2>1, <2>2
    <3> QED
      BY <1>7, <2>3, <3>1
  <2>5. q = b
    BY <1>1, <2>3, <2>4
  <2> QED
    BY <2>2, <2>5 DEF q
<1> QED
  BY <1>7, <1>8 DEF m, b

LEMMA ReadPartialIs ==
  ASSUME NEW bytes \in Seq(Nat), NEW position \in Nat, NEW n \in Nat
  PROVE  ReadPartial(bytes, position, n) \in Seq(Nat) /\ Len(ReadPartial(bytes, position, n)) <= n
<1>1. Len(bytes) \in Nat /\ position + n \in Nat
  OBVIOUS
<1>2. PICK e \in 0 .. Len(bytes) : e = Min({Len(bytes), position + n}) /\ e <= position + n
  <2>1. Min({Len(bytes), position + n}) = IF Len(bytes) <= position + n THEN Len(bytes) ELSE position + n
    BY <1>1, MinOfTwo
  <2> QED
    BY <1>1, <2>1
<1>3. PICK s \in Seq(Nat) : s = SubSeq(bytes, position + 1, e)
  BY SubSeqIs
<1>4. (position <= e => Len(s) = e - position) /\ (position >= e => s = <<>>)
  BY <1>3, SubSeqIs
<1>5. Len(s) <= n
  <2>1. CASE position <= e
    BY <1>1, <1>2, <1>4, <2>1
  <2>2. CASE ~(position <= e)
    BY <1>1, <1>4, <2>2
  <2> QED
    BY <2>1, <2>2
<1> QED
  BY <1>2, <1>3, <1>5 DEF ReadPartial

(* Two files of one length stay so when as much is written at one place.   *)
LEMMA WriteFileIs ==
  ASSUME NEW bytes \in Seq(Nat), NEW position \in Nat, NEW from \in Seq(Nat)
  PROVE  /\ WriteFile(bytes, position, from) \in Seq(Nat)
         /\ Len(WriteFile(bytes, position, from)) = Max({Len(bytes), position + Len(from)})
<1> DEFINE n == Max({Len(bytes), position + Len(from)})
           v(i) == IF i \in position + 1 .. position + Len(from) THEN from[i - position]
                   ELSE IF i <= Len(bytes) THEN bytes[i] ELSE 0
<1>1. Len(bytes) \in Nat /\ Len(from) \in Nat /\ position + Len(from) \in Nat
  OBVIOUS
<1>2. n \in Nat
  <2>1. n = IF Len(bytes) >= position + Len(from) THEN Len(bytes) ELSE position + Len(from)
    BY <1>1, MaxOfTwo
  <2> QED
    BY <1>1, <2>1
<1>3. WriteFile(bytes, position, from) = [i \in 1 .. n |-> v(i)]
  BY DEF WriteFile
<1> HIDE DEF n
<1>4. \A i \in 1 .. n : v(i) \in Nat
  <2> SUFFICES ASSUME NEW i \in 1 .. n PROVE v(i) \in Nat
    OBVIOUS
  <2>1. CASE i \in position + 1 .. position + Len(from)
    <3>1. i - position \in 1 .. Len(from)
      BY <1>1, <2>1
    <3> QED
      BY <2>1, <3>1
  <2>2. CASE i \notin position + 1 .. position + Len(from) /\ i <= Len(bytes)
    <3>1. i \in 1 .. Len(bytes)
      BY <1>1, <1>2, <2>2
    <3> QED
      BY <2>2, <3>1
  <2>3. CASE i \notin position + 1 .. position + Len(from) /\ ~(i <= Len(bytes))
    BY <2>3
  <2> QED
    BY <2>1, <2>2, <2>3
<1> HIDE DEF v
<1>5. [i \in 1 .. n |-> v(i)] \in Seq(Nat) /\ Len([i \in 1 .. n |-> v(i)]) = n
  BY <1>2, <1>4
<1> QED
  BY <1>3, <1>5 DEF n

(* What the console gives.                                                 *)
LEMMA ConsoleIs ==
  ASSUME NEW n \in Nat, NEW S, input \in Seq(S), ConsoleReady(n)
  PROVE  /\ ConsoleChars(n) \in Seq(S) /\ ConsoleRest(n) \in Seq(S)
         /\ ConsoleResult(n) = -1 \/ ConsoleResult(n) = Len(ConsoleChars(n))
         /\ Len(ConsoleChars(n)) <= n
<1> DEFINE E == {i \in DOMAIN input : input[i] \in {Newline, CtrlA}}
<1>1. Len(input) \in Nat /\ DOMAIN input = 1 .. Len(input)
  OBVIOUS
<1>2. E \cup {n + 1} \subseteq Nat /\ E \cup {n + 1} # {} /\ E \subseteq 1 .. Len(input)
  BY <1>1
<1> HIDE DEF E
<1>3. PICK e : e = ConsoleEnd(n)
  OBVIOUS
<1>4. e = Min(E \cup {n + 1})
  BY <1>3 DEF ConsoleEnd, E
<1>5. e \in E \cup {n + 1} /\ e <= n + 1
  BY <1>2, <1>4, MinIs
<1>6. e \in Nat /\ e >= 1 /\ e - 1 \in Nat /\ e - 1 <= n
  BY <1>1, <1>2, <1>5
<1>7. e - 1 \in 0 .. Len(input)
  <2>1. e <= Min({n, Len(input)}) \/ Len(input) >= n
    BY <1>3 DEF ConsoleReady
  <2>2. Min({n, Len(input)}) <= Len(input) /\ Min({n, Len(input)}) \in Nat
    <3>1. Min({n, Len(input)}) = IF n <= Len(input) THEN n ELSE Len(input)
      BY <1>1, MinOfTwo
    <3> QED
      BY <1>1, <3>1
  <2> QED
    BY <1>1, <1>6, <2>1, <2>2
<1>8. ConsoleChars(n) \in Seq(S) /\ Len(ConsoleChars(n)) <= n
  <2>1. SubSeq(input, 0 + 1, e - 1) \in Seq(S) /\ Len(SubSeq(input, 0 + 1, e - 1)) = e - 1
    BY <1>7, SubSeqIs
  <2> QED
    BY <1>3, <1>6, <2>1 DEF ConsoleChars
<1>9. ConsoleRest(n) \in Seq(S)
  <2>1. /\ SubSeq(input, e + 1, Len(input)) \in Seq(S)
        /\ SubSeq(input, n + 1, Len(input)) \in Seq(S)
    BY <1>1, <1>6, SubSeqIs
  <2> QED
    BY <1>3, <2>1 DEF ConsoleRest
<1> QED
  BY <1>8, <1>9 DEF ConsoleResult
-----------------------------------------------------------------------------
(* Descriptors.                                                            *)

LEMMA DescriptorsFinite ==
  ASSUME Descriptors, TypeOK
  PROVE  /\ IsFiniteSet(Used) /\ IsFiniteSet(DOMAIN fds)
         /\ Cardinality(Used) = Cardinality(DOMAIN fds)
         /\ {file[i].fd : i \in Used} = DOMAIN fds
<1> DEFINE f == [i \in Used |-> file[i].fd]
<1>1. IsFiniteSet(0 .. NumSlots - 1)
  BY FS_Interval, FileAssumption
<1>2. IsFiniteSet(Used)
  BY <1>1, FS_Subset DEF Used, Slot
<1>3. f \in [Used -> DOMAIN fds]
  BY DEF Descriptors
<1>4. \A fd \in DOMAIN fds : \E i \in Used : f[i] = fd
  BY DEF Descriptors
<1>5. \A i, j \in Used : f[i] = f[j] => i = j
  BY DEF Descriptors
<1>6. f \in Bijection(Used, DOMAIN fds)
  BY <1>3, <1>4, <1>5 DEF Bijection, Injection, Surjection, IsInjective
<1>7. ExistsBijection(Used, DOMAIN fds)
  BY <1>6 DEF ExistsBijection
<1>8. {file[i].fd : i \in Used} = DOMAIN fds
  <2>1. \A i \in Used : file[i].fd \in DOMAIN fds
    BY DEF Descriptors
  <2>2. \A fd \in DOMAIN fds : \E i \in Used : fd = file[i].fd
    BY DEF Descriptors
  <2> QED
    BY <2>1, <2>2
<1> QED
  BY <1>2, <1>7, <1>8, FS_Bijection

(* open() returns a descriptor that is not in use.                         *)
LEMMA NewFdIs ==
  ASSUME Descriptors, TypeOK
  PROVE  NewFd \in Nat /\ NewFd \notin DOMAIN fds
<1> DEFINE D == DOMAIN fds
           F == (0 .. Cardinality(D)) \ D
<1>1. IsFiniteSet(D)
  BY DescriptorsFinite
<1>2. Cardinality(D) \in Nat
  BY <1>1, FS_CardinalityType
<1>3. F # {}
  <2> SUFFICES ASSUME 0 .. Cardinality(D) \subseteq D PROVE FALSE
    OBVIOUS
  <2>1. Cardinality(0 .. Cardinality(D)) <= Cardinality(D)
    BY <1>1, FS_Subset
  <2>2. Cardinality(0 .. Cardinality(D)) = Cardinality(D) + 1
    BY <1>2, FS_Interval
  <2> QED
    BY <1>2, <2>1, <2>2
<1>4. F \subseteq Nat
  BY <1>2
<1>5. Min(F) \in F
  BY <1>3, <1>4, MinIs
<1> QED
  BY <1>4, <1>5 DEF NewFd
-----------------------------------------------------------------------------
(* The parts of the invariant.                                             *)

FileTypes ==
  /\ unix \in [HostName -> Seq(Nat) \cup {NoFile}] /\ ideal \in [Name -> Seq(Nat)]
  /\ DOMAIN fds \subseteq Nat /\ \A fd \in DOMAIN fds : fds[fd] \in HostName
  /\ DOMAIN file = Slot
  /\ \A i \in Slot : file[i] # NoFile => file[i] \in OpenFileType
  /\ at \in [Slot -> Nat]

Registers ==
  /\ status \in {"running", "halted", "overrun"} /\ text \in BOOLEAN /\ program \in {"files", "console"}
  /\ calls \in Nat /\ mem \in Seq(Nat) /\ input \in Seq(Nat)

Files == FileTypes /\ Descriptors /\ Offsets /\ FilesAsWritten

LEMMA Parts == Inv <=> Files /\ Registers /\ ReadDelivers
BY DEF Inv, Files, FileTypes, Registers, TypeOK

LEMMA FilesKept ==
  ASSUME Files, UNCHANGED <<unix, fds, file, ideal, at, text>>
  PROVE  Files'
<1>1. FileTypes /\ Descriptors /\ Offsets /\ FilesAsWritten
  BY DEF Files
<1>2. Used' = Used
  BY DEF Used
<1>3. FileTypes'
  BY <1>1 DEF FileTypes
<1>4. Descriptors'
  BY <1>1, <1>2 DEF Descriptors
<1>5. Offsets'
  BY <1>1, <1>2 DEF Offsets
<1>6. FilesAsWritten'
  BY <1>1 DEF FilesAsWritten
<1> QED
  BY <1>3, <1>4, <1>5, <1>6 DEF Files

LEMMA CallEffect ==
  ASSUME Registers, NEW kind, Call(kind)
  PROVE  status = "running" /\ text' = text /\ text' \in BOOLEAN /\ program' \in {"files", "console"}
         /\ calls' \in Nat
<1>1. calls \in Nat /\ calls' = calls + 1
  BY DEF Call, Registers
<1> QED
  BY <1>1 DEF Call, Registers

(* Only Read and ReadString claim to have delivered something.             *)
LEMMA NothingDelivered ==
  ASSUME last'.op \notin {"Read", "ReadString"}
  PROVE  ReadDelivers'
BY DEF ReadDelivers

(* A step that leaves the files alone and delivers nothing.                *)
LEMMA QuietStep ==
  ASSUME Inv, NEW kind, Call(kind), UNCHANGED fileVars,
         last'.op \notin {"Read", "ReadString"},
         status' \in {"running", "halted", "overrun"}, mem' \in Seq(Nat), input' \in Seq(Nat)
  PROVE  Inv'
<1>1. Files /\ Registers
  BY Parts
<1>2. /\ text' = text /\ text' \in BOOLEAN /\ program' \in {"files", "console"} /\ calls' \in Nat
  BY <1>1, CallEffect
<1>3. Files'
  BY <1>1, <1>2, FilesKept DEF fileVars
<1>4. Registers'
  BY <1>2 DEF Registers
<1>5. ReadDelivers'
  BY NothingDelivered
<1> QED
  BY <1>3, <1>4, <1>5 DEF Inv, Files, FileTypes, Registers, TypeOK

(* The steps that read the console or nothing.                             *)
LEMMA QuietSteps ==
  ASSUME Inv,
         \/ CreateNameless
         \/ \E id \in {0, 1}, type \in 0 .. 2 : OpenConsole(id, type)
         \/ \E id \in -1 .. NumSlots, n \in Count \cup {0} : ReadRefused(id, n) \/ WriteRefused(id, n)
         \/ \E data \in Data : WriteConsole(data) \/ PrintChar(data) \/ PrintString(data)
         \/ \E num \in Number : PrintNum(num) \/ RandomNum(num)
         \/ SC_Halt
  PROVE  Inv'
<1>1. /\ status \in {"running", "halted", "overrun"} /\ mem \in Seq(Nat) /\ input \in Seq(Nat)
  BY DEF Inv, TypeOK
<1>2. \A data \in Data : data \in Seq(Nat) /\ Append(data, 0) \in Seq(Nat)
  BY FileAssumption
<1>3. CASE CreateNameless
  BY <1>1, <1>3, QuietStep DEF CreateNameless
<1>4. CASE \E id \in {0, 1}, type \in 0 .. 2 : OpenConsole(id, type)
  BY <1>1, <1>4, QuietStep DEF OpenConsole
<1>5. CASE \E id \in -1 .. NumSlots, n \in Count \cup {0} : ReadRefused(id, n) \/ WriteRefused(id, n)
  BY <1>1, <1>5, QuietStep DEF ReadRefused, WriteRefused
<1>6. ASSUME NEW data \in Data, WriteConsole(data) \/ PrintChar(data) \/ PrintString(data)
      PROVE  Inv'
  <2>1. /\ Call("console") /\ UNCHANGED <<status, fileVars, input>>
        /\ mem' \in Seq(Nat) /\ last'.op = "Print"
    <3>1. \E c : last' = [op |-> "Print", chars |-> c]
      BY <1>6 DEF WriteConsole, PrintChar, PrintString
    <3>2. last'.op = "Print"
      BY <3>1
    <3>3. mem' = data \/ mem' = mem \/ mem' = Append(data, 0)
      BY <1>6 DEF WriteConsole, PrintChar, PrintString
    <3>4. mem' \in Seq(Nat)
      BY <1>1, <1>2, <3>3
    <3>5. Call("console") /\ UNCHANGED <<status, fileVars, input>>
      BY <1>6 DEF WriteConsole, PrintChar, PrintString
    <3> QED
      BY <3>2, <3>4, <3>5
  <2> QED
    BY <1>1, <2>1, QuietStep
<1>7. ASSUME NEW num \in Number, PrintNum(num) \/ RandomNum(num)
      PROVE  Inv'
  <2>1. /\ Call("console") /\ UNCHANGED <<mem, fileVars, input>>
        /\ status' \in {"running", "halted", "overrun"} /\ last'.op \in {"PrintNum", "RandomNum"}
    <3>1. CASE PrintNum(num)
      <4>1. /\ Call("console") /\ UNCHANGED <<mem, fileVars, input>>
            /\ last' = [op |-> "PrintNum", num |-> num, chars |-> Text(num)]
        BY <3>1 DEF PrintNum
      <4>2. status' = "overrun" \/ status' = status
        BY <3>1 DEF PrintNum
      <4>3. last'.op = "PrintNum"
        BY <4>1
      <4> QED
        BY <1>1, <4>1, <4>2, <4>3
    <3>2. CASE RandomNum(num)
      BY <1>1, <3>2 DEF RandomNum
    <3> QED
      BY <1>7, <3>1, <3>2
  <2> QED
    BY <1>1, <2>1, QuietStep
<1>8. CASE SC_Halt
  BY <1>1, <1>8, QuietStep DEF SC_Halt
<1> QED
  BY <1>3, <1>4, <1>5, <1>6, <1>7, <1>8

LEMMA ConsoleReads ==
  ASSUME Inv, ReadNum \/ ReadChar
  PROVE  Inv'
<1>1. PICK n \in Nat : ConsoleReady(n) /\ input' = ConsoleRest(n)
  BY FileAssumption DEF ReadNum, ReadChar
<1>2. /\ status \in {"running", "halted", "overrun"} /\ mem \in Seq(Nat) /\ input \in Seq(Nat)
  BY DEF Inv, TypeOK
<1>3. input' \in Seq(Nat)
  BY <1>1, <1>2, ConsoleIs
<1>4. /\ Call("console") /\ UNCHANGED fileVars /\ mem' = mem
      /\ status' \in {"running", "halted", "overrun"} /\ last'.op \in {"ReadNum", "ReadChar"}
  BY <1>2 DEF ReadNum, ReadChar
<1> QED
  BY <1>2, <1>3, <1>4, QuietStep

LEMMA AsciiIsNat ==
  ASSUME NEW s \in Seq(Ascii)
  PROVE  s \in Seq(Nat) /\ Len(s) \in Nat
<1>1. Ascii \subseteq Nat
  BY DEF Ascii
<1>2. Len(s) \in Nat /\ s = [i \in 1 .. Len(s) |-> s[i]] /\ \A i \in 1 .. Len(s) : s[i] \in Ascii
  OBVIOUS
<1>3. \A i \in 1 .. Len(s) : s[i] \in Nat
  BY <1>1, <1>2
<1>4. [i \in 1 .. Len(s) |-> s[i]] \in Seq(Nat)
  BY <1>2, <1>3
<1> QED
  BY <1>2, <1>4

LEMMA TypeStep ==
  ASSUME Inv, NEW line \in Line, NEW end \in {Newline, CtrlA}, Type(line, end)
  PROVE  Inv'
<1>1. input' \in Seq(Nat)
  <2>1. line \in Seq(Nat)
    BY FileAssumption, AsciiIsNat
  <2>2. end \in Nat
    BY DEF Newline, CtrlA
  <2> QED
    BY <2>1, <2>2 DEF Type
<1>2. UNCHANGED <<status, text, program, r2, mem, unix, fds, file, ideal, at, calls, last>>
  BY DEF Type, fileVars
<1>3. Files'
  BY <1>2, Parts, FilesKept
<1>4. Registers'
  BY <1>1, <1>2, Parts DEF Registers
<1>5. ReadDelivers'
  BY <1>2, Parts DEF ReadDelivers
<1> QED
  BY <1>3, <1>4, <1>5 DEF Inv, Files, FileTypes, Registers, TypeOK
-----------------------------------------------------------------------------
(* The steps that deliver.                                                 *)

LEMMA Delivers ==
  ASSUME mem \in Seq(Nat), NEW bytes \in Seq(Nat), last'.bytes = bytes,
         (bytes # <<>> /\ text' /\ status' = "running" /\ r2' # -1) =>
            /\ mem' = System2User(Append(bytes, 0))
            /\ last'.op = "Read" => r2' = Len(bytes)
  PROVE  ReadDelivers'
<1> SUFFICES ASSUME bytes # <<>>, text', status' = "running", r2' # -1,
                    0 \notin {bytes[i] : i \in DOMAIN bytes}
             PROVE  /\ Len(mem') > Len(bytes)
                    /\ SubSeq(mem', 1, Len(bytes) + 1) = Append(bytes, 0)
                    /\ last'.op = "Read" => r2' = Len(bytes)
  BY DEF ReadDelivers
<1>1. mem' = System2User(Append(bytes, 0)) /\ (last'.op = "Read" => r2' = Len(bytes))
  OBVIOUS
<1>2. /\ Len(System2User(Append(bytes, 0))) > Len(bytes)
      /\ SubSeq(System2User(Append(bytes, 0)), 1, Len(bytes) + 1) = Append(bytes, 0)
  BY System2UserIs
<1> QED
  BY <1>1, <1>2

(* The end of Read: the memory keeps its type, and the result says what it *)
(* holds.                                                                  *)
LEMMA ReturnsIs ==
  ASSUME mem \in Seq(Nat), NEW bytes \in Seq(Nat), NEW result,
         result = -1 \/ result = Len(bytes), Returns(bytes, result)
  PROVE  /\ mem' \in Seq(Nat)
         /\ bytes # <<>> /\ r2' # -1 => mem' = System2User(Append(bytes, 0)) /\ r2' = Len(bytes)
         /\ result = Len(bytes) /\ bytes # <<>> => r2' = Len(bytes)
         /\ result = Len(bytes) /\ bytes = <<>> => r2' = -2
<1>1. Len(bytes) \in Nat /\ (bytes # <<>> => Len(bytes) > 0) /\ (bytes = <<>> => Len(bytes) = 0)
  OBVIOUS
<1>2. System2User(Append(bytes, 0)) \in Seq(Nat)
  BY System2UserIs
<1>3. CASE result = -1
  <2>1. r2' = -1 /\ mem' = mem
    BY <1>3 DEF Returns
  <2> QED
    BY <1>1, <1>3, <2>1
<1>4. CASE result = Len(bytes) /\ bytes = <<>>
  <2>1. r2' = -2 /\ mem' = mem
    BY <1>1, <1>4 DEF Returns
  <2> QED
    BY <1>1, <1>4, <2>1
<1>5. CASE result = Len(bytes) /\ bytes # <<>>
  <2>1. r2' = Len(bytes) /\ mem' = System2User(Append(bytes, 0))
    BY <1>1, <1>5 DEF Returns
  <2> QED
    BY <1>1, <1>2, <1>5, <2>1
<1> QED
  BY <1>3, <1>4, <1>5

LEMMA ReadConsoleStep ==
  ASSUME Inv, NEW n \in Count, ReadConsole(n)
  PROVE  Inv'
<1>1. Files /\ Registers /\ mem \in Seq(Nat) /\ input \in Seq(Nat) /\ n \in Nat
  BY Parts, FileAssumption DEF Registers
<1>2. /\ Call("console") /\ ConsoleReady(n) /\ Returns(ConsoleChars(n), ConsoleResult(n))
      /\ input' = ConsoleRest(n) /\ last' = [op |-> "Read", bytes |-> ConsoleChars(n)]
      /\ UNCHANGED <<status, unix, fds, file, ideal, at>>
  BY DEF ReadConsole, fileVars
<1>3. /\ ConsoleChars(n) \in Seq(Nat) /\ ConsoleRest(n) \in Seq(Nat)
      /\ ConsoleResult(n) = -1 \/ ConsoleResult(n) = Len(ConsoleChars(n))
  BY <1>1, <1>2, ConsoleIs
<1>4. PICK bytes \in Seq(Nat) : bytes = ConsoleChars(n)
  BY <1>3
<1>5. /\ text' = text /\ text' \in BOOLEAN /\ program' \in {"files", "console"} /\ calls' \in Nat
  BY <1>1, <1>2, CallEffect
<1>6. /\ mem' \in Seq(Nat)
      /\ bytes # <<>> /\ r2' # -1 => mem' = System2User(Append(bytes, 0)) /\ r2' = Len(bytes)
  BY <1>1, <1>2, <1>3, <1>4, ReturnsIs
<1>7. last'.bytes = bytes
  BY <1>2, <1>4
<1>8. ReadDelivers'
  BY <1>1, <1>6, <1>7, Delivers
<1>9. Files'
  BY <1>1, <1>2, <1>5, FilesKept
<1>10. Registers'
  BY <1>1, <1>2, <1>3, <1>5, <1>6 DEF Registers
<1> QED
  BY <1>8, <1>9, <1>10 DEF Inv, Files, FileTypes, Registers, TypeOK

LEMMA ReadStringStep ==
  ASSUME Inv, NEW n \in Count \cup {0}, ReadString(n)
  PROVE  Inv'
<1>1. Files /\ Registers /\ mem \in Seq(Nat) /\ input \in Seq(Nat) /\ n \in Nat
      /\ status \in {"running", "halted", "overrun"}
  BY Parts, FileAssumption DEF Registers
<1>2. Call("console") /\ UNCHANGED <<unix, fds, file, ideal, at>>
  BY DEF ReadString, fileVars
<1>3. /\ text' = text /\ text' \in BOOLEAN /\ program' \in {"files", "console"} /\ calls' \in Nat
  BY <1>1, <1>2, CallEffect
<1>4. Files'
  BY <1>1, <1>2, <1>3, FilesKept
<1>5. CASE n <= 0
  <2>1. status' = "halted" /\ last' = [op |-> "halted"] /\ UNCHANGED <<mem, input>>
    BY <1>5 DEF ReadString
  <2>2. last'.op \notin {"Read", "ReadString"}
    BY <2>1
  <2>3. ReadDelivers'
    BY <2>2, NothingDelivered
  <2>4. Registers'
    BY <1>1, <1>3, <2>1 DEF Registers
  <2> QED
    BY <1>4, <2>3, <2>4 DEF Inv, Files, FileTypes, Registers, TypeOK
<1>6. CASE ~(n <= 0)
  <2>1. /\ ConsoleReady(n) /\ input' = ConsoleRest(n)
        /\ mem' = IF ConsoleResult(n) > 0 THEN System2User(Append(ConsoleChars(n), 0)) ELSE mem
        /\ last' = [op |-> "ReadString",
                    bytes |-> IF ConsoleResult(n) > 0 THEN ConsoleChars(n) ELSE <<>>]
    BY <1>1, <1>6 DEF ReadString
  <2>2. status' = "halted" \/ status' = status
    BY <1>6 DEF ReadString
  <2>3. ConsoleChars(n) \in Seq(Nat) /\ input' \in Seq(Nat)
    BY <1>1, <2>1, ConsoleIs
  <2>4. System2User(Append(ConsoleChars(n), 0)) \in Seq(Nat)
    BY <1>1, <2>3, System2UserIs
  <2>5. PICK bytes \in Seq(Nat) : bytes = IF ConsoleResult(n) > 0 THEN ConsoleChars(n) ELSE <<>>
    <3>1. (IF ConsoleResult(n) > 0 THEN ConsoleChars(n) ELSE <<>>) \in Seq(Nat)
      BY <2>3
    <3> QED
      BY <3>1
  <2>6. /\ mem' \in Seq(Nat) /\ last'.bytes = bytes /\ last'.op # "Read"
        /\ bytes # <<>> => mem' = System2User(Append(bytes, 0))
    BY <1>1, <2>1, <2>4, <2>5
  <2>7. ReadDelivers'
    BY <1>1, <2>6, Delivers
  <2>8. Registers'
    BY <1>1, <1>3, <2>2, <2>3, <2>6 DEF Registers
  <2> QED
    BY <1>4, <2>7, <2>8 DEF Inv, Files, FileTypes, Registers, TypeOK
<1> QED
  BY <1>5, <1>6
-----------------------------------------------------------------------------
(* The steps that change files and descriptors.                            *)

LEMMA NamesAreHostNames == /\ \A n \in Name : n \in HostName /\ n \notin {"stdin", "stdout"}
                           /\ <<>> # NoFile /\ <<>> \in Seq(Nat)
<1>1. {"stdin", "stdout"} \cap Name = {}
  BY FileAssumption
<1>2. \A n \in Name : n \in HostName /\ n \notin {"stdin", "stdout"}
  BY <1>1 DEF HostName
<1>3. <<>> \in Seq(Nat)
  OBVIOUS
<1>4. NoFile \notin Seq(Nat)
  BY FileAssumption
<1> QED
  BY <1>2, <1>3, <1>4

(* The rest of the state of a step that is not about the console.          *)
LEMMA FileStepRest ==
  ASSUME Registers, Files', Call("files"), UNCHANGED <<status, input>>, mem' \in Seq(Nat), ReadDelivers'
  PROVE  Inv'
<1>1. /\ text' = text /\ text' \in BOOLEAN /\ program' \in {"files", "console"} /\ calls' \in Nat
  BY CallEffect
<1>2. Registers'
  BY <1>1 DEF Registers
<1> QED
  BY <1>2 DEF Inv, Files, FileTypes, Registers, TypeOK

LEMMA CreateFileStep ==
  ASSUME Inv, NEW n \in Name, CreateFile(n)
  PROVE  Inv'
<1>1. Files /\ Registers /\ FileTypes /\ Descriptors /\ Offsets /\ FilesAsWritten /\ mem \in Seq(Nat)
  BY Parts DEF Files, Registers
<1>2. /\ Call("files") /\ unix' = [unix EXCEPT ![n] = <<>>] /\ ideal' = [ideal EXCEPT ![n] = <<>>]
      /\ last' = [op |-> "CreateFile"] /\ UNCHANGED <<status, mem, fds, file, input, at>>
  BY DEF CreateFile, OpenForWrite
<1>3. n \in HostName /\ <<>> # NoFile /\ <<>> \in Seq(Nat)
  BY NamesAreHostNames
<1>4. unix \in [HostName -> Seq(Nat) \cup {NoFile}] /\ ideal \in [Name -> Seq(Nat)]
  BY <1>1 DEF FileTypes
<1>5. unix' \in [HostName -> Seq(Nat) \cup {NoFile}] /\ ideal' \in [Name -> Seq(Nat)]
  BY <1>2, <1>3, <1>4
<1>6. /\ unix'[n] = <<>> /\ ideal'[n] = <<>>
      /\ \A m \in HostName : m # n => unix'[m] = unix[m]
      /\ \A m \in Name : m # n => ideal'[m] = ideal[m]
  BY <1>2, <1>3, <1>4
<1>7. Used' = Used
  BY <1>2 DEF Used
<1>8. FileTypes'
  BY <1>1, <1>2, <1>5 DEF FileTypes
<1>9. Descriptors'
  BY <1>1, <1>2, <1>7 DEF Descriptors
<1>10. Offsets'
  <2>1. \A fd \in DOMAIN fds : fds[fd] \in HostName /\ unix[fds[fd]] # NoFile
    BY <1>1 DEF FileTypes, Offsets
  <2>2. \A fd \in DOMAIN fds : unix'[fds[fd]] # NoFile
    BY <1>3, <1>6, <2>1
  <2> QED
    BY <1>1, <1>2, <1>7, <2>2 DEF Offsets
<1>11. FilesAsWritten'
  <2>1. text' = text
    BY <1>1, <1>2, CallEffect
  <2> SUFFICES ASSUME NEW m \in Name, unix'[m] # NoFile
               PROVE  Len(unix'[m]) = Len(ideal'[m]) /\ (text' => unix'[m] = ideal'[m])
    BY DEF FilesAsWritten
  <2>2. CASE m = n
    BY <1>6, <2>2
  <2>3. CASE m # n
    <3>1. unix'[m] = unix[m] /\ ideal'[m] = ideal[m]
      BY <1>6, <2>3, NamesAreHostNames
    <3> QED
      BY <1>1, <2>1, <3>1 DEF FilesAsWritten
  <2> QED
    BY <2>2, <2>3
<1>12. Files'
  BY <1>8, <1>9, <1>10, <1>11 DEF Files
<1>13. ReadDelivers'
  <2>1. last'.op \notin {"Read", "ReadString"}
    BY <1>2
  <2> QED
    BY <2>1, NothingDelivered
<1> QED
  BY <1>1, <1>2, <1>12, <1>13, FileStepRest

LEMMA OpenStep ==
  ASSUME Inv, NEW n \in Name, NEW type \in 0 .. 2, Open(n, type)
  PROVE  Inv'
<1>1. Files /\ Registers /\ FileTypes /\ Descriptors /\ Offsets /\ FilesAsWritten
      /\ mem \in Seq(Nat) /\ TypeOK
  BY Parts DEF Files, Registers, Inv
<1>2. /\ Call("files") /\ last' = [op |-> "Open"] /\ UNCHANGED <<status, mem, unix, input, ideal>>
  BY DEF Open
<1>3. text' = text
  BY <1>1, <1>2, CallEffect
<1>4. ReadDelivers'
  <2>1. last'.op \notin {"Read", "ReadString"}
    BY <1>2
  <2> QED
    BY <2>1, NothingDelivered
<1>5. CASE OpenFails
  <2>1. Files'
    BY <1>1, <1>2, <1>3, <1>5, FilesKept DEF OpenFails
  <2> QED
    BY <1>1, <1>2, <1>4, <2>1, FileStepRest
<1>6. CASE FreeSlot # {} /\ unix[n] # NoFile /\ OpenAt(n, type, Min(FreeSlot))
  <2>1. FreeSlot \subseteq Nat
    BY FileAssumption DEF FreeSlot, Slot
  <2>2. PICK index \in FreeSlot : index = Min(FreeSlot)
    BY <1>6, <2>1, MinIs
  <2>3. index \in Slot /\ file[index] = NoFile /\ Slot \cup {index} = Slot
    BY DEF FreeSlot
  <2>4. PICK new \in Nat : new = NewFd /\ new \notin DOMAIN fds
    BY <1>1, NewFdIs
  <2>5. /\ fds' = [fd \in DOMAIN fds \cup {new} |-> IF fd = new THEN n ELSE fds[fd]]
        /\ file' = [i \in Slot |-> IF i = index THEN OpenFile(new, type) ELSE file[i]]
        /\ at' = [i \in Slot |-> IF i = index THEN 0 ELSE at[i]]
    BY <1>6, <2>2, <2>3, <2>4 DEF OpenAt
  <2>6. /\ DOMAIN fds' = DOMAIN fds \cup {new} /\ fds'[new] = n
        /\ \A fd \in DOMAIN fds : fds'[fd] = fds[fd]
    BY <2>4, <2>5
  <2> DEFINE f == OpenFile(new, type)
  <2>7. f \in OpenFileType /\ f.fd = new /\ f.currentOffset = 0
    BY DEF OpenFile, OpenFileType
  <2>8. f # NoFile
    BY <2>7, FileAssumption
  <2> HIDE DEF f
  <2>9. /\ DOMAIN file' = Slot /\ file'[index] = f
        /\ \A i \in Slot : i # index => file'[i] = file[i]
    BY <2>3, <2>5 DEF f
  <2>10. at \in [Slot -> Nat] /\ at' \in [Slot -> Nat] /\ at'[index] = 0
         /\ \A i \in Slot : i # index => at'[i] = at[i]
    BY <1>1, <2>3, <2>5 DEF FileTypes
  <2>11. Used' = Used \cup {index} /\ index \notin Used
    BY <2>3, <2>8, <2>9 DEF Used
  <2>12. \A i \in Used : i # index /\ file'[i] = file[i] /\ i \in Slot
    BY <2>9, <2>11 DEF Used
  <2>13. FileTypes'
    <3>1. DOMAIN fds' \subseteq Nat /\ \A fd \in DOMAIN fds' : fds'[fd] \in HostName
      BY <1>1, <2>4, <2>6, NamesAreHostNames DEF FileTypes
    <3>2. \A i \in Slot : file'[i] # NoFile => file'[i] \in OpenFileType
      BY <1>1, <2>7, <2>9 DEF FileTypes
    <3> QED
      BY <1>1, <1>2, <2>9, <2>10, <3>1, <3>2 DEF FileTypes
  <2>14. Descriptors'
    <3>1. {0, 1} \subseteq Used'
      BY <1>1, <2>11 DEF Descriptors
    <3>2. \A i \in Used' : file'[i].fd \in DOMAIN fds'
      BY <1>1, <2>6, <2>7, <2>9, <2>11, <2>12 DEF Descriptors
    <3>3. \A fd \in DOMAIN fds' : \E i \in Used' : file'[i].fd = fd
      BY <1>1, <2>6, <2>7, <2>9, <2>11, <2>12 DEF Descriptors
    <3>4. \A i \in Used : file'[i].fd # new
      BY <1>1, <2>4, <2>12 DEF Descriptors
    <3>5. \A i, j \in Used' : file'[i].fd = file'[j].fd => i = j
      BY <1>1, <2>7, <2>9, <2>11, <2>12, <3>4 DEF Descriptors
    <3> QED
      BY <3>1, <3>2, <3>3, <3>5 DEF Descriptors
  <2>15. Offsets'
    <3>1. \A fd \in DOMAIN fds' : unix[fds'[fd]] # NoFile
      BY <1>1, <1>6, <2>6 DEF Offsets
    <3>2. \A i \in Used \ {0, 1} : fds'[file'[i].fd] \in Name /\ file'[i].currentOffset = at'[i]
      <4> SUFFICES ASSUME NEW i \in Used \ {0, 1}
                   PROVE  fds'[file'[i].fd] \in Name /\ file'[i].currentOffset = at'[i]
        OBVIOUS
      <4>1. file[i].fd \in DOMAIN fds /\ fds[file[i].fd] \in Name /\ file[i].currentOffset = at[i]
        BY <1>1 DEF Offsets, Descriptors
      <4>2. file'[i] = file[i] /\ at'[i] = at[i]
        BY <2>10, <2>12
      <4> QED
        BY <2>6, <4>1, <4>2
    <3>3. fds'[file'[index].fd] \in Name /\ file'[index].currentOffset = at'[index]
      BY <2>6, <2>7, <2>9, <2>10
    <3> QED
      BY <1>2, <2>11, <3>1, <3>2, <3>3 DEF Offsets
  <2>16. FilesAsWritten'
    BY <1>1, <1>2, <1>3 DEF FilesAsWritten
  <2>17. Files'
    BY <2>13, <2>14, <2>15, <2>16 DEF Files
  <2> QED
    BY <1>1, <1>2, <1>4, <2>17, FileStepRest
<1> QED
  BY <1>5, <1>6 DEF Open, OpenForReadWrite

LEMMA CloseStep ==
  ASSUME Inv, NEW id \in -1 .. NumSlots, Close(id)
  PROVE  Inv'
<1>1. Files /\ Registers /\ FileTypes /\ Descriptors /\ Offsets /\ FilesAsWritten /\ mem \in Seq(Nat)
  BY Parts DEF Files, Registers
<1>2. /\ Call("files") /\ last' = [op |-> "Close"] /\ UNCHANGED <<status, mem, unix, input, ideal, at>>
  BY DEF Close
<1>3. text' = text
  BY <1>1, <1>2, CallEffect
<1>4. ReadDelivers'
  <2>1. last'.op \notin {"Read", "ReadString"}
    BY <1>2
  <2> QED
    BY <2>1, NothingDelivered
<1>5. CASE UNCHANGED <<fds, file>>
  <2>1. Files'
    BY <1>1, <1>2, <1>3, <1>5, FilesKept
  <2> QED
    BY <1>1, <1>2, <1>4, <2>1, FileStepRest
<1>6. CASE ~(id < 2 \/ id > NumSlots - 1) /\ file[id] # NoFile /\ CloseSlot(id)
  <2>1. id \in Slot /\ id \notin {0, 1}
    BY <1>6, FileAssumption DEF Slot
  <2>2. id \in Used
    BY <1>6, <2>1 DEF Used
  <2>3. PICK old : old = file[id].fd
    OBVIOUS
  <2>4. /\ fds' = [fd \in DOMAIN fds \ {old} |-> fds[fd]]
        /\ file' = [file EXCEPT ![id] = NoFile]
    BY <1>6, <2>3 DEF CloseSlot
  <2>5. /\ DOMAIN fds' = DOMAIN fds \ {old}
        /\ \A fd \in DOMAIN fds' : fds'[fd] = fds[fd]
    BY <2>4
  <2>6. /\ DOMAIN file' = Slot /\ file'[id] = NoFile
        /\ \A i \in Slot : i # id => file'[i] = file[i]
    BY <1>1, <2>1, <2>4 DEF FileTypes
  <2>7. Used' = Used \ {id}
    BY <2>1, <2>6 DEF Used
  <2>8. \A i \in Used' : i \in Used /\ i # id /\ file'[i] = file[i]
    BY <2>6, <2>7 DEF Used
  <2>9. \A i \in Used : i # id => file[i].fd # old
    BY <1>1, <2>2, <2>3 DEF Descriptors
  <2>10. FileTypes'
    <3>1. DOMAIN fds' \subseteq Nat /\ \A fd \in DOMAIN fds' : fds'[fd] \in HostName
      BY <1>1, <2>5 DEF FileTypes
    <3>2. \A i \in Slot : file'[i] # NoFile => file'[i] \in OpenFileType
      BY <1>1, <2>6 DEF FileTypes
    <3> QED
      BY <1>1, <1>2, <2>6, <3>1, <3>2 DEF FileTypes
  <2>11. Descriptors'
    <3>1. {0, 1} \subseteq Used'
      BY <1>1, <2>1, <2>7 DEF Descriptors
    <3>2. \A i \in Used' : file'[i].fd \in DOMAIN fds'
      BY <1>1, <2>5, <2>8, <2>9 DEF Descriptors
    <3>3. \A fd \in DOMAIN fds' : \E i \in Used' : file'[i].fd = fd
      <4> SUFFICES ASSUME NEW fd \in DOMAIN fds' PROVE \E i \in Used' : file'[i].fd = fd
        OBVIOUS
      <4>1. fd \in DOMAIN fds /\ fd # old
        BY <2>5
      <4>2. PICK i \in Used : file[i].fd = fd
        BY <1>1, <4>1 DEF Descriptors
      <4>3. i # id /\ i \in Used'
        BY <2>3, <2>7, <4>1, <4>2
      <4> QED
        BY <2>8, <4>2, <4>3
    <3>4. \A i, j \in Used' : file'[i].fd = file'[j].fd => i = j
      BY <1>1, <2>8 DEF Descriptors
    <3> QED
      BY <3>1, <3>2, <3>3, <3>4 DEF Descriptors
  <2>12. Offsets'
    <3>1. \A fd \in DOMAIN fds' : unix[fds'[fd]] # NoFile
      BY <1>1, <2>5 DEF Offsets
    <3>2. \A i \in Used' \ {0, 1} : fds'[file'[i].fd] \in Name /\ file'[i].currentOffset = at[i]
      <4> SUFFICES ASSUME NEW i \in Used' \ {0, 1}
                   PROVE  fds'[file'[i].fd] \in Name /\ file'[i].currentOffset = at[i]
        OBVIOUS
      <4>1. i \in Used \ {0, 1} /\ i # id /\ file'[i] = file[i]
        BY <2>8
      <4>2. file[i].fd \in DOMAIN fds /\ fds[file[i].fd] \in Name /\ file[i].currentOffset = at[i]
        BY <1>1, <4>1 DEF Offsets, Descriptors
      <4>3. file[i].fd \in DOMAIN fds'
        BY <2>5, <2>9, <4>1, <4>2
      <4> QED
        BY <2>5, <4>1, <4>2, <4>3
    <3> QED
      BY <1>2, <3>1, <3>2 DEF Offsets
  <2>13. FilesAsWritten'
    BY <1>1, <1>2, <1>3 DEF FilesAsWritten
  <2>14. Files'
    BY <2>10, <2>11, <2>12, <2>13 DEF Files
  <2> QED
    BY <1>1, <1>2, <1>4, <2>14, FileStepRest
<1> QED
  BY <1>5, <1>6 DEF Close

(* The offset of an open file advances.                                    *)
LEMMA Advance ==
  ASSUME FileTypes, NEW id \in Used, NEW d \in Nat,
         file' = [file EXCEPT ![id].currentOffset = file[id].currentOffset + d]
  PROVE  /\ DOMAIN file' = Slot /\ Used' = Used
         /\ file'[id].currentOffset = file[id].currentOffset + d
         /\ \A i \in Slot : /\ file'[i] # NoFile => file'[i] \in OpenFileType
                            /\ i # id => file'[i] = file[i]
         /\ \A i \in Used : file'[i].fd = file[i].fd
<1> DEFINE g == [file[id] EXCEPT !.currentOffset = file[id].currentOffset + d]
<1>1. id \in Slot /\ file[id] # NoFile /\ file[id] \in OpenFileType /\ DOMAIN file = Slot
      /\ \A i \in Slot : file[i] # NoFile => file[i] \in OpenFileType
  BY DEF FileTypes, Used
<1>2. g \in OpenFileType /\ g.fd = file[id].fd /\ g.currentOffset = file[id].currentOffset + d
  BY <1>1 DEF OpenFileType
<1>3. g # NoFile
  BY <1>2, FileAssumption
<1>4. file' = [file EXCEPT ![id] = g]
  OBVIOUS
<1> HIDE DEF g
<1>5. DOMAIN file' = Slot /\ file'[id] = g /\ \A i \in Slot : i # id => file'[i] = file[i]
  BY <1>1, <1>4
<1>6. Used' = Used
  BY <1>1, <1>3, <1>5 DEF Used
<1>7. \A i \in Used : file'[i].fd = file[i].fd
  BY <1>2, <1>5 DEF Used
<1> QED
  BY <1>1, <1>2, <1>5, <1>6, <1>7

(* The host's descriptors keep their types while nothing opens or closes.  *)
LEMMA SameDescriptors ==
  ASSUME FileTypes, fds' = fds
  PROVE  DOMAIN fds' \subseteq Nat /\ \A fd \in DOMAIN fds' : fds'[fd] \in HostName
<1>1. DOMAIN fds \subseteq Nat /\ \A fd \in DOMAIN fds : fds[fd] \in HostName
  BY DEF FileTypes
<1> QED
  BY <1>1

(* What stays of the descriptors when one offset advances as the program   *)
(* believes.                                                               *)
LEMMA AdvanceKeeps ==
  ASSUME FileTypes, Descriptors, Offsets, NEW id \in Used, NEW d \in Nat, fds' = fds,
         file' = [file EXCEPT ![id].currentOffset = file[id].currentOffset + d],
         at' = [at EXCEPT ![id] = at[id] + d],
         unix' \in [HostName -> Seq(Nat) \cup {NoFile}], ideal' \in [Name -> Seq(Nat)],
         \A n \in HostName : unix[n] # NoFile => unix'[n] # NoFile
  PROVE  FileTypes' /\ Descriptors' /\ Offsets'
<1>1. /\ DOMAIN file' = Slot /\ Used' = Used
      /\ file'[id].currentOffset = file[id].currentOffset + d
      /\ \A i \in Slot : /\ file'[i] # NoFile => file'[i] \in OpenFileType
                         /\ i # id => file'[i] = file[i]
      /\ \A i \in Used : file'[i].fd = file[i].fd
  BY Advance
<1>2. id \in Slot /\ at \in [Slot -> Nat]
  BY DEF FileTypes, Used
<1>3. at[id] + d \in Nat
  BY <1>2
<1>4. at' \in [Slot -> Nat] /\ at'[id] = at[id] + d /\ \A i \in Slot : i # id => at'[i] = at[i]
  BY <1>2, <1>3
<1>5. FileTypes'
  <2>1. DOMAIN fds' \subseteq Nat /\ \A fd \in DOMAIN fds' : fds'[fd] \in HostName
    BY SameDescriptors
  <2>2. DOMAIN file' = Slot /\ \A i \in Slot : file'[i] # NoFile => file'[i] \in OpenFileType
    BY <1>1
  <2>3. at' \in [Slot -> Nat]
    BY <1>4
  <2> QED
    BY <2>1, <2>2, <2>3 DEF FileTypes
<1>6. Descriptors'
  BY <1>1 DEF Descriptors
<1>7. Offsets'
  <2>1. \A fd \in DOMAIN fds : unix'[fds[fd]] # NoFile
    BY DEF Offsets, FileTypes
  <2>2. \A i \in Used \ {0, 1} : fds[file'[i].fd] \in Name /\ file'[i].currentOffset = at'[i]
    <3> SUFFICES ASSUME NEW i \in Used \ {0, 1}
                 PROVE  fds[file'[i].fd] \in Name /\ file'[i].currentOffset = at'[i]
      OBVIOUS
    <3>1. fds[file[i].fd] \in Name /\ file[i].currentOffset = at[i] /\ i \in Slot
      BY DEF Offsets, Used
    <3> QED
      BY <1>1, <1>4, <3>1
  <2> QED
    BY <1>1, <2>1, <2>2 DEF Offsets
<1> QED
  BY <1>5, <1>6, <1>7

LEMMA ReadFileStep ==
  ASSUME Inv, NEW id \in Slot, NEW n \in Count, ReadFile(id, n)
  PROVE  Inv'
<1>1. Files /\ Registers /\ FileTypes /\ Descriptors /\ Offsets /\ FilesAsWritten /\ mem \in Seq(Nat)
  BY Parts DEF Files, Registers
<1>2. PICK name : name = fds[file[id].fd]
  OBVIOUS
<1>3. PICK bytes : bytes = ReadPartial(unix[name], file[id].currentOffset, n)
  OBVIOUS
<1>4. /\ Call("files") /\ id \in Readable \ {0} /\ Returns(bytes, Len(bytes))
      /\ file' = [file EXCEPT ![id].currentOffset = file[id].currentOffset + Len(bytes)]
      /\ at' = [at EXCEPT ![id] = at[id] + (IF r2' > 0 THEN r2' ELSE 0)]
      /\ last' = [op |-> "Read", bytes |-> ReadPartial(ideal[name], at[id], n)]
      /\ UNCHANGED <<status, unix, fds, input, ideal>>
  BY <1>2, <1>3 DEF ReadFile
<1>5. id \in Used /\ id \notin {0, 1}
  BY <1>4 DEF Readable, Used
<1>6. /\ name \in Name /\ unix[name] # NoFile /\ file[id].currentOffset = at[id] /\ name \in HostName
  BY <1>1, <1>2, <1>5, NamesAreHostNames DEF Offsets, Descriptors
<1>7. /\ unix[name] \in Seq(Nat) /\ ideal[name] \in Seq(Nat) /\ at[id] \in Nat /\ n \in Nat
  BY <1>1, <1>6, FileAssumption DEF FileTypes
<1>8. bytes \in Seq(Nat) /\ ReadPartial(ideal[name], at[id], n) \in Seq(Nat)
  BY <1>3, <1>6, <1>7, ReadPartialIs
<1>9. /\ mem' \in Seq(Nat)
      /\ bytes # <<>> /\ r2' # -1 => mem' = System2User(Append(bytes, 0)) /\ r2' = Len(bytes)
      /\ bytes # <<>> => r2' = Len(bytes)
      /\ bytes = <<>> => r2' = -2
  BY <1>1, <1>4, <1>8, ReturnsIs
<1>10. Len(bytes) \in Nat /\ (IF r2' > 0 THEN r2' ELSE 0) = Len(bytes)
  <2>1. Len(bytes) \in Nat /\ (bytes # <<>> => Len(bytes) > 0) /\ (bytes = <<>> => Len(bytes) = 0)
    BY <1>8
  <2>2. CASE bytes = <<>>
    BY <1>9, <2>1, <2>2
  <2>3. CASE bytes # <<>>
    BY <1>9, <2>1, <2>3
  <2> QED
    BY <2>1, <2>2, <2>3
<1>11. /\ unix' \in [HostName -> Seq(Nat) \cup {NoFile}] /\ ideal' \in [Name -> Seq(Nat)]
       /\ \A m \in HostName : unix[m] # NoFile => unix'[m] # NoFile
  BY <1>1, <1>4 DEF FileTypes
<1>12. FileTypes' /\ Descriptors' /\ Offsets'
  <2>1. at' = [at EXCEPT ![id] = at[id] + Len(bytes)]
    BY <1>4, <1>10
  <2> QED
    BY <1>1, <1>4, <1>5, <1>10, <1>11, <2>1, AdvanceKeeps
<1>13. text' = text
  BY <1>1, <1>4, CallEffect
<1>14. FilesAsWritten'
  BY <1>1, <1>4, <1>13 DEF FilesAsWritten
<1>15. ReadDelivers'
  <2>1. PICK rd \in Seq(Nat) : rd = ReadPartial(ideal[name], at[id], n)
    BY <1>8
  <2>2. last'.bytes = rd
    BY <1>4, <2>1
  <2>3. ASSUME text' PROVE rd = bytes
    <3>1. unix[name] = ideal[name]
      BY <1>1, <1>6, <1>13, <2>3 DEF FilesAsWritten
    <3> QED
      BY <1>3, <1>6, <2>1, <3>1
  <2>4. (rd # <<>> /\ text' /\ status' = "running" /\ r2' # -1) =>
           mem' = System2User(Append(rd, 0)) /\ (last'.op = "Read" => r2' = Len(rd))
    BY <1>9, <2>3
  <2> QED
    BY <1>1, <2>2, <2>4, Delivers
<1>16. Files'
  BY <1>12, <1>14 DEF Files
<1> QED
  BY <1>1, <1>4, <1>9, <1>15, <1>16, FileStepRest

LEMMA WriteDataStep ==
  ASSUME Inv, NEW id \in Slot, NEW data \in Data, WriteData(id, data)
  PROVE  Inv'
<1>1. Files /\ Registers /\ FileTypes /\ Descriptors /\ Offsets /\ FilesAsWritten /\ mem \in Seq(Nat)
  BY Parts DEF Files, Registers
<1>2. PICK name : name = fds[file[id].fd]
  OBVIOUS
<1>3. PICK p : p = file[id].currentOffset
  OBVIOUS
<1>4. PICK from : from = User2System(data, Len(data))
  OBVIOUS
<1>5. /\ Call("files") /\ id \in Writable \ {1} /\ Allowed(data) /\ mem' = data
      /\ unix' = [unix EXCEPT ![name] = WriteFile(unix[name], p, from)]
      /\ file' = [file EXCEPT ![id].currentOffset = file[id].currentOffset + Len(data)]
      /\ ideal' = [ideal EXCEPT ![name] = WriteFile(ideal[name], at[id], data)]
      /\ at' = [at EXCEPT ![id] = at[id] + Len(data)]
      /\ last' = [op |-> "Write"]
      /\ UNCHANGED <<status, fds, input>>
  BY <1>2, <1>3, <1>4 DEF WriteData
<1>6. id \in Used /\ id \notin {0, 1}
  BY <1>5 DEF Writable, Used
<1>7. /\ name \in Name /\ unix[name] # NoFile /\ p = at[id] /\ name \in HostName
  BY <1>1, <1>2, <1>3, <1>6, NamesAreHostNames DEF Offsets, Descriptors
<1>8. /\ unix[name] \in Seq(Nat) /\ ideal[name] \in Seq(Nat) /\ at[id] \in Nat
  BY <1>1, <1>7 DEF FileTypes
<1>9. data \in Seq(Nat) /\ Len(data) \in Nat
  BY FileAssumption
<1>10. /\ from \in Seq(Nat) /\ Len(from) = Len(data)
       /\ 0 \notin {data[i] : i \in DOMAIN data} => from = data
  BY <1>4, <1>9, User2SystemIs
<1> DEFINE u == WriteFile(unix[name], p, from)
           v == WriteFile(ideal[name], p, data)
<1>11. u \in Seq(Nat) /\ Len(u) = Max({Len(unix[name]), p + Len(from)})
  BY <1>7, <1>8, <1>10, WriteFileIs
<1>12. v \in Seq(Nat) /\ Len(v) = Max({Len(ideal[name]), p + Len(data)})
  BY <1>7, <1>8, <1>9, WriteFileIs
<1>13. Len(u) = Len(v)
  <2>1. Len(unix[name]) = Len(ideal[name])
    BY <1>1, <1>7 DEF FilesAsWritten
  <2> QED
    BY <1>10, <1>11, <1>12, <2>1
<1>14. text' = text
  BY <1>1, <1>5, CallEffect
<1>15. ASSUME text' PROVE u = v
  <2>1. unix[name] = ideal[name]
    BY <1>1, <1>7, <1>14, <1>15 DEF FilesAsWritten
  <2>2. from = data
    BY <1>5, <1>10, <1>14, <1>15 DEF Allowed
  <2> QED
    BY <2>1, <2>2
<1>16. u # NoFile
  BY <1>11, FileAssumption
<1>17. unix' = [unix EXCEPT ![name] = u] /\ ideal' = [ideal EXCEPT ![name] = v]
  BY <1>5, <1>7
<1> HIDE DEF u, v
<1>18. unix \in [HostName -> Seq(Nat) \cup {NoFile}] /\ ideal \in [Name -> Seq(Nat)]
  BY <1>1 DEF FileTypes
<1>19. unix' \in [HostName -> Seq(Nat) \cup {NoFile}] /\ ideal' \in [Name -> Seq(Nat)]
  BY <1>7, <1>11, <1>12, <1>17, <1>18
<1>20. /\ unix'[name] = u /\ ideal'[name] = v
       /\ \A m \in HostName : m # name => unix'[m] = unix[m]
       /\ \A m \in Name : m # name => ideal'[m] = ideal[m]
  BY <1>7, <1>17, <1>18
<1>21. \A m \in HostName : unix[m] # NoFile => unix'[m] # NoFile
  BY <1>16, <1>20
<1>22. FileTypes' /\ Descriptors' /\ Offsets'
  BY <1>1, <1>5, <1>6, <1>9, <1>19, <1>21, AdvanceKeeps
<1>23. FilesAsWritten'
  <2> SUFFICES ASSUME NEW m \in Name, unix'[m] # NoFile
               PROVE  Len(unix'[m]) = Len(ideal'[m]) /\ (text' => unix'[m] = ideal'[m])
    BY DEF FilesAsWritten
  <2>1. CASE m = name
    BY <1>13, <1>15, <1>20, <2>1
  <2>2. CASE m # name
    <3>1. unix'[m] = unix[m] /\ ideal'[m] = ideal[m]
      BY <1>20, <2>2, NamesAreHostNames
    <3> QED
      BY <1>1, <1>14, <3>1 DEF FilesAsWritten
  <2> QED
    BY <2>1, <2>2
<1>24. ReadDelivers'
  <2>1. last'.op \notin {"Read", "ReadString"}
    BY <1>5
  <2> QED
    BY <2>1, NothingDelivered
<1>25. Files'
  BY <1>22, <1>23 DEF Files
<1>26. mem' \in Seq(Nat)
  BY <1>5, <1>9
<1> QED
  BY <1>1, <1>5, <1>24, <1>25, <1>26, FileStepRest
-----------------------------------------------------------------------------
(* The invariant and the theorems.                                         *)

LEMMA InitInv == ASSUME Init PROVE Inv
<1>1. /\ status = "running" /\ text \in BOOLEAN /\ program \in {"files", "console"} /\ mem = <<>>
      /\ unix = [n \in HostName |-> IF n \in Name THEN NoFile ELSE <<>>]
      /\ fds = [fd \in {0, 1} |-> IF fd = 0 THEN "stdin" ELSE "stdout"]
      /\ file = [i \in Slot |-> CASE i = 0 -> OpenFile(0, 1)
                                  [] i = 1 -> OpenFile(1, 2)
                                  [] OTHER -> NoFile]
      /\ input = <<>> /\ calls = 0 /\ ideal = [n \in Name |-> <<>>] /\ at = [i \in Slot |-> 0]
      /\ last = [op |-> "none"]
  BY DEF Init
<1>2. 0 \in Slot /\ 1 \in Slot
  BY FileAssumption DEF Slot
<1>3. /\ OpenFile(0, 1) \in OpenFileType /\ OpenFile(1, 2) \in OpenFileType
      /\ OpenFile(0, 1).fd = 0 /\ OpenFile(1, 2).fd = 1
  BY DEF OpenFile, OpenFileType
<1>4. OpenFile(0, 1) # NoFile /\ OpenFile(1, 2) # NoFile
  BY <1>3, FileAssumption
<1>5. /\ DOMAIN file = Slot /\ file[0] = OpenFile(0, 1) /\ file[1] = OpenFile(1, 2)
      /\ \A i \in Slot : i \notin {0, 1} => file[i] = NoFile
  BY <1>1, <1>2
<1>6. Used = {0, 1}
  BY <1>2, <1>4, <1>5 DEF Used
<1>7. DOMAIN fds = {0, 1} /\ fds[0] = "stdin" /\ fds[1] = "stdout"
  BY <1>1
<1>8. "stdin" \in HostName /\ "stdout" \in HostName /\ "stdin" \notin Name /\ "stdout" \notin Name
  BY NamesAreHostNames DEF HostName
<1>9. unix["stdin"] = <<>> /\ unix["stdout"] = <<>> /\ \A n \in Name : unix[n] = NoFile
  BY <1>1, <1>8, NamesAreHostNames
<1>10. FileTypes
  <2>1. unix \in [HostName -> Seq(Nat) \cup {NoFile}] /\ ideal \in [Name -> Seq(Nat)]
        /\ at \in [Slot -> Nat]
    BY <1>1, NamesAreHostNames
  <2>2. \A fd \in DOMAIN fds : fds[fd] \in HostName
    BY <1>7, <1>8
  <2>3. \A i \in Slot : file[i] # NoFile => file[i] \in OpenFileType
    BY <1>3, <1>5
  <2> QED
    BY <1>5, <1>7, <2>1, <2>2, <2>3 DEF FileTypes
<1>11. Descriptors
  BY <1>3, <1>5, <1>6, <1>7 DEF Descriptors
<1>12. Offsets
  BY <1>6, <1>7, <1>9, NamesAreHostNames DEF Offsets
<1>13. FilesAsWritten
  BY <1>9 DEF FilesAsWritten
<1>14. ReadDelivers
  <2>1. last.op = "none"
    BY <1>1
  <2> QED
    BY <2>1 DEF ReadDelivers
<1>15. Registers
  BY <1>1 DEF Registers
<1> QED
  BY <1>10, <1>11, <1>12, <1>13, <1>14, <1>15, Parts DEF Files

LEMMA NextInv == ASSUME Inv, [Next]_vars PROVE Inv'
<1>1. CASE FileStep
  BY <1>1, CreateFileStep, OpenStep, CloseStep, ReadFileStep, WriteDataStep, QuietSteps DEF FileStep
<1>2. CASE ConsoleStep
  BY <1>2, TypeStep, ReadConsoleStep, ReadStringStep, ConsoleReads, QuietSteps DEF ConsoleStep
<1>3. CASE UNCHANGED vars
  <2>1. UNCHANGED <<status, text, program, r2, mem, unix, fds, file, input, calls, ideal, at, last>>
    BY <1>3 DEF vars
  <2>2. Files'
    BY <2>1, Parts, FilesKept
  <2>3. Registers'
    BY <2>1, Parts DEF Registers
  <2>4. ReadDelivers'
    BY <2>1, Parts DEF ReadDelivers
  <2> QED
    BY <2>2, <2>3, <2>4 DEF Inv, Files, FileTypes, Registers, TypeOK
<1> QED
  BY <1>1, <1>2, <1>3 DEF Next

(* Inv holds in every state of the system calls on files and console.      *)
THEOREM Invariance == Spec => []Inv
BY InitInv, NextInv, PTL DEF Spec

(* FileSystem's table and the descriptors of the host stay in step,        *)
(* whatever Opens and Closes succeed and fail.                             *)
THEOREM DescriptorsStayExact == Spec => []DescriptorsInv
<1>1. Inv => DescriptorsInv
  <2> SUFFICES ASSUME Inv PROVE DescriptorsInv
    OBVIOUS
  <2>1. TypeOK /\ Descriptors
    BY DEF Inv
  <2>2. Cardinality(Used) = Cardinality(DOMAIN fds) /\ {file[i].fd : i \in Used} = DOMAIN fds
    BY <2>1, DescriptorsFinite
  <2>3. {0, 1} \subseteq Used
    BY <2>1 DEF Descriptors
  <2> QED
    BY <2>1, <2>2, <2>3 DEF DescriptorsInv, DescriptorsExact, Used
<1> QED
  BY <1>1, Invariance, PTL

(* A file holds what the programs wrote, where they wrote it.              *)
THEOREM FilesHoldTheWrites == Spec => []FilesAsWritten
<1>1. Inv => FilesAsWritten
  BY DEF Inv
<1> QED
  BY <1>1, Invariance, PTL

(* Read and ReadString deliver the bytes of the file or the line.          *)
THEOREM ReadsDeliver == Spec => []ReadDelivers
<1>1. Inv => ReadDelivers
  BY DEF Inv
<1> QED
  BY <1>1, Invariance, PTL
-----------------------------------------------------------------------------
(* The conversions of PrintNum and ReadNum.                                *)

LEMMA Powers ==
  /\ Power10(0) = 1 /\ Power10(1) = 10 /\ Power10(2) = 100 /\ Power10(3) = 1000
  /\ Power10(4) = 10000 /\ Power10(5) = 100000 /\ Power10(6) = 1000000
  /\ Power10(7) = 10000000 /\ Power10(8) = 100000000 /\ Power10(9) = 1000000000
BY DEF Power10

LEMMA NextPower ==
  ASSUME NEW k \in 0 .. 8
  PROVE  Power10(k + 1) = 10 * Power10(k) /\ Power10(k) \in Nat \ {0}
<1>1. k \in {0, 1, 2, 3, 4, 5, 6, 7, 8}
  OBVIOUS
<1> QED
  BY <1>1, Powers

LEMMA DivNext ==
  ASSUME NEW x \in Nat, NEW k \in 0 .. 8
  PROVE  (x \div 10) \div Power10(k) = x \div Power10(k + 1)
<1>1. k \in {0, 1, 2, 3, 4, 5, 6, 7, 8}
  OBVIOUS
<1>2. CASE k = 0
  BY <1>2, Powers
<1>3. CASE k = 1
  BY <1>3, Powers
<1>4. CASE k = 2
  BY <1>4, Powers
<1>5. CASE k = 3
  BY <1>5, Powers
<1>6. CASE k = 4
  BY <1>6, Powers
<1>7. CASE k = 5
  BY <1>7, Powers
<1>8. CASE k = 6
  BY <1>8, Powers
<1>9. CASE k = 7
  BY <1>9, Powers
<1>10. CASE k = 8
  BY <1>10, Powers
<1> QED
  BY <1>1, <1>2, <1>3, <1>4, <1>5, <1>6, <1>7, <1>8, <1>9, <1>10

LEMMA MaxIntIs == MaxInt \in Nat /\ MaxInt < 10000000000 /\ MaxInt > 1000000000
BY DEF MaxInt

(* How many digits a positive number has, and what they are, the last      *)
(* first.                                                                  *)
Width(num) ==
  IF num < 10 THEN 1 ELSE IF num < 100 THEN 2 ELSE IF num < 1000 THEN 3
  ELSE IF num < 10000 THEN 4 ELSE IF num < 100000 THEN 5 ELSE IF num < 1000000 THEN 6
  ELSE IF num < 10000000 THEN 7 ELSE IF num < 100000000 THEN 8
  ELSE IF num < 1000000000 THEN 9 ELSE 10

Digit(num, i) == ((num \div Power10(i)) % 10) + Zero

DigitsOf(num) == IF num > 0 THEN [i \in 1 .. Width(num) |-> Digit(num, i - 1)] ELSE <<>>

LEMMA WidthIs ==
  ASSUME NEW num \in 1 .. MaxInt
  PROVE  /\ Width(num) \in 1 .. 10
         /\ num \div Power10(Width(num) - 1) \in 1 .. 9
         /\ num < 10 => Width(num) = 1
         /\ num >= 10 => num \div 10 \in 1 .. MaxInt /\ Width(num) = Width(num \div 10) + 1
         /\ Width(num) = 10 <=> num >= 1000000000
<1>1. num \in Nat /\ num > 0 /\ num <= MaxInt
  BY MaxIntIs
<1>2. Width(num) \in 1 .. 10 /\ (num < 10 => Width(num) = 1) /\ (Width(num) = 10 <=> num >= 1000000000)
  BY <1>1 DEF Width
<1>3. num >= 10 => num \div 10 \in 1 .. MaxInt /\ Width(num) = Width(num \div 10) + 1
  BY <1>1, MaxIntIs DEF Width
<1>4. num \div Power10(Width(num) - 1) \in 1 .. 9
  <2>1. Width(num) \in {1, 2, 3, 4, 5, 6, 7, 8, 9, 10}
    BY <1>2
  <2>2. CASE Width(num) \in {1, 2, 3}
    BY <1>1, <2>2, Powers DEF Width
  <2>3. CASE Width(num) \in {4, 5, 6}
    BY <1>1, <2>3, Powers DEF Width
  <2>4. CASE Width(num) \in {7, 8, 9, 10}
    BY <1>1, <2>4, Powers, MaxIntIs DEF Width
  <2> QED
    BY <2>1, <2>2, <2>3, <2>4
<1> QED
  BY <1>2, <1>3, <1>4

LEMMA DigitIs ==
  ASSUME NEW num \in Nat, NEW i \in 0 .. 9
  PROVE  /\ Digit(num, i) \in Zero .. Zero + 9
         /\ i > 0 => Digit(num, i) = Digit(num \div 10, i - 1)
<1>1. i \in {0, 1, 2, 3, 4, 5, 6, 7, 8, 9}
  OBVIOUS
<1>2. Power10(i) \in Nat \ {0}
  BY <1>1, Powers
<1>3. num \div Power10(i) \in Nat
  BY <1>1, Powers
<1>4. PICK q \in Nat : q = num \div Power10(i)
  BY <1>3
<1>5. (q % 10) + Zero \in Zero .. Zero + 9
  BY DEF Zero
<1>6. i > 0 => (num \div 10) \div Power10(i - 1) = num \div Power10(i)
  <2> SUFFICES ASSUME i > 0 PROVE (num \div 10) \div Power10(i - 1) = num \div Power10(i)
    OBVIOUS
  <2>1. i - 1 \in 0 .. 8 /\ (i - 1) + 1 = i
    OBVIOUS
  <2> QED
    BY <2>1, DivNext
<1> QED
  BY <1>4, <1>5, <1>6 DEF Digit

(* One turn of the loop of PrintNum.                                       *)
LEMMA DigitsStep ==
  ASSUME NEW num \in 1 .. MaxInt
  PROVE  DigitsOf(num) = <<(num % 10) + Zero>> \o DigitsOf(num \div 10)
<1>1. num \in Nat /\ num > 0 /\ Width(num) \in 1 .. 10
  BY WidthIs, MaxIntIs
<1>2. Digit(num, 0) = (num % 10) + Zero
  BY <1>1, Powers DEF Digit
<1>3. PICK w \in 1 .. 10 : w = Width(num)
  BY <1>1
<1>4. DigitsOf(num) = [i \in 1 .. w |-> Digit(num, i - 1)]
  BY <1>1, <1>3 DEF DigitsOf
<1>5. CASE num < 10
  <2>1. num \div 10 = 0 /\ w = 1
    BY <1>1, <1>3, <1>5, WidthIs
  <2>2. DigitsOf(num \div 10) = <<>>
    BY <2>1 DEF DigitsOf
  <2>3. DigitsOf(num) = <<(num % 10) + Zero>>
    BY <1>2, <1>4, <2>1
  <2> QED
    BY <2>2, <2>3
<1>6. CASE num >= 10
  <2>1. num \div 10 \in 1 .. MaxInt /\ w = Width(num \div 10) + 1
    BY <1>3, <1>6, WidthIs
  <2>2. PICK m \in 1 .. MaxInt : m = num \div 10
    BY <2>1
  <2>3. m \in Nat /\ m > 0 /\ Width(m) \in 1 .. 10
    BY <2>2, WidthIs, MaxIntIs
  <2>4. PICK v \in 1 .. 10 : v = Width(m)
    BY <2>3
  <2>5. DigitsOf(m) = [i \in 1 .. v |-> Digit(m, i - 1)] /\ w = v + 1
    BY <2>1, <2>2, <2>3, <2>4 DEF DigitsOf
  <2>6. \A i \in 2 .. w : Digit(num, i - 1) = Digit(m, i - 2)
    <3> SUFFICES ASSUME NEW i \in 2 .. w PROVE Digit(num, i - 1) = Digit(m, i - 2)
      OBVIOUS
    <3>1. i - 1 \in 0 .. 9 /\ i - 1 > 0 /\ (i - 1) - 1 = i - 2
      OBVIOUS
    <3> QED
      BY <1>1, <2>2, <3>1, DigitIs
  <2>7. Len(DigitsOf(m)) = v /\ DigitsOf(m) \in Seq(Int)
    <3>1. \A i \in 1 .. v : Digit(m, i - 1) \in Int
      <4> SUFFICES ASSUME NEW i \in 1 .. v PROVE Digit(m, i - 1) \in Int
        OBVIOUS
      <4>1. i - 1 \in 0 .. 9
        OBVIOUS
      <4> QED
        BY <2>3, <4>1, DigitIs DEF Zero
    <3> QED
      BY <2>5, <3>1
  <2>8. PICK s \in Seq(Int) : s = DigitsOf(m)
    BY <2>7
  <2>9. PICK d \in Int : d = (num % 10) + Zero
    BY <1>1 DEF Zero
  <2>10. /\ Len(<<d>> \o s) = w
         /\ \A i \in 1 .. w : (<<d>> \o s)[i] = IF i = 1 THEN d ELSE s[i - 1]
         /\ <<d>> \o s \in Seq(Int)
    BY <2>5, <2>7, <2>8
  <2>11. \A i \in 1 .. w : (<<d>> \o s)[i] = Digit(num, i - 1)
    <3> SUFFICES ASSUME NEW i \in 1 .. w PROVE (<<d>> \o s)[i] = Digit(num, i - 1)
      OBVIOUS
    <3>1. CASE i = 1
      BY <1>2, <2>9, <2>10, <3>1
    <3>2. CASE i # 1
      <4>1. i - 1 \in 1 .. v /\ i \in 2 .. w /\ (i - 1) - 1 = i - 2
        BY <2>5, <3>2
      <4>2. s[i - 1] = Digit(m, i - 2)
        BY <2>5, <2>8, <4>1
      <4> QED
        BY <2>6, <2>10, <3>2, <4>1, <4>2
    <3> QED
      BY <3>1, <3>2
  <2>12. <<d>> \o s = [i \in 1 .. w |-> Digit(num, i - 1)]
    <3>1. PICK c \in Seq(Int) : c = <<d>> \o s
      BY <2>10
    <3>2. Len(c) = w /\ \A i \in 1 .. w : c[i] = Digit(num, i - 1)
      BY <2>10, <2>11, <3>1
    <3>3. c = [i \in 1 .. Len(c) |-> c[i]]
      OBVIOUS
    <3> QED
      BY <3>1, <3>2, <3>3
  <2> QED
    BY <1>4, <2>2, <2>8, <2>9, <2>12
<1> QED
  BY <1>1, <1>5, <1>6

LEMMA LowFirstExists ==
  LowFirst = [num \in MinInt .. MaxInt |->
                IF num > 0 THEN <<(num % 10) + Zero>> \o LowFirst[num \div 10] ELSE <<>>]
<1> DEFINE E(f) == f = [num \in MinInt .. MaxInt |->
                          IF num > 0 THEN <<(num % 10) + Zero>> \o f[num \div 10] ELSE <<>>]
           F == [num \in MinInt .. MaxInt |-> DigitsOf(num)]
<1>1. E(F)
  <2>1. ASSUME NEW num \in MinInt .. MaxInt
        PROVE  DigitsOf(num) = IF num > 0 THEN <<(num % 10) + Zero>> \o F[num \div 10] ELSE <<>>
    <3>1. CASE num > 0
      <4>1. num \in 1 .. MaxInt /\ num \div 10 \in MinInt .. MaxInt
        BY <3>1, MaxIntIs DEF MinInt
      <4>2. F[num \div 10] = DigitsOf(num \div 10)
        BY <4>1
      <4> QED
        BY <3>1, <4>1, <4>2, DigitsStep
    <3>2. CASE ~(num > 0)
      BY <3>2 DEF DigitsOf
    <3> QED
      BY <3>1, <3>2
  <2> QED
    BY <2>1
<1>2. LowFirst = CHOOSE f : E(f)
  BY DEF LowFirst
<1> HIDE DEF E, F
<1>3. E(LowFirst)
  BY <1>1, <1>2
<1> QED
  BY <1>3 DEF E

LEMMA LowFirstIs ==
  ASSUME NEW num \in 0 .. MaxInt
  PROVE  LowFirst[num] = DigitsOf(num)
<1> DEFINE Bad == {k \in 0 .. MaxInt : LowFirst[k] # DigitsOf(k)}
<1> SUFFICES ASSUME Bad # {} PROVE FALSE
  OBVIOUS
<1>1. Bad \subseteq Nat
  OBVIOUS
<1>2. PICK k \in Bad : \A j \in Bad : k <= j
  BY <1>1, MinIs
<1>3. k \in 0 .. MaxInt /\ k \in MinInt .. MaxInt
  BY MaxIntIs DEF MinInt
<1>4. LowFirst[k] = IF k > 0 THEN <<(k % 10) + Zero>> \o LowFirst[k \div 10] ELSE <<>>
  BY <1>3, LowFirstExists
<1>5. CASE k > 0
  <2>1. k \in 1 .. MaxInt /\ k \div 10 \in 0 .. MaxInt /\ k \div 10 < k
    BY <1>3, <1>5, MaxIntIs
  <2>2. k \div 10 \notin Bad
    BY <1>2, <2>1
  <2>3. LowFirst[k \div 10] = DigitsOf(k \div 10)
    BY <2>1, <2>2
  <2> QED
    BY <1>4, <1>5, <2>1, <2>3, DigitsStep
<1>6. CASE ~(k > 0)
  BY <1>4, <1>6 DEF DigitsOf
<1> QED
  BY <1>5, <1>6

LEMMA DigitsAre ==
  ASSUME NEW num \in 1 .. MaxInt
  PROVE  /\ DigitsOf(num) \in Seq(Nat) /\ Len(DigitsOf(num)) = Width(num)
         /\ \A i \in 1 .. Width(num) : DigitsOf(num)[i] = Digit(num, i - 1)
<1>1. num \in Nat /\ num > 0 /\ Width(num) \in 1 .. 10
  BY WidthIs, MaxIntIs
<1>2. PICK w \in 1 .. 10 : w = Width(num)
  BY <1>1
<1>3. DigitsOf(num) = [i \in 1 .. w |-> Digit(num, i - 1)]
  BY <1>1, <1>2 DEF DigitsOf
<1>4. \A i \in 1 .. w : Digit(num, i - 1) \in Nat
  <2> SUFFICES ASSUME NEW i \in 1 .. w PROVE Digit(num, i - 1) \in Nat
    OBVIOUS
  <2>1. i - 1 \in 0 .. 9
    OBVIOUS
  <2> QED
    BY <1>1, <2>1, DigitIs DEF Zero
<1> QED
  BY <1>2, <1>3, <1>4

(* Characters are the decimal digits of a number of that many digits.      *)
IsDigits(s, num, n) ==
  /\ s \in Seq(Nat) /\ Len(s) = n /\ n \in 1 .. 10
  /\ \A i \in 1 .. n : s[i] = ((num \div Power10(n - i)) % 10) + Zero
  /\ num \div Power10(n - 1) <= 9

LEMMA ReversedDigits ==
  ASSUME NEW num \in 1 .. MaxInt
  PROVE  /\ IsDigits(Reverse(DigitsOf(num)), num, Width(num))
         /\ Reverse(DigitsOf(num))[1] # Zero
<1>1. num \in Nat /\ Width(num) \in 1 .. 10 /\ num \div Power10(Width(num) - 1) \in 1 .. 9
  BY WidthIs, MaxIntIs
<1>2. PICK w \in 1 .. 10 : w = Width(num)
  BY <1>1
<1>3. PICK s \in Seq(Nat) : s = DigitsOf(num)
  BY DigitsAre
<1>4. Len(s) = w /\ \A i \in 1 .. w : s[i] = Digit(num, i - 1)
  BY <1>2, <1>3, DigitsAre
<1>5. Reverse(s) = [i \in 1 .. w |-> s[(w - i) + 1]]
  BY <1>4 DEF Reverse
<1>6. Reverse(s) \in Seq(Nat) /\ Len(Reverse(s)) = w
  <2>1. \A i \in 1 .. w : s[(w - i) + 1] \in Nat
    BY <1>4
  <2> QED
    BY <1>5, <2>1
<1>7. \A i \in 1 .. w : Reverse(s)[i] = ((num \div Power10(w - i)) % 10) + Zero
  <2> SUFFICES ASSUME NEW i \in 1 .. w PROVE Reverse(s)[i] = ((num \div Power10(w - i)) % 10) + Zero
    OBVIOUS
  <2>1. (w - i) + 1 \in 1 .. w /\ ((w - i) + 1) - 1 = w - i
    OBVIOUS
  <2> QED
    BY <1>4, <1>5, <2>1 DEF Digit
<1>8. Reverse(s)[1] # Zero
  <2>1. PICK q \in 1 .. 9 : q = num \div Power10(w - 1)
    BY <1>1, <1>2
  <2>2. Reverse(s)[1] = (q % 10) + Zero
    BY <1>7, <2>1
  <2>3. q % 10 = q
    OBVIOUS
  <2> QED
    BY <2>2, <2>3 DEF Zero
<1> QED
  BY <1>1, <1>2, <1>3, <1>6, <1>7, <1>8 DEF IsDigits

LEMMA PositiveDecimal ==
  ASSUME NEW t, NEW num \in Int, ~(num < 0), t # <<>>, Len(t) \in 1 .. 10, num # 0 => t[1] # Zero,
         num \div Power10(Len(t) - 1) <= 9,
         \A i \in 1 .. Len(t) : t[i] = ((num \div Power10(Len(t) - i)) % 10) + Zero
  PROVE  IsDecimal(t, num)
BY Zenon DEF IsDecimal

(* PrintNum writes a number in decimal, and as many characters as it has   *)
(* digits and a sign.                                                      *)
LEMMA TextIs ==
  ASSUME NEW num \in MinInt .. MaxInt, num > MinInt
  PROVE  IsDecimal(Text(num), num) /\ (Len(Text(num)) > 10 <=> num <= -1000000000)
<1>1. num \in Int /\ -num <= MaxInt /\ num <= MaxInt
  BY MaxIntIs DEF MinInt
<1>2. CASE num = 0
  <2>1. Text(num) = <<Zero>>
    BY <1>2 DEF Text
  <2>2. (0 \div Power10(0)) % 10 = 0 /\ 0 \div Power10(0) <= 9
    BY Powers
  <2>3. PICK t \in Seq(Nat) : t = <<Zero>>
    <3>1. Zero \in Nat
      BY DEF Zero
    <3>2. <<Zero>> \in Seq(Nat)
      BY <3>1
    <3> QED
      BY <3>2
  <2>4. t # <<>> /\ Len(t) = 1 /\ t[1] = Zero
    BY <2>3
  <2>5. ((0 \div Power10(1 - 1)) % 10) + Zero = Zero /\ 0 \div Power10(1 - 1) <= 9
    BY <2>2 DEF Zero
  <2>6. \A i \in 1 .. 1 : t[i] = ((0 \div Power10(1 - i)) % 10) + Zero
    <3>1. \A i \in 1 .. 1 : i = 1
      OBVIOUS
    <3> QED
      BY <2>4, <2>5, <3>1
  <2>7. IsDecimal(t, 0)
    <3>1. 0 \in Int /\ ~(0 < 0) /\ Len(t) \in 1 .. 10
      BY <2>4
    <3> QED
      BY <2>4, <2>5, <2>6, <3>1, PositiveDecimal
  <2>8. Text(num) = t
    BY <2>1, <2>3
  <2>9. ~(Len(t) > 10) /\ ~(0 <= -1000000000)
    BY <2>4
  <2>10. IsDecimal(t, num)
    BY <1>2, <2>7
  <2> QED
    BY ONLY <1>2, <2>8, <2>9, <2>10, SMT
<1>3. CASE num > 0
  <2>1. num \in 1 .. MaxInt /\ num \in 0 .. MaxInt
    BY <1>1, <1>3
  <2>2. Text(num) = Reverse(DigitsOf(num))
    BY <1>3, <2>1, LowFirstIs DEF Text
  <2>3. PICK t : t = Text(num)
    OBVIOUS
  <2>4. PICK n : n = Width(num)
    OBVIOUS
  <2>5. IsDigits(t, num, n) /\ t[1] # Zero
    BY <2>1, <2>2, <2>3, <2>4, ReversedDigits
  <2>6. /\ t \in Seq(Nat) /\ Len(t) = n /\ n \in 1 .. 10 /\ num \div Power10(n - 1) <= 9
        /\ \A i \in 1 .. n : t[i] = ((num \div Power10(n - i)) % 10) + Zero
    BY <2>5 DEF IsDigits
  <2>7. t # <<>>
    BY <2>6
  <2>8. IsDecimal(t, num)
    <3>1. num \in Int /\ ~(num < 0)
      BY <1>1, <1>3
    <3> QED
      BY <2>5, <2>6, <2>7, <3>1, PositiveDecimal
  <2> QED
    BY <1>3, <2>3, <2>6, <2>8
<1>4. CASE num < 0
  <2>1. -num \in 1 .. MaxInt /\ -num \in 0 .. MaxInt
    BY <1>1, <1>4
  <2>2. PICK abs \in 1 .. MaxInt : abs = -num
    BY <2>1
  <2>3. PICK s \in Seq(Nat) : s = DigitsOf(abs)
    BY DigitsAre
  <2>4. PICK n \in 1 .. 10 : n = Width(abs)
    BY WidthIs
  <2>5. Len(s) = n /\ (n = 10 <=> abs >= 1000000000)
    BY <2>3, <2>4, DigitsAre, WidthIs
  <2>6. Negated(num) = abs
    BY <2>2 DEF Negated
  <2>7. LowFirst[abs] = s
    <3>1. abs \in 0 .. MaxInt
      BY <2>1, <2>2
    <3> QED
      BY <2>3, <3>1, LowFirstIs
  <2>8. Text(num) = Reverse(Append(s, Dash))
    BY <1>4, <2>6, <2>7 DEF Text
  <2>9. PICK r \in Seq(Nat) : r = Reverse(s)
    <3>1. IsDigits(Reverse(s), abs, n)
      BY <2>3, <2>4, ReversedDigits
    <3> QED
      BY <3>1 DEF IsDigits
  <2>10. IsDigits(r, abs, n) /\ r[1] # Zero
    BY <2>3, <2>4, <2>9, ReversedDigits
  <2>11. /\ Len(r) = n /\ abs \div Power10(n - 1) <= 9
         /\ \A i \in 1 .. n : r[i] = ((abs \div Power10(n - i)) % 10) + Zero
    BY <2>10 DEF IsDigits
  <2>12. PICK a \in Seq(Nat) : a = Append(s, Dash)
    <3>1. Dash \in Nat
      BY DEF Dash
    <3>2. Append(s, Dash) \in Seq(Nat)
      BY <3>1
    <3> QED
      BY <3>2
  <2>13. Len(a) = n + 1 /\ a[n + 1] = Dash /\ \A i \in 1 .. n : a[i] = s[i]
    BY <2>5, <2>12 DEF Dash
  <2>14. Text(num) = [i \in 1 .. n + 1 |-> a[((n + 1) - i) + 1]]
    BY <2>8, <2>12, <2>13 DEF Reverse
  <2>15. \A i \in 1 .. n + 1 : a[((n + 1) - i) + 1] \in Nat
    <3> SUFFICES ASSUME NEW i \in 1 .. n + 1 PROVE a[((n + 1) - i) + 1] \in Nat
      OBVIOUS
    <3>1. ((n + 1) - i) + 1 \in 1 .. Len(a)
      BY <2>13
    <3> QED
      BY <3>1
  <2>16. PICK t \in Seq(Nat) : t = Text(num)
    <3>1. [i \in 1 .. n + 1 |-> a[((n + 1) - i) + 1]] \in Seq(Nat)
      BY <2>15
    <3> QED
      BY <2>14, <3>1
  <2>17. /\ Len(t) = n + 1 /\ t[1] = Dash
         /\ \A i \in 1 .. n : t[i + 1] = a[(n - i) + 1]
    <3>1. Len(t) = n + 1
      BY <2>14, <2>16
    <3>2. 1 \in 1 .. n + 1 /\ ((n + 1) - 1) + 1 = n + 1
      OBVIOUS
    <3>3. t[1] = Dash
      BY <2>13, <2>14, <2>16, <3>2
    <3>4. \A i \in 1 .. n : i + 1 \in 1 .. n + 1 /\ ((n + 1) - (i + 1)) + 1 = (n - i) + 1
      OBVIOUS
    <3> QED
      BY <2>14, <2>16, <3>1, <3>3, <3>4
  <2>18. \A i \in 1 .. n : t[i + 1] = r[i]
    <3> SUFFICES ASSUME NEW i \in 1 .. n PROVE t[i + 1] = r[i]
      OBVIOUS
    <3>1. (n - i) + 1 \in 1 .. n
      OBVIOUS
    <3>2. r[i] = s[(n - i) + 1]
      BY <2>5, <2>9 DEF Reverse
    <3> QED
      BY <2>13, <2>17, <3>1, <3>2
  <2>19. t # <<>> /\ Head(t) = Dash /\ Tail(t) \in Seq(Nat) /\ Len(Tail(t)) = n
         /\ \A i \in 1 .. n : Tail(t)[i] = t[i + 1]
    BY <2>17
  <2>20. Tail(t) = r
    <3>1. PICK d \in Seq(Nat) : d = Tail(t)
      BY <2>19
    <3>2. Len(d) = Len(r) /\ \A i \in 1 .. Len(r) : d[i] = r[i]
      BY <2>11, <2>18, <2>19, <3>1
    <3>3. d = [i \in 1 .. Len(d) |-> d[i]] /\ r = [i \in 1 .. Len(r) |-> r[i]]
      OBVIOUS
    <3>4. d = r
      BY <3>2, <3>3
    <3> QED
      BY <3>1, <3>4
  <2>21. IsDecimal(t, num)
    BY <1>4, <2>2, <2>10, <2>11, <2>19, <2>20 DEF IsDecimal
  <2>22. Len(t) > 10 <=> num <= -1000000000
    BY <1>1, <2>2, <2>5, <2>17
  <2> QED
    BY <2>16, <2>21, <2>22
<1> QED
  BY <1>1, <1>2, <1>3, <1>4
-----------------------------------------------------------------------------
(* The loop of ReadNum.  h[i] is the value after the characters first .. i. *)

IsValue(h, num, first, n) ==
  h = [i \in 0 .. n |-> IF i < first THEN 0 ELSE h[i - 1] * 10 + (num[i] - Zero)]

LEMMA ValueExists ==
  ASSUME NEW num, NEW first \in 1 .. 2, NEW n \in Nat
  PROVE  \E h : IsValue(h, num, first, n)
<1> DEFINE Bad == {m \in Nat : ~\E h : IsValue(h, num, first, m)}
<1> SUFFICES ASSUME Bad # {} PROVE FALSE
  OBVIOUS
<1>1. PICK m \in Bad : \A j \in Bad : m <= j
  <2>1. Bad \subseteq Nat
    OBVIOUS
  <2> HIDE DEF Bad
  <2> QED
    BY <2>1, MinIs
<1>2. m \in Nat /\ ~\E h : IsValue(h, num, first, m)
  OBVIOUS
<1>3. CASE m = 0
  <2> DEFINE h == [i \in 0 .. 0 |-> 0]
  <2>1. h = [i \in 0 .. 0 |-> IF i < first THEN 0 ELSE h[i - 1] * 10 + (num[i] - Zero)]
    OBVIOUS
  <2> QED
    BY <1>2, <1>3, <2>1 DEF IsValue
<1>4. CASE m # 0
  <2>1. m - 1 \in Nat /\ m - 1 \notin Bad
    BY <1>1, <1>2, <1>4
  <2>2. PICK g : IsValue(g, num, first, m - 1)
    BY <2>1
  <2> DEFINE h == [i \in 0 .. m |-> IF i = m THEN (IF m < first THEN 0 ELSE g[m - 1] * 10 + (num[m] - Zero))
                                    ELSE g[i]]
  <2>3. \A i \in 0 .. m - 1 : g[i] = IF i < first THEN 0 ELSE g[i - 1] * 10 + (num[i] - Zero)
    BY <2>2 DEF IsValue
  <2>4. \A i \in 0 .. m : i # m => i \in 0 .. m - 1 /\ h[i] = g[i] /\ (i # 0 => i - 1 \in 0 .. m /\ i - 1 # m)
    BY <1>2, <1>4
  <2>5. h[m] = (IF m < first THEN 0 ELSE g[m - 1] * 10 + (num[m] - Zero)) /\ h[m - 1] = g[m - 1]
    BY <1>2, <1>4
  <2>6. \A i \in 0 .. m : h[i] = IF i < first THEN 0 ELSE h[i - 1] * 10 + (num[i] - Zero)
    <3> SUFFICES ASSUME NEW i \in 0 .. m
                 PROVE  h[i] = IF i < first THEN 0 ELSE h[i - 1] * 10 + (num[i] - Zero)
      OBVIOUS
    <3>1. CASE i = m
      <4> HIDE DEF h
      <4> QED
        BY <2>5, <3>1
    <3>2. CASE i # m
      <4>1. h[i] = g[i] /\ i \in 0 .. m - 1 /\ (i # 0 => h[i - 1] = g[i - 1]) /\ (i = 0 => i < first)
        BY <2>4, <3>2
      <4> HIDE DEF h
      <4> QED
        BY <2>3, <4>1
    <3> QED
      BY <3>1, <3>2
  <2>7. h = [i \in 0 .. m |-> IF i < first THEN 0 ELSE h[i - 1] * 10 + (num[i] - Zero)]
    <3>1. h = [i \in 0 .. m |-> h[i]]
      OBVIOUS
    <3> HIDE DEF h
    <3> QED
      BY <2>6, <3>1
  <2> QED
    BY <1>2, <2>7 DEF IsValue
<1> QED
  BY <1>3, <1>4

LEMMA DigitsIsValue ==
  ASSUME NEW num \in Seq(Nat), NEW first \in 1 .. 2
  PROVE  \E h : IsValue(h, num, first, Len(num)) /\ Digits(num, first) = h[Len(num)]
<1> DEFINE L == CHOOSE h : h = [i \in 0 .. Len(num) |->
                                  IF i < first THEN 0 ELSE h[i - 1] * 10 + (num[i] - Zero)]
<1>1. L = [i \in 0 .. Len(num) |-> IF i < first THEN 0 ELSE L[i - 1] * 10 + (num[i] - Zero)]
  <2>1. \E h : h = [i \in 0 .. Len(num) |-> IF i < first THEN 0 ELSE h[i - 1] * 10 + (num[i] - Zero)]
    <3>1. Len(num) \in Nat
      OBVIOUS
    <3>2. \E h : IsValue(h, num, first, Len(num))
      BY <3>1, ValueExists
    <3> QED
      BY <3>2 DEF IsValue
  <2> QED
    BY <2>1
<1>2. Digits(num, first) = L[Len(num)]
  BY Zenon DEF Digits
<1> QED
  BY <1>1, <1>2 DEF IsValue

LEMMA DivAgain ==
  ASSUME NEW x \in Nat, NEW k \in 0 .. 8
  PROVE  /\ x \div Power10(k) \in Nat
         /\ x \div Power10(k) = (x \div Power10(k + 1)) * 10 + ((x \div Power10(k)) % 10)
<1>1. k \in {0, 1, 2, 3, 4, 5, 6, 7, 8}
  OBVIOUS
<1>2. CASE k = 0
  BY <1>2, Powers
<1>3. CASE k = 1
  BY <1>3, Powers
<1>4. CASE k = 2
  BY <1>4, Powers
<1>5. CASE k = 3
  BY <1>5, Powers
<1>6. CASE k = 4
  BY <1>6, Powers
<1>7. CASE k = 5
  BY <1>7, Powers
<1>8. CASE k = 6
  BY <1>8, Powers
<1>9. CASE k = 7
  BY <1>9, Powers
<1>10. CASE k = 8
  BY <1>10, Powers
<1> QED
  BY <1>1, <1>2, <1>3, <1>4, <1>5, <1>6, <1>7, <1>8, <1>9, <1>10

(* The loop gives back the number whose decimal digits it reads.           *)
LEMMA ValueOfDigits ==
  ASSUME NEW s, NEW h, NEW first \in 1 .. 2, NEW n \in first .. 9, NEW abs \in Nat,
         IsValue(h, s, first, n), abs \div Power10(n - first) <= 9,
         \A i \in first .. n : s[i] = ((abs \div Power10(n - i)) % 10) + Zero
  PROVE  h[n] = abs
<1> DEFINE Bad == {i \in first .. n : h[i] # abs \div Power10(n - i)}
<1>1. \A i \in first .. n : h[i] = h[i - 1] * 10 + ((abs \div Power10(n - i)) % 10)
  <2> SUFFICES ASSUME NEW i \in first .. n
               PROVE  h[i] = h[i - 1] * 10 + ((abs \div Power10(n - i)) % 10)
    OBVIOUS
  <2>1. i \in 0 .. n /\ ~(i < first) /\ n - i \in 0 .. 8
    OBVIOUS
  <2>2. h[i] = h[i - 1] * 10 + (s[i] - Zero)
    BY <2>1 DEF IsValue
  <2>3. PICK d \in Int : d = (abs \div Power10(n - i)) % 10
    <3>1. PICK q \in Nat : q = abs \div Power10(n - i)
      BY <2>1, DivAgain
    <3> QED
      BY <3>1
  <2>4. s[i] - Zero = d
    BY <2>3 DEF Zero
  <2> QED
    BY <2>2, <2>3, <2>4
<1>2. h[first - 1] = 0
  <2>1. first - 1 \in 0 .. n /\ first - 1 < first
    OBVIOUS
  <2> QED
    BY <2>1 DEF IsValue
<1>3. Bad = {}
  <2> SUFFICES ASSUME Bad # {} PROVE FALSE
    OBVIOUS
  <2>1. Bad \subseteq Nat
    OBVIOUS
  <2>2. PICK i \in Bad : \A j \in Bad : i <= j
    <3> HIDE DEF Bad
    <3> QED
      BY <2>1, MinIs
  <2>3. i \in first .. n /\ n - i \in 0 .. 8 /\ h[i] # abs \div Power10(n - i)
    OBVIOUS
  <2>4. PICK q \in Nat : q = abs \div Power10(n - i)
    BY <2>3, DivAgain
  <2>5. h[i] = h[i - 1] * 10 + (q % 10)
    BY <1>1, <2>3, <2>4
  <2>6. CASE i = first
    <3>1. q <= 9
      BY <2>4, <2>6
    <3> QED
      BY <1>2, <2>3, <2>4, <2>5, <2>6, <3>1
  <2>7. CASE i # first
    <3>1. i - 1 \in first .. n /\ i - 1 < i /\ n - (i - 1) = (n - i) + 1
      BY <2>3, <2>7
    <3>2. i - 1 \notin Bad
      BY <2>2, <2>3, <3>1
    <3>3. h[i - 1] = abs \div Power10((n - i) + 1)
      BY <3>1, <3>2
    <3>4. q = (abs \div Power10((n - i) + 1)) * 10 + (q % 10)
      BY <2>3, <2>4, DivAgain
    <3> QED
      BY <2>3, <2>4, <2>5, <3>3, <3>4
  <2> QED
    BY <2>6, <2>7
<1>4. n \in first .. n /\ n - n = 0 /\ abs \div Power10(0) = abs
  BY Powers
<1>5. h[n] = abs \div Power10(n - n)
  BY <1>3, <1>4
<1> QED
  BY <1>4, <1>5

(* Nine digits fit the register.                                           *)
LEMMA ValueBound ==
  ASSUME NEW s, NEW h, NEW first \in 1 .. 2, NEW n \in 0 .. 9, IsValue(h, s, first, n),
         \A i \in first .. n : s[i] \in Zero .. Zero + 9
  PROVE  h[n] \in Nat /\ h[n] < Power10(9)
<1> DEFINE Bad == {i \in 0 .. n : ~(h[i] \in Nat /\ h[i] < Power10(i))}
<1>1. Bad = {}
  <2> SUFFICES ASSUME Bad # {} PROVE FALSE
    OBVIOUS
  <2>1. Bad \subseteq Nat
    OBVIOUS
  <2>2. PICK i \in Bad : \A j \in Bad : i <= j
    <3> HIDE DEF Bad
    <3> QED
      BY <2>1, MinIs
  <2>3. i \in 0 .. n /\ ~(h[i] \in Nat /\ h[i] < Power10(i))
    OBVIOUS
  <2>4. h[i] = IF i < first THEN 0 ELSE h[i - 1] * 10 + (s[i] - Zero)
    BY <2>3 DEF IsValue
  <2>5. Power10(i) \in Nat /\ Power10(i) > 0
    <3>1. i \in {0, 1, 2, 3, 4, 5, 6, 7, 8, 9}
      BY <2>3
    <3> QED
      BY <3>1, Powers
  <2>6. CASE i < first
    BY <2>3, <2>4, <2>5, <2>6
  <2>7. CASE ~(i < first)
    <3>1. i - 1 \in 0 .. n /\ i - 1 < i /\ i \in first .. n /\ i - 1 \in 0 .. 8 /\ (i - 1) + 1 = i
      BY <2>3, <2>7
    <3>2. i - 1 \notin Bad
      BY <2>2, <2>3, <3>1
    <3>3. h[i - 1] \in Nat /\ h[i - 1] < Power10(i - 1)
      BY <3>1, <3>2
    <3>4. Power10(i) = 10 * Power10(i - 1) /\ Power10(i - 1) \in Nat
      BY <3>1, NextPower
    <3>5. s[i] - Zero \in 0 .. 9
      BY <3>1 DEF Zero
    <3>6. PICK a \in Nat, b \in Nat, d \in 0 .. 9 : a = h[i - 1] /\ b = Power10(i - 1) /\ d = s[i] - Zero
      BY <3>3, <3>4, <3>5
    <3>7. h[i] = a * 10 + d /\ a < b /\ Power10(i) = 10 * b
      BY <2>4, <2>7, <3>3, <3>4, <3>6
    <3> QED
      BY <2>3, <3>7
  <2> QED
    BY <2>6, <2>7
<1>2. h[n] \in Nat /\ h[n] < Power10(n)
  BY <1>1
<1>3. Power10(n) \in Nat /\ Power10(9) \in Nat /\ Power10(n) <= Power10(9)
  <2>1. n \in {0, 1, 2, 3, 4, 5, 6, 7, 8, 9}
    OBVIOUS
  <2> QED
    BY <2>1, Powers
<1> QED
  BY <1>2, <1>3

(* What ReadNum makes of up to nine characters.                            *)
LEMMA NumberOfBound ==
  ASSUME NEW s \in Seq(Nat), Len(s) \in 1 .. 9, IsNumber(s)
  PROVE  NumberOf(s) \in MinInt .. MaxInt
<1>1. FirstDigit(s) \in 1 .. 2
  BY DEF FirstDigit
<1>2. PICK first \in 1 .. 2 : first = FirstDigit(s)
  BY <1>1
<1>3. PICK h : IsValue(h, s, first, Len(s)) /\ Digits(s, first) = h[Len(s)]
  BY DigitsIsValue
<1>4. \A i \in first .. Len(s) : s[i] \in Zero .. Zero + 9
  BY <1>2 DEF IsNumber, IsDigit
<1>5. Len(s) \in 0 .. 9
  OBVIOUS
<1>6. Digits(s, first) \in Nat /\ Digits(s, first) < Power10(9)
  BY <1>3, <1>4, <1>5, ValueBound
<1>7. NumberOf(s) = IF s[1] = Dash THEN -Digits(s, first) ELSE Digits(s, first)
  BY <1>2 DEF NumberOf, FirstDigit
<1>8. PICK v \in Nat : v = Digits(s, first) /\ v < 1000000000
  BY <1>6, Powers
<1>9. v <= MaxInt /\ MaxInt \in Nat
  BY <1>8, MaxIntIs
<1>10. v \in MinInt .. MaxInt /\ -v \in MinInt .. MaxInt
  BY <1>9 DEF MinInt
<1> QED
  BY <1>7, <1>8, <1>10, SMT

LEMMA NumberOfDecimal ==
  ASSUME NEW s \in Seq(Nat), Len(s) \in 1 .. 9, NEW num \in Int, IsDecimal(s, num)
  PROVE  NumberOf(s) = num
<1>1. PICK len \in 1 .. 9 : len = Len(s)
  OBVIOUS
<1>2. CASE num >= 0
  <2>1. /\ num \div Power10(len - 1) <= 9
        /\ \A i \in 1 .. len : s[i] = ((num \div Power10(len - i)) % 10) + Zero
    <3>1. ~(num < 0)
      BY <1>2
    <3> QED
      BY <1>1, <3>1 DEF IsDecimal
  <2>2. s[1] # Dash
    <3>1. s[1] = ((num \div Power10(len - 1)) % 10) + Zero /\ len - 1 \in 0 .. 8 /\ num \in Nat
      BY <1>2, <2>1
    <3>2. PICK q \in Nat : q = num \div Power10(len - 1)
      BY <3>1, DivAgain
    <3> QED
      BY <3>1, <3>2 DEF Zero, Dash
  <2>3. PICK h : IsValue(h, s, 1, len) /\ Digits(s, 1) = h[len]
    BY <1>1, DigitsIsValue
  <2>4. h[len] = num
    <3>1. 1 \in 1 .. 2 /\ num \in Nat
      BY <1>2
    <3> QED
      BY <2>1, <2>3, <3>1, ValueOfDigits
  <2> QED
    BY <2>2, <2>3, <2>4 DEF NumberOf
<1>3. CASE num < 0
  <2>1. PICK abs \in Nat : abs = -num
    BY <1>3
  <2>2. PICK t \in Seq(Nat) : t = Tail(s)
    <3>1. s # <<>>
      <4>1. Len(s) # 0
        <5>1. \A k \in 1 .. 9 : k # 0
          BY ONLY TRUE
        <5> QED
          BY <5>1, Zenon
      <4>2. Len(<<>>) = 0
        OBVIOUS
      <4> QED
        BY <4>1, <4>2
    <3>2. Tail(s) \in Seq(Nat)
      BY <3>1
    <3> QED
      BY <3>2
  <2>3. Len(t) = len - 1 /\ \A i \in 1 .. len - 1 : t[i] = s[i + 1]
    BY <1>1, <2>2
  <2>4. /\ Head(s) = Dash /\ Len(t) \in 1 .. 10
        /\ abs \div Power10(Len(t) - 1) <= 9
        /\ \A i \in 1 .. Len(t) : t[i] = ((abs \div Power10(Len(t) - i)) % 10) + Zero
    BY <1>3, <2>1, <2>2 DEF IsDecimal
  <2>5. s[1] = Dash
    BY <1>1, <2>4
  <2>6. len \in 2 .. 9 /\ (len - 1) - 1 = len - 2
    BY <2>3, <2>4
  <2>7. abs \div Power10(len - 2) <= 9
    BY <2>3, <2>4, <2>6
  <2>8. \A i \in 2 .. len : s[i] = ((abs \div Power10(len - i)) % 10) + Zero
    <3> SUFFICES ASSUME NEW i \in 2 .. len PROVE s[i] = ((abs \div Power10(len - i)) % 10) + Zero
      OBVIOUS
    <3>1. i - 1 \in 1 .. len - 1 /\ (i - 1) + 1 = i /\ (len - 1) - (i - 1) = len - i
      OBVIOUS
    <3>2. t[i - 1] = s[i]
      BY <2>3, <3>1
    <3>3. t[i - 1] = ((abs \div Power10(len - i)) % 10) + Zero
      BY <2>3, <2>4, <3>1
    <3> QED
      BY <3>2, <3>3
  <2>9. PICK h : IsValue(h, s, 2, len) /\ Digits(s, 2) = h[len]
    BY <1>1, DigitsIsValue
  <2>10. h[len] = abs
    <3>1. 2 \in 1 .. 2 /\ len \in 2 .. 9
      BY <2>6
    <3> QED
      BY <2>7, <2>8, <2>9, <3>1, ValueOfDigits
  <2> QED
    BY <2>1, <2>5, <2>9, <2>10 DEF NumberOf
<1> QED
  BY <1>2, <1>3
-----------------------------------------------------------------------------
(* Numbers stay exact: beside Inv, the typed characters are ASCII.         *)

NumbersInv == NumbersExact /\ input \in Seq(Ascii)

LEMMA RegisterIs ==
  /\ \A k \in -2 .. 7 : k \in MinInt .. MaxInt
  /\ \A k \in Ascii : k \in MinInt .. MaxInt
  /\ \A k \in Nat : k <= MaxInt => k \in MinInt .. MaxInt
<1>1. \A k \in -2 .. 7 : k \in MinInt .. MaxInt
  BY MaxIntIs DEF MinInt
<1>2. \A k \in Ascii : k \in MinInt .. MaxInt
  BY MaxIntIs DEF MinInt, Ascii
<1>3. \A k \in Nat : k <= MaxInt => k \in MinInt .. MaxInt
  BY MaxIntIs DEF MinInt
<1> QED
  BY <1>1, <1>2, <1>3

(* A step that converts no number has only its register to answer for.     *)
LEMMA NoNumber ==
  ASSUME last'.op \notin {"PrintNum", "ReadNum"}, r2' \in MinInt .. MaxInt, input' \in Seq(Ascii)
  PROVE  NumbersInv'
BY DEF NumbersInv, NumbersExact, PrintNumDecimal, ReadNumInverse

(* Read: no more bytes than the register can count.                        *)
LEMMA ReturnsFits ==
  ASSUME NEW bytes, NEW result, Returns(bytes, result), result \in Int, result <= MaxInt
  PROVE  r2' \in MinInt .. MaxInt
<1>1. CASE result <= 0
  <2>1. r2' \in -2 .. 7
    BY <1>1 DEF Returns
  <2> QED
    BY <2>1, RegisterIs
<1>2. CASE ~(result <= 0)
  <2>1. r2' = result /\ result \in Nat
    BY <1>2 DEF Returns
  <2> QED
    BY <2>1, RegisterIs
<1> QED
  BY <1>1, <1>2

LEMMA FileStepNumbers ==
  ASSUME Inv, NumbersInv, FileStep
  PROVE  NumbersInv'
<1>1. input \in Seq(Ascii) /\ r2 \in MinInt .. MaxInt
  BY DEF NumbersInv, NumbersExact
<1>2. ASSUME NEW n \in Name, CreateFile(n) PROVE NumbersInv'
  <2>1. last'.op = "CreateFile" /\ r2' = 0 /\ input' = input
    BY <1>2 DEF CreateFile
  <2> QED
    BY <1>1, <2>1, RegisterIs, NoNumber
<1>3. ASSUME NEW n \in Name, NEW type \in 0 .. 2, Open(n, type) PROVE NumbersInv'
  <2>1. last'.op = "Open" /\ input' = input
    BY <1>3 DEF Open
  <2>2. CASE type \notin {0, 1} \/ FreeSlot = {} \/ ~OpenForReadWrite(n)
    <3>1. r2' = -1
      BY <1>3, <2>2 DEF Open, OpenFails
    <3> QED
      BY <1>1, <2>1, <3>1, RegisterIs, NoNumber
  <2>3. CASE ~(type \notin {0, 1} \/ FreeSlot = {} \/ ~OpenForReadWrite(n))
    <3>1. r2' = Min(FreeSlot)
      BY <1>3, <2>3 DEF Open, OpenAt
    <3>2. FreeSlot \subseteq Nat /\ FreeSlot # {} /\ \A i \in FreeSlot : i <= MaxInt
      BY <2>3, FileAssumption, MaxIntIs DEF FreeSlot, Slot
    <3>3. r2' \in Nat /\ r2' <= MaxInt
      BY <3>1, <3>2, MinIs
    <3> QED
      BY <1>1, <2>1, <3>3, RegisterIs, NoNumber
  <2> QED
    BY <2>2, <2>3
<1>4. ASSUME CreateNameless PROVE NumbersInv'
  <2>1. last'.op = "refused" /\ r2' = -1 /\ input' = input
    BY <1>4 DEF CreateNameless
  <2> QED
    BY <1>1, <2>1, RegisterIs, NoNumber
<1>5. ASSUME NEW id \in {0, 1}, NEW type \in 0 .. 2, OpenConsole(id, type) PROVE NumbersInv'
  <2>1. last'.op = "Open" /\ r2' \in -2 .. 7 /\ input' = input
    BY <1>5 DEF OpenConsole
  <2> QED
    BY <1>1, <2>1, RegisterIs, NoNumber
<1>6. ASSUME NEW id \in -1 .. NumSlots, Close(id) PROVE NumbersInv'
  <2>1. last'.op = "Close" /\ r2' \in -2 .. 7 /\ input' = input
    BY <1>6 DEF Close
  <2> QED
    BY <1>1, <2>1, RegisterIs, NoNumber
<1>7. ASSUME NEW id \in -1 .. NumSlots, NEW n \in Count \cup {0}, ReadRefused(id, n) \/ WriteRefused(id, n)
      PROVE  NumbersInv'
  <2>1. last'.op = "refused" /\ r2' = -1 /\ input' = input
    BY <1>7 DEF ReadRefused, WriteRefused
  <2> QED
    BY <1>1, <2>1, RegisterIs, NoNumber
<1>8. ASSUME NEW id \in Slot, NEW n \in Count, ReadFile(id, n) PROVE NumbersInv'
  <2> DEFINE bytes == ReadPartial(unix[fds[file[id].fd]], file[id].currentOffset, n)
  <2>1. last'.op = "Read" /\ input' = input /\ Returns(bytes, Len(bytes)) /\ id \in Used
    BY <1>8 DEF ReadFile, Readable, Used
  <2>2. Len(bytes) \in Nat /\ Len(bytes) <= n /\ n \in Nat /\ n <= MaxInt
    <3>1. n \in Nat /\ n <= MaxInt
      BY FileAssumption, MaxIntIs
    <3>2. /\ id \notin {0, 1} /\ Files /\ FileTypes /\ Descriptors /\ Offsets
      BY <1>8, Parts DEF ReadFile, Readable, Files
    <3>3. PICK name : name = fds[file[id].fd]
      OBVIOUS
    <3>4. name \in Name /\ unix[name] # NoFile /\ file[id].currentOffset = at[id] /\ name \in HostName
      BY <2>1, <3>2, <3>3, NamesAreHostNames DEF Offsets, Descriptors
    <3>5. unix[name] \in Seq(Nat) /\ at[id] \in Nat
      BY <3>2, <3>4 DEF FileTypes
    <3>6. PICK b \in Seq(Nat) : b = bytes /\ Len(b) <= n
      BY <3>1, <3>3, <3>4, <3>5, ReadPartialIs
    <3> QED
      BY <3>1, <3>6
  <2>3. r2' \in MinInt .. MaxInt
    <3> HIDE DEF bytes
    <3>1. Len(bytes) \in Int /\ Len(bytes) <= MaxInt
      BY <2>2, MaxIntIs
    <3> QED
      BY <2>1, <3>1, ReturnsFits
  <2> QED
    BY <1>1, <2>1, <2>3, NoNumber
<1>9. ASSUME NEW id \in Slot, NEW data \in Data, WriteData(id, data) PROVE NumbersInv'
  <2>1. last'.op = "Write" /\ r2' = Len(data) /\ input' = input
    BY <1>9 DEF WriteData
  <2>2. Len(data) \in Nat /\ Len(data) <= MaxInt
    BY FileAssumption
  <2> QED
    BY <1>1, <2>1, <2>2, RegisterIs, NoNumber
<1> QED
  BY <1>2, <1>3, <1>4, <1>5, <1>6, <1>7, <1>8, <1>9 DEF FileStep

(* ReadNum: what the user typed in decimal is the result.                  *)
LEMMA ReadNumNumbers ==
  ASSUME Inv, NumbersInv, MaxNum \in 0 .. 9, ReadNum
  PROVE  NumbersInv'
<1>1. input \in Seq(Ascii) /\ status = "running" /\ MaxNum \in Nat
  BY DEF NumbersInv, ReadNum, Call
<1>2. PICK s : s = ConsoleChars(MaxNum)
  OBVIOUS
<1>3. PICK leng : leng = ConsoleResult(MaxNum)
  OBVIOUS
<1>4. /\ ConsoleReady(MaxNum) /\ input' = ConsoleRest(MaxNum)
      /\ status' = IF leng = -1 \/ (leng > 0 /\ ~IsNumber(s)) THEN "halted" ELSE status
      /\ r2' = IF leng > 0 /\ IsNumber(s) THEN NumberOf(s) ELSE 2
      /\ last' = [op |-> "ReadNum", chars |-> s]
  BY <1>2, <1>3 DEF ReadNum
<1>5. /\ s \in Seq(Ascii) /\ input' \in Seq(Ascii) /\ Len(s) <= MaxNum
      /\ leng = -1 \/ leng = Len(s)
  BY <1>1, <1>2, <1>3, <1>4, ConsoleIs
<1>6. s \in Seq(Nat) /\ Len(s) \in Nat /\ Len(s) <= 9
  <2>1. s \in Seq(Nat) /\ Len(s) \in Nat
    BY <1>5, AsciiIsNat
  <2>2. Len(s) <= 9
    BY <1>1, <1>5, <2>1
  <2> QED
    BY <2>1, <2>2
<1>7. leng > 0 => Len(s) \in 1 .. 9 /\ leng = Len(s)
  <2>1. PICK l \in Nat : l = Len(s) /\ l <= 9
    BY <1>6
  <2>2. CASE leng = -1
    BY <2>2
  <2>3. CASE leng = Len(s)
    <3>1. \A k \in Nat : k > 0 /\ k <= 9 => k \in 1 .. 9
      BY ONLY TRUE
    <3> QED
      BY <2>1, <2>3, <3>1, Zenon
  <2> QED
    BY <1>5, <2>2, <2>3
<1>8. r2' \in MinInt .. MaxInt
  <2>1. CASE leng > 0 /\ IsNumber(s)
    BY <1>4, <1>6, <1>7, <2>1, NumberOfBound
  <2>2. CASE ~(leng > 0 /\ IsNumber(s))
    <3>1. r2' \in -2 .. 7
      BY <1>4, <2>2
    <3> QED
      BY <3>1, RegisterIs
  <2> QED
    BY <2>1, <2>2
<1>9. last'.op = "ReadNum" /\ last'.chars = s
  BY <1>4
<1>10. PrintNumDecimal'
  BY <1>9 DEF PrintNumDecimal
<1>11. ReadNumInverse'
  <2> SUFFICES ASSUME status' = "running", NEW num \in Number \ {MinInt}, IsDecimal(s, num)
               PROVE  r2' = num
    BY <1>9 DEF ReadNumInverse
  <2>1. num \in Int
    BY FileAssumption, MaxIntIs DEF MinInt
  <2>2. s # <<>>
    BY DEF IsDecimal
  <2>3. leng = Len(s) /\ leng > 0 /\ IsNumber(s)
    BY <1>4, <1>5, <1>6, <2>2
  <2>4. NumberOf(s) = num
    BY <1>6, <1>7, <2>1, <2>3, NumberOfDecimal
  <2> QED
    BY <1>4, <2>3, <2>4
<1> QED
  BY <1>5, <1>8, <1>10, <1>11 DEF NumbersInv, NumbersExact

(* PrintNum: what it writes is the number in decimal.                      *)
LEMMA PrintNumNumbers ==
  ASSUME Inv, NumbersInv, OutSize = 10, NEW num \in Number, PrintNum(num)
  PROVE  NumbersInv'
<1>1. input \in Seq(Ascii) /\ status = "running"
  BY DEF NumbersInv, PrintNum, Call
<1>2. PICK t : t = Text(num)
  OBVIOUS
<1>3. /\ status' = IF Len(t) > 10 THEN "overrun" ELSE status
      /\ r2' = 3 /\ input' = input /\ last' = [op |-> "PrintNum", num |-> num, chars |-> t]
  BY <1>2 DEF PrintNum
<1>4. last'.op = "PrintNum" /\ last'.num = num /\ last'.chars = t
  BY <1>3
<1>5. PrintNumDecimal'
  <2> SUFFICES ASSUME num > MinInt
               PROVE  IsDecimal(t, num) /\ (status' = "overrun" <=> num <= -1000000000)
    BY <1>4, SMT DEF PrintNumDecimal
  <2>1. num \in MinInt .. MaxInt
    BY FileAssumption
  <2>2. IsDecimal(t, num) /\ (Len(t) > 10 <=> num <= -1000000000)
    BY <1>2, <2>1, TextIs, SMT
  <2> QED
    BY <1>1, <1>3, <2>2, SMT
<1>6. ReadNumInverse'
  BY <1>4 DEF ReadNumInverse
<1>7. r2' \in MinInt .. MaxInt
  BY <1>3, RegisterIs
<1> QED
  BY <1>1, <1>3, <1>5, <1>6, <1>7 DEF NumbersInv, NumbersExact

LEMMA ConsoleStepNumbers ==
  ASSUME Inv, NumbersInv, MaxNum \in 0 .. 9, OutSize = 10, ConsoleStep
  PROVE  NumbersInv'
<1>1. input \in Seq(Ascii) /\ r2 \in MinInt .. MaxInt /\ PrintNumDecimal /\ ReadNumInverse
  BY DEF NumbersInv, NumbersExact
<1>2. ASSUME NEW line \in Line, NEW end \in {Newline, CtrlA}, Type(line, end) PROVE NumbersInv'
  <2>1. UNCHANGED <<status, r2, last>> /\ input' = Append(line, end)
    BY <1>2 DEF Type
  <2>2. line \in Seq(Ascii) /\ end \in Ascii
    BY FileAssumption DEF Newline, CtrlA, Ascii
  <2>3. input' \in Seq(Ascii)
    BY <2>1, <2>2
  <2>4. PrintNumDecimal' /\ ReadNumInverse'
    BY <1>1, <2>1, SMT DEF PrintNumDecimal, ReadNumInverse
  <2> QED
    BY <1>1, <2>1, <2>3, <2>4 DEF NumbersInv, NumbersExact
<1>3. ASSUME NEW n \in Count, ReadConsole(n) PROVE NumbersInv'
  <2>1. /\ last'.op = "Read" /\ ConsoleReady(n) /\ input' = ConsoleRest(n)
        /\ Returns(ConsoleChars(n), ConsoleResult(n))
    BY <1>3 DEF ReadConsole
  <2>2. n \in Nat /\ n <= MaxInt
    BY FileAssumption, MaxIntIs
  <2>3. PICK s \in Seq(Ascii) : s = ConsoleChars(n) /\ Len(s) <= n
    BY <1>1, <2>1, <2>2, ConsoleIs
  <2>4. input' \in Seq(Ascii) /\ (ConsoleResult(n) = -1 \/ ConsoleResult(n) = Len(s))
    BY <1>1, <2>1, <2>2, <2>3, ConsoleIs
  <2>5. ConsoleResult(n) \in Int /\ ConsoleResult(n) <= MaxInt
    BY <2>2, <2>3, <2>4, MaxIntIs
  <2> QED
    BY <2>1, <2>4, <2>5, ReturnsFits, NoNumber
<1>4. ASSUME NEW data \in Data, WriteConsole(data) PROVE NumbersInv'
  <2>1. last'.op = "Print" /\ r2' = Len(data) /\ input' = input
    BY <1>4 DEF WriteConsole
  <2>2. Len(data) \in Nat /\ Len(data) <= MaxInt
    BY FileAssumption
  <2> QED
    BY <1>1, <2>1, <2>2, RegisterIs, NoNumber
<1>5. ASSUME NEW data \in Data, PrintChar(data) \/ PrintString(data) PROVE NumbersInv'
  <2>1. last'.op = "Print" /\ r2' \in -2 .. 7 /\ input' = input
    BY <1>5 DEF PrintChar, PrintString
  <2> QED
    BY <1>1, <2>1, RegisterIs, NoNumber
<1>6. ASSUME NEW num \in Number, RandomNum(num) PROVE NumbersInv'
  <2>1. last'.op = "RandomNum" /\ r2' = num /\ input' = input
    BY <1>6 DEF RandomNum
  <2>2. num \in MinInt .. MaxInt
    BY FileAssumption
  <2> QED
    BY <1>1, <2>1, <2>2, NoNumber
<1>7. ASSUME ReadChar PROVE NumbersInv'
  <2>1. /\ last'.op = "ReadChar" /\ ConsoleReady(1) /\ input' = ConsoleRest(1)
        /\ r2' = IF ConsoleResult(1) = 1 THEN ConsoleChars(1)[1] ELSE 4
    BY <1>7 DEF ReadChar
  <2>2. PICK s \in Seq(Ascii) : s = ConsoleChars(1)
    BY <1>1, <2>1, ConsoleIs
  <2>3. input' \in Seq(Ascii) /\ (ConsoleResult(1) = -1 \/ ConsoleResult(1) = Len(s))
    BY <1>1, <2>1, <2>2, ConsoleIs
  <2>4. r2' \in Ascii
    <3>1. 4 \in Ascii
      BY DEF Ascii
    <3>2. ConsoleResult(1) = 1 => s[1] \in Ascii
      BY <2>3
    <3> QED
      BY <2>1, <2>2, <3>1, <3>2
  <2> QED
    BY <2>1, <2>3, <2>4, RegisterIs, NoNumber
<1>8. ASSUME NEW n \in Count \cup {0}, ReadString(n) PROVE NumbersInv'
  <2>1. r2' = 6 /\ n \in Nat
    BY <1>8, FileAssumption, MaxIntIs DEF ReadString
  <2>2. CASE n <= 0
    <3>1. last'.op = "halted" /\ input' = input
      BY <1>8, <2>2 DEF ReadString
    <3> QED
      BY <1>1, <2>1, <3>1, RegisterIs, NoNumber
  <2>3. CASE ~(n <= 0)
    <3>1. last'.op = "ReadString" /\ ConsoleReady(n) /\ input' = ConsoleRest(n)
      BY <1>8, <2>1, <2>3 DEF ReadString
    <3>2. input' \in Seq(Ascii)
      BY <1>1, <2>1, <3>1, ConsoleIs
    <3> QED
      BY <2>1, <3>1, <3>2, RegisterIs, NoNumber
  <2> QED
    BY <2>2, <2>3
<1>9. ASSUME SC_Halt PROVE NumbersInv'
  <2>1. last'.op = "halted" /\ r2' = r2 /\ input' = input
    BY <1>9 DEF SC_Halt
  <2> QED
    BY <1>1, <2>1, NoNumber
<1> QED
  BY <1>2, <1>3, <1>4, <1>5, <1>6, <1>7, <1>8, <1>9, ReadNumNumbers, PrintNumNumbers DEF ConsoleStep

(* With the buffers of the source, ReadNum's nine characters and PrintNum's *)
(* ten: PrintNum writes every number but the smallest in decimal and        *)
(* overruns its buffer exactly for ten digits with a sign, ReadNum gives    *)
(* back what is typed in decimal, and every result fits register 2.         *)
THEOREM NumbersStayExact ==
  ASSUME MaxNum \in 0 .. 9, OutSize = 10
  PROVE  Spec => []NumbersExact
<1>1. Init => NumbersInv
  <2> SUFFICES ASSUME Init PROVE NumbersInv
    OBVIOUS
  <2>1. last.op = "none" /\ r2 = 0 /\ input = <<>>
    BY DEF Init
  <2>2. r2 \in MinInt .. MaxInt
    BY <2>1, RegisterIs
  <2>3. input \in Seq(Ascii)
    BY <2>1
  <2> QED
    BY <2>1, <2>2, <2>3 DEF NumbersInv, NumbersExact, PrintNumDecimal, ReadNumInverse
<1>2. Inv /\ NumbersInv /\ [Next]_vars => NumbersInv'
  <2> SUFFICES ASSUME Inv, NumbersInv, [Next]_vars PROVE NumbersInv'
    OBVIOUS
  <2>1. CASE FileStep
    BY <2>1, FileStepNumbers
  <2>2. CASE ConsoleStep
    BY <2>2, ConsoleStepNumbers
  <2>3. CASE UNCHANGED vars
    <3>1. UNCHANGED <<status, r2, input, last>>
      BY <2>3 DEF vars
    <3> QED
      BY <3>1, SMT DEF NumbersInv, NumbersExact, PrintNumDecimal, ReadNumInverse
  <2> QED
    BY <2>1, <2>2, <2>3 DEF Next
<1>3. NumbersInv => NumbersExact
  BY DEF NumbersInv
<1> QED
  BY <1>1, <1>2, <1>3, Invariance, PTL DEF Spec
=============================================================================
