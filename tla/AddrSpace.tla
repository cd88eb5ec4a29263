----------------------------- MODULE AddrSpace -----------------------------
(***************************************************************************)
(* Address spaces (userprog/addrspace.cc), the bitmap of physical pages,   *)
(* and address translation (machine/translate.cc), for several processes   *)
(* that are created, run and exit at any time.                             *)
(*                                                                         *)
(* Kernel code is cut where simulated time advances, at P and V of         *)
(* addrLock; user code after every instruction, of which only loads and    *)
(* stores matter here.  A program is given by the sections the linker has  *)
(* made, which coff2noff (module Coff2noff) turns into the file that is    *)
(* loaded: code at virtual address 0, then the data, then .bss.            *)
(***************************************************************************)
EXTENDS Coff2noff, FiniteSets

CONSTANTS
  Proc,          \* threads that run user programs
  Main,          \* the first of them, started by StartProcess
  NumPhysPages,
  PageSize,
  UserStackSize,
  Program,       \* the linked programs, each a sequence of sections
  StoreByte,     \* bound: the bytes that user programs store
  AccessSize     \* bound: the sizes of the accesses of user programs

Frame == 0 .. NumPhysPages - 1
MemorySize == NumPhysPages * PageSize

IsZero(s) == s.s_name \in {".bss", ".sbss"}

(* The linker puts the code first, the data behind it and .sbss and .bss   *)
(* last.  It rounds sizes up, so that a .bss may begin before the end of   *)
(* .sbss (as in test/main.coff); these two have no bytes in the file.      *)
(* Every program is linked with start.o, so that the code is not empty;    *)
(* all the .coff files of test/ are laid out in this way.                  *)
Linked(sections) ==
  /\ sections # <<>> /\ sections[1].s_name = ".text" /\ sections[1].s_size > 0
  /\ sections[1].s_paddr = 0
  /\ \A i \in 1 .. Len(sections) :
       Len(sections[i].raw) = IF IsZero(sections[i]) THEN 0 ELSE sections[i].s_size
  /\ \A i \in 2 .. Len(sections) :
       LET last == sections[i - 1] IN
       /\ sections[i].s_name # ".text"
       /\ IF IsZero(last)
          THEN IsZero(sections[i]) /\ sections[i].s_paddr \in last.s_paddr .. last.s_paddr + last.s_size
          ELSE sections[i].s_paddr = last.s_paddr + last.s_size

ASSUME AddrSpaceAssumption ==
  /\ Main \in Proc
  /\ {NumPhysPages, PageSize} \subseteq Nat \ {0}
  /\ UserStackSize \in Nat
  /\ HeaderSize \in Nat
  /\ Program \subseteq Seq(Section)
  /\ \A sections \in Program : Linked(sections)
  /\ StoreByte \subseteq Nat
  /\ AccessSize \subseteq {1, 2, 4}
  /\ \A size \in AccessSize : PageSize % size = 0

NoPages == [i \in {} |-> 0]

VARIABLES
  pc,          \* where each process is: none, lock, alloc, load, run
  program,     \* the program of each process
  space,       \* physicalPage of each page of its space; NoPages is also numPages = 0
  hasSpace,    \* thread->space is not NULL
  bitmap,      \* gPhysPageBitMap: the frames that are marked
  addrLock,    \* the value of the semaphore
  mainMemory,
  cpu,         \* currentThread
  tableOf,     \* machine->pageTable is the table of this process
  machine      \* on, off (halted) or aborted (an ASSERT has failed)

vars == <<pc, program, space, hasSpace, bitmap, addrLock, mainMemory, cpu, tableOf, machine>>
-----------------------------------------------------------------------------
(* The loader.                                                             *)

DivRoundUp(n, s) == (n \div s) + (IF n % s > 0 THEN 1 ELSE 0)

NumPages(h) ==
  DivRoundUp(h.code.size + h.initData.size + h.uninitData.size + UserStackSize, PageSize)

(* Byte k of the file.                                                     *)
FileByte(h, k) == h.file[k - HeaderSize + 1]

(* Faulty variant of ReadAts: the data that does not fit behind the code   *)
(* is loaded from the start of the data again.                             *)
ReadAtsRestarting(h, pages) ==
  LET numCodePage == DivRoundUp(h.code.size, PageSize)
      room == numCodePage * PageSize - h.code.size
      rest == IF h.initData.size < room THEN 0 ELSE h.initData.size - room
  IN {[into |-> pages[i] * PageSize,
       size |-> IF i < numCodePage - 1 THEN PageSize ELSE h.code.size - i * PageSize,
       from |-> h.code.inFileAddr + i * PageSize] : i \in 0 .. numCodePage - 1}
     \cup
     {[into |-> pages[numCodePage + k] * PageSize, size |-> 1,
       from |-> h.initData.inFileAddr + k * PageSize] : k \in 0 .. DivRoundUp(rest, PageSize) - 1}

(* The calls of ReadAt in AddrSpace(char *filename), as areas of           *)
(* physical memory that are filled from a position in the file: the pages  *)
(* of code, the data that fits behind the code on its last page, the pages *)
(* of data.  No two of them overlap.                                       *)
ReadAts(h, pages) ==
  LET numCodePage == DivRoundUp(h.code.size, PageSize)
      lastCodePageSize == h.code.size - (numCodePage - 1) * PageSize
      tempDataSize == h.initData.size - (PageSize - lastCodePageSize)
      numDataPage == IF tempDataSize < 0 THEN 0 ELSE DivRoundUp(tempDataSize, PageSize)
      firstDataPageSize == IF tempDataSize < 0 THEN h.initData.size ELSE PageSize - lastCodePageSize
      lastDataPageSize == tempDataSize - (numDataPage - 1) * PageSize
      Into(page) == h.code.virtualAddr + pages[page] * PageSize
  IN {[into |-> Into(i), size |-> IF i < numCodePage - 1 THEN PageSize ELSE lastCodePageSize,
       from |-> h.code.inFileAddr + i * PageSize] : i \in 0 .. numCodePage - 1}
     \cup
     {[into |-> Into(i) + lastCodePageSize, size |-> firstDataPageSize,
       from |-> h.initData.inFileAddr] :
        i \in {k \in {numCodePage - 1} : lastCodePageSize < PageSize /\ firstDataPageSize > 0}}
     \cup
     {[into |-> Into(numCodePage + j),
       size |-> IF j < numDataPage - 1 THEN PageSize ELSE lastDataPageSize,
       from |-> h.initData.inFileAddr + j * PageSize + firstDataPageSize] : j \in 0 .. numDataPage - 1}

Filled(memory, h, reads) ==
  [a \in DOMAIN memory |->
     IF \E r \in reads : a \in r.into .. r.into + r.size - 1
     THEN LET r == CHOOSE r \in reads : a \in r.into .. r.into + r.size - 1
          IN FileByte(h, r.from + a - r.into)
     ELSE memory[a]]

Zeroed(memory, frames) == [a \in DOMAIN memory |-> IF a \div PageSize \in frames THEN 0 ELSE memory[a]]

(* numPages times BitMap::Find: the lowest clear frames, in order.         *)
FoundPages(marked, n) ==
  LET clear == Frame \ marked
      rank(f) == Cardinality({g \in clear : g < f})
  IN [i \in 0 .. n - 1 |-> CHOOSE f \in clear : rank(f) = i]

RangeOf(f) == {f[x] : x \in DOMAIN f}
(* The programs of which there is a NOFF file.                             *)
Converted == {sections \in Program : Noff(sections).ok}
-----------------------------------------------------------------------------
Init ==
  /\ pc = [p \in Proc |-> IF p = Main THEN "boot" ELSE "none"]
  /\ \E c \in Converted : program = [p \in Proc |-> c]  \* of Main: argv of nachos -x
  /\ space = [p \in Proc |-> NoPages]
  /\ hasSpace = [p \in Proc |-> FALSE]
  /\ bitmap = {}
  /\ addrLock = 1
  /\ mainMemory = [a \in 0 .. MemorySize - 1 |-> 0]
  /\ cpu = Main
  /\ tableOf = Main
  /\ machine = "on"

On(p, at) == machine = "on" /\ cpu = p /\ pc[p] = at
GoTo(p, at) == pc' = [pc EXCEPT ![p] = at]

(* StartProcess: the constructor AddrSpace(OpenFile *e) takes its frames    *)
(* from the bitmap but loads the program at physical addresses equal to    *)
(* the virtual ones, which is right because the bitmap is empty.           *)
StartProcess ==
  LET h == Noff(program[Main])
      n == NumPages(h) IN
  /\ On(Main, "boot")
  /\ \/ /\ n <= Cardinality(Frame \ bitmap)
        /\ space' = [space EXCEPT ![Main] = FoundPages(bitmap, n)]
        /\ bitmap' = bitmap \cup RangeOf(space'[Main])
        /\ mainMemory' = Filled(Zeroed(mainMemory, 0 .. n - 1), h,
                                {[into |-> seg.virtualAddr, size |-> seg.size,
                                  from |-> seg.inFileAddr] : seg \in {h.code, h.initData}})
        /\ hasSpace' = [hasSpace EXCEPT ![Main] = TRUE]
        /\ tableOf' = Main
        /\ GoTo(Main, "run")
        /\ UNCHANGED machine
     \/ /\ n > Cardinality(Frame \ bitmap)
        /\ machine' = "aborted"
        /\ UNCHANGED <<pc, space, hasSpace, bitmap, mainMemory, tableOf>>
  /\ UNCHANGED <<program, addrLock, cpu>>

(* A running process executes program c in a new thread p, which begins    *)
(* StartProcess_2: the file is opened and its header read.                 *)
Exec(p, c) ==
  /\ On(cpu, "run") /\ hasSpace[cpu] /\ space[cpu] # NoPages
  /\ pc[p] = "none"
  /\ GoTo(p, "lock")
  /\ program' = [program EXCEPT ![p] = c]
  /\ UNCHANGED <<space, hasSpace, bitmap, addrLock, mainMemory, cpu, tableOf, machine>>

(* addrLock->P().                                                          *)
LockMemory(p) ==
  /\ On(p, "lock")
  /\ addrLock > 0
  /\ addrLock' = addrLock - 1
  /\ GoTo(p, "alloc")
  /\ UNCHANGED <<program, space, hasSpace, bitmap, mainMemory, cpu, tableOf, machine>>

(* The rest of the critical section: frames are found, marked and zeroed,  *)
(* or there are too few of them and the space stays empty.  addrLock->V(). *)
Allocate(p) ==
  LET n == NumPages(Noff(program[p])) IN
  /\ On(p, "alloc")
  /\ \/ /\ n <= Cardinality(Frame \ bitmap)
        /\ space' = [space EXCEPT ![p] = FoundPages(bitmap, n)]
        /\ bitmap' = bitmap \cup RangeOf(space'[p])
        /\ mainMemory' = Zeroed(mainMemory, RangeOf(space'[p]))
        /\ GoTo(p, "load")
     \/ /\ n > Cardinality(Frame \ bitmap)
        /\ GoTo(p, "start")
        /\ UNCHANGED <<space, bitmap, mainMemory>>
  /\ addrLock' = addrLock + 1
  /\ UNCHANGED <<program, hasSpace, cpu, tableOf, machine>>

(* Code and data are read in, and StartProcess_2 goes on: InitRegisters,   *)
(* RestoreState.                                                           *)
Load(p) ==
  /\ machine = "on" /\ cpu = p /\ pc[p] \in {"load", "start"}
  /\ mainMemory' = IF pc[p] = "start" THEN mainMemory
                   ELSE Filled(mainMemory, Noff(program[p]), ReadAts(Noff(program[p]), space[p]))
  /\ hasSpace' = [hasSpace EXCEPT ![p] = TRUE]
  /\ tableOf' = p
  /\ GoTo(p, "run")
  /\ UNCHANGED <<program, space, bitmap, addrLock, cpu, machine>>
-----------------------------------------------------------------------------
(* Machine::Translate, with the page table that the machine has: the       *)
(* physical address, or -1 for AddressErrorException.  No entry is invalid *)
(* or read-only, and every frame exists.                                   *)
Translate(virtAddr, size) ==
  LET table == space[tableOf]
      vpn == virtAddr \div PageSize
  IN IF virtAddr % size # 0 \/ vpn \notin DOMAIN table THEN -1
     ELSE table[vpn] * PageSize + (virtAddr % PageSize)

(* The running program stores v in each of size bytes (WriteMem); when     *)
(* that raises an exception the handler fails an ASSERT.                   *)
WriteMem(p, virtAddr, size, v) ==
  LET physAddr == Translate(virtAddr, size) IN
  /\ On(p, "run")
  /\ \/ /\ physAddr # -1
        /\ mainMemory' = [a \in DOMAIN mainMemory |->
                            IF a \in physAddr .. physAddr + size - 1 THEN v ELSE mainMemory[a]]
        /\ UNCHANGED machine
     \/ /\ physAddr = -1
        /\ machine' = "aborted"
        /\ UNCHANGED mainMemory
  /\ UNCHANGED <<pc, program, space, hasSpace, bitmap, addrLock, cpu, tableOf>>

(* Faulty variant of Exit: all frames but the first are given back.        *)
ExitLeaking(p) ==
  /\ p # Main
  /\ On(p, "run") /\ space[p] # NoPages
  /\ bitmap' = bitmap \ {space[p][i] : i \in DOMAIN space[p] \ {0}}
  /\ space' = [space EXCEPT ![p] = NoPages]
  /\ hasSpace' = [hasSpace EXCEPT ![p] = FALSE]
  /\ GoTo(p, "none")
  /\ UNCHANGED <<program, addrLock, mainMemory, cpu, tableOf, machine>>

(* Exit: the destructor of the space gives the frames back, without taking *)
(* addrLock, and the thread finishes.  The exit of Main halts the machine. *)
Exit(p) ==
  /\ On(p, "run") /\ space[p] # NoPages
  /\ \/ /\ p # Main
        /\ bitmap' = bitmap \ RangeOf(space[p])
        /\ space' = [space EXCEPT ![p] = NoPages]
        /\ hasSpace' = [hasSpace EXCEPT ![p] = FALSE]
        /\ GoTo(p, "none")
        /\ UNCHANGED machine
     \/ /\ p = Main
        /\ machine' = "off"
        /\ UNCHANGED <<pc, space, hasSpace, bitmap>>
  /\ UNCHANGED <<program, addrLock, mainMemory, cpu, tableOf>>

(* Scheduler::Run: the CPU goes to p, whose page table is restored if it   *)
(* has a space.                                                            *)
Dispatch(p) ==
  /\ machine = "on"
  /\ p # cpu
  /\ pc[p] # "none" /\ ~(pc[p] = "lock" /\ addrLock = 0)
  /\ pc[cpu] # "boot"
  /\ cpu' = p
  /\ tableOf' = IF hasSpace[p] THEN p ELSE tableOf
  /\ UNCHANGED <<pc, program, space, hasSpace, bitmap, addrLock, mainMemory, machine>>

Stopped == machine # "on" /\ UNCHANGED vars
-----------------------------------------------------------------------------
Next ==
  \/ StartProcess
  \/ \E p \in Proc :
       \/ \E c \in Converted : Exec(p, c)
       \/ LockMemory(p) \/ Allocate(p) \/ Load(p)
       \/ \E a \in 0 .. MemorySize, size \in AccessSize, v \in StoreByte : WriteMem(p, a, size, v)
       \/ Exit(p)
       \/ Dispatch(p)
  \/ Stopped

Spec == Init /\ [][Next]_vars
-----------------------------------------------------------------------------
(* Properties.                                                             *)

TypeOK ==
  /\ pc \in [Proc -> {"none", "boot", "lock", "alloc", "load", "start", "run"}]
  /\ program \in [Proc -> Converted]
  /\ \A p \in Proc : space[p] \in [0 .. Cardinality(DOMAIN space[p]) - 1 -> Frame]
  /\ hasSpace \in [Proc -> BOOLEAN]
  /\ bitmap \subseteq Frame
  /\ addrLock \in 0 .. 1
  /\ DOMAIN mainMemory = 0 .. MemorySize - 1
  /\ cpu \in Proc
  /\ tableOf \in Proc
  /\ machine \in {"on", "off", "aborted"}

(* No frame is leaked or given away twice: the frames that are marked are  *)
(* those of the page tables in use, no frame is in two of them, and no     *)
(* table has a frame twice.                                                *)
FramesExact ==
  /\ bitmap = UNION {RangeOf(space[p]) : p \in Proc}
  /\ \A p, q \in Proc : \A i \in DOMAIN space[p], j \in DOMAIN space[q] :
       space[p][i] = space[q][j] => p = q /\ i = j

(* User code of a process is translated with the page table of that        *)
(* process, whatever the others did while it was not running.              *)
OwnTable == machine = "on" /\ pc[cpu] = "run" => tableOf = cpu

(* The memory a process sees, as the machine would translate it.           *)
VirtualMemory(p) ==
  IF pc[p] = "run"
  THEN [a \in 0 .. Cardinality(DOMAIN space[p]) * PageSize - 1 |->
          mainMemory[space[p][a \div PageSize] * PageSize + (a % PageSize)]]
  ELSE [a \in {} |-> 0]

(* The image of a program, as it was linked, in a memory of n pages: the  *)
(* bytes of each section at its address, the rest zero.                    *)
LinkedImage(sections, n) ==
  LET Holds(k, a) == a - sections[k].s_paddr \in 0 .. Len(sections[k].raw) - 1
  IN [a \in 0 .. n * PageSize - 1 |->
        IF \E k \in DOMAIN sections : Holds(k, a)
        THEN LET k == CHOOSE k \in DOMAIN sections : Holds(k, a)
             IN sections[k].raw[a - sections[k].s_paddr + 1]
        ELSE 0]

(* The pages that the sections and the stack need.                         *)
PagesNeeded(sections) ==
  DivRoundUp(sections[Len(sections)].s_paddr + sections[Len(sections)].s_size + UserStackSize, PageSize)

ProgramImage ==
  UNION {{LinkedImage(sections, n) : n \in PagesNeeded(sections) .. NumPhysPages} : sections \in Converted}

Private == INSTANCE PrivateMemory WITH
  Byte <- StoreByte, Image <- ProgramImage, vm <- [p \in Proc |-> VirtualMemory(p)]

(* coff2noff, the loader, the page tables and the bitmap together          *)
(* implement private memories: no step of one process changes what another *)
(* sees, a program starts with exactly the image that was linked, and the  *)
(* pages of a process that has exited carry nothing over.                  *)
MemoryIsPrivate == Private!Spec

(* Frames belong to exactly one page of one process or are free, although  *)
(* the destructor does not take addrLock, and the process on the CPU is    *)
(* translated by its own page table.                                       *)
FramesInv == TypeOK /\ FramesExact /\ OwnTable
=============================================================================
