# A TLA+ model of the Nachos kernel of OS_Project02

The repository is a course project on Nachos 3.4: a teaching operating system
that runs as one UNIX process and simulates a uniprocessor MIPS machine with
interrupts. The students' own work is multiprogramming: a process table
(`PTable`, `PCB`), user semaphores (`STable`), address spaces that share physical
memory, a synchronised console, and the system calls on them. All paths below
are relative to `src/nachos/nachos-3.4/code/`.

## 1. The system

| component | state | operations | interacts with |
|---|---|---|---|
| `Thread`, `Scheduler` (`threads/thread.cc`, `scheduler.cc`) | `status`, `readyList`, `currentThread`, `threadToBeDestroyed` | Fork, Yield, Sleep, Finish, ReadyToRun, FindNextToRun, Run | everything that blocks |
| `Semaphore`, `Lock`, `Condition` (`threads/synch.cc`) | `value`, `queue` | P, V (Lock and Condition are empty stubs) | scheduler; called from threads and from interrupt handlers |
| `Interrupt`, `Timer` (`machine/interrupt.cc`, `timer.cc`) | `level`, `pending`, `yieldOnReturn` | SetLevel, OneTick, Idle, Schedule, CheckIfDue, Halt | calls the devices' handlers; a timer interrupt (flag `-rs`) makes the current thread yield |
| `PTable`, `PCB` (`threads/ptable.cc`, `pcb.cc`) | `pcb[10]`, `bm`, `bmsem`; per PCB `joinsem`, `exitsem`, `exitcode`, `pid`, `parentID`, `thread` | ExecUpdate, JoinUpdate, ExitUpdate, Remove | system calls Exec, Join, Exit; Thread::Fork, Finish; AddrSpace |
| `STable` (`threads/stable.cc`) | `lockTab[10]`, `bm` | Create, Wait, Signal | system calls CreateSemaphore, Wait, Signal |
| `AddrSpace` (`userprog/addrspace.cc`, `bitmap.cc`) | `gPhysPageBitMap`, `addrLock`, page tables | two constructors, destructor, RestoreState | Exec, PCB::~PCB, Machine::Translate |
| `SynchConsole`, `Console` (`threads/synchcons.cc`, `machine/console.cc`) | line locks, `readAvail`, `writeDone`, `incoming`, `putBusy` | Read, Write; PutChar, GetChar and two interrupt handlers | console system calls |
| open files (`userprog/exception.cc`, `filesys/filesys.h`, `openfile.h`) | `file[10]`, UNIX descriptors | CreateFile, Open, Close, Read, Write | stub file system, console |
| console calls (`userprog/exception.cc`) | user memory, r2 | ReadNum, PrintNum, ReadChar, PrintChar, ReadString, PrintString | SynchConsole |
| `FileSystem`, `Directory`, `FileHeader`, `OpenFile` (`filesys/`) | sectors on disk: free map, directory, headers, data | Create, Open, Remove, Seek, ReadAt, WriteAt | SynchDisk |
| `SynchDisk`, `Disk` (`filesys/synchdisk.cc`, `machine/disk.cc`) | `semaphore`, `lock`, `active`, `lastSector`, `bufferInit` | ReadSector, WriteSector, RequestDone | interrupts, file system |
| `PostOffice`, `Network` (`network/post.cc`, `machine/network.cc`) | mailboxes, `messageAvailable`, `messageSent`, `inHdr` | Send, Receive, PostalDelivery, PutPacket | interrupts; unreliable delivery |
| MIPS machine (`machine/mipssim.cc`, `machine.cc`, `translate.cc`) | registers, delayed load, main memory, page table | OneInstruction, Translate, RaiseException | system calls, context switch |
| `runprogram` (`bin/execute.c`) | the same registers | a second interpreter | none; a reference for the first |
| `coff2noff` (`bin/coff2noff.c`) | sections of an object file | conversion to the format AddrSpace loads | AddrSpace |

What is hard here: a time slice at any point where simulated time advances; the
wake-up of a waiter separated from its consuming the value; carcasses deleted by
other threads; table slots looked up by name and reused; parents and children
that wait for each other; devices that accept one request at a time; a machine
that stops between two sector writes; packets that are lost; two delays (loads and
branches) that a trap or a context switch may fall into. The hazards, at their lines, are listed in `PROJECT.json`.

What makes each component correct:

- **Threads**: every thread is in exactly one place (CPU, ready list, one queue);
  no V is left over beside a sleeper; a carcass is deleted once, and never the
  stack in use; with time slicing a ready thread runs.
- **PTable**: Exec never overwrites a slot in use and releases `bmsem` on every
  path; Join returns the exit code of the child it names; no slot leaks; no
  pointer of the table is used after its object is gone; calls that wait for
  nobody complete.
- **STable**: a name denotes one semaphore for good; Wait returns only as often as
  the initial value and the Signals allow; failed calls use up no slot.
- **AddrSpace**: each process has a memory of its own that starts as its program;
  frames are neither shared nor leaked.
- **SynchConsole**: lines are not mixed up, no character is lost, read twice or
  reordered, the device is never given a character while it is busy.
- **Open files**: a descriptor denotes one open file from Open to Close; 0 and 1 are
  the console.
- **Numbers**: what PrintNum prints, ReadNum reads, up to the limits of both.
- **FileSystem**: free map, directory and headers agree; reads return what was
  written; a crash in an operation on one file costs no other a byte.
- **SynchDisk**: one request at a time; each caller returns after its own request.
- **PostOffice**: each packet is delivered at most once, in order, to the mailbox it
  names; no packet is left in the buffer.
- **Machine**: a program cannot tell that it shares the processor, nor that it is
  simulated.

## 2. Modules

| module | models | actions correspond to |
|---|---|---|
| `Threads` | threads, scheduler, semaphores, interrupts, timer | pieces of code between two ticks |
| `PTable` | process table, Exec, Join, Exit | pieces of a system call between two ticks |
| `STable` | user semaphores | system calls, cut at `P` |
| `AddrSpace` | physical frames, page tables, loaders, stores | pieces of the constructors, one store, one exit |
| `PrivateMemory` | what `AddrSpace` promises | create, store, discard |
| `Coff2noff` | which sections are converted, and where they go | (operators, used by `AddrSpace`) |
| `SynchConsole` | line console and character device | pieces of Read and Write, two interrupts |
| `FileTable` | open files and the console system calls, over the stub file system | one system call |
| `Numbers` | the conversions of ReadNum and PrintNum | (operators, used by `FileTable`) |
| `FileSystem` | the Nachos file system on sectors | one operation, or one cut short by a crash |
| `FlatFiles` | what `FileSystem` promises | one call |
| `SynchDisk` | disk requests in simulated time, pending interrupts, timer | pieces of code between two ticks, one CheckIfDue |
| `PostOffice` | post offices, network devices, `MailTest` | pieces of Send and Receive, two interrupts, the worker |
| `LossyMail` | what `PostOffice` promises | send, deliver, receive |
| `Mips` | decoding and execution of one instruction by the simulator | (operators, used by `UserMachine`) |
| `Runprogram` | execution of one instruction by `bin/execute.c` | (operators, used by `UserMachine`) |
| `UserMachine` | threads that share the processor | one instruction, one system call, one switch |
| `MC*` | constants for TLC | |
| `ThreadsProofs`, `PTableProofs`, `AddrSpaceProofs`, `SynchConsoleProofs`, `FileTableProofs`, `FileSystemProofs`, `SynchDiskProofs`, `PostOfficeProofs` | theorems about the module each is named after (section 4); `ThreadsProofs` also has those about `STable` | |

Nothing is preempted between two ticks (the machine is a uniprocessor and
interrupts are delivered only in `Interrupt::OneTick` and `Interrupt::Idle`), so
the code between two ticks is one action everywhere. `Threads` models how P, V,
Yield and Sleep are built from these; the other modules use its result: a P is a
wait for a positive counter, a V an increment, and a ready thread eventually runs.

Operators whose comment begins with "Faulty variant" are deliberate errors. No
specification uses them; each run is also expected to fail when the definition
they vary is replaced by them (`mutants` in `PROJECT.json`), which shows that its
properties depend on that code.

### Threads

The variable `mode` says at which kind of point the CPU is; `cont` says where a
suspended thread will go on after `SWITCH`.

| action | code |
|---|---|
| `Fork`, `Yield`, `Finish` | the methods of `Thread` |
| `PTake`, `PSleep` | one evaluation of the loop test in `Semaphore::P` and what follows it |
| `V` | `Semaphore::V` |
| `StartIO` | `Interrupt::Schedule` by a device |
| `UserInstruction` | one turn of `Machine::Run` |
| `RunSelf` | `scheduler->Run(currentThread)` in `StartProcess_2` |
| `Halt` | `Interrupt::Halt`, by the system call |
| `FireDevice`, `FireTimer`, `EndTick`, `TickYield` | `Interrupt::OneTick` |
| `IdleDevice`, `IdleTimer`, `IdleReturn`, `IdleHalt` | `Interrupt::Idle` |

Simulated time is abstracted: any pending device interrupt, and with `-rs` the
timer, may be due at any tick. A thread is an object that is forked at most once.
`Lock` and `Condition` are empty stubs in this repository and have no action.

### PTable

A system call is cut at the end of each P, V and Fork. `Dispatch` gives the CPU
to another thread: when the current one blocks, ends or is in user mode, and with
time slicing (flag `-rs`) at every cut. `machine` becomes a fault when the code
would dereference NULL, use a deleted thread, or delete a semaphore in use; the
model stops there, because what follows is undefined. `IdleHalt` is the end of a
system in which everybody waits: `Interrupt::Idle` halts the machine when nothing is
pending, and once a `SynchConsole` exists, whose polls are always pending, it idles for
ever; no process takes another step either way. The
uninitialised `PCB::pid` is any member of `Garbage`. A new thread is any one that
was not used before, and the model always takes the same one (`NewThread`);
`ThreadLeft` bounds their number and stands before Exec begins, since the code
itself never lacks a thread.

A setting, chosen by `Init`, says whether there is time slicing and which rules
the user programs keep to: no program twice at the same time, a parent outlives
its children, one child at a time, one Join per child. Without them the code goes
wrong, and the properties say so in their conditions:

- with time slicing a child may reach Exit before `ExecUpdate` has stored its pid
  (`ExitKnowsPid` is conditional on `Calm`);
- a program that runs twice is looked up by name, so the exit of one process
  deletes the semaphores the other waits on;
- with two children any exit releases any Join (run `ptable_join`).

A thread that finishes while another carcass is waiting overwrites
`threadToBeDestroyed`: memory leaks, nothing else. `CarcassSafe` of `Threads` says
what does hold.

### STable

`CreateSemaphore`, `SysWait` and `SysSignal` are the system calls, which use
`Create`, `Wait`, `Signal` of the table; `P` is the rest of a Wait. The name of a
semaphore is freed memory once `CreateSemaphore` has returned, so `namesKept`,
chosen at the start, says whether comparisons still read the old name or give any
result. `WaitsAllowed` and `ErrorMeansMissing` hold while it reads the old names;
once the memory is reused, Wait and Signal may return -1 or act on another
semaphore. `initial`, `signalled` and `waited` are history variables. The specification is
called `TableSpec`, not `Spec`, because `ThreadsProofs` extends both `Threads` and `STable`.

### Coff2noff, AddrSpace and PrivateMemory

The two constructors (`AddrSpace(OpenFile*)` for the first program,
`AddrSpace(char*)` for the others) are cut at `addrLock`; loading happens after
its release. A program is what the linker makes, sections with addresses and bytes;
`Converted` gives the NOFF file that `coff2noff` makes of it, or says that it
refuses. Every byte tells where it came from. Programs begin with a `.text` that is
not empty, since `start.o` is linked into each, and `coff2noff` would leave the address
of the code uninitialised without it; then come the data, then `.sbss` and `.bss`, without
gaps (`Linked`). All eleven `.coff` files of `test/` are laid out like this; code of size 0,
for which the page arithmetic of the second constructor is off, is therefore out of
reach. The linker rounds sizes up, so `.sbss` and `.bss`
may overlap, as they do in three of these files. The test of `coff2noff`
whether they are contiguous is the wrong way round: it refuses the ones that are
and accepts the others; the instance has a program that is refused for this
reason and one that is accepted. An accepted file asks for at least the memory that
the program was linked for, and every address in it. User code is loads and stores through the page
table that `machine->pageTable` refers to at that moment. `MemoryIsPrivate` is the
refinement: mapping each running process to the contents of its pages implements
`PrivateMemory!Spec`, whose processes start with `LinkedImage`, the image that was
linked: converter, loader and translation together lose nothing.

### SynchConsole

`Read` and `Write` are cut after every P and V. `CheckCharAvail` is the polling
interrupt, `WriteDone` the completion interrupt. What the user types is one of
a set of sequences that contain the characters the code treats specially: line
feed, ^A, and the byte 0xFF, which as a `char` equals EOF. Every caller in
`exception.cc` asks for at least one byte, and so do the calls of the model.
`ch` and `into` are Read's local variable and the buffer it fills; `got` is a history
of what all readers got, and `ReadReturnsLine` relates the two: a Read returns one
stretch of the input, up to the end of its line or to its length, and its count.

### FileTable and Numbers

All processes share the ten descriptors of `FileSystem::file`; 0 and 1 are the
console. One call is one step, because nothing inside it ticks except console
input and output, which `SynchConsole` takes apart. The stub file system keeps
Nachos files as UNIX files; `unix` and `fds` are the host's. `ideal` and `at` are
what the files should hold and where the descriptors should be. Facts of the code that
the model keeps:

- Open tests the type before it looks at the name, so `Open("stdin", 2)` gives -1;
- an empty console line leaves the code of the call in r2 (ReadNum returns 2,
  ReadChar 4) and the buffer of ReadString as it was;
- CreateFile of a file that cannot be opened stops the machine by an ASSERT in
  `OpenForWrite` instead of returning -1;
- a 0 in the data ends what `User2System` and `System2User` copy, so only the
  length of a file is right then (`text` becomes FALSE);
- PrintNum of the least int prints "-" only, and a number of eleven characters is
  written behind the ten of its buffer (`status = "overrun"`);
- ReadNum reads nine characters; the rest of the line stays for the next call.

The files of user programs have names other than `stdin` and `stdout`, which the
code opens as the console.

### FileSystem and FlatFiles

A sector is a header or a row of bytes; a byte is abstract (some bits of the free
map, half of a directory entry, a byte of data). `ReadAt` and `WriteAt` treat the
first and last sector as the code does, also for the map and the directory, which
are files themselves, so a directory entry may lie across two sectors. An
operation is one step, since the code says that it has no concurrency control, but it
is defined by its sequence of sector writes: `CrashInCreate`, `CrashInRemove` and
`CrashInWrite` stop after any proper part of it and start again with
`FileSystem(FALSE)`, whose constructor creates and opens the console files.

`intact` becomes FALSE with a crash inside an operation and with a write to a
removed file that is still open (whose sectors may belong to another by then): the
code promises nothing for the free map from there on. `FlatFiles` has the same
condition: until then files are sequences of bytes with a fixed length, and a crash
touches only the file of the interrupted operation. The constructor's Open puts
the console files into slots 2 and 3 as well as 0 and 1, as in the code. No file is
larger than `MaxFileSize` (`MaxFileSizeAssumption`): `Allocate` does not compare the
number of sectors with the `NumDirect` entries of `dataSectors`, and would write past
them. Names stay below ten characters.

### SynchDisk

`Lock::Acquire` is empty, so ReadSector and WriteSector are a request to the disk and
a P. Time is the simulated time: `pending` is the sorted list of `Interrupt`
with `SortedInsert` and `SortedRemove`, one `CheckIfDue` is one step, and the timer
of `-rs` has its random intervals. The latency is that of `Disk::ComputeLatency`
with its seek, rotation and track buffer; `PassEnds` defines by the movement of
the disk when a sector has gone by: the first moment, from the request on, at which
it has turned under the head as a whole. `Init` chooses whether callers take turns
(`serial`), as the comment on the lock expects, or overlap; overlapping callers
fail the ASSERT of `Disk` or take each other's token, so `ReturnsAfterDone` is
about `serial`, while `LatencyExact`, `AccessReturns` and the parts of `DiskInv` hold
for both. When the timer is
the only pending interrupt, Idle leaves one that is due at this very tick.

### PostOffice and LossyMail

Each machine has a socket, the one-packet buffer of `Network`, a worker
(`PostalDelivery`) and mailboxes. Threads and interrupts interleave where a P
returns. When a poll or the end of a packet comes depends on clocks that run apart, so
they come at any time. Semaphores are their values. `sendLock` is empty and, although
a comment in `post.cc` says that only one message can be sent at a time, `Network::Send`
never sets `sendBusy`: the Sends of one machine overlap, each with an interrupt of its
own, and a Send may return by the token of another one. A client may send to its own machine. `Init` chooses whether packets may
be lost and which rules clients keep: "patient" (Receive only from a box with mail, which is what a
working `Condition::Wait` would do; here it is an ASSERT(FALSE)), "mailtest" (the
clients are those of `nettest.cc`, which is made for two machines). Mailbox numbers and lengths are legal ones; a
socket of the host holds any number of packets. `ImplementsLossyMail` holds
whatever the clients do.

### Mips, Runprogram and UserMachine

`OneInstruction` of the simulator and the interpreter loop of `bin/execute.c` are two
operators on registers and memory. A word has four bytes of `ByteBits` bits, and
every mask, shift and overflow is relative to that. In `UserMachine` the word at PC is
any word of the set of the instance, so a program is any sequence of them.
`Interrupt` and `Switch` are what an interrupt at the tick after an instruction may lead to:
`CheckIfDue` calls `DelayedLoad(0, 0)` before any handler, so a load in flight
is delivered early, and then the thread goes on, or `Scheduler::Run` puts
another one in its place with SaveUserState and RestoreUserState. `SystemCall` is
a handler that writes r2 and calls `IncreasePC`. Beside the machine, `alone` runs each
thread's program on a machine of its own, without interrupts. A program that uses a
register in the delay slot of its load can tell the difference: with `LW r3` and then
`ADD r3,..` the load overwrites the sum, unless an interrupt comes between them.
So `RunsAlone` is about programs that have kept to the architecture's rule so far
(`alone[t].keeps`, by `KeepsToSlot`), while `KernelSeesLoads` says of all programs that no load is in
flight in the kernel or across a switch. `SameAsRunprogram` compares each
instruction with the other interpreter, except for what `Differs` lists: OR, SRL and
SRLV (arithmetic in the simulator), ANDI, ORI, XORI (sign-extended in
`execute.c`), LWL, LWR, SWL, SWR, division by zero, the high word of
products (`execute.c` drops carries), JALR with rd = rs, a linking branch on
r31, a branch in a delay slot, the use of a register in its load-delay slot, and
overflow exceptions.

## 3. Runs

| run | instance | shows |
|---|---|---|
| `threads` | 3 threads, 2 semaphores (one of a device), value + pending <= 2, `-rs`; about 50 000 states | `TypeOK`, `ThreadPlacement`, `NoLostWakeup`, `CarcassSafe`, `FinishIsFinal`, `ReadyRuns` |
| `ptable` | three settings: main and 3 processes with all rules and no `-rs`; main and 2 processes with all rules and `-rs`; main and 2 processes of one program with `-rs` and no rules; 3 slots; about 54 000 states | `TableInv`, `TableExact`, `NoFault`, `JoinReturnsExitCode`, `SyscallsComplete` |
| `ptable_join` | main and 2 children at a time | violation of `JoinZeroMeansSuccess`: any child releases any Join |
| `stable` | 2 threads with 3 calls each, 2 names, 2 slots, initial values -1, 0 and 1; about 520 000 states | `STableInv`, `SemaphoresStay`, `ErrorMeansMissing` |
| `addrspace` | 3 processes, 4 frames of 2 bytes, 7 programs, some of them refused; about 233 000 states | `FramesInv`, and the refinement `MemoryIsPrivate` |
| `console` | 2 threads with 2 calls of up to 2 bytes, 3 typed sequences; about 131 000 states | `ConsoleInv`, `LinesWhole`, `InputKept`, `ReadReturnsLine`, `ConsoleGoesOn` |
| `files` | 2 files, 2 free slots, 6 file calls or 3 console calls, numbers at the limits; about 156 000 states | `DescriptorsInv`, `FilesAsWritten`, `ReadDelivers`, `NumbersExact` |
| `filesys` | 11 sectors of 5 bytes, 3 names, 5 operations that change the disk; about 50 000 states | `DiskInv`, `NeverFails`, `CrashLeaksNothing`, and the refinement `ImplementsFlatFiles` |
| `disk` | 2 threads, 2 tracks of 3 sectors, requests until tick 10; about 99 000 states | `DiskInv`, `LatencyExact`, `ReturnsAfterDone`, `AccessReturns` |
| `post` | 2 machines, 3 clients, 2 boxes; 3 calls of two clients on one machine, or MailTest; about 130 000 states | `PostInv`, the refinement `ImplementsLossyMail`, `MailArrives`, `MailTestEnds` |
| `machine` | 2 threads with 2 and 1 instructions, every opcode and function code, words of 8 bits; about 41 000 states | `MachineInv`, `MultExact`, `SameAsRunprogram` |
| `mips_or` | the same | violation of `OrAsOnHardware`: OR combines rs with itself |

Each module has one invariant that is a conjunction of its type invariant and of named
parts, each with a comment of its own:

| invariant | parts beside `TypeOK` |
|---|---|
| `PTable!TableInv` | `ExecExclusive`, `SlotsMarked` |
| `PTable!TableExact` | (not `TypeOK`) `SlotsExact`, `FamilyTree`, `ExitKnowsPid` |
| `STable!STableInv` | `SlotsExact`, `WaitsAllowed` |
| `AddrSpace!FramesInv` | `FramesExact`, `OwnTable` |
| `SynchConsole!ConsoleInv` | `PutCharReady`, `BufferedIsSignalled` |
| `FileTable!DescriptorsInv` | `DescriptorsExact` |
| `FileSystem!DiskInv` | `MapExact`, `HeaderCurrent` |
| `SynchDisk!DiskInv` | `NeverLate`, `TokensMatchWaiters` |
| `PostOffice!PostInv` | `PacketIsSignalled`, `TokensMatchSenders`, `OnlyHaltStops` |
| `UserMachine!MachineInv` | `RunsAlone`, `KernelSeesLoads` |

**Why the bounds are enough.** `threads`: a waiter, a thread that barges in and a
third that is ready, finished or new are the cases that P, V and Run distinguish;
two semaphores tell a device's wake-up from a thread's. The theorems of section 4
remove the bounds of this run and of `ptable`, `stable`, `addrspace`, `console`,
`files`, `filesys`, `disk` and `post` for their safety properties and the three refinements. `ptable`: three slots are filled,
refused and reused, with a chain of a parent, a child and a grandchild; two
children of one parent are what Join mixes up. `stable`: two slots can be filled
by two names, so a third creation fails, and one thread can sleep while the
other creates and signals. `addrspace`: four frames do not suffice for three
processes, so allocation fails, frames are reused dirty and in an order that is
not that of the pages; the programs cover code and data that share a page, data
that goes on behind it, data on a page of its own before `.bss`, and `.sbss` and
`.bss` that overlap. `console`: two
calls of each thread let a Read follow a Read and a Write follow a Write of the
same and of the other thread, and two bytes separate the first from the last.
`files`: a third Open finds the table full, one file can be open twice, be created
again (and so truncated) while open, and be read behind what was written; the numbers
have one digit less than, as many as, and more than fit. `filesys`: four sectors are left
for user files of one and two data sectors, so a Create fails for the disk
and, with two entries left, for the directory; five operations create, remove and
create again in freed sectors; a write of three bytes at position 3 lies across two
sectors; Seek, Read and Write stop after three operations, which leaves two more for
what a stale header could spoil. `disk`: ten ticks are nearly two rotations, so a
request comes before, in and after the pass of its sector on either track.
`post`: three calls of the two clients of one machine overlap Sends to either machine, or a
Send and a Receive, and leave a packet in the buffer with another behind it; MailTest makes
four calls on each machine, with Sends in both directions under way. `machine`: two instructions are
what a delayed load or a branch reaches, after a first one that leaves a load, a
product, a link or a system call; products of 8-bit words have all 16 bits, with
carries in all of them.

**Deadlock.** `CHECK_DEADLOCK FALSE` stands where the system may stop: the machine
halts (`threads`), or the bounded number of calls is used up (`stable`, `console`,
`files`, `post`). In `ptable` deadlock is checked, and `NoFault` says that
with the four rules the processes never all wait for each other. In `filesys`, `disk` and `machine` an
explicit `Done` or `Stopped` step marks the ends that are meant, so any other one
is an error.

**Fairness.** `Threads`: the simulator does not stop between two steps
(`WF(Next)`), and with `-rs` the timer re-arms itself whenever it fires while each
tick advances the clock, so ticks cannot go on for ever without it
(`SF(FireTimer)`). No thread is assumed to give up the CPU. `PTable`: strong
fairness of each thread's steps inside the kernel, and of `Dispatch` in the settings
with time slicing, which is what `ReadyRuns` of `Threads` gives under `-rs`; user
programs owe nothing, in particular no Join and no Exit. That it is strong matters for
`bmsem` only, which another Exec may take before a woken thread runs: the intervals of the timer
are random, so this does not go on for ever. `SynchConsole`: pending
interrupts are delivered (`Interrupt` keeps them in `pending` until they are due),
and a thread that stays able to go on does so: every other one blocks inside its call
or, with `-rs`, is sliced. This is weak fairness, and `ConsoleGoesOn` promises no
more than it gives: a thread that waits for `WLineBlock` or `RLineBlock` may lose it
time and again to another one, since `Semaphore::P` tests the value again, but whoever has
the line finishes and gives it back. `SynchDisk`: `WF(Next)` only, the simulator takes its next step; that
requests are answered follows from the clock that the model contains. `PostOffice`:
each machine polls, ends its packets and runs its threads.

**Findings.** Two disagreements between code and comments, shown by `ptable_join` and
`mips_or`, are quoted in `PROJECT.json` under `findings`.

## 4. Proofs

Each theorem holds for every value of the constants that satisfies the `ASSUME` of
the module it is about: any number of threads, slots, frames, machines, any
programs, texts and disk geometries. The bounds of TLC's instances (`MaxCalls`,
`MaxOps`, `MaxTime` and the like) are constants too, and the assumptions let them be any
natural numbers (in `PostOffice` a client makes at least the four calls of MailTest), so they
do not limit what is proved.

| module | theorem | states |
|---|---|---|
| `ThreadsProofs` | `TypeCorrect`, `Placement`, `CarcassIsSafe` | `[]TypeOK`, `[]ThreadPlacement`, `[]CarcassSafe` |
| | `NoWakeupIsLost`, `FinishedForEver` | `[]NoLostWakeup`, `FinishIsFinal` |
| | `TableAccounts` | `[]STableInv` of `STable` |
| | `SemaphoresAreKept`, `ErrorsMeanMissing` | `SemaphoresStay`, `ErrorMeansMissing` of `STable` |
| `PTableProofs` | `TableIsSafe` | `[]TableInv`, in every setting |
| | `KernelNeverFaults`, `TableIsExact`, `JoinIsRight` | `[]NoFault`, `[]TableExact`, `[]JoinReturnsExitCode` |
| `AddrSpaceProofs` | `FramesAreExact` | `[]FramesInv` |
| | `MemoryStaysPrivate` | the refinement `MemoryIsPrivate` |
| `SynchConsoleProofs` | `ConsoleAgrees`, `LinesStayWhole`, `InputIsKept` | `[]ConsoleInv`, `[]LinesWhole`, `[]InputKept` |
| | `ReadsLines` | `ReadReturnsLine` |
| `FileTableProofs` | `DescriptorsStayExact`, `FilesHoldTheWrites`, `ReadsDeliver` | `[]DescriptorsInv`, `[]FilesAsWritten`, `[]ReadDelivers` |
| | `NumbersStayExact` | `[]NumbersExact`, with the buffers of the source |
| `FileSystemProofs` | `DiskCorrect`, `FileSystemNeverFails` | `[]DiskInv`, `[]NeverFails` |
| | `CrashesLeakNothing` | `CrashLeaksNothing` |
| | `FileSystemIsFlat` | the refinement `ImplementsFlatFiles` |
| `SynchDiskProofs` | `DiskIsSafe`, `ReturnsWhenDone`, `LatencyIsExact` | `[]DiskInv`, `[]ReturnsAfterDone`, `[]LatencyExact` |
| `PostOfficeProofs` | `PostIsSafe` | `[]PostInv` |
| | `PostImplementsLossyMail` | the refinement `ImplementsLossyMail` |

Each module also has a theorem `Invariance`, `Spec => []Inv`, for its inductive
invariant `Inv` (for `STable` it is `TableInvariance` with `TableInv`, for `FileSystem` it is
`DiskSound` with `IInv`, and `DirectoryOrdered` with `FullInv`). The assumptions say what the code's constants satisfy: tables
have at least one slot, initial values are integers, null values differ from
objects. `NoWakeupIsLost` also needs `FiniteThreads`, and the disk finitely many threads,
because these count threads. Those of some weight:

- `AddrSpace`: programs are `Linked`, accesses have 1, 2 or 4 bytes and the size of a
  page is a multiple of them (`translate.cc` refuses unaligned addresses, so that an
  access stays within its page);
- `SynchDisk`: a system tick is shorter than the longest interval of the timer
  (10 and twice 100 in `stats.h`);
- `FileSystem`: the disk has room for the map, the directory and their headers (two ASSERTs
  of the constructor), no file needs more than `NumDirect` sectors (which the code does not
  test), the table of open files has more than three slots, and user files are not called
  `stdin` or `stdout`;
- `PostOffice`: each machine has one client that runs MailTest, on two machines;
- `NumbersStayExact` is about the buffers that `exception.cc` has: ReadNum reads at most 9
  characters (`MaxNum`), and PrintNum's buffer has 10 (`OutSize`).

**Threads.** `ThreadPlacement` alone is not inductive: `Scheduler::Run` sets the
carcass to DELETED, which would break `ReadyListExact` or `QueuesExact` if the
carcass were on a list; `CarcassSafe` says that it is blocked in Finish and so on
none. Conversely `CarcassSafe` needs `ThreadPlacement`: V changes the status of
the head of a queue, which must not be the carcass. Every call of `Run` happens in
the same situation, `NobodyRuns`: the caller has left the CPU and is on the list
it belongs to. `RunPlaces` shows that `Run` leads from there back to the invariant;
`SleepPlaces` and `YieldPlaces` reduce to it, `VPlaces` treats the move from a
queue to the ready list, and `QuietStep` the steps that touch neither.

`NoLostWakeup` is inductive relative to `Inv`. `StepAccounts` shows that, for a
semaphore on which somebody sleeps after a step, the step keeps the value and all
woken threads, or leaves the value zero, or is a P that takes one unit while at
most the taker stops being woken, or is a V that adds one unit and wakes one
more thread; `Accounting` turns this into the inequality of cardinalities.
`FinishIsFinal` holds of every step from a state of `Inv`: a finished thread is on
no list, and the kernel revives only heads of lists.

**PTable.** `TableInd` adds to `TableInv` that a thread waiting in Join or Exit does so
at a PCB that is there (`Waiting`); it is inductive in every setting, with and
without time slicing. The other three properties are about settings that are
`Calm`. There the processes form a chain: for some k the slots in use are 0 .. k,
and the process of slot i is the parent of that of slot i + 1 (`Shape`, `Owners`,
`Pids`, `Names`). Only the current thread is inside the kernel, apart from those
waiting (`Quiet`); `Place` says in which call the process of each slot can be, and
`Tokens` that between a parent and its child there is at most one token, first in
`joinsem`, then in `exitsem`. `CallExec` and `CallExit` happen at the end of the
chain, so Exec appends a slot and Exit removes the last one; each action has a lemma that
gives the new k. `NoFault` follows because every look-up finds its own slot, and
because the last process of the chain can always go on (`NeverIdle`).

**STable.** `WaitsAllowed` compares history variables that no action reads.
`Accounted` ties them to the table: for every slot, initial value and Signals equal
the value plus the Waits that passed; `WaitersFound` says that a thread
inside P waits on a semaphore that is there, and `NamesDistinct` that, as long as
freed names read as before, no two slots have one name.

**AddrSpace.** Frames first. `Tables` says that two pages never share a frame and that
a page table holds marked frames only; `Stages` says what a process between two
cuts of its constructor has. `BitMap::Find` takes the lowest frame, so the frames of a new
table are the first ones of the clear frames in increasing order (`RankExists`, `FoundFrames`).

`MemoryIsPrivate` needs what the bytes are. `NoffLaidOut` follows the loop of
`coff2noff`: after every section, the segments lie where the sections were linked and the
file holds their bytes, or the program is refused; `ImageIs` concludes that header and
file together describe `LinkedImage`. `ReadsAre`, `ReadsArePieces` and `ReadsCover`
show that each `ReadAt` of the second constructor stays on one page and reads the
bytes that belong there, and that together they reach every byte of code and data;
`LoadIs` that they leave the image in the frames of the table. The invariant is `MemoryInv`: frames between `Allocate` and `Load` are
zeroed and nobody writes to them (`Fresh`), because every store goes through a page
table that has no frame of theirs; `Booting` says that the first program is loaded
before any other process exists, which is why its constructor may read into one
contiguous piece (`FirstPages`, `StartIs`). A store stays within its page
(`WithinPage`) and changes one process's bytes (`StoresThere`). So every step is a
Create, a Store, a Discard or a stutter of `PrivateMemory`.

**SynchConsole.** `Locked`: one writer and one reader at a time are behind
`WLineBlock` and `RLineBlock`. `WriteTurn`: writer, `synchWriteAvail` and the device's interrupt
alternate. `Looping` bounds the loops. From these, `Displayed` says that the last
characters displayed are those that the writer has put in this call, `Gotten` that
the last ones got are the reader's, and `Stored` that its buffer holds exactly these, but
for the end of the line, which is in its local `ch`; `ReadReturnsLine` follows. What was read, what is buffered and what is
still typed make up the text, without the byte that equals EOF (`KeptOf`).

**FileTable.** `Descriptors` is a bijection between the slots in use and the open host
descriptors; `Offsets` says that the offset the host keeps for a descriptor is the
one that the results of the calls so far imply. From there each call does to `unix` what it
does to `ideal`. The copies up to the first 0 (`User2System`, `System2User`) are
defined by a least index, which `EndOfStringIs` characterises. For `NumbersExact`,
`LowFirstIs` says what PrintNum's loop computes for every 32-bit number: its digits, the last
first, as many as `Width` says; so `TextIs`, the reversed characters are the number in
decimal. `DigitsIsValue` unrolls ReadNum's loop, `ValueOfDigits` shows that over decimal digits
it computes the number, and `ValueBound` that nine characters cannot overflow.

**FileSystem.** The invariant `IInv` has two layers. `Sound` holds at all times, after a crash inside
an operation too, and is about each sector by itself: the sectors of the map hold sets of
bits, those of the directory halves of entries that point outside the system's sectors, and every header names as
many sectors as its length needs. Every single sector write keeps it (`SoundKept`), so any
part of an operation does. What relates sectors to each other holds while `intact`: `Exact` says
that the files named in the directory own disjoint sets of sectors, each name once, and that the map is
these and the system's; `Current`, that a live open file has its header and its
place in the directory. The map and the directory are files themselves, so the longest part is
about bytes: `ReadAtIs` and `WriteAtIs` say which byte of which sector `ReadAt` returns and
`WriteAt` leaves, with a symbolic sector size, for a header of any length; `FetchMapIs`,
`DirectoryWritten` and `SystemWritten` conclude that what was written back is read again.
`CreateCases` and `RemovalIs` then give the writes of each call, and `CreateExact`,
`RemoveExact`, `WriteDone` their effect on what the files own.

A crash leaves the disk after any prefix of an operation's sector writes. `CreatePart`, `RemovePart`
and `WritePart` say what these prefixes can be, and `Survives` what holds of each: it is `Sound`;
it is `Safe`, that is, every marked sector belongs to the system or to an entry whose header is marked,
and an entry whose sectors are not all marked has the operation's name or a header that was free before;
and every file of another name is `Kept`, with its entry, its header and its bytes. `CrashesLeakNothing`
follows, since reading the disk again at the restart and creating the console files keep `Safe`.
That other files are kept needs one fact that `IInv` lacks: an entry reaches from one
sector into the next, so a crash inside Create can leave an entry in use under the name it had
before, and `Find` returns the first entry of a name. `EarlyInv` says that no entry, in use or not,
bears the name of an entry in use further on, because `Add` takes the first free entry and only a
name that is not in use; so the half-made entry hides no other file. `FullInv` is `IInv` with `EarlyInv`
(`DirectoryOrdered`).

For `FileSystemIsFlat` the files of `FlatFiles` are what the directory names, each with the bytes
of its sectors (`FilesOn`), and its open files are `Views` of the `OpenFile` objects. There is one lemma
per action: `FlatOpen`, `FlatClose` and `FlatSeek` change only views; `FlatCreate` adds a name
and `FlatRemove` takes one away, by `CreateFiles` and `RemoveFiles`; `FlatRead` and `FlatWrite`
show that the bytes which `ReadAt` and `WriteAt` move, over unaligned first and last sectors, are a part of one
sequence (`ReadPart`, `WriteOverlap`) and that the count returned is its length; `FlatRestart` and
`FlatCrash` keep every file but the one that the interrupted operation was about.

**SynchDisk.** `Clock`: `pending` is sorted and holds one disk interrupt exactly while the
disk is active. `NotLate`: nothing in it is overdue unless `OneTick` or Idle is at
work (`Ticking`). `Tokens` and `Turns` relate the semaphore, the callers and the request.
`LatencyExact` is arithmetic with products of variables, which the provers do not do
by themselves: `UniqueQuotient`, `SlotUnique` and `RotationEnds` determine the slot under the
head from the time, `PassIs` shows that the rotation of `ComputeLatency` ends when the pass
of the sector does, and `HeadInv` keeps `lastSector` and the time of the track buffer in
step with the head (`Buffered`).

**PostOffice.** The semaphores are matched by counting. That machines stop only when the
rules permit it needs the course of MailTest: `GoodMails` says that a mail to
box 1 is the second message of the client that wrote it, and `Exchange` that a client
which has its acknowledgement, and may halt, got it from a peer that has sent both its messages.
The refinement maps the mail in transit to a machine to the packet in its device buffer followed
by its socket; a poll moves a packet from one to the other, which is a stutter.

**Recursive functions.** What a recursion over 0 .. n computes (the loop of `coff2noff`, the
ranks of frames, the loop of ReadNum) is proved without the induction rules of the library, which take
an operator as a parameter: the set of the indices at which the claim fails would have a least
element (`LeastExists`), and the claim holds there because it holds before it.

**Only model-checked.**

- Liveness, which the prover does not treat: `ReadyRuns`, `SyscallsComplete`,
  `ConsoleGoesOn`, `AccessReturns`, `MailArrives`, `MailTestEnds`.
- `UserMachine`, `Mips` and `Runprogram`: they use bitwise operators, which a module with
  proofs cannot.

## 5. Not modelled

- The rest of the host interface (`sysdep.cc`): signals, delays, stack allocation,
  sockets, of which only their effect is in `PostOffice`; the capacity of a socket.
- Statistics, debugging output and the debugger, the List and Print functions, the
  command line, the drivers `threadtest.cc`, `progtest.cc`, `fstest.cc`.
- The loader, the tracing and the UNIX calls of `runprogram`; `coff2flat`, `out` and
  `disasm`; the assembler of `switch.s`, whose effect is in `Threads`; the user
  programs in `test/`, since the models let programs do anything.
- The TLB (`USE_TLB` is not defined in the builds of `threads/` and `userprog/`).
- Destructors that run only when the machine stops (among them the one of
  `FileSystem`, which would delete the console files twice).
- Operations of the Nachos file system that overlap in time: it has no locks, and
  its comments exclude it.

## 6. Plan

The model covers the components that carry the kernel's logic, and the safety
properties of nine of the ten stateful modules are proved. What is left to prove is
`RunsAlone` of `UserMachine`, with the instruction as an opaque function. `Mips` uses
bitwise operators, which the prover cannot load, so this needs the threads and the
switch in a module of their own.
