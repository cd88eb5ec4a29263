----------------------------- MODULE FileTable -----------------------------
(***************************************************************************)
(* The system calls on files and on the console (userprog/exception.cc),   *)
(* with the file system of this build: FILESYS_STUB of filesys/filesys.h   *)
(* and filesys/openfile.h, which keeps Nachos files as UNIX files through  *)
(* machine/sysdep.cc.                                                      *)
(*                                                                         *)
(* All processes share the one table of open files.  None of these calls   *)
(* enables interrupts except for console input and output, so each is one  *)
(* step; module SynchConsole takes the console apart.  A character is its  *)
(* code, 0 ends a string.  The user's buffer is at address 0.              *)
(***************************************************************************)
EXTENDS Numbers, FiniteSets, FiniteSetsExt

CONSTANTS
    Name,           \* file names
    NumSlots,       \* 10 in the source
    Data,           \* what a program may have in its buffer to write
    Line,           \* what the user may type, without the end of the line
    Number,         \* arguments of PrintNum
    Count,          \* lengths that are asked for
    MaxString,      \* 255 in the source
    MaxNum,         \* 9 in the source: the characters ReadNum reads
    OutSize,        \* 10 in the source: the buffer of PrintNum
    MaxCalls,       \* bound: the number of system calls of each kind of program
    NoFile

\* The codes of the characters that a user types.
Ascii == 0 .. 127

OpenFileType == [fd : Nat, currentOffset : Nat, type : 0 .. 2]

ASSUME FileAssumption ==
    /\ NumSlots \in Nat /\ NumSlots > 2 /\ NumSlots <= MaxInt
    /\ {"stdin", "stdout"} \cap Name = {}
    /\ NoFile \notin Seq(Nat) /\ NoFile \notin OpenFileType
    /\ Data \subseteq Seq(Nat) /\ \A data \in Data : Len(data) <= MaxInt
    /\ Line \subseteq Seq(Ascii) /\ Number \subseteq MinInt .. MaxInt
    /\ Count \subseteq 0 .. MaxInt /\ MaxString \in Nat /\ MaxNum \in Nat /\ OutSize \in Nat
    /\ MaxCalls \in [{"files", "console"} -> Nat]

Slot == 0 .. NumSlots - 1
Newline == 10
CtrlA == 1

\* Host names: "stdin" and "stdout" are also UNIX files, made at the start.
HostName == Name \cup {"stdin", "stdout"}

VARIABLES
    status,     \* "running", "halted", or "overrun" after a write past out
    text,       \* no program has a 0 inside what it writes
    program,    \* "files" or "console": the calls that the programs make
    r2,         \* register 2: the call's code, then its result
    mem,        \* the user's buffer, as far as it is known
    unix,       \* the bytes of each host file, or NoFile
    fds,        \* open UNIX descriptors: fds[fd] is a HostName
    file,       \* FileSystem::file: NoFile (NULL), or an OpenFile
    input,      \* typed characters not yet read
    calls,      \* number of calls so far
    \* Observed only by the properties:
    ideal,      \* what the programs meant the files to hold
    at,         \* where each descriptor stands by the counts returned
    last        \* the last call: op, and what it transferred

vars == <<status, text, program, r2, mem, unix, fds, file, input, calls, ideal, at, last>>
fileVars == <<unix, fds, file, ideal, at>>

-----------------------------------------------------------------------------
(* Transfers between the user's memory and the kernel *)

\* The position of the first 0, or one past the end.
EndOfString(s) == Min({i \in DOMAIN s : s[i] = 0} \cup {Len(s) + 1})

\* Faulty variant of User2System: one character less.
User2SystemShort(s, limit) ==
    [i \in 1 .. limit |-> IF i < EndOfString(s) /\ i < limit THEN s[i] ELSE 0]

\* User2System into a buffer of limit characters that was cleared.
User2System(s, limit) ==
    [i \in 1 .. limit |-> IF i < EndOfString(s) THEN s[i] ELSE 0]

\* Faulty variant of System2User: it stops before the 0.
System2UserOpen(buffer) ==
    [i \in 1 .. Max({Len(mem), EndOfString(buffer) - 1}) |->
        IF i < EndOfString(buffer) THEN buffer[i] ELSE mem[i]]

\* System2User: up to and with the first 0, the rest of the memory stays.
\* The callers put a 0 behind the characters.
System2User(buffer) ==
    [i \in 1 .. Max({Len(mem), EndOfString(buffer)}) |->
        IF i <= EndOfString(buffer) THEN buffer[i] ELSE mem[i]]

-----------------------------------------------------------------------------
(* UNIX (external) and sysdep.cc *)

NewFd == Min((0 .. Cardinality(DOMAIN fds)) \ DOMAIN fds)

\* open() with O_CREAT and O_TRUNC; an open() that is refused fails an ASSERT, and
\* is left out here.
OpenForWrite(n) == unix' = [unix EXCEPT ![n] = <<>>]

\* open() of a file finds it.
OpenForReadWrite(n) == unix[n] # NoFile

\* read() at a position.
ReadPartial(bytes, position, n) ==
    SubSeq(bytes, position + 1, Min({Len(bytes), position + n}))

\* write() at a position, which may lie behind the end.
WriteFile(bytes, position, from) ==
    [i \in 1 .. Max({Len(bytes), position + Len(from)}) |->
        IF i \in position + 1 .. position + Len(from) THEN from[i - position]
        ELSE IF i <= Len(bytes) THEN bytes[i] ELSE 0]

-----------------------------------------------------------------------------
(* FileSystem and OpenFile *)

OpenFile(fd, type) == [fd |-> fd, currentOffset |-> 0, type |-> type]

Init ==
    /\ status = "running"
    /\ text \in BOOLEAN
    /\ program \in {"files", "console"}
    /\ r2 = 0
    /\ mem = <<>>
    /\ unix = [n \in HostName |-> IF n \in Name THEN NoFile ELSE <<>>]
    /\ fds = [fd \in {0, 1} |-> IF fd = 0 THEN "stdin" ELSE "stdout"]
    /\ file = [i \in Slot |-> CASE i = 0 -> OpenFile(0, 1)
                                [] i = 1 -> OpenFile(1, 2)
                                [] OTHER -> NoFile]
    /\ input = <<>>
    /\ calls = 0
    /\ ideal = [n \in Name |-> <<>>]
    /\ at = [i \in Slot |-> 0]
    /\ last = [op |-> "none"]

\* A system call: while the machine runs, up to the bound.
Call(kind) ==
    /\ status = "running" /\ program = kind /\ calls < MaxCalls[kind]
    /\ calls' = calls + 1
    /\ UNCHANGED <<text, program>>

\* CreateFile.  The host creates the file, or truncates it, also when it is open.
CreateFile(n) ==
    /\ Call("files")
    /\ OpenForWrite(n)
    /\ ideal' = [ideal EXCEPT ![n] = <<>>]
    /\ r2' = 0
    /\ last' = [op |-> "CreateFile"]
    /\ UNCHANGED <<status, mem, fds, file, input, at>>

\* CreateFile of the empty name.
CreateNameless ==
    /\ Call("files")
    /\ r2' = -1
    /\ last' = [op |-> "refused"]
    /\ UNCHANGED <<status, mem, fileVars, input>>

FreeSlot == {i \in Slot : file[i] = NoFile}

\* Open of a name that is not the console's, with type 0 or 1.
OpenAt(n, type, index) ==
    /\ fds' = [fd \in DOMAIN fds \cup {NewFd} |-> IF fd = NewFd THEN n ELSE fds[fd]]
    /\ file' = [i \in Slot \cup {index} |-> IF i = index THEN OpenFile(NewFd, type) ELSE file[i]]
    /\ at' = [i \in Slot \cup {index} |-> IF i = index THEN 0 ELSE at[i]]
    /\ r2' = index

OpenFails == r2' = -1 /\ UNCHANGED <<fds, file, at>>

Open(n, type) ==
    /\ Call("files")
    /\ IF type \notin {0, 1} \/ FreeSlot = {} \/ ~OpenForReadWrite(n)
       THEN OpenFails
       ELSE OpenAt(n, type, Min(FreeSlot))
    /\ last' = [op |-> "Open"]
    /\ UNCHANGED <<status, mem, unix, input, ideal>>

\* Open("stdin", type) and Open("stdout", type): the type is tested before the names.
OpenConsole(id, type) ==
    /\ Call("files")
    /\ r2' = IF type \in {0, 1} THEN id ELSE -1
    /\ last' = [op |-> "Open"]
    /\ UNCHANGED <<status, mem, fileVars, input>>

\* Faulty variant of CloseSlot: delete is forgotten.
CloseSlotKeeping(id) ==
    /\ file' = [file EXCEPT ![id] = NoFile]
    /\ UNCHANGED fds

\* delete closes the UNIX descriptor.
CloseSlot(id) ==
    /\ fds' = [fd \in DOMAIN fds \ {file[id].fd} |-> fds[fd]]
    /\ file' = [file EXCEPT ![id] = NoFile]

Close(id) ==
    /\ Call("files")
    /\ IF id < 2 \/ id > NumSlots - 1
       THEN r2' = -1 /\ UNCHANGED <<fds, file>>
       ELSE IF file[id] = NoFile THEN r2' = -1 /\ UNCHANGED <<fds, file>>
            ELSE CloseSlot(id) /\ r2' = 0
    /\ last' = [op |-> "Close"]
    /\ UNCHANGED <<status, mem, unix, input, ideal, at>>

-----------------------------------------------------------------------------
(* The console *)

\* SynchConsole::Read: up to n characters, or to the end of the line or CTRL-A,
\* which is read too.
ConsoleEnd(n) ==
    Min({i \in DOMAIN input : input[i] \in {Newline, CtrlA}} \cup {n + 1})

ConsoleChars(n) == SubSeq(input, 1, ConsoleEnd(n) - 1)

ConsoleRest(n) == IF ConsoleEnd(n) <= n THEN SubSeq(input, ConsoleEnd(n) + 1, Len(input))
                  ELSE SubSeq(input, n + 1, Len(input))

\* CTRL-A makes it return -1, otherwise the number of characters.
ConsoleResult(n) ==
    IF ConsoleEnd(n) <= n /\ input[ConsoleEnd(n)] = CtrlA THEN -1 ELSE Len(ConsoleChars(n))

ConsoleReady(n) == ConsoleEnd(n) <= Min({n, Len(input)}) \/ Len(input) >= n

\* The user types a line.
Type(line, end) ==
    /\ status = "running" /\ program = "console" /\ input = <<>>
    /\ calls < MaxCalls["console"]
    /\ input' = Append(line, end)
    /\ UNCHANGED <<status, text, program, r2, mem, fileVars, calls, last>>

-----------------------------------------------------------------------------
(* Read and Write *)

\* The end of Read: a result of 0 becomes -2, otherwise the buffer goes to the user.
Returns(bytes, result) ==
    IF result <= 0
    THEN r2' = (IF result < 0 THEN -1 ELSE -2) /\ UNCHANGED mem
    ELSE r2' = result /\ mem' = System2User(Append(bytes, 0))

ReadConsole(n) ==
    /\ Call("console")
    /\ n > 0 /\ ConsoleReady(n)
    /\ Returns(ConsoleChars(n), ConsoleResult(n))
    /\ input' = ConsoleRest(n)
    /\ last' = [op |-> "Read", bytes |-> ConsoleChars(n)]
    /\ UNCHANGED <<status, fileVars>>

\* The descriptors that Read and Write accept.
Readable == {i \in Slot \ {1} : file[i] # NoFile}
Writable == {i \in Slot \ {0} : file[i] # NoFile /\ file[i].type # 1}

\* Reading a descriptor that is not one, or an illegal count.
ReadRefused(id, n) ==
    /\ Call("files")
    /\ ~(id \in Readable /\ n > 0)
    /\ r2' = -1
    /\ last' = [op |-> "refused"]
    /\ UNCHANGED <<status, mem, fileVars, input>>

ReadFile(id, n) ==
    LET f == file[id]
        bytes == ReadPartial(unix[fds[f.fd]], f.currentOffset, n)
    IN /\ Call("files")
       /\ id \in Readable \ {0} /\ n > 0
       /\ Returns(bytes, Len(bytes))
       /\ file' = [file EXCEPT ![id].currentOffset = @ + Len(bytes)]
       /\ at' = [at EXCEPT ![id] = @ + (IF r2' > 0 THEN r2' ELSE 0)]
       /\ last' = [op |-> "Read",
                   bytes |-> ReadPartial(ideal[fds[f.fd]], at[id], n)]
       /\ UNCHANGED <<status, unix, fds, input, ideal>>

\* Writing to a descriptor that cannot be written, or an illegal count.
WriteRefused(id, n) ==
    /\ Call("files")
    /\ ~(id \in Writable /\ n > 0)
    /\ r2' = -1
    /\ last' = [op |-> "refused"]
    /\ UNCHANGED <<status, mem, fileVars, input>>

Allowed(data) == text => 0 \notin {data[i] : i \in DOMAIN data}

\* The program fills its buffer with data and writes all of it.
WriteData(id, data) ==
    LET f == file[id]
        n == fds[f.fd]
    IN /\ Call("files")
       /\ id \in Writable \ {1} /\ Allowed(data)
       /\ mem' = data
       /\ unix' = [unix EXCEPT ![n] = WriteFile(@, f.currentOffset, User2System(data, Len(data)))]
       /\ file' = [file EXCEPT ![id].currentOffset = @ + Len(data)]
       /\ r2' = Len(data)
       /\ ideal' = [ideal EXCEPT ![n] = WriteFile(@, at[id], data)]
       /\ at' = [at EXCEPT ![id] = @ + Len(data)]
       /\ last' = [op |-> "Write"]
       /\ UNCHANGED <<status, fds, input>>

\* Write to descriptor 1: SynchConsole::Write.
WriteConsole(data) ==
    /\ Call("console")
    /\ Allowed(data)
    /\ mem' = data
    /\ r2' = Len(data)
    /\ last' = [op |-> "Print", chars |-> User2System(data, Len(data))]
    /\ UNCHANGED <<status, fileVars, input>>

-----------------------------------------------------------------------------
(* Numbers, characters and strings *)

\* The number of the call is in r2 when it begins: an empty line leaves it there.
ReadNum ==
    /\ Call("console")
    /\ ConsoleReady(MaxNum)
    /\ input' = ConsoleRest(MaxNum)
    /\ LET num == ConsoleChars(MaxNum)
           leng == ConsoleResult(MaxNum)
       IN /\ status' = IF leng = -1 \/ (leng > 0 /\ ~IsNumber(num)) THEN "halted" ELSE status
          /\ r2' = IF leng > 0 /\ IsNumber(num) THEN NumberOf(num) ELSE 2
          /\ last' = [op |-> "ReadNum", chars |-> num]
    /\ UNCHANGED <<mem, fileVars>>

\* More than OutSize characters are written past the end of out.
PrintNum(num) ==
    /\ Call("console")
    /\ status' = IF Len(Text(num)) > OutSize THEN "overrun" ELSE status
    /\ r2' = 3
    /\ last' = [op |-> "PrintNum", num |-> num, chars |-> Text(num)]
    /\ UNCHANGED <<mem, fileVars, input>>

ReadChar ==
    /\ Call("console")
    /\ ConsoleReady(1)
    /\ input' = ConsoleRest(1)
    /\ status' = IF ConsoleResult(1) = -1 THEN "halted" ELSE status
    /\ r2' = IF ConsoleResult(1) = 1 THEN ConsoleChars(1)[1] ELSE 4
    /\ last' = [op |-> "ReadChar"]
    /\ UNCHANGED <<mem, fileVars>>

PrintChar(data) ==
    /\ Call("console")
    /\ r2' = 5
    /\ last' = [op |-> "Print", chars |-> <<data[1]>>]
    /\ UNCHANGED <<status, mem, fileVars, input>>

\* An empty line leaves the user's string as it was.
ReadString(leng) ==
    /\ Call("console")
    /\ leng > 0 => ConsoleReady(leng)
    /\ r2' = 6
    /\ IF leng <= 0
       THEN status' = "halted" /\ last' = [op |-> "halted"] /\ UNCHANGED <<mem, input>>
       ELSE /\ input' = ConsoleRest(leng)
            /\ status' = IF ConsoleResult(leng) = -1 THEN "halted" ELSE status
            /\ mem' = IF ConsoleResult(leng) > 0 THEN System2User(Append(ConsoleChars(leng), 0)) ELSE mem
            /\ last' = [op |-> "ReadString",
                        bytes |-> IF ConsoleResult(leng) > 0 THEN ConsoleChars(leng) ELSE <<>>]
    /\ UNCHANGED fileVars

\* PrintString always writes MaxString characters, the end of the string included.
PrintString(data) ==
    /\ Call("console")
    /\ mem' = Append(data, 0)
    /\ r2' = 7
    /\ last' = [op |-> "Print", chars |-> User2System(Append(data, 0), MaxString)]
    /\ UNCHANGED <<status, fileVars, input>>

\* Random() is not negative.
RandomNum(num) ==
    /\ Call("console")
    /\ num >= 0
    /\ r2' = num
    /\ last' = [op |-> "RandomNum"]
    /\ UNCHANGED <<status, mem, fileVars, input>>

SC_Halt ==
    /\ Call("console")
    /\ status' = "halted"
    /\ last' = [op |-> "halted"]
    /\ UNCHANGED <<r2, mem, fileVars, input>>

FileStep ==
    \/ \E n \in Name : CreateFile(n) \/ \E type \in 0 .. 2 : Open(n, type)
    \/ CreateNameless
    \/ \E id \in {0, 1}, type \in 0 .. 2 : OpenConsole(id, type)
    \/ \E id \in -1 .. NumSlots : Close(id)
    \/ \E id \in -1 .. NumSlots, n \in Count \cup {0} : ReadRefused(id, n) \/ WriteRefused(id, n)
    \/ \E id \in Slot, n \in Count : ReadFile(id, n)
    \/ \E id \in Slot, data \in Data : WriteData(id, data)

ConsoleStep ==
    \/ \E line \in Line, end \in {Newline, CtrlA} : Type(line, end)
    \/ \E n \in Count : ReadConsole(n)
    \/ \E data \in Data : WriteConsole(data) \/ PrintChar(data) \/ PrintString(data)
    \/ ReadNum
    \/ \E num \in Number : PrintNum(num) \/ RandomNum(num)
    \/ ReadChar
    \/ \E n \in Count \cup {0} : ReadString(n)
    \/ SC_Halt

Next == FileStep \/ ConsoleStep

Spec == Init /\ [][Next]_vars

-----------------------------------------------------------------------------
(* Properties *)

TypeOK ==
    /\ status \in {"running", "halted", "overrun"} /\ text \in BOOLEAN /\ program \in {"files", "console"}
    /\ calls \in Nat
    /\ mem \in Seq(Nat) /\ input \in Seq(Nat)
    /\ unix \in [HostName -> Seq(Nat) \cup {NoFile}] /\ ideal \in [Name -> Seq(Nat)]
    /\ DOMAIN fds \subseteq Nat /\ \A fd \in DOMAIN fds : fds[fd] \in HostName
    /\ DOMAIN file = Slot
    /\ \A i \in Slot : file[i] # NoFile => file[i] \in OpenFileType
    /\ at \in [Slot -> Nat]

\* Open files and UNIX descriptors correspond one to one, and the console keeps
\* its two slots, after any sequence of Open and Close, failing ones included and
\* with the table full: no descriptor leaks or is shared, none is used closed.
DescriptorsExact ==
    LET used == {i \in Slot : file[i] # NoFile}
    IN /\ {0, 1} \subseteq used
       /\ {file[i].fd : i \in used} = DOMAIN fds
       /\ Cardinality(used) = Cardinality(DOMAIN fds)

\* The table of open files and the descriptors of the host stay in step.
DescriptorsInv == TypeOK /\ DescriptorsExact

\* A file holds what the programs wrote, each at the place its descriptor had
\* reached, whatever other descriptors did to the file and also after CreateFile
\* truncated it while open; a 0 inside the data ends what User2System copies, so
\* then only the length is right.
FilesAsWritten ==
    \A n \in Name : unix[n] # NoFile =>
        /\ Len(unix[n]) = Len(ideal[n])
        /\ text => unix[n] = ideal[n]

\* Read and ReadString give the program exactly the bytes of the file or of the
\* line, with a 0 behind them, when there is no 0 among them (one gets into a file
\* of text when it is truncated under a descriptor that goes on writing).
ReadDelivers ==
    (/\ last.op \in {"Read", "ReadString"} /\ last.bytes # <<>>
     /\ text /\ status = "running" /\ r2 # -1
     /\ 0 \notin {last.bytes[i] : i \in DOMAIN last.bytes}) =>
        /\ Len(mem) > Len(last.bytes)
        /\ SubSeq(mem, 1, Len(last.bytes) + 1) = Append(last.bytes, 0)
        /\ last.op = "Read" => r2 = Len(last.bytes)

\* PrintNum writes every number in decimal but the smallest, whose negation
\* overflows, and overruns its buffer exactly for ten digits with a sign.
PrintNumDecimal ==
    (last.op = "PrintNum" /\ last.num > MinInt) =>
        /\ IsDecimal(last.chars, last.num)
        /\ status = "overrun" <=> last.num <= -1000000000

\* ReadNum is the inverse of decimal writing.
ReadNumInverse ==
    (last.op = "ReadNum" /\ status = "running") =>
        \A num \in Number \ {MinInt} : IsDecimal(last.chars, num) => r2 = num

\* Numbers are converted exactly in both directions, up to the limits of the
\* buffers, and what a call returns fits the register.
NumbersExact == PrintNumDecimal /\ ReadNumInverse /\ r2 \in MinInt .. MaxInt
=============================================================================
