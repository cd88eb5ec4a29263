----------------------------- MODULE FileSystem -----------------------------
(***************************************************************************)
(* The Nachos file system on its disk: FileSystem (filesys/filesys.cc),    *)
(* Directory, FileHeader, OpenFile and the BitMap of free sectors.         *)
(*                                                                         *)
(* A sector holds a file header or SectorSize bytes.  A byte is abstract:  *)
(* a set of bits of the free map, one half of a directory entry, or a byte *)
(* of user data.  An entry has two such bytes, <<inUse, sector>> and name, *)
(* so that, as in the code, an entry may lie across two sectors.           *)
(*                                                                         *)
(* The code assumes that operations do not overlap in time.  An operation  *)
(* is therefore one step, but it is defined by the sequence of its sector  *)
(* writes, and the machine may stop after any of them.                     *)
(***************************************************************************)
EXTENDS Integers, Sequences, FiniteSets

Seqs == INSTANCE SequencesExt

CONSTANTS
  SectorSize,      \* bytes of a sector
  NumSectors,      \* sectors of the disk
  NumDirEntries,   \* entries of the directory (10 in the code)
  NumDirect,       \* data sectors that a file header has room for
  NumFiles,        \* slots of FileSystem::file (10 in the code)
  Name,            \* names of user files
  Size,            \* sizes given to Create
  Position,        \* positions given to Seek
  Data,            \* sequences of bytes given to Write
  MaxOps,          \* bound: Create, Remove and Write calls
  MaxWriteOps      \* bound: Seek, Read and Write only among the first of these

VARIABLES
  disk,      \* the sectors
  files,     \* the user files that the disk holds: a function of disk
  file,      \* FileSystem::file: for each slot, an OpenFile or Null
  failed,    \* "no", "assert", or "garbage": a header read where there is none
  ops,
  event,     \* the last call and its answer
  intact     \* no operation was interrupted, no removed file was written to

vars == <<disk, files, file, failed, ops, event, intact>>

Sector == 0 .. NumSectors - 1
Slot == 0 .. NumFiles - 1
FreeMapSector == 0
DirectorySector == 1
BitsInByte == (NumSectors + SectorSize - 1) \div SectorSize
FreeMapFileSize == SectorSize
DirectoryFileSize == 2 * NumDirEntries

Null == [name |-> "null"]
Junk == "junk"                  \* a byte of memory that was never written

divRoundUp(n, s) == (n + s - 1) \div s
Min2(a, b) == IF a < b THEN a ELSE b

(* The two ASSERTs of the constructor: there is room for the map and the   *)
(* directory.                                                              *)
ASSUME FileSystemAssumption ==
  /\ SectorSize \in Nat \ {0} /\ NumSectors \in Nat /\ NumDirEntries \in Nat
  /\ 3 + divRoundUp(DirectoryFileSize, SectorSize) <= NumSectors
  /\ NumFiles \in Nat /\ NumFiles > 3 /\ MaxOps \in Nat /\ MaxWriteOps \in Nat
  /\ Size \subseteq Nat /\ Position \subseteq Nat
  /\ \A data \in Data : data \in Seq(Seqs!ToSet(data))
  /\ Name \cap {"stdin", "stdout", "null"} = {}

(* Allocate does not compare the number of sectors with NumDirect: a       *)
(* larger file would be written past dataSectors.  No file is asked for    *)
(* that is larger than MaxFileSize.                                        *)
MaxFileSize == NumDirect * SectorSize

ASSUME MaxFileSizeAssumption ==
  /\ NumDirect \in Nat
  /\ \A size \in Size \cup {FreeMapFileSize, DirectoryFileSize} : size <= MaxFileSize
-----------------------------------------------------------------------------
(* Sectors.                                                                *)

NoHeader == [numBytes |-> -1, dataSectors |-> <<>>]
Blank == [k \in 1 .. SectorSize |-> Junk]

HeaderSector(hdr) == [hdr |-> hdr, bytes |-> Blank]
DataSector(bytes) == [hdr |-> NoHeader, bytes |-> bytes]

(* The disk after a sequence of sector writes.                             *)
Apply(d, writes) ==
  LET after[i \in 0 .. Len(writes)] ==
        IF i = 0 THEN d
        ELSE [after[i - 1] EXCEPT ![writes[i].sector] = writes[i].contents] IN
  after[Len(writes)]
-----------------------------------------------------------------------------
(* BitMap: the set of bits that are set.                                   *)

NumClear(map) == Cardinality(Sector \ map)

(* The clear bits, in the order in which Find returns and marks them.      *)
FindOrder(map) ==
  [i \in 1 .. NumClear(map) |->
     CHOOSE b \in Sector \ map : Cardinality({c \in Sector \ map : c < b}) = i - 1]

MapBytes(map) ==
  [k \in 1 .. SectorSize |-> {b \in map : b \div BitsInByte = k - 1}]
-----------------------------------------------------------------------------
(* FileHeader.                                                             *)

(* The header and the free map that remains, if there is room.  By         *)
(* MaxFileSizeAssumption the sectors fit in the header.                    *)
Allocate(map, fileSize) ==
  LET n == divRoundUp(fileSize, SectorSize)
      got == SubSeq(FindOrder(map), 1, Min2(n, NumClear(map))) IN
  [ok |-> NumClear(map) >= n,
   hdr |-> [numBytes |-> fileSize, dataSectors |-> got],
   map |-> map \cup Seqs!ToSet(got)]

ByteToSector(hdr, offset) == hdr.dataSectors[offset \div SectorSize + 1]

(* The ASSERT of Deallocate: every data sector "ought to be marked!"       *)
Deallocatable(hdr, map) == Seqs!ToSet(hdr.dataSectors) \subseteq map
-----------------------------------------------------------------------------
(* OpenFile: transfers at any position, by whole sectors.                  *)

Overlay(buf, at, s) ==
  SubSeq(buf, 1, at) \o s \o SubSeq(buf, at + Len(s) + 1, Len(buf))

OverlayIf(c, buf, at, s) == IF c THEN Overlay(buf, at, s) ELSE buf

Memory(sectors) == [k \in 1 .. sectors * SectorSize |-> Junk]

(* Sectors first to last of a file, one after the other.                   *)
ReadSectors(d, hdr, first, last) ==
  LET read[i \in first .. last] ==
        (IF i = first THEN <<>> ELSE read[i - 1])
        \o d[ByteToSector(hdr, i * SectorSize)].bytes IN
  read[last]

(* What n bytes from position on are; n is not 0.                          *)
ReadBytes(d, hdr, n, position) ==
  SubSeq(ReadSectors(d, hdr, position \div SectorSize, (position + n - 1) \div SectorSize),
         (position % SectorSize) + 1, (position % SectorSize) + n)

ReadAt(d, hdr, numBytes, position) ==
  IF numBytes <= 0 \/ position >= hdr.numBytes THEN <<>>
  ELSE ReadBytes(d, hdr, Min2(numBytes, hdr.numBytes - position), position)

(* The sectors of buf, the first of which is sector `first' of the file.   *)
Sectors(hdr, first, buf) ==
  [i \in 1 .. Len(buf) \div SectorSize |->
     [sector |-> ByteToSector(hdr, (first + i - 1) * SectorSize),
      contents |-> DataSector(SubSeq(buf, (i - 1) * SectorSize + 1, i * SectorSize))]]

(* Faulty variant: a partly written last sector is read only when it is    *)
(* not the first one.                                                      *)
FillOneSector(d, hdr, from, position, first, last) ==
  LET whole(i) == ReadAt(d, hdr, SectorSize, i * SectorSize) IN
  Overlay(OverlayIf(first # last,
            OverlayIf(position # first * SectorSize, Memory(1 + last - first), 0, whole(first)),
            (last - first) * SectorSize, whole(last)),
          position - first * SectorSize, from)

(* The buffer of WriteAt: new memory, into which the sectors that are      *)
(* written in part are read first.                                         *)
Fill(d, hdr, from, position, first, last) ==
  LET firstAligned == position = first * SectorSize
      lastAligned == position + Len(from) = (last + 1) * SectorSize
      whole(i) == ReadAt(d, hdr, SectorSize, i * SectorSize) IN
  Overlay(OverlayIf(~lastAligned /\ (first # last \/ firstAligned),
            OverlayIf(~firstAligned, Memory(1 + last - first), 0, whole(first)),
            (last - first) * SectorSize, whole(last)),
          position - first * SectorSize, from)

WriteSectors(d, hdr, from, position, first, last) ==
  Sectors(hdr, first, Fill(d, hdr, from, position, first, last))

(* What WriteAt returns: the bytes that fit in the file.                   *)
Count(hdr, from, position) ==
  IF from = <<>> \/ position >= hdr.numBytes THEN 0
  ELSE Min2(Len(from), hdr.numBytes - position)

(* The sector writes of WriteAt.                                           *)
WriteAt(d, hdr, from, position) ==
  LET n == Count(hdr, from, position) IN
  IF n = 0 THEN <<>>
  ELSE WriteSectors(d, hdr, SubSeq(from, 1, n), position,
                    position \div SectorSize, (position + n - 1) \div SectorSize)
-----------------------------------------------------------------------------
(* The free map and the directory as files.  Their headers are in memory   *)
(* while Nachos runs; no operation writes these two sectors.               *)

FetchMap(d) == UNION Seqs!ToSet(ReadAt(d, d[FreeMapSector].hdr, FreeMapFileSize, 0))

WriteBackMap(d, map) == WriteAt(d, d[FreeMapSector].hdr, MapBytes(map), 0)

FetchDirectory(d) ==
  LET bytes == ReadAt(d, d[DirectorySector].hdr, DirectoryFileSize, 0) IN
  [i \in 1 .. NumDirEntries |-> [inUse |-> bytes[2 * i - 1][1],
                                 sector |-> bytes[2 * i - 1][2], name |-> bytes[2 * i]]]

WriteBackDirectory(d, table) ==
  WriteAt(d, d[DirectorySector].hdr,
          [k \in 1 .. DirectoryFileSize |->
             LET e == table[divRoundUp(k, 2)] IN
             IF k % 2 = 1 THEN <<e.inUse, e.sector>> ELSE e.name], 0)
-----------------------------------------------------------------------------
(* Directory.                                                              *)

Empty == [i \in 1 .. NumDirEntries |-> [inUse |-> FALSE, sector |-> 0, name |-> Junk]]

First(S) == IF S = {} THEN -1 ELSE CHOOSE i \in S : \A j \in S : i <= j

(* Faulty variant: entries that are no longer in use are found.            *)
FindIndexAny(table, name) == First({i \in DOMAIN table : table[i].name = name})

FindIndex(table, name) ==
  First({i \in DOMAIN table : table[i].inUse /\ table[i].name = name})

Find(table, name) ==
  LET i == FindIndex(table, name) IN IF i = -1 THEN -1 ELSE table[i].sector

Add(table, name, newSector) ==
  LET i == First({k \in DOMAIN table : ~table[k].inUse}) IN
  IF FindIndex(table, name) # -1 \/ i = -1 THEN [ok |-> FALSE, table |-> table]
  ELSE [ok |-> TRUE,
        table |-> [table EXCEPT ![i] = [inUse |-> TRUE, sector |-> newSector, name |-> name]]]

RemoveEntry(table, name) == [table EXCEPT ![FindIndex(table, name)].inUse = FALSE]
-----------------------------------------------------------------------------
(* FileSystem.                                                             *)

(* Faulty variant: the free map is written before the directory.           *)
CreateFlushMapFirst(d, sector, hdr, table, map) ==
  <<[sector |-> sector, contents |-> HeaderSector(hdr)]>>
  \o WriteBackMap(d, map) \o WriteBackDirectory(d, table)

(* "everything worked, flush all changes back to disk", in this order.     *)
CreateFlush(d, sector, hdr, table, map) ==
  <<[sector |-> sector, contents |-> HeaderSector(hdr)]>>
  \o WriteBackDirectory(d, table) \o WriteBackMap(d, map)

Refused == [ok |-> FALSE, writes |-> <<>>]

(* A free sector is found for the header and marked.                       *)
CreateAt(d, name, initialSize, table, map, sector) ==
  LET added == Add(table, name, sector)
      space == Allocate(map \cup {sector}, initialSize) IN
  IF ~added.ok \/ ~space.ok THEN Refused
  ELSE [ok |-> TRUE, writes |-> CreateFlush(d, sector, space.hdr, added.table, space.map)]

CreateIn(d, name, initialSize, table, map) ==
  IF Find(table, name) # -1 \/ NumClear(map) = 0 THEN Refused
  ELSE CreateAt(d, name, initialSize, table, map, FindOrder(map)[1])

(* Create: the answer, and the sector writes in their order.               *)
CreateWrites(d, name, initialSize) ==
  CreateIn(d, name, initialSize, FetchDirectory(d), FetchMap(d))

(* Faulty variant: the data sectors stay marked.                           *)
RemoveAtHeaderOnly(d, name, table, sector) ==
  WriteBackMap(d, FetchMap(d) \ {sector}) \o WriteBackDirectory(d, RemoveEntry(table, name))

RemoveAt(d, name, table, sector) ==
  WriteBackMap(d, (FetchMap(d) \ Seqs!ToSet(d[sector].hdr.dataSectors)) \ {sector})
  \o WriteBackDirectory(d, RemoveEntry(table, name))

(* Remove of a name that the directory holds.                              *)
RemoveWrites(d, name) ==
  RemoveAt(d, name, FetchDirectory(d), Find(FetchDirectory(d), name))

(* Opening: the slot and the new OpenFile, which holds the header.         *)
OpenFile(d, name, sector) ==
  [name |-> name, sector |-> sector, hdr |-> d[sector].hdr, seekPosition |-> 0, live |-> TRUE]

FreeSlot(f) == First({i \in 2 .. NumFiles - 1 : f[i] = Null})

OpenedAt(d, f, name, sector, slot) ==
  IF sector = -1 \/ slot = -1 THEN f ELSE [f EXCEPT ![slot] = OpenFile(d, name, sector)]

Opened(d, f, name) ==
  OpenedAt(d, f, name, Find(FetchDirectory(d), name), FreeSlot(f))

Created(d, name) == Apply(d, CreateWrites(d, name, 0).writes)

(* stdin and stdout are opened: Open puts them in the slots 2 and 3, and   *)
(* the constructor in 0 and 1 too.                                         *)
OpenConsole(d) ==
  LET at(f, s, t) == [f EXCEPT ![s] = f[t]] IN
  at(Opened(d, at(Opened(d, [s \in Slot |-> Null], "stdin"), 0, 2), "stdout"), 1, 3)

(* The constructor, on a disk that is formatted.                           *)
BootDisk(d) == Created(Created(d, "stdin"), "stdout")

(* The constructor when it formats: headers of the two files, then their   *)
(* contents.                                                               *)
FormatWith(map, dir) ==
  LET headers == Apply([s \in Sector |-> DataSector(Blank)],
                   <<[sector |-> FreeMapSector, contents |-> HeaderSector(map.hdr)],
                     [sector |-> DirectorySector, contents |-> HeaderSector(dir.hdr)]>>) IN
  Apply(headers, WriteBackMap(headers, dir.map) \o WriteBackDirectory(headers, Empty))

Format ==
  LET map == Allocate({FreeMapSector, DirectorySector}, FreeMapFileSize) IN
  FormatWith(map, Allocate(map.map, DirectoryFileSize))

(* The bytes of every user file, found through directory and header.       *)
FilesOn(d) ==
  LET bytes(hdr) == ReadAt(d, hdr, hdr.numBytes, 0)
      named(table) == [n \in {n \in Name : Find(table, n) # -1} |-> bytes(d[Find(table, n)].hdr)] IN
  named(FetchDirectory(d))

Init ==
  /\ disk = BootDisk(Format)
  /\ files = FilesOn(disk)
  /\ file = OpenConsole(disk)
  /\ failed = "no" /\ ops = 0 /\ intact = TRUE
  /\ event = [op |-> "restart", interrupted |-> FALSE]

More == failed = "no" /\ ops < MaxOps /\ ops' = ops + 1
-----------------------------------------------------------------------------
(* The operations.                                                         *)

Stored(d) == disk' = d /\ files' = FilesOn(d)

Create(n, size) ==
  LET c == CreateWrites(disk, n, size) IN
  /\ More
  /\ Stored(Apply(disk, c.writes))
  /\ event' = [op |-> "create", name |-> n, size |-> size, ok |-> c.ok]
  /\ UNCHANGED <<file, failed, intact>>

(* An OpenFile of a removed file is not live any more: its sectors may     *)
(* become another file's.                                                  *)
RemoveFound(n, sector, hdr) ==
  /\ failed' = IF sector = -1 THEN "no"
               ELSE IF hdr = NoHeader THEN "garbage"
               ELSE IF Deallocatable(hdr, FetchMap(disk)) THEN "no" ELSE "assert"
  /\ event' = [op |-> "remove", name |-> n, ok |-> sector # -1 /\ failed' = "no"]
  /\ IF event'.ok
     THEN /\ Stored(Apply(disk, RemoveWrites(disk, n)))
          /\ file' = [s \in Slot |-> IF file[s].name = n THEN [file[s] EXCEPT !.live = FALSE]
                                     ELSE file[s]]
     ELSE UNCHANGED <<disk, files, file>>

Where(n) == Find(FetchDirectory(disk), n)

HeaderAt(sector) == IF sector = -1 THEN NoHeader ELSE disk[sector].hdr

Remove(n) ==
  /\ More
  /\ RemoveFound(n, Where(n), HeaderAt(Where(n)))
  /\ UNCHANGED intact

Open(n) ==
  /\ failed = "no"
  /\ file' = Opened(disk, file, n)
  /\ event' = [op |-> "open", name |-> n, slot |-> IF Where(n) = -1 THEN -1 ELSE FreeSlot(file)]
  /\ failed' = IF event'.slot # -1 /\ HeaderAt(Where(n)) = NoHeader THEN "garbage" ELSE "no"
  /\ UNCHANGED <<disk, files, ops, intact>>

(* The slots that hold the two console files are not used for transfers.   *)
UserSlot == {s \in Slot : file[s] # Null /\ file[s].name \in Name}

Close(s) ==
  /\ failed = "no" /\ s \in UserSlot
  /\ file' = [file EXCEPT ![s] = Null]
  /\ event' = [op |-> "close", slot |-> s]
  /\ UNCHANGED <<disk, files, failed, ops, intact>>

Seek(s, position) ==
  /\ failed = "no" /\ s \in UserSlot /\ ops < MaxWriteOps
  /\ file' = [file EXCEPT ![s].seekPosition = position]
  /\ event' = [op |-> "seek", slot |-> s, pos |-> position]
  /\ UNCHANGED <<disk, files, failed, ops, intact>>

Read(s, numBytes) ==
  LET got == ReadAt(disk, file[s].hdr, numBytes, file[s].seekPosition) IN
  /\ failed = "no" /\ s \in UserSlot /\ ops < MaxWriteOps
  /\ file' = [file EXCEPT ![s].seekPosition = @ + Len(got)]
  /\ event' = [op |-> "read", slot |-> s, want |-> numBytes, got |-> got]
  /\ UNCHANGED <<disk, files, failed, ops, intact>>

Write(s, data) ==
  LET f == file[s]
      n == Count(f.hdr, data, f.seekPosition) IN
  /\ More /\ s \in UserSlot /\ ops < MaxWriteOps
  /\ Stored(Apply(disk, WriteAt(disk, f.hdr, data, f.seekPosition)))
  /\ file' = [file EXCEPT ![s].seekPosition = @ + n]
  /\ event' = [op |-> "write", slot |-> s, data |-> data, count |-> n]
  /\ intact' = (intact /\ f.live)
  /\ UNCHANGED failed

(* The machine stops and Nachos starts again on the same disk.             *)
RestartOn(d, interrupted, n) ==
  /\ failed = "no"
  /\ Stored(d)
  /\ file' = OpenConsole(d)
  /\ event' = [op |-> "restart", interrupted |-> interrupted, name |-> n]
  /\ intact' = (intact /\ ~interrupted)
  /\ UNCHANGED failed

Restart == RestartOn(BootDisk(disk), FALSE, "none") /\ UNCHANGED ops

(* It stops after some of the sector writes of an operation on n.          *)
Interrupted(writes, n) ==
  /\ More
  /\ \E k \in 1 .. Len(writes) - 1 :
       RestartOn(BootDisk(Apply(disk, SubSeq(writes, 1, k))), TRUE, n)

CrashInCreate(n, size) == Interrupted(CreateWrites(disk, n, size).writes, n)

CrashInRemove(n) ==
  /\ n \in DOMAIN files
  /\ HeaderAt(Where(n)) # NoHeader /\ Deallocatable(HeaderAt(Where(n)), FetchMap(disk))
  /\ Interrupted(RemoveWrites(disk, n), n)

CrashInWrite(s, data) ==
  /\ s \in UserSlot /\ file[s].live /\ ops < MaxWriteOps
  /\ Interrupted(WriteAt(disk, file[s].hdr, data, file[s].seekPosition), file[s].name)

(* The bound is reached, or the file system has stopped.                   *)
Done == (failed # "no" \/ ops = MaxOps) /\ UNCHANGED vars

Next ==
  \/ \E n \in Name : \/ \E size \in Size : Create(n, size) \/ CrashInCreate(n, size)
                     \/ Remove(n) \/ CrashInRemove(n) \/ Open(n)
  \/ \E s \in Slot : \/ Close(s)
                     \/ \E p \in Position : Seek(s, p)
                     \/ Read(s, SectorSize)
                     \/ \E data \in Data : Write(s, data) \/ CrashInWrite(s, data)
  \/ Restart
  \/ Done

Spec == Init /\ [][Next]_vars
-----------------------------------------------------------------------------
(* Properties.                                                             *)

Entries == {e \in Seqs!ToSet(FetchDirectory(disk)) : e.inUse}

SectorsOf(hdrSector) == {hdrSector} \cup Seqs!ToSet(disk[hdrSector].hdr.dataSectors)

Roots == {FreeMapSector, DirectorySector} \cup {e.sector : e \in Entries}

Reachable == UNION {SectorsOf(r) : r \in Roots}

(* Sectors are sectors of the disk, and a header names as many as its      *)
(* length needs.                                                           *)
TypeOK ==
  /\ failed \in {"no", "assert", "garbage"} /\ intact \in BOOLEAN
  /\ FetchMap(disk) \subseteq Sector /\ Reachable \subseteq Sector
  /\ \A q \in Sector : disk[q].hdr # NoHeader =>
       Len(disk[q].hdr.dataSectors) = divRoundUp(disk[q].hdr.numBytes, SectorSize)
  /\ \A s \in Slot : file[s] # Null => /\ file[s].sector \in Sector
                                       /\ file[s].seekPosition \in Nat

(* The free map is exact: a sector is marked if and only if it is part of  *)
(* a file, no sector is part of two files or twice of one, and no name is  *)
(* in the directory twice, over any sequence of Create and Remove calls,   *)
(* the ones that fail in the middle included.                              *)
MapExact ==
  intact =>
    /\ FetchMap(disk) = Reachable
    /\ Cardinality({e.name : e \in Entries}) = Cardinality(Entries)
    /\ \A r \in Roots : /\ disk[r].hdr # NoHeader
                        /\ Cardinality(SectorsOf(r)) = 1 + Len(disk[r].hdr.dataSectors)
                        /\ \A q \in Roots \ {r} : SectorsOf(q) \cap SectorsOf(r) = {}

(* The header that an OpenFile keeps in memory is the one on the disk for  *)
(* as long as the file is not removed, whatever is created, removed or     *)
(* written through other OpenFiles.                                        *)
HeaderCurrent ==
  intact => \A s \in Slot : file[s] # Null /\ file[s].live =>
    /\ file[s].hdr = disk[file[s].sector].hdr
    /\ Find(FetchDirectory(disk), file[s].name) = file[s].sector

(* The structures on the disk agree with each other and with the headers   *)
(* that open files keep in memory.                                         *)
DiskInv == TypeOK /\ MapExact /\ HeaderCurrent

(* Deallocate's ASSERT that a data sector "ought to be marked!" holds, and *)
(* no header is read from a sector that has none, unless an operation was  *)
(* interrupted or a removed file written to.                               *)
NeverFails == intact => failed = "no"

(* A crash inside Create or Remove leaks no sector: what the map has       *)
(* marked is still reachable, and what is reachable and not marked belongs *)
(* to the file that the operation was about, or to the entry it was making *)
(* (which may still bear the name of a file removed before).               *)
CrashLeaksNothing ==
  [][intact /\ ~intact' /\ event'.op = "restart" =>
       /\ FetchMap(disk)' \subseteq Reachable'
       /\ \A e \in Entries' : \/ SectorsOf(e.sector)' \subseteq FetchMap(disk)'
                              \/ e.name = event'.name
                              \/ e.sector \notin Reachable]_vars

Flat == INSTANCE FlatFiles WITH
  Closed <- Null,
  open <- [s \in Slot |-> IF file[s] = Null \/ file[s].name \notin Name THEN Null
                          ELSE [name |-> file[s].name, pos |-> file[s].seekPosition,
                                live |-> file[s].live]]

(* The file system implements flat files: sectors, headers, the directory  *)
(* and unaligned transfers cannot be seen by its callers, and a crash      *)
(* inside an operation on one file costs no byte of another.               *)
ImplementsFlatFiles == Flat!Spec
=============================================================================
