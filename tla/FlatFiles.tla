------------------------------ MODULE FlatFiles ------------------------------
(***************************************************************************)
(* What the file system promises to its callers: names that stand for      *)
(* sequences of bytes of a fixed length, and open files with a position.   *)
(* `event' is the last call with its arguments and its answer; Next says   *)
(* which answers and which new states are allowed.                         *)
(***************************************************************************)
EXTENDS Integers, Sequences, FiniteSets

CONSTANTS Slot, Closed

VARIABLES
  files,    \* the bytes of every file that exists, by name
  open,     \* for each slot: Closed, or [name, pos, live]
  event,
  intact    \* no operation was interrupted, no removed file written to

Overlap(s, pos, data) ==
  [i \in 1 .. Len(s) |-> IF i \in pos + 1 .. pos + Len(data) THEN data[i - pos] ELSE s[i]]

(* At most n bytes of s, from position pos on.                             *)
Part(s, pos, n) ==
  [i \in 1 .. Cardinality({k \in pos + 1 .. pos + n : k <= Len(s)}) |-> s[pos + i]]

Others(n) == \A m \in DOMAIN files \ {n} : m \in DOMAIN files' /\ files'[m] = files[m]

Init == DOMAIN files = {} /\ intact = TRUE

(* An existing name is refused; a new file has the length asked for and    *)
(* any contents.                                                           *)
Create(e) ==
  /\ UNCHANGED <<open, intact>>
  /\ IF e.ok
     THEN /\ e.name \notin DOMAIN files /\ DOMAIN files' = DOMAIN files \cup {e.name}
          /\ Len(files'[e.name]) = e.size /\ Others(e.name)
     ELSE files' = files

(* Open files of the name stay open, but are no longer this file's.        *)
Remove(e) ==
  /\ UNCHANGED intact
  /\ e.ok <=> e.name \in DOMAIN files
  /\ DOMAIN files' = DOMAIN files \ {e.name} /\ Others(e.name)
  /\ open' = [s \in Slot |-> IF open[s] # Closed /\ open[s].name = e.name
                             THEN [open[s] EXCEPT !.live = FALSE] ELSE open[s]]

Open(e) ==
  /\ UNCHANGED intact /\ files' = files
  /\ IF e.slot = -1 THEN open' = open
     ELSE /\ e.name \in DOMAIN files /\ open[e.slot] = Closed
          /\ open' = [open EXCEPT ![e.slot] = [name |-> e.name, pos |-> 0, live |-> TRUE]]

Close(e) ==
  UNCHANGED intact /\ files' = files /\ open' = [open EXCEPT ![e.slot] = Closed]

Seek(e) ==
  UNCHANGED intact /\ files' = files /\ open' = [open EXCEPT ![e.slot].pos = e.pos]

(* A read returns the bytes from the position on, as many as there are.    *)
Read(e) ==
  LET o == open[e.slot] IN
  /\ UNCHANGED intact /\ files' = files
  /\ o.live => e.got = Part(files[o.name], o.pos, e.want)
  /\ open' = [open EXCEPT ![e.slot].pos = o.pos + Len(e.got)]

(* A write changes these bytes and no others, in this file and no other.   *)
(* A write to a file that has been removed may fall on any other file.     *)
Write(e) ==
  LET o == open[e.slot] IN
  /\ open' = [open EXCEPT ![e.slot].pos = o.pos + e.count]
  /\ intact' = o.live
  /\ o.live => /\ Others(o.name) /\ DOMAIN files' = DOMAIN files
               /\ files'[o.name] = Overlap(files[o.name], o.pos, e.data)
               /\ e.count = Len(Part(files[o.name], o.pos, Len(e.data)))

(* A restart between two operations keeps every file.  If one is           *)
(* interrupted, the files it was not about keep their contents.            *)
Restart(e) ==
  /\ IF e.interrupted THEN Others(e.name) /\ ~intact' ELSE files' = files /\ intact' = intact
  /\ \A s \in Slot : open'[s] = Closed

Call(e) ==
  \/ e.op = "create" /\ Create(e)
  \/ e.op = "remove" /\ Remove(e)
  \/ e.op = "open" /\ Open(e)
  \/ e.op = "close" /\ Close(e)
  \/ e.op = "seek" /\ Seek(e)
  \/ e.op = "read" /\ Read(e)
  \/ e.op = "write" /\ Write(e)
  \/ e.op = "restart" /\ Restart(e)

Next ==
  \/ intact /\ Call(event')
  \/ ~intact /\ ~intact'

Spec == Init /\ [][Next]_<<files, open, event, intact>>
=============================================================================
