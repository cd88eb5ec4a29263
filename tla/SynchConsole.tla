---------------------------- MODULE SynchConsole ----------------------------
(***************************************************************************)
(* The synchronised console (threads/synchcons.cc) on the simulated        *)
(* console device (machine/console.cc): threads that read and write lines, *)
(* and the two interrupt handlers of the device.                           *)
(*                                                                         *)
(* A thread's call is cut where simulated time advances, after every P and *)
(* V; between the cuts the steps of threads and interrupts interleave      *)
(* freely.  Semaphores are counters (see module Threads).  A character     *)
(* that is written is the position it has in its Write; one that is typed  *)
(* is a member of Char.                                                    *)
(***************************************************************************)
EXTENDS Integers, Sequences, FiniteSets, FiniteSetsExt

CONSTANTS
  Thread,    \* the threads that use the console
  Typed,     \* the sequences of characters the user may type
  MaxBytes,  \* bound: the longest Read and Write
  MaxCalls   \* bound: calls of Read or Write of each thread

LF == "LF"       \* ends a line
CtrlA == "^A"   \* makes Read return -1
FF == "FF"       \* the character whose value, as a char, is EOF
Char == {"x", "y", LF, CtrlA, FF}

EOF == "EOF"    \* the device's buffer is empty

ASSUME SynchConsoleAssumption ==
  /\ Typed \subseteq Seq(Char)
  /\ MaxBytes \in Nat \ {0}
  /\ MaxCalls \in Nat

VARIABLES
  pc,              \* where each thread is in Read or Write
  call,            \* the calls each thread has made
  numBytes,        \* the parameter numBytes of the call
  loop,            \* the local variable loop
  ch,              \* Read's local variable ch
  into,            \* what Read has stored in its parameter into
  result,          \* what the last Read of the thread returned
  synchReadAvail,  \* values of the four semaphores of synchcons.cc
  synchWriteAvail,
  RLineBlock,
  WLineBlock,
  incoming,        \* Console::incoming
  putBusy,         \* Console::putBusy, a ConsoleWriteInt is pending
  keyboard,        \* what has been typed and not yet polled
  display,         \* what has been written to the display
  got              \* history: the characters that Read got from GetChar

threadVars == <<pc, call, numBytes, loop, ch, into, result>>
semVars == <<synchReadAvail, synchWriteAvail, RLineBlock, WLineBlock>>
deviceVars == <<incoming, putBusy, keyboard, display, got>>
vars == <<threadVars, semVars, deviceVars>>

(* The constructor of Console.                                             *)
ConsoleInit ==
  /\ incoming = EOF
  /\ putBusy = FALSE
  /\ keyboard \in Typed
  /\ display = <<>>

(* The constructor of SynchConsole.                                        *)
Init ==
  /\ ConsoleInit
  /\ synchReadAvail = 0
  /\ synchWriteAvail = 0
  /\ RLineBlock = 1
  /\ WLineBlock = 1
  /\ pc = [t \in Thread |-> "user"]
  /\ call = [t \in Thread |-> 0]
  /\ numBytes = [t \in Thread |-> 0]
  /\ loop = [t \in Thread |-> 0]
  /\ ch = [t \in Thread |-> EOF]
  /\ into = [t \in Thread |-> <<>>]
  /\ result = [t \in Thread |-> 0]
  /\ got = <<>>

GoTo(t, at) == pc' = [pc EXCEPT ![t] = at]

(* A thread calls Read or Write; every system call that does checks, or    *)
(* chooses, a positive number of bytes (exception.cc), so that Read sets   *)
(* its ch before it looks at it.  Read clears the bytes of into.           *)
Call(t, n, at) ==
  /\ pc[t] = "user"
  /\ call[t] < MaxCalls
  /\ call' = [call EXCEPT ![t] = @ + 1]
  /\ numBytes' = [numBytes EXCEPT ![t] = n]
  /\ loop' = [loop EXCEPT ![t] = 0]
  /\ ch' = [ch EXCEPT ![t] = EOF]
  /\ into' = [into EXCEPT ![t] = <<>>]
  /\ GoTo(t, at)
  /\ UNCHANGED <<result, semVars, deviceVars>>
-----------------------------------------------------------------------------
(* SynchConsole::Write.                                                    *)

CallWrite(t, n) == Call(t, n, "write_P")

(* Faulty variants of Write: the line is not locked; the line is not       *)
(* unlocked.                                                               *)
WriteLockNot(t) ==
  /\ pc[t] = "write_P"
  /\ GoTo(t, "put")
  /\ UNCHANGED <<call, numBytes, loop, ch, into, result, semVars, deviceVars>>

WriteEndLocked(t) ==
  /\ pc[t] = "put"
  /\ loop[t] = numBytes[t]
  /\ GoTo(t, "user")
  /\ UNCHANGED <<call, numBytes, loop, ch, into, result, semVars, deviceVars>>

(* WLineBlock->P().                                                        *)
WriteLock(t) ==
  /\ pc[t] = "write_P"
  /\ WLineBlock > 0
  /\ WLineBlock' = WLineBlock - 1
  /\ GoTo(t, "put")
  /\ UNCHANGED <<call, numBytes, loop, ch, into, result, synchReadAvail, synchWriteAvail,
                 RLineBlock, deviceVars>>

(* cons->PutChar: the character appears, the device is busy until its      *)
(* interrupt.  The ASSERT in PutChar is property PutCharReady.             *)
Put(t) ==
  /\ pc[t] = "put"
  /\ loop[t] < numBytes[t]
  /\ display' = Append(display, [by |-> t, pos |-> loop[t] + 1, of |-> numBytes[t]])
  /\ putBusy' = TRUE
  /\ GoTo(t, "write_wait")
  /\ UNCHANGED <<call, numBytes, loop, ch, into, result, semVars, incoming, keyboard, got>>

(* synchWriteAvail->P().                                                   *)
WriteWait(t) ==
  /\ pc[t] = "write_wait"
  /\ synchWriteAvail > 0
  /\ synchWriteAvail' = synchWriteAvail - 1
  /\ loop' = [loop EXCEPT ![t] = @ + 1]
  /\ GoTo(t, "put")
  /\ UNCHANGED <<call, numBytes, ch, into, result, synchReadAvail, RLineBlock, WLineBlock,
                 deviceVars>>

(* The loop has ended: WLineBlock->V().                                    *)
WriteEnd(t) ==
  /\ pc[t] = "put"
  /\ loop[t] = numBytes[t]
  /\ WLineBlock' = WLineBlock + 1
  /\ GoTo(t, "user")
  /\ UNCHANGED <<call, numBytes, loop, ch, into, result, synchReadAvail, synchWriteAvail,
                 RLineBlock, deviceVars>>
-----------------------------------------------------------------------------
(* SynchConsole::Read.                                                     *)

CallRead(t, n) == Call(t, n, "read_P")

(* Faulty variant of Read: the line is not locked.                         *)
ReadLockNot(t) ==
  /\ pc[t] = "read_P"
  /\ GoTo(t, "read_wait")
  /\ UNCHANGED <<call, numBytes, loop, ch, into, result, semVars, deviceVars>>

(* RLineBlock->P().                                                        *)
ReadLock(t) ==
  /\ pc[t] = "read_P"
  /\ RLineBlock > 0
  /\ RLineBlock' = RLineBlock - 1
  /\ GoTo(t, "read_wait")
  /\ UNCHANGED <<call, numBytes, loop, ch, into, result, synchReadAvail, synchWriteAvail,
                 WLineBlock, deviceVars>>

(* synchReadAvail->P().                                                    *)
ReadWait(t) ==
  /\ pc[t] = "read_wait"
  /\ synchReadAvail > 0
  /\ synchReadAvail' = synchReadAvail - 1
  /\ GoTo(t, "get")
  /\ UNCHANGED <<call, numBytes, loop, ch, into, result, synchWriteAvail, RLineBlock, WLineBlock,
                 deviceVars>>

(* cons->GetChar() finds no character: wait again.                         *)
GetNothing(t) ==
  /\ pc[t] = "get"
  /\ incoming = EOF
  /\ ch' = [ch EXCEPT ![t] = EOF]
  /\ GoTo(t, "read_wait")
  /\ UNCHANGED <<call, numBytes, loop, into, result, semVars, deviceVars>>

(* What Read does with a character: the end of a line is not stored, and   *)
(* ends the Read, as does a full buffer.                                   *)
Store(t) ==
  \/ /\ incoming \in {LF, CtrlA}
     /\ GoTo(t, "unlock")
     /\ UNCHANGED <<loop, into>>
  \/ /\ incoming \notin {LF, CtrlA}
     /\ loop' = [loop EXCEPT ![t] = @ + 1]
     /\ into' = [into EXCEPT ![t] = Append(@, incoming)]
     /\ GoTo(t, IF loop[t] + 1 < numBytes[t] THEN "read_wait" ELSE "unlock")

(* Faulty variant of GetChar: the buffer is not emptied.                   *)
GetKeeping(t) ==
  /\ pc[t] = "get"
  /\ incoming # EOF
  /\ got' = Append(got, [by |-> t, call |-> call[t], ch |-> incoming])
  /\ ch' = [ch EXCEPT ![t] = incoming]
  /\ Store(t)
  /\ UNCHANGED <<call, numBytes, result, semVars, incoming, putBusy, keyboard, display>>

(* cons->GetChar() empties the buffer.                                     *)
Get(t) ==
  /\ pc[t] = "get"
  /\ incoming # EOF
  /\ got' = Append(got, [by |-> t, call |-> call[t], ch |-> incoming])
  /\ incoming' = EOF
  /\ ch' = [ch EXCEPT ![t] = incoming]
  /\ Store(t)
  /\ UNCHANGED <<call, numBytes, result, semVars, putBusy, keyboard, display>>

(* RLineBlock->V(), and the result depends on the last ch.                 *)
ReadEnd(t) ==
  /\ pc[t] = "unlock"
  /\ RLineBlock' = RLineBlock + 1
  /\ result' = [result EXCEPT ![t] = IF ch[t] = CtrlA THEN -1 ELSE loop[t]]
  /\ GoTo(t, "user")
  /\ UNCHANGED <<call, numBytes, loop, ch, into, synchReadAvail, synchWriteAvail, WLineBlock,
                 deviceVars>>
-----------------------------------------------------------------------------
(* The device.                                                             *)

(* Faulty variant of CheckCharAvail: a full buffer is overwritten.         *)
CheckCharAvailOver ==
  /\ keyboard # <<>>
  /\ incoming' = IF Head(keyboard) = FF THEN EOF ELSE Head(keyboard)
  /\ keyboard' = Tail(keyboard)
  /\ synchReadAvail' = synchReadAvail + 1
  /\ UNCHANGED <<threadVars, synchWriteAvail, RLineBlock, WLineBlock, putBusy, display, got>>

(* Console::CheckCharAvail, the poll that re-schedules itself: it takes a  *)
(* character only when the buffer is empty.  Stored in a char, FF is EOF.  *)
CheckCharAvail ==
  /\ incoming = EOF
  /\ keyboard # <<>>
  /\ incoming' = IF Head(keyboard) = FF THEN EOF ELSE Head(keyboard)
  /\ keyboard' = Tail(keyboard)
  /\ synchReadAvail' = synchReadAvail + 1
  /\ UNCHANGED <<threadVars, synchWriteAvail, RLineBlock, WLineBlock, putBusy, display, got>>

(* Console::WriteDone, the interrupt that PutChar scheduled.               *)
WriteDone ==
  /\ putBusy
  /\ putBusy' = FALSE
  /\ synchWriteAvail' = synchWriteAvail + 1
  /\ UNCHANGED <<threadVars, synchReadAvail, RLineBlock, WLineBlock, incoming, keyboard,
                 display, got>>
-----------------------------------------------------------------------------
WriteStep(t) == WriteLock(t) \/ Put(t) \/ WriteWait(t) \/ WriteEnd(t)
ReadStep(t) == ReadLock(t) \/ ReadWait(t) \/ GetNothing(t) \/ Get(t) \/ ReadEnd(t)

Next ==
  \/ \E t \in Thread : \/ \E n \in 1 .. MaxBytes : CallWrite(t, n) \/ CallRead(t, n)
                       \/ WriteStep(t) \/ ReadStep(t)
  \/ CheckCharAvail \/ WriteDone

Spec == Init /\ [][Next]_vars

(* Pending interrupts are delivered and a thread that stays ready runs.    *)
(* Nothing more is assumed of a thread that waits for a line: P tests the  *)
(* semaphore again when the thread runs, and another thread, even the one  *)
(* that did V, may have taken it by then, time and again.                  *)
FairSpec ==
  /\ Spec
  /\ WF_vars(CheckCharAvail) /\ WF_vars(WriteDone)
  /\ \A t \in Thread : WF_vars(WriteStep(t)) /\ WF_vars(ReadStep(t))
-----------------------------------------------------------------------------
(* Properties.                                                             *)

TypeOK ==
  /\ pc \in [Thread -> {"user", "write_P", "put", "write_wait",
                        "read_P", "read_wait", "get", "unlock"}]
  /\ call \in [Thread -> 0 .. MaxCalls]
  /\ numBytes \in [Thread -> 0 .. MaxBytes]
  /\ loop \in [Thread -> 0 .. MaxBytes]
  /\ ch \in [Thread -> Char \cup {EOF}]
  /\ into \in [Thread -> Seq(Char)]
  /\ result \in [Thread -> -1 .. MaxBytes]
  /\ {synchReadAvail, synchWriteAvail, RLineBlock, WLineBlock} \subseteq Nat
  /\ incoming \in (Char \ {FF}) \cup {EOF}
  /\ putBusy \in BOOLEAN
  /\ keyboard \in Seq(Char)

(* The ASSERT in Console::PutChar never fails: no thread puts a character  *)
(* while the device is busy with another one.                              *)
PutCharReady == \A t \in Thread : pc[t] = "put" /\ loop[t] < numBytes[t] => ~putBusy

(* The lines that threads write are not mixed up on the display: after any *)
(* character comes the next one of the same Write, or, when that was its   *)
(* last one, the first of another.                                         *)
WritesWhole ==
  \A i \in 1 .. Len(display) - 1 :
    LET c == display[i]
        d == display[i + 1] IN
    IF c.pos < c.of THEN d = [c EXCEPT !.pos = @ + 1] ELSE d.pos = 1

(* How many of the first n characters of a text are not FF.                *)
Kept(typed, n) == Cardinality({i \in 1 .. n : typed[i] # FF})

(* Every character typed, except FF, reaches a Read exactly once and in    *)
(* order, whatever the timing of polls and readers: those polled so far,   *)
(* without FF, are those that Reads got and then the one in the buffer.    *)
InputKept ==
  \E typed \in Typed :
    LET polled == Len(typed) - Len(keyboard)
        read == [i \in 1 .. Len(got) |-> got[i].ch]
                  \o (IF incoming = EOF THEN <<>> ELSE <<incoming>>)
    IN /\ polled >= 0 /\ keyboard = SubSeq(typed, polled + 1, Len(typed))
       /\ Len(read) = Kept(typed, polled)
       /\ \A i \in 1 .. polled : typed[i] # FF => read[Kept(typed, i)] = typed[i]

(* The characters that one Read gets are consecutive: no other Read takes  *)
(* a character out of the middle of its line.                              *)
ReadsWhole ==
  \A i, j \in 1 .. Len(got) :
    i < j /\ got[i].by = got[j].by /\ got[i].call = got[j].call
      => got[i + 1].by = got[i].by /\ got[i + 1].call = got[i].call

(* A reader that waits is not forgotten by the device: a character in the  *)
(* buffer has its V.                                                       *)
BufferedIsSignalled ==
  incoming # EOF => synchReadAvail > 0 \/ \E t \in Thread : pc[t] = "get"

(* The console keeps going, though a waiting thread may be overtaken time  *)
(* and again: a Write that has the line completes; when threads wait for   *)
(* the line, one of them begins; a character in the buffer is read if some *)
(* thread is in Read.                                                      *)
ConsoleGoesOn ==
  /\ \A t \in Thread : pc[t] = "put" ~> pc[t] = "user"
  /\ (\E t \in Thread : pc[t] = "write_P") ~> (\E t \in Thread : pc[t] = "put" /\ loop[t] = 0)
  /\ (incoming # EOF /\ \E t \in Thread : pc[t] \in {"read_P", "read_wait", "get"})
        ~> incoming = EOF

(* A Read returns a line as it was typed: the characters it got follow one *)
(* another in the input, with none of them in another Read's hands; it has *)
(* stored them in this order, up to a line feed, a ^A or the number of     *)
(* bytes asked for; and its result is how many it has stored, or -1        *)
(* exactly when the line ended in ^A.                                      *)
ReadReturnsLine ==
  [][\A t \in Thread : pc[t] = "unlock" /\ pc'[t] = "user" =>
       LET mine == {i \in 1 .. Len(got) : got[i].by = t /\ got[i].call = call[t]}
           last == Max(mine)
           ended == got[last].ch \in {LF, CtrlA}
           before == last - Len(into[t]) - (IF ended THEN 1 ELSE 0)
       IN /\ mine = before + 1 .. last
          /\ \A i \in 1 .. Len(into[t]) :
                into[t][i] = got[before + i].ch /\ into[t][i] \notin {LF, CtrlA}
          /\ ended \/ Len(into[t]) = numBytes[t]
          /\ result'[t] = IF got[last].ch = CtrlA THEN -1 ELSE Len(into[t])]_vars

(* Lines are whole in both directions, although the threads interleave at  *)
(* every character.                                                        *)
LinesWhole == WritesWhole /\ ReadsWhole

(* The device and its users agree: it is given a character only when idle, *)
(* and a character it holds for a reader has been signalled.               *)
ConsoleInv == TypeOK /\ PutCharReady /\ BufferedIsSignalled
=============================================================================
