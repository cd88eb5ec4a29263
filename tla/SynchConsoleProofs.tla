------------------------- MODULE SynchConsoleProofs -------------------------
(***************************************************************************)
(* Proofs about module SynchConsole, for every number of threads, every    *)
(* text typed and every length of lines.  WLineBlock and RLineBlock let    *)
(* one writer and one reader at a time in (Locked).  The writer's          *)
(* synchWriteAvail and the device's interrupt alternate (WriteTurn), so    *)
(* that the end of display says where the writer is (Displayed); the end   *)
(* of got says what the reader has got in its call (Gotten, Stored).       *)
(***************************************************************************)
EXTENDS SynchConsole, FiniteSetTheorems, TLAPS

Writing(t) == pc[t] \in {"put", "write_wait"}
Reading(t) == pc[t] \in {"read_wait", "get", "unlock"}

Locked ==
  /\ \A t, u \in Thread : Writing(t) /\ Writing(u) => t = u
  /\ \A t, u \in Thread : Reading(t) /\ Reading(u) => t = u
  /\ WLineBlock = IF \E t \in Thread : Writing(t) THEN 0 ELSE 1
  /\ RLineBlock = IF \E t \in Thread : Reading(t) THEN 0 ELSE 1

(* A writer that waits has its character in the device or its V.           *)
WriteTurn ==
  synchWriteAvail + (IF putBusy THEN 1 ELSE 0)
    = IF \E t \in Thread : pc[t] = "write_wait" THEN 1 ELSE 0

Looping ==
  \A t \in Thread :
    /\ pc[t] # "user" => loop[t] <= numBytes[t] /\ numBytes[t] >= 1
    /\ pc[t] \in {"write_P", "read_P"} => loop[t] = 0 /\ into[t] = <<>>
    /\ pc[t] \in {"write_wait", "read_wait", "get"} => loop[t] < numBytes[t]

Shown == [by : Thread, pos : Nat, of : Nat]

(* The character that the writer has put last, or the end of a Write.      *)
Displayed ==
  /\ display \in Seq(Shown)
  /\ \A t \in Thread : pc[t] = "write_wait" =>
        display # <<>> /\ display[Len(display)] = [by |-> t, pos |-> loop[t] + 1, of |-> numBytes[t]]
  /\ \A t \in Thread : pc[t] = "put" /\ loop[t] > 0 =>
        display # <<>> /\ display[Len(display)] = [by |-> t, pos |-> loop[t], of |-> numBytes[t]]
  /\ (\A t \in Thread : pc[t] # "write_wait" /\ (pc[t] = "put" => loop[t] = 0)) /\ display # <<>> =>
        display[Len(display)].pos = display[Len(display)].of

Got == [by : Thread, call : Nat, ch : Char]

(* The characters that thread t got in its present call.                   *)
Mine(t) == {i \in 1 .. Len(got) : got[i].by = t /\ got[i].call = call[t]}

(* A reader's characters are the last ones got; before it locks the line   *)
(* it has got none in this call.                                           *)
Gotten ==
  /\ got \in Seq(Got)
  /\ \A i \in 1 .. Len(got) : got[i].call <= call[got[i].by]
  /\ \A t \in Thread : pc[t] = "read_P" => Mine(t) = {}
  /\ \A t \in Thread : Reading(t) => \A i \in Mine(t) : \A j \in i .. Len(got) : j \in Mine(t)

(* The reader has got the end of its line.                                 *)
Over(t) == IF pc[t] = "unlock" /\ ch[t] \in {LF, CtrlA} THEN 1 ELSE 0

(* How many characters had been got when the Read of thread t began.       *)
Before(t) == Len(got) - loop[t] - Over(t)

(* The reader has stored what it got, but for the end of the line, and     *)
(* these are the last characters that anybody got.                         *)
StoredBy(t) ==
  /\ Len(into[t]) = loop[t] /\ Before(t) >= 0
  /\ Mine(t) = Before(t) + 1 .. Len(got)
  /\ \A i \in 1 .. loop[t] : into[t][i] = got[Before(t) + i].ch /\ into[t][i] \notin {LF, CtrlA}
  /\ pc[t] = "unlock" => /\ Len(got) \in Mine(t) /\ ch[t] = got[Len(got)].ch
                         /\ ch[t] \in {LF, CtrlA} \/ loop[t] = numBytes[t]

Stored == \A t \in Thread : Reading(t) => StoredBy(t)

Inv ==
  /\ TypeOK /\ Locked /\ WriteTurn /\ Looping /\ Displayed /\ WritesWhole
  /\ Gotten /\ ReadsWhole /\ Stored /\ BufferedIsSignalled /\ InputKept
-----------------------------------------------------------------------------
(* Control: the semaphores and the loops.                                  *)

Control == TypeOK /\ Locked /\ WriteTurn /\ Looping

LEMMA Moves ==
  ASSUME TypeOK, NEW t \in Thread, NEW at, GoTo(t, at)
  PROVE  pc'[t] = at /\ \A u \in Thread : u # t => pc'[u] = pc[u]
BY DEF TypeOK, GoTo

LEMMA TypeFacts ==
  ASSUME TypeOK
  PROVE  /\ synchReadAvail \in Nat /\ synchWriteAvail \in Nat /\ RLineBlock \in Nat /\ WLineBlock \in Nat
         /\ \A t \in Thread : /\ loop[t] \in 0 .. MaxBytes /\ numBytes[t] \in 0 .. MaxBytes
                              /\ call[t] \in 0 .. MaxCalls
         /\ MaxBytes \in Nat /\ MaxCalls \in Nat
BY SynchConsoleAssumption DEF TypeOK

LEMMA SeqEqual ==
  ASSUME NEW S, NEW r \in Seq(S), NEW s \in Seq(S), Len(r) = Len(s),
         \A i \in 1 .. Len(s) : r[i] = s[i]
  PROVE  r = s
OBVIOUS

LEMMA CallControl ==
  ASSUME Control, NEW t \in Thread, NEW n \in 1 .. MaxBytes, NEW at \in {"write_P", "read_P"},
         Call(t, n, at)
  PROVE  Control'
<1>1. TypeOK /\ Locked /\ WriteTurn /\ Looping
  BY DEF Control
<1>2. /\ pc[t] = "user" /\ call[t] < MaxCalls
      /\ call' = [call EXCEPT ![t] = call[t] + 1]
      /\ numBytes' = [numBytes EXCEPT ![t] = n] /\ loop' = [loop EXCEPT ![t] = 0]
      /\ ch' = [ch EXCEPT ![t] = EOF] /\ into' = [into EXCEPT ![t] = <<>>]
      /\ GoTo(t, at)
      /\ UNCHANGED <<result, synchReadAvail, synchWriteAvail, RLineBlock, WLineBlock,
                     incoming, putBusy, keyboard, display, got>>
  BY DEF Call, semVars, deviceVars
<1>3. pc'[t] = at /\ \A u \in Thread : u # t => pc'[u] = pc[u]
  BY <1>1, <1>2, Moves
<1>4. n \in 0 .. MaxBytes /\ n >= 1 /\ 0 \in 0 .. MaxBytes /\ call[t] + 1 \in 0 .. MaxCalls
  BY <1>1, <1>2, TypeFacts
<1>5. TypeOK'
  <2>1. ch' \in [Thread -> Char \cup {EOF}] /\ into' \in [Thread -> Seq(Char)]
    BY <1>1, <1>2 DEF TypeOK
  <2> QED
    BY <1>1, <1>2, <1>4, <2>1 DEF TypeOK, GoTo
<1>6. Locked' /\ WriteTurn'
  BY <1>1, <1>2, <1>3 DEF Locked, WriteTurn, Writing, Reading
<1>7. Looping'
  <2> SUFFICES ASSUME NEW u \in Thread
               PROVE  /\ pc'[u] # "user" => loop'[u] <= numBytes'[u] /\ numBytes'[u] >= 1
                      /\ pc'[u] \in {"write_P", "read_P"} => loop'[u] = 0 /\ into'[u] = <<>>
                      /\ pc'[u] \in {"write_wait", "read_wait", "get"} => loop'[u] < numBytes'[u]
    BY DEF Looping
  <2>1. CASE u = t
    <3>1. loop'[t] = 0 /\ numBytes'[t] = n /\ into'[t] = <<>>
      BY <1>1, <1>2 DEF TypeOK
    <3> QED
      BY <1>3, <1>4, <2>1, <3>1
  <2>2. CASE u # t
    <3>1. /\ loop'[u] = loop[u] /\ numBytes'[u] = numBytes[u] /\ pc'[u] = pc[u]
          /\ into'[u] = into[u]
      BY <1>1, <1>2, <1>3, <2>2 DEF TypeOK
    <3> QED
      BY <1>1, <3>1 DEF Looping
  <2> QED
    BY <2>1, <2>2
<1> QED
  BY <1>5, <1>6, <1>7 DEF Control

LEMMA WriteLockControl ==
  ASSUME Control, NEW t \in Thread, WriteLock(t)
  PROVE  Control'
<1>1. TypeOK /\ Locked /\ WriteTurn /\ Looping
  BY DEF Control
<1>2. /\ pc[t] = "write_P" /\ WLineBlock > 0 /\ WLineBlock' = WLineBlock - 1 /\ GoTo(t, "put")
      /\ UNCHANGED <<call, numBytes, loop, ch, into, result, synchReadAvail, synchWriteAvail, RLineBlock,
                     incoming, putBusy, keyboard, display, got>>
  BY DEF WriteLock, deviceVars
<1>3. pc'[t] = "put" /\ \A u \in Thread : u # t => pc'[u] = pc[u]
  BY <1>1, <1>2, Moves
<1>4. WLineBlock = 1 /\ \A u \in Thread : ~Writing(u)
  BY <1>1, <1>2 DEF Locked
<1>5. TypeOK'
  BY <1>1, <1>2, <1>4 DEF TypeOK, GoTo
<1>6. Locked' /\ WriteTurn'
  BY <1>1, <1>2, <1>3, <1>4 DEF Locked, WriteTurn, Writing, Reading
<1>7. Looping'
  BY <1>1, <1>2, <1>3 DEF Looping
<1> QED
  BY <1>5, <1>6, <1>7 DEF Control

LEMMA PutControl ==
  ASSUME Control, NEW t \in Thread, Put(t)
  PROVE  Control'
<1>1. TypeOK /\ Locked /\ WriteTurn /\ Looping
  BY DEF Control
<1>2. /\ pc[t] = "put" /\ loop[t] < numBytes[t] /\ putBusy' = TRUE /\ GoTo(t, "write_wait")
      /\ UNCHANGED <<call, numBytes, loop, ch, into, result, synchReadAvail, synchWriteAvail, RLineBlock,
                     WLineBlock, incoming, keyboard, got>>
  BY DEF Put, semVars
<1>3. pc'[t] = "write_wait" /\ \A u \in Thread : u # t => pc'[u] = pc[u]
  BY <1>1, <1>2, Moves
<1>4. \A u \in Thread : pc[u] # "write_wait"
  BY <1>1, <1>2 DEF Locked, Writing
<1>5. synchWriteAvail = 0 /\ putBusy = FALSE
  <2>1. synchWriteAvail \in Nat /\ putBusy \in BOOLEAN
    BY <1>1 DEF TypeOK
  <2> QED
    BY <1>1, <1>4, <2>1 DEF WriteTurn
<1>6. TypeOK'
  BY <1>1, <1>2 DEF TypeOK, GoTo
<1>7. Locked'
  BY <1>1, <1>2, <1>3 DEF Locked, Writing, Reading
<1>8. WriteTurn'
  BY <1>2, <1>3, <1>5 DEF WriteTurn
<1>9. Looping'
  BY <1>1, <1>2, <1>3 DEF Looping
<1> QED
  BY <1>6, <1>7, <1>8, <1>9 DEF Control

LEMMA WriteWaitControl ==
  ASSUME Control, NEW t \in Thread, WriteWait(t)
  PROVE  Control'
<1>1. TypeOK /\ Locked /\ WriteTurn /\ Looping
  BY DEF Control
<1>2. /\ pc[t] = "write_wait" /\ synchWriteAvail > 0 /\ synchWriteAvail' = synchWriteAvail - 1
      /\ loop' = [loop EXCEPT ![t] = loop[t] + 1] /\ GoTo(t, "put")
      /\ UNCHANGED <<call, numBytes, ch, into, result, synchReadAvail, RLineBlock, WLineBlock,
                     incoming, putBusy, keyboard, display, got>>
  BY DEF WriteWait, deviceVars
<1>3. pc'[t] = "put" /\ \A u \in Thread : u # t => pc'[u] = pc[u]
  BY <1>1, <1>2, Moves
<1>4. synchWriteAvail = 1 /\ putBusy = FALSE
  <2>1. synchWriteAvail + (IF putBusy THEN 1 ELSE 0) = 1
    BY <1>1, <1>2 DEF WriteTurn
  <2>2. synchWriteAvail \in Nat /\ putBusy \in BOOLEAN
    BY <1>1 DEF TypeOK
  <2>3. CASE putBusy
    BY <1>2, <2>1, <2>2, <2>3
  <2>4. CASE ~putBusy
    <3>1. synchWriteAvail = 1
      BY <2>1, <2>2, <2>4
    <3>2. putBusy = FALSE
      BY <2>2, <2>4
    <3> QED
      BY <3>1, <3>2
  <2> QED
    BY <2>3, <2>4
<1>5. \A u \in Thread : pc'[u] # "write_wait"
  BY <1>1, <1>2, <1>3 DEF Locked, Writing
<1>6. loop[t] < numBytes[t] /\ loop[t] + 1 \in 0 .. MaxBytes /\ loop'[t] = loop[t] + 1
  <2>1. loop[t] < numBytes[t]
    BY <1>1, <1>2 DEF Looping
  <2>2. loop \in [Thread -> 0 .. MaxBytes]
    BY <1>1 DEF TypeOK
  <2> QED
    BY <1>1, <1>2, <2>1, <2>2, TypeFacts
<1>7. TypeOK'
  BY <1>1, <1>2, <1>4, <1>6 DEF TypeOK, GoTo
<1>8. Locked'
  BY <1>1, <1>2, <1>3 DEF Locked, Writing, Reading
<1>9. WriteTurn'
  BY <1>2, <1>4, <1>5 DEF WriteTurn
<1>10. Looping'
  <2> SUFFICES ASSUME NEW u \in Thread
               PROVE  /\ pc'[u] # "user" => loop'[u] <= numBytes[u] /\ numBytes[u] >= 1
                      /\ pc'[u] \in {"write_P", "read_P"} => loop'[u] = 0 /\ into'[u] = <<>>
                      /\ pc'[u] \in {"write_wait", "read_wait", "get"} => loop'[u] < numBytes[u]
    BY <1>2 DEF Looping
  <2>1. CASE u = t
    BY <1>1, <1>2, <1>3, <1>6, <2>1, TypeFacts DEF Looping
  <2>2. CASE u # t
    <3>1. loop'[u] = loop[u] /\ pc'[u] = pc[u] /\ into' = into
      BY <1>1, <1>2, <1>3, <2>2 DEF TypeOK
    <3> QED
      BY <1>1, <3>1 DEF Looping
  <2> QED
    BY <2>1, <2>2
<1> QED
  BY <1>7, <1>8, <1>9, <1>10 DEF Control

LEMMA WriteEndControl ==
  ASSUME Control, NEW t \in Thread, WriteEnd(t)
  PROVE  Control'
<1>1. TypeOK /\ Locked /\ WriteTurn /\ Looping
  BY DEF Control
<1>2. /\ pc[t] = "put" /\ WLineBlock' = WLineBlock + 1 /\ GoTo(t, "user")
      /\ UNCHANGED <<call, numBytes, loop, ch, into, result, synchReadAvail, synchWriteAvail, RLineBlock,
                     incoming, putBusy, keyboard, display, got>>
  BY DEF WriteEnd, deviceVars
<1>3. pc'[t] = "user" /\ \A u \in Thread : u # t => pc'[u] = pc[u]
  BY <1>1, <1>2, Moves
<1>4. WLineBlock = 0 /\ \A u \in Thread : ~(pc'[u] \in {"put", "write_wait"})
  BY <1>1, <1>2, <1>3 DEF Locked, Writing
<1>5. TypeOK'
  BY <1>1, <1>2, <1>4 DEF TypeOK, GoTo
<1>6. Locked' /\ WriteTurn'
  BY <1>1, <1>2, <1>3, <1>4 DEF Locked, WriteTurn, Writing, Reading
<1>7. Looping'
  BY <1>1, <1>2, <1>3 DEF Looping
<1> QED
  BY <1>5, <1>6, <1>7 DEF Control

LEMMA ReadLockControl ==
  ASSUME Control, NEW t \in Thread, ReadLock(t)
  PROVE  Control'
<1>1. TypeOK /\ Locked /\ WriteTurn /\ Looping
  BY DEF Control
<1>2. /\ pc[t] = "read_P" /\ RLineBlock > 0 /\ RLineBlock' = RLineBlock - 1 /\ GoTo(t, "read_wait")
      /\ UNCHANGED <<call, numBytes, loop, ch, into, result, synchReadAvail, synchWriteAvail, WLineBlock,
                     incoming, putBusy, keyboard, display, got>>
  BY DEF ReadLock, deviceVars
<1>3. pc'[t] = "read_wait" /\ \A u \in Thread : u # t => pc'[u] = pc[u]
  BY <1>1, <1>2, Moves
<1>4. RLineBlock = 1 /\ \A u \in Thread : ~Reading(u)
  BY <1>1, <1>2 DEF Locked
<1>5. TypeOK'
  BY <1>1, <1>2, <1>4 DEF TypeOK, GoTo
<1>6. Locked' /\ WriteTurn'
  BY <1>1, <1>2, <1>3, <1>4 DEF Locked, WriteTurn, Writing, Reading
<1>7. Looping'
  BY <1>1, <1>2, <1>3, TypeFacts DEF Looping
<1> QED
  BY <1>5, <1>6, <1>7 DEF Control

(* The steps of a reader that has the line.                                *)
LEMMA ReadingControl ==
  ASSUME Control, NEW t \in Thread, ReadWait(t) \/ GetNothing(t)
  PROVE  Control'
<1>1. TypeOK /\ Locked /\ WriteTurn /\ Looping
  BY DEF Control
<1>2. /\ pc[t] \in {"read_wait", "get"} /\ pc' = [pc EXCEPT ![t] = pc'[t]]
      /\ pc'[t] \in {"read_wait", "get"} /\ synchReadAvail' \in Nat
      /\ \A u \in Thread : u # t => pc'[u] = pc[u]
      /\ ch' \in [Thread -> Char \cup {EOF}]
      /\ UNCHANGED <<call, numBytes, loop, into, result, synchWriteAvail, RLineBlock, WLineBlock,
                     incoming, putBusy, keyboard, display, got>>
  <2>1. CASE ReadWait(t)
    <3>1. /\ pc[t] = "read_wait" /\ GoTo(t, "get") /\ synchReadAvail > 0
          /\ synchReadAvail' = synchReadAvail - 1
          /\ UNCHANGED <<call, numBytes, loop, ch, into, result, synchWriteAvail, RLineBlock, WLineBlock,
                         incoming, putBusy, keyboard, display, got>>
      BY <2>1 DEF ReadWait, deviceVars
    <3>2. pc'[t] = "get" /\ \A u \in Thread : u # t => pc'[u] = pc[u]
      BY <1>1, <3>1, Moves
    <3>3. synchReadAvail' \in Nat
      BY <1>1, <3>1, TypeFacts
    <3>4. ch' \in [Thread -> Char \cup {EOF}]
      BY <1>1, <3>1 DEF TypeOK
    <3> QED
      BY <3>1, <3>2, <3>3, <3>4 DEF GoTo
  <2>2. CASE GetNothing(t)
    <3>1. /\ pc[t] = "get" /\ GoTo(t, "read_wait") /\ ch' = [ch EXCEPT ![t] = EOF]
          /\ UNCHANGED <<call, numBytes, loop, into, result, synchReadAvail, synchWriteAvail,
                         RLineBlock, WLineBlock, incoming, putBusy, keyboard, display, got>>
      BY <2>2 DEF GetNothing, semVars, deviceVars
    <3>2. pc'[t] = "read_wait" /\ \A u \in Thread : u # t => pc'[u] = pc[u]
      BY <1>1, <3>1, Moves
    <3>3. synchReadAvail' \in Nat
      BY <1>1, <3>1, TypeFacts
    <3>4. ch' \in [Thread -> Char \cup {EOF}]
      BY <1>1, <3>1 DEF TypeOK
    <3> QED
      BY <3>1, <3>2, <3>3, <3>4 DEF GoTo
  <2> QED
    BY <2>1, <2>2
<1>3. TypeOK'
  BY <1>1, <1>2 DEF TypeOK
<1>4. Locked' /\ WriteTurn'
  BY <1>1, <1>2 DEF Locked, WriteTurn, Writing, Reading
<1>5. Looping'
  BY <1>1, <1>2 DEF Looping
<1> QED
  BY <1>3, <1>4, <1>5 DEF Control

(* What Get does.                                                          *)
LEMMA GetEffect ==
  ASSUME Control, NEW t \in Thread, Get(t)
  PROVE  /\ pc[t] = "get" /\ incoming \in Char \ {FF} /\ incoming' = EOF
         /\ got' = Append(got, [by |-> t, call |-> call[t], ch |-> incoming])
         /\ ch' = [ch EXCEPT ![t] = incoming]
         /\ \/ /\ incoming \in {LF, CtrlA} /\ loop' = loop /\ into' = into /\ pc'[t] = "unlock"
            \/ /\ incoming \notin {LF, CtrlA} /\ loop' = [loop EXCEPT ![t] = loop[t] + 1]
               /\ into' = [into EXCEPT ![t] = Append(into[t], incoming)]
               /\ pc'[t] = IF loop[t] + 1 < numBytes[t] THEN "read_wait" ELSE "unlock"
         /\ pc' = [pc EXCEPT ![t] = pc'[t]]
         /\ \A u \in Thread : u # t => pc'[u] = pc[u]
         /\ UNCHANGED <<call, numBytes, result, synchReadAvail, synchWriteAvail, RLineBlock,
                        WLineBlock, putBusy, keyboard, display>>
BY Moves DEF Control, TypeOK, Get, Store, GoTo, semVars

LEMMA GetControl ==
  ASSUME Control, NEW t \in Thread, Get(t)
  PROVE  Control'
<1>1. TypeOK /\ Locked /\ WriteTurn /\ Looping
  BY DEF Control
<1>2. /\ pc[t] = "get" /\ incoming' = EOF
      /\ \/ loop' = loop /\ pc'[t] = "unlock"
         \/ /\ loop' = [loop EXCEPT ![t] = loop[t] + 1]
            /\ pc'[t] = IF loop[t] + 1 < numBytes[t] THEN "read_wait" ELSE "unlock"
      /\ pc' = [pc EXCEPT ![t] = pc'[t]]
      /\ \A u \in Thread : u # t => pc'[u] = pc[u]
      /\ UNCHANGED <<call, numBytes, result, synchReadAvail, synchWriteAvail, RLineBlock,
                     WLineBlock, putBusy, keyboard, display>>
  BY GetEffect
<1>3. /\ loop[t] < numBytes[t] /\ loop[t] + 1 \in 0 .. MaxBytes /\ pc'[t] \in {"read_wait", "unlock"}
      /\ loop[t] \in Nat /\ numBytes[t] \in Nat
  BY <1>1, <1>2, TypeFacts DEF Looping
<1>4. TypeOK'
  <2>1. ch' \in [Thread -> Char \cup {EOF}] /\ into' \in [Thread -> Seq(Char)]
    <3>1. /\ incoming \in Char /\ ch' = [ch EXCEPT ![t] = incoming]
          /\ into' = into \/ into' = [into EXCEPT ![t] = Append(into[t], incoming)]
      BY GetEffect
    <3>2. ch \in [Thread -> Char \cup {EOF}] /\ into \in [Thread -> Seq(Char)] /\ into[t] \in Seq(Char)
      BY <1>1 DEF TypeOK
    <3>3. Append(into[t], incoming) \in Seq(Char)
      BY <3>1, <3>2
    <3>4. ch' \in [Thread -> Char \cup {EOF}]
      BY <3>1, <3>2
    <3>5. into' \in [Thread -> Seq(Char)]
      BY <3>1, <3>2, <3>3
    <3> QED
      BY <3>4, <3>5
  <2> QED
    BY <1>1, <1>2, <1>3, <2>1 DEF TypeOK
<1>5. Locked' /\ WriteTurn'
  BY <1>1, <1>2, <1>3 DEF Locked, WriteTurn, Writing, Reading
<1>6. Looping'
  <2> SUFFICES ASSUME NEW u \in Thread
               PROVE  /\ pc'[u] # "user" => loop'[u] <= numBytes[u] /\ numBytes[u] >= 1
                      /\ pc'[u] \in {"write_P", "read_P"} => loop'[u] = 0 /\ into'[u] = <<>>
                      /\ pc'[u] \in {"write_wait", "read_wait", "get"} => loop'[u] < numBytes[u]
    BY <1>2 DEF Looping
  <2>1. CASE u = t
    <3>1. (loop'[t] = loop[t] /\ pc'[t] = "unlock") \/ loop'[t] = loop[t] + 1
      BY <1>1, <1>2 DEF TypeOK
    <3> QED
      BY <1>1, <1>2, <1>3, <2>1, <3>1 DEF Looping
  <2>2. CASE u # t
    <3>1. loop'[u] = loop[u] /\ pc'[u] = pc[u]
      BY <1>1, <1>2, <2>2 DEF TypeOK
    <3>2. into'[u] = into[u]
      <4>1. into \in [Thread -> Seq(Char)]
        BY <1>1 DEF TypeOK
      <4>2. into' = into \/ into' = [into EXCEPT ![t] = Append(into[t], incoming)]
        BY GetEffect
      <4> QED
        BY <2>2, <4>1, <4>2
    <3> QED
      BY <1>1, <3>1, <3>2 DEF Looping
  <2> QED
    BY <2>1, <2>2
<1> QED
  BY <1>4, <1>5, <1>6 DEF Control

LEMMA ReadEndControl ==
  ASSUME Control, NEW t \in Thread, ReadEnd(t)
  PROVE  Control'
<1>1. TypeOK /\ Locked /\ WriteTurn /\ Looping
  BY DEF Control
<1>2. /\ pc[t] = "unlock" /\ RLineBlock' = RLineBlock + 1 /\ GoTo(t, "user")
      /\ result' = [result EXCEPT ![t] = IF ch[t] = CtrlA THEN -1 ELSE loop[t]]
      /\ UNCHANGED <<call, numBytes, loop, ch, into, synchReadAvail, synchWriteAvail, WLineBlock,
                     incoming, putBusy, keyboard, display, got>>
  BY DEF ReadEnd, deviceVars
<1>3. pc'[t] = "user" /\ \A u \in Thread : u # t => pc'[u] = pc[u]
  BY <1>1, <1>2, Moves
<1>4. RLineBlock = 0 /\ \A u \in Thread : ~(pc'[u] \in {"read_wait", "get", "unlock"})
  BY <1>1, <1>2, <1>3 DEF Locked, Reading
<1>5. result'[t] \in -1 .. MaxBytes /\ result' \in [Thread -> -1 .. MaxBytes]
  BY <1>1, <1>2, TypeFacts DEF TypeOK
<1>6. TypeOK'
  BY <1>1, <1>2, <1>4, <1>5 DEF TypeOK, GoTo
<1>7. Locked' /\ WriteTurn'
  BY <1>1, <1>2, <1>3, <1>4 DEF Locked, WriteTurn, Writing, Reading
<1>8. Looping'
  BY <1>1, <1>2, <1>3 DEF Looping
<1> QED
  BY <1>6, <1>7, <1>8 DEF Control

LEMMA CheckCharAvailEffect ==
  ASSUME Control, CheckCharAvail
  PROVE  /\ incoming = EOF /\ keyboard \in Seq(Char) /\ keyboard # <<>>
         /\ Head(keyboard) \in Char /\ keyboard' = Tail(keyboard) /\ keyboard' \in Seq(Char)
         /\ incoming' = IF Head(keyboard) = FF THEN EOF ELSE Head(keyboard)
         /\ synchReadAvail \in Nat /\ synchReadAvail' = synchReadAvail + 1
         /\ UNCHANGED <<pc, call, numBytes, loop, ch, into, result, synchWriteAvail, RLineBlock, WLineBlock,
                        putBusy, display, got>>
<1>1. keyboard \in Seq(Char) /\ synchReadAvail \in Nat
  BY DEF Control, TypeOK
<1>2. keyboard # <<>> /\ keyboard' = Tail(keyboard)
  BY DEF CheckCharAvail
<1>3. Head(keyboard) \in Char /\ keyboard' \in Seq(Char)
  BY <1>1, <1>2
<1> QED
  BY <1>1, <1>2, <1>3 DEF CheckCharAvail, threadVars

LEMMA CheckCharAvailControl ==
  ASSUME Control, CheckCharAvail
  PROVE  Control'
<1>1. TypeOK /\ Locked /\ WriteTurn /\ Looping
  BY DEF Control
<1>2. /\ synchReadAvail' \in Nat /\ keyboard' \in Seq(Char)
      /\ UNCHANGED <<pc, call, numBytes, loop, ch, into, result, synchWriteAvail, RLineBlock, WLineBlock,
                     putBusy, display, got>>
  BY CheckCharAvailEffect
<1>3. incoming' \in (Char \ {FF}) \cup {EOF}
  BY CheckCharAvailEffect
<1>4. TypeOK'
  BY <1>1, <1>2, <1>3 DEF TypeOK
<1>5. Locked' /\ Looping' /\ WriteTurn'
  BY <1>1, <1>2 DEF Locked, Looping, WriteTurn, Writing, Reading
<1> QED
  BY <1>4, <1>5 DEF Control

LEMMA WriteDoneControl ==
  ASSUME Control, WriteDone
  PROVE  Control'
<1>1. TypeOK /\ Locked /\ WriteTurn /\ Looping
  BY DEF Control
<1>2. /\ putBusy /\ putBusy' = FALSE /\ synchWriteAvail' = synchWriteAvail + 1
      /\ UNCHANGED <<pc, call, numBytes, loop, ch, into, result, synchReadAvail, RLineBlock, WLineBlock,
                     incoming, keyboard, display, got>>
  BY DEF WriteDone, threadVars
<1>3. synchWriteAvail \in Nat
  BY <1>1, TypeFacts
<1>4. TypeOK'
  <2>1. UNCHANGED <<pc, call, numBytes, loop, ch, into, result, synchReadAvail, RLineBlock, WLineBlock,
                    incoming, keyboard>>
    BY <1>2
  <2>2. putBusy' \in BOOLEAN
    BY <1>2
  <2>3. synchWriteAvail' = synchWriteAvail + 1
    BY <1>2
  <2>4. synchWriteAvail' \in Nat
    BY <1>3, <2>3
  <2> QED
    BY <1>1, <2>1, <2>2, <2>4 DEF TypeOK
<1>5. Locked' /\ Looping'
  BY <1>1, <1>2 DEF Locked, Looping, Writing, Reading
<1>6. WriteTurn'
  <2>1. synchWriteAvail + 1 = IF \E t \in Thread : pc[t] = "write_wait" THEN 1 ELSE 0
    BY <1>1, <1>2 DEF WriteTurn
  <2>2. synchWriteAvail' + (IF putBusy' THEN 1 ELSE 0) = synchWriteAvail + 1
    BY <1>2, <1>3
  <2> QED
    BY <1>2, <2>1, <2>2 DEF WriteTurn
<1> QED
  BY <1>4, <1>5, <1>6 DEF Control
-----------------------------------------------------------------------------
(* The display.                                                            *)

(* Displayed and WritesWhole depend on the writers and the display only.   *)
LEMMA DisplayKept ==
  ASSUME TypeOK, Displayed, WritesWhole, display' = display,
         \A t \in Thread : /\ pc'[t] = "write_wait" <=> pc[t] = "write_wait"
                           /\ pc'[t] = "put" /\ loop'[t] # 0 <=> pc[t] = "put" /\ loop[t] # 0
                           /\ pc[t] \in {"write_wait", "put"} =>
                                 loop'[t] = loop[t] /\ numBytes'[t] = numBytes[t],
         TypeOK'
  PROVE  Displayed' /\ WritesWhole'
<1>1. WritesWhole'
  BY DEF WritesWhole
<1>2. Displayed'
  <2>1. \A t \in Thread : loop[t] \in Nat /\ loop'[t] \in Nat
    BY SynchConsoleAssumption DEF TypeOK
  <2>2. display' \in Seq(Shown)
    BY DEF Displayed
  <2>3. \A t \in Thread : pc'[t] = "write_wait" =>
          display # <<>> /\ display[Len(display)] = [by |-> t, pos |-> loop'[t] + 1, of |-> numBytes'[t]]
    BY DEF Displayed
  <2>4. \A t \in Thread : pc'[t] = "put" /\ loop'[t] > 0 =>
          display # <<>> /\ display[Len(display)] = [by |-> t, pos |-> loop'[t], of |-> numBytes'[t]]
    <3> SUFFICES ASSUME NEW t \in Thread, pc'[t] = "put", loop'[t] > 0
                 PROVE  display # <<>> /\ display[Len(display)]
                                            = [by |-> t, pos |-> loop'[t], of |-> numBytes'[t]]
      OBVIOUS
    <3>1. pc[t] = "put" /\ loop[t] # 0
      BY <2>1
    <3>2. loop[t] > 0 /\ loop'[t] = loop[t] /\ numBytes'[t] = numBytes[t]
      BY <2>1, <3>1
    <3> QED
      BY <3>1, <3>2 DEF Displayed
  <2>5. (\A t \in Thread : pc'[t] # "write_wait" /\ (pc'[t] = "put" => loop'[t] = 0)) /\ display # <<>> =>
          display[Len(display)].pos = display[Len(display)].of
    <3> SUFFICES ASSUME \A t \in Thread : pc'[t] # "write_wait" /\ (pc'[t] = "put" => loop'[t] = 0),
                        display # <<>>
                 PROVE  display[Len(display)].pos = display[Len(display)].of
      OBVIOUS
    <3>1. \A t \in Thread : pc[t] # "write_wait" /\ (pc[t] = "put" => loop[t] = 0)
      OBVIOUS
    <3> QED
      BY <3>1 DEF Displayed
  <2> QED
    BY <2>2, <2>3, <2>4, <2>5 DEF Displayed
<1> QED
  BY <1>1, <1>2

LEMMA WriteLockDisplay ==
  ASSUME Control, Control', Displayed, WritesWhole, NEW t \in Thread, WriteLock(t)
  PROVE  Displayed' /\ WritesWhole'
<1>1. TypeOK /\ TypeOK' /\ Looping
  BY DEF Control
<1>2. pc[t] = "write_P" /\ GoTo(t, "put") /\ UNCHANGED <<numBytes, loop, display>>
  BY DEF WriteLock, deviceVars
<1>3. pc'[t] = "put" /\ \A u \in Thread : u # t => pc'[u] = pc[u]
  BY <1>1, <1>2, Moves
<1>4. loop[t] = 0
  BY <1>1, <1>2 DEF Looping
<1> QED
  BY <1>1, <1>2, <1>3, <1>4, DisplayKept

LEMMA PutDisplay ==
  ASSUME Control, Displayed, WritesWhole, NEW t \in Thread, Put(t)
  PROVE  Displayed' /\ WritesWhole'
<1> DEFINE r == [by |-> t, pos |-> loop[t] + 1, of |-> numBytes[t]]
<1>1. TypeOK /\ Locked /\ Looping
  BY DEF Control
<1>2. /\ pc[t] = "put" /\ loop[t] < numBytes[t] /\ GoTo(t, "write_wait")
      /\ display' = Append(display, r) /\ UNCHANGED <<numBytes, loop>>
  BY DEF Put
<1>3. pc'[t] = "write_wait" /\ \A u \in Thread : u # t => pc'[u] = pc[u]
  BY <1>1, <1>2, Moves
<1>4. loop[t] \in Nat /\ numBytes[t] \in Nat
  BY <1>1, TypeFacts
<1>5. r \in Shown /\ r.pos = loop[t] + 1 /\ r.of = numBytes[t] /\ r.by = t
  BY <1>4 DEF Shown
<1>6. display \in Seq(Shown)
  BY DEF Displayed
<1>7. \A u \in Thread : u # t => pc[u] \notin {"put", "write_wait"}
  BY <1>1, <1>2 DEF Locked, Writing
<1> HIDE DEF r
<1>8. /\ display' \in Seq(Shown) /\ Len(display') = Len(display) + 1 /\ Len(display) \in Nat
      /\ display'[Len(display) + 1] = r
      /\ \A i \in 1 .. Len(display) : display'[i] = display[i]
  BY <1>2, <1>5, <1>6
<1>9. display' # <<>> /\ display'[Len(display')] = r
  BY <1>8
<1>10. Displayed'
  <2>1. \A u \in Thread : pc'[u] = "write_wait" => u = t
    BY <1>3, <1>7
  <2>2. \A u \in Thread : pc'[u] # "put"
    BY <1>3, <1>7
  <2>3. r = [by |-> t, pos |-> loop'[t] + 1, of |-> numBytes'[t]]
    BY <1>2 DEF r
  <2> QED
    BY <1>3, <1>8, <1>9, <2>1, <2>2, <2>3 DEF Displayed
<1>11. WritesWhole'
  <2> SUFFICES ASSUME NEW i \in 1 .. Len(display') - 1
               PROVE  IF display'[i].pos < display'[i].of
                      THEN display'[i + 1] = [display'[i] EXCEPT !.pos = @ + 1]
                      ELSE display'[i + 1].pos = 1
    BY DEF WritesWhole
  <2>1. CASE i < Len(display)
    <3>1. i \in 1 .. Len(display) - 1 /\ i \in 1 .. Len(display) /\ i + 1 \in 1 .. Len(display)
      BY <1>8, <2>1
    <3>2. display'[i] = display[i] /\ display'[i + 1] = display[i + 1]
      BY <1>8, <3>1
    <3> QED
      BY <3>1, <3>2 DEF WritesWhole
  <2>2. CASE i >= Len(display)
    <3> DEFINE c == display[Len(display)]
    <3>1. i = Len(display) /\ Len(display) \in 1 .. Len(display) /\ display # <<>>
      BY <1>8, <2>2
    <3>2. display'[i] = c /\ display'[i + 1] = r /\ c \in Shown
      BY <1>6, <1>8, <3>1
    <3>3. CASE loop[t] > 0
      <4>1. c = [by |-> t, pos |-> loop[t], of |-> numBytes[t]]
        BY <1>2, <3>3 DEF Displayed
      <4>2. c.pos = loop[t] /\ c.of = numBytes[t] /\ c.by = t
        BY <4>1
      <4>3. [c EXCEPT !.pos = @ + 1] = r
        BY <4>1 DEF r
      <4> QED
        BY <1>2, <3>2, <4>2, <4>3
    <3>4. CASE loop[t] = 0
      <4>1. \A u \in Thread : pc[u] # "write_wait" /\ (pc[u] = "put" => loop[u] = 0)
        BY <1>2, <1>7, <3>4
      <4>2. c.pos = c.of
        BY <3>1, <4>1 DEF Displayed
      <4>3. r.pos = 1
        BY <1>5, <3>4
      <4>4. c.pos \in Nat /\ ~(c.pos < c.of)
        BY <3>2, <4>2 DEF Shown
      <4> QED
        BY <3>2, <4>3, <4>4
    <3> QED
      BY <1>4, <3>3, <3>4
  <2> QED
    BY <1>8, <2>1, <2>2
<1> QED
  BY <1>10, <1>11

LEMMA WriteWaitDisplay ==
  ASSUME Control, Displayed, WritesWhole, NEW t \in Thread, WriteWait(t)
  PROVE  Displayed' /\ WritesWhole'
<1>1. TypeOK /\ Locked /\ Looping
  BY DEF Control
<1>2. /\ pc[t] = "write_wait" /\ loop' = [loop EXCEPT ![t] = loop[t] + 1] /\ GoTo(t, "put")
      /\ UNCHANGED <<numBytes, display>>
  BY DEF WriteWait, deviceVars
<1>3. pc'[t] = "put" /\ \A u \in Thread : u # t => pc'[u] = pc[u]
  BY <1>1, <1>2, Moves
<1>4. loop[t] \in Nat /\ loop'[t] = loop[t] + 1
  BY <1>1, <1>2, TypeFacts DEF TypeOK
<1>5. \A u \in Thread : u # t => pc[u] \notin {"put", "write_wait"}
  BY <1>1, <1>2 DEF Locked, Writing
<1>6. display # <<>> /\ display[Len(display)] = [by |-> t, pos |-> loop'[t], of |-> numBytes'[t]]
  BY <1>2, <1>4 DEF Displayed
<1>7. \A u \in Thread : pc'[u] # "write_wait" /\ (pc'[u] = "put" => u = t)
  BY <1>3, <1>5
<1>8. loop'[t] # 0
  BY <1>4
<1>9. Displayed'
  <2>1. display' \in Seq(Shown)
    BY <1>2 DEF Displayed
  <2> QED
    BY <1>2, <1>3, <1>6, <1>7, <1>8, <2>1 DEF Displayed
<1>10. WritesWhole'
  BY <1>2 DEF WritesWhole
<1> QED
  BY <1>9, <1>10

LEMMA WriteEndDisplay ==
  ASSUME Control, Displayed, WritesWhole, NEW t \in Thread, WriteEnd(t)
  PROVE  Displayed' /\ WritesWhole'
<1>1. TypeOK /\ Locked /\ Looping
  BY DEF Control
<1>2. /\ pc[t] = "put" /\ loop[t] = numBytes[t] /\ GoTo(t, "user")
      /\ UNCHANGED <<numBytes, loop, display>>
  BY DEF WriteEnd, deviceVars
<1>3. pc'[t] = "user" /\ \A u \in Thread : u # t => pc'[u] = pc[u]
  BY <1>1, <1>2, Moves
<1>4. \A u \in Thread : pc'[u] \notin {"put", "write_wait"}
  BY <1>1, <1>2, <1>3 DEF Locked, Writing
<1>5. loop[t] \in Nat /\ loop[t] > 0
  BY <1>1, <1>2, TypeFacts DEF Looping
<1>6. display[Len(display)].pos = display[Len(display)].of
  <2>1. display[Len(display)] = [by |-> t, pos |-> loop[t], of |-> numBytes[t]]
    BY <1>2, <1>5 DEF Displayed
  <2> QED
    BY <1>2, <2>1
<1>7. display' \in Seq(Shown)
  BY <1>2 DEF Displayed
<1>8. Displayed'
  BY <1>2, <1>4, <1>6, <1>7 DEF Displayed
<1>9. WritesWhole'
  BY <1>2 DEF WritesWhole
<1> QED
  BY <1>8, <1>9

(* The steps that are not a writer's.                                      *)
LEMMA OtherDisplay ==
  ASSUME Control, Control', Displayed, WritesWhole, display' = display,
         \/ UNCHANGED <<pc, loop, numBytes>>
         \/ \E t \in Thread : /\ {pc[t], pc'[t]} \cap {"put", "write_wait"} = {}
                              /\ \A u \in Thread : u # t => /\ pc'[u] = pc[u] /\ loop'[u] = loop[u]
                                                            /\ numBytes'[u] = numBytes[u]
  PROVE  Displayed' /\ WritesWhole'
<1>1. TypeOK /\ TypeOK'
  BY DEF Control
<1>2. \A t \in Thread : /\ pc'[t] = "write_wait" <=> pc[t] = "write_wait"
                        /\ pc'[t] = "put" /\ loop'[t] # 0 <=> pc[t] = "put" /\ loop[t] # 0
                        /\ pc[t] \in {"write_wait", "put"} =>
                              loop'[t] = loop[t] /\ numBytes'[t] = numBytes[t]
  OBVIOUS
<1> QED
  BY <1>1, <1>2, DisplayKept
-----------------------------------------------------------------------------
(* What readers have got.                                                  *)

Reads == Gotten /\ ReadsWhole /\ Stored

(* Reads depends on got, on the calls and on the readers only.             *)
LEMMA ReadsKept ==
  ASSUME Reads, got' = got, call' = call,
         \A t \in Thread : /\ pc'[t] = "read_P" => pc[t] = "read_P"
                           /\ pc'[t] \in {"read_wait", "get", "unlock"} =>
                                 /\ pc[t] \in {"read_wait", "get", "unlock"}
                                 /\ pc'[t] = "unlock" <=> pc[t] = "unlock"
                                 /\ pc[t] = "unlock" => ch'[t] = ch[t]
                                 /\ loop'[t] = loop[t] /\ into'[t] = into[t]
                                 /\ numBytes'[t] = numBytes[t]
  PROVE  Reads'
<1>1. Gotten /\ ReadsWhole /\ Stored
  BY DEF Reads
<1>2. \A t : Mine(t)' = Mine(t)
  BY DEF Mine
<1>3. Gotten'
  BY <1>1, <1>2 DEF Gotten, Reading
<1>4. ReadsWhole'
  BY <1>1 DEF ReadsWhole
<1>5. Stored'
  <2> SUFFICES ASSUME NEW t \in Thread, Reading(t)'
               PROVE  StoredBy(t)'
    BY DEF Stored
  <2>1. StoredBy(t) /\ Before(t)' = Before(t)
    BY <1>1 DEF Stored, Reading, Before, Over
  <2> QED
    BY <1>2, <2>1 DEF StoredBy, Reading
<1> QED
  BY <1>3, <1>4, <1>5 DEF Reads

LEMMA CallReads ==
  ASSUME Control, Reads, NEW t \in Thread, NEW n, NEW at \in {"write_P", "read_P"}, Call(t, n, at)
  PROVE  Reads'
<1>1. TypeOK /\ Gotten /\ ReadsWhole /\ Stored
  BY DEF Control, Reads
<1>2. /\ pc[t] = "user" /\ call' = [call EXCEPT ![t] = call[t] + 1]
      /\ loop' = [loop EXCEPT ![t] = 0] /\ GoTo(t, at) /\ got' = got
      /\ numBytes' = [numBytes EXCEPT ![t] = n]
      /\ ch' = [ch EXCEPT ![t] = EOF] /\ into' = [into EXCEPT ![t] = <<>>]
  BY DEF Call, deviceVars
<1>3. pc'[t] = at /\ \A u \in Thread : u # t => pc'[u] = pc[u]
  BY <1>1, <1>2, Moves
<1>4. /\ call'[t] = call[t] + 1
      /\ \A u \in Thread : u # t => /\ call'[u] = call[u] /\ loop'[u] = loop[u] /\ ch'[u] = ch[u]
                                    /\ into'[u] = into[u] /\ numBytes'[u] = numBytes[u]
  BY <1>1, <1>2 DEF TypeOK
<1>5. \A u \in Thread : call[u] \in Nat
  BY <1>1, TypeFacts
<1>6. /\ got \in Seq(Got)
      /\ \A i \in 1 .. Len(got) : got[i].call <= call[got[i].by]
  BY <1>1 DEF Gotten
<1>7. \A i \in 1 .. Len(got) : got[i].by \in Thread /\ got[i].call \in Nat
  <2>1. \A i \in 1 .. Len(got) : got[i] \in Got
    BY <1>6
  <2> QED
    BY <2>1 DEF Got
<1>8. \A i \in 1 .. Len(got) : got[i].call <= call'[got[i].by]
  <2> SUFFICES ASSUME NEW i \in 1 .. Len(got)
               PROVE  got[i].call <= call'[got[i].by]
    OBVIOUS
  <2>1. got[i].by \in Thread /\ got[i].call \in Nat /\ got[i].call <= call[got[i].by]
    BY <1>6, <1>7
  <2>2. CASE got[i].by = t
    BY <1>4, <1>5, <2>1, <2>2
  <2>3. CASE got[i].by # t
    BY <1>4, <2>1, <2>3
  <2> QED
    BY <2>2, <2>3
<1>9. Mine(t)' = {}
  <2> SUFFICES ASSUME NEW i \in 1 .. Len(got), got[i].by = t, got[i].call = call'[t]
               PROVE  FALSE
    BY <1>2 DEF Mine
  <2>1. got[i].call <= call[t]
    BY <1>6
  <2> QED
    BY <1>4, <1>5, <2>1
<1>10. \A u \in Thread : u # t => Mine(u)' = Mine(u)
  BY <1>2, <1>4 DEF Mine
<1>11. Gotten'
  <2>1. \A u \in Thread : pc'[u] = "read_P" => Mine(u)' = {}
    BY <1>1, <1>3, <1>9, <1>10 DEF Gotten
  <2>2. \A u \in Thread : Reading(u)' => u # t /\ Reading(u)
    BY <1>3 DEF Reading
  <2>3. \A u \in Thread : Reading(u)' =>
          \A i \in Mine(u)' : \A j \in i .. Len(got) : j \in Mine(u)'
    BY <1>1, <1>10, <2>2 DEF Gotten
  <2> QED
    BY <1>2, <1>6, <1>8, <2>1, <2>3 DEF Gotten
<1>12. ReadsWhole'
  BY <1>1, <1>2 DEF ReadsWhole
<1>13. Stored'
  <2> SUFFICES ASSUME NEW u \in Thread, Reading(u)'
               PROVE  StoredBy(u)'
    BY DEF Stored
  <2>1. u # t /\ Reading(u)
    BY <1>3 DEF Reading
  <2>2. /\ Mine(u)' = Mine(u) /\ loop'[u] = loop[u] /\ pc'[u] = pc[u] /\ ch'[u] = ch[u]
        /\ into'[u] = into[u] /\ numBytes'[u] = numBytes[u] /\ got' = got
    BY <1>2, <1>3, <1>4, <1>10, <2>1
  <2>3. StoredBy(u) /\ Before(u)' = Before(u)
    BY <1>1, <2>1, <2>2 DEF Stored, Before, Over
  <2> QED
    BY <2>2, <2>3 DEF StoredBy
<1> QED
  BY <1>11, <1>12, <1>13 DEF Reads

LEMMA ReadLockReads ==
  ASSUME Control, Reads, NEW t \in Thread, ReadLock(t)
  PROVE  Reads'
<1>1. TypeOK /\ Looping /\ Gotten /\ ReadsWhole /\ Stored
  BY DEF Control, Reads
<1>2. pc[t] = "read_P" /\ GoTo(t, "read_wait") /\ UNCHANGED <<call, numBytes, loop, ch, into, got>>
  BY DEF ReadLock, deviceVars
<1>3. pc'[t] = "read_wait" /\ \A u \in Thread : u # t => pc'[u] = pc[u]
  BY <1>1, <1>2, Moves
<1>4. \A u : Mine(u)' = Mine(u)
  BY <1>2 DEF Mine
<1>5. Mine(t) = {} /\ loop[t] = 0
  BY <1>1, <1>2 DEF Gotten, Looping
<1>7. Gotten'
  BY <1>1, <1>2, <1>3, <1>4, <1>5 DEF Gotten, Reading
<1>8. ReadsWhole'
  BY <1>1, <1>2 DEF ReadsWhole
<1>9. Stored'
  <2> SUFFICES ASSUME NEW u \in Thread, Reading(u)'
               PROVE  StoredBy(u)'
    BY DEF Stored
  <2>1. CASE u = t
    <3>1. Len(got) \in Nat /\ Len(into[t]) = 0
      BY <1>1, <1>2 DEF Gotten, Looping
    <3>2. Before(t)' = Len(got)
      BY <1>2, <1>3, <1>5, <3>1 DEF Before, Over
    <3>3. Mine(t)' = Len(got) + 1 .. Len(got)
      BY <1>4, <1>5, <3>1
    <3> QED
      BY <1>2, <1>3, <1>5, <2>1, <3>1, <3>2, <3>3 DEF StoredBy
  <2>2. CASE u # t
    <3>1. pc'[u] = pc[u] /\ Reading(u)
      BY <1>3, <2>2 DEF Reading
    <3>2. StoredBy(u) /\ Before(u)' = Before(u)
      BY <1>1, <1>2, <3>1 DEF Stored, Before, Over
    <3> QED
      BY <1>2, <1>4, <3>1, <3>2 DEF StoredBy
  <2> QED
    BY <2>1, <2>2
<1> QED
  BY <1>7, <1>8, <1>9 DEF Reads

LEMMA GetReads ==
  ASSUME Control, Reads, NEW t \in Thread, Get(t)
  PROVE  Reads'
<1> DEFINE e == [by |-> t, call |-> call[t], ch |-> incoming]
           k == Len(got) + 1
<1>1. TypeOK /\ Locked /\ Looping /\ Gotten /\ ReadsWhole /\ Stored
  BY DEF Control, Reads
<1>2. /\ pc[t] = "get" /\ incoming \in Char /\ got' = Append(got, e) /\ call' = call
      /\ \A u \in Thread : u # t => pc'[u] = pc[u]
  BY GetEffect
<1>3. \/ incoming \in {LF, CtrlA} /\ loop'[t] = loop[t] /\ pc'[t] = "unlock"
      \/ incoming \notin {LF, CtrlA} /\ loop'[t] = loop[t] + 1 /\ pc'[t] \in {"read_wait", "unlock"}
  <2>1. loop \in [Thread -> 0 .. MaxBytes]
    BY <1>1 DEF TypeOK
  <2> QED
    BY <2>1, GetEffect
<1>4. call[t] \in Nat /\ loop[t] \in Nat
  BY <1>1, TypeFacts
<1>5. e \in Got /\ e.by = t /\ e.call = call[t] /\ e.ch = incoming
  BY <1>2, <1>4 DEF Got
<1> HIDE DEF e
<1>6. /\ got \in Seq(Got)
      /\ \A i \in 1 .. Len(got) : got[i].call <= call[got[i].by]
  BY <1>1 DEF Gotten
<1>7. /\ got' \in Seq(Got) /\ Len(got) \in Nat /\ Len(got') = k
      /\ got'[k] = e /\ \A i \in 1 .. Len(got) : got'[i] = got[i]
  BY <1>2, <1>5, <1>6
<1>8. \A i \in 1 .. k : i \in 1 .. Len(got) \/ i = k
  BY <1>7
<1>9. /\ \A i \in 1 .. Len(got) : i \in 1 .. k /\ i # k
      /\ k \in 1 .. k /\ k \in Nat
  BY <1>7
<1> HIDE DEF k
<1>10. Mine(t)' = Mine(t) \cup {k} /\ k \notin Mine(t)
  BY <1>2, <1>5, <1>7, <1>8, <1>9 DEF Mine
<1>11. \A u \in Thread : u # t => Mine(u)' = Mine(u)
  BY <1>2, <1>5, <1>7, <1>8, <1>9 DEF Mine
<1>12. \A u \in Thread : Reading(u) => u = t
  BY <1>1, <1>2 DEF Locked, Reading
<1>13. \A u \in Thread : Reading(u)' => u = t
  BY <1>2, <1>12 DEF Reading
<1>14. \A i \in Mine(t) : \A j \in i .. Len(got) : j \in Mine(t)
  BY <1>1, <1>2 DEF Gotten, Reading
<1>15. Gotten'
  <2>1. \A i \in 1 .. k : got'[i].call <= call[got'[i].by]
    BY <1>4, <1>5, <1>6, <1>7, <1>8
  <2>2. \A u \in Thread : pc'[u] = "read_P" => Mine(u)' = {}
    BY <1>1, <1>2, <1>3, <1>11 DEF Gotten
  <2>3. \A i \in Mine(t)' : \A j \in i .. k : j \in Mine(t)'
    <3> SUFFICES ASSUME NEW i \in Mine(t)', NEW j \in i .. k, j # k
                 PROVE  j \in Mine(t)'
      BY <1>10
    <3>1. i \in 1 .. k
      BY <1>7 DEF Mine
    <3>2. i # k /\ j \in i .. Len(got)
      BY <3>1, <1>7 DEF k
    <3>3. i \in Mine(t)
      BY <1>10, <3>2
    <3> QED
      BY <1>10, <1>14, <3>2, <3>3
  <2> QED
    BY <1>2, <1>7, <1>13, <2>1, <2>2, <2>3 DEF Gotten
<1>16. ReadsWhole'
  <2> SUFFICES ASSUME NEW i \in 1 .. k, NEW j \in 1 .. k, i < j,
                      got'[i].by = got'[j].by, got'[i].call = got'[j].call
               PROVE  got'[i + 1].by = got'[i].by /\ got'[i + 1].call = got'[i].call
    BY <1>7 DEF ReadsWhole
  <2>1. i \in 1 .. Len(got) /\ i + 1 \in 1 .. k
    BY <1>7 DEF k
  <2>2. CASE j # k
    <3>1. j \in 1 .. Len(got) /\ i + 1 \in 1 .. Len(got)
      BY <1>8, <2>1, <2>2
    <3> QED
      BY <1>1, <1>7, <2>1, <3>1 DEF ReadsWhole
  <2>3. CASE j = k
    <3>1. i \in Mine(t)
      BY <1>5, <1>7, <2>1, <2>3 DEF Mine
    <3>2. got'[i].by = t /\ got'[i].call = call[t]
      BY <1>5, <1>7, <2>3
    <3>3. CASE i + 1 = k
      BY <1>5, <1>7, <3>2, <3>3
    <3>4. CASE i + 1 # k
      <4>1. i + 1 \in 1 .. Len(got) /\ i + 1 \in i .. Len(got)
        BY <1>8, <2>1, <3>4
      <4>2. i + 1 \in Mine(t)
        BY <1>14, <3>1, <4>1
      <4>3. got[i + 1].by = t /\ got[i + 1].call = call[t]
        BY <4>2 DEF Mine
      <4> QED
        BY <1>7, <3>2, <4>1, <4>3
    <3> QED
      BY <3>3, <3>4
  <2> QED
    BY <2>2, <2>3
<1>17. Stored'
  <2>1. StoredBy(t) /\ Over(t) = 0 /\ loop[t] < numBytes[t] /\ numBytes[t] \in Nat /\ numBytes' = numBytes
    <3>1. StoredBy(t)
      BY <1>1, <1>2 DEF Stored, Reading
    <3>2. Over(t) = 0
      BY <1>2 DEF Over
    <3>3. loop[t] < numBytes[t]
      BY <1>1, <1>2 DEF Looping
    <3>4. numBytes[t] \in Nat
      BY <1>1, TypeFacts
    <3>5. numBytes' = numBytes
      BY GetEffect
    <3> QED
      BY <3>1, <3>2, <3>3, <3>4, <3>5
  <2>2. /\ ch'[t] = incoming /\ into[t] \in Seq(Char)
        /\ \/ incoming \in {LF, CtrlA} /\ loop'[t] = loop[t] /\ into'[t] = into[t] /\ pc'[t] = "unlock"
           \/ /\ incoming \notin {LF, CtrlA} /\ loop'[t] = loop[t] + 1
              /\ into'[t] = Append(into[t], incoming)
              /\ pc'[t] = IF loop[t] + 1 < numBytes[t] THEN "read_wait" ELSE "unlock"
    <3>1. /\ ch \in [Thread -> Char \cup {EOF}] /\ into \in [Thread -> Seq(Char)]
          /\ loop \in [Thread -> 0 .. MaxBytes]
      BY <1>1 DEF TypeOK
    <3>2. /\ ch' = [ch EXCEPT ![t] = incoming]
          /\ \/ incoming \in {LF, CtrlA} /\ loop' = loop /\ into' = into /\ pc'[t] = "unlock"
             \/ /\ incoming \notin {LF, CtrlA} /\ loop' = [loop EXCEPT ![t] = loop[t] + 1]
                /\ into' = [into EXCEPT ![t] = Append(into[t], incoming)]
                /\ pc'[t] = IF loop[t] + 1 < numBytes[t] THEN "read_wait" ELSE "unlock"
      BY GetEffect
    <3>3. ch'[t] = incoming /\ into[t] \in Seq(Char)
      BY <3>1, <3>2
    <3>4. CASE incoming \in {LF, CtrlA}
      BY <3>2, <3>3, <3>4
    <3>5. CASE incoming \notin {LF, CtrlA}
      <4>1. loop'[t] = loop[t] + 1 /\ into'[t] = Append(into[t], incoming)
        BY <3>1, <3>2, <3>5
      <4> QED
        BY <3>2, <3>3, <3>5, <4>1
    <3> QED
      BY <3>4, <3>5
  <2>3. Before(t) = Len(got) - loop[t] /\ Before(t) \in Nat
    BY <1>4, <1>7, <2>1 DEF StoredBy, Before
  <2>4. Before(t)' = Before(t) /\ k = Len(got) + 1
    BY <1>4, <1>7, <2>2, <2>3 DEF Before, Over, k
  <2>5. Mine(t)' = Before(t)' + 1 .. Len(got')
    <3>1. Mine(t) = Before(t) + 1 .. Len(got)
      BY <2>1 DEF StoredBy
    <3> QED
      BY <1>4, <1>7, <1>10, <2>3, <2>4, <3>1
  <2>6. Len(into'[t]) = loop'[t]
    BY <1>4, <2>1, <2>2 DEF StoredBy
  <2>7. k \in Mine(t)' /\ got'[Len(got')].ch = incoming /\ Len(got') = k
    BY <1>5, <1>7, <1>10
  <2>8. ASSUME NEW i \in 1 .. loop'[t]
        PROVE  into'[t][i] = got'[Before(t)' + i].ch /\ into'[t][i] \notin {LF, CtrlA}
    <3>1. CASE i \in 1 .. loop[t]
      <4>1. into'[t][i] = into[t][i]
        BY <2>1, <2>2, <3>1 DEF StoredBy
      <4>2. Before(t) + i \in 1 .. Len(got)
        BY <1>4, <1>7, <2>3, <3>1
      <4>3. got'[Before(t) + i] = got[Before(t) + i]
        BY <1>7, <4>2
      <4> QED
        BY <2>1, <2>4, <3>1, <4>1, <4>3 DEF StoredBy
    <3>2. CASE i \notin 1 .. loop[t]
      <4>1. i = loop[t] + 1 /\ incoming \notin {LF, CtrlA} /\ into'[t] = Append(into[t], incoming)
        BY <1>4, <2>2, <3>2
      <4>2. into'[t][i] = incoming
        BY <2>1, <2>2, <4>1 DEF StoredBy
      <4>3. Before(t) + i = k
        BY <1>4, <1>7, <2>3, <2>4, <4>1
      <4> QED
        BY <2>4, <2>7, <4>1, <4>2, <4>3
    <3> QED
      BY <3>1, <3>2
  <2>9. pc'[t] = "unlock" => ch'[t] \in {LF, CtrlA} \/ loop'[t] = numBytes[t]
    BY <1>4, <2>1, <2>2
  <2>10. Before(t)' >= 0
    BY <2>3, <2>4
  <2>11. StoredBy(t)'
    BY <2>1, <2>2, <2>5, <2>6, <2>7, <2>8, <2>9, <2>10 DEF StoredBy
  <2> QED
    BY <1>13, <2>11 DEF Stored
<1> QED
  BY <1>15, <1>16, <1>17 DEF Reads
-----------------------------------------------------------------------------
(* What the user has typed.                                                *)

ReadSoFar ==
  [i \in 1 .. Len(got) |-> got[i].ch] \o (IF incoming = EOF THEN <<>> ELSE <<incoming>>)

Polled(typed) == Len(typed) - Len(keyboard)

(* InputKept for the text typed.                                           *)
KeptOf(typed) ==
  /\ Polled(typed) >= 0 /\ keyboard = SubSeq(typed, Polled(typed) + 1, Len(typed))
  /\ Len(ReadSoFar) = Kept(typed, Polled(typed))
  /\ \A i \in 1 .. Polled(typed) : typed[i] # FF => ReadSoFar[Kept(typed, i)] = typed[i]

LEMMA InputKeptOf == InputKept <=> \E typed \in Typed : KeptOf(typed)
BY DEF InputKept, KeptOf, ReadSoFar, Polled

LEMMA InputKeptOfThen == InputKept' <=> \E typed \in Typed : KeptOf(typed)'
BY DEF InputKept, KeptOf, ReadSoFar, Polled

(* How Kept counts on.                                                     *)
LEMMA KeptNext ==
  ASSUME NEW typed, NEW n \in Nat
  PROVE  /\ Kept(typed, n) \in 0 .. n
         /\ Kept(typed, n + 1) = Kept(typed, n) + (IF typed[n + 1] # FF THEN 1 ELSE 0)
<1> DEFINE K(m) == {i \in 1 .. m : typed[i] # FF}
<1>1. IsFiniteSet(1 .. n) /\ Cardinality(1 .. n) = n
  BY FS_Interval
<1>2. IsFiniteSet(K(n)) /\ Cardinality(K(n)) <= n /\ Cardinality(K(n)) \in Nat
  <2>1. K(n) \subseteq 1 .. n
    OBVIOUS
  <2> HIDE DEF K
  <2> QED
    BY <1>1, <2>1, FS_Subset, FS_CardinalityType
<1>3. CASE typed[n + 1] # FF
  <2>1. K(n + 1) = K(n) \cup {n + 1} /\ n + 1 \notin K(n)
    BY <1>3
  <2> HIDE DEF K
  <2>2. Cardinality(K(n + 1)) = Cardinality(K(n)) + 1
    BY <1>2, <2>1, FS_AddElement
  <2> QED
    BY <1>2, <1>3, <2>2 DEF K, Kept
<1>4. CASE typed[n + 1] = FF
  <2>1. K(n + 1) = K(n)
    BY <1>4
  <2> QED
    BY <1>2, <1>4, <2>1 DEF Kept
<1> QED
  BY <1>3, <1>4

LEMMA KeptWithin ==
  ASSUME NEW typed, NEW n \in Nat, NEW i \in 1 .. n, typed[i] # FF
  PROVE  Kept(typed, i) \in 1 .. Kept(typed, n)
<1> DEFINE K(m) == {j \in 1 .. m : typed[j] # FF}
<1>1. K(i) \subseteq K(n) /\ i \in K(i) /\ K(n) \subseteq 1 .. n
  OBVIOUS
<1>2. IsFiniteSet(1 .. n)
  BY FS_Interval
<1> HIDE DEF K
<1>3. IsFiniteSet(K(n)) /\ IsFiniteSet(K(i)) /\ Cardinality(K(i)) <= Cardinality(K(n))
  BY <1>1, <1>2, FS_Subset
<1>4. Cardinality(K(i)) \in Nat /\ Cardinality(K(n)) \in Nat
  BY <1>3, FS_CardinalityType
<1>5. Cardinality(K(i)) # 0
  BY <1>1, <1>3, FS_EmptySet
<1>6. Cardinality(K(i)) \in 1 .. Cardinality(K(n))
  BY <1>3, <1>4, <1>5
<1> QED
  BY <1>6 DEF Kept, K

LEMMA ReadSoFarIs ==
  ASSUME got \in Seq(Got)
  PROVE  /\ incoming = EOF => Len(ReadSoFar) = Len(got)
         /\ incoming # EOF => Len(ReadSoFar) = Len(got) + 1 /\ ReadSoFar[Len(got) + 1] = incoming
         /\ \A i \in 1 .. Len(got) : ReadSoFar[i] = got[i].ch
<1> DEFINE s == [i \in 1 .. Len(got) |-> got[i].ch]
<1>1. Len(got) \in Nat
  OBVIOUS
<1>2. \A i \in 1 .. Len(got) : got[i].ch \in Char
  <2>1. \A i \in 1 .. Len(got) : got[i] \in Got
    OBVIOUS
  <2> QED
    BY <2>1 DEF Got
<1>3. s \in Seq(Char) /\ Len(s) = Len(got) /\ \A i \in 1 .. Len(got) : s[i] = got[i].ch
  BY <1>1, <1>2
<1> HIDE DEF s
<1>4. CASE incoming = EOF
  <2>1. ReadSoFar = s \o <<>>
    BY <1>4 DEF ReadSoFar, s
  <2>2. s \o <<>> = s
    BY <1>3
  <2> QED
    BY <1>3, <1>4, <2>1, <2>2
<1>5. CASE incoming # EOF
  <2>1. ReadSoFar = s \o <<incoming>>
    BY <1>5 DEF ReadSoFar, s
  <2>2. /\ Len(s \o <<incoming>>) = Len(s) + 1 /\ (s \o <<incoming>>)[Len(s) + 1] = incoming
        /\ \A i \in 1 .. Len(s) : (s \o <<incoming>>)[i] = s[i]
    BY <1>3
  <2> QED
    BY <1>3, <1>5, <2>1, <2>2
<1> QED
  BY <1>4, <1>5

LEMMA ReadSoFarThen ==
  ASSUME got' \in Seq(Got)
  PROVE  /\ incoming' = EOF => Len(ReadSoFar') = Len(got')
         /\ incoming' # EOF => Len(ReadSoFar') = Len(got') + 1 /\ ReadSoFar'[Len(got') + 1] = incoming'
         /\ \A i \in 1 .. Len(got') : ReadSoFar'[i] = got'[i].ch
<1> DEFINE s == [i \in 1 .. Len(got') |-> got'[i].ch]
<1>1. Len(got') \in Nat
  OBVIOUS
<1>2. \A i \in 1 .. Len(got') : got'[i].ch \in Char
  <2>1. \A i \in 1 .. Len(got') : got'[i] \in Got
    OBVIOUS
  <2> QED
    BY <2>1 DEF Got
<1>3. s \in Seq(Char) /\ Len(s) = Len(got') /\ \A i \in 1 .. Len(got') : s[i] = got'[i].ch
  BY <1>1, <1>2
<1> HIDE DEF s
<1>4. CASE incoming' = EOF
  <2>1. ReadSoFar' = s \o <<>>
    BY <1>4 DEF ReadSoFar, s
  <2>2. s \o <<>> = s
    BY <1>3
  <2> QED
    BY <1>3, <1>4, <2>1, <2>2
<1>5. CASE incoming' # EOF
  <2>1. ReadSoFar' = s \o <<incoming'>>
    BY <1>5 DEF ReadSoFar, s
  <2>2. /\ Len(s \o <<incoming'>>) = Len(s) + 1 /\ (s \o <<incoming'>>)[Len(s) + 1] = incoming'
        /\ \A i \in 1 .. Len(s) : (s \o <<incoming'>>)[i] = s[i]
    BY <1>3
  <2> QED
    BY <1>3, <1>5, <2>1, <2>2
<1> QED
  BY <1>4, <1>5

LEMMA InputUnchanged ==
  ASSUME InputKept, UNCHANGED <<keyboard, got, incoming>>
  PROVE  InputKept'
BY DEF InputKept

(* Get moves the character from the buffer to got.                         *)
LEMMA GetInput ==
  ASSUME Control, Gotten, Gotten', InputKept, NEW t \in Thread, Get(t)
  PROVE  InputKept'
<1>1. /\ incoming \in Char /\ incoming # EOF /\ incoming' = EOF /\ keyboard' = keyboard
      /\ got' = Append(got, [by |-> t, call |-> call[t], ch |-> incoming])
  BY GetEffect DEF Get
<1>2. got \in Seq(Got) /\ got' \in Seq(Got)
  BY DEF Gotten
<1>3. /\ Len(got) \in Nat /\ Len(got') = Len(got) + 1 /\ got'[Len(got) + 1].ch = incoming
      /\ \A i \in 1 .. Len(got) : got'[i] = got[i]
  BY <1>1, <1>2
<1>4. PICK typed \in Typed : KeptOf(typed)
  BY InputKeptOf
<1>5. Len(ReadSoFar) = Len(got) + 1 /\ Len(ReadSoFar') = Len(got) + 1
  BY <1>1, <1>2, <1>3, ReadSoFarIs, ReadSoFarThen
<1>6. \A i \in 1 .. Len(got) + 1 : ReadSoFar'[i] = ReadSoFar[i]
  <2> SUFFICES ASSUME NEW i \in 1 .. Len(got) + 1
               PROVE  ReadSoFar'[i] = ReadSoFar[i]
    OBVIOUS
  <2>1. ReadSoFar'[i] = got'[i].ch
    BY <1>2, <1>3, ReadSoFarThen
  <2>2. CASE i = Len(got) + 1
    BY <1>1, <1>2, <1>3, <2>1, <2>2, ReadSoFarIs
  <2>3. CASE i # Len(got) + 1
    <3>1. i \in 1 .. Len(got)
      BY <1>3, <2>3
    <3> QED
      BY <1>2, <1>3, <2>1, <3>1, ReadSoFarIs
  <2> QED
    BY <2>2, <2>3
<1>7. Polled(typed)' = Polled(typed)
  BY <1>1 DEF Polled
<1>8. Len(typed) \in Nat /\ Len(keyboard) \in Nat
  BY SynchConsoleAssumption DEF Control, TypeOK
<1>9. Polled(typed) \in Nat
  BY <1>4, <1>8 DEF KeptOf, Polled
<1>10. \A i \in 1 .. Polled(typed) : typed[i] # FF => ReadSoFar'[Kept(typed, i)] = typed[i]
  <2> SUFFICES ASSUME NEW i \in 1 .. Polled(typed), typed[i] # FF
               PROVE  ReadSoFar'[Kept(typed, i)] = typed[i]
    OBVIOUS
  <2>1. Kept(typed, i) \in 1 .. Len(got) + 1
    BY <1>4, <1>5, <1>9, KeptWithin DEF KeptOf
  <2> QED
    BY <1>4, <1>6, <2>1 DEF KeptOf
<1>11. KeptOf(typed)'
  BY <1>1, <1>4, <1>5, <1>7, <1>10 DEF KeptOf
<1> QED
  BY <1>11, InputKeptOfThen

LEMMA CheckCharAvailInput ==
  ASSUME Control, Gotten, InputKept, CheckCharAvail
  PROVE  InputKept'
<1>1. /\ incoming = EOF /\ keyboard \in Seq(Char) /\ keyboard # <<>>
      /\ Head(keyboard) \in Char /\ keyboard' = Tail(keyboard) /\ keyboard' \in Seq(Char)
      /\ incoming' = IF Head(keyboard) = FF THEN EOF ELSE Head(keyboard)
      /\ got' = got
  BY CheckCharAvailEffect
<1>2. got \in Seq(Got) /\ got' \in Seq(Got) /\ Len(got) \in Nat
  BY <1>1 DEF Gotten
<1>3. PICK typed \in Typed : KeptOf(typed)
  BY InputKeptOf
<1>4. typed \in Seq(Char) /\ Len(typed) \in Nat /\ Len(keyboard) \in Nat \ {0}
  <2>1. typed \in Seq(Char)
    BY SynchConsoleAssumption
  <2>2. Len(typed) \in Nat
    BY <2>1
  <2>3. Len(keyboard) \in Nat \ {0}
    BY <1>1
  <2> QED
    BY <2>1, <2>2, <2>3
<1>5. PICK p \in Nat : p = Polled(typed)
  <2>1. Polled(typed) \in Nat
    BY <1>3, <1>4 DEF KeptOf, Polled
  <2> QED
    BY <2>1
<1>6. /\ keyboard = SubSeq(typed, p + 1, Len(typed)) /\ Len(ReadSoFar) = Kept(typed, p)
      /\ \A i \in 1 .. p : typed[i] # FF => ReadSoFar[Kept(typed, i)] = typed[i]
  BY <1>3, <1>5 DEF KeptOf
<1>7. p + 1 <= Len(typed)
  BY <1>4, <1>5 DEF Polled
<1>8. Head(keyboard) = typed[p + 1] /\ keyboard' = SubSeq(typed, p + 2, Len(typed))
  <2>1. /\ Len(keyboard) = Len(typed) - p
        /\ \A i \in 1 .. Len(typed) - p : keyboard[i] = typed[p + i]
    BY <1>4, <1>6, <1>7
  <2>2. Head(keyboard) = typed[p + 1]
    BY <1>1, <1>4, <1>7, <2>1
  <2>3. /\ Len(keyboard') = Len(keyboard) - 1
        /\ \A i \in 1 .. Len(keyboard) - 1 : keyboard'[i] = keyboard[i + 1]
    BY <1>1, <1>4
  <2> DEFINE r == SubSeq(typed, p + 2, Len(typed))
  <2>4. /\ r \in Seq(Char) /\ Len(r) = Len(typed) - p - 1
        /\ \A i \in 1 .. Len(typed) - p - 1 : r[i] = typed[p + 1 + i]
    BY <1>4, <1>7
  <2> HIDE DEF r
  <2>5. Len(keyboard') = Len(r)
    BY <1>4, <2>1, <2>3, <2>4
  <2>6. \A i \in 1 .. Len(r) : keyboard'[i] = r[i]
    <3> SUFFICES ASSUME NEW i \in 1 .. Len(r)
                 PROVE  keyboard'[i] = r[i]
      OBVIOUS
    <3>1. /\ i \in 1 .. Len(keyboard) - 1 /\ i \in 1 .. Len(typed) - p - 1
          /\ i + 1 \in 1 .. Len(typed) - p /\ p + (i + 1) = p + 1 + i
      BY <1>4, <2>1, <2>4
    <3>2. keyboard'[i] = keyboard[i + 1]
      BY <2>3, <3>1
    <3>3. keyboard[i + 1] = typed[p + (i + 1)]
      BY <2>1, <3>1
    <3>4. r[i] = typed[p + 1 + i]
      BY <2>4, <3>1
    <3> QED
      BY <3>1, <3>2, <3>3, <3>4
  <2>7. keyboard' = r
    BY <1>1, <2>4, <2>5, <2>6, SeqEqual
  <2> QED
    BY <2>2, <2>7 DEF r
<1>9. Polled(typed)' = p + 1
  <2>1. Len(keyboard') = Len(keyboard) - 1
    BY <1>1, <1>4
  <2> QED
    BY <1>4, <1>5, <2>1 DEF Polled
<1>10. /\ Len(ReadSoFar') = Kept(typed, p + 1)
       /\ typed[p + 1] # FF => ReadSoFar'[Kept(typed, p + 1)] = typed[p + 1]
       /\ \A i \in 1 .. Kept(typed, p) : ReadSoFar'[i] = ReadSoFar[i]
  <2>1. Len(ReadSoFar) = Len(got) /\ \A i \in 1 .. Len(got) : ReadSoFar[i] = got[i].ch
    BY <1>1, <1>2, ReadSoFarIs
  <2>2. \A i \in 1 .. Len(got) : ReadSoFar'[i] = got[i].ch
    BY <1>1, <1>2, ReadSoFarThen
  <2>3. Kept(typed, p) = Len(got)
    BY <1>6, <2>1
  <2>4. CASE typed[p + 1] = FF
    <3>1. incoming' = EOF /\ Kept(typed, p + 1) = Kept(typed, p)
      <4>1. Kept(typed, p + 1) = Kept(typed, p) + 0 /\ Kept(typed, p) \in Nat
        BY <2>4, KeptNext
      <4> QED
        BY <1>1, <1>8, <2>4, <4>1
    <3>2. Len(ReadSoFar') = Len(got)
      BY <1>1, <1>2, <3>1, ReadSoFarThen
    <3> QED
      BY <2>1, <2>2, <2>3, <2>4, <3>1, <3>2
  <2>5. CASE typed[p + 1] # FF
    <3>1. incoming' = typed[p + 1] /\ incoming' # EOF /\ Kept(typed, p + 1) = Len(got) + 1
      <4>1. Kept(typed, p + 1) = Kept(typed, p) + 1
        BY <2>5, KeptNext
      <4>2. incoming' = typed[p + 1]
        BY <1>1, <1>8, <2>5
      <4>3. incoming' # EOF
        BY <1>1, <1>8, <4>2 DEF Char, EOF, LF, CtrlA, FF
      <4> QED
        BY <2>3, <4>1, <4>2, <4>3
    <3>2. Len(ReadSoFar') = Len(got) + 1 /\ ReadSoFar'[Len(got) + 1] = incoming'
      BY <1>1, <1>2, <3>1, ReadSoFarThen
    <3> QED
      BY <2>1, <2>2, <2>3, <2>5, <3>1, <3>2
  <2> QED
    BY <2>4, <2>5
<1>11. \A i \in 1 .. p + 1 : typed[i] # FF => ReadSoFar'[Kept(typed, i)] = typed[i]
  <2> SUFFICES ASSUME NEW i \in 1 .. p + 1, typed[i] # FF
               PROVE  ReadSoFar'[Kept(typed, i)] = typed[i]
    OBVIOUS
  <2>1. CASE i = p + 1
    BY <1>10, <2>1
  <2>2. CASE i # p + 1
    <3>1. i \in 1 .. p
      BY <2>2
    <3>2. Kept(typed, i) \in 1 .. Kept(typed, p)
      BY <3>1, KeptWithin
    <3> QED
      BY <1>6, <1>10, <3>1, <3>2
  <2> QED
    BY <2>1, <2>2
<1>12. KeptOf(typed)'
  <2>1. p + 1 >= 0 /\ p + 1 + 1 = p + 2
    OBVIOUS
  <2> QED
    BY <1>8, <1>9, <1>10, <1>11, <2>1 DEF KeptOf
<1> QED
  BY <1>12, InputKeptOfThen
-----------------------------------------------------------------------------
(* The invariant and the theorems.                                         *)

LEMMA InitInv == ASSUME Init PROVE Inv
<1>1. /\ incoming = EOF /\ putBusy = FALSE /\ keyboard \in Typed /\ display = <<>>
      /\ synchReadAvail = 0 /\ synchWriteAvail = 0 /\ RLineBlock = 1 /\ WLineBlock = 1
      /\ pc = [t \in Thread |-> "user"] /\ call = [t \in Thread |-> 0]
      /\ numBytes = [t \in Thread |-> 0] /\ loop = [t \in Thread |-> 0]
      /\ result = [t \in Thread |-> 0] /\ got = <<>>
  BY DEF Init, ConsoleInit
<1>2. keyboard \in Seq(Char) /\ MaxBytes \in Nat /\ MaxCalls \in Nat
  BY <1>1, SynchConsoleAssumption
<1>3. TypeOK
  <2>1. /\ call \in [Thread -> 0 .. MaxCalls] /\ numBytes \in [Thread -> 0 .. MaxBytes]
        /\ loop \in [Thread -> 0 .. MaxBytes] /\ result \in [Thread -> -1 .. MaxBytes]
    BY <1>1, <1>2
  <2>2. pc \in [Thread -> {"user", "write_P", "put", "write_wait",
                           "read_P", "read_wait", "get", "unlock"}]
    BY <1>1
  <2>3. {synchReadAvail, synchWriteAvail, RLineBlock, WLineBlock} \subseteq Nat
    BY <1>1
  <2>4. incoming \in (Char \ {FF}) \cup {EOF} /\ putBusy \in BOOLEAN
    BY <1>1
  <2>5. ch \in [Thread -> Char \cup {EOF}] /\ into \in [Thread -> Seq(Char)]
    BY DEF Init
  <2> QED
    BY <1>2, <2>1, <2>2, <2>3, <2>4, <2>5 DEF TypeOK
<1>4. Locked /\ WriteTurn /\ Looping
  BY <1>1 DEF Locked, WriteTurn, Looping, Writing, Reading
<1>5. Displayed /\ WritesWhole
  BY <1>1 DEF Displayed, WritesWhole
<1>6. Gotten /\ ReadsWhole /\ Stored
  BY <1>1 DEF Gotten, ReadsWhole, Stored, Reading, Mine
<1>7. BufferedIsSignalled
  BY <1>1 DEF BufferedIsSignalled
<1>8. InputKept
  <2>1. Len(keyboard) \in Nat /\ Polled(keyboard) = 0
    BY <1>2 DEF Polled
  <2>2. keyboard = SubSeq(keyboard, 1, Len(keyboard))
    BY <1>2
  <2>3. got \in Seq(Got) /\ Len(got) = 0
    BY <1>1
  <2>4. Len(ReadSoFar) = 0
    BY <1>1, <2>3, ReadSoFarIs
  <2>5. Kept(keyboard, 0) = 0
    BY KeptNext
  <2>6. KeptOf(keyboard)
    BY <2>1, <2>2, <2>4, <2>5 DEF KeptOf
  <2> QED
    BY <1>1, <2>6, InputKeptOf
<1> QED
  BY <1>3, <1>4, <1>5, <1>6, <1>7, <1>8 DEF Inv

LEMMA CallInv ==
  ASSUME Inv, NEW t \in Thread, NEW n \in 1 .. MaxBytes, NEW at \in {"write_P", "read_P"},
         Call(t, n, at)
  PROVE  Inv'
<1>1. Control /\ Displayed /\ WritesWhole /\ Reads /\ BufferedIsSignalled /\ InputKept
  BY DEF Inv, Control, Reads
<1>2. Control'
  BY <1>1, CallControl
<1>3. /\ pc[t] = "user" /\ GoTo(t, at) /\ loop' = [loop EXCEPT ![t] = 0]
      /\ numBytes' = [numBytes EXCEPT ![t] = n]
      /\ UNCHANGED <<synchReadAvail, incoming, keyboard, display, got>>
  BY DEF Call, semVars, deviceVars
<1>4. pc'[t] = at /\ \A u \in Thread : u # t => pc'[u] = pc[u]
  BY <1>1, <1>3, Moves DEF Control
<1>5. \A u \in Thread : u # t => loop'[u] = loop[u] /\ numBytes'[u] = numBytes[u]
  BY <1>1, <1>3 DEF Control, TypeOK
<1>6. Displayed' /\ WritesWhole'
  <2>1. {pc[t], pc'[t]} \cap {"put", "write_wait"} = {}
    BY <1>3, <1>4
  <2> QED
    BY <1>1, <1>2, <1>3, <1>4, <1>5, <2>1, OtherDisplay
<1>7. Reads'
  BY <1>1, CallReads
<1>8. BufferedIsSignalled'
  BY <1>1, <1>3, <1>4 DEF BufferedIsSignalled
<1>9. InputKept'
  BY <1>1, <1>3, InputUnchanged
<1> QED
  BY <1>2, <1>6, <1>7, <1>8, <1>9 DEF Inv, Control, Reads

LEMMA WriterInv ==
  ASSUME Inv, NEW t \in Thread, WriteStep(t)
  PROVE  Inv'
<1>1. Control /\ Displayed /\ WritesWhole /\ Reads /\ BufferedIsSignalled /\ InputKept
  BY DEF Inv, Control, Reads
<1>2. WriteLock(t) \/ Put(t) \/ WriteWait(t) \/ WriteEnd(t)
  BY DEF WriteStep
<1>3. Control'
  BY <1>1, <1>2, WriteLockControl, PutControl, WriteWaitControl, WriteEndControl
<1>4. Displayed' /\ WritesWhole'
  BY <1>1, <1>2, <1>3, WriteLockDisplay, PutDisplay, WriteWaitDisplay, WriteEndDisplay
<1>5. /\ pc[t] \in {"write_P", "put", "write_wait"}
      /\ GoTo(t, "put") \/ GoTo(t, "write_wait") \/ GoTo(t, "user")
  BY <1>2 DEF WriteLock, Put, WriteWait, WriteEnd
<1>6. UNCHANGED <<call, synchReadAvail, incoming, keyboard, got>>
  BY <1>2 DEF WriteLock, Put, WriteWait, WriteEnd, deviceVars, semVars
<1>7. /\ pc'[t] \in {"put", "write_wait", "user"}
      /\ \A u \in Thread : u # t => pc'[u] = pc[u]
  BY <1>1, <1>5, Moves DEF Control
<1>8. /\ \A u \in Thread : u # t => loop'[u] = loop[u]
      /\ UNCHANGED <<numBytes, ch, into>>
  BY <1>1, <1>2 DEF Control, TypeOK, WriteLock, Put, WriteWait, WriteEnd
<1>9. Reads'
  BY <1>1, <1>6, <1>7, <1>8, ReadsKept
<1>10. BufferedIsSignalled'
  BY <1>1, <1>5, <1>6, <1>7 DEF BufferedIsSignalled
<1>11. InputKept'
  BY <1>1, <1>6, InputUnchanged
<1> QED
  BY <1>3, <1>4, <1>9, <1>10, <1>11 DEF Inv, Control, Reads

LEMMA ReaderInv ==
  ASSUME Inv, NEW t \in Thread, ReadStep(t)
  PROVE  Inv'
<1>1. Control /\ Displayed /\ WritesWhole /\ Reads /\ BufferedIsSignalled /\ InputKept
  BY DEF Inv, Control, Reads
<1>2. ReadLock(t) \/ ReadWait(t) \/ GetNothing(t) \/ Get(t) \/ ReadEnd(t)
  BY DEF ReadStep
<1>3. Control'
  BY <1>1, <1>2, ReadLockControl, ReadingControl, GetControl, ReadEndControl
<1>4. /\ pc[t] \in {"read_P", "read_wait", "get", "unlock"}
      /\ \/ GoTo(t, "read_wait") \/ GoTo(t, "get") \/ GoTo(t, "unlock") \/ GoTo(t, "user")
      /\ UNCHANGED <<call, numBytes, display>>
  BY <1>2 DEF ReadLock, ReadWait, GetNothing, Get, Store, ReadEnd, semVars, deviceVars
<1>5. /\ pc'[t] \in {"read_wait", "get", "unlock", "user"}
      /\ \A u \in Thread : u # t => pc'[u] = pc[u]
  BY <1>1, <1>4, Moves DEF Control
<1>6. \A u \in Thread : u # t => loop'[u] = loop[u]
  BY <1>1, <1>2 DEF Control, TypeOK, ReadLock, ReadWait, GetNothing, Get, Store, ReadEnd
<1>7. Displayed' /\ WritesWhole'
  <2>1. {pc[t], pc'[t]} \cap {"put", "write_wait"} = {}
    BY <1>4, <1>5
  <2> QED
    BY <1>1, <1>3, <1>4, <1>5, <1>6, <2>1, OtherDisplay
<1>8. CASE ReadLock(t)
  <2>1. pc[t] = "read_P" /\ UNCHANGED <<synchReadAvail, incoming, keyboard, got>>
    BY <1>8 DEF ReadLock, deviceVars
  <2>2. Reads'
    BY <1>1, <1>8, ReadLockReads
  <2>3. BufferedIsSignalled' /\ InputKept'
    BY <1>1, <1>5, <2>1, InputUnchanged DEF BufferedIsSignalled
  <2> QED
    BY <1>3, <1>7, <2>2, <2>3 DEF Inv, Control, Reads
<1>9. CASE ReadWait(t)
  <2>1. /\ pc[t] = "read_wait" /\ GoTo(t, "get")
        /\ UNCHANGED <<call, numBytes, loop, ch, into, incoming, keyboard, got>>
    BY <1>9 DEF ReadWait, deviceVars
  <2>2. pc'[t] = "get"
    BY <1>1, <2>1, Moves DEF Control
  <2>3. Reads'
    BY <1>1, <1>5, <2>1, <2>2, ReadsKept
  <2>4. BufferedIsSignalled' /\ InputKept'
    BY <1>1, <2>1, <2>2, InputUnchanged DEF BufferedIsSignalled
  <2> QED
    BY <1>3, <1>7, <2>3, <2>4 DEF Inv, Control, Reads
<1>10. CASE GetNothing(t)
  <2>1. /\ pc[t] = "get" /\ GoTo(t, "read_wait") /\ incoming = EOF
        /\ ch' = [ch EXCEPT ![t] = EOF]
        /\ UNCHANGED <<call, numBytes, loop, into, incoming, keyboard, got>>
    BY <1>10 DEF GetNothing, deviceVars
  <2>2. pc'[t] = "read_wait"
    BY <1>1, <2>1, Moves DEF Control
  <2>3. Reads'
    <3>1. \A u \in Thread : u # t => ch'[u] = ch[u]
      BY <1>1, <2>1 DEF Control, TypeOK
    <3> QED
      BY <1>1, <1>5, <2>1, <2>2, <3>1, ReadsKept
  <2>4. BufferedIsSignalled' /\ InputKept'
    BY <1>1, <2>1, InputUnchanged DEF BufferedIsSignalled
  <2> QED
    BY <1>3, <1>7, <2>3, <2>4 DEF Inv, Control, Reads
<1>11. CASE Get(t)
  <2>1. Reads'
    BY <1>1, <1>11, GetReads
  <2>2. BufferedIsSignalled'
    BY <1>11 DEF Get, BufferedIsSignalled
  <2>3. InputKept'
    BY <1>1, <1>11, <2>1, GetInput DEF Reads
  <2> QED
    BY <1>3, <1>7, <2>1, <2>2, <2>3 DEF Inv, Control, Reads
<1>12. CASE ReadEnd(t)
  <2>1. /\ pc[t] = "unlock" /\ GoTo(t, "user")
        /\ UNCHANGED <<call, numBytes, loop, ch, into, synchReadAvail, incoming, keyboard, got>>
    BY <1>12 DEF ReadEnd, deviceVars
  <2>2. pc'[t] = "user"
    BY <1>1, <2>1, Moves DEF Control
  <2>3. Reads'
    BY <1>1, <1>5, <2>1, <2>2, ReadsKept
  <2>4. BufferedIsSignalled' /\ InputKept'
    BY <1>1, <1>5, <2>1, InputUnchanged DEF BufferedIsSignalled
  <2> QED
    BY <1>3, <1>7, <2>3, <2>4 DEF Inv, Control, Reads
<1> QED
  BY <1>2, <1>8, <1>9, <1>10, <1>11, <1>12

LEMMA DeviceInv ==
  ASSUME Inv, CheckCharAvail \/ WriteDone
  PROVE  Inv'
<1>1. Control /\ Displayed /\ WritesWhole /\ Reads /\ BufferedIsSignalled /\ InputKept
  BY DEF Inv, Control, Reads
<1>2. Control'
  BY <1>1, CheckCharAvailControl, WriteDoneControl
<1>3. UNCHANGED <<pc, call, numBytes, loop, ch, into, display, got>>
  BY DEF CheckCharAvail, WriteDone, threadVars
<1>4. Displayed' /\ WritesWhole'
  BY <1>1, <1>2, <1>3, OtherDisplay
<1>5. Reads'
  BY <1>1, <1>3, ReadsKept
<1>6. CASE CheckCharAvail
  <2>1. synchReadAvail \in Nat /\ synchReadAvail' = synchReadAvail + 1
    BY <1>1, <1>6, CheckCharAvailEffect
  <2>2. BufferedIsSignalled'
    BY <2>1 DEF BufferedIsSignalled
  <2>3. InputKept'
    BY <1>1, <1>6, CheckCharAvailInput DEF Reads
  <2> QED
    BY <1>2, <1>4, <1>5, <2>2, <2>3 DEF Inv, Control, Reads
<1>7. CASE WriteDone
  <2>1. UNCHANGED <<synchReadAvail, incoming, keyboard>>
    BY <1>7 DEF WriteDone
  <2>2. BufferedIsSignalled' /\ InputKept'
    BY <1>1, <1>3, <2>1, InputUnchanged DEF BufferedIsSignalled
  <2> QED
    BY <1>2, <1>4, <1>5, <2>2 DEF Inv, Control, Reads
<1> QED
  BY <1>6, <1>7

LEMMA NextInv == ASSUME Inv, [Next]_vars PROVE Inv'
<1>1. CASE \E t \in Thread : \/ \E n \in 1 .. MaxBytes : CallWrite(t, n) \/ CallRead(t, n)
                             \/ WriteStep(t) \/ ReadStep(t)
  BY <1>1, CallInv, WriterInv, ReaderInv DEF CallWrite, CallRead
<1>2. CASE CheckCharAvail \/ WriteDone
  BY <1>2, DeviceInv
<1>3. CASE UNCHANGED vars
  <2>1. UNCHANGED <<pc, call, numBytes, loop, ch, into, result, synchReadAvail, synchWriteAvail, RLineBlock,
                    WLineBlock, incoming, putBusy, keyboard, display, got>>
    BY <1>3 DEF vars, threadVars, semVars, deviceVars
  <2>2. Control /\ Displayed /\ WritesWhole /\ Reads /\ BufferedIsSignalled /\ InputKept
    BY DEF Inv, Control, Reads
  <2>3. Control'
    BY <2>1, <2>2 DEF Control, TypeOK, Locked, WriteTurn, Looping, Writing, Reading
  <2>4. Displayed' /\ WritesWhole' /\ Reads'
    BY <2>1, <2>2, <2>3, OtherDisplay, ReadsKept
  <2>5. BufferedIsSignalled' /\ InputKept'
    BY <2>1, <2>2, InputUnchanged DEF BufferedIsSignalled
  <2> QED
    BY <2>3, <2>4, <2>5 DEF Inv, Control, Reads
<1> QED
  BY <1>1, <1>2, <1>3 DEF Next

(* Inv holds in every state the console and its users can be in.           *)
THEOREM Invariance == Spec => []Inv
BY InitInv, NextInv, PTL DEF Spec

(* The ASSERT of Console::PutChar never fails, and a character in the      *)
(* device's buffer has been signalled to its readers.                      *)
THEOREM ConsoleAgrees == Spec => []ConsoleInv
<1>1. Inv => ConsoleInv
  <2> SUFFICES ASSUME Inv PROVE PutCharReady
    BY DEF Inv, ConsoleInv
  <2> SUFFICES ASSUME NEW t \in Thread, pc[t] = "put", putBusy PROVE FALSE
    BY DEF PutCharReady
  <2>1. TypeOK /\ Locked /\ WriteTurn
    BY DEF Inv
  <2>2. \A u \in Thread : pc[u] # "write_wait"
    BY <2>1 DEF Locked, Writing
  <2>3. synchWriteAvail + 1 = 0
    BY <2>1, <2>2 DEF WriteTurn
  <2> QED
    BY <2>1, <2>3, TypeFacts
<1> QED
  BY <1>1, Invariance, PTL

(* The lines of threads are never mixed up, neither on the display nor in  *)
(* what SynchConsole::Read returns.                                        *)
THEOREM LinesStayWhole == Spec => []LinesWhole
<1>1. Inv => LinesWhole
  BY DEF Inv, LinesWhole
<1> QED
  BY <1>1, Invariance, PTL

(* No character typed is lost, doubled or reordered between the device and *)
(* the Reads, except FF, which the device takes for an empty buffer.       *)
THEOREM InputIsKept == Spec => []InputKept
<1>1. Inv => InputKept
  BY DEF Inv
<1> QED
  BY <1>1, Invariance, PTL

(* SynchConsole::Read returns a line as it was typed: its characters       *)
(* follow one another in the input and end the line, and the result is     *)
(* their number, or -1 exactly when the line ended in ^A.                  *)
THEOREM ReadsLines == Spec => ReadReturnsLine
<1> DEFINE Returned(t) ==
             LET mine == {i \in 1 .. Len(got) : got[i].by = t /\ got[i].call = call[t]}
                 last == Max(mine)
                 ended == got[last].ch \in {LF, CtrlA}
                 before == last - Len(into[t]) - (IF ended THEN 1 ELSE 0)
             IN /\ mine = before + 1 .. last
                /\ \A i \in 1 .. Len(into[t]) :
                      into[t][i] = got[before + i].ch /\ into[t][i] \notin {LF, CtrlA}
                /\ ended \/ Len(into[t]) = numBytes[t]
                /\ result'[t] = IF got[last].ch = CtrlA THEN -1 ELSE Len(into[t])
           Returns == \A t \in Thread : pc[t] = "unlock" /\ pc'[t] = "user" => Returned(t)
<1>1. ASSUME Inv, [Next]_vars, NEW t \in Thread, pc[t] = "unlock", pc'[t] = "user"
      PROVE  Returned(t)
  <2>1. TypeOK /\ Locked /\ Gotten /\ Stored
    BY <1>1 DEF Inv
  <2>2. ReadEnd(t)
    <3>1. ~UNCHANGED vars /\ ~CheckCharAvail /\ ~WriteDone
      BY <1>1 DEF vars, threadVars, CheckCharAvail, WriteDone
    <3>2. PICK u \in Thread : \/ \E n \in 1 .. MaxBytes : CallWrite(u, n) \/ CallRead(u, n)
                              \/ WriteStep(u) \/ ReadStep(u)
      <4>1. Next
        BY <1>1, <3>1
      <4> QED
        BY <3>1, <4>1 DEF Next
    <3>3. \E at : GoTo(u, at)
      BY <3>2 DEF CallWrite, CallRead, Call, WriteStep, WriteLock, Put, WriteWait, WriteEnd,
                  ReadStep, ReadLock, ReadWait, GetNothing, Get, Store, ReadEnd
    <3>4. u = t
      BY <1>1, <2>1, <3>3, Moves
    <3> QED
      BY <1>1, <3>2, <3>4 DEF CallWrite, CallRead, Call, WriteStep, WriteLock, Put, WriteWait, WriteEnd,
                  ReadStep, ReadLock, ReadWait, GetNothing, Get, Store
  <2>3. result'[t] = IF ch[t] = CtrlA THEN -1 ELSE loop[t]
    BY <2>1, <2>2 DEF ReadEnd, TypeOK
  <2>4. Reading(t) /\ loop[t] \in Nat /\ Len(got) \in Nat
    BY <1>1, <2>1, TypeFacts DEF Reading, Gotten
  <2>5. StoredBy(t) /\ Len(got) \in Mine(t) /\ ch[t] = got[Len(got)].ch /\ Len(into[t]) = loop[t]
    BY <1>1, <2>1, <2>4 DEF Stored, StoredBy
  <2>6. Max(Mine(t)) = Len(got)
    <3>1. \A i \in Mine(t) : i \in Nat /\ Len(got) >= i
      BY <2>4, <2>5 DEF Mine
    <3>2. \A i \in Mine(t) : (\A j \in Mine(t) : i >= j) => i = Len(got)
      BY <2>5, <3>1
    <3> QED
      BY <2>5, <3>1, <3>2 DEF Max
  <2>7. Before(t) = Len(got) - Len(into[t]) - (IF got[Len(got)].ch \in {LF, CtrlA} THEN 1 ELSE 0)
    BY <1>1, <2>4, <2>5 DEF Before, Over
  <2>8. /\ Mine(t) = Before(t) + 1 .. Len(got)
        /\ \A i \in 1 .. Len(into[t]) :
              into[t][i] = got[Before(t) + i].ch /\ into[t][i] \notin {LF, CtrlA}
        /\ got[Len(got)].ch \in {LF, CtrlA} \/ Len(into[t]) = numBytes[t]
    BY <1>1, <2>5 DEF StoredBy
  <2>9. result'[t] = IF got[Len(got)].ch = CtrlA THEN -1 ELSE Len(into[t])
    BY <2>3, <2>5
  <2>10. Mine(t) = {i \in 1 .. Len(got) : got[i].by = t /\ got[i].call = call[t]}
    BY DEF Mine
  <2> QED
    BY <2>6, <2>7, <2>8, <2>9, <2>10
<1>2. Inv /\ [Next]_vars => [Returns]_vars
  BY <1>1
<1> QED
  BY <1>2, Invariance, PTL DEF Spec, ReadReturnsLine
=============================================================================
