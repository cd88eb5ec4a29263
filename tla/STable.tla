------------------------------- MODULE STable -------------------------------
(***************************************************************************)
(* User semaphores: the table of named semaphores (threads/stable.cc) and  *)
(* the system calls CreateSemaphore, Wait and Signal (exception.cc).       *)
(*                                                                         *)
(* A system call runs without interruption except in P, where it may wait. *)
(*                                                                         *)
(* Semaphore keeps the pointer to its name, and CreateSemaphore deletes    *)
(* the name before it returns, so every later strcmp reads freed memory.   *)
(* namesKept says what the build makes of that: with TRUE the freed names  *)
(* still read as they were; with FALSE each comparison may give any        *)
(* result.                                                                 *)
(*                                                                         *)
(* The specification's names begin with Table, so that ThreadsProofs can   *)
(* extend this module beside Threads.                                      *)
(***************************************************************************)
EXTENDS Integers, FiniteSets

CONSTANTS
  UserThread,        \* threads that run user programs
  Name,          \* names of semaphores
  SemVal,        \* the initial values that programs ask for
  MAX_SEMAPHORE,
  MaxCalls       \* bound: system calls of each thread

ASSUME STableAssumption ==
  /\ Name # {} /\ SemVal \subseteq Int
  /\ MAX_SEMAPHORE \in Nat \ {0}
  /\ MaxCalls \in Nat

Slot == 0 .. MAX_SEMAPHORE - 1
NoSem == [name |-> "none"]

VARIABLES
  namesKept, \* what freed memory reads as, see above
  lockTab,   \* each slot: NoSem (NULL), or the semaphore with its name and value
  bm,        \* the slots that are marked
  waiting,   \* the slot whose P each thread is in, or -1
  request,   \* the last system call of each thread and the name it gave
  result,    \* what the last system call of each thread returned
  calls,     \* calls of each thread so far
  initial,   \* history, for each name: the initial value,
  signalled, \*   the calls of Signal that returned 0,
  waited     \*   the calls of Wait that returned 0

tableVars == <<namesKept, lockTab, bm, waiting, request, result, calls, initial, signalled, waited>>

TableInit ==
  /\ namesKept \in BOOLEAN
  /\ lockTab = [i \in Slot |-> NoSem]
  /\ bm = {}
  /\ waiting = [t \in UserThread |-> -1]
  /\ request = [t \in UserThread |-> [call |-> "none", name |-> CHOOSE n \in Name : TRUE]]
  /\ result = [t \in UserThread |-> 0]
  /\ calls = [t \in UserThread |-> 0]
  /\ initial = [n \in Name |-> 0]
  /\ signalled = [n \in Name |-> 0]
  /\ waited = [n \in Name |-> 0]

(* Faulty variant of Found: the loop stops one slot too early.             *)
FoundShort(n) ==
  LET named == {i \in Slot \ {MAX_SEMAPHORE - 1} : lockTab[i] # NoSem /\ lockTab[i].name = n}
  IN IF named = {} THEN {-1} ELSE named

(* The slots the loop over lockTab may stop at, -1 when it finds none.     *)
Found(n) ==
  LET used == {i \in Slot : lockTab[i] # NoSem}
      named == {i \in used : lockTab[i].name = n}
  IN IF ~namesKept THEN used \cup {-1}
     ELSE IF named = {} THEN {-1}
     ELSE {CHOOSE i \in named : \A j \in named : i <= j}

Returns(t, r) == result' = [result EXCEPT ![t] = r]

(* Faulty variant of Create: the slot is not marked.                       *)
CreateUnmarked(t, n, semval) ==
  /\ \E i \in Slot \ bm :
       /\ -1 \in Found(n)
       /\ \A j \in Slot \ bm : i <= j
       /\ lockTab' = [lockTab EXCEPT ![i] = [name |-> n, value |-> semval]]
       /\ initial' = [initial EXCEPT ![n] = semval]
       /\ Returns(t, i)
  /\ UNCHANGED <<namesKept, bm, waiting, signalled, waited>>

(* STable::Create: a name that is in use, or a full table, gives -1.       *)
Create(t, n, semval) ==
  /\ \E f \in Found(n) :
       \/ /\ f # -1 \/ bm = Slot
          /\ Returns(t, -1)
          /\ UNCHANGED <<lockTab, bm, initial>>
       \/ /\ f = -1
          /\ \E i \in Slot \ bm :
               /\ \A j \in Slot \ bm : i <= j
               /\ bm' = bm \cup {i}
               /\ lockTab' = [lockTab EXCEPT ![i] = [name |-> n, value |-> semval]]
               /\ initial' = [initial EXCEPT ![n] = semval]
               /\ Returns(t, i)
  /\ UNCHANGED <<namesKept, waiting, signalled, waited>>

(* STable::Wait: -1 when no semaphore has the name, otherwise P of the     *)
(* first one that has.                                                     *)
Wait(t, n) ==
  /\ \E f \in Found(n) :
       \/ /\ f = -1
          /\ Returns(t, -1)
          /\ UNCHANGED waiting
       \/ /\ f # -1
          /\ waiting' = [waiting EXCEPT ![t] = f]
          /\ UNCHANGED result
  /\ UNCHANGED <<namesKept, lockTab, bm, initial, signalled, waited>>

(* Faulty variant of P: the value is not tested again after the sleep.     *)
PUntested(t) ==
  /\ waiting[t] # -1
  /\ lockTab' = [lockTab EXCEPT ![waiting[t]].value = @ - 1]
  /\ waiting' = [waiting EXCEPT ![t] = -1]
  /\ waited' = [waited EXCEPT ![request[t].name] = @ + 1]
  /\ Returns(t, 0)
  /\ UNCHANGED <<namesKept, bm, request, calls, initial, signalled>>

(* Semaphore::P ends when the value is not 0.                              *)
P(t) ==
  /\ waiting[t] # -1
  /\ lockTab[waiting[t]].value # 0
  /\ lockTab' = [lockTab EXCEPT ![waiting[t]].value = @ - 1]
  /\ waiting' = [waiting EXCEPT ![t] = -1]
  /\ waited' = [waited EXCEPT ![request[t].name] = @ + 1]
  /\ Returns(t, 0)
  /\ UNCHANGED <<namesKept, bm, request, calls, initial, signalled>>

(* STable::Signal: -1 when no semaphore has the name, otherwise V of the   *)
(* first one that has.                                                     *)
Signal(t, n) ==
  /\ \E f \in Found(n) :
       \/ /\ f = -1
          /\ Returns(t, -1)
          /\ UNCHANGED <<lockTab, signalled>>
       \/ /\ f # -1
          /\ lockTab' = [lockTab EXCEPT ![f].value = @ + 1]
          /\ signalled' = [signalled EXCEPT ![n] = @ + 1]
          /\ Returns(t, 0)
  /\ UNCHANGED <<namesKept, bm, waiting, initial, waited>>

(* The system calls.                                                       *)
Calls(t, call, n) ==
  /\ waiting[t] = -1
  /\ request' = [request EXCEPT ![t] = [call |-> call, name |-> n]]
  /\ calls[t] < MaxCalls
  /\ calls' = [calls EXCEPT ![t] = @ + 1]

CreateSemaphore(t, n, semval) == Calls(t, "Create", n) /\ Create(t, n, semval)

SysWait(t, n) == Calls(t, "Wait", n) /\ Wait(t, n)

SysSignal(t, n) == Calls(t, "Signal", n) /\ Signal(t, n)

TableNext ==
  \E t \in UserThread :
    \/ \E n \in Name : \/ \E v \in SemVal : CreateSemaphore(t, n, v)
                       \/ SysWait(t, n)
                       \/ SysSignal(t, n)
    \/ P(t)

TableSpec == TableInit /\ [][TableNext]_tableVars
-----------------------------------------------------------------------------
(* Properties.                                                             *)

TableTypeOK ==
  /\ namesKept \in BOOLEAN
  /\ lockTab \in [Slot -> [name : Name, value : Int] \cup {NoSem}]
  /\ bm \subseteq Slot
  /\ waiting \in [UserThread -> Slot \cup {-1}]
  /\ request \in [UserThread -> [call : {"none", "Create", "Wait", "Signal"}, name : Name]]
  /\ result \in [UserThread -> Slot \cup {-1, 0}]
  /\ calls \in [UserThread -> 0 .. MaxCalls]
  /\ initial \in [Name -> Int]
  /\ signalled \in [Name -> Nat]
  /\ waited \in [Name -> Nat]

(* The table holds as many semaphores as it has marked slots: a call of    *)
(* CreateSemaphore that fails uses up nothing.                             *)
SlotsExact == bm = {i \in Slot : lockTab[i] # NoSem}

(* Nobody sleeps on a semaphore that another CreateSemaphore has replaced: *)
(* a semaphore stays in its slot, under its name, for good.                *)
SemaphoresStay ==
  [][\A i \in Slot : lockTab[i] # NoSem => lockTab'[i] # NoSem /\ lockTab'[i].name = lockTab[i].name]_tableVars

(* Semaphores do what programs use them for, as long as names are still    *)
(* readable: Wait on a name returns 0 no more often than the initial value *)
(* and the Signals on it allow.  (A negative initial value, which P does   *)
(* not test for, lets every Wait through.)                                 *)
WaitsAllowed ==
  namesKept => \A n \in Name : initial[n] >= 0 => waited[n] <= initial[n] + signalled[n]

(* "Neu khong ton tai semaphore -> bao loi, tra ve -1": Wait and Signal    *)
(* give -1 when there is no semaphore of that name, and only then, as long *)
(* as names are still readable.                                            *)
ErrorMeansMissing ==
  [][\A t \in UserThread :
       /\ namesKept /\ calls'[t] # calls[t]
       /\ request'[t].call \in {"Wait", "Signal"} /\ waiting'[t] = -1
       => (result'[t] = -1 <=>
             \A i \in Slot : lockTab[i] # NoSem => lockTab[i].name # request'[t].name)]_tableVars

(* The table accounts for its semaphores: every marked slot holds one, and *)
(* none lets more threads through than its value and the Signals allow.    *)
STableInv == TableTypeOK /\ SlotsExact /\ WaitsAllowed
=============================================================================
