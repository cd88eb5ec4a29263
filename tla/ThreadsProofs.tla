--------------------------- MODULE ThreadsProofs ---------------------------
(***************************************************************************)
(* Proofs about module Threads, for every number of threads and semaphores.*)
(* The invariant is TypeOK /\ ThreadPlacement /\ CarcassSafe, which is     *)
(* inductive: CarcassSafe is needed because Run deletes the carcass, and   *)
(* only its being BLOCKED in Finish keeps it off every list.  NoLostWakeup *)
(* is inductive relative to it, and FinishIsFinal holds of every step that *)
(* starts in it.                                                           *)
(*                                                                         *)
(* The last part is about module STable, the semaphores of user programs,  *)
(* for every number of threads, names, slots and calls.  WaitsAllowed      *)
(* compares history variables that no action reads, so the invariant       *)
(* TableInv adds how they are tied to the table (Accounted) and that a     *)
(* thread inside P waits on a semaphore of the name it asked for           *)
(* (WaitersFound).                                                         *)
(***************************************************************************)
EXTENDS Threads, STable, FiniteSetTheorems, TLAPS

Inv == TypeOK /\ ThreadPlacement /\ CarcassSafe

-----------------------------------------------------------------------------
(* Lists of threads.                                                       *)

(* List::Append adds its argument and nothing else.                        *)
LEMMA AppendOccurs ==
  ASSUME NEW list \in Seq(Thread), NEW u \in Thread
  PROVE  /\ Append(list, u) \in Seq(Thread)
         /\ Append(list, u) # <<>>
         /\ \A t \in Thread : Occurs(Append(list, u), t) <=> Occurs(list, t) \/ t = u
<1> DEFINE new == Append(list, u)
<1>1. /\ new \in Seq(Thread)
      /\ Len(new) = Len(list) + 1
      /\ new[Len(list) + 1] = u
      /\ \A i \in 1 .. Len(list) : new[i] = list[i]
  OBVIOUS
<1>2. DOMAIN new = 1 .. Len(list) + 1 /\ DOMAIN list = 1 .. Len(list) /\ Len(list) \in Nat
  BY <1>1
<1>3. ASSUME NEW t \in Thread
      PROVE  Occurs(new, t) <=> Occurs(list, t) \/ t = u
  <2>1. DOMAIN new = DOMAIN list \cup {Len(list) + 1}
    BY <1>2
  <2> QED
    BY <1>1, <1>2, <2>1 DEF Occurs
<1> QED
  BY <1>1, <1>2, <1>3

(* Appending a thread that is not on the list keeps its elements distinct. *)
LEMMA AppendDistinct ==
  ASSUME NEW list \in Seq(Thread), NEW u \in Thread,
         Distinct(list), ~Occurs(list, u)
  PROVE  Distinct(Append(list, u))
BY DEF Distinct, Occurs

(* List::Remove takes the first thread, and only it, off the list.         *)
LEMMA RemoveHead ==
  ASSUME NEW list \in Seq(Thread), list # <<>>, Distinct(list)
  PROVE  /\ Head(list) \in Thread
         /\ Occurs(list, Head(list))
         /\ Tail(list) \in Seq(Thread)
         /\ Distinct(Tail(list))
         /\ \A t \in Thread : Occurs(Tail(list), t) <=> Occurs(list, t) /\ t # Head(list)
<1>1. /\ Len(list) \in Nat /\ Len(list) >= 1
      /\ DOMAIN list = 1 .. Len(list)
      /\ Head(list) = list[1]
      /\ Tail(list) \in Seq(Thread)
      /\ DOMAIN Tail(list) = 1 .. Len(list) - 1
      /\ \A i \in 1 .. Len(list) - 1 : Tail(list)[i] = list[i + 1]
  OBVIOUS
<1>2. Head(list) \in Thread /\ Occurs(list, Head(list))
  BY <1>1 DEF Occurs
<1>3. Distinct(Tail(list))
  BY <1>1 DEF Distinct
<1>4. ASSUME NEW t \in Thread
      PROVE  Occurs(Tail(list), t) <=> Occurs(list, t) /\ t # Head(list)
  <2>1. ASSUME Occurs(Tail(list), t)
        PROVE  Occurs(list, t) /\ t # Head(list)
    <3>1. PICK i \in 1 .. Len(list) - 1 : list[i + 1] = t
      BY <1>1, <2>1 DEF Occurs
    <3>2. i + 1 \in 1 .. Len(list) /\ 1 \in 1 .. Len(list) /\ i + 1 # 1
      BY <1>1
    <3> QED
      BY <1>1, <3>1, <3>2 DEF Occurs, Distinct
  <2>2. ASSUME Occurs(list, t), t # Head(list)
        PROVE  Occurs(Tail(list), t)
    <3>1. PICK i \in 1 .. Len(list) : list[i] = t
      BY <1>1, <2>2 DEF Occurs
    <3>2. i # 1
      BY <1>1, <2>2, <3>1
    <3>3. i - 1 \in 1 .. Len(list) - 1 /\ (i - 1) + 1 = i
      BY <1>1, <3>2
    <3>4. Tail(list)[i - 1] = t
      BY <1>1, <3>1, <3>3
    <3> QED
      BY <1>1, <3>3, <3>4 DEF Occurs
  <2> QED
    BY <2>1, <2>2
<1> QED
  BY <1>1, <1>2, <1>3, <1>4

-----------------------------------------------------------------------------
(***************************************************************************)
(* No thread holds the CPU: the situation in which Scheduler::Run is       *)
(* called.  st, c, list, q and carcass are the status, continuations,      *)
(* ready list, semaphore queues and threadToBeDestroyed at that moment.    *)
(***************************************************************************)
NobodyRuns(st, c, list, q, carcass) ==
  /\ st \in [Thread -> ThreadStatus]
  /\ c \in [Thread -> Cont]
  /\ list \in Seq(Thread)
  /\ q \in [Sem -> Seq(Thread)]
  /\ carcass \in Thread \cup {NoThread}
  /\ \A t \in Thread : st[t] # "RUNNING"
  /\ \A t \in Thread : st[t] = "READY" <=> Occurs(list, t)
  /\ Distinct(list)
  /\ \A s \in Sem, t \in Thread : Occurs(q[s], t) <=> st[t] = "BLOCKED" /\ c[t] = s
  /\ \A s \in Sem : Distinct(q[s])
  /\ \A t \in Thread : carcass = t => st[t] = "BLOCKED" /\ c[t] = InFinish

(* Scheduler::Run, from such a situation, gives every thread its place.    *)
LEMMA RunPlaces ==
  ASSUME NEW st, NEW list, NEW carcass,
         NobodyRuns(st, cont', list, queue', carcass),
         list # <<>>,
         Run(Head(list), st, Tail(list), carcass)
  PROVE  /\ ThreadPlacement' /\ CarcassSafe'
         /\ status' \in [Thread -> ThreadStatus]
         /\ currentThread' \in Thread
         /\ threadToBeDestroyed' \in Thread \cup {NoThread}
         /\ readyList' \in Seq(Thread)
         /\ mode' \in Mode
<1> DEFINE n == Head(list)
<1>1. /\ n \in Thread /\ Occurs(list, n) /\ Tail(list) \in Seq(Thread)
      /\ Distinct(Tail(list))
      /\ \A t \in Thread : Occurs(Tail(list), t) <=> Occurs(list, t) /\ t # n
  BY RemoveHead DEF NobodyRuns
<1>2. st[n] = "READY" /\ carcass # n
  BY <1>1 DEF NobodyRuns
<1>3. /\ currentThread' = n
      /\ readyList' = Tail(list)
      /\ mode' \in {"tick", "P"}
  BY DEF Run
<1>4. /\ status' \in [Thread -> ThreadStatus]
      /\ status'[n] = "RUNNING"
      /\ threadToBeDestroyed' \in {carcass, NoThread}
      /\ \A t \in Thread : t # n =>
           \/ status'[t] = st[t]
           \/ t = carcass /\ status'[t] = "DELETED" /\ threadToBeDestroyed' = NoThread
  <2>1. CASE cont[n] = Root
    BY <1>1, <2>1 DEF Run, NobodyRuns, ThreadStatus
  <2>2. CASE cont[n] # Root
    BY <1>1, <1>2, <2>2 DEF Run, NobodyRuns, ThreadStatus, DeleteCarcass
  <2> QED
    BY <2>1, <2>2
<1>5. RunningIsCurrent'
  BY <1>1, <1>3, <1>4 DEF RunningIsCurrent, NobodyRuns
<1>6. ReadyListExact'
  BY <1>1, <1>2, <1>3, <1>4 DEF ReadyListExact, NobodyRuns
<1>7. QueuesExact'
  <2>1. ThreadsAssumption
    BY ThreadsAssumption
  <2>2. ASSUME NEW s \in Sem, NEW t \in Thread
        PROVE  Occurs(queue'[s], t) <=> status'[t] = "BLOCKED" /\ cont'[t] = s
    <3>1. CASE t = n
      BY <1>2, <1>4, <3>1 DEF NobodyRuns
    <3>2. CASE t # n /\ t = carcass
      BY <1>4, <2>1, <3>2 DEF NobodyRuns, ThreadsAssumption
    <3>3. CASE t # n /\ t # carcass
      BY <1>4, <3>3 DEF NobodyRuns
    <3> QED
      BY <3>1, <3>2, <3>3
  <2> QED
    BY <2>2 DEF QueuesExact, NobodyRuns
<1>8. CarcassSafe'
  BY <1>2, <1>3, <1>4, ThreadsAssumption
     DEF CarcassSafe, NobodyRuns, ThreadsAssumption
<1> QED
  BY <1>1, <1>3, <1>4, <1>5, <1>6, <1>7, <1>8
     DEF ThreadPlacement, NobodyRuns, Mode

(* Thread::Sleep blocks the current thread on its semaphore's queue, or    *)
(* for ever in Finish, and runs another thread or idles.                   *)
LEMMA SleepPlaces ==
  ASSUME NEW c \in Cont, NEW carcass,
         Sleep(c, carcass),
         NobodyRuns([status EXCEPT ![currentThread] = "BLOCKED"], cont',
                    readyList, queue', carcass),
         currentThread \in Thread
  PROVE  /\ ThreadPlacement' /\ CarcassSafe'
         /\ status' \in [Thread -> ThreadStatus]
         /\ currentThread' \in Thread
         /\ threadToBeDestroyed' \in Thread \cup {NoThread}
         /\ readyList' \in Seq(Thread)
         /\ mode' \in Mode
<1> DEFINE st == [status EXCEPT ![currentThread] = "BLOCKED"]
<1>1. CASE readyList # <<>>
  <2>1. Run(Head(readyList), st, Tail(readyList), carcass)
    BY <1>1 DEF Sleep
  <2> HIDE DEF st
  <2> QED
    BY <1>1, <2>1, RunPlaces DEF st
<1>2. CASE readyList = <<>>
  <2>1. /\ mode' = "idle" /\ status' = st /\ threadToBeDestroyed' = carcass
        /\ currentThread' = currentThread /\ readyList' = readyList
    BY <1>2 DEF Sleep
  <2>2. st[currentThread] = "BLOCKED"
    BY DEF NobodyRuns
  <2>3. RunningIsCurrent'
    BY <2>1, <2>2 DEF RunningIsCurrent, NobodyRuns
  <2>4. ReadyListExact' /\ QueuesExact'
    BY <2>1 DEF ReadyListExact, QueuesExact, NobodyRuns
  <2>5. CarcassSafe'
    BY <2>1 DEF CarcassSafe, NobodyRuns
  <2> QED
    BY <2>1, <2>3, <2>4, <2>5 DEF ThreadPlacement, NobodyRuns, Mode
<1> QED
  BY <1>1, <1>2

(* Thread::Yield puts the current thread behind the others and runs the    *)
(* first of them.                                                          *)
LEMMA YieldPlaces ==
  ASSUME Inv, mode \in {"run", "tick"}, YieldBody, queue' = queue
  PROVE  /\ ThreadPlacement' /\ CarcassSafe'
         /\ status' \in [Thread -> ThreadStatus]
         /\ cont' \in [Thread -> Cont]
         /\ currentThread' \in Thread
         /\ threadToBeDestroyed' \in Thread \cup {NoThread}
         /\ readyList' \in Seq(Thread)
         /\ mode' \in Mode
<1> USE DEF Inv
<1>1. CASE readyList # <<>>
  <2> DEFINE st == [status EXCEPT ![currentThread] = "READY"]
             list == Append(readyList, currentThread)
  <2>1. /\ cont' = [cont EXCEPT ![currentThread] = InYield]
        /\ Run(Head(readyList), st, Append(Tail(readyList), currentThread),
               threadToBeDestroyed)
    BY <1>1 DEF YieldBody
  <2>2. currentThread \in Thread /\ readyList \in Seq(Thread)
    BY DEF TypeOK
  <2>3. Head(list) = Head(readyList) /\ Tail(list) = Append(Tail(readyList), currentThread)
    BY <1>1, <2>2
  <2>4. status[currentThread] = "RUNNING" /\ ~Occurs(readyList, currentThread)
    BY <2>2 DEF ThreadPlacement, RunningIsCurrent, ReadyListExact
  <2>5. /\ list \in Seq(Thread) /\ list # <<>> /\ Distinct(list)
        /\ \A t \in Thread : Occurs(list, t) <=> Occurs(readyList, t) \/ t = currentThread
    BY <2>2, <2>4, AppendOccurs, AppendDistinct DEF ThreadPlacement, ReadyListExact
  <2>6. cont' \in [Thread -> Cont]
    BY <2>1 DEF TypeOK, Cont
  <2>7. NobodyRuns(st, cont', list, queue', threadToBeDestroyed)
    <3>1. st \in [Thread -> ThreadStatus] /\ \A t \in Thread : st[t] # "RUNNING"
      BY <2>2 DEF TypeOK, ThreadStatus, ThreadPlacement, RunningIsCurrent
    <3>2. \A t \in Thread : st[t] = "READY" <=> Occurs(list, t)
      BY <2>2, <2>5 DEF TypeOK, ThreadPlacement, ReadyListExact
    <3>3. \A s \in Sem, t \in Thread :
            Occurs(queue'[s], t) <=> st[t] = "BLOCKED" /\ cont'[t] = s
      BY <2>1, <2>2, <2>4 DEF TypeOK, ThreadPlacement, QueuesExact
    <3>4. \A t \in Thread : threadToBeDestroyed = t =>
            st[t] = "BLOCKED" /\ cont'[t] = InFinish
      BY <2>1, <2>2, <2>4 DEF TypeOK, CarcassSafe
    <3> QED
      BY <2>5, <2>6, <3>1, <3>2, <3>3, <3>4
         DEF NobodyRuns, TypeOK, ThreadPlacement, QueuesExact
  <2> HIDE DEF st, list
  <2>8. Run(Head(list), st, Tail(list), threadToBeDestroyed)
    BY <2>1, <2>3
  <2> QED
    BY <2>5, <2>6, <2>7, <2>8, RunPlaces
<1>2. CASE readyList = <<>>
  <2>1. /\ status' = status /\ cont' = cont /\ currentThread' = currentThread
        /\ threadToBeDestroyed' = threadToBeDestroyed
        /\ readyList' = readyList /\ mode' = "tick"
    BY <1>2 DEF YieldBody, threadVars
  <2> QED
    BY <2>1 DEF TypeOK, ThreadPlacement, RunningIsCurrent, ReadyListExact,
                QueuesExact, CarcassSafe, Mode
<1> QED
  BY <1>1, <1>2

(* Semaphore::V moves the first waiter from the queue to the ready list.   *)
LEMMA VPlaces ==
  ASSUME Inv, NEW s \in Sem, VBody(s), mode \in {"run", "tick", "idle"},
         mode' = IF mode = "idle" THEN "idle" ELSE "tick"
  PROVE  /\ ThreadPlacement' /\ CarcassSafe'
         /\ status' \in [Thread -> ThreadStatus]
         /\ cont' \in [Thread -> Cont]
         /\ currentThread' \in Thread
         /\ threadToBeDestroyed' \in Thread \cup {NoThread}
         /\ readyList' \in Seq(Thread)
         /\ value' \in [Sem -> Nat]
         /\ queue' \in [Sem -> Seq(Thread)]
         /\ mode' \in Mode
<1> USE DEF Inv
<1>1. /\ cont' = cont /\ currentThread' = currentThread
      /\ threadToBeDestroyed' = threadToBeDestroyed
      /\ value' = [value EXCEPT ![s] = @ + 1]
  BY DEF VBody
<1>2. value' \in [Sem -> Nat] /\ mode' \in Mode
  BY <1>1 DEF TypeOK, Mode
<1>3. CASE queue[s] # <<>>
  <2> DEFINE w == Head(queue[s])
  <2>1. /\ status' = [status EXCEPT ![w] = "READY"]
        /\ readyList' = Append(readyList, w)
        /\ queue' = [queue EXCEPT ![s] = Tail(queue[s])]
    BY <1>3 DEF VBody
  <2>2. /\ w \in Thread /\ Occurs(queue[s], w) /\ Tail(queue[s]) \in Seq(Thread)
        /\ Distinct(Tail(queue[s]))
        /\ \A t \in Thread : Occurs(Tail(queue[s]), t) <=> Occurs(queue[s], t) /\ t # w
    BY <1>3, RemoveHead DEF TypeOK, ThreadPlacement, QueuesExact
  <2>3. status[w] = "BLOCKED" /\ cont[w] = s /\ ~Occurs(readyList, w)
    BY <2>2 DEF ThreadPlacement, QueuesExact, ReadyListExact
  <2>4. s # InFinish
    BY ThreadsAssumption DEF ThreadsAssumption
  <2> HIDE DEF w
  <2>5. /\ readyList' \in Seq(Thread) /\ Distinct(readyList')
        /\ \A t \in Thread : Occurs(readyList', t) <=> Occurs(readyList, t) \/ t = w
    BY <2>1, <2>2, <2>3, AppendOccurs, AppendDistinct
       DEF TypeOK, ThreadPlacement, ReadyListExact
  <2>6. status' \in [Thread -> ThreadStatus] /\ queue' \in [Sem -> Seq(Thread)]
    BY <2>1, <2>2 DEF TypeOK, ThreadStatus
  <2>7. RunningIsCurrent'
    BY <1>1, <2>1, <2>2, <2>3 DEF TypeOK, ThreadPlacement, RunningIsCurrent
  <2>8. ReadyListExact'
    BY <2>1, <2>2, <2>5 DEF TypeOK, ThreadPlacement, ReadyListExact
  <2>9. QueuesExact'
    <3>1. ASSUME NEW r \in Sem, NEW t \in Thread
          PROVE  Occurs(queue'[r], t) <=> status'[t] = "BLOCKED" /\ cont'[t] = r
      BY <1>1, <2>1, <2>2, <2>3 DEF TypeOK, ThreadPlacement, QueuesExact
    <3> QED
      BY <2>1, <2>2, <3>1 DEF TypeOK, ThreadPlacement, QueuesExact
  <2>10. CarcassSafe'
    BY <1>1, <2>1, <2>2, <2>3, <2>4 DEF TypeOK, CarcassSafe
  <2> QED
    BY <1>1, <1>2, <2>5, <2>6, <2>7, <2>8, <2>9, <2>10 DEF TypeOK, ThreadPlacement
<1>4. CASE queue[s] = <<>>
  <2>1. status' = status /\ readyList' = readyList /\ queue' = queue
    BY <1>4 DEF VBody
  <2> QED
    BY <1>1, <1>2, <2>1 DEF TypeOK, ThreadPlacement, RunningIsCurrent,
       ReadyListExact, QueuesExact, CarcassSafe
<1> QED
  BY <1>3, <1>4
-----------------------------------------------------------------------------
(* The invariant.                                                          *)

(* It holds when Initialize enables interrupts.                            *)
LEMMA InitInv == Init => Inv
<1> SUFFICES ASSUME Init PROVE Inv
  OBVIOUS
<1> USE ThreadsAssumption DEF Init, ThreadsAssumption
<1>1. TypeOK
  <2>1. <<>> \in Seq(Thread) /\ InitialValue \in [Sem -> Nat]
    OBVIOUS
  <2> QED
    BY <2>1 DEF TypeOK, ThreadStatus, Cont, Mode
<1>2. \A t \in Thread : ~Occurs(<<>>, t)
  BY DEF Occurs
<1>3. Distinct(<<>>)
  BY DEF Distinct
<1>4. ThreadPlacement
  BY <1>2, <1>3 DEF ThreadPlacement, RunningIsCurrent, ReadyListExact, QueuesExact
<1>5. CarcassSafe
  BY DEF CarcassSafe
<1> QED
  BY <1>1, <1>4, <1>5 DEF Inv

(* A step that changes neither threads nor queues keeps it, whatever       *)
(* happens to the value, the interrupts and the mode.                      *)
LEMMA QuietStep ==
  ASSUME Inv, UNCHANGED <<threadVars, queue>>,
         value' \in [Sem -> Nat], pending' \in [Sem -> Nat],
         yieldOnReturn' \in BOOLEAN, mode' \in Mode,
         \/ mode' = mode
         \/ mode' = "halt"
         \/ {mode, mode'} \subseteq {"run", "tick", "P"}
  PROVE  Inv'
BY DEF Inv, TypeOK, threadVars, ThreadPlacement, RunningIsCurrent,
       ReadyListExact, QueuesExact, CarcassSafe

(* Every step of a thread keeps it.                                        *)
LEMMA ThreadStepInv == Inv /\ ThreadStep => Inv'
<1> SUFFICES ASSUME Inv, ThreadStep PROVE Inv'
  OBVIOUS
<1> USE DEF Inv
<1>0. Device \subseteq Sem /\ InFinish \notin Sem
  BY ThreadsAssumption DEF ThreadsAssumption
<1>1. ASSUME NEW t \in Thread, Fork(t) PROVE Inv'
  <2>1. ~Occurs(readyList, t) /\ readyList \in Seq(Thread) /\ Distinct(readyList)
    BY <1>1 DEF Fork, TypeOK, ThreadPlacement, ReadyListExact
  <2>2. /\ readyList' \in Seq(Thread) /\ Distinct(readyList')
        /\ \A u \in Thread : Occurs(readyList', u) <=> Occurs(readyList, u) \/ u = t
    BY <1>1, <2>1, AppendOccurs, AppendDistinct DEF Fork
  <2>3. TypeOK'
    BY <1>1, <2>2 DEF Fork, TypeOK, ThreadStatus, Mode, semVars
  <2>4. RunningIsCurrent'
    BY <1>1 DEF Fork, TypeOK, ThreadPlacement, RunningIsCurrent
  <2>5. ReadyListExact'
    BY <1>1, <2>2 DEF Fork, TypeOK, ThreadPlacement, ReadyListExact
  <2>6. QueuesExact'
    BY <1>1 DEF Fork, TypeOK, ThreadPlacement, QueuesExact, semVars
  <2>7. CarcassSafe'
    BY <1>1 DEF Fork, TypeOK, CarcassSafe
  <2> QED
    BY <2>3, <2>4, <2>5, <2>6, <2>7 DEF ThreadPlacement
<1>2. ASSUME NEW s \in Sem, PTake(s) PROVE Inv'
  <2>1. value' \in [Sem -> Nat]
    BY <1>2 DEF PTake, TypeOK
  <2> QED
    BY <1>2, <2>1, QuietStep DEF PTake, AtPTest, TypeOK, Mode
<1>3. ASSUME NEW s \in Sem, PSleep(s) PROVE Inv'
  <2> DEFINE st == [status EXCEPT ![currentThread] = "BLOCKED"]
  <2>1. /\ queue' = [queue EXCEPT ![s] = Append(queue[s], currentThread)]
        /\ cont' = [cont EXCEPT ![currentThread] = s]
        /\ Sleep(s, threadToBeDestroyed)
        /\ UNCHANGED <<value, pending, yieldOnReturn>>
    BY <1>3 DEF PSleep, Sleep
  <2>2. currentThread \in Thread /\ status[currentThread] = "RUNNING"
    BY <1>3 DEF PSleep, AtPTest, TypeOK, ThreadPlacement, RunningIsCurrent
  <2>3. ~Occurs(queue[s], currentThread)
    BY <2>2 DEF ThreadPlacement, QueuesExact
  <2>4. /\ queue'[s] \in Seq(Thread) /\ Distinct(queue'[s])
        /\ \A t \in Thread : Occurs(queue'[s], t) <=> Occurs(queue[s], t) \/ t = currentThread
    BY <2>1, <2>2, <2>3, AppendOccurs, AppendDistinct
       DEF TypeOK, ThreadPlacement, QueuesExact
  <2>5. queue' \in [Sem -> Seq(Thread)] /\ cont' \in [Thread -> Cont]
    BY <2>1, <2>4 DEF TypeOK, Cont
  <2>6. NobodyRuns(st, cont', readyList, queue', threadToBeDestroyed)
    <3>1. st \in [Thread -> ThreadStatus] /\ \A t \in Thread : st[t] # "RUNNING"
      BY <2>2 DEF TypeOK, ThreadStatus, ThreadPlacement, RunningIsCurrent
    <3>2. \A t \in Thread : st[t] = "READY" <=> Occurs(readyList, t)
      BY <2>2 DEF TypeOK, ThreadPlacement, ReadyListExact
    <3>3. ASSUME NEW r \in Sem, NEW t \in Thread
          PROVE  Occurs(queue'[r], t) <=> st[t] = "BLOCKED" /\ cont'[t] = r
      <4>1. CASE r = s
        BY <2>1, <2>2, <2>4, <4>1 DEF TypeOK, ThreadPlacement, QueuesExact
      <4>2. CASE r # s
        BY <2>1, <2>2, <4>2 DEF TypeOK, ThreadPlacement, QueuesExact
      <4> QED
        BY <4>1, <4>2
    <3>4. \A r \in Sem : Distinct(queue'[r])
      BY <2>1, <2>4 DEF TypeOK, ThreadPlacement, QueuesExact
    <3>5. \A t \in Thread : threadToBeDestroyed = t =>
            st[t] = "BLOCKED" /\ cont'[t] = InFinish
      BY <2>1, <2>2 DEF TypeOK, CarcassSafe
    <3> QED
      BY <2>5, <3>1, <3>2, <3>3, <3>4, <3>5
         DEF NobodyRuns, TypeOK, ThreadPlacement, ReadyListExact
  <2>7. s \in Cont
    BY DEF Cont
  <2> HIDE DEF Inv
  <2> QED
    BY <2>1, <2>2, <2>5, <2>6, <2>7, SleepPlaces DEF TypeOK, Inv
<1>4. ASSUME NEW s \in Sem, V(s) PROVE Inv'
  <2>1. mode = "run" /\ VBody(s) /\ mode' = "tick" /\ UNCHANGED <<pending, yieldOnReturn>>
    BY <1>4 DEF V
  <2> QED
    BY <2>1, VPlaces DEF TypeOK
<1>5. ASSUME NEW s \in Device, StartIO(s) PROVE Inv'
  <2>1. pending' \in [Sem -> Nat]
    BY <1>0, <1>5 DEF StartIO, TypeOK
  <2> QED
    BY <1>5, <2>1, QuietStep DEF StartIO, TypeOK, semVars
<1>6. CASE Yield
  BY <1>6, YieldPlaces DEF Yield, TypeOK, semVars
<1>7. CASE UserInstruction
  BY <1>7, QuietStep DEF UserInstruction, TypeOK, Mode, semVars
<1>8. CASE Finish
  <2> DEFINE st == [status EXCEPT ![currentThread] = "BLOCKED"]
  <2>1. /\ cont' = [cont EXCEPT ![currentThread] = InFinish]
        /\ Sleep(InFinish, currentThread)
        /\ UNCHANGED <<value, queue, pending, yieldOnReturn>>
    BY <1>8 DEF Finish, Sleep, semVars
  <2>2. currentThread \in Thread /\ status[currentThread] = "RUNNING"
    BY <1>8 DEF Finish, TypeOK, ThreadPlacement, RunningIsCurrent
  <2>3. InFinish \in Cont /\ cont' \in [Thread -> Cont]
    BY <2>1 DEF TypeOK, Cont
  <2>4. NobodyRuns(st, cont', readyList, queue', currentThread)
    <3>1. st \in [Thread -> ThreadStatus] /\ \A t \in Thread : st[t] # "RUNNING"
      BY <2>2 DEF TypeOK, ThreadStatus, ThreadPlacement, RunningIsCurrent
    <3>2. \A t \in Thread : st[t] = "READY" <=> Occurs(readyList, t)
      BY <2>2 DEF TypeOK, ThreadPlacement, ReadyListExact
    <3>3. \A r \in Sem, t \in Thread :
            Occurs(queue'[r], t) <=> st[t] = "BLOCKED" /\ cont'[t] = r
      BY <1>0, <2>1, <2>2 DEF TypeOK, ThreadPlacement, QueuesExact
    <3>4. st[currentThread] = "BLOCKED" /\ cont'[currentThread] = InFinish
      BY <2>1, <2>2 DEF TypeOK
    <3> QED
      BY <2>1, <2>2, <2>3, <3>1, <3>2, <3>3, <3>4
         DEF NobodyRuns, TypeOK, ThreadPlacement, ReadyListExact, QueuesExact
  <2> HIDE DEF Inv
  <2> QED
    BY <2>1, <2>2, <2>3, <2>4, SleepPlaces DEF TypeOK, Inv
<1>9. CASE RunSelf
  <2>1. ASSUME NEW t \in Thread
        PROVE  \/ status'[t] = status[t]
               \/ /\ status[t] = "BLOCKED" /\ cont[t] = InFinish
                  /\ status'[t] = "DELETED"
    BY <1>9 DEF RunSelf, DeleteCarcass, CarcassSafe
  <2>2. TypeOK'
    BY <1>9 DEF RunSelf, DeleteCarcass, TypeOK, ThreadStatus, semVars
  <2>3. RunningIsCurrent' /\ ReadyListExact'
    BY <1>9, <2>1 DEF RunSelf, TypeOK, ThreadPlacement, RunningIsCurrent, ReadyListExact
  <2>4. QueuesExact'
    BY <1>0, <1>9, <2>1 DEF RunSelf, semVars, ThreadPlacement, QueuesExact
  <2>5. CarcassSafe'
    BY <1>9, ThreadsAssumption DEF RunSelf, CarcassSafe, ThreadsAssumption
  <2> QED
    BY <2>2, <2>3, <2>4, <2>5 DEF ThreadPlacement
<1>10. CASE Halt
  BY <1>10, QuietStep DEF Halt, TypeOK, Mode, semVars
<1> QED
  BY <1>1, <1>2, <1>3, <1>4, <1>5, <1>6, <1>7, <1>8, <1>9, <1>10 DEF ThreadStep

(* Every step of the interrupt simulation keeps it.                        *)
LEMMA InterruptStepInv == Inv /\ InterruptStep => Inv'
<1> SUFFICES ASSUME Inv, InterruptStep PROVE Inv'
  OBVIOUS
<1> USE DEF Inv
<1>0. Device \subseteq Sem
  BY ThreadsAssumption DEF ThreadsAssumption
<1>1. ASSUME NEW s \in Device, FireDevice(s) \/ IdleDevice(s) PROVE Inv'
  <2>1. /\ mode \in {"tick", "idle"} /\ mode' = mode /\ VBody(s) /\ s \in Sem
        /\ yieldOnReturn' = yieldOnReturn
    BY <1>0, <1>1 DEF FireDevice, IdleDevice
  <2>2. pending[s] > 0 /\ pending' = [pending EXCEPT ![s] = pending[s] - 1]
    BY <1>1 DEF FireDevice, IdleDevice
  <2>3. pending' \in [Sem -> Nat]
    BY <2>1, <2>2 DEF TypeOK
  <2> QED
    BY <2>1, <2>3, VPlaces DEF TypeOK
<1>2. CASE FireTimer \/ IdleTimer
  BY <1>2, QuietStep DEF FireTimer, IdleTimer, TypeOK, semVars
<1>3. CASE EndTick
  BY <1>3, QuietStep DEF EndTick, TypeOK, Mode, semVars
<1>4. CASE TickYield
  BY <1>4, YieldPlaces DEF TickYield, TypeOK, semVars
<1>5. CASE IdleReturn
  <2>1. /\ Run(Head(readyList), status, Tail(readyList), threadToBeDestroyed)
        /\ readyList # <<>> /\ yieldOnReturn' = FALSE
        /\ UNCHANGED <<cont, value, queue, pending>>
    BY <1>5 DEF IdleReturn, semVars
  <2>2. NobodyRuns(status, cont', readyList, queue', threadToBeDestroyed)
    BY <1>5, <2>1 DEF IdleReturn, NobodyRuns, TypeOK, ThreadPlacement,
       RunningIsCurrent, ReadyListExact, QueuesExact, CarcassSafe
  <2> QED
    BY <2>1, <2>2, RunPlaces DEF TypeOK
<1>6. CASE IdleHalt
  BY <1>6, QuietStep DEF IdleHalt, TypeOK, Mode, semVars
<1> QED
  BY <1>1, <1>2, <1>3, <1>4, <1>5, <1>6 DEF InterruptStep

(* The invariant holds throughout: the variables keep their types, every   *)
(* thread is in one place, and the carcass can be deleted.                 *)
THEOREM Invariance == Spec => []Inv
<1>1. Inv /\ [Next]_vars => Inv'
  <2>1. CASE Next
    BY <2>1, ThreadStepInv, InterruptStepInv DEF Next
  <2>2. CASE UNCHANGED vars
    BY <2>2 DEF vars, threadVars, semVars, Inv, TypeOK, ThreadPlacement,
       RunningIsCurrent, ReadyListExact, QueuesExact, CarcassSafe
  <2> QED
    BY <2>1, <2>2
<1> QED
  BY InitInv, <1>1, PTL DEF Spec

(* Every variable keeps its type in every reachable state.                 *)
THEOREM TypeCorrect == Spec => []TypeOK
BY Invariance, PTL DEF Inv

(* For any number of threads and semaphores, no interleaving of Fork,      *)
(* Yield, P, V, Finish, device and timer interrupts loses a thread or puts *)
(* it in two places.                                                       *)
THEOREM Placement == Spec => []ThreadPlacement
BY Invariance, PTL DEF Inv

(* Scheduler::Run never deletes the thread that runs, nor one that will.   *)
THEOREM CarcassIsSafe == Spec => []CarcassSafe
BY Invariance, PTL DEF Inv
-----------------------------------------------------------------------------
(***************************************************************************)
(* No wake-up is lost.  NoLostWakeup compares the value of a semaphore     *)
(* with the number of threads that V has woken for it.  A step is one of   *)
(* four kinds for a semaphore on whose queue threads sleep after it: its   *)
(* value stays and every woken thread stays woken; its value is zero; P    *)
(* takes one unit and at most the taker is no longer on its way; V adds    *)
(* one unit and one more woken thread.                                     *)
(***************************************************************************)
KeepsWoken(s) ==
  queue[s] # <<>> /\ value'[s] = value[s] /\ Woken(s) \subseteq Woken(s)'

TakesOne(s) ==
  /\ queue[s] # <<>> /\ value'[s] = value[s] - 1
  /\ Woken(s) \ {currentThread} \subseteq Woken(s)'

WakesOne(s) ==
  /\ queue[s] # <<>> /\ value'[s] = value[s] + 1
  /\ \E w \in Thread : w \notin Woken(s) /\ Woken(s) \cup {w} \subseteq Woken(s)'

(* How the number of woken threads follows the set of woken threads.       *)
LEMMA CountWoken ==
  ASSUME NEW A \in SUBSET Thread, NEW B \in SUBSET Thread, NEW x
  PROVE  /\ Cardinality(A) \in Nat /\ Cardinality(B) \in Nat
         /\ A \subseteq B => Cardinality(A) <= Cardinality(B)
         /\ A \ {x} \subseteq B => Cardinality(A) - 1 <= Cardinality(B)
         /\ x \notin A /\ A \cup {x} \subseteq B => Cardinality(A) + 1 <= Cardinality(B)
<1>1. IsFiniteSet(A) /\ IsFiniteSet(B)
  BY FiniteThreads, FS_Subset
<1>2. Cardinality(A) \in Nat /\ Cardinality(B) \in Nat
  BY <1>1, FS_CardinalityType
<1>3. A \subseteq B => Cardinality(A) <= Cardinality(B)
  BY <1>1, FS_Subset
<1>4. ASSUME A \ {x} \subseteq B PROVE Cardinality(A) - 1 <= Cardinality(B)
  <2>1. Cardinality(A \ {x}) \in {Cardinality(A) - 1, Cardinality(A)}
    BY <1>1, FS_RemoveElement
  <2>2. Cardinality(A \ {x}) <= Cardinality(B)
    BY <1>1, <1>4, FS_Subset
  <2> QED
    BY <1>2, <2>1, <2>2
<1>5. ASSUME x \notin A, A \cup {x} \subseteq B PROVE Cardinality(A) + 1 <= Cardinality(B)
  <2>1. Cardinality(A \cup {x}) = Cardinality(A) + 1
    BY <1>1, <1>5, FS_AddElement
  <2>2. Cardinality(A \cup {x}) <= Cardinality(B)
    BY <1>1, <1>5, FS_Subset
  <2> QED
    BY <2>1, <2>2
<1> QED
  BY <1>2, <1>3, <1>4, <1>5

(* Steps of the four kinds keep NoLostWakeup.                              *)
LEMMA Accounting ==
  ASSUME TypeOK, NoLostWakeup,
         \A s \in Sem : queue'[s] # <<>> =>
           KeepsWoken(s) \/ value'[s] = 0 \/ TakesOne(s) \/ WakesOne(s)
  PROVE  NoLostWakeup'
<1> SUFFICES ASSUME NEW s \in Sem, queue'[s] # <<>>
             PROVE  value'[s] <= Cardinality(Woken(s)')
  BY DEF NoLostWakeup
<1> DEFINE A == Woken(s)
           B == Woken(s)'
<1>1. A \in SUBSET Thread /\ B \in SUBSET Thread
  BY DEF Woken
<1>2. value[s] \in Nat
  BY DEF TypeOK
<1>3. queue[s] # <<>> => value[s] <= Cardinality(A)
  BY DEF NoLostWakeup
<1> HIDE DEF A, B
<1>4. Cardinality(A) \in Nat /\ Cardinality(B) \in Nat
  BY <1>1, CountWoken
<1>5. CASE KeepsWoken(s)
  <2>1. queue[s] # <<>> /\ value'[s] = value[s] /\ A \subseteq B
    BY <1>5 DEF KeepsWoken, A, B
  <2>2. Cardinality(A) <= Cardinality(B)
    BY <1>1, <2>1, CountWoken
  <2>3. value'[s] <= Cardinality(B)
    BY <1>2, <1>3, <1>4, <2>1, <2>2
  <2> QED
    BY <2>3 DEF B
<1>6. CASE value'[s] = 0
  BY <1>4, <1>6 DEF B
<1>7. CASE TakesOne(s)
  <2>1. queue[s] # <<>> /\ value'[s] = value[s] - 1 /\ A \ {currentThread} \subseteq B
    BY <1>7 DEF TakesOne, A, B
  <2>2. Cardinality(A) - 1 <= Cardinality(B)
    BY <1>1, <2>1, CountWoken
  <2>3. value'[s] <= Cardinality(B)
    BY <1>2, <1>3, <1>4, <2>1, <2>2
  <2> QED
    BY <2>3 DEF B
<1>8. CASE WakesOne(s)
  <2>1. queue[s] # <<>> /\ value'[s] = value[s] + 1
    BY <1>8 DEF WakesOne
  <2>2. PICK w \in Thread : w \notin A /\ A \cup {w} \subseteq B
    BY <1>8 DEF WakesOne, A, B
  <2>3. Cardinality(A) + 1 <= Cardinality(B)
    BY <1>1, <2>2, CountWoken
  <2>4. value'[s] <= Cardinality(B)
    BY <1>2, <1>3, <1>4, <2>1, <2>3
  <2> QED
    BY <2>4 DEF B
<1> QED
  BY <1>5, <1>6, <1>7, <1>8

(* Scheduler::Run lets a woken thread stay woken: either it is the one     *)
(* that gets the CPU, in the loop of P, or it stays on the ready list.     *)
LEMMA RunKeepsWoken ==
  ASSUME NEW n \in Thread, NEW st \in [Thread -> ThreadStatus], NEW rest,
         NEW carcass, Run(n, st, rest, carcass),
         NEW s \in Sem, NEW t \in Thread,
         st[t] = "READY", t # carcass, cont[t] = s, cont'[t] = s
  PROVE  t \in Woken(s)'
<1>1. s \notin {Root, InYield}
  BY ThreadsAssumption DEF ThreadsAssumption
<1>2. CASE t = n
  BY <1>1, <1>2 DEF Run, Woken
<1>3. CASE t # n
  BY <1>3 DEF Run, Woken, DeleteCarcass
<1> QED
  BY <1>2, <1>3

(* Thread::Yield keeps every woken thread woken.                           *)
LEMMA YieldKeepsWoken ==
  ASSUME Inv, mode \in {"run", "tick"}, YieldBody, NEW s \in Sem
  PROVE  Woken(s) \subseteq Woken(s)'
<1> SUFFICES ASSUME NEW t \in Woken(s) PROVE t \in Woken(s)'
  OBVIOUS
<1> USE DEF Inv
<1>1. t \in Thread /\ cont[t] = s /\ status[t] = "READY"
  BY DEF Woken
<1>2. t # currentThread /\ t # threadToBeDestroyed /\ currentThread \in Thread
  BY <1>1 DEF TypeOK, ThreadPlacement, RunningIsCurrent, CarcassSafe
<1>3. CASE readyList # <<>>
  <2> DEFINE st == [status EXCEPT ![currentThread] = "READY"]
  <2>1. /\ cont' = [cont EXCEPT ![currentThread] = InYield]
        /\ Run(Head(readyList), st, Append(Tail(readyList), currentThread),
               threadToBeDestroyed)
    BY <1>3 DEF YieldBody
  <2>2. Head(readyList) \in Thread
    BY <1>3 DEF TypeOK
  <2>3. st \in [Thread -> ThreadStatus] /\ st[t] = "READY" /\ cont'[t] = s
    BY <1>1, <1>2, <2>1 DEF TypeOK, ThreadStatus
  <2> HIDE DEF st
  <2> QED
    BY <1>1, <1>2, <2>1, <2>2, <2>3, RunKeepsWoken
<1>4. CASE readyList = <<>>
  BY <1>1, <1>4 DEF YieldBody, threadVars, Woken
<1> QED
  BY <1>3, <1>4

(* Thread::Sleep of the current thread keeps every other woken thread      *)
(* woken.                                                                  *)
LEMMA SleepKeepsWoken ==
  ASSUME Inv, mode \in {"run", "P"}, NEW c, NEW carcass, Sleep(c, carcass),
         carcass \in {threadToBeDestroyed, currentThread},
         NEW s \in Sem
  PROVE  Woken(s) \ {currentThread} \subseteq Woken(s)'
<1> SUFFICES ASSUME NEW t \in Woken(s), t # currentThread PROVE t \in Woken(s)'
  OBVIOUS
<1> USE DEF Inv
<1> DEFINE st == [status EXCEPT ![currentThread] = "BLOCKED"]
<1>1. t \in Thread /\ cont[t] = s /\ status[t] = "READY"
  BY DEF Woken
<1>2. t # carcass /\ currentThread \in Thread
  BY <1>1 DEF TypeOK, CarcassSafe
<1>3. cont'[t] = s /\ st[t] = "READY" /\ st \in [Thread -> ThreadStatus]
  BY <1>1, <1>2 DEF Sleep, TypeOK, ThreadStatus
<1>4. CASE readyList # <<>>
  <2>1. Run(Head(readyList), st, Tail(readyList), carcass) /\ Head(readyList) \in Thread
    BY <1>4 DEF Sleep, TypeOK
  <2> HIDE DEF st
  <2> QED
    BY <1>1, <1>2, <1>3, <2>1, RunKeepsWoken
<1>5. CASE readyList = <<>>
  <2>1. status' = st
    BY <1>5 DEF Sleep
  <2> QED
    BY <1>1, <1>3, <2>1 DEF Woken
<1> QED
  BY <1>4, <1>5

(* Semaphore::V wakes one thread for its semaphore, and disturbs no other. *)
LEMMA VWakes ==
  ASSUME Inv, mode \in {"run", "tick", "idle"}, NEW s \in Sem, VBody(s),
         NEW r \in Sem, queue'[r] # <<>>
  PROVE  KeepsWoken(r) \/ WakesOne(r)
<1> USE DEF Inv
<1>1. value' = [value EXCEPT ![s] = @ + 1] /\ cont' = cont
  BY DEF VBody
<1>2. CASE queue[s] # <<>>
  <2> DEFINE w == Head(queue[s])
  <2>1. /\ status' = [status EXCEPT ![w] = "READY"]
        /\ queue' = [queue EXCEPT ![s] = Tail(@)]
    BY <1>2 DEF VBody
  <2>2. w \in Thread /\ status[w] = "BLOCKED" /\ cont[w] = s
    BY <1>2, RemoveHead DEF TypeOK, ThreadPlacement, QueuesExact
  <2> HIDE DEF w
  <2>3. Woken(r) \subseteq Woken(r)'
    BY <1>1, <2>1, <2>2 DEF Woken, TypeOK
  <2>4. CASE r = s
    <3>1. w \notin Woken(s) /\ w \in Woken(s)'
      BY <1>1, <2>1, <2>2 DEF Woken, TypeOK
    <3> QED
      BY <1>1, <1>2, <2>2, <2>3, <2>4, <3>1 DEF WakesOne, TypeOK
  <2>5. CASE r # s
    BY <1>1, <2>1, <2>3, <2>5 DEF KeepsWoken, TypeOK
  <2> QED
    BY <2>4, <2>5
<1>3. CASE queue[s] = <<>>
  <2>1. status' = status /\ queue' = queue
    BY <1>3 DEF VBody
  <2>2. r # s
    BY <1>3, <2>1
  <2> QED
    BY <1>1, <2>1, <2>2 DEF KeepsWoken, Woken, TypeOK
<1> QED
  BY <1>2, <1>3

(* Every step is, for each semaphore with sleepers, of one of the kinds.   *)
LEMMA StepAccounts ==
  ASSUME Inv, Next, NEW r \in Sem, queue'[r] # <<>>
  PROVE  KeepsWoken(r) \/ value'[r] = 0 \/ TakesOne(r) \/ WakesOne(r)
<1> USE DEF Inv
<1>0. Device \subseteq Sem /\ currentThread \in Thread
  BY ThreadsAssumption DEF ThreadsAssumption, TypeOK
<1>1. ASSUME NEW t \in Thread, Fork(t) PROVE KeepsWoken(r)
  BY <1>1 DEF Fork, semVars, KeepsWoken, Woken, TypeOK
<1>2. ASSUME NEW s \in Sem, PTake(s) PROVE KeepsWoken(r) \/ TakesOne(r)
  <2>1. /\ UNCHANGED <<status, cont, currentThread, queue>>
        /\ value' = [value EXCEPT ![s] = @ - 1]
        /\ AtPTest(s)
    BY <1>2 DEF PTake, threadVars
  <2>2. Woken(r) \ {currentThread} \subseteq Woken(r)'
    BY <2>1 DEF Woken
  <2>3. CASE r = s
    BY <2>1, <2>2, <2>3 DEF TakesOne, TypeOK
  <2>4. CASE r # s
    <3>1. currentThread \notin Woken(r)
      BY <2>1, <2>4 DEF AtPTest, Woken, ThreadPlacement, RunningIsCurrent
    <3> QED
      BY <2>1, <2>2, <2>4, <3>1 DEF KeepsWoken, TypeOK
  <2> QED
    BY <2>3, <2>4
<1>3. ASSUME NEW s \in Sem, PSleep(s) PROVE KeepsWoken(r) \/ value'[r] = 0
  <2>1. /\ AtPTest(s) /\ value[s] = 0 /\ value' = value
        /\ queue' = [queue EXCEPT ![s] = Append(@, currentThread)]
        /\ Sleep(s, threadToBeDestroyed) /\ mode \in {"run", "P"}
    BY <1>3 DEF PSleep, AtPTest
  <2>2. CASE r = s
    BY <2>1, <2>2
  <2>3. CASE r # s
    <3>1. currentThread \notin Woken(r)
      BY <2>1, <2>3 DEF AtPTest, Woken, ThreadPlacement, RunningIsCurrent
    <3>2. Woken(r) \ {currentThread} \subseteq Woken(r)'
      BY <2>1, SleepKeepsWoken
    <3> QED
      BY <2>1, <2>3, <3>1, <3>2 DEF KeepsWoken, TypeOK
  <2> QED
    BY <2>2, <2>3
<1>4. ASSUME NEW s \in Sem, V(s) \/ (s \in Device /\ (FireDevice(s) \/ IdleDevice(s)))
      PROVE  KeepsWoken(r) \/ WakesOne(r)
  <2>1. VBody(s) /\ mode \in {"run", "tick", "idle"}
    BY <1>4 DEF V, FireDevice, IdleDevice
  <2> QED
    BY <2>1, VWakes
<1>5. CASE Yield \/ TickYield
  <2>1. YieldBody /\ mode \in {"run", "tick"} /\ UNCHANGED <<value, queue>>
    BY <1>5 DEF Yield, TickYield, semVars
  <2> QED
    BY <2>1, YieldKeepsWoken DEF KeepsWoken
<1>6. CASE Finish
  <2>1. Sleep(InFinish, currentThread) /\ mode = "run" /\ UNCHANGED <<value, queue>>
    BY <1>6 DEF Finish, semVars
  <2>2. currentThread \notin Woken(r)
    BY <2>1 DEF Woken, ThreadPlacement, RunningIsCurrent
  <2>3. Woken(r) \ {currentThread} \subseteq Woken(r)'
    BY <2>1, SleepKeepsWoken
  <2> QED
    BY <2>1, <2>2, <2>3 DEF KeepsWoken
<1>7. CASE RunSelf
  <2>1. Woken(r) \subseteq Woken(r)'
    BY <1>7 DEF RunSelf, DeleteCarcass, CarcassSafe, Woken
  <2> QED
    BY <1>7, <2>1 DEF RunSelf, semVars, KeepsWoken
<1>8. CASE IdleReturn
  <2>1. /\ Run(Head(readyList), status, Tail(readyList), threadToBeDestroyed)
        /\ Head(readyList) \in Thread /\ mode = "idle"
        /\ UNCHANGED <<cont, value, queue>>
    BY <1>8 DEF IdleReturn, semVars, TypeOK
  <2>2. ASSUME NEW t \in Woken(r) PROVE t \in Woken(r)'
    <3>1. t \in Thread /\ cont[t] = r /\ status[t] = "READY" /\ t # threadToBeDestroyed
      BY <2>1 DEF Woken, CarcassSafe
    <3>2. status \in [Thread -> ThreadStatus] /\ cont'[t] = r
      BY <2>1, <3>1 DEF TypeOK
    <3> QED
      BY <2>1, <3>1, <3>2, RunKeepsWoken
  <2> QED
    BY <2>1, <2>2 DEF KeepsWoken
<1>9. CASE \/ \E s \in Device : StartIO(s)
           \/ UserInstruction \/ Halt \/ FireTimer \/ EndTick \/ IdleTimer \/ IdleHalt
  <2>1. UNCHANGED <<status, cont, currentThread, value, queue>>
    BY <1>9 DEF StartIO, UserInstruction, Halt, FireTimer, EndTick, IdleTimer,
                IdleHalt, threadVars, semVars
  <2>2. mode = "P" => mode' = "P"
    BY <1>9 DEF StartIO, UserInstruction, Halt, FireTimer, EndTick, IdleTimer, IdleHalt
  <2> QED
    BY <2>1, <2>2 DEF KeepsWoken, Woken
<1> QED
  BY <1>0, <1>1, <1>2, <1>3, <1>4, <1>5, <1>6, <1>7, <1>8, <1>9
     DEF Next, ThreadStep, InterruptStep

(* A V is never left behind beside a sleeping thread, for any number of    *)
(* threads that compete for any number of semaphores.                      *)
THEOREM NoWakeupIsLost == Spec => []NoLostWakeup
<1>1. Init => NoLostWakeup
  BY DEF Init, NoLostWakeup
<1>2. Inv /\ NoLostWakeup /\ [Next]_vars => NoLostWakeup'
  <2> SUFFICES ASSUME Inv, NoLostWakeup, [Next]_vars PROVE NoLostWakeup'
    OBVIOUS
  <2>1. CASE Next
    BY <2>1, StepAccounts, Accounting DEF Inv
  <2>2. CASE UNCHANGED vars
    BY <2>2 DEF vars, threadVars, semVars, NoLostWakeup, Woken
  <2> QED
    BY <2>1, <2>2
<1> QED
  BY Invariance, <1>1, <1>2, PTL DEF Spec
-----------------------------------------------------------------------------
(***************************************************************************)
(* A thread that has finished stays finished.  In every state it is on no  *)
(* list, and only threads taken from a list change status for the better.  *)
(***************************************************************************)
StaysFinished(t) ==
  /\ status[t] = "BLOCKED" /\ cont[t] = InFinish
       => status'[t] \in {"BLOCKED", "DELETED"} /\ cont'[t] = InFinish
  /\ status[t] = "DELETED" => status'[t] = "DELETED" /\ threadToBeDestroyed' # t

(* Scheduler::Run changes the status of the thread it runs and of the      *)
(* carcass, and of no other.                                               *)
LEMMA RunStatus ==
  ASSUME NEW n \in Thread, NEW st \in [Thread -> ThreadStatus], NEW rest,
         NEW carcass, Run(n, st, rest, carcass), NEW t \in Thread, t # n
  PROVE  /\ status'[t] = st[t] \/ (t = carcass /\ status'[t] = "DELETED")
         /\ threadToBeDestroyed' \in {carcass, NoThread}
BY DEF Run, DeleteCarcass

(* No step of the kernel revives a finished thread or deletes it twice.    *)
LEMMA StepStaysFinished ==
  ASSUME Inv, Next, NEW t \in Thread
  PROVE  StaysFinished(t)
<1> USE DEF Inv
<1> DEFINE gone == (status[t] = "BLOCKED" /\ cont[t] = InFinish) \/ status[t] = "DELETED"
<1> SUFFICES ASSUME gone PROVE StaysFinished(t)
  BY DEF StaysFinished
<1>0. /\ Device \subseteq Sem /\ InFinish \notin Sem /\ NoThread # t
      /\ currentThread \in Thread
  BY ThreadsAssumption DEF ThreadsAssumption, TypeOK
<1>a. /\ readyList # <<>> => Head(readyList) \in Thread /\ Head(readyList) # t
      /\ status[t] = "DELETED" => threadToBeDestroyed # t
  <2>1. ASSUME readyList # <<>> PROVE Head(readyList) \in Thread /\ Head(readyList) # t
    BY <2>1, RemoveHead DEF TypeOK, ThreadPlacement, ReadyListExact
  <2>2. status[t] = "DELETED" => threadToBeDestroyed # t
    BY DEF CarcassSafe
  <2> QED
    BY <2>1, <2>2
<1>1. ASSUME NEW u \in Thread, Fork(u) PROVE StaysFinished(t)
  BY <1>1, <1>a DEF Fork, StaysFinished, TypeOK
<1>2. ASSUME NEW s \in Sem, V(s) \/ (s \in Device /\ (FireDevice(s) \/ IdleDevice(s)))
      PROVE  StaysFinished(t)
  <2>1. VBody(s)
    BY <1>2 DEF V, FireDevice, IdleDevice
  <2>2. UNCHANGED <<cont, threadToBeDestroyed>>
    BY <2>1 DEF VBody
  <2>3. queue[s] # <<>> => Head(queue[s]) # t
    BY <1>0, RemoveHead DEF TypeOK, ThreadPlacement, QueuesExact
  <2>4. status'[t] = status[t]
    BY <2>1, <2>3 DEF VBody, TypeOK
  <2> QED
    BY <1>a, <2>2, <2>4 DEF StaysFinished
<1>3. ASSUME NEW c, NEW carcass, Sleep(c, carcass), mode \in {"run", "P"},
             carcass \in {threadToBeDestroyed, currentThread}
      PROVE  StaysFinished(t)
  <2> DEFINE st == [status EXCEPT ![currentThread] = "BLOCKED"]
  <2>1. t # currentThread
    BY <1>3 DEF ThreadPlacement, RunningIsCurrent
  <2>2. st \in [Thread -> ThreadStatus] /\ st[t] = status[t] /\ cont'[t] = cont[t]
    BY <1>0, <1>3, <2>1 DEF Sleep, TypeOK, ThreadStatus
  <2>3. CASE readyList # <<>>
    <3>1. Run(Head(readyList), st, Tail(readyList), carcass)
      BY <1>3, <2>3 DEF Sleep
    <3> HIDE DEF st
    <3>2. /\ status'[t] = st[t] \/ (t = carcass /\ status'[t] = "DELETED")
          /\ threadToBeDestroyed' \in {carcass, NoThread}
      BY <1>a, <2>2, <2>3, <3>1, RunStatus
    <3> QED
      BY <1>0, <1>3, <1>a, <2>1, <2>2, <3>2 DEF StaysFinished
  <2>4. CASE readyList = <<>>
    BY <1>3, <1>a, <2>1, <2>2, <2>4 DEF Sleep, StaysFinished
  <2> QED
    BY <2>3, <2>4
<1>4. ASSUME NEW s \in Sem, PSleep(s) PROVE StaysFinished(t)
  BY <1>3, <1>4 DEF PSleep, AtPTest
<1>5. CASE Finish
  BY <1>3, <1>5 DEF Finish
<1>6. CASE Yield \/ TickYield
  <2> DEFINE st == [status EXCEPT ![currentThread] = "READY"]
  <2>1. YieldBody /\ t # currentThread
    BY <1>6 DEF Yield, TickYield, ThreadPlacement, RunningIsCurrent
  <2>2. CASE readyList # <<>>
    <3>1. /\ Run(Head(readyList), st, Append(Tail(readyList), currentThread),
                 threadToBeDestroyed)
          /\ cont' = [cont EXCEPT ![currentThread] = InYield]
      BY <2>1, <2>2 DEF YieldBody
    <3>2. st \in [Thread -> ThreadStatus] /\ st[t] = status[t] /\ cont'[t] = cont[t]
      BY <1>0, <2>1, <3>1 DEF TypeOK, ThreadStatus
    <3> HIDE DEF st
    <3>3. /\ \/ status'[t] = st[t]
             \/ t = threadToBeDestroyed /\ status'[t] = "DELETED"
          /\ threadToBeDestroyed' \in {threadToBeDestroyed, NoThread}
      BY <1>a, <2>2, <3>1, <3>2, RunStatus
    <3> QED
      BY <1>0, <1>a, <3>2, <3>3 DEF StaysFinished
  <2>3. CASE readyList = <<>>
    BY <1>a, <2>1, <2>3 DEF YieldBody, threadVars, StaysFinished
  <2> QED
    BY <2>2, <2>3
<1>7. CASE RunSelf
  BY <1>0, <1>7, <1>a DEF RunSelf, DeleteCarcass, StaysFinished, TypeOK
<1>8. CASE IdleReturn
  <2>1. /\ Run(Head(readyList), status, Tail(readyList), threadToBeDestroyed)
        /\ readyList # <<>> /\ cont' = cont
    BY <1>8 DEF IdleReturn
  <2>2. /\ \/ status'[t] = status[t]
           \/ t = threadToBeDestroyed /\ status'[t] = "DELETED"
        /\ threadToBeDestroyed' \in {threadToBeDestroyed, NoThread}
    BY <1>a, <2>1, RunStatus DEF TypeOK
  <2> QED
    BY <1>0, <1>a, <2>1, <2>2 DEF StaysFinished
<1>9. CASE \/ \E s \in Sem : PTake(s)
           \/ \E s \in Device : StartIO(s)
           \/ UserInstruction \/ Halt \/ FireTimer \/ EndTick \/ IdleTimer \/ IdleHalt
  <2>1. UNCHANGED threadVars
    BY <1>9 DEF PTake, StartIO, UserInstruction, Halt, FireTimer, EndTick,
                IdleTimer, IdleHalt
  <2> QED
    BY <1>a, <2>1 DEF threadVars, StaysFinished
<1> QED
  BY <1>0, <1>1, <1>2, <1>4, <1>5, <1>6, <1>7, <1>8, <1>9
     DEF Next, ThreadStep, InterruptStep

(* No interleaving makes a thread that called Finish ready again, or lets  *)
(* Run delete it twice.                                                    *)
THEOREM FinishedForEver == Spec => FinishIsFinal
<1>1. Inv /\ [Next]_vars => [\A t \in Thread : StaysFinished(t)]_vars
  BY StepStaysFinished
<1>2. Inv /\ [Next]_vars =>
        [\A t \in Thread :
           /\ status[t] = "BLOCKED" /\ cont[t] = InFinish
                => status'[t] \in {"BLOCKED", "DELETED"} /\ cont'[t] = InFinish
           /\ status[t] = "DELETED" => status'[t] = "DELETED" /\ threadToBeDestroyed' # t]_vars
  BY <1>1 DEF StaysFinished
<1> QED
  BY Invariance, <1>2, PTL DEF Spec, FinishIsFinal
-----------------------------------------------------------------------------
(* STable.                                                                 *)

Semaphores == [name : Name, value : Int]

(* A thread inside P waits on a semaphore that exists, under the name it   *)
(* gave as long as names are readable.                                     *)
WaitersFound ==
  \A t \in UserThread : waiting[t] # -1 =>
    /\ lockTab[waiting[t]] # NoSem
    /\ namesKept => lockTab[waiting[t]].name = request[t].name

(* As long as names are readable, no name is in the table twice.           *)
NamesDistinct ==
  namesKept => \A i, j \in Slot :
    lockTab[i] # NoSem /\ lockTab[j] # NoSem /\ lockTab[i].name = lockTab[j].name => i = j

(* The value of a semaphore is what creation, Signals and Waits have made  *)
(* of it, and a name that is not in the table has no history.              *)
Accounted ==
  namesKept =>
    /\ \A i \in Slot : lockTab[i] # NoSem =>
         LET n == lockTab[i].name IN
         /\ lockTab[i].value = initial[n] + signalled[n] - waited[n]
         /\ initial[n] >= 0 => lockTab[i].value >= 0
    /\ \A n \in Name : (\A i \in Slot : lockTab[i] # NoSem => lockTab[i].name # n) =>
         initial[n] = 0 /\ signalled[n] = 0 /\ waited[n] = 0

TableInv == TableTypeOK /\ SlotsExact /\ WaitersFound /\ NamesDistinct /\ Accounted

-----------------------------------------------------------------------------
(* A semaphore is not NULL.                                                *)
LEMMA SemaphoreExists ==
  ASSUME NEW n, NEW v
  PROVE  [name |-> n, value |-> v] # NoSem
BY DEF NoSem

(* Changing the value of a semaphore keeps its name and everything else in *)
(* the table.                                                              *)
LEMMA ValueChanges ==
  ASSUME lockTab \in [Slot -> Semaphores \cup {NoSem}],
         NEW i \in Slot, lockTab[i] # NoSem, NEW d \in Int,
         lockTab' = [lockTab EXCEPT ![i].value = d]
  PROVE  /\ lockTab' \in [Slot -> Semaphores \cup {NoSem}]
         /\ lockTab'[i].value = d
         /\ \A j \in Slot : /\ lockTab'[j] # NoSem <=> lockTab[j] # NoSem
                            /\ lockTab'[j].name = lockTab[j].name
                            /\ j # i => lockTab'[j] = lockTab[j]
<1>1. lockTab[i] \in Semaphores
  OBVIOUS
<1>2. /\ lockTab[i] = [name |-> lockTab[i].name, value |-> lockTab[i].value]
      /\ lockTab[i].name \in Name
  BY <1>1 DEF Semaphores
<1>3. [lockTab[i] EXCEPT !.value = d] = [name |-> lockTab[i].name, value |-> d]
  BY <1>1 DEF Semaphores
<1>4. lockTab'[i] = [name |-> lockTab[i].name, value |-> d]
  BY <1>3
<1>5. lockTab'[i] \in Semaphores /\ lockTab'[i] # NoSem
  BY <1>2, <1>4, SemaphoreExists DEF Semaphores
<1> QED
  BY <1>2, <1>4, <1>5

(* What the search of the table finds.                                     *)
LEMMA FoundExists ==
  ASSUME TableInv, NEW n \in Name, NEW f \in Found(n)
  PROVE  /\ f # -1 => /\ f \in Slot /\ lockTab[f] # NoSem
                      /\ namesKept => lockTab[f].name = n
         /\ f = -1 /\ namesKept => \A i \in Slot : lockTab[i] # NoSem => lockTab[i].name # n
<1> DEFINE used == {i \in Slot : lockTab[i] # NoSem}
           named == {i \in used : lockTab[i].name = n}
<1>1. CASE ~namesKept
  BY <1>1 DEF Found
<1>2. CASE namesKept /\ named = {}
  <2>1. f = -1
    BY <1>2 DEF Found
  <2> QED
    BY <1>2, <2>1
<1>3. CASE namesKept /\ named # {}
  <2>1. f = CHOOSE i \in named : \A j \in named : i <= j
    BY <1>3 DEF Found
  <2>2. PICK i \in named : TRUE
    BY <1>3
  <2>3. \A j \in named : j = i
    BY <1>3, <2>2 DEF TableInv, NamesDistinct
  <2>4. i <= i
    BY <2>2, STableAssumption DEF Slot
  <2>5. f = i
    BY <2>1, <2>2, <2>3, <2>4
  <2>6. -1 \notin Slot
    BY STableAssumption DEF Slot
  <2> QED
    BY <2>2, <2>5, <2>6
<1> QED
  BY <1>1, <1>2, <1>3

(* TableInit.                                                                   *)
LEMMA InitEstablishes == TableInit => TableInv
<1> SUFFICES ASSUME TableInit PROVE TableInv
  OBVIOUS
<1>1. \E n \in Name : TRUE
  BY STableAssumption
<1>2. (CHOOSE n \in Name : TRUE) \in Name
  BY <1>1
<1>3. TableTypeOK
  BY <1>2, STableAssumption DEF TableInit, TableTypeOK, Slot
<1>4. SlotsExact /\ WaitersFound /\ NamesDistinct
  BY DEF TableInit, SlotsExact, WaitersFound, NamesDistinct
<1>5. Accounted
  BY DEF TableInit, Accounted
<1> QED
  BY <1>3, <1>4, <1>5 DEF TableInv

(* What every system call does to the thread that makes it.                *)
LEMMA CallTyped ==
  ASSUME TableInv, NEW t \in UserThread, NEW n \in Name,
         NEW c \in {"Create", "Wait", "Signal"}, Calls(t, c, n)
  PROVE  /\ request' \in [UserThread -> [call : {"none", "Create", "Wait", "Signal"}, name : Name]]
         /\ request'[t].name = n
         /\ \A u \in UserThread : u # t => request'[u] = request[u]
         /\ calls' \in [UserThread -> 0 .. MaxCalls]
         /\ waiting[t] = -1
<1>1. calls[t] \in 0 .. MaxCalls /\ calls[t] < MaxCalls
  BY DEF TableInv, TableTypeOK, Calls
<1>2. calls[t] + 1 \in 0 .. MaxCalls
  BY <1>1, STableAssumption
<1>3. calls' \in [UserThread -> 0 .. MaxCalls]
  BY <1>2 DEF TableInv, TableTypeOK, Calls
<1>4. [call |-> c, name |-> n] \in [call : {"none", "Create", "Wait", "Signal"}, name : Name]
  OBVIOUS
<1> QED
  BY <1>3, <1>4 DEF TableInv, TableTypeOK, Calls

(* A call that changes only what it returns.                               *)
LEMMA QuietCall ==
  ASSUME TableInv, NEW t \in UserThread, NEW n \in Name,
         NEW c \in {"Create", "Wait", "Signal"}, NEW r \in {-1, 0},
         Calls(t, c, n), Returns(t, r) \/ UNCHANGED result,
         UNCHANGED <<namesKept, lockTab, bm, waiting, initial, signalled, waited>>
  PROVE  TableInv'
<1>1. TableTypeOK'
  BY CallTyped DEF TableInv, TableTypeOK, Returns
<1>2. WaitersFound'
  BY CallTyped DEF TableInv, TableTypeOK, WaitersFound
<1> QED
  BY <1>1, <1>2 DEF TableInv, SlotsExact, NamesDistinct, Accounted

(* CreateSemaphore.                                                        *)
LEMMA CreatePreserves ==
  ASSUME TableInv, NEW t \in UserThread, NEW n \in Name, NEW v \in SemVal,
         CreateSemaphore(t, n, v)
  PROVE  TableInv'
<1> USE DEF CreateSemaphore
<1>1. PICK f \in Found(n) :
        \/ /\ Returns(t, -1)
           /\ UNCHANGED <<lockTab, bm, initial>>
        \/ /\ f = -1
           /\ \E i \in Slot \ bm :
                /\ bm' = bm \cup {i}
                /\ lockTab' = [lockTab EXCEPT ![i] = [name |-> n, value |-> v]]
                /\ initial' = [initial EXCEPT ![n] = v]
                /\ Returns(t, i)
  BY DEF Create
<1>2. UNCHANGED <<namesKept, waiting, signalled, waited>>
  BY DEF Create
<1>3. CASE /\ Returns(t, -1)
           /\ UNCHANGED <<lockTab, bm, initial>>
  BY <1>2, <1>3, QuietCall
<1>4. ASSUME f = -1, NEW i \in Slot \ bm,
             bm' = bm \cup {i},
             lockTab' = [lockTab EXCEPT ![i] = [name |-> n, value |-> v]],
             initial' = [initial EXCEPT ![n] = v],
             Returns(t, i)
      PROVE  TableInv'
  <2>1. v \in Int
    BY STableAssumption
  <2>2. lockTab[i] = NoSem
    BY <1>4 DEF TableInv, TableTypeOK, SlotsExact
  <2>3. /\ lockTab' \in [Slot -> [name : Name, value : Int] \cup {NoSem}]
        /\ lockTab'[i] = [name |-> n, value |-> v] /\ lockTab'[i] # NoSem
        /\ lockTab'[i].name = n /\ lockTab'[i].value = v
        /\ \A j \in Slot : j # i => lockTab'[j] = lockTab[j]
    BY <1>4, <2>1, SemaphoreExists DEF TableInv, TableTypeOK
  <2>4. TableTypeOK'
    <3>1. bm' \subseteq Slot /\ result' \in [UserThread -> Slot \cup {-1, 0}]
      BY <1>4 DEF TableInv, TableTypeOK, Returns
    <3>2. initial' \in [Name -> Int]
      BY <1>4, <2>1 DEF TableInv, TableTypeOK
    <3> QED
      BY <1>2, <2>3, <3>1, <3>2, CallTyped DEF TableInv, TableTypeOK
  <2>5. SlotsExact'
    BY <1>4, <2>2, <2>3 DEF TableInv, SlotsExact
  <2>6. WaitersFound'
    <3> SUFFICES ASSUME NEW u \in UserThread, waiting[u] # -1
                 PROVE  /\ lockTab'[waiting[u]] # NoSem
                        /\ namesKept => lockTab'[waiting[u]].name = request'[u].name
      BY <1>2 DEF WaitersFound
    <3>1. u # t /\ request'[u] = request[u]
      BY CallTyped
    <3>2. waiting[u] \in Slot /\ lockTab[waiting[u]] # NoSem
      BY DEF TableInv, TableTypeOK, WaitersFound
    <3> QED
      BY <2>2, <2>3, <3>1, <3>2 DEF TableInv, WaitersFound
  <2>7. namesKept => \A j \in Slot : lockTab[j] # NoSem => lockTab[j].name # n
    BY <1>4, FoundExists
  <2>8. NamesDistinct'
    BY <1>2, <2>3, <2>7 DEF TableInv, NamesDistinct
  <2>9. Accounted'
    <3> SUFFICES ASSUME namesKept PROVE Accounted'
      BY <1>2 DEF Accounted
    <3>1. signalled[n] = 0 /\ waited[n] = 0
      BY <2>7 DEF TableInv, Accounted
    <3>2. /\ initial'[n] = v
          /\ \A m \in Name : m # n => initial'[m] = initial[m]
      BY <1>4 DEF TableInv, TableTypeOK
    <3>3. ASSUME NEW j \in Slot, lockTab'[j] # NoSem
          PROVE  /\ lockTab'[j].value = initial'[lockTab'[j].name]
                                        + signalled'[lockTab'[j].name] - waited'[lockTab'[j].name]
                 /\ initial'[lockTab'[j].name] >= 0 => lockTab'[j].value >= 0
      <4>1. CASE j = i
        BY <1>2, <2>1, <2>3, <3>1, <3>2, <4>1
      <4>2. CASE j # i
        <5>1. lockTab[j] # NoSem /\ lockTab'[j] = lockTab[j] /\ lockTab[j].name # n
          BY <2>3, <2>7, <3>3, <4>2
        <5>2. lockTab[j].name \in Name
          BY <5>1 DEF TableInv, TableTypeOK
        <5> QED
          BY <1>2, <3>2, <5>1, <5>2 DEF TableInv, Accounted
      <4> QED
        BY <4>1, <4>2
    <3>4. ASSUME NEW m \in Name, \A j \in Slot : lockTab'[j] # NoSem => lockTab'[j].name # m
          PROVE  initial'[m] = 0 /\ signalled'[m] = 0 /\ waited'[m] = 0
      <4>1. m # n
        BY <2>3, <3>4
      <4>2. \A j \in Slot : lockTab[j] # NoSem => lockTab[j].name # m
        BY <2>2, <2>3, <3>4
      <4> QED
        BY <1>2, <3>2, <4>1, <4>2 DEF TableInv, Accounted
    <3> QED
      BY <3>3, <3>4 DEF Accounted
  <2> QED
    BY <2>4, <2>5, <2>6, <2>8, <2>9 DEF TableInv
<1> QED
  BY <1>1, <1>3, <1>4

(* Wait, as far as the search.                                             *)
LEMMA WaitPreserves ==
  ASSUME TableInv, NEW t \in UserThread, NEW n \in Name, SysWait(t, n)
  PROVE  TableInv'
<1> USE DEF SysWait
<1>1. PICK f \in Found(n) :
        \/ Returns(t, -1) /\ UNCHANGED waiting
        \/ f # -1 /\ waiting' = [waiting EXCEPT ![t] = f] /\ UNCHANGED result
  BY DEF Wait
<1>2. UNCHANGED <<namesKept, lockTab, bm, initial, signalled, waited>>
  BY DEF Wait
<1>3. CASE Returns(t, -1) /\ UNCHANGED waiting
  BY <1>2, <1>3, QuietCall
<1>4. CASE f # -1 /\ waiting' = [waiting EXCEPT ![t] = f] /\ UNCHANGED result
  <2>1. /\ f \in Slot /\ lockTab[f] # NoSem
        /\ namesKept => lockTab[f].name = n
    BY <1>4, FoundExists
  <2>2. TableTypeOK'
    BY <1>2, <1>4, <2>1, CallTyped DEF TableInv, TableTypeOK
  <2>3. WaitersFound'
    <3> SUFFICES ASSUME NEW u \in UserThread, waiting'[u] # -1
                 PROVE  /\ lockTab[waiting'[u]] # NoSem
                        /\ namesKept => lockTab[waiting'[u]].name = request'[u].name
      BY <1>2 DEF WaitersFound
    <3>1. CASE u = t
      BY <1>4, <2>1, <3>1, CallTyped DEF TableInv, TableTypeOK
    <3>2. CASE u # t
      BY <1>4, <3>2, CallTyped DEF TableInv, TableTypeOK, WaitersFound
    <3> QED
      BY <3>1, <3>2
  <2> QED
    BY <1>2, <2>2, <2>3 DEF TableInv, SlotsExact, NamesDistinct, Accounted
<1> QED
  BY <1>1, <1>3, <1>4

(* A step that changes the value of one semaphore by 1, in the direction   *)
(* and for the name that the history records.                              *)
LEMMA ValueAccounted ==
  ASSUME TableInv, NEW i \in Slot, lockTab[i] # NoSem, NEW n \in Name,
         namesKept => lockTab[i].name = n,
         NEW v \in Int, v >= 0 \/ lockTab[i].value < 0,
         lockTab' = [lockTab EXCEPT ![i].value = v],
         signalled' \in [Name -> Nat], waited' \in [Name -> Nat],
         signalled'[n] - waited'[n] = signalled[n] - waited[n] + (v - lockTab[i].value),
         \A m \in Name : m # n => signalled'[m] = signalled[m] /\ waited'[m] = waited[m],
         UNCHANGED <<namesKept, initial, bm>>
  PROVE  /\ lockTab' \in [Slot -> [name : Name, value : Int] \cup {NoSem}]
         /\ SlotsExact' /\ NamesDistinct' /\ Accounted'
         /\ \A j \in Slot : /\ lockTab'[j] # NoSem <=> lockTab[j] # NoSem
                            /\ lockTab'[j].name = lockTab[j].name
<1>1. lockTab[i].value \in Int
  BY DEF TableInv, TableTypeOK
<1>2. lockTab \in [Slot -> Semaphores \cup {NoSem}]
  BY DEF TableInv, TableTypeOK, Semaphores
<1>3. /\ lockTab' \in [Slot -> Semaphores \cup {NoSem}]
      /\ lockTab'[i].value = v
      /\ \A j \in Slot : /\ lockTab'[j] # NoSem <=> lockTab[j] # NoSem
                         /\ lockTab'[j].name = lockTab[j].name
                         /\ j # i => lockTab'[j] = lockTab[j]
  BY <1>2, ValueChanges
<1>4. lockTab' \in [Slot -> [name : Name, value : Int] \cup {NoSem}]
  BY <1>3 DEF Semaphores
<1>5. SlotsExact' /\ NamesDistinct'
  BY <1>3 DEF TableInv, SlotsExact, NamesDistinct
<1>6. Accounted'
  <2> SUFFICES ASSUME namesKept PROVE Accounted'
    BY DEF Accounted
  <2>2. lockTab[i].name = n
    OBVIOUS
  <2>3. ASSUME NEW j \in Slot, lockTab'[j] # NoSem
        PROVE  /\ lockTab'[j].value = initial'[lockTab'[j].name]
                                      + signalled'[lockTab'[j].name] - waited'[lockTab'[j].name]
               /\ initial'[lockTab'[j].name] >= 0 => lockTab'[j].value >= 0
    <3>1. /\ lockTab[j] # NoSem /\ lockTab[j].name \in Name
          /\ lockTab'[j].name = lockTab[j].name
      BY <1>3, <2>3 DEF TableInv, TableTypeOK
    <3>2. /\ lockTab[j].value = initial[lockTab[j].name]
                                + signalled[lockTab[j].name] - waited[lockTab[j].name]
          /\ initial[lockTab[j].name] >= 0 => lockTab[j].value >= 0
      BY <3>1 DEF TableInv, Accounted
    <3>3. CASE j = i
      <4>1. /\ initial[n] \in Int /\ signalled[n] \in Nat /\ waited[n] \in Nat
            /\ signalled'[n] \in Nat /\ waited'[n] \in Nat
        BY DEF TableInv, TableTypeOK
      <4>2. lockTab'[j].value = initial'[n] + signalled'[n] - waited'[n]
        BY <1>1, <1>3, <2>2, <3>2, <3>3, <4>1
      <4>3. initial[n] >= 0 => lockTab'[j].value >= 0
        BY <1>1, <1>3, <2>2, <3>2, <3>3, <4>1
      <4> QED
        BY <2>2, <3>1, <3>3, <4>2, <4>3
    <3>4. CASE j # i
      <4>1. lockTab[j].name # n
        BY <2>2, <3>1, <3>4 DEF TableInv, NamesDistinct
      <4> QED
        BY <1>3, <3>1, <3>2, <3>4, <4>1
    <3> QED
      BY <3>3, <3>4
  <2>4. ASSUME NEW m \in Name, \A j \in Slot : lockTab'[j] # NoSem => lockTab'[j].name # m
        PROVE  initial'[m] = 0 /\ signalled'[m] = 0 /\ waited'[m] = 0
    <3>1. m # n
      BY <1>3, <2>2, <2>4
    <3>2. \A j \in Slot : lockTab[j] # NoSem => lockTab[j].name # m
      BY <1>3, <2>4
    <3> QED
      BY <3>1, <3>2 DEF TableInv, Accounted
  <2> QED
    BY <2>3, <2>4 DEF Accounted
<1> QED
  BY <1>3, <1>4, <1>5, <1>6

(* The rest of a Wait: P.                                                  *)
LEMMA PPreserves ==
  ASSUME TableInv, NEW t \in UserThread, P(t)
  PROVE  TableInv'
<1> DEFINE i == waiting[t]
           n == request[t].name
<1>1. /\ i \in Slot /\ lockTab[i] # NoSem /\ n \in Name
      /\ namesKept => lockTab[i].name = n
  BY DEF TableInv, TableTypeOK, WaitersFound, P
<1>2. lockTab[i].value \in Int /\ lockTab[i].value # 0
  BY <1>1 DEF TableInv, TableTypeOK, P
<1>3. PICK v \in Int : v = lockTab[i].value - 1
  BY <1>2
<1>4. lockTab' = [lockTab EXCEPT ![i].value = v]
  BY <1>3 DEF P
<1>5. /\ signalled' = signalled
      /\ waited' = [waited EXCEPT ![n] = @ + 1]
      /\ UNCHANGED <<namesKept, initial, bm, request, calls>>
      /\ waiting' = [waiting EXCEPT ![t] = -1]
      /\ Returns(t, 0)
  BY DEF P
<1>6. v >= 0 \/ lockTab[i].value < 0
  BY <1>2, <1>3
<1>7. /\ signalled \in [Name -> Nat] /\ waited \in [Name -> Nat]
      /\ signalled' \in [Name -> Nat] /\ waited' \in [Name -> Nat]
      /\ waited'[n] = waited[n] + 1
      /\ \A m \in Name : m # n => signalled'[m] = signalled[m] /\ waited'[m] = waited[m]
  BY <1>1, <1>5 DEF TableInv, TableTypeOK
<1>8. signalled'[n] - waited'[n] = signalled[n] - waited[n] + (v - lockTab[i].value)
  <2>1. signalled[n] \in Nat /\ waited[n] \in Nat
    BY <1>1, <1>7
  <2> QED
    BY <1>2, <1>3, <1>5, <1>7, <2>1
<1> HIDE DEF i, n
<1>9. /\ lockTab' \in [Slot -> [name : Name, value : Int] \cup {NoSem}]
      /\ SlotsExact' /\ NamesDistinct' /\ Accounted'
      /\ \A j \in Slot : /\ lockTab'[j] # NoSem <=> lockTab[j] # NoSem
                         /\ lockTab'[j].name = lockTab[j].name
  BY <1>1, <1>4, <1>5, <1>6, <1>7, <1>8, ValueAccounted
<1>10. TableTypeOK'
  BY <1>5, <1>7, <1>9 DEF TableInv, TableTypeOK, Returns
<1>11. WaitersFound'
  <2> SUFFICES ASSUME NEW u \in UserThread, waiting'[u] # -1
               PROVE  /\ lockTab'[waiting'[u]] # NoSem
                      /\ namesKept => lockTab'[waiting'[u]].name = request[u].name
    BY <1>5 DEF WaitersFound
  <2>1. waiting'[u] = waiting[u] /\ waiting[u] \in Slot
    BY <1>5 DEF TableInv, TableTypeOK
  <2> QED
    BY <1>9, <2>1 DEF TableInv, WaitersFound
<1> QED
  BY <1>9, <1>10, <1>11 DEF TableInv

(* Signal.                                                                 *)
LEMMA SignalPreserves ==
  ASSUME TableInv, NEW t \in UserThread, NEW n \in Name, SysSignal(t, n)
  PROVE  TableInv'
<1> USE DEF SysSignal
<1>1. PICK f \in Found(n) :
        \/ Returns(t, -1) /\ UNCHANGED <<lockTab, signalled>>
        \/ /\ f # -1
           /\ lockTab' = [lockTab EXCEPT ![f].value = @ + 1]
           /\ signalled' = [signalled EXCEPT ![n] = @ + 1]
           /\ Returns(t, 0)
  BY DEF Signal
<1>2. UNCHANGED <<namesKept, bm, waiting, initial, waited>>
  BY DEF Signal
<1>3. CASE Returns(t, -1) /\ UNCHANGED <<lockTab, signalled>>
  BY <1>2, <1>3, QuietCall
<1>4. CASE /\ f # -1
           /\ lockTab' = [lockTab EXCEPT ![f].value = @ + 1]
           /\ signalled' = [signalled EXCEPT ![n] = @ + 1]
           /\ Returns(t, 0)
  <2>1. /\ f \in Slot /\ lockTab[f] # NoSem
        /\ namesKept => lockTab[f].name = n
    BY <1>4, FoundExists
  <2>2. lockTab[f].value \in Int
    BY <2>1 DEF TableInv, TableTypeOK
  <2>3. PICK v \in Int : v = lockTab[f].value + 1
    BY <2>2
  <2>4. lockTab' = [lockTab EXCEPT ![f].value = v] /\ (v >= 0 \/ lockTab[f].value < 0)
    BY <1>4, <2>2, <2>3
  <2>5. /\ signalled \in [Name -> Nat] /\ waited \in [Name -> Nat]
        /\ signalled' \in [Name -> Nat] /\ waited' \in [Name -> Nat]
        /\ signalled'[n] = signalled[n] + 1
        /\ \A m \in Name : m # n => signalled'[m] = signalled[m] /\ waited'[m] = waited[m]
    BY <1>2, <1>4 DEF TableInv, TableTypeOK
  <2>6. signalled'[n] - waited'[n] = signalled[n] - waited[n] + (v - lockTab[f].value)
    <3>1. signalled[n] \in Nat /\ waited[n] \in Nat
      BY <2>5
    <3> QED
      BY <1>2, <2>2, <2>3, <2>5, <3>1
  <2>7. /\ lockTab' \in [Slot -> [name : Name, value : Int] \cup {NoSem}]
        /\ SlotsExact' /\ NamesDistinct' /\ Accounted'
        /\ \A j \in Slot : /\ lockTab'[j] # NoSem <=> lockTab[j] # NoSem
                           /\ lockTab'[j].name = lockTab[j].name
    BY <1>2, <2>1, <2>4, <2>5, <2>6, ValueAccounted
  <2>8. TableTypeOK'
    BY <1>2, <1>4, <2>5, <2>7, CallTyped DEF TableInv, TableTypeOK, Returns
  <2>9. WaitersFound'
    <3> SUFFICES ASSUME NEW u \in UserThread, waiting[u] # -1
                 PROVE  /\ lockTab'[waiting[u]] # NoSem
                        /\ namesKept => lockTab'[waiting[u]].name = request'[u].name
      BY <1>2 DEF WaitersFound
    <3>1. request'[u] = request[u] /\ waiting[u] \in Slot
      BY CallTyped DEF TableInv, TableTypeOK
    <3> QED
      BY <2>7, <3>1 DEF TableInv, WaitersFound
  <2> QED
    BY <2>7, <2>8, <2>9 DEF TableInv
<1> QED
  BY <1>1, <1>3, <1>4

(* Every step preserves the invariant.                                     *)
LEMMA StepPreserves == TableInv /\ [TableNext]_tableVars => TableInv'
<1> SUFFICES ASSUME TableInv, [TableNext]_tableVars PROVE TableInv'
  OBVIOUS
<1>1. CASE UNCHANGED tableVars
  BY <1>1 DEF TableInv, tableVars, TableTypeOK, SlotsExact, WaitersFound, NamesDistinct, Accounted
<1>2. ASSUME NEW t \in UserThread, NEW n \in Name, NEW v \in SemVal, CreateSemaphore(t, n, v)
      PROVE  TableInv'
  BY <1>2, CreatePreserves
<1>3. ASSUME NEW t \in UserThread, NEW n \in Name, SysWait(t, n)
      PROVE  TableInv'
  BY <1>3, WaitPreserves
<1>4. ASSUME NEW t \in UserThread, NEW n \in Name, SysSignal(t, n)
      PROVE  TableInv'
  BY <1>4, SignalPreserves
<1>5. ASSUME NEW t \in UserThread, P(t)
      PROVE  TableInv'
  BY <1>5, PPreserves
<1> QED
  BY <1>1, <1>2, <1>3, <1>4, <1>5 DEF TableNext

-----------------------------------------------------------------------------
(* The invariant holds in every reachable state: the table, its bitmap,    *)
(* the threads inside P and the history of the calls agree.                *)
THEOREM TableInvariance == TableSpec => []TableInv
<1>1. TableInit => TableInv
  BY InitEstablishes
<1>2. TableInv /\ [TableNext]_tableVars => TableInv'
  BY StepPreserves
<1> QED
  BY <1>1, <1>2, PTL DEF TableSpec

(* STable accounts for its semaphores: exactly the marked slots hold one   *)
(* (a failed CreateSemaphore uses up nothing), and while names are         *)
(* readable Wait on a name returns 0 no more often than its initial value  *)
(* and the Signals allow.                                                  *)
THEOREM TableAccounts == TableSpec => []STableInv
<1>1. TableInv => STableInv
  <2> SUFFICES ASSUME TableInv PROVE STableInv
    OBVIOUS
  <2>1. ASSUME namesKept, NEW n \in Name, initial[n] >= 0
        PROVE  waited[n] <= initial[n] + signalled[n]
    <3>1. initial[n] \in Int /\ signalled[n] \in Nat /\ waited[n] \in Nat
      BY DEF TableInv, TableTypeOK
    <3>2. CASE \A i \in Slot : lockTab[i] # NoSem => lockTab[i].name # n
      BY <2>1, <3>1, <3>2 DEF TableInv, Accounted
    <3>3. ASSUME NEW i \in Slot, lockTab[i] # NoSem, lockTab[i].name = n
          PROVE  waited[n] <= initial[n] + signalled[n]
      <4>1. /\ lockTab[i].value = initial[n] + signalled[n] - waited[n]
            /\ lockTab[i].value >= 0
        BY <2>1, <3>3 DEF TableInv, Accounted
      <4> QED
        BY <3>1, <4>1
    <3> QED
      BY <3>2, <3>3
  <2> QED
    BY <2>1 DEF TableInv, STableInv, WaitsAllowed
<1> QED
  BY <1>1, TableInvariance, PTL

(* A semaphore stays in its slot under its name for good, so nobody sleeps *)
(* on one that another CreateSemaphore has replaced.                       *)
THEOREM SemaphoresAreKept == TableSpec => SemaphoresStay
<1> DEFINE Stays == \A i \in Slot : lockTab[i] # NoSem =>
                      lockTab'[i] # NoSem /\ lockTab'[i].name = lockTab[i].name
<1>1. TableInv /\ [TableNext]_tableVars => [Stays]_tableVars
  <2> SUFFICES ASSUME TableInv, TableNext PROVE Stays
    OBVIOUS
  <2>1. ASSUME NEW t \in UserThread, NEW n \in Name, NEW v \in SemVal, CreateSemaphore(t, n, v)
        PROVE  Stays
    <3> SUFFICES ASSUME NEW i \in Slot \ bm,
                        lockTab' = [lockTab EXCEPT ![i] = [name |-> n, value |-> v]]
                 PROVE  Stays
      BY <2>1 DEF CreateSemaphore, Create
    <3>1. lockTab[i] = NoSem
      BY DEF TableInv, SlotsExact
    <3>2. \A j \in Slot : j # i => lockTab'[j] = lockTab[j]
      BY DEF TableInv, TableTypeOK
    <3> QED
      BY <3>1, <3>2
  <2>2. ASSUME NEW t \in UserThread, NEW n \in Name, SysWait(t, n)
        PROVE  Stays
    BY <2>2 DEF SysWait, Wait
  <2>3. ASSUME NEW i \in Slot, lockTab[i] # NoSem, NEW d \in Int,
               lockTab' = [lockTab EXCEPT ![i].value = d]
        PROVE  Stays
    <3>1. lockTab \in [Slot -> Semaphores \cup {NoSem}]
      BY DEF TableInv, TableTypeOK, Semaphores
    <3> QED
      BY <2>3, <3>1, ValueChanges
  <2>4. ASSUME NEW t \in UserThread, NEW n \in Name, SysSignal(t, n)
        PROVE  Stays
    <3>1. PICK f \in Found(n) : \/ UNCHANGED lockTab
                                \/ f # -1 /\ lockTab' = [lockTab EXCEPT ![f].value = @ + 1]
      BY <2>4 DEF SysSignal, Signal
    <3>2. CASE f # -1 /\ lockTab' = [lockTab EXCEPT ![f].value = @ + 1]
      <4>1. f \in Slot /\ lockTab[f] # NoSem
        BY <3>2, FoundExists
      <4>2. lockTab[f].value + 1 \in Int
        BY <4>1 DEF TableInv, TableTypeOK
      <4>3. PICK d \in Int : d = lockTab[f].value + 1
        BY <4>2
      <4> QED
        BY <2>3, <3>2, <4>1, <4>3
    <3> QED
      BY <3>1, <3>2
  <2>5. ASSUME NEW t \in UserThread, P(t)
        PROVE  Stays
    <3>1. waiting[t] \in Slot /\ lockTab[waiting[t]] # NoSem
      BY <2>5 DEF P, TableInv, TableTypeOK, WaitersFound
    <3>2. lockTab[waiting[t]].value - 1 \in Int
      BY <3>1 DEF TableInv, TableTypeOK
    <3>3. PICK d \in Int : d = lockTab[waiting[t]].value - 1
      BY <3>2
    <3>4. lockTab' = [lockTab EXCEPT ![waiting[t]].value = d]
      BY <2>5, <3>3 DEF P
    <3> QED
      BY <2>3, <3>1, <3>4
  <2> QED
    BY <2>1, <2>2, <2>4, <2>5 DEF TableNext
<1> QED
  BY <1>1, TableInvariance, PTL DEF TableSpec, SemaphoresStay

(* Wait and Signal return -1 when no semaphore has the name, and only      *)
(* then, as long as names are readable.                                    *)
THEOREM ErrorsMeanMissing == TableSpec => ErrorMeansMissing
<1> DEFINE Missing(n) == \A i \in Slot : lockTab[i] # NoSem => lockTab[i].name # n
           Told(t) == /\ namesKept /\ calls'[t] # calls[t]
                      /\ request'[t].call \in {"Wait", "Signal"} /\ waiting'[t] = -1
                      => (result'[t] = -1 <=> Missing(request'[t].name))
<1>1. TableInv /\ [TableNext]_tableVars => [\A t \in UserThread : Told(t)]_tableVars
  <2> SUFFICES ASSUME TableInv, TableNext, NEW t \in UserThread, namesKept, calls'[t] # calls[t],
                      request'[t].call \in {"Wait", "Signal"}, waiting'[t] = -1
               PROVE  result'[t] = -1 <=> Missing(request'[t].name)
    OBVIOUS
  <2>1. ASSUME NEW u \in UserThread, NEW n \in Name, NEW c \in {"Create", "Wait", "Signal"},
               Calls(u, c, n)
        PROVE  u = t /\ request'[t].call = c /\ request'[t].name = n
    BY <2>1 DEF Calls, TableInv, TableTypeOK
  <2>2. ASSUME NEW n \in Name, NEW f \in Found(n), NEW r \in {-1, 0},
               Returns(t, r), r = -1 <=> f = -1
        PROVE  result'[t] = -1 <=> Missing(n)
    <3>1. result'[t] = r
      BY <2>2 DEF Returns, TableInv, TableTypeOK
    <3>2. f = -1 <=> Missing(n)
      BY FoundExists
    <3> QED
      BY <2>2, <3>1, <3>2
  <2>3. ASSUME NEW u \in UserThread, NEW n \in Name, NEW v \in SemVal, CreateSemaphore(u, n, v)
        PROVE  result'[t] = -1 <=> Missing(request'[t].name)
    BY <2>1, <2>3 DEF CreateSemaphore
  <2>4. ASSUME NEW u \in UserThread, NEW n \in Name, SysWait(u, n)
        PROVE  result'[t] = -1 <=> Missing(request'[t].name)
    <3>1. u = t /\ request'[t].name = n /\ Wait(t, n)
      BY <2>1, <2>4 DEF SysWait
    <3>2. PICK f \in Found(n) : \/ f = -1 /\ Returns(t, -1)
                                \/ f # -1 /\ waiting' = [waiting EXCEPT ![t] = f]
      BY <3>1 DEF Wait
    <3>3. f = -1 /\ Returns(t, -1)
      BY <3>2 DEF TableInv, TableTypeOK
    <3> QED
      BY <2>2, <3>1, <3>3
  <2>5. ASSUME NEW u \in UserThread, NEW n \in Name, SysSignal(u, n)
        PROVE  result'[t] = -1 <=> Missing(request'[t].name)
    <3>1. u = t /\ request'[t].name = n /\ Signal(t, n)
      BY <2>1, <2>5 DEF SysSignal
    <3>2. PICK f \in Found(n) : \/ f = -1 /\ Returns(t, -1)
                                \/ f # -1 /\ Returns(t, 0)
      BY <3>1 DEF Signal
    <3> QED
      BY <2>2, <3>1, <3>2
  <2>6. ASSUME NEW u \in UserThread, P(u)
        PROVE  FALSE
    BY <2>6 DEF P
  <2> QED
    BY <2>3, <2>4, <2>5, <2>6 DEF TableNext
<1> QED
  BY <1>1, TableInvariance, PTL DEF TableSpec, ErrorMeansMissing
=============================================================================
