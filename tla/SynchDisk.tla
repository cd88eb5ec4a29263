----------------------------- MODULE SynchDisk -----------------------------
(***************************************************************************)
(* The synchronous disk (filesys/synchdisk.cc) on the simulated disk       *)
(* (machine/disk.cc), driven by simulated time: the sorted list of pending *)
(* interrupts (machine/interrupt.cc, threads/list.cc) and the time slicer  *)
(* (machine/timer.cc).                                                     *)
(*                                                                         *)
(* Time advances only in OneTick (interrupts are enabled again, or a user  *)
(* instruction runs) and in Idle.  OneTick and Idle call CheckIfDue in a   *)
(* loop; one call is one step here, and no thread runs between two calls.  *)
(* Lock::Acquire and Lock::Release are empty in this repository, so        *)
(* ReadSector and WriteSector are: start the request, then P().  No        *)
(* interrupt can come between the two, because nothing there ticks.        *)
(* The bytes go to the UNIX file at once; FileSystem models them.          *)
(***************************************************************************)
EXTENDS Integers, Sequences, FiniteSets, FiniteSetsExt

CONSTANTS
    Thread,             \* the kernel threads
    First,              \* the thread that runs first
    SectorsPerTrack, NumTracks,
    RotationTime, SeekTime, UserTick, SystemTick, TimerTicks,
    MaxTime             \* bound: no thread starts anything at or after this tick

ASSUME DiskAssumption ==
    /\ IsFiniteSet(Thread) /\ First \in Thread
    /\ SectorsPerTrack \in Nat \ {0} /\ NumTracks \in Nat \ {0}
    /\ RotationTime \in Nat \ {0} /\ SeekTime \in Nat \ {0}
    /\ UserTick \in Nat \ {0} /\ SystemTick \in Nat \ {0}
    /\ TimerTicks \in Nat \ {0} /\ SystemTick < 2 * TimerTicks /\ MaxTime \in Nat

Sector == 0 .. SectorsPerTrack * NumTracks - 1
IntType == {"TimerInt", "DiskInt"}
PendingInterrupt == [type : IntType, key : Nat]

VARIABLES
    serial,         \* the callers never have two requests under way at once
    totalTicks,     \* stats->totalTicks
    pending,        \* Interrupt::pending, sorted by key
    mode,           \* what the simulator is doing, see Mode
    yieldOnReturn,  \* Interrupt::yieldOnReturn
    readyList,      \* Scheduler::readyList
    current,        \* currentThread
    pc,             \* where each thread is, see PC
    semaphore,      \* SynchDisk::semaphore: value and queue
    disk,           \* Disk: active, lastSector, bufferInit
    \* Observed only by the properties:
    arrived,        \* when the head reached the track it is on
    flight,         \* the last request: by, sector, from, issued
    answered        \* threads whose last request has had its interrupt

threadVars == <<readyList, current, pc>>
clockVars == <<totalTicks, pending, mode, yieldOnReturn>>
history == <<arrived, flight, answered>>
vars == <<serial, threadVars, clockVars, semaphore, disk, history>>

\* "run": the current thread runs.  "tick": in OneTick's loop of CheckIfDue.
\* "idle": Idle is about to call CheckIfDue(TRUE).  "wake": in Idle's loop.
Mode == {"run", "tick", "idle", "wake", "halted", "aborted"}

\* "ready": on its own code.  "waits": in the queue of the semaphore, or just
\* taken out of it.  "yielded": in Yield, before interrupts are enabled again.
PC == {"ready", "waits", "yielded", "finished"}

-----------------------------------------------------------------------------
(* List *)

\* Faulty variant of SortedInsert: List::Append.
SortedInsertAppend(list, item) == Append(list, item)

\* List::SortedInsert: before the first element with a larger key, so after
\* those with an equal one.
SortedInsert(list, item) ==
    LET larger == {i \in DOMAIN list : item.key < list[i].key}
        n == IF larger = {} THEN Len(list) ELSE Min(larger) - 1
    IN SubSeq(list, 1, n) \o <<item>> \o SubSeq(list, n + 1, Len(list))

SortedRemove(list) == Tail(list)

-----------------------------------------------------------------------------
(* Disk *)

Abs(i) == IF i < 0 THEN -i ELSE i

Seek(newSector) ==
    Abs(newSector \div SectorsPerTrack - disk.lastSector \div SectorsPerTrack) * SeekTime

\* The *rotation that TimeToSeek returns: the rest of the sector that is under
\* the head when the seek ends.
Rotation(seek) ==
    LET over == (totalTicks + seek) % RotationTime
    IN IF over > 0 THEN RotationTime - over ELSE 0

ModuloDiff(to, from) ==
    (((to % SectorsPerTrack) - (from % SectorsPerTrack)) + SectorsPerTrack) % SectorsPerTrack

\* Faulty variant of InTrackBuffer: the sector has only begun to pass.
InTrackBufferEarly(newSector, timeAfter) ==
    (timeAfter - disk.bufferInit) \div RotationTime
        >= ModuloDiff(newSector, disk.bufferInit \div RotationTime)

\* The read can be served from the track buffer.
InTrackBuffer(newSector, timeAfter) ==
    (timeAfter - disk.bufferInit) \div RotationTime
        > ModuloDiff(newSector, disk.bufferInit \div RotationTime)

ComputeLatency(newSector, writing) ==
    LET seek == Seek(newSector)
        timeAfter == totalTicks + seek + Rotation(seek)
    IN IF ~writing /\ seek = 0 /\ InTrackBuffer(newSector, timeAfter)
       THEN RotationTime
       ELSE seek + Rotation(seek)
              + ModuloDiff(newSector, timeAfter \div RotationTime) * RotationTime
              + RotationTime

UpdateLast(newSector) ==
    LET seek == Seek(newSector)
    IN [active |-> TRUE, lastSector |-> newSector,
        bufferInit |-> IF seek # 0 THEN totalTicks + seek + Rotation(seek)
                                   ELSE disk.bufferInit]

-----------------------------------------------------------------------------
(* Interrupt, Timer *)

Schedule(list, fromNow, now, type) ==
    SortedInsert(list, [type |-> type, key |-> now + fromNow])

\* Timer::TimeOfNextInterrupt with randomize: 1 + Random() % (TimerTicks * 2).
\* From MaxTime on only the longest slice, or switching could go on for ever.
TimeOfNextInterrupt(now) ==
    IF now < MaxTime THEN 1 .. 2 * TimerTicks ELSE {2 * TimerTicks}

\* Interrupt::OneTick up to its loop.
OneTick(ticks) == totalTicks' = totalTicks + ticks /\ mode' = "tick"

\* Scheduler::Run of the next ready thread, or Idle when there is none.
Dispatch(list) ==
    IF list = <<>>
    THEN mode' = "idle" /\ UNCHANGED <<readyList, current>>
    ELSE mode' = "run" /\ current' = Head(list) /\ readyList' = Tail(list)

\* Faulty variant of SemaphoreInit: a token too many.
SemaphoreInitOne == 1

\* The initial value of SynchDisk's semaphore.
SemaphoreInit == 0

Init ==
    /\ serial \in BOOLEAN
    /\ totalTicks = 0
    /\ pending \in {<<>>} \cup {Schedule(<<>>, n, 0, "TimerInt") : n \in TimeOfNextInterrupt(0)}
    /\ mode = "run"
    /\ yieldOnReturn = FALSE
    /\ \E s \in [1 .. Cardinality(Thread) - 1 -> Thread \ {First}] :
          /\ \A i, j \in DOMAIN s : i # j => s[i] # s[j]
          /\ readyList = s
    /\ current = First
    /\ pc = [t \in Thread |-> "ready"]
    /\ semaphore = [value |-> SemaphoreInit, queue |-> <<>>]
    /\ disk = [active |-> FALSE, lastSector |-> 0, bufferInit |-> 0]
    /\ arrived = 0
    /\ flight = [by |-> First, sector |-> 0, from |-> 0, issued |-> 0]
    /\ answered = Thread

-----------------------------------------------------------------------------
(* Threads *)

\* Semaphore::P from the test of its loop: with a value, take it and enable
\* interrupts (which ticks); without, queue up and sleep.
P(t) ==
    IF semaphore.value = 0
    THEN /\ semaphore' = [semaphore EXCEPT !.queue = Append(@, t)]
         /\ pc' = [pc EXCEPT ![t] = "waits"]
         /\ Dispatch(readyList)
         /\ UNCHANGED totalTicks
    ELSE /\ semaphore' = [semaphore EXCEPT !.value = @ - 1]
         /\ pc' = [pc EXCEPT ![t] = "ready"]
         /\ OneTick(SystemTick)
         /\ UNCHANGED <<readyList, current>>

Running(t) == mode = "run" /\ current = t

\* SynchDisk::ReadSector and WriteSector.  Disk::ReadRequest and WriteRequest
\* fail an ASSERT when a request is active, and Schedule one when the latency
\* is not positive.
Access(t, newSector, writing) ==
    /\ Running(t) /\ pc[t] = "ready" /\ totalTicks < MaxTime
    /\ serial => \A u \in Thread : pc[u] # "waits"
    /\ UNCHANGED <<serial, yieldOnReturn>>
    /\ IF disk.active \/ ComputeLatency(newSector, writing) <= 0
       THEN /\ mode' = "aborted"
            /\ UNCHANGED <<threadVars, totalTicks, pending, semaphore, disk, history>>
       ELSE /\ pending' = Schedule(pending, ComputeLatency(newSector, writing), totalTicks, "DiskInt")
            /\ disk' = UpdateLast(newSector)
            /\ P(t)
            /\ arrived' = IF Seek(newSector) # 0 THEN totalTicks + Seek(newSector) ELSE arrived
            /\ flight' = [by |-> t, sector |-> newSector, issued |-> totalTicks,
                          from |-> IF writing THEN totalTicks + Seek(newSector) ELSE arrived']
            /\ answered' = answered \ {t}

ReadSector(t, newSector) == Access(t, newSector, FALSE)
WriteSector(t, newSector) == Access(t, newSector, TRUE)

\* A thread that V() made ready tests the loop of P() again.
WakeInP(t) ==
    /\ Running(t) /\ pc[t] = "waits"
    /\ P(t)
    /\ UNCHANGED <<serial, pending, yieldOnReturn, disk, history>>

\* Thread::Yield returns and enables interrupts again.
AfterYield(t) ==
    /\ Running(t) /\ pc[t] = "yielded"
    /\ pc' = [pc EXCEPT ![t] = "ready"]
    /\ OneTick(SystemTick)
    /\ UNCHANGED <<serial, readyList, current, pending, yieldOnReturn, semaphore, disk, history>>

\* The thread runs a user instruction, or a kernel call that enables interrupts.
Work(t, ticks) ==
    /\ Running(t) /\ pc[t] = "ready" /\ totalTicks < MaxTime
    /\ OneTick(ticks)
    /\ UNCHANGED <<serial, threadVars, pending, yieldOnReturn, semaphore, disk, history>>

\* Thread::Finish.
Finish(t) ==
    /\ Running(t) /\ pc[t] = "ready"
    /\ pc' = [pc EXCEPT ![t] = "finished"]
    /\ Dispatch(readyList)
    /\ UNCHANGED <<serial, totalTicks, pending, yieldOnReturn, semaphore, disk, history>>

-----------------------------------------------------------------------------
(* Interrupts *)

\* Faulty variant of TimerAlone: other interrupts are pending behind the timer.
TimerFirst == pending # <<>> /\ Head(pending).type = "TimerInt"

\* The only pending interrupt is the time slicer's: Idle does not wait for it.
TimerAlone == Len(pending) = 1 /\ Head(pending).type = "TimerInt"

\* CheckIfDue(FALSE) finds an interrupt to fire; while the machine is idle, a
\* timer that is due and alone is put back.
Due ==
    /\ pending # <<>> /\ Head(pending).key <= totalTicks
    /\ ~(mode = "wake" /\ TimerAlone)

\* Disk::HandleInterrupt and SynchDisk::RequestDone: V() makes the first
\* waiting thread ready.
DiskDone ==
    /\ disk' = [disk EXCEPT !.active = FALSE]
    /\ semaphore' = [value |-> semaphore.value + 1,
                     queue |-> IF semaphore.queue = <<>> THEN <<>> ELSE Tail(semaphore.queue)]
    /\ readyList' = IF semaphore.queue = <<>> THEN readyList
                    ELSE Append(readyList, Head(semaphore.queue))
    /\ answered' = answered \cup {flight.by}
    /\ pending' = SortedRemove(pending)
    /\ UNCHANGED yieldOnReturn

\* Timer::TimerExpired: schedule the next interrupt, ask for a context switch.
TimerExpired(now) ==
    /\ \E n \in TimeOfNextInterrupt(now) :
          pending' = Schedule(SortedRemove(pending), n, now, "TimerInt")
    /\ yieldOnReturn' = TRUE
    /\ UNCHANGED <<disk, semaphore, readyList, answered>>

\* The handler of the first pending interrupt, at time now.
Fire(now) ==
    /\ totalTicks' = now
    /\ \/ Head(pending).type = "DiskInt" /\ DiskDone
       \/ Head(pending).type = "TimerInt" /\ TimerExpired(now)
    /\ UNCHANGED <<serial, current, pc, arrived, flight>>

\* CheckIfDue(FALSE) in OneTick's or in Idle's loop finds an interrupt due.
CheckIfDue ==
    /\ mode \in {"tick", "wake"}
    /\ Due
    /\ Fire(totalTicks)
    /\ UNCHANGED mode

\* OneTick's loop ends.  If the timer asked for it the thread yields: to the
\* next ready thread, or to nobody.
TickReturns ==
    /\ mode = "tick" /\ ~Due
    /\ yieldOnReturn' = FALSE
    /\ IF yieldOnReturn
       THEN /\ pc' = [pc EXCEPT ![current] = "yielded"]
            /\ Dispatch(Append(readyList, current))
       ELSE mode' = "run" /\ UNCHANGED threadVars
    /\ UNCHANGED <<serial, totalTicks, pending, semaphore, disk, history>>

\* CheckIfDue(TRUE): advance the clock to the next interrupt, unless that is
\* the timer and nothing else is pending.
Idle ==
    /\ mode = "idle"
    /\ pending # <<>> /\ ~TimerAlone
    /\ Fire(Max({totalTicks, Head(pending).key}))
    /\ mode' = "wake"

\* No interrupt to wait for: Idle halts the machine.
Halt ==
    /\ mode = "idle"
    /\ pending = <<>> \/ TimerAlone
    /\ mode' = "halted"
    /\ totalTicks' = IF TimerAlone THEN Max({totalTicks, Head(pending).key}) ELSE totalTicks
    /\ UNCHANGED <<serial, threadVars, pending, yieldOnReturn, semaphore, disk, history>>

\* Idle's loop ends, and Sleep looks for a ready thread again.
IdleReturns ==
    /\ mode = "wake" /\ ~Due
    /\ yieldOnReturn' = FALSE
    /\ Dispatch(readyList)
    /\ UNCHANGED <<serial, totalTicks, pending, pc, semaphore, disk, history>>

Stopped == mode \in {"halted", "aborted"} /\ UNCHANGED vars

Next ==
    \/ \E t \in Thread :
          \/ \E s \in Sector : ReadSector(t, s) \/ WriteSector(t, s)
          \/ WakeInP(t)
          \/ AfterYield(t)
          \/ \E n \in {UserTick, SystemTick} : Work(t, n)
          \/ Finish(t)
    \/ CheckIfDue
    \/ TickReturns
    \/ Idle
    \/ IdleReturns
    \/ Halt
    \/ Stopped

Spec == Init /\ [][Next]_vars

\* The simulator is one sequential program: it always takes its next step.
FairSpec == Spec /\ WF_vars(Next)

-----------------------------------------------------------------------------
(* Properties *)

TypeOK ==
    /\ serial \in BOOLEAN /\ yieldOnReturn \in BOOLEAN
    /\ totalTicks \in Nat
    /\ pending \in Seq(PendingInterrupt)
    /\ mode \in Mode
    /\ readyList \in Seq(Thread) /\ current \in Thread
    /\ pc \in [Thread -> PC]
    /\ semaphore \in [value : Nat, queue : Seq(Thread)]
    /\ disk \in [active : BOOLEAN, lastSector : Sector, bufferInit : Nat]
    /\ arrived \in Nat
    /\ flight \in [by : Thread, sector : Sector, from : Nat, issued : Nat]
    /\ answered \subseteq Thread

\* The end of the first complete pass of a sector under the head that starts at
\* or after a given time.  Sector number k passes in the k-th rotation slot.
PassEnds(sector, from) ==
    LET slot == Min({k \in (from \div RotationTime) .. (from \div RotationTime + SectorsPerTrack) :
                        /\ from <= k * RotationTime
                        /\ k % SectorsPerTrack = sector % SectorsPerTrack})
    IN (slot + 1) * RotationTime

\* ComputeLatency against the physics of the disk: a request is answered when
\* the sector has passed completely under the head, for a read at any time since
\* the head came to the track (the track buffer), for a write after the request,
\* and never sooner than the time to transfer one sector; and not a tick later.
\* The track buffer's state (bufferInit) is kept across requests by UpdateLast.
LatencyExact ==
    \A i \in DOMAIN pending : pending[i].type = "DiskInt" =>
        pending[i].key = Max({PassEnds(flight.sector, flight.from),
                              flight.issued + RotationTime})

\* While a thread runs with interrupts enabled no interrupt is overdue, except
\* that Idle may leave a time slice that is due at this very tick.  It needs
\* SortedInsert to keep the list sorted, since CheckIfDue looks at its head.
NeverLate ==
    mode = "run" =>
        \A i \in DOMAIN pending :
            \/ pending[i].key > totalTicks
            \/ pending[i].type = "TimerInt" /\ pending[i].key = totalTicks

\* The threads inside ReadSector or WriteSector are matched one to one with the
\* tokens of the semaphore and the request the disk is working on: no answer is
\* lost and none is given twice, even when the empty Lock lets threads overlap.
TokensMatchWaiters ==
    mode # "aborted" =>
        Cardinality({t \in Thread : pc[t] = "waits"})
            = semaphore.value + (IF disk.active THEN 1 ELSE 0)

\* "Return only after the data has been read" (synchdisk.cc), for callers that
\* keep to one request at a time: a thread is on its own code again only after
\* the interrupt of its own request, and no ASSERT of Disk fails.  (With overlapping callers and the empty
\* Lock a thread can take the token of another one.)
ReturnsAfterDone ==
    serial => /\ mode # "aborted"
              /\ \A t \in Thread : pc[t] # "waits" => t \in answered

\* No interrupt fires late and no answer of the disk is lost or given twice,
\* whether callers take turns or not.
DiskInv == TypeOK /\ NeverLate /\ TokensMatchWaiters

\* Every disk access returns (or an overlapping one has failed the ASSERT): in
\* particular Idle does not halt the machine under a thread that waits for the
\* disk, with a time slicer or without.
AccessReturns ==
    \A t \in Thread : pc[t] = "waits" ~> (pc[t] = "ready" \/ mode = "aborted")
=============================================================================
