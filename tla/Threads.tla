------------------------------ MODULE Threads ------------------------------
(***************************************************************************)
(* The Nachos thread kernel: Thread (threads/thread.cc), Scheduler         *)
(* (threads/scheduler.cc), Semaphore (threads/synch.cc) and the interrupt  *)
(* simulation they are built on (machine/interrupt.cc, machine/timer.cc).  *)
(*                                                                         *)
(* The machine is a uniprocessor.  Interrupts, and hence time slices, are  *)
(* delivered only where simulated time advances: when interrupts are       *)
(* re-enabled (SetLevel), when a user instruction is executed, and when    *)
(* the CPU idles.  So the code between two such points is one action, and  *)
(* `mode' says at which kind of point the CPU is:                          *)
(*   "run"   interrupts on, the current thread executes its own code;      *)
(*   "tick"  inside Interrupt::OneTick, interrupts off;                    *)
(*   "P"     a thread has just been switched back into the loop of P,      *)
(*           interrupts off;                                               *)
(*   "idle"  inside Interrupt::Idle, called from Thread::Sleep;            *)
(*   "halt"  Interrupt::Halt was called.                                   *)
(* Simulated time itself is abstracted: whether a pending interrupt is due *)
(* at a tick is a nondeterministic choice.                                 *)
(***************************************************************************)
EXTENDS Integers, Sequences, FiniteSets

CONSTANTS
  Thread,        \* the Thread objects that may ever exist
  MainThread,    \* the thread Initialize creates for main()
  NoThread,      \* the NULL Thread pointer
  Sem,           \* the Semaphore objects
  Device,        \* the semaphores that a device interrupt handler V's
  InitialValue,  \* initialValue of each semaphore
  TimerOn,       \* was the kernel started with -rs (time slicing)?
  MaxValue       \* bound: value plus outstanding interrupts of a semaphore

(***************************************************************************)
(* Where a thread that does not hold the CPU continues when it is switched *)
(* to: at ThreadRoot for the first time, after the Run in Yield, after the *)
(* Sleep in P of some semaphore (then the continuation is the semaphore),  *)
(* or never, because it slept in Finish.                                   *)
(***************************************************************************)
Root == "ThreadRoot"
InYield == "Yield"
InFinish == "Finish"
Cont == {Root, InYield, InFinish} \cup Sem

ASSUME ThreadsAssumption ==
  /\ MainThread \in Thread
  /\ NoThread \notin Thread
  /\ Device \subseteq Sem
  /\ Sem \cap {Root, InYield, InFinish} = {}
  /\ MaxValue \in Nat
  /\ InitialValue \in [Sem -> 0..MaxValue]
  /\ TimerOn \in BOOLEAN

ASSUME FiniteThreads == IsFiniteSet(Thread)

ThreadStatus == {"NEW", "RUNNING", "READY", "BLOCKED", "DELETED"}
Mode == {"run", "tick", "P", "idle", "halt"}

VARIABLES
  status,              \* Thread::status; "NEW" before Fork, "DELETED" after ~Thread
  cont,                \* the suspended thread's continuation, see above
  currentThread,       \* the thread that holds the CPU
  threadToBeDestroyed, \* the carcass the next Run deletes, or NoThread
  readyList,           \* Scheduler::readyList
  value,               \* Semaphore::value
  queue,               \* Semaphore::queue
  pending,             \* device interrupts scheduled and not yet delivered
  yieldOnReturn,       \* Interrupt::yieldOnReturn
  mode                 \* at which point of the machine loop the CPU is

threadVars == <<status, cont, currentThread, threadToBeDestroyed, readyList>>
semVars == <<value, queue>>
vars == <<threadVars, semVars, pending, yieldOnReturn, mode>>

(* Initialize() up to interrupt->Enable(), whose tick is about to happen.  *)
Init ==
  /\ status = [t \in Thread |-> IF t = MainThread THEN "RUNNING" ELSE "NEW"]
  /\ cont = [t \in Thread |-> Root]
  /\ currentThread = MainThread
  /\ threadToBeDestroyed = NoThread
  /\ readyList = <<>>
  /\ value = InitialValue
  /\ queue = [s \in Sem |-> <<>>]
  /\ pending = [s \in Sem |-> 0]
  /\ yieldOnReturn = FALSE
  /\ mode = "tick"
-----------------------------------------------------------------------------
(* The status of the threads once the carcass, if there is one, has been   *)
(* destroyed: the end of Scheduler::Run.                                   *)
DeleteCarcass(st, carcass) ==
  [t \in Thread |-> IF t = carcass THEN "DELETED" ELSE st[t]]

(* Faulty variant of Run: threadToBeDestroyed is not reset.                *)
RunKeepingCarcass(t, st, rest, carcass) ==
  /\ currentThread' = t
  /\ readyList' = rest
  /\ status' = IF cont[t] = Root THEN [st EXCEPT ![t] = "RUNNING"]
               ELSE DeleteCarcass([st EXCEPT ![t] = "RUNNING"], carcass)
  /\ threadToBeDestroyed' = carcass
  /\ mode' = IF cont[t] \in {Root, InYield} THEN "tick" ELSE "P"

(* Scheduler::Run(t).  st is the status of the threads, rest the ready     *)
(* list (without t) and carcass the threadToBeDestroyed when Run is called.*)
(* t goes on where it left off: in ThreadRoot, which never executes the    *)
(* statements after SWITCH and so leaves the carcass alone, or after the   *)
(* SWITCH of an earlier call of Run, from Yield or from P's Sleep.         *)
(* ThreadRoot and Yield next enable interrupts; P goes on with its loop.   *)
Run(t, st, rest, carcass) ==
  /\ currentThread' = t
  /\ readyList' = rest
  /\ \/ /\ cont[t] = Root
        /\ status' = [st EXCEPT ![t] = "RUNNING"]
        /\ threadToBeDestroyed' = carcass
        /\ mode' = "tick"
     \/ /\ cont[t] # Root
        /\ status' = DeleteCarcass([st EXCEPT ![t] = "RUNNING"], carcass)
        /\ threadToBeDestroyed' = NoThread
        /\ mode' = IF cont[t] = InYield THEN "tick" ELSE "P"

(* Thread::Sleep: the current thread blocks and will continue at c.  With  *)
(* nobody ready the CPU idles, still in the context of the sleeper.        *)
Sleep(c, carcass) ==
  LET st == [status EXCEPT ![currentThread] = "BLOCKED"] IN
  /\ cont' = [cont EXCEPT ![currentThread] = c]
  /\ \/ /\ readyList # <<>>
        /\ Run(Head(readyList), st, Tail(readyList), carcass)
     \/ /\ readyList = <<>>
        /\ mode' = "idle"
        /\ status' = st
        /\ threadToBeDestroyed' = carcass
        /\ UNCHANGED <<currentThread, readyList>>

(* Faulty variants of Yield: the current thread is not put back on the     *)
(* ready list; it is put back in front.                                    *)
YieldBodyLosing ==
  /\ readyList # <<>>
  /\ cont' = [cont EXCEPT ![currentThread] = InYield]
  /\ Run(Head(readyList), [status EXCEPT ![currentThread] = "READY"],
         Tail(readyList), threadToBeDestroyed)

YieldBodyPrepending ==
  \/ /\ readyList # <<>>
     /\ cont' = [cont EXCEPT ![currentThread] = InYield]
     /\ Run(Head(readyList), [status EXCEPT ![currentThread] = "READY"],
            <<currentThread>> \o Tail(readyList), threadToBeDestroyed)
  \/ /\ readyList = <<>>
     /\ mode' = "tick"
     /\ UNCHANGED threadVars

(* The body of Thread::Yield: the next thread is taken off the ready list  *)
(* before the current one is appended to it.  With nobody ready it only    *)
(* disables and re-enables interrupts, which is a tick.                    *)
YieldBody ==
  \/ /\ readyList # <<>>
     /\ cont' = [cont EXCEPT ![currentThread] = InYield]
     /\ Run(Head(readyList), [status EXCEPT ![currentThread] = "READY"],
            Append(Tail(readyList), currentThread), threadToBeDestroyed)
  \/ /\ readyList = <<>>
     /\ mode' = "tick"
     /\ UNCHANGED threadVars

(* Faulty variant of V: a waiter is woken only when the value was zero.    *)
VBodyFromZero(s) ==
  LET wake == queue[s] # <<>> /\ value[s] = 0 IN
  /\ value' = [value EXCEPT ![s] = @ + 1]
  /\ status' = IF wake THEN [status EXCEPT ![Head(queue[s])] = "READY"] ELSE status
  /\ readyList' = IF wake THEN Append(readyList, Head(queue[s])) ELSE readyList
  /\ queue' = IF wake THEN [queue EXCEPT ![s] = Tail(@)] ELSE queue
  /\ UNCHANGED <<cont, currentThread, threadToBeDestroyed>>

(* The body of Semaphore::V: wake the first waiter, which will test the    *)
(* value again when it runs, and increment the value.                      *)
VBody(s) ==
  /\ value' = [value EXCEPT ![s] = @ + 1]
  /\ \/ /\ queue[s] # <<>>
        /\ status' = [status EXCEPT ![Head(queue[s])] = "READY"]
        /\ readyList' = Append(readyList, Head(queue[s]))
        /\ queue' = [queue EXCEPT ![s] = Tail(@)]
     \/ /\ queue[s] = <<>>
        /\ UNCHANGED <<status, readyList, queue>>
  /\ UNCHANGED <<cont, currentThread, threadToBeDestroyed>>
-----------------------------------------------------------------------------
(* What the current thread may do while it executes its own code.          *)

(* Thread::Fork of a thread that has been created.                         *)
Fork(t) ==
  /\ mode = "run"
  /\ status[t] = "NEW"
  /\ status' = [status EXCEPT ![t] = "READY"]
  /\ readyList' = Append(readyList, t)
  /\ mode' = "tick"
  /\ UNCHANGED <<cont, currentThread, threadToBeDestroyed, semVars, pending,
                 yieldOnReturn>>

(* The current thread is at the test of P's loop: it has just called P, or *)
(* it has been switched back to after the Sleep in the loop.               *)
AtPTest(s) ==
  \/ mode = "run"
  \/ mode = "P" /\ cont[currentThread] = s

(* Faulty variant of P: the value is not tested again after Sleep.         *)
PTakeUntested(s) ==
  /\ AtPTest(s)
  /\ value[s] # 0 \/ mode = "P"
  /\ value' = [value EXCEPT ![s] = @ - 1]
  /\ mode' = "tick"
  /\ UNCHANGED <<threadVars, queue, pending, yieldOnReturn>>

(* Semaphore::P finds the value positive and consumes it.                  *)
PTake(s) ==
  /\ AtPTest(s)
  /\ value[s] # 0
  /\ value' = [value EXCEPT ![s] = @ - 1]
  /\ mode' = "tick"
  /\ UNCHANGED <<threadVars, queue, pending, yieldOnReturn>>

(* Semaphore::P finds the value zero and sleeps.                           *)
PSleep(s) ==
  /\ AtPTest(s)
  /\ value[s] = 0
  /\ queue' = [queue EXCEPT ![s] = Append(@, currentThread)]
  /\ Sleep(s, threadToBeDestroyed)
  /\ UNCHANGED <<value, pending, yieldOnReturn>>

(* Semaphore::V called by the current thread.                              *)
V(s) ==
  /\ mode = "run"
  /\ value[s] + pending[s] < MaxValue
  /\ VBody(s)
  /\ mode' = "tick"
  /\ UNCHANGED <<pending, yieldOnReturn>>

(* A device driver starts an operation: Interrupt::Schedule.               *)
StartIO(s) ==
  /\ mode = "run"
  /\ value[s] + pending[s] < MaxValue
  /\ pending' = [pending EXCEPT ![s] = @ + 1]
  /\ UNCHANGED <<threadVars, semVars, yieldOnReturn, mode>>

(* Thread::Yield called by the current thread.                             *)
Yield ==
  /\ mode = "run"
  /\ YieldBody
  /\ UNCHANGED <<semVars, pending, yieldOnReturn>>

(* Machine::Run executes one user instruction and then calls OneTick.      *)
UserInstruction ==
  /\ mode = "run"
  /\ mode' = "tick"
  /\ UNCHANGED <<threadVars, semVars, pending, yieldOnReturn>>

(* Faulty variant of Finish: the thread stays ready instead of blocking.   *)
FinishReady ==
  /\ mode = "run"
  /\ readyList # <<>>
  /\ cont' = [cont EXCEPT ![currentThread] = InFinish]
  /\ Run(Head(readyList), [status EXCEPT ![currentThread] = "READY"],
         Append(Tail(readyList), currentThread), currentThread)
  /\ UNCHANGED <<semVars, pending, yieldOnReturn>>

(* Thread::Finish.                                                         *)
Finish ==
  /\ mode = "run"
  /\ Sleep(InFinish, currentThread)
  /\ UNCHANGED <<semVars, pending, yieldOnReturn>>

(* scheduler->Run(currentThread), which a new user process calls in        *)
(* StartProcess_2: SWITCH to itself, then the end of Run.                  *)
RunSelf ==
  /\ mode = "run"
  /\ status' = DeleteCarcass(status, threadToBeDestroyed)
  /\ threadToBeDestroyed' = NoThread
  /\ UNCHANGED <<cont, currentThread, readyList, semVars, pending,
                 yieldOnReturn, mode>>

(* Interrupt::Halt called by a thread (the Halt system call).              *)
Halt ==
  /\ mode = "run"
  /\ mode' = "halt"
  /\ UNCHANGED <<threadVars, semVars, pending, yieldOnReturn>>
-----------------------------------------------------------------------------
(* Interrupt::OneTick: the handlers of the interrupts that are due, then   *)
(* the yield that the timer's handler asked for.                           *)

(* CheckIfDue fires a device interrupt, whose handler V's the semaphore of *)
(* the driver.                                                             *)
FireDevice(s) ==
  /\ mode = "tick"
  /\ pending[s] > 0
  /\ pending' = [pending EXCEPT ![s] = @ - 1]
  /\ VBody(s)
  /\ UNCHANGED <<yieldOnReturn, mode>>

(* CheckIfDue fires the timer: TimerExpired, TimerInterruptHandler.        *)
FireTimer ==
  /\ TimerOn
  /\ mode = "tick"
  /\ yieldOnReturn' = TRUE
  /\ UNCHANGED <<threadVars, semVars, pending, mode>>

(* Nothing is due any more, and the timer asked for no context switch.     *)
EndTick ==
  /\ mode = "tick"
  /\ ~yieldOnReturn
  /\ mode' = "run"
  /\ UNCHANGED <<threadVars, semVars, pending, yieldOnReturn>>

(* Nothing is due any more, and the timer asked for a context switch.      *)
TickYield ==
  /\ mode = "tick"
  /\ yieldOnReturn
  /\ yieldOnReturn' = FALSE
  /\ YieldBody
  /\ UNCHANGED <<semVars, pending>>
-----------------------------------------------------------------------------
(* Interrupt::Idle, called from Sleep until a thread becomes ready.        *)

(* CheckIfDue fires a device interrupt.                                    *)
IdleDevice(s) ==
  /\ mode = "idle"
  /\ pending[s] > 0
  /\ pending' = [pending EXCEPT ![s] = @ - 1]
  /\ VBody(s)
  /\ UNCHANGED <<yieldOnReturn, mode>>

(* CheckIfDue fires the timer, unless it is the only pending interrupt.    *)
IdleTimer ==
  /\ TimerOn
  /\ mode = "idle"
  /\ \E s \in Sem : pending[s] > 0
  /\ yieldOnReturn' = TRUE
  /\ UNCHANGED <<threadVars, semVars, pending, mode>>

(* Idle returns to Sleep, which runs the thread that has become ready.     *)
IdleReturn ==
  /\ mode = "idle"
  /\ readyList # <<>>
  /\ yieldOnReturn' = FALSE
  /\ Run(Head(readyList), status, Tail(readyList), threadToBeDestroyed)
  /\ UNCHANGED <<cont, semVars, pending>>

(* Idle finds nothing that could ever make a thread ready: Halt.           *)
IdleHalt ==
  /\ mode = "idle"
  /\ readyList = <<>>
  /\ \A s \in Sem : pending[s] = 0
  /\ mode' = "halt"
  /\ UNCHANGED <<threadVars, semVars, pending, yieldOnReturn>>
-----------------------------------------------------------------------------
ThreadStep ==
  \/ \E t \in Thread : Fork(t)
  \/ \E s \in Sem : PTake(s) \/ PSleep(s) \/ V(s)
  \/ \E s \in Device : StartIO(s)
  \/ Yield \/ UserInstruction \/ Finish \/ RunSelf \/ Halt

InterruptStep ==
  \/ \E s \in Device : FireDevice(s) \/ IdleDevice(s)
  \/ FireTimer \/ EndTick \/ TickYield
  \/ IdleTimer \/ IdleReturn \/ IdleHalt

Next == ThreadStep \/ InterruptStep

Spec == Init /\ [][Next]_vars

(***************************************************************************)
(* Fairness.  The simulator never stops between two steps.  With -rs the   *)
(* timer re-schedules itself whenever it fires and every tick advances the *)
(* clock, so ticks cannot go on for ever without a timer interrupt.        *)
(***************************************************************************)
FairSpec == Spec /\ WF_vars(Next) /\ SF_vars(FireTimer)
-----------------------------------------------------------------------------
(* Properties.                                                             *)

Occurs(list, t) == \E i \in DOMAIN list : list[i] = t

Distinct(list) == \A i, j \in DOMAIN list : list[i] = list[j] => i = j

TypeOK ==
  /\ status \in [Thread -> ThreadStatus]
  /\ cont \in [Thread -> Cont]
  /\ currentThread \in Thread
  /\ threadToBeDestroyed \in Thread \cup {NoThread}
  /\ readyList \in Seq(Thread)
  /\ value \in [Sem -> Nat]
  /\ queue \in [Sem -> Seq(Thread)]
  /\ pending \in [Sem -> Nat]
  /\ yieldOnReturn \in BOOLEAN
  /\ mode \in Mode

(* Only the current thread is RUNNING, and it is RUNNING unless it is      *)
(* waiting in Sleep for somebody to become ready (the idle loop runs in    *)
(* its context) or the machine stopped there.                              *)
RunningIsCurrent ==
  /\ \A t \in Thread : status[t] = "RUNNING" => t = currentThread
  /\ mode \in {"run", "tick", "P"} => status[currentThread] = "RUNNING"
  /\ mode = "idle" => status[currentThread] \in {"BLOCKED", "READY"}

(* The READY threads are exactly those on the ready list, each once.       *)
ReadyListExact ==
  /\ \A t \in Thread : status[t] = "READY" <=> Occurs(readyList, t)
  /\ Distinct(readyList)

(* A BLOCKED thread is on the queue of the semaphore it will test again,   *)
(* once and on no other queue, or it has finished.                         *)
QueuesExact ==
  /\ \A s \in Sem, t \in Thread :
       Occurs(queue[s], t) <=> status[t] = "BLOCKED" /\ cont[t] = s
  /\ \A s \in Sem : Distinct(queue[s])

(* No thread is ever lost or duplicated: each is in exactly one place.     *)
ThreadPlacement == RunningIsCurrent /\ ReadyListExact /\ QueuesExact

(* The threads that V has taken off the queue of s and that have not yet   *)
(* tested the value again.                                                 *)
Woken(s) ==
  {t \in Thread : /\ cont[t] = s
                  /\ status[t] = "READY" \/ (t = currentThread /\ mode = "P")}

(* No wake-up is lost although V does not hand the value to the thread it  *)
(* wakes (synch.cc: queue->Remove, value++) and others may take it first:  *)
(* while threads sleep on s, every unit of its value has a woken thread on *)
(* its way to take it, so a V is never left behind beside a sleeper.       *)
NoLostWakeup ==
  \A s \in Sem : queue[s] # <<>> => value[s] <= Cardinality(Woken(s))

(* What Run deletes is the carcass of a finished thread, and never, as the *)
(* ASSERT in ~Thread demands, the thread that holds the CPU (its stack is  *)
(* in use): threadToBeDestroyed has finished, was not deleted before, can  *)
(* never run again, and is not the thread being executed.                  *)
CarcassSafe ==
  \A t \in Thread : threadToBeDestroyed = t =>
    /\ status[t] = "BLOCKED" /\ cont[t] = InFinish
    /\ mode \in {"run", "tick", "P"} => t # currentThread

(* A thread that has finished stays finished: whatever the interleaving,   *)
(* no step makes it ready again, and only Run deletes it, never twice.     *)
FinishIsFinal ==
  [][\A t \in Thread :
       /\ status[t] = "BLOCKED" /\ cont[t] = InFinish
            => status'[t] \in {"BLOCKED", "DELETED"} /\ cont'[t] = InFinish
       /\ status[t] = "DELETED" => status'[t] = "DELETED" /\ threadToBeDestroyed' # t]_vars

(* With time slicing no ready thread starves (Yield's comment: "it will    *)
(* eventually be re-scheduled"), whatever the other threads do, unless one *)
(* of them halts the machine.                                              *)
ReadyRuns ==
  \A t \in Thread : status[t] = "READY" ~> status[t] = "RUNNING" \/ mode = "halt"
=============================================================================
