------------------------------- MODULE PTable -------------------------------
(***************************************************************************)
(* The process table: PTable (threads/ptable.cc), PCB (threads/pcb.cc) and *)
(* the system calls Exec, Join and Exit (userprog/exception.cc).           *)
(*                                                                         *)
(* User programs are arbitrary: a process in user mode may make any of the *)
(* three calls with any argument, within the rules of the setting.         *)
(* A system call is cut at the points where simulated time advances inside *)
(* it, the end of every P, V and Fork: only there can the CPU be taken     *)
(* away.  P and V of the semaphores bmsem, joinsem and exitsem are a wait  *)
(* for a positive value and an increment (see module Threads for how they  *)
(* are built); the mutex of a PCB is never contended, because a PCB's Exec *)
(* is called once, by its creator, and counts only as a point where time   *)
(* advances.  numwait is written and never read, and is left out.  A call  *)
(* that returns -1 before it changes anything is no step of the model.     *)
(***************************************************************************)
EXTENDS Integers, FiniteSets

CONSTANTS
  Thread,      \* thread objects; bound: how many processes are ever started
  MainThread,  \* the thread of the first program, slot 0 of the table
  NoThread,    \* the NULL Thread pointer
  NoPCB,       \* the NULL PCB pointer
  MaxProcess,  \* MAXPROCESS, the number of slots
  MainName,    \* the name of the main thread
  Program,     \* the names of the files that can be opened and executed
  ExitCode,    \* the arguments of Exit
  Garbage,     \* what the uninitialised PCB::pid may hold
  Settings     \* the settings to consider, one of which Init chooses, see below

(***************************************************************************)
(* A setting says whether the kernel was started with -rs (time slicing),  *)
(* which rules the user programs keep to, and bounds the threads and the   *)
(* programs.  Rules that user programs may follow:                         *)
(*   "uniqueNames"    no program is executed twice at the same time;       *)
(*   "joinBeforeExit" a process exits only when all its children are gone; *)
(*   "oneChild"       a process has one child at a time;                   *)
(*   "joinOnce"       a process joins each of its children once.           *)
(***************************************************************************)
Rules == {"uniqueNames", "joinBeforeExit", "oneChild", "joinOnce"}

Setting ==
  [preemptive : BOOLEAN, rules : SUBSET Rules, threads : SUBSET Thread, programs : SUBSET Program]

PCBType ==
  [thread : Thread \cup {NoThread}, pid : Int, parentID : Int, joinsem : Nat,
   exitsem : Nat, exitcode : Int]

ASSUME PTableAssumption ==
  /\ MainThread \in Thread
  /\ NoThread \notin Thread /\ NoPCB \notin PCBType
  /\ MaxProcess \in Nat \ {0}
  /\ ExitCode \subseteq Int
  /\ Garbage \subseteq Int /\ Garbage # {}
  /\ Settings \subseteq Setting

Slot == 0 .. MaxProcess - 1

VARIABLES
  setting,   \* which of the Settings this is
  pc,        \* where each thread is in its system call
  name,      \* Thread::name
  loc,       \* the local variables of each thread's system call
  pcb,       \* PTable::pcb
  bm,        \* PTable::bm, the set of marked bits
  bmsem,     \* the value of PTable::bmsem
  cpu,       \* currentThread
  machine    \* "on", "halted", or what went wrong

vars == <<setting, pc, name, loc, pcb, bm, bmsem, cpu, machine>>

PC == {"new", "user", "exec_P", "exec_check", "exec_fork", "exec_setpid",
       "exec_V", "join_P", "join_read", "exit_P", "exit_remove", "done"}

(* The ways in which the kernel can go wrong: it dereferences NULL or an   *)
(* index outside the table, reads a Thread that has finished and is        *)
(* deleted, or deletes a semaphore on which a thread sleeps.               *)
Fault == {"bad_pointer", "dangling_thread", "deleted_semaphore"}

NewPCB(parent, t, p) ==
  [thread |-> t, pid |-> p, parentID |-> parent, joinsem |-> 0, exitsem |-> 0,
   exitcode |-> 0]

NoLocals == [name |-> MainName, pid |-> -1, id |-> -1, ec |-> 0]

(* The constructor of PTable, and the first user program running in main.  *)
Init ==
  /\ setting \in Settings
  /\ pc = [t \in Thread |-> IF t = MainThread THEN "user" ELSE "new"]
  /\ name = [t \in Thread |-> MainName]
  /\ loc = [t \in Thread |-> NoLocals]
  /\ pcb = [i \in Slot |-> IF i = 0 THEN NewPCB(-1, MainThread, 0) ELSE NoPCB]
  /\ bm = {0}
  /\ bmsem = 1
  /\ cpu = MainThread
  /\ machine = "on"
-----------------------------------------------------------------------------
Used == {i \in Slot : pcb[i] # NoPCB}

Greatest(S) == CHOOSE i \in S : \A j \in S : j <= i

Least(S) == CHOOSE i \in S : \A j \in S : i <= j

(* The loop of ExecUpdate, ExitUpdate and JoinUpdate that looks the current*)
(* thread up by name calls GetFileName of every PCB: it reads the Thread   *)
(* that each of them points to.                                            *)
ScanFault ==
  IF \E i \in Used : pcb[i].thread = NoThread THEN "bad_pointer"
  ELSE IF \E i \in Used : pc[pcb[i].thread] = "done" THEN "dangling_thread"
  ELSE "none"

(* The index this loop ends with: the last slot whose name is t's, or -1.  *)
LookUp(t) ==
  LET matching == {i \in Used : name[pcb[i].thread] = name[t]} IN
  IF matching = {} THEN -1 ELSE Greatest(matching)

(* The pid found there, which ExecUpdate and JoinUpdate call currentID.    *)
CurrentID(t) == IF LookUp(t) = -1 THEN -1 ELSE pcb[LookUp(t)].pid

(* Is i an index at which pcb[i]-> is a PCB?                               *)
Valid(i) == i \in Used

(* t is at a P of a semaphore whose value is zero.                         *)
Blocked(t) ==
  \/ pc[t] = "exec_P" /\ bmsem = 0
  \/ pc[t] = "join_P" /\ pcb[loc[t].pid].joinsem = 0
  \/ pc[t] = "exit_P" /\ pcb[loc[t].id].exitsem = 0

(* The system stops at a fault: the kernel's behaviour is undefined.       *)
Crash(what) ==
  /\ machine' = what
  /\ UNCHANGED <<setting, pc, name, loc, pcb, bm, bmsem, cpu>>

Running(t, at) == machine = "on" /\ cpu = t /\ pc[t] = at

GoTo(t, at) == pc' = [pc EXCEPT ![t] = at]
-----------------------------------------------------------------------------
(* Exec.                                                                   *)

(* t's children: the processes whose PCB names t's slot as their parent.   *)
Children(t) ==
  {i \in Used : \E p \in Used : pcb[p].thread = t /\ pcb[i].parentID = p}

ExecAllowed(t, n) ==
  /\ "uniqueNames" \in setting.rules => \A u \in Thread :
        /\ pc[u] \notin {"new", "done"} => name[u] # n
        /\ pc[u] \in {"exec_P", "exec_check", "exec_fork"} => loc[u].name # n
  /\ "oneChild" \in setting.rules => Children(t) = {}

(* Bound: there is a thread object left.                                   *)
ThreadLeft == \E u \in setting.threads : pc[u] = "new"

(* SC_Exec of a file that can be opened enters ExecUpdate.                 *)
CallExec(t, n) ==
  /\ Running(t, "user")
  /\ ThreadLeft
  /\ n \in setting.programs
  /\ ExecAllowed(t, n)
  /\ loc' = [loc EXCEPT ![t].name = n]
  /\ GoTo(t, "exec_P")
  /\ UNCHANGED <<setting, name, pcb, bm, bmsem, cpu, machine>>

(* bmsem->P().                                                             *)
ExecP(t) ==
  /\ Running(t, "exec_P")
  /\ bmsem > 0
  /\ bmsem' = bmsem - 1
  /\ GoTo(t, "exec_check")
  /\ UNCHANGED <<setting, name, loc, pcb, bm, cpu, machine>>

(* Faulty variant of ExecUpdate: it returns -1 without bmsem->V().         *)
ExecRefusedHolding(t) ==
  /\ Running(t, "exec_check")
  /\ loc[t].name = name[t] \/ Slot \subseteq bm
  /\ GoTo(t, "user")
  /\ UNCHANGED <<setting, name, loc, pcb, bm, bmsem, cpu, machine>>

(* The program has the caller's name, the table is full, or the caller is  *)
(* not in it.  Find marks the bit that it returns, and the last of these   *)
(* three returns does not clear it.                                        *)
ExecRefused(t) ==
  /\ Running(t, "exec_check")
  /\ \/ /\ loc[t].name = name[t] \/ Slot \subseteq bm
        /\ UNCHANGED bm
     \/ /\ loc[t].name # name[t] /\ ~(Slot \subseteq bm)
        /\ ScanFault = "none"
        /\ CurrentID(t) = -1
        /\ bm' = bm \cup {Least(Slot \ bm)}
  /\ bmsem' = bmsem + 1
  /\ GoTo(t, "user")
  /\ UNCHANGED <<setting, name, loc, pcb, cpu, machine>>

(* A new PCB with no thread and no pid yet, up to the P of its mutex.      *)
ExecCreate(t) ==
  /\ Running(t, "exec_check")
  /\ loc[t].name # name[t]
  /\ ~(Slot \subseteq bm)
  /\ \/ ScanFault # "none" /\ Crash(ScanFault)
     \/ /\ ScanFault = "none"
        /\ CurrentID(t) # -1
        /\ LET pid == Least(Slot \ bm) IN
           /\ \E g \in Garbage :
                pcb' = [pcb EXCEPT ![pid] = NewPCB(CurrentID(t), NoThread, g)]
           /\ bm' = bm \cup {pid}
           /\ loc' = [loc EXCEPT ![t].pid = pid]
        /\ GoTo(t, "exec_fork")
        /\ UNCHANGED <<setting, name, bmsem, cpu, machine>>

(* The object that `new Thread' makes: one that has not been used, which   *)
(* one makes no difference.                                                *)
NewThread == CHOOSE u \in setting.threads : pc[u] = "new"

(* thread = new Thread(filename); thread->Fork(StartProcess_2): from here  *)
(* on the new process may run.                                             *)
ExecFork(t) ==
  /\ Running(t, "exec_fork")
  /\ ThreadLeft
  /\ pcb' = [pcb EXCEPT ![loc[t].pid].thread = NewThread]
  /\ name' = [name EXCEPT ![NewThread] = loc[t].name]
  /\ pc' = [pc EXCEPT ![t] = "exec_setpid", ![NewThread] = "user"]
  /\ UNCHANGED <<setting, loc, bm, bmsem, cpu, machine>>

(* Faulty variant of PCB::Exec: the member pid is not assigned.            *)
ExecSetPidForgotten(t) ==
  /\ Running(t, "exec_setpid")
  /\ GoTo(t, "exec_V")
  /\ UNCHANGED <<setting, name, loc, pcb, bm, bmsem, cpu, machine>>

(* this->pid = pid; mutex->V().  The PCB may have been removed meanwhile.  *)
ExecSetPid(t) ==
  /\ Running(t, "exec_setpid")
  /\ \/ ~Valid(loc[t].pid) /\ Crash("bad_pointer")
     \/ /\ Valid(loc[t].pid)
        /\ pcb' = [pcb EXCEPT ![loc[t].pid].pid = loc[t].pid]
        /\ GoTo(t, "exec_V")
        /\ UNCHANGED <<setting, name, loc, bm, bmsem, cpu, machine>>

(* Faulty variant of ExecUpdate: the last bmsem->V() is missing.           *)
ExecVForgotten(t) ==
  /\ Running(t, "exec_V")
  /\ GoTo(t, "user")
  /\ UNCHANGED <<setting, name, loc, pcb, bm, bmsem, cpu, machine>>

(* bmsem->V(), and the system call returns the pid.                        *)
ExecV(t) ==
  /\ Running(t, "exec_V")
  /\ bmsem' = bmsem + 1
  /\ GoTo(t, "user")
  /\ UNCHANGED <<setting, name, loc, pcb, bm, cpu, machine>>
-----------------------------------------------------------------------------
(* Join.                                                                   *)

(* A child that has been joined was released, or is past its ExitWait.     *)
JoinAllowed(id) ==
  "joinOnce" \in setting.rules /\ Valid(id) =>
    pcb[id].exitsem = 0 /\ \A u \in Thread : pcb[id].thread = u => pc[u] # "exit_remove"

(* JoinUpdate up to JoinWait: only a child of the caller can be joined.    *)
(* The pid of the caller's PCB, which is the one it waits on, goes to pid. *)
CallJoin(t, id) ==
  /\ Running(t, "user")
  /\ JoinAllowed(id)
  /\ \/ ScanFault # "none" /\ Crash(ScanFault)
     \/ /\ ScanFault = "none"
        /\ Valid(id)
        /\ pcb[id].parentID = CurrentID(t)
        /\ \/ ~Valid(CurrentID(t)) /\ Crash("bad_pointer")
           \/ /\ Valid(CurrentID(t))
              /\ loc' = [loc EXCEPT ![t].id = id, ![t].pid = CurrentID(t)]
              /\ GoTo(t, "join_P")
              /\ UNCHANGED <<setting, name, pcb, bm, bmsem, cpu, machine>>

(* JoinWait: the P of the caller's own joinsem.                            *)
JoinWait(t) ==
  LET me == loc[t].pid IN
  /\ Running(t, "join_P")
  /\ pcb[me].joinsem > 0
  /\ pcb' = [pcb EXCEPT ![me].joinsem = @ - 1]
  /\ GoTo(t, "join_read")
  /\ UNCHANGED <<setting, name, loc, bm, bmsem, cpu, machine>>

(* The exit code is read and ExitRelease lets the child go.                *)
JoinRead(t) ==
  /\ Running(t, "join_read")
  /\ \/ /\ ~Valid(loc[t].id) \/ ~Valid(loc[t].pid)
        /\ Crash("bad_pointer")
     \/ /\ Valid(loc[t].id) /\ Valid(loc[t].pid)
        /\ pcb' = [pcb EXCEPT ![loc[t].id].exitsem = @ + 1]
        /\ GoTo(t, "user")
        /\ UNCHANGED <<setting, name, loc, bm, bmsem, cpu, machine>>
-----------------------------------------------------------------------------
(* Exit.                                                                   *)

ExitAllowed(t) == "joinBeforeExit" \in setting.rules => Children(t) = {}

(* Faulty variant of ExitUpdate: SetExitCode is not called.                *)
CallExitCodeless(t, ec) ==
  LET index == LookUp(t)
      parentid == pcb[index].parentID IN
  /\ Running(t, "user")
  /\ ExitAllowed(t)
  /\ ScanFault = "none"
  /\ index # -1 /\ pcb[index].pid # 0 /\ Valid(parentid)
  /\ pcb' = [pcb EXCEPT ![parentid].joinsem = @ + 1]
  /\ loc' = [loc EXCEPT ![t].id = index, ![t].pid = pcb[index].pid, ![t].ec = ec]
  /\ GoTo(t, "exit_P")
  /\ UNCHANGED <<setting, name, bm, bmsem, cpu, machine>>

(* ExitUpdate up to ExitWait.  The first process halts the machine; any    *)
(* other one stores its exit code and releases its parent.  A thread that  *)
(* is not in the table goes on in user mode.                               *)
CallExit(t, ec) ==
  LET index == LookUp(t)
      parentid == pcb[index].parentID IN
  /\ Running(t, "user")
  /\ ExitAllowed(t)
  /\ \/ ScanFault # "none" /\ Crash(ScanFault)
     \/ /\ ScanFault = "none"
        /\ index # -1
        /\ \/ pcb[index].pid = 0 /\ Crash("halted")
           \/ /\ pcb[index].pid # 0
              /\ ~Valid(parentid)
              /\ Crash("bad_pointer")
           \/ /\ pcb[index].pid # 0
              /\ Valid(parentid)
              /\ pcb' = [pcb EXCEPT ![index].exitcode = ec,
                                    ![parentid].joinsem = @ + 1]
              /\ loc' = [loc EXCEPT ![t].id = index,
                                    ![t].pid = pcb[index].pid, ![t].ec = ec]
              /\ GoTo(t, "exit_P")
              /\ UNCHANGED <<setting, name, bm, bmsem, cpu, machine>>

(* ExitWait: the P of the exitsem of the PCB that was found.               *)
ExitWait(t) ==
  LET index == loc[t].id IN
  /\ Running(t, "exit_P")
  /\ pcb[index].exitsem > 0
  /\ pcb' = [pcb EXCEPT ![index].exitsem = @ - 1]
  /\ GoTo(t, "exit_remove")
  /\ UNCHANGED <<setting, name, loc, bm, bmsem, cpu, machine>>

(* A thread other than t is in P of a semaphore of the PCB in slot i, or   *)
(* about to call it.                                                       *)
SleeperOn(i, t) ==
  \E u \in Thread \ {t} : \/ pc[u] = "join_P" /\ loc[u].pid = i
                          \/ pc[u] = "exit_P" /\ loc[u].id = i

(* Faulty variant of Remove: pcb[pid] is not set to NULL.                  *)
ExitRemoveDangling(t) ==
  /\ Running(t, "exit_remove")
  /\ bm' = bm \ {loc[t].pid}
  /\ GoTo(t, "done")
  /\ UNCHANGED <<setting, name, loc, pcb, bmsem, cpu, machine>>

(* Remove(pid), which ignores a pid that is no process, and Finish.  ~PCB  *)
(* deletes the semaphores and reads thread->space.                         *)
ExitRemove(t) ==
  LET pid == loc[t].pid IN
  /\ Running(t, "exit_remove")
  /\ \/ /\ Valid(pid) /\ pcb[pid].thread = NoThread
        /\ Crash("bad_pointer")
     \/ /\ Valid(pid) /\ pcb[pid].thread # NoThread
        /\ pc[pcb[pid].thread] = "done"
        /\ Crash("dangling_thread")
     \/ /\ Valid(pid) /\ pcb[pid].thread # NoThread
        /\ pc[pcb[pid].thread] # "done"
        /\ SleeperOn(pid, t)
        /\ Crash("deleted_semaphore")
     \/ /\ \/ ~Valid(pid) /\ UNCHANGED <<pcb, bm>>
           \/ /\ Valid(pid) /\ pcb[pid].thread # NoThread
              /\ pc[pcb[pid].thread] # "done"
              /\ ~SleeperOn(pid, t)
              /\ pcb' = [pcb EXCEPT ![pid] = NoPCB]
              /\ bm' = bm \ {pid}
        /\ GoTo(t, "done")
        /\ UNCHANGED <<setting, name, loc, bmsem, cpu, machine>>
-----------------------------------------------------------------------------
(* The CPU goes from the current thread to t.  A thread gives it up when   *)
(* it blocks, when it has finished, when its program blocks or yields for  *)
(* other reasons (console I/O), and, with time slicing, at any point where *)
(* simulated time advances: no time passes between the call of Exec or     *)
(* Join and the P it begins with.                                          *)
Dispatch(t) ==
  /\ machine = "on"
  /\ t # cpu
  /\ pc[t] \notin {"new", "done"} /\ ~Blocked(t)
  /\ \/ setting.preemptive /\ pc[cpu] \notin {"exec_P", "join_P"}
     \/ pc[cpu] \in {"user", "done"}
     \/ Blocked(cpu)
  /\ cpu' = t
  /\ UNCHANGED <<setting, pc, name, loc, pcb, bm, bmsem, machine>>

(* Every process waits for another one: the machine does nothing more for  *)
(* the programs.  Interrupt::Idle halts it when no interrupt is pending;   *)
(* once a SynchConsole is there its polls always are, and it idles for     *)
(* ever.  Either way no process takes another step.                        *)
IdleHalt ==
  /\ machine = "on"
  /\ \A t \in Thread : pc[t] \in {"new", "done"} \/ Blocked(t)
  /\ Crash("idle")

(* A machine that has stopped stays stopped.                               *)
Stopped == machine # "on" /\ UNCHANGED vars

Next ==
  \/ \E t \in Thread :
       \/ \E n \in Program : CallExec(t, n)
       \/ ExecP(t) \/ ExecRefused(t) \/ ExecCreate(t) \/ ExecFork(t)
       \/ ExecSetPid(t) \/ ExecV(t)
       \/ \E id \in Slot : CallJoin(t, id)
       \/ JoinWait(t) \/ JoinRead(t)
       \/ \E ec \in ExitCode : CallExit(t, ec)
       \/ ExitWait(t) \/ ExitRemove(t)
       \/ Dispatch(t)
  \/ IdleHalt \/ Stopped

Spec == Init /\ [][Next]_vars

(***************************************************************************)
(* Fairness: a thread that has the CPU executes its system call to the     *)
(* end, and with time slicing a thread that is ready keeps being given the *)
(* CPU (ReadyRuns of module Threads).  User programs owe nothing.          *)
(***************************************************************************)
KernelStep(t) ==
  \/ ExecP(t) \/ ExecRefused(t) \/ ExecCreate(t) \/ ExecFork(t)
  \/ ExecSetPid(t) \/ ExecV(t) \/ JoinWait(t) \/ JoinRead(t)
  \/ ExitWait(t) \/ ExitRemove(t)

FairSpec ==
  Spec /\ \A t \in Thread : SF_vars(KernelStep(t)) /\ SF_vars(setting.preemptive /\ Dispatch(t))
-----------------------------------------------------------------------------
(* Properties.                                                             *)

TypeOK ==
  /\ setting \in Settings
  /\ pc \in [Thread -> PC]
  /\ name \in [Thread -> Program \cup {MainName}]
  /\ loc \in [Thread -> [name : Program \cup {MainName}, pid : Int, id : Int, ec : Int]]
  /\ pcb \in [Slot -> PCBType \cup {NoPCB}]
  /\ bm \subseteq Slot
  /\ bmsem \in Nat
  /\ cpu \in Thread
  /\ machine \in {"on", "halted", "idle"} \cup Fault

(* Without time slicing, and with programs that keep to the four rules.    *)
Calm == ~setting.preemptive /\ setting.rules = Rules

InExec(t) == pc[t] \in {"exec_check", "exec_fork", "exec_setpid", "exec_V"}

(* bmsem serialises ExecUpdate, on every path through it: it is free       *)
(* exactly when no thread is between its P and its V, and two never are.   *)
ExecExclusive ==
  /\ \A t, u \in Thread : InExec(t) /\ InExec(u) => t = u
  /\ bmsem = IF \E t \in Thread : InExec(t) THEN 0 ELSE 1

(* Although Remove does not take bmsem, a slot that holds a PCB is marked  *)
(* in bm, so ExecUpdate never overwrites a PCB; and the slot an Exec has   *)
(* marked but not completed is still its own.                              *)
SlotsMarked ==
  /\ Used \subseteq bm
  /\ \A t \in Thread : pc[t] = "exec_fork" => Valid(loc[t].pid) /\ pcb[loc[t].pid].thread = NoThread

(* When Calm, the kernel never dereferences NULL or a deleted thread and   *)
(* never deletes a semaphore in use, and JoinWait and ExitWait never leave *)
(* all processes waiting for each other.                                   *)
NoFault == Calm => machine \notin Fault \cup {"idle"}

(* When Calm, no slot leaks: a bit is marked only while a PCB uses it.     *)
SlotsExact == Calm => bm = Used

(* When Calm and JoinUpdate comes back from JoinWait, the child it waits   *)
(* for, and no other one, has called Exit, and the code Join is about to   *)
(* return is the one that child passed.                                    *)
JoinReturnsExitCode ==
  \A t \in Thread : Calm /\ pc[t] = "join_read" =>
    /\ Valid(loc[t].id)
    /\ LET child == pcb[loc[t].id].thread IN
       pc[child] = "exit_P" /\ loc[child].ec = pcb[loc[t].id].exitcode

(* When Calm, every process that has not finished has one PCB, and its     *)
(* parent is still there to be released when it exits.                     *)
FamilyTree ==
  \A t \in Thread : Calm /\ pc[t] \notin {"new", "done"} =>
    /\ Cardinality({i \in Used : pcb[i].thread = t}) = 1
    /\ \A i \in Used : pcb[i].thread = t /\ t # MainThread =>
         Valid(pcb[i].parentID) /\ pcb[pcb[i].parentID].thread \in Thread \ {t}

(* "int ExitUpdate(int ec); // return PID": the pid that ExitUpdate works  *)
(* with, and removes, is that of the calling process, when Calm.           *)
ExitKnowsPid ==
  \A t \in Thread : Calm /\ pc[t] \in {"exit_P", "exit_remove"} =>
    Valid(loc[t].pid) /\ pcb[loc[t].pid].thread = t

(* An exit code of 0 means the program succeeded: Join does not report 0   *)
(* for a child that has not exited with 0.                                 *)
JoinZeroMeansSuccess ==
  \A t \in Thread :
    pc[t] = "join_read" /\ Valid(loc[t].id) /\ pcb[loc[t].id].exitcode = 0 =>
      LET child == pcb[loc[t].id].thread IN pc[child] = "exit_P" /\ loc[child].ec = 0

(* With time slicing and the rules kept, a system call that need not wait  *)
(* for another process completes: Exec returns, Join of a child that has   *)
(* exited returns, and a process that was joined leaves the table; unless  *)
(* the machine stops.                                                      *)
SyscallsComplete ==
  \A t \in Thread : setting.preemptive /\ setting.rules = Rules =>
    /\ pc[t] = "exec_P" ~> pc[t] = "user" \/ machine # "on"
    /\ pc[t] = "join_P" /\ pcb[loc[t].pid].joinsem > 0
         ~> pc[t] = "user" \/ machine # "on"
    /\ pc[t] = "exit_P" /\ pcb[loc[t].id].exitsem > 0
         ~> pc[t] = "done" \/ machine # "on"

(* What holds whatever the programs do, with time slicing too: ExecUpdate  *)
(* is serialised, and no Exec takes a slot that another process still has. *)
TableInv == TypeOK /\ ExecExclusive /\ SlotsMarked

(* When Calm, the table says exactly which processes there are: no slot    *)
(* leaks, every process has one PCB with its pid, and a parent to be       *)
(* released when it exits.                                                 *)
TableExact == SlotsExact /\ FamilyTree /\ ExitKnowsPid
=============================================================================
