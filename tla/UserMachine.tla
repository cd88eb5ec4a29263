----------------------------- MODULE UserMachine -----------------------------
(***************************************************************************)
(* User programs of several threads on the one simulated processor:        *)
(* Machine::Run, the system calls' use of the registers (IncreasePC of     *)
(* userprog/exception.cc), and the context switch of the user state        *)
(* (Scheduler::Run with Thread::SaveUserState and RestoreUserState,        *)
(* AddrSpace::RestoreState), and what an interrupt does to the registers   *)
(* (Interrupt::OneTick and CheckIfDue).                                    *)
(*                                                                         *)
(* A program is any sequence of instruction words: the word at PC is       *)
(* chosen when it is fetched.  Beside the machine run, for each thread, a  *)
(* machine that executes this thread's program and nothing else, and, for  *)
(* each instruction, the interpreter of bin/execute.c (module Runprogram). *)
(***************************************************************************)
EXTENDS Runprogram, Functions

CONSTANTS
  Thread,         \* user threads, each with an address space of its own
  FirstThread,    \* the thread that is dispatched first
  PageTable,      \* the page table of each thread, as AddrSpace makes it
  Operand,        \* what r1 and r2 may hold at the start
  CoreWord,       \* instruction words that any step may execute
  LastWord,       \* words that only the first thread's last step executes
  MaxSteps,       \* bound: the instructions of each thread
  Result          \* what a system call may return

VARIABLES
  registers,      \* Machine::registers
  mainMemory,     \* Machine::mainMemory
  pageTable,      \* Machine::pageTable: the thread whose table it is
  userRegisters,  \* Thread::userRegisters of each thread
  currentThread,
  mode,           \* of each thread: in "user" mode, or in the "kernel" for a call
  stopped,        \* "no", or what stopped the machine
  alone,          \* for each thread, a machine that runs only its program, and
                  \* whether the program has kept to its load delay slots
  last            \* the last instruction, its product, and runprogram's result

vars == <<registers, mainMemory, pageTable, userRegisters, currentThread, mode,
          stopped, alone, last>>

PhysAddr == 0 .. NumPhysPages * PageSize - 1

VirtAddr(t) == 0 .. Len(PageTable[t]) * PageSize - 1

(* What t's address space holds, seen through its page table.              *)
Virtual(t, mem) ==
  [a \in VirtAddr(t) |-> mem[Translate(PageTable[t], a, 1, FALSE).physAddr]]

Contiguous(t) ==
  [k \in 1 .. Len(PageTable[t]) |-> [physicalPage |-> k - 1, valid |-> TRUE, readOnly |-> FALSE]]

InitialRegs(v1, v2) ==
  [r |-> [k \in Reg |-> CASE k = 1 -> v1 [] k = 2 -> v2 [] OTHER -> 0],
   Hi |-> 0, Lo |-> 0, PC |-> 0, NextPC |-> 4, LoadReg |-> 0, LoadValue |-> 0]

None == [op |-> "none"]

(* The programs have run for a while: r1 and r2 hold operands.             *)
Init ==
  /\ \E v1, v2 \in Operand :
       userRegisters = [t \in Thread |-> IF t = FirstThread THEN InitialRegs(v1, v2) ELSE InitialRegs(v2, 4)]
  /\ registers = userRegisters[FirstThread]
  /\ mainMemory = [a \in PhysAddr |-> (a + a \div 4) % Byte]
  /\ pageTable = FirstThread /\ currentThread = FirstThread
  /\ mode = [t \in Thread |-> "user"] /\ stopped = "no"
  /\ alone = [t \in Thread |-> [regs |-> userRegisters[t], mem |-> Virtual(t, mainMemory),
                              steps |-> 0, keeps |-> TRUE]]
  /\ last = None
-----------------------------------------------------------------------------
(* The registers once the delayed load has been delivered.                 *)
Settled(regs) == DelayedLoad(regs, <<0, 0>>)

(* The registers that instruction i reads or writes itself.  A system call *)
(* has its operands from the kernel, and LWL and LWR take that of rt from  *)
(* a load in flight.                                                       *)
Uses(i) ==
  CASE i.op \in {"J", "SYSCALL"} -> {}
    [] i.op = "JAL" -> {R31}
    [] i.op \in {"LWL", "LWR", "BLTZ", "BGEZ"} -> {i.rs}
    [] i.op \in {"BLTZAL", "BGEZAL"} -> {i.rs, R31}
    [] i.op \in Range(specialTable) -> {i.rs, i.rt, i.rd}
    [] OTHER -> {i.rs, i.rt}

(* The instruction after a load leaves the loaded register alone, as the   *)
(* architecture asks of programs.                                          *)
KeepsToSlot(i, regs) == regs.LoadReg = 0 \/ regs.LoadReg \notin Uses(i)

(* The product of a multiplication, as the architecture defines it.        *)
Product(i, a, b) ==
  IF i.op = "MULT" THEN a * b
  ELSE IF i.op = "MULTU" THEN Unsigned(a) * Unsigned(b) ELSE 0

(* ExceptionHandler: what stops the machine.  Every exception other than a *)
(* system call fails an ASSERT there, if one in Machine or the host's      *)
(* divide instruction has not stopped it already.                          *)
ExceptionHandler(trap) == IF trap \in {"none", "Syscall"} THEN "no" ELSE trap

(* One turn of the loop of Machine::Run.                                   *)
Instruction(w) ==
  LET t == currentThread
      o == OneInstruction(registers, mainMemory, PageTable[pageTable], w)
      mine == OneInstruction(alone[t].regs, alone[t].mem, Contiguous(t), w)
      s == Settled(registers) IN
  /\ stopped = "no" /\ mode[t] = "user"
  /\ alone[t].steps < MaxSteps[t]
  /\ w \in LastWord => t = FirstThread /\ alone[t].steps = MaxSteps[t] - 1
  /\ registers' = o.regs
  /\ mainMemory' = o.mem
  /\ mode' = [mode EXCEPT ![t] = IF o.trap = "Syscall" THEN "kernel" ELSE "user"]
  /\ stopped' = ExceptionHandler(o.trap)
  /\ alone' = [alone EXCEPT ![t] =
       IF o.trap = "none"
       THEN [regs |-> mine.regs, mem |-> mine.mem, steps |-> @.steps + 1,
             keeps |-> @.keeps /\ KeepsToSlot(Decode(w), @.regs)]
       ELSE @]
  /\ last' = IF o.trap # "none" THEN None
             ELSE [op |-> Decode(w).op, word |-> w, before |-> registers,
                   product |-> Product(Decode(w), registers.r[w.rs], registers.r[w.rt]),
                   run |-> runprogram([r |-> s.r, Hi |-> s.Hi, Lo |-> s.Lo, PC |-> s.PC,
                                       NextPC |-> s.NextPC, mem |-> Virtual(t, mainMemory),
                                       stopped |-> FALSE], w)]
  /\ UNCHANGED <<pageTable, userRegisters, currentThread>>

IncreasePC(regs) == [regs EXCEPT !.PC = regs.NextPC, !.NextPC = Signed(@ + 4)]

(* A system call returns: the result goes to r2.  The thread may have been *)
(* switched away from and back to since it trapped.                        *)
SystemCall(v) ==
  LET t == currentThread IN
  /\ stopped = "no" /\ mode[t] = "kernel"
  /\ registers' = IncreasePC([registers EXCEPT !.r[2] = v])
  /\ alone' = [alone EXCEPT ![t].regs = IncreasePC([Settled(@) EXCEPT !.r[2] = v]),
                            ![t].steps = @ + 1]
  /\ mode' = [mode EXCEPT ![t] = "user"]
  /\ last' = None
  /\ UNCHANGED <<mainMemory, pageTable, userRegisters, currentThread, stopped>>

(* Before an interrupt handler, CheckIfDue delivers the load in flight.    *)
CheckIfDue(regs) == DelayedLoad(regs, <<0, 0>>)

(* An interrupt at the tick after an instruction that the handler does not *)
(* follow with a context switch.                                           *)
Interrupt ==
  /\ stopped = "no" /\ mode[currentThread] = "user"
  /\ registers' = CheckIfDue(registers)
  /\ last' = None
  /\ UNCHANGED <<mainMemory, pageTable, userRegisters, currentThread, mode, stopped, alone>>

(* Faulty variant of SaveUserState: only the general registers are saved.  *)
SaveUserStatePart(t, regs) == [userRegisters EXCEPT ![t].r = regs.r]

SaveUserState(t, regs) == [userRegisters EXCEPT ![t] = regs]

RestoreUserState(t) == userRegisters[t]

RestoreState(t) == t

(* Scheduler::Run: in user mode after an interrupt that asked for a switch *)
(* at the end of the instruction, or inside a call.                        *)
Switch(t) ==
  /\ stopped = "no" /\ t # currentThread
  /\ userRegisters' = SaveUserState(currentThread,
       IF mode[currentThread] = "user" THEN CheckIfDue(registers) ELSE registers)
  /\ registers' = RestoreUserState(t)
  /\ pageTable' = RestoreState(t)
  /\ currentThread' = t
  /\ last' = None
  /\ UNCHANGED <<mainMemory, mode, stopped, alone>>

(* The machine has stopped, or the bounds are reached.                     *)
Done == /\ stopped # "no" \/ \A t \in Thread : alone[t].steps = MaxSteps[t]
        /\ UNCHANGED vars

Next ==
  \/ \E w \in CoreWord \cup LastWord : Instruction(w)
  \/ \E v \in Result : SystemCall(v)
  \/ Interrupt
  \/ \E t \in Thread : Switch(t)
  \/ Done

Spec == Init /\ [][Next]_vars
-----------------------------------------------------------------------------
(* Properties.                                                             *)

Words == -(Word \div 2) .. (Word \div 2) - 1

RegsOf(t) == IF t = currentThread THEN registers ELSE userRegisters[t]

(* Every register holds a word and R0 is zero between instructions.        *)
TypeOK ==
  /\ \A t \in Thread :
       /\ RegsOf(t).r \in [Reg -> Words] /\ RegsOf(t).r[0] = 0
       /\ {RegsOf(t).Hi, RegsOf(t).Lo, RegsOf(t).PC, RegsOf(t).NextPC, RegsOf(t).LoadValue} \subseteq Words
       /\ RegsOf(t).LoadReg \in Reg
  /\ mainMemory \in [PhysAddr -> 0 .. Byte - 1]
  /\ currentThread \in Thread /\ pageTable \in Thread

(* A thread cannot tell that it shares the processor, nor when interrupts  *)
(* deliver its loads early, unless it uses a register in the delay slot of *)
(* its load: at every point its registers and its memory are those of a    *)
(* machine that runs its program alone and uninterrupted; and after an     *)
(* exception they are what they were before the instruction, so that it    *)
(* can be started again (the comment of Machine::OneInstruction).          *)
RunsAlone ==
  \A t \in Thread : alone[t].keeps =>
    /\ Settled(RegsOf(t)) = Settled(alone[t].regs)
    /\ Virtual(t, mainMemory) = alone[t].mem

(* "any delayed load must get applied before we trap to the kernel": a     *)
(* thread in a system call, or switched away from, has no load in flight   *)
(* that would overwrite the result, and the registers that a system call   *)
(* reads are those the program has computed.                               *)
KernelSeesLoads ==
  \A t \in Thread :
    /\ mode[t] = "kernel" \/ t # currentThread => RegsOf(t).LoadReg = 0
    /\ mode[t] = "kernel" /\ alone[t].keeps => RegsOf(t).r = Settled(alone[t].regs).r

(* Sharing the processor shows neither in user mode, at any instruction,   *)
(* nor in the registers that a system call reads.                          *)
MachineInv == TypeOK /\ RunsAlone /\ KernelSeesLoads

(* The shift-and-add loop computes the double-word product of its two      *)
(* operands, signed and unsigned.                                          *)
MultExact ==
  last.op \in {"MULT", "MULTU"} =>
    /\ Unsigned(registers.Lo) = last.product % Word
    /\ Unsigned(registers.Hi) = (last.product \div Word) % Word

(* Where the two interpreters are known to differ, or where the            *)
(* architecture or C leaves the result open: see README.md.                *)
Differs(i, before) ==
  LET a == before.r[i.rs]
      b == before.r[i.rt] IN
  \/ i.op \in {"OR", "LWL", "LWR", "SWL", "SWR"}
  \/ i.op = "SRL" /\ b < 0 /\ i.extra # 0
  \/ i.op = "SRLV" /\ b < 0 /\ a % WordBits # 0
  \/ i.op \in {"ANDI", "ORI", "XORI"} /\ i.extra < 0
  \/ i.op \in {"DIV", "DIVU"} /\ b = 0
  \/ i.op = "JALR" /\ i.rd = i.rs
  \/ i.op \in {"BLTZAL", "BGEZAL"} /\ i.rs = R31
  \/ before.NextPC # Signed(before.PC + 4)                 \* in a branch delay slot
  \/ before.LoadReg # 0 /\ before.LoadReg \in {i.rs, i.rt, i.rd, R31}  \* in a load delay slot

(* The registers and the memory after the last instruction are those that  *)
(* runprogram computes, but for the high word of a product.                *)
Agrees ==
  LET s == Settled(registers)
      e == last.run IN
  /\ ~e.stopped
  /\ s.r = [e.r EXCEPT ![0] = 0] /\ s.Lo = e.Lo /\ s.PC = e.PC /\ s.NextPC = e.NextPC
  /\ last.op \notin {"MULT", "MULTU"} => s.Hi = e.Hi
  /\ Virtual(currentThread, mainMemory) = e.mem

(* The two interpreters of the repository decode and execute every         *)
(* instruction alike, outside the listed differences.                      *)
SameAsRunprogram ==
  last.op # "none" => Differs(Decode(last.word), last.before) \/ Agrees

(* "User programs shouldn't be able to tell that they are running on our   *)
(* simulator or on the real hardware": OR combines its two operands, as it *)
(* does in the other interpreter.                                          *)
OrAsOnHardware ==
  last.op = "OR" => Agrees
=============================================================================
