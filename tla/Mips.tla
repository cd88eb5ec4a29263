-------------------------------- MODULE Mips --------------------------------
(***************************************************************************)
(* The simulated MIPS processor: the decoding tables of machine/mipssim.h, *)
(* Instruction::Decode and Machine::OneInstruction (machine/mipssim.cc),   *)
(* DelayedLoad and address translation (machine/translate.cc).             *)
(*                                                                         *)
(* A word has four bytes of ByteBits bits; every mask, shift and overflow  *)
(* of the code is taken relative to that width.  A register holds a signed *)
(* int, memory holds unsigned bytes, least significant byte first.         *)
(*                                                                         *)
(* An instruction word is a record of its bit fields.  The fields of the   *)
(* three formats share bits; no format reads two fields that overlap, so   *)
(* the model keeps them apart.  PrevPCReg and BadVAddrReg, the use and the *)
(* dirty bits are written and never read, and are left out.                *)
(***************************************************************************)
EXTENDS Integers, Sequences, Bitwise

CONSTANTS
  ByteBits,      \* bits of a byte (8 in the code)
  Reg,           \* the general registers the programs use
  PageSize,      \* bytes of a page
  NumPhysPages   \* frames of the main memory

R31 == 31

ASSUME MipsAssumption ==
  /\ ByteBits \in {1, 2, 4, 8} /\ PageSize \in Nat \ {0} /\ NumPhysPages \in Nat
  /\ Reg \subseteq 0 .. R31 /\ {0, R31} \subseteq Reg

Byte == 2 ^ ByteBits
Half == Byte * Byte
Word == Half * Half
WordBits == 4 * ByteBits

SignExtend(n, size) ==
  LET u == n % size IN IF u >= size \div 2 THEN u - size ELSE u
Unsigned(n) == n % Word
Signed(n) == SignExtend(n, Word)

BitAnd(a, b) == Signed(Unsigned(a) & Unsigned(b))
BitOr(a, b) == Signed(Unsigned(a) | Unsigned(b))
BitXor(a, b) == Signed(Unsigned(a) ^^ Unsigned(b))
BitNot(a) == -1 - a
Bit(b) == IF b THEN 1 ELSE 0

(* Division of C ints rounds towards zero.                                 *)
Abs(n) == IF n < 0 THEN -n ELSE n
Quotient(a, b) == IF (a < 0) = (b < 0) THEN Abs(a) \div Abs(b) ELSE -(Abs(a) \div Abs(b))
Remainder(a, b) == a - b * Quotient(a, b)
-----------------------------------------------------------------------------
(* Decoding.                                                               *)

Fill(op, n) == [i \in 1 .. n |-> op]

opTable ==
  <<"SPECIAL", "BCOND", "J", "JAL", "BEQ", "BNE", "BLEZ", "BGTZ", "ADDI",
    "ADDIU", "SLTI", "SLTIU", "ANDI", "ORI", "XORI", "LUI">>
  \o Fill("UNIMP", 4) \o Fill("RES", 12)
  \o <<"LB", "LH", "LWL", "LW", "LBU", "LHU", "LWR", "RES",
       "SB", "SH", "SWL", "SW", "RES", "RES", "SWR", "RES">>
  \o Fill("UNIMP", 4) \o Fill("RES", 4) \o Fill("UNIMP", 4) \o Fill("RES", 4)

specialTable ==
  <<"SLL", "RES", "SRL", "SRA", "SLLV", "RES", "SRLV", "SRAV", "JR", "JALR",
    "RES", "RES", "SYSCALL", "UNIMP", "RES", "RES", "MFHI", "MTHI", "MFLO", "MTLO">>
  \o Fill("RES", 4) \o <<"MULT", "MULTU", "DIV", "DIVU">> \o Fill("RES", 4)
  \o <<"ADD", "ADDU", "SUB", "SUBU", "AND", "OR", "XOR", "NOR", "RES", "RES",
       "SLT", "SLTU">> \o Fill("RES", 20)

(* Faulty variant: the immediate operand is not sign extended.             *)
DecodeUnextended(w) ==
  [op |-> IF opTable[w.major + 1] = "SPECIAL" THEN specialTable[w.funct + 1]
          ELSE opTable[w.major + 1],
   rs |-> w.rs, rt |-> w.rt, rd |-> w.rd, extra |-> w.imm]

(* The operation and its `extra' operand: a shift amount, a sign-extended  *)
(* immediate, or the target of a jump.                                     *)
Decode(w) ==
  LET op == opTable[w.major + 1] IN
  [op |-> CASE op = "SPECIAL" -> specialTable[w.funct + 1]
            [] op = "BCOND" ->
                 CASE w.rt = 0 -> "BLTZ" [] w.rt = 1 -> "BGEZ"
                   [] w.rt = 16 -> "BLTZAL" [] w.rt = 17 -> "BGEZAL"
                   [] OTHER -> "UNIMP"
            [] OTHER -> op,
   rs |-> w.rs, rt |-> w.rt, rd |-> w.rd,
   extra |-> CASE op = "SPECIAL" -> w.shamt
               [] op \in {"J", "JAL"} -> w.target
               [] OTHER -> SignExtend(w.imm, Half)]
-----------------------------------------------------------------------------
(* Memory.                                                                 *)

(* The physical address, or the exception, for an access of size bytes.    *)
Translate(table, addr, size, writing) ==
  LET vpn == Unsigned(addr) \div PageSize
      fails(e) == [exception |-> e, physAddr |-> 0] IN
  IF addr % size # 0 THEN fails("AddressError")
  ELSE IF vpn >= Len(table) THEN fails("AddressError")
  ELSE IF ~table[vpn + 1].valid THEN fails("PageFault")
  ELSE IF table[vpn + 1].readOnly /\ writing THEN fails("ReadOnly")
  ELSE IF table[vpn + 1].physicalPage >= NumPhysPages THEN fails("BusError")
  ELSE [exception |-> "none",
        physAddr |-> table[vpn + 1].physicalPage * PageSize + (Unsigned(addr) % PageSize)]

(* size bytes of mem from address a on, as an unsigned number.             *)
Fetch(mem, a, size) ==
  mem[a] + (IF size = 1 THEN 0 ELSE Byte * mem[a + 1])
         + (IF size < 4 THEN 0 ELSE Half * mem[a + 2] + Half * Byte * mem[a + 3])

Store(mem, a, size, v) ==
  [b \in DOMAIN mem |-> IF b \in a .. a + size - 1
                        THEN (Unsigned(v) \div Byte ^ (b - a)) % Byte ELSE mem[b]]

(* ReadMem reads a byte as a char, which is signed, and a half as unsigned.*)
ReadMem(mem, table, addr, size) ==
  LET at == Translate(table, addr, size, FALSE)
      v == Fetch(mem, at.physAddr, size) IN
  [exception |-> at.exception,
   value |-> IF size = 1 THEN SignExtend(v, Byte) ELSE Signed(v)]

WriteMem(mem, table, addr, size, v) ==
  LET at == Translate(table, addr, size, TRUE) IN
  [exception |-> at.exception,
   mem |-> IF at.exception = "none" THEN Store(mem, at.physAddr, size, v) ELSE mem]
-----------------------------------------------------------------------------
(* Execution.  The outcome of an instruction: the registers, the delayed   *)
(* load it starts, the value of pcAfter, the memory, and the exception (or *)
(* the end of the simulator itself) it causes.                             *)

Start(regs, mem) ==
  [regs |-> regs, load |-> <<0, 0>>, pcAfter |-> Signed(regs.NextPC + 4), mem |-> mem,
   trap |-> "none"]

Set(o, r, v) == [o EXCEPT !.regs.r[r] = v]
SetHiLo(o, hi, lo) == [o EXCEPT !.regs.Hi = hi, !.regs.Lo = lo]
Raise(o, e) == [o EXCEPT !.trap = e]

AddOverflows(a, b) ==
  (a < 0) = (b < 0) /\ (a < 0) # (Signed(a + b) < 0)

SubOverflows(a, b) ==
  (a < 0) # (b < 0) /\ (a < 0) # (Signed(a - b) < 0)

(* ADD, ADDI, ADDIU, ADDU, AND, ANDI.                                      *)
AddAnd(i, a, b, o) ==
  CASE i.op = "ADD" -> IF AddOverflows(a, b) THEN Raise(o, "Overflow")
                       ELSE Set(o, i.rd, Signed(a + b))
    [] i.op = "ADDI" -> IF AddOverflows(a, i.extra) THEN Raise(o, "Overflow")
                        ELSE Set(o, i.rt, Signed(a + i.extra))
    [] i.op = "ADDIU" -> Set(o, i.rt, Signed(a + i.extra))
    [] i.op = "ADDU" -> Set(o, i.rd, Signed(a + b))
    [] i.op = "AND" -> Set(o, i.rd, BitAnd(a, b))
    [] i.op = "ANDI" -> Set(o, i.rt, BitAnd(a, i.extra % Half))

(* The conditional branches; the AL forms set R31 before they test.        *)
Branch(i, b, o) ==
  LET linked == IF i.op \in {"BGEZAL", "BLTZAL"}
                THEN Set(o, R31, Signed(o.regs.NextPC + 4)) ELSE o
      a == linked.regs.r[i.rs]
      taken == CASE i.op = "BEQ" -> a = b
                 [] i.op = "BNE" -> a # b
                 [] i.op \in {"BGEZ", "BGEZAL"} -> a >= 0
                 [] i.op \in {"BLTZ", "BLTZAL"} -> a < 0
                 [] i.op = "BGTZ" -> a > 0
                 [] i.op = "BLEZ" -> a <= 0 IN
  IF taken THEN [linked EXCEPT !.pcAfter = Signed(o.regs.NextPC + 4 * i.extra)] ELSE linked

(* DIV and DIVU.  The host stops the simulator when the quotient of two    *)
(* ints is no int.                                                         *)
Divide(i, a, b, o) ==
  IF b = 0 THEN SetHiLo(o, 0, 0)
  ELSE IF i.op = "DIV"
  THEN IF Quotient(a, b) # Signed(Quotient(a, b)) THEN Raise(o, "HostTrap")
       ELSE SetHiLo(o, Remainder(a, b), Quotient(a, b))
  ELSE SetHiLo(o, Signed(Unsigned(a) % Unsigned(b)), Signed(Unsigned(a) \div Unsigned(b)))

(* J, JAL, JR, JALR.  JALR reads its target after it has written its link. *)
(* User memory is smaller than the region that a target can name.          *)
Jump(i, o) ==
  LET link == IF i.op = "JAL" THEN R31 ELSE i.rd
      linked == IF i.op \in {"JAL", "JALR"}
                THEN Set(o, link, Signed(o.regs.NextPC + 4)) ELSE o IN
  [linked EXCEPT !.pcAfter = IF i.op \in {"J", "JAL"} THEN Signed(4 * i.extra)
                             ELSE linked.regs.r[i.rs]]

(* LB, LBU, LH, LHU, LW, and LUI.  The loaded value is delivered after the *)
(* next instruction.                                                       *)
Load(i, a, o, table) ==
  LET size == CASE i.op \in {"LB", "LBU"} -> 1 [] i.op \in {"LH", "LHU"} -> 2 [] OTHER -> 4
      got == ReadMem(o.mem, table, Signed(a + i.extra), size)
      value == CASE i.op = "LB" -> SignExtend(got.value, Byte)
                 [] i.op = "LBU" -> got.value % Byte
                 [] i.op = "LH" -> SignExtend(got.value, Half)
                 [] i.op = "LHU" -> got.value % Half
                 [] i.op = "LW" -> got.value IN
  CASE i.op = "LUI" -> Set(o, i.rt, Signed(i.extra * Half))
    [] i.op # "LUI" /\ got.exception # "none" -> Raise(o, got.exception)
    [] OTHER -> [o EXCEPT !.load = <<i.rt, value>>]

(* LWL and LWR are asserted to be aligned, which leaves the first case of  *)
(* their switches.                                                         *)
LoadPart(i, a, o, table) ==
  LET addr == Signed(a + i.extra)
      got == ReadMem(o.mem, table, addr, 4)
      old == IF o.regs.LoadReg = i.rt THEN o.regs.LoadValue ELSE o.regs.r[i.rt]
      top == Unsigned(got.value) \div (Half * Byte) IN
  CASE addr % 4 # 0 -> Raise(o, "Assert")
    [] addr % 4 = 0 /\ got.exception # "none" -> Raise(o, got.exception)
    [] OTHER -> [o EXCEPT !.load = <<i.rt,
                   IF i.op = "LWL" THEN got.value
                   ELSE Signed(Unsigned(old) - (Unsigned(old) % Byte) + top)>>]

(* Faulty variant: signed numbers are multiplied as unsigned ones.         *)
MultUnsigned(a, b, signedArith) ==
  LET p == Unsigned(a) * Unsigned(b) IN [hi |-> Signed(p \div Word), lo |-> Signed(p)]

(* The shift-and-add loop of Mult, after its signs are removed: lo and hi  *)
(* accumulate bLo and bHi for every bit of a that is set.                  *)
Mult(a, b, signedArith) ==
  LET negative == signedArith /\ (a < 0) # (b < 0)
      ua == Unsigned(IF signedArith THEN Abs(a) ELSE a)
      ub == Unsigned(IF signedArith THEN Abs(b) ELSE b)
      loop[k \in 0 .. WordBits] ==
        IF k = 0 THEN [lo |-> 0, hi |-> 0, bLo |-> ub, bHi |-> 0]
        ELSE LET p == loop[k - 1]
                 lo == Unsigned(p.lo + p.bLo)
                 carry == Bit(lo < p.bLo) IN
             [lo |-> IF (ua \div 2 ^ (k - 1)) % 2 = 1 THEN lo ELSE p.lo,
              hi |-> IF (ua \div 2 ^ (k - 1)) % 2 = 1 THEN Unsigned(p.hi + carry + p.bHi) ELSE p.hi,
              bLo |-> Unsigned(2 * p.bLo),
              bHi |-> Unsigned(2 * p.bHi + p.bLo \div (Word \div 2))]
      r == loop[WordBits]
      lo == IF negative THEN Unsigned(BitNot(r.lo) + 1) ELSE r.lo
      hi == IF negative THEN BitNot(r.hi) + Bit(lo = 0) ELSE r.hi IN
  IF a = 0 \/ b = 0 THEN [hi |-> 0, lo |-> 0] ELSE [hi |-> Signed(hi), lo |-> Signed(lo)]

(* MFHI, MFLO, MTHI, MTLO, MULT, MULTU.                                    *)
HiLo(i, a, b, o) ==
  CASE i.op = "MFHI" -> Set(o, i.rd, o.regs.Hi)
    [] i.op = "MFLO" -> Set(o, i.rd, o.regs.Lo)
    [] i.op = "MTHI" -> SetHiLo(o, a, o.regs.Lo)
    [] i.op = "MTLO" -> SetHiLo(o, o.regs.Hi, a)
    [] OTHER -> LET p == Mult(a, b, i.op = "MULT") IN SetHiLo(o, p.hi, p.lo)

(* NOR, OR, ORI.  OR reads rs twice.                                       *)
NorOr(i, a, b, o) ==
  CASE i.op = "NOR" -> Set(o, i.rd, BitNot(BitOr(a, b)))
    [] i.op = "OR" -> Set(o, i.rd, BitOr(a, a))
    [] i.op = "ORI" -> Set(o, i.rt, BitOr(a, i.extra % Half))

Stored(o, got) == IF got.exception # "none" THEN Raise(o, got.exception)
                  ELSE [o EXCEPT !.mem = got.mem]

(* SB and SH.                                                              *)
StoreShort(i, a, b, o, table) ==
  Stored(o, WriteMem(o.mem, table, Signed(a + i.extra), IF i.op = "SB" THEN 1 ELSE 2, b))

(* The shifts, and the instructions that set a register to 0 or 1.  SRL    *)
(* and SRLV shift an int, which repeats the sign.                          *)
ShiftSet(i, a, b, o) ==
  LET by == a % WordBits IN
  CASE i.op = "SLL" -> Set(o, i.rd, Signed(b * 2 ^ i.extra))
    [] i.op = "SLLV" -> Set(o, i.rd, Signed(b * 2 ^ by))
    [] i.op = "SLT" -> Set(o, i.rd, Bit(a < b))
    [] i.op = "SLTI" -> Set(o, i.rt, Bit(a < i.extra))
    [] i.op = "SLTIU" -> Set(o, i.rt, Bit(Unsigned(a) < Unsigned(i.extra)))
    [] i.op = "SLTU" -> Set(o, i.rd, Bit(Unsigned(a) < Unsigned(b)))
    [] i.op \in {"SRA", "SRL"} -> Set(o, i.rd, b \div 2 ^ i.extra)
    [] i.op \in {"SRAV", "SRLV"} -> Set(o, i.rd, b \div 2 ^ by)

Subtract(i, a, b, o) ==
  IF i.op = "SUB" /\ SubOverflows(a, b) THEN Raise(o, "Overflow")
  ELSE Set(o, i.rd, Signed(a - b))

(* SW, and SWL and SWR, which are asserted to be aligned.                  *)
StoreWord(i, a, b, o, table) ==
  LET addr == Signed(a + i.extra)
      got == ReadMem(o.mem, table, addr, 4)
      low == Unsigned(got.value) % (Half * Byte)
      v == IF i.op = "SWR" THEN low + Half * Byte * (b % Byte) ELSE b IN
  CASE i.op # "SW" /\ addr % 4 # 0 -> Raise(o, "Assert")
    [] OTHER -> Stored(o, WriteMem(o.mem, table, addr, 4, v))

(* SYSCALL, XOR, XORI, and the illegal instructions.                       *)
TrapXor(i, a, b, o) ==
  CASE i.op = "SYSCALL" -> Raise(o, "Syscall")
    [] i.op = "XOR" -> Set(o, i.rd, BitXor(a, b))
    [] i.op = "XORI" -> Set(o, i.rt, BitXor(a, i.extra % Half))
    [] OTHER -> Raise(o, "IllegalInstr")

Execute(i, o, table) ==
  LET a == o.regs.r[i.rs]
      b == o.regs.r[i.rt] IN
  CASE i.op \in {"ADD", "ADDI", "ADDIU", "ADDU", "AND", "ANDI"} -> AddAnd(i, a, b, o)
    [] i.op \in {"BEQ", "BNE", "BGEZ", "BGEZAL", "BLTZ", "BLTZAL", "BGTZ", "BLEZ"} -> Branch(i, b, o)
    [] i.op \in {"DIV", "DIVU"} -> Divide(i, a, b, o)
    [] i.op \in {"J", "JAL", "JR", "JALR"} -> Jump(i, o)
    [] i.op \in {"LB", "LBU", "LH", "LHU", "LW", "LUI"} -> Load(i, a, o, table)
    [] i.op \in {"LWL", "LWR"} -> LoadPart(i, a, o, table)
    [] i.op \in {"MFHI", "MFLO", "MTHI", "MTLO", "MULT", "MULTU"} -> HiLo(i, a, b, o)
    [] i.op \in {"NOR", "OR", "ORI"} -> NorOr(i, a, b, o)
    [] i.op \in {"SB", "SH"} -> StoreShort(i, a, b, o, table)
    [] i.op \in {"SLL", "SLLV", "SLT", "SLTI", "SLTIU", "SLTU", "SRA", "SRAV",
                 "SRL", "SRLV"} -> ShiftSet(i, a, b, o)
    [] i.op \in {"SUB", "SUBU"} -> Subtract(i, a, b, o)
    [] i.op \in {"SW", "SWL", "SWR"} -> StoreWord(i, a, b, o, table)
    [] OTHER -> TrapXor(i, a, b, o)

(* The load of the previous instruction is delivered, the next one waits.  *)
DelayedLoad(regs, load) ==
  [regs EXCEPT !.r = [[@ EXCEPT ![regs.LoadReg] = regs.LoadValue] EXCEPT ![0] = 0],
               !.LoadReg = load[1], !.LoadValue = load[2]]

(* The end of OneInstruction: the program counters advance.                *)
Advance(o) ==
  [DelayedLoad(o.regs, o.load) EXCEPT !.PC = o.regs.NextPC, !.NextPC = o.pcAfter]

(* The registers as the exception handler finds them.                      *)
RaiseException(o) == DelayedLoad(o.regs, <<0, 0>>)

(* Fetch, decode and execute the word that the program holds at PC.        *)
OneInstruction(regs, mem, table, w) ==
  LET fetched == Translate(table, regs.PC, 4, FALSE)
      o == IF fetched.exception # "none" THEN Raise(Start(regs, mem), fetched.exception)
           ELSE Execute(Decode(w), Start(regs, mem), table) IN
  [regs |-> IF o.trap = "none" THEN Advance(o) ELSE RaiseException(o),
   mem |-> o.mem, trap |-> o.trap]
=============================================================================
