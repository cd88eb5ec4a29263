------------------------------ MODULE Runprogram -----------------------------
(***************************************************************************)
(* The stand-alone MIPS interpreter of the repository, runprogram in       *)
(* bin/execute.c with the opcodes of bin/encode.h: one turn of its loop.   *)
(* It has no exceptions and no delayed loads, and its memory is flat.  A   *)
(* state is [r, Hi, Lo, PC, NextPC, mem, stopped].                         *)
(***************************************************************************)
EXTENDS Mips, TLC

(* Consecutive opcodes from n on.                                          *)
Codes(n, ops) == [k \in n .. n + Len(ops) - 1 |-> ops[k - n + 1]]

(* The #defines of encode.h, in octal as they are there.                   *)
NormalOps ==
  Codes(\o00, <<"SPECIAL", "BCOND", "J", "JAL", "BEQ", "BNE", "BLEZ", "BGTZ",
                "ADDI", "ADDIU", "SLTI", "SLTIU", "ANDI", "ORI", "XORI", "LUI",
                "COP0", "COP1", "COP2", "COP3">>)
  @@ Codes(\o40, <<"LB", "LH", "LWL", "LW", "LBU", "LHU", "LWR">>)
  @@ Codes(\o50, <<"SB", "SH", "SWL", "SW">>) @@ (\o56 :> "SWR")
  @@ Codes(\o60, <<"LWC0", "LWC1", "LWC2", "LWC3">>)
  @@ Codes(\o70, <<"SWC0", "SWC1", "SWC2", "SWC3">>)

SpecialOps ==
  (\o00 :> "SLL") @@ Codes(\o02, <<"SRL", "SRA", "SLLV">>)
  @@ Codes(\o06, <<"SRLV", "SRAV", "JR", "JALR">>) @@ Codes(\o14, <<"SYSCALL", "BREAK">>)
  @@ Codes(\o20, <<"MFHI", "MTHI", "MFLO", "MTLO">>)
  @@ Codes(\o30, <<"MULT", "MULTU", "DIV", "DIVU">>)
  @@ Codes(\o40, <<"ADD", "ADDU", "SUB", "SUBU", "AND", "OR", "XOR", "NOR">>)
  @@ Codes(\o52, <<"SLT", "SLTU">>)

BcondOps == Codes(\o00, <<"BLTZ", "BGEZ">>) @@ Codes(\o20, <<"BLTZAL", "BGEZAL">>)

At(ops, n) == IF n \in DOMAIN ops THEN ops[n] ELSE "none"

(* The case of the switches that an instruction word reaches.              *)
Case(w) ==
  LET op == At(NormalOps, w.major) IN
  CASE op = "SPECIAL" -> At(SpecialOps, w.funct)
    [] op = "BCOND" -> At(BcondOps, w.rt)
    [] OTHER -> op

immed(w) == SignExtend(w.imm, Half)

Put(e, r, v) == [e EXCEPT !.r[r] = Signed(v)]

(* The shifts and register jumps of I_SPECIAL; xpc is the instruction's    *)
(* own address.  The processor takes a shift amount modulo its word size.  *)
ShiftJump(op, a, b, w, e, xpc) ==
  LET by == a % WordBits IN
  CASE op = "SLL" -> Put(e, w.rd, b * 2 ^ w.shamt)
    [] op = "SRL" -> Put(e, w.rd, Unsigned(b) \div 2 ^ w.shamt)
    [] op = "SRA" -> Put(e, w.rd, b \div 2 ^ w.shamt)
    [] op = "SLLV" -> Put(e, w.rd, b * 2 ^ by)
    [] op = "SRLV" -> Put(e, w.rd, Unsigned(b) \div 2 ^ by)
    [] op = "SRAV" -> Put(e, w.rd, b \div 2 ^ by)
    [] op = "JR" -> [e EXCEPT !.NextPC = a]
    [] op = "JALR" -> Put([e EXCEPT !.NextPC = a], w.rd, xpc + 8)

(* Moves, products and quotients.  The high word of a product is put       *)
(* together from half words, without the carries between them.  A division *)
(* by zero ends the interpreter.                                           *)
MulDiv(op, a, b, w, e) ==
  LET neg == op = "MULT" /\ (a < 0) # (b < 0)
      t1 == Unsigned(IF op = "MULT" THEN Abs(a) ELSE a)
      t2 == Unsigned(IF op = "MULT" THEN Abs(b) ELSE b)
      mid(x, y) == Signed((x \div Half) * (y % Half)) \div Half
      hi == (t1 \div Half) * (t2 \div Half) + mid(t1, t2) + mid(t2, t1)
      lo == Signed(t1 * t2) IN
  CASE op = "MFHI" -> Put(e, w.rd, e.Hi)
    [] op = "MTHI" -> [e EXCEPT !.Hi = a]
    [] op = "MFLO" -> Put(e, w.rd, e.Lo)
    [] op = "MTLO" -> [e EXCEPT !.Lo = a]
    [] op \in {"MULT", "MULTU"} ->
         [e EXCEPT !.Lo = IF neg THEN Signed(-lo) ELSE lo,
                   !.Hi = Signed(IF neg THEN BitNot(hi) + Bit(lo = 0) ELSE hi)]
    [] op \in {"DIV", "DIVU"} /\ b = 0 -> [e EXCEPT !.stopped = TRUE]
    [] op = "DIV" /\ b # 0 -> [e EXCEPT !.Lo = Quotient(a, b), !.Hi = Remainder(a, b)]
    [] op = "DIVU" /\ b # 0 -> [e EXCEPT !.Lo = Signed(Unsigned(a) \div Unsigned(b)),
                                !.Hi = Signed(Unsigned(a) % Unsigned(b))]

Arith(op, a, b, w, e) ==
  Put(e, w.rd, CASE op \in {"ADD", "ADDU"} -> a + b
                 [] op \in {"SUB", "SUBU"} -> a - b
                 [] op = "AND" -> BitAnd(a, b)
                 [] op = "OR" -> BitOr(a, b)
                 [] op = "XOR" -> BitXor(a, b)
                 [] op = "NOR" -> BitNot(BitOr(a, b))
                 [] op = "SLT" -> Bit(a < b)
                 [] op = "SLTU" -> Bit(Unsigned(a) < Unsigned(b)))

BranchJump(op, a, b, w, e, xpc) ==
  LET linked == IF op \in {"BLTZAL", "BGEZAL", "JAL"} THEN Put(e, R31, xpc + 8) ELSE e
      taken == CASE op = "BEQ" -> a = b [] op = "BNE" -> a # b
                 [] op \in {"BLTZ", "BLTZAL"} -> linked.r[w.rs] < 0
                 [] op \in {"BGEZ", "BGEZAL"} -> linked.r[w.rs] >= 0
                 [] op = "BLEZ" -> a <= 0 [] op = "BGTZ" -> a > 0
                 [] op \in {"J", "JAL"} -> FALSE IN
  CASE op \in {"J", "JAL"} -> [linked EXCEPT !.NextPC = Signed(4 * w.target)]
    [] taken -> [linked EXCEPT !.NextPC = Signed(xpc + 4 + 4 * immed(w))]
    [] OTHER -> linked

(* The immediate of ANDI, ORI and XORI is sign extended here.              *)
Immediate(op, a, w, e) ==
  Put(e, w.rt, CASE op \in {"ADDI", "ADDIU"} -> a + immed(w)
                 [] op = "SLTI" -> Bit(a < immed(w))
                 [] op = "SLTIU" -> Bit(Unsigned(a) < Unsigned(immed(w)))
                 [] op = "ANDI" -> BitAnd(a, immed(w))
                 [] op = "ORI" -> BitOr(a, immed(w))
                 [] op = "XORI" -> BitXor(a, immed(w))
                 [] op = "LUI" -> immed(w) * Half)

LoadNow(op, a, w, e) ==
  LET i == Signed(a + immed(w))
      word == Fetch(e.mem, i - (i % 4), 4) IN
  Put(e, w.rt, CASE op = "LB" -> SignExtend(Fetch(e.mem, i, 1), Byte)
                 [] op = "LBU" -> Fetch(e.mem, i, 1)
                 [] op = "LH" -> SignExtend(Fetch(e.mem, i, 2), Half)
                 [] op = "LHU" -> Fetch(e.mem, i, 2)
                 [] op = "LW" -> Fetch(e.mem, i, 4)
                 [] op = "LWL" -> BitOr(e.r[w.rt], Signed(word * Byte ^ (i % 4)))
                 [] op = "LWR" -> IF i % 4 = 0 THEN word
                                  ELSE BitOr(Signed(e.r[w.rt] - (e.r[w.rt] % Byte ^ (i % 4))),
                                             Signed(word) \div Byte ^ ((-i) % 4)))

StoreNow(op, a, b, w, e) ==
  LET size == CASE op = "SB" -> 1 [] op = "SH" -> 2 [] op = "SW" -> 4 IN
  [e EXCEPT !.mem = Store(@, Signed(a + immed(w)), size, b)]

(* One turn of the loop.  A word of zeroes is skipped.                     *)
runprogram(s, w) ==
  LET xpc == s.PC
      e == [s EXCEPT !.PC = s.NextPC, !.NextPC = Signed(s.NextPC + 4), !.r[0] = 0]
      a == e.r[w.rs]
      b == e.r[w.rt]
      op == Case(w) IN
  CASE \A f \in DOMAIN w : w[f] = 0 -> e
    [] op \in {"SRL", "SRA", "SLLV", "SRLV", "SRAV", "JR", "JALR"} -> ShiftJump(op, a, b, w, e, xpc)
    [] op = "SLL" /\ \E f \in DOMAIN w : w[f] # 0 -> ShiftJump(op, a, b, w, e, xpc)
    [] op \in {"MFHI", "MTHI", "MFLO", "MTLO", "MULT", "MULTU", "DIV", "DIVU"} -> MulDiv(op, a, b, w, e)
    [] op \in {"ADD", "ADDU", "SUB", "SUBU", "AND", "OR", "XOR", "NOR", "SLT", "SLTU"} ->
         Arith(op, a, b, w, e)
    [] op \in {"BLTZ", "BGEZ", "BLTZAL", "BGEZAL", "J", "JAL", "BEQ", "BNE", "BLEZ", "BGTZ"} ->
         BranchJump(op, a, b, w, e, xpc)
    [] op \in {"ADDI", "ADDIU", "SLTI", "SLTIU", "ANDI", "ORI", "XORI", "LUI"} -> Immediate(op, a, w, e)
    [] op \in {"LB", "LH", "LWL", "LW", "LBU", "LHU", "LWR"} -> LoadNow(op, a, w, e)
    [] op \in {"SB", "SH", "SW"} -> StoreNow(op, a, b, w, e)
    [] OTHER -> [e EXCEPT !.stopped = TRUE]
=============================================================================
