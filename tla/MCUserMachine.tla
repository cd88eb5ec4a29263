---------------------------- MODULE MCUserMachine ----------------------------
(* Two threads with two pages each in four frames, on a machine with words *)
(* of eight bits.                                                          *)
EXTENDS UserMachine

CONSTANTS ta, tb

Page(f) == [physicalPage |-> f, valid |-> TRUE, readOnly |-> FALSE]

Tables == ta :> <<Page(2), Page(0)>> @@ tb :> <<Page(1), Page(3)>>

Operands == {-128, -96, -1, 0, 4, 85, 127}

Steps == ta :> 2 @@ tb :> 1

Field == [major |-> 0, rs |-> 1, rt |-> 2, rd |-> 3, shamt |-> 3, funct |-> 0,
          imm |-> 4, target |-> 2]

Load3 == [Field EXCEPT !.major = 35, !.rs = 0, !.rt = 3, !.imm = 4]
Mul == [Field EXCEPT !.funct = 24]
Link == [Field EXCEPT !.major = 3]
Store1 == [Field EXCEPT !.major = 43, !.rs = 0, !.rt = 1, !.imm = 8]
Call == [Field EXCEPT !.funct = 12]

Core == {Load3, Mul, Link, Store1, Call}

(* Every major opcode with a positive and a negative immediate, every      *)
(* function of SPECIAL, the forms of BCOND, the word of zeroes, and loads  *)
(* of a part of a register that another load may be about to set.          *)
Every ==
  {[Field EXCEPT !.major = m, !.imm = k] : m \in 2 .. 63, k \in {4, 15}}
  \cup {[Field EXCEPT !.funct = f] : f \in 0 .. 63}
  \cup {[Field EXCEPT !.major = 1, !.rt = c] : c \in {0, 1, 2, 16, 17}}
  \cup {[f \in DOMAIN Field |-> 0], [Field EXCEPT !.funct = 33, !.rd = 0]}
  \cup {[Load3 EXCEPT !.major = m] : m \in {34, 38}}
=============================================================================
