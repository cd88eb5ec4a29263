--------------------------- MODULE PrivateMemory ---------------------------
(***************************************************************************)
(* What virtual memory promises to processes: each has a memory of its     *)
(* own, which begins as the image of its program and changes only by its   *)
(* own stores.                                                             *)
(***************************************************************************)
EXTENDS Naturals

CONSTANTS Proc, Byte, Image

VARIABLE vm  \* the memory of each process, indexed by virtual address

NoMemory == [a \in {} |-> 0]

Init == vm = [p \in Proc |-> NoMemory]

Create(p) ==
  /\ vm[p] = NoMemory
  /\ \E image \in Image : vm' = [vm EXCEPT ![p] = image]

Store(p, area, v) == vm' = [vm EXCEPT ![p] = [a \in DOMAIN @ |-> IF a \in area THEN v ELSE @[a]]]

Discard(p) == vm' = [vm EXCEPT ![p] = NoMemory]

Next ==
  \E p \in Proc :
    \/ Create(p)
    \/ \E a \in DOMAIN vm[p], size \in {1, 2, 4}, v \in Byte : Store(p, a .. a + size - 1, v)
    \/ Discard(p)

Spec == Init /\ [][Next]_vm
=============================================================================
