------------------------------ MODULE MCPTable ------------------------------
(* PTable on small instances: the main thread and the processes it and its *)
(* children start from the programs `p', `q' and `r'.                      *)
EXTENDS PTable

CONSTANTS main, t1, t2, t3, p, q, r

(* What a heap block may hold where PCB::pid is: the number of the first   *)
(* process, of another slot, or of none.                                   *)
AnyGarbage == {0, 1, MaxProcess}

(* Three processes of disciplined programs beside main without time        *)
(* slicing; with it two, and two of a program that does as it likes.       *)
AllSettings ==
  {[preemptive |-> FALSE, rules |-> Rules, threads |-> Thread, programs |-> Program],
   [preemptive |-> TRUE, rules |-> Rules, threads |-> {main, t1, t2}, programs |-> {p, q}],
   [preemptive |-> TRUE, rules |-> {}, threads |-> {main, t1, t2}, programs |-> {p}]}

(* A parent may have two children at a time.                               *)
TwoChildren ==
  {[preemptive |-> FALSE, rules |-> Rules \ {"oneChild"}, threads |-> {main, t1, t2},
    programs |-> {p, q}]}
=============================================================================
