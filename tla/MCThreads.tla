----------------------------- MODULE MCThreads -----------------------------
(* Threads on small instances: `disk' is the semaphore of a device driver, *)
(* `mutex' is used between threads only.                                   *)
EXTENDS Threads

CONSTANTS main, a, b, disk, mutex

MCInitialValue == [s \in Sem |-> IF s = mutex THEN 1 ELSE 0]
=============================================================================
