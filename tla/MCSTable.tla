------------------------------ MODULE MCSTable ------------------------------
(* Two threads, two names and a table that two creations fill.             *)
EXTENDS STable, TLC

CONSTANTS t1, t2, a, b

InitialValues == {-1, 0, 1}
Symmetry == Permutations(UserThread)
=============================================================================
