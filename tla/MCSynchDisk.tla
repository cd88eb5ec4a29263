---------------------------- MODULE MCSynchDisk ----------------------------
(* SynchDisk for TLC: two threads, a disk of two tracks of three sectors.   *)
EXTENDS SynchDisk
=============================================================================
