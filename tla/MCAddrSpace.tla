---------------------------- MODULE MCAddrSpace ----------------------------
(* Programs of one to three pages: only code, code and data that share a   *)
(* page, data that goes on behind the code's last page, data that starts   *)
(* on a page of its own before .bss, .sbss and .bss that overlap.  Further *)
(* ones coff2noff refuses: with .data and .rdata, with .sbss and .bss that *)
(* are contiguous, with a section it does not know.                        *)
EXTENDS AddrSpace

CONSTANTS p1, p2, p3

Loaded(name, from, n) ==
  [s_name |-> name, s_paddr |-> from, s_size |-> n, raw |-> [k \in 1 .. n |-> from + k]]

Zeros(name, from, n) == [s_name |-> name, s_paddr |-> from, s_size |-> n, raw |-> <<>>]

MCProgram ==
  {<<Loaded(".text", 0, 1), Loaded(".rdata", 1, 0), Loaded(".data", 1, 0)>>,
   <<Loaded(".text", 0, 1), Loaded(".rdata", 1, 3), Loaded(".data", 4, 0)>>,
   <<Loaded(".text", 0, 2), Loaded(".data", 2, 1), Zeros(".bss", 3, 1)>>,
   <<Loaded(".text", 0, 1), Loaded(".rdata", 1, 1), Loaded(".data", 2, 1)>>,
   <<Loaded(".text", 0, 1), Zeros(".sbss", 1, 1), Zeros(".bss", 2, 1)>>,
   <<Loaded(".text", 0, 1), Zeros(".sbss", 1, 2), Zeros(".bss", 2, 2)>>,
   <<Loaded(".text", 0, 1), Loaded(".sdata", 1, 1)>>}
=============================================================================
