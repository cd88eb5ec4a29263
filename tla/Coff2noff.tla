----------------------------- MODULE Coff2noff -----------------------------
(***************************************************************************)
(* bin/coff2noff.c, which makes the program files that AddrSpace loads out *)
(* of the sections of the linker's output.  What it refuses (it removes    *)
(* the output file and exits) is ok = FALSE.                               *)
(*                                                                         *)
(* The files are MIPSEL and OMAGIC, and not cut off.                       *)
(***************************************************************************)
EXTENDS Integers, Sequences

CONSTANT HeaderSize  \* sizeof(NoffHeader)

(* struct scnhdr, and the bytes of the section in the COFF file.           *)
Section == [s_name : STRING, s_paddr : Nat, s_size : Nat, raw : Seq(Nat)]

NoSegment == [virtualAddr |-> 0, inFileAddr |-> 0, size |-> 0]

(* The header before the loop, and the bytes behind it in the output.      *)
EmptyNoff ==
  [ok |-> TRUE, code |-> NoSegment, initData |-> NoSegment, uninitData |-> NoSegment, file |-> <<>>]

Refused(noffH) == [noffH EXCEPT !.ok = FALSE]

(* The segment that s becomes at the end of the output, and the output     *)
(* with it.                                                                *)
SegmentOf(noffH, s) ==
  [virtualAddr |-> s.s_paddr, inFileAddr |-> HeaderSize + Len(noffH.file), size |-> s.s_size]

Copied(noffH, s) == [noffH EXCEPT !.file = @ \o s.raw]

(* .bss and .sbss: a second one is refused when it does follow the first   *)
(* one, and otherwise counted as if it did.                                *)
AddUninitData(noffH, s) ==
  LET bss == noffH.uninitData IN
  IF bss.size = 0
  THEN [noffH EXCEPT !.uninitData = [virtualAddr |-> s.s_paddr, inFileAddr |-> 0, size |-> s.s_size]]
  ELSE IF s.s_paddr = bss.virtualAddr + bss.size THEN Refused(noffH)
  ELSE [noffH EXCEPT !.uninitData.size = @ + s.s_size]

(* One turn of the loop over the sections.                                 *)
AddSection(noffH, s) ==
  CASE ~noffH.ok \/ s.s_size = 0 -> noffH
    [] noffH.ok /\ s.s_size # 0 /\ s.s_name = ".text" ->
         [Copied(noffH, s) EXCEPT !.code = SegmentOf(noffH, s)]
    [] noffH.ok /\ s.s_size # 0 /\ s.s_name \in {".data", ".rdata"} ->
         IF noffH.initData.size # 0 THEN Refused(noffH)
         ELSE [Copied(noffH, s) EXCEPT !.initData = SegmentOf(noffH, s)]
    [] noffH.ok /\ s.s_size # 0 /\ s.s_name \in {".bss", ".sbss"} -> AddUninitData(noffH, s)
    [] OTHER -> Refused(noffH)

Noff(sections) ==
  LET loop[i \in 0 .. Len(sections)] ==
        IF i = 0 THEN EmptyNoff ELSE AddSection(loop[i - 1], sections[i])
  IN loop[Len(sections)]
=============================================================================
