--------------------------- MODULE MCSynchConsole ---------------------------
(* SynchConsole with two threads and a keyboard with each kind of          *)
(* character, in several orders.                                           *)
EXTENDS SynchConsole

CONSTANTS t1, t2

MCTyped == {<<"x", FF, "y", LF>>, <<FF, "x", CtrlA, "y">>, <<"x", "y", "x">>}
=============================================================================
