---------------------------- MODULE MCPostOffice ----------------------------
(* PostOffice for TLC: two machines, one of them with two clients.           *)
EXTENDS PostOffice, TLC
CONSTANTS m1, m2, c1, c2, c3
MCHost == (c1 :> m1) @@ (c2 :> m1) @@ (c3 :> m2)
MCSettings ==
    {[lossy |-> TRUE, rules |-> {}],
     [lossy |-> FALSE, rules |-> {"patient"}],
     [lossy |-> TRUE, rules |-> Rule],
     [lossy |-> FALSE, rules |-> Rule]}
=============================================================================
