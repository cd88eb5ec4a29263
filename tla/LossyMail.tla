----------------------------- MODULE LossyMail -----------------------------
(***************************************************************************)
(* What post offices promise (the comments of network/post.h and           *)
(* machine/network.h): mail goes "in order but unreliably" to the boxes of *)
(* the machines.  A mail is sent once; it may be lost when it is sent,   *)
(* and otherwise it reaches its box behind all mail sent to that machine   *)
(* before, once, and is received from the box in the order of arrival.     *)
(***************************************************************************)
EXTENDS Sequences

CONSTANTS Machine, Box, Mail    \* a Mail has fields to, box and data (its own)

VARIABLES
    lossy,      \* the network may lose mail
    posted,     \* the data of the mail sent so far
    transit,    \* for each machine, the mail on the way to it
    boxes       \* for each machine and box, the mail to be received

mailVars == <<lossy, posted, transit, boxes>>

Init ==
    /\ lossy \in BOOLEAN
    /\ posted = {}
    /\ transit = [m \in Machine |-> <<>>]
    /\ boxes = [m \in Machine |-> [b \in Box |-> <<>>]]

Send(mail) ==
    /\ mail.data \notin posted
    /\ posted' = posted \cup {mail.data}
    /\ \/ transit' = [transit EXCEPT ![mail.to] = Append(@, mail)]
       \/ lossy /\ UNCHANGED transit
    /\ UNCHANGED <<lossy, boxes>>

Deliver(m) ==
    /\ transit[m] # <<>>
    /\ transit' = [transit EXCEPT ![m] = Tail(@)]
    /\ boxes' = [boxes EXCEPT ![m][Head(transit[m]).box] = Append(@, Head(transit[m]))]
    /\ UNCHANGED <<lossy, posted>>

Receive(m, b) ==
    /\ boxes[m][b] # <<>>
    /\ boxes' = [boxes EXCEPT ![m][b] = Tail(@)]
    /\ UNCHANGED <<lossy, posted, transit>>

Next ==
    \/ \E mail \in Mail : Send(mail)
    \/ \E m \in Machine : Deliver(m)
    \/ \E m \in Machine, b \in Box : Receive(m, b)

Spec == Init /\ [][Next]_mailVars
=============================================================================
