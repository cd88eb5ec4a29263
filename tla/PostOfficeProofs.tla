-------------------------- MODULE PostOfficeProofs --------------------------
(***************************************************************************)
(* Proofs about module PostOffice, for every number of machines, clients   *)
(* and boxes.  The semaphores of a post office are matched by counting     *)
(* (PacketIsSignalled, TokensMatchSenders).  That clients who keep the     *)
(* rules never bring a machine down needs the course of MailTest: a client *)
(* that has its acknowledgement, and may halt, got it from a peer that     *)
(* has sent both of its messages (Exchange).                               *)
(***************************************************************************)
EXTENDS PostOffice, FiniteSetTheorems, TLAPS

(* What is known of a mail on its way to m: in MailTest it comes from the  *)
(* other machine, and only the second message of a tester, its third call, *)
(* goes to box 1.                                                          *)
GoodMail(m, mail) ==
    /\ mail.to = m
    /\ Rule \subseteq rules =>
          /\ mail.data[1] \in Tester /\ mail.from # m
          /\ mail.box = 1 => ops[mail.data[1]] >= 3

GoodMails ==
    \A m \in Machine :
        /\ \A i \in 1 .. Len(sock[m]) : GoodMail(m, sock[m][i])
        /\ inbox[m] # NoMail => GoodMail(m, inbox[m])
        /\ \A b \in Box : \A i \in 1 .. Len(boxes[m][b]) :
              GoodMail(m, boxes[m][b][i]) /\ boxes[m][b][i].box = b

Exchange ==
    Rule \subseteq rules =>
        \A c \in Tester :
            /\ ops[c] >= 2 => reply[c] = 1
            /\ ops[c] = TestCalls => \A d \in Tester : Host[d] # Host[c] => ops[d] >= 3

(* A call of Send posts data that has not been posted before.              *)
Posted == \A d \in posted : d[2] <= ops[d[1]]

Chosen == [lossy |-> lossy, rules |-> rules] \in Settings

Inv ==
    /\ TypeOK /\ PacketIsSignalled /\ TokensMatchSenders /\ OnlyHaltStops
    /\ GoodMails /\ Exchange /\ Posted /\ Chosen /\ IsFiniteSet(sending)
-----------------------------------------------------------------------------
(* Mail.                                                                   *)

LEMMA MailFields ==
  ASSUME NEW mail \in Mail
  PROVE  /\ mail.to \in Machine /\ mail.from \in Machine /\ mail.box \in Box /\ mail.reply = 1
         /\ mail.data \in Data /\ mail.data[1] \in Client /\ mail.data[2] \in 1 .. MaxOps
         /\ mail.from = Host[mail.data[1]]
BY DEF Mail, Data

LEMMA NewMail ==
  ASSUME NEW c \in Client, NEW to \in Machine, NEW b \in Box, NEW n \in 1 .. MaxOps
  PROVE  [to |-> to, from |-> Host[c], box |-> b, reply |-> 1, data |-> <<c, n>>] \in Mail
BY PostAssumption DEF Mail, Data

(* Calls are only added: what was known of a mail stays true.              *)
Later == rules' = rules /\ \A c \in Client : ops'[c] \in Int /\ ops'[c] >= ops[c]

(* What GoodMail says of a mail after the step.                            *)
GoodThen(m, mail) ==
    /\ mail.to = m
    /\ Rule \subseteq rules' =>
          /\ mail.data[1] \in Tester /\ mail.from # m
          /\ mail.box = 1 => ops'[mail.data[1]] >= 3

LEMMA MailStays ==
  ASSUME TypeOK, Later, NEW m \in Machine, NEW mail \in Mail, GoodMail(m, mail)
  PROVE  GoodThen(m, mail)
<1>1. mail.data[1] \in Client /\ ops[mail.data[1]] \in 0 .. MaxOps
  BY MailFields DEF TypeOK
<1> QED
  BY <1>1 DEF GoodMail, GoodThen, Later

LEMMA OldMail ==
  ASSUME TypeOK, GoodMails, Later, NEW m \in Machine
  PROVE  /\ \A i \in 1 .. Len(sock[m]) : GoodThen(m, sock[m][i])
         /\ inbox[m] # NoMail => GoodThen(m, inbox[m])
         /\ \A b \in Box : \A i \in 1 .. Len(boxes[m][b]) :
               GoodThen(m, boxes[m][b][i]) /\ boxes[m][b][i].box = b
<1>1. \A i \in 1 .. Len(sock[m]) : sock[m][i] \in Mail /\ GoodMail(m, sock[m][i])
  BY DEF TypeOK, GoodMails
<1>2. inbox[m] # NoMail => inbox[m] \in Mail /\ GoodMail(m, inbox[m])
  BY DEF TypeOK, GoodMails
<1>3. \A b \in Box : \A i \in 1 .. Len(boxes[m][b]) :
         /\ boxes[m][b][i] \in Mail /\ GoodMail(m, boxes[m][b][i])
         /\ boxes[m][b][i].box = b
  BY DEF TypeOK, GoodMails
<1> QED
  BY <1>1, <1>2, <1>3, MailStays

LEMMA MailsThen ==
  ASSUME \A m \in Machine :
           /\ \A i \in 1 .. Len(sock'[m]) : GoodThen(m, sock'[m][i])
           /\ inbox'[m] # NoMail => GoodThen(m, inbox'[m])
           /\ \A b \in Box : \A i \in 1 .. Len(boxes'[m][b]) :
                 GoodThen(m, boxes'[m][b][i]) /\ boxes'[m][b][i].box = b
  PROVE  GoodMails'
BY DEF GoodMails, GoodMail, GoodThen

LEMMA MailsStay ==
  ASSUME TypeOK, GoodMails, Later, UNCHANGED <<sock, inbox, boxes>>
  PROVE  GoodMails'
BY OldMail, MailsThen

LEMMA PostedStay ==
  ASSUME TypeOK, Posted, Later, NEW d \in posted
  PROVE  d[2] <= ops'[d[1]]
<1>1. d[1] \in Client /\ d[2] \in 1 .. MaxOps
  BY DEF TypeOK, Data
<1>2. ops[d[1]] \in 0 .. MaxOps
  BY <1>1 DEF TypeOK
<1> QED
  BY <1>1, <1>2 DEF Posted, Later

(* A tester is alone on its machine, and MailTest has two machines.        *)
LEMMA Testers ==
  ASSUME NEW c \in Tester, NEW d \in Tester, Host[c] = Host[d]
  PROVE  c = d
<1>1. Host[c] \in Machine
  BY PostAssumption
<1>2. PICK e \in Tester : {x \in Tester : Host[x] = Host[c]} = {e}
  BY <1>1, PostAssumption
<1> QED
  BY <1>2

LEMMA TwoMachines ==
  ASSUME Chosen, "mailtest" \in rules,
         NEW m1 \in Machine, NEW m2 \in Machine, NEW m3 \in Machine, m1 # m3, m2 # m3
  PROVE  m1 = m2
<1>1. \E s \in Settings : "mailtest" \in s.rules
  BY DEF Chosen
<1> QED
  BY <1>1, PostAssumption

LEMMA HostTyped == \A c \in Client : Host[c] \in Machine
BY PostAssumption

LEMMA TesterIsClient == Tester \subseteq Client
BY PostAssumption
-----------------------------------------------------------------------------
(* The device and the postal worker.                                       *)

LEMMA CheckPktAvailPreserves ==
  ASSUME Inv, NEW m \in Machine, CheckPktAvail(m)
  PROVE  Inv'
<1>1. /\ TypeOK /\ PacketIsSignalled /\ TokensMatchSenders /\ OnlyHaltStops
      /\ GoodMails /\ Exchange /\ Posted /\ Chosen /\ IsFiniteSet(sending)
  BY DEF Inv
<1>2. /\ m \in up /\ inbox[m] = NoMail /\ sock[m] # <<>>
      /\ inbox' = [inbox EXCEPT ![m] = Head(sock[m])]
      /\ sock' = [sock EXCEPT ![m] = Tail(sock[m])]
      /\ available' = [available EXCEPT ![m] = available[m] + 1]
      /\ UNCHANGED <<lossy, rules, outgoing, sent, worker, boxes, sending, ops, reply, posted, up>>
  BY DEF CheckPktAvail, PollSocket, ReadFromSocket, IncomingPacket, clientVars
<1>3. /\ sock[m] \in Seq(Mail) /\ Head(sock[m]) \in Mail /\ Tail(sock[m]) \in Seq(Mail)
      /\ Head(sock[m]) = sock[m][1] /\ Len(sock[m]) > 0
      /\ Len(Tail(sock[m])) = Len(sock[m]) - 1 /\ Len(sock[m]) \in Nat
      /\ \A i \in 1 .. Len(sock[m]) - 1 : Tail(sock[m])[i] = sock[m][i + 1]
  BY <1>1, <1>2 DEF TypeOK
<1>4. TypeOK'
  BY <1>1, <1>2, <1>3 DEF TypeOK
<1>5. PacketIsSignalled'
  BY <1>1, <1>2, <1>3, NoMailAssumption DEF PacketIsSignalled, TypeOK
<1>6. TokensMatchSenders' /\ OnlyHaltStops' /\ Exchange' /\ Posted' /\ Chosen' /\ IsFiniteSet(sending')
  BY <1>1, <1>2 DEF TokensMatchSenders, OnlyHaltStops, Exchange, Posted, Chosen
<1>7. GoodMails'
  <2>1. \A mail : \A n \in Machine : GoodMail(n, mail)' <=> GoodMail(n, mail)
    BY <1>2 DEF GoodMail
  <2>2. \A n \in Machine : \A i \in 1 .. Len(sock'[n]) : GoodMail(n, sock'[n][i])
    <3> SUFFICES ASSUME NEW n \in Machine, NEW i \in 1 .. Len(sock'[n])
                 PROVE  GoodMail(n, sock'[n][i])
      OBVIOUS
    <3>1. CASE n = m
      <4>1. sock'[n] = Tail(sock[m])
        BY <1>1, <1>2, <3>1 DEF TypeOK
      <4>2. i \in 1 .. Len(sock[m]) - 1 /\ i + 1 \in 1 .. Len(sock[m]) /\ sock'[n][i] = sock[m][i + 1]
        BY <1>3, <4>1
      <4> QED
        BY <1>1, <3>1, <4>2 DEF GoodMails
    <3>2. CASE n # m
      BY <1>1, <1>2, <3>2 DEF TypeOK, GoodMails
    <3> QED
      BY <3>1, <3>2
  <2>3. \A n \in Machine : inbox'[n] # NoMail => GoodMail(n, inbox'[n])
    <3>1. inbox'[m] = sock[m][1] /\ 1 \in 1 .. Len(sock[m])
      BY <1>1, <1>2, <1>3 DEF TypeOK
    <3>2. \A n \in Machine \ {m} : inbox'[n] = inbox[n]
      BY <1>1, <1>2 DEF TypeOK
    <3> QED
      BY <1>1, <3>1, <3>2 DEF GoodMails
  <2> QED
    BY <1>1, <1>2, <2>1, <2>2, <2>3 DEF GoodMails
<1> QED
  BY <1>4, <1>5, <1>6, <1>7 DEF Inv

LEMMA SendDonePreserves ==
  ASSUME Inv, NEW m \in Machine, SendDone(m)
  PROVE  Inv'
<1>1. /\ TypeOK /\ PacketIsSignalled /\ TokensMatchSenders /\ OnlyHaltStops
      /\ GoodMails /\ Exchange /\ Posted /\ Chosen /\ IsFiniteSet(sending)
  BY DEF Inv
<1>2. /\ m \in up /\ outgoing[m] > 0
      /\ outgoing' = [outgoing EXCEPT ![m] = outgoing[m] - 1]
      /\ sent' = [sent EXCEPT ![m] = sent[m] + 1]
      /\ UNCHANGED <<lossy, rules, sock, inbox, available, worker, boxes, sending, ops, reply, posted, up>>
  BY DEF SendDone, PacketSent, clientVars
<1>4. TypeOK'
  BY <1>1, <1>2 DEF TypeOK
<1>5. TokensMatchSenders'
  <2> SUFFICES ASSUME NEW n \in up
               PROVE  Cardinality({c \in sending : Host[c] = n})
                        = sent'[n] + outgoing'[n]
    BY <1>2 DEF TokensMatchSenders
  <2>1. n \in Machine /\ {sent[n], sent[m], outgoing[n], outgoing[m]} \subseteq Nat
    BY <1>1, <1>2 DEF TypeOK
  <2>2. Cardinality({c \in sending : Host[c] = n}) = sent[n] + outgoing[n]
    BY <1>1 DEF TokensMatchSenders
  <2>3. CASE n = m
    <3>1. sent'[n] = sent[n] + 1 /\ outgoing'[n] = outgoing[n] - 1
      BY <1>1, <1>2, <2>1, <2>3 DEF TypeOK
    <3> QED
      BY <2>1, <2>2, <3>1
  <2>4. CASE n # m
    <3>1. sent'[n] = sent[n] /\ outgoing'[n] = outgoing[n]
      BY <1>1, <1>2, <2>1, <2>4 DEF TypeOK
    <3> QED
      BY <2>2, <3>1
  <2> QED
    BY <2>3, <2>4
<1>6. PacketIsSignalled' /\ OnlyHaltStops' /\ Exchange' /\ Posted' /\ Chosen' /\ IsFiniteSet(sending')
  BY <1>1, <1>2 DEF PacketIsSignalled, OnlyHaltStops, Exchange, Posted, Chosen
<1>7. GoodMails'
  BY <1>1, <1>2 DEF GoodMails, GoodMail
<1> QED
  BY <1>4, <1>5, <1>6, <1>7 DEF Inv

LEMMA WorkerWakesPreserves ==
  ASSUME Inv, NEW m \in Machine, WorkerWakes(m)
  PROVE  Inv'
<1>1. /\ TypeOK /\ PacketIsSignalled /\ TokensMatchSenders /\ OnlyHaltStops
      /\ GoodMails /\ Exchange /\ Posted /\ Chosen /\ IsFiniteSet(sending)
  BY DEF Inv
<1>2. /\ worker[m] = "waits" /\ available[m] > 0
      /\ available' = [available EXCEPT ![m] = available[m] - 1]
      /\ worker' = [worker EXCEPT ![m] = "woken"]
      /\ UNCHANGED <<lossy, rules, sock, inbox, outgoing, sent, boxes, sending, ops, reply, posted, up>>
  BY DEF WorkerWakes, netVars, clientVars
<1>3. available[m] \in Nat
  BY <1>1 DEF TypeOK
<1>4. TypeOK'
  BY <1>1, <1>2, <1>3 DEF TypeOK
<1>5. PacketIsSignalled'
  BY <1>1, <1>2, <1>3 DEF PacketIsSignalled, TypeOK
<1>6. TokensMatchSenders' /\ OnlyHaltStops' /\ Exchange' /\ Posted' /\ Chosen' /\ IsFiniteSet(sending')
  BY <1>1, <1>2 DEF TokensMatchSenders, OnlyHaltStops, Exchange, Posted, Chosen
<1>7. GoodMails'
  BY <1>1, <1>2 DEF GoodMails, GoodMail
<1> QED
  BY <1>4, <1>5, <1>6, <1>7 DEF Inv

LEMMA PostalDeliveryEffect ==
  ASSUME TypeOK, GoodMails, NEW m \in Machine, PostalDelivery(m)
  PROVE  \E mail \in Mail :
            /\ mail = inbox[m] /\ GoodMail(m, mail)
            /\ worker[m] = "woken" /\ m \in up /\ mail.box \in Box
            /\ inbox' = [inbox EXCEPT ![m] = NoMail]
            /\ boxes' = [boxes EXCEPT ![m][mail.box] = Append(boxes[m][mail.box], mail)]
            /\ worker' = [worker EXCEPT ![m] = "waits"]
            /\ UNCHANGED <<lossy, rules, sock, outgoing, available, sent, sending, ops,
                           reply, posted, up>>
<1>1. inbox[m] \in Mail /\ GoodMail(m, inbox[m]) /\ inbox[m].box \in Box
  BY MailFields DEF TypeOK, GoodMails, PostalDelivery
<1> QED
  BY <1>1 DEF PostalDelivery, NetworkReceive, Put, ListAppend, clientVars

LEMMA PostalDeliveryPreserves ==
  ASSUME Inv, NEW m \in Machine, PostalDelivery(m)
  PROVE  Inv'
<1>1. /\ TypeOK /\ PacketIsSignalled /\ TokensMatchSenders /\ OnlyHaltStops
      /\ GoodMails /\ Exchange /\ Posted /\ Chosen /\ IsFiniteSet(sending)
  BY DEF Inv
<1>2. PICK mail \in Mail :
         /\ mail = inbox[m] /\ GoodMail(m, mail)
         /\ worker[m] = "woken" /\ m \in up /\ mail.box \in Box
         /\ inbox' = [inbox EXCEPT ![m] = NoMail]
         /\ boxes' = [boxes EXCEPT ![m][mail.box] = Append(boxes[m][mail.box], mail)]
         /\ worker' = [worker EXCEPT ![m] = "waits"]
         /\ UNCHANGED <<lossy, rules, sock, outgoing, available, sent, sending, ops,
                        reply, posted, up>>
  BY <1>1, PostalDeliveryEffect
<1>3. /\ boxes[m] \in [Box -> Seq(Mail)] /\ boxes[m][mail.box] \in Seq(Mail)
      /\ Append(boxes[m][mail.box], mail) \in Seq(Mail)
  BY <1>1, <1>2 DEF TypeOK
<1>4. boxes' \in [Machine -> [Box -> Seq(Mail)]]
  BY <1>1, <1>2, <1>3 DEF TypeOK
<1>5. TypeOK'
  BY <1>1, <1>2, <1>4 DEF TypeOK
<1>6. PacketIsSignalled'
  BY <1>1, <1>2, NoMailAssumption DEF PacketIsSignalled, TypeOK
<1>7. TokensMatchSenders' /\ OnlyHaltStops' /\ Exchange' /\ Posted' /\ Chosen' /\ IsFiniteSet(sending')
  BY <1>1, <1>2 DEF TokensMatchSenders, OnlyHaltStops, Exchange, Posted, Chosen
<1>8. GoodMails'
  <2>1. \A x : \A n \in Machine : GoodMail(n, x)' <=> GoodMail(n, x)
    BY <1>2 DEF GoodMail
  <2>2. ASSUME NEW n \in Machine, NEW b \in Box, NEW i \in 1 .. Len(boxes'[n][b])
        PROVE  GoodMail(n, boxes'[n][b][i]) /\ boxes'[n][b][i].box = b
    <3>1. CASE n = m /\ b = mail.box
      <4>1. boxes'[n][b] = Append(boxes[m][b], mail) /\ boxes[m][b] \in Seq(Mail)
        BY <1>1, <1>2, <1>3, <3>1 DEF TypeOK
      <4>2. \/ i \in 1 .. Len(boxes[m][b]) /\ boxes'[n][b][i] = boxes[m][b][i]
            \/ boxes'[n][b][i] = mail
        BY <4>1
      <4> QED
        BY <1>1, <1>2, <3>1, <4>2 DEF GoodMails
    <3>2. CASE ~(n = m /\ b = mail.box)
      <4>1. boxes'[n][b] = boxes[n][b]
        BY <1>1, <1>2, <1>3, <3>2 DEF TypeOK
      <4> QED
        BY <1>1, <4>1 DEF GoodMails
    <3> QED
      BY <3>1, <3>2
  <2>3. \A n \in Machine : inbox'[n] # NoMail => GoodMail(n, inbox'[n])
    BY <1>1, <1>2 DEF TypeOK, GoodMails
  <2> QED
    BY <1>1, <1>2, <2>1, <2>2, <2>3 DEF GoodMails
<1> QED
  BY <1>5, <1>6, <1>7, <1>8 DEF Inv
-----------------------------------------------------------------------------
(* Clients.                                                                *)

LEMMA MaxOpsIsNat == MaxOps \in Nat
BY PostAssumption

LEMMA Counted ==
  ASSUME TypeOK, NEW c \in Client, ops[c] < MaxOps, ops' = [ops EXCEPT ![c] = ops[c] + 1]
  PROVE  /\ ops' \in [Client -> 0 .. MaxOps] /\ ops'[c] = ops[c] + 1 /\ ops[c] \in 0 .. MaxOps - 1
         /\ \A d \in Client : ops'[d] \in Int /\ ops'[d] >= ops[d]
<1>1. ops \in [Client -> 0 .. MaxOps] /\ ops[c] \in 0 .. MaxOps - 1 /\ MaxOps \in Nat
  BY MaxOpsIsNat DEF TypeOK
<1> QED
  BY <1>1

LEMMA MailTestSends ==
  ASSUME NEW c, NEW n \in 0 .. 3, NEW b, <<"Send", b>> = MailTest(c, n + 1)
  PROVE  (n = 0 /\ b = 0) \/ (n = 2 /\ b = reply[c])
<1>1. CASE n = 0
  BY <1>1 DEF MailTest
<1>2. CASE n = 1
  BY <1>2 DEF MailTest
<1>3. CASE n = 2
  BY <1>3 DEF MailTest
<1>4. CASE n = 3
  BY <1>4 DEF MailTest
<1> QED
  BY <1>1, <1>2, <1>3, <1>4

LEMMA MailTestReceives ==
  ASSUME NEW c, NEW n \in 0 .. 3, NEW b, <<"Receive", b>> = MailTest(c, n + 1)
  PROVE  (n = 1 /\ b = 0) \/ (n = 3 /\ b = 1)
<1>1. CASE n = 0
  BY <1>1 DEF MailTest
<1>2. CASE n = 1
  BY <1>2 DEF MailTest
<1>3. CASE n = 2
  BY <1>3 DEF MailTest
<1>4. CASE n = 3
  BY <1>4 DEF MailTest
<1> QED
  BY <1>1, <1>2, <1>3, <1>4

(* A machine that fails an ASSERT: some client does not keep the rules.    *)
LEMMA AbortPreserves ==
  ASSUME Inv, NEW m \in Machine, Abort(m), NEW c \in Client, ops[c] < MaxOps,
         ops' = [ops EXCEPT ![c] = ops[c] + 1],
         "patient" \notin rules
  PROVE  Inv'
<1>1. /\ TypeOK /\ PacketIsSignalled /\ TokensMatchSenders /\ OnlyHaltStops
      /\ GoodMails /\ Exchange /\ Posted /\ Chosen /\ IsFiniteSet(sending)
  BY DEF Inv
<1>2. /\ up' = up \ {m}
      /\ UNCHANGED <<lossy, rules, sock, inbox, outgoing, available, sent, worker, boxes,
                     sending, reply, posted>>
  BY DEF Abort, netVars, officeVars
<1>3. Later /\ ops' \in [Client -> 0 .. MaxOps]
  BY <1>1, <1>2, Counted DEF Later
<1>4. TypeOK'
  BY <1>1, <1>2, <1>3 DEF TypeOK
<1>5. PacketIsSignalled' /\ TokensMatchSenders' /\ Chosen' /\ IsFiniteSet(sending')
  BY <1>1, <1>2 DEF PacketIsSignalled, TokensMatchSenders, Chosen
<1>6. OnlyHaltStops' /\ Exchange'
  BY <1>2 DEF OnlyHaltStops, Exchange, Rule
<1>7. GoodMails'
  BY <1>1, <1>2, <1>3, MailsStay
<1>8. Posted'
  BY <1>1, <1>2, <1>3, PostedStay DEF Posted
<1> QED
  BY <1>4, <1>5, <1>6, <1>7, <1>8 DEF Inv

(* The outcomes of Network::Send.                                          *)
LEMMA SendEffect ==
  ASSUME NEW c \in Client, NEW to \in Machine, NEW b \in Box, SendBegins(c, to, b, 1),
         NEW mail,
         mail = [to |-> to, from |-> Host[c], box |-> b, reply |-> 1, data |-> <<c, ops[c] + 1>>]
  PROVE  /\ Host[c] \in up /\ c \notin sending /\ ops[c] < MaxOps
         /\ "mailtest" \in rules => to # Host[c]
         /\ "mailtest" \in rules => c \in Tester /\ ops[c] < TestCalls /\ <<"Send", b>> = MailTest(c, ops[c] + 1)
         /\ ops' = [ops EXCEPT ![c] = ops[c] + 1]
         /\ \/ /\ (lossy /\ sock' = sock) \/ sock' = [sock EXCEPT ![to] = Append(sock[to], mail)]
               /\ outgoing' = [outgoing EXCEPT ![Host[c]] = outgoing[Host[c]] + 1]
               /\ posted' = posted \cup {<<c, ops[c] + 1>>}
               /\ sending' = sending \cup {c}
               /\ UNCHANGED <<lossy, rules, inbox, available, sent, worker, boxes, reply, up>>
            \/ /\ to \notin up
               /\ Abort(Host[c])
<1>1. /\ Host[c] \in up /\ c \notin sending /\ ops[c] < MaxOps
      /\ "mailtest" \in rules => c \in Tester /\ ops[c] < TestCalls /\ <<"Send", b>> = MailTest(c, ops[c] + 1)
  BY DEF SendBegins, MayCall, Idle
<1>2. /\ "mailtest" \in rules => to # Host[c]
      /\ ops' = [ops EXCEPT ![c] = ops[c] + 1]
      /\ NetworkSend(c, mail)
  BY DEF SendBegins
<1>3. mail.from = Host[c] /\ mail.to = to /\ mail.data = <<c, ops[c] + 1>>
  OBVIOUS
<1>4. \/ /\ (lossy /\ sock' = sock) \/ sock' = [sock EXCEPT ![to] = Append(sock[to], mail)]
         /\ outgoing' = [outgoing EXCEPT ![Host[c]] = outgoing[Host[c]] + 1]
         /\ posted' = posted \cup {<<c, ops[c] + 1>>}
         /\ sending' = sending \cup {c}
         /\ UNCHANGED <<lossy, rules, inbox, available, sent, worker, boxes, reply, up>>
      \/ /\ to \notin up
         /\ Abort(Host[c])
  BY <1>2, <1>3 DEF NetworkSend, SendToSocket, officeVars
<1> QED
  BY <1>1, <1>2, <1>4

(* Clients that keep the rules do not make Network::Send fail.             *)
LEMMA SendNeverFails ==
  ASSUME Inv, NEW c \in Client, NEW to \in Machine, NEW b \in Box,
         SendBegins(c, to, b, 1), to \notin up
  PROVE  "patient" \notin rules
<1> SUFFICES ASSUME "patient" \in rules PROVE FALSE
  OBVIOUS
<1>1. TypeOK /\ OnlyHaltStops /\ Exchange
  BY DEF Inv
<1>2. /\ "mailtest" \in rules => to # Host[c]
      /\ "mailtest" \in rules => c \in Tester /\ ops[c] < TestCalls /\ <<"Send", b>> = MailTest(c, ops[c] + 1)
  BY SendEffect
<1>3. "mailtest" \in rules /\ \A d \in Tester : Host[d] = to => ops[d] = TestCalls
  BY <1>1 DEF OnlyHaltStops
<1>4. PICK d \in Tester : Host[d] = to
  BY PostAssumption
<1>5. Rule \subseteq rules
  BY <1>3 DEF Rule
<1>6. c \in Tester /\ ops[c] >= 3 /\ ops[c] \in 0 .. 3 /\ <<"Send", b>> = MailTest(c, ops[c] + 1)
  BY <1>1, <1>2, <1>3, <1>4, <1>5, TesterIsClient DEF Exchange, TypeOK, TestCalls
<1> QED
  BY <1>6, MailTestSends

LEMMA SendBeginsPreserves ==
  ASSUME Inv, NEW c \in Client, NEW to \in Machine, NEW b \in Box,
         SendBegins(c, to, b, 1)
  PROVE  Inv'
<1>1. /\ TypeOK /\ PacketIsSignalled /\ TokensMatchSenders /\ OnlyHaltStops
      /\ GoodMails /\ Exchange /\ Posted /\ Chosen /\ IsFiniteSet(sending)
  BY DEF Inv
<1>2. /\ Host[c] \in up /\ c \notin sending /\ ops[c] < MaxOps /\ Host[c] \in Machine
      /\ "mailtest" \in rules => c \in Tester /\ ops[c] < TestCalls /\ <<"Send", b>> = MailTest(c, ops[c] + 1)
      /\ "mailtest" \in rules => to # Host[c]
      /\ ops' = [ops EXCEPT ![c] = ops[c] + 1]
  BY SendEffect, HostTyped
<1>3. CASE Abort(Host[c]) /\ to \notin up
  BY <1>2, <1>3, SendNeverFails, AbortPreserves
<1> DEFINE mail == [to |-> to, from |-> Host[c], box |-> b, reply |-> 1, data |-> <<c, ops[c] + 1>>]
<1>4. CASE /\ (lossy /\ sock' = sock) \/ sock' = [sock EXCEPT ![to] = Append(sock[to], mail)]
           /\ outgoing' = [outgoing EXCEPT ![Host[c]] = outgoing[Host[c]] + 1]
           /\ posted' = posted \cup {<<c, ops[c] + 1>>}
           /\ sending' = sending \cup {c}
           /\ UNCHANGED <<lossy, rules, inbox, available, sent, worker, boxes, reply, up>>
  <2>1. /\ ops' \in [Client -> 0 .. MaxOps] /\ ops'[c] = ops[c] + 1 /\ ops[c] \in 0 .. MaxOps - 1
        /\ Later
    BY <1>1, <1>2, <1>4, Counted DEF Later
  <2>2. mail \in Mail /\ mail.to = to /\ mail.from = Host[c] /\ mail.box = b /\ mail.data[1] = c
    <3>1. ops[c] + 1 \in 1 .. MaxOps
      BY <2>1, MaxOpsIsNat
    <3> QED
      BY <3>1, NewMail
  <2>3. sock[to] \in Seq(Mail)
    BY <1>1 DEF TypeOK
  <2> HIDE DEF mail
  <2>4. sock' \in [Machine -> Seq(Mail)]
    <3>1. sock \in [Machine -> Seq(Mail)] /\ Append(sock[to], mail) \in Seq(Mail)
      BY <1>1, <2>2, <2>3 DEF TypeOK
    <3> QED
      BY <1>4, <3>1
  <2>5. posted' \subseteq Data
    BY <1>1, <1>4, <2>1 DEF TypeOK, Data
  <2>6. TypeOK'
    <3>1. outgoing' \in [Machine -> Nat] /\ sending' \subseteq Client
      BY <1>1, <1>2, <1>4 DEF TypeOK
    <3> QED
      BY <1>1, <1>4, <2>1, <2>4, <2>5, <3>1 DEF TypeOK
  <2>7. PacketIsSignalled' /\ Chosen'
    BY <1>1, <1>4 DEF PacketIsSignalled, Chosen
  <2>8. IsFiniteSet(sending')
    BY <1>1, <1>4, FS_AddElement
  <2>9. TokensMatchSenders'
    <3> SUFFICES ASSUME NEW n \in up
                 PROVE  Cardinality({d \in sending' : Host[d] = n})
                          = sent[n] + outgoing'[n]
      BY <1>4 DEF TokensMatchSenders
    <3>1. n \in Machine /\ sent[n] \in Nat /\ outgoing[n] \in Nat
      BY <1>1 DEF TypeOK
    <3>2. Cardinality({d \in sending : Host[d] = n}) = sent[n] + outgoing[n]
      BY <1>1 DEF TokensMatchSenders
    <3>3. CASE n = Host[c]
      <4>1. {d \in sending' : Host[d] = n} = {d \in sending : Host[d] = n} \cup {c}
        BY <1>4, <3>3
      <4>2. IsFiniteSet({d \in sending : Host[d] = n}) /\ c \notin {d \in sending : Host[d] = n}
        BY <1>1, <1>2, FS_Subset
      <4>3. Cardinality({d \in sending : Host[d] = n} \cup {c})
              = Cardinality({d \in sending : Host[d] = n}) + 1
        BY <4>2, FS_AddElement
      <4>4. outgoing'[n] = outgoing[n] + 1
        BY <1>1, <1>4, <3>1, <3>3 DEF TypeOK
      <4>5. Cardinality({d \in sending' : Host[d] = n}) = sent[n] + outgoing[n] + 1 /\ sent'[n] = sent[n]
        BY <1>4, <3>2, <4>1, <4>3
      <4> QED
        BY <3>1, <4>4, <4>5
    <3>4. CASE n # Host[c]
      <4>1. {d \in sending' : Host[d] = n} = {d \in sending : Host[d] = n}
        BY <1>4, <3>4
      <4>2. outgoing'[n] = outgoing[n]
        BY <1>1, <1>4, <3>1, <3>4 DEF TypeOK
      <4> QED
        BY <3>2, <4>1, <4>2
    <3> QED
      BY <3>3, <3>4
  <2>10. "mailtest" \in rules => \A d \in Client : ops[d] = TestCalls => ops'[d] = TestCalls
    BY <1>1, <1>2 DEF TypeOK
  <2>11. OnlyHaltStops'
    BY <1>1, <1>4, <2>10, TesterIsClient DEF OnlyHaltStops
  <2>12. Exchange'
    <3> SUFFICES ASSUME Rule \subseteq rules, NEW d \in Tester
                 PROVE  /\ ops'[d] >= 2 => reply[d] = 1
                        /\ ops'[d] = TestCalls => \A e \in Tester : Host[e] # Host[d] => ops'[e] >= 3
      BY <1>4 DEF Exchange
    <3>1. (ops[c] = 0 /\ b = 0) \/ (ops[c] = 2 /\ b = reply[c])
      <4>1. ops[c] \in 0 .. 3
        BY <1>2, <2>1 DEF Rule, TestCalls
      <4> QED
        BY <1>2, <4>1, MailTestSends DEF Rule
    <3>2. \A e \in Tester : e \in Client /\ ops[e] \in 0 .. MaxOps /\ ops'[e] \in 0 .. MaxOps /\ ops'[e] >= ops[e]
      BY <1>1, <2>1, TesterIsClient DEF Later, TypeOK
    <3>3. d # c => ops'[d] = ops[d]
      BY <1>1, <1>2, <3>2 DEF TypeOK
    <3>4. ops[d] >= 2 => reply[d] = 1
      BY <1>1 DEF Exchange
    <3>5. ops[d] = TestCalls => \A e \in Tester : Host[e] # Host[d] => ops[e] >= 3
      BY <1>1 DEF Exchange
    <3> QED
      BY <2>1, <3>1, <3>2, <3>3, <3>4, <3>5 DEF TestCalls
  <2>13. Posted'
    BY <1>1, <1>4, <2>1, PostedStay DEF Posted
  <2>14. GoodMails'
    <3>1. GoodThen(to, mail)
      <4> SUFFICES ASSUME Rule \subseteq rules
                   PROVE  c \in Tester /\ to # Host[c] /\ (b = 1 => ops'[c] >= 3)
        BY <1>4, <2>2 DEF GoodThen
      <4>0. ops[c] \in 0 .. 3
        BY <1>2, <2>1 DEF Rule, TestCalls
      <4>1. c \in Tester /\ to # Host[c] /\ ((ops[c] = 0 /\ b = 0) \/ (ops[c] = 2 /\ b = reply[c]))
        BY <1>2, <4>0, MailTestSends DEF Rule
      <4> QED
        BY <2>1, <4>1
    <3>2. ASSUME NEW n \in Machine, NEW i \in 1 .. Len(sock'[n])
          PROVE  GoodThen(n, sock'[n][i])
      <4>1. sock[n] \in Seq(Mail) /\ \A j \in 1 .. Len(sock[n]) : GoodThen(n, sock[n][j])
        BY <1>1, <2>1, OldMail DEF TypeOK
      <4>3. sock'[n] = sock[n] \/ (n = to /\ sock'[n] = Append(sock[n], mail))
        BY <1>1, <1>4 DEF TypeOK
      <4>4. \/ i \in 1 .. Len(sock[n]) /\ sock'[n][i] = sock[n][i]
            \/ n = to /\ sock'[n][i] = mail
        BY <4>1, <4>3
      <4> QED
        BY <3>1, <4>1, <4>4
    <3> QED
      BY <1>1, <1>4, <2>1, <3>2, OldMail, MailsThen
  <2> QED
    BY <2>6, <2>7, <2>8, <2>9, <2>11, <2>12, <2>13, <2>14 DEF Inv
<1> QED
  BY <1>3, <1>4, SendEffect

LEMMA SendReturnsPreserves ==
  ASSUME Inv, NEW c \in Client, SendReturns(c)
  PROVE  Inv'
<1>1. /\ TypeOK /\ PacketIsSignalled /\ TokensMatchSenders /\ OnlyHaltStops
      /\ GoodMails /\ Exchange /\ Posted /\ Chosen /\ IsFiniteSet(sending)
  BY DEF Inv
<1>2. /\ Host[c] \in up /\ c \in sending /\ sent[Host[c]] > 0
      /\ sent' = [sent EXCEPT ![Host[c]] = sent[Host[c]] - 1]
      /\ sending' = sending \ {c}
      /\ UNCHANGED <<lossy, rules, sock, inbox, outgoing, available, worker, boxes, ops, reply,
                     posted, up>>
  BY DEF SendReturns, netVars
<1>3. Host[c] \in Machine /\ sent[Host[c]] \in Nat
  BY <1>1, HostTyped DEF TypeOK
<1>4. TypeOK'
  <2>1. sent' \in [Machine -> Nat] /\ sending' \subseteq Client
    BY <1>1, <1>2, <1>3 DEF TypeOK
  <2> QED
    BY <1>1, <1>2, <2>1 DEF TypeOK
<1>5. TokensMatchSenders'
  <2> SUFFICES ASSUME NEW n \in up
               PROVE  Cardinality({d \in sending' : Host[d] = n})
                        = sent'[n] + outgoing[n]
    BY <1>2 DEF TokensMatchSenders
  <2>1. n \in Machine /\ sent[n] \in Nat /\ outgoing[n] \in Nat
    BY <1>1 DEF TypeOK
  <2>2. Cardinality({d \in sending : Host[d] = n}) = sent[n] + outgoing[n]
    BY <1>1 DEF TokensMatchSenders
  <2>3. CASE n = Host[c]
    <3>1. {d \in sending' : Host[d] = n} = {d \in sending : Host[d] = n} \ {c}
      BY <1>2, <2>3
    <3>2. IsFiniteSet({d \in sending : Host[d] = n}) /\ c \in {d \in sending : Host[d] = n}
      BY <1>1, <1>2, <2>3, FS_Subset
    <3>3. Cardinality({d \in sending : Host[d] = n} \ {c})
            = Cardinality({d \in sending : Host[d] = n}) - 1
      BY <3>2, FS_RemoveElement
    <3>4. sent'[n] = sent[n] - 1
      BY <1>1, <1>2, <2>1, <2>3 DEF TypeOK
    <3>5. PICK senders : senders = Cardinality({d \in sending : Host[d] = n})
      OBVIOUS
    <3>6. senders = sent[n] + outgoing[n]
      BY <2>2, <3>5, Zenon
    <3>7. Cardinality({d \in sending' : Host[d] = n}) = senders - 1
      BY <3>1, <3>3, <3>5, Zenon
    <3>8. senders - 1 = sent'[n] + outgoing[n]
      BY <2>1, <3>4, <3>6
    <3> QED
      BY <3>7, <3>8, Zenon
  <2>4. CASE n # Host[c]
    <3>1. {d \in sending' : Host[d] = n} = {d \in sending : Host[d] = n}
      BY <1>2, <2>4
    <3>2. sent'[n] = sent[n]
      BY <1>1, <1>2, <2>1, <2>4 DEF TypeOK
    <3> QED
      BY <2>2, <3>1, <3>2
  <2> QED
    BY <2>3, <2>4
<1>6. PacketIsSignalled' /\ OnlyHaltStops' /\ Exchange' /\ Posted' /\ Chosen'
  BY <1>1, <1>2 DEF PacketIsSignalled, OnlyHaltStops, Exchange, Posted, Chosen
<1>7. IsFiniteSet(sending')
  BY <1>1, <1>2, FS_RemoveElement
<1>8. GoodMails'
  BY <1>1, <1>2 DEF GoodMails, GoodMail
<1> QED
  BY <1>4, <1>5, <1>6, <1>7, <1>8 DEF Inv

(* The two outcomes of Receive.                                            *)
LEMMA ReceiveEffect ==
  ASSUME TypeOK, NEW c \in Client, NEW b \in Box, Receive(c, b)
  PROVE  /\ ops[c] < MaxOps /\ ops' = [ops EXCEPT ![c] = ops[c] + 1]
         /\ "mailtest" \in rules => c \in Tester /\ ops[c] < TestCalls /\ <<"Receive", b>> = MailTest(c, ops[c] + 1)
         /\ \/ /\ "patient" \notin rules
               /\ Abort(Host[c])
            \/ /\ boxes[Host[c]][b] # <<>>
               /\ boxes' = [boxes EXCEPT ![Host[c]][b] = Tail(boxes[Host[c]][b])]
               /\ reply' = [reply EXCEPT ![c] = Head(boxes[Host[c]][b]).reply]
               /\ UNCHANGED <<lossy, rules, sock, inbox, outgoing, available, sent, worker,
                              sending, posted, up>>
<1>1. /\ ops[c] < MaxOps
      /\ "mailtest" \in rules => c \in Tester /\ ops[c] < TestCalls /\ <<"Receive", b>> = MailTest(c, ops[c] + 1)
  BY DEF Receive, MayCall
<1>2. /\ "patient" \in rules => boxes[Host[c]][b] # <<>>
      /\ ops' = [ops EXCEPT ![c] = ops[c] + 1]
      /\ IF boxes[Host[c]][b] = <<>>
         THEN Abort(Host[c])
         ELSE /\ Get(c, b)
              /\ UNCHANGED <<lossy, rules, netVars, available, sent, worker, sending, posted, up>>
  BY DEF Receive
<1> QED
  BY <1>1, <1>2 DEF Get, ListRemove, netVars

LEMMA ReceivePreserves ==
  ASSUME Inv, NEW c \in Client, NEW b \in Box, Receive(c, b)
  PROVE  Inv'
<1>1. /\ TypeOK /\ PacketIsSignalled /\ TokensMatchSenders /\ OnlyHaltStops
      /\ GoodMails /\ Exchange /\ Posted /\ Chosen /\ IsFiniteSet(sending)
  BY DEF Inv
<1>2. /\ ops[c] < MaxOps /\ ops' = [ops EXCEPT ![c] = ops[c] + 1]
      /\ "mailtest" \in rules => c \in Tester /\ ops[c] < TestCalls /\ <<"Receive", b>> = MailTest(c, ops[c] + 1)
      /\ Host[c] \in Machine
  BY <1>1, ReceiveEffect, HostTyped
<1>3. CASE "patient" \notin rules /\ Abort(Host[c])
  BY <1>2, <1>3, AbortPreserves
<1>4. CASE /\ boxes[Host[c]][b] # <<>>
           /\ boxes' = [boxes EXCEPT ![Host[c]][b] = Tail(boxes[Host[c]][b])]
           /\ reply' = [reply EXCEPT ![c] = Head(boxes[Host[c]][b]).reply]
           /\ UNCHANGED <<lossy, rules, sock, inbox, outgoing, available, sent, worker,
                          sending, posted, up>>
  <2>1. /\ ops' \in [Client -> 0 .. MaxOps] /\ ops'[c] = ops[c] + 1 /\ ops[c] \in 0 .. MaxOps - 1
        /\ Later
    BY <1>1, <1>2, <1>4, Counted DEF Later
  <2>2. PICK m \in Machine, list \in Seq(Mail) : m = Host[c] /\ list = boxes[m][b]
    BY <1>1, <1>2 DEF TypeOK
  <2>3. /\ list # <<>> /\ Tail(list) \in Seq(Mail) /\ Len(list) \in Nat /\ Len(list) > 0
        /\ Len(Tail(list)) = Len(list) - 1
        /\ \A i \in 1 .. Len(list) - 1 : Tail(list)[i] = list[i + 1]
    BY <1>4, <2>2
  <2>4. PICK mail \in Mail : mail = Head(list) /\ mail = list[1]
    BY <2>2, <2>3
  <2>5. /\ GoodMail(m, mail) /\ mail.box = b /\ mail.reply = 1
        /\ mail.data[1] \in Client /\ mail.from = Host[mail.data[1]]
    <3>1. 1 \in 1 .. Len(boxes[m][b]) /\ boxes[m][b][1] = mail
      BY <2>2, <2>3, <2>4
    <3>2. GoodMail(m, mail) /\ mail.box = b
      BY <1>1, <3>1 DEF GoodMails
    <3> QED
      BY <3>2, MailFields DEF GoodMail
  <2>6. /\ boxes' = [boxes EXCEPT ![m][b] = Tail(list)]
        /\ reply' = [reply EXCEPT ![c] = 1]
    BY <1>4, <2>2, <2>4, <2>5
  <2>7. boxes' \in [Machine -> [Box -> Seq(Mail)]]
    BY <1>1, <2>3, <2>6 DEF TypeOK
  <2>8. reply' \in [Client -> Box]
    BY <1>1, <2>6, PostAssumption DEF TypeOK
  <2>9. TypeOK'
    BY <1>1, <1>4, <2>1, <2>7, <2>8 DEF TypeOK
  <2>10. PacketIsSignalled' /\ TokensMatchSenders' /\ Chosen' /\ IsFiniteSet(sending')
    BY <1>1, <1>4 DEF PacketIsSignalled, TokensMatchSenders, Chosen
  <2>11. OnlyHaltStops'
    <3>1. "mailtest" \in rules => \A d \in Client : ops[d] = TestCalls => ops'[d] = TestCalls
      BY <1>1, <1>2 DEF TypeOK
    <3> QED
      BY <1>1, <1>4, <3>1, TesterIsClient DEF OnlyHaltStops
  <2>12. Posted'
    BY <1>1, <1>4, <2>1, PostedStay DEF Posted
  <2>13. Exchange'
    <3> SUFFICES ASSUME Rule \subseteq rules, NEW d \in Tester
                 PROVE  /\ ops'[d] >= 2 => reply'[d] = 1
                        /\ ops'[d] = TestCalls => \A e \in Tester : Host[e] # Host[d] => ops'[e] >= 3
      BY <1>4 DEF Exchange
    <3>1. "mailtest" \in rules /\ c \in Tester /\ ((ops[c] = 1 /\ b = 0) \/ (ops[c] = 3 /\ b = 1))
      <4>1. ops[c] \in 0 .. 3
        BY <1>2, <2>1 DEF Rule, TestCalls
      <4> QED
        BY <1>2, <4>1, MailTestReceives DEF Rule
    <3>2. \A e \in Tester : e \in Client /\ ops[e] \in 0 .. MaxOps /\ ops'[e] \in 0 .. MaxOps /\ ops'[e] >= ops[e]
      BY <1>1, <2>1, TesterIsClient DEF Later, TypeOK
    <3>3. d # c => ops'[d] = ops[d] /\ reply'[d] = reply[d]
      BY <1>1, <1>2, <2>6, <3>2 DEF TypeOK
    <3>4. reply'[c] = 1
      BY <1>1, <2>6 DEF TypeOK
    <3>5. /\ ops[d] >= 2 => reply[d] = 1
          /\ ops[d] = TestCalls => \A e \in Tester : Host[e] # Host[d] => ops[e] >= 3
      BY <1>1 DEF Exchange
    <3>6. ASSUME d = c, ops'[d] = TestCalls, NEW e \in Tester, Host[e] # Host[d]
          PROVE  ops[e] >= 3
      <4>1. b = 1
        BY <2>1, <3>1, <3>6 DEF TestCalls
      <4>2. mail.data[1] \in Tester /\ mail.from # m /\ ops[mail.data[1]] >= 3
        BY <2>5, <4>1 DEF GoodMail
      <4>3. Host[mail.data[1]] = Host[e]
        BY <1>1, <2>2, <2>5, <3>1, <3>6, <4>2, HostTyped, TesterIsClient, TwoMachines
      <4> QED
        BY <4>2, <4>3, Testers
    <3> QED
      BY <3>2, <3>3, <3>4, <3>5, <3>6 DEF TestCalls
  <2>14. GoodMails'
    <3>1. ASSUME NEW n \in Machine, NEW x \in Box, NEW i \in 1 .. Len(boxes'[n][x])
          PROVE  GoodThen(n, boxes'[n][x][i]) /\ boxes'[n][x][i].box = x
      <4>1. \A j \in 1 .. Len(boxes[n][x]) : GoodThen(n, boxes[n][x][j]) /\ boxes[n][x][j].box = x
        BY <1>1, <2>1, OldMail
      <4>2. CASE n = m /\ x = b
        <5>1. boxes'[n][x] = Tail(list)
          BY <1>1, <2>6, <4>2 DEF TypeOK
        <5>2. i + 1 \in 1 .. Len(list) /\ boxes'[n][x][i] = list[i + 1]
          BY <2>3, <5>1
        <5> QED
          BY <2>2, <4>1, <4>2, <5>2
      <4>3. CASE ~(n = m /\ x = b)
        <5>1. boxes'[n][x] = boxes[n][x]
          BY <1>1, <2>6, <4>3 DEF TypeOK
        <5> QED
          BY <4>1, <5>1
      <4> QED
        BY <4>2, <4>3
    <3> QED
      BY <1>1, <1>4, <2>1, <3>1, OldMail, MailsThen
  <2> QED
    BY <2>9, <2>10, <2>11, <2>12, <2>13, <2>14 DEF Inv
<1> QED
  BY <1>1, <1>3, <1>4, ReceiveEffect

LEMMA HaltPreserves ==
  ASSUME Inv, NEW c \in Client, Halt(c)
  PROVE  Inv'
<1>1. /\ TypeOK /\ PacketIsSignalled /\ TokensMatchSenders /\ OnlyHaltStops
      /\ GoodMails /\ Exchange /\ Posted /\ Chosen /\ IsFiniteSet(sending)
  BY DEF Inv
<1>2. /\ "mailtest" \in rules /\ c \in Tester /\ ops[c] = TestCalls /\ up' = up \ {Host[c]}
      /\ UNCHANGED <<lossy, rules, sock, inbox, outgoing, available, sent, worker, boxes,
                     sending, ops, reply, posted>>
  BY DEF Halt, Abort, netVars, officeVars
<1>3. TypeOK' /\ PacketIsSignalled' /\ TokensMatchSenders' /\ IsFiniteSet(sending')
  BY <1>1, <1>2 DEF TypeOK, PacketIsSignalled, TokensMatchSenders
<1>4. OnlyHaltStops'
  <2>1. \A d \in Tester : Host[d] = Host[c] => ops[d] = TestCalls
    BY <1>2, Testers
  <2> QED
    BY <1>1, <1>2, <2>1 DEF OnlyHaltStops
<1>5. GoodMails' /\ Exchange' /\ Posted' /\ Chosen'
  BY <1>1, <1>2 DEF GoodMails, GoodMail, Exchange, Posted, Chosen
<1> QED
  BY <1>3, <1>4, <1>5 DEF Inv
-----------------------------------------------------------------------------
LEMMA InitInv == Init => Inv
<1> SUFFICES ASSUME Init PROVE Inv
  OBVIOUS
<1>1. lossy \in BOOLEAN /\ rules \subseteq Rule /\ Chosen
  <2>1. PICK s \in Settings : lossy = s.lossy /\ rules = s.rules
    BY DEF Init
  <2>2. s \in [lossy : BOOLEAN, rules : SUBSET Rule]
    BY PostAssumption
  <2>3. s = [lossy |-> s.lossy, rules |-> s.rules] /\ s.lossy \in BOOLEAN /\ s.rules \subseteq Rule
    BY <2>2
  <2> QED
    BY <2>1, <2>3 DEF Chosen
<1>2. TypeOK
  BY <1>1, PostAssumption DEF Init, NetworkInit, MailBoxInit, TypeOK
<1>3. PacketIsSignalled
  BY DEF Init, NetworkInit, PacketIsSignalled
<1>4. TokensMatchSenders /\ IsFiniteSet(sending)
  <2>1. sending = {} /\ \A m \in Machine : {c \in sending : Host[c] = m} = {}
    BY DEF Init
  <2>2. up = Machine /\ \A m \in Machine : sent[m] = 0 /\ outgoing[m] = 0
    BY DEF Init, NetworkInit
  <2>3. Cardinality({}) = 0 /\ IsFiniteSet({})
    BY FS_EmptySet
  <2>4. \A m \in up : Cardinality({c \in sending : Host[c] = m}) = sent[m] + outgoing[m]
    BY <2>1, <2>2, <2>3
  <2> QED
    BY <2>1, <2>3, <2>4 DEF TokensMatchSenders
<1>5. OnlyHaltStops /\ Exchange /\ Posted
  BY TesterIsClient DEF Init, OnlyHaltStops, Exchange, Posted, TestCalls
<1>6. GoodMails
  BY DEF Init, NetworkInit, MailBoxInit, GoodMails
<1> QED
  BY <1>1, <1>2, <1>3, <1>4, <1>5, <1>6 DEF Inv

LEMMA NextInv == Inv /\ [Next]_vars => Inv'
<1> SUFFICES ASSUME Inv, [Next]_vars PROVE Inv'
  OBVIOUS
<1>1. CASE UNCHANGED vars
  <2>1. UNCHANGED <<lossy, rules, sock, inbox, outgoing, available, sent, worker, boxes,
                    sending, ops, reply, posted, up>>
    BY <1>1 DEF vars, netVars, officeVars, clientVars
  <2> QED
    BY <2>1 DEF Inv, TypeOK, PacketIsSignalled, TokensMatchSenders, OnlyHaltStops,
       GoodMails, GoodMail, Exchange, Posted, Chosen
<1>2. ASSUME NEW m \in Machine, DeviceStep(m) \/ WorkerStep(m)
      PROVE  Inv'
  BY <1>2, CheckPktAvailPreserves, SendDonePreserves, WorkerWakesPreserves,
     PostalDeliveryPreserves DEF DeviceStep, WorkerStep
<1>3. ASSUME NEW c \in Client, ClientStep(c)
      PROVE  Inv'
  BY <1>3, SendBeginsPreserves, SendReturnsPreserves, ReceivePreserves, HaltPreserves
     DEF ClientStep
<1> QED
  BY <1>1, <1>2, <1>3 DEF Next

THEOREM Invariance == Spec => []Inv
BY InitInv, NextInv, PTL DEF Spec

(* Whatever the clients do, a post office never loses count: the worker    *)
(* has been told of exactly the packet in the buffer, and the clients in   *)
(* Send are those that a packet sent, or on its way out, will release.     *)
(* Clients that wait for mail never fail an ASSERT, however their Sends    *)
(* overlap, and MailTest never sends to a machine that has halted.         *)
THEOREM PostIsSafe == Spec => []PostInv
<1>1. Inv => PostInv
  BY DEF Inv, PostInv
<1> QED
  BY <1>1, Invariance, PTL
-----------------------------------------------------------------------------
(* Refinement: transit is the buffer of the device and then the socket.    *)

LEMMA TransitIs ==
  ASSUME TypeOK, NEW m \in Machine
  PROVE  /\ sock[m] \in Seq(Mail)
         /\ inbox[m] = NoMail => transit[m] = sock[m]
         /\ inbox[m] # NoMail => inbox[m] \in Mail /\ transit[m] = <<inbox[m]>> \o sock[m]
BY DEF TypeOK, transit

LEMMA TransitThen ==
  ASSUME TypeOK', NEW m \in Machine
  PROVE  /\ inbox'[m] = NoMail => transit'[m] = sock'[m]
         /\ inbox'[m] # NoMail => transit'[m] = <<inbox'[m]>> \o sock'[m]
BY DEF TypeOK, transit

LEMMA TransitSame ==
  ASSUME UNCHANGED <<sock, inbox>>
  PROVE  transit' = transit
BY DEF transit

(* A poll moves a packet from the socket to the buffer, nothing more.      *)
LEMMA CheckPktAvailStutters ==
  ASSUME TypeOK, TypeOK', NEW m \in Machine, CheckPktAvail(m)
  PROVE  UNCHANGED <<lossy, posted, transit, boxes>>
<1>1. /\ inbox[m] = NoMail /\ sock[m] # <<>>
      /\ inbox' = [inbox EXCEPT ![m] = Head(sock[m])]
      /\ sock' = [sock EXCEPT ![m] = Tail(sock[m])]
      /\ UNCHANGED <<lossy, boxes, posted>>
  BY DEF CheckPktAvail, PollSocket, ReadFromSocket, clientVars
<1>2. ASSUME NEW n \in Machine PROVE transit'[n] = transit[n]
  <2>1. CASE n = m
    <3>0. sock[m] \in Seq(Mail) /\ transit[m] = sock[m]
      BY <1>1, TransitIs
    <3>1. sock[m] \in Seq(Mail) /\ Head(sock[m]) \in Mail /\ transit[m] = sock[m]
      BY <1>1, <3>0
    <3>2. /\ inbox'[m] = Head(sock[m]) /\ sock'[m] = Tail(sock[m])
      BY <1>1 DEF TypeOK
    <3>3. transit'[m] = <<Head(sock[m])>> \o Tail(sock[m])
      BY <3>1, <3>2, TransitThen, NoMailAssumption
    <3> QED
      BY <1>1, <2>1, <3>1, <3>3
  <2>2. CASE n # m
    <3>1. inbox'[n] = inbox[n] /\ sock'[n] = sock[n]
      BY <1>1, <2>2 DEF TypeOK
    <3> QED
      BY <3>1, TransitIs, TransitThen
  <2> QED
    BY <2>1, <2>2
<1>3. transit' = transit
  BY <1>2 DEF transit
<1> QED
  BY <1>1, <1>3

LEMMA PostalDeliveryDelivers ==
  ASSUME TypeOK, TypeOK', GoodMails, NEW m \in Machine, PostalDelivery(m)
  PROVE  Abstract!Deliver(m)
<1>1. PICK mail \in Mail :
         /\ mail = inbox[m] /\ mail.box \in Box
         /\ inbox' = [inbox EXCEPT ![m] = NoMail]
         /\ boxes' = [boxes EXCEPT ![m][mail.box] = Append(boxes[m][mail.box], mail)]
         /\ UNCHANGED <<lossy, sock, posted>>
  BY PostalDeliveryEffect
<1>2. sock[m] \in Seq(Mail) /\ transit[m] = <<mail>> \o sock[m]
  BY <1>1, TransitIs, NoMailAssumption
<1>3. transit[m] # <<>> /\ Head(transit[m]) = mail /\ Tail(transit[m]) = sock[m]
  BY <1>2
<1>4. transit' = [transit EXCEPT ![m] = Tail(transit[m])]
  <2>1. ASSUME NEW n \in Machine
        PROVE  transit'[n] = IF n = m THEN sock[m] ELSE transit[n]
    <3>1. inbox'[n] = (IF n = m THEN NoMail ELSE inbox[n]) /\ sock'[n] = sock[n]
      BY <1>1 DEF TypeOK
    <3> QED
      BY <3>1, TransitIs, TransitThen
  <2> QED
    BY <1>3, <2>1 DEF transit
<1> QED
  BY <1>1, <1>3, <1>4 DEF Abstract!Deliver

(* A Send that fails no ASSERT posts new data, and loses it or appends it. *)
LEMMA SendBeginsSends ==
  ASSUME Inv, TypeOK', NEW c \in Client, NEW to \in Machine, NEW b \in Box,
         SendBegins(c, to, b, 1)
  PROVE  \/ \E mail \in Mail : Abstract!Send(mail)
         \/ UNCHANGED <<lossy, posted, transit, boxes>>
<1>1. TypeOK /\ Posted
  BY DEF Inv
<1> DEFINE mail == [to |-> to, from |-> Host[c], box |-> b, reply |-> 1, data |-> <<c, ops[c] + 1>>]
<1>2. ops[c] \in 0 .. MaxOps - 1
  <2>1. ops[c] < MaxOps
    BY SendEffect
  <2> QED
    BY <1>1, <2>1, MaxOpsIsNat DEF TypeOK
<1>3. mail \in Mail /\ mail.to = to /\ mail.data = <<c, ops[c] + 1>>
  <2>1. ops[c] + 1 \in 1 .. MaxOps
    BY <1>2, MaxOpsIsNat
  <2> QED
    BY <2>1, NewMail
<1>4. <<c, ops[c] + 1>> \notin posted
  BY <1>1, <1>2 DEF Posted
<1>5. CASE Abort(Host[c])
  BY <1>5, TransitSame DEF Abort, netVars, officeVars
<1>6. CASE /\ (lossy /\ sock' = sock) \/ sock' = [sock EXCEPT ![to] = Append(sock[to], mail)]
           /\ posted' = posted \cup {<<c, ops[c] + 1>>}
           /\ UNCHANGED <<lossy, inbox, boxes>>
  <2> HIDE DEF mail
  <2>1. CASE lossy /\ sock' = sock
    BY <1>3, <1>4, <1>6, <2>1, TransitSame DEF Abstract!Send
  <2>2. CASE sock' = [sock EXCEPT ![to] = Append(sock[to], mail)]
    <3>1. ASSUME NEW n \in Machine
          PROVE  transit'[n] = IF n = to THEN Append(transit[to], mail) ELSE transit[n]
      <4>1. /\ inbox'[n] = inbox[n]
            /\ sock'[n] = IF n = to THEN Append(sock[n], mail) ELSE sock[n]
        BY <1>1, <1>6, <2>2 DEF TypeOK
      <4>2. sock[n] \in Seq(Mail)
        BY <1>1 DEF TypeOK
      <4>3. CASE inbox[n] = NoMail
        BY <1>1, <4>1, <4>3, TransitIs, TransitThen
      <4>4. CASE inbox[n] # NoMail
        <5>1. inbox[n] \in Mail /\ transit[n] = <<inbox[n]>> \o sock[n]
          BY <1>1, <4>4, TransitIs
        <5>2. transit'[n] = <<inbox[n]>> \o sock'[n]
          BY <4>1, <4>4, TransitThen
        <5>3. <<inbox[n]>> \o Append(sock[n], mail) = Append(<<inbox[n]>> \o sock[n], mail)
          BY <1>3, <4>2, <5>1
        <5> QED
          BY <4>1, <5>1, <5>2, <5>3
      <4> QED
        BY <4>3, <4>4
    <3>2. transit' = [transit EXCEPT ![to] = Append(transit[to], mail)]
      BY <3>1 DEF transit
    <3> QED
      BY <1>3, <1>4, <1>6, <3>2 DEF Abstract!Send
  <2> QED
    BY <1>6, <2>1, <2>2
<1> QED
  BY <1>5, <1>6, SendEffect

LEMMA ReceiveReceives ==
  ASSUME TypeOK, NEW c \in Client, NEW b \in Box, Receive(c, b)
  PROVE  \/ Abstract!Receive(Host[c], b)
         \/ UNCHANGED <<lossy, posted, transit, boxes>>
<1>1. CASE Abort(Host[c])
  BY <1>1, TransitSame DEF Abort, netVars, officeVars
<1>2. CASE /\ boxes[Host[c]][b] # <<>>
           /\ boxes' = [boxes EXCEPT ![Host[c]][b] = Tail(boxes[Host[c]][b])]
           /\ UNCHANGED <<lossy, sock, inbox, posted>>
  BY <1>2, TransitSame DEF Abstract!Receive
<1> QED
  BY <1>1, <1>2, ReceiveEffect

LEMMA StepRefines == Inv /\ Inv' /\ [Next]_vars => [Abstract!Next]_(Abstract!mailVars)
<1> SUFFICES ASSUME Inv, Inv', [Next]_vars
             PROVE  Abstract!Next \/ UNCHANGED <<lossy, posted, transit, boxes>>
  BY DEF Abstract!mailVars
<1>1. TypeOK /\ TypeOK' /\ GoodMails
  BY DEF Inv
<1>2. CASE UNCHANGED vars
  BY <1>2, TransitSame DEF vars, netVars, officeVars, clientVars
<1>3. ASSUME NEW m \in Machine, CheckPktAvail(m)
      PROVE  UNCHANGED <<lossy, posted, transit, boxes>>
  BY <1>1, <1>3, CheckPktAvailStutters
<1>4. ASSUME NEW m \in Machine, SendDone(m) \/ WorkerWakes(m)
      PROVE  UNCHANGED <<lossy, posted, transit, boxes>>
  BY <1>4, TransitSame DEF SendDone, WorkerWakes, netVars, clientVars
<1>5. ASSUME NEW m \in Machine, PostalDelivery(m)
      PROVE  Abstract!Next
  BY <1>1, <1>5, PostalDeliveryDelivers DEF Abstract!Next
<1>6. ASSUME NEW c \in Client, NEW to \in Machine, NEW b \in Box,
             SendBegins(c, to, b, 1)
      PROVE  Abstract!Next \/ UNCHANGED <<lossy, posted, transit, boxes>>
  BY <1>1, <1>6, SendBeginsSends DEF Abstract!Next
<1>7. ASSUME NEW c \in Client, SendReturns(c) \/ Halt(c)
      PROVE  UNCHANGED <<lossy, posted, transit, boxes>>
  BY <1>7, TransitSame DEF SendReturns, Halt, Abort, netVars, officeVars
<1>8. ASSUME NEW c \in Client, NEW b \in Box, Receive(c, b)
      PROVE  Abstract!Next \/ UNCHANGED <<lossy, posted, transit, boxes>>
  BY <1>1, <1>8, HostTyped, ReceiveReceives DEF Abstract!Next
<1> QED
  BY <1>2, <1>3, <1>4, <1>5, <1>6, <1>7, <1>8 DEF Next, DeviceStep, WorkerStep, ClientStep

LEMMA InitRefines == Init => Abstract!Init
<1> SUFFICES ASSUME Init PROVE Abstract!Init
  OBVIOUS
<1>1. lossy \in BOOLEAN
  BY InitInv DEF Inv, TypeOK
<1>2. transit = [m \in Machine |-> <<>>]
  BY DEF Init, NetworkInit, transit
<1> QED
  BY <1>1, <1>2 DEF Init, MailBoxInit, Abstract!Init

(* Post offices, their devices and their sockets implement LossyMail: a    *)
(* mail is lost when it is sent or delivered once, behind all mail sent to *)
(* that machine before it, whatever the clients do and whichever machines  *)
(* stop.                                                                   *)
THEOREM PostImplementsLossyMail == Spec => ImplementsLossyMail
<1>1. Init => Abstract!Init
  BY InitRefines
<1>2. Inv /\ Inv' /\ [Next]_vars => [Abstract!Next]_(Abstract!mailVars)
  BY StepRefines
<1> QED
  BY <1>1, <1>2, Invariance, PTL DEF Spec, ImplementsLossyMail, Abstract!Spec
=============================================================================
