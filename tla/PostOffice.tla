----------------------------- MODULE PostOffice -----------------------------
(***************************************************************************)
(* Post offices on several machines (network/post.cc), each on a simulated *)
(* network device (machine/network.cc) over a UNIX datagram socket, with   *)
(* mailboxes that are synchronised lists (threads/synchlist.cc), and the   *)
(* program of network/nettest.cc as a client.                              *)
(*                                                                         *)
(* A machine is one process of the host.  Its threads and its interrupt    *)
(* handlers interleave where interrupts can come: when P() returns.        *)
(* Lock is empty and Condition::Wait fails an ASSERT in this repository,   *)
(* so Send is Network::Send followed by P(), and Receive fails when the    *)
(* box is empty.  Nor does Network::Send set sendBusy, which it asserts to *)
(* be FALSE: Sends of one machine overlap, and each has an interrupt       *)
(* pending.  A failed ASSERT ends the machine.  When the next packet is    *)
(* polled and when a packet counts as sent depend on simulated clocks that *)
(* run apart on every machine: here they come at any time.                 *)
(***************************************************************************)
EXTENDS Integers, Sequences, FiniteSets, Functions

CONSTANTS
    Machine,    \* network addresses
    Client,     \* threads that call Send and Receive
    Host,       \* Host[c]: the machine of client c
    Tester,     \* the clients that run MailTest, one on each machine
    Caller,     \* bound: the clients that make calls, when not those of MailTest
    Box,        \* mailbox numbers; 0 and 1 at least
    Settings,   \* the combinations of loss and rules to consider
    MaxOps,     \* bound: calls of each client
    MaxCalls,   \* bound: calls of all clients together, when not those of MailTest
    NoMail

\* "patient": Receive is called only for a box with mail, which is what a working
\* Condition::Wait would achieve.  "mailtest": the clients are those of nettest.cc.
Rule == {"patient", "mailtest"}

\* The calls that MailTest makes.
TestCalls == 4

ASSUME PostAssumption ==
    /\ Host \in [Client -> Machine] /\ Tester \subseteq Client
    /\ \A m \in Machine : \E c \in Tester : {d \in Tester : Host[d] = m} = {c}
    /\ Settings \subseteq [lossy : BOOLEAN, rules : SUBSET Rule]
    \* MailTest is run by two copies of Nachos (nettest.cc).
    /\ (\E s \in Settings : "mailtest" \in s.rules) => \E m, far \in Machine : Machine = {m, far}
    /\ {0, 1} \subseteq Box
    /\ MaxOps \in Nat /\ MaxOps >= TestCalls /\ MaxCalls \in Nat

\* The data of a mail: whose, and which of his calls.
Data == Client \X (1 .. MaxOps)

\* A packet: PacketHeader (to, from), MailHeader (box, reply) and data.
Mail ==
    {mail \in [to : Machine, from : Machine, box : Box, reply : {1}, data : Data] :
        mail.from = Host[mail.data[1]]}
ASSUME NoMailAssumption == NoMail \notin Mail

VARIABLES
    lossy,          \* chanceToWork < 1
    rules,          \* how the clients behave, see Rule
    sock,           \* packets in each machine's socket
    inbox,          \* Network::inHdr and inbox: a packet, or NoMail for length 0
    outgoing,       \* packets whose NetworkSendDone interrupt is pending
    available,      \* the value of PostOffice::messageAvailable
    sent,           \* the value of PostOffice::messageSent
    worker,         \* postal worker: "waits" in P(), or "woken" after it
    boxes,          \* the lists of the mailboxes
    sending,        \* clients inside Send, waiting for messageSent
    ops,            \* calls each client has made
    reply,          \* MailTest: where the far machine wants its acknowledgement
    up,             \* machines that run
    posted          \* observed only: the data of all mail passed to Network::Send

netVars == <<sock, inbox, outgoing>>
officeVars == <<available, sent, worker, boxes>>
clientVars == <<sending, ops, reply, posted>>
vars == <<lossy, rules, netVars, officeVars, clientVars, up>>

NetworkInit ==
    /\ sock = [m \in Machine |-> <<>>]
    /\ inbox = [m \in Machine |-> NoMail]
    /\ outgoing = [m \in Machine |-> 0]

MailBoxInit == boxes = [m \in Machine |-> [b \in Box |-> <<>>]]

Init ==
    /\ \E s \in Settings : lossy = s.lossy /\ rules = s.rules
    /\ NetworkInit
    /\ MailBoxInit
    /\ available = [m \in Machine |-> 0]
    /\ sent = [m \in Machine |-> 0]
    /\ worker = [m \in Machine |-> "waits"]
    /\ sending = {}
    /\ ops = [c \in Client |-> 0]
    /\ reply = [c \in Client |-> 0]
    /\ up = Machine
    /\ posted = {}

-----------------------------------------------------------------------------
(* The socket: datagrams arrive in the order they were sent. *)

PollSocket(m) == sock[m] # <<>>

ReadFromSocket(m) ==
    /\ inbox' = [inbox EXCEPT ![m] = Head(sock[m])]
    /\ sock' = [sock EXCEPT ![m] = Tail(@)]

SendToSocket(mail) == sock' = [sock EXCEPT ![mail.to] = Append(@, mail)]

-----------------------------------------------------------------------------
(* Interrupts of the network, with the handlers of PostOffice *)

\* Faulty variant of IncomingPacket: no V().
IncomingPacketSilent(m) == UNCHANGED available

IncomingPacket(m) == available' = [available EXCEPT ![m] = @ + 1]

\* Faulty variant of CheckPktAvail: it reads a packet into a buffer that is full.
CheckPktAvailOver(m) ==
    /\ m \in up
    /\ PollSocket(m)
    /\ ReadFromSocket(m)
    /\ IncomingPacket(m)
    /\ UNCHANGED <<lossy, rules, outgoing, sent, worker, boxes, clientVars, up>>

\* Network::CheckPktAvail.
CheckPktAvail(m) ==
    /\ m \in up
    /\ inbox[m] = NoMail
    /\ PollSocket(m)
    /\ ReadFromSocket(m)
    /\ IncomingPacket(m)
    /\ UNCHANGED <<lossy, rules, outgoing, sent, worker, boxes, clientVars, up>>

PacketSent(m) == sent' = [sent EXCEPT ![m] = @ + 1]

\* Network::SendDone.
SendDone(m) ==
    /\ m \in up
    /\ outgoing[m] > 0
    /\ outgoing' = [outgoing EXCEPT ![m] = @ - 1]
    /\ PacketSent(m)
    /\ UNCHANGED <<lossy, rules, sock, inbox, available, worker, boxes, clientVars, up>>

-----------------------------------------------------------------------------
(* The postal worker *)

\* messageAvailable->P() returns.
WorkerWakes(m) ==
    /\ m \in up
    /\ worker[m] = "waits" /\ available[m] > 0
    /\ available' = [available EXCEPT ![m] = @ - 1]
    /\ worker' = [worker EXCEPT ![m] = "woken"]
    /\ UNCHANGED <<lossy, rules, netVars, sent, boxes, clientVars, up>>

\* SynchList::Append, whose Signal does nothing.
ListAppend(list, item) == Append(list, item)

\* MailBox::Put.
Put(m, mail) == boxes' = [boxes EXCEPT ![m][mail.box] = ListAppend(@, mail)]

\* Network::Receive empties the buffer.
NetworkReceive(m) == inbox' = [inbox EXCEPT ![m] = NoMail]

\* One round of PostalDelivery.
PostalDelivery(m) ==
    /\ m \in up
    /\ worker[m] = "woken" /\ inbox[m] # NoMail
    /\ NetworkReceive(m)
    /\ Put(m, inbox[m])
    /\ worker' = [worker EXCEPT ![m] = "waits"]
    /\ UNCHANGED <<lossy, rules, sock, outgoing, available, sent, clientVars, up>>

-----------------------------------------------------------------------------
(* Clients *)

Idle(c) == Host[c] \in up /\ c \notin sending

\* Faulty variant of MailTest: the acknowledgement goes to the box of messages.
MailTestAckToZero(c, n) ==
    CASE n = 1 -> <<"Send", 0>>
      [] n = 2 -> <<"Receive", 0>>
      [] n = 3 -> <<"Send", 0>>
      [] n = 4 -> <<"Receive", 1>>

\* The n-th call of MailTest, a send or a receive, with its box.
MailTest(c, n) ==
    CASE n = 1 -> <<"Send", 0>>
      [] n = 2 -> <<"Receive", 0>>
      [] n = 3 -> <<"Send", reply[c]>>
      [] n = 4 -> <<"Receive", 1>>

Calls == FoldFunction(LAMBDA a, b : a + b, 0, ops)

\* The client may make this call now.
MayCall(c, call) ==
    /\ Idle(c)
    /\ ops[c] < MaxOps
    /\ IF "mailtest" \in rules
       THEN c \in Tester /\ ops[c] < TestCalls /\ call = MailTest(c, ops[c] + 1)
       ELSE c \in Caller /\ Calls < MaxCalls

\* A failed ASSERT ends the machine.
Abort(m) ==
    /\ up' = up \ {m}
    /\ UNCHANGED <<lossy, rules, netVars, officeVars, sending, reply, posted>>

\* Network::Send.  The packet is lost, or goes to the socket of the machine; it
\* fails when nobody has that socket.
NetworkSend(c, mail) ==
    LET m == mail.from
        Accepted ==
            /\ outgoing' = [outgoing EXCEPT ![m] = @ + 1]
            /\ posted' = posted \cup {mail.data}
            /\ sending' = sending \cup {c}
            /\ UNCHANGED <<lossy, rules, inbox, officeVars, reply, up>>
    IN \/ lossy /\ Accepted /\ UNCHANGED sock
       \/ mail.to \in up /\ Accepted /\ SendToSocket(mail)
       \/ mail.to \notin up /\ Abort(m)

\* PostOffice::Send up to messageSent->P().  MailTest is given the address of the
\* other machine; others may send to their own.
SendBegins(c, to, box, back) ==
    /\ MayCall(c, <<"Send", box>>)
    /\ "mailtest" \in rules => to # Host[c]
    /\ ops' = [ops EXCEPT ![c] = @ + 1]
    /\ NetworkSend(c, [to |-> to, from |-> Host[c], box |-> box, reply |-> back,
                       data |-> <<c, ops[c] + 1>>])

\* Faulty variant of SendReturns: it does not wait for the semaphore.
SendReturnsAtOnce(c) ==
    /\ Host[c] \in up /\ c \in sending
    /\ sending' = sending \ {c}
    /\ UNCHANGED <<lossy, rules, netVars, officeVars, ops, reply, posted, up>>

\* messageSent->P() returns, and Send with it.
SendReturns(c) ==
    /\ Host[c] \in up /\ c \in sending
    /\ sent[Host[c]] > 0
    /\ sent' = [sent EXCEPT ![Host[c]] = @ - 1]
    /\ sending' = sending \ {c}
    /\ UNCHANGED <<lossy, rules, netVars, available, worker, boxes, ops, reply, posted, up>>

\* SynchList::Remove from a list with an item.
ListRemove(list) == Tail(list)

\* MailBox::Get: what the mail says goes to the caller.
Get(c, b) ==
    LET m == Host[c] IN
    /\ boxes' = [boxes EXCEPT ![m][b] = ListRemove(@)]
    /\ reply' = [reply EXCEPT ![c] = Head(boxes[m][b]).reply]

\* PostOffice::Receive; from an empty box it reaches Condition::Wait.
Receive(c, b) ==
    LET m == Host[c] IN
    /\ MayCall(c, <<"Receive", b>>)
    /\ "patient" \in rules => boxes[m][b] # <<>>
    /\ ops' = [ops EXCEPT ![c] = @ + 1]
    /\ IF boxes[m][b] = <<>>
       THEN Abort(m)
       ELSE /\ Get(c, b)
            /\ UNCHANGED <<lossy, rules, netVars, available, sent, worker, sending, posted, up>>

\* MailTest is over: Halt.
Halt(c) ==
    /\ "mailtest" \in rules /\ c \in Tester
    /\ Idle(c) /\ ops[c] = TestCalls
    /\ Abort(Host[c])
    /\ UNCHANGED ops

DeviceStep(m) == CheckPktAvail(m) \/ SendDone(m)
WorkerStep(m) == WorkerWakes(m) \/ PostalDelivery(m)
ClientStep(c) ==
    \/ \E m \in Machine, b \in Box : SendBegins(c, m, b, 1)
    \/ SendReturns(c)
    \/ \E b \in Box : Receive(c, b)
    \/ Halt(c)

Next ==
    \/ \E m \in Machine : DeviceStep(m) \/ WorkerStep(m)
    \/ \E c \in Client : ClientStep(c)

Spec == Init /\ [][Next]_vars

\* Polling and the end of a packet are interrupts that the clock of each
\* machine brings about; its threads are scheduled in turn (module Threads).
FairSpec ==
    /\ Spec
    /\ \A m \in Machine : WF_vars(CheckPktAvail(m)) /\ WF_vars(SendDone(m)) /\ WF_vars(WorkerStep(m))
    /\ \A c \in Client : WF_vars(ClientStep(c))

-----------------------------------------------------------------------------
(* Properties *)

TypeOK ==
    /\ lossy \in BOOLEAN /\ rules \subseteq Rule
    /\ sock \in [Machine -> Seq(Mail)]
    /\ inbox \in [Machine -> Mail \cup {NoMail}]
    /\ outgoing \in [Machine -> Nat] /\ available \in [Machine -> Nat] /\ sent \in [Machine -> Nat]
    /\ worker \in [Machine -> {"waits", "woken"}]
    /\ boxes \in [Machine -> [Box -> Seq(Mail)]]
    /\ sending \subseteq Client
    /\ ops \in [Client -> 0 .. MaxOps] /\ reply \in [Client -> Box]
    /\ up \subseteq Machine /\ posted \subseteq Data

\* The packet buffer and messageAvailable agree: there is a packet exactly when
\* the worker has been told of one, so that the worker's Receive never finds an
\* empty buffer and no packet stays behind in it, whenever the next poll comes.
PacketIsSignalled ==
    \A m \in Machine :
        available[m] + (IF worker[m] = "woken" THEN 1 ELSE 0)
            = (IF inbox[m] # NoMail THEN 1 ELSE 0)

\* The clients inside Send are matched one to one with the tokens of messageSent
\* and the packets on their way out, even though sendLock is empty and Sends of
\* one machine overlap: no Send waits for ever and no token is left over.
TokensMatchSenders ==
    \A m \in up :
        Cardinality({c \in sending : Host[c] = m})
            = sent[m] + outgoing[m]

\* With clients that wait for mail no ASSERT fails, however their Sends overlap: a
\* machine only goes down by the Halt of MailTest, and then nobody still sends to it.
OnlyHaltStops ==
    "patient" \in rules =>
        \A m \in Machine \ up :
            "mailtest" \in rules /\ \A c \in Tester : Host[c] = m => ops[c] = TestCalls

\* Each device and its users agree on what was received and what was sent, and
\* clients that keep the rules never bring a machine down.
PostInv == TypeOK /\ PacketIsSignalled /\ TokensMatchSenders /\ OnlyHaltStops

\* The mail on its way to a machine: in its buffer, then in its socket.
transit ==
    [m \in Machine |-> (IF inbox[m] = NoMail THEN <<>> ELSE <<inbox[m]>>) \o sock[m]]

Abstract == INSTANCE LossyMail

\* Post offices implement mail that may be lost, and is otherwise delivered in
\* order and once, whatever the clients do.
ImplementsLossyMail == Abstract!Spec

\* Mail that was not lost gets to its box, unless the machine stops.
MailArrives ==
    \A m \in Machine : transit[m] # <<>> ~> (transit[m] = <<>> \/ m \notin up)

\* Without loss, and if Condition::Wait worked, MailTest ends on both machines.
MailTestEnds ==
    (Rule \subseteq rules /\ ~lossy) => <>(up = {})
=============================================================================
