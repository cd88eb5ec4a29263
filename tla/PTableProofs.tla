---------------------------- MODULE PTableProofs ----------------------------
(***************************************************************************)
(* Proofs about module PTable, for every number of threads, slots and      *)
(* programs and every set of settings.  First what holds in all of them:   *)
(* TableInd, the table's own rules, is inductive.  Then what holds in the  *)
(* settings that are Calm, where the processes form a chain in the slots   *)
(* 0 .. k, for some k, each the parent of the next (Chain).                *)
(***************************************************************************)
EXTENDS PTable, FiniteSetTheorems, WellFoundedInduction, TLAPS

LocType == [name : Program \cup {MainName}, pid : Int, id : Int, ec : Int]

ExecPC == {"exec_check", "exec_fork", "exec_setpid", "exec_V"}

(* A thread that waits on a semaphore of a PCB, or is about to, keeps that *)
(* PCB from being removed.                                                 *)
Waiting ==
  \A t \in Thread : /\ pc[t] = "join_P" => Valid(loc[t].pid)
                    /\ pc[t] = "exit_P" => Valid(loc[t].id)

TableInd == TypeOK /\ ExecExclusive /\ SlotsMarked /\ Waiting
-----------------------------------------------------------------------------
(* Least and greatest elements.                                            *)

LEMMA LeastExists ==
  ASSUME NEW S, S \subseteq Nat, S # {}
  PROVE  \E i \in S : \A j \in S : i <= j
<1> DEFINE R == OpToRel(<, Nat)
<1>1. IsWellFoundedOn(R, Nat)
  BY NatLessThanWellFounded
<1> HIDE DEF R
<1>2. \E x \in S : \A y \in S : ~(<<y, x>> \in R)
  BY <1>1, WFMin
<1>3. PICK x \in S : \A y \in S : ~(<<y, x>> \in R)
  BY <1>2
<1>4. \A y \in S : ~(y < x)
  BY <1>3 DEF R, OpToRel
<1> QED
  BY <1>3, <1>4

LEMMA GreatestExists ==
  ASSUME NEW n \in Nat, NEW S, S \subseteq 0 .. n, S # {}
  PROVE  \E i \in S : \A j \in S : j <= i
<1> DEFINE B == {b \in Nat : \A j \in S : j <= b}
<1>1. n \in B
  OBVIOUS
<1>2. PICK i \in B : \A j \in B : i <= j
  BY <1>1, LeastExists
<1>3. i \in S
  <2> SUFFICES ASSUME i \notin S PROVE FALSE
    OBVIOUS
  <2>1. PICK s \in S : TRUE
    OBVIOUS
  <2>2. s <= i /\ s # i /\ s \in Nat /\ i \in Nat /\ \A j \in S : j <= i /\ j # i /\ j \in Nat
    BY <1>2
  <2>3. i - 1 \in Nat /\ \A j \in S : j <= i - 1
    BY <2>2
  <2> QED
    BY <1>2, <2>2, <2>3
<1> QED
  BY <1>2, <1>3

LEMMA SlotFacts == Slot \subseteq Nat /\ Slot = 0 .. MaxProcess - 1 /\ 0 \in Slot /\ -1 \notin Slot
BY PTableAssumption DEF Slot

(* The slot that Find returns is the first free one.                       *)
LEMMA FreeSlot ==
  ASSUME ~(Slot \subseteq bm)
  PROVE  /\ Least(Slot \ bm) \in Slot \ bm
         /\ \A j \in Slot \ bm : Least(Slot \ bm) <= j
<1>1. \E i \in Slot \ bm : \A j \in Slot \ bm : i <= j
  BY LeastExists, SlotFacts
<1> QED
  BY <1>1 DEF Least

(* The loop that looks a thread up ends with a slot of that thread's name. *)
LEMMA LookUpFinds ==
  ASSUME NEW t \in Thread
  PROVE  \/ LookUp(t) = -1 /\ \A i \in Used : name[pcb[i].thread] # name[t]
         \/ LookUp(t) \in Used /\ name[pcb[LookUp(t)].thread] = name[t]
<1> DEFINE matching == {i \in Used : name[pcb[i].thread] = name[t]}
<1>1. CASE matching = {}
  BY <1>1 DEF LookUp
<1>2. CASE matching # {}
  <2>1. matching \subseteq 0 .. MaxProcess - 1
    BY SlotFacts DEF Used
  <2>2. \E i \in matching : \A j \in matching : j <= i
    <3>1. MaxProcess - 1 \in Nat
      BY PTableAssumption
    <3> HIDE DEF matching
    <3> QED
      BY <1>2, <2>1, <3>1, GreatestExists
  <2>3. Greatest(matching) \in matching
    BY <2>2 DEF Greatest
  <2>4. LookUp(t) = Greatest(matching)
    BY <1>2 DEF LookUp
  <2> QED
    BY <2>3, <2>4
<1> QED
  BY <1>1, <1>2

LEMMA CurrentIDTyped ==
  ASSUME TypeOK, NEW t \in Thread
  PROVE  CurrentID(t) \in Int
<1>1. CASE LookUp(t) = -1
  BY <1>1 DEF CurrentID
<1>2. CASE LookUp(t) \in Used
  <2>1. pcb[LookUp(t)] \in PCBType
    BY <1>2 DEF Used, TypeOK
  <2>2. pcb[LookUp(t)].pid \in Int
    BY <2>1 DEF PCBType
  <2> QED
    BY <2>2 DEF CurrentID
<1> QED
  BY <1>1, <1>2, LookUpFinds
-----------------------------------------------------------------------------
(* What an assignment to one member of a PCB, or to one local variable,    *)
(* changes.                                                                *)

(* The PCB in slot i is replaced or changed; no other one is.              *)
OnlySlot(i) ==
  /\ pcb' \in [Slot -> PCBType \cup {NoPCB}]
  /\ pcb'[i] \in PCBType /\ pcb'[i] # NoPCB
  /\ \A j \in Slot : j # i => pcb'[j] = pcb[j]

LEMMA NewSlot ==
  ASSUME TypeOK, NEW i \in Slot, NEW p \in Int, NEW g \in Int,
         pcb' = [pcb EXCEPT ![i] = NewPCB(p, NoThread, g)]
  PROVE  /\ OnlySlot(i)
         /\ pcb'[i].thread = NoThread /\ pcb'[i].parentID = p
         /\ pcb'[i].joinsem = 0 /\ pcb'[i].exitsem = 0
<1>1. NewPCB(p, NoThread, g) \in PCBType
  BY DEF NewPCB, PCBType
<1>2. pcb'[i] = NewPCB(p, NoThread, g) /\ pcb' \in [Slot -> PCBType \cup {NoPCB}]
  BY <1>1 DEF TypeOK
<1>3. \A j \in Slot : j # i => pcb'[j] = pcb[j]
  BY DEF TypeOK
<1>4. NewPCB(p, NoThread, g) # NoPCB
  BY <1>1, PTableAssumption
<1> QED
  BY <1>1, <1>2, <1>3, <1>4 DEF OnlySlot, NewPCB

LEMMA RecordSlot ==
  ASSUME TypeOK, NEW i \in Used, NEW r \in PCBType, pcb' = [pcb EXCEPT ![i] = r]
  PROVE  OnlySlot(i) /\ pcb'[i] = r
<1>1. i \in Slot
  BY DEF Used
<1>2. pcb'[i] = r /\ pcb' \in [Slot -> PCBType \cup {NoPCB}]
  BY <1>1 DEF TypeOK
<1>3. \A j \in Slot : j # i => pcb'[j] = pcb[j]
  BY <1>1 DEF TypeOK
<1>4. r # NoPCB
  BY PTableAssumption
<1> QED
  BY <1>2, <1>3, <1>4 DEF OnlySlot

LEMMA ThreadSet ==
  ASSUME TypeOK, NEW i \in Used, NEW u \in Thread,
         pcb' = [pcb EXCEPT ![i].thread = u]
  PROVE  /\ OnlySlot(i)
         /\ pcb'[i].thread = u /\ pcb'[i].pid = pcb[i].pid
         /\ pcb'[i].parentID = pcb[i].parentID /\ pcb'[i].joinsem = pcb[i].joinsem
         /\ pcb'[i].exitsem = pcb[i].exitsem /\ pcb'[i].exitcode = pcb[i].exitcode
<1> DEFINE r == [pcb[i] EXCEPT !.thread = u]
<1>1. pcb[i] \in PCBType
  BY DEF TypeOK, Used
<1>2. /\ r \in PCBType
      /\ r.thread = u /\ r.pid = pcb[i].pid
      /\ r.parentID = pcb[i].parentID /\ r.joinsem = pcb[i].joinsem
      /\ r.exitsem = pcb[i].exitsem /\ r.exitcode = pcb[i].exitcode
  BY <1>1 DEF PCBType
<1>3. pcb' = [pcb EXCEPT ![i] = r]
  OBVIOUS
<1> HIDE DEF r
<1>4. OnlySlot(i) /\ pcb'[i] = r
  BY <1>2, <1>3, RecordSlot
<1> QED
  BY <1>2, <1>4

LEMMA PidSet ==
  ASSUME TypeOK, NEW i \in Used, NEW p \in Int,
         pcb' = [pcb EXCEPT ![i].pid = p]
  PROVE  /\ OnlySlot(i)
         /\ pcb'[i].thread = pcb[i].thread /\ pcb'[i].pid = p
         /\ pcb'[i].parentID = pcb[i].parentID /\ pcb'[i].joinsem = pcb[i].joinsem
         /\ pcb'[i].exitsem = pcb[i].exitsem /\ pcb'[i].exitcode = pcb[i].exitcode
<1> DEFINE r == [pcb[i] EXCEPT !.pid = p]
<1>1. pcb[i] \in PCBType
  BY DEF TypeOK, Used
<1>2. /\ r \in PCBType
      /\ r.thread = pcb[i].thread /\ r.pid = p
      /\ r.parentID = pcb[i].parentID /\ r.joinsem = pcb[i].joinsem
      /\ r.exitsem = pcb[i].exitsem /\ r.exitcode = pcb[i].exitcode
  BY <1>1 DEF PCBType
<1>3. pcb' = [pcb EXCEPT ![i] = r]
  OBVIOUS
<1> HIDE DEF r
<1>4. OnlySlot(i) /\ pcb'[i] = r
  BY <1>2, <1>3, RecordSlot
<1> QED
  BY <1>2, <1>4

LEMMA JoinsemSet ==
  ASSUME TypeOK, NEW i \in Used, NEW v \in Nat,
         pcb' = [pcb EXCEPT ![i].joinsem = v]
  PROVE  /\ OnlySlot(i)
         /\ pcb'[i].thread = pcb[i].thread /\ pcb'[i].pid = pcb[i].pid
         /\ pcb'[i].parentID = pcb[i].parentID /\ pcb'[i].joinsem = v
         /\ pcb'[i].exitsem = pcb[i].exitsem /\ pcb'[i].exitcode = pcb[i].exitcode
<1> DEFINE r == [pcb[i] EXCEPT !.joinsem = v]
<1>1. pcb[i] \in PCBType
  BY DEF TypeOK, Used
<1>2. /\ r \in PCBType
      /\ r.thread = pcb[i].thread /\ r.pid = pcb[i].pid
      /\ r.parentID = pcb[i].parentID /\ r.joinsem = v
      /\ r.exitsem = pcb[i].exitsem /\ r.exitcode = pcb[i].exitcode
  BY <1>1 DEF PCBType
<1>3. pcb' = [pcb EXCEPT ![i] = r]
  OBVIOUS
<1> HIDE DEF r
<1>4. OnlySlot(i) /\ pcb'[i] = r
  BY <1>2, <1>3, RecordSlot
<1> QED
  BY <1>2, <1>4

LEMMA ExitsemSet ==
  ASSUME TypeOK, NEW i \in Used, NEW v \in Nat,
         pcb' = [pcb EXCEPT ![i].exitsem = v]
  PROVE  /\ OnlySlot(i)
         /\ pcb'[i].thread = pcb[i].thread /\ pcb'[i].pid = pcb[i].pid
         /\ pcb'[i].parentID = pcb[i].parentID /\ pcb'[i].joinsem = pcb[i].joinsem
         /\ pcb'[i].exitsem = v /\ pcb'[i].exitcode = pcb[i].exitcode
<1> DEFINE r == [pcb[i] EXCEPT !.exitsem = v]
<1>1. pcb[i] \in PCBType
  BY DEF TypeOK, Used
<1>2. /\ r \in PCBType
      /\ r.thread = pcb[i].thread /\ r.pid = pcb[i].pid
      /\ r.parentID = pcb[i].parentID /\ r.joinsem = pcb[i].joinsem
      /\ r.exitsem = v /\ r.exitcode = pcb[i].exitcode
  BY <1>1 DEF PCBType
<1>3. pcb' = [pcb EXCEPT ![i] = r]
  OBVIOUS
<1> HIDE DEF r
<1>4. OnlySlot(i) /\ pcb'[i] = r
  BY <1>2, <1>3, RecordSlot
<1> QED
  BY <1>2, <1>4

(* Exit stores the code in one PCB and adds to joinsem of another, or of   *)
(* the same one.                                                           *)
ExitStores(i, p, ec) == pcb' = [pcb EXCEPT ![i].exitcode = ec, ![p].joinsem = @ + 1]

LEMMA ExitSet ==
  ASSUME TypeOK, NEW i \in Used, NEW p \in Used, NEW ec \in Int, ExitStores(i, p, ec)
  PROVE  /\ pcb' \in [Slot -> PCBType \cup {NoPCB}]
         /\ pcb'[i].exitcode = ec /\ pcb'[p].joinsem = pcb[p].joinsem + 1
         /\ \A j \in Slot :
              /\ pcb'[j] # NoPCB <=> pcb[j] # NoPCB
              /\ pcb[j] # NoPCB =>
                   /\ pcb'[j].thread = pcb[j].thread /\ pcb'[j].pid = pcb[j].pid
                   /\ pcb'[j].parentID = pcb[j].parentID
                   /\ pcb'[j].exitsem = pcb[j].exitsem
                   /\ j # i => pcb'[j].exitcode = pcb[j].exitcode
                   /\ j # p => pcb'[j].joinsem = pcb[j].joinsem
<1> DEFINE r == [pcb[i] EXCEPT !.exitcode = ec]
           tab == [pcb EXCEPT ![i] = r]
           s == [tab[p] EXCEPT !.joinsem = @ + 1]
<1>1. /\ pcb[i] \in PCBType /\ pcb[p] \in PCBType /\ i \in Slot /\ p \in Slot
      /\ pcb \in [Slot -> PCBType \cup {NoPCB}]
  BY DEF TypeOK, Used
<1>2. /\ r \in PCBType
      /\ r.thread = pcb[i].thread /\ r.pid = pcb[i].pid
      /\ r.parentID = pcb[i].parentID /\ r.joinsem = pcb[i].joinsem
      /\ r.exitsem = pcb[i].exitsem /\ r.exitcode = ec
  BY <1>1 DEF PCBType
<1>3. pcb' = [tab EXCEPT ![p] = s]
  BY DEF ExitStores
<1> HIDE DEF r
<1>4. /\ tab \in [Slot -> PCBType \cup {NoPCB}] /\ tab[i] = r /\ tab[p] \in PCBType
      /\ \A j \in Slot : j # i => tab[j] = pcb[j]
  BY <1>1, <1>2
<1> HIDE DEF tab
<1>5. /\ s \in PCBType
      /\ s.thread = tab[p].thread /\ s.pid = tab[p].pid
      /\ s.parentID = tab[p].parentID /\ s.joinsem = tab[p].joinsem + 1
      /\ s.exitsem = tab[p].exitsem /\ s.exitcode = tab[p].exitcode
  BY <1>4 DEF PCBType
<1> HIDE DEF s
<1>6. /\ pcb' \in [Slot -> PCBType \cup {NoPCB}] /\ pcb'[p] = s
      /\ \A j \in Slot : j # p => pcb'[j] = tab[j]
  BY <1>1, <1>3, <1>4, <1>5
<1>7. tab[p].joinsem = pcb[p].joinsem
  BY <1>1, <1>2, <1>4
<1>8. pcb'[i].exitcode = ec
  BY <1>1, <1>2, <1>4, <1>5, <1>6
<1>9. ASSUME NEW j \in Slot
      PROVE  /\ pcb'[j] # NoPCB <=> pcb[j] # NoPCB
             /\ pcb[j] # NoPCB =>
                  /\ pcb'[j].thread = pcb[j].thread /\ pcb'[j].pid = pcb[j].pid
                  /\ pcb'[j].parentID = pcb[j].parentID
                  /\ pcb'[j].exitsem = pcb[j].exitsem
                  /\ j # i => pcb'[j].exitcode = pcb[j].exitcode
                  /\ j # p => pcb'[j].joinsem = pcb[j].joinsem
  <2>1. r # NoPCB /\ s # NoPCB
    BY <1>2, <1>5, PTableAssumption
  <2>2. i \in Used /\ p \in Used
    OBVIOUS
  <2>3. CASE j = p
    BY <1>2, <1>4, <1>5, <1>6, <2>1, <2>2, <2>3 DEF Used
  <2>4. CASE j # p /\ j = i
    BY <1>2, <1>4, <1>6, <2>1, <2>2, <2>4 DEF Used
  <2>5. CASE j # p /\ j # i
    BY <1>4, <1>6, <2>5
  <2> QED
    BY <2>3, <2>4, <2>5
<1> QED
  BY <1>5, <1>6, <1>7, <1>8, <1>9
-----------------------------------------------------------------------------
(* TableInd is preserved by every action.                                  *)

LEMMA PCSet ==
  ASSUME TypeOK, NEW t \in Thread, NEW at \in PC, GoTo(t, at)
  PROVE  pc' \in [Thread -> PC] /\ pc'[t] = at /\ \A u \in Thread : u # t => pc'[u] = pc[u]
BY DEF TypeOK, GoTo

(* A step after which the same threads are inside ExecUpdate.              *)
LEMMA ExclusiveKept ==
  ASSUME ExecExclusive, bmsem' = bmsem,
         \A u \in Thread : pc'[u] \in ExecPC <=> pc[u] \in ExecPC
  PROVE  ExecExclusive'
BY DEF ExecExclusive, InExec, ExecPC

LEMMA CrashPreserves ==
  ASSUME TableInd, NEW w \in Fault \cup {"halted", "idle"}, Crash(w)
  PROVE  TableInd'
<1>1. TypeOK'
  BY DEF TableInd, TypeOK, Crash
<1>2. UNCHANGED <<pc, loc, pcb, bm, bmsem>>
  BY DEF Crash
<1> QED
  BY <1>1, <1>2 DEF TableInd, ExecExclusive, InExec, SlotsMarked, Waiting, Valid, Used

LEMMA ScanFaults == ScanFault # "none" => ScanFault \in Fault
BY DEF ScanFault, Fault

(* Steps that only move one thread and change its local variables.         *)
LEMMA MovePreserves ==
  ASSUME TableInd, NEW t \in Thread, NEW at \in PC, GoTo(t, at),
         pc[t] \in ExecPC <=> at \in ExecPC,
         loc' \in [Thread -> LocType], \A u \in Thread : u # t => loc'[u] = loc[u],
         at # "exec_fork",
         at = "join_P" => Valid(loc'[t].pid),
         at = "exit_P" => Valid(loc'[t].id),
         UNCHANGED <<setting, name, pcb, bm, bmsem, cpu, machine>>
  PROVE  TableInd'
<1>0. TypeOK /\ ExecExclusive /\ SlotsMarked /\ Waiting
  BY DEF TableInd
<1>1. pc' \in [Thread -> PC] /\ pc'[t] = at /\ \A u \in Thread : u # t => pc'[u] = pc[u]
  BY <1>0, PCSet
<1>2. TypeOK'
  BY <1>0, <1>1 DEF TypeOK, LocType
<1>3. ExecExclusive'
  BY <1>0, <1>1, ExclusiveKept
<1>4. Used' = Used
  BY DEF Used
<1>5. SlotsMarked'
  BY <1>0, <1>1, <1>4 DEF SlotsMarked, Valid
<1>6. Waiting'
  BY <1>0, <1>1, <1>4 DEF Waiting, Valid
<1> QED
  BY <1>2, <1>3, <1>5, <1>6 DEF TableInd

LEMMA CallExecPreserves ==
  ASSUME TableInd, NEW t \in Thread, NEW n \in Program, CallExec(t, n)
  PROVE  TableInd'
<1>1. loc \in [Thread -> LocType] /\ pc[t] = "user"
  BY DEF TableInd, TypeOK, LocType, CallExec, Running
<1>2. [loc[t] EXCEPT !.name = n] \in LocType
  BY <1>1 DEF LocType
<1>3. loc' \in [Thread -> LocType] /\ \A u \in Thread : u # t => loc'[u] = loc[u]
  BY <1>1, <1>2 DEF CallExec
<1> QED
  BY <1>1, <1>3, MovePreserves DEF CallExec, PC, ExecPC

(* Taking and giving back bmsem.                                           *)
LEMMA ExecPPreserves ==
  ASSUME TableInd, NEW t \in Thread, ExecP(t)
  PROVE  TableInd'
<1>0. TypeOK /\ ExecExclusive /\ SlotsMarked /\ Waiting
  BY DEF TableInd
<1>1. /\ pc' \in [Thread -> PC] /\ pc'[t] = "exec_check"
      /\ \A u \in Thread : u # t => pc'[u] = pc[u]
  BY <1>0, PCSet DEF ExecP, PC
<1>2. bmsem = 1 /\ bmsem' = 0 /\ \A u \in Thread : ~InExec(u)
  BY <1>0 DEF ExecP, ExecExclusive
<1>3. TypeOK'
  BY <1>0, <1>1, <1>2 DEF TypeOK, ExecP
<1>4. ExecExclusive'
  BY <1>1, <1>2 DEF ExecExclusive, InExec
<1>5. UNCHANGED <<loc, pcb, bm>>
  BY DEF ExecP
<1>6. Used' = Used
  BY <1>5 DEF Used
<1>7. SlotsMarked' /\ Waiting'
  BY <1>0, <1>1, <1>5, <1>6 DEF SlotsMarked, Waiting, Valid
<1> QED
  BY <1>3, <1>4, <1>7 DEF TableInd

LEMMA ReleasePreserves ==
  ASSUME TableInd, NEW t \in Thread, pc[t] \in ExecPC, GoTo(t, "user"),
         bmsem' = bmsem + 1, bm \subseteq bm', bm' \subseteq Slot,
         UNCHANGED <<setting, name, loc, pcb, cpu, machine>>
  PROVE  TableInd'
<1>0. TypeOK /\ ExecExclusive /\ SlotsMarked /\ Waiting
  BY DEF TableInd
<1>1. /\ pc' \in [Thread -> PC] /\ pc'[t] = "user"
      /\ \A u \in Thread : u # t => pc'[u] = pc[u]
  BY <1>0, PCSet DEF PC
<1>2. bmsem' = 1 /\ \A u \in Thread : u # t => ~InExec(u)
  BY <1>0 DEF ExecExclusive, InExec, ExecPC
<1>3. TypeOK'
  BY <1>0, <1>1, <1>2 DEF TypeOK
<1>4. ExecExclusive'
  BY <1>1, <1>2 DEF ExecExclusive, InExec
<1>5. Used' = Used
  BY DEF Used
<1>6. SlotsMarked' /\ Waiting'
  BY <1>0, <1>1, <1>5 DEF SlotsMarked, Waiting, Valid
<1> QED
  BY <1>3, <1>4, <1>6 DEF TableInd

LEMMA ExecRefusedPreserves ==
  ASSUME TableInd, NEW t \in Thread, ExecRefused(t)
  PROVE  TableInd'
<1>1. pc[t] \in ExecPC /\ GoTo(t, "user") /\ bmsem' = bmsem + 1
  BY DEF ExecRefused, Running, ExecPC
<1>2. UNCHANGED <<setting, name, loc, pcb, cpu, machine>>
  BY DEF ExecRefused
<1>3. bm \subseteq Slot
  BY DEF TableInd, TypeOK
<1>4. bm \subseteq bm' /\ bm' \subseteq Slot
  BY <1>3, FreeSlot DEF ExecRefused
<1> QED
  BY <1>1, <1>2, <1>4, ReleasePreserves

LEMMA ExecVPreserves ==
  ASSUME TableInd, NEW t \in Thread, ExecV(t)
  PROVE  TableInd'
<1>1. pc[t] \in ExecPC /\ GoTo(t, "user") /\ bmsem' = bmsem + 1
  BY DEF ExecV, Running, ExecPC
<1>2. UNCHANGED <<setting, name, loc, pcb, bm, cpu, machine>>
  BY DEF ExecV
<1>3. bm \subseteq bm' /\ bm' \subseteq Slot
  BY <1>2 DEF TableInd, TypeOK
<1> QED
  BY <1>1, <1>2, <1>3, ReleasePreserves

(* What ExecCreate does when it does not fault.                            *)
LEMMA ExecCreateEffect ==
  ASSUME TypeOK, NEW t \in Thread, ExecCreate(t), ScanFault = "none"
  PROVE  \E pid \in Slot \ bm, g \in Int :
           /\ \A j \in Slot \ bm : pid <= j
           /\ CurrentID(t) # -1
           /\ pcb' = [pcb EXCEPT ![pid] = NewPCB(CurrentID(t), NoThread, g)]
           /\ bm' = bm \cup {pid}
           /\ loc' \in [Thread -> LocType]
           /\ loc'[t].pid = pid /\ loc'[t].name = loc[t].name
           /\ \A u \in Thread : u # t => loc'[u] = loc[u]
           /\ GoTo(t, "exec_fork")
           /\ UNCHANGED <<setting, name, bmsem, cpu, machine>>
<1> DEFINE pid == Least(Slot \ bm)
<1>1. pid \in Slot \ bm /\ \A j \in Slot \ bm : pid <= j
  BY FreeSlot DEF ExecCreate
<1>2. PICK g \in Garbage : pcb' = [pcb EXCEPT ![pid] = NewPCB(CurrentID(t), NoThread, g)]
  BY DEF ExecCreate
<1>3. g \in Int
  BY PTableAssumption
<1>4. /\ CurrentID(t) # -1
      /\ bm' = bm \cup {pid} /\ loc' = [loc EXCEPT ![t].pid = pid] /\ GoTo(t, "exec_fork")
      /\ UNCHANGED <<setting, name, bmsem, cpu, machine>>
  BY DEF ExecCreate
<1> HIDE DEF pid
<1>5. loc \in [Thread -> LocType] /\ pid \in Int
  BY <1>1, SlotFacts DEF TypeOK, LocType
<1>6. /\ [loc[t] EXCEPT !.pid = pid] \in LocType /\ [loc[t] EXCEPT !.pid = pid].pid = pid
      /\ [loc[t] EXCEPT !.pid = pid].name = loc[t].name
  BY <1>5 DEF LocType
<1>7. /\ loc' \in [Thread -> LocType] /\ loc'[t] = [loc[t] EXCEPT !.pid = pid]
      /\ \A u \in Thread : u # t => loc'[u] = loc[u]
  BY <1>4, <1>5, <1>6
<1> QED
  BY <1>1, <1>2, <1>3, <1>4, <1>6, <1>7

LEMMA ExecCreatePreserves ==
  ASSUME TableInd, NEW t \in Thread, ExecCreate(t)
  PROVE  TableInd'
<1>0. TypeOK /\ ExecExclusive /\ SlotsMarked /\ Waiting
  BY DEF TableInd
<1>1. CASE ScanFault # "none"
  BY <1>1, ScanFaults, CrashPreserves DEF ExecCreate
<1>2. CASE ScanFault = "none"
  <2>1. PICK pid \in Slot \ bm, g \in Int :
           /\ pcb' = [pcb EXCEPT ![pid] = NewPCB(CurrentID(t), NoThread, g)]
           /\ bm' = bm \cup {pid}
           /\ loc' \in [Thread -> LocType]
           /\ loc'[t].pid = pid
           /\ \A u \in Thread : u # t => loc'[u] = loc[u]
           /\ GoTo(t, "exec_fork")
           /\ UNCHANGED <<setting, name, bmsem, cpu, machine>>
    BY <1>0, <1>2, ExecCreateEffect
  <2>2. CurrentID(t) \in Int
    BY <1>0, CurrentIDTyped
  <2>3. OnlySlot(pid) /\ pcb'[pid].thread = NoThread
    BY <1>0, <2>1, <2>2, NewSlot
  <2>4. /\ pc' \in [Thread -> PC] /\ pc'[t] = "exec_fork" /\ pc[t] = "exec_check"
        /\ \A u \in Thread : u # t => pc'[u] = pc[u]
    BY <1>0, <2>1, PCSet DEF PC, ExecCreate, Running
  <2>5. TypeOK'
    BY <1>0, <2>1, <2>3, <2>4 DEF TypeOK, LocType, OnlySlot
  <2>6. ExecExclusive'
    BY <1>0, <2>1, <2>4, ExclusiveKept DEF ExecPC
  <2>7. Used' = Used \cup {pid} /\ pid \notin Used
    BY <1>0, <2>1, <2>3 DEF OnlySlot, Used, SlotsMarked
  <2>8. \A u \in Thread : u # t => pc[u] # "exec_fork"
    BY <1>0, <2>4 DEF ExecExclusive, InExec
  <2>9. SlotsMarked'
    BY <1>0, <2>1, <2>3, <2>4, <2>7, <2>8 DEF SlotsMarked, Valid
  <2>10. Waiting'
    BY <1>0, <2>1, <2>4, <2>7 DEF Waiting, Valid
  <2> QED
    BY <2>5, <2>6, <2>9, <2>10 DEF TableInd
<1> QED
  BY <1>1, <1>2

(* What ExecFork does: one thread object that is new gets the slot and the *)
(* name of the program.                                                    *)
LEMMA ExecForkEffect ==
  ASSUME TypeOK, SlotsMarked, NEW t \in Thread, ExecFork(t)
  PROVE  /\ loc[t].pid \in Used /\ pc[t] = "exec_fork"
         /\ \E u \in Thread :
              /\ u # t /\ pc[u] = "new"
              /\ pcb' = [pcb EXCEPT ![loc[t].pid].thread = u]
              /\ name' \in [Thread -> Program \cup {MainName}]
              /\ name'[u] = loc[t].name /\ \A v \in Thread : v # u => name'[v] = name[v]
              /\ pc' \in [Thread -> PC] /\ pc'[t] = "exec_setpid" /\ pc'[u] = "user"
              /\ \A v \in Thread : v # t /\ v # u => pc'[v] = pc[v]
              /\ UNCHANGED <<setting, loc, bm, bmsem, cpu, machine>>
<1>1. setting.threads \subseteq Thread
  BY PTableAssumption DEF TypeOK, Setting
<1>2. NewThread \in setting.threads /\ pc[NewThread] = "new"
  BY DEF ExecFork, ThreadLeft, NewThread
<1>3. PICK u \in Thread : u = NewThread
  BY <1>1, <1>2
<1>4. pc[t] = "exec_fork" /\ loc[t].pid \in Used
  BY DEF ExecFork, Running, SlotsMarked, Valid
<1>5. u # t /\ pc[u] = "new"
  BY <1>2, <1>3, <1>4
<1>6. /\ pcb' = [pcb EXCEPT ![loc[t].pid].thread = u]
      /\ name' = [name EXCEPT ![u] = loc[t].name]
      /\ pc' = [pc EXCEPT ![t] = "exec_setpid", ![u] = "user"]
      /\ UNCHANGED <<setting, loc, bm, bmsem, cpu, machine>>
  BY <1>3 DEF ExecFork
<1>7. /\ pc' \in [Thread -> PC] /\ pc'[t] = "exec_setpid" /\ pc'[u] = "user"
      /\ \A v \in Thread : v # t /\ v # u => pc'[v] = pc[v]
  BY <1>5, <1>6 DEF TypeOK, PC
<1>8. loc[t].name \in Program \cup {MainName}
  BY DEF TypeOK
<1>9. /\ name' \in [Thread -> Program \cup {MainName}]
      /\ name'[u] = loc[t].name /\ \A v \in Thread : v # u => name'[v] = name[v]
  BY <1>6, <1>8 DEF TypeOK
<1> QED
  BY <1>4, <1>5, <1>6, <1>7, <1>9

LEMMA ExecForkPreserves ==
  ASSUME TableInd, NEW t \in Thread, ExecFork(t)
  PROVE  TableInd'
<1>0. TypeOK /\ ExecExclusive /\ SlotsMarked /\ Waiting
  BY DEF TableInd
<1>1. loc[t].pid \in Used /\ pc[t] = "exec_fork"
  BY <1>0, ExecForkEffect
<1>2. PICK u \in Thread :
        /\ u # t /\ pc[u] = "new"
        /\ pcb' = [pcb EXCEPT ![loc[t].pid].thread = u]
        /\ name' \in [Thread -> Program \cup {MainName}]
        /\ pc' \in [Thread -> PC] /\ pc'[t] = "exec_setpid" /\ pc'[u] = "user"
        /\ \A v \in Thread : v # t /\ v # u => pc'[v] = pc[v]
        /\ UNCHANGED <<setting, loc, bm, bmsem, cpu, machine>>
  BY <1>0, ExecForkEffect
<1>3. OnlySlot(loc[t].pid)
  BY <1>0, <1>1, <1>2, ThreadSet
<1>4. TypeOK'
  BY <1>0, <1>2, <1>3 DEF TypeOK, OnlySlot
<1>5. ExecExclusive'
  BY <1>0, <1>1, <1>2, ExclusiveKept DEF ExecPC
<1>6. Used' = Used
  BY <1>1, <1>3 DEF OnlySlot, Used
<1>7. \A v \in Thread : pc'[v] # "exec_fork"
  BY <1>0, <1>1, <1>2 DEF ExecExclusive, InExec
<1>8. SlotsMarked' /\ Waiting'
  BY <1>0, <1>2, <1>6, <1>7 DEF SlotsMarked, Waiting, Valid
<1> QED
  BY <1>4, <1>5, <1>8 DEF TableInd

(* Steps that move one thread and change one PCB, but for its thread.      *)
LEMMA SlotPreserves ==
  ASSUME TableInd, NEW t \in Thread, NEW at \in PC, GoTo(t, at),
         pc[t] \in ExecPC <=> at \in ExecPC,
         at \notin {"exec_fork", "join_P", "exit_P"},
         NEW i \in Used, OnlySlot(i), pcb'[i].thread = pcb[i].thread,
         UNCHANGED <<setting, name, loc, bm, bmsem, cpu, machine>>
  PROVE  TableInd'
<1>0. TypeOK /\ ExecExclusive /\ SlotsMarked /\ Waiting
  BY DEF TableInd
<1>1. pc' \in [Thread -> PC] /\ pc'[t] = at /\ \A u \in Thread : u # t => pc'[u] = pc[u]
  BY <1>0, PCSet
<1>2. TypeOK'
  BY <1>0, <1>1 DEF TypeOK, OnlySlot
<1>3. ExecExclusive'
  BY <1>0, <1>1, ExclusiveKept
<1>4. Used' = Used
  BY DEF OnlySlot, Used
<1>5. \A j \in Used : pcb'[j].thread = pcb[j].thread
  BY DEF OnlySlot, Used
<1>6. SlotsMarked' /\ Waiting'
  BY <1>0, <1>1, <1>4, <1>5 DEF SlotsMarked, Waiting, Valid
<1> QED
  BY <1>2, <1>3, <1>6 DEF TableInd

LEMMA ExecSetPidPreserves ==
  ASSUME TableInd, NEW t \in Thread, ExecSetPid(t)
  PROVE  TableInd'
<1>1. CASE ~Valid(loc[t].pid)
  BY <1>1, CrashPreserves DEF ExecSetPid, Fault
<1>2. CASE Valid(loc[t].pid)
  <2>1. /\ loc[t].pid \in Used /\ loc[t].pid \in Int
        /\ pcb' = [pcb EXCEPT ![loc[t].pid].pid = loc[t].pid]
        /\ GoTo(t, "exec_V") /\ pc[t] = "exec_setpid"
        /\ UNCHANGED <<setting, name, loc, bm, bmsem, cpu, machine>>
    BY <1>2 DEF ExecSetPid, Valid, Running, TableInd, TypeOK
  <2>2. TypeOK
    BY DEF TableInd
  <2>3. OnlySlot(loc[t].pid) /\ pcb'[loc[t].pid].thread = pcb[loc[t].pid].thread
    BY <2>1, <2>2, PidSet
  <2> QED
    BY <2>1, <2>3, SlotPreserves DEF PC, ExecPC
<1> QED
  BY <1>1, <1>2

(* What CallJoin does when it does not fault.                              *)
LEMMA CallJoinEffect ==
  ASSUME TypeOK, NEW t \in Thread, NEW id \in Slot, CallJoin(t, id),
         ScanFault = "none", Valid(CurrentID(t))
  PROVE  /\ Valid(id) /\ pcb[id].parentID = CurrentID(t)
         /\ pc[t] = "user" /\ GoTo(t, "join_P")
         /\ loc' \in [Thread -> LocType]
         /\ loc'[t].id = id /\ loc'[t].pid = CurrentID(t)
         /\ \A u \in Thread : u # t => loc'[u] = loc[u]
         /\ UNCHANGED <<setting, name, pcb, bm, bmsem, cpu, machine>>
<1> DEFINE p == CurrentID(t)
<1>1. /\ Valid(id) /\ pcb[id].parentID = p
      /\ pc[t] = "user" /\ GoTo(t, "join_P")
      /\ loc' = [loc EXCEPT ![t].id = id, ![t].pid = p]
      /\ UNCHANGED <<setting, name, pcb, bm, bmsem, cpu, machine>>
  BY DEF CallJoin, Running
<1>2. loc \in [Thread -> LocType] /\ p \in Int /\ id \in Int
  BY CurrentIDTyped, SlotFacts DEF TypeOK, LocType
<1> HIDE DEF p
<1> DEFINE r == [[loc[t] EXCEPT !.id = id] EXCEPT !.pid = p]
<1>3. r \in LocType /\ r.id = id /\ r.pid = p
  BY <1>2 DEF LocType
<1>4. loc' = [loc EXCEPT ![t] = r]
  BY <1>1, <1>2
<1> HIDE DEF r
<1>5. loc' \in [Thread -> LocType] /\ loc'[t] = r /\ \A u \in Thread : u # t => loc'[u] = loc[u]
  BY <1>2, <1>3, <1>4
<1> QED
  BY <1>1, <1>3, <1>5 DEF p

LEMMA CallJoinPreserves ==
  ASSUME TableInd, NEW t \in Thread, NEW id \in Slot, CallJoin(t, id)
  PROVE  TableInd'
<1>1. CASE ScanFault # "none"
  BY <1>1, ScanFaults, CrashPreserves DEF CallJoin
<1>2. CASE ScanFault = "none" /\ ~Valid(CurrentID(t))
  BY <1>2, CrashPreserves DEF CallJoin, Fault
<1>3. CASE ScanFault = "none" /\ Valid(CurrentID(t))
  <2>1. TypeOK
    BY DEF TableInd
  <2>2. /\ pc[t] = "user" /\ GoTo(t, "join_P")
        /\ loc' \in [Thread -> LocType]
        /\ Valid(loc'[t].pid)
        /\ \A u \in Thread : u # t => loc'[u] = loc[u]
        /\ UNCHANGED <<setting, name, pcb, bm, bmsem, cpu, machine>>
    BY <1>3, <2>1, CallJoinEffect
  <2> QED
    BY <2>2, MovePreserves DEF PC, ExecPC
<1> QED
  BY <1>1, <1>2, <1>3

(* What the P of joinsem does.                                             *)
LEMMA JoinWaitEffect ==
  ASSUME TableInd, NEW t \in Thread, JoinWait(t)
  PROVE  /\ loc[t].pid \in Used /\ pc[t] = "join_P" /\ GoTo(t, "join_read")
         /\ pcb[loc[t].pid].joinsem \in Nat /\ pcb[loc[t].pid].joinsem > 0
         /\ pcb' = [pcb EXCEPT ![loc[t].pid].joinsem = pcb[loc[t].pid].joinsem - 1]
         /\ pcb[loc[t].pid].joinsem - 1 \in Nat
         /\ UNCHANGED <<setting, name, loc, bm, bmsem, cpu, machine>>
<1>1. loc[t].pid \in Used /\ pc[t] = "join_P" /\ pcb[loc[t].pid].joinsem > 0
  BY DEF JoinWait, Running, TableInd, Waiting, Valid
<1>2. pcb[loc[t].pid] \in PCBType
  BY <1>1 DEF TableInd, TypeOK, Used
<1>3. pcb[loc[t].pid].joinsem \in Nat
  BY <1>2 DEF PCBType
<1> QED
  BY <1>1, <1>3 DEF JoinWait

LEMMA JoinWaitPreserves ==
  ASSUME TableInd, NEW t \in Thread, JoinWait(t)
  PROVE  TableInd'
<1> DEFINE i == loc[t].pid
           v == pcb[i].joinsem - 1
<1>1. /\ i \in Used /\ v \in Nat /\ pcb' = [pcb EXCEPT ![i].joinsem = v]
      /\ pc[t] = "join_P" /\ GoTo(t, "join_read")
      /\ UNCHANGED <<setting, name, loc, bm, bmsem, cpu, machine>>
  BY JoinWaitEffect
<1>2. TypeOK
  BY DEF TableInd
<1> HIDE DEF i, v
<1>3. OnlySlot(i) /\ pcb'[i].thread = pcb[i].thread
  BY <1>1, <1>2, JoinsemSet
<1> QED
  BY <1>1, <1>3, SlotPreserves DEF PC, ExecPC

(* What JoinRead does when it does not fault.                              *)
LEMMA JoinReadEffect ==
  ASSUME TypeOK, NEW t \in Thread, JoinRead(t), Valid(loc[t].id), Valid(loc[t].pid)
  PROVE  /\ loc[t].id \in Used /\ pc[t] = "join_read" /\ GoTo(t, "user")
         /\ pcb[loc[t].id].exitsem + 1 \in Nat
         /\ pcb' = [pcb EXCEPT ![loc[t].id].exitsem = pcb[loc[t].id].exitsem + 1]
         /\ UNCHANGED <<setting, name, loc, bm, bmsem, cpu, machine>>
<1>1. loc[t].id \in Used
  BY DEF Valid
<1>2. pcb[loc[t].id] \in PCBType
  BY <1>1 DEF TypeOK, Used
<1>3. pcb[loc[t].id].exitsem \in Nat
  BY <1>2 DEF PCBType
<1> QED
  BY <1>1, <1>3 DEF JoinRead, Running

LEMMA JoinReadPreserves ==
  ASSUME TableInd, NEW t \in Thread, JoinRead(t)
  PROVE  TableInd'
<1>1. CASE ~Valid(loc[t].id) \/ ~Valid(loc[t].pid)
  BY <1>1, CrashPreserves DEF JoinRead, Fault
<1>2. CASE Valid(loc[t].id) /\ Valid(loc[t].pid)
  <2> DEFINE i == loc[t].id
             v == pcb[i].exitsem + 1
  <2>1. TypeOK
    BY DEF TableInd
  <2>2. /\ i \in Used /\ v \in Nat /\ pcb' = [pcb EXCEPT ![i].exitsem = v]
        /\ pc[t] = "join_read" /\ GoTo(t, "user")
        /\ UNCHANGED <<setting, name, loc, bm, bmsem, cpu, machine>>
    BY <1>2, <2>1, JoinReadEffect
  <2> HIDE DEF i, v
  <2>3. OnlySlot(i) /\ pcb'[i].thread = pcb[i].thread
    BY <2>1, <2>2, ExitsemSet
  <2> QED
    BY <2>2, <2>3, SlotPreserves DEF PC, ExecPC
<1> QED
  BY <1>1, <1>2

(* What CallExit does when it neither faults nor halts the machine.        *)
LEMMA CallExitEffect ==
  ASSUME TypeOK, NEW t \in Thread, NEW ec \in ExitCode, CallExit(t, ec),
         ScanFault = "none", pcb[LookUp(t)].pid # 0, Valid(pcb[LookUp(t)].parentID)
  PROVE  /\ LookUp(t) \in Used /\ ec \in Int
         /\ pc[t] = "user" /\ GoTo(t, "exit_P")
         /\ ExitStores(LookUp(t), pcb[LookUp(t)].parentID, ec)
         /\ loc' \in [Thread -> LocType]
         /\ loc'[t].id = LookUp(t) /\ loc'[t].pid = pcb[LookUp(t)].pid /\ loc'[t].ec = ec
         /\ \A u \in Thread : u # t => loc'[u] = loc[u]
         /\ UNCHANGED <<setting, name, bm, bmsem, cpu, machine>>
<1> DEFINE index == LookUp(t)
           pid == pcb[index].pid
<1>1. /\ index # -1 /\ pc[t] = "user" /\ GoTo(t, "exit_P")
      /\ pcb' = [pcb EXCEPT ![index].exitcode = ec, ![pcb[index].parentID].joinsem = @ + 1]
      /\ loc' = [loc EXCEPT ![t].id = index, ![t].pid = pid, ![t].ec = ec]
      /\ UNCHANGED <<setting, name, bm, bmsem, cpu, machine>>
  BY DEF CallExit, Running
<1>2. index \in Used /\ index \in Int
  BY <1>1, LookUpFinds, SlotFacts DEF Used
<1>3. pcb[index] \in PCBType
  BY <1>2 DEF TypeOK, Used
<1>4. loc \in [Thread -> LocType] /\ pid \in Int /\ ec \in Int
  BY <1>3, PTableAssumption DEF TypeOK, LocType, PCBType
<1> HIDE DEF index, pid
<1> DEFINE r == [[[loc[t] EXCEPT !.id = index] EXCEPT !.pid = pid] EXCEPT !.ec = ec]
<1>5. r \in LocType /\ r.id = index /\ r.pid = pid /\ r.ec = ec
  BY <1>2, <1>4 DEF LocType
<1>6. loc' = [loc EXCEPT ![t] = r]
  BY <1>1, <1>4
<1> HIDE DEF r
<1>7. loc' \in [Thread -> LocType] /\ loc'[t] = r /\ \A u \in Thread : u # t => loc'[u] = loc[u]
  BY <1>4, <1>5, <1>6
<1> QED
  BY <1>1, <1>2, <1>4, <1>5, <1>7 DEF index, pid, ExitStores

LEMMA CallExitPreserves ==
  ASSUME TableInd, NEW t \in Thread, NEW ec \in ExitCode, CallExit(t, ec)
  PROVE  TableInd'
<1>0. TypeOK /\ ExecExclusive /\ SlotsMarked /\ Waiting
  BY DEF TableInd
<1> DEFINE i == LookUp(t)
           p == pcb[i].parentID
<1>1. CASE ScanFault # "none"
  BY <1>1, ScanFaults, CrashPreserves DEF CallExit
<1>2. CASE ScanFault = "none" /\ pcb[i].pid = 0
  BY <1>2, CrashPreserves DEF CallExit, Fault
<1>3. CASE ScanFault = "none" /\ pcb[i].pid # 0 /\ ~Valid(p)
  BY <1>3, CrashPreserves DEF CallExit, Fault
<1>4. CASE ScanFault = "none" /\ pcb[i].pid # 0 /\ Valid(p)
  <2>1. /\ i \in Used /\ p \in Used /\ ec \in Int
        /\ pc[t] = "user" /\ GoTo(t, "exit_P")
        /\ ExitStores(i, p, ec)
        /\ loc' \in [Thread -> LocType] /\ loc'[t].id = i
        /\ \A u \in Thread : u # t => loc'[u] = loc[u]
        /\ UNCHANGED <<setting, name, bm, bmsem, cpu, machine>>
    BY <1>0, <1>4, CallExitEffect DEF Valid
  <2> HIDE DEF i, p
  <2>2. /\ pcb' \in [Slot -> PCBType \cup {NoPCB}]
        /\ \A j \in Slot : /\ pcb'[j] # NoPCB <=> pcb[j] # NoPCB
                           /\ pcb[j] # NoPCB => pcb'[j].thread = pcb[j].thread
    BY <1>0, <2>1, ExitSet
  <2>3. /\ pc' \in [Thread -> PC] /\ pc'[t] = "exit_P"
        /\ \A u \in Thread : u # t => pc'[u] = pc[u]
    BY <1>0, <2>1, PCSet DEF PC
  <2>4. TypeOK'
    BY <1>0, <2>1, <2>2, <2>3 DEF TypeOK, LocType
  <2>5. ExecExclusive'
    BY <1>0, <2>1, <2>3, ExclusiveKept DEF ExecPC
  <2>6. Used' = Used
    BY <2>2 DEF Used
  <2>7. \A j \in Used : pcb'[j].thread = pcb[j].thread
    BY <2>2 DEF Used
  <2>8. SlotsMarked' /\ Waiting'
    BY <1>0, <2>1, <2>3, <2>6, <2>7 DEF SlotsMarked, Waiting, Valid
  <2> QED
    BY <2>4, <2>5, <2>8 DEF TableInd
<1> QED
  BY <1>1, <1>2, <1>3, <1>4

(* What the P of exitsem does.                                             *)
LEMMA ExitWaitEffect ==
  ASSUME TableInd, NEW t \in Thread, ExitWait(t)
  PROVE  /\ loc[t].id \in Used /\ pc[t] = "exit_P" /\ GoTo(t, "exit_remove")
         /\ pcb[loc[t].id].exitsem \in Nat /\ pcb[loc[t].id].exitsem > 0
         /\ pcb' = [pcb EXCEPT ![loc[t].id].exitsem = pcb[loc[t].id].exitsem - 1]
         /\ pcb[loc[t].id].exitsem - 1 \in Nat
         /\ UNCHANGED <<setting, name, loc, bm, bmsem, cpu, machine>>
<1>1. loc[t].id \in Used /\ pc[t] = "exit_P" /\ pcb[loc[t].id].exitsem > 0
  BY DEF ExitWait, Running, TableInd, Waiting, Valid
<1>2. pcb[loc[t].id] \in PCBType
  BY <1>1 DEF TableInd, TypeOK, Used
<1>3. pcb[loc[t].id].exitsem \in Nat
  BY <1>2 DEF PCBType
<1> QED
  BY <1>1, <1>3 DEF ExitWait

LEMMA ExitWaitPreserves ==
  ASSUME TableInd, NEW t \in Thread, ExitWait(t)
  PROVE  TableInd'
<1> DEFINE i == loc[t].id
           v == pcb[i].exitsem - 1
<1>1. /\ i \in Used /\ v \in Nat /\ pcb' = [pcb EXCEPT ![i].exitsem = v]
      /\ pc[t] = "exit_P" /\ GoTo(t, "exit_remove")
      /\ UNCHANGED <<setting, name, loc, bm, bmsem, cpu, machine>>
  BY ExitWaitEffect
<1>2. TypeOK
  BY DEF TableInd
<1> HIDE DEF i, v
<1>3. OnlySlot(i) /\ pcb'[i].thread = pcb[i].thread
  BY <1>1, <1>2, ExitsemSet
<1> QED
  BY <1>1, <1>3, SlotPreserves DEF PC, ExecPC

(* Remove and Finish: the slot that is freed is that of no Exec and of no  *)
(* waiter.                                                                 *)
LEMMA ExitRemovePreserves ==
  ASSUME TableInd, NEW t \in Thread, ExitRemove(t)
  PROVE  TableInd'
<1>0. TypeOK /\ ExecExclusive /\ SlotsMarked /\ Waiting
  BY DEF TableInd
<1> DEFINE pid == loc[t].pid
<1>1. CASE \E w \in Fault : Crash(w)
  BY <1>1, CrashPreserves
<1>2. CASE /\ ~Valid(pid) /\ UNCHANGED <<pcb, bm>> /\ GoTo(t, "done")
           /\ UNCHANGED <<setting, name, loc, bmsem, cpu, machine>>
  <2>1. pc[t] = "exit_remove" /\ loc \in [Thread -> LocType]
    BY <1>0 DEF ExitRemove, Running, TypeOK, LocType
  <2> QED
    BY <1>2, <2>1, MovePreserves DEF PC, ExecPC
<1>3. CASE /\ Valid(pid) /\ pcb[pid].thread # NoThread /\ ~SleeperOn(pid, t)
           /\ pcb' = [pcb EXCEPT ![pid] = NoPCB] /\ bm' = bm \ {pid}
           /\ GoTo(t, "done") /\ UNCHANGED <<setting, name, loc, bmsem, cpu, machine>>
  <2>1. /\ pc' \in [Thread -> PC] /\ pc'[t] = "done" /\ pc[t] = "exit_remove"
        /\ \A u \in Thread : u # t => pc'[u] = pc[u]
    BY <1>0, <1>3, PCSet DEF PC, ExitRemove, Running
  <2>2. pcb' \in [Slot -> PCBType \cup {NoPCB}] /\ pid \in Slot /\ pcb'[pid] = NoPCB
    BY <1>0, <1>3 DEF TypeOK, Valid, Used
  <2>3. \A j \in Slot : j # pid => pcb'[j] = pcb[j]
    BY <1>0, <1>3 DEF TypeOK
  <2>4. TypeOK'
    BY <1>0, <1>3, <2>1, <2>2 DEF TypeOK
  <2>5. ExecExclusive'
    BY <1>0, <1>3, <2>1, ExclusiveKept DEF ExecPC
  <2>6. Used' = Used \ {pid}
    BY <2>2, <2>3 DEF Used
  <2>7. SlotsMarked'
    <3>1. Used' \subseteq bm'
      BY <1>0, <1>3, <2>6 DEF SlotsMarked
    <3>2. ASSUME NEW u \in Thread, pc'[u] = "exec_fork"
          PROVE  loc'[u].pid \in Used' /\ pcb'[loc'[u].pid].thread = NoThread
      <4>1. u # t /\ pc[u] = "exec_fork" /\ loc'[u] = loc[u]
        BY <1>3, <2>1, <3>2
      <4>2. loc[u].pid \in Used /\ pcb[loc[u].pid].thread = NoThread /\ loc[u].pid # pid
        BY <1>0, <1>3, <4>1 DEF SlotsMarked, Valid
      <4> QED
        BY <2>3, <2>6, <4>1, <4>2 DEF Used
    <3> QED
      BY <3>1, <3>2 DEF SlotsMarked, Valid
  <2>8. Waiting'
    BY <1>0, <1>3, <2>1, <2>6 DEF Waiting, Valid, SleeperOn
  <2> QED
    BY <2>4, <2>5, <2>7, <2>8 DEF TableInd
<1> QED
  BY <1>1, <1>2, <1>3 DEF ExitRemove, Fault

LEMMA TableStep == TableInd /\ [Next]_vars => TableInd'
<1> SUFFICES ASSUME TableInd, [Next]_vars PROVE TableInd'
  OBVIOUS
<1>1. CASE UNCHANGED vars
  BY <1>1 DEF vars, TableInd, TypeOK, ExecExclusive, InExec, SlotsMarked, Waiting, Valid, Used
<1>2. CASE IdleHalt
  BY <1>2, CrashPreserves DEF IdleHalt
<1>3. CASE Stopped
  BY <1>1, <1>3 DEF Stopped
<1>4. ASSUME NEW t \in Thread, Dispatch(t)
      PROVE  TableInd'
  BY <1>4 DEF Dispatch, TableInd, TypeOK, ExecExclusive, InExec, SlotsMarked, Waiting, Valid, Used
<1>5. ASSUME NEW t \in Thread, NEW n \in Program, CallExec(t, n)
      PROVE  TableInd'
  BY <1>5, CallExecPreserves
<1>6. ASSUME NEW t \in Thread,
             \/ ExecP(t) \/ ExecRefused(t) \/ ExecCreate(t) \/ ExecFork(t)
             \/ ExecSetPid(t) \/ ExecV(t)
      PROVE  TableInd'
  BY <1>6, ExecPPreserves, ExecRefusedPreserves, ExecCreatePreserves, ExecForkPreserves,
     ExecSetPidPreserves, ExecVPreserves
<1>7. ASSUME NEW t \in Thread, NEW id \in Slot, CallJoin(t, id)
      PROVE  TableInd'
  BY <1>7, CallJoinPreserves
<1>8. ASSUME NEW t \in Thread, JoinWait(t) \/ JoinRead(t) \/ ExitWait(t) \/ ExitRemove(t)
      PROVE  TableInd'
  BY <1>8, JoinWaitPreserves, JoinReadPreserves, ExitWaitPreserves, ExitRemovePreserves
<1>9. ASSUME NEW t \in Thread, NEW ec \in ExitCode, CallExit(t, ec)
      PROVE  TableInd'
  BY <1>9, CallExitPreserves
<1> QED
  BY <1>1, <1>2, <1>3, <1>4, <1>5, <1>6, <1>7, <1>8, <1>9 DEF Next

LEMMA TableInit == Init => TableInd
<1> SUFFICES ASSUME Init PROVE TableInd
  OBVIOUS
<1>1. NewPCB(-1, MainThread, 0) \in PCBType
  BY PTableAssumption DEF NewPCB, PCBType
<1>2. NoLocals \in LocType
  BY DEF NoLocals, LocType
<1>3. TypeOK
  BY <1>1, <1>2, PTableAssumption, SlotFacts DEF Init, TypeOK, PC, LocType, Fault
<1>4. Used = {0}
  BY <1>1, PTableAssumption, SlotFacts DEF Init, Used
<1>5. ExecExclusive
  BY DEF Init, ExecExclusive, InExec
<1>6. SlotsMarked /\ Waiting
  BY <1>4 DEF Init, SlotsMarked, Waiting
<1> QED
  BY <1>3, <1>5, <1>6 DEF TableInd

(* Whatever the programs do, with and without time slicing: bmsem lets one *)
(* thread at a time into ExecUpdate and is given back on every path, and   *)
(* no Exec takes the slot of a process that still has it.                  *)
THEOREM TableIsSafe == Spec => []TableInv
<1>1. Init => TableInd
  BY TableInit
<1>2. TableInd /\ [Next]_vars => TableInd'
  BY TableStep
<1>3. TableInd => TableInv
  BY DEF TableInd, TableInv
<1> QED
  BY <1>1, <1>2, <1>3, PTL DEF Spec
-----------------------------------------------------------------------------
(***************************************************************************)
(* When Calm, the processes form a chain in the slots 0 .. k, each the     *)
(* parent of the next: only the last process can call Exec (of the others, *)
(* each has a child) and only the last can Exit, so slots are taken and    *)
(* freed at the end.  Chain(k) says this, and where the processes can be.  *)
(***************************************************************************)
Live(t) == pc[t] \notin {"new", "done"}

(* Where the process in slot i is; "new" while it has no thread yet.       *)
At(i) == IF pcb[i].thread \in Thread THEN pc[pcb[i].thread] ELSE "new"

Shape(k) ==
  /\ bm = 0 .. k
  /\ \A i \in Slot : pcb[i] # NoPCB <=> i <= k
  /\ pcb[0].thread = MainThread
  /\ \A i \in 0 .. k : pcb[i].parentID = i - 1

(* Every process has one slot, and every slot a process, but for the last  *)
(* one while its process is being created.                                 *)
Owners(k) ==
  /\ \A i \in 0 .. k : \/ pcb[i].thread \in Thread /\ Live(pcb[i].thread)
                       \/ i = k /\ pcb[i].thread = NoThread /\ pc[cpu] = "exec_fork"
  /\ \A i, j \in 0 .. k : pcb[i].thread = pcb[j].thread => i = j
  /\ \A t \in Thread : Live(t) => \E i \in 0 .. k : pcb[i].thread = t

Pids(k) ==
  \A i \in 0 .. k : \/ pcb[i].pid = i
                    \/ i = k /\ pc[cpu] \in {"exec_fork", "exec_setpid"}

(* Names of processes differ, and from the name of the one being created.  *)
Names ==
  /\ \A t, u \in Thread : Live(t) /\ Live(u) /\ name[t] = name[u] => t = u
  /\ pc[cpu] \in {"exec_P", "exec_check", "exec_fork"} =>
       \A u \in Thread : Live(u) => name[u] # loc[cpu].name

(* Without time slicing only the current thread is inside the kernel,      *)
(* apart from those that wait in Join or Exit.                             *)
Quiet == \A t \in Thread : t # cpu => pc[t] \in {"new", "done", "user", "join_P", "exit_P"}

Place(i, k) ==
  /\ i < k => At(i) \in {"user", "join_P", "join_read", "exec_fork", "exec_setpid", "exec_V"}
  /\ i = k => At(i) \in {"new", "user", "exec_P", "exec_check", "exit_P", "exit_remove"}
  /\ At(i) \in {"exec_fork", "exec_setpid"} => loc[pcb[i].thread].pid = k
  /\ At(i) \in {"join_P", "join_read"} =>
       loc[pcb[i].thread].pid = i /\ loc[pcb[i].thread].id = i + 1
  /\ At(i) \in {"exit_P", "exit_remove"} =>
       i > 0 /\ loc[pcb[i].thread].pid = i /\ loc[pcb[i].thread].id = i
  /\ At(i) = "exit_P" => loc[pcb[i].thread].ec = pcb[i].exitcode

(* A child that exits makes one token: a unit of its parent's joinsem j,   *)
(* which a Join takes and turns into a unit of the child's exitsem e.      *)
Token(parent, child, j, e) ==
  IF child = "exit_P"
  THEN \/ j = 1 /\ e = 0 /\ parent # "join_read"
       \/ j = 0 /\ e = 0 /\ parent = "join_read"
       \/ j = 0 /\ e = 1 /\ parent \notin {"join_P", "join_read"}
  ELSE /\ j = 0 /\ e = 0 /\ parent # "join_read"
       /\ child = "exit_remove" => parent # "join_P"

Tokens(k) ==
  /\ pcb[k].joinsem = 0 /\ pcb[0].exitsem = 0
  /\ \A i \in 0 .. k - 1 : Token(At(i), At(i + 1), pcb[i].joinsem, pcb[i + 1].exitsem)

Chain(k) ==
  /\ Shape(k) /\ Owners(k) /\ Pids(k) /\ Names /\ Quiet
  /\ \A i \in 0 .. k : Place(i, k)
  /\ Tokens(k)

CalmInv == Calm => /\ machine \in {"on", "halted"}
                   /\ \E k \in Slot : Chain(k)

Inv == TableInd /\ CalmInv
-----------------------------------------------------------------------------
(* Facts about a chain.                                                    *)

LEMMA ChainSlots ==
  ASSUME TypeOK, NEW k \in Slot, Chain(k)
  PROVE  /\ k \in Nat /\ 0 .. k \subseteq Slot /\ Used = 0 .. k
         /\ \A i \in 0 .. k : pcb[i] \in PCBType
         /\ \A i \in 0 .. k : /\ pcb[i].joinsem \in Nat /\ pcb[i].exitsem \in Nat
                              /\ pcb[i].pid \in Int /\ pcb[i].parentID = i - 1
<1>1. k \in Nat /\ 0 .. k \subseteq Slot
  BY PTableAssumption DEF Slot
<1>2. Used = 0 .. k
  BY <1>1, SlotFacts DEF Chain, Shape, Used
<1>3. \A i \in 0 .. k : pcb[i] \in PCBType
  BY <1>1, <1>2 DEF TypeOK, Used
<1>4. \A i \in 0 .. k : /\ pcb[i].joinsem \in Nat /\ pcb[i].exitsem \in Nat
                        /\ pcb[i].pid \in Int
  BY <1>3 DEF PCBType
<1> QED
  BY <1>1, <1>2, <1>3, <1>4 DEF Chain, Shape

(* The slot of a process, and what At says about it.                       *)
LEMMA OwnSlot ==
  ASSUME NEW k \in Slot, Chain(k), NEW t \in Thread, Live(t)
  PROVE  \E s \in 0 .. k : /\ pcb[s].thread = t /\ At(s) = pc[t]
                           /\ \A j \in 0 .. k : j # s => pcb[j].thread # t
<1>1. PICK s \in 0 .. k : pcb[s].thread = t
  BY DEF Chain, Owners
<1>2. At(s) = pc[t] /\ \A j \in 0 .. k : j # s => pcb[j].thread # t
  BY <1>1 DEF Chain, Owners, At
<1> QED
  BY <1>1, <1>2

LEMMA NoScanFault ==
  ASSUME TypeOK, NEW k \in Slot, Chain(k), pc[cpu] # "exec_fork"
  PROVE  ScanFault = "none"
<1>1. \A i \in Used : pcb[i].thread \in Thread /\ Live(pcb[i].thread)
  BY ChainSlots DEF Chain, Owners
<1> QED
  BY <1>1, PTableAssumption DEF ScanFault, Live

(* A process looks itself up by its name.                                  *)
LEMMA LookUpOwn ==
  ASSUME TypeOK, NEW k \in Slot, Chain(k), pc[cpu] \notin {"exec_fork", "exec_setpid"},
         NEW t \in Thread, NEW s \in 0 .. k, pcb[s].thread = t
  PROVE  LookUp(t) = s /\ CurrentID(t) = s
<1>1. \A i \in 0 .. k : pcb[i].thread \in Thread /\ Live(pcb[i].thread)
  BY DEF Chain, Owners
<1>2. Used = 0 .. k /\ s \in Nat /\ -1 \notin 0 .. k
  BY ChainSlots
<1>3. LookUp(t) \in 0 .. k /\ name[pcb[LookUp(t)].thread] = name[t]
  BY <1>2, LookUpFinds
<1>4. pcb[LookUp(t)].thread = t
  BY <1>1, <1>3 DEF Chain, Names
<1>5. LookUp(t) = s
  BY <1>3, <1>4 DEF Chain, Owners
<1>6. pcb[s].pid = s
  BY DEF Chain, Pids
<1> QED
  BY <1>2, <1>5, <1>6 DEF CurrentID

(* Only the last process has no child.                                     *)
LEMMA ChildrenOf ==
  ASSUME TypeOK, NEW k \in Slot, Chain(k), NEW t \in Thread, NEW s \in 0 .. k,
         pcb[s].thread = t, Children(t) = {}
  PROVE  s = k
<1>1. Used = 0 .. k /\ k \in Nat
  BY ChainSlots
<1> SUFFICES ASSUME s # k PROVE FALSE
  OBVIOUS
<1>2. s + 1 \in 0 .. k
  BY <1>1
<1>3. pcb[s + 1].parentID = s
  BY <1>1, <1>2 DEF Chain, Shape
<1>4. s + 1 \in Children(t)
  BY <1>1, <1>2, <1>3 DEF Children
<1> QED
  BY <1>4

(* A step of the current thread t, in slot s, that keeps the processes:    *)
(* all of the chain but the pids and tokens.                               *)
LEMMA ChainKept ==
  ASSUME TypeOK, NEW k \in Slot, Chain(k),
         NEW t \in Thread, t = cpu, NEW s \in 0 .. k, pcb[s].thread = t,
         pc[t] \notin {"new", "done", "exec_fork"},
         NEW at \in PC \ {"new", "done", "exec_fork"}, GoTo(t, at),
         \A u \in Thread : u # t => loc'[u] = loc[u],
         UNCHANGED <<name, bm, cpu>>,
         \A i \in Slot : /\ pcb'[i] # NoPCB <=> pcb[i] # NoPCB
                         /\ pcb[i] # NoPCB => /\ pcb'[i].thread = pcb[i].thread
                                              /\ pcb'[i].parentID = pcb[i].parentID
                                              /\ i # s => pcb'[i].exitcode = pcb[i].exitcode,
         at \in {"exec_P", "exec_check"} =>
           \A u \in Thread : Live(u) => name[u] # loc'[t].name,
         s < k => at \in {"user", "join_P", "join_read", "exec_setpid", "exec_V"},
         s = k => at \in {"user", "exec_P", "exec_check", "exit_P", "exit_remove"},
         at = "exec_setpid" => loc'[t].pid = k,
         at \in {"join_P", "join_read"} => loc'[t].pid = s /\ loc'[t].id = s + 1,
         at \in {"exit_P", "exit_remove"} => s > 0 /\ loc'[t].pid = s /\ loc'[t].id = s,
         at = "exit_P" => loc'[t].ec = pcb'[s].exitcode
  PROVE  /\ At(s)' = at /\ \A i \in 0 .. k : i # s => At(i)' = At(i)
         /\ Pids(k)' /\ Tokens(k)' => Chain(k)'
<1>1. pc' \in [Thread -> PC] /\ pc'[t] = at /\ \A u \in Thread : u # t => pc'[u] = pc[u]
  BY PCSet
<1>2. Used = 0 .. k /\ k \in Nat /\ 0 .. k \subseteq Slot
  BY ChainSlots
<1>3. \A i \in 0 .. k : /\ pcb'[i].thread = pcb[i].thread
                        /\ pcb'[i].parentID = pcb[i].parentID
                        /\ i # s => pcb'[i].exitcode = pcb[i].exitcode
  BY <1>2 DEF Used
<1>4. \A u \in Thread : Live(u)' <=> Live(u)
  BY <1>1 DEF Live
<1>5. pc[cpu] # "exec_fork" /\ pc'[cpu'] = at
  BY <1>1
<1>6. \A i \in 0 .. k : pcb[i].thread \in Thread /\ (i # s => pcb[i].thread # t)
  BY <1>5 DEF Chain, Owners
<1>7. At(s)' = at /\ \A i \in 0 .. k : i # s => At(i)' = At(i)
  BY <1>1, <1>3, <1>6 DEF At
<1>8. Shape(k)'
  BY <1>2, <1>3 DEF Chain, Shape
<1>9. Owners(k)'
  BY <1>3, <1>4, <1>5 DEF Chain, Owners
<1>10. Names'
  <2>1. \A u, v \in Thread : Live(u)' /\ Live(v)' /\ name'[u] = name'[v] => u = v
    BY <1>4 DEF Chain, Names
  <2>2. pc'[cpu'] \in {"exec_P", "exec_check", "exec_fork"} =>
          \A u \in Thread : Live(u)' => name'[u] # loc'[cpu'].name
    BY <1>4, <1>5
  <2> QED
    BY <2>1, <2>2 DEF Names
<1>11. Quiet'
  BY <1>1 DEF Chain, Quiet
<1>12. ASSUME NEW i \in 0 .. k
       PROVE  Place(i, k)'
  <2>1. CASE i = s
    BY <1>3, <1>7, <2>1 DEF Place
  <2>2. CASE i # s
    <3>1. loc'[pcb'[i].thread] = loc[pcb[i].thread]
      BY <1>3, <1>6, <2>2
    <3>2. Place(i, k) /\ At(i)' = At(i) /\ pcb'[i].exitcode = pcb[i].exitcode
      BY <1>3, <1>7, <2>2 DEF Chain
    <3> QED
      BY <3>1, <3>2 DEF Place
  <2> QED
    BY <2>1, <2>2
<1> QED
  BY <1>7, <1>8, <1>9, <1>10, <1>11, <1>12 DEF Chain

(* A step of that kind that neither leaves nor enters Join or Exit.        *)
LEMMA ChainPlain ==
  ASSUME TypeOK, NEW k \in Slot, Chain(k),
         NEW t \in Thread, t = cpu, NEW s \in 0 .. k, pcb[s].thread = t,
         pc[t] \in {"user", "exec_P", "exec_check", "exec_V"},
         NEW at \in {"user", "exec_P", "exec_check"}, GoTo(t, at),
         \A u \in Thread : u # t => loc'[u] = loc[u],
         UNCHANGED <<name, pcb, bm, cpu>>,
         at \in {"exec_P", "exec_check"} =>
           \A u \in Thread : Live(u) => name[u] # loc'[t].name,
         s < k => at = "user"
  PROVE  Chain(k)'
<1>1. k \in Nat /\ at \in PC \ {"new", "done", "exec_fork"}
  BY ChainSlots DEF PC
<1>2. /\ At(s)' = at /\ \A i \in 0 .. k : i # s => At(i)' = At(i)
      /\ Pids(k)' /\ Tokens(k)' => Chain(k)'
  BY <1>1, ChainKept
<1>3. At(s) = pc[t] /\ pc'[cpu'] = at
  BY PCSet DEF At, PC
<1>4. Pids(k)'
  BY <1>3 DEF Chain, Pids
<1>5. Tokens(k)'
  <2>1. pcb'[k].joinsem = 0 /\ pcb'[0].exitsem = 0
    BY DEF Chain, Tokens
  <2>2. ASSUME NEW i \in 0 .. k - 1
        PROVE  Token(At(i)', At(i + 1)', pcb'[i].joinsem, pcb'[i + 1].exitsem)
    <3>1. i \in 0 .. k /\ i + 1 \in 0 .. k
      BY <1>1
    <3>2. Token(At(i), At(i + 1), pcb[i].joinsem, pcb[i + 1].exitsem)
      BY DEF Chain, Tokens
    <3>3. \/ At(i)' = At(i)
          \/ At(i)' \in {"user", "exec_P", "exec_check"} /\ At(i) \notin {"join_P", "join_read"}
      BY <1>2, <1>3, <3>1
    <3>4. \/ At(i + 1)' = At(i + 1)
          \/ /\ At(i + 1)' \notin {"exit_P", "exit_remove"}
             /\ At(i + 1) \notin {"exit_P", "exit_remove"}
      BY <1>2, <1>3, <3>1
    <3> QED
      BY <3>2, <3>3, <3>4 DEF Token
  <2> QED
    BY <2>1, <2>2 DEF Tokens
<1> QED
  BY <1>2, <1>4, <1>5

(* The slot of the thread that makes a step.                               *)
LEMMA StepSlot ==
  ASSUME TypeOK, NEW k \in Slot, Chain(k), NEW t \in Thread,
         NEW at \in PC \ {"new", "done"}, Running(t, at)
  PROVE  /\ t = cpu /\ pc[t] = at
         /\ \E s \in 0 .. k : /\ pcb[s].thread = t /\ At(s) = at /\ Place(s, k)
                              /\ \A j \in 0 .. k : j # s => pcb[j].thread # t
<1>1. t = cpu /\ pc[t] = at /\ Live(t)
  BY DEF Running, Live
<1> QED
  BY <1>1, OwnSlot DEF Chain

LEMMA CallExecChain ==
  ASSUME TypeOK, Calm, NEW k \in Slot, Chain(k), NEW t \in Thread, NEW n \in Program,
         CallExec(t, n)
  PROVE  Chain(k)'
<1>1. PICK s \in 0 .. k : /\ t = cpu /\ pc[t] = "user" /\ pcb[s].thread = t
  BY StepSlot DEF CallExec, PC
<1>2. Children(t) = {} /\ \A u \in Thread : Live(u) => name[u] # n
  BY DEF CallExec, ExecAllowed, Calm, Rules, Live
<1>3. s = k
  BY <1>1, <1>2, ChildrenOf
<1>4. loc \in [Thread -> LocType]
  BY DEF TypeOK, LocType
<1>5. loc' = [loc EXCEPT ![t].name = n] /\ GoTo(t, "exec_P") /\ UNCHANGED <<name, pcb, bm, cpu>>
  BY DEF CallExec
<1>6. [loc[t] EXCEPT !.name = n].name = n
  BY <1>4 DEF LocType
<1>7. loc'[t].name = n /\ \A u \in Thread : u # t => loc'[u] = loc[u]
  BY <1>4, <1>5, <1>6
<1>8. ~(s < k)
  BY <1>3, SlotFacts
<1> QED
  BY <1>1, <1>2, <1>5, <1>7, <1>8, ChainPlain

LEMMA ExecPChain ==
  ASSUME TypeOK, NEW k \in Slot, Chain(k), NEW t \in Thread, ExecP(t)
  PROVE  Chain(k)'
<1>1. PICK s \in 0 .. k : /\ t = cpu /\ pc[t] = "exec_P" /\ pcb[s].thread = t
                          /\ At(s) = "exec_P" /\ Place(s, k)
  BY StepSlot DEF ExecP, PC
<1>2. ~(s < k)
  BY <1>1 DEF Place
<1>3. GoTo(t, "exec_check") /\ UNCHANGED <<name, loc, pcb, bm, cpu>>
  BY DEF ExecP
<1>4. \A u \in Thread : Live(u) => name[u] # loc[t].name
  BY <1>1 DEF Chain, Names
<1> QED
  BY <1>1, <1>2, <1>3, <1>4, ChainPlain

LEMMA ExecRefusedChain ==
  ASSUME TypeOK, NEW k \in Slot, Chain(k), NEW t \in Thread, ExecRefused(t)
  PROVE  Chain(k)'
<1>1. PICK s \in 0 .. k : t = cpu /\ pc[t] = "exec_check" /\ pcb[s].thread = t
  BY StepSlot DEF ExecRefused, PC
<1>2. CurrentID(t) = s
  BY <1>1, LookUpOwn
<1>3. CurrentID(t) # -1
  BY <1>2, ChainSlots
<1>4. GoTo(t, "user") /\ UNCHANGED <<name, loc, pcb, bm, cpu>>
  BY <1>3 DEF ExecRefused
<1> QED
  BY <1>1, <1>4, ChainPlain

LEMMA ExecVChain ==
  ASSUME TypeOK, NEW k \in Slot, Chain(k), NEW t \in Thread, ExecV(t)
  PROVE  Chain(k)'
<1>1. PICK s \in 0 .. k : t = cpu /\ pc[t] = "exec_V" /\ pcb[s].thread = t
  BY StepSlot DEF ExecV, PC
<1>2. GoTo(t, "user") /\ UNCHANGED <<name, loc, pcb, bm, cpu>>
  BY DEF ExecV
<1> QED
  BY <1>1, <1>2, ChainPlain

(* The new slot is the one after the last.                                 *)
LEMMA ExecCreateChain ==
  ASSUME TypeOK, NEW k \in Slot, Chain(k), NEW t \in Thread, ExecCreate(t)
  PROVE  /\ machine' = machine
         /\ \E j \in Slot : Chain(j)'
<1>1. PICK s \in 0 .. k : /\ t = cpu /\ pc[t] = "exec_check" /\ pcb[s].thread = t
                          /\ At(s) = "exec_check" /\ Place(s, k)
                          /\ \A j \in 0 .. k : j # s => pcb[j].thread # t
  BY StepSlot DEF ExecCreate, PC
<1>2. k \in Nat /\ s = k /\ 0 .. k \subseteq Slot /\ Used = 0 .. k /\ bm = 0 .. k
  BY <1>1, ChainSlots DEF Place, Chain, Shape
<1>3. ScanFault = "none" /\ CurrentID(t) = k
  BY <1>1, <1>2, NoScanFault, LookUpOwn
<1>4. PICK pid \in Slot \ bm, g \in Int :
           /\ \A j \in Slot \ bm : pid <= j
           /\ pcb' = [pcb EXCEPT ![pid] = NewPCB(k, NoThread, g)]
           /\ bm' = bm \cup {pid}
           /\ loc'[t].pid = pid /\ loc'[t].name = loc[t].name
           /\ \A u \in Thread : u # t => loc'[u] = loc[u]
           /\ GoTo(t, "exec_fork")
           /\ UNCHANGED <<setting, name, bmsem, cpu, machine>>
  BY <1>3, ExecCreateEffect
<1> DEFINE m == k + 1
<1>5. pid = m /\ m \in Slot /\ bm' = 0 .. m /\ m \in Nat
  <2>1. pid \in Nat /\ pid > k /\ pid \in 0 .. MaxProcess - 1
    BY <1>2, <1>4, SlotFacts
  <2>2. m \in Slot \ bm
    BY <1>2, <2>1, PTableAssumption DEF Slot
  <2>3. pid = m
    BY <1>2, <1>4, <2>1, <2>2
  <2> QED
    BY <1>2, <1>4, <2>2, <2>3
<1>6. /\ OnlySlot(m)
      /\ pcb'[m].thread = NoThread /\ pcb'[m].parentID = k
      /\ pcb'[m].joinsem = 0 /\ pcb'[m].exitsem = 0
  <2>1. m \in Slot /\ k \in Int /\ pcb' = [pcb EXCEPT ![m] = NewPCB(k, NoThread, g)]
    BY <1>2, <1>4, <1>5
  <2> HIDE DEF m
  <2> QED
    BY <2>1, NewSlot
<1>7. /\ pc'[t] = "exec_fork" /\ \A u \in Thread : u # t => pc'[u] = pc[u]
  BY <1>4, PCSet DEF PC
<1>8. \A i \in 0 .. k : pcb'[i] = pcb[i] /\ pcb[i].thread \in Thread /\ Live(pcb[i].thread)
  BY <1>1, <1>2, <1>5, <1>6 DEF OnlySlot, Chain, Owners
<1>9. 0 .. m = (0 .. k) \cup {m} /\ m \notin 0 .. k /\ \A i \in 0 .. k : i < m
  BY <1>2
<1>10. \A u \in Thread : Live(u)' <=> Live(u)
  BY <1>1, <1>7 DEF Live
<1>11. At(k)' = "exec_fork" /\ At(m)' = "new" /\ \A i \in 0 .. k : i # k => At(i)' = At(i)
  BY <1>1, <1>2, <1>6, <1>7, <1>8, PTableAssumption DEF At
<1>12. Shape(m)'
  <2>1. \A i \in Slot : pcb'[i] # NoPCB <=> i <= m
    BY <1>2, <1>5, <1>6, <1>9, SlotFacts DEF OnlySlot, Chain, Shape
  <2>2. \A i \in 0 .. m : pcb'[i].parentID = i - 1
    BY <1>2, <1>6, <1>8, <1>9 DEF Chain, Shape
  <2>3. pcb'[0].thread = MainThread
    BY <1>2, <1>8 DEF Chain, Shape
  <2> QED
    BY <1>5, <2>1, <2>2, <2>3 DEF Shape
<1>13. Owners(m)'
  <2>1. \A i \in 0 .. m : \/ pcb'[i].thread \in Thread /\ pc'[pcb'[i].thread] \notin {"new", "done"}
                          \/ i = m /\ pcb'[i].thread = NoThread /\ pc'[cpu'] = "exec_fork"
    BY <1>1, <1>4, <1>6, <1>7, <1>8, <1>9 DEF Live
  <2>2. \A i, j \in 0 .. m : pcb'[i].thread = pcb'[j].thread => i = j
    BY <1>6, <1>8, <1>9, PTableAssumption DEF Chain, Owners
  <2>3. \A u \in Thread : Live(u)' => \E i \in 0 .. m : pcb'[i].thread = u
    BY <1>8, <1>9, <1>10 DEF Chain, Owners
  <2> QED
    BY <2>1, <2>2, <2>3 DEF Owners, Live
<1>14. Pids(m)'
  BY <1>1, <1>4, <1>7, <1>8, <1>9 DEF Chain, Pids
<1>15. Names'
  <2>1. \A u \in Thread : Live(u) => name[u] # loc[t].name
    BY <1>1 DEF Chain, Names
  <2> QED
    BY <1>1, <1>4, <1>10, <2>1 DEF Chain, Names
<1>16. Quiet'
  BY <1>1, <1>4, <1>7 DEF Chain, Quiet
<1>17. ASSUME NEW i \in 0 .. m
       PROVE  Place(i, m)'
  <2>1. CASE i = m
    BY <1>5, <1>11, <2>1 DEF Place
  <2>2. CASE i = k
    BY <1>1, <1>2, <1>4, <1>5, <1>8, <1>11, <2>2 DEF Place
  <2>3. CASE i # m /\ i # k
    <3>1. /\ i \in 0 .. k /\ i < k /\ i < m /\ i # m /\ Place(i, k) /\ At(i)' = At(i)
      BY <1>2, <1>9, <1>11, <2>3 DEF Chain
    <3>2. loc'[pcb'[i].thread] = loc[pcb[i].thread] /\ pcb'[i] = pcb[i]
      BY <1>1, <1>2, <1>4, <1>8, <2>3, <3>1
    <3>3. At(i) \notin {"exec_fork", "exec_setpid"}
      <4>1. pcb[i].thread \in Thread /\ pcb[i].thread # cpu /\ At(i) = pc[pcb[i].thread]
        BY <1>1, <1>2, <1>8, <2>3, <3>1 DEF At
      <4> QED
        BY <4>1 DEF Chain, Quiet
    <3> QED
      BY <3>1, <3>2, <3>3 DEF Place
  <2> QED
    BY <2>1, <2>2, <2>3
<1>18. Tokens(m)'
  <2>1. pcb'[m].joinsem = 0 /\ pcb'[0].exitsem = 0 /\ pcb[k].joinsem = 0
    BY <1>2, <1>6, <1>8 DEF Chain, Tokens
  <2>2. ASSUME NEW i \in 0 .. m - 1
        PROVE  Token(At(i)', At(i + 1)', pcb'[i].joinsem, pcb'[i + 1].exitsem)
    <3>1. CASE i = k
      BY <1>2, <1>6, <1>8, <1>11, <2>1, <3>1 DEF Token
    <3>2. CASE i # k
      <4>1. i \in 0 .. k - 1 /\ i \in 0 .. k /\ i + 1 \in 0 .. k
        BY <1>2, <3>2
      <4>2. Token(At(i), At(i + 1), pcb[i].joinsem, pcb[i + 1].exitsem)
        BY <4>1 DEF Chain, Tokens
      <4>3. At(i)' = At(i) /\ pcb'[i] = pcb[i] /\ pcb'[i + 1] = pcb[i + 1]
        BY <1>8, <1>11, <3>2, <4>1
      <4>4. \/ At(i + 1)' = At(i + 1)
            \/ At(i + 1)' = "exec_fork" /\ At(i + 1) = "exec_check"
        BY <1>1, <1>2, <1>11, <4>1
      <4> QED
        BY <4>2, <4>3, <4>4 DEF Token
    <3> QED
      BY <3>1, <3>2
  <2> QED
    BY <2>1, <2>2 DEF Tokens
<1> HIDE DEF m
<1>19. Chain(m)'
  BY <1>12, <1>13, <1>14, <1>15, <1>16, <1>17, <1>18 DEF Chain
<1> QED
  BY <1>4, <1>5, <1>19

(* The last slot gets its thread.                                          *)
LEMMA ExecForkChain ==
  ASSUME TypeOK, SlotsMarked, NEW k \in Slot, Chain(k), NEW t \in Thread, ExecFork(t)
  PROVE  machine' = machine /\ Chain(k)'
<1>1. PICK s \in 0 .. k : /\ t = cpu /\ pc[t] = "exec_fork" /\ pcb[s].thread = t
                          /\ At(s) = "exec_fork" /\ Place(s, k)
                          /\ \A j \in 0 .. k : j # s => pcb[j].thread # t
  BY StepSlot DEF ExecFork, PC
<1>2. /\ k \in Nat /\ s \in 0 .. k - 1 /\ 0 .. k \subseteq Slot /\ Used = 0 .. k
      /\ loc[t].pid = k /\ pcb[k].thread = NoThread
  BY <1>1, ChainSlots DEF Place, SlotsMarked
<1>3. PICK u \in Thread :
        /\ u # t /\ pc[u] = "new"
        /\ pcb' = [pcb EXCEPT ![k].thread = u]
        /\ name'[u] = loc[t].name /\ \A v \in Thread : v # u => name'[v] = name[v]
        /\ pc'[t] = "exec_setpid" /\ pc'[u] = "user"
        /\ \A v \in Thread : v # t /\ v # u => pc'[v] = pc[v]
        /\ UNCHANGED <<setting, loc, bm, bmsem, cpu, machine>>
  BY <1>2, ExecForkEffect
<1>4. /\ OnlySlot(k)
      /\ pcb'[k].thread = u /\ pcb'[k].pid = pcb[k].pid
      /\ pcb'[k].parentID = pcb[k].parentID /\ pcb'[k].joinsem = pcb[k].joinsem
      /\ pcb'[k].exitsem = pcb[k].exitsem
  <2>1. k \in Used
    BY <1>2
  <2> QED
    BY <1>3, <2>1, ThreadSet
<1>5. \A i \in 0 .. k : i # k => /\ pcb'[i] = pcb[i] /\ pcb[i].thread \in Thread
                                 /\ Live(pcb[i].thread) /\ pcb[i].thread # u
  BY <1>2, <1>3, <1>4 DEF OnlySlot, Chain, Owners, Live
<1>6. /\ At(k)' = "user" /\ At(s)' = "exec_setpid" /\ At(k) = "new"
      /\ \A i \in 0 .. k : i # k /\ i # s => At(i)' = At(i)
  BY <1>1, <1>2, <1>3, <1>4, <1>5, PTableAssumption DEF At
<1>7. Shape(k)'
  BY <1>2, <1>3, <1>4, <1>5, SlotFacts DEF Chain, Shape, OnlySlot
<1>8. \A v \in Thread : Live(v)' <=> Live(v) \/ v = u
  BY <1>1, <1>3 DEF Live
<1>9. Owners(k)'
  <2>1. \A i \in 0 .. k : pcb'[i].thread \in Thread /\ pc'[pcb'[i].thread] \notin {"new", "done"}
    BY <1>2, <1>3, <1>4, <1>5 DEF Live
  <2>2. \A i, j \in 0 .. k : pcb'[i].thread = pcb'[j].thread => i = j
    BY <1>4, <1>5 DEF Chain, Owners
  <2>3. ASSUME NEW v \in Thread, Live(v)'
        PROVE  \E i \in 0 .. k : pcb'[i].thread = v
    <3>1. CASE v = u
      BY <1>2, <1>4, <3>1
    <3>2. CASE v # u
      <4>1. PICK i \in 0 .. k : pcb[i].thread = v
        BY <1>8, <2>3, <3>2 DEF Chain, Owners
      <4>2. i # k
        BY <1>2, <4>1, PTableAssumption
      <4> QED
        BY <1>5, <4>1, <4>2
    <3> QED
      BY <3>1, <3>2
  <2> QED
    BY <2>1, <2>2, <2>3 DEF Owners, Live
<1>10. Pids(k)'
  BY <1>1, <1>3, <1>4, <1>5 DEF Chain, Pids
<1>11. Names'
  <2>1. \A v \in Thread : Live(v) => name[v] # loc[t].name
    BY <1>1 DEF Chain, Names
  <2>2. \A v, w \in Thread : Live(v)' /\ Live(w)' /\ name'[v] = name'[w] => v = w
    BY <1>3, <1>8, <2>1 DEF Chain, Names
  <2> QED
    BY <1>1, <1>3, <2>2 DEF Names
<1>12. Quiet'
  BY <1>1, <1>3 DEF Chain, Quiet
<1>13. ASSUME NEW i \in 0 .. k
       PROVE  Place(i, k)'
  <2>1. CASE i = k
    BY <1>2, <1>6, <2>1 DEF Place
  <2>2. CASE i = s
    BY <1>1, <1>2, <1>3, <1>5, <1>6, <2>2 DEF Place
  <2>3. CASE i # k /\ i # s
    <3>1. Place(i, k) /\ At(i)' = At(i) /\ pcb'[i] = pcb[i] /\ loc' = loc
      BY <1>3, <1>5, <1>6, <2>3 DEF Chain
    <3> QED
      BY <3>1 DEF Place
  <2> QED
    BY <2>1, <2>2, <2>3
<1>14. Tokens(k)'
  <2>1. pcb'[k].joinsem = 0 /\ pcb'[0].exitsem = 0
    BY <1>2, <1>4, <1>5 DEF Chain, Tokens
  <2>2. ASSUME NEW i \in 0 .. k - 1
        PROVE  Token(At(i)', At(i + 1)', pcb'[i].joinsem, pcb'[i + 1].exitsem)
    <3>1. i \in 0 .. k /\ i + 1 \in 0 .. k /\ i # k
      BY <1>2
    <3>2. Token(At(i), At(i + 1), pcb[i].joinsem, pcb[i + 1].exitsem)
      BY DEF Chain, Tokens
    <3>3. pcb'[i].joinsem = pcb[i].joinsem /\ pcb'[i + 1].exitsem = pcb[i + 1].exitsem
      BY <1>4, <1>5, <3>1
    <3>4. At(i)' = At(i) \/ (At(i)' = "exec_setpid" /\ At(i) = "exec_fork")
      BY <1>1, <1>6, <3>1
    <3>5. \/ At(i + 1)' = At(i + 1)
          \/ /\ At(i + 1)' \notin {"exit_P", "exit_remove"}
             /\ At(i + 1) \notin {"exit_P", "exit_remove"}
      BY <1>1, <1>6, <3>1
    <3> QED
      BY <3>2, <3>3, <3>4, <3>5 DEF Token
  <2> QED
    BY <2>1, <2>2 DEF Tokens
<1> QED
  BY <1>3, <1>7, <1>9, <1>10, <1>11, <1>12, <1>13, <1>14 DEF Chain

LEMMA ExecSetPidChain ==
  ASSUME TypeOK, NEW k \in Slot, Chain(k), NEW t \in Thread, ExecSetPid(t)
  PROVE  machine' = machine /\ Chain(k)'
<1>1. PICK s \in 0 .. k : /\ t = cpu /\ pc[t] = "exec_setpid" /\ pcb[s].thread = t
                          /\ At(s) = "exec_setpid" /\ Place(s, k)
  BY StepSlot DEF ExecSetPid, PC
<1>2. k \in Nat /\ 0 .. k \subseteq Slot /\ Used = 0 .. k /\ s \in 0 .. k - 1 /\ loc[t].pid = k
  BY <1>1, ChainSlots DEF Place
<1>3. Valid(loc[t].pid)
  BY <1>2 DEF Valid
<1>4. /\ pcb' = [pcb EXCEPT ![k].pid = k] /\ GoTo(t, "exec_V")
      /\ UNCHANGED <<name, loc, bm, cpu, machine>>
  BY <1>2, <1>3 DEF ExecSetPid
<1>5. /\ OnlySlot(k) /\ pcb[k] # NoPCB
      /\ pcb'[k].thread = pcb[k].thread /\ pcb'[k].pid = k
      /\ pcb'[k].parentID = pcb[k].parentID /\ pcb'[k].joinsem = pcb[k].joinsem
      /\ pcb'[k].exitsem = pcb[k].exitsem /\ pcb'[k].exitcode = pcb[k].exitcode
  <2>1. k \in Used /\ k \in Int /\ pcb[k] # NoPCB
    BY <1>2 DEF Used
  <2> QED
    BY <1>4, <2>1, PidSet
<1>6. \A i \in Slot : /\ pcb'[i] # NoPCB <=> pcb[i] # NoPCB
                      /\ pcb'[i].thread = pcb[i].thread
                      /\ pcb'[i].parentID = pcb[i].parentID
                      /\ pcb'[i].joinsem = pcb[i].joinsem
                      /\ pcb'[i].exitsem = pcb[i].exitsem
                      /\ pcb'[i].exitcode = pcb[i].exitcode
  BY <1>5 DEF OnlySlot
<1>7. "exec_V" \in PC \ {"new", "done", "exec_fork"} /\ s < k /\ s # k
  BY <1>2 DEF PC
<1>8. /\ At(s)' = "exec_V" /\ \A i \in 0 .. k : i # s => At(i)' = At(i)
      /\ Pids(k)' /\ Tokens(k)' => Chain(k)'
  BY <1>1, <1>4, <1>6, <1>7, ChainKept
<1>9. Pids(k)'
  <2>1. \A i \in 0 .. k : i # k => pcb'[i].pid = i
    BY <1>2, <1>5 DEF OnlySlot, Chain, Pids
  <2> QED
    BY <1>5, <2>1 DEF Pids
<1>10. Tokens(k)'
  <2>1. pcb'[k].joinsem = 0 /\ pcb'[0].exitsem = 0
    BY <1>6, SlotFacts DEF Chain, Tokens
  <2>2. ASSUME NEW i \in 0 .. k - 1
        PROVE  Token(At(i)', At(i + 1)', pcb'[i].joinsem, pcb'[i + 1].exitsem)
    <3>1. i \in 0 .. k /\ i + 1 \in 0 .. k /\ i \in Slot /\ i + 1 \in Slot
      BY <1>2
    <3>2. Token(At(i), At(i + 1), pcb[i].joinsem, pcb[i + 1].exitsem)
      BY DEF Chain, Tokens
    <3>3. pcb'[i].joinsem = pcb[i].joinsem /\ pcb'[i + 1].exitsem = pcb[i + 1].exitsem
      BY <1>6, <3>1
    <3>4. At(i)' = At(i) \/ (At(i)' = "exec_V" /\ At(i) = "exec_setpid")
      BY <1>1, <1>8, <3>1
    <3>5. At(i + 1)' = At(i + 1) \/ (At(i + 1)' = "exec_V" /\ At(i + 1) = "exec_setpid")
      BY <1>1, <1>8, <3>1
    <3> QED
      BY <3>2, <3>3, <3>4, <3>5 DEF Token
  <2> QED
    BY <2>1, <2>2 DEF Tokens
<1> QED
  BY <1>4, <1>8, <1>9, <1>10

(* Only the next process in the chain can be joined.                       *)
LEMMA CallJoinChain ==
  ASSUME TypeOK, Calm, NEW k \in Slot, Chain(k), NEW t \in Thread, NEW id \in Slot,
         CallJoin(t, id)
  PROVE  machine' = machine /\ Chain(k)'
<1>1. PICK s \in 0 .. k : /\ t = cpu /\ pc[t] = "user" /\ pcb[s].thread = t /\ At(s) = "user"
  BY StepSlot DEF CallJoin, PC
<1>2. ScanFault = "none" /\ CurrentID(t) = s
  BY <1>1, NoScanFault, LookUpOwn
<1>3. k \in Nat /\ 0 .. k \subseteq Slot /\ Used = 0 .. k /\ Valid(CurrentID(t))
  BY <1>2, ChainSlots DEF Valid
<1>4. /\ id \in 0 .. k /\ pcb[id].parentID = s
      /\ GoTo(t, "join_P")
      /\ loc'[t].id = id /\ loc'[t].pid = s
      /\ \A u \in Thread : u # t => loc'[u] = loc[u]
      /\ UNCHANGED <<setting, name, pcb, bm, bmsem, cpu, machine>>
  BY <1>2, <1>3, CallJoinEffect DEF Valid
<1>5. id = s + 1 /\ s \in 0 .. k - 1 /\ s < k /\ s # k
  BY <1>3, <1>4, ChainSlots
<1>6. pcb[s + 1].exitsem = 0 /\ At(s + 1) # "exit_remove"
  BY <1>3, <1>4, <1>5 DEF CallJoin, JoinAllowed, Calm, Rules, Valid, At
<1>7. "join_P" \in PC \ {"new", "done", "exec_fork"}
  BY DEF PC
<1>8. /\ At(s)' = "join_P" /\ \A i \in 0 .. k : i # s => At(i)' = At(i)
      /\ Pids(k)' /\ Tokens(k)' => Chain(k)'
  BY <1>1, <1>4, <1>5, <1>7, ChainKept
<1>9. Pids(k)'
  BY <1>1, <1>4 DEF Chain, Pids
<1>10. Tokens(k)'
  <2>1. pcb'[k].joinsem = 0 /\ pcb'[0].exitsem = 0
    BY <1>4 DEF Chain, Tokens
  <2>2. ASSUME NEW i \in 0 .. k - 1
        PROVE  Token(At(i)', At(i + 1)', pcb'[i].joinsem, pcb'[i + 1].exitsem)
    <3>1. i \in 0 .. k /\ i + 1 \in 0 .. k
      BY <1>3
    <3>2. Token(At(i), At(i + 1), pcb[i].joinsem, pcb[i + 1].exitsem)
      BY DEF Chain, Tokens
    <3>3. \/ At(i + 1)' = At(i + 1)
          \/ At(i + 1)' = "join_P" /\ At(i + 1) = "user"
      BY <1>1, <1>8, <3>1
    <3>4. CASE i = s
      BY <1>1, <1>4, <1>6, <1>8, <3>1, <3>2, <3>3, <3>4 DEF Token
    <3>5. CASE i # s
      BY <1>4, <1>8, <3>1, <3>2, <3>3, <3>5 DEF Token
    <3> QED
      BY <3>4, <3>5
  <2> QED
    BY <2>1, <2>2 DEF Tokens
<1> QED
  BY <1>4, <1>8, <1>9, <1>10

(* A Join that gets past its P finds its child at the P of exitsem.        *)
LEMMA JoinWaitChain ==
  ASSUME TableInd, NEW k \in Slot, Chain(k), NEW t \in Thread, JoinWait(t)
  PROVE  machine' = machine /\ Chain(k)'
<1>0. TypeOK
  BY DEF TableInd
<1>1. PICK s \in 0 .. k : /\ t = cpu /\ pc[t] = "join_P" /\ pcb[s].thread = t
                          /\ At(s) = "join_P" /\ Place(s, k)
  BY <1>0, StepSlot DEF JoinWait, PC
<1>2. /\ k \in Nat /\ 0 .. k \subseteq Slot /\ Used = 0 .. k
      /\ s \in 0 .. k - 1 /\ s < k /\ s # k /\ loc[t].pid = s /\ loc[t].id = s + 1
  BY <1>0, <1>1, ChainSlots DEF Place
<1>3. /\ pcb[s].joinsem \in Nat /\ pcb[s].joinsem > 0
      /\ pcb' = [pcb EXCEPT ![s].joinsem = pcb[s].joinsem - 1]
      /\ GoTo(t, "join_read") /\ UNCHANGED <<setting, name, loc, bm, bmsem, cpu, machine>>
  BY <1>2, JoinWaitEffect
<1>4. Token(At(s), At(s + 1), pcb[s].joinsem, pcb[s + 1].exitsem)
  BY <1>2 DEF Chain, Tokens
<1>5. pcb[s].joinsem = 1 /\ pcb[s + 1].exitsem = 0 /\ At(s + 1) = "exit_P"
  BY <1>3, <1>4 DEF Token
<1>6. pcb' = [pcb EXCEPT ![s].joinsem = 0] /\ s \in Used /\ pcb[s] # NoPCB
  BY <1>2, <1>3, <1>5 DEF Used
<1>7. /\ OnlySlot(s)
      /\ pcb'[s].thread = pcb[s].thread /\ pcb'[s].pid = pcb[s].pid
      /\ pcb'[s].parentID = pcb[s].parentID /\ pcb'[s].joinsem = 0
      /\ pcb'[s].exitsem = pcb[s].exitsem /\ pcb'[s].exitcode = pcb[s].exitcode
  BY <1>0, <1>6, JoinsemSet
<1>8. \A i \in Slot : /\ pcb'[i] # NoPCB <=> pcb[i] # NoPCB
                      /\ pcb'[i].thread = pcb[i].thread
                      /\ pcb'[i].pid = pcb[i].pid
                      /\ pcb'[i].parentID = pcb[i].parentID
                      /\ i # s => pcb'[i].joinsem = pcb[i].joinsem
                      /\ pcb'[i].exitsem = pcb[i].exitsem
                      /\ pcb'[i].exitcode = pcb[i].exitcode
  BY <1>6, <1>7 DEF OnlySlot
<1>9. "join_read" \in PC \ {"new", "done", "exec_fork"}
  BY DEF PC
<1>10. /\ At(s)' = "join_read" /\ \A i \in 0 .. k : i # s => At(i)' = At(i)
       /\ Pids(k)' /\ Tokens(k)' => Chain(k)'
  BY <1>0, <1>1, <1>2, <1>3, <1>8, <1>9, ChainKept
<1>11. Pids(k)'
  BY <1>1, <1>2, <1>3, <1>8 DEF Chain, Pids
<1>12. Tokens(k)'
  <2>1. pcb'[k].joinsem = 0 /\ pcb'[0].exitsem = 0
    BY <1>2, <1>8, SlotFacts DEF Chain, Tokens
  <2>2. ASSUME NEW i \in 0 .. k - 1
        PROVE  Token(At(i)', At(i + 1)', pcb'[i].joinsem, pcb'[i + 1].exitsem)
    <3>1. i \in 0 .. k /\ i + 1 \in 0 .. k /\ i \in Slot /\ i + 1 \in Slot /\ i + 1 # i
      BY <1>2
    <3>2. Token(At(i), At(i + 1), pcb[i].joinsem, pcb[i + 1].exitsem)
      BY DEF Chain, Tokens
    <3>3. pcb'[i + 1].exitsem = pcb[i + 1].exitsem
      BY <1>8, <3>1
    <3>4. CASE i = s
      BY <1>5, <1>7, <1>10, <3>1, <3>3, <3>4 DEF Token
    <3>5. CASE i # s
      <4>1. \/ At(i + 1)' = At(i + 1)
            \/ At(i + 1)' = "join_read" /\ At(i + 1) = "join_P"
        BY <1>1, <1>10, <3>1
      <4>2. At(i)' = At(i) /\ pcb'[i].joinsem = pcb[i].joinsem
        BY <1>8, <1>10, <3>1, <3>5
      <4> QED
        BY <3>2, <3>3, <4>1, <4>2 DEF Token
    <3> QED
      BY <3>4, <3>5
  <2> QED
    BY <2>1, <2>2 DEF Tokens
<1> QED
  BY <1>3, <1>10, <1>11, <1>12

LEMMA JoinReadChain ==
  ASSUME TypeOK, NEW k \in Slot, Chain(k), NEW t \in Thread, JoinRead(t)
  PROVE  machine' = machine /\ Chain(k)'
<1>1. PICK s \in 0 .. k : /\ t = cpu /\ pc[t] = "join_read" /\ pcb[s].thread = t
                          /\ At(s) = "join_read" /\ Place(s, k)
  BY StepSlot DEF JoinRead, PC
<1>2. /\ k \in Nat /\ 0 .. k \subseteq Slot /\ Used = 0 .. k
      /\ s \in 0 .. k - 1 /\ s < k /\ s # k /\ s + 1 \in 0 .. k
      /\ loc[t].pid = s /\ loc[t].id = s + 1
  BY <1>1, ChainSlots DEF Place
<1>3. Valid(loc[t].id) /\ Valid(loc[t].pid)
  BY <1>2 DEF Valid
<1>4. Token(At(s), At(s + 1), pcb[s].joinsem, pcb[s + 1].exitsem)
  BY <1>2 DEF Chain, Tokens
<1>5. pcb[s].joinsem = 0 /\ pcb[s + 1].exitsem = 0 /\ At(s + 1) = "exit_P"
  BY <1>1, <1>4 DEF Token
<1>6. /\ pcb' = [pcb EXCEPT ![s + 1].exitsem = 1] /\ s + 1 \in Used /\ pcb[s + 1] # NoPCB
      /\ GoTo(t, "user") /\ UNCHANGED <<setting, name, loc, bm, bmsem, cpu, machine>>
  BY <1>2, <1>3, <1>5, JoinReadEffect DEF Used
<1>7. /\ OnlySlot(s + 1)
      /\ pcb'[s + 1].thread = pcb[s + 1].thread /\ pcb'[s + 1].pid = pcb[s + 1].pid
      /\ pcb'[s + 1].parentID = pcb[s + 1].parentID
      /\ pcb'[s + 1].joinsem = pcb[s + 1].joinsem
      /\ pcb'[s + 1].exitsem = 1 /\ pcb'[s + 1].exitcode = pcb[s + 1].exitcode
  <2> DEFINE c == s + 1
  <2>1. c \in Used /\ 1 \in Nat /\ pcb' = [pcb EXCEPT ![c].exitsem = 1]
    BY <1>6
  <2> HIDE DEF c
  <2>2. /\ OnlySlot(c)
        /\ pcb'[c].thread = pcb[c].thread /\ pcb'[c].pid = pcb[c].pid
        /\ pcb'[c].parentID = pcb[c].parentID
        /\ pcb'[c].joinsem = pcb[c].joinsem
        /\ pcb'[c].exitsem = 1 /\ pcb'[c].exitcode = pcb[c].exitcode
    BY <2>1, ExitsemSet
  <2> QED
    BY <2>2 DEF c
<1>8. \A i \in Slot : /\ pcb'[i] # NoPCB <=> pcb[i] # NoPCB
                      /\ pcb'[i].thread = pcb[i].thread
                      /\ pcb'[i].pid = pcb[i].pid
                      /\ pcb'[i].parentID = pcb[i].parentID
                      /\ pcb'[i].joinsem = pcb[i].joinsem
                      /\ i # s + 1 => pcb'[i].exitsem = pcb[i].exitsem
                      /\ pcb'[i].exitcode = pcb[i].exitcode
  BY <1>6, <1>7 DEF OnlySlot
<1>9. "user" \in PC \ {"new", "done", "exec_fork"}
  BY DEF PC
<1>10. /\ At(s)' = "user" /\ \A i \in 0 .. k : i # s => At(i)' = At(i)
       /\ Pids(k)' /\ Tokens(k)' => Chain(k)'
  BY <1>1, <1>2, <1>6, <1>8, <1>9, ChainKept
<1>11. Pids(k)'
  BY <1>1, <1>2, <1>6, <1>8 DEF Chain, Pids
<1>12. Tokens(k)'
  <2>1. pcb'[k].joinsem = 0 /\ pcb'[0].exitsem = 0
    BY <1>2, <1>8, SlotFacts DEF Chain, Tokens
  <2>2. ASSUME NEW i \in 0 .. k - 1
        PROVE  Token(At(i)', At(i + 1)', pcb'[i].joinsem, pcb'[i + 1].exitsem)
    <3>1. i \in 0 .. k /\ i + 1 \in 0 .. k /\ i \in Slot /\ i + 1 \in Slot /\ i + 1 # i
      BY <1>2
    <3>2. Token(At(i), At(i + 1), pcb[i].joinsem, pcb[i + 1].exitsem)
      BY DEF Chain, Tokens
    <3>3. pcb'[i].joinsem = pcb[i].joinsem
      BY <1>8, <3>1
    <3>4. CASE i = s
      BY <1>5, <1>7, <1>10, <3>1, <3>3, <3>4 DEF Token
    <3>5. CASE i # s
      <4>1. \/ At(i + 1)' = At(i + 1)
            \/ At(i + 1)' = "user" /\ At(i + 1) = "join_read"
        BY <1>1, <1>10, <3>1
      <4>2. At(i)' = At(i) /\ pcb'[i + 1].exitsem = pcb[i + 1].exitsem
        BY <1>2, <1>8, <1>10, <3>1, <3>5
      <4> QED
        BY <3>2, <3>3, <4>1, <4>2 DEF Token
    <3> QED
      BY <3>4, <3>5
  <2> QED
    BY <2>1, <2>2 DEF Tokens
<1> QED
  BY <1>6, <1>10, <1>11, <1>12

(* The first process halts the machine, alone; any other one that exits    *)
(* is the last of the chain.                                               *)
LEMMA CallExitChain ==
  ASSUME TypeOK, Calm, NEW k \in Slot, Chain(k), NEW t \in Thread, NEW ec \in ExitCode,
         CallExit(t, ec)
  PROVE  Crash("halted") \/ (machine' = machine /\ Chain(k)')
<1>1. PICK s \in 0 .. k : /\ t = cpu /\ pc[t] = "user" /\ pcb[s].thread = t /\ At(s) = "user"
  BY StepSlot DEF CallExit, PC
<1>2. ScanFault = "none" /\ LookUp(t) = s
  BY <1>1, NoScanFault, LookUpOwn
<1>3. s = k
  BY <1>1, ChildrenOf DEF CallExit, ExitAllowed, Calm, Rules
<1>4. k \in Nat /\ 0 .. k \subseteq Slot /\ Used = 0 .. k
  BY ChainSlots
<1>5. pcb[k].pid = k /\ pcb[k].parentID = k - 1
  BY <1>1, <1>4 DEF Chain, Pids, Shape
<1>6. CASE k = 0
  BY <1>2, <1>3, <1>4, <1>5, <1>6 DEF CallExit, Valid
<1>7. CASE k # 0
  <2>0. PICK p \in 0 .. k : p = k - 1
    BY <1>4, <1>7
  <2>1. p \in 0 .. k - 1 /\ p # k /\ k > 0 /\ p + 1 = k /\ p \in Used
    BY <1>4, <1>7, <2>0
  <2>2. /\ k \in Used /\ p \in Used /\ ec \in Int
        /\ GoTo(t, "exit_P")
        /\ ExitStores(k, p, ec)
        /\ loc'[t].id = k /\ loc'[t].pid = k /\ loc'[t].ec = ec
        /\ \A u \in Thread : u # t => loc'[u] = loc[u]
        /\ UNCHANGED <<setting, name, bm, bmsem, cpu, machine>>
    <3>1. LookUp(t) = k /\ pcb[LookUp(t)].pid # 0 /\ pcb[LookUp(t)].parentID = p
      BY <1>2, <1>3, <1>5, <1>7, <2>0
    <3>2. Valid(pcb[LookUp(t)].parentID)
      BY <2>1, <3>1 DEF Valid
    <3>3. /\ LookUp(t) \in Used /\ ec \in Int
          /\ GoTo(t, "exit_P")
          /\ ExitStores(LookUp(t), pcb[LookUp(t)].parentID, ec)
          /\ loc'[t].id = LookUp(t) /\ loc'[t].pid = pcb[LookUp(t)].pid /\ loc'[t].ec = ec
          /\ \A u \in Thread : u # t => loc'[u] = loc[u]
          /\ UNCHANGED <<setting, name, bm, bmsem, cpu, machine>>
      BY <1>2, <3>1, <3>2, CallExitEffect
    <3> QED
      BY <1>5, <2>1, <3>1, <3>3
  <2>3. /\ pcb'[k].exitcode = ec /\ pcb'[p].joinsem = pcb[p].joinsem + 1
        /\ \A j \in Slot :
             /\ pcb'[j] # NoPCB <=> pcb[j] # NoPCB
             /\ pcb[j] # NoPCB =>
                  /\ pcb'[j].thread = pcb[j].thread /\ pcb'[j].pid = pcb[j].pid
                  /\ pcb'[j].parentID = pcb[j].parentID
                  /\ pcb'[j].exitsem = pcb[j].exitsem
                  /\ j # k => pcb'[j].exitcode = pcb[j].exitcode
                  /\ j # p => pcb'[j].joinsem = pcb[j].joinsem
    <3>1. /\ k \in Used /\ p \in Used /\ ec \in Int
          /\ ExitStores(k, p, ec)
      BY <2>2
    <3> QED
      BY ONLY TypeOK, <3>1, ExitSet, ZenonT(60)
  <2>4. "exit_P" \in PC \ {"new", "done", "exec_fork"} /\ ~(s < k)
    BY <1>3, <1>4 DEF PC
  <2>5. /\ At(s)' = "exit_P" /\ \A i \in 0 .. k : i # s => At(i)' = At(i)
        /\ Pids(k)' /\ Tokens(k)' => Chain(k)'
    BY <1>1, <1>3, <2>1, <2>2, <2>3, <2>4, ChainKept
  <2>6. \A j \in 0 .. k : /\ pcb'[j].pid = pcb[j].pid /\ pcb'[j].exitsem = pcb[j].exitsem
                          /\ j # p => pcb'[j].joinsem = pcb[j].joinsem
    BY <1>4, <2>3 DEF Used
  <2>7. Pids(k)'
    BY <1>1, <2>2, <2>6 DEF Chain, Pids
  <2>8. Tokens(k)'
    <3>1. pcb'[k].joinsem = 0 /\ pcb'[0].exitsem = 0
      <4>1. Tokens(k)
        BY DEF Chain
      <4>2. pcb[k].joinsem = 0 /\ pcb[0].exitsem = 0
        BY <4>1 DEF Tokens
      <4>3. k \in 0 .. k /\ 0 \in 0 .. k /\ k # p
        BY <1>4, <2>1
      <4>4. pcb'[k].joinsem = pcb[k].joinsem
        BY <2>6, <4>3
      <4>5. pcb'[0].exitsem = pcb[0].exitsem
        BY <2>6, <4>3
      <4> QED
        BY <4>2, <4>4, <4>5
    <3>2. ASSUME NEW i \in 0 .. k - 1
          PROVE  Token(At(i)', At(i + 1)', pcb'[i].joinsem, pcb'[i + 1].exitsem)
      <4>1. i \in 0 .. k /\ i + 1 \in 0 .. k /\ i # k
        BY <1>4
      <4>2. Token(At(i), At(i + 1), pcb[i].joinsem, pcb[i + 1].exitsem)
        BY DEF Chain, Tokens
      <4>3. At(i)' = At(i) /\ pcb'[i + 1].exitsem = pcb[i + 1].exitsem
        BY <1>3, <2>5, <2>6, <4>1
      <4>4. CASE i = p
        <5>1. At(i + 1)' = "exit_P" /\ At(i + 1) = "user"
          BY <1>1, <1>3, <2>1, <2>5, <4>4
        <5>2. /\ pcb[p].joinsem = 0 /\ pcb[i + 1].exitsem = 0
              /\ At(i) # "join_read"
          BY <4>2, <4>4, <5>1 DEF Token
        <5>3. pcb'[i].joinsem = 1
          BY <2>3, <4>4, <5>2
        <5> QED
          BY <4>3, <5>1, <5>2, <5>3 DEF Token
      <4>5. CASE i # p
        <5>1. i + 1 # k
          BY <1>4, <2>0, <4>5
        <5>2. At(i + 1)' = At(i + 1) /\ pcb'[i].joinsem = pcb[i].joinsem
          BY <1>3, <2>5, <2>6, <4>1, <4>5, <5>1
        <5> QED
          BY <4>2, <4>3, <5>2
      <4> QED
        BY <4>4, <4>5
    <3> QED
      BY <3>1, <3>2 DEF Tokens
  <2> QED
    BY <2>2, <2>5, <2>7, <2>8
<1> QED
  BY <1>6, <1>7

LEMMA ExitWaitChain ==
  ASSUME TableInd, NEW k \in Slot, Chain(k), NEW t \in Thread, ExitWait(t)
  PROVE  machine' = machine /\ Chain(k)'
<1>0. TypeOK
  BY DEF TableInd
<1>1. PICK s \in 0 .. k : /\ t = cpu /\ pc[t] = "exit_P" /\ pcb[s].thread = t
                          /\ At(s) = "exit_P" /\ Place(s, k)
  BY <1>0, StepSlot DEF ExitWait, PC
<1>2. /\ k \in Nat /\ 0 .. k \subseteq Slot /\ Used = 0 .. k
      /\ s = k /\ s > 0 /\ ~(s < k) /\ loc[t].pid = s /\ loc[t].id = s
  BY <1>0, <1>1, ChainSlots DEF Place
<1> DEFINE p == k - 1
<1>3. /\ p \in 0 .. k - 1 /\ p \in 0 .. k /\ p + 1 = k /\ p # k
  BY <1>2
<1>4. /\ pcb[k].exitsem \in Nat /\ pcb[k].exitsem > 0
      /\ pcb' = [pcb EXCEPT ![k].exitsem = pcb[k].exitsem - 1]
      /\ GoTo(t, "exit_remove") /\ UNCHANGED <<setting, name, loc, bm, bmsem, cpu, machine>>
  BY <1>2, ExitWaitEffect
<1>5. Token(At(p), At(k), pcb[p].joinsem, pcb[k].exitsem)
  BY <1>3 DEF Chain, Tokens
<1>6. pcb[p].joinsem = 0 /\ pcb[k].exitsem = 1 /\ At(p) \notin {"join_P", "join_read"}
  BY <1>4, <1>5 DEF Token
<1>7. pcb' = [pcb EXCEPT ![k].exitsem = 0] /\ k \in Used /\ pcb[k] # NoPCB
  BY <1>2, <1>4, <1>6 DEF Used
<1>8. /\ OnlySlot(k)
      /\ pcb'[k].thread = pcb[k].thread /\ pcb'[k].pid = pcb[k].pid
      /\ pcb'[k].parentID = pcb[k].parentID /\ pcb'[k].joinsem = pcb[k].joinsem
      /\ pcb'[k].exitsem = 0 /\ pcb'[k].exitcode = pcb[k].exitcode
  BY <1>0, <1>7, ExitsemSet
<1>9. \A i \in Slot : /\ pcb'[i] # NoPCB <=> pcb[i] # NoPCB
                      /\ pcb'[i].thread = pcb[i].thread
                      /\ pcb'[i].pid = pcb[i].pid
                      /\ pcb'[i].parentID = pcb[i].parentID
                      /\ pcb'[i].joinsem = pcb[i].joinsem
                      /\ i # k => pcb'[i].exitsem = pcb[i].exitsem
                      /\ pcb'[i].exitcode = pcb[i].exitcode
  BY <1>7, <1>8 DEF OnlySlot
<1>10. "exit_remove" \in PC \ {"new", "done", "exec_fork"}
  BY DEF PC
<1>11. /\ At(s)' = "exit_remove" /\ \A i \in 0 .. k : i # s => At(i)' = At(i)
       /\ Pids(k)' /\ Tokens(k)' => Chain(k)'
  BY <1>0, <1>1, <1>2, <1>4, <1>9, <1>10, ChainKept
<1>12. Pids(k)'
  BY <1>1, <1>2, <1>4, <1>9 DEF Chain, Pids
<1>13. Tokens(k)'
  <2>1. pcb'[k].joinsem = 0 /\ pcb'[0].exitsem = 0
    BY <1>2, <1>9, SlotFacts DEF Chain, Tokens
  <2>2. ASSUME NEW i \in 0 .. k - 1
        PROVE  Token(At(i)', At(i + 1)', pcb'[i].joinsem, pcb'[i + 1].exitsem)
    <3>1. i \in 0 .. k /\ i + 1 \in 0 .. k /\ i \in Slot /\ i + 1 \in Slot /\ i # k
      BY <1>2
    <3>2. Token(At(i), At(i + 1), pcb[i].joinsem, pcb[i + 1].exitsem)
      BY DEF Chain, Tokens
    <3>3. pcb'[i].joinsem = pcb[i].joinsem /\ At(i)' = At(i)
      BY <1>2, <1>9, <1>11, <3>1
    <3>4. CASE i = p
      BY <1>2, <1>3, <1>6, <1>8, <1>11, <3>3, <3>4 DEF Token
    <3>5. CASE i # p
      <4>1. i + 1 # k
        BY <1>2, <3>5
      <4>2. At(i + 1)' = At(i + 1) /\ pcb'[i + 1].exitsem = pcb[i + 1].exitsem
        BY <1>2, <1>9, <1>11, <3>1, <4>1
      <4> QED
        BY <3>2, <3>3, <4>2
    <3> QED
      BY <3>4, <3>5
  <2> QED
    BY <2>1, <2>2 DEF Tokens
<1> QED
  BY <1>4, <1>11, <1>12, <1>13

(* The last process of the chain leaves it.                                *)
LEMMA ExitRemoveChain ==
  ASSUME TypeOK, NEW k \in Slot, Chain(k), NEW t \in Thread, ExitRemove(t)
  PROVE  /\ machine' = machine
         /\ \E j \in Slot : Chain(j)'
<1>1. PICK s \in 0 .. k : /\ t = cpu /\ pc[t] = "exit_remove" /\ pcb[s].thread = t
                          /\ At(s) = "exit_remove" /\ Place(s, k)
                          /\ \A j \in 0 .. k : j # s => pcb[j].thread # t
  BY StepSlot DEF ExitRemove, PC
<1>2. /\ k \in Nat /\ 0 .. k \subseteq Slot /\ Used = 0 .. k
      /\ s = k /\ k > 0 /\ loc[t].pid = k
  BY <1>1, ChainSlots DEF Place
<1>3. PICK m \in 0 .. k : m = k - 1
  BY <1>2
<1>4. /\ m \in Slot /\ m \in Nat /\ m < k /\ m \in 0 .. k - 1 /\ m + 1 = k
      /\ 0 .. k = (0 .. m) \cup {k} /\ k \notin 0 .. m
  BY <1>2, <1>3
<1>5. \A i \in 0 .. k : pcb[i].thread \in Thread /\ Live(pcb[i].thread)
  BY <1>1 DEF Chain, Owners
<1>6. ~SleeperOn(k, t)
  <2> SUFFICES ASSUME NEW u \in Thread \ {t},
                      \/ pc[u] = "join_P" /\ loc[u].pid = k
                      \/ pc[u] = "exit_P" /\ loc[u].id = k
               PROVE  FALSE
    BY DEF SleeperOn
  <2>1. PICK i \in 0 .. k : pcb[i].thread = u /\ At(i) = pc[u]
    BY OwnSlot DEF Live
  <2>2. i = k
    BY <1>2, <2>1 DEF Chain, Place
  <2> QED
    BY <1>1, <1>2, <2>1, <2>2
<1>7. Valid(k) /\ pcb[k].thread # NoThread /\ pc[pcb[k].thread] # "done"
  BY <1>1, <1>2, PTableAssumption DEF Valid
<1>8. /\ pcb' = [pcb EXCEPT ![k] = NoPCB] /\ bm' = bm \ {k}
      /\ GoTo(t, "done") /\ UNCHANGED <<setting, name, loc, bmsem, cpu, machine>>
  BY <1>2, <1>6, <1>7 DEF ExitRemove
<1>9. pc'[t] = "done" /\ \A u \in Thread : u # t => pc'[u] = pc[u]
  BY <1>8, PCSet DEF PC
<1>10. pcb'[k] = NoPCB /\ \A i \in Slot : i # k => pcb'[i] = pcb[i]
  BY <1>8 DEF TypeOK
<1>11. \A i \in 0 .. m : /\ i \in 0 .. k /\ i # k /\ i < k /\ pcb'[i] = pcb[i]
                         /\ pcb[i].thread \in Thread \ {t} /\ At(i)' = At(i)
  <2>1. \A i \in 0 .. m : i \in 0 .. k /\ i # k /\ i < k
    BY <1>2, <1>4
  <2>2. \A i \in 0 .. m : pcb'[i] = pcb[i] /\ pcb[i].thread \in Thread \ {t}
    BY <1>1, <1>2, <1>5, <1>10, <2>1
  <2> QED
    BY <1>9, <2>1, <2>2 DEF At
<1>12. \A u \in Thread : Live(u)' <=> Live(u) /\ u # t
  BY <1>1, <1>9 DEF Live
<1>13. Shape(m)'
  <2>1. bm' = 0 .. m
    BY <1>4, <1>8 DEF Chain, Shape
  <2>2. \A i \in Slot : pcb'[i] # NoPCB <=> i <= m
    BY <1>2, <1>3, <1>4, <1>10, SlotFacts DEF Chain, Shape
  <2>3. pcb'[0].thread = MainThread /\ \A i \in 0 .. m : pcb'[i].parentID = i - 1
    BY <1>4, <1>11 DEF Chain, Shape
  <2> QED
    BY <2>1, <2>2, <2>3 DEF Shape
<1>14. Owners(m)'
  <2>1. \A i \in 0 .. m : pcb'[i].thread \in Thread /\ pc'[pcb'[i].thread] \notin {"new", "done"}
    BY <1>5, <1>9, <1>11 DEF Live
  <2>2. \A i, j \in 0 .. m : pcb'[i].thread = pcb'[j].thread => i = j
    BY <1>11 DEF Chain, Owners
  <2>3. ASSUME NEW u \in Thread, Live(u)'
        PROVE  \E i \in 0 .. m : pcb'[i].thread = u
    <3>1. u # t /\ \E i \in 0 .. k : pcb[i].thread = u
      BY <1>12, <2>3 DEF Chain, Owners
    <3>2. PICK i \in 0 .. k : pcb[i].thread = u
      BY <3>1
    <3>3. i \in 0 .. m
      BY <1>1, <1>2, <1>4, <3>1, <3>2
    <3> QED
      BY <1>11, <3>2, <3>3
  <2> QED
    BY <2>1, <2>2, <2>3 DEF Owners, Live
<1>15. Pids(m)'
  BY <1>11 DEF Chain, Pids
<1>16. Names'
  BY <1>1, <1>8, <1>9, <1>12 DEF Chain, Names
<1>17. Quiet'
  BY <1>1, <1>8, <1>9 DEF Chain, Quiet
<1>18. Token(At(m), "exit_remove", pcb[m].joinsem, pcb[k].exitsem)
  BY <1>1, <1>2, <1>4 DEF Chain, Tokens
<1>19. At(m) \notin {"join_P", "join_read"} /\ pcb[m].joinsem = 0
  BY <1>18 DEF Token
<1>20. \A i \in 0 .. m : At(i) \in {"user", "join_P", "exit_P"}
  <2>1. \A i \in 0 .. m : At(i) = pc[pcb[i].thread] /\ pcb[i].thread # cpu
    BY <1>1, <1>5, <1>11 DEF At
  <2> QED
    BY <1>5, <1>11, <2>1 DEF Chain, Quiet, Live
<1>21. ASSUME NEW i \in 0 .. m
       PROVE  Place(i, m)'
  <2>1. Place(i, k) /\ At(i)' = At(i) /\ pcb'[i] = pcb[i] /\ loc' = loc /\ i < k
    BY <1>8, <1>11 DEF Chain
  <2>2. CASE i = m
    <3>1. At(i) = "user" /\ ~(i < m)
      BY <1>4, <1>19, <1>20, <2>1, <2>2 DEF Place
    <3> QED
      BY <2>1, <2>2, <3>1 DEF Place
  <2>3. CASE i # m
    BY <1>20, <2>1, <2>3 DEF Place
  <2> QED
    BY <2>2, <2>3
<1>22. Tokens(m)'
  <2>1. pcb'[m].joinsem = 0 /\ pcb'[0].exitsem = 0
    BY <1>4, <1>11, <1>19 DEF Chain, Tokens
  <2>2. ASSUME NEW i \in 0 .. m - 1
        PROVE  Token(At(i)', At(i + 1)', pcb'[i].joinsem, pcb'[i + 1].exitsem)
    <3>1. i \in 0 .. m /\ i + 1 \in 0 .. m /\ i \in 0 .. k - 1
      BY <1>2, <1>4
    <3> QED
      BY <1>11, <3>1 DEF Chain, Tokens
  <2> QED
    BY <2>1, <2>2 DEF Tokens
<1>23. Chain(m)'
  BY <1>13, <1>14, <1>15, <1>16, <1>17, <1>21, <1>22 DEF Chain
<1> QED
  BY <1>4, <1>8, <1>23

(* Without time slicing the CPU changes hands only between threads that    *)
(* are in user mode or wait in Join or Exit.                               *)
LEMMA DispatchChain ==
  ASSUME TypeOK, ExecExclusive, Calm, NEW k \in Slot, Chain(k), NEW t \in Thread, Dispatch(t)
  PROVE  machine' = machine /\ Chain(k)'
<1>1. /\ cpu \in Thread /\ cpu' = t /\ t # cpu /\ Live(t)
      /\ UNCHANGED <<setting, pc, name, loc, pcb, bm, bmsem, machine>>
  BY DEF TypeOK, Dispatch, Live
<1>2. pc[t] \in {"user", "join_P", "exit_P"}
  BY <1>1 DEF Chain, Quiet, Live
<1>3. pc[cpu] \in {"user", "done", "join_P", "exit_P"}
  <2>1. pc[cpu] \in {"user", "done"} \/ Blocked(cpu)
    BY DEF Dispatch, Calm
  <2>2. ASSUME pc[cpu] = "exec_P", bmsem = 0
        PROVE  FALSE
    <3>1. PICK u \in Thread : InExec(u)
      BY <2>2 DEF ExecExclusive
    <3> QED
      BY <2>2, <3>1 DEF InExec, Chain, Quiet
  <2> QED
    BY <2>1, <2>2 DEF Blocked
<1>4. Shape(k)' /\ Tokens(k)'
  BY <1>1 DEF Chain, Shape, Tokens, At
<1>5. Owners(k)' /\ Pids(k)' /\ Names'
  BY <1>1, <1>2, <1>3 DEF Chain, Owners, Pids, Names, Live
<1>6. Quiet'
  BY <1>1, <1>3 DEF Chain, Quiet
<1>7. \A i \in 0 .. k : Place(i, k)'
  BY <1>1 DEF Chain, Place, At
<1> QED
  BY <1>1, <1>4, <1>5, <1>6, <1>7 DEF Chain

(* Somebody can always go on: the last process, or the parent that its     *)
(* exit has released.                                                      *)
LEMMA NeverIdle ==
  ASSUME TableInd, Calm, NEW k \in Slot, Chain(k)
  PROVE  ~IdleHalt
<1> SUFFICES ASSUME \A t \in Thread : pc[t] \in {"new", "done"} \/ Blocked(t)
             PROVE  FALSE
  BY DEF IdleHalt
<1>0. TypeOK /\ ExecExclusive
  BY DEF TableInd
<1>1. k \in Nat /\ cpu \in Thread
  BY <1>0, ChainSlots DEF TypeOK
<1>2. pcb[k].thread \in Thread /\ Live(pcb[k].thread)
  <2>1. pc[cpu] # "exec_fork"
    BY <1>1 DEF Blocked
  <2> QED
    BY <1>1, <2>1 DEF Chain, Owners
<1>3. PICK t \in Thread : t = pcb[k].thread
  BY <1>2
<1>4. Blocked(t) /\ At(k) = pc[t] /\ Place(k, k)
  BY <1>1, <1>2, <1>3 DEF Live, At, Chain
<1>5. pc[t] \in {"exec_P", "exit_P"}
  BY <1>1, <1>4 DEF Blocked, Place
<1>6. CASE pc[t] = "exec_P"
  <2>1. bmsem = 0
    BY <1>4, <1>6 DEF Blocked
  <2>2. PICK u \in Thread : InExec(u)
    BY <1>0, <2>1 DEF ExecExclusive
  <2> QED
    BY <2>2 DEF InExec, Blocked
<1>7. CASE pc[t] = "exit_P"
  <2>1. k > 0 /\ loc[t].id = k /\ pcb[k].exitsem = 0
    BY <1>3, <1>4, <1>7 DEF Place, Blocked
  <2>2. PICK m \in 0 .. k - 1 : m + 1 = k /\ m \in 0 .. k /\ m # k
    BY <1>1, <2>1
  <2>3. Token(At(m), "exit_P", pcb[m].joinsem, pcb[k].exitsem)
    BY <1>4, <1>7, <2>2 DEF Chain, Tokens
  <2>4. PICK u \in Thread : u = pcb[m].thread /\ Live(u) /\ At(m) = pc[u] /\ Place(m, k)
    BY <2>2 DEF Chain, Owners, At
  <2>5. Blocked(u)
    BY <2>4 DEF Live
  <2>6. pc[u] = "join_P" /\ loc[u].pid = m
    BY <1>1, <2>2, <2>4, <2>5 DEF Place, Blocked
  <2>7. pcb[m].joinsem = 1
    BY <2>1, <2>3, <2>4, <2>6 DEF Token
  <2> QED
    BY <2>5, <2>6, <2>7 DEF Blocked
<1> QED
  BY <1>5, <1>6, <1>7
-----------------------------------------------------------------------------
LEMMA ChainInit == Init => CalmInv
<1> SUFFICES ASSUME Init PROVE machine \in {"on", "halted"} /\ \E k \in Slot : Chain(k)
  BY DEF CalmInv
<1>1. /\ 0 \in Slot /\ Slot \subseteq Nat /\ 0 .. 0 = {0} /\ bm = {0} /\ cpu = MainThread
      /\ MainThread \in Thread /\ cpu \in Thread /\ pc[cpu] = "user"
  BY SlotFacts, PTableAssumption DEF Init
<1>2. /\ pcb[0].thread = MainThread /\ pcb[0].pid = 0 /\ pcb[0].parentID = 0 - 1
      /\ pcb[0].joinsem = 0 /\ pcb[0].exitsem = 0
  BY <1>1 DEF Init, NewPCB
<1>3. pcb[0] \in PCBType
  BY <1>1, PTableAssumption DEF Init, NewPCB, PCBType
<1>4. \A i \in Slot : pcb[i] # NoPCB <=> i <= 0
  BY <1>1, <1>3, PTableAssumption DEF Init
<1>5. \A t \in Thread : Live(t) <=> t = MainThread
  BY DEF Init, Live
<1>6. Shape(0)
  BY <1>1, <1>2, <1>4 DEF Shape
<1>7. Owners(0) /\ Pids(0)
  BY <1>1, <1>2, <1>5 DEF Owners, Pids
<1>8. Names /\ Quiet
  BY <1>1, <1>5 DEF Names, Quiet, Live
<1>9. Place(0, 0)
  BY <1>1, <1>2 DEF Place, At
<1>10. Tokens(0)
  BY <1>2 DEF Tokens
<1>11. Chain(0)
  BY <1>1, <1>6, <1>7, <1>8, <1>9, <1>10 DEF Chain
<1> QED
  BY <1>1, <1>11 DEF Init

(* A step that changes at most the state of the machine.                   *)
LEMMA ChainStutter ==
  ASSUME NEW k \in Slot, Chain(k), UNCHANGED <<pc, name, loc, pcb, bm, cpu>>
  PROVE  Chain(k)'
<1>1. Shape(k)' /\ Pids(k)'
  BY DEF Chain, Shape, Pids
<1>2. Owners(k)'
  BY DEF Chain, Owners, Live
<1>3. Names' /\ Quiet'
  BY DEF Chain, Names, Quiet, Live
<1>4. \A i : At(i)' = At(i)
  BY DEF At
<1>5. ASSUME NEW i \in 0 .. k PROVE Place(i, k)'
  <2>1. Place(i, k)
    BY DEF Chain
  <2> QED
    BY <1>4, <2>1 DEF Place
<1>6. Tokens(k)'
  <2>1. Tokens(k)
    BY DEF Chain
  <2> QED
    BY <1>4, <2>1 DEF Tokens
<1> QED
  BY <1>1, <1>2, <1>3, <1>5, <1>6 DEF Chain

LEMMA SettingStays == [Next]_vars => setting' = setting
<1> SUFFICES ASSUME [Next]_vars PROVE setting' = setting
  OBVIOUS
<1>1. ASSUME NEW t \in Thread,
             \/ \E n \in Program : CallExec(t, n)
             \/ ExecP(t)
             \/ ExecRefused(t)
             \/ ExecCreate(t)
      PROVE  setting' = setting
  BY <1>1 DEF CallExec, ExecP, ExecRefused, ExecCreate, Crash
<1>2. ASSUME NEW t \in Thread,
             \/ ExecFork(t)
             \/ ExecSetPid(t)
             \/ ExecV(t)
      PROVE  setting' = setting
  BY <1>2 DEF ExecFork, ExecSetPid, ExecV, Crash
<1>3. ASSUME NEW t \in Thread,
             \/ \E id \in Slot : CallJoin(t, id)
             \/ JoinWait(t)
             \/ JoinRead(t)
      PROVE  setting' = setting
  BY <1>3 DEF CallJoin, JoinWait, JoinRead, Crash
<1>4. ASSUME NEW t \in Thread,
             \/ \E ec \in ExitCode : CallExit(t, ec)
             \/ ExitWait(t)
             \/ ExitRemove(t)
      PROVE  setting' = setting
  BY <1>4 DEF CallExit, ExitWait, ExitRemove, Crash
<1>5. ASSUME NEW t \in Thread,
             Dispatch(t)
      PROVE  setting' = setting
  BY <1>5 DEF Dispatch, Crash
<1>6. CASE IdleHalt \/ Stopped \/ UNCHANGED vars
  BY <1>6 DEF IdleHalt, Stopped, vars, Crash
<1> QED
  BY <1>1, <1>2, <1>3, <1>4, <1>5, <1>6 DEF Next
LEMMA ChainStep == TableInd /\ CalmInv /\ [Next]_vars => CalmInv'
<1> SUFFICES ASSUME TableInd, CalmInv, [Next]_vars, Calm'
             PROVE  machine' \in {"on", "halted"} /\ \E j \in Slot : Chain(j)'
  BY DEF CalmInv
<1>0. TypeOK /\ ExecExclusive /\ SlotsMarked
  BY DEF TableInd
<1>1. Calm
  BY SettingStays DEF Calm
<1>2. PICK k \in Slot : machine \in {"on", "halted"} /\ Chain(k)
  BY <1>1 DEF CalmInv
<1>3. CASE UNCHANGED vars
  BY <1>2, <1>3, ChainStutter DEF vars
<1>4. CASE IdleHalt
  BY <1>1, <1>2, <1>4, NeverIdle
<1>5. CASE Stopped
  BY <1>3, <1>5 DEF Stopped
<1>6. ASSUME NEW t \in Thread, Dispatch(t)
      PROVE  machine' = machine /\ Chain(k)'
  BY <1>0, <1>1, <1>2, <1>6, DispatchChain
<1>7. ASSUME NEW t \in Thread, NEW n \in Program, CallExec(t, n)
      PROVE  machine' = machine /\ Chain(k)'
  BY <1>0, <1>1, <1>2, <1>7, CallExecChain DEF CallExec
<1>8. ASSUME NEW t \in Thread, ExecP(t) \/ ExecRefused(t) \/ ExecV(t)
      PROVE  machine' = machine /\ Chain(k)'
  <2>1. machine' = machine
    BY <1>8 DEF ExecP, ExecRefused, ExecV
  <2> QED
    BY <1>0, <1>2, <1>8, <2>1, ExecPChain, ExecRefusedChain, ExecVChain
<1>9. ASSUME NEW t \in Thread, ExecCreate(t) \/ ExitRemove(t)
      PROVE  machine' = machine /\ \E j \in Slot : Chain(j)'
  BY <1>0, <1>2, <1>9, ExecCreateChain, ExitRemoveChain
<1>10. ASSUME NEW t \in Thread, ExecFork(t) \/ ExecSetPid(t)
       PROVE  machine' = machine /\ Chain(k)'
  BY <1>0, <1>2, <1>10, ExecForkChain, ExecSetPidChain
<1>11. ASSUME NEW t \in Thread, NEW id \in Slot, CallJoin(t, id)
       PROVE  machine' = machine /\ Chain(k)'
  BY <1>0, <1>1, <1>2, <1>11, CallJoinChain
<1>12. ASSUME NEW t \in Thread, JoinWait(t) \/ JoinRead(t) \/ ExitWait(t)
       PROVE  machine' = machine /\ Chain(k)'
  BY <1>0, <1>2, <1>12, JoinWaitChain, JoinReadChain, ExitWaitChain
<1>13. ASSUME NEW t \in Thread, NEW ec \in ExitCode, CallExit(t, ec)
       PROVE  machine' \in {"on", "halted"} /\ Chain(k)'
  <2>1. Crash("halted") \/ (machine' = machine /\ Chain(k)')
    BY <1>0, <1>1, <1>2, <1>13, CallExitChain
  <2> QED
    BY <1>2, <2>1, ChainStutter DEF Crash
<1> QED
  BY <1>2, <1>3, <1>4, <1>5, <1>6, <1>7, <1>8, <1>9, <1>10, <1>11, <1>12, <1>13 DEF Next
-----------------------------------------------------------------------------
(* What the chain says about the properties.                               *)

LEMMA ChainExact == Inv => TableExact
<1> SUFFICES ASSUME Inv, Calm PROVE TableExact
  BY DEF TableExact, SlotsExact, FamilyTree, ExitKnowsPid
<1>0. TypeOK
  BY DEF Inv, TableInd
<1>1. PICK k \in Slot : Chain(k)
  BY DEF Inv, CalmInv
<1>2. k \in Nat /\ 0 .. k \subseteq Slot /\ Used = 0 .. k
  BY <1>0, <1>1, ChainSlots
<1>3. SlotsExact
  BY <1>1, <1>2 DEF SlotsExact, Chain, Shape
<1>4. ASSUME NEW t \in Thread, Live(t)
      PROVE  /\ Cardinality({i \in Used : pcb[i].thread = t}) = 1
             /\ \A i \in Used : pcb[i].thread = t /\ t # MainThread =>
                  Valid(pcb[i].parentID) /\ pcb[pcb[i].parentID].thread \in Thread \ {t}
  <2>1. PICK s \in 0 .. k : /\ pcb[s].thread = t
                            /\ \A j \in 0 .. k : j # s => pcb[j].thread # t
    BY <1>1, <1>4, OwnSlot
  <2>2. {i \in Used : pcb[i].thread = t} = {s}
    BY <1>2, <2>1
  <2>3. Cardinality({s}) = 1
    BY FS_Singleton
  <2>4. ASSUME NEW i \in Used, pcb[i].thread = t, t # MainThread
        PROVE  Valid(pcb[i].parentID) /\ pcb[pcb[i].parentID].thread \in Thread \ {t}
    <3>1. i = s /\ i # 0 /\ i \in 0 .. k
      BY <1>1, <1>2, <2>1, <2>4 DEF Chain, Shape
    <3>2. pcb[i].parentID = i - 1 /\ i - 1 \in 0 .. k /\ i - 1 # s /\ i - 1 # k
      BY <1>1, <1>2, <3>1 DEF Chain, Shape
    <3>3. pcb[i - 1].thread \in Thread
      BY <1>1, <3>2 DEF Chain, Owners
    <3> QED
      BY <1>2, <2>1, <3>2, <3>3 DEF Valid
  <2> QED
    BY <2>2, <2>3, <2>4
<1>5. FamilyTree
  BY <1>4 DEF FamilyTree, Live
<1>6. ASSUME NEW t \in Thread, pc[t] \in {"exit_P", "exit_remove"}
      PROVE  Valid(loc[t].pid) /\ pcb[loc[t].pid].thread = t
  <2>1. PICK s \in 0 .. k : pcb[s].thread = t /\ At(s) = pc[t]
    BY <1>1, <1>6, OwnSlot DEF Live
  <2>2. loc[t].pid = s
    BY <1>1, <1>6, <2>1 DEF Chain, Place
  <2> QED
    BY <1>2, <2>1, <2>2 DEF Valid
<1>7. ExitKnowsPid
  BY <1>6 DEF ExitKnowsPid
<1> QED
  BY <1>3, <1>5, <1>7 DEF TableExact

LEMMA ChainJoins == Inv => JoinReturnsExitCode
<1> SUFFICES ASSUME Inv, NEW t \in Thread, Calm, pc[t] = "join_read"
             PROVE  /\ Valid(loc[t].id)
                    /\ pcb[loc[t].id].thread \in Thread
                    /\ pc[pcb[loc[t].id].thread] = "exit_P"
                    /\ loc[pcb[loc[t].id].thread].ec = pcb[loc[t].id].exitcode
  BY DEF JoinReturnsExitCode
<1>0. TypeOK
  BY DEF Inv, TableInd
<1>1. PICK k \in Slot : Chain(k)
  BY DEF Inv, CalmInv
<1>2. k \in Nat /\ Used = 0 .. k
  BY <1>0, <1>1, ChainSlots
<1>3. PICK s \in 0 .. k : pcb[s].thread = t /\ At(s) = "join_read" /\ Place(s, k)
  BY <1>1, OwnSlot DEF Live, Chain
<1>4. s \in 0 .. k - 1 /\ s + 1 \in 0 .. k /\ loc[t].id = s + 1
  BY <1>2, <1>3 DEF Place
<1>5. At(s + 1) = "exit_P"
  BY <1>1, <1>3, <1>4 DEF Chain, Tokens, Token
<1>6. PICK c \in 0 .. k : c = s + 1 /\ Place(c, k) /\ At(c) = "exit_P"
  BY <1>1, <1>4, <1>5 DEF Chain
<1>7. pcb[c].thread \in Thread /\ pc[pcb[c].thread] = "exit_P"
  BY <1>6 DEF At
<1>8. loc[pcb[c].thread].ec = pcb[c].exitcode
  BY <1>6 DEF Place
<1> QED
  BY <1>2, <1>4, <1>6, <1>7, <1>8 DEF Valid

(* The inductive invariant: the table's own rules in every setting, and    *)
(* the chain of processes without time slicing.                            *)
THEOREM Invariance == Spec => []Inv
<1>1. Init => Inv
  BY TableInit, ChainInit DEF Inv
<1>2. Inv /\ [Next]_vars => Inv'
  BY TableStep, ChainStep DEF Inv
<1> QED
  BY <1>1, <1>2, PTL DEF Spec

(* Without time slicing, programs that keep to the rules never make the    *)
(* kernel dereference NULL or a deleted thread, never delete a semaphore   *)
(* in use, and never all wait for each other in JoinWait and ExitWait.     *)
THEOREM KernelNeverFaults == Spec => []NoFault
<1>1. Inv => NoFault
  BY DEF Inv, CalmInv, NoFault, Fault
<1> QED
  BY <1>1, Invariance, PTL

(* Without time slicing, for programs that keep to the rules: a slot is    *)
(* marked exactly while a process has it, every process has one PCB, its   *)
(* parent is there to be released, and ExitUpdate removes its own PCB.     *)
THEOREM TableIsExact == Spec => []TableExact
BY ChainExact, Invariance, PTL

(* Without time slicing, for programs that keep to the rules: JoinUpdate   *)
(* comes back from JoinWait only when the child it was called for has      *)
(* called Exit, and returns the code that this child passed.               *)
THEOREM JoinIsRight == Spec => []JoinReturnsExitCode
BY ChainJoins, Invariance, PTL
=============================================================================
