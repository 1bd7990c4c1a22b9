------------------------- MODULE StateRestoreProofs -------------------------
(***************************************************************************)
(* The safety of capturing and restoring machine states for any number of  *)
(* writes, states and revisions, and of the protocol that carries their    *)
(* requests for any number of calls and cancels; each from one inductive   *)
(* invariant.                                                              *)
(***************************************************************************)
EXTENDS StateRestore, WorkerProtocol, SequenceTheorems, TLAPS

Disks == Seq(Nat)
Results == {"none", "ok", "error", "cancelled"}
OpType ==
  [kind : {"none", "capture", "restore"},
   pc : {"none", "drain", "start", "await", "build", "commit", "discarding", "finally", "report"},
   running : BOOLEAN, state : Nat, ram : Disks, prepared : BOOLEAN, built : BOOLEAN,
   listening : BOOLEAN, outcome : Results]
ReqType ==
  [name : {"none", "saveState", "prepareState", "commitState", "discardState"},
   pc : {"none", "sent", "running", "tail", "replied"}, cancelled : BOOLEAN, seen : BOOLEAN,
   result : Results]
VaultType == [disk : Disks, revision : Nat, remote : BOOLEAN]
CandType == [on : BOOLEAN, disk : Disks, revision : Nat]
StateType == [sees : Disks, disk : Disks]
MachineType == [on : BOOLEAN, running : BOOLEAN, sees : Disks]

TypeOK ==
  /\ vault \in VaultType /\ cand \in CandType
  /\ states \in Seq(StateType)
  /\ machine \in MachineType
  /\ queue \in Disks /\ flying \in {"no", "sent", "applied", "stalled"} /\ failed \in BOOLEAN
  /\ writes \in Nat /\ op \in OpType /\ aborted \in BOOLEAN /\ req \in ReqType /\ before \in Disks

\* Where an operation may await, and for which request.
OpInv ==
  /\ op.kind = "none" <=> op.pc = "none"
  /\ op.pc \in {"build", "commit"} => op.kind = "restore" /\ op.prepared
  /\ op.prepared => op.kind = "restore" /\ op.pc \notin {"drain", "start"}
  /\ op.kind = "restore" => op.state \in DOMAIN states
  /\ op.kind = "capture" \/ op.running => machine.on
  /\ req.pc = "none" <=> req.name = "none"
  /\ req.name \in {"saveState", "prepareState", "commitState"} <=> op.pc = "await"
  /\ req.name = "discardState" <=> op.pc = "discarding"
  /\ req.name = "saveState" => op.kind = "capture"
  /\ req.name = "prepareState" => op.kind = "restore" /\ ~op.prepared
  /\ req.name = "commitState" => op.prepared
  /\ req.pc = "replied" => req.result # "none"
  /\ req.pc = "tail" => vault.remote /\ req.name = "commitState"

\* The request that takes a candidate back is made without a listener, so that no
\* cancel reaches it.
DiscardInv ==
  op.pc = "discarding" => ~op.listening /\ ~req.cancelled /\ ~req.seen

\* The commit has replaced the disk, and the machine of that disk is not shown yet.
Replaced == req.name = "commitState" /\ req.pc = "replied" /\ req.result = "ok"

\* A candidate belongs to the restore under way, which knows of it.
CandInv ==
  cand.on =>
    /\ op.kind = "restore" /\ cand.disk = states[op.state].disk
    /\ \/ req.name = "prepareState" /\ req.pc = "replied" /\ req.result = "ok"
       \/ op.prepared /\ op.pc \in {"build", "commit", "await"} /\ req.pc # "tail" /\ ~Replaced
       \/ op.pc = "discarding" /\ req.pc # "replied"

\* The machine stands still while an operation runs, and what it has written is on
\* the disk before the operation looks at either.
BufferInv ==
  /\ flying \in {"sent", "applied"} => queue # <<>>
  /\ ~machine.on => queue = <<>> /\ ~machine.running
  /\ op.pc \in {"drain", "start", "await", "build", "commit", "discarding", "finally"} => ~machine.running
  /\ op.pc \in {"start", "await", "build", "commit"} => queue = <<>>

MatchInv ==
  ~vault.remote =>
    /\ machine.on /\ ~Replaced => machine.sees = vault.disk \o Unapplied
    /\ op.kind = "restore" /\ op.pc # "report" /\ ~Replaced => vault.disk \o Unapplied = before
    /\ Replaced => vault.disk = states[op.state].disk

RamInv == op.kind = "capture" /\ op.pc = "await" => op.ram = machine.sees

RestoreInv ==
  TypeOK /\ OpInv /\ DiscardInv /\ CandInv /\ BufferInv /\ MatchInv /\ RamInv /\ CapturedTogether

USE RestoreAssumption
USE DEF RestoreInv, NoOp, NoReq, NoCand, NoMachine, bufferVars

\* Sequences of writes: an empty one adds nothing, and a write is the same one
\* whether it is still queued or on the disk.
LEMMA ConcatEmpty ==
  ASSUME NEW s \in Seq(Nat)
  PROVE  s \o <<>> = s
OBVIOUS

\* The head of the queue goes to the end of the disk.
LEMMA MoveHead ==
  ASSUME NEW s \in Seq(Nat), NEW q \in Seq(Nat), q # <<>>
  PROVE  Append(s, Head(q)) \o Tail(q) = s \o q
OBVIOUS

\* A new write goes to the end of the queue.
LEMMA AppendLast ==
  ASSUME NEW s \in Seq(Nat), NEW q \in Seq(Nat), NEW x \in Nat
  PROVE  /\ s \o Append(q, x) = Append(s \o q, x)
         /\ q # <<>> => Tail(Append(q, x)) = Append(Tail(q), x)
<1>1. s \o Append(q, x) = Append(s \o q, x)
  OBVIOUS
<1>2. q # <<>> => Tail(Append(q, x)) = Append(Tail(q), x)
  OBVIOUS
<1>. QED
  BY <1>1, <1>2

\* The disk before any write, and what the buffer still has to write.
LEMMA EmptyDisk == <<>> \in Disks
BY DEF Disks

\* The sequence of queued writes that are not on the disk yet.
LEMMA UnappliedIs ==
  ASSUME TypeOK, BufferInv
  PROVE  /\ Unapplied \in Disks
         /\ queue = <<>> => Unapplied = <<>>
         /\ vault.disk \in Disks /\ queue \in Disks
<1>1. vault.disk \in Disks /\ queue \in Disks
  BY DEF TypeOK, VaultType
<1>. QED
  BY <1>1 DEF BufferInv, Unapplied, Disks

\* The types of the parts.
LEMMA Parts ==
  ASSUME RestoreInv
  PROVE  /\ TypeOK /\ vault \in VaultType /\ vault.disk \in Disks /\ vault.revision \in Nat
         /\ vault.remote \in BOOLEAN /\ cand \in CandType /\ cand.disk \in Disks /\ cand.on \in BOOLEAN
         /\ NoCand \in CandType /\ states \in Seq(StateType)
         /\ \A i \in DOMAIN states : states[i].sees \in Disks /\ states[i].disk \in Disks
         /\ machine \in MachineType /\ machine.sees \in Disks /\ machine.running \in BOOLEAN
         /\ queue \in Disks /\ writes \in Nat /\ op \in OpType /\ op.state \in Nat /\ op.ram \in Disks
         /\ op.running \in BOOLEAN /\ op.listening \in BOOLEAN /\ before \in Disks
         /\ req \in ReqType /\ req.result \in Results
<1>1. TypeOK
  OBVIOUS
<1>2. /\ vault \in VaultType /\ vault.disk \in Disks /\ vault.revision \in Nat
      /\ vault.remote \in BOOLEAN /\ cand \in CandType /\ cand.disk \in Disks /\ cand.on \in BOOLEAN
  BY <1>1 DEF TypeOK, VaultType, CandType
<1>3. NoCand \in CandType
  BY EmptyDisk DEF CandType
<1>4. \A i \in DOMAIN states : states[i].sees \in Disks /\ states[i].disk \in Disks
  <2> SUFFICES ASSUME NEW i \in DOMAIN states
               PROVE  states[i].sees \in Disks /\ states[i].disk \in Disks
    OBVIOUS
  <2>1. states[i] \in StateType
    BY <1>1 DEF TypeOK
  <2>. QED
    BY <2>1 DEF StateType
<1>5. machine \in MachineType /\ machine.sees \in Disks /\ machine.running \in BOOLEAN
  BY <1>1 DEF TypeOK, MachineType
<1>6. /\ op \in OpType /\ op.state \in Nat /\ op.ram \in Disks
      /\ op.running \in BOOLEAN /\ op.listening \in BOOLEAN
  BY <1>1 DEF TypeOK, OpType
<1>7. req \in ReqType /\ req.result \in Results
  BY <1>1 DEF TypeOK, ReqType
<1>. QED
  BY <1>1, <1>2, <1>3, <1>4, <1>5, <1>6, <1>7 DEF TypeOK

\* What a throw leaves: the candidate is taken back if there may be one.
LEMMA ThrowIs ==
  ASSUME TypeOK, NEW outcome \in {"error", "cancelled"}, Throw(outcome)
  PROVE  /\ op' \in OpType /\ req' \in ReqType /\ states' = states /\ machine' = machine
         /\ op'.kind = op.kind /\ op'.state = op.state /\ op'.prepared = op.prepared /\ op'.running = op.running
         /\ ~op'.listening /\ ~req'.cancelled /\ ~req'.seen /\ req'.result = "none"
         /\ op.prepared => op'.pc = "discarding" /\ req'.name = "discardState" /\ req'.pc = "sent"
         /\ ~op.prepared => op'.pc = "finally" /\ req'.name = "none" /\ req'.pc = "none"
<1>0. op \in OpType /\ op.prepared \in BOOLEAN
  BY DEF TypeOK, OpType
<1>1. states' = states /\ machine' = machine
  BY DEF Throw
<1>2. CASE op.prepared
  <2>1. /\ op' = [op EXCEPT !.pc = "discarding", !.outcome = outcome, !.listening = FALSE]
        /\ req' = [NoReq EXCEPT !.name = "discardState", !.pc = "sent"]
    BY <1>2 DEF Throw, Leftover, Request
  <2>. QED
    BY <1>0, <1>1, <1>2, <2>1 DEF OpType, ReqType, Results
<1>3. CASE ~op.prepared
  <2>1. /\ op' = [op EXCEPT !.pc = "finally", !.outcome = outcome, !.listening = FALSE]
        /\ req' = NoReq
    BY <1>3 DEF Throw, Leftover
  <2>. QED
    BY <1>0, <1>1, <1>3, <2>1 DEF OpType, ReqType, Results
<1>. QED
  BY <1>2, <1>3

\* A throw before the disk was replaced keeps everything.
LEMMA ThrowKeeps ==
  ASSUME RestoreInv, NEW outcome \in {"error", "cancelled"}, Throw(outcome), WindowStep,
         op.pc \in {"drain", "start", "await", "build", "commit"}, cand.on => op.prepared, ~Replaced
  PROVE  RestoreInv'
<1>1. /\ op' \in OpType /\ req' \in ReqType /\ states' = states /\ machine' = machine
      /\ op'.kind = op.kind /\ op'.state = op.state /\ op'.prepared = op.prepared /\ op'.running = op.running
      /\ ~op'.listening /\ ~req'.cancelled /\ ~req'.seen /\ req'.result = "none"
      /\ op.prepared => op'.pc = "discarding" /\ req'.name = "discardState" /\ req'.pc = "sent"
      /\ ~op.prepared => op'.pc = "finally" /\ req'.name = "none" /\ req'.pc = "none"
  BY ThrowIs
<1>2. UNCHANGED <<vault, cand, queue, flying, failed, writes, aborted, before>>
  BY DEF WindowStep
<1>3. TypeOK'
  BY <1>1, <1>2 DEF TypeOK
<1>4. Unapplied' = Unapplied /\ ~Replaced'
  BY <1>1, <1>2 DEF Unapplied, Replaced
<1>5. OpInv'
  BY <1>1, <1>2 DEF OpInv
<1>6. DiscardInv'
  BY <1>1 DEF DiscardInv
<1>7. CandInv'
  BY <1>1, <1>2 DEF CandInv
<1>8. BufferInv' /\ RamInv' /\ CapturedTogether'
  BY <1>1, <1>2 DEF BufferInv, RamInv, CapturedTogether
<1>9. MatchInv'
  BY <1>1, <1>2, <1>4 DEF MatchInv
<1>. QED
  BY <1>3, <1>5, <1>6, <1>7, <1>8, <1>9

\* The head of the queue stays in it while it is sent.
LEMMA PumpSendsKeeps ==
  ASSUME RestoreInv, PumpSends
  PROVE  RestoreInv'
<1> USE DEF PumpSends
<1>1. TypeOK'
  BY DEF TypeOK
<1>2. Unapplied' = Unapplied
  BY DEF TypeOK, BufferInv, VaultType, Unapplied, Disks
<1>3. OpInv'
  BY DEF OpInv
<1>4. DiscardInv'
  BY DEF DiscardInv
<1>5. CandInv'
  BY DEF CandInv, Replaced
<1>6. BufferInv'
  BY DEF BufferInv
<1>7. MatchInv'
  BY <1>2 DEF MatchInv, Replaced
<1>8. RamInv'
  BY DEF RamInv
<1>9. CapturedTogether'
  BY DEF CapturedTogether
<1>. QED
  BY <1>1, <1>3, <1>4, <1>5, <1>6, <1>7, <1>8, <1>9

\* A write moves from the queue to the disk.
LEMMA WorkerWritesKeeps ==
  ASSUME RestoreInv, WorkerWrites
  PROVE  RestoreInv'
<1> USE DEF WorkerWrites, WorkerFree
<1>1. vault' \in VaultType
  <2> DEFINE d == Append(vault.disk, Head(queue))
             n == vault.revision + 1
  <2>1. vault' = [vault EXCEPT !.disk = d, !.revision = n] /\ n \in Nat
    BY Parts
  <2>2. queue # <<>>
    BY DEF BufferInv
  <2>3. d \in Disks
    <3>1. vault.disk \in Seq(Nat) /\ queue \in Seq(Nat)
      BY Parts DEF Disks
    <3> HIDE DEF RestoreInv, WorkerWrites
    <3>. QED
      BY <2>2, <3>1 DEF Disks
  <2> HIDE DEF RestoreInv, WorkerWrites, d, n
  <2>. QED
    BY <2>1, <2>3, Parts DEF VaultType
<1>2. TypeOK'
  BY <1>1 DEF TypeOK
<1>3. vault'.disk \o Unapplied' = vault.disk \o Unapplied
  <2>1. /\ vault'.disk = Append(vault.disk, Head(queue)) /\ Unapplied = queue /\ Unapplied' = Tail(queue)
    BY Parts DEF Unapplied, VaultType
  <2>2. queue # <<>>
    BY DEF BufferInv
  <2>3. vault.disk \in Seq(Nat) /\ queue \in Seq(Nat)
    BY Parts DEF Disks
  <2> HIDE DEF RestoreInv, WorkerWrites
  <2>. QED
    BY <2>1, <2>2, <2>3, MoveHead
<1>4. OpInv'
  BY DEF OpInv
<1>5. DiscardInv'
  BY DEF DiscardInv
<1>6. CandInv'
  BY DEF CandInv, Replaced
<1>7. BufferInv'
  BY DEF BufferInv
<1>8. MatchInv'
  BY EmptyDisk, <1>3 DEF TypeOK, VaultType, CandType, MachineType, OpType, ReqType, OpInv, BufferInv, MatchInv, Replaced
<1>9. RamInv'
  BY DEF RamInv
<1>10. CapturedTogether'
  BY DEF CapturedTogether
<1>. QED
  BY <1>2, <1>4, <1>5, <1>6, <1>7, <1>8, <1>9, <1>10

\* A failed write stays in the queue.
LEMMA WriteFailsKeeps ==
  ASSUME RestoreInv, WriteFails
  PROVE  RestoreInv'
<1> USE DEF WriteFails, WorkerFree
<1>1. machine' \in MachineType
  BY EmptyDisk DEF TypeOK, MachineType, Results
<1>2. TypeOK'
  BY <1>1 DEF TypeOK
<1>3. Unapplied' = Unapplied
  BY DEF TypeOK, BufferInv, VaultType, Unapplied, Disks
<1>4. OpInv'
  BY DEF OpInv
<1>5. DiscardInv'
  BY DEF DiscardInv
<1>6. CandInv'
  BY DEF CandInv, Replaced
<1>7. BufferInv'
  BY DEF BufferInv
<1>8. MatchInv'
  BY <1>3 DEF MatchInv, Replaced
<1>9. RamInv'
  BY DEF RamInv
<1>10. CapturedTogether'
  BY DEF CapturedTogether
<1>. QED
  BY <1>2, <1>4, <1>5, <1>6, <1>7, <1>8, <1>9, <1>10

\* A write that is on the disk leaves the queue.
LEMMA PumpShiftsKeeps ==
  ASSUME RestoreInv, PumpShifts
  PROVE  RestoreInv'
<1> USE DEF PumpShifts
<1>1. queue' \in Disks
  <2>1. queue # <<>> /\ queue' = Tail(queue)
    BY DEF BufferInv
  <2>2. queue \in Seq(Nat)
    BY Parts DEF Disks
  <2> HIDE DEF RestoreInv, PumpShifts
  <2>. QED
    BY <2>1, <2>2 DEF Disks
<1>2. TypeOK'
  BY <1>1 DEF TypeOK
<1>3. Unapplied' = Unapplied
  BY DEF TypeOK, BufferInv, VaultType, Unapplied, Disks
<1>4. OpInv'
  BY DEF OpInv
<1>5. DiscardInv'
  BY DEF DiscardInv
<1>6. CandInv'
  BY DEF CandInv, Replaced
<1>7. BufferInv'
  BY DEF BufferInv
<1>8. MatchInv'
  BY <1>3 DEF MatchInv, Replaced
<1>9. RamInv'
  BY DEF RamInv
<1>10. CapturedTogether'
  BY DEF CapturedTogether
<1>. QED
  BY <1>2, <1>4, <1>5, <1>6, <1>7, <1>8, <1>9, <1>10

\* An operation goes on when everything is on the disk.
LEMMA DrainedKeeps ==
  ASSUME RestoreInv, op.pc = "drain", ~failed, Drained, op' = [op EXCEPT !.pc = "start"],
         UNCHANGED <<states, machine, req>>, WindowStep
  PROVE  RestoreInv'
<1> USE DEF Drained, WindowStep
<1>1. op' \in OpType
  BY EmptyDisk DEF TypeOK, OpType, Results
<1>2. TypeOK'
  BY <1>1 DEF TypeOK
<1>3. Unapplied' = Unapplied
  BY DEF Unapplied
<1>4. OpInv'
  BY DEF OpInv
<1>5. DiscardInv'
  BY DEF DiscardInv
<1>6. CandInv'
  BY DEF CandInv, Replaced
<1>7. BufferInv'
  BY DEF BufferInv
<1>8. MatchInv'
  BY <1>3 DEF MatchInv, Replaced
<1>9. RamInv'
  BY DEF RamInv
<1>10. CapturedTogether'
  BY DEF CapturedTogether
<1>. QED
  BY <1>2, <1>4, <1>5, <1>6, <1>7, <1>8, <1>9, <1>10

\* The adapter is empty, or it has failed.
LEMMA DrainReturnsKeeps ==
  ASSUME RestoreInv, DrainReturns
  PROVE  RestoreInv'
<1>1. op.pc = "drain" /\ WindowStep
  BY DEF DrainReturns
<1>2. ~cand.on /\ ~Replaced
  BY <1>1 DEF CandInv, OpInv, Replaced
<1>3. CASE Throw("error")
  BY <1>1, <1>2, <1>3, ThrowKeeps
<1>4. CASE /\ ~failed /\ Drained /\ op' = [op EXCEPT !.pc = "start"]
           /\ UNCHANGED <<states, machine, req>>
  BY <1>1, <1>4, DrainedKeeps
<1>. QED
  BY <1>3, <1>4 DEF DrainReturns

\* The memory that is saved is the one of the disk.
LEMMA MemorySavedKeeps ==
  ASSUME RestoreInv, op.kind = "capture", op.pc = "start", req' = [NoReq EXCEPT !.name = "saveState", !.pc = "sent"],
         op' = [op EXCEPT !.pc = "await", !.ram = machine.sees, !.listening = TRUE],
         UNCHANGED <<states, machine>>, WindowStep
  PROVE  RestoreInv'
<1> USE DEF WindowStep
<1>1. op' \in OpType
  <2> HIDE DEF RestoreInv, WindowStep
  <2>. QED
    BY Parts DEF OpType
<1>2. req' \in ReqType
  BY EmptyDisk DEF TypeOK, ReqType, Results
<1>3. TypeOK'
  BY <1>1, <1>2 DEF TypeOK
<1>4. Unapplied' = Unapplied
  BY DEF Unapplied
<1>5. OpInv'
  BY DEF OpInv
<1>6. DiscardInv'
  BY DEF DiscardInv
<1>7. CandInv'
  BY DEF CandInv, Replaced
<1>8. BufferInv'
  BY DEF BufferInv
<1>9. MatchInv'
  BY <1>4 DEF OpInv, BufferInv, MatchInv, Replaced
<1>10. RamInv'
  BY DEF RamInv
<1>11. CapturedTogether'
  BY DEF CapturedTogether
<1>. QED
  BY <1>3, <1>5, <1>6, <1>7, <1>8, <1>9, <1>10, <1>11

\* save_state, or its failure.
LEMMA SaveMemoryKeeps ==
  ASSUME RestoreInv, SaveMemory
  PROVE  RestoreInv'
<1>1. op.kind = "capture" /\ op.pc = "start" /\ WindowStep
  BY DEF SaveMemory
<1>2. ~cand.on /\ ~Replaced
  BY <1>1 DEF CandInv, OpInv, Replaced
<1>3. CASE Throw("error") \/ Throw("cancelled")
  BY <1>1, <1>2, <1>3, ThrowKeeps
<1>4. CASE /\ op' = [op EXCEPT !.pc = "await", !.ram = machine.sees, !.listening = TRUE]
           /\ Request("saveState") /\ UNCHANGED <<states, machine>>
  BY <1>1, <1>4, MemorySavedKeeps DEF Request
<1>. QED
  BY <1>3, <1>4 DEF SaveMemory

\* A restore asks for its candidate once.
LEMMA PrepareSentKeeps ==
  ASSUME RestoreInv, op.kind = "restore", op.pc = "start", req' = [NoReq EXCEPT !.name = "prepareState", !.pc = "sent"],
         op' = [op EXCEPT !.pc = "await", !.listening = TRUE],
         UNCHANGED <<states, machine>>, WindowStep
  PROVE  RestoreInv'
<1> USE DEF WindowStep
<1>1. op' \in OpType
  BY EmptyDisk DEF TypeOK, OpType, Results
<1>2. req' \in ReqType
  BY EmptyDisk DEF TypeOK, ReqType, Results
<1>3. TypeOK'
  BY <1>1, <1>2 DEF TypeOK
<1>4. Unapplied' = Unapplied
  BY DEF Unapplied
<1>5. OpInv'
  BY DEF OpInv
<1>6. DiscardInv'
  BY DEF DiscardInv
<1>7. CandInv'
  BY DEF OpInv, DiscardInv, CandInv, Replaced
<1>8. BufferInv'
  BY DEF BufferInv
<1>9. MatchInv'
  BY <1>4 DEF OpInv, BufferInv, MatchInv, Replaced
<1>10. RamInv'
  BY DEF RamInv
<1>11. CapturedTogether'
  BY DEF CapturedTogether
<1>. QED
  BY <1>3, <1>5, <1>6, <1>7, <1>8, <1>9, <1>10, <1>11

\* The disk of the state is prepared, unless the restore was cancelled.
LEMMA PrepareKeeps ==
  ASSUME RestoreInv, Prepare
  PROVE  RestoreInv'
<1>1. op.kind = "restore" /\ op.pc = "start" /\ WindowStep
  BY DEF Prepare
<1>2. ~cand.on /\ ~Replaced
  BY <1>1 DEF CandInv, OpInv, Replaced
<1>3. CASE Throw("cancelled")
  BY <1>1, <1>2, <1>3, ThrowKeeps
<1>4. CASE /\ op' = [op EXCEPT !.pc = "await", !.listening = TRUE]
           /\ Request("prepareState") /\ UNCHANGED <<states, machine>>
  BY <1>1, <1>4, PrepareSentKeeps DEF Request
<1>. QED
  BY <1>3, <1>4 DEF Prepare

\* A request that failed left the disk of before, and a candidate only for a
\* restore that takes it back.
LEMMA RequestRejectedKeeps ==
  ASSUME RestoreInv, RequestRejected
  PROVE  RestoreInv'
<1>1. /\ op.pc = "await" /\ req.pc = "replied" /\ req.result # "ok" /\ WindowStep
      /\ Throw(req.result)
  BY DEF RequestRejected
<1>2. req.result \in {"error", "cancelled"}
  BY <1>1, Parts DEF OpInv, Results
<1>3. ~Replaced
  BY <1>1 DEF Replaced
<1>4. cand.on => op.prepared
  BY <1>1 DEF CandInv
<1>. QED
  BY <1>1, <1>2, <1>3, <1>4, ThrowKeeps

\* The disk of a state file is the one of its memory.
LEMMA StateSavedKeeps ==
  ASSUME RestoreInv, StateSaved
  PROVE  RestoreInv'
<1> USE DEF StateSaved, WindowStep
<1>1. states' \in Seq(StateType)
  <2>1. [sees |-> op.ram, disk |-> vault.disk] \in StateType
    BY Parts DEF StateType
  <2>2. states' = Append(states, [sees |-> op.ram, disk |-> vault.disk])
    OBVIOUS
  <2> HIDE DEF RestoreInv, StateSaved
  <2>. QED
    BY <2>1, <2>2, Parts
<1>2. op' \in OpType
  BY EmptyDisk DEF TypeOK, OpType, Results
<1>3. req' \in ReqType
  BY EmptyDisk DEF TypeOK, ReqType, Results
<1>4. TypeOK'
  BY <1>1, <1>2, <1>3 DEF TypeOK
<1>5. Unapplied' = Unapplied
  BY DEF Unapplied
<1>6. OpInv'
  BY DEF OpInv
<1>7. DiscardInv'
  BY DEF DiscardInv
<1>8. CandInv'
  BY DEF OpInv, DiscardInv, CandInv, Replaced
<1>9. BufferInv'
  BY DEF BufferInv
<1>10. MatchInv'
  BY <1>5 DEF MatchInv, Replaced
<1>11. RamInv'
  BY DEF RamInv
<1>12. CapturedTogether'
  <2>1. vault' = vault /\ states' = Append(states, [sees |-> op.ram, disk |-> vault.disk])
    OBVIOUS
  <2>2. ~vault.remote => op.ram = vault.disk
    <3>1. SUFFICES ASSUME ~vault.remote
                   PROVE  op.ram = vault.disk
      OBVIOUS
    <3>2. op.kind = "capture" /\ op.pc = "await" /\ machine.on /\ queue = <<>> /\ ~Replaced
      BY DEF OpInv, BufferInv, Replaced
    <3>3. op.ram = machine.sees /\ machine.sees = vault.disk \o Unapplied
      BY <3>1, <3>2 DEF MatchInv, RamInv
    <3>4. Unapplied = <<>> /\ vault.disk \in Seq(Nat)
      BY <3>2, UnappliedIs, Parts DEF Disks
    <3>5. vault.disk \o <<>> = vault.disk
      BY <3>4, ConcatEmpty
    <3> HIDE DEF RestoreInv, StateSaved
    <3>. QED
      BY <3>3, <3>4, <3>5
  <2>3. ASSUME ~vault.remote, NEW i \in DOMAIN states'
        PROVE  states'[i].sees = states'[i].disk
    <3>1. i = Len(states) + 1 \/ (i \in DOMAIN states /\ states'[i] = states[i])
      <4> HIDE DEF RestoreInv, StateSaved
      <4>. QED
        BY <2>1, <2>3, Parts
    <3>2. states'[Len(states) + 1] = [sees |-> op.ram, disk |-> vault.disk]
      <4> HIDE DEF RestoreInv, StateSaved
      <4>. QED
        BY <2>1, Parts
    <3>3. CASE i = Len(states) + 1
      BY <2>2, <2>3, <3>2, <3>3
    <3>4. CASE i \in DOMAIN states /\ states'[i] = states[i]
      BY <2>3, <3>4 DEF CapturedTogether
    <3>. QED
      BY <3>1, <3>3, <3>4
  <2> HIDE DEF RestoreInv, StateSaved
  <2>. QED
    BY <2>1, <2>3 DEF CapturedTogether
<1>. QED
  BY <1>4, <1>6, <1>7, <1>8, <1>9, <1>10, <1>11, <1>12

\* The restore knows of its candidate.
LEMMA StatePreparedKeeps ==
  ASSUME RestoreInv, StatePrepared
  PROVE  RestoreInv'
<1> USE DEF StatePrepared, WindowStep
<1>1. op' \in OpType
  BY EmptyDisk DEF TypeOK, OpType, Results
<1>2. req' \in ReqType
  BY EmptyDisk DEF TypeOK, ReqType, Results
<1>3. TypeOK'
  BY <1>1, <1>2 DEF TypeOK
<1>4. Unapplied' = Unapplied
  BY DEF Unapplied
<1>5. OpInv'
  BY DEF OpInv
<1>6. DiscardInv'
  BY DEF DiscardInv
<1>7. CandInv'
  BY DEF CandInv, Replaced
<1>8. BufferInv'
  BY DEF BufferInv
<1>9. MatchInv'
  BY <1>4 DEF MatchInv, Replaced
<1>10. RamInv'
  BY DEF RamInv
<1>11. CapturedTogether'
  BY DEF CapturedTogether
<1>. QED
  BY <1>3, <1>5, <1>6, <1>7, <1>8, <1>9, <1>10, <1>11

\* The machine of the candidate is built beside the old one.
LEMMA BuildDoneKeeps ==
  ASSUME RestoreInv, op.pc = "build", op' = [op EXCEPT !.pc = "commit", !.built = TRUE],
         UNCHANGED <<states, machine, req>>, WindowStep
  PROVE  RestoreInv'
<1> USE DEF WindowStep
<1>1. op' \in OpType
  BY EmptyDisk DEF TypeOK, OpType, Results
<1>2. TypeOK'
  BY <1>1 DEF TypeOK
<1>3. Unapplied' = Unapplied
  BY DEF Unapplied
<1>4. OpInv'
  BY DEF OpInv
<1>5. DiscardInv'
  BY DEF DiscardInv
<1>6. CandInv'
  BY DEF CandInv, Replaced
<1>7. BufferInv'
  BY DEF BufferInv
<1>8. MatchInv'
  BY <1>3 DEF MatchInv, Replaced
<1>9. RamInv'
  BY DEF RamInv
<1>10. CapturedTogether'
  BY DEF CapturedTogether
<1>. QED
  BY <1>2, <1>4, <1>5, <1>6, <1>7, <1>8, <1>9, <1>10

\* The restored machine is built, or its candidate is taken back.
LEMMA MachineBuiltKeeps ==
  ASSUME RestoreInv, MachineBuilt
  PROVE  RestoreInv'
<1>1. op.pc = "build" /\ WindowStep
  BY DEF MachineBuilt
<1>2. op.prepared /\ ~Replaced
  BY <1>1 DEF OpInv, Replaced
<1>3. CASE Throw("error") \/ Throw("cancelled")
  BY <1>1, <1>2, <1>3, ThrowKeeps
<1>4. CASE /\ op' = [op EXCEPT !.pc = "commit", !.built = TRUE]
           /\ UNCHANGED <<states, machine, req>>
  BY <1>1, <1>4, BuildDoneKeeps
<1>. QED
  BY <1>3, <1>4 DEF MachineBuilt

\* The candidate is committed on a drained adapter.
LEMMA CommitKeeps ==
  ASSUME RestoreInv, Commit
  PROVE  RestoreInv'
<1> USE DEF Commit, Request, WindowStep
<1>1. op' \in OpType
  BY EmptyDisk DEF TypeOK, OpType, Results
<1>2. req' \in ReqType
  BY EmptyDisk DEF TypeOK, ReqType, Results
<1>3. TypeOK'
  BY <1>1, <1>2 DEF TypeOK
<1>4. Unapplied' = Unapplied
  BY DEF Unapplied
<1>5. OpInv'
  BY DEF OpInv
<1>6. DiscardInv'
  BY DEF DiscardInv
<1>7. CandInv'
  BY DEF OpInv, DiscardInv, CandInv, Replaced
<1>8. BufferInv'
  BY DEF BufferInv
<1>9. MatchInv'
  BY <1>4 DEF OpInv, BufferInv, MatchInv, Replaced
<1>10. RamInv'
  BY DEF OpInv, BufferInv, RamInv
<1>11. CapturedTogether'
  BY DEF CapturedTogether
<1>. QED
  BY <1>3, <1>5, <1>6, <1>7, <1>8, <1>9, <1>10, <1>11

\* The new machine and the new disk are of one state file.
LEMMA StateCommittedKeeps ==
  ASSUME RestoreInv, StateCommitted
  PROVE  RestoreInv'
<1> USE DEF StateCommitted
<1>1. machine' \in MachineType
  <2>1. PICK running \in BOOLEAN :
          machine' = [on |-> TRUE, running |-> running, sees |-> states[op.state].sees]
    OBVIOUS
  <2>2. states[op.state].sees \in Disks
    BY Parts DEF OpInv
  <2> HIDE DEF RestoreInv, StateCommitted
  <2>. QED
    BY <2>1, <2>2 DEF MachineType
<1>2. queue' \in Disks
  BY EmptyDisk DEF TypeOK, Disks, Results
<1>3. op' \in OpType
  BY EmptyDisk DEF TypeOK, OpType, Results
<1>4. req' \in ReqType
  BY EmptyDisk DEF TypeOK, ReqType, Results
<1>5. TypeOK'
  BY <1>1, <1>2, <1>3, <1>4 DEF TypeOK
<1>6. Unapplied' = <<>>
  BY DEF TypeOK, BufferInv, VaultType, Unapplied, Disks
<1>7. OpInv'
  BY DEF OpInv
<1>8. DiscardInv'
  BY DEF DiscardInv
<1>9. CandInv'
  <2>1. Replaced /\ UNCHANGED <<cand, states>> /\ req.name = "commitState" /\ req.pc = "replied"
    BY DEF Replaced
  <2>2. ~cand.on
    BY <2>1 DEF CandInv
  <2>. QED
    BY <2>1, <2>2 DEF CandInv
<1>10. BufferInv'
  BY DEF BufferInv
<1>11. MatchInv'
  <2>1. /\ Replaced /\ UNCHANGED <<vault, states>> /\ machine'.sees = states[op.state].sees
        /\ op'.pc = "report" /\ ~Replaced' /\ op.prepared
    BY Parts DEF Replaced, OpType, OpInv
  <2>2. ~vault.remote => machine'.sees = vault.disk
    BY <2>1 DEF MatchInv, OpInv, CapturedTogether
  <2>3. vault.disk \o Unapplied' = vault.disk
    <3>1. vault.disk \in Seq(Nat)
      BY Parts DEF Disks
    <3> HIDE DEF RestoreInv, StateCommitted
    <3>. QED
      BY <3>1, <1>6, ConcatEmpty
  <2> HIDE DEF RestoreInv, StateCommitted
  <2>. QED
    BY <2>1, <2>2, <2>3 DEF MatchInv
<1>12. RamInv'
  BY DEF RamInv
<1>13. CapturedTogether'
  BY DEF CapturedTogether
<1>. QED
  BY <1>5, <1>7, <1>8, <1>9, <1>10, <1>11, <1>12, <1>13

\* The candidate has been taken back.
LEMMA DiscardedKeeps ==
  ASSUME RestoreInv, Discarded
  PROVE  RestoreInv'
<1> USE DEF Discarded, WindowStep
<1>1. op' \in OpType
  BY EmptyDisk DEF TypeOK, OpType, Results
<1>2. req' \in ReqType
  BY EmptyDisk DEF TypeOK, ReqType, Results
<1>3. TypeOK'
  BY <1>1, <1>2 DEF TypeOK
<1>4. Unapplied' = Unapplied
  BY DEF Unapplied
<1>5. OpInv'
  BY DEF OpInv
<1>6. DiscardInv'
  BY DEF DiscardInv
<1>7. CandInv'
  BY DEF OpInv, DiscardInv, CandInv, Replaced
<1>8. BufferInv'
  BY DEF BufferInv
<1>9. MatchInv'
  BY <1>4 DEF OpInv, BufferInv, MatchInv, Replaced
<1>10. RamInv'
  BY DEF RamInv
<1>11. CapturedTogether'
  BY DEF CapturedTogether
<1>. QED
  BY <1>3, <1>5, <1>6, <1>7, <1>8, <1>9, <1>10, <1>11

\* The machine runs on as before.
LEMMA FinallyKeeps ==
  ASSUME RestoreInv, Finally
  PROVE  RestoreInv'
<1> USE DEF Finally, WindowStep
<1>1. machine' \in MachineType
  BY EmptyDisk DEF TypeOK, MachineType, Results
<1>2. op' \in OpType
  BY EmptyDisk DEF TypeOK, OpType, Results
<1>3. TypeOK'
  BY <1>1, <1>2 DEF TypeOK
<1>4. Unapplied' = Unapplied
  BY DEF Unapplied
<1>5. OpInv'
  BY DEF OpInv
<1>6. DiscardInv'
  BY DEF DiscardInv
<1>7. CandInv'
  BY DEF CandInv, Replaced
<1>8. BufferInv'
  <2>1. machine'.on = machine.on /\ op'.pc = "report" /\ UNCHANGED <<queue, flying>>
    BY Parts DEF MachineType, OpType
  <2>2. ~machine.on => ~machine'.running
    BY Parts DEF MachineType, OpInv
  <2> HIDE DEF RestoreInv, Finally, WindowStep
  <2>. QED
    BY <2>1, <2>2 DEF RestoreInv, BufferInv
<1>9. MatchInv'
  BY <1>4 DEF MatchInv, Replaced
<1>10. RamInv'
  BY DEF RamInv
<1>11. CapturedTogether'
  BY DEF CapturedTogether
<1>. QED
  BY <1>3, <1>5, <1>6, <1>7, <1>8, <1>9, <1>10, <1>11

\* The operation is over.
LEMMA ReportKeeps ==
  ASSUME RestoreInv, Report
  PROVE  RestoreInv'
<1> USE DEF Report, WindowStep
<1>1. op' \in OpType
  BY EmptyDisk DEF TypeOK, OpType, Results
<1>2. TypeOK'
  BY <1>1 DEF TypeOK
<1>3. Unapplied' = Unapplied
  BY DEF Unapplied
<1>4. OpInv'
  BY DEF OpInv
<1>5. DiscardInv'
  BY DEF DiscardInv
<1>6. CandInv'
  BY DEF OpInv, DiscardInv, CandInv, Replaced
<1>7. BufferInv'
  BY DEF BufferInv
<1>8. MatchInv'
  BY <1>3 DEF OpInv, BufferInv, MatchInv, Replaced
<1>9. RamInv'
  BY DEF RamInv
<1>10. CapturedTogether'
  BY DEF CapturedTogether
<1>. QED
  BY <1>2, <1>4, <1>5, <1>6, <1>7, <1>8, <1>9, <1>10

\* A cancel reaches only a request with a listener.
LEMMA CancelSeenKeeps ==
  ASSUME RestoreInv, CancelSeen
  PROVE  RestoreInv'
<1> USE DEF CancelSeen, WorkerStep
<1>1. req' \in ReqType
  BY EmptyDisk DEF TypeOK, ReqType, Results
<1>2. TypeOK'
  BY <1>1 DEF TypeOK
<1>3. Unapplied' = Unapplied
  BY DEF Unapplied
<1>4. OpInv'
  BY DEF OpInv
<1>5. DiscardInv'
  BY DEF DiscardInv
<1>6. CandInv'
  BY DEF CandInv, Replaced
<1>7. BufferInv'
  BY DEF BufferInv
<1>8. MatchInv'
  BY <1>3 DEF MatchInv, Replaced
<1>9. RamInv'
  BY DEF RamInv
<1>10. CapturedTogether'
  BY DEF CapturedTogether
<1>. QED
  BY <1>2, <1>4, <1>5, <1>6, <1>7, <1>8, <1>9, <1>10

\* A request begins, or was cancelled before.
LEMMA BeginRequestKeeps ==
  ASSUME RestoreInv, BeginRequest
  PROVE  RestoreInv'
<1> USE DEF BeginRequest, Answer, WorkerStep
<1>1. cand' \in CandType
  <2>1. cand' = cand \/ cand' = NoCand
    OBVIOUS
  <2> HIDE DEF RestoreInv, BeginRequest, NoCand
  <2>. QED
    BY <2>1, Parts
<1>2. req' \in ReqType
  BY EmptyDisk DEF TypeOK, ReqType, Results
<1>3. TypeOK'
  BY <1>1, <1>2 DEF TypeOK
<1>4. Unapplied' = Unapplied
  BY DEF Unapplied
<1>5. OpInv'
  BY Parts DEF ReqType, OpInv
<1>6. DiscardInv'
  BY Parts DEF OpType, ReqType, OpInv, DiscardInv
<1>7. CandInv'
  <2>1. /\ UNCHANGED <<op, states>> /\ req'.name = req.name /\ req.pc = "sent"
        /\ cand' \in {cand, NoCand}
    BY Parts DEF ReqType
  <2>2. req'.pc = "running" \/ (req.seen /\ req'.pc = "replied" /\ req'.result = "cancelled")
    BY Parts DEF ReqType
  <2>3. cand.on => ~req.seen \/ op.pc # "discarding"
    BY DEF DiscardInv
  <2>4. SUFFICES ASSUME cand'.on
                 PROVE  CandInv'
    BY DEF CandInv
  <2>5. cand' = cand
    BY <2>1, <2>4
  <2> HIDE DEF BeginRequest
  <2>. QED
    BY <2>1, <2>2, <2>3, <2>4, <2>5 DEF CandInv, Replaced
<1>8. BufferInv'
  BY DEF BufferInv
<1>9. MatchInv'
  BY Parts, <1>4 DEF ReqType, OpInv, BufferInv, MatchInv, Replaced
<1>10. RamInv'
  BY DEF RamInv
<1>11. CapturedTogether'
  BY DEF CapturedTogether
<1>. QED
  BY <1>3, <1>5, <1>6, <1>7, <1>8, <1>9, <1>10, <1>11

\* A request that fails changes nothing.
LEMMA RequestFailsKeeps ==
  ASSUME RestoreInv, RequestFails
  PROVE  RestoreInv'
<1> USE DEF RequestFails, Answer, Thrown, WorkerStep
<1>1. req' \in ReqType
  BY EmptyDisk DEF TypeOK, ReqType, Results
<1>2. TypeOK'
  BY <1>1 DEF TypeOK
<1>3. Unapplied' = Unapplied
  BY DEF Unapplied
<1>4. OpInv'
  BY DEF OpInv
<1>5. DiscardInv'
  BY DEF DiscardInv
<1>6. CandInv'
  BY DEF OpInv, DiscardInv, CandInv, Replaced
<1>7. BufferInv'
  BY DEF BufferInv
<1>8. MatchInv'
  BY <1>3 DEF MatchInv, Replaced
<1>9. RamInv'
  BY DEF RamInv
<1>10. CapturedTogether'
  BY DEF CapturedTogether
<1>. QED
  BY <1>2, <1>4, <1>5, <1>6, <1>7, <1>8, <1>9, <1>10

\* The disk of a state file is read.
LEMMA SaveStateReturnsKeeps ==
  ASSUME RestoreInv, SaveStateReturns
  PROVE  RestoreInv'
<1> USE DEF SaveStateReturns, Answer, WorkerStep
<1>1. req' \in ReqType
  BY EmptyDisk DEF TypeOK, ReqType, Results
<1>2. TypeOK'
  BY <1>1 DEF TypeOK
<1>3. Unapplied' = Unapplied
  BY DEF Unapplied
<1>4. OpInv'
  BY DEF OpInv
<1>5. DiscardInv'
  BY DEF DiscardInv
<1>6. CandInv'
  BY DEF OpInv, DiscardInv, CandInv, Replaced
<1>7. BufferInv'
  BY DEF BufferInv
<1>8. MatchInv'
  BY <1>3 DEF MatchInv, Replaced
<1>9. RamInv'
  BY DEF RamInv
<1>10. CapturedTogether'
  BY DEF CapturedTogether
<1>. QED
  BY <1>2, <1>4, <1>5, <1>6, <1>7, <1>8, <1>9, <1>10

\* The candidate has the disk of the chosen state.
LEMMA PrepareReturnsKeeps ==
  ASSUME RestoreInv, PrepareReturns
  PROVE  RestoreInv'
<1> USE DEF PrepareReturns, Answer, WorkerStep
<1>1. cand' \in CandType
  <2>1. cand' = [on |-> TRUE, disk |-> states[op.state].disk, revision |-> vault.revision]
    OBVIOUS
  <2>2. states[op.state].disk \in Disks
    BY Parts DEF OpInv
  <2> HIDE DEF RestoreInv, PrepareReturns
  <2>. QED
    BY <2>1, <2>2, Parts DEF CandType
<1>2. req' \in ReqType
  BY EmptyDisk DEF TypeOK, ReqType, Results
<1>3. TypeOK'
  BY <1>1, <1>2 DEF TypeOK
<1>4. Unapplied' = Unapplied
  BY DEF Unapplied
<1>5. OpInv'
  BY DEF OpInv
<1>6. DiscardInv'
  BY DEF DiscardInv
<1>7. CandInv'
  BY DEF OpInv, DiscardInv, CandInv, Replaced
<1>8. BufferInv'
  BY DEF BufferInv
<1>9. MatchInv'
  BY <1>4 DEF MatchInv, Replaced
<1>10. RamInv'
  BY DEF RamInv
<1>11. CapturedTogether'
  BY DEF CapturedTogether
<1>. QED
  BY <1>3, <1>5, <1>6, <1>7, <1>8, <1>9, <1>10, <1>11

\* The disk is replaced at the commit, or not at all.
LEMMA CommitReturnsKeeps ==
  ASSUME RestoreInv, CommitReturns
  PROVE  RestoreInv'
<1> USE DEF CommitReturns, Answer, Thrown, Adopted, Awaits, WorkerStep
<1>1. vault' \in VaultType
  <2> DEFINE n == vault.revision + 1
  <2>1. n \in Nat /\ (vault' = vault \/ vault' = [vault EXCEPT !.disk = cand.disk, !.revision = n])
    BY Parts
  <2> HIDE DEF RestoreInv, CommitReturns, n
  <2>. QED
    BY <2>1, Parts DEF VaultType
<1>2. cand' \in CandType
  <2>1. cand' = cand \/ cand' = NoCand
    OBVIOUS
  <2> HIDE DEF RestoreInv, CommitReturns, NoCand
  <2>. QED
    BY <2>1, Parts
<1>3. req' \in ReqType
  BY EmptyDisk DEF TypeOK, ReqType, Results
<1>4. TypeOK'
  BY <1>1, <1>2, <1>3 DEF TypeOK
<1>5. Unapplied' = Unapplied
  BY DEF Unapplied
<1>6. OpInv'
  <2>1. /\ UNCHANGED <<op, states, machine, queue, flying, before>> /\ req.name = "commitState" /\ op.pc = "await"
        /\ op.prepared /\ req.pc = "running"
    BY DEF OpInv
  <2>2. /\ req'.name = req.name /\ vault'.remote = vault.remote /\ req'.pc \in {"tail", "replied"}
        /\ req'.pc = "tail" => vault.remote
    <3>1. CASE Answer(Thrown) /\ UNCHANGED <<vault, cand>>
      BY <3>1, Parts DEF ReqType
    <3>2. CASE /\ vault' = Adopted
               /\ IF Awaits THEN req' = [req EXCEPT !.pc = "tail"] ELSE Answer("ok")
      BY <3>2, Parts DEF ReqType, VaultType
    <3>. QED
      BY <3>1, <3>2
  <2>3. req'.pc = "replied" => req'.result # "none"
    BY Parts DEF ReqType
  <2> HIDE DEF RestoreInv, CommitReturns
  <2>. QED
    BY <2>1, <2>2, <2>3 DEF RestoreInv, OpInv
<1>7. DiscardInv'
  <2>1. op' = op /\ op.pc = "await"
    BY DEF OpInv
  <2> HIDE DEF RestoreInv, CommitReturns
  <2>. QED
    BY <2>1 DEF DiscardInv
<1>8. CandInv'
  <2>1. /\ UNCHANGED <<op, states>> /\ req.name = "commitState" /\ op.pc = "await" /\ op.prepared
    BY DEF OpInv
  <2>2. CASE Answer(Thrown) /\ UNCHANGED <<vault, cand>>
    <3>1. req'.result \in {"error", "cancelled"} /\ req'.pc = "replied"
      BY <2>2, Parts DEF ReqType
    <3> HIDE DEF CommitReturns
    <3>. QED
      BY <2>1, <2>2, <3>1 DEF CandInv, Replaced
  <2>3. CASE cand' = NoCand
    BY <2>3 DEF CandInv
  <2>. QED
    BY <2>2, <2>3
<1>9. BufferInv'
  BY DEF BufferInv
<1>10. MatchInv'
  <2>1. /\ UNCHANGED <<op, states, machine, before>> /\ op.kind = "restore" /\ ~Replaced
    BY DEF OpInv, Replaced
  <2>2. CASE Answer(Thrown) /\ UNCHANGED <<vault, cand>>
    <3>1. req'.result \in {"error", "cancelled"}
      BY <2>2, Parts DEF ReqType
    <3> HIDE DEF CommitReturns
    <3>. QED
      BY <2>1, <2>2, <3>1, <1>5 DEF MatchInv, Replaced
  <2>3. CASE /\ cand.on /\ vault' = Adopted
             /\ IF Awaits THEN req' = [req EXCEPT !.pc = "tail"] ELSE Answer("ok")
    <3>1. vault'.disk = cand.disk /\ vault'.remote = vault.remote /\ cand.disk = states[op.state].disk
      BY <2>3, Parts DEF VaultType, CandInv
    <3>2. ~vault.remote => Replaced'
      BY <2>3, Parts DEF Replaced, ReqType
    <3> HIDE DEF RestoreInv, CommitReturns
    <3>. QED
      BY <2>1, <3>1, <3>2 DEF MatchInv
  <2>. QED
    BY <2>2, <2>3
<1>11. RamInv'
  BY DEF RamInv
<1>12. CapturedTogether'
  <2>1. CapturedTogether /\ states' = states
    OBVIOUS
  <2>2. vault'.remote = vault.remote
    BY Parts DEF VaultType
  <2> HIDE DEF RestoreInv, CommitReturns
  <2>. QED
    BY <2>1, <2>2 DEF CapturedTogether
<1>. QED
  BY <1>4, <1>6, <1>7, <1>8, <1>9, <1>10, <1>11, <1>12

\* What a commit still awaits changes nothing more.
LEMMA CommitAwaitedKeeps ==
  ASSUME RestoreInv, CommitAwaited
  PROVE  RestoreInv'
<1> USE DEF CommitAwaited, Answer, Thrown, WorkerStep
<1>1. req' \in ReqType
  BY EmptyDisk DEF TypeOK, ReqType, Results
<1>2. TypeOK'
  BY <1>1 DEF TypeOK
<1>3. Unapplied' = Unapplied
  BY DEF Unapplied
<1>4. OpInv'
  BY Parts DEF ReqType, OpInv
<1>5. DiscardInv'
  BY DEF OpInv, DiscardInv
<1>6. CandInv'
  BY DEF OpInv, DiscardInv, CandInv, Replaced
<1>7. BufferInv'
  BY DEF BufferInv
<1>8. MatchInv'
  BY <1>3 DEF OpInv, BufferInv, MatchInv, Replaced
<1>9. RamInv'
  BY DEF RamInv
<1>10. CapturedTogether'
  BY DEF CapturedTogether
<1>. QED
  BY <1>2, <1>4, <1>5, <1>6, <1>7, <1>8, <1>9, <1>10

\* The candidate is gone.
LEMMA DiscardReturnsKeeps ==
  ASSUME RestoreInv, DiscardReturns
  PROVE  RestoreInv'
<1> USE DEF DiscardReturns, Answer, WorkerStep
<1>1. cand' \in CandType
  BY EmptyDisk DEF TypeOK, CandType, Results
<1>2. req' \in ReqType
  BY EmptyDisk DEF TypeOK, ReqType, Results
<1>3. TypeOK'
  BY <1>1, <1>2 DEF TypeOK
<1>4. Unapplied' = Unapplied
  BY DEF Unapplied
<1>5. OpInv'
  BY DEF OpInv
<1>6. DiscardInv'
  BY DEF DiscardInv
<1>7. CandInv'
  BY DEF CandInv, Replaced
<1>8. BufferInv'
  BY DEF BufferInv
<1>9. MatchInv'
  BY <1>4 DEF MatchInv, Replaced
<1>10. RamInv'
  BY DEF RamInv
<1>11. CapturedTogether'
  BY DEF CapturedTogether
<1>. QED
  BY <1>3, <1>5, <1>6, <1>7, <1>8, <1>9, <1>10, <1>11

\* A machine that boots knows its disk.
LEMMA BootKeeps ==
  ASSUME RestoreInv, Boot
  PROVE  RestoreInv'
<1> USE DEF Boot, Idle
<1>1. machine' \in MachineType
  <2>1. machine' = [on |-> TRUE, running |-> TRUE, sees |-> vault.disk]
    OBVIOUS
  <2> HIDE DEF RestoreInv, Boot
  <2>. QED
    BY <2>1, Parts DEF MachineType
<1>2. TypeOK'
  BY <1>1 DEF TypeOK
<1>3. Unapplied' = Unapplied
  BY DEF Unapplied
<1>4. OpInv'
  BY DEF OpInv
<1>5. DiscardInv'
  BY DEF DiscardInv
<1>6. CandInv'
  BY DEF CandInv, Replaced
<1>7. BufferInv'
  BY DEF OpInv, BufferInv
<1>8. MatchInv'
  <2>1. /\ machine'.sees = vault.disk /\ UNCHANGED <<vault, op, req, states, before>> /\ ~machine.on
        /\ op.kind = "none"
    OBVIOUS
  <2>2. ~Replaced /\ ~Replaced'
    BY <2>1 DEF OpInv, Replaced
  <2>3. queue = <<>>
    BY <2>1 DEF BufferInv
  <2>4. vault.disk \o Unapplied = vault.disk
    <3>1. Unapplied = <<>> /\ vault.disk \in Seq(Nat)
      BY <2>3, UnappliedIs, Parts DEF Disks
    <3> HIDE DEF RestoreInv, Boot
    <3>. QED
      BY <3>1, ConcatEmpty
  <2> HIDE DEF RestoreInv, Boot
  <2>. QED
    BY <2>1, <2>2, <2>4, <1>3 DEF MatchInv
<1>9. RamInv'
  BY DEF RamInv
<1>10. CapturedTogether'
  BY DEF CapturedTogether
<1>. QED
  BY <1>2, <1>4, <1>5, <1>6, <1>7, <1>8, <1>9, <1>10

\* A write is in the queue as soon as the machine knows of it.
LEMMA GuestWriteKeeps ==
  ASSUME RestoreInv, GuestWrite
  PROVE  RestoreInv'
<1> USE DEF GuestWrite
<1>1. machine' \in MachineType
  <2>1. machine' = [machine EXCEPT !.sees = Append(machine.sees, writes')] /\ writes' = writes + 1
    BY Parts
  <2>2. Append(machine.sees, writes') \in Disks
    <3>0. machine.sees \in Disks /\ writes \in Nat
      BY Parts
    <3> HIDE DEF RestoreInv, GuestWrite
    <3>1. machine.sees \in Seq(Nat) /\ writes' \in Nat
      BY <2>1, <3>0 DEF Disks
    <3>. QED
      BY <3>1 DEF Disks
  <2> HIDE DEF RestoreInv, GuestWrite
  <2>. QED
    BY <2>1, <2>2, Parts DEF MachineType
<1>2. queue' \in Disks
  BY EmptyDisk DEF TypeOK, Disks, Results
<1>3. TypeOK'
  BY <1>1, <1>2 DEF TypeOK
<1>4. vault.disk \o Unapplied' = Append(vault.disk \o Unapplied, writes')
  <2>1. /\ queue' = Append(queue, writes') /\ flying' = flying /\ writes' \in Nat
        /\ vault.disk \in Seq(Nat) /\ queue \in Seq(Nat)
    <3>1. queue' = Append(queue, writes') /\ flying' = flying /\ writes' = writes + 1
      OBVIOUS
    <3>2. vault.disk \in Disks /\ queue \in Disks /\ writes \in Nat
      BY Parts
    <3> HIDE DEF RestoreInv, GuestWrite
    <3>. QED
      BY <3>1, <3>2 DEF Disks
  <2>2. flying = "applied" => queue # <<>>
    BY DEF BufferInv
  <2>3. Unapplied' = Append(Unapplied, writes')
    <3> HIDE DEF RestoreInv, GuestWrite
    <3>. QED
      BY <2>1, <2>2, AppendLast DEF Unapplied
  <2>4. Unapplied \in Seq(Nat)
    BY UnappliedIs, Parts DEF Disks
  <2> HIDE DEF RestoreInv, GuestWrite
  <2>. QED
    BY <2>1, <2>3, <2>4, AppendLast
<1>5. OpInv'
  BY DEF OpInv
<1>6. DiscardInv'
  BY DEF DiscardInv
<1>7. CandInv'
  BY DEF CandInv, Replaced
<1>8. BufferInv'
  BY DEF BufferInv
<1>9. MatchInv'
  BY EmptyDisk, <1>4 DEF TypeOK, VaultType, CandType, MachineType, OpType, ReqType, OpInv, BufferInv, MatchInv, Replaced
<1>10. RamInv'
  BY DEF OpInv, BufferInv, RamInv
<1>11. CapturedTogether'
  BY DEF CapturedTogether
<1>. QED
  BY <1>3, <1>5, <1>6, <1>7, <1>8, <1>9, <1>10, <1>11

\* The queue is kept, though nothing pumps it.
LEMMA RetryRejectedKeeps ==
  ASSUME RestoreInv, RetryRejected
  PROVE  RestoreInv'
<1> USE DEF RetryRejected, Idle
<1>1. TypeOK'
  BY DEF TypeOK
<1>2. OpInv'
  BY DEF OpInv
<1>3. DiscardInv'
  BY DEF DiscardInv
<1>4. CandInv'
  BY DEF CandInv, Replaced
<1>5. BufferInv'
  BY DEF BufferInv
<1>6. MatchInv'
  BY DEF MatchInv
<1>7. RamInv'
  BY DEF RamInv
<1>8. CapturedTogether'
  BY DEF CapturedTogether
<1>. QED
  BY <1>1, <1>2, <1>3, <1>4, <1>5, <1>6, <1>7, <1>8

\* The queue goes on where it stopped.
LEMMA RetryKeeps ==
  ASSUME RestoreInv, Retry
  PROVE  RestoreInv'
<1> USE DEF Retry, Idle
<1>1. TypeOK'
  BY DEF TypeOK
<1>2. Unapplied' = Unapplied
  BY DEF Unapplied
<1>3. OpInv'
  BY DEF OpInv
<1>4. DiscardInv'
  BY DEF DiscardInv
<1>5. CandInv'
  BY DEF CandInv, Replaced
<1>6. BufferInv'
  BY DEF BufferInv
<1>7. MatchInv'
  BY <1>2 DEF MatchInv, Replaced
<1>8. RamInv'
  BY DEF RamInv
<1>9. CapturedTogether'
  BY DEF CapturedTogether
<1>. QED
  BY <1>1, <1>3, <1>4, <1>5, <1>6, <1>7, <1>8, <1>9

\* The machine runs again.
LEMMA ResumeKeeps ==
  ASSUME RestoreInv, Resume
  PROVE  RestoreInv'
<1> USE DEF Resume, Idle
<1>1. machine' \in MachineType
  BY EmptyDisk DEF TypeOK, MachineType, Results
<1>2. TypeOK'
  BY <1>1 DEF TypeOK
<1>3. Unapplied' = Unapplied
  BY DEF Unapplied
<1>4. OpInv'
  BY DEF OpInv
<1>5. DiscardInv'
  BY DEF DiscardInv
<1>6. CandInv'
  BY DEF CandInv, Replaced
<1>7. BufferInv'
  BY DEF OpInv, BufferInv
<1>8. MatchInv'
  BY <1>3 DEF MatchInv, Replaced
<1>9. RamInv'
  BY DEF RamInv
<1>10. CapturedTogether'
  BY DEF CapturedTogether
<1>. QED
  BY <1>2, <1>4, <1>5, <1>6, <1>7, <1>8, <1>9, <1>10

\* A capture stops the machine first.
LEMMA StartCaptureKeeps ==
  ASSUME RestoreInv, StartCapture
  PROVE  RestoreInv'
<1> USE DEF StartCapture, Idle, Started
<1>1. machine' \in MachineType
  BY EmptyDisk DEF TypeOK, MachineType, Results
<1>2. op' \in OpType
  <2> DEFINE p == IF machine.on THEN "drain" ELSE "start"
  <2>1. /\ op' = [NoOp EXCEPT !.kind = "capture", !.pc = p, !.running = machine.running, !.state = 0]
        /\ p \in {"drain", "start"}
    OBVIOUS
  <2>2. 0 \in Nat
    BY Parts
  <2> HIDE DEF RestoreInv, StartCapture, p
  <2>. QED
    BY <2>1, <2>2, Parts, EmptyDisk DEF OpType, Results
<1>3. TypeOK'
  BY <1>1, <1>2 DEF TypeOK
<1>4. Unapplied' = Unapplied
  BY DEF Unapplied
<1>5. OpInv'
  BY DEF OpInv
<1>6. DiscardInv'
  BY DEF DiscardInv
<1>7. CandInv'
  BY DEF CandInv, Replaced
<1>8. BufferInv'
  BY DEF BufferInv
<1>9. MatchInv'
  BY <1>4 DEF OpInv, BufferInv, MatchInv, Replaced
<1>10. RamInv'
  BY DEF RamInv
<1>11. CapturedTogether'
  BY DEF CapturedTogether
<1>. QED
  BY <1>3, <1>5, <1>6, <1>7, <1>8, <1>9, <1>10, <1>11

\* A restore stops the machine first.
LEMMA StartRestoreKeeps ==
  ASSUME RestoreInv, NEW i \in DOMAIN states, StartRestore(i)
  PROVE  RestoreInv'
<1> USE DEF StartRestore, Idle, Started
<1>1. machine' \in MachineType
  BY EmptyDisk DEF TypeOK, MachineType, Results
<1>2. op' \in OpType
  <2> DEFINE p == IF machine.on THEN "drain" ELSE "start"
  <2>1. /\ op' = [NoOp EXCEPT !.kind = "restore", !.pc = p, !.running = machine.running, !.state = i]
        /\ p \in {"drain", "start"}
    OBVIOUS
  <2>2. i \in Nat
    BY Parts
  <2> HIDE DEF RestoreInv, StartRestore, p
  <2>. QED
    BY <2>1, <2>2, Parts, EmptyDisk DEF OpType, Results
<1>3. TypeOK'
  <2>1. before' \in Disks
    <3>1. before' = vault.disk \o Unapplied /\ vault.disk \in Seq(Nat) /\ Unapplied \in Seq(Nat)
      BY Parts, UnappliedIs DEF Disks
    <3> HIDE DEF RestoreInv, StartRestore
    <3>. QED
      BY <3>1 DEF Disks
  <2>. QED
    BY <1>1, <1>2, <2>1 DEF TypeOK
<1>4. Unapplied' = Unapplied
  BY DEF Unapplied
<1>5. OpInv'
  BY EmptyDisk DEF TypeOK, MachineType, OpType, ReqType, OpInv, BufferInv
<1>6. DiscardInv'
  BY DEF DiscardInv
<1>7. CandInv'
  BY DEF CandInv, Replaced
<1>8. BufferInv'
  BY DEF BufferInv
<1>9. MatchInv'
  BY <1>4 DEF OpInv, BufferInv, MatchInv, Replaced
<1>10. RamInv'
  BY DEF RamInv
<1>11. CapturedTogether'
  BY DEF CapturedTogether
<1>. QED
  BY <1>3, <1>5, <1>6, <1>7, <1>8, <1>9, <1>10, <1>11

\* The cancel is passed on while there is a listener.
LEMMA UserCancelsKeeps ==
  ASSUME RestoreInv, UserCancels
  PROVE  RestoreInv'
<1> USE DEF UserCancels, Idle
<1>1. req' \in ReqType
  BY EmptyDisk DEF TypeOK, ReqType, Results
<1>2. TypeOK'
  BY <1>1 DEF TypeOK
<1>3. Unapplied' = Unapplied
  BY DEF Unapplied
<1>4. OpInv'
  BY DEF OpInv
<1>5. DiscardInv'
  <2> DEFINE b == op.listening /\ req.pc # "none"
  <2>1. /\ UNCHANGED op /\ req' = [req EXCEPT !.cancelled = b] /\ b \in BOOLEAN
        /\ b => op.listening
    BY Parts
  <2> HIDE DEF b
  <2>2. req'.cancelled = b /\ req'.seen = req.seen
    BY <2>1, Parts DEF ReqType
  <2>. QED
    BY <2>1, <2>2 DEF DiscardInv
<1>6. CandInv'
  BY DEF CandInv, Replaced
<1>7. BufferInv'
  BY DEF BufferInv
<1>8. MatchInv'
  BY <1>3 DEF MatchInv, Replaced
<1>9. RamInv'
  BY DEF RamInv
<1>10. CapturedTogether'
  BY DEF CapturedTogether
<1>. QED
  BY <1>2, <1>4, <1>5, <1>6, <1>7, <1>8, <1>9, <1>10

\* An empty local or remote disk and no machine.
LEMMA InitKeeps == Init => RestoreInv
<1> SUFFICES ASSUME Init
             PROVE  RestoreInv
  OBVIOUS
<1>1. PICK remote \in BOOLEAN : vault = [disk |-> <<>>, revision |-> 1, remote |-> remote]
  BY DEF Init
<1>2. TypeOK
  <2>1. vault \in VaultType /\ cand \in CandType /\ machine \in MachineType
    BY <1>1, EmptyDisk DEF Init, VaultType, CandType, MachineType
  <2>2. op \in OpType /\ req \in ReqType
    BY EmptyDisk DEF Init, OpType, ReqType, Results
  <2>3. states \in Seq(StateType)
    BY DEF Init
  <2>4. /\ queue \in Disks /\ before \in Disks /\ writes \in Nat
        /\ flying \in {"no", "sent", "applied", "stalled"}
        /\ failed \in BOOLEAN /\ aborted \in BOOLEAN
    BY EmptyDisk DEF Init
  <2>. QED
    BY <2>1, <2>2, <2>3, <2>4 DEF TypeOK
<1>3. OpInv /\ DiscardInv /\ CandInv /\ BufferInv /\ RamInv
  BY DEF Init, OpInv, DiscardInv, CandInv, BufferInv, RamInv
<1>4. MatchInv /\ CapturedTogether
  BY DEF Init, MatchInv, CapturedTogether, Replaced
<1>. QED
  BY <1>2, <1>3, <1>4

\* The invariant survives every step.
LEMMA NextKeeps == RestoreInv /\ [Next]_vars => RestoreInv'
<1> SUFFICES ASSUME RestoreInv, [Next]_vars
             PROVE  RestoreInv'
  OBVIOUS
<1>1. CASE UNCHANGED vars
  <2>1. UNCHANGED <<vault, cand, states, machine, queue, flying, failed, writes, op, aborted, req, before>>
    BY <1>1 DEF vars
  <2>2. Unapplied' = Unapplied /\ (Replaced' <=> Replaced)
    BY <2>1 DEF Unapplied, Replaced
  <2>3. TypeOK' /\ OpInv' /\ DiscardInv' /\ BufferInv' /\ RamInv' /\ CapturedTogether'
    BY <2>1 DEF TypeOK, OpInv, DiscardInv, BufferInv, RamInv, CapturedTogether
  <2>4. CandInv' /\ MatchInv'
    BY <2>1, <2>2 DEF CandInv, MatchInv
  <2>. QED
    BY <2>3, <2>4
<1> HIDE DEF RestoreInv
<1>2. CASE PumpSends \/ WorkerWrites \/ WriteFails \/ PumpShifts
  BY <1>2, PumpSendsKeeps, WorkerWritesKeeps, WriteFailsKeeps, PumpShiftsKeeps
<1>3. CASE DrainReturns \/ SaveMemory \/ Prepare \/ RequestRejected
  BY <1>3, DrainReturnsKeeps, SaveMemoryKeeps, PrepareKeeps, RequestRejectedKeeps
<1>4. CASE StateSaved \/ StatePrepared \/ MachineBuilt \/ Commit \/ StateCommitted
  BY <1>4, StateSavedKeeps, StatePreparedKeeps, MachineBuiltKeeps, CommitKeeps, StateCommittedKeeps
<1>5. CASE Discarded \/ Finally \/ Report \/ CancelSeen
  BY <1>5, DiscardedKeeps, FinallyKeeps, ReportKeeps, CancelSeenKeeps
<1>6. CASE BeginRequest \/ RequestFails \/ SaveStateReturns \/ PrepareReturns
  BY <1>6, BeginRequestKeeps, RequestFailsKeeps, SaveStateReturnsKeeps, PrepareReturnsKeeps
<1>7. CASE CommitReturns \/ CommitAwaited \/ DiscardReturns
  BY <1>7, CommitReturnsKeeps, CommitAwaitedKeeps, DiscardReturnsKeeps
<1>8. CASE Boot \/ GuestWrite \/ Retry \/ RetryRejected \/ Resume
  BY <1>8, BootKeeps, GuestWriteKeeps, RetryKeeps, RetryRejectedKeeps, ResumeKeeps
<1>9. CASE StartCapture \/ UserCancels
  BY <1>9, StartCaptureKeeps, UserCancelsKeeps
<1>10. ASSUME NEW i \in DOMAIN states, StartRestore(i)
       PROVE  RestoreInv'
  BY <1>10, StartRestoreKeeps
<1>. QED
  BY <1>1, <1>2, <1>3, <1>4, <1>5, <1>6, <1>7, <1>8, <1>9, <1>10 DEF Next, SystemStep

\* The inductive invariant holds throughout.
THEOREM Inductive == Spec => []RestoreInv
<1> HIDE DEF RestoreInv
<1>. QED
  BY InitKeeps, NextKeeps, PTL DEF Spec

\* Between operations the machine on a local disk knows what is on it and in its
\* queue, and a cancelled restore leaves the disk of before.
THEOREM MachineMatchesDiskHolds == Spec => []MachineMatchesDisk
<1>1. RestoreInv => MachineMatchesDisk
  <2> SUFFICES ASSUME RestoreInv, ~vault.remote
               PROVE  (Idle /\ machine.on => machine.sees = vault.disk \o Unapplied) /\ CancelledPreserves
    BY DEF MachineMatchesDisk
  <2>1. op.kind = "none" \/ op.pc = "finally" => ~Replaced
    BY DEF OpInv, Replaced
  <2>. QED
    BY <2>1 DEF MatchInv, Idle, CancelledPreserves
<1> HIDE DEF RestoreInv
<1>. QED
  BY <1>1, Inductive, PTL

\* Every state file of a local disk has the memory and the disk of one moment.
THEOREM CapturedTogetherHolds == Spec => []CapturedTogether
<1>1. RestoreInv => CapturedTogether
  OBVIOUS
<1> HIDE DEF RestoreInv
<1>. QED
  BY <1>1, Inductive, PTL

\* No candidate outlives its restore, however it ends.
THEOREM NoCandidateLeftHolds == Spec => []NoCandidateLeft
<1>1. RestoreInv => NoCandidateLeft
  BY DEF CandInv, NoCandidateLeft, Idle
<1> HIDE DEF RestoreInv
<1>. QED
  BY <1>1, Inductive, PTL

-----------------------------------------------------------------------------
(* The requests themselves: the order of requests and cancels of           *)
(* WorkerProtocol, which the operations above take for granted.            *)

Ids == Calls \cup {NoCall}
Outcomes == {"ok", "cancelled", "error"}
CallType ==
  [pc : {"unborn", "waiting", "pending"} \cup Outcomes, born : Nat, closing : BOOLEAN]
MessageType == [op : {"call", "cancel"}, id : Ids, epoch : Nat]
AnswerType == [type : {"ready", "fatal", "reply"}, id : Ids, result : {"ready", "fatal"} \cup Outcomes]
RunType == [id : Ids, aborted : BOOLEAN, startedAt : Nat]

ProtocolType ==
  /\ shared \in BOOLEAN /\ epoch \in Nat /\ ready \in {"waiting", "ready", "failed"}
  /\ closed \in BOOLEAN /\ alive = ~closed /\ inited \in {"starting", "ok", "failed"}
  /\ cancelEpoch \in Nat /\ activeEpoch \in Nat
  /\ call \in [Calls -> CallType] /\ made \in Seq(Calls) /\ waiting \in Seq(Calls)
  /\ toWorker \in Seq(MessageType) /\ chain \in Seq(MessageType)
  /\ run \in RunType /\ toWindow \in Seq(AnswerType)

\* Whose request each message is.
Names(s) == [i \in DOMAIN s |-> s[i].id]

\* The call c was made before the call d.
Before(m, c, d) == \E i, j \in DOMAIN m : i < j /\ m[i] = c /\ m[j] = d
Sorted(m, s) ==
  \A i, j \in DOMAIN s : i < j /\ s[i] # NoCall /\ s[j] # NoCall => Before(m, s[i], s[j])
Precedes(m, s, t) ==
  \A i \in DOMAIN s, j \in DOMAIN t : s[i] # NoCall /\ t[j] # NoCall => Before(m, s[i], t[j])
First(m, c, s) == \A i \in DOMAIN s : s[i] # NoCall => Before(m, c, s[i])

\* A call r runs, q are chained, t posted and w wait, in the order in which they were made.
Ordered(m, r, q, t, w) ==
  /\ Sorted(m, q) /\ Sorted(m, t) /\ Sorted(m, w)
  /\ Precedes(m, q, t) /\ Precedes(m, q, w) /\ Precedes(m, t, w)
  /\ r # NoCall => First(m, r, q) /\ First(m, r, t) /\ First(m, r, w)

\* A call is made once.
Once(m) == \A i, j \in DOMAIN m : m[i] = m[j] => i = j
MadeInv ==
  /\ Once(made)
  /\ \A c \in Calls : call[c].pc # "unborn" <=> \E i \in DOMAIN made : made[i] = c
OrderInv == Ordered(made, run.id, Names(chain), Names(toWorker), waiting)

\* What is known of the call a message is of.
Known(f, c) == c \in Calls /\ f[c].pc # "unborn"
Bears(f, m) == m.op = "call" /\ Known(f, m.id) /\ m.epoch = f[m.id].born
BornInv ==
  /\ \A c \in Calls : call[c].born <= epoch
  /\ \A i \in DOMAIN waiting : Known(call, waiting[i])
  /\ \A i \in DOMAIN toWorker :
       Bears(call, toWorker[i]) \/ (toWorker[i].op = "cancel" /\ toWorker[i].id = NoCall)
  /\ \A i \in DOMAIN chain : Bears(call, chain[i]) /\ chain[i].epoch <= cancelEpoch

\* The messages t to a Worker that has heard of the cancels up to a, while the window
\* has made those up to b: each cancel is news, and none made before a call follows it.
Queue(t, a, b) ==
  /\ \A i \in DOMAIN t : t[i].op = "cancel" => a < t[i].epoch /\ t[i].epoch <= b
  /\ \A i, j \in DOMAIN t : i < j /\ t[i].op = "cancel" /\ t[j].op = "cancel" => t[i].epoch < t[j].epoch
  /\ \A i \in DOMAIN t : t[i].op = "call" =>
       t[i].epoch <= a \/ \E j \in DOMAIN t : j < i /\ t[j].op = "cancel" /\ t[i].epoch <= t[j].epoch
\* The last cancel was heard of, or is on its way.
Heard(t, a, b) == a = b \/ \E j \in DOMAIN t : t[j].op = "cancel" /\ t[j].epoch = b
EpochInv ==
  /\ Queue(toWorker, cancelEpoch, epoch) /\ (alive => Heard(toWorker, cancelEpoch, epoch))
  /\ activeEpoch <= cancelEpoch /\ cancelEpoch <= epoch

RunInv ==
  /\ run.id # NoCall =>
       Known(call, run.id) /\ run.startedAt = call[run.id].born /\ activeEpoch = call[run.id].born
  /\ run.aborted => run.id # NoCall /\ call[run.id].born < epoch

\* A Worker that did not start has said so before it answers anything.
Doomed(z, t, n) == z \/ \E j \in DOMAIN t : j < n /\ t[j].type = "fatal"
Honest(f, e, c) == f[c].born < e
AnswerInv ==
  /\ \A i \in DOMAIN toWindow : toWindow[i].type = "reply" =>
       /\ Known(call, toWindow[i].id) /\ toWindow[i].result \in Outcomes
       /\ toWindow[i].result = "cancelled" =>
            Honest(call, epoch, toWindow[i].id) \/ Doomed(closed, toWindow, i)
  /\ inited = "failed" => Doomed(closed, toWindow, Len(toWindow) + 1)
  /\ \A c \in Calls : /\ call[c].pc = "cancelled" => Honest(call, epoch, c)
                      /\ call[c].pc = "pending" => ~closed

ProtocolInv ==
  ProtocolType /\ MadeInv /\ OrderInv /\ BornInv /\ EpochInv /\ RunInv /\ AnswerInv

-----------------------------------------------------------------------------
(* Sequences, and the order of calls in them.                              *)

\* A sequence that grows at its end.
LEMMA Appended ==
  ASSUME NEW S, NEW s \in Seq(S), NEW x \in S
  PROVE  /\ Append(s, x) \in Seq(S) /\ Len(s) \in Nat /\ DOMAIN s = 1 .. Len(s)
         /\ DOMAIN Append(s, x) = 1 .. Len(s) + 1 /\ Len(Append(s, x)) = Len(s) + 1
         /\ \A i \in DOMAIN s : Append(s, x)[i] = s[i]
         /\ Append(s, x)[Len(s) + 1] = x
BY AppendProperties

\* A sequence that loses its first element.
LEMMA Shortened ==
  ASSUME NEW S, NEW s \in Seq(S), s # <<>>
  PROVE  /\ Tail(s) \in Seq(S) /\ Head(s) \in S /\ Head(s) = s[1] /\ 1 \in DOMAIN s
         /\ Len(s) \in Nat /\ Len(s) > 0 /\ DOMAIN s = 1 .. Len(s)
         /\ DOMAIN Tail(s) = 1 .. Len(s) - 1 /\ Len(Tail(s)) = Len(s) - 1
         /\ \A i \in DOMAIN Tail(s) : i + 1 \in DOMAIN s /\ i \in Nat /\ Tail(s)[i] = s[i + 1]
BY HeadTailProperties

\* The names of messages, one by one.
LEMMA NamesAre ==
  ASSUME NEW s \in Seq(MessageType)
  PROVE  /\ Names(s) \in Seq(Ids) /\ Len(Names(s)) = Len(s) /\ DOMAIN Names(s) = DOMAIN s
         /\ \A i \in DOMAIN s : Names(s)[i] = s[i].id
<1>1. /\ Len(s) \in Nat /\ DOMAIN s = 1 .. Len(s) /\ \A i \in DOMAIN s : s[i] \in MessageType
  BY LenProperties, ElementOfSeq
<1>2. \A i \in DOMAIN s : s[i].id \in Ids
  BY <1>1 DEF MessageType
<1>3. Names(s) \in [1 .. Len(s) -> Ids]
  BY <1>1, <1>2 DEF Names
<1>4. Names(s) \in Seq(Ids) /\ Len(Names(s)) = Len(s)
  BY <1>1, <1>3, SeqDef, LenProperties
<1>. QED
  BY <1>4 DEF Names

\* The names of messages with one more,
LEMMA NamesOfAppend ==
  ASSUME NEW s \in Seq(MessageType), NEW m \in MessageType
  PROVE  Names(Append(s, m)) = Append(Names(s), m.id)
<1>1. m.id \in Ids
  BY DEF MessageType
<1>2. Append(s, m) \in Seq(MessageType) /\ Names(s) \in Seq(Ids)
  BY Appended, NamesAre
<1>3. Names(Append(s, m)) \in Seq(Ids) /\ Append(Names(s), m.id) \in Seq(Ids)
  BY <1>1, <1>2, Appended, NamesAre
<1>4. /\ Len(Names(Append(s, m))) = Len(s) + 1 /\ Len(Append(Names(s), m.id)) = Len(s) + 1
      /\ Len(s) \in Nat /\ DOMAIN s = 1 .. Len(s) /\ Len(Names(s)) = Len(s) /\ DOMAIN Names(s) = DOMAIN s
  <2>1. Len(Append(s, m)) = Len(s) + 1 /\ Len(s) \in Nat /\ DOMAIN s = 1 .. Len(s)
    BY Appended
  <2>2. Len(Append(Names(s), m.id)) = Len(Names(s)) + 1
    BY <1>1, <1>2, Appended
  <2>3. /\ Len(Names(s)) = Len(s) /\ DOMAIN Names(s) = DOMAIN s
        /\ Len(Names(Append(s, m))) = Len(Append(s, m))
    BY <1>2, NamesAre
  <2>. QED
    BY <2>1, <2>2, <2>3
<1>5. ASSUME NEW i \in 1 .. Len(Names(Append(s, m)))
      PROVE  Names(Append(s, m))[i] = Append(Names(s), m.id)[i]
  <2>1. i \in 1 .. Len(s) + 1 /\ i \in DOMAIN Append(s, m)
    BY <1>4, Appended
  <2>2. Names(Append(s, m))[i] = Append(s, m)[i].id
    BY <1>2, <2>1, NamesAre
  <2>3. CASE i \in DOMAIN s
    <3>1. Append(s, m)[i] = s[i] /\ Names(s)[i] = s[i].id
      BY <2>3, Appended, NamesAre
    <3>2. Append(Names(s), m.id)[i] = Names(s)[i]
      BY <1>1, <1>2, <1>4, <2>3, Appended
    <3>. QED
      BY <2>2, <3>1, <3>2
  <2>4. CASE i = Len(s) + 1
    <3>1. Append(s, m)[i] = m
      BY <2>4, Appended
    <3>2. Append(Names(s), m.id)[i] = m.id
      BY <1>1, <1>2, <1>4, <2>4, Appended
    <3>. QED
      BY <2>2, <3>1, <3>2
  <2>. QED
    BY <1>4, <2>1, <2>3, <2>4
<1>. QED
  BY <1>3, <1>4, <1>5, SeqEqual

\* and with one less.
LEMMA NamesOfTail ==
  ASSUME NEW s \in Seq(MessageType), s # <<>>
  PROVE  Names(s) # <<>> /\ Names(Tail(s)) = Tail(Names(s)) /\ Head(s).id = Head(Names(s))
<1>1. Tail(s) \in Seq(MessageType) /\ Names(s) \in Seq(Ids) /\ Len(Names(s)) = Len(s) /\ Len(s) \in Nat
      /\ Len(s) > 0 /\ DOMAIN Names(s) = DOMAIN s /\ DOMAIN s = 1 .. Len(s)
  BY Shortened, NamesAre
<1>2. Names(s) # <<>>
  BY <1>1, EmptySeq
<1>3. Names(Tail(s)) \in Seq(Ids) /\ Tail(Names(s)) \in Seq(Ids) /\ Len(Names(Tail(s))) = Len(Tail(Names(s)))
      /\ Len(Tail(s)) = Len(s) - 1
  BY <1>1, <1>2, Shortened, NamesAre
<1>4. ASSUME NEW i \in 1 .. Len(Names(Tail(s)))
      PROVE  Names(Tail(s))[i] = Tail(Names(s))[i]
  <2>1. i \in DOMAIN Tail(s) /\ i \in DOMAIN Tail(Names(s)) /\ i + 1 \in DOMAIN s
    BY <1>1, <1>2, <1>3, Shortened
  <2>2. Names(Tail(s))[i] = Tail(s)[i].id
    BY <1>1, <2>1, NamesAre
  <2>3. Tail(s)[i] = s[i + 1]
    BY <2>1, Shortened
  <2>4. Tail(Names(s))[i] = Names(s)[i + 1]
    BY <1>1, <1>2, <2>1, Shortened
  <2>5. Names(s)[i + 1] = s[i + 1].id
    BY <2>1, NamesAre
  <2>. QED
    BY <2>2, <2>3, <2>4, <2>5
<1>5. Head(s).id = Head(Names(s))
  BY <1>1, <1>2, Shortened, NamesAre
<1>. QED
  BY <1>2, <1>3, <1>4, <1>5, SeqEqual

\* A call that is made is after all those made before.
LEMMA BeforeAppended ==
  ASSUME NEW m \in Seq(Calls), NEW c \in Calls
  PROVE  /\ \A a, b : Before(m, a, b) => Before(Append(m, c), a, b)
         /\ \A i \in DOMAIN m : Before(Append(m, c), m[i], c)
<1>1. /\ Len(m) \in Nat /\ DOMAIN m = 1 .. Len(m) /\ DOMAIN Append(m, c) = 1 .. Len(m) + 1
      /\ \A i \in DOMAIN m : Append(m, c)[i] = m[i]
      /\ Append(m, c)[Len(m) + 1] = c
  BY Appended
<1>. QED
  BY <1>1 DEF Before

\* A call joins those that wait.
LEMMA OrderMade ==
  ASSUME NEW m \in Seq(Calls), NEW c \in Calls, NEW r, NEW q, NEW t, NEW w \in Seq(Calls),
         Ordered(m, r, q, t, w),
         \A x \in {r} \cup {q[i] : i \in DOMAIN q} \cup {t[i] : i \in DOMAIN t} \cup {w[i] : i \in DOMAIN w} :
           x # NoCall => \E k \in DOMAIN m : m[k] = x
  PROVE  Ordered(Append(m, c), r, q, t, Append(w, c))
<1> DEFINE n == Append(m, c)
           v == Append(w, c)
<1>1. \A a, b : Before(m, a, b) => Before(n, a, b)
  BY BeforeAppended
<1>2. \A x \in {r} \cup {q[i] : i \in DOMAIN q} \cup {t[i] : i \in DOMAIN t} \cup {w[i] : i \in DOMAIN w} :
        x # NoCall => Before(n, x, c)
  BY BeforeAppended
<1>3. /\ DOMAIN w = 1 .. Len(w) /\ Len(w) \in Nat /\ DOMAIN v = 1 .. Len(w) + 1
      /\ \A i \in DOMAIN w : v[i] = w[i]
      /\ v[Len(w) + 1] = c
  BY Appended
<1> HIDE DEF n, v
<1>4. Sorted(n, q) /\ Sorted(n, t) /\ Precedes(n, q, t)
  BY <1>1 DEF Ordered, Sorted, Precedes
<1>5. Sorted(n, v)
  BY <1>1, <1>2, <1>3 DEF Ordered, Sorted
<1>6. Precedes(n, q, v) /\ Precedes(n, t, v)
  BY <1>1, <1>2, <1>3 DEF Ordered, Precedes
<1>7. r # NoCall => First(n, r, q) /\ First(n, r, t) /\ First(n, r, v)
  BY <1>1, <1>2, <1>3 DEF Ordered, First
<1>. QED
  BY <1>4, <1>5, <1>6, <1>7 DEF Ordered, n, v

\* The first call that waits is posted, or given up.
LEMMA OrderPosted ==
  ASSUME NEW m, NEW r, NEW q, NEW t \in Seq(Ids), NEW w \in Seq(Calls), w # <<>>,
         NoCall \notin Calls, Ordered(m, r, q, t, w)
  PROVE  Ordered(m, r, q, Append(t, Head(w)), Tail(w)) /\ Ordered(m, r, q, t, Tail(w))
<1> DEFINE u == Append(t, Head(w))
           v == Tail(w)
<1>1. /\ Head(w) = w[1] /\ 1 \in DOMAIN w /\ Head(w) # NoCall /\ Head(w) \in Ids
      /\ \A i \in DOMAIN v : i + 1 \in DOMAIN w /\ i \in Nat /\ 1 < i + 1 /\ v[i] = w[i + 1]
  <2>1. \A i \in DOMAIN v : i + 1 \in DOMAIN w /\ i \in 1 .. Len(w) - 1 /\ Len(w) \in Nat /\ v[i] = w[i + 1]
    BY Shortened
  <2>. QED
    BY <2>1, Shortened DEF Ids
<1>2. /\ DOMAIN t = 1 .. Len(t) /\ Len(t) \in Nat /\ DOMAIN u = 1 .. Len(t) + 1
      /\ \A i \in DOMAIN t : u[i] = t[i]
      /\ u[Len(t) + 1] = w[1]
  BY <1>1, Appended
<1> HIDE DEF u, v
<1>3. Sorted(m, u) /\ Precedes(m, q, u) /\ (r # NoCall => First(m, r, u))
  BY <1>1, <1>2 DEF Ordered, Sorted, Precedes, First
<1>4. /\ Sorted(m, v) /\ Precedes(m, q, v) /\ Precedes(m, t, v) /\ (r # NoCall => First(m, r, v))
  BY <1>1 DEF Ordered, Sorted, Precedes, First
<1>5. Precedes(m, u, v)
  BY <1>1, <1>2 DEF Ordered, Sorted, Precedes
<1>. QED
  BY <1>3, <1>4, <1>5 DEF Ordered, u, v

\* A cancel is of no call.
LEMMA OrderCancelled ==
  ASSUME NEW m, NEW r, NEW q, NEW t \in Seq(Ids), NEW w, Ordered(m, r, q, t, w)
  PROVE  Ordered(m, r, q, Append(t, NoCall), w)
<1> DEFINE u == Append(t, NoCall)
<1>1. /\ DOMAIN t = 1 .. Len(t) /\ Len(t) \in Nat /\ DOMAIN u = 1 .. Len(t) + 1
      /\ \A i \in DOMAIN t : u[i] = t[i]
      /\ u[Len(t) + 1] = NoCall
  BY Appended DEF Ids
<1> HIDE DEF u
<1>2. Sorted(m, u) /\ Precedes(m, q, u) /\ Precedes(m, u, w) /\ (r # NoCall => First(m, r, u))
  BY <1>1 DEF Ordered, Sorted, Precedes, First
<1>. QED
  BY <1>2 DEF Ordered, u

\* The messages of a terminated Worker are gone; the request that ran is over.
LEMMA OrderCut ==
  ASSUME NEW m, NEW r, NEW q, NEW t, NEW w, Ordered(m, r, q, t, w)
  PROVE  Ordered(m, r, q, Names(<<>>), w) /\ Ordered(m, NoCall, q, t, w)
<1>1. DOMAIN Names(<<>>) = {}
  BY DEF Names
<1>. QED
  BY <1>1 DEF Ordered, Sorted, Precedes, First

\* The first message is handled.
LEMMA OrderHandled ==
  ASSUME NEW m, NEW r, NEW q \in Seq(Ids), NEW t \in Seq(Ids), NEW w, t # <<>>, Ordered(m, r, q, t, w)
  PROVE  /\ Ordered(m, r, q, Tail(t), w)
         /\ Head(t) # NoCall => Ordered(m, r, Append(q, Head(t)), Tail(t), w)
<1> DEFINE u == Append(q, Head(t))
           v == Tail(t)
<1>1. /\ Head(t) = t[1] /\ 1 \in DOMAIN t /\ Head(t) \in Ids
      /\ \A i \in DOMAIN v : i + 1 \in DOMAIN t /\ i \in Nat /\ 1 < i + 1 /\ v[i] = t[i + 1]
  <2>1. \A i \in DOMAIN v : i + 1 \in DOMAIN t /\ i \in 1 .. Len(t) - 1 /\ Len(t) \in Nat /\ v[i] = t[i + 1]
    BY Shortened
  <2>. QED
    BY <2>1, Shortened
<1>2. /\ DOMAIN q = 1 .. Len(q) /\ Len(q) \in Nat /\ DOMAIN u = 1 .. Len(q) + 1
      /\ \A i \in DOMAIN q : u[i] = q[i]
      /\ u[Len(q) + 1] = t[1]
  BY <1>1, Appended
<1> HIDE DEF u, v
<1>3. /\ Sorted(m, v) /\ Precedes(m, q, v) /\ Precedes(m, v, w) /\ (r # NoCall => First(m, r, v))
  BY <1>1 DEF Ordered, Sorted, Precedes, First
<1>4. Ordered(m, r, q, v, w)
  BY <1>3 DEF Ordered
<1>5. ASSUME Head(t) # NoCall PROVE Ordered(m, r, u, v, w)
  <2>1. Sorted(m, u) /\ Precedes(m, u, w) /\ (r # NoCall => First(m, r, u))
    BY <1>1, <1>2, <1>5 DEF Ordered, Sorted, Precedes, First
  <2>2. Precedes(m, u, v)
    BY <1>1, <1>2, <1>5 DEF Ordered, Sorted, Precedes
  <2>. QED
    BY <1>3, <2>1, <2>2 DEF Ordered
<1>. QED
  BY <1>4, <1>5 DEF u, v

\* The first request of the chain begins, or is answered at once.
LEMMA OrderBegun ==
  ASSUME NEW m, NEW r, NEW q \in Seq(Ids), NEW t, NEW w, q # <<>>, Ordered(m, r, q, t, w)
  PROVE  /\ Ordered(m, r, Tail(q), t, w)
         /\ Head(q) # NoCall => Ordered(m, Head(q), Tail(q), t, w)
<1> DEFINE v == Tail(q)
<1>1. /\ Head(q) = q[1] /\ 1 \in DOMAIN q
      /\ \A i \in DOMAIN v : i + 1 \in DOMAIN q /\ i \in Nat /\ 1 < i + 1 /\ v[i] = q[i + 1]
  <2>1. \A i \in DOMAIN v : i + 1 \in DOMAIN q /\ i \in 1 .. Len(q) - 1 /\ Len(q) \in Nat /\ v[i] = q[i + 1]
    BY Shortened
  <2>. QED
    BY <2>1, Shortened
<1> HIDE DEF v
<1>2. /\ Sorted(m, v) /\ Precedes(m, v, t) /\ Precedes(m, v, w) /\ (r # NoCall => First(m, r, v))
  BY <1>1 DEF Ordered, Sorted, Precedes, First
<1>3. ASSUME Head(q) # NoCall PROVE First(m, Head(q), v) /\ First(m, Head(q), t) /\ First(m, Head(q), w)
  BY <1>1, <1>3 DEF Ordered, Sorted, Precedes, First
<1>. QED
  BY <1>2, <1>3 DEF Ordered, v

-----------------------------------------------------------------------------
(* Cancels on their way to the Worker.                                     *)

\* A cancel is posted, or lost because the Worker is gone.
LEMMA QueueCancelled ==
  ASSUME NEW t \in Seq(MessageType), NEW a \in Nat, NEW b \in Nat, a <= b, Queue(t, a, b)
  PROVE  /\ CancelMessage(b + 1) \in MessageType
         /\ Queue(Append(t, CancelMessage(b + 1)), a, b + 1)
         /\ Heard(Append(t, CancelMessage(b + 1)), a, b + 1)
         /\ Queue(t, a, b + 1)
<1> DEFINE m == CancelMessage(b + 1)
           u == Append(t, m)
<1>1. m \in MessageType /\ m.op = "cancel" /\ m.epoch = b + 1
  BY DEF MessageType, CancelMessage, Ids
<1>2. /\ Len(t) \in Nat /\ DOMAIN t = 1 .. Len(t) /\ DOMAIN u = 1 .. Len(t) + 1
      /\ \A i \in DOMAIN t : u[i] = t[i] /\ t[i].epoch \in Nat
      /\ u[Len(t) + 1] = m
  <2>1. \A i \in 1 .. Len(t) : t[i] \in MessageType
    BY ElementOfSeq
  <2>. QED
    BY <1>1, <2>1, Appended DEF MessageType
<1> HIDE DEF m, u
<1>3. Queue(t, a, b + 1)
  BY <1>2 DEF Queue
<1>4. Queue(u, a, b + 1)
  <2>1. \A i \in DOMAIN u : u[i].op = "cancel" => a < u[i].epoch /\ u[i].epoch <= b + 1
    BY <1>1, <1>2 DEF Queue
  <2>2. \A i, j \in DOMAIN u :
          i < j /\ u[i].op = "cancel" /\ u[j].op = "cancel" => u[i].epoch < u[j].epoch
    BY <1>1, <1>2 DEF Queue
  <2>3. \A i \in DOMAIN u : u[i].op = "call" =>
          u[i].epoch <= a \/ \E j \in DOMAIN u : j < i /\ u[j].op = "cancel" /\ u[i].epoch <= u[j].epoch
    BY <1>1, <1>2 DEF Queue
  <2>. QED
    BY <2>1, <2>2, <2>3 DEF Queue
<1>5. Heard(u, a, b + 1)
  BY <1>1, <1>2 DEF Heard
<1>. QED
  BY <1>1, <1>3, <1>4, <1>5 DEF m, u

\* A request is posted after every cancel made before its call.
LEMMA QueuePosted ==
  ASSUME NEW t \in Seq(MessageType), NEW a \in Nat, NEW b \in Nat, Queue(t, a, b), Heard(t, a, b),
         NEW m \in MessageType, m.op = "call", m.epoch <= b
  PROVE  Queue(Append(t, m), a, b) /\ Heard(Append(t, m), a, b)
<1> DEFINE u == Append(t, m)
<1>1. /\ Len(t) \in Nat /\ DOMAIN t = 1 .. Len(t) /\ DOMAIN u = 1 .. Len(t) + 1
      /\ \A i \in DOMAIN t : u[i] = t[i]
      /\ u[Len(t) + 1] = m
  BY Appended
<1> HIDE DEF u
<1>2. Heard(u, a, b)
  BY <1>1 DEF Heard
<1>3. m.epoch <= a \/ \E j \in DOMAIN u : j < Len(t) + 1 /\ u[j].op = "cancel" /\ m.epoch <= u[j].epoch
  BY <1>1 DEF Heard
<1>4. Queue(u, a, b)
  BY <1>1, <1>3 DEF Queue
<1>. QED
  BY <1>2, <1>4 DEF u

\* What the Worker handles first: a cancel that is news, or a request whose cancels it knows.
LEMMA QueueHandled ==
  ASSUME NEW t \in Seq(MessageType), t # <<>>, NEW a \in Nat, NEW b \in Nat, Queue(t, a, b), Heard(t, a, b)
  PROVE  /\ Head(t).op = "cancel" =>
              /\ a < Head(t).epoch /\ Head(t).epoch <= b
              /\ Queue(Tail(t), Head(t).epoch, b) /\ Heard(Tail(t), Head(t).epoch, b)
         /\ Head(t).op = "call" =>
              /\ Head(t).epoch <= a /\ Queue(Tail(t), a, b) /\ Heard(Tail(t), a, b)
<1> DEFINE v == Tail(t)
           h == Head(t)
<1>1. /\ h = t[1] /\ h \in MessageType /\ Len(t) \in Nat /\ Len(t) > 0 /\ DOMAIN t = 1 .. Len(t)
      /\ DOMAIN v = 1 .. Len(t) - 1
      /\ \A i \in DOMAIN v : i + 1 \in DOMAIN t /\ i \in Nat /\ v[i] = t[i + 1]
  BY Shortened
<1>2. \A i \in DOMAIN t : t[i].epoch \in Nat
  <2>1. \A i \in 1 .. Len(t) : t[i] \in MessageType
    BY ElementOfSeq
  <2>. QED
    BY <1>1, <2>1 DEF MessageType
<1> HIDE DEF v, h
<1>3. \A i \in DOMAIN t : i = 1 \/ (i - 1 \in DOMAIN v /\ t[i] = v[i - 1])
  BY <1>1
<1>4. CASE h.op = "cancel"
  <2>1. a < h.epoch /\ h.epoch <= b /\ h.epoch \in Nat
    BY <1>1, <1>2, <1>4 DEF Queue
  <2>2. Heard(v, h.epoch, b)
    <3>1. PICK j \in DOMAIN t : t[j].op = "cancel" /\ t[j].epoch = b
      BY <2>1 DEF Heard
    <3>2. j = 1 \/ (j - 1 \in DOMAIN v /\ t[j] = v[j - 1])
      BY <1>3
    <3>. QED
      BY <1>1, <3>1, <3>2 DEF Heard
  <2>3. \A i \in DOMAIN v : v[i].op = "cancel" => h.epoch < v[i].epoch /\ v[i].epoch <= b
    BY <1>1, <1>4 DEF Queue
  <2>4. ASSUME NEW i \in DOMAIN v, v[i].op = "call"
        PROVE  v[i].epoch <= h.epoch
               \/ \E j \in DOMAIN v : j < i /\ v[j].op = "cancel" /\ v[i].epoch <= v[j].epoch
    <3>1. \/ t[i + 1].epoch <= a
          \/ \E j \in DOMAIN t : j < i + 1 /\ t[j].op = "cancel" /\ t[i + 1].epoch <= t[j].epoch
      BY <1>1, <2>4 DEF Queue
    <3>2. CASE t[i + 1].epoch <= a
      BY <1>1, <1>2, <2>1, <3>2
    <3>3. ASSUME NEW j \in DOMAIN t, j < i + 1, t[j].op = "cancel", t[i + 1].epoch <= t[j].epoch
          PROVE  v[i].epoch <= h.epoch
                 \/ \E k \in DOMAIN v : k < i /\ v[k].op = "cancel" /\ v[i].epoch <= v[k].epoch
      <4>1. CASE j = 1
        BY <1>1, <3>3, <4>1
      <4>2. CASE j # 1
        <5>1. j - 1 \in DOMAIN v /\ j - 1 < i /\ v[j - 1] = t[j]
          BY <1>1, <1>3, <3>3, <4>2
        <5>. QED
          BY <1>1, <3>3, <5>1
      <4>. QED
        BY <4>1, <4>2
    <3>. QED
      BY <3>1, <3>2, <3>3
  <2>5. Queue(v, h.epoch, b)
    BY <1>1, <2>3, <2>4 DEF Queue
  <2>. QED
    BY <1>4, <2>1, <2>2, <2>5 DEF v, h
<1>5. CASE h.op = "call"
  <2>1. h.epoch <= a
    BY <1>1, <1>2, <1>5 DEF Queue
  <2>2. Heard(v, a, b)
    BY <1>1, <1>3, <1>5 DEF Heard
  <2>3. ASSUME NEW i \in DOMAIN v, v[i].op = "call"
        PROVE  v[i].epoch <= a
               \/ \E j \in DOMAIN v : j < i /\ v[j].op = "cancel" /\ v[i].epoch <= v[j].epoch
    <3>1. \/ t[i + 1].epoch <= a
          \/ \E j \in DOMAIN t : j < i + 1 /\ t[j].op = "cancel" /\ t[i + 1].epoch <= t[j].epoch
      BY <1>1, <2>3 DEF Queue
    <3>2. ASSUME NEW j \in DOMAIN t, j < i + 1, t[j].op = "cancel", t[i + 1].epoch <= t[j].epoch
          PROVE  \E k \in DOMAIN v : k < i /\ v[k].op = "cancel" /\ v[i].epoch <= v[k].epoch
      <4>1. j - 1 \in DOMAIN v /\ j - 1 < i /\ v[j - 1] = t[j]
        BY <1>1, <1>3, <1>5, <3>2
      <4>. QED
        BY <1>1, <3>2, <4>1
    <3>. QED
      BY <1>1, <3>1, <3>2
  <2>4. Queue(v, a, b)
    <3>1. \A i \in DOMAIN v : v[i].op = "cancel" => a < v[i].epoch /\ v[i].epoch <= b
      BY <1>1 DEF Queue
    <3>2. \A i, j \in DOMAIN v :
            i < j /\ v[i].op = "cancel" /\ v[j].op = "cancel" => v[i].epoch < v[j].epoch
      BY <1>1 DEF Queue
    <3>. QED
      BY <2>3, <3>1, <3>2 DEF Queue
  <2>. QED
    BY <1>5, <2>1, <2>2, <2>4 DEF v, h
<1>. QED
  BY <1>1, <1>4, <1>5 DEF MessageType, h

\* A Worker that was terminated gets nothing more.
LEMMA QueueEmpty ==
  ASSUME NEW a, NEW b PROVE Queue(<<>>, a, b)
BY DEF Queue

-----------------------------------------------------------------------------
(* Steps that leave parts of the invariant alone.                          *)

\* No call is taken back, or has its epoch changed.
Grown ==
  /\ call' \in [Calls -> CallType] /\ epoch' \in Nat /\ epoch <= epoch'
  /\ \A c \in Calls :
       call[c].pc # "unborn" => call'[c].pc # "unborn" /\ call'[c].born = call[c].born

\* What was known of a call stays known.
LEMMA GrownKnows ==
  ASSUME ProtocolInv, Grown
  PROVE  /\ \A c : Known(call, c) =>
              /\ Known(call', c) /\ call'[c].born = call[c].born
              /\ Honest(call, epoch, c) => Honest(call', epoch', c)
         /\ \A m : Bears(call, m) => Bears(call', m)
<1>1. ASSUME NEW c, Known(call, c)
      PROVE  /\ Known(call', c) /\ call'[c].born = call[c].born
             /\ Honest(call, epoch, c) => Honest(call', epoch', c)
  <2>1. c \in Calls /\ call[c] \in CallType /\ epoch \in Nat
    BY <1>1 DEF Known, ProtocolInv, ProtocolType
  <2>2. call[c].born \in Nat
    BY <2>1 DEF CallType
  <2>. QED
    BY <1>1, <2>1, <2>2 DEF Known, Honest, Grown
<1>. QED
  BY <1>1 DEF Bears

\* The request that runs is not touched.
LEMMA RunKeeps ==
  ASSUME ProtocolInv, Grown, UNCHANGED <<run, activeEpoch>>
  PROVE  RunInv'
<1>1. run.id # NoCall => Known(call', run.id) /\ call'[run.id].born = call[run.id].born
      /\ (Honest(call, epoch, run.id) => Honest(call', epoch', run.id))
  BY GrownKnows DEF ProtocolInv, RunInv
<1>. QED
  BY <1>1 DEF ProtocolInv, RunInv, Honest

\* The window's own steps say nothing new of the Worker.
LEMMA AnswerKeeps ==
  ASSUME ProtocolInv, Grown, UNCHANGED <<toWindow, inited>>, closed => closed',
         \A c \in Calls : /\ call'[c].pc = "cancelled" => call[c].pc = "cancelled"
                          /\ call'[c].pc = "pending" => ~closed'
  PROVE  AnswerInv'
<1>1. \A n : Doomed(closed, toWindow, n) => Doomed(closed', toWindow, n)
  BY DEF Doomed
<1>2. \A c \in Calls : call'[c].pc = "cancelled" => Honest(call', epoch', c)
  BY GrownKnows DEF ProtocolInv, AnswerInv, Known
<1>3. ASSUME NEW i \in DOMAIN toWindow, toWindow[i].type = "reply"
      PROVE  /\ Known(call', toWindow[i].id) /\ toWindow[i].result \in Outcomes
             /\ toWindow[i].result = "cancelled" =>
                  Honest(call', epoch', toWindow[i].id) \/ Doomed(closed', toWindow, i)
  BY <1>1, <1>3, GrownKnows DEF ProtocolInv, AnswerInv
<1>. QED
  BY <1>1, <1>2, <1>3 DEF ProtocolInv, AnswerInv

\* The Worker's steps leave the calls alone.
LEMMA StillGrown ==
  ASSUME ProtocolInv, UNCHANGED <<epoch, call>> PROVE Grown
BY DEF Grown, ProtocolInv, ProtocolType

-----------------------------------------------------------------------------
(* The window.                                                             *)

\* Whatever is under way was made.
LEMMA UnderWay ==
  ASSUME ProtocolInv
  PROVE  \A x \in {run.id} \cup {Names(chain)[i] : i \in DOMAIN Names(chain)}
                  \cup {Names(toWorker)[i] : i \in DOMAIN Names(toWorker)}
                  \cup {waiting[i] : i \in DOMAIN waiting} :
           x # NoCall => \E k \in DOMAIN made : made[k] = x
<1>1. \A x : Known(call, x) => \E k \in DOMAIN made : made[k] = x
  BY DEF ProtocolInv, MadeInv, Known
<1>2. run.id # NoCall => Known(call, run.id)
  BY DEF ProtocolInv, RunInv
<1>3. \A i \in DOMAIN waiting : Known(call, waiting[i])
  BY DEF ProtocolInv, BornInv
<1>4. \A i \in DOMAIN Names(chain) : Known(call, Names(chain)[i])
  BY DEF ProtocolInv, BornInv, Names, Bears
<1>5. \A i \in DOMAIN Names(toWorker) : Names(toWorker)[i] # NoCall => Known(call, Names(toWorker)[i])
  BY DEF ProtocolInv, BornInv, Names, Bears
<1>. QED
  BY <1>1, <1>2, <1>3, <1>4, <1>5

\* A call that is made.
LEMMA MadeParts ==
  ASSUME ProtocolInv, NEW c \in Calls, call[c].pc = "unborn", NEW closing \in BOOLEAN,
         epoch' \in Nat, epoch <= epoch', Made(c, closing)
  PROVE  /\ Grown /\ made' \in Seq(Calls) /\ waiting' \in Seq(Calls) /\ MadeInv'
         /\ Ordered(made', run.id, Names(chain), Names(toWorker), waiting')
         /\ \A i \in DOMAIN waiting' : Known(call', waiting'[i])
         /\ \A d \in Calls : /\ call'[d].born <= epoch'
                             /\ call'[d].pc \in {"cancelled", "pending"} => call'[d] = call[d]
<1> DEFINE l == [pc |-> "waiting", born |-> epoch', closing |-> closing]
<1>1. /\ call' = [call EXCEPT ![c] = l] /\ made' = Append(made, c) /\ waiting' = Append(waiting, c)
  BY DEF Made
<1>2. l \in CallType /\ l.pc = "waiting" /\ l.born = epoch'
  BY DEF CallType
<1> HIDE DEF l
<1>3. call \in [Calls -> CallType] /\ made \in Seq(Calls) /\ waiting \in Seq(Calls) /\ epoch \in Nat
  BY DEF ProtocolInv, ProtocolType
<1>4. /\ call' \in [Calls -> CallType] /\ call'[c] = l
      /\ \A d \in Calls : d # c => call'[d] = call[d]
  BY <1>1, <1>2, <1>3
<1>5. Grown
  BY <1>2, <1>4 DEF Grown
<1>6. /\ made' \in Seq(Calls) /\ DOMAIN made = 1 .. Len(made) /\ Len(made) \in Nat
      /\ DOMAIN made' = 1 .. Len(made) + 1 /\ \A i \in DOMAIN made : made'[i] = made[i]
      /\ made'[Len(made) + 1] = c
  BY <1>1, <1>3, Appended
<1>7. /\ waiting' \in Seq(Calls) /\ DOMAIN waiting = 1 .. Len(waiting) /\ Len(waiting) \in Nat
      /\ DOMAIN waiting' = 1 .. Len(waiting) + 1 /\ \A i \in DOMAIN waiting : waiting'[i] = waiting[i]
      /\ waiting'[Len(waiting) + 1] = c
  BY <1>1, <1>3, Appended
<1>8. MadeInv'
  <2>1. \A i \in DOMAIN made : made[i] # c
    BY DEF ProtocolInv, MadeInv
  <2>2. Once(made')
    BY <1>6, <2>1 DEF ProtocolInv, MadeInv, Once
  <2>3. \A d \in Calls : call'[d].pc # "unborn" <=> \E i \in DOMAIN made' : made'[i] = d
    <3> SUFFICES ASSUME NEW d \in Calls
                 PROVE  call'[d].pc # "unborn" <=> \E i \in DOMAIN made' : made'[i] = d
      OBVIOUS
    <3>1. CASE d = c
      BY <1>2, <1>4, <1>6, <3>1
    <3>2. CASE d # c
      <4>1. call[d].pc # "unborn" <=> \E i \in DOMAIN made : made[i] = d
        BY DEF ProtocolInv, MadeInv
      <4>2. \A i \in DOMAIN made' : made'[i] = d <=> i \in DOMAIN made /\ made[i] = d
        BY <1>6, <3>2
      <4>3. DOMAIN made \subseteq DOMAIN made'
        BY <1>6
      <4>. QED
        BY <1>4, <3>2, <4>1, <4>2, <4>3
    <3>. QED
      BY <3>1, <3>2
  <2>. QED
    BY <2>2, <2>3 DEF MadeInv
<1>9. Ordered(made', run.id, Names(chain), Names(toWorker), waiting')
  BY <1>1, <1>3, UnderWay, OrderMade DEF ProtocolInv, OrderInv
<1>10. \A i \in DOMAIN waiting' : Known(call', waiting'[i])
  <2>1. Known(call', c)
    BY <1>2, <1>4 DEF Known
  <2>2. \A i \in DOMAIN waiting : Known(call', waiting[i])
    BY <1>5, GrownKnows DEF ProtocolInv, BornInv
  <2>. QED
    BY <1>7, <2>1, <2>2
<1>11. \A d \in Calls : /\ call'[d].born <= epoch'
                        /\ call'[d].pc \in {"cancelled", "pending"} => call'[d] = call[d]
  <2> SUFFICES ASSUME NEW d \in Calls
               PROVE  /\ call'[d].born <= epoch'
                      /\ call'[d].pc \in {"cancelled", "pending"} => call'[d] = call[d]
    OBVIOUS
  <2>1. call[d].born <= epoch /\ call[d].born \in Nat
    BY <1>3 DEF ProtocolInv, BornInv, CallType
  <2>. QED
    BY <1>2, <1>3, <1>4, <2>1
<1>. QED
  BY <1>5, <1>6, <1>7, <1>8, <1>9, <1>10, <1>11

\* call: the epoch of the call is the window's at that moment.
LEMMA CallKeeps ==
  ASSUME ProtocolInv, NEW c \in Calls, Call(c) PROVE ProtocolInv'
<1>1. /\ call[c].pc = "unborn" /\ epoch' = epoch /\ Made(c, FALSE)
      /\ UNCHANGED <<shared, ready, closed, toWorker, toWindow, inited, cancelEpoch, activeEpoch,
                     chain, run, alive>>
  BY DEF Call, workerVars
<1>2. epoch' \in Nat /\ epoch <= epoch'
  BY <1>1 DEF ProtocolInv, ProtocolType
<1>3. /\ Grown /\ made' \in Seq(Calls) /\ waiting' \in Seq(Calls) /\ MadeInv'
      /\ Ordered(made', run.id, Names(chain), Names(toWorker), waiting')
      /\ \A i \in DOMAIN waiting' : Known(call', waiting'[i])
      /\ \A d \in Calls : /\ call'[d].born <= epoch'
                          /\ call'[d].pc \in {"cancelled", "pending"} => call'[d] = call[d]
  BY <1>1, <1>2, MadeParts
<1>4. ProtocolType'
  BY <1>1, <1>2, <1>3 DEF ProtocolInv, ProtocolType, Grown
<1>5. OrderInv'
  BY <1>1, <1>3 DEF OrderInv, Names
<1>6. BornInv'
  <2>1. \A m : Bears(call, m) => Bears(call', m)
    BY <1>3, GrownKnows
  <2>. QED
    BY <1>1, <1>3, <2>1 DEF ProtocolInv, BornInv
<1>7. EpochInv'
  BY <1>1 DEF ProtocolInv, EpochInv
<1>8. RunInv' /\ AnswerInv'
  <2>1. \A d \in Calls : call[d].pc = "pending" => ~closed
    BY DEF ProtocolInv, AnswerInv
  <2>. QED
    BY <1>1, <1>3, <2>1, RunKeeps, AnswerKeeps
<1>. QED
  BY <1>3, <1>4, <1>5, <1>6, <1>7, <1>8 DEF ProtocolInv

\* A cancel, heard of or not by a Worker that lives or not.
LEMMA CancelParts ==
  ASSUME ProtocolInv, epoch' = epoch + 1, ToWorker(CancelMessage(epoch')),
         UNCHANGED <<alive, cancelEpoch>>
  PROVE  /\ epoch' \in Nat /\ epoch <= epoch' /\ cancelEpoch <= epoch' /\ toWorker' \in Seq(MessageType)
         /\ Queue(toWorker', cancelEpoch, epoch') /\ (alive' => Heard(toWorker', cancelEpoch, epoch'))
         /\ \A m, w : Ordered(m, run.id, Names(chain), Names(toWorker), w) =>
                        Ordered(m, run.id, Names(chain), Names(toWorker'), w)
         /\ \A i \in DOMAIN toWorker' :
              \/ toWorker'[i].op = "cancel" /\ toWorker'[i].id = NoCall
              \/ i \in DOMAIN toWorker /\ toWorker'[i] = toWorker[i]
<1> DEFINE m == CancelMessage(epoch + 1)
<1>1. /\ epoch \in Nat /\ toWorker \in Seq(MessageType) /\ cancelEpoch \in Nat /\ cancelEpoch <= epoch
      /\ Queue(toWorker, cancelEpoch, epoch)
  BY DEF ProtocolInv, ProtocolType, EpochInv
<1>2. /\ m \in MessageType /\ m.op = "cancel" /\ m.id = NoCall
      /\ Queue(Append(toWorker, m), cancelEpoch, epoch + 1)
      /\ Heard(Append(toWorker, m), cancelEpoch, epoch + 1)
      /\ Queue(toWorker, cancelEpoch, epoch + 1)
  BY <1>1, QueueCancelled DEF CancelMessage
<1>3. toWorker' = IF alive THEN Append(toWorker, m) ELSE toWorker
  BY DEF ToWorker
<1> HIDE DEF m
<1>4. /\ epoch' \in Nat /\ epoch <= epoch' /\ cancelEpoch <= epoch'
  BY <1>1
<1>5. CASE alive
  <2>1. toWorker' = Append(toWorker, m)
    BY <1>3, <1>5
  <2>2. /\ toWorker' \in Seq(MessageType) /\ DOMAIN toWorker = 1 .. Len(toWorker) /\ Len(toWorker) \in Nat
        /\ DOMAIN toWorker' = 1 .. Len(toWorker) + 1
        /\ \A i \in DOMAIN toWorker : toWorker'[i] = toWorker[i]
        /\ toWorker'[Len(toWorker) + 1] = m
    BY <1>1, <1>2, <2>1, Appended
  <2>3. \A i \in DOMAIN toWorker' :
          \/ toWorker'[i].op = "cancel" /\ toWorker'[i].id = NoCall
          \/ i \in DOMAIN toWorker /\ toWorker'[i] = toWorker[i]
    BY <1>2, <2>2
  <2>4. Names(toWorker') = Append(Names(toWorker), NoCall) /\ Names(toWorker) \in Seq(Ids)
    BY <1>1, <1>2, <2>1, NamesOfAppend, NamesAre
  <2>5. \A n, w : Ordered(n, run.id, Names(chain), Names(toWorker), w) =>
                    Ordered(n, run.id, Names(chain), Names(toWorker'), w)
    BY <2>4, OrderCancelled
  <2>. QED
    BY <1>2, <1>4, <2>1, <2>2, <2>3, <2>5
<1>6. CASE ~alive
  BY <1>1, <1>2, <1>3, <1>4, <1>6
<1>. QED
  BY <1>5, <1>6

\* cancel.
LEMMA CancelKeeps ==
  ASSUME ProtocolInv, Cancel PROVE ProtocolInv'
<1>1. /\ epoch' = epoch + 1 /\ ToWorker(CancelMessage(epoch'))
      /\ UNCHANGED <<shared, ready, closed, call, made, waiting, toWindow, inited, cancelEpoch, activeEpoch,
                     chain, run, alive>>
  BY DEF Cancel, workerVars
<1>2. /\ epoch' \in Nat /\ epoch <= epoch' /\ cancelEpoch <= epoch' /\ toWorker' \in Seq(MessageType)
      /\ Queue(toWorker', cancelEpoch, epoch') /\ (alive' => Heard(toWorker', cancelEpoch, epoch'))
      /\ \A m, w : Ordered(m, run.id, Names(chain), Names(toWorker), w) =>
                     Ordered(m, run.id, Names(chain), Names(toWorker'), w)
      /\ \A i \in DOMAIN toWorker' :
           \/ toWorker'[i].op = "cancel" /\ toWorker'[i].id = NoCall
           \/ i \in DOMAIN toWorker /\ toWorker'[i] = toWorker[i]
  BY <1>1, CancelParts
<1>3. Grown
  BY <1>1, <1>2 DEF Grown, ProtocolInv, ProtocolType
<1>4. ProtocolType'
  BY <1>1, <1>2 DEF ProtocolInv, ProtocolType
<1>5. MadeInv' /\ OrderInv'
  BY <1>1, <1>2 DEF ProtocolInv, MadeInv, OrderInv, Names
<1>6. BornInv'
  <2>1. \A m : Bears(call, m) => Bears(call', m)
    BY <1>3, GrownKnows
  <2>2. \A d \in Calls : call[d].born \in Nat /\ epoch \in Nat /\ call[d].born <= epoch
    BY DEF ProtocolInv, ProtocolType, BornInv, CallType
  <2>3. \A d \in Calls : call'[d].born <= epoch'
    BY <1>1, <2>2
  <2>4. \A i \in DOMAIN waiting' : Known(call', waiting'[i])
    BY <1>1 DEF ProtocolInv, BornInv, Known
  <2>5. \A i \in DOMAIN toWorker' :
          Bears(call', toWorker'[i]) \/ (toWorker'[i].op = "cancel" /\ toWorker'[i].id = NoCall)
    BY <1>2, <2>1 DEF ProtocolInv, BornInv
  <2>. QED
    BY <1>1, <2>1, <2>3, <2>4, <2>5 DEF ProtocolInv, BornInv
<1>7. EpochInv'
  BY <1>1, <1>2 DEF ProtocolInv, EpochInv
<1>8. RunInv' /\ AnswerInv'
  <2>1. \A d \in Calls : call[d].pc = "pending" => ~closed
    BY DEF ProtocolInv, AnswerInv
  <2>. QED
    BY <1>1, <1>3, <2>1, RunKeeps, AnswerKeeps
<1>. QED
  BY <1>4, <1>5, <1>6, <1>7, <1>8 DEF ProtocolInv

\* close: a cancel, and a call made after it.
LEMMA CloseKeeps ==
  ASSUME ProtocolInv, NEW c \in Calls, Close(c) PROVE ProtocolInv'
<1>1. /\ call[c].pc = "unborn" /\ epoch' = epoch + 1 /\ Made(c, TRUE)
      /\ ToWorker(CancelMessage(epoch'))
      /\ UNCHANGED <<shared, ready, closed, toWindow, inited, cancelEpoch, activeEpoch, chain, run, alive>>
  BY DEF Close, workerVars
<1>2. /\ epoch' \in Nat /\ epoch <= epoch' /\ cancelEpoch <= epoch' /\ toWorker' \in Seq(MessageType)
      /\ Queue(toWorker', cancelEpoch, epoch') /\ (alive' => Heard(toWorker', cancelEpoch, epoch'))
      /\ \A m, w : Ordered(m, run.id, Names(chain), Names(toWorker), w) =>
                     Ordered(m, run.id, Names(chain), Names(toWorker'), w)
      /\ \A i \in DOMAIN toWorker' :
           \/ toWorker'[i].op = "cancel" /\ toWorker'[i].id = NoCall
           \/ i \in DOMAIN toWorker /\ toWorker'[i] = toWorker[i]
  BY <1>1, CancelParts
<1>3. /\ Grown /\ made' \in Seq(Calls) /\ waiting' \in Seq(Calls) /\ MadeInv'
      /\ Ordered(made', run.id, Names(chain), Names(toWorker), waiting')
      /\ \A i \in DOMAIN waiting' : Known(call', waiting'[i])
      /\ \A d \in Calls : /\ call'[d].born <= epoch'
                          /\ call'[d].pc \in {"cancelled", "pending"} => call'[d] = call[d]
  BY <1>1, <1>2, MadeParts
<1>4. ProtocolType'
  BY <1>1, <1>2, <1>3 DEF ProtocolInv, ProtocolType, Grown
<1>5. OrderInv'
  BY <1>1, <1>2, <1>3 DEF OrderInv, Names
<1>6. BornInv'
  <2>1. \A m : Bears(call, m) => Bears(call', m)
    BY <1>3, GrownKnows
  <2>2. \A i \in DOMAIN toWorker' :
          Bears(call', toWorker'[i]) \/ (toWorker'[i].op = "cancel" /\ toWorker'[i].id = NoCall)
    BY <1>2, <2>1 DEF ProtocolInv, BornInv
  <2>. QED
    BY <1>1, <1>3, <2>1, <2>2 DEF ProtocolInv, BornInv
<1>7. EpochInv'
  BY <1>1, <1>2 DEF ProtocolInv, EpochInv
<1>8. RunInv' /\ AnswerInv'
  <2>1. \A d \in Calls : call[d].pc = "pending" => ~closed
    BY DEF ProtocolInv, AnswerInv
  <2>. QED
    BY <1>1, <1>3, <2>1, RunKeeps, AnswerKeeps
<1>. QED
  BY <1>3, <1>4, <1>5, <1>6, <1>7, <1>8 DEF ProtocolInv

\* The first call that waits leaves, as x.
LEMMA LeaveParts ==
  ASSUME ProtocolInv, waiting # <<>>, NEW x \in {"pending", "error"}, x = "pending" => ~closed,
         call' = [call EXCEPT ![Head(waiting)].pc = x], waiting' = Tail(waiting),
         UNCHANGED <<epoch, made, closed>>
  PROVE  /\ Grown /\ Known(call, Head(waiting)) /\ waiting' \in Seq(Calls) /\ MadeInv'
         /\ \A i \in DOMAIN waiting' : Known(call', waiting'[i])
         /\ \A d \in Calls : /\ call'[d].born <= epoch
                             /\ call'[d].pc = "cancelled" => call[d].pc = "cancelled"
                             /\ call'[d].pc = "pending" => ~closed
<1> DEFINE c == Head(waiting)
           l == [call[c] EXCEPT !.pc = x]
<1>1. call \in [Calls -> CallType] /\ waiting \in Seq(Calls) /\ epoch \in Nat
  BY DEF ProtocolInv, ProtocolType
<1>2. /\ c \in Calls /\ c = waiting[1] /\ 1 \in DOMAIN waiting /\ waiting' \in Seq(Calls)
      /\ \A i \in DOMAIN waiting' : i + 1 \in DOMAIN waiting /\ waiting'[i] = waiting[i + 1]
  BY <1>1, Shortened
<1>3. Known(call, c)
  BY <1>2 DEF ProtocolInv, BornInv
<1>4. call[c] \in CallType /\ l \in CallType /\ l.pc = x /\ l.born = call[c].born
  BY <1>1, <1>2 DEF CallType, Outcomes
<1>5. call' = [call EXCEPT ![c] = l]
  BY <1>1, <1>2
<1> HIDE DEF l, c
<1>6. /\ call' \in [Calls -> CallType] /\ call'[c] = l
      /\ \A d \in Calls : d # c => call'[d] = call[d]
  BY <1>1, <1>2, <1>4, <1>5
<1>7. Grown
  BY <1>1, <1>4, <1>6 DEF Grown
<1>8. MadeInv'
  <2>1. \A d \in Calls : call'[d].pc # "unborn" <=> call[d].pc # "unborn"
    BY <1>3, <1>4, <1>6 DEF Known
  <2>. QED
    BY <2>1 DEF ProtocolInv, MadeInv
<1>9. \A i \in DOMAIN waiting' : Known(call', waiting'[i])
  BY <1>2, <1>7, GrownKnows DEF ProtocolInv, BornInv
<1>10. \A d \in Calls : /\ call'[d].born <= epoch
                        /\ call'[d].pc = "cancelled" => call[d].pc = "cancelled"
                        /\ call'[d].pc = "pending" => ~closed
  BY <1>4, <1>6 DEF ProtocolInv, BornInv, AnswerInv
<1>. QED
  BY <1>2, <1>3, <1>7, <1>8, <1>9, <1>10 DEF c

\* The request cannot be posted, or the client has failed or closed.
LEMMA DroppedKeeps ==
  ASSUME ProtocolInv, NoCall \notin Calls, PostThrows \/ Refused PROVE ProtocolInv'
<1>1. /\ waiting # <<>> /\ call' = [call EXCEPT ![Head(waiting)].pc = "error"] /\ waiting' = Tail(waiting)
      /\ UNCHANGED <<shared, epoch, ready, closed, made, toWorker, toWindow, inited, cancelEpoch, activeEpoch,
                     chain, run, alive>>
  BY DEF PostThrows, Refused, workerVars
<1>2. /\ Grown /\ waiting' \in Seq(Calls) /\ MadeInv'
      /\ \A i \in DOMAIN waiting' : Known(call', waiting'[i])
      /\ \A d \in Calls : /\ call'[d].born <= epoch
                          /\ call'[d].pc = "cancelled" => call[d].pc = "cancelled"
                          /\ call'[d].pc = "pending" => ~closed
  BY <1>1, LeaveParts
<1>3. ProtocolType'
  BY <1>1, <1>2 DEF ProtocolInv, ProtocolType, Grown
<1>4. OrderInv'
  <2>1. waiting \in Seq(Calls) /\ toWorker \in Seq(MessageType)
    BY DEF ProtocolInv, ProtocolType
  <2>2. Ordered(made, run.id, Names(chain), Names(toWorker), Tail(waiting))
    BY <1>1, <2>1, NamesAre, OrderPosted DEF ProtocolInv, OrderInv
  <2>. QED
    BY <1>1, <2>2 DEF OrderInv, Names
<1>5. BornInv'
  <2>1. \A m : Bears(call, m) => Bears(call', m)
    BY <1>2, GrownKnows
  <2>. QED
    BY <1>1, <1>2, <2>1 DEF ProtocolInv, BornInv
<1>6. EpochInv'
  BY <1>1 DEF ProtocolInv, EpochInv
<1>7. RunInv' /\ AnswerInv'
  BY <1>1, <1>2, RunKeeps, AnswerKeeps
<1>. QED
  BY <1>2, <1>3, <1>4, <1>5, <1>6, <1>7 DEF ProtocolInv

\* The request is posted with the epoch of its call.
LEMMA PostKeeps ==
  ASSUME ProtocolInv, NoCall \notin Calls, Post PROVE ProtocolInv'
<1> DEFINE c == Head(waiting)
           m == [op |-> "call", id |-> c, epoch |-> call[c].born]
<1>1. /\ waiting # <<>> /\ ~closed /\ call' = [call EXCEPT ![c].pc = "pending"] /\ waiting' = Tail(waiting)
      /\ ToWorker(m)
      /\ UNCHANGED <<shared, epoch, ready, closed, made, toWindow, inited, cancelEpoch, activeEpoch,
                     chain, run, alive>>
  BY DEF Post, EpochOf, workerVars
<1>2. /\ Grown /\ Known(call, c) /\ waiting' \in Seq(Calls) /\ MadeInv'
      /\ \A i \in DOMAIN waiting' : Known(call', waiting'[i])
      /\ \A d \in Calls : /\ call'[d].born <= epoch
                          /\ call'[d].pc = "cancelled" => call[d].pc = "cancelled"
                          /\ call'[d].pc = "pending" => ~closed
  BY <1>1, LeaveParts
<1>3. alive /\ toWorker \in Seq(MessageType) /\ waiting \in Seq(Calls) /\ epoch \in Nat /\ cancelEpoch \in Nat
      /\ call \in [Calls -> CallType]
  BY <1>1 DEF ProtocolInv, ProtocolType
<1>4. m \in MessageType /\ m.op = "call" /\ m.id = c /\ m.epoch = call[c].born /\ m.epoch <= epoch
  <2>1. c \in Calls
    BY <1>2 DEF Known
  <2>2. call[c].born \in Nat /\ call[c].born <= epoch
    BY <1>3, <2>1 DEF ProtocolInv, BornInv, CallType
  <2>. QED
    BY <2>1, <2>2 DEF MessageType, Ids
<1>5. Bears(call', m)
  <2>1. Bears(call, m)
    BY <1>2, <1>4 DEF Bears
  <2>. QED
    BY <1>2, <2>1, GrownKnows
<1>6. toWorker' = Append(toWorker, m)
  BY <1>1, <1>3 DEF ToWorker
<1> HIDE DEF m
<1>7. /\ toWorker' \in Seq(MessageType) /\ DOMAIN toWorker = 1 .. Len(toWorker) /\ Len(toWorker) \in Nat
      /\ DOMAIN toWorker' = 1 .. Len(toWorker) + 1
      /\ \A i \in DOMAIN toWorker : toWorker'[i] = toWorker[i]
      /\ toWorker'[Len(toWorker) + 1] = m
  BY <1>3, <1>4, <1>6, Appended
<1>8. ProtocolType'
  BY <1>1, <1>2, <1>7 DEF ProtocolInv, ProtocolType, Grown
<1>9. OrderInv'
  <2>1. Names(toWorker') = Append(Names(toWorker), c) /\ Names(toWorker) \in Seq(Ids)
    BY <1>3, <1>4, <1>6, NamesOfAppend, NamesAre
  <2>2. Ordered(made, run.id, Names(chain), Append(Names(toWorker), c), Tail(waiting))
    BY <1>1, <1>3, <2>1, OrderPosted DEF ProtocolInv, OrderInv
  <2>. QED
    BY <1>1, <2>1, <2>2 DEF OrderInv, Names
<1>10. BornInv'
  <2>1. \A n : Bears(call, n) => Bears(call', n)
    BY <1>2, GrownKnows
  <2>2. \A i \in DOMAIN toWorker' :
          Bears(call', toWorker'[i]) \/ (toWorker'[i].op = "cancel" /\ toWorker'[i].id = NoCall)
    BY <1>5, <1>7, <2>1 DEF ProtocolInv, BornInv
  <2>. QED
    BY <1>1, <1>2, <2>1, <2>2 DEF ProtocolInv, BornInv
<1>11. EpochInv'
  <2>1. Queue(toWorker, cancelEpoch, epoch) /\ Heard(toWorker, cancelEpoch, epoch)
    BY <1>3 DEF ProtocolInv, EpochInv
  <2>2. Queue(toWorker', cancelEpoch, epoch) /\ Heard(toWorker', cancelEpoch, epoch)
    BY <1>3, <1>4, <1>6, <2>1, QueuePosted
  <2>. QED
    BY <1>1, <2>2 DEF ProtocolInv, EpochInv
<1>12. RunInv' /\ AnswerInv'
  BY <1>1, <1>2, RunKeeps, AnswerKeeps
<1>. QED
  BY <1>2, <1>8, <1>9, <1>10, <1>11, <1>12 DEF ProtocolInv

\* fail, with what is still to be delivered.
LEMMA FailKeeps ==
  ASSUME ProtocolInv, Fail, toWindow' \in Seq(AnswerType),
         \A i \in DOMAIN toWindow' : \E j \in DOMAIN toWindow : toWindow'[i] = toWindow[j]
  PROVE  ProtocolInv'
<1>1. /\ closed' = TRUE /\ alive' = FALSE /\ toWorker' = <<>> /\ ready' \in {"failed", ready}
      /\ call' = [c \in Calls |-> Rejected(call[c])]
      /\ UNCHANGED <<shared, epoch, made, waiting, inited, cancelEpoch, activeEpoch, chain, run>>
  BY DEF Fail
<1>2. call \in [Calls -> CallType] /\ epoch \in Nat
  BY DEF ProtocolInv, ProtocolType
<1>3. ASSUME NEW c \in Calls
      PROVE  /\ call'[c] \in CallType /\ call'[c].born = call[c].born
             /\ call'[c].pc # "pending" /\ call'[c].pc \in {call[c].pc, "error"}
             /\ call'[c].pc = "unborn" <=> call[c].pc = "unborn"
  BY <1>1, <1>2 DEF CallType, Outcomes, Rejected
<1>4. Grown
  BY <1>1, <1>2, <1>3 DEF Grown
<1>5. <<>> \in Seq(MessageType)
  BY EmptySeq
<1>6. ProtocolType'
  BY <1>1, <1>4, <1>5 DEF ProtocolInv, ProtocolType, Grown
<1>7. MadeInv'
  BY <1>1, <1>3 DEF ProtocolInv, MadeInv
<1>8. OrderInv'
  <2>1. Ordered(made, run.id, Names(chain), Names(<<>>), waiting)
    BY OrderCut DEF ProtocolInv, OrderInv
  <2>. QED
    BY <1>1, <2>1 DEF OrderInv, Names
<1>9. BornInv'
  <2>1. /\ \A m : Bears(call, m) => Bears(call', m)
        /\ \A c : Known(call, c) => Known(call', c)
    BY <1>4, GrownKnows
  <2>. QED
    BY <1>1, <1>3, <2>1 DEF ProtocolInv, BornInv
<1>10. EpochInv'
  BY <1>1, QueueEmpty DEF ProtocolInv, EpochInv
<1>11. AnswerInv'
  <2>1. \A c \in Calls : (call'[c].pc = "cancelled" => Honest(call', epoch', c)) /\ call'[c].pc # "pending"
    BY <1>1, <1>3 DEF ProtocolInv, AnswerInv, Honest
  <2>2. \A n : Doomed(closed', toWindow', n)
    BY <1>1 DEF Doomed
  <2>3. \A c : Known(call, c) => Known(call', c)
    BY <1>4, GrownKnows
  <2>4. \A i \in DOMAIN toWindow' : toWindow'[i].type = "reply" =>
          Known(call', toWindow'[i].id) /\ toWindow'[i].result \in Outcomes
    BY <2>3 DEF ProtocolInv, AnswerInv
  <2>. QED
    BY <2>1, <2>2, <2>4 DEF AnswerInv
<1>12. RunInv'
  BY <1>1, <1>4, RunKeeps
<1>. QED
  BY <1>6, <1>7, <1>8, <1>9, <1>10, <1>11, <1>12 DEF ProtocolInv

\* The start-up timer, an error of the Worker, and the end of close.
LEMMA EndsKeeps ==
  ASSUME ProtocolInv, StartTimeout \/ WorkerFails \/ Terminate PROVE ProtocolInv'
<1>1. Fail /\ toWindow' = toWindow
  BY DEF StartTimeout, WorkerFails, Terminate
<1>. QED
  BY <1>1, FailKeeps DEF ProtocolInv, ProtocolType

\* onmessage.
LEMMA DeliverKeeps ==
  ASSUME ProtocolInv, NoCall \notin Calls, Deliver PROVE ProtocolInv'
<1> DEFINE m == Head(toWindow)
<1>1. toWindow # <<>> /\ toWindow' = Tail(toWindow)
  BY DEF Deliver
<1>2. /\ toWindow \in Seq(AnswerType) /\ toWindow' \in Seq(AnswerType)
      /\ m = toWindow[1] /\ 1 \in DOMAIN toWindow
      /\ Len(toWindow) \in Nat /\ DOMAIN toWindow = 1 .. Len(toWindow)
      /\ DOMAIN toWindow' = 1 .. Len(toWindow) - 1 /\ Len(toWindow') = Len(toWindow) - 1
      /\ \A i \in DOMAIN toWindow' : i + 1 \in DOMAIN toWindow /\ i \in Nat /\ toWindow'[i] = toWindow[i + 1]
  BY <1>1, Shortened DEF ProtocolInv, ProtocolType
<1>3. CASE m.type = "fatal"
  <2>1. Fail
    BY <1>3 DEF Deliver
  <2>. QED
    BY <1>2, <2>1, FailKeeps
<1>4. CASE m.type # "fatal"
  <2>1. /\ UNCHANGED <<shared, epoch, closed, made, waiting, toWorker, inited, cancelEpoch, activeEpoch,
                       chain, run, alive>>
        /\ ready' \in {"ready", ready}
        /\ \/ call' = call
           \/ /\ m.type = "reply" /\ call[m.id].pc = "pending"
              /\ call' = [call EXCEPT ![m.id].pc = m.result]
    BY <1>4 DEF Deliver, workerVars
  <2>2. m.type = "reply" =>
          /\ Known(call, m.id) /\ m.result \in Outcomes
          /\ m.result = "cancelled" => Honest(call, epoch, m.id) \/ closed
    <3>1. m.type = "reply" =>
            /\ Known(call, m.id) /\ m.result \in Outcomes
            /\ m.result = "cancelled" => Honest(call, epoch, m.id) \/ Doomed(closed, toWindow, 1)
      BY <1>2 DEF ProtocolInv, AnswerInv
    <3>2. Doomed(closed, toWindow, 1) => closed
      BY <1>2 DEF Doomed
    <3>. QED
      BY <3>1, <3>2
  <2>3. call \in [Calls -> CallType] /\ epoch \in Nat
    BY DEF ProtocolInv, ProtocolType
  <2>4. ASSUME NEW c \in Calls
        PROVE  /\ call'[c] \in CallType /\ call'[c].born = call[c].born
               /\ call'[c].pc = "unborn" <=> call[c].pc = "unborn"
               /\ call'[c].pc = "pending" => call[c].pc = "pending"
               /\ call'[c].pc = "cancelled" => Honest(call, epoch, c)
    <3>1. /\ call[c] \in CallType /\ (call[c].pc = "cancelled" => Honest(call, epoch, c))
          /\ (call[c].pc = "pending" => ~closed)
      BY <2>3 DEF ProtocolInv, AnswerInv
    <3>2. CASE call'[c] = call[c]
      BY <3>1, <3>2
    <3>3. CASE call'[c] # call[c]
      <4>1. /\ m.type = "reply" /\ call[m.id].pc = "pending" /\ c = m.id
            /\ call' = [call EXCEPT ![m.id].pc = m.result]
        BY <2>1, <2>3, <3>3
      <4>2. call'[c] = [call[c] EXCEPT !.pc = m.result] /\ m.result \in Outcomes
            /\ (m.result = "cancelled" => Honest(call, epoch, c))
        BY <2>2, <2>3, <3>1, <4>1
      <4> HIDE DEF m
      <4>. QED
        BY <3>1, <4>1, <4>2 DEF CallType, Outcomes
    <3>. QED
      BY <3>2, <3>3
  <2>5. Grown
    <3>1. call' \in [Calls -> CallType]
      BY <2>1, <2>3, <2>4
    <3>. QED
      BY <2>1, <2>3, <2>4, <3>1 DEF Grown
  <2>6. ProtocolType'
    BY <1>2, <2>1, <2>5 DEF ProtocolInv, ProtocolType, Grown
  <2>7. MadeInv' /\ OrderInv' /\ EpochInv'
    BY <2>1, <2>4 DEF ProtocolInv, MadeInv, OrderInv, EpochInv, Names
  <2>8. BornInv'
    <3>1. /\ \A n : Bears(call, n) => Bears(call', n)
          /\ \A c : Known(call, c) => Known(call', c)
      BY <2>5, GrownKnows
    <3>. QED
      BY <2>1, <2>4, <3>1 DEF ProtocolInv, BornInv
  <2>9. RunInv'
    BY <2>1, <2>5, RunKeeps
  <2>10. AnswerInv'
    <3>1. ASSUME NEW n \in Nat, Doomed(closed, toWindow, n + 1) PROVE Doomed(closed, toWindow', n)
      <4>1. CASE closed
        BY <4>1 DEF Doomed
      <4>2. ASSUME NEW j \in DOMAIN toWindow, j < n + 1, toWindow[j].type = "fatal"
            PROVE  \E k \in DOMAIN toWindow' : k < n /\ toWindow'[k].type = "fatal"
        <5>1. j # 1 /\ j - 1 \in DOMAIN toWindow' /\ j - 1 < n /\ toWindow'[j - 1] = toWindow[j]
          BY <1>2, <1>4, <4>2
        <5>. QED
          BY <4>2, <5>1
      <4>. QED
        BY <3>1, <4>1, <4>2 DEF Doomed
    <3>2. \A c : Known(call, c) => Known(call', c) /\ (Honest(call, epoch, c) => Honest(call', epoch', c))
      BY <2>5, GrownKnows
    <3>3. ASSUME NEW i \in DOMAIN toWindow', toWindow'[i].type = "reply"
          PROVE  /\ Known(call', toWindow'[i].id) /\ toWindow'[i].result \in Outcomes
                 /\ toWindow'[i].result = "cancelled" =>
                      Honest(call', epoch', toWindow'[i].id) \/ Doomed(closed', toWindow', i)
      <4>1. i \in Nat /\ toWindow'[i] = toWindow[i + 1] /\ i + 1 \in DOMAIN toWindow
        BY <1>2
      <4>2. /\ Known(call, toWindow[i + 1].id) /\ toWindow[i + 1].result \in Outcomes
            /\ toWindow[i + 1].result = "cancelled" =>
                 Honest(call, epoch, toWindow[i + 1].id) \/ Doomed(closed, toWindow, i + 1)
        BY <3>3, <4>1 DEF ProtocolInv, AnswerInv
      <4>. QED
        BY <2>1, <3>1, <3>2, <4>1, <4>2
    <3>4. inited' = "failed" => Doomed(closed', toWindow', Len(toWindow') + 1)
      <4>1. inited = "failed" => Doomed(closed, toWindow, Len(toWindow) + 1)
        BY DEF ProtocolInv, AnswerInv
      <4>2. Len(toWindow') + 1 = Len(toWindow)
        BY <1>2
      <4>. QED
        BY <1>2, <2>1, <3>1, <4>1, <4>2
    <3>5. \A c \in Calls : /\ call'[c].pc = "cancelled" => Honest(call', epoch', c)
                           /\ call'[c].pc = "pending" => ~closed'
      BY <2>1, <2>4 DEF ProtocolInv, AnswerInv, Honest
    <3>. QED
      BY <3>3, <3>4, <3>5 DEF AnswerInv
  <2>. QED
    BY <2>6, <2>7, <2>8, <2>9, <2>10 DEF ProtocolInv
<1>. QED
  BY <1>3, <1>4

-----------------------------------------------------------------------------
(* The Worker.                                                             *)

\* A message to the window leaves those before it as they are.
LEMMA AnswerAppended ==
  ASSUME ProtocolInv, NEW a \in AnswerType, toWindow' = Append(toWindow, a),
         UNCHANGED <<call, epoch, closed>>,
         inited' = "failed" => Doomed(closed, toWindow', Len(toWindow) + 2),
         a.type = "reply" =>
           /\ Known(call, a.id) /\ a.result \in Outcomes
           /\ a.result = "cancelled" => Honest(call, epoch, a.id) \/ inited = "failed"
  PROVE  toWindow' \in Seq(AnswerType) /\ AnswerInv'
<1>1. /\ toWindow' \in Seq(AnswerType) /\ Len(toWindow) \in Nat /\ DOMAIN toWindow = 1 .. Len(toWindow)
      /\ DOMAIN toWindow' = 1 .. Len(toWindow) + 1 /\ Len(toWindow') = Len(toWindow) + 1
      /\ \A i \in DOMAIN toWindow : toWindow'[i] = toWindow[i]
      /\ toWindow'[Len(toWindow) + 1] = a
  BY Appended DEF ProtocolInv, ProtocolType
<1>2. \A n : Doomed(closed, toWindow, n) => Doomed(closed, toWindow', n)
  BY <1>1 DEF Doomed
<1>3. inited = "failed" => Doomed(closed, toWindow', Len(toWindow) + 1)
  BY <1>2 DEF ProtocolInv, AnswerInv
<1>4. ASSUME NEW i \in DOMAIN toWindow', toWindow'[i].type = "reply"
      PROVE  /\ Known(call, toWindow'[i].id) /\ toWindow'[i].result \in Outcomes
             /\ toWindow'[i].result = "cancelled" =>
                  Honest(call, epoch, toWindow'[i].id) \/ Doomed(closed, toWindow', i)
  <2>1. CASE i \in DOMAIN toWindow
    BY <1>1, <1>2, <1>4, <2>1 DEF ProtocolInv, AnswerInv
  <2>2. CASE i = Len(toWindow) + 1
    BY <1>1, <1>3, <1>4, <2>2
  <2>. QED
    BY <1>1, <2>1, <2>2
<1>5. inited' = "failed" => Doomed(closed, toWindow', Len(toWindow') + 1)
  <2>1. Len(toWindow') + 1 = Len(toWindow) + 2
    BY <1>1
  <2>. QED
    BY <2>1
<1>6. \A c \in Calls : /\ call[c].pc = "cancelled" => Honest(call, epoch, c)
                       /\ call[c].pc = "pending" => ~closed
  BY DEF ProtocolInv, AnswerInv
<1>. QED
  BY <1>1, <1>4, <1>5, <1>6 DEF AnswerInv

\* The WASM of the Worker has started, or says that it has not.
LEMMA InitializedKeeps ==
  ASSUME ProtocolInv, Initialized PROVE ProtocolInv'
<1>1. UNCHANGED <<shared, epoch, ready, closed, call, made, waiting, toWorker, cancelEpoch, activeEpoch,
                  chain, run, alive>>
  BY DEF Initialized, windowVars
<1>2. PICK s \in {"ready", "fatal"} :
        /\ toWindow' = Append(toWindow, Note(s)) /\ inited' \in {"ok", "failed"}
        /\ inited' = "failed" => s = "fatal"
  BY DEF Initialized
<1>3. Note(s) \in AnswerType /\ Note(s).type = s /\ s # "reply"
  BY DEF AnswerType, Ids, Note
<1>4. inited' = "failed" => Doomed(closed, toWindow', Len(toWindow) + 2)
  <2>1. /\ Len(toWindow) \in Nat /\ DOMAIN toWindow' = 1 .. Len(toWindow) + 1
        /\ toWindow'[Len(toWindow) + 1] = Note(s)
    BY <1>2, <1>3, Appended DEF ProtocolInv, ProtocolType
  <2>. QED
    BY <1>2, <1>3, <2>1 DEF Doomed
<1>5. toWindow' \in Seq(AnswerType) /\ AnswerInv'
  BY <1>1, <1>2, <1>3, <1>4, AnswerAppended
<1>6. ProtocolType'
  BY <1>1, <1>2, <1>5 DEF ProtocolInv, ProtocolType
<1>7. MadeInv' /\ OrderInv' /\ BornInv' /\ EpochInv' /\ RunInv'
  BY <1>1 DEF ProtocolInv, MadeInv, OrderInv, BornInv, EpochInv, RunInv, Names
<1>. QED
  BY <1>5, <1>6, <1>7 DEF ProtocolInv

\* handle.
LEMMA HandleKeeps ==
  ASSUME ProtocolInv, NoCall \notin Calls, Handle PROVE ProtocolInv'
<1> DEFINE m == Head(toWorker)
<1>1. /\ alive /\ toWorker # <<>> /\ toWorker' = Tail(toWorker)
      /\ UNCHANGED <<shared, epoch, ready, closed, call, made, waiting, inited, activeEpoch, alive, toWindow>>
      /\ \/ m.op = "cancel" /\ cancelEpoch' = m.epoch /\ run' = Abort /\ UNCHANGED chain
         \/ m.op = "call" /\ chain' = Append(chain, m) /\ UNCHANGED <<cancelEpoch, run>>
  BY DEF Handle, windowVars, Chained
<1>2. /\ toWorker \in Seq(MessageType) /\ chain \in Seq(MessageType) /\ epoch \in Nat /\ cancelEpoch \in Nat
      /\ activeEpoch \in Nat /\ activeEpoch <= cancelEpoch /\ cancelEpoch <= epoch
      /\ Queue(toWorker, cancelEpoch, epoch) /\ Heard(toWorker, cancelEpoch, epoch)
  BY <1>1 DEF ProtocolInv, ProtocolType, EpochInv
<1>3. /\ m \in MessageType /\ m = toWorker[1] /\ 1 \in DOMAIN toWorker /\ toWorker' \in Seq(MessageType)
      /\ \A i \in DOMAIN toWorker' : i + 1 \in DOMAIN toWorker /\ toWorker'[i] = toWorker[i + 1]
  BY <1>1, <1>2, Shortened
<1>4. m.epoch \in Nat /\ (Bears(call, m) \/ (m.op = "cancel" /\ m.id = NoCall))
  BY <1>3 DEF MessageType, ProtocolInv, BornInv
<1>5. /\ m.op = "cancel" =>
           /\ cancelEpoch < m.epoch /\ m.epoch <= epoch
           /\ Queue(toWorker', m.epoch, epoch) /\ Heard(toWorker', m.epoch, epoch)
      /\ m.op = "call" =>
           /\ m.epoch <= cancelEpoch /\ Queue(toWorker', cancelEpoch, epoch)
           /\ Heard(toWorker', cancelEpoch, epoch)
  BY <1>1, <1>2, QueueHandled
<1>6. /\ Names(toWorker) # <<>> /\ Names(toWorker') = Tail(Names(toWorker)) /\ m.id = Head(Names(toWorker))
      /\ Names(toWorker) \in Seq(Ids) /\ Names(chain) \in Seq(Ids)
  BY <1>1, <1>2, NamesOfTail, NamesAre
<1>7. /\ Ordered(made, run.id, Names(chain), Names(toWorker'), waiting)
      /\ m.id # NoCall => Ordered(made, run.id, Append(Names(chain), m.id), Names(toWorker'), waiting)
  BY <1>6, OrderHandled DEF ProtocolInv, OrderInv
<1> HIDE DEF m
<1>8. MadeInv' /\ AnswerInv'
  BY <1>1 DEF ProtocolInv, MadeInv, AnswerInv
<1>9. CASE m.op = "cancel"
  <2>1. cancelEpoch' = m.epoch /\ run' = Abort /\ chain' = chain
    BY <1>1, <1>9
  <2>2. /\ run' \in RunType /\ run'.id = run.id /\ run'.startedAt = run.startedAt
        /\ run'.aborted => run.id # NoCall
    BY <2>1 DEF ProtocolInv, ProtocolType, RunType, Abort
  <2>3. ProtocolType'
    BY <1>1, <1>3, <1>4, <2>1, <2>2 DEF ProtocolInv, ProtocolType
  <2>4. OrderInv'
    BY <1>1, <1>7, <2>1, <2>2 DEF OrderInv, Names
  <2>5. BornInv'
    <3>1. \A i \in DOMAIN chain : Bears(call, chain[i]) /\ chain[i].epoch <= m.epoch
      <4>1. \A i \in DOMAIN chain : chain[i].epoch \in Nat
        <5>1. DOMAIN chain = 1 .. Len(chain) /\ \A i \in 1 .. Len(chain) : chain[i] \in MessageType
          BY <1>2, ElementOfSeq, LenProperties
        <5>. QED
          BY <5>1 DEF MessageType
      <4>2. cancelEpoch < m.epoch
        BY <1>5, <1>9
      <4>3. \A i \in DOMAIN chain : Bears(call, chain[i]) /\ chain[i].epoch <= cancelEpoch
        BY DEF ProtocolInv, BornInv
      <4>. QED
        BY <1>2, <1>4, <4>1, <4>2, <4>3
    <3>. QED
      BY <1>1, <1>3, <2>1, <3>1 DEF ProtocolInv, BornInv
  <2>6. EpochInv'
    <3>1. activeEpoch <= m.epoch
      BY <1>2, <1>4, <1>5, <1>9
    <3>. QED
      BY <1>1, <1>5, <1>9, <2>1, <3>1 DEF EpochInv
  <2>7. RunInv'
    <3>1. run.id # NoCall => activeEpoch = call[run.id].born /\ activeEpoch < epoch
      BY <1>2, <1>4, <1>5, <1>9 DEF ProtocolInv, RunInv
    <3>. QED
      BY <1>1, <2>2, <3>1 DEF ProtocolInv, RunInv
  <2>. QED
    BY <1>8, <2>3, <2>4, <2>5, <2>6, <2>7 DEF ProtocolInv
<1>10. CASE m.op = "call"
  <2>1. chain' = Append(chain, m) /\ UNCHANGED <<cancelEpoch, run>>
    BY <1>1, <1>10
  <2>2. /\ chain' \in Seq(MessageType) /\ DOMAIN chain = 1 .. Len(chain) /\ Len(chain) \in Nat
        /\ DOMAIN chain' = 1 .. Len(chain) + 1
        /\ \A i \in DOMAIN chain : chain'[i] = chain[i]
        /\ chain'[Len(chain) + 1] = m
    BY <1>2, <1>3, <2>1, Appended
  <2>3. ProtocolType'
    BY <1>1, <1>3, <2>1, <2>2 DEF ProtocolInv, ProtocolType
  <2>4. OrderInv'
    <3>1. m.id # NoCall
      BY <1>4, <1>10 DEF Bears, Known
    <3>2. Names(chain') = Append(Names(chain), m.id)
      BY <1>2, <1>3, <2>1, NamesOfAppend
    <3>. QED
      BY <1>1, <1>7, <2>1, <3>1, <3>2 DEF OrderInv, Names
  <2>5. BornInv'
    <3>1. Bears(call, m) /\ m.epoch <= cancelEpoch
      BY <1>4, <1>5, <1>10
    <3>2. \A i \in DOMAIN chain' : Bears(call, chain'[i]) /\ chain'[i].epoch <= cancelEpoch
      BY <2>2, <3>1 DEF ProtocolInv, BornInv
    <3>. QED
      BY <1>1, <1>3, <2>1, <3>2 DEF ProtocolInv, BornInv
  <2>6. EpochInv' /\ RunInv'
    BY <1>1, <1>5, <1>10, <2>1 DEF ProtocolInv, EpochInv, RunInv
  <2>. QED
    BY <1>8, <2>3, <2>4, <2>5, <2>6 DEF ProtocolInv
<1>. QED
  BY <1>1, <1>9, <1>10

\* A request that is answered, whatever becomes of the one that runs.
LEMMA ReplyParts ==
  ASSUME ProtocolInv, NEW c, Known(call, c), NEW result \in Outcomes,
         result = "cancelled" => Honest(call, epoch, c) \/ inited = "failed",
         toWindow' = Append(toWindow, Reply(c, result)), UNCHANGED <<call, epoch, closed, inited>>
  PROVE  toWindow' \in Seq(AnswerType) /\ AnswerInv'
<1> DEFINE a == Reply(c, result)
<1>1. a \in AnswerType /\ a.type = "reply" /\ a.id = c /\ a.result = result
  BY DEF AnswerType, Ids, Known, Reply
<1> HIDE DEF a
<1>2. toWindow' = Append(toWindow, a)
  BY DEF a
<1>3. inited' = "failed" => Doomed(closed, toWindow', Len(toWindow) + 2)
  <2>1. /\ Len(toWindow) \in Nat /\ DOMAIN toWindow' = 1 .. Len(toWindow) + 1
        /\ DOMAIN toWindow = 1 .. Len(toWindow) /\ \A i \in DOMAIN toWindow : toWindow'[i] = toWindow[i]
    BY <1>1, <1>2, Appended DEF ProtocolInv, ProtocolType
  <2>2. inited = "failed" => Doomed(closed, toWindow, Len(toWindow) + 1)
    BY DEF ProtocolInv, AnswerInv
  <2>. QED
    BY <2>1, <2>2 DEF Doomed
<1>. QED
  BY <1>1, <1>2, <1>3, AnswerAppended

\* The next request of the sequence begins, or is answered as cancelled or failed.
LEMMA BeginKeeps ==
  ASSUME ProtocolInv, NoCall \notin Calls, Begin PROVE ProtocolInv'
<1> DEFINE m == Head(chain)
<1>1. /\ run.id = NoCall /\ chain # <<>> /\ chain' = Tail(chain)
      /\ UNCHANGED <<shared, epoch, ready, closed, call, made, waiting, toWorker, inited, cancelEpoch, alive>>
  BY DEF Begin, windowVars
<1>2. \/ /\ inited = "failed" /\ toWindow' = Append(toWindow, Reply(m.id, ErrorAt(activeEpoch)))
         /\ UNCHANGED <<activeEpoch, run>>
      \/ /\ activeEpoch' = m.epoch /\ CancelledAt(m.epoch)
         /\ toWindow' = Append(toWindow, Reply(m.id, "cancelled")) /\ UNCHANGED run
      \/ /\ activeEpoch' = m.epoch /\ ~CancelledAt(m.epoch) /\ UNCHANGED toWindow
         /\ run' = [run EXCEPT !.id = m.id, !.startedAt = IF shared THEN epoch ELSE cancelEpoch]
  BY DEF Begin, Adopt, CancelledAt
<1>3. /\ chain \in Seq(MessageType) /\ epoch \in Nat /\ cancelEpoch \in Nat /\ activeEpoch \in Nat
      /\ cancelEpoch <= epoch /\ shared \in BOOLEAN /\ run \in RunType
  BY DEF ProtocolInv, ProtocolType, EpochInv
<1>4. /\ m \in MessageType /\ m = chain[1] /\ 1 \in DOMAIN chain /\ chain' \in Seq(MessageType)
      /\ \A i \in DOMAIN chain' : i + 1 \in DOMAIN chain /\ chain'[i] = chain[i + 1]
  BY <1>1, <1>3, Shortened
<1>5. /\ m.epoch \in Nat /\ m.id \in Calls /\ Known(call, m.id) /\ m.epoch = call[m.id].born
      /\ m.epoch <= cancelEpoch
  BY <1>4 DEF MessageType, ProtocolInv, BornInv, Bears, Known
<1>6. /\ Names(chain) # <<>> /\ Names(chain') = Tail(Names(chain)) /\ m.id = Head(Names(chain))
      /\ Names(chain) \in Seq(Ids)
  BY <1>1, <1>3, NamesOfTail, NamesAre
<1>7. /\ Ordered(made, run.id, Names(chain'), Names(toWorker), waiting)
      /\ Ordered(made, m.id, Names(chain'), Names(toWorker), waiting)
  BY <1>5, <1>6, OrderBegun DEF ProtocolInv, OrderInv
<1> HIDE DEF m
<1>8. MadeInv' /\ BornInv'
  BY <1>1, <1>4 DEF ProtocolInv, MadeInv, BornInv
<1>9. CancelledAt(m.epoch) => Honest(call, epoch, m.id)
  BY <1>3, <1>5 DEF CancelledAt, Honest
<1>10. CASE inited = "failed" /\ toWindow' = Append(toWindow, Reply(m.id, ErrorAt(activeEpoch)))
            /\ UNCHANGED <<activeEpoch, run>>
  <2>1. ErrorAt(activeEpoch) \in Outcomes
    BY DEF ErrorAt, Outcomes
  <2>2. toWindow' \in Seq(AnswerType) /\ AnswerInv'
    BY <1>1, <1>5, <1>10, <2>1, ReplyParts
  <2>3. ProtocolType'
    BY <1>1, <1>4, <1>10, <2>2 DEF ProtocolInv, ProtocolType
  <2>4. OrderInv'
    BY <1>1, <1>7, <1>10 DEF OrderInv, Names
  <2>5. EpochInv' /\ RunInv'
    BY <1>1, <1>10 DEF ProtocolInv, EpochInv, RunInv
  <2>. QED
    BY <1>8, <2>2, <2>3, <2>4, <2>5 DEF ProtocolInv
<1>11. CASE activeEpoch' = m.epoch /\ CancelledAt(m.epoch)
            /\ toWindow' = Append(toWindow, Reply(m.id, "cancelled")) /\ UNCHANGED run
  <2>1. toWindow' \in Seq(AnswerType) /\ AnswerInv'
    BY <1>1, <1>5, <1>9, <1>11, ReplyParts DEF Outcomes
  <2>2. ProtocolType'
    BY <1>1, <1>4, <1>5, <1>11, <2>1 DEF ProtocolInv, ProtocolType
  <2>3. OrderInv'
    BY <1>1, <1>7, <1>11 DEF OrderInv, Names
  <2>4. EpochInv' /\ RunInv'
    BY <1>1, <1>5, <1>11 DEF ProtocolInv, EpochInv, RunInv
  <2>. QED
    BY <1>8, <2>1, <2>2, <2>3, <2>4 DEF ProtocolInv
<1>12. CASE activeEpoch' = m.epoch /\ ~CancelledAt(m.epoch) /\ UNCHANGED toWindow
            /\ run' = [run EXCEPT !.id = m.id, !.startedAt = IF shared THEN epoch ELSE cancelEpoch]
  <2>1. m.epoch = IF shared THEN epoch ELSE cancelEpoch
    BY <1>3, <1>12 DEF CancelledAt
  <2>2. run' \in RunType /\ run'.id = m.id /\ run'.startedAt = m.epoch /\ run'.aborted = run.aborted
    BY <1>3, <1>5, <1>12, <2>1 DEF RunType, Ids
  <2>3. ProtocolType'
    BY <1>1, <1>4, <1>5, <1>12, <2>2 DEF ProtocolInv, ProtocolType
  <2>4. OrderInv'
    BY <1>1, <1>7, <2>2 DEF OrderInv, Names
  <2>5. EpochInv'
    BY <1>1, <1>5, <1>12 DEF ProtocolInv, EpochInv
  <2>6. RunInv'
    <3>1. ~run.aborted
      BY <1>1 DEF ProtocolInv, RunInv
    <3>. QED
      BY <1>1, <1>5, <1>12, <2>2, <3>1 DEF RunInv
  <2>7. AnswerInv'
    BY <1>1, <1>12 DEF ProtocolInv, AnswerInv
  <2>. QED
    BY <1>8, <2>3, <2>4, <2>5, <2>6, <2>7 DEF ProtocolInv
<1>. QED
  BY <1>2, <1>10, <1>11, <1>12

\* execute returned or threw.
LEMMA FinishKeeps ==
  ASSUME ProtocolInv, Finish PROVE ProtocolInv'
<1>1. /\ run.id # NoCall /\ run' = NoRun
      /\ UNCHANGED <<shared, epoch, ready, closed, call, made, waiting, toWorker, inited, cancelEpoch,
                     activeEpoch, chain, alive>>
  BY DEF Finish, EndRun, windowVars
<1>2. PICK result \in {"ok", ErrorAt(activeEpoch)} : toWindow' = Append(toWindow, Reply(run.id, result))
  BY DEF Finish
<1>3. /\ Known(call, run.id) /\ activeEpoch = call[run.id].born
      /\ activeEpoch <= cancelEpoch /\ cancelEpoch <= epoch
      /\ epoch \in Nat /\ cancelEpoch \in Nat /\ activeEpoch \in Nat
  BY <1>1 DEF ProtocolInv, ProtocolType, EpochInv, RunInv
<1>4. result \in Outcomes
  BY DEF Outcomes, ErrorAt
<1>5. result = "cancelled" => Honest(call, epoch, run.id)
  BY <1>3 DEF Honest, ErrorAt, CancelledAt
<1>6. toWindow' \in Seq(AnswerType) /\ AnswerInv'
  BY <1>1, <1>2, <1>3, <1>4, <1>5, ReplyParts
<1>7. run' \in RunType /\ run'.id = NoCall /\ ~run'.aborted
  BY <1>1 DEF RunType, Ids, NoRun
<1>8. ProtocolType'
  BY <1>1, <1>6, <1>7 DEF ProtocolInv, ProtocolType
<1>9. OrderInv'
  <2>1. Ordered(made, NoCall, Names(chain), Names(toWorker), waiting)
    BY OrderCut DEF ProtocolInv, OrderInv
  <2>. QED
    BY <1>1, <1>7, <2>1 DEF OrderInv, Names
<1>10. MadeInv' /\ BornInv' /\ EpochInv'
  BY <1>1 DEF ProtocolInv, MadeInv, BornInv, EpochInv
<1>11. RunInv'
  BY <1>7 DEF RunInv
<1>. QED
  BY <1>6, <1>8, <1>9, <1>10, <1>11 DEF ProtocolInv

\* The start.
LEMMA ProtocolInitially == ProtocolInit => ProtocolInv
<1> SUFFICES ASSUME ProtocolInit PROVE ProtocolInv
  OBVIOUS
<1>1. \A S : <<>> \in Seq(S)
  BY EmptySeq
<1>2. NoRun \in RunType /\ NotMade \in CallType
  BY DEF RunType, Ids, CallType, NoRun, NotMade
<1>3. ProtocolType
  BY <1>1, <1>2 DEF ProtocolType, ProtocolInit
<1>4. MadeInv
  BY DEF MadeInv, Once, ProtocolInit, NotMade
<1>5. OrderInv
  BY DEF OrderInv, Ordered, Sorted, Precedes, First, Names, ProtocolInit, NoRun
<1>6. BornInv /\ EpochInv
  BY DEF BornInv, EpochInv, Queue, Heard, ProtocolInit, NotMade
<1>7. RunInv /\ AnswerInv
  BY DEF RunInv, AnswerInv, ProtocolInit, NoRun, NotMade
<1>. QED
  BY <1>3, <1>4, <1>5, <1>6, <1>7 DEF ProtocolInv

\* Every step of either side.
LEMMA ProtocolSteps ==
  ProtocolInv /\ [ProtocolNext]_protocolVars => ProtocolInv'
<1> SUFFICES ASSUME ProtocolInv, [ProtocolNext]_protocolVars PROVE ProtocolInv'
  OBVIOUS
<1>1. NoCall \notin Calls
  BY CallsAssumption
<1>2. CASE UNCHANGED protocolVars
  BY <1>2 DEF protocolVars, windowVars, workerVars, ProtocolInv, ProtocolType, MadeInv, OrderInv, BornInv,
              EpochInv, RunInv, AnswerInv, Names
<1>3. CASE ProtocolNext
  BY <1>1, <1>3, CallKeeps, CloseKeeps, PostKeeps, DroppedKeeps, CancelKeeps, EndsKeeps, DeliverKeeps,
     InitializedKeeps, HandleKeeps, BeginKeeps, FinishKeeps DEF ProtocolNext
<1>. QED
  BY <1>2, <1>3

\* The inductive invariant of client.js and worker-protocol.js holds always, for any
\* number of calls and cancels and wherever the Worker fails.
THEOREM ProtocolInductive == ProtocolSpec => []ProtocolInv
<1>1. ProtocolInv /\ [ProtocolNext]_protocolVars => ProtocolInv'
  BY ProtocolSteps
<1>. QED
  BY <1>1, ProtocolInitially, PTL DEF ProtocolSpec

\* call and handle: no operation begins for a call made before a cancel that the
\* Worker could know of, and no cancel hits a call made after it.
THEOREM CancelledNeverBeginsHolds == ProtocolSpec => []CancelledNeverBegins
<1>1. ProtocolInv => CancelledNeverBegins
  BY DEF ProtocolInv, RunInv, AnswerInv, Honest, CancelledNeverBegins
<1>2. ProtocolSpec => []ProtocolInv
  BY ProtocolInductive
<1>. QED
  BY <1>1, <1>2, PTL

\* sequence: requests begin in the order in which the calls were made.
THEOREM InOrderHolds == ProtocolSpec => []InOrder
<1>1. ProtocolInv => InOrder
  <2> SUFFICES ASSUME ProtocolInv, run.id # NoCall, NEW c \in Calls, NotBegun(c)
               PROVE  Index(run.id) < Index(c)
    BY DEF InOrder
  <2>1. Before(made, run.id, c)
    <3>1. c # NoCall
      BY CallsAssumption
    <3>2. /\ First(made, run.id, Names(chain)) /\ First(made, run.id, Names(toWorker))
          /\ First(made, run.id, waiting)
      BY DEF ProtocolInv, OrderInv, Ordered
    <3>. QED
      BY <3>1, <3>2 DEF NotBegun, Queued, First, Names
  <2>2. PICK i, j \in DOMAIN made : i < j /\ made[i] = run.id /\ made[j] = c
    BY <2>1 DEF Before
  <2>3. Index(run.id) = i /\ Index(c) = j
    BY <2>2 DEF Index, ProtocolInv, MadeInv, Once
  <2>. QED
    BY <2>2, <2>3
<1>2. ProtocolSpec => []ProtocolInv
  BY ProtocolInductive
<1>. QED
  BY <1>1, <1>2, PTL
=============================================================================
