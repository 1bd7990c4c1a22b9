---------------------------- MODULE StateRestore ----------------------------
(***************************************************************************)
(* Capturing and restoring the state of a running machine:                 *)
(* captureMachineState and restoreMachineState of                          *)
(* src/src/browser/machine-state.js, the DiskBuffer through which a machine *)
(* writes (client.js), and the prepareState, commitState, discardState,    *)
(* saveState and write requests of the Worker (worker.js).                 *)
(*                                                                         *)
(* A disk is the sequence of writes applied to it; a machine's memory is   *)
(* the sequence of writes it believes its disk has.  Requests reach the    *)
(* Worker one at a time; a cancel is issued by the window and seen by the  *)
(* Worker at some later check of the request it was issued for (module     *)
(* WorkerProtocol).  The page lets no other operation start while one runs. *)
(***************************************************************************)
EXTENDS Integers, Sequences

CONSTANTS
  MaxWrites,   \* bound: writes the guest makes
  MaxStates,   \* bound: state files captured
  MaxRevision  \* bound: no restore starts on a disk of this revision

ASSUME RestoreAssumption ==
  MaxWrites \in Nat /\ MaxStates \in Nat /\ MaxRevision \in Nat

VARIABLES
  vault,     \* the Worker's vault: its contents, its revision, and whether it is
             \* a publication that is used without a startup prefetch
  cand,      \* stateCandidate
  states,    \* state files: the machine's memory and the disk in each
  machine,   \* the machine on the screen
  queue,     \* DiskBuffer.queue of that machine
  flying,    \* the head of the queue: "no" request, "sent" or "applied"; "stalled"
             \* when a retry was rejected and nothing pumps the queue
  failed,    \* DiskBuffer.failed
  writes,    \* writes made so far
  op,        \* the operation under way, and where it awaits
  aborted,   \* its signal
  req,       \* its request to the Worker
  before     \* the disk and its queued changes when the restore began

bufferVars == <<queue, flying, failed>>
vars == <<vault, cand, states, machine, bufferVars, writes, op, aborted, req, before>>

NoMachine == [on |-> FALSE, running |-> FALSE, sees |-> <<>>]
NoCand == [on |-> FALSE, disk |-> <<>>, revision |-> 0]
NoOp == [kind |-> "none", pc |-> "none", running |-> FALSE, state |-> 0, ram |-> <<>>,
         prepared |-> FALSE, built |-> FALSE, listening |-> FALSE, outcome |-> "none"]
NoReq == [name |-> "none", pc |-> "none", cancelled |-> FALSE, seen |-> FALSE, result |-> "none"]

Idle == op.kind = "none"
WorkerFree == req.pc \notin {"running", "tail"}
Unapplied == IF flying = "applied" THEN Tail(queue) ELSE queue

-----------------------------------------------------------------------------
(* The machine and its DiskBuffer.                                         *)

Boot ==
  /\ Idle /\ ~machine.on
  /\ machine' = [on |-> TRUE, running |-> TRUE, sees |-> vault.disk]
  /\ UNCHANGED <<vault, cand, states, bufferVars, writes, op, aborted, req, before>>

GuestWrite ==
  /\ machine.running /\ writes < MaxWrites
  /\ writes' = writes + 1
  /\ queue' = Append(queue, writes')
  /\ machine' = [machine EXCEPT !.sees = Append(@, writes')]
  /\ UNCHANGED <<vault, cand, states, flying, failed, op, aborted, req, before>>

\* pump: one request at a time, the head of the queue stays until it succeeds.
PumpSends ==
  /\ ~failed /\ flying = "no" /\ queue # <<>>
  /\ flying' = "sent"
  /\ UNCHANGED <<vault, cand, states, machine, queue, failed, writes, op, aborted, req, before>>

WorkerWrites ==
  /\ flying = "sent" /\ WorkerFree
  /\ vault' = [vault EXCEPT !.disk = Append(@, Head(queue)), !.revision = @ + 1]
  /\ flying' = "applied"
  /\ UNCHANGED <<cand, states, machine, queue, failed, writes, op, aborted, req, before>>

\* Cancelled or unreadable: nothing was written; onError stops the machine.
WriteFails ==
  /\ flying = "sent" /\ WorkerFree
  /\ flying' = "no" /\ failed' = TRUE
  /\ machine' = [machine EXCEPT !.running = FALSE]
  /\ UNCHANGED <<vault, cand, states, queue, writes, op, aborted, req, before>>

PumpShifts ==
  /\ flying = "applied"
  /\ queue' = Tail(queue) /\ flying' = "no"
  /\ UNCHANGED <<vault, cand, states, machine, failed, writes, op, aborted, req, before>>

\* retryAdapter: the queue goes on where it stopped.
Retry ==
  /\ Idle /\ failed
  /\ failed' = FALSE
  /\ UNCHANGED <<vault, cand, states, machine, queue, flying, writes, op, aborted, req, before>>

\* resumePrefetch of a publication is rejected after the failure was cleared: the queue
\* stays, nothing pumps it, and the machine is still stopped by its disk.
RetryRejected ==
  /\ Idle /\ failed /\ vault.remote
  /\ failed' = FALSE /\ flying' = "stalled"
  /\ UNCHANGED <<vault, cand, states, machine, queue, writes, op, aborted, req, before>>

Resume ==
  /\ Idle /\ machine.on /\ ~machine.running /\ ~failed /\ flying # "stalled"
  /\ machine' = [machine EXCEPT !.running = TRUE]
  /\ UNCHANGED <<vault, cand, states, bufferVars, writes, op, aborted, req, before>>

-----------------------------------------------------------------------------
(* The operation in the window.                                            *)

WindowStep == UNCHANGED <<vault, cand, bufferVars, writes, aborted, before>>

Started(kind, i) ==
  op' = [NoOp EXCEPT !.kind = kind, !.pc = IF machine.on THEN "drain" ELSE "start",
                     !.running = machine.running, !.state = i]

\* machine.stop() comes first; requests already queued go on.
StartCapture ==
  /\ Idle /\ machine.on /\ Len(states) < MaxStates
  /\ Started("capture", 0)
  /\ machine' = [machine EXCEPT !.running = FALSE] /\ aborted' = FALSE
  /\ UNCHANGED <<vault, cand, states, bufferVars, writes, req, before>>

StartRestore(i) ==
  /\ Idle /\ vault.revision < MaxRevision
  /\ Started("restore", i)
  /\ machine' = [machine EXCEPT !.running = FALSE] /\ aborted' = FALSE
  /\ before' = vault.disk \o Unapplied
  /\ UNCHANGED <<vault, cand, states, bufferVars, writes, req>>

\* Faulty: writes still in flight are not waited for.
DrainedAny == TRUE
Drained == queue = <<>> /\ flying = "no"
\* Faulty: a failed adapter is waited for.
DrainThrowsNever == FALSE
DrainThrows == failed

Request(name) == req' = [NoReq EXCEPT !.name = name, !.pc = "sent"]

\* Faulty: only a machine that was built is taken back with its candidate.
LeftoverBuilt == op.built
\* The finally of restoreMachineState looks at `prepared`.
Leftover == op.prepared

\* Any throw: the listener goes, then the candidate, then the machine runs on.
Throw(outcome) ==
  /\ op' = [op EXCEPT !.pc = IF Leftover THEN "discarding" ELSE "finally",
                      !.outcome = outcome, !.listening = FALSE]
  /\ IF Leftover THEN Request("discardState") ELSE req' = NoReq
  /\ UNCHANGED <<states, machine>>

DrainReturns ==
  /\ op.pc = "drain"
  /\ \/ DrainThrows /\ Throw("error")
     \/ /\ ~failed /\ Drained
        /\ op' = [op EXCEPT !.pc = "start"]
        /\ UNCHANGED <<states, machine, req>>
  /\ WindowStep

\* save_state reads the machine's memory before the disk is asked for its part.
SaveMemory ==
  /\ op.kind = "capture" /\ op.pc = "start"
  /\ \/ aborted /\ Throw("cancelled")
     \/ Throw("error")
     \/ /\ ~aborted
        /\ op' = [op EXCEPT !.pc = "await", !.ram = machine.sees, !.listening = TRUE]
        /\ Request("saveState") /\ UNCHANGED <<states, machine>>
  /\ WindowStep

Prepare ==
  /\ op.kind = "restore" /\ op.pc = "start"
  /\ \/ aborted /\ Throw("cancelled")
     \/ /\ ~aborted
        /\ op' = [op EXCEPT !.pc = "await", !.listening = TRUE]
        /\ Request("prepareState") /\ UNCHANGED <<states, machine>>
  /\ WindowStep

\* The request was answered with an error.
RequestRejected ==
  /\ op.pc = "await" /\ req.pc = "replied" /\ req.result # "ok"
  /\ Throw(req.result)
  /\ WindowStep

StateSaved ==
  /\ op.pc = "await" /\ req.name = "saveState" /\ req.pc = "replied" /\ req.result = "ok"
  /\ states' = Append(states, [sees |-> op.ram, disk |-> vault.disk])
  /\ op' = [op EXCEPT !.pc = "finally", !.outcome = "ok", !.listening = FALSE]
  /\ req' = NoReq /\ UNCHANGED machine
  /\ WindowStep

StatePrepared ==
  /\ op.pc = "await" /\ req.name = "prepareState" /\ req.pc = "replied" /\ req.result = "ok"
  /\ op' = [op EXCEPT !.pc = "build", !.prepared = TRUE]
  /\ req' = NoReq /\ UNCHANGED <<states, machine>>
  /\ WindowStep

\* createMachine, restore_state and the checks around them.
MachineBuilt ==
  /\ op.pc = "build"
  /\ \/ aborted /\ Throw("cancelled")
     \/ Throw("error")
     \/ /\ ~aborted
        /\ op' = [op EXCEPT !.pc = "commit", !.built = TRUE]
        /\ UNCHANGED <<states, machine, req>>
  /\ WindowStep

\* adapter.drain(), after which the signal is not looked at again.
Commit ==
  /\ op.pc = "commit"
  /\ op' = [op EXCEPT !.pc = "await"]
  /\ Request("commitState") /\ UNCHANGED <<states, machine>>
  /\ WindowStep

\* The restored machine takes the place of the old one, whose adapter is disposed.
StateCommitted ==
  /\ op.pc = "await" /\ req.name = "commitState" /\ req.pc = "replied" /\ req.result = "ok"
  /\ \E running \in BOOLEAN :
       machine' = [on |-> TRUE, running |-> running, sees |-> states[op.state].sees]
  /\ queue' = <<>> /\ flying' = "no" /\ failed' = FALSE
  /\ op' = [op EXCEPT !.pc = "report", !.outcome = "ok"] /\ req' = NoReq
  /\ UNCHANGED <<vault, cand, states, writes, aborted, before>>

Discarded ==
  /\ op.pc = "discarding" /\ req.pc = "replied"
  /\ op' = [op EXCEPT !.pc = "finally"]
  /\ req' = NoReq /\ UNCHANGED <<states, machine>>
  /\ WindowStep

Finally ==
  /\ op.pc = "finally"
  /\ machine' = [machine EXCEPT !.running = op.running /\ ~failed]
  /\ op' = [op EXCEPT !.pc = "report"]
  /\ UNCHANGED <<states, req>>
  /\ WindowStep

Report ==
  /\ op.pc = "report"
  /\ op' = NoOp
  /\ UNCHANGED <<states, machine, req>>
  /\ WindowStep

\* The user's cancel: disk.cancel() while the listener is there.
UserCancels ==
  /\ ~Idle /\ op.pc # "report" /\ ~aborted
  /\ aborted' = TRUE
  /\ req' = [req EXCEPT !.cancelled = op.listening /\ req.pc # "none"]
  /\ UNCHANGED <<vault, cand, states, machine, bufferVars, writes, op, before>>

-----------------------------------------------------------------------------
(* The operation's request in the Worker.                                  *)

WorkerStep == UNCHANGED <<states, machine, bufferVars, writes, op, aborted, before>>
Answer(result) == req' = [req EXCEPT !.pc = "replied", !.result = result]
Thrown == IF req.seen THEN "cancelled" ELSE "error"

\* The cancel message, or the shared epoch, is noticed.
CancelSeen ==
  /\ req.cancelled /\ ~req.seen /\ req.pc # "replied"
  /\ req' = [req EXCEPT !.seen = TRUE]
  /\ UNCHANGED <<vault, cand>> /\ WorkerStep

\* prepareState drops the candidate of an earlier one before anything else.
BeginRequest ==
  /\ req.pc = "sent"
  /\ \/ req.seen /\ Answer("cancelled") /\ UNCHANGED cand
     \/ /\ ~req.seen
        /\ req' = [req EXCEPT !.pc = "running"]
        /\ cand' = IF req.name = "prepareState" THEN NoCand ELSE cand
  /\ UNCHANGED vault /\ WorkerStep

\* Decoding, reading or encoding fails, or a check sees the cancellation.
RequestFails ==
  /\ req.pc = "running" /\ req.name \in {"saveState", "prepareState"}
  /\ Answer(Thrown)
  /\ UNCHANGED <<vault, cand>> /\ WorkerStep

SaveStateReturns ==
  /\ req.pc = "running" /\ req.name = "saveState" /\ ~req.seen
  /\ Answer("ok")
  /\ UNCHANGED <<vault, cand>> /\ WorkerStep

\* fork_state makes an independent candidate, bound to the vault's revision.
PrepareReturns ==
  /\ req.pc = "running" /\ req.name = "prepareState" /\ ~req.seen
  /\ cand' = [on |-> TRUE, disk |-> states[op.state].disk, revision |-> vault.revision]
  /\ Answer("ok")
  /\ UNCHANGED vault /\ WorkerStep

\* Faulty: the candidate is dropped instead of adopted.
AdoptedNothing == vault
Adopted == [vault EXCEPT !.disk = cand.disk, !.revision = @ + 1]

\* Without a startup prefetch the commit goes on to reset the publication's.
Awaits == vault.remote

CommitReturns ==
  /\ req.pc = "running" /\ req.name = "commitState"
  /\ \/ /\ ~cand.on \/ cand.revision # vault.revision \/ req.seen
        /\ Answer(Thrown) /\ UNCHANGED <<vault, cand>>
     \/ /\ cand.on /\ cand.revision = vault.revision /\ ~req.seen
        /\ vault' = Adopted /\ cand' = NoCand
        /\ IF Awaits THEN req' = [req EXCEPT !.pc = "tail"] ELSE Answer("ok")
  /\ WorkerStep

\* await setLoadPrefetch: done, or failed by the transport or the cancellation.
CommitAwaited ==
  /\ req.pc = "tail"
  /\ \/ ~req.seen /\ Answer("ok")
     \/ Answer(Thrown)
  /\ UNCHANGED <<vault, cand>> /\ WorkerStep

DiscardReturns ==
  /\ req.pc = "running" /\ req.name = "discardState"
  /\ cand' = NoCand
  /\ Answer("ok")
  /\ UNCHANGED vault /\ WorkerStep

-----------------------------------------------------------------------------
Init ==
  /\ \E remote \in BOOLEAN : vault = [disk |-> <<>>, revision |-> 1, remote |-> remote]
  /\ cand = NoCand /\ states = <<>>
  /\ machine = NoMachine /\ queue = <<>> /\ flying = "no" /\ failed = FALSE
  /\ writes = 0 /\ op = NoOp /\ aborted = FALSE /\ req = NoReq /\ before = <<>>

SystemStep ==
  \/ PumpSends \/ WorkerWrites \/ WriteFails \/ PumpShifts
  \/ DrainReturns \/ SaveMemory \/ Prepare \/ RequestRejected \/ StateSaved
  \/ StatePrepared \/ MachineBuilt \/ Commit \/ StateCommitted \/ Discarded
  \/ Finally \/ Report
  \/ CancelSeen \/ BeginRequest \/ RequestFails \/ SaveStateReturns \/ PrepareReturns
  \/ CommitReturns \/ CommitAwaited \/ DiscardReturns

Next ==
  \/ SystemStep
  \/ Boot \/ GuestWrite \/ Retry \/ RetryRejected \/ Resume
  \/ StartCapture \/ (\E i \in DOMAIN states : StartRestore(i)) \/ UserCancels

\* Both event loops run and every request is answered.
Spec == Init /\ [][Next]_vars /\ WF_vars(SystemStep)

-----------------------------------------------------------------------------
(* Properties.                                                             *)

\* captureMachineState: memory and disk of a state file of a local disk are of
\* one moment.
CapturedTogether ==
  ~vault.remote => \A i \in DOMAIN states : states[i].sees = states[i].disk

\* disk-ui's message for a cancelled operation: the previous disk and its
\* pending changes are preserved.
CancelledPreserves ==
  (op.pc = "finally" /\ op.kind = "restore" /\ op.outcome = "cancelled")
    => vault.disk \o Unapplied = before

\* restoreMachineState, DiskBuffer: between operations on a local disk the disk
\* behind the machine, with the writes still queued, is the one its memory knows,
\* and wherever a cancel falls it leaves the disk of before (commitState).
MachineMatchesDisk ==
  ~vault.remote =>
    /\ Idle /\ machine.on => machine.sees = vault.disk \o Unapplied
    /\ CancelledPreserves

\* discardState: no candidate, with the keys and plaintext it holds, outlives
\* the restore it was prepared for.
NoCandidateLeft == Idle => ~cand.on

\* A capture or restore ends, also when the disk fails under it (drain).  One begun on a
\* queue that a rejected retry left without a pump does not: drain polls it for ever.
OperationEnds == ~Idle /\ flying # "stalled" ~> Idle

=============================================================================
