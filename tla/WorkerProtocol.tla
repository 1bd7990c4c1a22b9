--------------------------- MODULE WorkerProtocol ---------------------------
(***************************************************************************)
(* The request protocol between a window and its disk Worker: Slop86Disk   *)
(* of src/src/disk/web/client.js on one side, WorkerProtocol of            *)
(* worker-protocol.js on the other.  Requests are serialised; a cancel     *)
(* overtakes them, as a message and, where SharedArrayBuffer exists, as a  *)
(* number both sides see at once.  What an operation does is left to the   *)
(* modules of the engine: here it runs, and ends well or with an error.    *)
(***************************************************************************)
EXTENDS Integers, Sequences

CONSTANTS
  Calls,       \* calls the window makes, each once
  NoCall,      \* no request is active
  MaxCancels   \* bound: cancellations

ASSUME CallsAssumption == NoCall \notin Calls /\ MaxCancels \in Nat

VARIABLES
  shared,       \* the cancel epoch is in shared memory (cancelView)
  epoch,        \* Slop86Disk.cancelEpoch
  ready,        \* Slop86Disk.ready: "waiting", "ready" or "failed"
  closed,       \* Slop86Disk.closed
  call,         \* what became of each call
  made,         \* calls in the order they were made
  waiting,      \* calls that await ready, in that order
  toWorker,     \* messages posted and not handled yet
  inited,       \* WASM of the Worker: "starting", "ok" or "failed"
  cancelEpoch,  \* WorkerProtocol.cancelEpoch
  activeEpoch,  \* WorkerProtocol.activeEpoch
  chain,        \* WorkerProtocol.sequence: requests not begun yet
  run,          \* WorkerProtocol.activeRequest
  toWindow,     \* messages posted and not delivered yet
  alive         \* the Worker was not terminated

windowVars == <<epoch, ready, closed, call, made, waiting>>
workerVars == <<inited, cancelEpoch, activeEpoch, chain, run, alive>>
protocolVars == <<shared, windowVars, workerVars, toWorker, toWindow>>

NoRun == [id |-> NoCall, aborted |-> FALSE, startedAt |-> 0]
NotMade == [pc |-> "unborn", born |-> 0, closing |-> FALSE]
Settled(c) == call[c].pc \in {"ok", "cancelled", "error"}

ToWorker(m) == toWorker' = IF alive THEN Append(toWorker, m) ELSE toWorker
CancelMessage(e) == [op |-> "cancel", id |-> NoCall, epoch |-> e]
Reply(id, result) == [type |-> "reply", id |-> id, result |-> result]
Note(type) == [type |-> type, id |-> NoCall, result |-> type]

-----------------------------------------------------------------------------
(* Slop86Disk.                                                             *)

Made(c, closing) ==
  /\ call' = [call EXCEPT ![c] = [pc |-> "waiting", born |-> epoch', closing |-> closing]]
  /\ made' = Append(made, c) /\ waiting' = Append(waiting, c)

\* call: the epoch is the one of the moment of the call, not of the post.
Call(c) ==
  /\ call[c].pc = "unborn"
  /\ epoch' = epoch
  /\ Made(c, FALSE)
  /\ UNCHANGED <<shared, ready, closed, workerVars, toWorker, toWindow>>

\* Faulty: the epoch is read when the request is posted.
EpochOfPost(c) == epoch
EpochOf(c) == call[c].born

\* call continues after `await this.ready`.
Post ==
  /\ waiting # <<>> /\ ready = "ready" /\ ~closed
  /\ LET c == Head(waiting) IN
       /\ call' = [call EXCEPT ![c].pc = "pending"]
       /\ ToWorker([op |-> "call", id |-> c, epoch |-> EpochOf(c)])
  /\ waiting' = Tail(waiting)
  /\ UNCHANGED <<shared, epoch, ready, closed, made, workerVars, toWindow>>

\* postMessage throws: the arguments cannot be cloned.
PostThrows ==
  /\ waiting # <<>> /\ ready = "ready" /\ ~closed
  /\ call' = [call EXCEPT ![Head(waiting)].pc = "error"]
  /\ waiting' = Tail(waiting)
  /\ UNCHANGED <<shared, epoch, ready, closed, made, workerVars, toWorker, toWindow>>

\* ready was rejected, or the client was closed meanwhile.
Refused ==
  /\ waiting # <<>> /\ ready # "waiting" /\ (ready = "failed" \/ closed)
  /\ call' = [call EXCEPT ![Head(waiting)].pc = "error"]
  /\ waiting' = Tail(waiting)
  /\ UNCHANGED <<shared, epoch, ready, closed, made, workerVars, toWorker, toWindow>>

Cancel ==
  /\ epoch < MaxCancels
  /\ epoch' = epoch + 1
  /\ ToWorker(CancelMessage(epoch'))
  /\ UNCHANGED <<shared, ready, closed, call, made, waiting, workerVars, toWindow>>

\* close: cancel, then the close request; terminate follows its answer.
Close(c) ==
  /\ ~closed /\ call[c].pc = "unborn" /\ epoch < MaxCancels
  /\ epoch' = epoch + 1
  /\ ToWorker(CancelMessage(epoch'))
  /\ Made(c, TRUE)
  /\ UNCHANGED <<shared, ready, closed, workerVars, toWindow>>

\* Faulty: the promises of requests in flight are forgotten.
RejectedNone(l) == l
Rejected(l) == IF l.pc = "pending" THEN [l EXCEPT !.pc = "error"] ELSE l

\* fail: everything pending is rejected and the Worker terminated.
Fail ==
  /\ ready' = IF ready = "waiting" THEN "failed" ELSE ready
  /\ call' = [c \in Calls |-> Rejected(call[c])]
  /\ closed' = TRUE /\ alive' = FALSE /\ toWorker' = <<>>
  /\ UNCHANGED <<shared, epoch, made, waiting, inited, cancelEpoch, activeEpoch, chain, run>>

StartTimeout == ready = "waiting" /\ ~closed /\ Fail /\ UNCHANGED toWindow

\* onerror or onmessageerror.
WorkerFails == ~closed /\ Fail /\ UNCHANGED toWindow

Terminate ==
  /\ ~closed /\ \E c \in Calls : call[c].closing /\ Settled(c)
  /\ Fail /\ UNCHANGED toWindow

\* onmessage.
Deliver ==
  /\ toWindow # <<>> /\ toWindow' = Tail(toWindow)
  /\ LET m == Head(toWindow) IN
       \/ /\ m.type = "ready"
          /\ ready' = IF ready = "waiting" THEN "ready" ELSE ready
          /\ UNCHANGED <<shared, epoch, closed, call, made, waiting, workerVars, toWorker>>
       \/ m.type = "fatal" /\ Fail
       \/ /\ m.type = "reply"
          /\ call' = IF call[m.id].pc = "pending"
                     THEN [call EXCEPT ![m.id].pc = m.result] ELSE call
          /\ UNCHANGED <<shared, epoch, ready, closed, made, waiting, workerVars, toWorker>>

-----------------------------------------------------------------------------
(* WorkerProtocol.                                                         *)

Initialized ==
  /\ alive /\ inited = "starting"
  /\ \/ inited' = "ok" /\ toWindow' = Append(toWindow, Note("ready"))
     \/ inited' = "failed" /\ toWindow' = Append(toWindow, Note("fatal"))
  /\ UNCHANGED <<shared, windowVars, toWorker, cancelEpoch, activeEpoch, chain, run, alive>>

CancelledAt(e) == e # cancelEpoch \/ (shared /\ e # epoch)

Abort == [run EXCEPT !.aborted = run.id # NoCall]

\* Faulty: the latest request is begun first.
ChainedFirst(m) == <<m>> \o chain
Chained(m) == Append(chain, m)

\* handle: a cancel acts at once, a request waits for the ones before it.
Handle ==
  /\ alive /\ toWorker # <<>> /\ toWorker' = Tail(toWorker)
  /\ LET m == Head(toWorker) IN
       \/ /\ m.op = "cancel"
          /\ cancelEpoch' = m.epoch /\ run' = Abort /\ UNCHANGED chain
       \/ /\ m.op = "call"
          /\ chain' = Chained(m) /\ UNCHANGED <<cancelEpoch, run>>
  /\ UNCHANGED <<shared, windowVars, inited, activeEpoch, alive, toWindow>>

Adopt(e) == activeEpoch' = e

\* What an error is answered as.
ErrorAt(e) == IF CancelledAt(e) THEN "cancelled" ELSE "error"

Begin ==
  /\ alive /\ run.id = NoCall /\ chain # <<>> /\ inited # "starting"
  /\ chain' = Tail(chain)
  /\ LET m == Head(chain) IN
       \/ /\ inited = "failed"
          /\ toWindow' = Append(toWindow, Reply(m.id, ErrorAt(activeEpoch)))
          /\ UNCHANGED <<activeEpoch, run>>
       \/ /\ inited = "ok" /\ Adopt(m.epoch)
          /\ \/ /\ CancelledAt(activeEpoch')
                /\ toWindow' = Append(toWindow, Reply(m.id, "cancelled"))
                /\ UNCHANGED run
             \/ /\ ~CancelledAt(activeEpoch')
                /\ run' = [run EXCEPT !.id = m.id,
                                      !.startedAt = IF shared THEN epoch ELSE cancelEpoch]
                /\ UNCHANGED toWindow
  /\ UNCHANGED <<shared, windowVars, toWorker, inited, cancelEpoch, alive>>

EndRun == run' = NoRun

\* execute returned or threw; one of its checks may have seen the cancellation.
Finish ==
  /\ alive /\ run.id # NoCall
  /\ \E result \in {"ok", ErrorAt(activeEpoch)} :
       toWindow' = Append(toWindow, Reply(run.id, result))
  /\ EndRun
  /\ UNCHANGED <<shared, windowVars, toWorker, inited, cancelEpoch, activeEpoch, chain, alive>>

-----------------------------------------------------------------------------
ProtocolInit ==
  /\ shared \in BOOLEAN
  /\ epoch = 0 /\ ready = "waiting" /\ closed = FALSE
  /\ call = [c \in Calls |-> NotMade] /\ made = <<>> /\ waiting = <<>>
  /\ toWorker = <<>> /\ toWindow = <<>>
  /\ inited = "starting" /\ cancelEpoch = 0 /\ activeEpoch = 0
  /\ chain = <<>> /\ run = NoRun /\ alive = TRUE

ProtocolNext ==
  \/ \E c \in Calls : Call(c) \/ Close(c)
  \/ Post \/ PostThrows \/ Refused \/ Cancel \/ StartTimeout \/ WorkerFails \/ Terminate \/ Deliver
  \/ Initialized \/ Handle \/ Begin \/ Finish

\* Event loops run, the start timer fires, and an operation that began returns;
\* the Worker need not ever start.
Fairness ==
  /\ WF_protocolVars(Post) /\ WF_protocolVars(Refused) /\ WF_protocolVars(StartTimeout) /\ WF_protocolVars(Terminate)
  /\ WF_protocolVars(Deliver) /\ WF_protocolVars(Handle) /\ WF_protocolVars(Begin) /\ WF_protocolVars(Finish)

ProtocolSpec == ProtocolInit /\ [][ProtocolNext]_protocolVars /\ Fairness

-----------------------------------------------------------------------------
(* Properties.                                                             *)

\* call, handle: an operation never begins for a call made before a cancel that
\* the Worker could know of, even if the call was still waiting to be posted; and
\* a cancel never hits a later call, neither by its answer nor by the abort signal.
CancelledNeverBegins ==
  /\ run.id # NoCall => run.startedAt = call[run.id].born
  /\ \A c \in Calls : call[c].pc = "cancelled" => call[c].born < epoch
  /\ run.aborted => run.id # NoCall /\ call[run.id].born < epoch

Index(c) == CHOOSE i \in DOMAIN made : made[i] = c
Queued(seq, c) == \E i \in DOMAIN seq : seq[i].id = c
NotBegun(c) ==
  (\E i \in DOMAIN waiting : waiting[i] = c) \/ Queued(toWorker, c) \/ Queued(chain, c)

\* sequence: requests begin in the order the calls were made, cancels or not.
InOrder ==
  alive /\ run.id # NoCall =>
    \A c \in Calls : call[c].pc # "unborn" /\ NotBegun(c) => Index(run.id) < Index(c)

\* Every call's promise is settled, whatever happens to the Worker.
EveryCallSettles == \A c \in Calls : call[c].pc # "unborn" ~> Settled(c)

=============================================================================
