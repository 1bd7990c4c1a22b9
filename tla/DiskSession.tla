----------------------------- MODULE DiskSession -----------------------------
(***************************************************************************)
(* One disk session: the page's operations (src/src/browser/disk-ui.js with *)
(* the availability of disk-controls.js), the DiskSession that runs them,  *)
(* the virtual machine of win98.js, and what each request does to the      *)
(* vault, the sources and the analysis of the Worker                       *)
(* (src/src/disk/web/worker.js).                                           *)
(*                                                                         *)
(* run() admits one operation at a time, and a cancel only makes one of    *)
(* its requests fail: every request may fail, at each of its awaits, and   *)
(* so may the requests that clean up after a failure (cancelLoadAnalysis)  *)
(* or describe the disk after it.  The guest, its disk adapter, the pause  *)
(* button and the analysis event go on beside the operation.  Disk         *)
(* contents are those of DiskEngine; here an image is the source it reads  *)
(* from and whether writes are pending.                                    *)
(***************************************************************************)
EXTENDS Naturals, FiniteSets

CONSTANTS
  Sources,   \* ids of the Worker's sources map, of which only those in use count
  Adapters,  \* DiskBuffers of the page, likewise
  None

ASSUME SessionAssumption == None \notin Sources /\ None \notin Adapters

VARIABLES
  page,      \* DiskSession: client, description, active, analyzing, prepared, adapter
  op,        \* the operation of run() and its next step
  machine,   \* the emulator of win98.js
  adapter,   \* of each DiskBuffer: "none", "ok", "failed", "disposed", or "stalled": a
             \* retry was rejected, and its queue waits for nobody
  vault,     \* "none", "rw" or "ro"
  image,     \* the source the engine reads
  dirty,     \* whether the engine has pending writes
  current,   \* the Worker's current source
  sources,   \* ids of the sources map
  remote,    \* those that are publications
  prepared,  \* the source the prepared download was made of
  analysis,  \* bootAnalysis: "none", "on" or "over"
  lost,      \* history: the request that was to end the analysis was rejected, and
             \* the page took it for ended
  fresh,     \* freshRestore
  candidate, \* whether a state candidate is held
  overflow,  \* the page was told of the overflow and its cancel is under way
  mishap     \* history: what restores that failed late have left changed, of
             \* "commit" (the disk) and "exchange" (the machine)

engine == <<vault, image, dirty>>
files == <<current, sources, remote, prepared>>
loads == <<analysis, lost>>
recording == <<loads, fresh, candidate>>
vars == <<page, op, machine, adapter, engine, files, recording, overflow, mishap>>

NoPage == [client |-> "none", open |-> FALSE, remote |-> FALSE, dirty |-> FALSE, active |-> FALSE,
           analyzing |-> FALSE, prepared |-> FALSE, adapter |-> None]
NoMachine == [on |-> FALSE, adapter |-> None, running |-> FALSE, blocked |-> FALSE]
Idle == [name |-> "idle", analyze |-> FALSE, step |-> "none", next |-> None, running |-> FALSE]

Init ==
  /\ page = NoPage /\ op = Idle /\ machine = NoMachine
  /\ adapter = [a \in Adapters |-> "none"]
  /\ vault = "none" /\ image = None /\ dirty = FALSE
  /\ current = None /\ sources = {} /\ remote = {} /\ prepared = None
  /\ analysis = "none" /\ lost = FALSE /\ fresh = FALSE /\ candidate = FALSE
  /\ overflow = FALSE /\ mishap = {}

-----------------------------------------------------------------------------
(* Availability, and the ends of an operation.                             *)

Free == op = Idle
Failing == page.adapter # None /\ adapter[page.adapter] = "failed"
\* Which controls an idle page offers.
diskControls ==
  LET p == page IN
  [create |-> p.client = "rw" /\ ~p.open,
   boot |-> p.open /\ ~p.active /\ ~Failing,
   save |-> p.client = "rw" /\ p.open /\ p.active /\ ~Failing /\ ~p.analyzing,
   download |-> p.open /\ ~p.dirty /\ ~p.analyzing,
   verify |-> p.open /\ ~p.analyzing,         \* also discard, clear-cache and load-state
   resumeState |-> p.remote /\ ~p.active /\ ~p.analyzing /\ ~Failing,
   analyzeBoot |-> p.remote /\ ~p.dirty /\ ~p.analyzing,
   analyzeState |-> p.remote /\ ~p.analyzing,
   resume |-> Failing]
\* describe(): what the page learns of the disk.
Described(p) == [p EXCEPT !.open = TRUE, !.remote = current' \in remote', !.dirty = dirty']

Ends == op' = Idle
\* An id nobody refers to; the code never uses one twice.
NewSource == Sources \ (sources \cup {image, current, prepared})
Disposed(f, a) == IF a = None THEN f ELSE [f EXCEPT ![a] = "disposed"]
\* An adapter nobody refers to is garbage.
NewAdapter == {a \in Adapters : a \notin {page.adapter, machine.adapter, op.next}}
\* The requests an analysis makes the Worker refuse (save, discard, prepareState...).
Accepts == analysis = "none"
Closed == [NoMachine EXCEPT !.adapter = machine.adapter]
Stopped == [machine EXCEPT !.running = FALSE]

-----------------------------------------------------------------------------
(* Identities and disks.                                                   *)

Unlocked == page' = [page EXCEPT !.client = "rw"] /\ vault' = "rw"
\* The login: unlock, then openRemote as the next request.
Login ==
  /\ Free /\ page.client = "none"
  /\ Unlocked
  /\ op' = [Idle EXCEPT !.name = "login", !.step = "openRemote"]
  /\ UNCHANGED <<machine, adapter, image, dirty, files, recording, overflow, mishap>>

OpenRemoteFails ==
  /\ op.step = "openRemote" /\ Ends
  /\ UNCHANGED <<page, machine, adapter, engine, files, recording, overflow, mishap>>

\* The vault opened it, then the check or startPrefetch failed: the source is
\* removed, the image stays, and the page shows no disk.
OpenRemoteFailsLate ==
  /\ op.step = "openRemote" /\ Ends /\ Accepts
  /\ \E id \in NewSource :
       /\ image' = id /\ dirty' = FALSE
       /\ current' \in {current, id}
       /\ prepared' = IF current' = id THEN None ELSE prepared
  /\ UNCHANGED <<page, machine, adapter, vault, sources, remote, recording, overflow, mishap>>

OpenRemote ==
  /\ op.step = "openRemote" /\ Ends /\ Accepts
  /\ \E id \in NewSource :
       /\ image' = id /\ current' = id /\ dirty' = FALSE /\ prepared' = None
       /\ sources' = (sources \cup {id}) \ {current} /\ remote' = {id}
  /\ page' = Described([page EXCEPT !.prepared = FALSE])
  /\ UNCHANGED <<machine, adapter, vault, recording, overflow, mishap>>

\* The read key opens the publication in one request; a failure leaves nothing.
OpenedReadOnly(id) ==
  /\ vault' = "ro" /\ image' = id /\ current' = id /\ dirty' = FALSE /\ prepared' = None
  /\ sources' = {id} /\ remote' = {id}
Reader ==
  /\ Free /\ page.client = "none"
  /\ \E id \in NewSource : OpenedReadOnly(id)
  /\ page' = Described([page EXCEPT !.client = "ro"])
  /\ UNCHANGED <<op, machine, adapter, recording, overflow, mishap>>

\* build() was accepted: the new file is the current source, the previous one goes.
Accepted(id) ==
  /\ image' = id /\ current' = id /\ prepared' = id /\ dirty' = FALSE
  /\ sources' = (sources \ {current}) \cup {id} /\ remote' = {}
  /\ fresh' = FALSE

\* createFromImage and createEmpty; the engine refuses while it has an image.
\* A new file is offered at once.
Offered(p) == [p EXCEPT !.prepared = TRUE]
Create ==
  /\ Free /\ diskControls.create /\ Accepts /\ image = None
  /\ \E id \in NewSource : Accepted(id)
  /\ page' = Described(Offered(page))
  /\ UNCHANGED <<op, machine, adapter, vault, loads, candidate, overflow, mishap>>

\* A local file.
Open ==
  /\ Free /\ diskControls.create /\ Accepts /\ image = None
  /\ \E id \in NewSource :
       /\ image' = id /\ current' = id /\ prepared' = None /\ dirty' = FALSE
       /\ sources' = (sources \ {current}) \cup {id} /\ remote' = {}
  /\ fresh' = FALSE
  /\ page' = Described([page EXCEPT !.prepared = FALSE])
  /\ UNCHANGED <<op, machine, adapter, vault, loads, candidate, overflow, mishap>>

-----------------------------------------------------------------------------
(* Booting.                                                                *)

Boot(analyze) ==
  /\ Free
  /\ IF analyze THEN diskControls.analyzeBoot ELSE diskControls.boot
  /\ op' = [Idle EXCEPT !.name = "boot", !.analyze = analyze,
                        !.step = IF analyze THEN "analysis" ELSE "reads"]
  /\ UNCHANGED <<page, machine, adapter, engine, files, recording, overflow, mishap>>

\* startLoadAnalysis of a boot.
BootAnalyzes ==
  /\ op.name = "boot" /\ op.step = "analysis"
  /\ ~overflow /\ analysis = "none" /\ current \in remote /\ ~dirty
  /\ analysis' = "on" /\ fresh' = FALSE /\ UNCHANGED lost
  /\ page' = [page EXCEPT !.analyzing = TRUE]
  /\ op' = [op EXCEPT !.step = "reads"]
  /\ UNCHANGED <<machine, adapter, engine, files, candidate, overflow, mishap>>

\* setLoadPrefetch and the first sector.
BootReads ==
  /\ op.name = "boot" /\ op.step = "reads"
  /\ fresh' = FALSE
  /\ op' = [op EXCEPT !.step = "machine"]
  /\ UNCHANGED <<page, machine, adapter, engine, files, loads, candidate, overflow, mishap>>

\* The adapter and the machine are replaced by new ones.
BootMachine ==
  /\ op.name = "boot" /\ op.step = "machine" /\ Ends
  /\ \E a \in NewAdapter :
       /\ adapter' = [Disposed(adapter, page.adapter) EXCEPT ![a] = "ok"]
       /\ machine' = [on |-> TRUE, adapter |-> a, running |-> TRUE, blocked |-> FALSE]
       /\ page' = [page EXCEPT !.adapter = a, !.active = TRUE]
  /\ mishap' = mishap \ {"exchange"}
  /\ UNCHANGED <<engine, files, recording, overflow>>

Cleared == analysis' = "none" /\ lost' = FALSE
\* The request of a catch block.  The page forgets the analysis even if the request is
\* rejected (a Cancel before the Worker begins it), and then the Worker goes on with it.
cancelLoadAnalysis == Cleared \/ (UNCHANGED analysis /\ lost' = (analysis # "none"))
NotRecording(p) == [p EXCEPT !.analyzing = @ /\ ~op.analyze]

\* A fault: the catch block sends no request.
BootEndsAnalysisNot == UNCHANGED loads
\* The catch block of boot.
BootEndsAnalysis == IF op.analyze THEN cancelLoadAnalysis ELSE UNCHANGED loads

\* Any of the steps fails, the last one with the old machine gone.
BootFails ==
  /\ op.name = "boot" /\ Ends
  /\ BootEndsAnalysis
  /\ \/ page' = NotRecording(page) /\ UNCHANGED <<machine, adapter>>
     \/ /\ op.step = "machine"
        /\ \E a \in NewAdapter :
             /\ adapter' = [Disposed(adapter, page.adapter) EXCEPT ![a] = "ok"]
             /\ machine' = [NoMachine EXCEPT !.adapter = a]
             /\ page' = [NotRecording(page) EXCEPT !.adapter = a]
  /\ UNCHANGED <<engine, files, fresh, candidate, overflow, mishap>>

-----------------------------------------------------------------------------
(* Restoring a state, published or from a file.                            *)

Restore(published, analyze) ==
  /\ Free
  /\ CASE analyze -> diskControls.analyzeState
       [] published /\ ~analyze -> diskControls.resumeState
       [] OTHER -> diskControls.verify
  /\ machine' = Stopped
  /\ op' = [Idle EXCEPT !.name = "restore", !.analyze = analyze, !.step = "prepare", !.running = machine.running]
  /\ UNCHANGED <<page, adapter, engine, files, recording, overflow, mishap>>

\* prepareState, then the new machine over the candidate.
RestorePrepares ==
  /\ op.step = "prepare" /\ Accepts
  /\ machine.on => adapter[machine.adapter] = "ok"
  /\ candidate' = TRUE
  /\ \E a \in NewAdapter :
       /\ op' = [op EXCEPT !.step = "commit", !.next = a]
       /\ adapter' = [adapter EXCEPT ![a] = "ok"]
  /\ UNCHANGED <<page, machine, engine, files, loads, fresh, overflow, mishap>>

\* The vault is replaced by the candidate on the same source.
Swapped ==
  /\ candidate /\ candidate' = FALSE
  /\ dirty' \in BOOLEAN /\ fresh' = TRUE /\ prepared' = None
  /\ UNCHANGED <<vault, image, current, sources, remote, loads>>

RestoreCommits ==
  /\ op.step = "commit"
  /\ Swapped
  /\ op' = [op EXCEPT !.step = "exchange"]
  /\ UNCHANGED <<page, machine, adapter, overflow, mishap>>

\* The rest of withStateOperation, whose describe() may be rejected, and of the analyze
\* button after an error.
AfterError(p) == {NotRecording(p), Described(NotRecording(p))}
EndsAnalysis == IF op.analyze THEN cancelLoadAnalysis ELSE UNCHANGED loads

GoesOn == [machine EXCEPT !.running = op.running /\ adapter[machine.adapter] = "ok"]
\* It fails before the commit: the candidate is discarded, the old machine goes on.
RestoreFails ==
  /\ op.name = "restore" /\ op.step \in {"prepare", "commit"} /\ Ends
  /\ candidate' = FALSE
  /\ adapter' = Disposed(adapter, op.next)
  /\ machine' = GoesOn
  /\ EndsAnalysis
  /\ UNCHANGED <<engine, files, fresh, overflow, mishap>>
  /\ page' \in AfterError(page)

\* commitState rejects after it has replaced the vault.
RestoreFailsCommitted ==
  /\ op.step = "commit" /\ Ends
  /\ candidate /\ candidate' = FALSE
  /\ dirty' \in BOOLEAN /\ fresh' = TRUE /\ prepared' = None
  /\ adapter' = Disposed(adapter, op.next)
  /\ machine' = GoesOn
  /\ EndsAnalysis
  /\ mishap' = mishap \cup {"commit"}
  /\ UNCHANGED <<vault, image, current, sources, remote, overflow>>
  /\ page' \in AfterError(page)

\* The machines are exchanged; the old adapter is disposed of.
RestoreExchanges ==
  /\ op.step = "exchange"
  /\ adapter' = Disposed(adapter, machine.adapter)
  /\ machine' = [on |-> TRUE, adapter |-> op.next, running |-> FALSE, blocked |-> FALSE]
  /\ op' = [op EXCEPT !.step = IF op.analyze THEN "record" ELSE "prefetch", !.next = None]
  /\ UNCHANGED <<page, engine, files, recording, overflow, mishap>>

\* startLoadAnalysis of a restored state.
RestoreRecords ==
  /\ op.step = "record"
  /\ ~overflow /\ analysis = "none" /\ current \in remote /\ fresh
  /\ analysis' = "on" /\ fresh' = FALSE /\ UNCHANGED lost
  /\ op' = [op EXCEPT !.step = "prefetch"]
  /\ UNCHANGED <<page, machine, adapter, engine, files, candidate, overflow, mishap>>

\* A fault: the prepared download of before is still offered.
RestoredKeeps(p) == [p EXCEPT !.adapter = machine.adapter, !.active = TRUE, !.analyzing = op.analyze]
\* restoreState of DiskSession, after the host's.
Restored(p) == [RestoredKeeps(p) EXCEPT !.prepared = FALSE]

\* The state is restored; when describe() is rejected the button takes it for an error.
RestoreDone ==
  /\ op.step = "prefetch" /\ Ends
  /\ \E running \in BOOLEAN : machine' = [machine EXCEPT !.running = running \/ op.analyze]
  /\ UNCHANGED <<adapter, engine, files, fresh, candidate, overflow>>
  /\ mishap' = {}
  /\ \/ UNCHANGED loads /\ page' = Described(Restored(page))
     \/ EndsAnalysis /\ page' = Described(NotRecording(Restored(page)))

\* It fails after the exchange: the session keeps the adapter of the old machine.
RestoreFailsExchanged ==
  /\ op.step \in {"record", "prefetch"} /\ Ends
  /\ EndsAnalysis
  /\ mishap' = {"commit", "exchange"}
  /\ UNCHANGED <<machine, adapter, engine, files, fresh, candidate, overflow>>
  /\ page' \in AfterError(page)

\* saveMachineState: the machine stops and goes on, the page describes the disk.  It
\* never ends over a stalled adapter.
SaveState ==
  /\ Free /\ diskControls.save
  /\ machine.on => adapter[machine.adapter] # "stalled"
  /\ UNCHANGED <<op, machine, adapter, engine, files, recording, overflow, mishap>>
  /\ page' \in {page, Described(page)}

-----------------------------------------------------------------------------
(* Operations on the disk, each of which stops the machine first.          *)

Save ==
  /\ Free /\ diskControls.save
  /\ machine' = Stopped
  /\ op' = [Idle EXCEPT !.name = "save", !.step = "save"]
  /\ UNCHANGED <<page, adapter, engine, files, recording, overflow, mishap>>

\* A fault: the file before stays in the map.
SaveAcceptedKeeps(id) ==
  /\ image' = id /\ current' = id /\ prepared' = id /\ dirty' = FALSE
  /\ sources' = sources \cup {id} /\ remote' = {} /\ fresh' = FALSE
SaveAccepted(id) == Accepted(id)

AcceptUnchanged == dirty' = FALSE /\ UNCHANGED <<image, files, fresh>>
\* The pending writes equal the original, or a new file replaces it.
SaveDone ==
  /\ op.step = "save" /\ Ends /\ Accepts
  /\ \/ /\ AcceptUnchanged
        /\ page' = Described(page)
     \/ /\ \E id \in NewSource : SaveAccepted(id)
        /\ page' = Described(Offered(page))
  /\ UNCHANGED <<machine, adapter, vault, loads, candidate, overflow, mishap>>

\* It fails before the new file is accepted, or when the previous one is closed.
SaveFails ==
  /\ op.step = "save" /\ Ends
  /\ \/ UNCHANGED <<image, dirty, files, fresh>>
     \/ Accepts /\ \E id \in NewSource : SaveAccepted(id)
  /\ UNCHANGED <<page, machine, adapter, vault, loads, candidate, overflow, mishap>>

Download ==
  /\ Free /\ diskControls.download
  /\ machine' = Stopped
  /\ op' = [Idle EXCEPT !.name = "download", !.step = "download"]
  /\ UNCHANGED <<page, adapter, engine, files, recording, overflow, mishap>>

\* The Worker refuses when the guest has written since the page was described.
DownloadDone ==
  /\ op.step = "download" /\ Ends
  /\ IF ~Accepts \/ dirty \/ current \notin sources THEN UNCHANGED <<page, prepared>>
     ELSE /\ page' \in {page, Offered(page)}
          /\ prepared' = IF page'.prepared /\ prepared = None THEN current ELSE prepared
  /\ UNCHANGED <<machine, adapter, engine, current, sources, remote, recording, overflow, mishap>>

\* verifyImage and clearCaches leave the machine stopped.
VerifyOrClear ==
  /\ Free /\ diskControls.verify
  /\ machine' = Stopped
  /\ UNCHANGED <<page, op, adapter, engine, files, recording, overflow, mishap>>

\* A fault: the writes are discarded under a machine that goes on.
DiscardClosesNot ==
  /\ page' = [page EXCEPT !.active = FALSE, !.adapter = None] /\ UNCHANGED <<machine, adapter>>
\* discardWrites closes an active machine.
DiscardCloses ==
  IF page.active
  THEN /\ page' = [page EXCEPT !.active = FALSE, !.adapter = None]
       /\ machine' = Closed
       /\ adapter' = Disposed(adapter, page.adapter)
  ELSE UNCHANGED <<page, machine, adapter>>

Discard ==
  /\ Free /\ diskControls.verify
  /\ DiscardCloses
  /\ op' = [Idle EXCEPT !.name = "discard", !.step = "discard"]
  /\ UNCHANGED <<engine, files, recording, overflow, mishap>>

\* The discard is done before setLoadPrefetch, which may fail the request.
DiscardDone ==
  /\ op.step = "discard" /\ Ends
  /\ UNCHANGED <<machine, adapter, vault, image, files, loads, candidate, overflow, mishap>>
  /\ IF Accepts THEN dirty' = FALSE /\ fresh' = FALSE /\ page' \in {page, Described(page)}
     ELSE UNCHANGED <<dirty, fresh, page>>

\* The identity is closed: the Worker ends with everything it held.
Close ==
  /\ Free /\ page.client # "none"
  /\ page' = NoPage /\ machine' = NoMachine /\ adapter' = Disposed(adapter, page.adapter)
  /\ vault' = "none" /\ image' = None /\ dirty' = FALSE
  /\ current' = None /\ sources' = {} /\ remote' = {} /\ prepared' = None
  /\ Cleared /\ fresh' = FALSE /\ candidate' = FALSE
  /\ overflow' = FALSE /\ mishap' = {}
  /\ UNCHANGED op

-----------------------------------------------------------------------------
(* The analysis.                                                           *)

NotAnalyzing == [page EXCEPT !.analyzing = FALSE]
HasProfile == analysis = "on"
\* "Stop analyzing": an analysis that overflowed has no profile.
FinishAnalysis ==
  /\ Free /\ page.analyzing
  /\ IF HasProfile THEN Cleared /\ page' = NotAnalyzing ELSE UNCHANGED <<loads, page>>
  /\ UNCHANGED <<op, machine, adapter, engine, files, fresh, candidate, overflow, mishap>>

\* The Cancel button: of a run() that sets capturing or withStateOperation, those of one
\* step (verify, clear-cache, save-state) included.
CancelOffered == IF Free THEN diskControls.verify ELSE op.name # "discard"
\* The page cancels it by itself, beside any operation.  Both message directions are
\* in order, so the cancel is executed before a startLoadAnalysis posted after it; when
\* it is rejected the page only says so.
OverflowCancels ==
  /\ overflow /\ overflow' = FALSE
  /\ \/ Cleared /\ page' = NotAnalyzing
     \/ CancelOffered /\ UNCHANGED <<loads, page>>
  /\ UNCHANGED <<op, machine, adapter, engine, files, fresh, candidate, mishap>>

-----------------------------------------------------------------------------
(* The guest.                                                              *)

Reaches == machine.on /\ machine.running /\ adapter[machine.adapter] = "ok" /\ image \in sources

\* One distinct block too many; only a session with an identity has a handler for it.
Overflows ==
  analysis = "on" /\ analysis' = "over" /\ UNCHANGED lost /\ overflow' = (vault = "rw")

GuestReads ==
  /\ Reaches
  /\ fresh' = FALSE
  /\ UNCHANGED <<loads, overflow>> \/ Overflows
  /\ UNCHANGED <<page, op, machine, adapter, engine, files, candidate, mishap>>

GuestWrites ==
  /\ Reaches
  /\ dirty' = TRUE /\ fresh' = FALSE
  /\ UNCHANGED <<page, op, machine, adapter, vault, image, files, loads, candidate, overflow, mishap>>

Blocked == [machine EXCEPT !.running = FALSE, !.blocked = TRUE]
\* A request of the adapter fails: onDiskError stops the machine.
DiskFails ==
  /\ machine.on /\ adapter[machine.adapter] = "ok"
  /\ adapter' = [adapter EXCEPT ![machine.adapter] = "failed"]
  /\ machine' = Blocked
  /\ UNCHANGED <<page, op, engine, files, recording, overflow, mishap>>

Resumed == [machine EXCEPT !.blocked = FALSE, !.running = machine.on]
\* retryAdapter: the queue is pumped again, and the machine goes on.
RetryAdapter ==
  /\ Free /\ diskControls.resume
  /\ adapter' = [adapter EXCEPT ![page.adapter] = "ok"]
  /\ machine' = Resumed
  /\ UNCHANGED <<page, op, engine, files, recording, overflow, mishap>>

\* retry() has cleared the failure when resumePrefetch is rejected: Retry is no longer
\* offered, the queue not pumped, the machine still stopped.
RetryRejected ==
  /\ Free /\ diskControls.resume /\ current \in remote
  /\ adapter' = [adapter EXCEPT ![page.adapter] = "stalled"]
  /\ UNCHANGED <<page, op, machine, engine, files, recording, overflow, mishap>>

Pause ==
  /\ Free /\ machine.on /\ ~machine.blocked
  /\ machine' = [machine EXCEPT !.running = ~@]
  /\ UNCHANGED <<page, op, adapter, engine, files, recording, overflow, mishap>>

Next ==
  \/ Login \/ OpenRemoteFails \/ OpenRemoteFailsLate \/ OpenRemote \/ Reader \/ Create \/ Open
  \/ \E analyze \in BOOLEAN :
       Boot(analyze) \/ \E published \in BOOLEAN : Restore(published, analyze)
  \/ BootAnalyzes \/ BootReads \/ BootMachine \/ BootFails
  \/ RestorePrepares \/ RestoreCommits \/ RestoreFails \/ RestoreFailsCommitted \/ RestoreExchanges
  \/ RestoreRecords \/ RestoreDone \/ RestoreFailsExchanged \/ SaveState
  \/ Save \/ SaveDone \/ SaveFails \/ Download \/ DownloadDone \/ VerifyOrClear \/ Discard \/ DiscardDone
  \/ Close \/ FinishAnalysis \/ OverflowCancels
  \/ GuestReads \/ GuestWrites \/ DiskFails \/ RetryAdapter \/ RetryRejected \/ Pause

Spec == Init /\ [][Next]_vars

-----------------------------------------------------------------------------
(* Properties.                                                             *)

\* The machine on the screen works on the session's own adapter, so that Retry,
\* Discard and Close reach it, and while its disk has stopped it Retry is offered;
\* restores that failed after the exchange, and a retry that was rejected, excepted.
SessionOwnsMachine ==
  Free /\ "exchange" \notin mishap /\ machine.on =>
    /\ page.active /\ page.adapter = machine.adapter /\ adapter[machine.adapter] # "disposed"
    /\ machine.blocked => diskControls.resume \/ adapter[machine.adapter] = "stalled"

\* A disk the page shows is readable: the engine's image, the current source and
\* the sources map agree after every save, restore and failure, and nothing else
\* is left in the map.
SourcesAgree ==
  /\ page.open /\ op.name # "login" => image = current /\ current \in sources
  /\ sources \subseteq {current}

\* Once its operation is over the page records exactly when the Worker does, but for an
\* analysis the page gave up with a request that was rejected: that one, and no other,
\* goes on unseen, and no finish, overflow, failed boot or restore makes it the page's.
AnalysisAgrees ==
  /\ lost => ~page.analyzing
  /\ Free => (analysis # "none" <=> page.analyzing \/ lost)

\* What Retry hands out is the file of the current disk, and while the page offers
\* it the Worker has it; restores that failed after the commit excepted.
PreparedIsCurrent ==
  /\ prepared \in {None, current}
  /\ Free /\ "commit" \notin mishap /\ page.prepared => prepared # None

=============================================================================
