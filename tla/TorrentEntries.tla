--------------------------- MODULE TorrentEntries ---------------------------
(***************************************************************************)
(* The life of one component's torrent in the window: open, discoverMetadata, *)
(* add, recover, cancel, remove, clearCaches and close of WindowTorrents   *)
(* (src/src/disk/web/torrent-window.js), called through TorrentPort and    *)
(* WindowTorrentPort (torrent-port.js).                                    *)
(*                                                                         *)
(* Components do not share state, so one infohash is modelled.  WebTorrent *)
(* is external: destroy() marks a torrent destroyed at once and calls back *)
(* later; client.add makes another torrent.  cancel() aborts every opening *)
(* job, so the epoch that jobs compare is the abort of the job here.       *)
(* Callbacks that follow a settled promise run before the next event.      *)
(***************************************************************************)
EXTENDS Naturals, FiniteSets

CONSTANTS
  Callers,   \* requests of the Worker, one call each
  Startup,   \* those of a startup prefetch: their signal reaches transport.open
  Recovery,  \* the shared recovery, which opens without a signal
  Torrents,  \* bound: WebTorrent objects not yet closed
  None

ASSUME EntriesAssumption ==
  /\ Startup \subseteq Callers /\ Recovery \notin Callers /\ None \notin Torrents

VARIABLES
  call,      \* the requests, as the Worker sees them and as the window runs them
  job,       \* the opening job of openingJobs
  entry,     \* the entry of entries: its torrent and error
  torrent,   \* what WebTorrent holds for this hash
  recovering,\* the shared promise of recover
  known,     \* whether componentMetadata has the hash
  clearing,  \* where clearCaches awaits
  closing,   \* where close awaits
  cancelled  \* whether cancel, clearCaches or close was called

vars == <<call, job, entry, torrent, recovering, known, clearing, closing, cancelled>>

NoCall == [worker |-> "idle", window |-> "idle", left |-> FALSE]
NoJob == [pc |-> "none", aborted |-> FALSE, found |-> FALSE,
          probe |-> None, waiters |-> {}]
NoEntry == [t |-> None, error |-> "none"]
NoRecovery == [pc |-> "none", t |-> None]
NoClosing == [pc |-> "none", t |-> None]

Live(t) == torrent[t].st = "live"
Pending(c) == call[c].worker = "pending"
Off == clearing.pc # "none" \/ closing.pc # "none"

Init ==
  /\ call = [c \in Callers |-> NoCall]
  /\ job = NoJob /\ entry = NoEntry /\ recovering = NoRecovery
  /\ torrent = [t \in Torrents |-> [st |-> "none", kind |-> "none"]]
  /\ known = FALSE /\ clearing = NoClosing /\ closing = NoClosing /\ cancelled = FALSE

-----------------------------------------------------------------------------
(* The port: a reply settles a request that is still pending.              *)

\* The requests in w get their answer; one that the Worker gave up is ignored.
Answered(f, w, how) ==
  [c \in Callers |->
     IF c \in w
     THEN [f[c] EXCEPT !.window = "done", !.worker = IF @ = "pending" THEN how ELSE @]
     ELSE f[c]]

\* The recovery is over: its callers, which wait in the window, are answered.
Recovered(f, how) ==
  Answered(f, {c \in Callers : f[c].window = "recovering"}, how)

-----------------------------------------------------------------------------
(* Jobs, torrents and entries as values: what the synchronous parts make of them. *)

Destroyed(ts, t) ==
  IF t # None /\ ts[t].st = "live" THEN [ts EXCEPT ![t].st = "closing"] ELSE ts

\* A fault: the waiters of an aborted job share its cancellation.
SettledAll(f, w, how) == Answered(f, w \cup {c \in Callers : f[c].window = "again"}, how)
\* The job's promise settles: it leaves openingJobs, its waiters are answered, and
\* calls that waited for an aborted job go round again.
Settled(f, w, how) == Answered(f, w, how)

\* The job ends; s is what its waiters get and f, ts, e are what the caller of
\* this operator made of the calls, the torrents and the entry.
JobEnds(f, ts, e, how) ==
  /\ job' = NoJob /\ torrent' = ts /\ entry' = e
  /\ IF Recovery \in job.waiters
     THEN call' = Recovered(Settled(f, job.waiters, how), how) /\ recovering' = NoRecovery
     ELSE call' = Settled(f, job.waiters, how) /\ UNCHANGED recovering

\* The signal of the job is aborted, with f and w the calls and waiters left.
JobAborts(f, w) ==
  CASE job.pc \in {"none", "stopping", "verify"} ->
         /\ job' = [job EXCEPT !.aborted = job.pc # "none", !.waiters = w] /\ call' = f
         /\ UNCHANGED <<torrent, entry, recovering>>
    [] job.pc = "init" -> JobEnds(f, torrent, entry, "cancelled")
    [] job.pc = "lookup" ->
         /\ job' = [job EXCEPT !.aborted = TRUE, !.pc = "stopping", !.waiters = w]
         /\ torrent' = Destroyed(torrent, job.probe) /\ call' = f
         /\ UNCHANGED <<entry, recovering>>
    [] job.pc = "opening" -> JobEnds(f, Destroyed(torrent, entry.t), NoEntry, "cancelled")

\* A fault: a new job does not look for an entry.
MayOpenAlways == ~Off /\ ~job.aborted
MayOpen == ~Off /\ ~job.aborted /\ (job.pc # "none" \/ entry = NoEntry)

\* transport.open for a caller or for the recovery.  given: with its metadata.
OpenFor(w, given, f) ==
  \/ /\ Off
     /\ UNCHANGED <<job, torrent, entry>>
     /\ IF w = Recovery THEN call' = Recovered(f, "cancelled") /\ recovering' = NoRecovery
        ELSE call' = Answered(f, {w}, "cancelled") /\ UNCHANGED recovering
  \/ /\ ~Off /\ job.aborted
     /\ IF w = Recovery THEN call' = f /\ recovering' = [NoRecovery EXCEPT !.pc = "again"]
        ELSE call' = [f EXCEPT ![w].window = "again"] /\ UNCHANGED recovering
     /\ UNCHANGED <<job, torrent, entry>>
  \/ /\ ~Off /\ job.pc = "none" /\ entry # NoEntry
     /\ LET how == IF entry.error = "none" THEN "ok" ELSE "error" IN
        IF w = Recovery THEN call' = Recovered(f, how) /\ recovering' = NoRecovery
        ELSE call' = Answered(f, {w}, how) /\ UNCHANGED recovering
     /\ UNCHANGED <<job, torrent, entry>>
  \/ /\ MayOpen
     /\ job' = IF job.pc # "none" THEN [job EXCEPT !.waiters = @ \cup {w}]
               ELSE [NoJob EXCEPT !.pc = IF given THEN "verify" ELSE "init", !.waiters = {w}]
     /\ IF w = Recovery THEN call' = f /\ recovering' = [NoRecovery EXCEPT !.pc = "open"]
        ELSE call' = [f EXCEPT ![w].window = "waiting"] /\ UNCHANGED recovering
     /\ UNCHANGED <<torrent, entry>>

-----------------------------------------------------------------------------
(* Requests.                                                               *)

Sent(c) == [call EXCEPT ![c].worker = "pending"]

\* "metadata" opens by hash only, "open" with the metadata the Worker has verified.
Open(c) ==
  /\ call[c].worker = "idle"
  /\ \E given \in BOOLEAN : OpenFor(c, given, Sent(c))
  /\ UNCHANGED <<known, clearing, closing, cancelled>>

OpenAgain(c) ==
  /\ call[c].window = "again" /\ ~job.aborted
  /\ \E given \in BOOLEAN : OpenFor(c, given, call)
  /\ UNCHANGED <<known, clearing, closing, cancelled>>

\* recover, also as the first step of a read with recover: true.
Recover(c) ==
  /\ call[c].worker = "idle"
  /\ LET joins == [Sent(c) EXCEPT ![c].window = "recovering"]
         works == entry # NoEntry /\ entry.error = "none" /\ Live(entry.t)
     IN IF Off THEN call' = Answered(Sent(c), {c}, "cancelled") /\ UNCHANGED <<recovering, entry, torrent, job>>
        ELSE IF recovering # NoRecovery
        THEN call' = joins /\ UNCHANGED <<recovering, entry, torrent, job>>
        ELSE IF works
        THEN call' = Answered(Sent(c), {c}, "ok") /\ UNCHANGED <<recovering, entry, torrent, job>>
        ELSE IF entry = NoEntry /\ ~known
        THEN call' = Answered(Sent(c), {c}, "error") /\ UNCHANGED <<recovering, entry, torrent, job>>
        ELSE /\ call' = joins /\ UNCHANGED job
             /\ recovering' = [pc |-> "removing", t |-> IF entry # NoEntry /\ Live(entry.t) THEN entry.t ELSE None]
             /\ torrent' = Destroyed(torrent, entry.t)
             /\ entry' = NoEntry
  /\ known' = (known \/ (entry # NoEntry /\ ~Off))
  /\ UNCHANGED <<clearing, closing, cancelled>>

\* A fault: a recovery that meets an aborted job is not tried again.
RecoveryOpensOnce ==
  /\ recovering.pc = "removing" /\ recovering.t = None
  /\ OpenFor(Recovery, TRUE, call)
  /\ UNCHANGED <<known, clearing, closing, cancelled>>
\* The old torrent of a recovery has closed, or an aborted job has ended.
RecoveryOpens ==
  /\ \/ recovering.pc = "removing" /\ recovering.t = None
     \/ recovering.pc = "again" /\ ~job.aborted
  /\ OpenFor(Recovery, TRUE, call)
  /\ UNCHANGED <<known, clearing, closing, cancelled>>

\* The signal of a request is aborted: the Worker's promise rejects and the window
\* is told.  A plain open goes on there without a caller.
Leave(c) ==
  /\ Pending(c)
  /\ LET f == [call EXCEPT ![c].worker = "cancelled", ![c].left = TRUE]
         g == [f EXCEPT ![c].window = "done"]
         w == job.waiters \ {c}
     IN IF c \in Startup /\ c \in job.waiters
        THEN IF w = {} THEN JobAborts(g, {})
             ELSE /\ call' = g /\ job' = [job EXCEPT !.waiters = w]
                  /\ UNCHANGED <<torrent, entry, recovering>>
        ELSE /\ call' = IF call[c].window = "waiting" \/ (call[c].window = "again" /\ c \notin Startup)
                        THEN f ELSE g
             /\ UNCHANGED <<job, torrent, entry, recovering>>
  /\ UNCHANGED <<known, clearing, closing, cancelled>>

-----------------------------------------------------------------------------
(* discoverMetadata: HTTPS and peers race for the metadata.                *)

Initialized ==
  /\ job.pc = "init"
  /\ job' = [job EXCEPT !.pc = "lookup"]
  /\ UNCHANGED <<call, entry, torrent, recovering, known, clearing, closing, cancelled>>

\* peers(): a torrent without a store, for its metadata only.
ProbeStarts ==
  /\ job.pc = "lookup" /\ job.probe = None
  /\ \E t \in Torrents :
       /\ torrent[t].st = "none"
       /\ torrent' = [torrent EXCEPT ![t] = [st |-> "live", kind |-> "probe"]]
       /\ job' = [job EXCEPT !.probe = t]
  /\ UNCHANGED <<call, entry, recovering, known, clearing, closing, cancelled>>

\* A lookup succeeded, or the last one failed; the finally block stops the rest.
LookupEnds ==
  /\ job.pc = "lookup"
  /\ \E found \in BOOLEAN : job' = [job EXCEPT !.pc = "stopping", !.found = found]
  /\ torrent' = Destroyed(torrent, job.probe)
  /\ UNCHANGED <<call, entry, recovering, known, clearing, closing, cancelled>>

LookupOver ==
  /\ job.pc = "stopping" /\ job.probe = None
  /\ IF job.found /\ ~job.aborted
     THEN job' = [job EXCEPT !.pc = "verify", !.probe = None] /\ UNCHANGED <<call, entry, torrent, recovering>>
     ELSE JobEnds(call, torrent, entry, IF job.aborted THEN "cancelled" ELSE "error")
  /\ UNCHANGED <<known, clearing, closing, cancelled>>

-----------------------------------------------------------------------------
(* add.                                                                    *)

\* The metadata is verified and the client is ready.
Added ==
  /\ job.pc = "verify"
  /\ IF job.aborted \/ closing.pc # "none"
     THEN JobEnds(call, torrent, entry, "cancelled") /\ UNCHANGED known
     ELSE \E t \in Torrents :
            /\ torrent[t].st = "none"
            /\ torrent' = [torrent EXCEPT ![t] = [st |-> "live", kind |-> "payload"]]
            /\ entry' = [t |-> t, error |-> "none"]
            /\ job' = [job EXCEPT !.pc = "opening"] /\ known' = TRUE
            /\ UNCHANGED <<call, recovering>>
  /\ UNCHANGED <<clearing, closing, cancelled>>

NotMetadata ==
  /\ job.pc = "verify"
  /\ JobEnds(call, torrent, entry, "error")
  /\ UNCHANGED <<known, clearing, closing, cancelled>>

Ready ==
  /\ job.pc = "opening" /\ Live(entry.t)
  /\ JobEnds(call, torrent, entry, "ok")
  /\ UNCHANGED <<known, clearing, closing, cancelled>>

OpeningTimesOut ==
  /\ job.pc = "opening"
  /\ JobEnds(call, Destroyed(torrent, entry.t), NoEntry, "error")
  /\ UNCHANGED <<known, clearing, closing, cancelled>>

\* The "error" event: WebTorrent destroys the torrent, the entry keeps the error.
TorrentFails ==
  /\ entry # NoEntry /\ Live(entry.t)
  /\ LET e == [entry EXCEPT !.error = "error"]
         ts == Destroyed(torrent, entry.t)
     IN IF job.pc = "opening" THEN JobEnds(call, ts, e, "error")
        ELSE entry' = e /\ torrent' = ts /\ UNCHANGED <<call, job, recovering>>
  /\ UNCHANGED <<known, clearing, closing, cancelled>>

\* The scan of the cached pieces fails: the torrent stays until a recovery.
ScanFails ==
  /\ entry # NoEntry /\ Live(entry.t) /\ entry.error = "none" /\ job.pc = "none"
  /\ entry' = [entry EXCEPT !.error = "error"]
  /\ UNCHANGED <<call, job, torrent, recovering, known, clearing, closing, cancelled>>

\* The callback of destroy(): whoever awaited it goes on.
Released(p, t) == IF p.t = t THEN [p EXCEPT !.t = None] ELSE p
TorrentClosed(t) ==
  /\ torrent[t].st = "closing"
  /\ torrent' = [torrent EXCEPT ![t] = [st |-> "none", kind |-> "none"]]
  /\ job' = IF job.probe = t THEN [job EXCEPT !.probe = None] ELSE job
  /\ recovering' = Released(recovering, t)
  /\ clearing' = Released(clearing, t) /\ closing' = Released(closing, t)
  /\ UNCHANGED <<call, entry, known, cancelled>>

-----------------------------------------------------------------------------
(* cancel, clearCaches and close.                                          *)

Cancel ==
  /\ ~cancelled /\ cancelled' = TRUE
  /\ JobAborts(call, job.waiters)
  /\ UNCHANGED <<known, clearing, closing>>

\* cancel(), then remove() of the entry if the abort of its opening left it.
Kept == entry # NoEntry /\ job.pc # "opening"
StopAll ==
  /\ cancelled' = TRUE
  /\ IF Kept
     THEN /\ torrent' = Destroyed(torrent, entry.t) /\ entry' = NoEntry
          /\ UNCHANGED <<call, job, recovering>>
     ELSE JobAborts(call, job.waiters)
Awaits == [pc |-> "removing", t |-> IF Kept /\ Live(entry.t) THEN entry.t ELSE None]

ClearCaches ==
  /\ ~Off
  /\ StopAll
  /\ clearing' = Awaits
  /\ UNCHANGED <<known, closing>>

\* A fault: the cache is cleared without waiting for the openings.
OpeningsSettledAny == TRUE
\* await Promise.allSettled of the opening promises.
OpeningsSettled == job.pc = "none"

CacheCleared ==
  /\ clearing.pc = "removing" /\ clearing.t = None /\ OpeningsSettled
  /\ clearing' = NoClosing /\ known' = FALSE
  /\ UNCHANGED <<call, job, entry, torrent, recovering, closing, cancelled>>

Close ==
  /\ closing.pc = "none"
  /\ StopAll
  /\ closing' = Awaits
  /\ UNCHANGED <<known, clearing>>

\* The client is destroyed last, with every torrent it still has.
Closed ==
  /\ closing.pc = "removing" /\ closing.t = None /\ OpeningsSettled
  /\ closing' = [NoClosing EXCEPT !.pc = "closed"] /\ known' = FALSE
  /\ UNCHANGED <<call, job, entry, torrent, recovering, clearing, cancelled>>

Next ==
  \/ \E c \in Callers : Open(c) \/ OpenAgain(c) \/ Recover(c) \/ Leave(c)
  \/ RecoveryOpens \/ Initialized \/ ProbeStarts \/ LookupEnds \/ LookupOver
  \/ Added \/ NotMetadata \/ Ready \/ OpeningTimesOut \/ TorrentFails \/ ScanFails
  \/ \E t \in Torrents : TorrentClosed(t)
  \/ Cancel \/ ClearCaches \/ CacheCleared \/ Close \/ Closed

\* Lookups and openings have their timers, verification and callbacks come.
Fairness ==
  /\ WF_vars(Initialized) /\ WF_vars(LookupEnds) /\ WF_vars(LookupOver)
  /\ WF_vars(Added) /\ WF_vars(OpeningTimesOut) /\ WF_vars(RecoveryOpens)
  /\ WF_vars(CacheCleared) /\ WF_vars(Closed)
  /\ \A c \in Callers : WF_vars(OpenAgain(c))
  /\ \A t \in Torrents : WF_vars(TorrentClosed(t))

Spec == Init /\ [][Next]_vars /\ Fairness

-----------------------------------------------------------------------------
(* Properties.                                                             *)

\* "WebTorrent must never retain two torrents for one hash": neither a probe and
\* a payload torrent nor two payloads, with openings, recoveries, time-outs and
\* failures in any order.  The live one can be reached, a payload by its entry and
\* a probe by the job that looks up, so that cancel, clearCaches and close stop it.
OneTorrent ==
  /\ \A s, t \in Torrents : Live(s) /\ Live(t) => s = t
  /\ \A t \in Torrents :
       Live(t) => IF torrent[t].kind = "payload" THEN entry.t = t
                  ELSE job.probe = t /\ job.pc = "lookup"

\* A request is answered as cancelled only if it was itself given up, or the
\* whole transport was cancelled, cleared or closed: another reader that leaves
\* a shared opening or recovery takes nobody with it.
NoInnocentCancelled ==
  \A c \in Callers : call[c].worker = "cancelled" => call[c].left \/ cancelled

\* When the cache is cleared, and when the transport has closed, no torrent
\* lives, none is being opened and none can come back.
ClearedIsEmpty ==
  [][(clearing'.pc = "none" /\ clearing.pc # "none") \/ closing'.pc = "closed" =>
       /\ job' = NoJob /\ entry' = NoEntry
       /\ \A t \in Torrents : torrent'[t].st # "live"]_vars

\* Every request is answered.
EveryRequestEnds == \A c \in Callers : Pending(c) ~> ~Pending(c)
=============================================================================
