--------------------------- MODULE StartupPrefetch ---------------------------
(***************************************************************************)
(* The optional download that goes with a published state: the job of      *)
(* src/src/disk/web/startup-prefetch.js, the RemotePublication that owns it *)
(* (torrent-remote.js), the commands of the Worker that start, validate,    *)
(* commit, await and discard it (worker.js), and what it does to the torrent *)
(* of the disk in the window (torrent-window.js): the scan of the cached   *)
(* pieces, the selections and the background download.                     *)
(*                                                                         *)
(* The Worker runs one command at a time, the job runs beside it.  The     *)
(* bridge is FIFO, so a call reaches the window in the step that makes it; *)
(* its answer is a step of its own.  WebTorrent and the piece store are    *)
(* external: a piece arrives, is read and hashed, in any order.            *)
(***************************************************************************)
EXTENDS Naturals, FiniteSetsExt

CONSTANTS
  Pieces,        \* pieces of the disk, 1..n
  Targets,       \* those the profile names, an initial segment
  WindowPieces,  \* options.windowPieces
  MaxAttempts,   \* options.maxAttempts
  MaxCommands    \* bound: commands of the Worker

ASSUME PrefetchAssumption ==
  /\ Pieces \subseteq Nat /\ IsFiniteSet(Pieces) /\ Targets \subseteq Pieces /\ Targets # {}
  /\ \A p \in Targets : 1..p \subseteq Targets
  /\ WindowPieces \in 1..16 /\ MaxAttempts \in 1..3

VARIABLES
  profile,   \* the state profile published: "none", or that of this or another state
  job,       \* the startup job
  command,   \* what the Worker awaits
  candidate, \* the prepared state: "none", "plain" or "job", which owns the job
  scope,     \* RemotePublication.scope
  entry,     \* the disk's torrent in the window
  scan,      \* rescanCachedPieces: how far it is with each piece
  guarded,   \* its targets, whose stale negatives are ignored
  have,      \* pieces of the torrent's bitfield
  stored,    \* pieces whose data is in the store
  attempt,   \* prefetchStartup in the window
  streams,   \* pieces the torrent has selected for it
  commands   \* commands so far

window == <<entry, scan, guarded, have, stored, attempt, streams>>
prefetchVars == <<profile, job, command, candidate, scope, window, commands>>

Last == Max(Targets)
NoJob == [pc |-> "none", attempts |-> 0, failed |-> "none", validated |-> FALSE,
          loaded |-> FALSE, downloaded |-> FALSE, committed |-> FALSE, outcome |-> "none"]
NoAttempt == [pc |-> "none", todo |-> {}, owned |-> {}, next |-> 1, how |-> "none"]
NewEntry == [live |-> TRUE, background |-> FALSE, paused |-> FALSE, prefetch |-> FALSE,
             rescanned |-> FALSE, selected |-> {}]
NewScan == [p \in Pieces |-> "todo"]
ScanOver == [p \in Pieces |-> "done"]

\* StartupPrefetch.current.
Current == job.pc # "none" /\ job.outcome = "none"
Attempting == attempt.pc \in {"checking", "pumping"}

\* A publication was opened: its disk is scanned and may download in background.
PrefetchInit ==
  /\ profile \in {"none", "same", "other"}
  /\ job = NoJob /\ command = "idle" /\ candidate = "none" /\ commands = 0
  /\ scope \in {"none", "disk"}
  /\ entry = [NewEntry EXCEPT !.background = scope = "disk"]
  /\ scan = NewScan /\ guarded = {} /\ have = {} /\ stored \in SUBSET Pieces
  /\ attempt = NoAttempt /\ streams = {}

-----------------------------------------------------------------------------
(* The window: selections.                                                 *)

\* backgroundSelection of an entry, while the attempts are as given.
BackgroundSelection(e, attempting) ==
  IF ~e.live \/ e.paused \/ e.prefetch \/ attempting THEN e
  ELSE [e EXCEPT !.selected = IF e.background /\ e.rescanned THEN Pieces ELSE {}]

\* The calls background(false) and stopPrefetch.
BackgroundOff(e) == IF e.live THEN BackgroundSelection([e EXCEPT !.background = FALSE], FALSE) ELSE e
Quiet(e) ==
  IF e.live THEN [e EXCEPT !.background = FALSE, !.prefetch = FALSE, !.selected = {}] ELSE e

\* release of an attempt's own stream selections, and of no other.
Release(s, owned) == s \ owned

\* The call ends in the window: its finally block, and the answer.
AttemptEnds(how) ==
  /\ attempt' = [NoAttempt EXCEPT !.pc = "answered", !.how = how]
  /\ streams' = Release(streams, attempt.owned)

\* The call is aborted by the Worker, which no longer waits for its answer.
AttemptAborted ==
  /\ attempt' = NoAttempt
  /\ streams' = Release(streams, attempt.owned)

\* The n smallest pieces of s.
Smallest(s, n) ==
  CHOOSE t \in SUBSET s :
    /\ Cardinality(t) = IF Cardinality(s) < n THEN Cardinality(s) ELSE n
    /\ \A p \in t, q \in s \ t : p < q

\* pump: verified pieces make room for the next ones that are not verified.
Pumped(a, verified) ==
  LET kept == a.owned \ verified
      room == WindowPieces - Cardinality(kept)
      missing == {p \in a.next..Last : p \notin verified}
      taken == Smallest(missing, room)
  IN [a EXCEPT !.pc = "pumping", !.owned = kept \cup taken,
               !.next = IF room = 0 THEN @
                        ELSE IF Cardinality(missing) < room THEN Last + 1
                        ELSE Max(taken) + 1]

\* A fault: the attempt is over when everything was requested.
AllVerifiedEarly(a, verified) == Pumped(a, verified).next > Last
\* snapshot: completed is the bytes of the targets verified, and equals total.
AllVerified(a, verified) == Targets \subseteq verified

Pump(verified) ==
  IF AllVerified(attempt, verified) THEN AttemptEnds("ok")
  ELSE LET a == Pumped(attempt, verified)
       IN attempt' = a /\ streams' = Release(streams, attempt.owned \ a.owned) \cup a.owned

\* _markVerified: the bit, the "verified" event, and who listens to it.
MarkVerified(p) ==
  /\ have' = have \cup {p}
  /\ IF attempt.pc = "pumping" /\ p \in Targets THEN Pump(have')
     ELSE UNCHANGED <<attempt, streams>>
\* versions: a read of p under way is older than this verification.
Outdated(s, p) == [s EXCEPT ![p] = IF @ = "bad" THEN "stale" ELSE @]

-----------------------------------------------------------------------------
(* The window: the pieces.                                                 *)

\* A piece arrives, for a guest's read or a selection, and is verified and stored.
PieceArrives(p) ==
  /\ entry.live /\ p \notin have
  /\ MarkVerified(p)
  /\ stored' = stored \cup {p} /\ scan' = Outdated(scan, p)
  /\ UNCHANGED <<profile, job, command, candidate, scope, entry, guarded, commands>>

\* The scan reads a piece of the store.
ScanReads(p) ==
  /\ entry.live /\ scan[p] = "todo"
  /\ scan' = [scan EXCEPT ![p] = IF p \in stored THEN "good" ELSE "bad"]
  /\ UNCHANGED <<profile, job, command, candidate, scope, entry, guarded, have, stored,
                 attempt, streams, commands>>

\* A fault: a negative always counts.
ScanValidOld(p) == scan[p] = "good"
\* The guard of _verifyPiece: a negative that is older than the bit does not count.
ScanValid(p) == scan[p] = "good" \/ (scan[p] = "stale" /\ p \in guarded /\ p \in have)

\* The answer about a piece; the last one ends the scan.
ScanAnswers(p) ==
  /\ entry.live /\ scan[p] \in {"good", "bad", "stale"}
  /\ IF ScanValid(p) THEN MarkVerified(p)
     ELSE have' = have \ {p} /\ UNCHANGED <<attempt, streams>>
  /\ scan' = [scan EXCEPT ![p] = "done"]
  /\ IF scan' = ScanOver
     THEN /\ entry' = BackgroundSelection([entry EXCEPT !.rescanned = TRUE], attempt'.pc \in {"checking", "pumping"})
          /\ guarded' = {}
     ELSE UNCHANGED <<entry, guarded>>
  /\ UNCHANGED <<profile, job, command, candidate, scope, stored, commands>>

\* verifyCachedPieces of an attempt: one target, and after the last the first pump.
AttemptChecks(p) ==
  /\ attempt.pc = "checking" /\ p \in attempt.todo
  /\ have' = IF p \in stored THEN have \cup {p} ELSE have
  /\ scan' = IF p \in have' \ have THEN Outdated(scan, p) ELSE scan
  /\ attempt' = [attempt EXCEPT !.todo = @ \ {p}]
  /\ UNCHANGED <<profile, job, command, candidate, scope, entry, guarded, stored, streams, commands>>

AttemptPumps ==
  /\ attempt.pc = "checking" /\ attempt.todo = {}
  /\ Pump(have)
  /\ entry' = [entry EXCEPT !.paused = FALSE]
  /\ UNCHANGED <<profile, job, command, candidate, scope, scan, guarded, have, stored, commands>>

\* The transport's own time limit of the call.
AttemptTimesOut ==
  /\ Attempting
  /\ AttemptEnds("error")
  /\ UNCHANGED <<profile, job, command, candidate, scope, entry, scan, guarded, have, stored, commands>>

\* The torrent fails: failed(entry, error) aborts whatever uses it.
TorrentFails ==
  /\ entry.live
  /\ entry' = [entry EXCEPT !.live = FALSE, !.prefetch = FALSE, !.selected = {}]
  /\ IF Attempting THEN AttemptEnds("error") ELSE UNCHANGED <<attempt, streams>>
  /\ scan' = ScanOver /\ guarded' = {}
  /\ UNCHANGED <<profile, job, command, candidate, scope, have, stored, commands>>

\* recover for a guest's read or for the job: another torrent on the same store.
Reopened ==
  /\ entry' = NewEntry /\ scan' = NewScan /\ guarded' = {} /\ have' = {} /\ streams' = {}

DemandRecovers ==
  /\ ~entry.live /\ job.pc # "none"
  /\ Reopened
  /\ UNCHANGED <<profile, job, command, candidate, scope, stored, attempt, commands>>

\* A guest's read resumes a torrent that cancel paused.
DemandReads ==
  /\ entry.live /\ entry.paused /\ command = "idle"
  /\ entry' = [entry EXCEPT !.paused = FALSE]
  /\ UNCHANGED <<profile, job, command, candidate, scope, scan, guarded, have, stored,
                 attempt, streams, commands>>

\* The profile's own prefetch, of setLoadPrefetch, is complete or timed out.
PrefetchEnds ==
  /\ entry.prefetch
  /\ entry' = BackgroundSelection([entry EXCEPT !.prefetch = FALSE, !.selected = {}], Attempting)
  /\ UNCHANGED <<profile, job, command, candidate, scope, scan, guarded, have, stored,
                 attempt, streams, commands>>

-----------------------------------------------------------------------------
(* The job.                                                                *)

\* finish, with what onOutcome does; j is the job as the caller leaves it.
Finish(j, outcome) ==
  /\ job' = [j EXCEPT !.pc = "done", !.outcome = outcome]
  /\ scope' = IF outcome = "complete" THEN "profile" ELSE "none"

\* cancel: a job that is settled already stays as it is.
CancelJob ==
  IF Current THEN Finish(job, "fallback") /\ AttemptAborted
  ELSE UNCHANGED <<job, scope, attempt, streams>>

\* complete: the download is whole and the authenticated state is the profile's.
Completes(j) == j.downloaded /\ j.validated /\ profile = "same"

\* The job goes on as j, unless that completes it.
Proceed(j) ==
  IF Completes(j) THEN Finish(j, "complete") ELSE job' = j /\ UNCHANGED scope

\* prepare: the background download was told to stop, the profile prefetch is next.
JobPrepares ==
  /\ Current /\ job.pc = "prepare"
  /\ IF entry.live /\ profile # "none"
     THEN job' = [job EXCEPT !.pc = "attempt"] /\ UNCHANGED scope
     ELSE Finish(job, "fallback")
  /\ entry' = Quiet(entry)
  /\ UNCHANGED <<profile, command, candidate, scan, guarded, have, stored, attempt, streams, commands>>

\* The next attempt; after a failure the component that failed is recovered first.
JobAttempts ==
  /\ Current /\ job.pc = "attempt"
  /\ job' = [job EXCEPT !.attempts = @ + 1, !.pc = IF job.failed = "none" THEN "profile" ELSE "recover"]
  /\ UNCHANGED <<profile, command, candidate, scope, window, commands>>

\* An attempt failed: another one, or the end.
Failed(stage, permanent) ==
  IF permanent \/ job.attempts = MaxAttempts THEN Finish(job, "fallback")
  ELSE job' = [job EXCEPT !.pc = "attempt", !.failed = stage] /\ UNCHANGED scope

JobRecovers ==
  /\ Current /\ job.pc = "recover"
  /\ \/ /\ job' = [job EXCEPT !.pc = "profile"] /\ UNCHANGED scope
        /\ IF job.failed = "disk" /\ ~entry.live THEN Reopened
           ELSE UNCHANGED <<entry, scan, guarded, have, streams>>
     \/ /\ job.failed = "disk" => ~entry.live
        /\ Failed(job.failed, FALSE)
        /\ UNCHANGED <<entry, scan, guarded, have, streams>>
  /\ UNCHANGED <<profile, command, candidate, stored, attempt, commands>>

\* The profile is compared with a state that was authenticated first.
Mismatch == job.validated /\ profile = "other"

\* The profiles were read: prefetchStartup is called for its ranges.
JobLoads ==
  /\ Current /\ job.pc = "profile"
  /\ IF Mismatch
     THEN Finish(job, "fallback") /\ UNCHANGED <<attempt, guarded>>
     ELSE /\ UNCHANGED scope
          /\ job' = [job EXCEPT !.pc = "disk", !.loaded = TRUE]
          /\ IF entry.live
             THEN /\ attempt' = [NoAttempt EXCEPT !.pc = "checking", !.todo = Targets \ have]
                  /\ guarded' = IF scan = ScanOver THEN {} ELSE guarded \cup Targets
             ELSE attempt' = [NoAttempt EXCEPT !.pc = "answered", !.how = "error"] /\ UNCHANGED guarded
  /\ UNCHANGED <<profile, command, candidate, entry, scan, have, stored, streams, commands>>

JobLoadFails ==
  /\ Current /\ job.pc = "profile"
  /\ \E permanent \in BOOLEAN : Failed("profile", permanent)
  /\ UNCHANGED <<profile, command, candidate, window, commands>>

\* The answer of prefetchStartup.
JobAnswered ==
  /\ Current /\ attempt.pc = "answered"
  /\ attempt' = NoAttempt
  /\ IF attempt.how = "ok" THEN Proceed([job EXCEPT !.pc = "downloaded", !.downloaded = TRUE])
     ELSE Failed("disk", FALSE)
  /\ UNCHANGED <<profile, command, candidate, entry, scan, guarded, have, stored, streams, commands>>

\* The timer of commit.
BudgetExpires ==
  /\ Current /\ job.committed
  /\ CancelJob
  /\ UNCHANGED <<profile, command, candidate, entry, scan, guarded, have, stored, commands>>

-----------------------------------------------------------------------------
(* The commands of the Worker.                                             *)

Begin == command = "idle" /\ commands < MaxCommands /\ commands' = commands + 1

\* prepareState of the published state with a startup prefetch.  The job's first
\* call, background(false), is posted before anything else happens.
PrepareStartup ==
  /\ Begin
  /\ command' = "decode" /\ candidate' = "none"
  /\ job' = [NoJob EXCEPT !.pc = "prepare"] /\ scope' = "none" /\ AttemptAborted
  /\ entry' = BackgroundOff(entry)
  /\ UNCHANGED <<profile, scan, guarded, have, stored>>

\* prepareState without one, which also discards a startup that is left.
PreparePlain ==
  /\ Begin
  /\ candidate' \in {"plain", "none"} /\ UNCHANGED command
  /\ CancelJob
  /\ UNCHANGED <<profile, entry, scan, guarded, have, stored>>

\* validate(origin): a profile read before is compared with the state.
Validated ==
  IF ~Current THEN UNCHANGED <<job, scope, attempt, streams>>
  ELSE IF job.loaded /\ profile = "other" THEN Finish([job EXCEPT !.validated = TRUE], "fallback") /\ AttemptAborted
  ELSE Proceed([job EXCEPT !.validated = TRUE]) /\ UNCHANGED <<attempt, streams>>

\* The state is decrypted and authenticated: validateStartupPrefetch.
Decoded ==
  /\ command = "decode"
  /\ command' = "idle" /\ candidate' = "job"
  /\ Validated
  /\ UNCHANGED <<profile, entry, scan, guarded, have, stored, commands>>

DecodeFails ==
  /\ command = "decode"
  /\ command' = "idle"
  /\ CancelJob
  /\ UNCHANGED <<profile, candidate, entry, scan, guarded, have, stored, commands>>

\* discardState of the candidate: dropState.
DiscardState ==
  /\ Begin /\ candidate # "none"
  /\ candidate' = "none" /\ UNCHANGED command
  /\ IF candidate = "job" THEN CancelJob ELSE UNCHANGED <<job, scope, attempt, streams>>
  /\ UNCHANGED <<profile, entry, scan, guarded, have, stored>>

\* commitState of a state with its startup prefetch: commit starts the budget.
CommitStartup ==
  /\ Begin /\ candidate = "job"
  /\ candidate' = "none"
  /\ IF Current THEN Proceed([job EXCEPT !.committed = TRUE]) ELSE UNCHANGED <<job, scope>>
  /\ UNCHANGED <<profile, command, window>>

\* A fault: a wait before the commit is accepted.
MayWaitAlways == job.pc # "none"
\* waitLoadPrefetch refuses the job of a candidate.
MayWait == job.pc # "none" /\ candidate # "job"

WaitLoad ==
  /\ Begin /\ MayWait
  /\ command' = "wait"
  /\ UNCHANGED <<profile, job, candidate, scope, window>>

WaitReturns ==
  /\ command = "wait" /\ ~Current
  /\ command' = "idle"
  /\ UNCHANGED <<profile, job, candidate, scope, window, commands>>

\* A fault: a job that is under way is left alone.
SetLoadKeepsJob(s) ==
  /\ scope' = s /\ UNCHANGED <<job, attempt, streams>>
\* The start of setLoadPrefetch: the job is discarded before the scope is set.
SetLoadStarts(s) ==
  /\ scope' = s
  /\ IF Current THEN job' = [job EXCEPT !.pc = "done", !.outcome = "fallback"] /\ AttemptAborted
     ELSE UNCHANGED <<job, attempt, streams>>

\* setLoadPrefetch by the page, or by the commit of a plain state.
SetLoad ==
  /\ Begin
  /\ \E s \in {"none", "profile", "disk", "auto"} :
       /\ SetLoadStarts(s)
       /\ entry' = Quiet(entry)
       /\ command' = IF entry.live /\ s # "none" THEN "load" ELSE "idle"
  /\ UNCHANGED <<profile, candidate, scan, guarded, have, stored>>

CommitPlain ==
  /\ Begin /\ candidate = "plain"
  /\ candidate' = "none"
  /\ SetLoadStarts("none")
  /\ entry' = Quiet(entry)
  /\ UNCHANGED <<profile, command, scan, guarded, have, stored>>

\* The rest of setLoadPrefetch: what "auto" means is known, the download is started.
SetLoadEnds ==
  /\ command = "load"
  /\ command' = "idle"
  /\ \E s \in IF scope = "auto" THEN {"profile", "disk"} ELSE {scope} :
       /\ scope' = s
       /\ entry' = IF ~entry.live THEN entry
                   ELSE IF s = "profile" THEN [entry EXCEPT !.paused = FALSE, !.prefetch = TRUE, !.selected = Targets]
                   ELSE BackgroundSelection([entry EXCEPT !.paused = FALSE, !.background = TRUE], Attempting)
  /\ UNCHANGED <<profile, job, candidate, scan, guarded, have, stored, attempt, streams, commands>>

\* A profile that cannot be read, or does not match, fails the command.
SetLoadFails ==
  /\ command = "load" /\ scope # "disk"
  /\ command' = "idle"
  /\ UNCHANGED <<profile, job, candidate, scope, window, commands>>

\* resumePrefetch: startPrefetch with the scope as it is; "profile" is SetLoad's.
ResumePrefetch ==
  /\ Begin /\ entry.live /\ scope # "profile"
  /\ entry' = LET on == scope # "none"
              IN BackgroundSelection([entry EXCEPT !.background = on, !.paused = @ /\ ~on], Attempting)
  /\ UNCHANGED <<profile, job, command, candidate, scope, scan, guarded, have, stored, attempt, streams>>

\* clearCaches: RemotePublication.clearCache opens the disk again, or fails to.
ClearCache ==
  /\ Begin
  /\ IF Current THEN job' = [job EXCEPT !.pc = "done", !.outcome = "fallback"] ELSE UNCHANGED job
  /\ \E ok \in BOOLEAN :
       /\ entry' = [NewEntry EXCEPT !.live = ok]
       /\ scan' = IF ok THEN NewScan ELSE ScanOver
       /\ scope' = IF ok \/ Current THEN "none" ELSE scope
  /\ have' = {} /\ stored' = {} /\ guarded' = {} /\ streams' = {} /\ attempt' = NoAttempt
  /\ UNCHANGED <<profile, command, candidate>>

\* cancel: the active command fails, the jobs and the window's work are stopped.
Cancel ==
  /\ commands < MaxCommands /\ commands' = commands + 1
  /\ CancelJob
  /\ command' = "idle"
  /\ entry' = IF entry.live THEN [entry EXCEPT !.paused = TRUE, !.prefetch = FALSE, !.selected = {}] ELSE entry
  /\ UNCHANGED <<profile, candidate, scan, guarded, have, stored>>

PrefetchNext ==
  \/ \E p \in Pieces : PieceArrives(p) \/ ScanReads(p) \/ ScanAnswers(p) \/ AttemptChecks(p)
  \/ AttemptPumps \/ AttemptTimesOut \/ TorrentFails \/ DemandRecovers \/ DemandReads \/ PrefetchEnds
  \/ JobPrepares \/ JobAttempts \/ JobRecovers \/ JobLoads \/ JobLoadFails \/ JobAnswered \/ BudgetExpires
  \/ PrepareStartup \/ PreparePlain \/ Decoded \/ DecodeFails \/ DiscardState
  \/ CommitStartup \/ CommitPlain \/ WaitLoad \/ WaitReturns
  \/ SetLoad \/ SetLoadEnds \/ SetLoadFails \/ ResumePrefetch \/ ClearCache \/ Cancel

\* Only the timer of the budget and the Worker's own step: the network may hang.
PrefetchSpec == PrefetchInit /\ [][PrefetchNext]_prefetchVars /\ WF_prefetchVars(BudgetExpires) /\ WF_prefetchVars(WaitReturns)

-----------------------------------------------------------------------------
(* Properties.                                                             *)

\* A job completes only with every target in the store and a profile that was made
\* from the very state that was authenticated, whichever of the two came first.
CompleteIsReal ==
  [][job'.outcome = "complete" /\ job.outcome # "complete" =>
       Targets \subseteq stored' /\ job'.validated /\ profile = "same"]_prefetchVars

\* While an attempt runs no target loses its verified bit: a scan that read the
\* store before a piece came does not revoke it, or the attempt would never end.
TargetsStay ==
  [][Attempting /\ attempt'.pc \in {"checking", "pumping", "answered"} =>
       have \cap Targets \subseteq have']_prefetchVars

\* The torrent has selections of a startup prefetch only for the pieces of the
\* attempt that runs, an attempt runs only for a job that is not settled, and
\* whatever jobs, commands and failures came before, the disk downloads in the
\* background only if the publication's scope says so.
NoOrphanSelection ==
  /\ streams = attempt.owned /\ Cardinality(streams) <= WindowPieces
  /\ ~Current => attempt = NoAttempt
  /\ command = "idle" /\ entry.live /\ entry.background => scope \in {"disk", "auto"}

\* A command that waits for the job ends, even if the network never answers: it
\* blocks every later command, the guest's reads included.
WaitEnds == command = "wait" ~> command # "wait"
=============================================================================
