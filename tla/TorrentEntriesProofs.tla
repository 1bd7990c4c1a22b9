------------------------ MODULE TorrentEntriesProofs ------------------------
(***************************************************************************)
(* The safety of one component's torrent in the window for any number of   *)
(* callers and torrents, from one inductive invariant.                     *)
(***************************************************************************)
EXTENDS TorrentEntries, TLAPS

Answers == {"ok", "error", "cancelled"}
CallType ==
  [worker : {"idle", "pending"} \cup Answers,
   window : {"idle", "waiting", "again", "recovering", "done"}, left : BOOLEAN]
JobType ==
  [pc : {"none", "init", "lookup", "stopping", "verify", "opening"}, aborted : BOOLEAN,
   found : BOOLEAN, probe : Torrents \cup {None}, waiters : SUBSET (Callers \cup {Recovery})]
EntryType == [t : Torrents \cup {None}, error : {"none", "error"}]
TorrentType == [st : {"none", "live", "closing"}, kind : {"none", "probe", "payload"}]
RecoveryType == [pc : {"none", "removing", "again", "open"}, t : Torrents \cup {None}]
ClosingType == [pc : {"none", "removing", "closed"}, t : Torrents \cup {None}]

TypeOK ==
  /\ call \in [Callers -> CallType] /\ job \in JobType /\ entry \in EntryType
  /\ torrent \in [Torrents -> TorrentType] /\ recovering \in RecoveryType
  /\ clearing \in ClosingType /\ closing \in ClosingType
  /\ known \in BOOLEAN /\ cancelled \in BOOLEAN

\* A job is aborted only by cancel, or when nobody waits for it.
JobInv ==
  /\ job.pc = "none" => job = NoJob
  /\ job.probe # None => job.pc \in {"lookup", "stopping"}
  /\ job.aborted => job.pc \in {"stopping", "verify"} /\ (cancelled \/ job.waiters = {})

\* An entry is there only after its job made it, and works while the job waits for it.
EntryInv ==
  /\ entry.t = None => entry = NoEntry
  /\ entry # NoEntry => job.pc \in {"none", "opening"}
  /\ job.pc = "opening" => entry.t # None /\ entry.error = "none" /\ Live(entry.t)

\* A torrent that lives is reached by the entry or by the lookup.
LiveInv ==
  \A t \in Torrents :
    Live(t) => IF torrent[t].kind = "payload" THEN entry.t = t
               ELSE job.probe = t /\ job.pc = "lookup"

\* While the cache is cleared or the transport closes, only aborted jobs are left.
OffInv ==
  /\ Off => cancelled /\ entry = NoEntry /\ (job.pc = "none" \/ job.aborted)
  /\ closing.pc = "closed" => job.pc = "none"

EntriesInv == TypeOK /\ JobInv /\ EntryInv /\ LiveInv /\ OffInv /\ NoInnocentCancelled

USE EntriesAssumption
USE DEF EntriesInv, NoJob, NoEntry, NoRecovery, NoClosing, Off, Live, Answers

\* Answering requests cancels only those that are answered so.
LEMMA AnsweredIs ==
  ASSUME NEW f \in [Callers -> CallType], NEW w, NEW how \in Answers
  PROVE  /\ Answered(f, w, how) \in [Callers -> CallType]
         /\ \A c \in Callers :
              /\ Answered(f, w, how)[c].left = f[c].left
              /\ Answered(f, w, how)[c].worker = "cancelled" =>
                   f[c].worker = "cancelled" \/ (c \in w /\ how = "cancelled")
<1> DEFINE r(c) == [f[c] EXCEPT !.window = "done", !.worker = IF @ = "pending" THEN how ELSE @]
<1>1. ASSUME NEW c \in Callers
      PROVE  /\ r(c) \in CallType /\ r(c).left = f[c].left
             /\ r(c).worker = "cancelled" => f[c].worker = "cancelled" \/ how = "cancelled"
  BY DEF CallType
<1>2. Answered(f, w, how) = [c \in Callers |-> IF c \in w THEN r(c) ELSE f[c]]
  BY DEF Answered
<1> HIDE DEF r
<1>. QED
  BY <1>1, <1>2

\* Destroying a torrent ends that life only.
LEMMA DestroyedIs ==
  ASSUME NEW ts \in [Torrents -> TorrentType], NEW t \in Torrents \cup {None}
  PROVE  /\ Destroyed(ts, t) \in [Torrents -> TorrentType]
         /\ \A s \in Torrents :
              /\ Destroyed(ts, t)[s].kind = ts[s].kind
              /\ Destroyed(ts, t)[s].st = "live" <=> ts[s].st = "live" /\ s # t
<1>1. CASE t # None /\ ts[t].st = "live"
  <2>1. /\ [ts[t] EXCEPT !.st = "closing"] \in TorrentType
        /\ [ts[t] EXCEPT !.st = "closing"].kind = ts[t].kind
        /\ [ts[t] EXCEPT !.st = "closing"].st = "closing"
    BY <1>1 DEF TorrentType
  <2>2. Destroyed(ts, t) = [ts EXCEPT ![t] = [ts[t] EXCEPT !.st = "closing"]]
    BY <1>1 DEF Destroyed
  <2>. QED
    BY <1>1, <2>1, <2>2
<1>2. CASE ~(t # None /\ ts[t].st = "live")
  BY <1>2 DEF Destroyed
<1>. QED
  BY <1>1, <1>2

\* The end of a job: its waiters get its answer, and so do the callers of the
\* recovery when it waited too.
LEMMA JobEndsIs ==
  ASSUME TypeOK, NEW f \in [Callers -> CallType], NEW ts, NEW e, NEW how \in Answers,
         JobEnds(f, ts, e, how)
  PROVE  /\ call' \in [Callers -> CallType] /\ recovering' \in RecoveryType
         /\ job' = NoJob /\ torrent' = ts /\ entry' = e
         /\ \A c \in Callers :
              /\ call'[c].left = f[c].left
              /\ call'[c].worker = "cancelled" =>
                   f[c].worker = "cancelled"
                   \/ (how = "cancelled" /\ (c \in job.waiters \/ Recovery \in job.waiters))
<1> DEFINE g == Answered(f, job.waiters, how)
<1>1. /\ g \in [Callers -> CallType]
      /\ \A c \in Callers :
           /\ g[c].left = f[c].left
           /\ g[c].worker = "cancelled" =>
                f[c].worker = "cancelled" \/ (c \in job.waiters /\ how = "cancelled")
  BY AnsweredIs
<1>2. job' = NoJob /\ torrent' = ts /\ entry' = e
  BY DEF JobEnds
<1>3. CASE Recovery \in job.waiters
  <2> DEFINE w == {c \in Callers : g[c].window = "recovering"}
  <2>1. call' = Answered(g, w, how) /\ recovering' = NoRecovery
    BY <1>3 DEF JobEnds, Recovered, Settled
  <2> HIDE DEF g, w
  <2>2. /\ Answered(g, w, how) \in [Callers -> CallType]
        /\ \A c \in Callers :
             /\ Answered(g, w, how)[c].left = g[c].left
             /\ Answered(g, w, how)[c].worker = "cancelled" =>
                  g[c].worker = "cancelled" \/ (c \in w /\ how = "cancelled")
    BY <1>1, AnsweredIs
  <2>3. NoRecovery \in RecoveryType
    BY DEF RecoveryType
  <2>4. ASSUME NEW c \in Callers
        PROVE  /\ call'[c].left = f[c].left
               /\ call'[c].worker = "cancelled" =>
                    f[c].worker = "cancelled" \/ how = "cancelled"
    BY <1>1, <2>1, <2>2
  <2> HIDE DEF NoJob, NoRecovery
  <2>. QED
    BY <1>2, <1>3, <2>1, <2>2, <2>3, <2>4
<1>4. CASE Recovery \notin job.waiters
  <2>1. call' = g /\ recovering' = recovering
    BY <1>4 DEF JobEnds, Settled
  <2> HIDE DEF g
  <2>. QED
    BY <1>1, <1>2, <2>1 DEF TypeOK
<1>. QED
  BY <1>3, <1>4

\* What is left to show when a step ends the job.
LEMMA JobEndsKeeps ==
  ASSUME EntriesInv, NEW f \in [Callers -> CallType], NEW ts \in [Torrents -> TorrentType],
         NEW e \in EntryType, NEW how \in Answers, JobEnds(f, ts, e, how),
         clearing' \in ClosingType, closing' \in ClosingType, known' \in BOOLEAN, cancelled' \in BOOLEAN,
         cancelled => cancelled', Off' => cancelled' /\ e = NoEntry,
         e.t = None => e = NoEntry,
         \A t \in Torrents : ts[t].st = "live" => ts[t].kind = "payload" /\ e.t = t,
         \A c \in Callers : f[c].worker = "cancelled" => f[c].left \/ cancelled',
         how = "cancelled" =>
           \/ cancelled'
           \/ Recovery \notin job.waiters /\ \A c \in Callers : c \in job.waiters => f[c].left
  PROVE  EntriesInv'
<1>1. TypeOK
  OBVIOUS
<1>2. /\ call' \in [Callers -> CallType] /\ recovering' \in RecoveryType
      /\ job' = NoJob /\ torrent' = ts /\ entry' = e
      /\ \A c \in Callers :
           /\ call'[c].left = f[c].left
           /\ call'[c].worker = "cancelled" =>
                f[c].worker = "cancelled"
                \/ (how = "cancelled" /\ (c \in job.waiters \/ Recovery \in job.waiters))
  BY <1>1, JobEndsIs
<1>3. NoJob \in JobType
  BY DEF JobType
<1>4. TypeOK'
  BY <1>2, <1>3 DEF TypeOK
<1>5. JobInv'
  BY <1>2 DEF JobInv
<1>6. EntryInv'
  BY <1>2 DEF EntryInv
<1>7. LiveInv'
  BY <1>2 DEF LiveInv
<1>8. OffInv'
  BY <1>2 DEF OffInv
<1>9. NoInnocentCancelled'
  BY <1>2 DEF NoInnocentCancelled
<1>. QED
  BY <1>4, <1>5, <1>6, <1>7, <1>8, <1>9

\* What is left to show when a step aborts the job.
LEMMA JobAbortsKeeps ==
  ASSUME EntriesInv, NEW f \in [Callers -> CallType], NEW w \in SUBSET (Callers \cup {Recovery}),
         JobAborts(f, w),
         clearing' \in ClosingType, closing' \in ClosingType, known' \in BOOLEAN, cancelled' \in BOOLEAN,
         cancelled => cancelled',
         Off' => cancelled' /\ (entry = NoEntry \/ job.pc = "opening"),
         closing'.pc = "closed" => closing.pc = "closed",
         job.pc = "none" => w = {},
         \A c \in Callers : f[c].worker = "cancelled" => f[c].left \/ cancelled',
         \/ cancelled'
         \/ w = {} /\ Recovery \notin job.waiters /\ \A c \in Callers : c \in job.waiters => f[c].left
  PROVE  EntriesInv'
<1>0. /\ TypeOK /\ job \in JobType /\ entry \in EntryType /\ entry.t \in Torrents \cup {None}
      /\ job.probe \in Torrents \cup {None} /\ job.pc \in {"none", "init", "lookup", "stopping", "verify", "opening"}
      /\ torrent \in [Torrents -> TorrentType] /\ recovering \in RecoveryType
  BY DEF TypeOK, JobType, EntryType
<1>1. CASE job.pc \in {"none", "stopping", "verify"}
  <2>1. /\ job' = [job EXCEPT !.aborted = job.pc # "none", !.waiters = w] /\ call' = f
        /\ UNCHANGED <<torrent, entry, recovering>>
    BY <1>1 DEF JobAborts
  <2>2. /\ job' \in JobType /\ job'.pc = job.pc /\ job'.waiters = w /\ job'.probe = job.probe
        /\ job'.aborted <=> job.pc # "none"
    <3> DEFINE b == job.pc # "none"
    <3>1. b \in BOOLEAN
      OBVIOUS
    <3>2. job' = [job EXCEPT !.aborted = b, !.waiters = w]
      BY <2>1
    <3> HIDE DEF b
    <3>3. job' \in JobType /\ job'.pc = job.pc /\ job'.waiters = w /\ job'.probe = job.probe /\ job'.aborted = b
      BY <1>0, <3>1, <3>2 DEF JobType
    <3>. QED
      BY <3>3 DEF b
  <2>3. TypeOK'
    BY <1>0, <2>1, <2>2 DEF TypeOK
  <2>4. JobInv'
    <3>1. job.pc = "none" => job' = NoJob
      <4>1. SUFFICES ASSUME job.pc = "none"
                     PROVE  job' = NoJob
        OBVIOUS
      <4>2. job = NoJob /\ w = {}
        BY <4>1 DEF JobInv
      <4>. QED
        BY <2>1, <4>2
    <3>. QED
      BY <1>1, <2>2, <3>1 DEF JobInv
  <2>5. EntryInv' /\ LiveInv'
    BY <1>1, <2>1, <2>2 DEF EntryInv, LiveInv
  <2>6. OffInv'
    BY <1>1, <2>1, <2>2 DEF OffInv
  <2>7. NoInnocentCancelled'
    BY <2>1 DEF NoInnocentCancelled
  <2>. QED
    BY <2>3, <2>4, <2>5, <2>6, <2>7
<1>2. CASE job.pc = "init"
  <2>1. JobEnds(f, torrent, entry, "cancelled")
    BY <1>2 DEF JobAborts
  <2>2. entry = NoEntry
    BY <1>2 DEF EntryInv
  <2>3. \A t \in Torrents : ~Live(t)
    BY <1>2, <2>2 DEF LiveInv
  <2>. QED
    BY <1>0, <2>1, <2>2, <2>3, JobEndsKeeps
<1>3. CASE job.pc = "lookup"
  <2>1. /\ job' = [job EXCEPT !.aborted = TRUE, !.pc = "stopping", !.waiters = w]
        /\ torrent' = Destroyed(torrent, job.probe) /\ call' = f
        /\ UNCHANGED <<entry, recovering>>
    BY <1>3 DEF JobAborts
  <2>2. /\ job' \in JobType /\ job'.pc = "stopping" /\ job'.waiters = w /\ job'.probe = job.probe
        /\ job'.aborted
    BY <1>0, <2>1 DEF JobType
  <2>3. entry = NoEntry
    BY <1>3 DEF EntryInv
  <2>4. torrent' \in [Torrents -> TorrentType] /\ \A t \in Torrents : torrent'[t].st # "live"
    <3>1. \A t \in Torrents : Live(t) => t = job.probe
      BY <2>3 DEF LiveInv
    <3>. QED
      BY <1>0, <2>1, <3>1, DestroyedIs
  <2>5. TypeOK'
    BY <1>0, <2>1, <2>2, <2>4 DEF TypeOK
  <2>6. JobInv' /\ EntryInv' /\ LiveInv' /\ OffInv'
    <3>1. closing.pc # "closed"
      BY <1>3 DEF OffInv
    <3>. QED
      BY <2>1, <2>2, <2>3, <2>4, <3>1 DEF JobInv, EntryInv, LiveInv, OffInv
  <2>7. NoInnocentCancelled'
    BY <2>1 DEF NoInnocentCancelled
  <2>. QED
    BY <2>5, <2>6, <2>7
<1>4. CASE job.pc = "opening"
  <2>1. JobEnds(f, Destroyed(torrent, entry.t), NoEntry, "cancelled")
    BY <1>4 DEF JobAborts
  <2>2. \A t \in Torrents : Live(t) => t = entry.t
    BY <1>4 DEF LiveInv
  <2>3. /\ Destroyed(torrent, entry.t) \in [Torrents -> TorrentType]
        /\ \A t \in Torrents : Destroyed(torrent, entry.t)[t].st # "live"
    BY <1>0, <2>2, DestroyedIs
  <2>4. NoEntry \in EntryType
    BY DEF EntryType
  <2>. QED
    BY <2>1, <2>3, <2>4, JobEndsKeeps
<1>. QED
  BY <1>0, <1>1, <1>2, <1>3, <1>4

\* A step that leaves the job, the torrents and the entry alone.
LEMMA CallsKeep ==
  ASSUME EntriesInv, UNCHANGED <<job, torrent, entry, clearing, closing, cancelled>>,
         known' \in BOOLEAN, call' \in [Callers -> CallType], recovering' \in RecoveryType,
         \A c \in Callers : call'[c].worker = "cancelled" => call'[c].left \/ cancelled
  PROVE  EntriesInv'
<1>1. TypeOK'
  BY DEF TypeOK
<1>2. JobInv' /\ EntryInv' /\ LiveInv' /\ OffInv' /\ NoInnocentCancelled'
  BY DEF JobInv, EntryInv, LiveInv, OffInv, NoInnocentCancelled
<1>. QED
  BY <1>1, <1>2

\* transport.open, for a caller or for the recovery.
LEMMA OpenForKeeps ==
  ASSUME EntriesInv, NEW f \in [Callers -> CallType], NEW w \in Callers \cup {Recovery},
         NEW given \in BOOLEAN, OpenFor(w, given, f),
         UNCHANGED <<known, clearing, closing, cancelled>>,
         \A c \in Callers : f[c].worker = "cancelled" => f[c].left \/ cancelled
  PROVE  EntriesInv'
<1>0. /\ TypeOK /\ job \in JobType /\ recovering \in RecoveryType /\ known \in BOOLEAN
      /\ NoRecovery \in RecoveryType /\ [NoRecovery EXCEPT !.pc = "again"] \in RecoveryType
      /\ [NoRecovery EXCEPT !.pc = "open"] \in RecoveryType
  BY DEF TypeOK, RecoveryType
<1>1. ASSUME NEW how \in Answers, how = "cancelled" => cancelled,
             UNCHANGED <<job, torrent, entry>>,
             IF w = Recovery THEN call' = Recovered(f, how) /\ recovering' = NoRecovery
             ELSE call' = Answered(f, {w}, how) /\ UNCHANGED recovering
      PROVE  EntriesInv'
  <2>1. PICK s : call' = Answered(f, s, how)
    BY <1>1 DEF Recovered
  <2>2. recovering' \in RecoveryType
    BY <1>0, <1>1
  <2>3. /\ call' \in [Callers -> CallType]
        /\ \A c \in Callers :
             /\ call'[c].left = f[c].left
             /\ call'[c].worker = "cancelled" => f[c].worker = "cancelled" \/ how = "cancelled"
    BY <2>1, AnsweredIs
  <2>. QED
    BY <1>0, <1>1, <2>2, <2>3, CallsKeep
<1>2. ASSUME NEW p \in {"again", "waiting"}, NEW q \in {"again", "open"},
             IF w = Recovery THEN call' = f /\ recovering' = [NoRecovery EXCEPT !.pc = q]
             ELSE call' = [f EXCEPT ![w].window = p] /\ UNCHANGED recovering
      PROVE  /\ call' \in [Callers -> CallType] /\ recovering' \in RecoveryType
             /\ \A c \in Callers : call'[c].worker = "cancelled" => call'[c].left \/ cancelled
  <2>1. CASE w = Recovery
    BY <1>0, <1>2, <2>1
  <2>2. CASE w # Recovery
    <3>1. w \in Callers /\ call' = [f EXCEPT ![w] = [f[w] EXCEPT !.window = p]] /\ recovering' = recovering
      BY <1>2, <2>2
    <3>2. /\ [f[w] EXCEPT !.window = p] \in CallType
          /\ [f[w] EXCEPT !.window = p].worker = f[w].worker /\ [f[w] EXCEPT !.window = p].left = f[w].left
      BY <3>1 DEF CallType
    <3>. QED
      BY <1>0, <3>1, <3>2
  <2>. QED
    BY <2>1, <2>2
<1>3. CASE /\ Off /\ UNCHANGED <<job, torrent, entry>>
           /\ IF w = Recovery THEN call' = Recovered(f, "cancelled") /\ recovering' = NoRecovery
              ELSE call' = Answered(f, {w}, "cancelled") /\ UNCHANGED recovering
  <2>1. cancelled
    BY <1>3 DEF OffInv
  <2>. QED
    BY <1>1, <1>3, <2>1
<1>4. CASE /\ ~Off /\ job.aborted
           /\ IF w = Recovery THEN call' = f /\ recovering' = [NoRecovery EXCEPT !.pc = "again"]
              ELSE call' = [f EXCEPT ![w].window = "again"] /\ UNCHANGED recovering
           /\ UNCHANGED <<job, torrent, entry>>
  <2>1. /\ call' \in [Callers -> CallType] /\ recovering' \in RecoveryType
        /\ \A c \in Callers : call'[c].worker = "cancelled" => call'[c].left \/ cancelled
    BY <1>2, <1>4
  <2>. QED
    BY <1>0, <1>4, <2>1, CallsKeep
<1>5. CASE /\ ~Off /\ job.pc = "none" /\ entry # NoEntry
           /\ LET how == IF entry.error = "none" THEN "ok" ELSE "error" IN
              IF w = Recovery THEN call' = Recovered(f, how) /\ recovering' = NoRecovery
              ELSE call' = Answered(f, {w}, how) /\ UNCHANGED recovering
           /\ UNCHANGED <<job, torrent, entry>>
  <2> DEFINE how == IF entry.error = "none" THEN "ok" ELSE "error"
  <2>1. /\ how \in Answers /\ how # "cancelled" /\ UNCHANGED <<job, torrent, entry>>
        /\ IF w = Recovery THEN call' = Recovered(f, how) /\ recovering' = NoRecovery
           ELSE call' = Answered(f, {w}, how) /\ UNCHANGED recovering
    BY <1>5
  <2> HIDE DEF how
  <2>. QED
    BY <1>1, <2>1
<1>6. CASE /\ MayOpen
           /\ job' = IF job.pc # "none" THEN [job EXCEPT !.waiters = @ \cup {w}]
                     ELSE [NoJob EXCEPT !.pc = IF given THEN "verify" ELSE "init", !.waiters = {w}]
           /\ IF w = Recovery THEN call' = f /\ recovering' = [NoRecovery EXCEPT !.pc = "open"]
              ELSE call' = [f EXCEPT ![w].window = "waiting"] /\ UNCHANGED recovering
           /\ UNCHANGED <<torrent, entry>>
  <2>1. /\ call' \in [Callers -> CallType] /\ recovering' \in RecoveryType
        /\ \A c \in Callers : call'[c].worker = "cancelled" => call'[c].left \/ cancelled
    BY <1>2, <1>6
  <2>2. ~Off /\ ~job.aborted /\ (job.pc # "none" \/ entry = NoEntry)
    BY <1>6 DEF MayOpen
  <2>3. /\ job' \in JobType /\ ~job'.aborted /\ job'.pc # "none"
        /\ IF job.pc # "none" THEN job'.pc = job.pc /\ job'.probe = job.probe
           ELSE job'.pc \in {"verify", "init"} /\ job'.probe = None
    <3>1. CASE job.pc # "none"
      <4>1. job' = [job EXCEPT !.waiters = job.waiters \cup {w}]
        BY <1>6, <3>1
      <4>2. job.waiters \cup {w} \in SUBSET (Callers \cup {Recovery})
        BY <1>0 DEF JobType
      <4>3. job.aborted \in BOOLEAN
        BY <1>0 DEF JobType
      <4>. QED
        BY <1>0, <2>2, <3>1, <4>1, <4>2 DEF JobType
    <3>2. CASE job.pc = "none"
      <4> DEFINE p == IF given THEN "verify" ELSE "init"
      <4>1. p \in {"verify", "init"} /\ job' = [NoJob EXCEPT !.pc = p, !.waiters = {w}]
        BY <1>6, <3>2
      <4> HIDE DEF p
      <4>. QED
        BY <3>2, <4>1 DEF JobType
    <3>. QED
      BY <3>1, <3>2
  <2>4. TypeOK'
    BY <1>0, <1>6, <2>1, <2>3 DEF TypeOK
  <2>5. JobInv'
    BY <2>3 DEF JobInv
  <2>6. EntryInv'
    BY <1>6, <2>2, <2>3 DEF EntryInv
  <2>7. LiveInv'
    BY <1>6, <2>2, <2>3 DEF LiveInv, JobInv
  <2>8. OffInv'
    BY <2>2 DEF OffInv
  <2>9. NoInnocentCancelled'
    BY <2>1 DEF NoInnocentCancelled
  <2>. QED
    BY <2>4, <2>5, <2>6, <2>7, <2>8, <2>9
<1>. QED
  BY <1>3, <1>4, <1>5, <1>6 DEF OpenFor

\* The request is recorded as pending before it is handled.
LEMMA SentIs ==
  ASSUME EntriesInv, NEW c \in Callers
  PROVE  /\ Sent(c) \in [Callers -> CallType] /\ call \in [Callers -> CallType]
         /\ \A b \in Callers :
              /\ Sent(c)[b].worker = "cancelled" => Sent(c)[b].left \/ cancelled
              /\ call[b].worker = "cancelled" => call[b].left \/ cancelled
<1>1. call \in [Callers -> CallType]
  BY DEF TypeOK
<1>2. /\ [call[c] EXCEPT !.worker = "pending"] \in CallType
      /\ [call[c] EXCEPT !.worker = "pending"].worker = "pending"
  BY <1>1 DEF CallType
<1>3. Sent(c) = [call EXCEPT ![c] = [call[c] EXCEPT !.worker = "pending"]]
  BY <1>1 DEF Sent
<1>. QED
  BY <1>1, <1>2, <1>3 DEF NoInnocentCancelled

\* A request opens.
LEMMA OpenKeeps ==
  ASSUME EntriesInv, NEW c \in Callers, Open(c)
  PROVE  EntriesInv'
<1>1. PICK given \in BOOLEAN : OpenFor(c, given, Sent(c))
  BY DEF Open
<1>2. UNCHANGED <<known, clearing, closing, cancelled>>
  BY DEF Open
<1>. QED
  BY <1>1, <1>2, SentIs, OpenForKeeps

\* A request that met an aborted job opens again.
LEMMA OpenAgainKeeps ==
  ASSUME EntriesInv, NEW c \in Callers, OpenAgain(c)
  PROVE  EntriesInv'
<1>1. PICK given \in BOOLEAN : OpenFor(c, given, call)
  BY DEF OpenAgain
<1>2. UNCHANGED <<known, clearing, closing, cancelled>>
  BY DEF OpenAgain
<1>. QED
  BY <1>1, <1>2, SentIs, OpenForKeeps

\* A recovery removes an entry only when no job opens it.
LEMMA RecoverKeeps ==
  ASSUME EntriesInv, NEW c \in Callers, Recover(c)
  PROVE  EntriesInv'
<1> DEFINE joins == [Sent(c) EXCEPT ![c].window = "recovering"]
<1>0. /\ job \in JobType /\ entry \in EntryType /\ entry.t \in Torrents \cup {None} /\ known \in BOOLEAN
      /\ torrent \in [Torrents -> TorrentType] /\ recovering \in RecoveryType
      /\ clearing \in ClosingType /\ closing \in ClosingType /\ cancelled \in BOOLEAN
  BY DEF TypeOK, EntryType
<1>1. UNCHANGED <<clearing, closing, cancelled>> /\ known' \in BOOLEAN
  BY DEF Recover
<1>2. ASSUME NEW how \in Answers, how = "cancelled" => cancelled,
             call' = Answered(Sent(c), {c}, how), UNCHANGED <<recovering, entry, torrent, job>>
      PROVE  EntriesInv'
  <2>1. /\ call' \in [Callers -> CallType]
        /\ \A b \in Callers :
             /\ call'[b].left = Sent(c)[b].left
             /\ call'[b].worker = "cancelled" => Sent(c)[b].worker = "cancelled" \/ how = "cancelled"
    BY <1>2, SentIs, AnsweredIs
  <2>2. \A b \in Callers : call'[b].worker = "cancelled" => call'[b].left \/ cancelled
    BY <1>2, <2>1, SentIs
  <2>. QED
    BY <1>0, <1>1, <1>2, <2>1, <2>2, CallsKeep
<1>3. /\ joins \in [Callers -> CallType]
      /\ \A b \in Callers : joins[b].worker = "cancelled" => joins[b].left \/ cancelled
  <2> DEFINE f == Sent(c)
             r == [f[c] EXCEPT !.window = "recovering"]
  <2>1. f \in [Callers -> CallType] /\ \A b \in Callers : f[b].worker = "cancelled" => f[b].left \/ cancelled
    BY SentIs
  <2> HIDE DEF f
  <2>2. r \in CallType /\ r.worker = f[c].worker /\ r.left = f[c].left
    BY <2>1 DEF CallType
  <2>3. joins = [f EXCEPT ![c] = r]
    BY <2>1 DEF f
  <2> HIDE DEF r, joins
  <2>. QED
    BY <2>1, <2>2, <2>3
<1>4. CASE Off
  <2>1. call' = Answered(Sent(c), {c}, "cancelled") /\ UNCHANGED <<recovering, entry, torrent, job>>
    BY <1>4 DEF Recover
  <2>2. cancelled
    BY <1>4 DEF OffInv
  <2>. QED
    BY <1>2, <2>1, <2>2
<1>5. CASE ~Off /\ recovering # NoRecovery
  <2>1. call' = joins /\ UNCHANGED <<recovering, entry, torrent, job>>
    BY <1>5 DEF Recover
  <2> HIDE DEF joins
  <2>. QED
    BY <1>0, <1>1, <1>3, <2>1, CallsKeep
<1>6. CASE ~Off /\ recovering = NoRecovery /\ entry # NoEntry /\ entry.error = "none" /\ Live(entry.t)
  <2>1. call' = Answered(Sent(c), {c}, "ok") /\ UNCHANGED <<recovering, entry, torrent, job>>
    BY <1>6 DEF Recover
  <2>. QED
    BY <1>2, <2>1
<1>7. CASE ~Off /\ recovering = NoRecovery /\ entry = NoEntry /\ ~known
  <2>1. call' = Answered(Sent(c), {c}, "error") /\ UNCHANGED <<recovering, entry, torrent, job>>
    BY <1>7 DEF Recover
  <2>. QED
    BY <1>2, <2>1
<1>8. CASE /\ ~Off /\ recovering = NoRecovery
           /\ ~(entry # NoEntry /\ entry.error = "none" /\ Live(entry.t))
           /\ ~(entry = NoEntry /\ ~known)
  <2> DEFINE u == IF entry # NoEntry /\ Live(entry.t) THEN entry.t ELSE None
  <2>1. /\ call' = joins /\ UNCHANGED job /\ recovering' = [pc |-> "removing", t |-> u]
        /\ torrent' = Destroyed(torrent, entry.t) /\ entry' = NoEntry
    BY <1>8 DEF Recover
  <2>2. u \in Torrents \cup {None}
    BY <1>0
  <2> HIDE DEF u, joins
  <2>3. recovering' \in RecoveryType /\ NoEntry \in EntryType
    BY <2>1, <2>2 DEF RecoveryType, EntryType
  <2>4. /\ torrent' \in [Torrents -> TorrentType]
        /\ \A s \in Torrents :
             /\ torrent'[s].kind = torrent[s].kind
             /\ torrent'[s].st = "live" <=> torrent[s].st = "live" /\ s # entry.t
    BY <1>0, <2>1, DestroyedIs
  <2>5. job.pc # "opening"
    BY <1>8 DEF EntryInv
  <2>6. TypeOK'
    BY <1>0, <1>1, <1>3, <2>1, <2>3, <2>4 DEF TypeOK
  <2>7. JobInv'
    BY <1>1, <2>1 DEF JobInv
  <2>8. EntryInv'
    BY <2>1, <2>5 DEF EntryInv
  <2>9. LiveInv'
    BY <2>1, <2>4 DEF LiveInv
  <2>10. OffInv'
    BY <1>1, <1>8 DEF OffInv
  <2>11. NoInnocentCancelled'
    BY <1>1, <1>3, <2>1 DEF NoInnocentCancelled
  <2>. QED
    BY <2>6, <2>7, <2>8, <2>9, <2>10, <2>11
<1>. QED
  BY <1>4, <1>5, <1>6, <1>7, <1>8

\* The shared recovery opens.
LEMMA RecoveryOpensKeeps ==
  ASSUME EntriesInv, RecoveryOpens
  PROVE  EntriesInv'
<1>1. OpenFor(Recovery, TRUE, call) /\ UNCHANGED <<known, clearing, closing, cancelled>>
  BY DEF RecoveryOpens
<1>2. /\ call \in [Callers -> CallType]
      /\ \A b \in Callers : call[b].worker = "cancelled" => call[b].left \/ cancelled
  BY DEF TypeOK, NoInnocentCancelled
<1>. QED
  BY <1>1, <1>2, OpenForKeeps

\* A request that is given up takes the job with it only when it waited alone.
LEMMA LeaveKeeps ==
  ASSUME EntriesInv, NEW c \in Callers, Leave(c)
  PROVE  EntriesInv'
<1> DEFINE f == [call EXCEPT ![c].worker = "cancelled", ![c].left = TRUE]
           g == [f EXCEPT ![c].window = "done"]
           w == job.waiters \ {c}
<1>0. /\ call \in [Callers -> CallType] /\ job \in JobType /\ job.waiters \in SUBSET (Callers \cup {Recovery})
      /\ known \in BOOLEAN /\ recovering \in RecoveryType
      /\ clearing \in ClosingType /\ closing \in ClosingType /\ cancelled \in BOOLEAN
  BY DEF TypeOK, JobType
<1>1. UNCHANGED <<known, clearing, closing, cancelled>>
  BY DEF Leave
<1>2. /\ f \in [Callers -> CallType] /\ f[c].left /\ \A b \in Callers \ {c} : f[b] = call[b]
  <2> DEFINE r == [call[c] EXCEPT !.worker = "cancelled", !.left = TRUE]
  <2>1. r \in CallType /\ r.left
    BY <1>0 DEF CallType
  <2>2. f = [call EXCEPT ![c] = r]
    BY <1>0
  <2> HIDE DEF r, f
  <2>. QED
    BY <1>0, <2>1, <2>2
<1> HIDE DEF f
<1>3. /\ g \in [Callers -> CallType] /\ g[c].left /\ \A b \in Callers \ {c} : g[b] = call[b]
  <2> DEFINE r == [f[c] EXCEPT !.window = "done"]
  <2>1. r \in CallType /\ r.left
    BY <1>2 DEF CallType
  <2>2. g = [f EXCEPT ![c] = r]
    BY <1>2
  <2> HIDE DEF r, g
  <2>. QED
    BY <1>2, <2>1, <2>2
<1>4. ASSUME NEW h \in {f, g}
      PROVE  \A b \in Callers : h[b].worker = "cancelled" => h[b].left \/ cancelled
  BY <1>2, <1>3 DEF NoInnocentCancelled
<1>5. CASE c \in Startup /\ c \in job.waiters /\ w = {}
  <2>1. JobAborts(g, {})
    BY <1>5 DEF Leave, f
  <2> HIDE DEF g
  <2>2. job.pc # "none"
    BY <1>5 DEF JobInv
  <2>3. Recovery \notin job.waiters /\ \A b \in Callers : b \in job.waiters => g[b].left
    BY <1>3, <1>5
  <2>4. Off => cancelled /\ entry = NoEntry
    BY DEF OffInv
  <2>. QED
    BY <1>0, <1>1, <1>3, <1>4, <2>1, <2>2, <2>3, <2>4, JobAbortsKeeps
<1>6. CASE c \in Startup /\ c \in job.waiters /\ w # {}
  <2>1. call' = g /\ job' = [job EXCEPT !.waiters = w] /\ UNCHANGED <<torrent, entry, recovering>>
    BY <1>6 DEF Leave, f
  <2>2. w \in SUBSET (Callers \cup {Recovery})
    BY <1>0
  <2> HIDE DEF g, w
  <2>3. /\ job' \in JobType /\ job'.pc = job.pc /\ job'.probe = job.probe /\ job'.aborted = job.aborted
        /\ job'.waiters = w
    BY <1>0, <2>1, <2>2 DEF JobType
  <2>4. TypeOK'
    BY <1>1, <1>3, <2>1, <2>3 DEF TypeOK
  <2>5. JobInv'
    <3>1. job.pc # "none"
      BY <1>6 DEF JobInv
    <3>2. job.aborted => cancelled
      BY <1>6 DEF JobInv
    <3>. QED
      BY <1>1, <2>3, <3>1, <3>2 DEF JobInv
  <2>6. EntryInv' /\ LiveInv' /\ OffInv'
    BY <1>1, <2>1, <2>3 DEF EntryInv, LiveInv, OffInv
  <2>7. NoInnocentCancelled'
    BY <1>1, <1>4, <2>1 DEF NoInnocentCancelled
  <2>. QED
    BY <2>4, <2>5, <2>6, <2>7
<1>7. CASE ~(c \in Startup /\ c \in job.waiters)
  <2>1. call' \in {f, g} /\ UNCHANGED <<job, torrent, entry, recovering>>
    BY <1>7 DEF Leave, f
  <2> HIDE DEF g
  <2>. QED
    BY <1>0, <1>1, <1>2, <1>3, <1>4, <2>1, CallsKeep
<1>. QED
  BY <1>5, <1>6, <1>7

\* A step of the lookup: only the job and the torrents change.
LEMMA LookupKeeps ==
  ASSUME EntriesInv, UNCHANGED <<call, entry, recovering, known, clearing, closing, cancelled>>,
         job.pc \in {"init", "lookup", "stopping"},
         job' \in JobType, job'.pc \in {"lookup", "stopping", "verify"},
         job'.pc = "verify" => job'.probe = None, job'.aborted = job.aborted,
         job'.aborted => job'.pc = "stopping", job'.waiters = job.waiters,
         torrent' \in [Torrents -> TorrentType],
         \A t \in Torrents :
           torrent'[t].st = "live" =>
             torrent'[t].kind = "probe" /\ job'.probe = t /\ job'.pc = "lookup"
  PROVE  EntriesInv'
<1>1. TypeOK'
  BY DEF TypeOK
<1>2. entry = NoEntry
  BY DEF EntryInv
<1>3. JobInv'
  BY DEF JobInv
<1>4. EntryInv' /\ LiveInv'
  BY <1>2 DEF EntryInv, LiveInv
<1>5. OffInv' /\ NoInnocentCancelled'
  BY DEF OffInv, NoInnocentCancelled
<1>. QED
  BY <1>1, <1>3, <1>4, <1>5

\* Before the lookup nothing lives.
LEMMA InitializedKeeps ==
  ASSUME EntriesInv, Initialized
  PROVE  EntriesInv'
<1>0. job \in JobType /\ torrent \in [Torrents -> TorrentType]
  BY DEF TypeOK
<1>1. /\ job.pc = "init" /\ job' = [job EXCEPT !.pc = "lookup"]
      /\ UNCHANGED <<call, entry, torrent, recovering, known, clearing, closing, cancelled>>
  BY DEF Initialized
<1>2. /\ job' \in JobType /\ job'.pc = "lookup" /\ job'.probe = job.probe
      /\ job'.aborted = job.aborted /\ job'.waiters = job.waiters
  BY <1>0, <1>1 DEF JobType
<1>3. ~job.aborted /\ entry = NoEntry /\ job.probe = None
  BY <1>1 DEF JobInv, EntryInv
<1>4. \A t \in Torrents : ~Live(t)
  BY <1>1, <1>3 DEF LiveInv
<1>. QED
  BY <1>0, <1>1, <1>2, <1>3, <1>4, LookupKeeps

\* A probe starts when no other one is left.
LEMMA ProbeStartsKeeps ==
  ASSUME EntriesInv, ProbeStarts
  PROVE  EntriesInv'
<1>0. job \in JobType /\ torrent \in [Torrents -> TorrentType]
  BY DEF TypeOK
<1>1. PICK t \in Torrents :
        /\ torrent' = [torrent EXCEPT ![t] = [st |-> "live", kind |-> "probe"]]
        /\ job' = [job EXCEPT !.probe = t]
  BY DEF ProbeStarts
<1>2. /\ job.pc = "lookup" /\ job.probe = None
      /\ UNCHANGED <<call, entry, recovering, known, clearing, closing, cancelled>>
  BY DEF ProbeStarts
<1>3. /\ job' \in JobType /\ job'.pc = job.pc /\ job'.probe = t
      /\ job'.aborted = job.aborted /\ job'.waiters = job.waiters
  BY <1>0, <1>1 DEF JobType
<1>4. ~job.aborted /\ entry = NoEntry
  BY <1>2 DEF JobInv, EntryInv
<1>5. \A s \in Torrents : ~Live(s)
  BY <1>2, <1>4 DEF LiveInv
<1>6. torrent' \in [Torrents -> TorrentType] /\ \A s \in Torrents : torrent'[s].st = "live" => s = t
  BY <1>0, <1>1, <1>5 DEF TorrentType
<1>7. torrent'[t].kind = "probe"
  BY <1>0, <1>1
<1>. QED
  BY <1>2, <1>3, <1>4, <1>6, <1>7, LookupKeeps

\* The end of the lookup stops the probe.
LEMMA LookupEndsKeeps ==
  ASSUME EntriesInv, LookupEnds
  PROVE  EntriesInv'
<1>0. /\ job \in JobType /\ torrent \in [Torrents -> TorrentType]
      /\ job.probe \in Torrents \cup {None}
  BY DEF TypeOK, JobType
<1>1. PICK found \in BOOLEAN : job' = [job EXCEPT !.pc = "stopping", !.found = found]
  BY DEF LookupEnds
<1>2. /\ job.pc = "lookup" /\ torrent' = Destroyed(torrent, job.probe)
      /\ UNCHANGED <<call, entry, recovering, known, clearing, closing, cancelled>>
  BY DEF LookupEnds
<1>3. /\ job' \in JobType /\ job'.pc = "stopping"
      /\ job'.aborted = job.aborted /\ job'.waiters = job.waiters
  BY <1>0, <1>1 DEF JobType
<1>4. entry = NoEntry
  BY <1>2 DEF EntryInv
<1>5. \A t \in Torrents : Live(t) => t = job.probe
  BY <1>4 DEF LiveInv
<1>6. torrent' \in [Torrents -> TorrentType] /\ \A t \in Torrents : torrent'[t].st # "live"
  BY <1>0, <1>2, <1>5, DestroyedIs
<1>. QED
  BY <1>2, <1>3, <1>6, LookupKeeps

\* What a step that ends the job knows of the state before.
LEMMA Facts ==
  ASSUME EntriesInv
  PROVE  /\ TypeOK /\ call \in [Callers -> CallType] /\ job \in JobType /\ entry \in EntryType
         /\ entry.t \in Torrents \cup {None} /\ NoEntry \in EntryType
         /\ torrent \in [Torrents -> TorrentType] /\ clearing \in ClosingType /\ closing \in ClosingType
         /\ known \in BOOLEAN /\ cancelled \in BOOLEAN
         /\ Off => cancelled /\ entry = NoEntry /\ (job.pc = "none" \/ job.aborted)
         /\ entry.t = None => entry = NoEntry
         /\ job.aborted => cancelled \/ job.waiters = {}
         /\ \A c \in Callers : call[c].worker = "cancelled" => call[c].left \/ cancelled
         /\ \A t \in Torrents : Live(t) /\ job.pc # "lookup" => torrent[t].kind = "payload" /\ entry.t = t
<1>1. /\ TypeOK /\ call \in [Callers -> CallType] /\ job \in JobType /\ entry \in EntryType
      /\ entry.t \in Torrents \cup {None} /\ NoEntry \in EntryType
      /\ torrent \in [Torrents -> TorrentType] /\ clearing \in ClosingType /\ closing \in ClosingType
      /\ known \in BOOLEAN /\ cancelled \in BOOLEAN
  BY DEF TypeOK, EntryType
<1>2. /\ Off => cancelled /\ entry = NoEntry /\ (job.pc = "none" \/ job.aborted)
      /\ entry.t = None => entry = NoEntry
      /\ job.aborted => cancelled \/ job.waiters = {}
  BY DEF OffInv, EntryInv, JobInv
<1>3. \A c \in Callers : call[c].worker = "cancelled" => call[c].left \/ cancelled
  BY DEF NoInnocentCancelled
<1>4. \A t \in Torrents : Live(t) /\ job.pc # "lookup" => torrent[t].kind = "payload" /\ entry.t = t
  BY DEF LiveInv
<1>. QED
  BY <1>1, <1>2, <1>3, <1>4

\* A job that was aborted, or found nothing, ends after its lookup.
LEMMA LookupOverKeeps ==
  ASSUME EntriesInv, LookupOver
  PROVE  EntriesInv'
<1>1. job.pc = "stopping" /\ job.probe = None /\ UNCHANGED <<known, clearing, closing, cancelled>>
  BY DEF LookupOver
<1>2. CASE job.found /\ ~job.aborted
  <2>1. job' = [job EXCEPT !.pc = "verify", !.probe = None] /\ UNCHANGED <<call, entry, torrent, recovering>>
    BY <1>2 DEF LookupOver
  <2>2. /\ job' \in JobType /\ job'.pc = "verify" /\ job'.probe = None
        /\ job'.aborted = job.aborted /\ job'.waiters = job.waiters
    BY <2>1, Facts DEF JobType
  <2>3. entry = NoEntry
    BY <1>1 DEF EntryInv
  <2>4. \A t \in Torrents : ~Live(t)
    BY <1>1, <2>3 DEF LiveInv
  <2>5. torrent' \in [Torrents -> TorrentType]
    BY <2>1, Facts
  <2>. QED
    BY <1>1, <1>2, <2>1, <2>2, <2>4, <2>5, LookupKeeps
<1>3. CASE ~(job.found /\ ~job.aborted)
  <2> DEFINE how == IF job.aborted THEN "cancelled" ELSE "error"
  <2>1. JobEnds(call, torrent, entry, how)
    BY <1>3 DEF LookupOver
  <2>2. how \in Answers /\ (how = "cancelled" => job.aborted)
    OBVIOUS
  <2> HIDE DEF how
  <2>. QED
    BY <1>1, <2>1, <2>2, Facts, JobEndsKeeps
<1>. QED
  BY <1>2, <1>3

\* A torrent is added when none lives and no entry is there.
LEMMA AddedKeeps ==
  ASSUME EntriesInv, Added
  PROVE  EntriesInv'
<1>1. job.pc = "verify" /\ UNCHANGED <<clearing, closing, cancelled>>
  BY DEF Added
<1>2. CASE job.aborted \/ closing.pc # "none"
  <2>1. JobEnds(call, torrent, entry, "cancelled") /\ UNCHANGED known
    BY <1>2 DEF Added
  <2>. QED
    BY <1>1, <1>2, <2>1, Facts, JobEndsKeeps
<1>3. CASE ~(job.aborted \/ closing.pc # "none")
  <2>1. PICK t \in Torrents :
          /\ torrent' = [torrent EXCEPT ![t] = [st |-> "live", kind |-> "payload"]]
          /\ entry' = [t |-> t, error |-> "none"]
          /\ job' = [job EXCEPT !.pc = "opening"] /\ known' = TRUE
          /\ UNCHANGED <<call, recovering>>
    BY <1>3 DEF Added
  <2>2. /\ job' \in JobType /\ job'.pc = "opening" /\ job'.probe = job.probe
        /\ job'.aborted = job.aborted /\ job'.waiters = job.waiters
    BY <2>1, Facts DEF JobType
  <2>3. entry' \in EntryType /\ entry'.t = t /\ entry'.error = "none" /\ t # None
    BY <2>1 DEF EntryType
  <2>4. \A s \in Torrents : ~Live(s)
    BY <1>1 DEF LiveInv, EntryInv
  <2>5. torrent' \in [Torrents -> TorrentType] /\ \A s \in Torrents : torrent'[s].st = "live" => s = t
    BY <2>1, <2>4, Facts DEF TorrentType
  <2>6. torrent'[t].st = "live" /\ torrent'[t].kind = "payload"
    BY <2>1, Facts
  <2>7. TypeOK'
    BY <1>1, <2>1, <2>2, <2>3, <2>5 DEF TypeOK
  <2>8. JobInv'
    BY <1>1, <1>3, <2>2 DEF JobInv
  <2>9. EntryInv'
    BY <2>2, <2>3, <2>6 DEF EntryInv
  <2>10. LiveInv'
    BY <2>3, <2>5, <2>6 DEF LiveInv
  <2>11. OffInv' /\ NoInnocentCancelled'
    BY <1>1, <1>3, <2>1 DEF OffInv, NoInnocentCancelled
  <2>. QED
    BY <2>7, <2>8, <2>9, <2>10, <2>11
<1>. QED
  BY <1>2, <1>3

\* What was found is not the component's metadata.
LEMMA NotMetadataKeeps ==
  ASSUME EntriesInv, NotMetadata
  PROVE  EntriesInv'
<1>1. /\ job.pc = "verify" /\ JobEnds(call, torrent, entry, "error")
      /\ UNCHANGED <<known, clearing, closing, cancelled>>
  BY DEF NotMetadata
<1>. QED
  BY <1>1, Facts, JobEndsKeeps

\* The torrent is ready.
LEMMA ReadyKeeps ==
  ASSUME EntriesInv, Ready
  PROVE  EntriesInv'
<1>1. /\ job.pc = "opening" /\ JobEnds(call, torrent, entry, "ok")
      /\ UNCHANGED <<known, clearing, closing, cancelled>>
  BY DEF Ready
<1>. QED
  BY <1>1, Facts, JobEndsKeeps

\* An opening that takes too long removes its entry and its torrent.
LEMMA OpeningTimesOutKeeps ==
  ASSUME EntriesInv, OpeningTimesOut
  PROVE  EntriesInv'
<1>1. /\ job.pc = "opening" /\ JobEnds(call, Destroyed(torrent, entry.t), NoEntry, "error")
      /\ UNCHANGED <<known, clearing, closing, cancelled>>
  BY DEF OpeningTimesOut
<1>2. /\ Destroyed(torrent, entry.t) \in [Torrents -> TorrentType]
      /\ \A t \in Torrents : Destroyed(torrent, entry.t)[t].st # "live"
  BY <1>1, Facts, DestroyedIs
<1>. QED
  BY <1>1, <1>2, Facts, JobEndsKeeps

\* A torrent that fails leaves its entry, with the error.
LEMMA TorrentFailsKeeps ==
  ASSUME EntriesInv, TorrentFails
  PROVE  EntriesInv'
<1> DEFINE e == [entry EXCEPT !.error = "error"]
           ts == Destroyed(torrent, entry.t)
<1>1. entry # NoEntry /\ UNCHANGED <<known, clearing, closing, cancelled>>
  BY DEF TorrentFails
<1>2. e \in EntryType /\ e.t = entry.t /\ e.error = "error" /\ entry.t # None /\ ~Off
  BY <1>1, Facts DEF EntryType
<1>3. job.pc \in {"none", "opening"}
  BY <1>1 DEF EntryInv
<1>4. ts \in [Torrents -> TorrentType] /\ \A t \in Torrents : ts[t].st # "live"
  BY <1>3, Facts, DestroyedIs
<1>5. CASE job.pc = "opening"
  <2>1. JobEnds(call, ts, e, "error")
    BY <1>5 DEF TorrentFails
  <2> HIDE DEF e, ts
  <2>2. Off' => cancelled' /\ e = NoEntry
    BY <1>1, <1>2
  <2>. QED
    BY <1>1, <1>2, <1>4, <2>1, <2>2, Facts, JobEndsKeeps
<1>6. CASE job.pc # "opening"
  <2>1. entry' = e /\ torrent' = ts /\ UNCHANGED <<call, job, recovering>>
    BY <1>6 DEF TorrentFails
  <2> HIDE DEF e, ts
  <2>2. TypeOK'
    BY <1>1, <1>2, <1>4, <2>1 DEF TypeOK
  <2>3. JobInv' /\ OffInv' /\ NoInnocentCancelled'
    BY <1>1, <1>2, <2>1 DEF JobInv, OffInv, NoInnocentCancelled
  <2>4. EntryInv'
    BY <1>2, <1>3, <1>6, <2>1 DEF EntryInv
  <2>5. LiveInv'
    BY <1>4, <2>1 DEF LiveInv
  <2>. QED
    BY <2>2, <2>3, <2>4, <2>5
<1>. QED
  BY <1>5, <1>6

\* A failed scan marks the entry and leaves its torrent.
LEMMA ScanFailsKeeps ==
  ASSUME EntriesInv, ScanFails
  PROVE  EntriesInv'
<1>1. /\ entry # NoEntry /\ job.pc = "none" /\ entry' = [entry EXCEPT !.error = "error"]
      /\ UNCHANGED <<call, job, torrent, recovering, known, clearing, closing, cancelled>>
  BY DEF ScanFails
<1>2. entry' \in EntryType /\ entry'.t = entry.t /\ entry.t # None /\ ~Off
  BY <1>1, Facts DEF EntryType
<1>3. TypeOK'
  BY <1>1, <1>2 DEF TypeOK
<1>4. JobInv' /\ OffInv' /\ NoInnocentCancelled'
  BY <1>1, <1>2 DEF JobInv, OffInv, NoInnocentCancelled
<1>5. EntryInv' /\ LiveInv'
  BY <1>1, <1>2 DEF EntryInv, LiveInv
<1>. QED
  BY <1>3, <1>4, <1>5

\* A wait for a torrent ends, or goes on.
LEMMA ReleasedIs ==
  ASSUME EntriesInv, NEW t \in Torrents
  PROVE  /\ Released(recovering, t) \in RecoveryType
         /\ Released(clearing, t) \in ClosingType /\ Released(clearing, t).pc = clearing.pc
         /\ Released(closing, t) \in ClosingType /\ Released(closing, t).pc = closing.pc
<1>1. recovering \in RecoveryType /\ clearing \in ClosingType /\ closing \in ClosingType
  BY DEF TypeOK
<1>2. Released(recovering, t) \in RecoveryType
  BY <1>1 DEF Released, RecoveryType
<1>3. ASSUME NEW p \in ClosingType
      PROVE  Released(p, t) \in ClosingType /\ Released(p, t).pc = p.pc
  BY DEF Released, ClosingType
<1>. QED
  BY <1>1, <1>2, <1>3

\* A torrent that has closed is nobody's any more.
LEMMA TorrentClosedKeeps ==
  ASSUME EntriesInv, NEW t \in Torrents, TorrentClosed(t)
  PROVE  EntriesInv'
<1>1. /\ torrent[t].st = "closing" /\ torrent' = [torrent EXCEPT ![t] = [st |-> "none", kind |-> "none"]]
      /\ job' = IF job.probe = t THEN [job EXCEPT !.probe = None] ELSE job
      /\ recovering' = Released(recovering, t)
      /\ clearing' = Released(clearing, t) /\ closing' = Released(closing, t)
      /\ UNCHANGED <<call, entry, known, cancelled>>
  BY DEF TorrentClosed
<1>2. /\ torrent' \in [Torrents -> TorrentType] /\ torrent'[t].st = "none"
      /\ \A s \in Torrents \ {t} : torrent'[s] = torrent[s]
  BY <1>1, Facts DEF TorrentType
<1>3. /\ job' \in JobType /\ job'.pc = job.pc /\ job'.aborted = job.aborted /\ job'.waiters = job.waiters
      /\ job'.probe \in {None, job.probe} /\ (job.probe # t => job' = job)
  BY <1>1, Facts DEF JobType
<1>4. TypeOK'
  BY <1>1, <1>2, <1>3, ReleasedIs, Facts DEF TypeOK
<1>5. JobInv'
  BY <1>1, <1>3 DEF JobInv
<1>6. EntryInv'
  BY <1>1, <1>2, <1>3, Facts DEF EntryInv
<1>7. LiveInv'
  BY <1>1, <1>2, <1>3 DEF LiveInv
<1>8. OffInv'
  BY <1>1, <1>3, ReleasedIs DEF OffInv
<1>9. NoInnocentCancelled'
  BY <1>1 DEF NoInnocentCancelled
<1>. QED
  BY <1>4, <1>5, <1>6, <1>7, <1>8, <1>9

\* cancel aborts the job for all its waiters.
LEMMA CancelKeeps ==
  ASSUME EntriesInv, Cancel
  PROVE  EntriesInv'
<1>1. cancelled' = TRUE /\ JobAborts(call, job.waiters) /\ UNCHANGED <<known, clearing, closing>>
  BY DEF Cancel
<1>2. job.waiters \in SUBSET (Callers \cup {Recovery}) /\ (job.pc = "none" => job.waiters = {})
  BY DEF TypeOK, JobType, JobInv
<1>. QED
  BY <1>1, <1>2, Facts, JobAbortsKeeps

\* clearCaches and close stop the job or remove the entry; p and q are what
\* clearing and closing become.
LEMMA StopAllKeeps ==
  ASSUME EntriesInv, StopAll, clearing' \in ClosingType, closing' \in ClosingType, UNCHANGED known,
         closing'.pc # "closed"
  PROVE  EntriesInv'
<1>1. cancelled' = TRUE
  BY DEF StopAll
<1>2. CASE Kept
  <2>1. torrent' = Destroyed(torrent, entry.t) /\ entry' = NoEntry /\ UNCHANGED <<call, job, recovering>>
    BY <1>2 DEF StopAll
  <2>2. job = NoJob
    BY <1>2 DEF Kept, EntryInv, JobInv
  <2>3. torrent' \in [Torrents -> TorrentType] /\ \A t \in Torrents : torrent'[t].st # "live"
    BY <2>1, <2>2, Facts, DestroyedIs
  <2>4. TypeOK'
    BY <1>1, <2>1, <2>3, Facts DEF TypeOK
  <2>5. JobInv' /\ EntryInv' /\ LiveInv' /\ OffInv' /\ NoInnocentCancelled'
    BY <1>1, <2>1, <2>2, <2>3 DEF JobInv, EntryInv, LiveInv, OffInv, NoInnocentCancelled
  <2>. QED
    BY <2>4, <2>5
<1>3. CASE ~Kept
  <2>1. JobAborts(call, job.waiters)
    BY <1>3 DEF StopAll
  <2>2. job.waiters \in SUBSET (Callers \cup {Recovery}) /\ (job.pc = "none" => job.waiters = {})
    BY DEF TypeOK, JobType, JobInv
  <2>3. entry = NoEntry \/ job.pc = "opening"
    BY <1>3 DEF Kept
  <2>. QED
    BY <1>1, <2>1, <2>2, <2>3, Facts, JobAbortsKeeps
<1>. QED
  BY <1>2, <1>3

\* The wait of clearCaches and close.
LEMMA AwaitsIs ==
  ASSUME EntriesInv
  PROVE  Awaits \in ClosingType /\ Awaits.pc = "removing"
<1> DEFINE u == IF Kept /\ Live(entry.t) THEN entry.t ELSE None
<1>1. u \in Torrents \cup {None} /\ Awaits = [pc |-> "removing", t |-> u]
  BY Facts DEF Awaits
<1> HIDE DEF u
<1>. QED
  BY <1>1 DEF ClosingType

\* Clearing the cache begins.
LEMMA ClearCachesKeeps ==
  ASSUME EntriesInv, ClearCaches
  PROVE  EntriesInv'
<1>1. ~Off /\ StopAll /\ clearing' = Awaits /\ UNCHANGED <<known, closing>>
  BY DEF ClearCaches
<1>. QED
  BY <1>1, AwaitsIs, Facts, StopAllKeeps

\* Closing begins.
LEMMA CloseKeeps ==
  ASSUME EntriesInv, Close
  PROVE  EntriesInv'
<1>1. StopAll /\ closing' = Awaits /\ UNCHANGED <<known, clearing>>
  BY DEF Close
<1>. QED
  BY <1>1, AwaitsIs, Facts, StopAllKeeps

\* The cache is cleared.
LEMMA CacheClearedKeeps ==
  ASSUME EntriesInv, CacheCleared
  PROVE  EntriesInv'
<1>1. /\ clearing' = NoClosing /\ known' = FALSE
      /\ UNCHANGED <<call, job, entry, torrent, recovering, closing, cancelled>>
  BY DEF CacheCleared
<1>2. NoClosing \in ClosingType
  BY DEF ClosingType
<1>3. TypeOK'
  BY <1>1, <1>2 DEF TypeOK
<1>4. JobInv' /\ EntryInv' /\ LiveInv' /\ OffInv' /\ NoInnocentCancelled'
  BY <1>1 DEF JobInv, EntryInv, LiveInv, OffInv, NoInnocentCancelled
<1>. QED
  BY <1>3, <1>4

\* The transport has closed.
LEMMA ClosedKeeps ==
  ASSUME EntriesInv, Closed
  PROVE  EntriesInv'
<1>1. /\ closing.pc = "removing" /\ job.pc = "none"
      /\ closing' = [NoClosing EXCEPT !.pc = "closed"] /\ known' = FALSE
      /\ UNCHANGED <<call, job, entry, torrent, recovering, clearing, cancelled>>
  BY DEF Closed, OpeningsSettled
<1>2. closing' \in ClosingType
  BY <1>1 DEF ClosingType
<1>3. TypeOK'
  BY <1>1, <1>2 DEF TypeOK
<1>4. JobInv' /\ EntryInv' /\ LiveInv' /\ NoInnocentCancelled'
  BY <1>1 DEF JobInv, EntryInv, LiveInv, NoInnocentCancelled
<1>5. OffInv'
  BY <1>1 DEF OffInv
<1>. QED
  BY <1>3, <1>4, <1>5

\* At first there is nothing.
LEMMA InitKeeps == Init => EntriesInv
<1> SUFFICES ASSUME Init
             PROVE  EntriesInv
  OBVIOUS
<1>1. TypeOK
  BY DEF Init, TypeOK, NoCall, CallType, JobType, EntryType, TorrentType, RecoveryType, ClosingType
<1>2. JobInv /\ EntryInv /\ LiveInv /\ OffInv /\ NoInnocentCancelled
  BY DEF Init, NoCall, JobInv, EntryInv, LiveInv, OffInv, NoInnocentCancelled
<1>. QED
  BY <1>1, <1>2

\* The invariant survives every step.
LEMMA NextKeeps == EntriesInv /\ [Next]_vars => EntriesInv'
<1> SUFFICES ASSUME EntriesInv, [Next]_vars
             PROVE  EntriesInv'
  OBVIOUS
<1>1. CASE UNCHANGED vars
  BY <1>1 DEF vars, TypeOK, JobInv, EntryInv, LiveInv, OffInv, NoInnocentCancelled
<1> HIDE DEF EntriesInv
<1>2. ASSUME NEW c \in Callers, Open(c) \/ OpenAgain(c) \/ Recover(c) \/ Leave(c)
      PROVE  EntriesInv'
  BY <1>2, OpenKeeps, OpenAgainKeeps, RecoverKeeps, LeaveKeeps
<1>3. CASE RecoveryOpens \/ Initialized \/ ProbeStarts \/ LookupEnds \/ LookupOver
  BY <1>3, RecoveryOpensKeeps, InitializedKeeps, ProbeStartsKeeps, LookupEndsKeeps, LookupOverKeeps
<1>4. CASE Added \/ NotMetadata \/ Ready \/ OpeningTimesOut \/ TorrentFails \/ ScanFails
  BY <1>4, AddedKeeps, NotMetadataKeeps, ReadyKeeps, OpeningTimesOutKeeps, TorrentFailsKeeps,
     ScanFailsKeeps
<1>5. ASSUME NEW t \in Torrents, TorrentClosed(t)
      PROVE  EntriesInv'
  BY <1>5, TorrentClosedKeeps
<1>6. CASE Cancel \/ ClearCaches \/ CacheCleared \/ Close \/ Closed
  BY <1>6, CancelKeeps, ClearCachesKeeps, CacheClearedKeeps, CloseKeeps, ClosedKeeps
<1>. QED
  BY <1>1, <1>2, <1>3, <1>4, <1>5, <1>6 DEF Next

\* The inductive invariant holds throughout.
THEOREM Inductive == Spec => []EntriesInv
<1> HIDE DEF EntriesInv
<1>. QED
  BY InitKeeps, NextKeeps, PTL DEF Spec

\* WebTorrent never has two live torrents for the hash, and the live one can be
\* reached by the entry or by the job that looks up.
THEOREM OneTorrentHolds == Spec => []OneTorrent
<1>1. EntriesInv => OneTorrent
  <2> SUFFICES ASSUME EntriesInv
               PROVE  OneTorrent
    OBVIOUS
  <2>1. \A t \in Torrents :
          Live(t) => IF torrent[t].kind = "payload" THEN entry.t = t
                     ELSE job.probe = t /\ job.pc = "lookup"
    BY DEF LiveInv
  <2>2. \A t \in Torrents : entry.t = t => job.pc # "lookup"
    BY DEF EntryInv
  <2>. QED
    BY <2>1, <2>2 DEF OneTorrent
<1> HIDE DEF EntriesInv
<1>. QED
  BY <1>1, Inductive, PTL

\* A request is answered as cancelled only if it was given up, or if everything was.
THEOREM NoInnocentCancelledHolds == Spec => []NoInnocentCancelled
<1>1. EntriesInv => NoInnocentCancelled
  OBVIOUS
<1> HIDE DEF EntriesInv
<1>. QED
  BY <1>1, Inductive, PTL

\* The step that ends clearCaches, and every state after close, have no torrent,
\* no entry and no job.
LEMMA ClearedStep ==
  EntriesInv /\ [Next]_vars =>
    [(clearing'.pc = "none" /\ clearing.pc # "none") \/ closing'.pc = "closed" =>
       /\ job' = NoJob /\ entry' = NoEntry
       /\ \A t \in Torrents : torrent'[t].st # "live"]_vars
<1> SUFFICES ASSUME EntriesInv, Next,
                    (clearing'.pc = "none" /\ clearing.pc # "none") \/ closing'.pc = "closed"
             PROVE  /\ job' = NoJob /\ entry' = NoEntry
                    /\ \A t \in Torrents : torrent'[t].st # "live"
  BY DEF vars
<1>1. EntriesInv'
  <2> HIDE DEF EntriesInv
  <2>. QED
    BY NextKeeps
<1>2. ASSUME job'.pc = "none", entry' = NoEntry
      PROVE  /\ job' = NoJob /\ entry' = NoEntry
             /\ \A t \in Torrents : torrent'[t].st # "live"
  BY <1>1, <1>2 DEF JobInv, LiveInv
<1>3. CASE closing'.pc = "closed"
  <2>1. job'.pc = "none" /\ entry' = NoEntry
    BY <1>1, <1>3 DEF OffInv
  <2>. QED
    BY <1>2, <2>1
<1>4. CASE clearing'.pc = "none" /\ clearing.pc # "none"
  <2>1. CacheCleared
    <3>1. ASSUME clearing' = clearing
          PROVE  FALSE
      BY <1>4, <3>1
    <3>2. ~ClearCaches
      BY <1>4 DEF ClearCaches
    <3>3. ASSUME NEW t \in Torrents, TorrentClosed(t)
          PROVE  FALSE
      <4>1. clearing' = Released(clearing, t)
        BY <3>3 DEF TorrentClosed
      <4>. QED
        BY <1>4, <4>1, ReleasedIs
    <3> HIDE DEF EntriesInv
    <3>. QED
      BY <3>1, <3>2, <3>3 DEF Next, Open, OpenAgain, Recover, Leave, RecoveryOpens, Initialized,
         ProbeStarts, LookupEnds, LookupOver, Added, NotMetadata, Ready, OpeningTimesOut,
         TorrentFails, ScanFails, Cancel, Close, Closed
  <2>2. job'.pc = "none" /\ entry' = entry
    BY <2>1 DEF CacheCleared, OpeningsSettled
  <2>3. entry = NoEntry
    BY <1>4 DEF OffInv
  <2>. QED
    BY <1>2, <2>2, <2>3
<1>. QED
  BY <1>3, <1>4

\* Clearing the cache and closing leave nothing behind.
THEOREM ClearedIsEmptyHolds == Spec => ClearedIsEmpty
<1> HIDE DEF EntriesInv
<1>. QED
  BY ClearedStep, Inductive, PTL DEF Spec, ClearedIsEmpty

=============================================================================
