# my98: a verification project

my98 runs Windows 98 in a browser on an encrypted disk. The disk is a file that
only its owner can open; it may be local or a signed publication that torrents
and web seeds distribute. A relay gives the guest a network. This directory
models the parts of that system whose correctness depends on the order in which
things happen, checks them with TLC and proves the most important results with
TLAPS. Paths are relative to the directory that holds `src/` (the repository) and
`tla/`.

## The system

| part | code | state it keeps | operations | talks to |
|---|---|---|---|---|
| Disk engine | `src/src/disk/src/lib.rs`, `snapshot.rs` (Rust, WASM) | open image, pending sectors, chunk cache, revision, a save, verdict or digest in preparation | open, read, write, begin/next/accept, discard, verify, state overlay, fork | the Worker, which calls it one method at a time; ciphertext sources it awaits |
| Worker protocol | `src/src/disk/web/worker-protocol.js`, `client.js` | epochs, chain of requests, promises | call, cancel, close, fail | window and Worker, by messages and a shared integer |
| Disk Worker | `src/src/disk/web/worker.js` | sources, current vault, state candidate, prepared download, analysis | one case per request | engine, torrent port |
| State capture and restore | `src/src/browser/machine-state.js`, `disk-session.js`, `DiskBuffer` in `client.js` | the machine, its queue of disk requests, abort signal | capture, restore, cancel, retry | v86, Worker |
| Formats | `state-format.js`, `boot-analysis.js`, `load-profiles.js`, `range-prefetch.js` | none | encode, decode, merge ranges | Worker |
| Publication records | `torrent-records.js`, `torrent-protocol.js` | highest record seen, in IndexedDB, shared by tabs | resolve, observe | HTTP sources |
| Remote publication | `torrent-remote.js`, `startup-prefetch.js`, `torrent-port.js` | open components, prefetch job, network locations | open, read, prefetch, cancel | window transport, by a message port |
| Window transport | `torrent-window.js`, `torrent-store.js` | torrents, pieces, selections | open, recover, read, prefetch, clear | WebTorrent |
| Relay | `src/src/relay/src/main.rs` | allow set in memory and in a file, sessions, two semaphores | connect, authenticate, forward, allow, revoke | the page, administrators |
| Firewall and bridge | `relay/src/network.rs`, `relay/c/bridge.c` | one user-mode network per session | classify a frame, move packets | slirp |
| Relay client | `browser/relay-network.js` | socket, generation, retry timer | connect, retry, destroy | relay, Worker (signatures) |
| Publisher | `src/src/torrent/my98_torrent/publisher.py`, `engine.py` | journal with phases | prepare, transfer, commit, resume | DHT, seedbox nodes |
| Seedbox node | `store.py`, `service.py`, `files.py` | followed, observed, public, adopted and candidate records; files | admit, replicate, adopt, collect | DHT, publisher, readers |
| Supervision | `supervision.py`, `tracker.py`, `deployment.py`, `installation.py` | processes and installed files | install, start, restart | the host |
| Page | `src/src/browser/win98.js`, `disk-ui.js`, ... | machine on screen, operation lock | user interface | all of the above |
| Cryptography | `src/src/crypto/` | keys | derive, seal, open, sign | engine, Worker |

What is hard, and what makes each part correct:

- **Engine.** Saves, verdicts and digests are prepared over many calls between
  which the guest writes, the user cancels or a source fails. Correct means: the
  guest's disk changes only by whole writes, discards and restores; a new file
  holds the contents of one moment; the cache never answers for another file.
- **Worker protocol.** A cancel overtakes queued requests, in two media of
  different speed. Correct means: it ends the calls made before it and no
  other, requests begin in order, each is answered once, all are settled.
- **Capture and restore.** Window and Worker each own half of a machine; every
  await is a place to be cancelled or to fail. Correct means: memory and disk
  stay of one moment, and an operation that reports failure changed nothing.
- **Relay.** Revocation races handshakes, frames and power loss. Correct means:
  a revoked key has no session that was not told, an answered command is
  durable, permits are conserved, a revoked session falls silent and ends.
- **Publishing.** A name moves by a lookup, a comparison and a put, in processes
  that may die anywhere and on machines that do not know of each other. Correct
  means: one cache never uses a sequence twice, the public record has a complete
  copy, nothing is adopted that was not public, and nodes follow the name.
- **Disk session.** One operation of the page is a chain of requests to the Worker
  and of calls to the machine, each of which may fail, while the guest goes on and
  an analysis may overflow. Correct means: between operations the session, the
  machine, the engine and the Worker's maps speak of the same disk and adapter.
- **Records in the browser.** Several sources and tabs against one durable
  maximum. Correct means: it never goes back, nothing older than known is exposed,
  and the last word on locations is the complete lookup's.
- **Torrent transport.** Readers share openings and recoveries of one component,
  which end, fail and time out late, under cancels and clears. Correct means: one
  torrent per hash and none out of reach, nobody is cancelled by another reader,
  every request is answered.
- **Startup prefetch.** A job, its attempts, a scan of cached pieces, the
  background download and the budget all touch one torrent. Correct means: a job
  reports success only with its pieces stored and its profile authenticated,
  nothing stays selected for a job that is over, and waiting for it ends.
- **Relay client.** Every await of a connection attempt may end after a newer
  attempt began. Correct means: one socket at a time, signatures only where they
  belong, silence after destruction, and it keeps trying.

`PROJECT.json` lists the components and, under `hazards`, each place where this
bites, with the properties that cover it.

## Modules

| module | models | kind |
|---|---|---|
| `DiskData` | sectors, chunks, write requests, overlay | operators |
| `DiskSpec` | what the disk promises the guest | abstract specification |
| `DiskEngine` | `Engine`, `Image`, `Cache` | specification |
| `DiskEngineProofs` | | theorems |
| `MCDiskEngine` | instances | TLC |
| `WorkerProtocol` | `Slop86Disk` and `WorkerProtocol` | specification, TLC |
| `StateRestore` | `machine-state.js`, `DiskBuffer`, state requests of the Worker | specification, composes window and Worker |
| `StateRestoreProofs` | `StateRestore`, `WorkerProtocol` | theorems |
| `Relay` | the relay daemon | specification, TLC |
| `RelayProofs` | | theorems |
| `RecordStore` | the tables of `store.py` and the order of records | operators |
| `Publication` | `Publisher` and `Node`, composed through the DHT | specification, TLC |
| `PublicationProofs` | | theorems |
| `RelayClient` | `relay-network.js`, `relay-discovery.js` | specification, TLC |
| `RelayClientProofs` | | theorems |
| `PublicationRecords` | `torrent-records.js`, the start of `torrent-remote.js`, in several tabs | specification, TLC |
| `PublicationRecordsProofs` | `PublicationRecords`, `StartupPrefetch` | theorems |
| `TorrentEntries` | openings and recoveries of `torrent-window.js` and the requests of `torrent-port.js` | specification, composes Worker and window, TLC |
| `TorrentEntriesProofs` | | theorems |
| `StartupPrefetch` | `startup-prefetch.js`, the prefetch of `torrent-remote.js` and the pieces of `torrent-window.js` | specification, composes Worker and window, TLC |
| `DiskSession` | `disk-ui.js`, `disk-controls.js`, `disk-session.js`, the machine of `win98.js`, the requests of `worker.js` | specification, composes page and Worker, TLC |
| `DiskSessionProofs` | | theorems |

### DiskData, DiskSpec, DiskEngine

A sector holds two halves, so that a request can start and end inside a sector;
a chunk holds `ChunkSectors` sectors and the last one may be short. A file is
what it decrypts to and is named by its index in `files`: each build draws a
fresh key and header, so that the index also stands for the header to which a
state file is bound. Encryption, authentication and the header's layout are
external; a record that does not authenticate is one of the reasons for which a
call fails.

The variables are the fields of `Engine`, `Image` and `Cache`. `older` replaces
the ticks of the cache by the order between them, which is all the eviction
looks at. `call` is the method under way: a `&mut self` method runs alone, so
calls do not interleave, but each await is a step and `CallFails` may end the
call there. Between calls the driver may do anything, including `accept` after
a `cancel` or with too few records, as the JavaScript side is free to.
`ReadSpan`, `OriginalHit`, `OriginalFetch`, `CacheEvict` and `CachePut` are the
loop of `Image::read`, shared by `read`, `write`, `next`, `verify_step` and, for
the original chunks, `begin_save`.

`DiskSpec` has four variables: the guest's view, the contents of the file under
it, the contents of captured states, and what a read hands to its caller, which is the
view of one moment. `DiskEngine!ImplementsDisk` maps the engine to it. Because reads
are part of it, a cache that outlives the file it was filled from is caught by the
refinement: the first read through it answers with another file's sectors.

### WorkerProtocol

Both ends and the two message queues between them. `shared` chooses whether the
epoch is also in shared memory, where a cancel is visible before its message.
`Call` and `Post` are separate because `call` awaits `ready` in between;
`Handle` chains a request or applies a cancel, `Begin` is the start of the
chained function, `Finish` its end. What an operation does is left out: it ends
well or, at one of its checks or otherwise, with an error.

### StateRestore

A disk is the sequence of writes applied to it and a machine's memory the
sequence of writes it made, so that "memory and disk agree" is equality. `op` is
the program counter of `captureMachineState` or `restoreMachineState`, `req` the
request it awaits in the Worker, `queue`, `flying` and `failed` the `DiskBuffer`.
A cancel is issued by the window and seen by the Worker at any later check of
the same request; `WorkerProtocol` shows that this is what the protocol gives.
`vault.remote` says whether the disk is a publication opened without a startup
prefetch, in which case `commitState` has an await after the exchange of vaults.
`before` is a history variable. `Retry` and `RetryRejected` are the two ends of
`DiskBuffer.retry`, which forgets the failure before it awaits `resumePrefetch`: after
a rejection `flying` is "stalled", the queue is not pumped, and a capture or restore
that drains it polls for ever. `OperationEnds` excepts operations on such a queue.

### Relay

`conn[c]` is the task of one connection, `admin[a]` that of one administrator;
`allow` is in memory under a mutex (`lock`), `file` what the allow file holds and
`durable` what a power loss leaves. The rename of `save_allow` becomes visible
before it is durable; a crash keeps either. A connection's permits, its place
among the active sessions and its watch channel are fields of `conn[c]`.
`FrameSelected`, `FrameChecked` and `FrameForwarded` separate the arms of the
select loop from the check of the allow set and from what follows it; `late`
counts frames let through after the session was told of its revocation.

### RecordStore, Publication

A record is a sequence and a value; for the publication's salt the value stands
for the descriptor and everything it names, for the locations' salt for the
configuration of the publisher that signed it. Each operator of `RecordStore` is
one SQLite transaction, which both publishers and nodes use. There is one
identity; each element of `Publishers` is a cache of its own, so that the file
lock of the command line does not exclude two of them.

`work[p]` is the command that runs and what it holds in memory, `journal[p]` the
file; every place where the code saves the journal or commits a transaction ends
an action, and `Fail` may end the command between any two. `next_sequence` takes
the clock of the machine from `Clock`, which need not agree with anyone's.
`PutFound` and `PutStored` are the two halves of a DHT put: the lookup after
which `put_signed` decides, and the store. `Timeouts` says whether a publisher's
lookup may end without an answer.

On a node, `files` is what is complete on the disk, `seeding` what the torrent
session has, `exposed` the webseed directory. `Schedule` is part of `Ask` and of
`Poll`, as in the code, and adopts at once what is validated. A retire task is in
two halves, because it awaits the session between its two looks at the
references; `Download` waits for the second half, which is the download lock.
`past` holds what the DHT has stored before: a node's lookup may end with any of
it. The DHT (external) never loses the highest record: nodes announce it again
every hour. That announcement therefore changes nothing and is left out.

### RelayClient

`att[a]` is one call of `connect`: where it is in its awaits, the address it found,
its socket, the address a signature was asked for (`signing`), the one it was sent
for (`auth`) and whether a frame has passed (`carried`). The generation counter is
`cur`, the attempt of the current generation; an attempt that nobody refers to may
be used again, so that the number of attempts in a behaviour is not bounded, only
the number that overlap. The relay and the network are external and may answer in
any order, be silent or close.

### PublicationRecords

`res[t]` is one `resolveRecord` of a tab: the answers of its sources, the best one
so far, what it has exposed (`first`) and how it ended; `store` is the durable
mark in IndexedDB, which the tabs share and whose transactions are atomic.
`kind` says whether names or locations are looked up, since locations are exposed
before they are stored. `hint[t]` is the location task of `RemotePublication.open`
with its two applications.

### TorrentEntries

One component hash. `call[c]` is a request of the Worker, in both its halves: the
promise of `TorrentPort` and the execution in the window. `job` is the shared
opening or recovery with its waiters, `entry` the registered component, `torrent[t]`
a WebTorrent torrent (external: it is destroyed, fails and times out when it likes).
`clearing` and `closing` are `clearCaches` and `close` between their awaits.

### StartupPrefetch

`job` is the `StartupPrefetch` of the publication, `attempt` the `prefetchStartup`
of the window that serves it, `scan` a rescan of the cached pieces, `entry` the
torrent's background selection and whether it lives, `have` its bitfield, `stored`
what the piece store holds and `streams` the selected pieces. `command` is the
Worker's request under way: the queue is serial, so that a wait blocks the others.

### DiskSession

`op` is the operation that `run()` of `disk-ui.js` admits, with its next request;
`page` what the page knows of the disk, `machine` the emulator, `adapter` the state
of each `DiskBuffer`; the other variables are the Worker's. `diskControls` is the
availability of the controls. Each request is an action, or two if it may fail with
part of its work done. The contents of the disk are `DiskEngine`'s; here an image is
the source it reads from. `mishap` is a history variable: a restore that fails after
the Worker's commit or after the exchange of machines leaves them changed, and two
properties except those cases by name.

The requests that follow a failure may fail as well. `cancelLoadAnalysis`, which a
failed boot or restore sends to end its recording and whose error the page swallows
(`disk-session.js:71`, `disk-ui.js:227`), clears the Worker's analysis or is rejected;
then `lost`, a history variable, remembers that the page takes an analysis for ended
that goes on. While an analysis is on, `Accepts` is false and the Worker refuses
save, download, discard, verification and states (`worker.js:121`). The description of
the disk after an error may or may not arrive (`AfterError`). An adapter is "stalled"
after a retry whose `resumePrefetch` was rejected (`RetryRejected`).

## Runs

| run | instance | distinct states | shows |
|---|---|---|---|
| `engine` | 3 sectors in 2 chunks, cache of one chunk, 3 revisions, 2 files, a captured state | 875 thousand | the engine implements `DiskSpec` under every sequence of calls and failures, saves are faithful, the cache is accounted for, every call returns |
| `worker_protocol` | 3 calls, 2 cancels, both media | 417 thousand | in order, cancelled exactly when older; every promise is settled |
| `state_restore` | 3 writes, 2 state files, a local disk or a publication | 296 thousand | on a local disk captures are consistent and cancelled restores change nothing; on any, no candidate is left and operations end unless they wait for a queue that a rejected retry left |
| `state_restore_remote` | as `state_restore`, fewer restores | (violation) | a cancelled restore may have replaced the disk |
| `session` | 3 sources, 3 adapters | 3.47 million | session and machine, engine and sources, page and Worker's analysis, offered and prepared download agree after every operation and failure |
| `relay` | 2 connections, 1 key, 2 administrators, one session permit, 4 commands, a crash | 164 thousand | revocation, durability, permits; revoked sessions end, handshakes end |
| `relay_client` | 3 overlapping attempts, 2 addresses, 2 retries by the user | 320 thousand | one connection, signatures stay home, destruction is final, it keeps trying |
| `publication` | 1 publisher with 2 commands, lookups may time out, 1 node that restarts, 2 publications | 80 thousand | sequences are used once, the public record has a complete copy and was published, the node adopts it |
| `publication_concurrent` | 2 publishers, all lookups complete | (violation) | a publication may replace one it was not prepared from |
| `records` | 2 tabs, 2 sources each, 2 sequences, 2 values, storage failures | 3.75 million up to symmetry | the mark never goes back, nothing older is exposed, the final locations win |
| `torrent_entries` | 3 requests, of which 2 are a startup's, 3 torrents, a recovery | 227 thousand | one torrent, in reach; nobody cancelled by another; cleared means empty; every request is answered |
| `startup` | 2 pieces, a window of one, 2 attempts, 4 commands | 1.18 million | complete is real, targets stay, no orphan selection or download, waits end |

Why the bounds are enough to be interesting. Three sectors in two chunks are the
smallest disk with a boundary between chunks and a short last chunk. A cache of one
chunk evicts on every change of chunk; two files are needed for a cache to be stale, and a
read after a save shows it; three revisions are enough for a save to be prepared, overtaken and prepared again.
Three calls and two cancels give a call before, between and after cancels. Two
connections and one session permit make one connection be refused; two
administrators contend for the mutex, and four commands allow, revoke, allow and
revoke one key; what it shows of safety the proofs show for any number of keys,
connections and administrators. In `StateRestore` two state files differ in their
writes, and `MaxRevision` bounds the restores in one behaviour. Two commands publish
and replace; a clock that jumps to `MaxSeq` leaves the next command without a
sequence. In `RelayClient` three attempts are one in the socket, one in its
discovery and one whose signature is still on its way. Two tabs with two sources
meet with equal and different records of equal and different sequences; sources,
tabs and values are interchangeable there, and the run checks no liveness. Three
requests are one that leaves, one that stays and one that joins; the third torrent
is the one a recovery opens while the failed one and a probe are still closing. Two
pieces and a window of one make the pump release and select again; two attempts are
a failure and its retry. A session refers to at most three sources (the engine's,
the current and the new one) and three adapters (the session's, the machine's and
the new one) at a time, and names are used again: `session` has no bound on the
length of a behaviour.

`CHECK_DEADLOCK FALSE` is used where a behaviour ends because a bound is used up or
because nothing is left to do: the protocol when all calls are settled,
`StateRestore` when the guest has made its last write or an operation polls a queue
that nobody pumps, `Publication` when all
commands are used up and no node has work, `PublicationRecords` when all lookups are
over, `TorrentEntries` when the transport is closed, `RelayClient` when it is
destroyed and `StartupPrefetch` when its commands are used up. The liveness
properties of these runs say that nothing stops earlier.

### Fairness

- `DiskEngine`: weak fairness of the steps of the call under way: the Worker's
  event loop runs, and every source read is answered or rejected (the transports
  have timeouts).
- `WorkerProtocol`: weak fairness of message delivery, of the steps of either
  side and of the start-up timer; none of `Initialized` or `Call`: the Worker
  need never start and nobody need call.
- `StateRestore`: weak fairness of the system's steps taken together; none of
  the user or the guest.
- `Relay`: weak fairness of each connection's task and of each administrator's;
  tokio polls woken tasks, and the sends and closes in the loop have timeouts.
  Accepting connections, issuing commands and crashing are not fair.
- `Publication`: weak fairness of polls whose lookup completes (the loop runs
  every minute and survives errors) and of retire tasks, strong fairness of the
  replication of the public record, which may fail each time but is scheduled
  again by every poll. Nothing is assumed of publishers.
- `RelayClient`: weak fairness of the timers (authentication and retry), of the
  local awaits and of the delivery of a socket's close; nothing of the relay.
- `TorrentEntries`: weak fairness of the window's steps, of message delivery and of
  the time-outs that bound discovery, opening and recovery; nothing of the network.
- `StartupPrefetch`: weak fairness of the budget's timer and of the return of a
  settled wait only; attempts and scans may hang for ever.
- `DiskSession`, `PublicationRecords`: none, they check safety.

### Disagreements with what the repository says

`disk-ui.js:86` tells the user of a cancelled operation that "The previous disk
and its pending changes are preserved". `commitState` (`worker.js:223-230`)
replaces the vault, frees the old one and then, on a publication opened without a
startup prefetch, awaits `setLoadPrefetch` with the request's abort signal. A
cancel during that await rejects the request as `CANCELLED`;
`restoreMachineState` takes it for a restore that did not happen, destroys the
candidate and resumes the old machine, whose disk is now the restored one.
`state_restore_remote` shows the behaviour. On a local disk the same property
holds (a part of `MachineMatchesDisk`); the machine and the captures after such a
restore differ from the disk, so `MachineMatchesDisk` and `CapturedTogether` speak of
a local disk.

`worker.js:121` answers "Finish or cancel the boot analysis first". The page can be
without either control while the Worker records: when a boot or restore for analysis
fails, `cancelLoadAnalysis` is sent with Cancel still on offer, a Cancel before the
Worker begins it rejects it (`worker-protocol.js:44`), the rejection is swallowed and
`analyzing` becomes false (`disk-session.js:71-72`, `disk-ui.js:227`). From then on the
Worker refuses save, download, discard and restore; starting one more analysis, which is refused
and then cleans up, or Close ends it. `AnalysisAgrees` excepts exactly this (`lost`):
that recording is the only one the page does not know of, and nothing later makes it the
page's. Without the exception it fails.

`disk-ui.js:181` says of a disk that stopped "You can retry the operation."
`DiskBuffer.retry` sets `failed` to false (`client.js:202`) and then awaits
`resumePrefetch`, which on a publication may be rejected. The controls show Retry only
while the adapter has failed, so it is gone, the queue is not pumped and the machine
stays blocked; saving or loading a state then polls the queue in `drain` for ever.
`SessionOwnsMachine` excepts exactly this ("stalled"): in every other state in which the
disk has stopped the session's machine, Retry is offered.

`disk-session.js:1` says that the session owns the adapter of the machine, and
`disk-ui.js:249` asks "Discard pending writes and close this Windows session?". When a
restore fails after the exchange of machines (`win98.js:445-446`: `startLoadAnalysis`
or `setLoadPrefetch` is rejected) `DiskSession.restoreState` never learns of the new
machine: `adapter` is still the disposed one and, if no machine ran before that
restore, `active` is false, so that Discard drops the writes under a machine that goes on, and Retry
answers that the adapter is closed. `SessionOwnsMachine` fails without its exception
for that case. In the same way a read-only session hands no analysis handler to the
Worker (`disk-ui.js:134`): an analysis that overflows stays until Close.

The comment at `torrent-remote.js:66-67` says that later replicas never replace the
publication being read and that "A signed conflict invalidates reads". A lookup also
ends as a conflict without one: the strict comparison of its best record with the
durable mark (`torrent-records.js:116`) fails when another tab has stored a newer
publication in the meantime, and the open publication refuses further reads.

Three more concern publishing; the second has a run:

- `Engine.resolve` answers `None` when a publisher's lookup times out before any
  record has arrived, and `Publisher.commit` takes `None` for an absent name. A
  first publication (base `None`) then passes the conflict check although another
  one is public; the comment at `engine.py:184` and `scripts/transport-migration.md`
  say that the check requires a completed lookup.
- Between that check and the put there are two DHT operations for the locations.
  A publication stored meanwhile with a lower sequence is replaced without a
  conflict, since `put_signed` refuses only an equal or higher one
  (`publication_concurrent`); `tests/torrent-publisher.test.py:104` says that a
  concurrent commit must block.
- `Node.start` clears the webseed directory and schedules candidates and public
  records, not adopted ones. A restart between the poll that finds a new name and
  its replication leaves the adopted publication on the disk but off line;
  `scripts/transport-migration.md:161` says that adopted
  files remain while a replacement transfers.

## Proofs

TLAPS proves every invariant and every action property that the passing runs check,
for every value of the constants that satisfies the named assumptions
(`SizesAssumption`, `NullAssumption`, `EngineAssumption`, `RelayAssumption`,
`SessionAssumption`, `RestoreAssumption`, `ClientAssumption`, `EntriesAssumption`,
`RecordsAssumption`, `PrefetchAssumption`, `CallsAssumption`, `StoreAssumption`,
`PublicationAssumption`). They say that bounds are
numbers and that names which stand for "none" are not names of something;
`PrefetchAssumption` also says that a disk has finitely many pieces, that the targets
are its first ones and which values the options have. Two proof modules treat two
models each, whose specifications have names of their own for that (`ProtocolSpec`,
`PrefetchSpec`). One theorem has a hypothesis, `OneNode` (below). All proofs have the same shape:
an inductive invariant, one lemma for each action, lemmas on the operators.

- **Engine** (`DiskEngineProofs`): the inductive invariant `IInv` and, from it,
  `TypeOK`, `CacheCoherent`, `PreparedSaveFaithful`, `UnchangedFaithful`,
  `VerifyFaithful`, `ReadFaithful` and the refinement `ImplementsDisk`, in which the
  last pass of the read loop is the abstract read and the end of the call takes the
  answer back. None of the
  faithfulness properties is inductive: that the records of a save are those of
  the guest's view only survives a write because the write moves the revision,
  and only survives the middle of a call because `CallInv` says what the call has
  assembled so far (the spans already read agree with the view, the buffer is
  the original's chunk, staged sectors are the view patched with the request).
  `RevisionInv` says that nothing prepared is of a later revision than the
  engine's, `StatesInv` that a state's overlay over its base is what was
  captured. The proof has one step per action and cites lemmas on overlays and
  restrictions for the data. On top of it, `AccountInv` gives `CacheAccounted` and
  `VictimExists`, which no run checks (while a chunk does not fit, the eviction loop
  finds the minimum it unwraps): the ticks order the chunks strictly, and a chunk that was fetched
  and waits to be put is not in the cache, so that it is not counted twice although
  others are evicted meanwhile. The sum over the chunks is a recursion of the library;
  `SumsUnique` shows by a smallest counterexample that it is the closed form `SizeOf`.
- **Relay** (`RelayProofs`): `RelayInv` and from it `RevokedCancelled`,
  `AckDurable`, `AtMostOneLateFrame` and `PermitsAccounted`, for any number of
  keys, connections and administrators. `RevokedCancelled` speaks of moments when
  the mutex is free; `RevokedInv` extends it to the steps in which an
  administrator holds the mutex and has not told every session. `LockInv` is
  mutual exclusion with what the holder has already written. `SessionInv` bounds
  the late frames and ties permits to phases. Counting permits uses the theorems
  on cardinalities of finite sets.

- **Session** (`DiskSessionProofs`): `IInv` and from it the four properties of the
  `session` run, for any number of sources and adapters: `SessionOwnsMachine`,
  `SourcesAgree`, `AnalysisAgrees` and `PreparedIsCurrent`. Three of them speak of an
  idle page and are not inductive, because during a restore the machine, the
  prepared download and the recording change in the Worker or in `win98.js` several
  steps before the page learns of it. `OwnInv`, `PreparedInv` and `AnalysisInv` say
  what holds at each of those steps; `OwnInv` also that a machine its disk has stopped has
  an adapter that failed or is stalled, in an operation or not; `AnalysisInv` also that a recording the page gave up
  with a rejected request (`lost`) is on and not the page's, and stays so until the Worker
  clears it; `NextInv` that the adapter made for a candidate
  machine is nobody else's until the exchange; `OpInv` which steps an operation has and
  that only a page with a disk runs one; `SourceInv` that a login starts without
  sources. There is one lemma per action.
- **Machine states** (`StateRestoreProofs`): `RestoreInv` and from it
  `MachineMatchesDisk`, `CapturedTogether` and `NoCandidateLeft`. Memory and disk disagree
  while writes are queued; `MatchInv` says by how much at each step, and `Replaced`
  names the one moment of a restore in which the Worker has the new disk and the page
  does not know. `BufferInv` says that nothing is queued once an operation looks,
  `RamInv` that the memory of a capture is still the machine's when the disk follows,
  `CandInv` that a candidate belongs to the restore under way, `DiscardInv` that no
  cancel reaches the request that takes it back.
- **Worker protocol** (the same module): `ProtocolInv` and from it
  `CancelledNeverBegins` and `InOrder`, for any number of calls and cancels and for both
  media. `OrderInv` says that the call that runs, the chain, the messages and the calls
  that wait to be posted are, in this order, in the order in which they were made;
  `InOrder` is about its first place only. `EpochInv` says that a request newer than the
  Worker's epoch is behind the cancel that it is newer than, and that the last cancel was
  heard of or is on its way. `AnswerInv` is needed because a Worker that failed
  to start answers too: it has said "fatal" before it answers anything.
- **Relay client** (`RelayClientProofs`): `ClientInv` and from it `OneConnection`,
  `SignatureStaysHome` and the action property `DestroyIsFinal`. `LiveInv` says that a
  socket that may still be used is the adapter's, `ReadyInv` that `ready` outlives its
  socket only until the close event, `RetryInv` that a retry waits only when the latest
  attempt has ended.
- **Torrent entries** (`TorrentEntriesProofs`): `EntriesInv` and from it `OneTorrent`,
  `NoInnocentCancelled` and the action property `ClearedIsEmpty`, for any number of requests
  and torrents. `LiveInv` says through whom a living torrent is reached, `JobInv` why
  a job was aborted, `OffInv` what is left while the cache is cleared.
- **Records** (`PublicationRecordsProofs`): `RecordsInv` and from it `NoRollback`,
  `FinalHintsWin` and the action property `HighWater`, for any number of tabs and sources.
  `LookupInv` bounds what a lookup exposes from below by what it knew at its start,
  `DurableInv` from above by the durable mark. That a set of answers has a highest one
  follows from the well-foundedness of the numbers.
- **Startup prefetch** (the same module): `PrefetchInv` and from it `NoOrphanSelection`
  and the action properties `CompleteIsReal` and `TargetsStay`. The last one needs
  `ScanInv`, a verified piece has no negative read under way that is not marked stale,
  and the part of `AttemptInv` that says that the targets are guarded until the scan is
  over. `JobInv` and `BackInv` are each other's reason: a job owns the scope, and the disk
  downloads in the background only without one. `PumpIs` proves that a pump never
  selects more than the window, from lemmas on the smallest members of a finite set.
- **Publication** (`PublicationProofs`): `PublicationInv` and from it `NeverEquivocates` and
  `PublicWasPublished`, for any number of publishers, nodes, commands and restarts.
  `SignedInv` says that what a publisher has signed is not above what its tables know,
  whatever died in between; `PastInv` that the DHT's record is the highest and the only
  one of its sequence; `AdmitInv` that a node keeps a candidate until the name has moved
  past it. `PublicIsCopied` is proved for one node and any number of publishers.
  With two nodes it does not hold: `complete_node` (`publisher.py:152-155`) takes any
  configured node that has every piece for a complete copy, also one that never admitted
  this candidate and has the files only for an older publication of the same contents.
  When that node polls a name that is newer than the one it adopted and older than the
  candidate, it collects them before the candidate becomes public. Contents that return
  in a third publication are needed, which is out of a run's reach.

`CacheCoherent`, `UnchangedFaithful`, `VerifyFaithful`, `ReadFaithful` and the
inductive invariants are proved and are not part of a run.

Only model-checked: the liveness properties (`CallReturns`, `EveryCallSettles`,
`OperationEnds`, `RevokedEnds`, `HandshakesEnd`, `KeepsTrying`, `NodesFollow`,
`EveryRequestEnds`, `WaitEnds`), as the prover does not treat fairness, and the two
violations.

## Not modelled, and the plan

The order of further work:

1. The steps on which the liveness properties rest, as far as they are safety: what
   each fair step brings nearer to its end, and that no step takes it back.
2. The components of a publication on a node: files shared by publications,
   references by component, reservations of space. An abstract specification of
   the name, a register that moves forward, which `Publication` implements when
   lookups complete and commits do not overlap.
3. The read-ahead window of `stateInput` (`torrent-remote.js:245-289`) and the choice
   and exclusion of web seeds in `torrent-window.js`.
4. `Firewall` and `Ranges`: `frame_allowed` and the interval arithmetic of load
   profiles as operators, checked against reference definitions.
5. The cache of torrent metadata and removable media.

Opening a local file with a read key (`openReadOnly` of a file) is not modelled: the
Worker has it and the page does not offer it.

Out of scope: ciphers and key derivation (`src/src/crypto`), v86, WebTorrent,
libtorrent and slirp (third-party), deployment scripts and process supervision,
layout and input handling of the page.
