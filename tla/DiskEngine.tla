----------------------------- MODULE DiskEngine -----------------------------
(***************************************************************************)
(* The disk engine of src/src/disk/src/lib.rs and snapshot.rs: one Engine  *)
(* handle, driven call by call.  Its methods take &mut self and the Worker *)
(* serialises its requests, so at most one call runs at a time; between    *)
(* its awaits a call may fail (cancelled, source unavailable, record not   *)
(* authentic), and between calls the driver may make any other call,       *)
(* whatever an earlier one left prepared.                                  *)
(*                                                                         *)
(* Encryption is external: a file is the contents it decrypts to, named by *)
(* its position in `files` (every build makes a fresh key and header, so   *)
(* the position also stands for the header a state file is bound to).      *)
(***************************************************************************)
EXTENDS DiskData, Sequences, FiniteSetsExt

CONSTANTS
  RawImages,    \* plaintext images a disk may be created from
  Writes,       \* the write requests a guest makes
  CacheLimit,   \* CACHE_LIMIT, counted in sectors
  MaxRevision,  \* bound: revisions an engine goes through
  MaxFiles,     \* bound: encrypted files ever assembled
  MaxStates     \* bound: state files ever captured

ASSUME EngineAssumption ==
  /\ RawImages \subseteq Contents /\ Writes \subseteq Requests
  /\ CacheLimit \in Nat /\ CacheLimit >= ChunkSectors
  /\ MaxRevision \in Nat /\ MaxFiles \in Nat /\ MaxStates \in Nat

VARIABLES
  identity,   \* "none": no engine; "owner": Engine::new; "reader": open_read_only
  source,     \* Image.source: index in files, 0 when image is None
  dirty,      \* Image.dirty: pending sectors
  cached,     \* Cache.values: chunk -> plaintext
  older,      \* the order of the ticks in Cache.values
  bytes,      \* Cache.bytes
  revision,
  build,      \* Engine.build, and the records the driver collected from it
  unchanged,  \* Engine.unchanged, -1 for None
  hash,       \* Engine.hash: what was hashed so far, for which revision
  call,       \* the method call in progress
  files,      \* encrypted files that exist outside the engine
  states      \* captured state files: base header, overlay, and the contents
              \* the guest saw at capture (kept for the properties)

imageVars == <<source, dirty>>
cacheVars == <<cached, older, bytes>>
worldVars == <<files, states>>
vars == <<identity, imageVars, cacheVars, revision, build, unchanged, hash, call, worldVars>>

NoBuild == [active |-> FALSE, raw |-> NULL, index |-> 0, revision |-> 0, parts |-> Empty]
NoHash == [active |-> FALSE, index |-> 0, revision |-> 0, acc |-> Empty]
NoCall == [op |-> "idle", lo |-> 0, hi |-> 0, pos |-> 0, req |-> NULL,
           out |-> Empty, buf |-> Empty, put |-> FALSE, changed |-> FALSE]

HasImage == source # 0
Original == files[source]
\* What the guest reads.
Logical == Overlaid(dirty, Original)
\* Faulty: a change of contents that keeps the revision.
BumpForgotten == UNCHANGED revision
Bump == revision' = revision + 1
Idle == call.op = "idle"

-----------------------------------------------------------------------------
(* Cache.  `older` relates a to b when a's tick is the smaller.             *)

Touch(k, keys, order) ==
  {p \in order : p[1] # k /\ p[2] # k} \cup {<<a, k>> : a \in keys \ {k}}

EmptyCache == cached' = Empty /\ older' = {} /\ bytes' = 0

\* Faulty: the size of the chunk coming in is left out.
CacheFitsBefore(c) == bytes <= CacheLimit
CacheFits(c) == bytes + LenOf(c) <= CacheLimit

-----------------------------------------------------------------------------
(* Image::original and Image::read: the loop shared by read, write, next,  *)
(* verify_step and begin_save.                                             *)

FullSector(s) == Covered(call.req, s) = Halves

\* The call's next step needs the authenticated original chunk of sector pos.
NeedsOriginal ==
  /\ ~Idle /\ call.pos <= call.hi /\ ~call.put /\ call.pos \notin DOMAIN call.buf
  /\ CASE call.op = "begin_save" -> call.pos \in DOMAIN dirty
       [] call.op = "write" -> call.pos \notin DOMAIN dirty /\ ~FullSector(call.pos)
       [] OTHER -> call.pos \notin DOMAIN dirty

OriginalHit ==
  /\ NeedsOriginal
  /\ ChunkOf(call.pos) \in DOMAIN cached
  /\ call' = [call EXCEPT !.buf = cached[ChunkOf(call.pos)]]
  /\ older' = Touch(ChunkOf(call.pos), DOMAIN cached, older)
  /\ UNCHANGED <<identity, imageVars, cached, bytes, revision, build, unchanged, hash, worldVars>>

OriginalFetch ==
  /\ NeedsOriginal
  /\ ChunkOf(call.pos) \notin DOMAIN cached
  /\ call' = [call EXCEPT !.buf = RestrictTo(Original, SectorsOf(ChunkOf(call.pos))),
                          !.put = TRUE]
  /\ UNCHANGED <<identity, imageVars, cacheVars, revision, build, unchanged, hash, worldVars>>

\* Cache::put evicts the smallest tick until the new chunk fits.
CacheEvict ==
  /\ call.put
  /\ ~CacheFits(ChunkOf(call.pos))
  /\ \E k \in DOMAIN cached :
       /\ \A j \in DOMAIN cached : <<j, k>> \notin older
       /\ cached' = RestrictTo(cached, DOMAIN cached \ {k})
       /\ older' = {p \in older : p[1] # k /\ p[2] # k}
       /\ bytes' = bytes - LenOf(k)
  /\ UNCHANGED <<identity, imageVars, revision, build, unchanged, hash, call, worldVars>>

CachePut ==
  /\ call.put
  /\ CacheFits(ChunkOf(call.pos))
  /\ LET c == ChunkOf(call.pos) IN
       /\ cached' = [k \in DOMAIN cached \cup {c} |-> IF k = c THEN call.buf ELSE cached[k]]
       /\ older' = Touch(c, DOMAIN cached, older)
       /\ bytes' = bytes + LenOf(c)
  /\ call' = [call EXCEPT !.put = FALSE]
  /\ UNCHANGED <<identity, imageVars, revision, build, unchanged, hash, worldVars>>

\* A pending sector hides the original one.
SpanValue(s) == IF s \in DOMAIN dirty THEN dirty[s] ELSE call.buf[s]
\* Faulty: the read loop does not move past a pending sector.
AfterPendingStuck == call.pos
AfterPending == call.pos + 1

\* The end of the span one authenticated chunk answers.
SpanEnd ==
  IF call.hi < LastOf(ChunkOf(call.pos)) THEN call.hi ELSE LastOf(ChunkOf(call.pos))

\* One pass of Image::read's loop: a pending sector, or the rest of the chunk
\* with every pending sector of the span laid over it.
ReadSpan ==
  /\ call.op \in {"read", "next", "verify"} /\ call.pos <= call.hi /\ ~call.put
  /\ \/ /\ call.pos \in DOMAIN dirty
        /\ call' = [call EXCEPT !.out = Extend(@, [s \in {call.pos} |-> dirty[s]]),
                                !.pos = AfterPending, !.buf = Empty]
     \/ /\ call.pos \notin DOMAIN dirty /\ call.pos \in DOMAIN call.buf
        /\ call' = [call EXCEPT
                      !.out = Extend(@, [s \in call.pos .. SpanEnd |-> SpanValue(s)]),
                      !.pos = SpanEnd + 1, !.buf = Empty]
  /\ UNCHANGED <<identity, imageVars, cacheVars, revision, build, unchanged, hash, worldVars>>

\* An error out of any await or check: the call returns Err and has changed
\* nothing but the cache.
CallFails ==
  /\ ~Idle /\ ~call.put
  /\ call' = NoCall
  /\ UNCHANGED <<identity, imageVars, cacheVars, revision, build, unchanged, hash, worldVars>>

Begin(op, lo, hi) == call' = [NoCall EXCEPT !.op = op, !.lo = lo, !.hi = hi, !.pos = lo]

-----------------------------------------------------------------------------
(* Engine::new, open, open_read_only, and the end of the handle.           *)

NewEngine ==
  /\ identity = "none"
  /\ identity' = "owner"
  /\ UNCHANGED <<imageVars, cacheVars, revision, build, unchanged, hash, call, worldVars>>

OpenReadOnly(f) ==
  /\ identity = "none"
  /\ identity' = "reader"
  /\ source' = f /\ dirty' = Empty
  \* the candidate is returned only after its first record authenticates
  /\ cached' = [k \in {0} |-> RestrictTo(files[f], SectorsOf(0))]
  /\ older' = {} /\ bytes' = LenOf(0)
  /\ revision' = 1
  /\ UNCHANGED <<build, unchanged, hash, call, worldVars>>

Open(f) ==
  /\ identity = "owner" /\ Idle /\ ~HasImage /\ ~build.active
  /\ revision < MaxRevision
  /\ source' = f /\ dirty' = Empty /\ EmptyCache
  /\ Bump
  /\ UNCHANGED <<identity, build, unchanged, hash, call, worldVars>>

\* The Worker's close: the handle is freed, files outlive it.
Free ==
  /\ identity # "none" /\ Idle
  /\ identity' = "none"
  /\ source' = 0 /\ dirty' = Empty /\ EmptyCache
  /\ revision' = 0 /\ build' = NoBuild /\ unchanged' = -1 /\ hash' = NoHash
  /\ UNCHANGED <<call, worldVars>>

-----------------------------------------------------------------------------
(* Preparing a new encrypted file: begin_create, begin_save, next, accept. *)

BeginBuild(raw) ==
  build' = [active |-> TRUE, raw |-> raw, index |-> 0, revision |-> revision, parts |-> Empty]

BeginCreate(raw) ==
  /\ identity = "owner" /\ Idle /\ ~HasImage /\ ~build.active
  /\ BeginBuild(raw)
  /\ UNCHANGED <<identity, imageVars, cacheVars, revision, unchanged, hash, call, worldVars>>

BeginSave ==
  /\ identity = "owner" /\ Idle /\ ~build.active /\ HasImage
  /\ Begin("begin_save", 0, NSectors - 1)
  /\ UNCHANGED <<identity, imageVars, cacheVars, revision, build, unchanged, hash, worldVars>>

Differs == call.changed \/ call.buf[call.pos] # dirty[call.pos]

\* begin_save compares every pending sector with the original one; the chunk
\* read for one sector serves the following sectors of the same chunk.
CompareSector ==
  /\ call.op = "begin_save" /\ call.pos <= call.hi /\ ~call.put
  /\ \/ /\ call.pos \notin DOMAIN dirty
        /\ call' = [call EXCEPT !.pos = @ + 1]
     \/ /\ call.pos \in DOMAIN dirty /\ call.pos \in DOMAIN call.buf
        /\ call' = [call EXCEPT !.changed = Differs,
                                !.pos = @ + 1]
  /\ UNCHANGED <<identity, imageVars, cacheVars, revision, build, unchanged, hash, worldVars>>

BeginSaveReturns ==
  /\ call.op = "begin_save" /\ call.pos > call.hi
  /\ call' = NoCall
  /\ \/ call.changed /\ BeginBuild(NULL) /\ UNCHANGED unchanged
     \/ ~call.changed /\ unchanged' = revision /\ UNCHANGED build
  /\ UNCHANGED <<identity, imageVars, cacheVars, revision, hash, worldVars>>

VerdictCurrent == unchanged = revision

AcceptUnchanged ==
  /\ identity = "owner" /\ Idle
  /\ VerdictCurrent
  /\ dirty' = Empty
  /\ unchanged' = -1
  /\ UNCHANGED <<identity, source, cacheVars, revision, build, hash, call, worldVars>>

\* A build prepared for an older revision is stale.
BuildCurrent == build.active /\ build.revision = revision

NextRecord ==
  /\ identity = "owner" /\ Idle /\ BuildCurrent
  /\ FirstOf(build.index) < NSectors
  /\ \/ /\ build.raw = NULL
        /\ Begin("next", FirstOf(build.index), LastOf(build.index))
        /\ UNCHANGED build
     \/ /\ build.raw # NULL
        /\ build' = [build EXCEPT !.parts = Extend(@, RestrictTo(build.raw, SectorsOf(build.index))),
                                  !.index = @ + 1]
        /\ UNCHANGED call
  /\ UNCHANGED <<identity, imageVars, cacheVars, revision, unchanged, hash, worldVars>>

NextReturns ==
  /\ call.op = "next" /\ call.pos > call.hi
  /\ build' = [build EXCEPT !.parts = Extend(@, call.out), !.index = @ + 1]
  /\ call' = NoCall
  /\ UNCHANGED <<identity, imageVars, cacheVars, revision, unchanged, hash, worldVars>>

BuildComplete == build.index = NChunks

\* accept: the driver assembled the records it was given into a file.
Accept ==
  /\ identity = "owner" /\ Idle /\ BuildCurrent
  /\ BuildComplete
  /\ Len(files) < MaxFiles /\ revision < MaxRevision
  /\ files' = Append(files, build.parts)
  /\ source' = Len(files) + 1 /\ dirty' = Empty /\ EmptyCache
  /\ build' = NoBuild
  /\ Bump
  /\ hash' = NoHash
  /\ UNCHANGED <<identity, unchanged, call, states>>

Cancel ==
  /\ identity # "none" /\ Idle
  /\ unchanged' = -1 /\ build' = NoBuild /\ hash' = NoHash
  /\ UNCHANGED <<identity, imageVars, cacheVars, revision, call, worldVars>>

-----------------------------------------------------------------------------
(* read, write, discard, clear_cache.                                      *)

Read(lo, hi) ==
  /\ Idle /\ HasImage
  /\ Begin("read", lo, hi)
  /\ UNCHANGED <<identity, imageVars, cacheVars, revision, build, unchanged, hash, worldVars>>

ReadReturns ==
  /\ call.op = "read" /\ call.pos > call.hi
  /\ call' = NoCall
  /\ UNCHANGED <<identity, imageVars, cacheVars, revision, build, unchanged, hash, worldVars>>

Write(r) ==
  /\ Idle /\ HasImage /\ revision < MaxRevision
  /\ call' = [NoCall EXCEPT !.op = "write", !.lo = r.lo, !.hi = r.hi, !.pos = r.lo, !.req = r]
  /\ UNCHANGED <<identity, imageVars, cacheVars, revision, build, unchanged, hash, worldVars>>

\* A sector the request covers only in part is read first.
StageSector ==
  /\ call.op = "write" /\ call.pos <= call.hi /\ ~call.put
  /\ LET s == call.pos
         stage(old) == call' = [call EXCEPT
                         !.out = Extend(@, [x \in {s} |-> PatchSector(call.req, s, old)]),
                         !.pos = @ + 1, !.buf = Empty]
     IN \/ FullSector(s) /\ stage([h \in Halves |-> call.req.byte])
        \/ ~FullSector(s) /\ s \in DOMAIN dirty /\ stage(dirty[s])
        \/ ~FullSector(s) /\ s \notin DOMAIN dirty /\ s \in DOMAIN call.buf /\ stage(call.buf[s])
  /\ UNCHANGED <<identity, imageVars, cacheVars, revision, build, unchanged, hash, worldVars>>

WriteReturns ==
  /\ call.op = "write" /\ call.pos > call.hi
  /\ dirty' = Extend(dirty, call.out)
  /\ Bump
  /\ call' = NoCall
  /\ UNCHANGED <<identity, source, cacheVars, build, unchanged, hash, worldVars>>

Discard ==
  /\ Idle /\ HasImage /\ revision < MaxRevision
  /\ dirty' = Empty
  /\ Bump
  /\ unchanged' = -1 /\ build' = NoBuild /\ hash' = NoHash
  /\ UNCHANGED <<identity, source, cacheVars, call, worldVars>>

ClearCache ==
  /\ Idle /\ HasImage
  /\ EmptyCache
  /\ UNCHANGED <<identity, imageVars, revision, build, unchanged, hash, call, worldVars>>

-----------------------------------------------------------------------------
(* verify_start, verify_step.                                              *)

VerifyStart ==
  /\ Idle /\ HasImage
  /\ hash' = [active |-> TRUE, index |-> 0, revision |-> revision, acc |-> Empty]
  /\ UNCHANGED <<identity, imageVars, cacheVars, revision, build, unchanged, call, worldVars>>

VerifyStep ==
  /\ Idle /\ hash.active /\ hash.revision = revision
  /\ FirstOf(hash.index) < NSectors
  /\ Begin("verify", FirstOf(hash.index), LastOf(hash.index))
  /\ UNCHANGED <<identity, imageVars, cacheVars, revision, build, unchanged, hash, worldVars>>

\* The step that reaches the end takes the digest out of the engine, unless a
\* cancellation is noticed first: then the digest is delivered by a later step.
VerifyReturns ==
  /\ call.op = "verify" /\ call.pos > call.hi
  /\ LET h == [hash EXCEPT !.index = @ + 1, !.acc = Extend(@, call.out)] IN
       hash' \in IF h.index = NChunks THEN {h, NoHash} ELSE {h}
  /\ call' = NoCall
  /\ UNCHANGED <<identity, imageVars, cacheVars, revision, build, unchanged, worldVars>>

VerifyDelivers ==
  /\ Idle /\ hash.active /\ hash.revision = revision
  /\ FirstOf(hash.index) >= NSectors
  /\ hash' = NoHash
  /\ UNCHANGED <<identity, imageVars, cacheVars, revision, build, unchanged, call, worldVars>>

-----------------------------------------------------------------------------
(* snapshot.rs: state_overlay with state_base, and fork_state adopted by   *)
(* commitState.  The fork starts with an empty cache and a new revision.   *)

SaveState ==
  /\ identity = "owner" /\ Idle /\ HasImage
  /\ Len(states) < MaxStates
  /\ states' = Append(states, [base |-> source, overlay |-> dirty, content |-> Logical])
  /\ UNCHANGED <<identity, imageVars, cacheVars, revision, build, unchanged, hash, call, files>>

\* Faulty: a state of another disk is accepted.
SameBaseAny(st) == TRUE
\* decodeState refuses a state whose base header is not the open disk's.
SameBase(st) == st.base = source

ForkState(st) ==
  /\ Idle /\ HasImage /\ ~build.active
  /\ SameBase(st)
  /\ revision < MaxRevision
  /\ dirty' = st.overlay
  /\ EmptyCache
  /\ Bump
  /\ build' = NoBuild /\ hash' = NoHash /\ unchanged' = -1
  /\ UNCHANGED <<identity, source, call, worldVars>>

-----------------------------------------------------------------------------
Init ==
  /\ identity = "none" /\ source = 0 /\ dirty = Empty
  /\ cached = Empty /\ older = {} /\ bytes = 0
  /\ revision = 0 /\ build = NoBuild /\ unchanged = -1 /\ hash = NoHash
  /\ call = NoCall /\ files = <<>> /\ states = <<>>

CallStep ==
  \/ OriginalHit \/ OriginalFetch \/ CacheEvict \/ CachePut
  \/ ReadSpan \/ CompareSector \/ StageSector
  \/ BeginSaveReturns \/ NextReturns \/ ReadReturns \/ WriteReturns \/ VerifyReturns

Next ==
  \/ CallStep
  \/ CallFails
  \/ NewEngine \/ Free
  \/ \E f \in DOMAIN files : Open(f)
  \/ \E f \in DOMAIN files : OpenReadOnly(f)
  \/ \E raw \in RawImages : BeginCreate(raw)
  \/ BeginSave \/ AcceptUnchanged \/ NextRecord \/ Accept \/ Cancel
  \/ \E lo, hi \in Sectors : lo <= hi /\ Read(lo, hi)
  \/ \E r \in Writes : Write(r)
  \/ Discard \/ ClearCache
  \/ VerifyStart \/ VerifyStep \/ VerifyDelivers
  \/ SaveState
  \/ \E i \in DOMAIN states : ForkState(states[i])

\* A started call runs to its end: the executor keeps polling it.
Fairness == WF_vars(CallStep)

Spec == Init /\ [][Next]_vars /\ Fairness

-----------------------------------------------------------------------------
(* Properties.                                                             *)

CallType ==
  [op : {"idle", "read", "write", "begin_save", "next", "verify"},
   lo : Sectors, hi : Sectors, pos : 0 .. NSectors, req : Requests \cup {NULL},
   out : SectorMap, buf : SectorMap, put : BOOLEAN, changed : BOOLEAN]

\* Types of the engine's fields.
TypeOK ==
  /\ identity \in {"none", "owner", "reader"}
  /\ files \in Seq(Contents) /\ source \in 0 .. Len(files)
  /\ dirty \in SectorMap
  /\ DOMAIN cached \subseteq Chunks /\ cached \in [DOMAIN cached -> SectorMap]
  /\ older \subseteq Chunks \X Chunks /\ bytes \in Int
  /\ revision \in Nat /\ unchanged \in Nat \cup {-1}
  /\ build \in [active : BOOLEAN, raw : RawImages \cup {NULL}, index : 0 .. NChunks,
                revision : Nat, parts : SectorMap]
  /\ hash \in [active : BOOLEAN, index : 0 .. NChunks, revision : Nat, acc : SectorMap]
  /\ call \in CallType
  /\ states \in Seq([base : Nat, overlay : SectorMap, content : Contents])

\* Image::original: what the cache answers is what the encrypted file of the
\* open image holds, across every change of image, fork and eviction.
CacheCoherent ==
  \A c \in DOMAIN cached :
    HasImage /\ cached[c] = RestrictTo(Original, SectorsOf(c))

\* Cache::put: the byte counter is the size of the cached chunks and never
\* passes CACHE_LIMIT.
SumLen(keys) == MapThenSumSet(LenOf, keys)
CacheAccounted ==
  /\ bytes = SumLen(DOMAIN cached)
  /\ bytes <= CacheLimit

\* Cache::put: while the new chunk does not fit, the eviction loop finds the minimum
\* it unwraps.
VictimExists ==
  call.put /\ ~CacheFits(ChunkOf(call.pos)) =>
    \E k \in DOMAIN cached : \A j \in DOMAIN cached : <<j, k>> \notin older

\* next / accept: while a prepared save is not stale, the records handed out
\* so far hold exactly what the guest reads now (or the raw image), whatever
\* calls, failures and cancellations came in between.
PreparedSaveFaithful ==
  BuildCurrent =>
    build.parts = RestrictTo(IF build.raw = NULL THEN Logical ELSE build.raw,
                             Prefix(build.index))

\* begin_save / accept_unchanged: an "unchanged" verdict that is still valid
\* means no pending sector differs from the encrypted file.
UnchangedFaithful ==
  unchanged = revision =>
    HasImage /\ \A s \in DOMAIN dirty : dirty[s] = Original[s]

\* verify_step: a verification that is not stale has hashed exactly what the
\* guest reads, from the first chunk to the current one.
VerifyFaithful ==
  (hash.active /\ hash.revision = revision) =>
    hash.acc = RestrictTo(Logical, Prefix(hash.index))

\* Image::read: what a read, a next or a verify_step has copied so far is what
\* the guest would see there.
ReadFaithful ==
  call.op \in {"read", "next", "verify"} =>
    call.out = RestrictTo(Logical, {s \in Sectors : call.lo <= s /\ s < call.pos})

\* What holds inside a call: the image stays open, the chunk in hand is the
\* authenticated one, and each loop has done exactly its share so far.
CallInv ==
  /\ Idle => call = NoCall
  /\ ~Idle =>
      /\ HasImage
      /\ call.lo <= call.pos /\ call.pos <= call.hi + 1
      /\ \A s \in DOMAIN call.buf : call.buf[s] = Original[s]
      /\ (call.op # "begin_save" \/ call.put) =>
           \/ call.buf = Empty
           \/ call.buf = RestrictTo(Original, SectorsOf(ChunkOf(call.pos)))
      /\ call.put => call.pos <= call.hi /\ call.buf # Empty
      /\ CASE call.op = "write" ->
                /\ call.req \in Requests /\ call.lo = call.req.lo /\ call.hi = call.req.hi
                /\ call.out = [s \in call.lo .. call.pos - 1 |->
                                 PatchSector(call.req, s, Logical[s])]
           [] call.op = "begin_save" ->
                /\ call.hi = NSectors - 1 /\ identity = "owner"
                /\ call.changed \/ \A s \in DOMAIN dirty :
                                     s < call.pos => dirty[s] = Original[s]
           [] call.op = "next" ->
                /\ BuildCurrent /\ build.raw = NULL /\ build.index \in Chunks
                /\ call.lo = FirstOf(build.index) /\ call.hi = LastOf(build.index)
           [] call.op = "verify" ->
                /\ hash.active /\ hash.revision = revision /\ hash.index \in Chunks
                /\ call.lo = FirstOf(hash.index) /\ call.hi = LastOf(hash.index)
           [] OTHER -> TRUE

\* Nothing prepared is ahead of the engine's revision, so that every bump makes
\* it stale; a prepared save has a disk to read and a prepared creation has
\* none to replace, only an owner prepares, and a freed handle leaves nothing behind.
RevisionInv ==
  /\ unchanged <= revision /\ build.revision <= revision /\ hash.revision <= revision
  /\ build.active => (HasImage <=> build.raw = NULL)
  /\ hash.active => HasImage
  /\ build.active => identity = "owner"
  /\ ~HasImage => dirty = Empty
  /\ identity = "none" => /\ ~HasImage /\ revision = 0 /\ unchanged = -1
                          /\ build = NoBuild /\ hash = NoHash /\ call = NoCall

\* A state file restores to the contents it was captured with.
StatesInv ==
  \A i \in DOMAIN states :
    /\ states[i].base \in DOMAIN files
    /\ Overlaid(states[i].overlay, files[states[i].base]) = states[i].content

\* The inductive invariant: what one call may assume of all earlier ones.
IInv ==
  /\ TypeOK /\ RevisionInv /\ StatesInv
  /\ CacheCoherent /\ PreparedSaveFaithful /\ UnchangedFaithful /\ VerifyFaithful
  /\ ReadFaithful /\ CallInv

\* Every started call comes back to its caller.
CallReturns == ~Idle ~> Idle

\* What a finished read is about to hand out.
Answer == IF call.op = "read" /\ call.pos > call.hi THEN call.out ELSE Empty

Disk == INSTANCE DiskSpec WITH
          content <- IF HasImage THEN Logical ELSE NULL,
          saved <- IF HasImage THEN Original ELSE NULL,
          captured <- {states[i].content : i \in DOMAIN states},
          answer <- Answer

\* The engine implements the abstract disk: guest-visible contents change only
\* by whole writes, discards and restores of a captured state, a read answers
\* with the contents of its moment, whatever file the cached chunks are of, and
\* a new encrypted file holds exactly the contents of its moment.
ImplementsDisk == Disk!AbstractDisk

=============================================================================
