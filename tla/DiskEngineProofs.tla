-------------------------- MODULE DiskEngineProofs --------------------------
(***************************************************************************)
(* The disk engine's inductive invariant, its refinement of DiskSpec and   *)
(* the account of its cache, for every image size, chunk size, cache limit *)
(* and set of requests.                                                    *)
(***************************************************************************)
EXTENDS DiskEngine, FiniteSetTheorems, WellFoundedInduction, TLAPS

-----------------------------------------------------------------------------
(* Chunks partition the image.                                             *)

\* A sector lies between the first sector of its chunk and the next chunk's.
LEMMA Division ==
  ASSUME NEW s \in Nat
  PROVE  /\ ChunkOf(s) \in Nat
         /\ FirstOf(ChunkOf(s)) <= s
         /\ s < FirstOf(ChunkOf(s)) + ChunkSectors
BY SizesAssumption, Z3 DEF ChunkOf, FirstOf

\* There is a chunk; the last one starts inside the image and ends with it.
LEMMA ChunkBounds ==
  /\ NChunks \in Nat \ {0}
  /\ FirstOf(NChunks - 1) \in Nat
  /\ FirstOf(NChunks - 1) < NSectors
  /\ FirstOf(NChunks) \in Nat
  /\ NSectors <= FirstOf(NChunks)
  /\ FirstOf(0) = 0
<1>1. NSectors - 1 \in Nat
  BY SizesAssumption
<1>2. ChunkOf(NSectors - 1) \in Nat
  BY <1>1, Division
<1>3. FirstOf(NChunks) = FirstOf(NChunks - 1) + ChunkSectors
  BY <1>2, SizesAssumption, Z3 DEF FirstOf, NChunks
<1>. QED
  BY <1>1, <1>2, <1>3, Division, SizesAssumption DEF NChunks, FirstOf

\* Chunks start ChunkSectors apart.
LEMMA FirstOfMonotone ==
  ASSUME NEW c \in Nat, NEW d \in Nat, c < d
  PROVE  /\ FirstOf(c) \in Nat
         /\ FirstOf(c + 1) = FirstOf(c) + ChunkSectors
         /\ FirstOf(c) + ChunkSectors <= FirstOf(d)
BY SizesAssumption, Z3 DEF FirstOf

\* A chunk is a non-empty run of sectors, short only at the end of the image.
LEMMA ChunkExtent ==
  ASSUME NEW c \in Chunks
  PROVE  /\ c \in Nat
         /\ FirstOf(c) \in Sectors
         /\ LastOf(c) \in Sectors
         /\ LenOf(c) \in Nat \ {0}
         /\ FirstOf(c) <= LastOf(c)
         /\ SectorsOf(c) \subseteq Sectors
         /\ SectorsOf(c) = {s \in Sectors : FirstOf(c) <= s /\ s < FirstOf(c + 1)}
         /\ c + 1 \in 0 .. NChunks
<1>1. c \in Nat /\ c < NChunks
  BY ChunkBounds DEF Chunks
<1>2. CASE c = NChunks - 1
  <2>1. c + 1 = NChunks
    BY <1>1, <1>2, ChunkBounds
  <2>. QED
    BY <2>1, <1>1, <1>2, ChunkBounds, SizesAssumption DEF LastOf, LenOf, SectorsOf, Sectors
<1>3. CASE c # NChunks - 1
  <2>1. c < NChunks - 1 /\ NChunks - 1 \in Nat
    BY <1>1, <1>3, ChunkBounds
  <2>2. FirstOf(c) + ChunkSectors <= FirstOf(NChunks - 1) /\ FirstOf(c) \in Nat
        /\ FirstOf(c + 1) = FirstOf(c) + ChunkSectors
    BY <2>1, <1>1, FirstOfMonotone
  <2>. QED
    BY <1>1, <1>3, <2>1, <2>2, ChunkBounds, SizesAssumption DEF LastOf, LenOf, SectorsOf, Sectors
<1>. QED
  BY <1>2, <1>3

\* Every sector lies in its chunk.
LEMMA ChunkOfSector ==
  ASSUME NEW s \in Sectors
  PROVE  /\ ChunkOf(s) \in Chunks
         /\ s \in SectorsOf(ChunkOf(s))
<1>1. s \in Nat /\ s < NSectors
  BY SizesAssumption DEF Sectors
<1>2. ChunkOf(s) \in Nat /\ FirstOf(ChunkOf(s)) <= s /\ s < FirstOf(ChunkOf(s)) + ChunkSectors
  BY <1>1, Division
<1>3. ~(NChunks <= ChunkOf(s))
  <2>1. SUFFICES ASSUME NChunks <= ChunkOf(s) PROVE FALSE
    OBVIOUS
  <2>2. FirstOf(NChunks) <= FirstOf(ChunkOf(s))
    <3>1. CASE NChunks = ChunkOf(s)
      BY <3>1, <1>2, SizesAssumption DEF FirstOf
    <3>2. CASE NChunks < ChunkOf(s)
      BY <3>2, <1>2, ChunkBounds, FirstOfMonotone, SizesAssumption DEF FirstOf
    <3>. QED
      BY <3>1, <3>2, <2>1, <1>2, ChunkBounds
  <2>. QED
    BY <2>2, <1>1, <1>2, ChunkBounds, SizesAssumption DEF FirstOf
<1>4. ChunkOf(s) \in Chunks
  BY <1>2, <1>3, ChunkBounds DEF Chunks
<1>5. FirstOf(ChunkOf(s) + 1) = FirstOf(ChunkOf(s)) + ChunkSectors
  BY <1>2, FirstOfMonotone
<1>. QED
  BY <1>1, <1>2, <1>4, <1>5, ChunkExtent

\* Adding a chunk to the chunks before it; all of them are the image.
LEMMA PrefixGrows ==
  ASSUME NEW c \in Chunks
  PROVE  /\ Prefix(c + 1) = Prefix(c) \cup SectorsOf(c)
         /\ Prefix(0) = {}
         /\ Prefix(NChunks) = Sectors
<1>1. FirstOf(c + 1) = FirstOf(c) + ChunkSectors /\ FirstOf(c) \in Nat
  BY ChunkExtent, FirstOfMonotone
<1>2. Prefix(c + 1) = Prefix(c) \cup SectorsOf(c)
  BY <1>1, ChunkExtent, SizesAssumption DEF Prefix, Sectors
<1>. QED
  BY <1>2, ChunkBounds, SizesAssumption DEF Prefix, Sectors

\* An index that is not at the end names a chunk.
LEMMA IndexInChunks ==
  ASSUME NEW c \in 0 .. NChunks, FirstOf(c) < NSectors
  PROVE  c \in Chunks
<1>1. c # NChunks
  BY ChunkBounds, SizesAssumption
<1>. QED
  BY <1>1, ChunkBounds DEF Chunks

-----------------------------------------------------------------------------
(* Finite maps.                                                            *)

\* What it is to be a map of sectors.
LEMMA SectorMapDef ==
  ASSUME NEW f
  PROVE  f \in SectorMap <=> DOMAIN f \subseteq Sectors /\ f \in [DOMAIN f -> Val]
BY DEF SectorMap, Partial

\* The empty map is a map of sectors.
LEMMA EmptyMap == Empty \in SectorMap /\ DOMAIN Empty = {}
<1>1. DOMAIN Empty = {} /\ Empty \in [{} -> Val]
  BY DEF Empty
<1>. QED
  BY <1>1, SectorMapDef

\* Inserting the entries of one map into another.
LEMMA ExtendMap ==
  ASSUME NEW f \in SectorMap, NEW g \in SectorMap
  PROVE  /\ Extend(f, g) \in SectorMap
         /\ DOMAIN Extend(f, g) = DOMAIN f \cup DOMAIN g
<1>1. DOMAIN Extend(f, g) = DOMAIN f \cup DOMAIN g
  BY DEF Extend
<1>2. \A x \in DOMAIN Extend(f, g) : Extend(f, g)[x] \in Val
  BY SectorMapDef DEF Extend
<1>3. Extend(f, g) \in [DOMAIN Extend(f, g) -> Val]
  BY <1>2 DEF Extend
<1>. QED
  BY <1>1, <1>3, SectorMapDef

\* A part of some contents is a map of sectors.
LEMMA RestrictMap ==
  ASSUME NEW f \in Contents, NEW S \in SUBSET Sectors
  PROVE  /\ RestrictTo(f, S) \in SectorMap
         /\ DOMAIN RestrictTo(f, S) = S
<1>1. DOMAIN RestrictTo(f, S) = S /\ RestrictTo(f, S) \in [S -> Val]
  BY DEF RestrictTo, Contents
<1>. QED
  BY <1>1, SectorMapDef

\* Pending sectors over contents are contents.
LEMMA OverlaidType ==
  ASSUME NEW d \in SectorMap, NEW b \in Contents
  PROVE  Overlaid(d, b) \in Contents
BY SectorMapDef DEF Overlaid, Contents

\* The whole of some contents is the contents.
LEMMA FullMap ==
  ASSUME NEW f \in Contents
  PROVE  RestrictTo(f, Sectors) = f
BY DEF RestrictTo, Contents

\* A patched sector is a sector.
LEMMA PatchType ==
  ASSUME NEW r \in Requests, NEW s, NEW old \in Val
  PROVE  PatchSector(r, s, old) \in Val
BY DEF PatchSector, Val, Requests

\* Two restrictions of the same contents join to the restriction to both sets.
LEMMA ExtendRestrict ==
  ASSUME NEW f, NEW S, NEW T
  PROVE  Extend(RestrictTo(f, S), RestrictTo(f, T)) = RestrictTo(f, S \cup T)
BY DEF Extend, RestrictTo

\* The empty records have their types.
LEMMA NoneTypes ==
  /\ NoCall \in CallType /\ NoCall.op = "idle" /\ NoCall.put = FALSE
  /\ NoBuild \in [active : BOOLEAN, raw : RawImages \cup {NULL}, index : 0 .. NChunks,
                  revision : Nat, parts : SectorMap]
  /\ NoHash \in [active : BOOLEAN, index : 0 .. NChunks, revision : Nat, acc : SectorMap]
<1>1. 0 \in Sectors /\ 0 \in 0 .. NSectors
  BY SizesAssumption DEF Sectors
<1>2. 0 \in 0 .. NChunks
  BY ChunkBounds
<1>. QED
  BY <1>1, <1>2, EmptyMap DEF NoCall, NoBuild, NoHash, CallType

\* Where the open image's contents come from.
LEMMA ImageTypes ==
  ASSUME TypeOK, HasImage
  PROVE  /\ source \in DOMAIN files
         /\ Original \in Contents
         /\ Logical \in Contents
<1>1. source \in 1 .. Len(files)
  BY DEF TypeOK, HasImage
<1>2. Original \in Contents
  BY <1>1 DEF TypeOK, Original
<1>. QED
  BY <1>1, <1>2, OverlaidType DEF TypeOK, Logical

\* What a call looks like when it starts.
LEMMA StartedCall ==
  ASSUME NEW op \in {"read", "begin_save", "next", "verify"},
         NEW lo \in Sectors, NEW hi \in Sectors, Begin(op, lo, hi)
  PROVE  /\ call' \in CallType
         /\ call'.op = op /\ call'.lo = lo /\ call'.hi = hi /\ call'.pos = lo
         /\ call'.out = Empty /\ call'.buf = Empty
         /\ call'.put = FALSE /\ call'.changed = FALSE
<1>1. lo \in 0 .. NSectors
  BY SizesAssumption DEF Sectors
<1>. QED
  BY <1>1, NoneTypes DEF Begin, NoCall, CallType

\* What Append adds and keeps.
LEMMA Appended ==
  ASSUME NEW S, NEW q \in Seq(S), NEW e
  PROVE  /\ DOMAIN Append(q, e) = DOMAIN q \cup {Len(q) + 1}
         /\ Append(q, e)[Len(q) + 1] = e
         /\ \A i \in DOMAIN q : Append(q, e)[i] = q[i]
OBVIOUS

\* The elements of a sequence.
LEMMA ElementOfSeq ==
  ASSUME NEW S, NEW q \in Seq(S), NEW i \in DOMAIN q
  PROVE  q[i] \in S
OBVIOUS

\* A call runs only on an engine that exists.
LEMMA RunningEngine ==
  ASSUME IInv, call.op # "idle" \/ call.put
  PROVE  identity # "none"
BY NoneTypes DEF IInv, RevisionInv

\* The sector a running call is at.
LEMMA NeededSector ==
  ASSUME IInv, NeedsOriginal
  PROVE  HasImage /\ call.pos \in Sectors
<1>1. call.hi \in Sectors /\ call.pos \in 0 .. NSectors
  BY DEF IInv, TypeOK, CallType
<1>. QED
  BY <1>1, SizesAssumption DEF IInv, CallInv, NeedsOriginal, Sectors

\* A chunk waiting to be cached is the authenticated chunk of the open file.
LEMMA PutSector ==
  ASSUME IInv, call.put
  PROVE  /\ HasImage /\ call.pos \in Sectors
         /\ call.buf = RestrictTo(Original, SectorsOf(ChunkOf(call.pos)))
<1>1. call.hi \in Sectors /\ call.pos \in 0 .. NSectors
  BY DEF IInv, TypeOK, CallType
<1>2. ~Idle
  BY NoneTypes DEF IInv, CallInv
<1>. QED
  BY <1>1, <1>2, SizesAssumption DEF IInv, CallInv, Sectors

\* Dropping pending sectors that equal the file's changes nothing the guest
\* could read.
LEMMA UnchangedKeepsLogical ==
  ASSUME IInv, AcceptUnchanged
  PROVE  Logical' = Logical /\ Original' = Original
<1>1. HasImage /\ \A s \in DOMAIN dirty : dirty[s] = Original[s]
  BY DEF IInv, UnchangedFaithful, VerdictCurrent, AcceptUnchanged
<1>2. Original' = Original /\ dirty' = Empty
  BY DEF Original, AcceptUnchanged, worldVars
<1>. QED
  BY <1>1, <1>2, EmptyMap DEF Logical, Overlaid

\* One pass of the read loop copies exactly the next span of what the guest
\* reads, and stops at or before the end of the range.
LEMMA ReadSpanCopies ==
  ASSUME IInv, ReadSpan
  PROVE  /\ call' \in CallType
         /\ call'.op = call.op /\ call'.lo = call.lo /\ call'.hi = call.hi
         /\ call'.put = FALSE /\ call'.buf = Empty
         /\ call'.lo <= call'.pos /\ call'.pos <= call'.hi + 1
         /\ call'.out = RestrictTo(Logical', {s \in Sectors : call'.lo <= s /\ s < call'.pos})
<1>1. /\ ~Idle /\ ~call.put /\ HasImage
      /\ call.lo \in Sectors /\ call.hi \in Sectors /\ call.pos \in Sectors
      /\ call.lo <= call.pos /\ call.pos <= call.hi
  <2>1. call.lo \in Sectors /\ call.hi \in Sectors /\ call.pos \in 0 .. NSectors
    BY DEF IInv, TypeOK, CallType
  <2>2. ~Idle /\ ~call.put /\ call.pos <= call.hi
    BY DEF ReadSpan, Idle
  <2>3. HasImage /\ call.lo <= call.pos
    BY <2>2 DEF IInv, CallInv
  <2>. QED
    BY <2>1, <2>2, <2>3, SizesAssumption DEF Sectors
<1>2. call.out = RestrictTo(Logical, {s \in Sectors : call.lo <= s /\ s < call.pos})
  BY DEF IInv, ReadFaithful, ReadSpan
<1>3. Logical \in Contents /\ Original \in Contents
  BY <1>1, ImageTypes DEF IInv
<1>4. Logical' = Logical
  BY DEF Logical, Original, ReadSpan, imageVars, worldVars
<1>5. PICK n \in Sectors :
        /\ call.pos <= n /\ n <= call.hi
        /\ call' = [call EXCEPT !.out = Extend(call.out, RestrictTo(Logical, call.pos .. n)),
                               !.pos = n + 1, !.buf = Empty]
  <2>1. CASE call.pos \in DOMAIN dirty
    <3>1. [s \in {call.pos} |-> dirty[s]] = RestrictTo(Logical, call.pos .. call.pos)
      <4>1. call.pos .. call.pos = {call.pos}
        BY <1>1, SizesAssumption DEF Sectors
      <4>. QED
        BY <4>1, <1>1, <2>1 DEF RestrictTo, Logical, Overlaid
    <3>2. call' = [call EXCEPT !.out = Extend(call.out, RestrictTo(Logical, call.pos .. call.pos)),
                               !.pos = call.pos + 1, !.buf = Empty]
      BY <2>1, <3>1 DEF ReadSpan, AfterPending
    <3>3. call.pos <= call.pos
      BY <1>1, SizesAssumption DEF Sectors
    <3>. QED
      BY <1>1, <3>2, <3>3
  <2>2. CASE call.pos \notin DOMAIN dirty
    <3>1. call.pos \in DOMAIN call.buf
      BY <2>2 DEF ReadSpan
    <3>2. call.buf = RestrictTo(Original, SectorsOf(ChunkOf(call.pos)))
      BY <1>1, <3>1, EmptyMap DEF IInv, CallInv, ReadSpan
    <3>3. ChunkOf(call.pos) \in Chunks /\ call.pos \in SectorsOf(ChunkOf(call.pos))
      BY <1>1, ChunkOfSector
    <3>4. LastOf(ChunkOf(call.pos)) \in Sectors /\ call.pos <= LastOf(ChunkOf(call.pos))
          /\ FirstOf(ChunkOf(call.pos)) \in Sectors /\ FirstOf(ChunkOf(call.pos)) <= call.pos
      BY <1>1, <3>3, ChunkExtent, SizesAssumption DEF SectorsOf, Sectors
    <3>5. SpanEnd \in Sectors /\ call.pos <= SpanEnd /\ SpanEnd <= call.hi
          /\ SpanEnd <= LastOf(ChunkOf(call.pos))
      BY <1>1, <3>4, SizesAssumption DEF SpanEnd, Sectors
    <3>6. call.pos .. SpanEnd \subseteq SectorsOf(ChunkOf(call.pos)) \cap Sectors
      BY <1>1, <3>4, <3>5, SizesAssumption DEF SectorsOf, Sectors
    <3>7. [s \in call.pos .. SpanEnd |-> SpanValue(s)] = RestrictTo(Logical, call.pos .. SpanEnd)
      BY <3>2, <3>6 DEF SpanValue, RestrictTo, Logical, Overlaid
    <3>. QED
      BY <2>2, <3>5, <3>7 DEF ReadSpan
  <2>. QED
    BY <2>1, <2>2
<1>6. /\ call.pos .. n \subseteq Sectors /\ n + 1 \in 0 .. NSectors
      /\ {s \in Sectors : call.lo <= s /\ s < call.pos} \cup (call.pos .. n)
           = {s \in Sectors : call.lo <= s /\ s < n + 1}
  BY <1>1, <1>5, SizesAssumption DEF Sectors
<1>7. call'.out = RestrictTo(Logical, {s \in Sectors : call.lo <= s /\ s < n + 1})
  <2>1. call'.out = Extend(call.out, RestrictTo(Logical, call.pos .. n))
    BY <1>5 DEF IInv, TypeOK, CallType
  <2>2. Extend(RestrictTo(Logical, {s \in Sectors : call.lo <= s /\ s < call.pos}),
               RestrictTo(Logical, call.pos .. n))
          = RestrictTo(Logical, {s \in Sectors : call.lo <= s /\ s < call.pos} \cup (call.pos .. n))
    BY ExtendRestrict
  <2>. QED
    BY <2>1, <2>2, <1>2, <1>6
<1>8. call'.out \in SectorMap
  BY <1>3, <1>7, RestrictMap
<1>9. /\ call'.op = call.op /\ call'.lo = call.lo /\ call'.hi = call.hi /\ call'.pos = n + 1
      /\ call'.put = call.put /\ call'.buf = Empty
  BY <1>5 DEF IInv, TypeOK, CallType
<1>10. call' \in CallType
  <2>1. Extend(call.out, RestrictTo(Logical, call.pos .. n)) \in SectorMap
    BY <1>3, <1>6, RestrictMap, ExtendMap DEF IInv, TypeOK, CallType
  <2>. QED
    BY <2>1, <1>5, <1>6, EmptyMap DEF IInv, TypeOK, CallType
<1>11. call.lo <= n + 1 /\ n + 1 <= call.hi + 1
  BY <1>1, <1>5, SizesAssumption DEF Sectors
<1>. QED
  BY <1>1, <1>4, <1>7, <1>9, <1>10, <1>11

\* The range of a request.
LEMMA RequestRange ==
  ASSUME NEW r \in Requests
  PROVE  /\ r.lo \in Sectors /\ r.hi \in Sectors /\ r.byte \in Byte
         /\ r.lo <= r.hi /\ r.lo \in Int /\ r.hi \in Int
BY SizesAssumption DEF Requests, Sectors

\* What a write looks like when it starts.
LEMMA StartedWrite ==
  ASSUME NEW r \in Writes, Write(r)
  PROVE  /\ call' \in CallType
         /\ call'.op = "write" /\ call'.req = r /\ r \in Requests
         /\ call'.lo = r.lo /\ call'.hi = r.hi /\ call'.pos = r.lo
         /\ call'.out = Empty /\ call'.buf = Empty /\ call'.put = FALSE
         /\ r.lo \in Int /\ r.hi \in Int /\ r.lo <= r.hi
<1>1. r \in Requests
  BY EngineAssumption
<1>2. r.lo \in 0 .. NSectors
  BY <1>1, RequestRange, SizesAssumption DEF Sectors
<1>. QED
  BY <1>1, <1>2, RequestRange, NoneTypes DEF Write, NoCall, CallType

\* One pass of the write loop stages the next sector as the request leaves it.
LEMMA StageCopies ==
  ASSUME IInv, StageSector
  PROVE  /\ call' \in CallType
         /\ HasImage'
         /\ call'.op = "write" /\ call'.put = FALSE /\ call'.buf = Empty
         /\ call'.lo <= call'.pos /\ call'.pos <= call'.hi + 1
         /\ call'.req \in Requests /\ call'.lo = call'.req.lo /\ call'.hi = call'.req.hi
         /\ call'.out = [s \in call'.lo .. call'.pos - 1 |->
                           PatchSector(call'.req, s, Logical'[s])]
<1>1. /\ ~Idle /\ ~call.put /\ HasImage /\ call.op = "write"
      /\ call.lo \in Sectors /\ call.hi \in Sectors /\ call.pos \in Sectors
      /\ call.lo <= call.pos /\ call.pos <= call.hi
      /\ call.req \in Requests /\ call.lo = call.req.lo /\ call.hi = call.req.hi
      /\ call.out = [s \in call.lo .. call.pos - 1 |-> PatchSector(call.req, s, Logical[s])]
  <2>1. call.lo \in Sectors /\ call.hi \in Sectors /\ call.pos \in 0 .. NSectors
    BY DEF IInv, TypeOK, CallType
  <2>2. call.op = "write" /\ ~Idle /\ ~call.put /\ call.pos <= call.hi
    BY DEF Idle, StageSector
  <2>3. /\ HasImage /\ call.lo <= call.pos
        /\ call.req \in Requests /\ call.lo = call.req.lo /\ call.hi = call.req.hi
        /\ call.out = [s \in call.lo .. call.pos - 1 |-> PatchSector(call.req, s, Logical[s])]
    BY <2>2 DEF IInv, CallInv
  <2>4. call.pos \in Sectors
    BY <2>1, <2>2, SizesAssumption DEF Sectors
  <2>. QED
    BY <2>1, <2>2, <2>3, <2>4
<1>2. Logical \in Contents /\ Original \in Contents
  BY <1>1, ImageTypes DEF IInv
<1>3. Logical' = Logical /\ HasImage'
  BY <1>1 DEF Logical, Original, HasImage, StageSector, imageVars, worldVars
<1>4. call' = [call EXCEPT !.out = Extend(call.out, [x \in {call.pos} |->
                                     PatchSector(call.req, call.pos, Logical[call.pos])]),
                           !.pos = call.pos + 1, !.buf = Empty]
  <2>1. CASE FullSector(call.pos)
    <3>1. PatchSector(call.req, call.pos, [h \in Halves |-> call.req.byte])
            = PatchSector(call.req, call.pos, Logical[call.pos])
      BY <2>1 DEF PatchSector, FullSector
    <3>. QED
      BY <2>1, <3>1 DEF StageSector
  <2>2. CASE ~FullSector(call.pos) /\ call.pos \in DOMAIN dirty
    <3>1. Logical[call.pos] = dirty[call.pos]
      BY <1>1, <2>2 DEF Logical, Overlaid
    <3>. QED
      BY <2>2, <3>1 DEF StageSector
  <2>3. CASE ~FullSector(call.pos) /\ call.pos \notin DOMAIN dirty
    <3>1. call.pos \in DOMAIN call.buf
      BY <2>3 DEF StageSector
    <3>2. call.buf[call.pos] = Original[call.pos]
      BY <3>1, <1>1 DEF IInv, CallInv
    <3>3. Logical[call.pos] = call.buf[call.pos]
      BY <1>1, <2>3, <3>2 DEF Logical, Overlaid
    <3>. QED
      BY <2>3, <3>3 DEF StageSector
  <2>. QED
    BY <2>1, <2>2, <2>3
<1>5. /\ call'.op = call.op /\ call'.lo = call.lo /\ call'.hi = call.hi /\ call'.pos = call.pos + 1
      /\ call'.put = call.put /\ call'.buf = Empty /\ call'.req = call.req
      /\ call'.out = Extend(call.out, [x \in {call.pos} |->
                              PatchSector(call.req, call.pos, Logical[call.pos])])
  BY <1>4 DEF IInv, TypeOK, CallType
<1>6. call.lo .. (call.pos + 1) - 1 = (call.lo .. call.pos - 1) \cup {call.pos}
      /\ call.pos \notin call.lo .. call.pos - 1
  BY <1>1, SizesAssumption DEF Sectors
<1>7. call'.out = [s \in call.lo .. (call.pos + 1) - 1 |-> PatchSector(call.req, s, Logical[s])]
  BY <1>1, <1>5, <1>6 DEF Extend
<1>8. call' \in CallType
  <2>1. PatchSector(call.req, call.pos, Logical[call.pos]) \in Val
    BY <1>1, <1>2, PatchType DEF Contents
  <2>2. [x \in {call.pos} |-> PatchSector(call.req, call.pos, Logical[call.pos])] \in SectorMap
    BY <1>1, <2>1, SectorMapDef
  <2>3. Extend(call.out, [x \in {call.pos} |->
                            PatchSector(call.req, call.pos, Logical[call.pos])]) \in SectorMap
    BY <2>2, ExtendMap DEF IInv, TypeOK, CallType
  <2>4. call.pos + 1 \in 0 .. NSectors
    BY <1>1, SizesAssumption DEF Sectors
  <2>. QED
    BY <1>4, <2>3, <2>4, EmptyMap DEF IInv, TypeOK, CallType
<1>. QED
  BY <1>1, <1>3, <1>5, <1>7, <1>8, SizesAssumption DEF Sectors

\* A chunk read to its end, added to the chunks before it.
LEMMA ChunkRead ==
  ASSUME NEW f \in Contents, NEW c \in Chunks
  PROVE  /\ {s \in Sectors : FirstOf(c) <= s /\ s < LastOf(c) + 1} = SectorsOf(c)
         /\ Extend(RestrictTo(f, Prefix(c)), RestrictTo(f, SectorsOf(c)))
              = RestrictTo(f, Prefix(c + 1))
         /\ RestrictTo(f, Prefix(c + 1)) \in SectorMap
<1>1. {s \in Sectors : FirstOf(c) <= s /\ s < LastOf(c) + 1} = SectorsOf(c)
  BY ChunkExtent, SizesAssumption DEF SectorsOf, Sectors
<1>2. Extend(RestrictTo(f, Prefix(c)), RestrictTo(f, SectorsOf(c)))
        = RestrictTo(f, Prefix(c) \cup SectorsOf(c))
  BY ExtendRestrict
<1>3. Prefix(c + 1) \subseteq Sectors
  BY DEF Prefix
<1>. QED
  BY <1>1, <1>2, <1>3, PrefixGrows, RestrictMap

\* A finished read of a whole chunk holds the chunk the guest reads.
LEMMA FinishedRead ==
  ASSUME IInv, call.op \in {"next", "verify"}, call.pos > call.hi
  PROVE  /\ HasImage /\ Logical \in Contents
         /\ call.op = "next" =>
              /\ BuildCurrent /\ build.raw = NULL /\ build.index \in Chunks
              /\ call.out = RestrictTo(Logical, SectorsOf(build.index))
         /\ call.op = "verify" =>
              /\ hash.active /\ hash.revision = revision /\ hash.index \in Chunks
              /\ call.out = RestrictTo(Logical, SectorsOf(hash.index))
<1>1. /\ HasImage /\ call.pos <= call.hi + 1 /\ call.pos \in Int /\ call.hi \in Int
  BY SizesAssumption DEF IInv, TypeOK, CallType, CallInv, Idle, Sectors
<1>2. call.pos = call.hi + 1
  BY <1>1
<1>3. Logical \in Contents
  BY <1>1, ImageTypes DEF IInv
<1>4. call.out = RestrictTo(Logical, {s \in Sectors : call.lo <= s /\ s < call.hi + 1})
  BY <1>2 DEF IInv, ReadFaithful
<1>5. CASE call.op = "next"
  <2>1. /\ BuildCurrent /\ build.raw = NULL /\ build.index \in Chunks
        /\ call.lo = FirstOf(build.index) /\ call.hi = LastOf(build.index)
    BY <1>5 DEF IInv, CallInv, Idle
  <2>. QED
    BY <1>1, <1>3, <1>4, <1>5, <2>1, ChunkRead
<1>6. CASE call.op = "verify"
  <2>1. /\ hash.active /\ hash.revision = revision /\ hash.index \in Chunks
        /\ call.lo = FirstOf(hash.index) /\ call.hi = LastOf(hash.index)
    BY <1>6 DEF IInv, CallInv, Idle
  <2>. QED
    BY <1>1, <1>3, <1>4, <1>6, <2>1, ChunkRead
<1>. QED
  BY <1>5, <1>6

\* What the assembled file will hold when every record was handed out.
LEMMA CompleteBuild ==
  ASSUME IInv, BuildCurrent, build.index = NChunks
  PROVE  /\ build.parts \in Contents
         /\ build.raw = NULL => HasImage /\ build.parts = Logical
         /\ build.raw # NULL => build.parts = build.raw
<1>1. Prefix(NChunks) = Sectors
  BY ChunkBounds, SizesAssumption DEF Prefix, Sectors
<1>2. CASE build.raw = NULL
  <2>1. HasImage /\ Logical \in Contents
    BY <1>2, ImageTypes DEF IInv, RevisionInv, BuildCurrent
  <2>. QED
    BY <1>1, <1>2, <2>1, FullMap DEF IInv, PreparedSaveFaithful
<1>3. CASE build.raw # NULL
  <2>1. build.raw \in Contents
    BY <1>3, EngineAssumption DEF IInv, TypeOK
  <2>. QED
    BY <1>1, <1>3, <2>1, FullMap DEF IInv, PreparedSaveFaithful
<1>. QED
  BY <1>2, <1>3

-----------------------------------------------------------------------------
(* One lemma per action: it preserves every conjunct of IInv.              *)

\* An error leaves the image, the file and every preparation as they were.
LEMMA CallFailsPreserves ==
  ASSUME IInv, CallFails
  PROVE  IInv'
<1>1. TypeOK'
  BY NoneTypes, EmptyMap DEF IInv, TypeOK, CallFails, imageVars, cacheVars, worldVars
<1>2. RevisionInv'
  BY DEF IInv, RevisionInv, HasImage, TypeOK, NoBuild, NoHash, CallFails, imageVars, cacheVars,
     worldVars
<1>3. StatesInv'
  BY DEF IInv, StatesInv, CallFails, imageVars, cacheVars, worldVars
<1>4. CacheCoherent'
  BY DEF IInv, CacheCoherent, HasImage, Original, CallFails, imageVars, cacheVars, worldVars
<1>5. PreparedSaveFaithful'
  BY DEF IInv, PreparedSaveFaithful, BuildCurrent, Logical, Original, NoBuild, TypeOK, RevisionInv,
     CallFails, imageVars, cacheVars, worldVars
<1>6. UnchangedFaithful'
  BY DEF IInv, UnchangedFaithful, HasImage, Original, TypeOK, RevisionInv, CallFails, imageVars,
     cacheVars, worldVars
<1>7. VerifyFaithful'
  BY DEF IInv, VerifyFaithful, Logical, Original, NoHash, TypeOK, RevisionInv, CallFails, imageVars,
     cacheVars, worldVars
<1>8. ReadFaithful'
  BY DEF IInv, ReadFaithful, Logical, Original, Idle, NoCall, CallFails, imageVars, cacheVars,
     worldVars
<1>9. CallInv'
  BY DEF IInv, CallInv, Idle, NoCall, HasImage, Original, Logical, BuildCurrent, CallFails,
     imageVars, cacheVars, worldVars
<1>. QED
  BY <1>1, <1>2, <1>3, <1>4, <1>5, <1>6, <1>7, <1>8, <1>9 DEF IInv

\* A finished read leaves nothing behind but the cache.
LEMMA ReadReturnsPreserves ==
  ASSUME IInv, ReadReturns
  PROVE  IInv'
<1>1. TypeOK'
  BY NoneTypes, EmptyMap DEF IInv, TypeOK, ReadReturns, imageVars, cacheVars, worldVars
<1>2. RevisionInv'
  BY DEF IInv, RevisionInv, HasImage, TypeOK, NoBuild, NoHash, ReadReturns, imageVars, cacheVars,
     worldVars
<1>3. StatesInv'
  BY DEF IInv, StatesInv, ReadReturns, imageVars, cacheVars, worldVars
<1>4. CacheCoherent'
  BY DEF IInv, CacheCoherent, HasImage, Original, ReadReturns, imageVars, cacheVars, worldVars
<1>5. PreparedSaveFaithful'
  BY DEF IInv, PreparedSaveFaithful, BuildCurrent, Logical, Original, NoBuild, TypeOK, RevisionInv,
     ReadReturns, imageVars, cacheVars, worldVars
<1>6. UnchangedFaithful'
  BY DEF IInv, UnchangedFaithful, HasImage, Original, TypeOK, RevisionInv, ReadReturns, imageVars,
     cacheVars, worldVars
<1>7. VerifyFaithful'
  BY DEF IInv, VerifyFaithful, Logical, Original, NoHash, TypeOK, RevisionInv, ReadReturns,
     imageVars, cacheVars, worldVars
<1>8. ReadFaithful'
  BY DEF IInv, ReadFaithful, Logical, Original, Idle, NoCall, ReadReturns, imageVars, cacheVars,
     worldVars
<1>9. CallInv'
  BY DEF IInv, CallInv, Idle, NoCall, HasImage, Original, Logical, BuildCurrent, ReadReturns,
     imageVars, cacheVars, worldVars
<1>. QED
  BY <1>1, <1>2, <1>3, <1>4, <1>5, <1>6, <1>7, <1>8, <1>9 DEF IInv

\* Cancel drops every preparation and touches no contents.
LEMMA CancelPreserves ==
  ASSUME IInv, Cancel
  PROVE  IInv'
<1>1. TypeOK'
  BY NoneTypes, EmptyMap DEF IInv, TypeOK, Cancel, imageVars, cacheVars, worldVars
<1>2. RevisionInv'
  BY DEF IInv, RevisionInv, HasImage, TypeOK, NoBuild, NoHash, Cancel, imageVars, cacheVars,
     worldVars
<1>3. StatesInv'
  BY DEF IInv, StatesInv, Cancel, imageVars, cacheVars, worldVars
<1>4. CacheCoherent'
  BY DEF IInv, CacheCoherent, HasImage, Original, Cancel, imageVars, cacheVars, worldVars
<1>5. PreparedSaveFaithful'
  BY DEF IInv, PreparedSaveFaithful, BuildCurrent, Logical, Original, NoBuild, TypeOK, RevisionInv,
     Cancel, imageVars, cacheVars, worldVars
<1>6. UnchangedFaithful'
  BY DEF IInv, UnchangedFaithful, HasImage, Original, TypeOK, RevisionInv, Cancel, imageVars,
     cacheVars, worldVars
<1>7. VerifyFaithful'
  BY DEF IInv, VerifyFaithful, Logical, Original, NoHash, TypeOK, RevisionInv, Cancel, imageVars,
     cacheVars, worldVars
<1>8. ReadFaithful'
  BY DEF IInv, ReadFaithful, Logical, Original, Idle, NoCall, Cancel, imageVars, cacheVars,
     worldVars
<1>9. CallInv'
  BY DEF IInv, CallInv, Idle, NoCall, HasImage, Original, Logical, BuildCurrent, Cancel, imageVars,
     cacheVars, worldVars
<1>. QED
  BY <1>1, <1>2, <1>3, <1>4, <1>5, <1>6, <1>7, <1>8, <1>9 DEF IInv

\* A new engine has no disk.
LEMMA NewEnginePreserves ==
  ASSUME IInv, NewEngine
  PROVE  IInv'
<1>1. TypeOK'
  BY NoneTypes, EmptyMap DEF IInv, TypeOK, NewEngine, imageVars, cacheVars, worldVars
<1>2. RevisionInv'
  BY DEF IInv, RevisionInv, HasImage, TypeOK, NoBuild, NoHash, NewEngine, imageVars, cacheVars,
     worldVars
<1>3. StatesInv'
  BY DEF IInv, StatesInv, NewEngine, imageVars, cacheVars, worldVars
<1>4. CacheCoherent'
  BY DEF IInv, CacheCoherent, HasImage, Original, NewEngine, imageVars, cacheVars, worldVars
<1>5. PreparedSaveFaithful'
  BY DEF IInv, PreparedSaveFaithful, BuildCurrent, Logical, Original, NoBuild, TypeOK, RevisionInv,
     NewEngine, imageVars, cacheVars, worldVars
<1>6. UnchangedFaithful'
  BY DEF IInv, UnchangedFaithful, HasImage, Original, TypeOK, RevisionInv, NewEngine, imageVars,
     cacheVars, worldVars
<1>7. VerifyFaithful'
  BY DEF IInv, VerifyFaithful, Logical, Original, NoHash, TypeOK, RevisionInv, NewEngine, imageVars,
     cacheVars, worldVars
<1>8. ReadFaithful'
  BY DEF IInv, ReadFaithful, Logical, Original, Idle, NoCall, NewEngine, imageVars, cacheVars,
     worldVars
<1>9. CallInv'
  BY DEF IInv, CallInv, Idle, NoCall, HasImage, Original, Logical, BuildCurrent, NewEngine,
     imageVars, cacheVars, worldVars
<1>. QED
  BY <1>1, <1>2, <1>3, <1>4, <1>5, <1>6, <1>7, <1>8, <1>9 DEF IInv

\* A freed engine leaves nothing of itself.
LEMMA FreePreserves ==
  ASSUME IInv, Free
  PROVE  IInv'
<1>1. TypeOK'
  BY NoneTypes, EmptyMap DEF IInv, TypeOK, Free, EmptyCache, imageVars, cacheVars, worldVars
<1>2. RevisionInv'
  <2>1. call = NoCall
    BY DEF IInv, CallInv, Free
  <2>. QED
    BY <2>1 DEF IInv, RevisionInv, HasImage, TypeOK, NoBuild, NoHash, Free, worldVars
<1>3. StatesInv'
  BY DEF IInv, StatesInv, Free, EmptyCache, imageVars, cacheVars, worldVars
<1>4. CacheCoherent'
  BY EmptyMap DEF CacheCoherent, EmptyCache, Free
<1>5. PreparedSaveFaithful'
  BY DEF IInv, PreparedSaveFaithful, BuildCurrent, Logical, Original, NoBuild, TypeOK, RevisionInv,
     Free, EmptyCache, imageVars, cacheVars, worldVars
<1>6. UnchangedFaithful'
  BY DEF IInv, UnchangedFaithful, HasImage, Original, TypeOK, RevisionInv, Free, EmptyCache,
     imageVars, cacheVars, worldVars
<1>7. VerifyFaithful'
  BY DEF IInv, VerifyFaithful, Logical, Original, NoHash, TypeOK, RevisionInv, Free, EmptyCache,
     imageVars, cacheVars, worldVars
<1>8. ReadFaithful'
  BY DEF IInv, ReadFaithful, Logical, Original, Idle, NoCall, Free, EmptyCache, imageVars,
     cacheVars, worldVars
<1>9. CallInv'
  BY DEF IInv, CallInv, Idle, NoCall, HasImage, Original, Logical, BuildCurrent, Free, EmptyCache,
     imageVars, cacheVars, worldVars
<1>. QED
  BY <1>1, <1>2, <1>3, <1>4, <1>5, <1>6, <1>7, <1>8, <1>9 DEF IInv

\* begin_save starts its comparison at the first sector.
LEMMA BeginSavePreserves ==
  ASSUME IInv, BeginSave
  PROVE  IInv'
<1>1. TypeOK'
  <2>1. 0 \in Sectors /\ NSectors - 1 \in Sectors
    BY SizesAssumption DEF Sectors
  <2>2. call' \in CallType
    BY <2>1, StartedCall DEF BeginSave
  <2>. QED
    BY <2>2 DEF IInv, TypeOK, BeginSave, imageVars, cacheVars, worldVars
<1>2. RevisionInv'
  BY DEF IInv, RevisionInv, HasImage, TypeOK, NoBuild, NoHash, BeginSave, imageVars, cacheVars,
     worldVars
<1>3. StatesInv'
  BY DEF IInv, StatesInv, BeginSave, imageVars, cacheVars, worldVars
<1>4. CacheCoherent'
  BY DEF IInv, CacheCoherent, HasImage, Original, BeginSave, imageVars, cacheVars, worldVars
<1>5. PreparedSaveFaithful'
  BY DEF IInv, PreparedSaveFaithful, BuildCurrent, Logical, Original, NoBuild, TypeOK, RevisionInv,
     BeginSave, imageVars, cacheVars, worldVars
<1>6. UnchangedFaithful'
  BY DEF IInv, UnchangedFaithful, HasImage, Original, TypeOK, RevisionInv, BeginSave, imageVars,
     cacheVars, worldVars
<1>7. VerifyFaithful'
  BY DEF IInv, VerifyFaithful, Logical, Original, NoHash, TypeOK, RevisionInv, BeginSave, imageVars,
     cacheVars, worldVars
<1>8. ReadFaithful'
  <2>1. 0 \in Sectors /\ NSectors - 1 \in Sectors
    BY SizesAssumption DEF Sectors
  <2>2. call'.op = "begin_save" /\ call'.out = Empty /\ call'.lo = call'.pos /\ call'.pos \in Sectors
    BY <2>1, StartedCall DEF BeginSave
  <2>3. {s \in Sectors : call'.lo <= s /\ s < call'.pos} = {}
    BY <2>2, SizesAssumption DEF Sectors
  <2>. QED
    BY <2>2, <2>3, EmptyMap DEF ReadFaithful, RestrictTo, Empty
<1>9. CallInv'
  <2>1. 0 \in Sectors /\ NSectors - 1 \in Sectors /\ 0 <= NSectors - 1
    BY SizesAssumption DEF Sectors
  <2>2. /\ call'.op = "begin_save" /\ call'.buf = Empty /\ call'.put = FALSE
        /\ call'.lo = 0 /\ call'.hi = NSectors - 1 /\ call'.pos = 0
    BY <2>1, StartedCall DEF BeginSave
  <2>3. \A s \in DOMAIN dirty : ~(s < 0)
    BY SectorMapDef, SizesAssumption DEF IInv, TypeOK, Sectors
  <2>. QED
    BY <2>1, <2>2, <2>3, EmptyMap, SizesAssumption
    DEF IInv, CallInv, Idle, HasImage, Original, BuildCurrent, RevisionInv, Sectors, BeginSave,
       imageVars, cacheVars, worldVars
<1>. QED
  BY <1>1, <1>2, <1>3, <1>4, <1>5, <1>6, <1>7, <1>8, <1>9 DEF IInv

\* read starts with nothing copied.
LEMMA ReadPreserves ==
  ASSUME IInv, NEW lo \in Sectors, NEW hi \in Sectors, lo <= hi, Read(lo, hi)
  PROVE  IInv'
<1>1. TypeOK'
  <2>1. lo \in Sectors /\ hi \in Sectors
    OBVIOUS
  <2>2. call' \in CallType
    BY <2>1, StartedCall DEF Read
  <2>. QED
    BY <2>2 DEF IInv, TypeOK, Read, imageVars, cacheVars, worldVars
<1>2. RevisionInv'
  BY DEF IInv, RevisionInv, HasImage, TypeOK, NoBuild, NoHash, Read, imageVars, cacheVars, worldVars
<1>3. StatesInv'
  BY DEF IInv, StatesInv, Read, imageVars, cacheVars, worldVars
<1>4. CacheCoherent'
  BY DEF IInv, CacheCoherent, HasImage, Original, Read, imageVars, cacheVars, worldVars
<1>5. PreparedSaveFaithful'
  BY DEF IInv, PreparedSaveFaithful, BuildCurrent, Logical, Original, NoBuild, TypeOK, RevisionInv,
     Read, imageVars, cacheVars, worldVars
<1>6. UnchangedFaithful'
  BY DEF IInv, UnchangedFaithful, HasImage, Original, TypeOK, RevisionInv, Read, imageVars,
     cacheVars, worldVars
<1>7. VerifyFaithful'
  BY DEF IInv, VerifyFaithful, Logical, Original, NoHash, TypeOK, RevisionInv, Read, imageVars,
     cacheVars, worldVars
<1>8. ReadFaithful'
  <2>1. lo \in Sectors /\ hi \in Sectors
    OBVIOUS
  <2>2. call'.op = "read" /\ call'.out = Empty /\ call'.lo = call'.pos /\ call'.pos \in Sectors
    BY <2>1, StartedCall DEF Read
  <2>3. {s \in Sectors : call'.lo <= s /\ s < call'.pos} = {}
    BY <2>2, SizesAssumption DEF Sectors
  <2>. QED
    BY <2>2, <2>3, EmptyMap DEF ReadFaithful, RestrictTo, Empty
<1>9. CallInv'
  <2>1. lo \in Sectors /\ hi \in Sectors /\ lo <= hi
    OBVIOUS
  <2>2. /\ call'.op = "read" /\ call'.buf = Empty /\ call'.put = FALSE
        /\ call'.lo = lo /\ call'.hi = hi /\ call'.pos = lo
    BY <2>1, StartedCall DEF Read
  <2>. QED
    BY <2>1, <2>2, EmptyMap, SizesAssumption
    DEF IInv, CallInv, Idle, HasImage, Original, BuildCurrent, RevisionInv, Sectors, Read,
       imageVars, cacheVars, worldVars
<1>. QED
  BY <1>1, <1>2, <1>3, <1>4, <1>5, <1>6, <1>7, <1>8, <1>9 DEF IInv

\* verify_step reads exactly the chunk the hash has reached.
LEMMA VerifyStepPreserves ==
  ASSUME IInv, VerifyStep
  PROVE  IInv'
<1>1. TypeOK'
  <2>1. FirstOf(hash.index) \in Sectors /\ LastOf(hash.index) \in Sectors
    BY IndexInChunks, ChunkExtent DEF IInv, TypeOK, VerifyStep
  <2>2. call' \in CallType
    BY <2>1, StartedCall DEF VerifyStep
  <2>. QED
    BY <2>2 DEF IInv, TypeOK, VerifyStep, imageVars, cacheVars, worldVars
<1>2. RevisionInv'
  BY DEF IInv, RevisionInv, HasImage, TypeOK, NoBuild, NoHash, VerifyStep, imageVars, cacheVars,
     worldVars
<1>3. StatesInv'
  BY DEF IInv, StatesInv, VerifyStep, imageVars, cacheVars, worldVars
<1>4. CacheCoherent'
  BY DEF IInv, CacheCoherent, HasImage, Original, VerifyStep, imageVars, cacheVars, worldVars
<1>5. PreparedSaveFaithful'
  BY DEF IInv, PreparedSaveFaithful, BuildCurrent, Logical, Original, NoBuild, TypeOK, RevisionInv,
     VerifyStep, imageVars, cacheVars, worldVars
<1>6. UnchangedFaithful'
  BY DEF IInv, UnchangedFaithful, HasImage, Original, TypeOK, RevisionInv, VerifyStep, imageVars,
     cacheVars, worldVars
<1>7. VerifyFaithful'
  BY DEF IInv, VerifyFaithful, Logical, Original, NoHash, TypeOK, RevisionInv, VerifyStep,
     imageVars, cacheVars, worldVars
<1>8. ReadFaithful'
  <2>1. FirstOf(hash.index) \in Sectors /\ LastOf(hash.index) \in Sectors
    BY IndexInChunks, ChunkExtent DEF IInv, TypeOK, VerifyStep
  <2>2. call'.op = "verify" /\ call'.out = Empty /\ call'.lo = call'.pos /\ call'.pos \in Sectors
    BY <2>1, StartedCall DEF VerifyStep
  <2>3. {s \in Sectors : call'.lo <= s /\ s < call'.pos} = {}
    BY <2>2, SizesAssumption DEF Sectors
  <2>. QED
    BY <2>2, <2>3, EmptyMap DEF ReadFaithful, RestrictTo, Empty
<1>9. CallInv'
  <2>1. FirstOf(hash.index) \in Sectors /\ LastOf(hash.index) \in Sectors /\ FirstOf(hash.index) <= LastOf(hash.index)
    BY IndexInChunks, ChunkExtent DEF IInv, TypeOK, VerifyStep
  <2>2. /\ call'.op = "verify" /\ call'.buf = Empty /\ call'.put = FALSE
        /\ call'.lo = FirstOf(hash.index) /\ call'.hi = LastOf(hash.index) /\ call'.pos = FirstOf(hash.index)
    BY <2>1, StartedCall DEF VerifyStep
  <2>3. /\ HasImage' /\ hash'.active /\ hash'.revision = revision' /\ hash'.index \in Chunks
        /\ hash' = hash
    BY IndexInChunks DEF IInv, TypeOK, RevisionInv, HasImage, VerifyStep, imageVars, cacheVars, worldVars
  <2>4. call'.lo <= call'.pos /\ call'.pos <= call'.hi + 1
    BY <2>1, <2>2, SizesAssumption DEF Sectors
  <2>. QED
    BY <2>2, <2>3, <2>4, EmptyMap DEF CallInv, Idle
<1>. QED
  BY <1>1, <1>2, <1>3, <1>4, <1>5, <1>6, <1>7, <1>8, <1>9 DEF IInv

\* The digest leaves the engine.
LEMMA VerifyDeliversPreserves ==
  ASSUME IInv, VerifyDelivers
  PROVE  IInv'
<1>1. TypeOK'
  BY NoneTypes, EmptyMap DEF IInv, TypeOK, VerifyDelivers, imageVars, cacheVars, worldVars
<1>2. RevisionInv'
  BY DEF IInv, RevisionInv, HasImage, TypeOK, NoBuild, NoHash, VerifyDelivers, imageVars, cacheVars,
     worldVars
<1>3. StatesInv'
  BY DEF IInv, StatesInv, VerifyDelivers, imageVars, cacheVars, worldVars
<1>4. CacheCoherent'
  BY DEF IInv, CacheCoherent, HasImage, Original, VerifyDelivers, imageVars, cacheVars, worldVars
<1>5. PreparedSaveFaithful'
  BY DEF IInv, PreparedSaveFaithful, BuildCurrent, Logical, Original, NoBuild, TypeOK, RevisionInv,
     VerifyDelivers, imageVars, cacheVars, worldVars
<1>6. UnchangedFaithful'
  BY DEF IInv, UnchangedFaithful, HasImage, Original, TypeOK, RevisionInv, VerifyDelivers,
     imageVars, cacheVars, worldVars
<1>7. VerifyFaithful'
  BY DEF IInv, VerifyFaithful, Logical, Original, NoHash, TypeOK, RevisionInv, VerifyDelivers,
     imageVars, cacheVars, worldVars
<1>8. ReadFaithful'
  BY DEF IInv, ReadFaithful, Logical, Original, Idle, NoCall, VerifyDelivers, imageVars, cacheVars,
     worldVars
<1>9. CallInv'
  BY DEF IInv, CallInv, Idle, NoCall, HasImage, Original, Logical, BuildCurrent, VerifyDelivers,
     imageVars, cacheVars, worldVars
<1>. QED
  BY <1>1, <1>2, <1>3, <1>4, <1>5, <1>6, <1>7, <1>8, <1>9 DEF IInv

\* An empty cache is coherent, and no contents depend on it.
LEMMA ClearCachePreserves ==
  ASSUME IInv, ClearCache
  PROVE  IInv'
<1>1. TypeOK'
  BY NoneTypes, EmptyMap DEF IInv, TypeOK, ClearCache, EmptyCache, imageVars, cacheVars, worldVars
<1>2. RevisionInv'
  BY DEF IInv, RevisionInv, HasImage, TypeOK, NoBuild, NoHash, ClearCache, EmptyCache, imageVars,
     cacheVars, worldVars
<1>3. StatesInv'
  BY DEF IInv, StatesInv, ClearCache, EmptyCache, imageVars, cacheVars, worldVars
<1>4. CacheCoherent'
  BY EmptyMap DEF CacheCoherent, EmptyCache, ClearCache
<1>5. PreparedSaveFaithful'
  BY DEF IInv, PreparedSaveFaithful, BuildCurrent, Logical, Original, NoBuild, TypeOK, RevisionInv,
     ClearCache, EmptyCache, imageVars, cacheVars, worldVars
<1>6. UnchangedFaithful'
  BY DEF IInv, UnchangedFaithful, HasImage, Original, TypeOK, RevisionInv, ClearCache, EmptyCache,
     imageVars, cacheVars, worldVars
<1>7. VerifyFaithful'
  BY DEF IInv, VerifyFaithful, Logical, Original, NoHash, TypeOK, RevisionInv, ClearCache,
     EmptyCache, imageVars, cacheVars, worldVars
<1>8. ReadFaithful'
  BY DEF IInv, ReadFaithful, Logical, Original, Idle, NoCall, ClearCache, EmptyCache, imageVars,
     cacheVars, worldVars
<1>9. CallInv'
  BY DEF IInv, CallInv, Idle, NoCall, HasImage, Original, Logical, BuildCurrent, ClearCache,
     EmptyCache, imageVars, cacheVars, worldVars
<1>. QED
  BY <1>1, <1>2, <1>3, <1>4, <1>5, <1>6, <1>7, <1>8, <1>9 DEF IInv

\* Discarding pending sectors makes every preparation go away.
LEMMA DiscardPreserves ==
  ASSUME IInv, Discard
  PROVE  IInv'
<1>1. TypeOK'
  <2>1. /\ revision' \in Nat /\ unchanged' = -1 /\ dirty' \in SectorMap
        /\ build' = NoBuild /\ hash' = NoHash
        /\ UNCHANGED <<identity, source, cached, older, bytes, call, files, states>>
    BY EmptyMap DEF IInv, TypeOK, Discard, Bump, cacheVars, worldVars
  <2>. QED
    BY <2>1, NoneTypes DEF IInv, TypeOK
<1>2. RevisionInv'
  BY DEF IInv, RevisionInv, HasImage, TypeOK, NoBuild, NoHash, Discard, Bump, imageVars, cacheVars,
     worldVars
<1>3. StatesInv'
  BY DEF IInv, StatesInv, Discard, Bump, imageVars, cacheVars, worldVars
<1>4. CacheCoherent'
  BY DEF IInv, CacheCoherent, HasImage, Original, Discard, Bump, imageVars, cacheVars, worldVars
<1>5. PreparedSaveFaithful'
  BY DEF IInv, PreparedSaveFaithful, BuildCurrent, Logical, Original, NoBuild, TypeOK, RevisionInv,
     Discard, Bump, imageVars, cacheVars, worldVars
<1>6. UnchangedFaithful'
  BY DEF IInv, UnchangedFaithful, HasImage, Original, TypeOK, RevisionInv, Discard, Bump, imageVars,
     cacheVars, worldVars
<1>7. VerifyFaithful'
  BY DEF IInv, VerifyFaithful, Logical, Original, NoHash, TypeOK, RevisionInv, Discard, Bump,
     imageVars, cacheVars, worldVars
<1>8. ReadFaithful'
  BY DEF IInv, ReadFaithful, Logical, Original, Idle, NoCall, Discard, Bump, imageVars, cacheVars,
     worldVars
<1>9. CallInv'
  BY DEF IInv, CallInv, Idle, NoCall, HasImage, Original, Logical, BuildCurrent, Discard, Bump,
     imageVars, cacheVars, worldVars
<1>. QED
  BY <1>1, <1>2, <1>3, <1>4, <1>5, <1>6, <1>7, <1>8, <1>9 DEF IInv

\* A cache hit hands the call the authenticated chunk.
LEMMA OriginalHitPreserves ==
  ASSUME IInv, OriginalHit
  PROVE  IInv'
<1>1. TypeOK'
  <2>1. ChunkOf(call.pos) \in Chunks
    BY ChunkOfSector, NeededSector DEF OriginalHit
  <2>2. call' \in CallType
    BY DEF IInv, TypeOK, CallType, OriginalHit
  <2>3. older' \subseteq Chunks \X Chunks
    BY <2>1 DEF IInv, TypeOK, OriginalHit, Touch
  <2>. QED
    BY <2>2, <2>3 DEF IInv, TypeOK, OriginalHit, imageVars, worldVars
<1>2. RevisionInv'
  <2>1. identity # "none"
    BY RunningEngine DEF Idle, NeedsOriginal, OriginalHit
  <2>. QED
    BY <2>1 DEF IInv, RevisionInv, HasImage, TypeOK, OriginalHit, imageVars, worldVars
<1>3. StatesInv'
  BY DEF IInv, StatesInv, OriginalHit, imageVars, cacheVars, worldVars
<1>4. CacheCoherent'
  BY DEF IInv, CacheCoherent, HasImage, Original, OriginalHit, imageVars, cacheVars, worldVars
<1>5. PreparedSaveFaithful'
  BY DEF IInv, PreparedSaveFaithful, BuildCurrent, Logical, Original, NoBuild, TypeOK, RevisionInv,
     OriginalHit, imageVars, cacheVars, worldVars
<1>6. UnchangedFaithful'
  BY DEF IInv, UnchangedFaithful, HasImage, Original, TypeOK, RevisionInv, OriginalHit, imageVars,
     cacheVars, worldVars
<1>7. VerifyFaithful'
  BY DEF IInv, VerifyFaithful, Logical, Original, NoHash, TypeOK, RevisionInv, OriginalHit,
     imageVars, cacheVars, worldVars
<1>8. ReadFaithful'
  BY DEF IInv, ReadFaithful, Logical, Original, TypeOK, CallType, OriginalHit, imageVars, worldVars
<1>9. CallInv'
  <2>1. HasImage /\ ChunkOf(call.pos) \in Chunks
    BY ChunkOfSector, NeededSector DEF OriginalHit
  <2>2. call'.buf = RestrictTo(Original, SectorsOf(ChunkOf(call.pos)))
    BY DEF IInv, TypeOK, CallType, CacheCoherent, OriginalHit
  <2>3. \A s \in DOMAIN call'.buf : call'.buf[s] = Original[s]
    BY <2>2 DEF RestrictTo
  <2>. QED
    BY <2>2, <2>3
    DEF IInv, TypeOK, CallType, CallInv, Idle, HasImage, Original, Logical, BuildCurrent,
        NeedsOriginal, OriginalHit, imageVars, worldVars
<1>. QED
  BY <1>1, <1>2, <1>3, <1>4, <1>5, <1>6, <1>7, <1>8, <1>9 DEF IInv

\* A fetched record is the chunk of the open file.
LEMMA OriginalFetchPreserves ==
  ASSUME IInv, OriginalFetch
  PROVE  IInv'
<1>1. TypeOK'
  <2>1. HasImage /\ ChunkOf(call.pos) \in Chunks
    BY ChunkOfSector, NeededSector DEF OriginalFetch
  <2>2. RestrictTo(Original, SectorsOf(ChunkOf(call.pos))) \in SectorMap
    BY <2>1, ImageTypes, ChunkExtent, RestrictMap DEF IInv
  <2>. QED
    BY <2>2 DEF IInv, TypeOK, CallType, OriginalFetch, imageVars, cacheVars, worldVars
<1>2. RevisionInv'
  <2>1. identity # "none"
    BY RunningEngine DEF Idle, NeedsOriginal, OriginalFetch
  <2>. QED
    BY <2>1 DEF IInv, RevisionInv, HasImage, TypeOK, OriginalFetch, imageVars, worldVars
<1>3. StatesInv'
  BY DEF IInv, StatesInv, OriginalFetch, imageVars, cacheVars, worldVars
<1>4. CacheCoherent'
  BY DEF IInv, CacheCoherent, HasImage, Original, OriginalFetch, imageVars, cacheVars, worldVars
<1>5. PreparedSaveFaithful'
  BY DEF IInv, PreparedSaveFaithful, BuildCurrent, Logical, Original, NoBuild, TypeOK, RevisionInv,
     OriginalFetch, imageVars, cacheVars, worldVars
<1>6. UnchangedFaithful'
  BY DEF IInv, UnchangedFaithful, HasImage, Original, TypeOK, RevisionInv, OriginalFetch, imageVars,
     cacheVars, worldVars
<1>7. VerifyFaithful'
  BY DEF IInv, VerifyFaithful, Logical, Original, NoHash, TypeOK, RevisionInv, OriginalFetch,
     imageVars, cacheVars, worldVars
<1>8. ReadFaithful'
  BY DEF IInv, ReadFaithful, Logical, Original, TypeOK, CallType, OriginalFetch, imageVars,
     worldVars
<1>9. CallInv'
  <2>1. HasImage /\ ChunkOf(call.pos) \in Chunks /\ call.pos \in SectorsOf(ChunkOf(call.pos))
    BY ChunkOfSector, NeededSector DEF OriginalFetch
  <2>2. call'.buf = RestrictTo(Original, SectorsOf(ChunkOf(call.pos)))
    BY DEF IInv, TypeOK, CallType, OriginalFetch
  <2>3. \A s \in DOMAIN call'.buf : call'.buf[s] = Original[s]
    BY <2>2 DEF RestrictTo
  <2>4. call'.buf # Empty
    BY <2>1, <2>2, EmptyMap DEF RestrictTo
  <2>. QED
    BY <2>2, <2>3, <2>4
    DEF IInv, TypeOK, CallType, CallInv, Idle, HasImage, Original, Logical, BuildCurrent,
        NeedsOriginal, OriginalFetch, imageVars, worldVars
<1>. QED
  BY <1>1, <1>2, <1>3, <1>4, <1>5, <1>6, <1>7, <1>8, <1>9 DEF IInv

\* Eviction only shrinks the cache.
LEMMA CacheEvictPreserves ==
  ASSUME IInv, CacheEvict
  PROVE  IInv'
<1>1. TypeOK'
  <2>1. PICK k \in DOMAIN cached :
          /\ cached' = RestrictTo(cached, DOMAIN cached \ {k})
          /\ older' = {p \in older : p[1] # k /\ p[2] # k}
          /\ bytes' = bytes - LenOf(k)
    BY DEF CacheEvict
  <2>2. bytes' \in Int
    BY <2>1, ChunkExtent DEF IInv, TypeOK
  <2>3. DOMAIN cached' \subseteq Chunks /\ cached' \in [DOMAIN cached' -> SectorMap]
    BY <2>1 DEF IInv, TypeOK, RestrictTo
  <2>. QED
    BY <2>1, <2>2, <2>3 DEF IInv, TypeOK, CacheEvict, imageVars, worldVars
<1>2. RevisionInv'
  BY DEF IInv, RevisionInv, HasImage, TypeOK, NoBuild, NoHash, CacheEvict, imageVars, cacheVars,
     worldVars
<1>3. StatesInv'
  BY DEF IInv, StatesInv, CacheEvict, imageVars, cacheVars, worldVars
<1>4. CacheCoherent'
  BY DEF IInv, CacheCoherent, HasImage, Original, RestrictTo, CacheEvict, imageVars, worldVars
<1>5. PreparedSaveFaithful'
  BY DEF IInv, PreparedSaveFaithful, BuildCurrent, Logical, Original, NoBuild, TypeOK, RevisionInv,
     CacheEvict, imageVars, cacheVars, worldVars
<1>6. UnchangedFaithful'
  BY DEF IInv, UnchangedFaithful, HasImage, Original, TypeOK, RevisionInv, CacheEvict, imageVars,
     cacheVars, worldVars
<1>7. VerifyFaithful'
  BY DEF IInv, VerifyFaithful, Logical, Original, NoHash, TypeOK, RevisionInv, CacheEvict,
     imageVars, cacheVars, worldVars
<1>8. ReadFaithful'
  BY DEF IInv, ReadFaithful, Logical, Original, Idle, NoCall, CacheEvict, imageVars, cacheVars,
     worldVars
<1>9. CallInv'
  BY DEF IInv, CallInv, Idle, NoCall, HasImage, Original, Logical, BuildCurrent, CacheEvict,
     imageVars, cacheVars, worldVars
<1>. QED
  BY <1>1, <1>2, <1>3, <1>4, <1>5, <1>6, <1>7, <1>8, <1>9 DEF IInv

\* The chunk put in the cache is the one just authenticated.
LEMMA CachePutPreserves ==
  ASSUME IInv, CachePut
  PROVE  IInv'
<1>1. TypeOK'
  <2>1. ChunkOf(call.pos) \in Chunks
    BY ChunkOfSector, PutSector DEF CachePut
  <2>2. call' \in CallType
    BY DEF IInv, TypeOK, CallType, CachePut
  <2>3. older' \subseteq Chunks \X Chunks
    BY <2>1 DEF IInv, TypeOK, CachePut, Touch
  <2>4. DOMAIN cached' \subseteq Chunks /\ cached' \in [DOMAIN cached' -> SectorMap]
    BY <2>1 DEF IInv, TypeOK, CallType, CachePut
  <2>5. bytes' \in Int
    BY <2>1, ChunkExtent DEF IInv, TypeOK, CachePut
  <2>. QED
    BY <2>2, <2>3, <2>4, <2>5 DEF IInv, TypeOK, CachePut, imageVars, worldVars
<1>2. RevisionInv'
  <2>1. identity # "none"
    BY RunningEngine DEF Idle, NeedsOriginal, CachePut
  <2>. QED
    BY <2>1 DEF IInv, RevisionInv, HasImage, TypeOK, CachePut, imageVars, worldVars
<1>3. StatesInv'
  BY DEF IInv, StatesInv, CachePut, imageVars, cacheVars, worldVars
<1>4. CacheCoherent'
  <2>1. HasImage /\ call.buf = RestrictTo(Original, SectorsOf(ChunkOf(call.pos)))
    BY PutSector DEF CachePut
  <2>. QED
    BY <2>1 DEF IInv, CacheCoherent, HasImage, Original, CachePut, imageVars, worldVars
<1>5. PreparedSaveFaithful'
  BY DEF IInv, PreparedSaveFaithful, BuildCurrent, Logical, Original, NoBuild, TypeOK, RevisionInv,
     CachePut, imageVars, cacheVars, worldVars
<1>6. UnchangedFaithful'
  BY DEF IInv, UnchangedFaithful, HasImage, Original, TypeOK, RevisionInv, CachePut, imageVars,
     cacheVars, worldVars
<1>7. VerifyFaithful'
  BY DEF IInv, VerifyFaithful, Logical, Original, NoHash, TypeOK, RevisionInv, CachePut, imageVars,
     cacheVars, worldVars
<1>8. ReadFaithful'
  BY DEF IInv, ReadFaithful, Logical, Original, TypeOK, CallType, CachePut, imageVars, worldVars
<1>9. CallInv'
  <2>1. ~Idle /\ call.put
    BY PutSector, NoneTypes DEF IInv, CallInv, CachePut
  <2>2. /\ call'.op = call.op /\ call'.lo = call.lo /\ call'.hi = call.hi /\ call'.pos = call.pos
        /\ call'.req = call.req /\ call'.out = call.out /\ call'.buf = call.buf
        /\ call'.changed = call.changed /\ call'.put = FALSE
    BY DEF IInv, TypeOK, CallType, CachePut
  <2>. QED
    BY <2>1, <2>2
    DEF IInv, CallInv, Idle, HasImage, Original, Logical, BuildCurrent,
        CachePut, imageVars, worldVars
<1>. QED
  BY <1>1, <1>2, <1>3, <1>4, <1>5, <1>6, <1>7, <1>8, <1>9 DEF IInv

\* A verification starts with nothing hashed.
LEMMA VerifyStartPreserves ==
  ASSUME IInv, VerifyStart
  PROVE  IInv'
<1>1. TypeOK'
  <2>1. hash' \in [active : BOOLEAN, index : 0 .. NChunks, revision : Nat, acc : SectorMap]
    BY EmptyMap, ChunkBounds DEF IInv, TypeOK, VerifyStart
  <2>. QED
    BY <2>1 DEF IInv, TypeOK, VerifyStart, imageVars, cacheVars, worldVars
<1>2. RevisionInv'
  BY DEF IInv, RevisionInv, HasImage, TypeOK, NoBuild, NoHash, VerifyStart, imageVars, cacheVars,
     worldVars
<1>3. StatesInv'
  BY DEF IInv, StatesInv, VerifyStart, imageVars, cacheVars, worldVars
<1>4. CacheCoherent'
  BY DEF IInv, CacheCoherent, HasImage, Original, VerifyStart, imageVars, cacheVars, worldVars
<1>5. PreparedSaveFaithful'
  BY DEF IInv, PreparedSaveFaithful, BuildCurrent, Logical, Original, NoBuild, TypeOK, RevisionInv,
     VerifyStart, imageVars, cacheVars, worldVars
<1>6. UnchangedFaithful'
  BY DEF IInv, UnchangedFaithful, HasImage, Original, TypeOK, RevisionInv, VerifyStart, imageVars,
     cacheVars, worldVars
<1>7. VerifyFaithful'
  <2>1. hash'.acc = Empty /\ hash'.index = 0
    BY DEF VerifyStart
  <2>2. Prefix(0) = {}
    BY ChunkBounds, SizesAssumption DEF Prefix, Sectors
  <2>. QED
    BY <2>1, <2>2, EmptyMap DEF VerifyFaithful, RestrictTo, Empty
<1>8. ReadFaithful'
  BY DEF IInv, ReadFaithful, Logical, Original, Idle, NoCall, VerifyStart, imageVars, cacheVars,
     worldVars
<1>9. CallInv'
  BY DEF IInv, CallInv, Idle, NoCall, HasImage, Original, Logical, BuildCurrent, VerifyStart,
     imageVars, cacheVars, worldVars
<1>. QED
  BY <1>1, <1>2, <1>3, <1>4, <1>5, <1>6, <1>7, <1>8, <1>9 DEF IInv

\* A creation starts with no record handed out.
LEMMA BeginCreatePreserves ==
  ASSUME IInv, NEW raw \in RawImages, BeginCreate(raw)
  PROVE  IInv'
<1>1. TypeOK'
  <2>1. build' \in [active : BOOLEAN, raw : RawImages \cup {NULL}, index : 0 .. NChunks,
                     revision : Nat, parts : SectorMap]
    BY EmptyMap, ChunkBounds DEF IInv, TypeOK, BeginCreate, BeginBuild
  <2>. QED
    BY <2>1 DEF IInv, TypeOK, BeginCreate, imageVars, cacheVars, worldVars
<1>2. RevisionInv'
  <2>1. raw # NULL
    BY NullAssumption, EngineAssumption
  <2>. QED
    BY <2>1 DEF IInv, RevisionInv, TypeOK, HasImage, BeginCreate, BeginBuild, imageVars, worldVars
<1>3. StatesInv'
  BY DEF IInv, StatesInv, BeginCreate, BeginBuild, imageVars, cacheVars, worldVars
<1>4. CacheCoherent'
  BY DEF IInv, CacheCoherent, HasImage, Original, BeginCreate, BeginBuild, imageVars, cacheVars,
     worldVars
<1>5. PreparedSaveFaithful'
  <2>1. build'.parts = Empty /\ build'.index = 0
    BY DEF BeginCreate, BeginBuild
  <2>2. Prefix(0) = {}
    BY ChunkBounds, SizesAssumption DEF Prefix, Sectors
  <2>. QED
    BY <2>1, <2>2, EmptyMap DEF PreparedSaveFaithful, RestrictTo, Empty
<1>6. UnchangedFaithful'
  BY DEF IInv, UnchangedFaithful, HasImage, Original, TypeOK, RevisionInv, BeginCreate, BeginBuild,
     imageVars, cacheVars, worldVars
<1>7. VerifyFaithful'
  BY DEF IInv, VerifyFaithful, Logical, Original, NoHash, TypeOK, RevisionInv, BeginCreate,
     BeginBuild, imageVars, cacheVars, worldVars
<1>8. ReadFaithful'
  BY DEF IInv, ReadFaithful, Logical, Original, Idle, NoCall, BeginCreate, BeginBuild, imageVars,
     cacheVars, worldVars
<1>9. CallInv'
  BY DEF IInv, CallInv, Idle, NoCall, HasImage, Original, Logical, BuildCurrent, BeginCreate,
     BeginBuild, imageVars, cacheVars, worldVars
<1>. QED
  BY <1>1, <1>2, <1>3, <1>4, <1>5, <1>6, <1>7, <1>8, <1>9 DEF IInv

\* begin_save has compared every pending sector by now.
LEMMA BeginSaveReturnsPreserves ==
  ASSUME IInv, BeginSaveReturns
  PROVE  IInv'
<1>1. TypeOK'
  <2>1. CASE call.changed
    <3>1. build' = [active |-> TRUE, raw |-> NULL, index |-> 0, revision |-> revision, parts |-> Empty]
          /\ unchanged' = unchanged
      BY <2>1 DEF BeginSaveReturns, BeginBuild
    <3>2. build' \in [active : BOOLEAN, raw : RawImages \cup {NULL}, index : 0 .. NChunks,
                     revision : Nat, parts : SectorMap]
      BY <3>1, EmptyMap, ChunkBounds DEF IInv, TypeOK
    <3>. QED
      BY <3>1, <3>2, NoneTypes DEF IInv, TypeOK, BeginSaveReturns, imageVars, cacheVars, worldVars
  <2>2. CASE ~call.changed
    BY <2>2, NoneTypes DEF IInv, TypeOK, BeginSaveReturns, imageVars, cacheVars, worldVars
  <2>. QED
    BY <2>1, <2>2
<1>2. RevisionInv'
  <2>1. HasImage
    BY DEF IInv, CallInv, Idle, BeginSaveReturns
  <2>2. identity = "owner"
    BY DEF IInv, CallInv, Idle, BeginSaveReturns
  <2>. QED
    BY <2>1, <2>2 DEF IInv, RevisionInv, TypeOK, HasImage, BeginSaveReturns, BeginBuild,
       imageVars, worldVars
<1>3. StatesInv'
  BY DEF IInv, StatesInv, BeginSaveReturns, imageVars, cacheVars, worldVars
<1>4. CacheCoherent'
  BY DEF IInv, CacheCoherent, HasImage, Original, BeginSaveReturns, imageVars, cacheVars, worldVars
<1>5. PreparedSaveFaithful'
  <2>1. CASE call.changed
    <3>1. build'.parts = Empty /\ build'.index = 0
      BY <2>1 DEF BeginSaveReturns, BeginBuild
    <3>2. Prefix(0) = {}
      BY ChunkBounds, SizesAssumption DEF Prefix, Sectors
    <3>. QED
      BY <3>1, <3>2, EmptyMap DEF PreparedSaveFaithful, RestrictTo, Empty
  <2>2. CASE ~call.changed
    BY <2>2 DEF IInv, PreparedSaveFaithful, BuildCurrent, Logical, Original,
       BeginSaveReturns, imageVars, worldVars
  <2>. QED
    BY <2>1, <2>2
<1>6. UnchangedFaithful'
  <2>1. HasImage /\ call.hi = NSectors - 1
        /\ (~call.changed => \A s \in DOMAIN dirty : s < call.pos => dirty[s] = Original[s])
    BY DEF IInv, CallInv, Idle, BeginSaveReturns
  <2>2. \A s \in DOMAIN dirty : s < call.pos
    BY <2>1, SectorMapDef, SizesAssumption DEF IInv, TypeOK, CallType, Sectors, BeginSaveReturns
  <2>. QED
    BY <2>1, <2>2 DEF IInv, UnchangedFaithful, HasImage, Original, BeginSaveReturns, imageVars,
       worldVars
<1>7. VerifyFaithful'
  BY DEF IInv, VerifyFaithful, Logical, Original, NoHash, TypeOK, RevisionInv, BeginSaveReturns,
     imageVars, cacheVars, worldVars
<1>8. ReadFaithful'
  BY DEF IInv, ReadFaithful, Logical, Original, Idle, NoCall, BeginSaveReturns, imageVars,
     cacheVars, worldVars
<1>9. CallInv'
  BY DEF IInv, CallInv, Idle, NoCall, HasImage, Original, Logical, BuildCurrent, BeginSaveReturns,
     imageVars, cacheVars, worldVars
<1>. QED
  BY <1>1, <1>2, <1>3, <1>4, <1>5, <1>6, <1>7, <1>8, <1>9 DEF IInv

\* Pending sectors equal to the file's are dropped unseen.
LEMMA AcceptUnchangedPreserves ==
  ASSUME IInv, AcceptUnchanged
  PROVE  IInv'
<1>1. TypeOK'
  BY NoneTypes, EmptyMap DEF IInv, TypeOK, AcceptUnchanged, imageVars, cacheVars, worldVars
<1>2. RevisionInv'
  BY DEF IInv, RevisionInv, TypeOK, HasImage, AcceptUnchanged, worldVars
<1>3. StatesInv'
  BY DEF IInv, StatesInv, AcceptUnchanged, imageVars, cacheVars, worldVars
<1>4. CacheCoherent'
  BY DEF IInv, CacheCoherent, HasImage, Original, AcceptUnchanged, imageVars, cacheVars, worldVars
<1>5. PreparedSaveFaithful'
  BY UnchangedKeepsLogical DEF IInv, PreparedSaveFaithful, BuildCurrent, AcceptUnchanged
<1>6. UnchangedFaithful'
  BY DEF IInv, UnchangedFaithful, HasImage, Original, TypeOK, RevisionInv, AcceptUnchanged,
     imageVars, cacheVars, worldVars
<1>7. VerifyFaithful'
  BY UnchangedKeepsLogical DEF IInv, VerifyFaithful, AcceptUnchanged
<1>8. ReadFaithful'
  BY DEF IInv, ReadFaithful, Logical, Original, Idle, NoCall, AcceptUnchanged, imageVars, cacheVars,
     worldVars
<1>9. CallInv'
  BY DEF IInv, CallInv, Idle, NoCall, HasImage, Original, Logical, BuildCurrent, AcceptUnchanged,
     imageVars, cacheVars, worldVars
<1>. QED
  BY <1>1, <1>2, <1>3, <1>4, <1>5, <1>6, <1>7, <1>8, <1>9 DEF IInv

\* One pass of the read loop; see ReadSpanCopies.
LEMMA ReadSpanPreserves ==
  ASSUME IInv, ReadSpan
  PROVE  IInv'
<1>1. TypeOK'
  BY ReadSpanCopies DEF IInv, TypeOK, ReadSpan, imageVars, cacheVars, worldVars
<1>2. RevisionInv'
  <2>1. identity # "none"
    BY RunningEngine DEF Idle, NeedsOriginal, ReadSpan
  <2>. QED
    BY <2>1 DEF IInv, RevisionInv, HasImage, TypeOK, ReadSpan, imageVars, worldVars
<1>3. StatesInv'
  BY DEF IInv, StatesInv, ReadSpan, imageVars, cacheVars, worldVars
<1>4. CacheCoherent'
  BY DEF IInv, CacheCoherent, HasImage, Original, ReadSpan, imageVars, cacheVars, worldVars
<1>5. PreparedSaveFaithful'
  BY DEF IInv, PreparedSaveFaithful, BuildCurrent, Logical, Original, NoBuild, TypeOK, RevisionInv,
     ReadSpan, imageVars, cacheVars, worldVars
<1>6. UnchangedFaithful'
  BY DEF IInv, UnchangedFaithful, HasImage, Original, TypeOK, RevisionInv, ReadSpan, imageVars,
     cacheVars, worldVars
<1>7. VerifyFaithful'
  BY DEF IInv, VerifyFaithful, Logical, Original, NoHash, TypeOK, RevisionInv, ReadSpan, imageVars,
     cacheVars, worldVars
<1>8. ReadFaithful'
  BY ReadSpanCopies DEF ReadFaithful
<1>9. CallInv'
  BY ReadSpanCopies, EmptyMap
  DEF IInv, CallInv, Idle, HasImage, Original, Logical, BuildCurrent, ReadSpan, imageVars, worldVars
<1>. QED
  BY <1>1, <1>2, <1>3, <1>4, <1>5, <1>6, <1>7, <1>8, <1>9 DEF IInv

\* One more pending sector compared with the file's.
LEMMA CompareSectorPreserves ==
  ASSUME IInv, CompareSector
  PROVE  IInv'
<1>1. TypeOK'
  <2>1. /\ call.pos \in 0 .. NSectors /\ call.hi \in Sectors /\ call.pos <= call.hi
        /\ call.changed \in BOOLEAN
    BY DEF IInv, TypeOK, CallType, CompareSector
  <2>2. call.pos + 1 \in 0 .. NSectors
    BY <2>1, SizesAssumption DEF Sectors
  <2>3. Differs \in BOOLEAN
    BY <2>1, Zenon DEF Differs
  <2>4. call \in CallType
    BY DEF IInv, TypeOK
  <2>5. \/ call' = [call EXCEPT !.pos = call.pos + 1]
        \/ call' = [call EXCEPT !.changed = Differs, !.pos = call.pos + 1]
    BY DEF CompareSector
  <2>6. call' \in CallType
    BY <2>2, <2>3, <2>4, <2>5 DEF CallType
  <2>. QED
    BY <2>6 DEF IInv, TypeOK, CompareSector, imageVars, cacheVars, worldVars
<1>2. RevisionInv'
  <2>1. identity # "none"
    BY RunningEngine DEF Idle, NeedsOriginal, CompareSector
  <2>. QED
    BY <2>1 DEF IInv, RevisionInv, HasImage, TypeOK, CompareSector, imageVars, worldVars
<1>3. StatesInv'
  BY DEF IInv, StatesInv, CompareSector, imageVars, cacheVars, worldVars
<1>4. CacheCoherent'
  BY DEF IInv, CacheCoherent, HasImage, Original, CompareSector, imageVars, cacheVars, worldVars
<1>5. PreparedSaveFaithful'
  BY DEF IInv, PreparedSaveFaithful, BuildCurrent, Logical, Original, NoBuild, TypeOK, RevisionInv,
     CompareSector, imageVars, cacheVars, worldVars
<1>6. UnchangedFaithful'
  BY DEF IInv, UnchangedFaithful, HasImage, Original, TypeOK, RevisionInv, CompareSector, imageVars,
     cacheVars, worldVars
<1>7. VerifyFaithful'
  BY DEF IInv, VerifyFaithful, Logical, Original, NoHash, TypeOK, RevisionInv, CompareSector,
     imageVars, cacheVars, worldVars
<1>8. ReadFaithful'
  BY DEF IInv, TypeOK, CallType, ReadFaithful, CompareSector
<1>9. CallInv'
  <2>1. /\ call'.op = call.op /\ call'.lo = call.lo /\ call'.hi = call.hi
        /\ call'.pos = call.pos + 1 /\ call'.buf = call.buf /\ call'.put = FALSE
        /\ call'.changed = IF call.pos \in DOMAIN dirty THEN Differs ELSE call.changed
    BY DEF IInv, TypeOK, CallType, CompareSector
  <2>2. ~Idle /\ call.op = "begin_save" /\ ~call.put
    BY DEF CompareSector, Idle
  <2>3. /\ HasImage /\ call.lo <= call.pos /\ call.pos <= call.hi
        /\ \A s \in DOMAIN call.buf : call.buf[s] = Original[s]
        /\ call.hi = NSectors - 1 /\ identity = "owner"
        /\ call.changed \/ \A s \in DOMAIN dirty : s < call.pos => dirty[s] = Original[s]
    BY <2>2 DEF IInv, CallInv, CompareSector
  <2>4. call'.changed \/ \A s \in DOMAIN dirty : s < call.pos + 1 => dirty[s] = Original[s]
    <3>0. DOMAIN dirty \subseteq Sectors /\ call.pos \in 0 .. NSectors
      BY SectorMapDef DEF IInv, TypeOK, CallType
    <3>1. \A s \in DOMAIN dirty : s < call.pos + 1 => s < call.pos \/ s = call.pos
      BY <3>0, SizesAssumption DEF Sectors
    <3>2. call.pos \in DOMAIN dirty => call.pos \in DOMAIN call.buf
      BY DEF CompareSector
    <3>. QED
      BY <2>1, <2>3, <3>1, <3>2 DEF Differs
  <2>5. call.lo \in Int /\ call.pos \in Int /\ call.hi \in Int
    BY SizesAssumption DEF IInv, TypeOK, CallType, Sectors
  <2>. QED
    BY <2>1, <2>2, <2>3, <2>4, <2>5
    DEF CallInv, Idle, HasImage, Original, CompareSector, imageVars, worldVars
<1>. QED
  BY <1>1, <1>2, <1>3, <1>4, <1>5, <1>6, <1>7, <1>8, <1>9 DEF IInv

\* write starts with nothing staged.
LEMMA WritePreserves ==
  ASSUME IInv, NEW r \in Writes, Write(r)
  PROVE  IInv'
<1>1. TypeOK'
  <2>1. call' \in CallType
    BY StartedWrite
  <2>. QED
    BY <2>1 DEF IInv, TypeOK, Write, imageVars, cacheVars, worldVars
<1>2. RevisionInv'
  BY DEF IInv, RevisionInv, HasImage, TypeOK, NoBuild, NoHash, Write, imageVars, cacheVars,
     worldVars
<1>3. StatesInv'
  BY DEF IInv, StatesInv, Write, imageVars, cacheVars, worldVars
<1>4. CacheCoherent'
  BY DEF IInv, CacheCoherent, HasImage, Original, Write, imageVars, cacheVars, worldVars
<1>5. PreparedSaveFaithful'
  BY DEF IInv, PreparedSaveFaithful, BuildCurrent, Logical, Original, NoBuild, TypeOK, RevisionInv,
     Write, imageVars, cacheVars, worldVars
<1>6. UnchangedFaithful'
  BY DEF IInv, UnchangedFaithful, HasImage, Original, TypeOK, RevisionInv, Write, imageVars,
     cacheVars, worldVars
<1>7. VerifyFaithful'
  BY DEF IInv, VerifyFaithful, Logical, Original, NoHash, TypeOK, RevisionInv, Write, imageVars,
     cacheVars, worldVars
<1>8. ReadFaithful'
  BY StartedWrite DEF ReadFaithful
<1>9. CallInv'
  <2>1. /\ call'.op = "write" /\ call'.req = r /\ r \in Requests
        /\ call'.lo = r.lo /\ call'.hi = r.hi /\ call'.pos = r.lo
        /\ call'.out = Empty /\ call'.buf = Empty /\ call'.put = FALSE
        /\ r.lo \in Int /\ r.hi \in Int /\ r.lo <= r.hi
    BY StartedWrite
  <2>2. call'.out = [s \in call'.lo .. call'.pos - 1 |-> PatchSector(call'.req, s, Logical'[s])]
    BY <2>1, EmptyMap DEF Empty
  <2>. QED
    BY <2>1, <2>2, EmptyMap DEF CallInv, Idle, HasImage, Write, imageVars
<1>. QED
  BY <1>1, <1>2, <1>3, <1>4, <1>5, <1>6, <1>7, <1>8, <1>9 DEF IInv

\* One pass of the write loop; see StageCopies.
LEMMA StageSectorPreserves ==
  ASSUME IInv, StageSector
  PROVE  IInv'
<1>1. TypeOK'
  BY StageCopies DEF IInv, TypeOK, StageSector, imageVars, cacheVars, worldVars
<1>2. RevisionInv'
  <2>1. identity # "none"
    BY RunningEngine DEF Idle, NeedsOriginal, StageSector
  <2>. QED
    BY <2>1 DEF IInv, RevisionInv, HasImage, TypeOK, StageSector, imageVars, worldVars
<1>3. StatesInv'
  BY DEF IInv, StatesInv, StageSector, imageVars, cacheVars, worldVars
<1>4. CacheCoherent'
  BY DEF IInv, CacheCoherent, HasImage, Original, StageSector, imageVars, cacheVars, worldVars
<1>5. PreparedSaveFaithful'
  BY DEF IInv, PreparedSaveFaithful, BuildCurrent, Logical, Original, NoBuild, TypeOK, RevisionInv,
     StageSector, imageVars, cacheVars, worldVars
<1>6. UnchangedFaithful'
  BY DEF IInv, UnchangedFaithful, HasImage, Original, TypeOK, RevisionInv, StageSector, imageVars,
     cacheVars, worldVars
<1>7. VerifyFaithful'
  BY DEF IInv, VerifyFaithful, Logical, Original, NoHash, TypeOK, RevisionInv, StageSector,
     imageVars, cacheVars, worldVars
<1>8. ReadFaithful'
  BY StageCopies DEF ReadFaithful
<1>9. CallInv'
  BY StageCopies, EmptyMap DEF CallInv, Idle
<1>. QED
  BY <1>1, <1>2, <1>3, <1>4, <1>5, <1>6, <1>7, <1>8, <1>9 DEF IInv

\* The staged sectors become pending at once, under a new revision.
LEMMA WriteReturnsPreserves ==
  ASSUME IInv, WriteReturns
  PROVE  IInv'
<1>1. TypeOK'
  <2>1. dirty' \in SectorMap
    BY ExtendMap DEF IInv, TypeOK, CallType, WriteReturns
  <2>2. /\ revision' \in Nat /\ call' = NoCall
        /\ UNCHANGED <<identity, source, cached, older, bytes, build, unchanged, hash, files, states>>
    BY DEF IInv, TypeOK, Bump, WriteReturns, cacheVars, worldVars
  <2>. QED
    BY <2>1, <2>2, NoneTypes DEF IInv, TypeOK
<1>2. RevisionInv'
  <2>1. HasImage
    BY DEF IInv, CallInv, Idle, WriteReturns
  <2>. QED
    BY <2>1 DEF IInv, RevisionInv, TypeOK, HasImage, Bump, WriteReturns, worldVars
<1>3. StatesInv'
  BY DEF IInv, StatesInv, WriteReturns, Bump, imageVars, cacheVars, worldVars
<1>4. CacheCoherent'
  BY DEF IInv, CacheCoherent, HasImage, Original, WriteReturns, Bump, imageVars, cacheVars,
     worldVars
<1>5. PreparedSaveFaithful'
  BY DEF IInv, PreparedSaveFaithful, BuildCurrent, Logical, Original, NoBuild, TypeOK, RevisionInv,
     WriteReturns, Bump, imageVars, cacheVars, worldVars
<1>6. UnchangedFaithful'
  BY DEF IInv, UnchangedFaithful, HasImage, Original, TypeOK, RevisionInv, WriteReturns, Bump,
     imageVars, cacheVars, worldVars
<1>7. VerifyFaithful'
  BY DEF IInv, VerifyFaithful, Logical, Original, NoHash, TypeOK, RevisionInv, WriteReturns, Bump,
     imageVars, cacheVars, worldVars
<1>8. ReadFaithful'
  BY DEF IInv, ReadFaithful, Logical, Original, Idle, NoCall, WriteReturns, Bump, imageVars,
     cacheVars, worldVars
<1>9. CallInv'
  BY DEF IInv, CallInv, Idle, NoCall, HasImage, Original, Logical, BuildCurrent, WriteReturns, Bump,
     imageVars, cacheVars, worldVars
<1>. QED
  BY <1>1, <1>2, <1>3, <1>4, <1>5, <1>6, <1>7, <1>8, <1>9 DEF IInv

\* The record of a whole chunk joins the records before it.
LEMMA NextReturnsPreserves ==
  ASSUME IInv, NextReturns
  PROVE  IInv'
<1>1. TypeOK'
  <2>1. /\ build.index \in Chunks /\ Logical \in Contents
        /\ call.out = RestrictTo(Logical, SectorsOf(build.index))
    BY FinishedRead DEF NextReturns
  <2>2. build.index + 1 \in 0 .. NChunks
    BY <2>1, ChunkExtent
  <2>3. Extend(build.parts, call.out) \in SectorMap
    BY ExtendMap DEF IInv, TypeOK, CallType
  <2>4. build' \in [active : BOOLEAN, raw : RawImages \cup {NULL}, index : 0 .. NChunks,
                   revision : Nat, parts : SectorMap]
    BY <2>2, <2>3 DEF IInv, TypeOK, NextReturns
  <2>. QED
    BY <2>4, NoneTypes DEF IInv, TypeOK, NextReturns, imageVars, cacheVars, worldVars
<1>2. RevisionInv'
  <2>1. identity # "none"
    BY RunningEngine DEF Idle, NeedsOriginal, NextReturns
  <2>. QED
    BY <2>1 DEF IInv, RevisionInv, HasImage, TypeOK, NextReturns, imageVars, worldVars
<1>3. StatesInv'
  BY DEF IInv, StatesInv, NextReturns, imageVars, cacheVars, worldVars
<1>4. CacheCoherent'
  BY DEF IInv, CacheCoherent, HasImage, Original, NextReturns, imageVars, cacheVars, worldVars
<1>5. PreparedSaveFaithful'
  <2>1. /\ BuildCurrent /\ build.raw = NULL /\ build.index \in Chunks /\ Logical \in Contents
        /\ call.out = RestrictTo(Logical, SectorsOf(build.index))
    BY FinishedRead DEF NextReturns
  <2>2. build.parts = RestrictTo(Logical, Prefix(build.index))
    BY <2>1 DEF IInv, PreparedSaveFaithful
  <2>3. /\ build'.parts = Extend(build.parts, call.out) /\ build'.index = build.index + 1
        /\ build'.raw = NULL
    BY <2>1 DEF IInv, TypeOK, NextReturns
  <2>4. Logical' = Logical
    BY DEF Logical, Original, NextReturns, imageVars, worldVars
  <2>. QED
    BY <2>1, <2>2, <2>3, <2>4, ChunkRead DEF PreparedSaveFaithful
<1>6. UnchangedFaithful'
  BY DEF IInv, UnchangedFaithful, HasImage, Original, TypeOK, RevisionInv, NextReturns, imageVars,
     cacheVars, worldVars
<1>7. VerifyFaithful'
  BY DEF IInv, VerifyFaithful, Logical, Original, NoHash, TypeOK, RevisionInv, NextReturns,
     imageVars, cacheVars, worldVars
<1>8. ReadFaithful'
  BY DEF IInv, ReadFaithful, Logical, Original, Idle, NoCall, NextReturns, imageVars, cacheVars,
     worldVars
<1>9. CallInv'
  BY DEF IInv, CallInv, Idle, NoCall, HasImage, Original, Logical, BuildCurrent, NextReturns,
     imageVars, cacheVars, worldVars
<1>. QED
  BY <1>1, <1>2, <1>3, <1>4, <1>5, <1>6, <1>7, <1>8, <1>9 DEF IInv

\* A whole chunk joins the chunks hashed before it.
LEMMA VerifyReturnsPreserves ==
  ASSUME IInv, VerifyReturns
  PROVE  IInv'
<1>1. TypeOK'
  <2>1. /\ hash.index \in Chunks
        /\ call.out = RestrictTo(Logical, SectorsOf(hash.index))
    BY FinishedRead DEF VerifyReturns
  <2>2. hash.index + 1 \in 0 .. NChunks
    BY <2>1, ChunkExtent
  <2>3. Extend(hash.acc, call.out) \in SectorMap
    BY ExtendMap DEF IInv, TypeOK, CallType
  <2>4. [hash EXCEPT !.index = @ + 1, !.acc = Extend(@, call.out)]
           \in [active : BOOLEAN, index : 0 .. NChunks, revision : Nat, acc : SectorMap]
    BY <2>2, <2>3 DEF IInv, TypeOK
  <2>5. hash' \in [active : BOOLEAN, index : 0 .. NChunks, revision : Nat, acc : SectorMap]
    BY <2>4, NoneTypes DEF VerifyReturns
  <2>. QED
    BY <2>5, NoneTypes DEF IInv, TypeOK, VerifyReturns, imageVars, cacheVars, worldVars
<1>2. RevisionInv'
  <2>1. HasImage /\ hash.revision = revision /\ identity # "none"
    BY FinishedRead, RunningEngine DEF VerifyReturns
  <2>2. hash'.revision \in {hash.revision, 0}
    <3>1. CASE hash' = NoHash
      BY <3>1 DEF NoHash
    <3>2. CASE hash' = [hash EXCEPT !.index = @ + 1, !.acc = Extend(@, call.out)]
      BY <3>2 DEF IInv, TypeOK
    <3>. QED
      BY <3>1, <3>2 DEF VerifyReturns
  <2>. QED
    BY <2>1, <2>2 DEF IInv, RevisionInv, HasImage, TypeOK, VerifyReturns, imageVars, worldVars
<1>3. StatesInv'
  BY DEF IInv, StatesInv, VerifyReturns, imageVars, cacheVars, worldVars
<1>4. CacheCoherent'
  BY DEF IInv, CacheCoherent, HasImage, Original, VerifyReturns, imageVars, cacheVars, worldVars
<1>5. PreparedSaveFaithful'
  BY DEF IInv, PreparedSaveFaithful, BuildCurrent, Logical, Original, NoBuild, TypeOK, RevisionInv,
     VerifyReturns, imageVars, cacheVars, worldVars
<1>6. UnchangedFaithful'
  BY DEF IInv, UnchangedFaithful, HasImage, Original, TypeOK, RevisionInv, VerifyReturns, imageVars,
     cacheVars, worldVars
<1>7. VerifyFaithful'
  <2>1. /\ hash.index \in Chunks /\ Logical \in Contents
        /\ hash.active /\ hash.revision = revision
        /\ call.out = RestrictTo(Logical, SectorsOf(hash.index))
    BY FinishedRead DEF VerifyReturns
  <2>2. hash.acc = RestrictTo(Logical, Prefix(hash.index))
    BY <2>1 DEF IInv, VerifyFaithful
  <2>3. Logical' = Logical
    BY DEF Logical, Original, VerifyReturns, imageVars, worldVars
  <2>4. CASE hash' = NoHash
    BY <2>4 DEF VerifyFaithful, NoHash
  <2>5. CASE hash' = [hash EXCEPT !.index = @ + 1, !.acc = Extend(@, call.out)]
    <3>1. hash'.acc = Extend(hash.acc, call.out) /\ hash'.index = hash.index + 1
      BY <2>5 DEF IInv, TypeOK
    <3>. QED
      BY <2>1, <2>2, <2>3, <3>1, ChunkRead DEF VerifyFaithful
  <2>. QED
    BY <2>4, <2>5 DEF VerifyReturns
<1>8. ReadFaithful'
  BY DEF IInv, ReadFaithful, Logical, Original, Idle, NoCall, VerifyReturns, imageVars, cacheVars,
     worldVars
<1>9. CallInv'
  BY DEF IInv, CallInv, Idle, NoCall, HasImage, Original, Logical, BuildCurrent, VerifyReturns,
     imageVars, cacheVars, worldVars
<1>. QED
  BY <1>1, <1>2, <1>3, <1>4, <1>5, <1>6, <1>7, <1>8, <1>9 DEF IInv

\* next starts reading the build's chunk, or takes it from the raw image.
LEMMA NextRecordPreserves ==
  ASSUME IInv, NextRecord
  PROVE  IInv'
<1>1. TypeOK'
  <2>1. build.index \in Chunks
    BY IndexInChunks DEF IInv, TypeOK, NextRecord
  <2>2. CASE build.raw = NULL
    <3>1. call' \in CallType /\ build' = build
      BY <2>1, <2>2, ChunkExtent, StartedCall DEF NextRecord
    <3>. QED
      BY <3>1 DEF IInv, TypeOK, NextRecord, imageVars, cacheVars, worldVars
  <2>3. CASE build.raw # NULL
    <3>1. build.raw \in Contents
      BY <2>3, EngineAssumption DEF IInv, TypeOK
    <3>2. RestrictTo(build.raw, SectorsOf(build.index)) \in SectorMap
      BY <2>1, <3>1, ChunkExtent, RestrictMap
    <3>3. Extend(build.parts, RestrictTo(build.raw, SectorsOf(build.index))) \in SectorMap
      BY <3>2, ExtendMap DEF IInv, TypeOK
    <3>4. build.index + 1 \in 0 .. NChunks
      BY <2>1, ChunkExtent
    <3>5. build' \in [active : BOOLEAN, raw : RawImages \cup {NULL}, index : 0 .. NChunks,
                     revision : Nat, parts : SectorMap]
      BY <2>3, <3>3, <3>4 DEF IInv, TypeOK, NextRecord
    <3>. QED
      BY <2>3, <3>5 DEF IInv, TypeOK, NextRecord, imageVars, cacheVars, worldVars
  <2>. QED
    BY <2>2, <2>3
<1>2. RevisionInv'
  <2>1. build' = build \/ (build'.active = build.active /\ build'.raw = build.raw
                           /\ build'.revision = build.revision)
    BY DEF IInv, TypeOK, NextRecord
  <2>. QED
    BY <2>1 DEF IInv, RevisionInv, HasImage, TypeOK, NextRecord, imageVars, worldVars
<1>3. StatesInv'
  BY DEF IInv, StatesInv, NextRecord, imageVars, cacheVars, worldVars
<1>4. CacheCoherent'
  BY DEF IInv, CacheCoherent, HasImage, Original, NextRecord, imageVars, cacheVars, worldVars
<1>5. PreparedSaveFaithful'
  <2>1. build.index \in Chunks
    BY IndexInChunks DEF IInv, TypeOK, NextRecord
  <2>2. Logical' = Logical
    BY DEF Logical, Original, NextRecord, imageVars, worldVars
  <2>3. CASE build.raw = NULL
    BY <2>2, <2>3 DEF IInv, PreparedSaveFaithful, BuildCurrent, NextRecord
  <2>4. CASE build.raw # NULL
    <3>1. build.raw \in Contents
      BY <2>4, EngineAssumption DEF IInv, TypeOK
    <3>2. build.parts = RestrictTo(build.raw, Prefix(build.index))
      BY <2>4 DEF IInv, PreparedSaveFaithful, NextRecord
    <3>3. /\ build'.parts = Extend(build.parts, RestrictTo(build.raw, SectorsOf(build.index)))
          /\ build'.index = build.index + 1 /\ build'.raw = build.raw
      BY <2>4 DEF IInv, TypeOK, NextRecord
    <3>. QED
      BY <2>1, <2>4, <3>1, <3>2, <3>3, ChunkRead DEF PreparedSaveFaithful
  <2>. QED
    BY <2>3, <2>4
<1>6. UnchangedFaithful'
  BY DEF IInv, UnchangedFaithful, HasImage, Original, TypeOK, RevisionInv, NextRecord, imageVars,
     cacheVars, worldVars
<1>7. VerifyFaithful'
  BY DEF IInv, VerifyFaithful, Logical, Original, NoHash, TypeOK, RevisionInv, NextRecord,
     imageVars, cacheVars, worldVars
<1>8. ReadFaithful'
  <2>1. CASE build.raw = NULL
    <3>1. FirstOf(build.index) \in Sectors /\ LastOf(build.index) \in Sectors
      BY IndexInChunks, ChunkExtent DEF IInv, TypeOK, NextRecord
    <3>2. call'.out = Empty /\ call'.lo = call'.pos /\ call'.pos \in Sectors
      BY <2>1, <3>1, StartedCall DEF NextRecord
    <3>3. {s \in Sectors : call'.lo <= s /\ s < call'.pos} = {}
      BY <3>2, SizesAssumption DEF Sectors
    <3>. QED
      BY <3>2, <3>3, EmptyMap DEF ReadFaithful, RestrictTo, Empty
  <2>2. CASE build.raw # NULL
    BY <2>2 DEF ReadFaithful, Idle, NextRecord
  <2>. QED
    BY <2>1, <2>2
<1>9. CallInv'
  <2>1. build.index \in Chunks /\ FirstOf(build.index) \in Sectors /\ LastOf(build.index) \in Sectors
        /\ FirstOf(build.index) <= LastOf(build.index)
    BY IndexInChunks, ChunkExtent DEF IInv, TypeOK, NextRecord
  <2>2. CASE build.raw = NULL
    <3>1. /\ call'.op = "next" /\ call'.buf = Empty /\ call'.put = FALSE
          /\ call'.lo = FirstOf(build.index) /\ call'.hi = LastOf(build.index)
          /\ call'.pos = FirstOf(build.index)
      BY <2>1, <2>2, StartedCall DEF NextRecord
    <3>2. HasImage' /\ BuildCurrent' /\ build' = build
      BY <2>2 DEF IInv, RevisionInv, BuildCurrent, HasImage, NextRecord, imageVars
    <3>. QED
      BY <2>1, <2>2, <3>1, <3>2, EmptyMap, SizesAssumption DEF CallInv, Idle, Sectors
  <2>3. CASE build.raw # NULL
    BY <2>3 DEF IInv, CallInv, Idle, NextRecord
  <2>. QED
    BY <2>2, <2>3
<1>. QED
  BY <1>1, <1>2, <1>3, <1>4, <1>5, <1>6, <1>7, <1>8, <1>9 DEF IInv

\* The assembled file replaces the open one, with nothing pending or cached.
LEMMA AcceptPreserves ==
  ASSUME IInv, Accept
  PROVE  IInv'
<1>1. TypeOK'
  <2>1. files' \in Seq(Contents) /\ Len(files') = Len(files) + 1
    BY CompleteBuild DEF IInv, TypeOK, BuildComplete, Accept
  <2>2. source' \in 0 .. Len(files')
    BY <2>1 DEF IInv, TypeOK, Accept
  <2>3. revision' \in Nat /\ unchanged' \in Nat \cup {-1} /\ bytes' \in Int
    BY DEF IInv, TypeOK, Accept, EmptyCache, Bump
  <2>4. /\ DOMAIN cached' \subseteq Chunks /\ cached' \in [DOMAIN cached' -> SectorMap]
        /\ older' \subseteq Chunks \X Chunks /\ dirty' \in SectorMap
    BY EmptyMap DEF Accept, EmptyCache
  <2>5. build' = NoBuild /\ hash' = NoHash /\ UNCHANGED <<identity, call, states>>
    BY DEF Accept
  <2>. QED
    BY <2>1, <2>2, <2>3, <2>4, <2>5, NoneTypes DEF IInv, TypeOK
<1>2. RevisionInv'
  <2>1. source' # 0
    BY DEF IInv, TypeOK, Accept
  <2>. QED
    BY <2>1 DEF IInv, RevisionInv, HasImage, TypeOK, NoBuild, NoHash, Accept, Bump
<1>3. StatesInv'
  <2>1. \A i \in DOMAIN files : i \in DOMAIN files' /\ files'[i] = files[i]
    BY CompleteBuild DEF IInv, TypeOK, BuildComplete, Accept
  <2>. QED
    BY <2>1 DEF IInv, StatesInv, Accept
<1>4. CacheCoherent'
  BY EmptyMap DEF CacheCoherent, EmptyCache, Accept
<1>5. PreparedSaveFaithful'
  BY DEF IInv, PreparedSaveFaithful, BuildCurrent, Logical, Original, NoBuild, TypeOK, RevisionInv,
     Accept, EmptyCache, Bump, imageVars, cacheVars, worldVars
<1>6. UnchangedFaithful'
  BY DEF IInv, UnchangedFaithful, HasImage, Original, TypeOK, RevisionInv, Accept, EmptyCache, Bump,
     imageVars, cacheVars, worldVars
<1>7. VerifyFaithful'
  BY DEF IInv, VerifyFaithful, Logical, Original, NoHash, TypeOK, RevisionInv, Accept, EmptyCache,
     Bump, imageVars, cacheVars, worldVars
<1>8. ReadFaithful'
  BY DEF IInv, ReadFaithful, Logical, Original, Idle, NoCall, Accept, EmptyCache, Bump, imageVars,
     cacheVars, worldVars
<1>9. CallInv'
  BY DEF IInv, CallInv, Idle, NoCall, HasImage, Original, Logical, BuildCurrent, Accept, EmptyCache,
     Bump, imageVars, cacheVars, worldVars
<1>. QED
  BY <1>1, <1>2, <1>3, <1>4, <1>5, <1>6, <1>7, <1>8, <1>9 DEF IInv

\* The captured overlay restores to what the guest reads now.
LEMMA SaveStatePreserves ==
  ASSUME IInv, SaveState
  PROVE  IInv'
<1>1. TypeOK'
  <2>1. Logical \in Contents
    BY ImageTypes DEF IInv, SaveState
  <2>2. [base |-> source, overlay |-> dirty, content |-> Logical]
           \in [base : Nat, overlay : SectorMap, content : Contents]
    BY <2>1 DEF IInv, TypeOK
  <2>3. states' \in Seq([base : Nat, overlay : SectorMap, content : Contents])
    BY <2>2 DEF IInv, TypeOK, SaveState
  <2>. QED
    BY <2>3 DEF IInv, TypeOK, SaveState, imageVars, cacheVars
<1>2. RevisionInv'
  BY DEF IInv, RevisionInv, HasImage, TypeOK, NoBuild, NoHash, SaveState, imageVars, cacheVars,
     worldVars
<1>3. StatesInv'
  <2> DEFINE new == [base |-> source, overlay |-> dirty, content |-> Logical]
  <2>1. new.base \in DOMAIN files /\ Overlaid(new.overlay, files[new.base]) = new.content
    BY ImageTypes DEF IInv, SaveState, Logical, Original
  <2>2. \A i \in DOMAIN states' : states'[i] = new \/ (i \in DOMAIN states /\ states'[i] = states[i])
    BY DEF IInv, TypeOK, SaveState
  <2>3. files' = files
    BY DEF SaveState
  <2> HIDE DEF new
  <2>. QED
    BY <2>1, <2>2, <2>3 DEF IInv, StatesInv
<1>4. CacheCoherent'
  BY DEF IInv, CacheCoherent, HasImage, Original, SaveState, imageVars, cacheVars, worldVars
<1>5. PreparedSaveFaithful'
  BY DEF IInv, PreparedSaveFaithful, BuildCurrent, Logical, Original, NoBuild, TypeOK, RevisionInv,
     SaveState, imageVars, cacheVars, worldVars
<1>6. UnchangedFaithful'
  BY DEF IInv, UnchangedFaithful, HasImage, Original, TypeOK, RevisionInv, SaveState, imageVars,
     cacheVars, worldVars
<1>7. VerifyFaithful'
  BY DEF IInv, VerifyFaithful, Logical, Original, NoHash, TypeOK, RevisionInv, SaveState, imageVars,
     cacheVars, worldVars
<1>8. ReadFaithful'
  BY DEF IInv, ReadFaithful, Logical, Original, Idle, NoCall, SaveState, imageVars, cacheVars,
     worldVars
<1>9. CallInv'
  BY DEF IInv, CallInv, Idle, NoCall, HasImage, Original, Logical, BuildCurrent, SaveState,
     imageVars, cacheVars, worldVars
<1>. QED
  BY <1>1, <1>2, <1>3, <1>4, <1>5, <1>6, <1>7, <1>8, <1>9 DEF IInv

\* The fork has the state's overlay, nothing cached and nothing prepared.
LEMMA ForkStatePreserves ==
  ASSUME IInv, NEW i \in DOMAIN states, ForkState(states[i])
  PROVE  IInv'
<1>1. TypeOK'
  <2>1. states[i] \in [base : Nat, overlay : SectorMap, content : Contents]
    BY ElementOfSeq DEF IInv, TypeOK
  <2>2. states[i].overlay \in SectorMap
    BY <2>1
  <2>3. revision' \in Nat /\ unchanged' \in Nat \cup {-1} /\ bytes' \in Int
    BY DEF IInv, TypeOK, ForkState, EmptyCache, Bump
  <2>4. /\ DOMAIN cached' \subseteq Chunks /\ cached' \in [DOMAIN cached' -> SectorMap]
        /\ older' \subseteq Chunks \X Chunks
    BY EmptyMap DEF ForkState, EmptyCache
  <2>5. /\ dirty' = states[i].overlay /\ build' = NoBuild /\ hash' = NoHash
        /\ UNCHANGED <<identity, source, call, files, states>>
    BY DEF ForkState, worldVars
  <2>. QED
    BY <2>2, <2>3, <2>4, <2>5, NoneTypes DEF IInv, TypeOK
<1>2. RevisionInv'
  BY DEF IInv, RevisionInv, HasImage, TypeOK, NoBuild, NoHash, ForkState, EmptyCache, Bump,
     imageVars, cacheVars, worldVars
<1>3. StatesInv'
  BY DEF IInv, StatesInv, ForkState, EmptyCache, Bump, imageVars, cacheVars, worldVars
<1>4. CacheCoherent'
  BY EmptyMap DEF CacheCoherent, EmptyCache, ForkState
<1>5. PreparedSaveFaithful'
  BY DEF IInv, PreparedSaveFaithful, BuildCurrent, Logical, Original, NoBuild, TypeOK, RevisionInv,
     ForkState, EmptyCache, Bump, imageVars, cacheVars, worldVars
<1>6. UnchangedFaithful'
  BY DEF IInv, UnchangedFaithful, HasImage, Original, TypeOK, RevisionInv, ForkState, EmptyCache,
     Bump, imageVars, cacheVars, worldVars
<1>7. VerifyFaithful'
  BY DEF IInv, VerifyFaithful, Logical, Original, NoHash, TypeOK, RevisionInv, ForkState,
     EmptyCache, Bump, imageVars, cacheVars, worldVars
<1>8. ReadFaithful'
  BY DEF IInv, ReadFaithful, Logical, Original, Idle, NoCall, ForkState, EmptyCache, Bump,
     imageVars, cacheVars, worldVars
<1>9. CallInv'
  BY DEF IInv, CallInv, Idle, NoCall, HasImage, Original, Logical, BuildCurrent, ForkState,
     EmptyCache, Bump, imageVars, cacheVars, worldVars
<1>. QED
  BY <1>1, <1>2, <1>3, <1>4, <1>5, <1>6, <1>7, <1>8, <1>9 DEF IInv

\* A file is opened with nothing pending or cached.
LEMMA OpenPreserves ==
  ASSUME IInv, NEW f \in DOMAIN files, Open(f)
  PROVE  IInv'
<1>1. TypeOK'
  <2>1. revision' \in Nat /\ unchanged' \in Nat \cup {-1} /\ bytes' \in Int
    BY DEF IInv, TypeOK, Open, EmptyCache, Bump
  <2>2. /\ DOMAIN cached' \subseteq Chunks /\ cached' \in [DOMAIN cached' -> SectorMap]
        /\ older' \subseteq Chunks \X Chunks /\ dirty' \in SectorMap
    BY EmptyMap DEF Open, EmptyCache
  <2>3. source' \in 0 .. Len(files)
    BY DEF IInv, TypeOK, Open
  <2>4. UNCHANGED <<identity, build, hash, call, files, states>>
    BY DEF Open, worldVars
  <2>. QED
    BY <2>1, <2>2, <2>3, <2>4 DEF IInv, TypeOK
<1>2. RevisionInv'
  BY DEF IInv, RevisionInv, HasImage, TypeOK, NoBuild, NoHash, Open, EmptyCache, Bump, imageVars,
     cacheVars, worldVars
<1>3. StatesInv'
  BY DEF IInv, StatesInv, Open, EmptyCache, Bump, imageVars, cacheVars, worldVars
<1>4. CacheCoherent'
  BY EmptyMap DEF CacheCoherent, EmptyCache, Open
<1>5. PreparedSaveFaithful'
  BY DEF IInv, PreparedSaveFaithful, BuildCurrent, Logical, Original, NoBuild, TypeOK, RevisionInv,
     Open, EmptyCache, Bump, imageVars, cacheVars, worldVars
<1>6. UnchangedFaithful'
  BY DEF IInv, UnchangedFaithful, HasImage, Original, TypeOK, RevisionInv, Open, EmptyCache, Bump,
     imageVars, cacheVars, worldVars
<1>7. VerifyFaithful'
  BY DEF IInv, VerifyFaithful, Logical, Original, NoHash, TypeOK, RevisionInv, Open, EmptyCache,
     Bump, imageVars, cacheVars, worldVars
<1>8. ReadFaithful'
  BY DEF IInv, ReadFaithful, Logical, Original, Idle, NoCall, Open, EmptyCache, Bump, imageVars,
     cacheVars, worldVars
<1>9. CallInv'
  BY DEF IInv, CallInv, Idle, NoCall, HasImage, Original, Logical, BuildCurrent, Open, EmptyCache,
     Bump, imageVars, cacheVars, worldVars
<1>. QED
  BY <1>1, <1>2, <1>3, <1>4, <1>5, <1>6, <1>7, <1>8, <1>9 DEF IInv

\* A reader starts with the first authenticated chunk cached.
LEMMA OpenReadOnlyPreserves ==
  ASSUME IInv, NEW f \in DOMAIN files, OpenReadOnly(f)
  PROVE  IInv'
<1>1. TypeOK'
  <2>1. files[f] \in Contents /\ f \in 1 .. Len(files)
    BY DEF IInv, TypeOK
  <2>2. 0 \in Chunks
    BY ChunkBounds DEF Chunks
  <2>3. RestrictTo(files[f], SectorsOf(0)) \in SectorMap /\ LenOf(0) \in Nat
    BY <2>1, <2>2, ChunkExtent, RestrictMap
  <2>. QED
    BY <2>1, <2>2, <2>3, EmptyMap DEF IInv, TypeOK, OpenReadOnly, worldVars
<1>2. RevisionInv'
  BY DEF IInv, RevisionInv, HasImage, TypeOK, NoBuild, NoHash, OpenReadOnly, imageVars, cacheVars,
     worldVars
<1>3. StatesInv'
  BY DEF IInv, StatesInv, OpenReadOnly, imageVars, cacheVars, worldVars
<1>4. CacheCoherent'
  BY DEF IInv, TypeOK, CacheCoherent, HasImage, Original, OpenReadOnly, worldVars
<1>5. PreparedSaveFaithful'
  BY DEF IInv, PreparedSaveFaithful, BuildCurrent, Logical, Original, NoBuild, TypeOK, RevisionInv,
     OpenReadOnly, imageVars, cacheVars, worldVars
<1>6. UnchangedFaithful'
  BY DEF IInv, UnchangedFaithful, HasImage, Original, TypeOK, RevisionInv, OpenReadOnly, imageVars,
     cacheVars, worldVars
<1>7. VerifyFaithful'
  BY DEF IInv, VerifyFaithful, Logical, Original, NoHash, TypeOK, RevisionInv, OpenReadOnly,
     imageVars, cacheVars, worldVars
<1>8. ReadFaithful'
  BY NoneTypes DEF IInv, RevisionInv, ReadFaithful, OpenReadOnly
<1>9. CallInv'
  BY NoneTypes DEF IInv, RevisionInv, CallInv, Idle, OpenReadOnly
<1>. QED
  BY <1>1, <1>2, <1>3, <1>4, <1>5, <1>6, <1>7, <1>8, <1>9 DEF IInv

-----------------------------------------------------------------------------
(* The theorems.                                                           *)

\* A fresh page holds no engine, no file and no state: IInv holds.
LEMMA InitIInv == Init => IInv
<1> SUFFICES ASSUME Init PROVE IInv
  OBVIOUS
<1>1. files \in Seq(Contents) /\ states \in Seq([base : Nat, overlay : SectorMap, content : Contents])
  BY DEF Init
<1>2. TypeOK
  BY <1>1, NoneTypes, EmptyMap DEF Init, TypeOK
<1>3. RevisionInv /\ StatesInv
  BY DEF Init, RevisionInv, StatesInv, HasImage, NoBuild, NoHash
<1>4. CacheCoherent /\ UnchangedFaithful
  BY EmptyMap DEF Init, CacheCoherent, UnchangedFaithful
<1>5. PreparedSaveFaithful /\ VerifyFaithful
  BY DEF Init, PreparedSaveFaithful, BuildCurrent, VerifyFaithful, NoBuild, NoHash
<1>6. ReadFaithful /\ CallInv
  BY NoneTypes DEF Init, ReadFaithful, CallInv, Idle
<1>. QED
  BY <1>2, <1>3, <1>4, <1>5, <1>6 DEF IInv

\* Every step of the engine, or of its callers around it, keeps IInv.
LEMMA NextIInv == IInv /\ [Next]_vars => IInv'
<1> SUFFICES ASSUME IInv, [Next]_vars PROVE IInv'
  OBVIOUS
<1>1. CASE CallStep
  BY <1>1, OriginalHitPreserves, OriginalFetchPreserves, CacheEvictPreserves, CachePutPreserves,
     ReadSpanPreserves, CompareSectorPreserves, StageSectorPreserves, BeginSaveReturnsPreserves,
     NextReturnsPreserves, ReadReturnsPreserves, WriteReturnsPreserves, VerifyReturnsPreserves
  DEF CallStep
<1>2. CASE \E f \in DOMAIN files : Open(f)
  BY <1>2, OpenPreserves
<1>3. CASE \E f \in DOMAIN files : OpenReadOnly(f)
  BY <1>3, OpenReadOnlyPreserves
<1>4. CASE \E raw \in RawImages : BeginCreate(raw)
  BY <1>4, BeginCreatePreserves
<1>5. CASE \E lo, hi \in Sectors : lo <= hi /\ Read(lo, hi)
  BY <1>5, ReadPreserves
<1>6. CASE \E r \in Writes : Write(r)
  BY <1>6, WritePreserves
<1>7. CASE \E i \in DOMAIN states : ForkState(states[i])
  BY <1>7, ForkStatePreserves
<1>8. CASE NewEngine \/ Free \/ CallFails
  BY <1>8, NewEnginePreserves, FreePreserves, CallFailsPreserves
<1>9. CASE BeginSave \/ AcceptUnchanged \/ NextRecord \/ Accept \/ Cancel
  BY <1>9, BeginSavePreserves, AcceptUnchangedPreserves, NextRecordPreserves, AcceptPreserves,
     CancelPreserves
<1>10. CASE Discard \/ ClearCache \/ SaveState
  BY <1>10, DiscardPreserves, ClearCachePreserves, SaveStatePreserves
<1>11. CASE VerifyStart \/ VerifyStep \/ VerifyDelivers
  BY <1>11, VerifyStartPreserves, VerifyStepPreserves, VerifyDeliversPreserves
<1>12. CASE UNCHANGED vars
  BY <1>12 DEF vars, imageVars, cacheVars, worldVars, IInv, TypeOK, RevisionInv, StatesInv,
     CacheCoherent, PreparedSaveFaithful, UnchangedFaithful, VerifyFaithful, ReadFaithful, CallInv,
     HasImage, Original, Logical, BuildCurrent, Idle
<1>. QED
  BY <1>1, <1>2, <1>3, <1>4, <1>5, <1>6, <1>7, <1>8, <1>9, <1>10, <1>11, <1>12 DEF Next

\* Whatever calls a driver makes, and wherever they fail, IInv holds.
THEOREM EngineInvariant == Spec => []IInv
<1>. QED
  BY InitIInv, NextIInv, PTL DEF Spec

\* The engine's fields keep their types.
THEOREM EngineTypes == Spec => []TypeOK
<1>1. IInv => TypeOK
  BY DEF IInv
<1>. QED
  BY <1>1, EngineInvariant, PTL

\* Image::original: the chunk cache never answers for another file.
THEOREM CacheIsCoherent == Spec => []CacheCoherent
<1>1. IInv => CacheCoherent
  BY DEF IInv
<1>. QED
  BY <1>1, EngineInvariant, PTL

\* next, accept: a save that is not stale holds what the guest reads.
THEOREM PreparedSaveIsFaithful == Spec => []PreparedSaveFaithful
<1>1. IInv => PreparedSaveFaithful
  BY DEF IInv
<1>. QED
  BY <1>1, EngineInvariant, PTL

\* begin_save, accept_unchanged: a valid verdict drops no pending change.
THEOREM UnchangedIsFaithful == Spec => []UnchangedFaithful
<1>1. IInv => UnchangedFaithful
  BY DEF IInv
<1>. QED
  BY <1>1, EngineInvariant, PTL

\* verify_step: the digest is taken over what the guest reads.
THEOREM VerifyIsFaithful == Spec => []VerifyFaithful
<1>1. IInv => VerifyFaithful
  BY DEF IInv
<1>. QED
  BY <1>1, EngineInvariant, PTL

\* Image::read: a read returns the pending sectors over the file's.
THEOREM ReadIsFaithful == Spec => []ReadFaithful
<1>1. IInv => ReadFaithful
  BY DEF IInv
<1>. QED
  BY <1>1, EngineInvariant, PTL

-----------------------------------------------------------------------------
(* Refinement: every step of the engine is one step of the abstract disk,  *)
(* or leaves it alone.                                                     *)

\* The abstract disk is over the same data.
LEMMA SameData ==
  /\ Disk!Contents = Contents
  /\ Disk!Requests = Requests
  /\ \A r, c : Disk!Patched(r, c) = Patched(r, c)
  /\ Disk!Sectors = Sectors /\ Disk!Empty = Empty
  /\ \A f, S : Disk!RestrictTo(f, S) = RestrictTo(f, S)
<1>1. Disk!Contents = Contents /\ Disk!Requests = Requests
  BY DEF Disk!Contents, Disk!Sectors, Disk!Val, Disk!Halves, Disk!Requests,
         Contents, Sectors, Val, Halves, Requests
<1>2. \A r, c : Disk!Patched(r, c) = Patched(r, c)
  BY DEF Disk!Patched, Disk!PatchSector, Disk!Covered, Disk!Sectors, Disk!Halves,
         Patched, PatchSector, Covered, Sectors, Halves
<1>3. Disk!Sectors = Sectors /\ Disk!Empty = Empty
  BY DEF Disk!Sectors, Disk!Empty, Sectors, Empty
<1>4. \A f, S : Disk!RestrictTo(f, S) = RestrictTo(f, S)
  BY DEF Disk!RestrictTo, RestrictTo
<1>. QED
  BY <1>1, <1>2, <1>3, <1>4

\* An overlay with no pending sector is the file itself.
LEMMA NothingPending ==
  ASSUME NEW f \in Contents
  PROVE  Overlaid(Empty, f) = f
BY EmptyMap DEF Overlaid, Contents

\* Only a read that reached its end has an answer.
LEMMA NoAnswer ==
  ASSUME call.op # "read" \/ ~(call.pos > call.hi)
  PROVE  Answer = Empty
BY DEF Answer

\* The same, of the call a step leaves behind.
LEMMA NoAnswerNext ==
  ASSUME call'.op # "read" \/ ~(call'.pos > call'.hi)
  PROVE  Answer' = Empty
BY DEF Answer

\* A step that leaves the call alone leaves its answer alone.
LEMMA SameAnswer ==
  ASSUME call' = call
  PROVE  Answer' = Answer
BY DEF Answer

\* A step that changes neither the image nor the files and states, and ends no read.
LEMMA Stutters ==
  ASSUME UNCHANGED <<source, dirty, files, states>>, Answer' = Answer
  PROVE  UNCHANGED Disk!specVars
BY DEF Disk!specVars, HasImage, Logical, Original

\* Opening shows the file's contents, with nothing pending.
LEMMA OpenRefines ==
  ASSUME IInv, NEW f \in DOMAIN files, Open(f) \/ OpenReadOnly(f)
  PROVE  Disk!SpecOpen(files[f]) /\ files[f] \in Contents
<1>1. files[f] \in Contents /\ f # 0
  BY ElementOfSeq DEF IInv, TypeOK
<1>2. ~HasImage /\ source' = f /\ dirty' = Empty /\ files' = files /\ states' = states
  BY DEF IInv, RevisionInv, Open, OpenReadOnly, worldVars
<1>3. HasImage' /\ Original' = files[f] /\ Logical' = files[f]
  BY <1>1, <1>2, NothingPending DEF HasImage, Original, Logical
<1>4. Answer' = Answer
  BY SameAnswer DEF Open, OpenReadOnly
<1>. QED
  BY <1>1, <1>2, <1>3, <1>4 DEF Disk!SpecOpen

\* A finished write shows its whole request, and nothing else.
LEMMA WriteRefines ==
  ASSUME IInv, WriteReturns
  PROVE  call.req \in Requests /\ Disk!SpecWrite(call.req)
<1>1. /\ HasImage /\ call.req \in Requests
      /\ call.lo = call.req.lo /\ call.hi = call.req.hi
      /\ call.pos <= call.hi + 1 /\ call.pos > call.hi
      /\ call.out = [s \in call.lo .. call.pos - 1 |-> PatchSector(call.req, s, Logical[s])]
  BY DEF IInv, CallInv, Idle, WriteReturns
<1>2. call.pos - 1 = call.hi /\ call.lo .. call.hi \subseteq Sectors
  <2>1. call.lo \in Sectors /\ call.hi \in Sectors /\ call.pos \in 0 .. NSectors
    BY DEF IInv, TypeOK, CallType
  <2>. QED
    BY <1>1, <2>1, SizesAssumption DEF Sectors
<1>3. Original' = Original /\ HasImage' /\ dirty' = Extend(dirty, call.out) /\ states' = states
  BY <1>1 DEF Original, HasImage, WriteReturns, worldVars
<1>4. Logical' = Patched(call.req, Logical)
  <2>1. ASSUME NEW s \in Sectors
        PROVE  Logical'[s] = Patched(call.req, Logical)[s]
    <3>1. CASE s \in call.lo .. call.hi
      BY <1>1, <1>2, <1>3, <3>1 DEF Logical, Overlaid, Patched, Extend
    <3>2. CASE s \notin call.lo .. call.hi
      BY <1>1, <1>2, <1>3, <3>2 DEF Logical, Overlaid, Patched, Extend
    <3>. QED
      BY <3>1, <3>2
  <2>. QED
    BY <2>1 DEF Logical, Overlaid, Patched
<1>5. Logical # NULL
  BY <1>1, ImageTypes, NullAssumption DEF IInv
<1>6. Answer' = Answer
  BY NoAnswer, NoAnswerNext DEF WriteReturns, NoCall
<1>. QED
  BY <1>1, <1>3, <1>4, <1>5, <1>6, SameData DEF Disk!SpecWrite

\* The pass of the loop that ends a read answers with what the guest reads at
\* that moment, every sector of it.
LEMMA ReadRefines ==
  ASSUME IInv, ReadSpan, call.op = "read", call'.pos > call'.hi
  PROVE  Disk!SpecRead(call.lo, call.hi) /\ call.lo \in Sectors /\ call.hi \in Sectors
<1>1. /\ call.lo \in Sectors /\ call.hi \in Sectors /\ call'.pos \in Int
      /\ call'.op = "read" /\ call'.lo = call.lo /\ call'.hi = call.hi
      /\ call'.pos <= call.hi + 1
      /\ call'.out = RestrictTo(Logical', {s \in Sectors : call'.lo <= s /\ s < call'.pos})
  <2>1. /\ call' \in CallType /\ call'.op = call.op /\ call'.lo = call.lo /\ call'.hi = call.hi
        /\ call'.pos <= call'.hi + 1
        /\ call'.out = RestrictTo(Logical', {s \in Sectors : call'.lo <= s /\ s < call'.pos})
    BY ReadSpanCopies
  <2>2. call.lo \in Sectors /\ call.hi \in Sectors
    BY DEF IInv, TypeOK, CallType
  <2>3. call'.pos \in Int
    BY <2>1, SizesAssumption DEF CallType
  <2>. QED
    BY <2>1, <2>2, <2>3
<1>2. UNCHANGED <<source, dirty, files, states>>
  BY DEF ReadSpan, imageVars, worldVars
<1>3. HasImage /\ Logical # NULL
  BY ImageTypes, NullAssumption DEF IInv, CallInv, Idle
<1>4. Logical' = Logical
  BY <1>2 DEF Logical, Original
<1>5. {s \in Sectors : call.lo <= s /\ s < call'.pos} = call.lo .. call.hi
  BY <1>1, SizesAssumption DEF Sectors
<1>6. Answer' = RestrictTo(Logical, call.lo .. call.hi)
  BY <1>1, <1>4, <1>5 DEF Answer
<1>. QED
  BY <1>1, <1>2, <1>3, <1>6, SameData DEF Disk!SpecRead, HasImage, Logical, Original

\* The accepted file holds the contents at that moment, or the raw image a
\* disk is created from.
LEMMA AcceptRefines ==
  ASSUME IInv, Accept
  PROVE  Disk!SpecSave \/ \E c \in Contents : Disk!SpecOpen(c)
<1>1. files \in Seq(Contents) /\ build.parts \in Contents
  BY CompleteBuild DEF IInv, TypeOK, BuildComplete, Accept
<1>2. HasImage' /\ Original' = build.parts
  BY <1>1 DEF Original, HasImage, Accept
<1>3. Logical' = build.parts /\ states' = states
  BY <1>1, <1>2, NothingPending DEF Logical, Accept
<1>0. Answer' = Answer
  BY SameAnswer DEF Accept
<1>4. CASE build.raw = NULL
  <2>1. HasImage /\ build.parts = Logical /\ Logical # NULL
    BY <1>1, <1>4, CompleteBuild, NullAssumption DEF BuildComplete, Accept
  <2>. QED
    BY <1>0, <1>2, <1>3, <2>1 DEF Disk!SpecSave
<1>5. CASE build.raw # NULL
  <2>1. ~HasImage
    BY <1>5 DEF IInv, RevisionInv, BuildCurrent, Accept
  <2>2. Disk!SpecOpen(build.parts)
    BY <1>0, <1>2, <1>3, <2>1 DEF Disk!SpecOpen
  <2>. QED
    BY <1>1, <2>2
<1>. QED
  BY <1>4, <1>5

\* Capturing a state records what the guest reads at that moment.
LEMMA CaptureRefines ==
  ASSUME IInv, SaveState
  PROVE  Disk!SpecCapture
<1>1. HasImage /\ Logical # NULL
  BY ImageTypes, NullAssumption DEF IInv, SaveState
<1>2. UNCHANGED <<source, dirty, files>> /\ Answer' = Answer
  BY SameAnswer DEF SaveState, imageVars
<1>3. {states'[i].content : i \in DOMAIN states'}
        = {states[i].content : i \in DOMAIN states} \cup {Logical}
  <2> DEFINE new == [base |-> source, overlay |-> dirty, content |-> Logical]
  <2>1. states' = Append(states, new) /\ new.content = Logical
    BY DEF SaveState
  <2>. HIDE DEF new
  <2>0. states \in Seq([base : Nat, overlay : SectorMap, content : Contents])
    BY DEF IInv, TypeOK
  <2>2. /\ DOMAIN states' = DOMAIN states \cup {Len(states) + 1}
        /\ states'[Len(states) + 1] = new
        /\ \A i \in DOMAIN states : states'[i] = states[i]
    BY <2>0, <2>1, Appended
  <2>3. ASSUME NEW i \in DOMAIN states'
        PROVE  states'[i].content \in {states[j].content : j \in DOMAIN states} \cup {Logical}
    <3>1. CASE i = Len(states) + 1
      BY <2>1, <2>2, <3>1
    <3>2. CASE i \in DOMAIN states
      BY <2>2, <3>2
    <3>. QED
      BY <2>2, <3>1, <3>2
  <2>4. Logical \in {states'[i].content : i \in DOMAIN states'}
    BY <2>1, <2>2
  <2>5. \A x \in {states[i].content : i \in DOMAIN states} :
          x \in {states'[i].content : i \in DOMAIN states'}
    BY <2>2
  <2>. QED
    BY <2>3, <2>4, <2>5
<1>. QED
  BY <1>1, <1>2, <1>3 DEF Disk!SpecCapture, HasImage, Logical, Original

\* Restoring a captured state shows the contents it was captured with.
LEMMA RestoreRefines ==
  ASSUME IInv, NEW i \in DOMAIN states, ForkState(states[i])
  PROVE  Disk!SpecRestore(states[i].content)
<1>1. HasImage /\ Logical # NULL
  BY ImageTypes, NullAssumption DEF IInv, ForkState
<1>2. UNCHANGED <<source, files, states>> /\ dirty' = states[i].overlay /\ Answer' = Answer
  BY SameAnswer DEF ForkState, worldVars
<1>3. Overlaid(states[i].overlay, Original) = states[i].content
  BY DEF IInv, StatesInv, ForkState, SameBase, Original
<1>4. HasImage' /\ Original' = Original /\ Logical' = states[i].content
  BY <1>1, <1>2, <1>3 DEF HasImage, Logical, Original
<1>. QED
  BY <1>1, <1>2, <1>4 DEF Disk!SpecRestore

\* Every step of the engine maps to a step of the abstract disk or a stutter.
LEMMA StepRefines ==
  ASSUME IInv, [Next]_vars
  PROVE  [Disk!SpecNext]_(Disk!specVars)
<1>1. CASE \E f \in DOMAIN files : Open(f) \/ OpenReadOnly(f)
  BY <1>1, OpenRefines, SameData DEF Disk!SpecNext
<1>2. CASE WriteReturns
  BY <1>2, WriteRefines, SameData DEF Disk!SpecNext
<1>3. CASE Accept
  BY <1>3, AcceptRefines, SameData DEF Disk!SpecNext
<1>4. CASE SaveState
  BY <1>4, CaptureRefines DEF Disk!SpecNext
<1>5. CASE \E i \in DOMAIN states : ForkState(states[i])
  <2>1. PICK i \in DOMAIN states : ForkState(states[i])
    BY <1>5
  <2>. QED
    BY <2>1, RestoreRefines DEF Disk!SpecNext
<1>6. CASE Free
  <2>1. Disk!SpecClose
    BY <1>6, SameAnswer DEF Free, HasImage, worldVars, Disk!SpecClose
  <2>. QED
    BY <2>1 DEF Disk!SpecNext
<1>7. CASE Discard
  <2>1. HasImage /\ Logical # NULL /\ Original \in Contents
    BY <1>7, ImageTypes, NullAssumption DEF IInv, Discard
  <2>2. HasImage' /\ Original' = Original /\ Logical' = Original /\ states' = states
    BY <1>7, <2>1, NothingPending DEF Discard, HasImage, Original, Logical, worldVars
  <2>3. Disk!SpecDiscard
    BY <1>7, <2>1, <2>2, SameAnswer DEF Discard, Disk!SpecDiscard
  <2>. QED
    BY <2>3 DEF Disk!SpecNext
<1>8. CASE AcceptUnchanged
  BY <1>8, UnchangedKeepsLogical, SameAnswer DEF Disk!specVars, AcceptUnchanged, HasImage, worldVars
<1>9. CASE CallStep /\ ~WriteReturns
  <2>1. UNCHANGED <<source, dirty, files, states>>
    BY <1>9 DEF CallStep, OriginalHit, OriginalFetch, CacheEvict, CachePut, ReadSpan,
       CompareSector, StageSector, BeginSaveReturns, NextReturns, ReadReturns, VerifyReturns,
       imageVars, worldVars
  <2>0. call \in CallType
    BY DEF IInv, TypeOK
  <2>2. CASE OriginalHit \/ OriginalFetch
    <3>1. call.pos <= call.hi /\ call'.pos = call.pos /\ call'.hi = call.hi
      BY <2>0, <2>2 DEF OriginalHit, OriginalFetch, NeedsOriginal, CallType
    <3>2. ~(call.pos > call.hi) /\ ~(call'.pos > call'.hi)
      BY <2>0, <3>1, SizesAssumption DEF CallType, Sectors
    <3>. QED
      BY <2>1, <3>2, NoAnswer, NoAnswerNext, Stutters
  <2>3. CASE CacheEvict
    BY <2>1, <2>3, SameAnswer, Stutters DEF CacheEvict
  <2>4. CASE CachePut
    <3>1. call'.op = call.op /\ call'.pos = call.pos /\ call'.hi = call.hi /\ call'.out = call.out
      BY <2>0, <2>4 DEF CachePut, CallType
    <3>. QED
      BY <2>1, <3>1, Stutters DEF Answer
  <2>5. CASE ReadSpan
    <3>0. ~(call.pos > call.hi)
      BY <2>0, <2>5, SizesAssumption DEF ReadSpan, CallType, Sectors
    <3>1. CASE call.op = "read" /\ call'.pos > call'.hi
      BY <2>5, <3>1, ReadRefines, SameData DEF Disk!SpecNext
    <3>2. CASE call.op # "read" \/ ~(call'.pos > call'.hi)
      <4>1. call'.op = call.op
        BY <2>5, ReadSpanCopies
      <4>. QED
        BY <2>1, <3>0, <3>2, <4>1, NoAnswer, NoAnswerNext, Stutters
    <3>. QED
      BY <3>1, <3>2
  <2>6. CASE CompareSector \/ StageSector
    <3>1. call.op # "read" /\ call'.op = call.op
      BY <2>0, <2>6 DEF CompareSector, StageSector, CallType
    <3>. QED
      BY <2>1, <3>1, NoAnswer, NoAnswerNext, Stutters
  <2>7. CASE BeginSaveReturns \/ NextReturns \/ VerifyReturns
    <3>1. call.op # "read" /\ call'.op # "read"
      BY <2>7 DEF BeginSaveReturns, NextReturns, VerifyReturns, NoCall
    <3>. QED
      BY <2>1, <3>1, NoAnswer, NoAnswerNext, Stutters
  <2>8. CASE ReadReturns
    <3>1. Answer' = Empty
      BY <2>8, NoAnswerNext DEF ReadReturns, NoCall
    <3>2. Disk!SpecReadEnds
      BY <2>1, <3>1, SameData DEF Disk!SpecReadEnds, HasImage, Logical, Original
    <3>. QED
      BY <3>2 DEF Disk!SpecNext
  <2>. QED
    BY <1>9, <2>2, <2>3, <2>4, <2>5, <2>6, <2>7, <2>8 DEF CallStep
<1>10. CASE CallFails
  <2>1. Answer' = Empty /\ UNCHANGED <<source, dirty, files, states>>
    BY <1>10, NoAnswerNext DEF CallFails, NoCall, imageVars, worldVars
  <2>2. Disk!SpecReadEnds
    BY <2>1, SameData DEF Disk!SpecReadEnds, HasImage, Logical, Original
  <2>. QED
    BY <2>2 DEF Disk!SpecNext
<1>11. CASE NewEngine \/ Cancel \/ ClearCache \/ VerifyStart \/ VerifyDelivers
              \/ \E raw \in RawImages : BeginCreate(raw)
  BY <1>11, SameAnswer, Stutters DEF NewEngine, Cancel, ClearCache, VerifyStart, VerifyDelivers,
     BeginCreate, imageVars, worldVars
<1>12. CASE \/ BeginSave \/ NextRecord \/ VerifyStep
            \/ \E lo, hi \in Sectors : lo <= hi /\ Read(lo, hi)
            \/ \E r \in Writes : Write(r)
  <2>1. Idle /\ UNCHANGED <<source, dirty, files, states>>
    BY <1>12 DEF BeginSave, NextRecord, VerifyStep, Read, Write, imageVars, worldVars
  <2>2. Answer = Empty
    BY <2>1, NoAnswer DEF Idle
  <2>3. CASE BeginSave \/ NextRecord \/ VerifyStep \/ \E r \in Writes : Write(r)
    <3>1. call'.op # "read"
      BY <2>1, <2>3 DEF BeginSave, NextRecord, VerifyStep, Write, Begin, NoCall, Idle
    <3>. QED
      BY <2>1, <2>2, <3>1, NoAnswerNext, Stutters
  <2>4. CASE \E lo, hi \in Sectors : lo <= hi /\ Read(lo, hi)
    <3>1. ~(call'.pos > call'.hi)
      BY <2>4, SizesAssumption DEF Read, Begin, NoCall, Sectors
    <3>. QED
      BY <2>1, <2>2, <3>1, NoAnswerNext, Stutters
  <2>. QED
    BY <1>12, <2>3, <2>4
<1>13. CASE UNCHANGED vars
  BY <1>13, SameAnswer, Stutters DEF vars, imageVars, worldVars
<1>. QED
  BY <1>1, <1>2, <1>3, <1>4, <1>5, <1>6, <1>7, <1>8, <1>9, <1>10, <1>11, <1>12, <1>13
     DEF Next, CallStep

\* The engine implements the abstract disk of module DiskSpec.
THEOREM EngineImplementsDisk == Spec => ImplementsDisk
<1>1. Init => Disk!SpecInit
  BY SameData, NoAnswer DEF Init, NoCall, HasImage, Disk!SpecInit
<1>2. IInv /\ [Next]_vars => [Disk!SpecNext]_(Disk!specVars)
  BY StepRefines
<1>. QED
  BY <1>1, <1>2, EngineInvariant, PTL DEF Spec, ImplementsDisk, Disk!AbstractDisk

-----------------------------------------------------------------------------
(* The cache's byte counter.  The sizes of chunks add up to a closed form: *)
(* all chunks are ChunkSectors long, but for the last one.                 *)

SizeOf(S) == Cardinality(S) * ChunkSectors
             - (IF NChunks - 1 \in S THEN ChunkSectors - LenOf(NChunks - 1) ELSE 0)

\* How much the last chunk is short of, and how many chunks there are.
LEMMA SizesOfChunks ==
  /\ \A c \in Chunks : LenOf(c) \in Nat /\ (c # NChunks - 1 => LenOf(c) = ChunkSectors)
  /\ NChunks - 1 \in Chunks /\ ChunkSectors \in Nat /\ IsFiniteSet(Chunks)
  /\ \A c \in Chunks : LenOf(c) <= ChunkSectors
<1>1. NChunks \in Nat \ {0} /\ ChunkSectors \in Nat
  BY ChunkBounds, SizesAssumption
<1>2. NChunks - 1 \in Chunks /\ 0 \in Int /\ NChunks - 1 \in Int
  BY <1>1 DEF Chunks
<1>3. IsFiniteSet(Chunks)
  BY <1>2, FS_Interval DEF Chunks
<1>4. \A c \in Chunks : LenOf(c) \in Nat
  BY ChunkExtent
<1>5. \A c \in Chunks : c # NChunks - 1 => LenOf(c) = ChunkSectors
  BY DEF LenOf
<1>6. LenOf(NChunks - 1) <= ChunkSectors
  <2>1. /\ FirstOf(NChunks - 1) \in Nat /\ NSectors <= FirstOf(NChunks)
        /\ FirstOf(NChunks) = FirstOf(NChunks - 1) + ChunkSectors
    <3>1. NChunks - 1 \in Nat /\ NChunks \in Nat /\ NChunks - 1 < NChunks /\ (NChunks - 1) + 1 = NChunks
      BY <1>1
    <3>2. FirstOf((NChunks - 1) + 1) = FirstOf(NChunks - 1) + ChunkSectors
      BY <3>1, FirstOfMonotone
    <3> QED BY <3>1, <3>2, ChunkBounds
  <2>2. LenOf(NChunks - 1) = NSectors - FirstOf(NChunks - 1)
    BY DEF LenOf
  <2> QED BY <1>1, <2>1, <2>2, SizesAssumption
<1> QED BY <1>1, <1>2, <1>3, <1>4, <1>5, <1>6

\* The closed form adds up chunk by chunk.
LEMMA SizeAdds ==
  ASSUME NEW S \in SUBSET Chunks, NEW c \in Chunks \ S
  PROVE  SizeOf(S) \in Int /\ SizeOf(S \cup {c}) = LenOf(c) + SizeOf(S)
<1> DEFINE n == Cardinality(S)
           l == LenOf(NChunks - 1)
<1>1. IsFiniteSet(S) /\ n \in Nat /\ Cardinality(S \cup {c}) = n + 1
  BY SizesOfChunks, FS_Subset, FS_CardinalityType, FS_AddElement
<1>2. l \in Nat /\ ChunkSectors \in Nat /\ LenOf(c) \in Nat
  BY SizesOfChunks
<1>3. n * ChunkSectors \in Nat /\ (n + 1) * ChunkSectors = n * ChunkSectors + ChunkSectors
  <2> HIDE DEF n
  <2> QED BY <1>1, <1>2
<1>4. SizeOf(S) = n * ChunkSectors - (IF NChunks - 1 \in S THEN ChunkSectors - l ELSE 0)
  BY DEF SizeOf
<1>5. SizeOf(S \cup {c}) = (n + 1) * ChunkSectors - (IF NChunks - 1 \in S \cup {c} THEN ChunkSectors - l ELSE 0)
  BY <1>1 DEF SizeOf
<1> DEFINE m == n * ChunkSectors
<1>6. m \in Nat /\ (n + 1) * ChunkSectors = m + ChunkSectors
  BY <1>3
<1>7. CASE c = NChunks - 1
  <2>1. NChunks - 1 \notin S /\ NChunks - 1 \in S \cup {c} /\ LenOf(c) = l
    BY <1>7
  <2>2. SizeOf(S) = m /\ SizeOf(S \cup {c}) = (m + ChunkSectors) - (ChunkSectors - l)
    BY <1>4, <1>5, <1>6, <2>1
  <2> HIDE DEF m, l, n
  <2> QED BY <1>2, <1>6, <2>1, <2>2
<1>8. CASE c # NChunks - 1
  <2>1. (NChunks - 1 \in S \cup {c} <=> NChunks - 1 \in S) /\ LenOf(c) = ChunkSectors
    BY <1>8, SizesOfChunks
  <2> DEFINE d == IF NChunks - 1 \in S THEN ChunkSectors - l ELSE 0
  <2>2. d \in Int
    BY <1>2
  <2>3. SizeOf(S) = m - d /\ SizeOf(S \cup {c}) = (m + ChunkSectors) - d
    BY <1>4, <1>5, <1>6, <2>1
  <2> HIDE DEF m, l, n, d
  <2> QED BY <1>2, <1>6, <2>1, <2>2, <2>3
<1> QED BY <1>7, <1>8

\* Some chunk of a set, as MapThenSumSet chooses it.
Some(s) == CHOOSE x \in s : TRUE

\* The recursion of MapThenSumSet over the subsets of S.
Sums(S, f) ==
  f = [s \in SUBSET S |-> IF s = {} THEN 0 ELSE LenOf(Some(s)) + f[s \ {Some(s)}]]

\* The closed form solves it.
LEMMA ClosedFormSums ==
  ASSUME NEW S \in SUBSET Chunks
  PROVE  Sums(S, [s \in SUBSET S |-> SizeOf(s)])
<1> DEFINE g == [s \in SUBSET S |-> SizeOf(s)]
<1>1. SizeOf({}) = 0
  BY SizesOfChunks, FS_EmptySet DEF SizeOf
<1>2. ASSUME NEW s \in SUBSET S, s # {}
      PROVE  SizeOf(s) = LenOf(Some(s)) + g[s \ {Some(s)}]
  <2>1. Some(s) \in s
    BY <1>2 DEF Some
  <2>2. s \ {Some(s)} \in SUBSET S /\ (s \ {Some(s)}) \cup {Some(s)} = s
    BY <2>1
  <2>3. SizeOf((s \ {Some(s)}) \cup {Some(s)}) = LenOf(Some(s)) + SizeOf(s \ {Some(s)})
    BY <2>1, <2>2, SizeAdds
  <2> QED BY <2>2, <2>3
<1>3. \A s \in SUBSET S : g[s] = IF s = {} THEN 0 ELSE LenOf(Some(s)) + g[s \ {Some(s)}]
  BY <1>1, <1>2
<1> HIDE DEF g
<1>4. g = [s \in SUBSET S |-> g[s]]
  BY DEF g
<1>5. Sums(S, g)
  BY <1>3, <1>4 DEF Sums
<1> QED BY <1>5 DEF g

\* A set of numbers has a least one.
LEMMA LeastExists ==
  ASSUME NEW S \in SUBSET Nat, S # {}
  PROVE  \E m \in S : \A n \in S : m <= n
<1>1. PICK m \in S : \A n \in S : ~(<<n, m>> \in OpToRel(<, Nat))
  BY NatLessThanWellFounded, WFMin
<1>2. \A n \in S : ~(n < m)
  BY <1>1 DEF OpToRel
<1> QED BY <1>2

\* And is its only solution: a smallest set on which another one differs has a
\* chunk less, on which it does not.
LEMMA SumsUnique ==
  ASSUME NEW S \in SUBSET Chunks, NEW f, Sums(S, f), NEW T \in SUBSET S
  PROVE  f[T] = SizeOf(T)
<1> DEFINE Bad == {s \in SUBSET S : f[s] # SizeOf(s)}
           Sizes == {n \in Nat : \E s \in Bad : Cardinality(s) = n}
<1> SUFFICES ASSUME Bad # {} PROVE FALSE
  OBVIOUS
<1>0. \A s \in SUBSET S : IsFiniteSet(s) /\ Cardinality(s) \in Nat
  BY SizesOfChunks, FS_Subset, FS_CardinalityType
<1>1. Sizes # {}
  BY <1>0
<1>2. PICK n \in Sizes : \A m \in Sizes : n <= m
  BY <1>1, LeastExists
<1>3. PICK s \in Bad : Cardinality(s) = n
  BY <1>2
<1>4. f[s] = IF s = {} THEN 0 ELSE LenOf(Some(s)) + f[s \ {Some(s)}]
  BY <1>3 DEF Sums
<1>5. s # {}
  <2>1. SizeOf({}) = 0
    BY SizesOfChunks, FS_EmptySet DEF SizeOf
  <2> QED BY <1>3, <1>4, <2>1
<1>6. Some(s) \in s
  BY <1>5 DEF Some
<1> DEFINE r == s \ {Some(s)}
<1>7. r \in SUBSET S /\ r \cup {Some(s)} = s /\ Some(s) \in Chunks \ r
  BY <1>6
<1>8. Cardinality(r) = n - 1 /\ Cardinality(r) \in Nat
  BY <1>0, <1>3, <1>6, <1>7, FS_RemoveElement
<1>9. r \notin Bad
  BY <1>2, <1>8
<1>10. SizeOf(s) = LenOf(Some(s)) + SizeOf(r)
  BY <1>7, SizeAdds
<1> QED BY <1>3, <1>4, <1>5, <1>7, <1>9, <1>10

\* What the counter has to be.
LEMMA SumLenIs ==
  ASSUME NEW S \in SUBSET Chunks
  PROVE  SumLen(S) = SizeOf(S)
<1> DEFINE iter == CHOOSE f : Sums(S, f)
<1>1. SumLen(S) = iter[S]
  BY DEF SumLen, MapThenSumSet, MapThenFoldSet, Sums, Some
<1>2. Sums(S, iter)
  BY ClosedFormSums
<1> QED BY <1>1, <1>2, SumsUnique

\* A strict order of some chunks.
Ordered(D, r) ==
  /\ r \subseteq D \X D
  /\ \A a \in D : <<a, a>> \notin r
  /\ \A a, b, c \in D : <<a, b>> \in r /\ <<b, c>> \in r => <<a, c>> \in r

\* The byte counter is right, the ticks order the chunks, and the chunk that waits
\* to be put in the cache is not there yet, although chunks are evicted meanwhile.
AccountInv ==
  /\ CacheAccounted /\ Ordered(DOMAIN cached, older)
  /\ call.put => ChunkOf(call.pos) \notin DOMAIN cached

\* A chunk that is used becomes the newest, of those that are there or with them.
LEMMA TouchOrders ==
  ASSUME NEW D \in SUBSET Chunks, NEW r, Ordered(D, r), NEW k \in Chunks
  PROVE  Ordered(D \cup {k}, Touch(k, D, r))
<1> DEFINE t == Touch(k, D, r)
<1>1. t = {p \in r : p[1] # k /\ p[2] # k} \cup {<<a, k>> : a \in D \ {k}}
  BY DEF Touch
<1>2. r \subseteq D \X D
  BY DEF Ordered
<1>3. \A a, b : <<a, b>> \in t <=> (<<a, b>> \in r /\ a # k /\ b # k) \/ (a \in D \ {k} /\ b = k)
  BY <1>1
<1>4. t \subseteq (D \cup {k}) \X (D \cup {k})
  BY <1>1, <1>2
<1> HIDE DEF t
<1>5. \A a, b : <<a, b>> \in t => a \in D /\ a # k
  BY <1>2, <1>3
<1>6. \A a \in D \cup {k} : <<a, a>> \notin t
  BY <1>3, <1>5 DEF Ordered
<1>7. ASSUME NEW a \in D \cup {k}, NEW b \in D \cup {k}, NEW c \in D \cup {k}, <<a, b>> \in t, <<b, c>> \in t
      PROVE  <<a, c>> \in t
  <2>1. a \in D /\ a # k /\ b \in D /\ b # k /\ <<a, b>> \in r
    BY <1>3, <1>5, <1>7
  <2>2. CASE c = k
    BY <1>3, <2>1, <2>2
  <2>3. CASE c # k
    <3>1. <<b, c>> \in r /\ c \in D
      BY <1>3, <1>7, <2>3
    <3>2. <<a, c>> \in r
      BY <2>1, <3>1 DEF Ordered
    <3> QED BY <1>3, <2>1, <2>3, <3>2
  <2> QED BY <2>2, <2>3
<1>8. Ordered(D \cup {k}, t)
  BY <1>4, <1>6, <1>7 DEF Ordered
<1> QED BY <1>8 DEF t

\* An eviction leaves the order of the others.
LEMMA EvictOrders ==
  ASSUME NEW D, NEW r, Ordered(D, r), NEW k
  PROVE  Ordered(D \ {k}, {p \in r : p[1] # k /\ p[2] # k})
<1> DEFINE t == {p \in r : p[1] # k /\ p[2] # k}
<1>1. \A a, b : <<a, b>> \in t <=> <<a, b>> \in r /\ a # k /\ b # k
  OBVIOUS
<1>2. t \subseteq (D \ {k}) \X (D \ {k})
  BY DEF Ordered
<1> HIDE DEF t
<1>3. Ordered(D \ {k}, t)
  BY <1>1, <1>2 DEF Ordered
<1> QED BY <1>3 DEF t

\* Some chunks have an oldest one: of the one with the fewest that are older, there
\* is none.
LEMMA OldestExists ==
  ASSUME NEW D \in SUBSET Chunks, D # {}, NEW r, Ordered(D, r)
  PROVE  \E k \in D : \A j \in D : <<j, k>> \notin r
<1> DEFINE Below(k) == {j \in D : <<j, k>> \in r}
           Sizes == {n \in Nat : \E k \in D : Cardinality(Below(k)) = n}
<1>1. \A k \in D : IsFiniteSet(Below(k)) /\ Cardinality(Below(k)) \in Nat
  <2> TAKE k \in D
  <2>1. Below(k) \subseteq Chunks
    OBVIOUS
  <2>2. IsFiniteSet(Below(k))
    BY <2>1, SizesOfChunks, FS_Subset
  <2> QED BY <2>2, FS_CardinalityType
<1>2. Sizes # {}
  BY <1>1
<1>3. PICK n \in Sizes : \A m \in Sizes : n <= m
  BY <1>2, LeastExists
<1>4. PICK k \in D : Cardinality(Below(k)) = n
  BY <1>3
<1>5. ASSUME NEW j \in D, <<j, k>> \in r PROVE FALSE
  <2>1. Below(j) \subseteq Below(k) /\ j \in Below(k) /\ j \notin Below(j)
    BY <1>5 DEF Ordered
  <2>2. Below(j) # Below(k)
    BY <2>1
  <2> HIDE DEF Below
  <2>3. Cardinality(Below(j)) < Cardinality(Below(k))
    <3>1. /\ Cardinality(Below(j)) <= Cardinality(Below(k))
          /\ Cardinality(Below(j)) = Cardinality(Below(k)) => Below(j) = Below(k)
      BY <1>1, <2>1, FS_Subset
    <3> QED BY <1>1, <2>2, <3>1
  <2>4. Cardinality(Below(j)) \in Sizes
    BY <1>1
  <2> QED BY <1>1, <1>3, <1>4, <2>3, <2>4
<1> QED BY <1>4, <1>5

\* The counter is what the chunks in the cache add up to.
LEMMA Accounts ==
  ASSUME IInv, AccountInv
  PROVE  /\ DOMAIN cached \in SUBSET Chunks /\ bytes = SizeOf(DOMAIN cached) /\ bytes \in Int /\ bytes <= CacheLimit
<1>1. DOMAIN cached \in SUBSET Chunks /\ bytes \in Int
  BY DEF IInv, TypeOK
<1> QED BY <1>1, SumLenIs DEF AccountInv, CacheAccounted

\* A step that leaves the cache alone, and fetches nothing.
LEMMA SameAccount ==
  ASSUME AccountInv, UNCHANGED cacheVars, call'.put => call.put /\ call'.pos = call.pos
  PROVE  AccountInv'
BY DEF AccountInv, CacheAccounted, cacheVars

\* A step that empties the cache.
LEMMA EmptyAccount ==
  ASSUME EmptyCache, ~call'.put
  PROVE  AccountInv'
<1>1. DOMAIN cached' = {} /\ bytes' = 0
  BY DEF EmptyCache, Empty
<1>2. SizeOf({}) = 0 /\ SumLen({}) = SizeOf({})
  BY SumLenIs, SizesOfChunks, FS_EmptySet DEF SizeOf
<1>3. older' = {}
  BY DEF EmptyCache
<1>4. Ordered(DOMAIN cached', older')
  BY <1>1, <1>3 DEF Ordered
<1> QED BY <1>1, <1>2, <1>4, EngineAssumption DEF AccountInv, CacheAccounted

\* Evictions take off what the chunk had been counted with.
LEMMA EvictAccount ==
  ASSUME IInv, AccountInv, CacheEvict
  PROVE  AccountInv'
<1>1. PICK k \in DOMAIN cached :
        /\ cached' = RestrictTo(cached, DOMAIN cached \ {k}) /\ bytes' = bytes - LenOf(k)
        /\ older' = {p \in older : p[1] # k /\ p[2] # k}
  BY DEF CacheEvict
<1> DEFINE D == DOMAIN cached \ {k}
<1>2. DOMAIN cached' = D /\ call' = call
  BY <1>1 DEF RestrictTo, CacheEvict
<1>3. /\ DOMAIN cached \in SUBSET Chunks /\ bytes = SizeOf(DOMAIN cached) /\ bytes \in Int /\ bytes <= CacheLimit
  BY Accounts
<1>4. D \in SUBSET Chunks /\ k \in Chunks \ D /\ D \cup {k} = DOMAIN cached
  BY <1>1, <1>3
<1>5. SizeOf(D) \in Int /\ SizeOf(DOMAIN cached) = LenOf(k) + SizeOf(D) /\ LenOf(k) \in Nat
  BY <1>4, SizeAdds, SizesOfChunks
<1>6. bytes' = SizeOf(D) /\ bytes' <= CacheLimit
  BY <1>1, <1>3, <1>5, EngineAssumption
<1>7. SumLen(D) = SizeOf(D)
  BY <1>4, SumLenIs
<1>8. call'.put => ChunkOf(call'.pos) \notin DOMAIN cached'
  BY <1>2 DEF AccountInv
<1>9. Ordered(DOMAIN cached', older')
  <2>1. Ordered(DOMAIN cached, older)
    BY DEF AccountInv
  <2>2. Ordered(DOMAIN cached \ {k}, {p \in older : p[1] # k /\ p[2] # k})
    BY <2>1, EvictOrders
  <2> QED BY <1>1, <1>2, <2>2
<1> QED BY <1>2, <1>6, <1>7, <1>8, <1>9 DEF AccountInv, CacheAccounted

\* A chunk is put where there is room, and was not there before.
LEMMA PutAccount ==
  ASSUME IInv, AccountInv, CachePut
  PROVE  AccountInv'
<1> DEFINE c == ChunkOf(call.pos)
<1>1. c \in Chunks
  BY ChunkOfSector, PutSector DEF CachePut
<1>2. DOMAIN cached' = DOMAIN cached \cup {c} /\ bytes' = bytes + LenOf(c) /\ bytes + LenOf(c) <= CacheLimit
  BY DEF CachePut, CacheFits
<1>3. c \notin DOMAIN cached
  BY DEF CachePut, AccountInv
<1>4. ~call'.put
  BY DEF CachePut, IInv, TypeOK, CallType
<1>5. /\ DOMAIN cached \in SUBSET Chunks /\ bytes = SizeOf(DOMAIN cached) /\ bytes \in Int
  BY Accounts
<1>6. SizeOf(DOMAIN cached \cup {c}) = LenOf(c) + SizeOf(DOMAIN cached) /\ LenOf(c) \in Nat
  BY <1>1, <1>3, <1>5, SizeAdds, SizesOfChunks
<1>7. SumLen(DOMAIN cached \cup {c}) = SizeOf(DOMAIN cached \cup {c})
  BY <1>1, <1>5, SumLenIs
<1> HIDE DEF c
<1>8. bytes' = SumLen(DOMAIN cached') /\ bytes' <= CacheLimit
  BY <1>2, <1>5, <1>6, <1>7
<1>9. Ordered(DOMAIN cached', older')
  <2>1. older' = Touch(c, DOMAIN cached, older)
    BY DEF CachePut, c
  <2>2. Ordered(DOMAIN cached \cup {c}, Touch(c, DOMAIN cached, older))
    BY <1>1, <1>5, TouchOrders DEF AccountInv
  <2> QED BY <1>2, <2>1, <2>2
<1> QED BY <1>4, <1>8, <1>9 DEF AccountInv, CacheAccounted

\* open_read_only keeps the record it has authenticated.
LEMMA OpenReadOnlyAccount ==
  ASSUME IInv, NEW f, OpenReadOnly(f)
  PROVE  AccountInv'
<1>1. DOMAIN cached' = {0} /\ bytes' = LenOf(0)
  BY DEF OpenReadOnly
<1>2. 0 \in Chunks
  BY ChunkBounds DEF Chunks
<1>3. SizeOf({} \cup {0}) = LenOf(0) + SizeOf({}) /\ SizeOf({}) = 0 /\ LenOf(0) \in Nat
  <2>1. SizeOf({}) = 0 /\ LenOf(0) \in Nat
    BY <1>2, SizesOfChunks, FS_EmptySet DEF SizeOf
  <2>2. SizeOf({} \cup {0}) = LenOf(0) + SizeOf({})
    BY <1>2, SizeAdds
  <2> QED BY <2>1, <2>2
<1>4. SumLen({0}) = LenOf(0)
  <2>1. {} \cup {0} = {0} /\ {0} \in SUBSET Chunks
    BY <1>2
  <2>2. SumLen({0}) = SizeOf({0})
    BY <2>1, SumLenIs
  <2> QED BY <1>3, <2>1, <2>2
<1>5. LenOf(0) <= CacheLimit
  BY <1>2, <1>3, SizesOfChunks, EngineAssumption
<1>6. ~call'.put
  BY DEF OpenReadOnly, IInv, RevisionInv, NoCall
<1>7. Ordered(DOMAIN cached', older')
  BY <1>1 DEF OpenReadOnly, Ordered
<1> QED BY <1>1, <1>4, <1>5, <1>6, <1>7 DEF AccountInv, CacheAccounted

\* While a chunk waits to be put, the call is in the middle of its loop.
LEMMA PutIsBusy ==
  ASSUME IInv
  PROVE  (Idle => ~call.put) /\ (call.put => call.pos <= call.hi /\ ~(call.pos > call.hi)) /\ ~NoCall.put
<1>1. Idle => ~call.put
  BY DEF IInv, CallInv, NoCall
<1>2. call.put => call.pos <= call.hi
  BY <1>1 DEF IInv, CallInv
<1>3. call.pos \in Int /\ call.hi \in Int
  BY SizesAssumption DEF IInv, TypeOK, CallType, Sectors
<1> QED BY <1>1, <1>2, <1>3 DEF NoCall

\* Every step keeps the account.
LEMMA NextAccount == IInv /\ AccountInv /\ [Next]_vars => AccountInv'
<1> SUFFICES ASSUME IInv, AccountInv, [Next]_vars PROVE AccountInv'
  OBVIOUS
<1>0. (Idle => ~call.put) /\ ~NoCall.put /\ call \in CallType
  BY PutIsBusy DEF IInv, TypeOK
<1>1. CASE CacheEvict \/ CachePut
  BY <1>1, EvictAccount, PutAccount
<1>2. CASE OriginalFetch
  <2>1. UNCHANGED cacheVars /\ ChunkOf(call.pos) \notin DOMAIN cached /\ call'.pos = call.pos
    BY <1>0, <1>2 DEF OriginalFetch, CallType
  <2> QED BY <2>1 DEF AccountInv, CacheAccounted, cacheVars
<1>3. CASE OriginalHit
  <2>1. cached' = cached /\ bytes' = bytes /\ call'.pos = call.pos /\ call'.put = call.put
    BY <1>0, <1>3 DEF OriginalHit, CallType
  <2>2. Ordered(DOMAIN cached, older')
    <3>1. DOMAIN cached \in SUBSET Chunks /\ ChunkOf(call.pos) \in DOMAIN cached
      BY <1>3, Accounts DEF OriginalHit
    <3>2. older' = Touch(ChunkOf(call.pos), DOMAIN cached, older)
      BY <1>3 DEF OriginalHit
    <3>3. DOMAIN cached \cup {ChunkOf(call.pos)} = DOMAIN cached
      BY <3>1
    <3> QED BY <3>1, <3>2, <3>3, TouchOrders DEF AccountInv
  <2> QED BY <2>1, <2>2 DEF AccountInv, CacheAccounted
<1>4. CASE ReadSpan \/ CompareSector \/ StageSector
  <2>1. UNCHANGED cacheVars /\ ~call'.put
    BY <1>0, <1>4 DEF ReadSpan, CompareSector, StageSector, CallType
  <2> QED BY <2>1, SameAccount
<1>5. CASE BeginSaveReturns \/ NextReturns \/ ReadReturns \/ WriteReturns \/ VerifyReturns \/ CallFails
  <2>1. UNCHANGED cacheVars /\ call' = NoCall
    BY <1>5 DEF BeginSaveReturns, NextReturns, ReadReturns, WriteReturns, VerifyReturns, CallFails
  <2> QED BY <1>0, <2>1, SameAccount
<1>6. CASE \/ \E f \in DOMAIN files : Open(f)
           \/ \E i \in DOMAIN states : ForkState(states[i])
           \/ Free \/ Accept \/ ClearCache
  <2>1. EmptyCache /\ Idle /\ call' = call
    BY <1>6 DEF Open, ForkState, Free, Accept, ClearCache
  <2> QED BY <1>0, <2>1, EmptyAccount
<1>7. CASE \E f \in DOMAIN files : OpenReadOnly(f)
  BY <1>7, OpenReadOnlyAccount
<1>8. CASE \/ \E lo, hi \in Sectors : lo <= hi /\ Read(lo, hi)
           \/ \E r \in Writes : Write(r)
           \/ BeginSave \/ VerifyStep
  <2>1. UNCHANGED cacheVars /\ ~call'.put
    BY <1>8 DEF Read, Write, BeginSave, VerifyStep, Begin, NoCall
  <2> QED BY <2>1, SameAccount
<1>9. CASE NextRecord
  <2>1. UNCHANGED cacheVars /\ ~call'.put
    BY <1>0, <1>9 DEF NextRecord, Begin, NoCall
  <2> QED BY <2>1, SameAccount
<1>10. CASE \/ \E raw \in RawImages : BeginCreate(raw)
            \/ NewEngine \/ AcceptUnchanged \/ Cancel \/ Discard
            \/ VerifyStart \/ VerifyDelivers \/ SaveState
  <2>1. UNCHANGED cacheVars /\ call' = call
    BY <1>10 DEF BeginCreate, NewEngine, AcceptUnchanged, Cancel, Discard, VerifyStart, VerifyDelivers, SaveState
  <2> QED BY <2>1, SameAccount
<1>11. CASE UNCHANGED vars
  BY <1>11, SameAccount DEF vars, cacheVars
<1> QED BY <1>1, <1>2, <1>3, <1>4, <1>5, <1>6, <1>7, <1>8, <1>9, <1>10, <1>11 DEF Next, CallStep

\* The account and the order of the cache hold whatever calls are made.
LEMMA AccountInductive == Spec => []AccountInv
<1>1. Init => AccountInv
  <2>1. ASSUME Init PROVE DOMAIN cached = {} /\ bytes = 0 /\ ~call.put /\ Ordered(DOMAIN cached, older)
    BY <2>1 DEF Init, Empty, NoCall, Ordered
  <2>2. SizeOf({}) = 0 /\ SumLen({}) = SizeOf({})
    BY SumLenIs, SizesOfChunks, FS_EmptySet DEF SizeOf
  <2> QED BY <2>1, <2>2, EngineAssumption DEF AccountInv, CacheAccounted
<1>2. IInv /\ AccountInv /\ [Next]_vars => AccountInv'
  BY NextAccount
<1> QED BY <1>1, <1>2, EngineInvariant, PTL DEF Spec

\* Cache::put: the byte counter is the size of the cached chunks and stays within
\* CACHE_LIMIT, for every order of fetches, evictions and failures.
THEOREM CacheIsAccounted == Spec => []CacheAccounted
<1>1. AccountInv => CacheAccounted
  BY DEF AccountInv
<1> QED BY <1>1, AccountInductive, PTL

\* Cache::put: the eviction loop always finds the minimum it unwraps.
THEOREM EvictionFinds == Spec => []VictimExists
<1>1. IInv /\ AccountInv => VictimExists
  <2> SUFFICES ASSUME IInv, AccountInv, call.put, ~CacheFits(ChunkOf(call.pos))
               PROVE  \E k \in DOMAIN cached : \A j \in DOMAIN cached : <<j, k>> \notin older
    BY DEF VictimExists
  <2> DEFINE c == ChunkOf(call.pos)
  <2>1. c \in Chunks
    BY ChunkOfSector, PutSector
  <2>2. /\ DOMAIN cached \in SUBSET Chunks /\ bytes = SizeOf(DOMAIN cached)
    BY Accounts
  <2>3. DOMAIN cached # {}
    <3>1. SizeOf({}) = 0
      BY SizesOfChunks, FS_EmptySet DEF SizeOf
    <3>2. LenOf(c) \in Nat /\ LenOf(c) <= CacheLimit
      BY <2>1, SizesOfChunks, EngineAssumption
    <3>3. ~(bytes + LenOf(c) <= CacheLimit)
      BY DEF CacheFits
    <3> QED BY <2>2, <3>1, <3>2, <3>3
  <2> QED BY <2>2, <2>3, OldestExists DEF AccountInv
<1> QED BY <1>1, EngineInvariant, AccountInductive, PTL
=============================================================================
