------------------------------ MODULE DiskData ------------------------------
(***************************************************************************)
(* The data the disk modules share.  A disk is NSectors sectors, grouped   *)
(* in chunks of ChunkSectors (the last chunk may be short).  A sector is   *)
(* two halves, so that a write may start or end in the middle of a sector  *)
(* the way a byte range of lib.rs does.                                    *)
(***************************************************************************)
EXTENDS Integers

CONSTANTS
  NSectors,      \* sectors of every image
  ChunkSectors,  \* sectors of a chunk, 128 in lib.rs (CHUNK / 512)
  Byte,          \* what half a sector may hold
  NULL           \* no disk, no raw source

ASSUME SizesAssumption ==
  /\ NSectors \in Nat \ {0}
  /\ ChunkSectors \in Nat \ {0}

Sectors == 0 .. NSectors - 1
Halves == {1, 2}
Val == [Halves -> Byte]
Contents == [Sectors -> Val]

ASSUME NullAssumption == NULL \notin Contents

ChunkOf(s) == s \div ChunkSectors
NChunks == ChunkOf(NSectors - 1) + 1
Chunks == 0 .. NChunks - 1
FirstOf(c) == c * ChunkSectors
\* Length of a chunk: the last one ends with the image.
LenOf(c) == IF c = NChunks - 1 THEN NSectors - FirstOf(c) ELSE ChunkSectors
LastOf(c) == FirstOf(c) + LenOf(c) - 1
SectorsOf(c) == FirstOf(c) .. LastOf(c)
\* The sectors of the first n chunks.
Prefix(n) == {s \in Sectors : s < FirstOf(n)}

\* BTreeMap<u64, sector> and other finite maps: a function on the keys present.
Partial(D, R) == UNION {[S -> R] : S \in SUBSET D}
SectorMap == Partial(Sectors, Val)
Empty == [x \in {} |-> NULL]
Extend(f, g) ==
  [x \in DOMAIN f \cup DOMAIN g |-> IF x \in DOMAIN g THEN g[x] ELSE f[x]]
RestrictTo(f, S) == [x \in S |-> f[x]]

\* The overlay of pending sectors over what the encrypted file holds.
Overlaid(dirty, base) ==
  [s \in Sectors |-> IF s \in DOMAIN dirty THEN dirty[s] ELSE base[s]]

\* A write: `byte` is stored from half `first` of sector lo to half `last` of
\* sector hi, every half in between included.
Requests ==
  {r \in [lo : Sectors, hi : Sectors, first : Halves, last : Halves, byte : Byte] :
     r.lo < r.hi \/ (r.lo = r.hi /\ r.first <= r.last)}

Covered(r, s) ==
  {h \in Halves : (s = r.lo => r.first <= h) /\ (s = r.hi => h <= r.last)}

\* The value of sector s after the request, given its value before.
PatchSector(r, s, old) ==
  [h \in Halves |-> IF h \in Covered(r, s) THEN r.byte ELSE old[h]]

Patched(r, content) ==
  [s \in Sectors |->
     IF s \in r.lo .. r.hi THEN PatchSector(r, s, content[s]) ELSE content[s]]

=============================================================================
