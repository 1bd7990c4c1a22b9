------------------------- MODULE PublicationProofs --------------------------
(***************************************************************************)
(* The safety of publishing for any number of publishers, contents,        *)
(* commands and restarts: what is proved of any seedboxes, and what is     *)
(* proved of a publisher that has one seedbox.                             *)
(***************************************************************************)
EXTENDS Publication, WellFoundedInduction, TLAPS

Origin == [seq : 1 .. MaxSeq, val : Publishers] \cup {NoRecord}
AnyRecord == Records \cup Origin
Values == Contents \cup {NONE}
StoreType ==
  [observed : Records, public : Records, adopted : Records, candidates : SUBSET Records]
JournalType ==
  [phase : {"none", "prepared", "transferring", "copied", "committing", "conflict", "complete"},
   rec : Records, base : Records, loc : Origin, notified : SUBSET Nodes]
WorkType ==
  [pc : {"idle", "looked", "signed", "prepared", "asking", "copied", "put", "store", "read", "confirmed"},
   base : Records, rec : Records, loc : Origin, asked : SUBSET Nodes, only : BOOLEAN, salt : Salts]

DhtType ==
  /\ stored \in [Salts -> AnyRecord] /\ stored["publication"] \in Records
  /\ stored["locations"] \in Origin /\ past \in SUBSET Records
PublisherType ==
  /\ origins \in [Publishers -> Origin] /\ journal \in [Publishers -> JournalType]
  /\ work \in [Publishers -> WorkType] /\ sent \in [Publishers -> SUBSET Records]
NodeType ==
  /\ files \in [Nodes -> SUBSET Values] /\ seeding \in [Nodes -> SUBSET Values]
  /\ removing \in [Nodes -> SUBSET Values] /\ gc \in [Nodes -> SUBSET Values]
  /\ jobs \in [Nodes -> SUBSET Records]
TypeOK ==
  DhtType /\ PublisherType /\ NodeType /\ store \in [Publishers \cup Nodes -> StoreType]

\* What a publisher has signed and may still show: none of it contradicts another,
\* and its tables remember a sequence as high.
Signed(s, j, w) == s \cup {j.rec, w.rec}
SignedOK(st, S) ==
  /\ ~Disagree(S) /\ \A r \in S : r.seq <= Maximum(st)
  /\ st.adopted.seq <= st.observed.seq
SignedInv ==
  \A p \in Publishers : SignedOK(store[p], Signed(sent[p], journal[p], work[p]))

\* The command `locations` puts nothing else.
WorkOK(w) == w.only => w.salt = "locations"
WorkInv == \A p \in Publishers : WorkOK(work[p])

\* The DHT's publication is the highest it has stored, and the only one of its sequence.
PastInv ==
  \A r \in past : /\ r.seq <= stored["publication"].seq
                  /\ r.seq = stored["publication"].seq => r = stored["publication"]

\* A node seeds what it has, and nothing it is removing.
SeedInv == \A n \in Nodes : seeding[n] \subseteq files[n] /\ removing[n] \cap seeding[n] = {}

\* A node that admitted a candidate keeps it until the name has moved past it.
AdmitInv ==
  \A p \in Publishers : \A n \in journal[p].notified :
    journal[p].rec.seq > stored["publication"].seq => journal[p].rec \in store[n].candidates

PublicationInv ==
  TypeOK /\ SignedInv /\ WorkInv /\ PublicWasPublished /\ PastInv /\ SeedInv /\ AdmitInv

\* A publisher between the copy it has seen and the end of its commit; a node that
\* admitted the candidate has it.
Committing(w) == w.pc \in {"copied", "put", "store", "read"} /\ ~w.only
CopiedOK(j, w) ==
  Committing(w) /\ j.rec.seq > stored["publication"].seq =>
    \E n \in j.notified : j.rec.val \in files[n]
CommitInv == \A p \in Publishers : CopiedOK(journal[p], work[p])

\* A node has the public record's files, and its tables refer to them.
StoredInv ==
  stored["publication"] # NoRecord =>
    \E n \in Nodes : /\ stored["publication"].val \in files[n]
                      /\ stored["publication"] \in Roots(store[n])

CopiedInv == CommitInv /\ StoredInv

\* The publisher has one seedbox.
OneNode == \A m, n \in Nodes : m = n

USE StoreAssumption, PublicationAssumption

-----------------------------------------------------------------------------
(* Records and tables.                                                     *)

\* Sequences are numbers, and only the record that stands for none has none.
LEMMA SequenceType ==
  ASSUME NEW r \in AnyRecord
  PROVE  r.seq \in Nat /\ r.seq <= MaxSeq /\ (r.seq = 0 <=> r = NoRecord)
BY DEF AnyRecord, Records, Origin, NoRecord, Record

\* Records of publications, and the one that stands for none.
LEMMA RecordsAre ==
  /\ NoRecord \in Records /\ NoRecord \in Origin /\ NoRecord \in AnyRecord /\ NoRecord.seq = 0
  /\ Records \subseteq AnyRecord /\ Origin \subseteq AnyRecord
  /\ \A r \in Records : r.val \in Values
BY DEF AnyRecord, Records, Origin, NoRecord, Record, Values

\* Of some records that are bounded by MaxSeq, one has the highest sequence.
LEMMA HighestExists ==
  ASSUME NEW S \in SUBSET AnyRecord, S # {}
  PROVE  \E v \in S : \A w \in S : w.seq <= v.seq
<1> DEFINE Gap == {MaxSeq - v.seq : v \in S}
<1>1. Gap \subseteq Nat /\ Gap # {}
  BY SequenceType
<1>2. \E x \in Gap : \A y \in Gap : ~ (<<y, x>> \in OpToRel(<, Nat))
  BY <1>1, NatLessThanWellFounded, WFMin
<1>3. PICK x \in Gap : \A y \in Gap : ~ (y < x)
  BY <1>1, <1>2 DEF OpToRel
<1>4. PICK v \in S : x = MaxSeq - v.seq
  OBVIOUS
<1>5. \A w \in S : w.seq <= v.seq
  <2> SUFFICES ASSUME NEW w \in S PROVE w.seq <= v.seq
    OBVIOUS
  <2>1. ~ (MaxSeq - w.seq < MaxSeq - v.seq)
    BY <1>3, <1>4
  <2>2. v.seq \in Nat /\ w.seq \in Nat
    BY SequenceType
  <2> HIDE DEF Gap
  <2>. QED
    BY <2>1, <2>2
<1>. QED
  BY <1>5

\* Latest is one of the records, or none, and as high as each.
LEMMA LatestIs ==
  ASSUME NEW S \in SUBSET AnyRecord
  PROVE  /\ Latest(S) \in S \cup {NoRecord} /\ Latest(S) \in AnyRecord
         /\ \A s \in S : s.seq <= Latest(S).seq
<1>1. S \cup {NoRecord} \in SUBSET AnyRecord /\ S \cup {NoRecord} # {}
  BY RecordsAre
<1>2. \E r \in S \cup {NoRecord} : \A s \in S : s.seq <= r.seq
  BY <1>1, HighestExists
<1>. QED
  BY <1>1, <1>2 DEF Latest

\* The later of two records.
LEMMA LatestOfTwo ==
  ASSUME NEW a \in Records, NEW b \in Records
  PROVE  /\ Latest({a, b}) \in {a, b} /\ Latest({a, b}) \in Records
         /\ a.seq <= Latest({a, b}).seq /\ b.seq <= Latest({a, b}).seq
<1>1. {a, b} \in SUBSET AnyRecord
  BY RecordsAre
<1>2. /\ Latest({a, b}) \in {a, b, NoRecord} /\ a.seq <= Latest({a, b}).seq /\ b.seq <= Latest({a, b}).seq
  BY <1>1, LatestIs
<1>3. a.seq \in Nat /\ (a.seq = 0 <=> a = NoRecord)
  BY <1>1, SequenceType
<1>. QED
  BY <1>2, <1>3, RecordsAre

\* Maximum is the sequence of the observed record or of a candidate, and not less
\* than that of any.
LEMMA MaximumIs ==
  ASSUME NEW st \in StoreType
  PROVE  /\ Maximum(st) \in Nat /\ st.observed.seq <= Maximum(st)
         /\ \A c \in st.candidates : c.seq <= Maximum(st)
         /\ Highest(st) \in st.candidates \cup {st.observed} /\ Highest(st) \in Records
         /\ Highest(st) # st.observed => st.observed.seq < Maximum(st)
<1> DEFINE pending == Latest(st.candidates)
<1>1. st.observed \in Records /\ st.candidates \in SUBSET AnyRecord /\ st.candidates \subseteq Records
  BY RecordsAre DEF StoreType
<1>2. /\ pending \in st.candidates \cup {NoRecord} /\ pending \in AnyRecord
      /\ \A c \in st.candidates : c.seq <= pending.seq
  BY <1>1, LatestIs
<1>3. /\ st.observed.seq \in Nat /\ pending.seq \in Nat /\ \A c \in st.candidates : c.seq \in Nat
      /\ (pending.seq = 0 <=> pending = NoRecord)
  BY <1>1, <1>2, SequenceType, RecordsAre
<1> HIDE DEF pending
<1>4. Highest(st) = IF pending.seq > st.observed.seq THEN pending ELSE st.observed
  BY DEF Highest, pending
<1>. QED
  BY <1>1, <1>2, <1>3, <1>4 DEF Maximum

\* The fields of a table that are records.
LEMMA StoreFields ==
  ASSUME NEW st \in StoreType
  PROVE  /\ st.observed \in Records /\ st.public \in Records /\ st.adopted \in Records
         /\ st.candidates \subseteq Records
         /\ st.observed.seq \in Nat /\ st.public.seq \in Nat /\ st.adopted.seq \in Nat
         /\ \A c \in st.candidates : c.seq \in Nat
<1>1. /\ st.observed \in Records /\ st.public \in Records /\ st.adopted \in Records
      /\ st.candidates \subseteq Records
  BY DEF StoreType
<1>. QED
  BY <1>1, SequenceType, RecordsAre

\* observe_record keeps the rest of the tables, and the maximum does not fall.
LEMMA ObserveIs ==
  ASSUME NEW st \in StoreType, NEW r \in Records
  PROVE  /\ ObserveRecord(st, r) \in StoreType
         /\ ObserveRecord(st, r).observed = Latest({st.observed, r})
         /\ ObserveRecord(st, r).public = st.public /\ ObserveRecord(st, r).adopted = st.adopted
         /\ ObserveRecord(st, r).candidates = st.candidates
         /\ st.observed.seq <= ObserveRecord(st, r).observed.seq
         /\ Maximum(st) <= Maximum(ObserveRecord(st, r))
<1> DEFINE new == ObserveRecord(st, r)
<1>1. /\ Latest({st.observed, r}) \in Records /\ st.observed.seq <= Latest({st.observed, r}).seq
  BY StoreFields, LatestOfTwo
<1>2. /\ new \in StoreType /\ new.observed = Latest({st.observed, r})
      /\ new.public = st.public /\ new.adopted = st.adopted /\ new.candidates = st.candidates
  BY <1>1 DEF ObserveRecord, StoreType
<1> HIDE DEF new
<1>3. /\ Maximum(st) \in Nat /\ Highest(st) \in st.candidates \cup {st.observed}
      /\ Maximum(st) = Highest(st).seq
  BY MaximumIs DEF Maximum
<1>4. /\ Maximum(new) \in Nat /\ new.observed.seq <= Maximum(new)
      /\ \A c \in new.candidates : c.seq <= Maximum(new)
  BY <1>2, MaximumIs
<1>5. st.observed.seq \in Nat /\ new.observed.seq \in Nat
  BY <1>2, StoreFields
<1>6. Maximum(st) <= Maximum(new)
  BY <1>1, <1>2, <1>3, <1>4, <1>5
<1>. QED
  BY <1>1, <1>2, <1>6 DEF new

\* accept_candidate adds a candidate at most.
LEMMA AcceptIs ==
  ASSUME NEW st \in StoreType, NEW r \in Records
  PROVE  /\ AcceptCandidate(st, r) \in StoreType
         /\ AcceptCandidate(st, r).observed = st.observed /\ AcceptCandidate(st, r).public = st.public
         /\ AcceptCandidate(st, r).adopted = st.adopted
         /\ st.candidates \subseteq AcceptCandidate(st, r).candidates
         /\ st.adopted # r /\ (\A c \in st.candidates : c.seq # r.seq) =>
              AcceptCandidate(st, r).candidates = st.candidates \cup {r}
BY DEF AcceptCandidate, StoreType

\* set_public raises the observed record too.
LEMMA SetPublicIs ==
  ASSUME NEW st \in StoreType, NEW r \in Records, CanSetPublic(st, r)
  PROVE  /\ SetPublic(st, r) \in StoreType
         /\ SetPublic(st, r).public = r /\ SetPublic(st, r).adopted = st.adopted
         /\ SetPublic(st, r).observed = r /\ SetPublic(st, r).candidates = st.candidates
         /\ st.public.seq <= r.seq /\ st.observed.seq <= r.seq
<1>1. /\ st.public.seq \in Nat /\ st.observed.seq \in Nat /\ r.seq \in Nat /\ st.observed \in Records
  BY StoreFields, SequenceType, RecordsAre
<1>2. /\ st.public.seq <= r.seq /\ st.observed.seq <= r.seq
      /\ st.observed.seq = r.seq => st.observed = r
  BY <1>1 DEF CanSetPublic, Conflicts
<1>3. Latest({st.observed, r}) = r
  BY <1>1, <1>2, LatestOfTwo
<1>4. /\ ObserveRecord(st, r) \in StoreType /\ ObserveRecord(st, r).observed = r
      /\ ObserveRecord(st, r).adopted = st.adopted /\ ObserveRecord(st, r).candidates = st.candidates
  BY <1>3, ObserveIs
<1>. QED
  BY <1>2, <1>4 DEF SetPublic, StoreType

\* adopt drops the candidates that are not newer.
LEMMA AdoptIs ==
  ASSUME NEW st \in StoreType, NEW r \in Records
  PROVE  /\ AdoptRecord(st, r) \in StoreType
         /\ AdoptRecord(st, r).observed = st.observed /\ AdoptRecord(st, r).public = st.public
         /\ AdoptRecord(st, r).adopted = r
         /\ AdoptRecord(st, r).candidates = {c \in st.candidates : c.seq > r.seq}
BY DEF AdoptRecord, StoreType

-----------------------------------------------------------------------------
(* What a step of a publisher, and of a node, has to keep.                 *)

\* A publisher that shows no more than before, with tables that know as much.
LEMMA SignedStays ==
  ASSUME NEW st \in StoreType, NEW new \in StoreType, NEW S \in SUBSET Records,
         NEW T \in SUBSET Records, SignedOK(st, S), T \subseteq S \cup {NoRecord},
         Maximum(st) <= Maximum(new), new.adopted.seq <= new.observed.seq
  PROVE  SignedOK(new, T)
<1>1. Maximum(st) \in Nat /\ Maximum(new) \in Nat
  BY MaximumIs
<1>2. \A r \in Records : r.seq \in Nat /\ (r.seq = 0 <=> r = NoRecord)
  BY SequenceType, RecordsAre
<1>3. ~Disagree(T)
  <2> SUFFICES ASSUME NEW r \in T, NEW q \in T, r.seq = q.seq PROVE r = q
    BY DEF Disagree
  <2>1. r \in Records /\ q \in Records
    OBVIOUS
  <2>2. CASE r \in S /\ q \in S
    BY <2>2 DEF SignedOK, Disagree
  <2>3. CASE r = NoRecord \/ q = NoRecord
    BY <1>2, <2>1, <2>3, RecordsAre
  <2>. QED
    BY <2>2, <2>3
<1>4. ASSUME NEW r \in T PROVE r.seq <= Maximum(new)
  <2>1. r.seq \in Nat /\ (r \in S \/ r.seq = 0)
    BY <1>2, RecordsAre
  <2>2. r \in S => r.seq <= Maximum(st)
    BY DEF SignedOK
  <2>. QED
    BY <1>1, <2>1, <2>2
<1>. QED
  BY <1>3, <1>4 DEF SignedOK

\* The parts of a publisher.
LEMMA PublisherFields ==
  ASSUME PublicationInv, NEW p \in Publishers
  PROVE  /\ store[p] \in StoreType /\ journal[p] \in JournalType /\ work[p] \in WorkType
         /\ sent[p] \in SUBSET Records /\ journal[p].rec \in Records /\ work[p].rec \in Records
         /\ journal[p].base \in Records /\ work[p].base \in Records
         /\ journal[p].loc \in Origin /\ work[p].loc \in Origin /\ origins[p] \in Origin
         /\ journal[p].notified \subseteq Nodes /\ work[p].salt \in Salts
         /\ Signed(sent[p], journal[p], work[p]) \in SUBSET Records
         /\ SignedOK(store[p], Signed(sent[p], journal[p], work[p])) /\ WorkOK(work[p])
         /\ store[p].adopted.seq <= store[p].observed.seq
<1>1. /\ store[p] \in StoreType /\ journal[p] \in JournalType /\ work[p] \in WorkType
      /\ sent[p] \in SUBSET Records /\ origins[p] \in Origin
  BY DEF PublicationInv, TypeOK, PublisherType
<1>2. /\ journal[p].rec \in Records /\ journal[p].base \in Records /\ journal[p].loc \in Origin
      /\ journal[p].notified \subseteq Nodes
  BY <1>1 DEF JournalType
<1>3. /\ work[p].rec \in Records /\ work[p].base \in Records /\ work[p].loc \in Origin
      /\ work[p].salt \in Salts
  BY <1>1 DEF WorkType
<1>4. SignedOK(store[p], Signed(sent[p], journal[p], work[p])) /\ WorkOK(work[p])
  BY DEF PublicationInv, SignedInv, WorkInv
<1>5. Signed(sent[p], journal[p], work[p]) \in SUBSET Records
  BY <1>1, <1>2, <1>3 DEF Signed
<1>. QED
  BY <1>1, <1>2, <1>3, <1>4, <1>5 DEF SignedOK

\* The DHT's publication does not go back.
DhtStep ==
  /\ DhtType' /\ PastInv' /\ past \subseteq past'
  /\ stored["publication"].seq <= stored'["publication"].seq

\* The DHT stands still.
LEMMA DhtStays ==
  ASSUME PublicationInv, UNCHANGED dhtVars
  PROVE  DhtStep
<1>1. stored["publication"] \in Records
  BY DEF PublicationInv, TypeOK, DhtType
<1>2. stored["publication"].seq \in Nat
  BY <1>1, SequenceType, RecordsAre
<1>3. DhtType' /\ PastInv'
  BY DEF PublicationInv, TypeOK, DhtType, PastInv, dhtVars
<1>. QED
  BY <1>2, <1>3 DEF DhtStep, dhtVars

\* A step of a publisher: st, j, w and s are its new tables, journal, command and
\* shown records.  It starts a journal anew or keeps what its journal says of nodes.
PublisherMoves(p, st, j, w, s) ==
  /\ store' = [store EXCEPT ![p] = st] /\ journal' = [journal EXCEPT ![p] = j]
  /\ work' = [work EXCEPT ![p] = w] /\ sent' = [sent EXCEPT ![p] = s]
  /\ j.notified = {} \/ (j.rec = journal[p].rec /\ j.notified = journal[p].notified)
  /\ UNCHANGED <<files, seeding, removing, jobs, gc>>

\* Such a step keeps the invariant if what the publisher signed stays sound.
LEMMA PublisherKeeps ==
  ASSUME PublicationInv, NEW p \in Publishers, NEW st \in StoreType, NEW j \in JournalType,
         NEW w \in WorkType, NEW s \in SUBSET Records, PublisherMoves(p, st, j, w, s),
         origins' \in [Publishers -> Origin], DhtStep, WorkOK(w), SignedOK(st, Signed(s, j, w))
  PROVE  PublicationInv'
<1> USE DEF PublisherMoves
<1>1. /\ store \in [Publishers \cup Nodes -> StoreType] /\ journal \in [Publishers -> JournalType]
      /\ work \in [Publishers -> WorkType] /\ sent \in [Publishers -> SUBSET Records]
  BY DEF PublicationInv, TypeOK, PublisherType
<1>2. TypeOK'
  <2>1. store' \in [Publishers \cup Nodes -> StoreType]
    BY <1>1
  <2>2. PublisherType'
    BY <1>1 DEF PublisherType
  <2>3. NodeType'
    BY DEF PublicationInv, TypeOK, NodeType
  <2>. QED
    BY <2>1, <2>2, <2>3 DEF TypeOK, DhtStep
<1>3. SignedInv'
  <2> SUFFICES ASSUME NEW q \in Publishers
               PROVE  SignedOK(store'[q], Signed(sent'[q], journal'[q], work'[q]))
    BY DEF SignedInv
  <2>1. CASE q = p
    <3>1. store'[q] = st /\ sent'[q] = s /\ journal'[q] = j /\ work'[q] = w
      BY <1>1, <2>1
    <3>. QED
      BY <3>1
  <2>2. CASE q # p
    <3>1. store'[q] = store[q] /\ sent'[q] = sent[q] /\ journal'[q] = journal[q] /\ work'[q] = work[q]
      BY <1>1, <2>2
    <3>. QED
      BY <3>1, PublisherFields
  <2>. QED
    BY <2>1, <2>2
<1>4. WorkInv'
  BY <1>1 DEF PublicationInv, WorkInv
<1>5. \A n \in Nodes : store'[n] = store[n]
  BY <1>1
<1>6. PublicWasPublished'
  BY <1>5 DEF PublicationInv, PublicWasPublished, DhtStep
<1>7. PastInv' /\ SeedInv'
  BY DEF PublicationInv, SeedInv, DhtStep
<1>8. AdmitInv'
  <2> SUFFICES ASSUME NEW q \in Publishers, NEW n \in journal'[q].notified,
                      journal'[q].rec.seq > stored'["publication"].seq
               PROVE  journal'[q].rec \in store'[n].candidates
    BY DEF AdmitInv
  <2>1. journal'[q].rec = journal[q].rec /\ n \in journal[q].notified
    BY <1>1
  <2>2. n \in Nodes /\ journal[q].rec \in Records
    BY <2>1, PublisherFields
  <2>3. stored["publication"] \in Records /\ stored'["publication"] \in Records
    BY DEF PublicationInv, TypeOK, DhtType, DhtStep
  <2>4. /\ journal[q].rec.seq \in Nat /\ stored["publication"].seq \in Nat
        /\ stored'["publication"].seq \in Nat
    BY <2>2, <2>3, SequenceType, RecordsAre
  <2>5. journal[q].rec.seq > stored["publication"].seq
    BY <2>1, <2>4 DEF DhtStep
  <2>. QED
    BY <1>5, <2>1, <2>2, <2>5 DEF PublicationInv, AdmitInv
<1>. QED
  BY <1>2, <1>3, <1>4, <1>6, <1>7, <1>8 DEF PublicationInv

\* The tables st of a node follow on store[n]: they name what was published, and
\* have dropped no candidate that is newer.
Follows(n, st) ==
  /\ st \in StoreType /\ st.public \in past \cup {NoRecord} /\ st.observed = st.public
  /\ st.adopted.seq <= st.public.seq /\ store[n].public.seq <= st.public.seq
  /\ \A c \in store[n].candidates : c \in st.candidates \/ c.seq <= st.public.seq

\* From the tables st to new, only candidates that are not newer are dropped.
Keeps(st, new) == \A c \in st.candidates : c \in new.candidates \/ c.seq <= new.public.seq

\* The tables of a node.
LEMMA NodeFields ==
  ASSUME PublicationInv, NEW n \in Nodes
  PROVE  /\ store[n] \in StoreType /\ Follows(n, store[n])
         /\ files[n] \subseteq Values /\ seeding[n] \subseteq Values /\ removing[n] \subseteq Values
         /\ jobs[n] \subseteq Records /\ gc[n] \subseteq Values
         /\ seeding[n] \subseteq files[n] /\ removing[n] \cap seeding[n] = {}
<1>1. store[n] \in StoreType
  BY DEF PublicationInv, TypeOK
<1>2. store[n].public.seq \in Nat
  BY <1>1, StoreFields
<1>3. Follows(n, store[n])
  BY <1>1, <1>2 DEF PublicationInv, PublicWasPublished, Follows
<1>4. seeding[n] \subseteq files[n] /\ removing[n] \cap seeding[n] = {}
  BY DEF PublicationInv, SeedInv
<1>. QED
  BY <1>1, <1>3, <1>4 DEF PublicationInv, TypeOK, NodeType

\* Adopting the public record follows on.
LEMMA AdoptFollows ==
  ASSUME PublicationInv, NEW n \in Nodes, NEW st, Follows(n, st), NEW record, CanAdopt(st, record)
  PROVE  Follows(n, AdoptRecord(st, record)) /\ Keeps(st, AdoptRecord(st, record))
<1>1. st \in StoreType /\ st.public = record
  BY DEF Follows, CanAdopt
<1>2. st.public \in Records /\ st.public.seq \in Nat /\ \A c \in st.candidates : c.seq \in Nat
  BY <1>1, StoreFields
<1>3. /\ AdoptRecord(st, record) \in StoreType
      /\ AdoptRecord(st, record).observed = st.observed /\ AdoptRecord(st, record).public = st.public
      /\ AdoptRecord(st, record).adopted = record
      /\ AdoptRecord(st, record).candidates = {c \in st.candidates : c.seq > record.seq}
  BY <1>1, <1>2, AdoptIs
<1>. QED
  BY <1>1, <1>2, <1>3 DEF Follows, Keeps

\* settle and schedule store tables that follow on.
LEMMA SettleFollows ==
  ASSUME PublicationInv, NEW n \in Nodes, NEW st, Follows(n, st), NEW record, NEW running, NEW valid,
         Settle(n, st, record, running, valid)
  PROVE  \E new : Follows(n, new) /\ Keeps(st, new) /\ store' = [store EXCEPT ![n] = new]
BY AdoptFollows DEF Settle, Keeps

\* The same of schedule.
LEMMA ScheduleFollows ==
  ASSUME PublicationInv, NEW n \in Nodes, NEW st, Follows(n, st), NEW record, Schedule(n, st, record)
  PROVE  \E new : Follows(n, new) /\ Keeps(st, new) /\ store' = [store EXCEPT ![n] = new]
<1>1. CASE Settle(n, st, record, jobs[n], verified[n])
  BY <1>1, SettleFollows
<1>2. CASE store' = [store EXCEPT ![n] = st]
  BY <1>2 DEF Keeps
<1>. QED
  BY <1>1, <1>2 DEF Schedule

\* What collect has to retire are files of the node.
LEMMA SettleGc ==
  ASSUME PublicationInv, NEW n \in Nodes, NEW st, NEW record, NEW running, NEW valid,
         Settle(n, st, record, running, valid)
  PROVE  gc' \in [Nodes -> SUBSET Values]
<1>1. gc \in [Nodes -> SUBSET Values] /\ files[n] \subseteq Values
  BY DEF PublicationInv, TypeOK, NodeType
<1>2. \A x : gc' = [gc EXCEPT ![n] = @ \cup (files[n] \ x)] => gc' \in [Nodes -> SUBSET Values]
  BY <1>1
<1>. QED
  BY <1>1, <1>2 DEF Settle, Collect

\* schedule starts at most one job.
LEMMA ScheduleJobs ==
  ASSUME PublicationInv, NEW n \in Nodes, NEW st, NEW record \in Records, Schedule(n, st, record)
  PROVE  jobs' \in [Nodes -> SUBSET Records] /\ gc' \in [Nodes -> SUBSET Values]
<1>1. jobs \in [Nodes -> SUBSET Records] /\ gc \in [Nodes -> SUBSET Values]
  BY DEF PublicationInv, TypeOK, NodeType
<1>2. CASE Settle(n, st, record, jobs[n], verified[n]) /\ UNCHANGED jobs
  BY <1>1, <1>2, SettleGc
<1>3. CASE jobs' = [jobs EXCEPT ![n] = StartJob(@, record)] /\ UNCHANGED gc
  BY <1>1, <1>3 DEF StartJob
<1>. QED
  BY <1>2, <1>3 DEF Schedule

\* A step of a node whose tables follow on, and whose files stay in order.
LEMMA NodeKeeps ==
  ASSUME PublicationInv, NEW n \in Nodes, NEW new, Follows(n, new),
         store' = [store EXCEPT ![n] = new], UNCHANGED <<dhtVars, pubVars>>, NodeType', SeedInv'
  PROVE  PublicationInv'
<1> USE DEF pubVars, dhtVars
<1>1. store \in [Publishers \cup Nodes -> StoreType] /\ new \in StoreType
  BY DEF PublicationInv, TypeOK, Follows
<1>2. TypeOK'
  BY <1>1 DEF PublicationInv, TypeOK, DhtType, PublisherType
<1>3. \A p \in Publishers : store'[p] = store[p]
  BY <1>1
<1>4. SignedInv' /\ WorkInv' /\ PastInv'
  BY <1>3 DEF PublicationInv, SignedInv, WorkInv, PastInv
<1>5. PublicWasPublished'
  BY <1>1 DEF PublicationInv, PublicWasPublished, Follows
<1>6. AdmitInv'
  <2> SUFFICES ASSUME NEW p \in Publishers, NEW m \in journal[p].notified,
                      journal[p].rec.seq > stored["publication"].seq
               PROVE  journal[p].rec \in store'[m].candidates
    BY DEF AdmitInv
  <2>1. m \in Nodes /\ journal[p].rec \in Records /\ journal[p].rec \in store[m].candidates
    BY PublisherFields DEF PublicationInv, AdmitInv
  <2>2. CASE m # n
    BY <1>1, <2>1, <2>2
  <2>3. CASE m = n
    <3>1. stored["publication"] \in Records /\ new.public \in Records
      BY <1>1 DEF PublicationInv, TypeOK, DhtType, StoreType
    <3>2. /\ stored["publication"].seq \in Nat /\ new.public.seq \in Nat
          /\ journal[p].rec.seq \in Nat
      BY <2>1, <3>1, SequenceType, RecordsAre
    <3>3. new.public.seq <= stored["publication"].seq
      BY <3>2, RecordsAre DEF Follows, PublicationInv, PastInv
    <3>4. journal[p].rec \in new.candidates
      BY <2>1, <2>3, <3>2, <3>3 DEF Follows
    <3>. QED
      BY <1>1, <2>3, <3>4
  <2>. QED
    BY <2>2, <2>3
<1>. QED
  BY <1>2, <1>4, <1>5, <1>6 DEF PublicationInv

-----------------------------------------------------------------------------
(* The copy of what is public: the same steps.                             *)

\* The public record of a node is never ahead of the DHT's.
LEMMA PublicBehind ==
  ASSUME PublicationInv, NEW st \in StoreType, st.public \in past \cup {NoRecord}
  PROVE  /\ stored["publication"] \in Records /\ stored["publication"].seq \in Nat
         /\ st.public.seq <= stored["publication"].seq
         /\ stored["publication"].seq <= st.public.seq => st.public = stored["publication"]
<1>1. stored["publication"] \in Records /\ st.public \in Records
  BY DEF PublicationInv, TypeOK, DhtType, StoreType
<1>2. /\ stored["publication"].seq \in Nat /\ st.public.seq \in Nat
      /\ (stored["publication"].seq = 0 <=> stored["publication"] = NoRecord)
  BY <1>1, SequenceType, RecordsAre
<1>3. CASE st.public = NoRecord
  BY <1>1, <1>2, <1>3, RecordsAre
<1>4. CASE st.public \in past
  BY <1>1, <1>2, <1>4 DEF PublicationInv, PastInv
<1>. QED
  BY <1>3, <1>4

\* A publisher's step that leaves the DHT alone keeps the copies.
LEMMA PublisherCopies ==
  ASSUME PublicationInv, CopiedInv, NEW p \in Publishers, NEW st, NEW j, NEW w, NEW s,
         PublisherMoves(p, st, j, w, s), UNCHANGED dhtVars, CopiedOK(j, w)
  PROVE  CopiedInv'
<1> USE DEF PublisherMoves, dhtVars
<1>1. /\ store \in [Publishers \cup Nodes -> StoreType] /\ journal \in [Publishers -> JournalType]
      /\ work \in [Publishers -> WorkType]
  BY DEF PublicationInv, TypeOK, PublisherType
<1>2. CommitInv'
  <2> SUFFICES ASSUME NEW q \in Publishers
               PROVE  CopiedOK(journal[q], work[q])'
    BY DEF CommitInv
  <2>1. CASE q = p
    <3>1. journal'[q] = j /\ work'[q] = w
      BY <1>1, <2>1
    <3>. QED
      BY <3>1 DEF CopiedOK
  <2>2. CASE q # p
    <3>1. journal'[q] = journal[q] /\ work'[q] = work[q]
      BY <1>1, <2>2
    <3>. QED
      BY <3>1 DEF CopiedInv, CommitInv, CopiedOK
  <2>. QED
    BY <2>1, <2>2
<1>3. \A n \in Nodes : store'[n] = store[n]
  BY <1>1
<1>4. StoredInv'
  BY <1>3 DEF CopiedInv, StoredInv
<1>. QED
  BY <1>2, <1>4 DEF CopiedInv

\* Tables that follow on still refer to the public record.
LEMMA RootsStay ==
  ASSUME PublicationInv, NEW n \in Nodes, NEW new, Follows(n, new),
         stored["publication"] \in Roots(store[n])
  PROVE  stored["publication"] \in Roots(new)
<1>1. new \in StoreType /\ store[n] \in StoreType
  BY NodeFields DEF Follows
<1>2. /\ stored["publication"] \in Records /\ stored["publication"].seq \in Nat
      /\ stored["publication"] # NoRecord
  BY <1>1, PublicBehind DEF Follows, Roots
<1>3. new.public = stored["publication"] \/ stored["publication"].seq > new.public.seq
  <2>1. new.public.seq \in Nat
    BY <1>1, StoreFields
  <2>. QED
    BY <1>1, <1>2, <2>1, PublicBehind DEF Follows
<1>4. /\ store[n].public.seq \in Nat /\ store[n].adopted.seq \in Nat /\ new.public.seq \in Nat
      /\ store[n].adopted.seq <= store[n].public.seq /\ store[n].public.seq <= new.public.seq
  BY <1>1, StoreFields, NodeFields DEF Follows
<1>5. CASE stored["publication"].seq > new.public.seq
  <2>1. stored["publication"] \in store[n].candidates
    BY <1>2, <1>4, <1>5 DEF Roots
  <2>2. stored["publication"] \in new.candidates
    BY <1>2, <1>4, <1>5, <2>1 DEF Follows
  <2>. QED
    BY <1>2, <2>2 DEF Roots
<1>6. CASE new.public = stored["publication"]
  BY <1>2, <1>6 DEF Roots
<1>. QED
  BY <1>3, <1>5, <1>6

\* A node's step that follows on and keeps the files its tables refer to.
LEMMA NodeCopies ==
  ASSUME PublicationInv, CopiedInv, NEW n \in Nodes, NEW new, Follows(n, new),
         store' = [store EXCEPT ![n] = new], UNCHANGED <<dhtVars, pubVars>>,
         \A m \in Nodes : \A r \in Roots(store[m]) : r.val \in files[m] => r.val \in files'[m]
  PROVE  CopiedInv'
<1> USE DEF pubVars, dhtVars
<1>1. store \in [Publishers \cup Nodes -> StoreType] /\ new \in StoreType
  BY DEF PublicationInv, TypeOK, Follows
<1>2. stored["publication"] \in Records /\ stored["publication"].seq \in Nat
  BY <1>1, PublicBehind DEF Follows
<1>3. CommitInv'
  <2> SUFFICES ASSUME NEW p \in Publishers, Committing(work[p]),
                      journal[p].rec.seq > stored["publication"].seq
               PROVE  \E m \in journal[p].notified : journal[p].rec.val \in files'[m]
    BY DEF CommitInv, CopiedOK
  <2>1. PICK m \in journal[p].notified : journal[p].rec.val \in files[m]
    BY DEF CopiedInv, CommitInv, CopiedOK
  <2>2. m \in Nodes /\ journal[p].rec \in Records
    BY PublisherFields
  <2>3. journal[p].rec \in store[m].candidates
    BY DEF PublicationInv, AdmitInv
  <2>4. journal[p].rec # NoRecord
    BY <1>2, RecordsAre
  <2>5. journal[p].rec \in Roots(store[m])
    BY <2>3, <2>4 DEF Roots
  <2>. QED
    BY <2>1, <2>2, <2>5
<1>4. StoredInv'
  <2> SUFFICES ASSUME stored["publication"] # NoRecord
               PROVE  \E m \in Nodes : /\ stored["publication"].val \in files'[m]
                                       /\ stored["publication"] \in Roots(store'[m])
    BY DEF StoredInv
  <2>1. PICK m \in Nodes : /\ stored["publication"].val \in files[m]
                           /\ stored["publication"] \in Roots(store[m])
    BY DEF CopiedInv, StoredInv
  <2>2. stored["publication"].val \in files'[m]
    BY <2>1
  <2>3. CASE m # n
    BY <1>1, <2>1, <2>2, <2>3
  <2>4. CASE m = n
    <3>1. stored["publication"] \in Roots(new)
      BY <2>1, <2>4, RootsStay
    <3>. QED
      BY <1>1, <2>2, <2>4, <3>1
  <2>. QED
    BY <2>3, <2>4
<1>. QED
  BY <1>3, <1>4 DEF CopiedInv

-----------------------------------------------------------------------------
(* The steps of a publisher.                                               *)

\* What every step keeps: the invariant, and with one seedbox the copies too.
Kept == PublicationInv' /\ (OneNode /\ CopiedInv => CopiedInv')

\* A step that signs nothing and leaves the DHT alone.
LEMMA QuietKeeps ==
  ASSUME PublicationInv, NEW p \in Publishers, NEW st \in StoreType, NEW j \in JournalType,
         NEW w \in WorkType, PublisherMoves(p, st, j, w, sent[p]), UNCHANGED dhtVars,
         origins' \in [Publishers -> Origin], WorkOK(w),
         Maximum(store[p]) <= Maximum(st), st.adopted.seq <= st.observed.seq,
         j.rec \in {journal[p].rec, work[p].rec}, w.rec \in {work[p].rec, NoRecord},
         OneNode /\ CopiedInv => CopiedOK(j, w)
  PROVE  Kept
<1> DEFINE S == Signed(sent[p], journal[p], work[p])
           T == Signed(sent[p], j, w)
<1>1. /\ store[p] \in StoreType /\ sent[p] \in SUBSET Records /\ S \in SUBSET Records
      /\ SignedOK(store[p], S) /\ journal[p].rec \in Records /\ work[p].rec \in Records
  BY PublisherFields
<1>2. T \subseteq S \cup {NoRecord} /\ T \in SUBSET Records
  BY <1>1, RecordsAre DEF Signed
<1> HIDE DEF S, T
<1>3. SignedOK(st, T)
  BY <1>1, <1>2, SignedStays
<1>4. DhtStep
  BY DhtStays
<1>5. PublicationInv'
  BY <1>1, <1>3, <1>4, PublisherKeeps DEF T
<1>6. ASSUME OneNode, CopiedInv PROVE CopiedInv'
  BY <1>6, PublisherCopies
<1>. QED
  BY <1>5, <1>6 DEF Kept

\* The same of a step that leaves the tables alone.
LEMMA StillKeeps ==
  ASSUME PublicationInv, NEW p \in Publishers, NEW j \in JournalType, NEW w \in WorkType,
         journal' = [journal EXCEPT ![p] = j], work' = [work EXCEPT ![p] = w],
         UNCHANGED <<dhtVars, store, sent, files, seeding, removing, jobs, gc>>,
         j.notified = {} \/ (j.rec = journal[p].rec /\ j.notified = journal[p].notified),
         origins' \in [Publishers -> Origin], WorkOK(w),
         j.rec \in {journal[p].rec, work[p].rec}, w.rec \in {work[p].rec, NoRecord},
         OneNode /\ CopiedInv => CopiedOK(j, w)
  PROVE  Kept
<1>1. /\ store \in [Publishers \cup Nodes -> StoreType] /\ sent \in [Publishers -> SUBSET Records]
  BY DEF PublicationInv, TypeOK, PublisherType
<1>2. store' = [store EXCEPT ![p] = store[p]] /\ sent' = [sent EXCEPT ![p] = sent[p]]
  BY <1>1
<1>3. PublisherMoves(p, store[p], j, w, sent[p])
  BY <1>2 DEF PublisherMoves
<1>4. store[p] \in StoreType /\ store[p].adopted.seq <= store[p].observed.seq
  BY PublisherFields
<1>5. Maximum(store[p]) <= Maximum(store[p])
  BY <1>4, MaximumIs
<1>. QED
  BY <1>3, <1>4, <1>5, QuietKeeps

\* The state between two commands, and the way from one step of a command to the next.
LEMMA IdleIs ==
  /\ Idle \in WorkType /\ Idle.rec = NoRecord /\ Idle.pc = "idle" /\ ~Idle.only
  /\ Idle.salt = "locations"
BY RecordsAre DEF Idle, WorkType, Salts

\* An idle command is sound and commits nothing.
LEMMA IdleOK ==
  ASSUME NEW j
  PROVE  WorkOK(Idle) /\ CopiedOK(j, Idle) /\ Idle.rec = NoRecord /\ Idle \in WorkType
BY IdleIs DEF WorkOK, CopiedOK, Committing

\* The journal in another phase.
LEMMA PhaseIs ==
  ASSUME PublicationInv, NEW p \in Publishers,
         NEW phase \in {"transferring", "copied", "committing", "conflict", "complete"}
  PROVE  LET j == [journal[p] EXCEPT !.phase = phase]
         IN  /\ j \in JournalType /\ j.rec = journal[p].rec /\ j.notified = journal[p].notified
             /\ (Phase(p, phase) => journal' = [journal EXCEPT ![p] = j])
<1>1. journal \in [Publishers -> JournalType] /\ journal[p] \in JournalType
  BY PublisherFields DEF PublicationInv, TypeOK, PublisherType
<1>2. Phase(p, phase) => journal' = [journal EXCEPT ![p] = [journal[p] EXCEPT !.phase = phase]]
  BY <1>1 DEF Phase
<1>. QED
  BY <1>1, <1>2 DEF JournalType

\* The command at another step.
LEMMA GotoIs ==
  ASSUME PublicationInv, NEW p \in Publishers,
         NEW pc \in {"prepared", "asking", "copied", "store", "read", "confirmed"}
  PROVE  LET w == [work[p] EXCEPT !.pc = pc]
         IN  /\ w \in WorkType /\ w.rec = work[p].rec /\ w.only = work[p].only
             /\ w.salt = work[p].salt /\ w.pc = pc /\ WorkOK(w)
             /\ (Goto(p, pc) => work' = [work EXCEPT ![p] = w])
<1> DEFINE w == [work[p] EXCEPT !.pc = pc]
<1>1. work \in [Publishers -> WorkType] /\ work[p] \in WorkType /\ WorkOK(work[p])
  BY PublisherFields DEF PublicationInv, TypeOK, PublisherType
<1>2. Goto(p, pc) => work' = [work EXCEPT ![p] = w]
  BY <1>1 DEF Goto
<1>3. /\ w \in WorkType /\ w.rec = work[p].rec /\ w.only = work[p].only
      /\ w.salt = work[p].salt /\ w.pc = pc
  BY <1>1 DEF WorkType
<1>4. WorkOK(w)
  <2> HIDE DEF w
  <2>. QED
    BY <1>1, <1>3 DEF WorkOK
<1>. QED
  BY <1>2, <1>3, <1>4

\* A record of locations that a publisher signs.
LEMMA PreparedIs ==
  ASSUME NEW p \in Publishers, NEW loc \in PreparedLocations(p)
  PROVE  loc \in Origin
<1>1. \A m : NextSequences(m) \subseteq 1 .. MaxSeq
  BY DEF NextSequences
<1>2. PICK n \in UNION {NextSequences(Latest({heard, origins[p]}).seq) : heard \in Resolved("locations")} :
        loc = Record(n, p)
  BY DEF PreparedLocations
<1>3. n \in 1 .. MaxSeq
  BY <1>1, <1>2
<1>. QED
  BY <1>2, <1>3 DEF Record, Origin

\* Commands that end at once: prepare's journal, the signature kept meanwhile.
LEMMA SaveJournalKeeps ==
  ASSUME PublicationInv, NEW p \in Publishers, SaveJournal(p)
  PROVE  Kept
<1>1. PICK loc \in PreparedLocations(p) :
        journal' = [journal EXCEPT ![p] =
          [phase |-> "prepared", rec |-> work[p].rec, base |-> work[p].base,
           loc |-> loc, notified |-> {}]]
  BY DEF SaveJournal
<1> DEFINE j == [phase |-> "prepared", rec |-> work[p].rec, base |-> work[p].base,
                 loc |-> loc, notified |-> {}]
           w == [Idle EXCEPT !.pc = "prepared"]
<1>2. work[p].rec \in Records /\ work[p].base \in Records
  BY PublisherFields
<1>3. loc \in Origin
  BY PreparedIs
<1>4. j \in JournalType /\ j.rec = work[p].rec /\ j.notified = {}
  BY <1>2, <1>3 DEF JournalType
<1>5. w \in WorkType /\ w.rec = NoRecord /\ w.pc = "prepared" /\ ~w.only
  BY IdleIs DEF WorkType
<1> HIDE DEF j
<1>6. /\ journal' = [journal EXCEPT ![p] = j] /\ work' = [work EXCEPT ![p] = w]
      /\ UNCHANGED <<dhtVars, store, sent, files, seeding, removing, jobs, gc>>
      /\ origins' \in [Publishers -> Origin]
  BY <1>1 DEF j, SaveJournal, nodeVars, PublicationInv, TypeOK, PublisherType
<1> HIDE DEF w
<1>7. WorkOK(w) /\ CopiedOK(j, w)
  BY <1>5 DEF WorkOK, CopiedOK, Committing
<1>. QED
  BY <1>4, <1>5, <1>6, <1>7, StillKeeps

\* resume takes the journal as it is.
LEMMA ResumeKeeps ==
  ASSUME PublicationInv, NEW p \in Publishers, Resume(p)
  PROVE  Kept
<1> DEFINE w == [work[p] EXCEPT !.pc = "prepared"]
<1>1. /\ w \in WorkType /\ w.rec = work[p].rec /\ w.pc = "prepared" /\ WorkOK(w)
      /\ work' = [work EXCEPT ![p] = w]
  BY GotoIs DEF Resume
<1>2. journal[p] \in JournalType /\ journal \in [Publishers -> JournalType]
  BY PublisherFields DEF PublicationInv, TypeOK, PublisherType
<1>3. /\ journal' = [journal EXCEPT ![p] = journal[p]]
      /\ UNCHANGED <<dhtVars, store, sent, files, seeding, removing, jobs, gc>>
      /\ origins' \in [Publishers -> Origin]
  BY <1>2 DEF Resume, nodeVars, PublicationInv, TypeOK, PublisherType
<1> HIDE DEF w
<1>4. CopiedOK(journal[p], w)
  BY <1>1 DEF CopiedOK, Committing
<1>. QED
  BY <1>1, <1>2, <1>3, <1>4, StillKeeps

\* The command `locations` signs only locations.
LEMMA PrepareLocationsKeeps ==
  ASSUME PublicationInv, NEW p \in Publishers, PrepareLocations(p)
  PROVE  Kept
<1>1. PICK loc \in PreparedLocations(p) :
        work' = [work EXCEPT ![p] = [Idle EXCEPT !.pc = "put", !.loc = loc, !.only = TRUE]]
  BY DEF PrepareLocations
<1> DEFINE w == [Idle EXCEPT !.pc = "put", !.loc = loc, !.only = TRUE]
<1>2. loc \in Origin
  BY PreparedIs
<1>3. w \in WorkType /\ w.rec = NoRecord /\ w.only /\ w.salt = "locations"
  BY <1>2, IdleIs DEF WorkType
<1>4. journal[p] \in JournalType /\ journal \in [Publishers -> JournalType]
  BY PublisherFields DEF PublicationInv, TypeOK, PublisherType
<1>5. /\ journal' = [journal EXCEPT ![p] = journal[p]]
      /\ UNCHANGED <<dhtVars, store, sent, files, seeding, removing, jobs, gc>>
      /\ origins' \in [Publishers -> Origin]
  BY <1>4 DEF PrepareLocations, nodeVars, PublicationInv, TypeOK, PublisherType
<1>6. work' = [work EXCEPT ![p] = w]
  BY <1>1
<1> HIDE DEF w
<1>7. WorkOK(w) /\ CopiedOK(journal[p], w)
  BY <1>3 DEF WorkOK, CopiedOK, Committing
<1>. QED
  BY <1>3, <1>4, <1>5, <1>6, <1>7, StillKeeps

\* transfer begins.
LEMMA StartTransferKeeps ==
  ASSUME PublicationInv, NEW p \in Publishers, StartTransfer(p)
  PROVE  Kept
<1> DEFINE j == [journal[p] EXCEPT !.phase = "transferring"]
           w == [work[p] EXCEPT !.pc = "asking"]
<1>1. /\ w \in WorkType /\ w.rec = work[p].rec /\ w.pc = "asking" /\ WorkOK(w)
      /\ work' = [work EXCEPT ![p] = w]
  BY GotoIs DEF StartTransfer
<1>2. /\ j \in JournalType /\ j.rec = journal[p].rec /\ j.notified = journal[p].notified
      /\ journal' = [journal EXCEPT ![p] = j]
  BY PhaseIs DEF StartTransfer
<1>3. /\ UNCHANGED <<dhtVars, store, sent, files, seeding, removing, jobs, gc>>
      /\ origins' \in [Publishers -> Origin]
  BY DEF StartTransfer, nodeVars, PublicationInv, TypeOK, PublisherType
<1> HIDE DEF w, j
<1>4. CopiedOK(j, w)
  BY <1>1 DEF CopiedOK, Committing
<1>. QED
  BY <1>1, <1>2, <1>3, <1>4, StillKeeps

\* A complete node is seen: with one seedbox, it is the one that admitted the candidate.
LEMMA CopyObservedKeeps ==
  ASSUME PublicationInv, NEW p \in Publishers, CopyObserved(p)
  PROVE  Kept
<1> DEFINE j == [journal[p] EXCEPT !.phase = "copied"]
           w == [work[p] EXCEPT !.pc = "copied"]
<1>1. /\ w \in WorkType /\ w.rec = work[p].rec /\ WorkOK(w)
      /\ work' = [work EXCEPT ![p] = w]
  BY GotoIs DEF CopyObserved
<1>2. /\ j \in JournalType /\ j.rec = journal[p].rec /\ j.notified = journal[p].notified
      /\ journal' = [journal EXCEPT ![p] = j]
  BY PhaseIs DEF CopyObserved
<1>3. /\ UNCHANGED <<dhtVars, store, sent, files, seeding, removing, jobs, gc>>
      /\ origins' \in [Publishers -> Origin]
  BY DEF CopyObserved, nodeVars, PublicationInv, TypeOK, PublisherType
<1> HIDE DEF w, j
<1>4. ASSUME OneNode PROVE CopiedOK(j, w)
  <2>1. PICK n \in Nodes : journal[p].rec.val \in seeding[n]
    BY DEF CopyObserved, CopyComplete
  <2>2. journal[p].rec.val \in files[n]
    BY <2>1, NodeFields
  <2>3. n \in journal[p].notified
    BY <1>4, PublisherFields DEF CopyObserved, OneNode
  <2>. QED
    BY <1>2, <2>2, <2>3 DEF CopiedOK
<1>. QED
  BY <1>1, <1>2, <1>3, <1>4, StillKeeps

\* An error, a timeout or a dead process leaves what was saved.
LEMMA FailKeeps ==
  ASSUME PublicationInv, NEW p \in Publishers, Fail(p)
  PROVE  Kept
<1>1. journal[p] \in JournalType /\ journal \in [Publishers -> JournalType]
  BY PublisherFields DEF PublicationInv, TypeOK, PublisherType
<1>2. /\ journal' = [journal EXCEPT ![p] = journal[p]] /\ work' = [work EXCEPT ![p] = Idle]
      /\ UNCHANGED <<dhtVars, store, sent, files, seeding, removing, jobs, gc>>
      /\ origins' \in [Publishers -> Origin]
  BY <1>1 DEF Fail, Quit, nodeVars, PublicationInv, TypeOK, PublisherType
<1>. QED
  BY <1>1, <1>2, IdleOK, StillKeeps

\* The end of a publication.
LEMMA FinishKeeps ==
  ASSUME PublicationInv, NEW p \in Publishers, Finish(p)
  PROVE  Kept
<1> DEFINE j == [journal[p] EXCEPT !.phase = "complete"]
<1>1. /\ j \in JournalType /\ j.rec = journal[p].rec /\ j.notified = journal[p].notified
      /\ journal' = [journal EXCEPT ![p] = j]
  BY PhaseIs DEF Finish
<1>2. /\ work' = [work EXCEPT ![p] = Idle]
      /\ UNCHANGED <<dhtVars, store, sent, files, seeding, removing, jobs, gc>>
      /\ origins' \in [Publishers -> Origin]
  BY DEF Finish, Quit, nodeVars, PublicationInv, TypeOK, PublisherType
<1> HIDE DEF j
<1>. QED
  BY <1>1, <1>2, IdleOK, StillKeeps

\* A conflict ends the command; the journal says so unless there is none.
LEMMA RejectKeeps ==
  ASSUME PublicationInv, NEW p \in Publishers, Reject(p),
         UNCHANGED <<dhtVars, store, sent, files, seeding, removing, jobs, gc, origins>>
  PROVE  Kept
<1>1. work' = [work EXCEPT ![p] = Idle] /\ origins' \in [Publishers -> Origin]
  BY DEF Reject, Quit, PublicationInv, TypeOK, PublisherType
<1>2. CASE UNCHANGED journal
  <2>1. journal[p] \in JournalType /\ journal \in [Publishers -> JournalType]
    BY PublisherFields DEF PublicationInv, TypeOK, PublisherType
  <2>2. journal' = [journal EXCEPT ![p] = journal[p]]
    BY <1>2, <2>1
  <2>. QED
    BY <1>1, <2>1, <2>2, IdleOK, StillKeeps
<1>3. CASE Phase(p, "conflict")
  <2> DEFINE j == [journal[p] EXCEPT !.phase = "conflict"]
  <2>1. /\ j \in JournalType /\ j.rec = journal[p].rec /\ j.notified = journal[p].notified
        /\ journal' = [journal EXCEPT ![p] = j]
    BY <1>3, PhaseIs
  <2> HIDE DEF j
  <2>. QED
    BY <1>1, <2>1, IdleOK, StillKeeps
<1>. QED
  BY <1>2, <1>3 DEF Reject

\* The lookup of put_signed.
LEMMA PutFoundKeeps ==
  ASSUME PublicationInv, NEW p \in Publishers, PutFound(p)
  PROVE  Kept
<1>1. UNCHANGED <<dhtVars, store, sent, files, seeding, removing, jobs, gc, origins>>
  BY DEF PutFound, nodeVars
<1>2. CASE Reject(p)
  BY <1>1, <1>2, RejectKeeps
<1>3. CASE Goto(p, "store") /\ UNCHANGED journal
  <2> DEFINE w == [work[p] EXCEPT !.pc = "store"]
  <2>1. /\ w \in WorkType /\ w.rec = work[p].rec /\ WorkOK(w) /\ w.only = work[p].only
        /\ work' = [work EXCEPT ![p] = w]
    BY <1>3, GotoIs
  <2>2. journal[p] \in JournalType /\ journal \in [Publishers -> JournalType]
    BY PublisherFields DEF PublicationInv, TypeOK, PublisherType
  <2>3. journal' = [journal EXCEPT ![p] = journal[p]] /\ origins' \in [Publishers -> Origin]
    BY <1>1, <1>3, <2>2 DEF PublicationInv, TypeOK, PublisherType
  <2> HIDE DEF w
  <2>4. work[p].pc = "put"
    BY DEF PutFound, At
  <2>5. CopiedInv => CopiedOK(journal[p], w)
    BY <2>1, <2>4 DEF CopiedInv, CommitInv, CopiedOK, Committing
  <2>. QED
    BY <1>1, <2>1, <2>2, <2>3, <2>5, StillKeeps
<1>. QED
  BY <1>2, <1>3 DEF PutFound

\* The locations are read back; the publication is next, or nothing.
LEMMA LocationsReadbackKeeps ==
  ASSUME PublicationInv, NEW p \in Publishers, LocationsReadback(p)
  PROVE  Kept
<1>1. UNCHANGED <<dhtVars, store, sent, files, seeding, removing, jobs, gc>>
  BY DEF LocationsReadback, nodeVars
<1>2. CASE Reject(p) /\ UNCHANGED origins
  BY <1>1, <1>2, RejectKeeps
<1>3. CASE /\ origins' = [origins EXCEPT ![p] = work[p].loc]
           /\ work' = [work EXCEPT ![p] =
                IF @.only THEN Idle ELSE [Idle EXCEPT !.pc = "put", !.salt = "publication"]]
           /\ UNCHANGED journal
  <2> DEFINE next == [Idle EXCEPT !.pc = "put", !.salt = "publication"]
             w == IF work[p].only THEN Idle ELSE next
  <2>1. /\ next \in WorkType /\ next.rec = NoRecord /\ ~next.only
    BY IdleIs DEF WorkType, Salts
  <2>2. w \in WorkType /\ w.rec = NoRecord /\ WorkOK(w)
    <3> HIDE DEF next
    <3>. QED
      BY <2>1, IdleOK DEF WorkOK
  <2>3. /\ journal[p] \in JournalType /\ journal \in [Publishers -> JournalType]
        /\ work \in [Publishers -> WorkType] /\ origins \in [Publishers -> Origin]
        /\ work[p].loc \in Origin
    BY PublisherFields DEF PublicationInv, TypeOK, PublisherType
  <2>4. journal' = [journal EXCEPT ![p] = journal[p]] /\ origins' \in [Publishers -> Origin]
    BY <1>3, <2>3
  <2>5. work' = [work EXCEPT ![p] = w]
    BY <1>3, <2>3
  <2>6. CopiedInv => CopiedOK(journal[p], w)
    <3>1. work[p].pc = "read"
      BY DEF LocationsReadback, At
    <3> HIDE DEF next
    <3>2. CASE work[p].only
      BY <3>2, IdleOK
    <3>3. CASE ~work[p].only
      BY <3>1, <3>3 DEF CopiedInv, CommitInv, CopiedOK, Committing
    <3>. QED
      BY <3>2, <3>3
  <2> HIDE DEF w
  <2>. QED
    BY <1>1, <2>2, <2>3, <2>4, <2>5, <2>6, StillKeeps
<1>. QED
  BY <1>2, <1>3 DEF LocationsReadback

\* What current() hears is a publication or nothing.
LEMMA HeardIs ==
  ASSUME PublicationInv
  PROVE  Heard \subseteq Records
<1>1. \A n \in Nodes : Answers(n) \subseteq Records
  <2> SUFFICES ASSUME NEW n \in Nodes PROVE Answers(n) \subseteq Records
    OBVIOUS
  <2>1. store[n].public \in Records
    BY NodeFields, StoreFields
  <2>. QED
    BY <2>1 DEF Answers, PublicationInv, TypeOK, DhtType
<1>2. Resolved("publication") \subseteq Records
  BY RecordsAre DEF Resolved, PublicationInv, TypeOK, DhtType
<1>. QED
  BY <1>1, <1>2 DEF Heard

\* prepare looks the name up.
LEMMA PrepareKeeps ==
  ASSUME PublicationInv, NEW p \in Publishers, Prepare(p)
  PROVE  Kept
<1>1. PICK r \in Heard :
        /\ store' = [store EXCEPT ![p] = ObserveRecord(@, r)]
        /\ work' = [work EXCEPT ![p] = [Idle EXCEPT !.pc = "looked",
                                        !.base = Latest({r, store[p].observed})]]
  BY DEF Prepare
<1> DEFINE st == ObserveRecord(store[p], r)
           w == [Idle EXCEPT !.pc = "looked", !.base = Latest({r, store[p].observed})]
<1>2. r \in Records /\ store[p] \in StoreType /\ store[p].adopted.seq <= store[p].observed.seq
  BY HeardIs, PublisherFields
<1>3. /\ st \in StoreType /\ st.adopted = store[p].adopted
      /\ store[p].observed.seq <= st.observed.seq /\ Maximum(store[p]) <= Maximum(st)
  BY <1>2, ObserveIs
<1> HIDE DEF st
<1>4. st.adopted.seq <= st.observed.seq
  BY <1>2, <1>3, StoreFields
<1>5. Latest({r, store[p].observed}) \in Records
  BY <1>2, StoreFields, LatestOfTwo
<1>6. w \in WorkType /\ w.rec = NoRecord /\ w.pc = "looked" /\ ~w.only
  BY <1>5, IdleIs DEF WorkType
<1>7. /\ journal[p] \in JournalType /\ journal \in [Publishers -> JournalType]
      /\ sent \in [Publishers -> SUBSET Records] /\ store \in [Publishers \cup Nodes -> StoreType]
  BY PublisherFields DEF PublicationInv, TypeOK, PublisherType
<1>8. /\ journal' = [journal EXCEPT ![p] = journal[p]] /\ sent' = [sent EXCEPT ![p] = sent[p]]
      /\ store' = [store EXCEPT ![p] = st] /\ work' = [work EXCEPT ![p] = w]
      /\ UNCHANGED <<dhtVars, files, seeding, removing, jobs, gc>> /\ origins' \in [Publishers -> Origin]
  BY <1>1, <1>7 DEF st, Prepare, nodeVars, PublicationInv, TypeOK, PublisherType
<1> HIDE DEF w
<1>9. WorkOK(w) /\ CopiedOK(journal[p], w)
  BY <1>6 DEF WorkOK, CopiedOK, Committing
<1>10. PublisherMoves(p, st, journal[p], w, sent[p])
  BY <1>8 DEF PublisherMoves
<1>. QED
  BY <1>3, <1>4, <1>6, <1>7, <1>8, <1>9, <1>10, QuietKeeps

\* A signature takes a sequence above everything the tables remember, and is kept.
LEMMA SignKeeps ==
  ASSUME PublicationInv, NEW p \in Publishers, Sign(p)
  PROVE  Kept
<1>1. PICK c \in Contents, n \in NextSequences(Maximum(store[p])) :
        /\ store' = [store EXCEPT ![p] = AcceptCandidate(@, Record(n, c))]
        /\ work' = [work EXCEPT ![p].pc = "signed", ![p].rec = Record(n, c)]
  BY DEF Sign
<1> DEFINE r == Record(n, c)
           st == AcceptCandidate(store[p], r)
           w == [work[p] EXCEPT !.pc = "signed", !.rec = r]
           S == Signed(sent[p], journal[p], work[p])
           T == Signed(sent[p], journal[p], w)
<1>2. /\ store[p] \in StoreType /\ work[p] \in WorkType /\ WorkOK(work[p]) /\ journal[p] \in JournalType
      /\ S \in SUBSET Records /\ SignedOK(store[p], S) /\ sent[p] \in SUBSET Records
      /\ store[p].adopted.seq <= store[p].observed.seq /\ journal[p].rec \in Records
  BY PublisherFields
<1>3. /\ Maximum(store[p]) \in Nat /\ store[p].observed.seq <= Maximum(store[p])
      /\ \A d \in store[p].candidates : d.seq <= Maximum(store[p])
  BY <1>2, MaximumIs
<1>4. n \in 1 .. MaxSeq /\ n > Maximum(store[p])
  <2> HIDE DEF S, T
  <2>. QED
    BY <1>3 DEF NextSequences
<1>5. r \in Records /\ r.seq = n
  BY <1>4 DEF Record, Records
<1> HIDE DEF r
<1>6. st.candidates = store[p].candidates \cup {r} /\ st.observed = store[p].observed
      /\ st.adopted = store[p].adopted /\ st \in StoreType
  <2>1. /\ store[p].adopted.seq \in Nat /\ store[p].observed.seq \in Nat
        /\ \A d \in store[p].candidates : d.seq \in Nat
    BY <1>2, StoreFields
  <2>2. store[p].adopted # r /\ \A d \in store[p].candidates : d.seq # r.seq
    BY <1>2, <1>3, <1>4, <1>5, <2>1
  <2>. QED
    BY <1>2, <1>5, <2>2, AcceptIs
<1> HIDE DEF st
<1>7. Maximum(st) \in Nat /\ n <= Maximum(st)
  BY <1>5, <1>6, MaximumIs
<1>8. /\ w \in WorkType /\ w.rec = r /\ w.pc = "signed" /\ w.only = work[p].only
      /\ w.salt = work[p].salt
  BY <1>2, <1>5 DEF WorkType
<1> HIDE DEF w
<1>9. SignedOK(st, T)
  <2>1. T \subseteq S \cup {r} /\ T \subseteq Records
    BY <1>2, <1>5, <1>8 DEF Signed
  <2> HIDE DEF S, T
  <2>2. \A q \in S : q.seq \in Nat /\ q.seq <= Maximum(store[p])
    BY <1>2, SequenceType, RecordsAre DEF SignedOK
  <2>3. ~Disagree(T)
    <3> SUFFICES ASSUME NEW a \in T, NEW b \in T, a.seq = b.seq PROVE a = b
      BY DEF Disagree
    <3>1. CASE a \in S /\ b \in S
      BY <1>2, <3>1 DEF SignedOK, Disagree
    <3>2. CASE a = r \/ b = r
      BY <1>3, <1>4, <1>5, <2>1, <2>2, <3>2
    <3>. QED
      BY <2>1, <3>1, <3>2
  <2>4. \A q \in T : q.seq <= Maximum(st)
    BY <1>3, <1>4, <1>5, <1>7, <2>1, <2>2
  <2>. QED
    BY <1>2, <1>6, <2>3, <2>4 DEF SignedOK
<1>10. /\ journal \in [Publishers -> JournalType] /\ work \in [Publishers -> WorkType]
       /\ sent \in [Publishers -> SUBSET Records] /\ store \in [Publishers \cup Nodes -> StoreType]
  BY DEF PublicationInv, TypeOK, PublisherType
<1>11. store' = [store EXCEPT ![p] = st] /\ work' = [work EXCEPT ![p] = w]
  BY <1>1, <1>10 DEF st, w, r
<1>12. /\ journal' = [journal EXCEPT ![p] = journal[p]] /\ sent' = [sent EXCEPT ![p] = sent[p]]
       /\ UNCHANGED <<dhtVars, files, seeding, removing, jobs, gc>> /\ origins' \in [Publishers -> Origin]
  BY <1>10 DEF Sign, nodeVars, PublicationInv, TypeOK, PublisherType
<1>13. WorkOK(w) /\ CopiedOK(journal[p], w)
  BY <1>2, <1>8 DEF WorkOK, CopiedOK, Committing
<1>14. PublisherMoves(p, st, journal[p], w, sent[p])
  BY <1>11, <1>12 DEF PublisherMoves
<1>15. PublicationInv'
  BY <1>2, <1>6, <1>8, <1>9, <1>12, <1>13, <1>14, DhtStays, PublisherKeeps
<1>16. CopiedInv => CopiedInv'
  BY <1>12, <1>13, <1>14, PublisherCopies
<1>. QED
  BY <1>15, <1>16 DEF Kept

\* The name is looked up again before the commit.
LEMMA CheckCurrentKeeps ==
  ASSUME PublicationInv, NEW p \in Publishers, CheckCurrent(p)
  PROVE  Kept
<1>1. PICK r \in Heard :
        /\ store' = [store EXCEPT ![p] = ObserveRecord(@, r)]
        /\ \/ /\ Phase(p, "committing")
              /\ work' = [work EXCEPT ![p].pc = "put", ![p].loc = journal[p].loc]
           \/ Phase(p, "conflict") /\ Quit(p)
  BY DEF CheckCurrent
<1> DEFINE st == ObserveRecord(store[p], r)
<1>2. /\ r \in Records /\ store[p] \in StoreType /\ store[p].adopted.seq <= store[p].observed.seq
      /\ journal[p].loc \in Origin /\ work[p] \in WorkType /\ WorkOK(work[p])
  BY HeardIs, PublisherFields
<1>3. /\ st \in StoreType /\ st.adopted = store[p].adopted
      /\ store[p].observed.seq <= st.observed.seq /\ Maximum(store[p]) <= Maximum(st)
  BY <1>2, ObserveIs
<1> HIDE DEF st
<1>4. st.adopted.seq <= st.observed.seq
  BY <1>2, <1>3, StoreFields
<1>5. /\ journal \in [Publishers -> JournalType] /\ work \in [Publishers -> WorkType]
      /\ sent \in [Publishers -> SUBSET Records] /\ store \in [Publishers \cup Nodes -> StoreType]
  BY DEF PublicationInv, TypeOK, PublisherType
<1>6. /\ store' = [store EXCEPT ![p] = st] /\ sent' = [sent EXCEPT ![p] = sent[p]]
      /\ UNCHANGED <<dhtVars, files, seeding, removing, jobs, gc>> /\ origins' \in [Publishers -> Origin]
  BY <1>1, <1>5 DEF st, CheckCurrent, nodeVars, PublicationInv, TypeOK, PublisherType
<1>7. CASE /\ Phase(p, "committing")
           /\ work' = [work EXCEPT ![p].pc = "put", ![p].loc = journal[p].loc]
  <2> DEFINE w == [work[p] EXCEPT !.pc = "put", !.loc = journal[p].loc]
             j == [journal[p] EXCEPT !.phase = "committing"]
  <2>1. /\ j \in JournalType /\ j.rec = journal[p].rec /\ j.notified = journal[p].notified
        /\ journal' = [journal EXCEPT ![p] = j]
    BY <1>7, PhaseIs
  <2>2. /\ w \in WorkType /\ w.rec = work[p].rec /\ w.only = work[p].only /\ w.salt = work[p].salt
    BY <1>2 DEF WorkType
  <2>3. work' = [work EXCEPT ![p] = w]
    BY <1>5, <1>7
  <2>4. work[p].pc = "copied"
    BY DEF CheckCurrent, At
  <2> HIDE DEF w, j
  <2>5. WorkOK(w) /\ (CopiedInv => CopiedOK(j, w))
    BY <1>2, <2>1, <2>2, <2>4 DEF WorkOK, CopiedInv, CommitInv, CopiedOK, Committing
  <2>6. PublisherMoves(p, st, j, w, sent[p])
    BY <1>6, <2>1, <2>3 DEF PublisherMoves
  <2>. QED
    BY <1>3, <1>4, <1>6, <2>1, <2>2, <2>5, <2>6, QuietKeeps
<1>8. CASE Phase(p, "conflict") /\ Quit(p)
  <2> DEFINE j == [journal[p] EXCEPT !.phase = "conflict"]
  <2>1. /\ j \in JournalType /\ j.rec = journal[p].rec /\ j.notified = journal[p].notified
        /\ journal' = [journal EXCEPT ![p] = j]
    BY <1>8, PhaseIs
  <2> HIDE DEF j
  <2>2. PublisherMoves(p, st, j, Idle, sent[p])
    BY <1>6, <1>8, <2>1 DEF PublisherMoves, Quit
  <2>. QED
    BY <1>3, <1>4, <1>6, <2>1, <2>2, IdleOK, QuietKeeps
<1>. QED
  BY <1>1, <1>7, <1>8

\* A confirmed publication becomes the publisher's public and adopted record.
LEMMA ReadbackKeeps ==
  ASSUME PublicationInv, NEW p \in Publishers, Readback(p)
  PROVE  Kept
<1>1. /\ UNCHANGED <<dhtVars, sent, files, seeding, removing, jobs, gc, origins>>
      /\ origins' \in [Publishers -> Origin]
  BY DEF Readback, nodeVars, PublicationInv, TypeOK, PublisherType
<1>2. CASE Reject(p) /\ UNCHANGED store
  BY <1>1, <1>2, RejectKeeps
<1>3. CASE /\ CanSetPublic(store[p], journal[p].rec)
           /\ store' = [store EXCEPT ![p] =
                AdoptRecord(SetPublic(@, journal[p].rec), journal[p].rec)]
           /\ Goto(p, "confirmed") /\ UNCHANGED journal
  <2> DEFINE r == journal[p].rec
             mid == SetPublic(store[p], r)
             st == AdoptRecord(mid, r)
             w == [work[p] EXCEPT !.pc = "confirmed"]
  <2>1. r \in Records /\ store[p] \in StoreType /\ journal[p] \in JournalType
    BY PublisherFields
  <2>2. /\ mid \in StoreType /\ mid.observed = r /\ mid.candidates = store[p].candidates
        /\ store[p].observed.seq <= r.seq
    BY <1>3, <2>1, SetPublicIs
  <2> HIDE DEF mid
  <2>3. /\ st \in StoreType /\ st.observed = r /\ st.adopted = r
        /\ st.candidates = {c \in store[p].candidates : c.seq > r.seq}
    BY <2>1, <2>2, AdoptIs
  <2>4. /\ journal \in [Publishers -> JournalType] /\ sent \in [Publishers -> SUBSET Records]
        /\ store \in [Publishers \cup Nodes -> StoreType]
    BY DEF PublicationInv, TypeOK, PublisherType
  <2>5. /\ store' = [store EXCEPT ![p] = st] /\ journal' = [journal EXCEPT ![p] = journal[p]]
        /\ sent' = [sent EXCEPT ![p] = sent[p]]
    BY <1>1, <1>3, <2>4 DEF mid
  <2> HIDE DEF st
  <2>6. Maximum(store[p]) <= Maximum(st)
    <3>1. /\ Maximum(st) \in Nat /\ st.observed.seq <= Maximum(st)
          /\ \A c \in st.candidates : c.seq <= Maximum(st)
      BY <2>3, MaximumIs
    <3>2. /\ Maximum(store[p]) = Highest(store[p]).seq /\ Maximum(store[p]) \in Nat
          /\ Highest(store[p]) \in store[p].candidates \cup {store[p].observed}
      BY <2>1, MaximumIs DEF Maximum
    <3>3. r.seq \in Nat /\ store[p].observed.seq \in Nat
      BY <2>1, StoreFields, SequenceType, RecordsAre
    <3>4. CASE Highest(store[p]) = store[p].observed
      BY <2>2, <2>3, <3>1, <3>2, <3>3, <3>4
    <3>5. CASE Highest(store[p]) \in store[p].candidates
      <4>1. CASE Highest(store[p]).seq > r.seq
        BY <2>3, <3>1, <3>2, <3>5, <4>1
      <4>2. CASE ~(Highest(store[p]).seq > r.seq)
        BY <2>3, <3>1, <3>2, <3>3, <4>2
      <4>. QED
        BY <4>1, <4>2
    <3>. QED
      BY <3>2, <3>4, <3>5
  <2>7. st.adopted.seq <= st.observed.seq
    BY <2>1, <2>3, SequenceType, RecordsAre
  <2>8. /\ w \in WorkType /\ w.rec = work[p].rec /\ WorkOK(w) /\ w.pc = "confirmed"
        /\ work' = [work EXCEPT ![p] = w]
    BY <1>3, GotoIs
  <2> HIDE DEF w
  <2>9. CopiedOK(journal[p], w)
    BY <2>8 DEF CopiedOK, Committing
  <2>10. PublisherMoves(p, st, journal[p], w, sent[p])
    BY <1>1, <2>5, <2>8 DEF PublisherMoves
  <2>. QED
    BY <1>1, <2>1, <2>3, <2>6, <2>7, <2>8, <2>9, <2>10, QuietKeeps
<1>. QED
  BY <1>2, <1>3 DEF Readback

\* The DHT takes a record that is higher: only put_signed changes what it has stored.
LEMMA PutStoredKeeps ==
  ASSUME PublicationInv, NEW p \in Publishers, PutStored(p)
  PROVE  Kept
<1> DEFINE w == [work[p] EXCEPT !.pc = "read"]
           r == journal[p].rec
           pub == stored["publication"]
<1>1. /\ w \in WorkType /\ w.rec = work[p].rec /\ w.only = work[p].only /\ WorkOK(w)
      /\ work' = [work EXCEPT ![p] = w]
  BY GotoIs DEF PutStored
<1>2. /\ store[p] \in StoreType /\ journal[p] \in JournalType /\ r \in Records /\ work[p].loc \in Origin
      /\ sent[p] \in SUBSET Records /\ work[p].salt \in Salts /\ WorkOK(work[p])
      /\ work[p].rec \in Records /\ store[p].adopted.seq <= store[p].observed.seq
  BY PublisherFields
<1>3. /\ stored \in [Salts -> AnyRecord] /\ pub \in Records /\ stored["locations"] \in Origin
      /\ past \subseteq Records
  BY DEF PublicationInv, TypeOK, DhtType
<1>4. r.seq \in Nat /\ pub.seq \in Nat /\ \A q \in past : q.seq \in Nat
  BY <1>2, <1>3, SequenceType, RecordsAre
<1>5. /\ journal \in [Publishers -> JournalType] /\ sent \in [Publishers -> SUBSET Records]
      /\ store \in [Publishers \cup Nodes -> StoreType] /\ work \in [Publishers -> WorkType]
  BY DEF PublicationInv, TypeOK, PublisherType
<1>6. /\ UNCHANGED <<store, files, seeding, removing, jobs, gc, origins, journal>>
      /\ origins' \in [Publishers -> Origin]
  BY DEF PutStored, nodeVars, PublicationInv, TypeOK, PublisherType
<1> HIDE DEF w
<1>7. \/ UNCHANGED dhtVars
      \/ /\ work[p].salt = "locations" /\ past' = past
         /\ stored' = [stored EXCEPT !["locations"] = work[p].loc]
      \/ /\ work[p].salt = "publication" /\ r.seq > pub.seq /\ past' = past \cup {r}
         /\ stored' = [stored EXCEPT !["publication"] = r]
  BY <1>2 DEF PutStored, Candidate, Salts
<1>8. DhtStep /\ (stored'["publication"] = pub \/
                   (work[p].salt = "publication" /\ r.seq > pub.seq /\ stored'["publication"] = r))
  <2>1. CASE UNCHANGED dhtVars
    BY <2>1, DhtStays DEF dhtVars
  <2>2. CASE /\ work[p].salt = "locations" /\ past' = past
             /\ stored' = [stored EXCEPT !["locations"] = work[p].loc]
    <3>1. stored'["publication"] = pub /\ stored'["locations"] = work[p].loc
      BY <1>3, <2>2 DEF Salts
    <3>2. DhtType'
      BY <1>2, <1>3, <2>2, <3>1, RecordsAre DEF DhtType
    <3>3. PastInv'
      BY <2>2, <3>1 DEF PublicationInv, PastInv
    <3>. QED
      BY <1>4, <2>2, <3>1, <3>2, <3>3 DEF DhtStep
  <2>3. CASE /\ work[p].salt = "publication" /\ r.seq > pub.seq /\ past' = past \cup {r}
             /\ stored' = [stored EXCEPT !["publication"] = r]
    <3>1. stored'["publication"] = r /\ stored'["locations"] = stored["locations"]
      BY <1>3, <2>3 DEF Salts
    <3>2. DhtType'
      BY <1>2, <1>3, <2>3, <3>1, RecordsAre DEF DhtType
    <3>3. PastInv'
      <4>1. \A q \in past : q.seq <= pub.seq
        BY DEF PublicationInv, PastInv
      <4>. QED
        BY <1>4, <2>3, <3>1, <4>1 DEF PastInv
    <3>. QED
      BY <1>4, <2>3, <3>1, <3>2, <3>3 DEF DhtStep
  <2>. QED
    BY <1>7, <2>1, <2>2, <2>3
<1>9. PICK s \in SUBSET Records : /\ sent' = [sent EXCEPT ![p] = s]
                                  /\ sent[p] \subseteq s /\ s \subseteq sent[p] \cup {r}
  <2>1. CASE work[p].salt = "publication"
    BY <1>2, <1>5, <2>1 DEF PutStored, Candidate
  <2>2. CASE work[p].salt # "publication"
    BY <1>2, <1>5, <2>2 DEF PutStored
  <2>. QED
    BY <2>1, <2>2
<1>10. PublisherMoves(p, store[p], journal[p], w, s)
  BY <1>1, <1>5, <1>6, <1>9 DEF PublisherMoves
<1>11. SignedOK(store[p], Signed(s, journal[p], w))
  <2> DEFINE S == Signed(sent[p], journal[p], work[p])
             T == Signed(s, journal[p], w)
  <2>1. S \in SUBSET Records /\ T \in SUBSET Records /\ T \subseteq S \cup {NoRecord}
    BY <1>1, <1>2, <1>9 DEF Signed
  <2>2. SignedOK(store[p], S)
    BY PublisherFields
  <2>3. Maximum(store[p]) <= Maximum(store[p])
    BY <1>2, MaximumIs
  <2> HIDE DEF S, T
  <2>4. SignedOK(store[p], T)
    BY <1>2, <2>1, <2>2, <2>3, SignedStays
  <2>. QED
    BY <2>4 DEF T
<1>12. PublicationInv'
  BY <1>1, <1>2, <1>6, <1>8, <1>10, <1>11, PublisherKeeps
<1>13. ASSUME CopiedInv PROVE CopiedInv'
  <2>0. work[p].pc = "store"
    BY DEF PutStored, At
  <2>1. CommitInv'
    <3> SUFFICES ASSUME NEW q \in Publishers, Committing(work'[q]),
                        journal[q].rec.seq > stored'["publication"].seq
                 PROVE  \E n \in journal[q].notified : journal[q].rec.val \in files[n]
      BY <1>6 DEF CommitInv, CopiedOK
    <3>1. Committing(work[q])
      BY <1>1, <1>5, <2>0 DEF Committing
    <3>2. journal[q].rec.seq > pub.seq
      <4>1. journal[q].rec.seq \in Nat /\ stored'["publication"].seq \in Nat
        BY <1>8, PublisherFields, SequenceType, RecordsAre DEF DhtStep, DhtType
      <4>. QED
        BY <1>4, <1>8, <4>1 DEF DhtStep
    <3>. QED
      BY <1>13, <3>1, <3>2 DEF CopiedInv, CommitInv, CopiedOK
  <2>2. StoredInv'
    <3>1. CASE stored'["publication"] = pub
      BY <1>6, <1>13, <3>1 DEF CopiedInv, StoredInv
    <3>2. CASE work[p].salt = "publication" /\ r.seq > pub.seq /\ stored'["publication"] = r
      <4>1. Committing(work[p])
        BY <1>2, <2>0, <3>2 DEF Committing, WorkOK
      <4>2. PICK n \in journal[p].notified : r.val \in files[n]
        BY <1>13, <3>2, <4>1 DEF CopiedInv, CommitInv, CopiedOK
      <4>3. n \in Nodes /\ r \in store[n].candidates
        BY <3>2, PublisherFields DEF PublicationInv, AdmitInv
      <4>4. r # NoRecord
        BY <1>4, <3>2, RecordsAre
      <4>5. r \in Roots(store[n])
        BY <4>3, <4>4 DEF Roots
      <4>. QED
        BY <1>6, <3>2, <4>2, <4>3, <4>5 DEF StoredInv
    <3>. QED
      BY <1>8, <3>1, <3>2
  <2>. QED
    BY <2>1, <2>2 DEF CopiedInv
<1>. QED
  BY <1>12, <1>13 DEF Kept

\* A node that admits a candidate newer than the name has it among its own.
LEMMA Admitted ==
  ASSUME PublicationInv, NEW n \in Nodes, NEW r \in Records, CanAccept(store[n], r),
         r.seq > stored["publication"].seq
  PROVE  r \in AcceptCandidate(store[n], r).candidates
<1> DEFINE st == store[n]
<1>1. st \in StoreType /\ st.observed = st.public /\ st.adopted.seq <= st.public.seq
  BY NodeFields DEF Follows
<1>2. /\ st.public.seq \in Nat /\ st.adopted.seq \in Nat /\ \A c \in st.candidates : c.seq \in Nat
  BY <1>1, StoreFields
<1>3. stored["publication"].seq \in Nat /\ st.public.seq <= stored["publication"].seq
  BY <1>1, NodeFields, PublicBehind DEF Follows
<1>4. r.seq \in Nat
  BY SequenceType, RecordsAre
<1>5. st.adopted # r
  BY <1>1, <1>2, <1>3, <1>4
<1>6. CASE \A c \in st.candidates : c.seq # r.seq
  BY <1>1, <1>5, <1>6, AcceptIs
<1>7. CASE \E c \in st.candidates : c.seq = r.seq
  <2>1. /\ Maximum(st) = Highest(st).seq /\ Maximum(st) \in Nat /\ r.seq <= Maximum(st)
        /\ Highest(st) \in st.candidates \cup {st.observed}
    BY <1>1, <1>7, MaximumIs DEF Maximum
  <2>2. Highest(st) = r
    BY <1>4, <2>1 DEF CanAccept, Conflicts
  <2>3. r \in st.candidates
    BY <1>1, <1>2, <1>3, <1>4, <2>1, <2>2
  <2>. QED
    BY <1>1, <2>3, AcceptIs
<1>. QED
  BY <1>6, <1>7

\* A node admits the candidate, and the publisher may or may not learn of it.
LEMMA AskAdmitted ==
  ASSUME PublicationInv, NEW p \in Publishers, NEW n \in Nodes, work[p].pc = "asking",
         CanAccept(store[n], journal[p].rec),
         Schedule(n, AcceptCandidate(store[n], journal[p].rec), journal[p].rec),
         work' = [work EXCEPT ![p].asked = @ \cup {n}],
         \/ journal' = [journal EXCEPT ![p].notified = @ \cup {n}]
         \/ UNCHANGED journal,
         sent' = [sent EXCEPT ![p] = @ \cup {journal[p].rec}],
         UNCHANGED <<dhtVars, files, seeding, removing, origins>>
  PROVE  Kept
<1> DEFINE r == journal[p].rec
           st == AcceptCandidate(store[n], r)
           w == [work[p] EXCEPT !.asked = @ \cup {n}]
<1>1. /\ journal[p] \in JournalType /\ r \in Records /\ work[p] \in WorkType /\ work[p].rec \in Records
      /\ sent[p] \in SUBSET Records /\ WorkOK(work[p]) /\ journal[p].notified \subseteq Nodes
  BY PublisherFields
<1>2. /\ journal \in [Publishers -> JournalType] /\ sent \in [Publishers -> SUBSET Records]
      /\ store \in [Publishers \cup Nodes -> StoreType] /\ work \in [Publishers -> WorkType]
  BY DEF PublicationInv, TypeOK, PublisherType
<1>3. Follows(n, st)
  <2>1. store[n] \in StoreType /\ Follows(n, store[n])
    BY NodeFields
  <2>2. /\ st \in StoreType /\ st.observed = store[n].observed /\ st.public = store[n].public
        /\ st.adopted = store[n].adopted /\ store[n].candidates \subseteq st.candidates
    BY <1>1, <2>1, AcceptIs
  <2> HIDE DEF st
  <2>. QED
    BY <2>1, <2>2 DEF Follows
<1>4. r.seq > stored["publication"].seq => r \in st.candidates
  BY <1>1, Admitted
<1>5. PICK new : Follows(n, new) /\ Keeps(st, new) /\ store' = [store EXCEPT ![n] = new]
  BY <1>3, ScheduleFollows
<1>6. jobs' \in [Nodes -> SUBSET Records] /\ gc' \in [Nodes -> SUBSET Values]
  BY <1>1, ScheduleJobs
<1> HIDE DEF st
<1>7. w \in WorkType /\ w.rec = work[p].rec /\ w.only = work[p].only /\ w.salt = work[p].salt
      /\ w.pc = "asking"
  BY <1>1 DEF WorkType
<1>8. work' = [work EXCEPT ![p] = w]
  BY <1>2
<1> HIDE DEF w
<1>9. PICK j \in JournalType :
        /\ journal' = [journal EXCEPT ![p] = j] /\ j.rec = r
        /\ j.notified \subseteq journal[p].notified \cup {n}
  <2>1. CASE UNCHANGED journal
    BY <1>1, <1>2, <2>1
  <2>2. CASE journal' = [journal EXCEPT ![p].notified = @ \cup {n}]
    <3> DEFINE j == [journal[p] EXCEPT !.notified = @ \cup {n}]
    <3>1. j \in JournalType /\ j.rec = r /\ j.notified = journal[p].notified \cup {n}
      BY <1>1 DEF JournalType
    <3>2. journal' = [journal EXCEPT ![p] = j]
      BY <1>2, <2>2
    <3> HIDE DEF j
    <3>. QED
      BY <3>1, <3>2
  <2>. QED
    BY <2>1, <2>2
<1>10. new \in StoreType /\ \A q \in Publishers : store'[q] = store[q]
  BY <1>2, <1>5 DEF Follows
<1>11. TypeOK'
  <2>1. PublisherType'
    <3>1. origins' \in [Publishers -> Origin]
      BY DEF PublicationInv, TypeOK, PublisherType
    <3>2. journal' \in [Publishers -> JournalType]
      BY <1>2, <1>9
    <3>3. work' \in [Publishers -> WorkType]
      BY <1>2, <1>7, <1>8
    <3>4. sent' \in [Publishers -> SUBSET Records]
      BY <1>1, <1>2
    <3>. QED
      BY <3>1, <3>2, <3>3, <3>4 DEF PublisherType
  <2>2. DhtType' /\ NodeType'
    BY <1>6 DEF PublicationInv, TypeOK, DhtType, NodeType, dhtVars
  <2>3. store' \in [Publishers \cup Nodes -> StoreType]
    BY <1>2, <1>5, <1>10
  <2>. QED
    BY <2>1, <2>2, <2>3 DEF TypeOK
<1>12. SignedInv'
  <2> SUFFICES ASSUME NEW q \in Publishers
               PROVE  SignedOK(store[q], Signed(sent'[q], journal'[q], work'[q]))
    BY <1>10 DEF SignedInv
  <2>1. Signed(sent'[q], journal'[q], work'[q]) = Signed(sent[q], journal[q], work[q])
    BY <1>2, <1>7, <1>8, <1>9 DEF Signed
  <2>. QED
    BY <2>1, PublisherFields
<1>13. WorkInv'
  BY <1>1, <1>2, <1>7, <1>8 DEF PublicationInv, WorkInv, WorkOK
<1>14. PublicWasPublished'
  BY <1>2, <1>5 DEF PublicationInv, PublicWasPublished, Follows, dhtVars
<1>15. PastInv' /\ SeedInv'
  BY DEF PublicationInv, PastInv, SeedInv, dhtVars
<1>16. AdmitInv'
  <2> SUFFICES ASSUME NEW q \in Publishers, NEW m \in journal'[q].notified,
                      journal'[q].rec.seq > stored["publication"].seq
               PROVE  journal'[q].rec \in store'[m].candidates
    BY DEF AdmitInv, dhtVars
  <2>1. /\ journal'[q].rec = journal[q].rec
        /\ m \in journal[q].notified \/ (q = p /\ m = n)
    BY <1>2, <1>9
  <2>2. m \in Nodes /\ journal[q].rec \in Records
    BY <2>1, PublisherFields
  <2>3. CASE m # n
    <3>1. journal[q].rec \in store[m].candidates
      BY <2>1, <2>3 DEF PublicationInv, AdmitInv
    <3>. QED
      BY <1>2, <1>5, <2>1, <2>2, <2>3, <3>1
  <2>4. CASE m = n
    <3>1. journal[q].rec \in new.candidates \/ journal[q].rec.seq <= new.public.seq
      <4>1. CASE m \in journal[q].notified
        BY <1>5, <2>1, <2>4, <4>1 DEF PublicationInv, AdmitInv, Follows
      <4>2. CASE q = p /\ m = n
        BY <1>4, <1>5, <2>1, <4>2 DEF Keeps
      <4>. QED
        BY <2>1, <4>1, <4>2
    <3>2. /\ new.public.seq <= stored["publication"].seq /\ stored["publication"].seq \in Nat
          /\ new.public.seq \in Nat /\ journal[q].rec.seq \in Nat
      BY <1>5, <1>10, <2>2, PublicBehind, StoreFields, SequenceType, RecordsAre DEF Follows
    <3>3. journal[q].rec \in new.candidates
      BY <2>1, <3>1, <3>2
    <3>. QED
      BY <1>2, <1>5, <2>1, <2>4, <3>3
  <2>. QED
    BY <2>3, <2>4
<1>17. ASSUME CopiedInv PROVE CopiedInv'
  <2>1. CommitInv'
    <3> SUFFICES ASSUME NEW q \in Publishers, Committing(work'[q]),
                        journal'[q].rec.seq > stored["publication"].seq
                 PROVE  \E m \in journal'[q].notified : journal'[q].rec.val \in files[m]
      BY DEF CommitInv, CopiedOK, dhtVars
    <3>1. q # p
      BY <1>2, <1>7, <1>8 DEF Committing
    <3>2. work'[q] = work[q] /\ journal'[q] = journal[q]
      BY <1>2, <1>8, <1>9, <3>1
    <3>. QED
      BY <1>17, <3>2 DEF CopiedInv, CommitInv, CopiedOK
  <2>2. StoredInv'
    <3> SUFFICES ASSUME stored["publication"] # NoRecord
                 PROVE  \E m \in Nodes : /\ stored["publication"].val \in files[m]
                                         /\ stored["publication"] \in Roots(store'[m])
      BY DEF StoredInv, dhtVars
    <3>1. PICK m \in Nodes : /\ stored["publication"].val \in files[m]
                             /\ stored["publication"] \in Roots(store[m])
      BY <1>17 DEF CopiedInv, StoredInv
    <3>2. CASE m # n
      BY <1>2, <1>5, <3>1, <3>2
    <3>3. CASE m = n
      <4>1. stored["publication"] \in Roots(new)
        BY <1>5, <3>1, <3>3, RootsStay
      <4>. QED
        BY <1>2, <1>5, <3>1, <3>3, <4>1
    <3>. QED
      BY <3>2, <3>3
  <2>. QED
    BY <2>1, <2>2 DEF CopiedInv
<1>. QED
  BY <1>11, <1>12, <1>13, <1>14, <1>15, <1>16, <1>17 DEF PublicationInv, Kept

\* A node is asked: it admits, refuses or is out of reach.
LEMMA AskKeeps ==
  ASSUME PublicationInv, NEW p \in Publishers, NEW n \in Nodes, Ask(p, n)
  PROVE  Kept
<1>1. work[p].pc = "asking" /\ UNCHANGED <<dhtVars, files, seeding, removing, origins>>
  BY DEF Ask, At
<1>2. /\ journal[p] \in JournalType /\ work[p] \in WorkType /\ WorkOK(work[p])
      /\ journal \in [Publishers -> JournalType] /\ work \in [Publishers -> WorkType]
      /\ origins' \in [Publishers -> Origin]
  BY <1>1, PublisherFields DEF PublicationInv, TypeOK, PublisherType
<1>3. CASE /\ CanAccept(store[n], journal[p].rec)
           /\ Schedule(n, AcceptCandidate(store[n], journal[p].rec), journal[p].rec)
           /\ work' = [work EXCEPT ![p].asked = @ \cup {n}]
           /\ \/ journal' = [journal EXCEPT ![p].notified = @ \cup {n}]
              \/ UNCHANGED journal
           /\ sent' = [sent EXCEPT ![p] = @ \cup {journal[p].rec}]
  BY <1>1, <1>3, AskAdmitted
<1>4. CASE Phase(p, "conflict") /\ Quit(p) /\ UNCHANGED <<store, jobs, gc, sent>>
  <2> DEFINE j == [journal[p] EXCEPT !.phase = "conflict"]
  <2>1. /\ j \in JournalType /\ j.rec = journal[p].rec /\ j.notified = journal[p].notified
        /\ journal' = [journal EXCEPT ![p] = j]
    BY <1>4, PhaseIs
  <2> HIDE DEF j
  <2>2. work' = [work EXCEPT ![p] = Idle]
    BY <1>4 DEF Quit
  <2>. QED
    BY <1>1, <1>2, <1>4, <2>1, <2>2, IdleOK, StillKeeps
<1>5. CASE /\ work' = [work EXCEPT ![p].asked = @ \cup {n}]
           /\ UNCHANGED <<store, jobs, gc, journal, sent>>
  <2> DEFINE w == [work[p] EXCEPT !.asked = @ \cup {n}]
  <2>1. w \in WorkType /\ w.rec = work[p].rec /\ w.only = work[p].only /\ w.salt = work[p].salt
        /\ w.pc = "asking"
    BY <1>1, <1>2 DEF WorkType
  <2>2. work' = [work EXCEPT ![p] = w] /\ journal' = [journal EXCEPT ![p] = journal[p]]
    BY <1>2, <1>5
  <2> HIDE DEF w
  <2>3. WorkOK(w) /\ CopiedOK(journal[p], w)
    BY <1>2, <2>1 DEF WorkOK, CopiedOK, Committing
  <2>. QED
    BY <1>1, <1>2, <1>5, <2>1, <2>2, <2>3, StillKeeps
<1>. QED
  BY <1>3, <1>4, <1>5 DEF Ask

-----------------------------------------------------------------------------
(* The steps of a node.                                                    *)

\* A node whose tables follow on and that keeps the files they refer to.
LEMMA FollowingKeeps ==
  ASSUME PublicationInv, NEW n \in Nodes, NEW new, Follows(n, new),
         store' = [store EXCEPT ![n] = new], UNCHANGED <<dhtVars, pubVars>>, NodeType', SeedInv',
         \A m \in Nodes : \A r \in Roots(store[m]) : r.val \in files[m] => r.val \in files'[m]
  PROVE  Kept
BY NodeKeeps, NodeCopies DEF Kept

\* The same of a step that leaves the tables alone.
LEMMA FilesKeep ==
  ASSUME PublicationInv, NEW n \in Nodes, UNCHANGED <<store, dhtVars, pubVars>>, NodeType', SeedInv',
         \A m \in Nodes : \A r \in Roots(store[m]) : r.val \in files[m] => r.val \in files'[m]
  PROVE  Kept
<1>1. store' = [store EXCEPT ![n] = store[n]]
  BY DEF PublicationInv, TypeOK
<1>. QED
  BY <1>1, NodeFields, FollowingKeeps

\* poll_once takes a record that was published.
LEMMA PollKeeps ==
  ASSUME PublicationInv, NEW n \in Nodes, Poll(n)
  PROVE  Kept
<1>1. PICK r \in Answers(n) \ {NoRecord} :
        CanSetPublic(store[n], r) /\ Schedule(n, SetPublic(store[n], r), r)
  BY DEF Poll
<1>2. store[n] \in StoreType /\ Follows(n, store[n])
  BY NodeFields
<1>3. r \in Records /\ r \in past \cup {NoRecord}
  BY <1>2 DEF Answers, Follows, PublicationInv, TypeOK, DhtType, StoreType
<1>4. Follows(n, SetPublic(store[n], r))
  <2> DEFINE st == SetPublic(store[n], r)
  <2>1. /\ st \in StoreType /\ st.public = r /\ st.observed = r /\ st.adopted = store[n].adopted
        /\ st.candidates = store[n].candidates /\ store[n].public.seq <= r.seq
    BY <1>1, <1>2, <1>3, SetPublicIs
  <2>2. r.seq \in Nat /\ store[n].public.seq \in Nat /\ store[n].adopted.seq \in Nat
    BY <1>2, <1>3, StoreFields, SequenceType, RecordsAre
  <2> HIDE DEF st
  <2>3. Follows(n, st)
    BY <1>2, <1>3, <2>1, <2>2 DEF Follows
  <2>. QED
    BY <2>3 DEF st
<1>5. PICK new : Follows(n, new) /\ store' = [store EXCEPT ![n] = new]
  BY <1>1, <1>4, ScheduleFollows
<1>6. NodeType' /\ SeedInv'
  BY <1>1, <1>3, ScheduleJobs DEF Poll, PublicationInv, TypeOK, NodeType, SeedInv
<1>. QED
  BY <1>5, <1>6, FollowingKeeps DEF Poll

\* download adds files to the disk and to the session.
LEMMA DownloadKeeps ==
  ASSUME PublicationInv, NEW n \in Nodes, NEW r \in jobs[n], Download(n, r)
  PROVE  Kept
<1>1. r.val \in Values
  BY NodeFields, RecordsAre
<1>2. NodeType'
  BY <1>1 DEF Download, PublicationInv, TypeOK, NodeType
<1>3. files \in [Nodes -> SUBSET Values] /\ seeding \in [Nodes -> SUBSET Values]
  BY DEF PublicationInv, TypeOK, NodeType
<1>4. SeedInv'
  BY <1>3 DEF Download, PublicationInv, SeedInv
<1>5. \A m \in Nodes : files[m] \subseteq files'[m]
  BY <1>3 DEF Download
<1>. QED
  BY <1>2, <1>4, <1>5, FilesKeep DEF Download

\* The end of replicate.
LEMMA ReplicatedKeeps ==
  ASSUME PublicationInv, NEW n \in Nodes, NEW r \in jobs[n], Replicated(n, r)
  PROVE  Kept
<1> DEFINE valid == {v \in verified[n] : v.seq # r.seq} \cup {r}
<1>1. Settle(n, store[n], r, jobs[n] \ {r}, valid)
  BY DEF Replicated
<1> HIDE DEF valid
<1>2. PICK new : Follows(n, new) /\ store' = [store EXCEPT ![n] = new]
  BY <1>1, NodeFields, SettleFollows
<1>3. gc' \in [Nodes -> SUBSET Values]
  BY <1>1, SettleGc
<1>4. NodeType' /\ SeedInv'
  BY <1>3 DEF Replicated, PublicationInv, TypeOK, NodeType, SeedInv
<1>. QED
  BY <1>2, <1>4, FollowingKeeps DEF Replicated

\* A job fails.
LEMMA JobFailsKeeps ==
  ASSUME PublicationInv, NEW n \in Nodes, NEW r \in jobs[n], JobFails(n, r)
  PROVE  Kept
<1>1. NodeType' /\ SeedInv'
  BY DEF JobFails, PublicationInv, TypeOK, NodeType, SeedInv
<1>. QED
  BY <1>1, FilesKeep DEF JobFails

\* retire takes files out of the session first.
LEMMA RetireKeeps ==
  ASSUME PublicationInv, NEW n \in Nodes, NEW c \in gc[n], Retire(n, c)
  PROVE  Kept
<1>1. c \in Values
  BY NodeFields
<1>2. NodeType'
  BY <1>1 DEF Retire, PublicationInv, TypeOK, NodeType
<1>3. SeedInv'
  BY DEF Retire, PublicationInv, TypeOK, NodeType, SeedInv
<1>. QED
  BY <1>2, <1>3, FilesKeep DEF Retire

\* The files that go are those the tables do not refer to.
LEMMA RetireRemovedKeeps ==
  ASSUME PublicationInv, NEW n \in Nodes, NEW c \in gc[n], RetireRemoved(n, c)
  PROVE  Kept
<1>1. NodeType'
  BY DEF RetireRemoved, PublicationInv, TypeOK, NodeType
<1>2. SeedInv'
  BY DEF RetireRemoved, PublicationInv, TypeOK, NodeType, SeedInv
<1>3. ASSUME NEW m \in Nodes, NEW r \in Roots(store[m]), r.val \in files[m]
      PROVE  r.val \in files'[m]
  <2>1. files \in [Nodes -> SUBSET Values]
    BY DEF PublicationInv, TypeOK, NodeType
  <2>2. CASE UNCHANGED files
    BY <1>3, <2>2
  <2>3. CASE Unreferenced(n, c) /\ files' = [files EXCEPT ![n] = @ \ {c}]
    BY <1>3, <2>1, <2>3 DEF Unreferenced, References
  <2>. QED
    BY <2>2, <2>3 DEF RetireRemoved
<1>. QED
  BY <1>1, <1>2, <1>3, FilesKeep DEF RetireRemoved

\* A restart keeps the tables and the files.
LEMMA RestartKeeps ==
  ASSUME PublicationInv, NEW n \in Nodes, Restart(n)
  PROVE  Kept
<1>1. store[n].candidates \subseteq Records /\ store[n].public \in Records
  BY NodeFields, StoreFields
<1>2. StartJob(store[n].candidates, store[n].public) \ {NoRecord} \in SUBSET Records
  BY <1>1 DEF StartJob
<1>3. NodeType'
  BY <1>2 DEF Restart, PublicationInv, TypeOK, NodeType
<1>4. SeedInv'
  BY DEF Restart, PublicationInv, TypeOK, NodeType, SeedInv
<1>. QED
  BY <1>3, <1>4, FilesKeep DEF Restart

-----------------------------------------------------------------------------
(* The theorems.                                                           *)

\* Nothing is signed, stored or admitted.
LEMMA InitKeeps == Init => PublicationInv /\ CopiedInv
<1> SUFFICES ASSUME Init PROVE PublicationInv /\ CopiedInv
  OBVIOUS
<1>1. EmptyStore \in StoreType /\ EmptyStore.public = NoRecord /\ EmptyStore.observed = NoRecord
      /\ EmptyStore.adopted = NoRecord
  BY RecordsAre DEF EmptyStore, StoreType
<1>2. NoJournal \in JournalType /\ NoJournal.rec = NoRecord /\ NoJournal.notified = {}
  BY RecordsAre DEF NoJournal, JournalType
<1>3. /\ stored["publication"] = NoRecord /\ stored["locations"] = NoRecord /\ past = {}
      /\ stored = [s \in Salts |-> NoRecord]
  BY DEF Init, Salts
<1>4. /\ \A p \in Publishers : /\ store[p] = EmptyStore /\ journal[p] = NoJournal /\ work[p] = Idle
                               /\ sent[p] = {}
      /\ \A n \in Nodes : store[n] = EmptyStore /\ files[n] = {} /\ seeding[n] = {} /\ removing[n] = {}
  BY DEF Init
<1>5. TypeOK
  <2>1. DhtType
    BY <1>3, RecordsAre DEF DhtType
  <2>2. PublisherType
    BY <1>2, IdleIs, RecordsAre DEF Init, PublisherType
  <2>3. NodeType
    BY DEF Init, NodeType
  <2>4. store \in [Publishers \cup Nodes -> StoreType]
    BY <1>1 DEF Init
  <2>. QED
    BY <2>1, <2>2, <2>3, <2>4 DEF TypeOK
<1>6. SignedInv
  <2>1. Signed({}, NoJournal, Idle) = {NoRecord}
    BY <1>2, IdleIs DEF Signed
  <2>2. Maximum(EmptyStore) \in Nat
    BY <1>1, MaximumIs
  <2>3. SignedOK(EmptyStore, {NoRecord})
    BY <1>1, <2>2, RecordsAre DEF SignedOK, Disagree
  <2>. QED
    BY <1>4, <2>1, <2>3 DEF SignedInv
<1>7. WorkInv
  BY <1>4, IdleOK DEF WorkInv
<1>8. PublicWasPublished
  BY <1>1, <1>4, RecordsAre DEF PublicWasPublished
<1>9. PastInv /\ SeedInv
  BY <1>3, <1>4 DEF PastInv, SeedInv
<1>10. AdmitInv
  BY <1>2, <1>4 DEF AdmitInv
<1>11. CopiedInv
  BY <1>3, <1>4, IdleOK DEF CopiedInv, CommitInv, StoredInv
<1>. QED
  BY <1>5, <1>6, <1>7, <1>8, <1>9, <1>10, <1>11 DEF PublicationInv

\* Every step of publishers and nodes.
LEMMA NextKeeps ==
  ASSUME PublicationInv, [Next]_vars
  PROVE  Kept
<1>1. CASE \E p \in Publishers : PublisherStep(p)
  <2>1. PICK p \in Publishers : PublisherStep(p)
    BY <1>1
  <2>2. CASE Prepare(p) \/ Sign(p) \/ SaveJournal(p) \/ Resume(p) \/ PrepareLocations(p)
    BY <2>2, PrepareKeeps, SignKeeps, SaveJournalKeeps, ResumeKeeps, PrepareLocationsKeeps
  <2>3. CASE StartTransfer(p) \/ (\E n \in Nodes : Ask(p, n)) \/ CopyObserved(p) \/ CheckCurrent(p)
    BY <2>3, StartTransferKeeps, AskKeeps, CopyObservedKeeps, CheckCurrentKeeps
  <2>4. CASE PutFound(p) \/ PutStored(p) \/ LocationsReadback(p) \/ Readback(p) \/ Finish(p) \/ Fail(p)
    BY <2>4, PutFoundKeeps, PutStoredKeeps, LocationsReadbackKeeps, ReadbackKeeps, FinishKeeps, FailKeeps
  <2>. QED
    BY <2>1, <2>2, <2>3, <2>4 DEF PublisherStep
<1>2. CASE \E n \in Nodes : NodeStep(n)
  <2>1. PICK n \in Nodes : NodeStep(n)
    BY <1>2
  <2>2. CASE Poll(n) \/ Restart(n)
    BY <2>2, PollKeeps, RestartKeeps
  <2>3. CASE \E r \in jobs[n] : Download(n, r) \/ Replicated(n, r) \/ JobFails(n, r)
    BY <2>3, DownloadKeeps, ReplicatedKeeps, JobFailsKeeps
  <2>4. CASE \E c \in gc[n] : Retire(n, c) \/ RetireRemoved(n, c)
    BY <2>4, RetireKeeps, RetireRemovedKeeps
  <2>. QED
    BY <2>1, <2>2, <2>3, <2>4 DEF NodeStep
<1>3. CASE UNCHANGED vars
  <2> USE <1>3 DEF vars, dhtVars, pubVars, nodeVars
  <2>1. TypeOK'
    BY DEF PublicationInv, TypeOK, DhtType, PublisherType, NodeType
  <2>2. SignedInv' /\ WorkInv' /\ PublicWasPublished' /\ PastInv' /\ SeedInv' /\ AdmitInv'
    BY DEF PublicationInv, SignedInv, WorkInv, PublicWasPublished, PastInv, SeedInv, AdmitInv
  <2>3. CopiedInv => CopiedInv'
    BY DEF CopiedInv, CommitInv, CopiedOK, StoredInv
  <2>. QED
    BY <2>1, <2>2, <2>3 DEF PublicationInv, Kept
<1>. QED
  BY <1>1, <1>2, <1>3 DEF Next

\* The inductive invariant of publisher.py, service.py and store.py holds always,
\* whatever commands fail, nodes restart and answers are lost.
THEOREM Inductive == Spec => []PublicationInv
<1>1. PublicationInv /\ [Next]_vars => PublicationInv'
  BY NextKeeps DEF Kept
<1>2. Init => PublicationInv
  BY InitKeeps
<1>. QED
  BY <1>1, <1>2, PTL DEF Spec

\* A publisher never shows two records under one sequence: prepare signs above
\* everything Store.maximum remembers, and resume shows the journal's record again.
THEOREM NeverEquivocatesHolds == Spec => []NeverEquivocates
<1>1. PublicationInv => NeverEquivocates
  <2> SUFFICES ASSUME PublicationInv, NEW p \in Publishers PROVE ~Disagree(sent[p])
    BY DEF NeverEquivocates
  <2>1. ~Disagree(Signed(sent[p], journal[p], work[p]))
    BY PublisherFields DEF SignedOK
  <2>. QED
    BY <2>1 DEF Signed, Disagree
<1>. QED
  BY <1>1, Inductive, PTL

\* poll_once and accept: the public name of a node is one that was published, never a
\* candidate it only admitted, and what is adopted does not run ahead of it.
THEOREM PublicWasPublishedHolds == Spec => []PublicWasPublished
<1>1. PublicationInv => PublicWasPublished
  BY DEF PublicationInv
<1>. QED
  BY <1>1, Inductive, PTL

\* transfer, commit and retire: with one seedbox the public record always has a
\* complete copy there, for any number of publishers.
THEOREM PublicIsCopiedHolds == OneNode => (Spec => []PublicIsCopied)
<1> SUFFICES ASSUME OneNode PROVE Spec => []PublicIsCopied
  OBVIOUS
<1>1. PublicationInv /\ CopiedInv /\ [Next]_vars => (PublicationInv /\ CopiedInv)'
  BY NextKeeps DEF Kept
<1>2. PublicationInv /\ CopiedInv => PublicIsCopied
  BY DEF CopiedInv, StoredInv, PublicIsCopied
<1>3. Init => PublicationInv /\ CopiedInv
  BY InitKeeps
<1>. QED
  BY <1>1, <1>2, <1>3, PTL DEF Spec
=============================================================================
