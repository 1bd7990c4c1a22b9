---------------------- MODULE PublicationRecordsProofs ----------------------
(***************************************************************************)
(* The safety of finding an identity's records for any number of tabs,     *)
(* sources, values and sequences, and of the download that goes with a     *)
(* published state for any number of pieces, attempts and commands; each   *)
(* from one inductive invariant.                                           *)
(***************************************************************************)
EXTENDS PublicationRecords, StartupPrefetch, FiniteSetTheorems, WellFoundedInduction, TLAPS

MaybeRecord == Records \cup {NoRecord}
LookupType ==
  [pc : {"new", "ask", "done"}, best : MaybeRecord,
   status : [Apis -> {"asked", "chained", "got", "failed"}],
   rec : [Apis -> MaybeRecord], chain : Seq(Apis), busy : BOOLEAN,
   observed : MaybeRecord, streamed : SUBSET MaybeRecord, conflict : BOOLEAN,
   aborted : {"no", "timeout", "signal"}, first : MaybeRecord,
   outcome : {"none", "found", "nothing", "conflict", "storage", "cancelled"},
   final : MaybeRecord]
HintType ==
  [first : {"no", "sent", "done"}, final : {"no", "done"},
   value : MaybeRecord, sources : MaybeRecord]

TypeOK ==
  /\ kind \in {"names", "locations"} /\ store \in MaybeRecord
  /\ res \in [Tabs -> LookupType] /\ hint \in [Tabs -> HintType]

\* A lookup exposes nothing older than what was cached when it began, and has a
\* final record only if it found one.
LookupOK(r) ==
  /\ r.pc # "ask" => r.chain = <<>> /\ ~r.busy
  /\ r.busy => r.chain # <<>>
  /\ r.pc = "new" => r.first = NoRecord
  /\ r.pc = "ask" => r.best.seq <= r.observed.seq
  /\ r.pc = "done" /\ r.outcome # "found" => r.final = NoRecord
  /\ r.first # NoRecord => r.best.seq <= r.first.seq
LookupInv == \A t \in Tabs : LookupOK(res[t])

\* A publication is durable before it is exposed.
DurableInv ==
  kind = "names" => \A t \in Tabs : res[t].first # NoRecord => res[t].first.seq <= store.seq

\* The final locations come after the first ones, from a lookup that is over.
HintInv ==
  \A t \in Tabs :
    hint[t].final = "done" =>
      /\ hint[t].first = "done" /\ res[t].pc = "done"
      /\ hint[t].sources = Origins(t, res[t].final)

RecordsInv == TypeOK /\ LookupInv /\ DurableInv /\ HintInv

USE RecordsAssumption

\* Sequences are numbers, and only the record that stands for none has none.
LEMMA SequenceType ==
  ASSUME NEW r \in MaybeRecord
  PROVE  r.seq \in Nat /\ r.seq <= MaxSeq /\ (r.seq = 0 <=> r = NoRecord)
BY DEF MaybeRecord, Records, NoRecord

\* Of some records that are bounded by MaxSeq, one has the highest sequence.
LEMMA HighestExists ==
  ASSUME NEW S \in SUBSET MaybeRecord, S # {}
  PROVE  \E v \in S : \A w \in S : w.seq <= v.seq
<1> DEFINE Gap == {MaxSeq - v.seq : v \in S}
<1>1. Gap \subseteq Nat /\ Gap # {}
  BY SequenceType
<1>2. \E x \in Gap : \A y \in Gap : ~ (<<y, x>> \in OpToRel(<, Nat))
  BY <1>1, NatLessThanWellFounded, WFMin
<1>3. PICK x \in Gap : \A y \in Gap : ~ (y < x)
  BY <1>1, <1>2 DEF OpToRel
<1>4. PICK v \in S : x = MaxSeq - v.seq
  OBVIOUS
<1>5. \A w \in S : w.seq <= v.seq
  <2> SUFFICES ASSUME NEW w \in S PROVE w.seq <= v.seq
    OBVIOUS
  <2>1. ~ (MaxSeq - w.seq < MaxSeq - v.seq)
    BY <1>3, <1>4
  <2>2. v.seq \in Nat /\ w.seq \in Nat
    BY SequenceType
  <2> HIDE DEF Gap
  <2>. QED
    BY <2>1, <2>2
<1>. QED
  BY <1>5

\* The fields of a lookup.
LEMMA Fields ==
  ASSUME TypeOK, NEW t \in Tabs
  PROVE  /\ res[t] \in LookupType /\ res[t].best \in MaybeRecord /\ res[t].observed \in MaybeRecord
         /\ res[t].first \in MaybeRecord /\ res[t].final \in MaybeRecord
         /\ res[t].chain \in Seq(Apis) /\ res[t].busy \in BOOLEAN /\ res[t].streamed \subseteq MaybeRecord
         /\ res[t].rec \in [Apis -> MaybeRecord] /\ res[t].aborted \in {"no", "timeout", "signal"}
         /\ store \in MaybeRecord /\ hint[t] \in HintType
<1>1. res[t] \in LookupType /\ store \in MaybeRecord /\ hint[t] \in HintType
  BY DEF TypeOK
<1>. QED
  BY <1>1 DEF LookupType

\* The newer of two records is one of them.
LEMMA NewerIs ==
  ASSUME NEW r \in MaybeRecord, NEW s \in MaybeRecord
  PROVE  /\ Newer(r, s) \in MaybeRecord
         /\ r.seq <= Newer(r, s).seq /\ s.seq <= Newer(r, s).seq
BY SequenceType DEF Newer

\* A step of one lookup keeps the invariant if the lookup stays sound and the
\* durable mark does not fall.
LEMMA LookupKeeps ==
  ASSUME RecordsInv, NEW t \in Tabs, NEW r \in LookupType,
         Set(t, r), UNCHANGED <<kind, hint>>, res[t].pc # "done",
         store' \in MaybeRecord, store.seq <= store'.seq,
         LookupOK(r),
         kind = "names" /\ r.first # NoRecord => r.first.seq <= store'.seq
  PROVE  RecordsInv'
<1>1. res' = [res EXCEPT ![t] = r] /\ res \in [Tabs -> LookupType]
  BY DEF Set, RecordsInv, TypeOK
<1>2. TypeOK'
  BY <1>1 DEF RecordsInv, TypeOK
<1>3. LookupInv'
  BY <1>1 DEF RecordsInv, LookupInv
<1>4. DurableInv'
  <2> SUFFICES ASSUME kind = "names", NEW u \in Tabs, res'[u].first # NoRecord
               PROVE  res'[u].first.seq <= store'.seq
    BY DEF DurableInv
  <2>1. CASE u = t
    BY <1>1, <2>1
  <2>2. CASE u # t
    <3>1. res'[u] = res[u] /\ res[u].first.seq <= store.seq
      BY <1>1, <2>2 DEF RecordsInv, DurableInv
    <3>2. res[u].first \in MaybeRecord /\ store \in MaybeRecord
      BY Fields DEF RecordsInv
    <3>. QED
      BY <3>1, <3>2, SequenceType
  <2>. QED
    BY <2>1, <2>2
<1>5. HintInv'
  <2> SUFFICES ASSUME NEW u \in Tabs, hint[u].final = "done"
               PROVE  /\ hint[u].first = "done" /\ res'[u].pc = "done"
                      /\ hint[u].sources = Origins(u, res[u].final)'
    BY DEF HintInv
  <2>1. res'[u] = res[u]
    BY <1>1 DEF RecordsInv, HintInv
  <2>. QED
    BY <2>1 DEF RecordsInv, HintInv, Origins
<1>. QED
  BY <1>2, <1>3, <1>4, <1>5 DEF RecordsInv

\* A transaction admits a record that is at least as high, and leaves one of the two.
LEMMA ObserveRecordIs ==
  ASSUME store \in MaybeRecord, NEW r, NEW value \in MaybeRecord, ObserveRecord(r, value)
  PROVE  /\ store' \in MaybeRecord /\ store.seq <= store'.seq /\ value.seq <= store'.seq
         /\ Newer(store, store') = store' /\ ~Clash(store, store')
<1>1. store.seq \in Nat /\ value.seq \in Nat
  BY SequenceType
<1>. QED
  BY <1>1 DEF ObserveRecord, Refused, Newer, Clash

-----------------------------------------------------------------------------
(* Initial states and the steps of a lookup.                               *)

\* A lookup that has not begun.
LEMMA FreshIs == Fresh \in LookupType /\ LookupOK(Fresh)
<1>1. NoRecord \in MaybeRecord /\ NoRecord.seq = 0
  BY DEF MaybeRecord, NoRecord
<1>2. <<>> \in Seq(Apis)
  OBVIOUS
<1> HIDE DEF NoRecord, MaybeRecord
<1>3. Fresh \in LookupType
  BY <1>1, <1>2 DEF Fresh, LookupType
<1>4. LookupOK(Fresh)
  BY DEF Fresh, LookupOK
<1>. QED
  BY <1>3, <1>4

\* Nobody has asked, and the store holds any record.
LEMMA InitKeeps == Init => RecordsInv
<1> SUFFICES ASSUME Init PROVE RecordsInv
  OBVIOUS
<1>1. \A t \in Tabs : res[t] = Fresh /\ hint[t] = NoHint
  BY DEF Init
<1>2. NoHint \in HintType
  BY DEF NoHint, HintType, MaybeRecord
<1>3. TypeOK
  BY <1>2, FreshIs DEF Init, TypeOK, MaybeRecord
<1>4. LookupInv
  BY <1>1, FreshIs DEF LookupInv
<1>5. DurableInv
  BY <1>1 DEF DurableInv, Fresh
<1>6. HintInv
  BY <1>1 DEF HintInv, NoHint
<1>. QED
  BY <1>3, <1>4, <1>5, <1>6 DEF RecordsInv

\* The cached record is what the lookup begins with.
LEMMA StartKeeps ==
  ASSUME RecordsInv, NEW t \in Tabs, Start(t)
  PROVE  RecordsInv'
<1> DEFINE r == [res[t] EXCEPT !.pc = "ask", !.best = store, !.observed = store,
                               !.streamed = {store} \ {NoRecord}]
<1>1. /\ TypeOK /\ LookupOK(res[t]) /\ res[t].pc = "new" /\ Set(t, r)
      /\ UNCHANGED <<kind, store, hint>>
  BY DEF RecordsInv, LookupInv, Start
<1>2. res[t] \in LookupType /\ store \in MaybeRecord
  BY <1>1, Fields
<1>3. r \in LookupType
  BY <1>2 DEF LookupType
<1>4. /\ r.pc = "ask" /\ r.best = store /\ r.observed = store /\ r.first = res[t].first
      /\ r.chain = res[t].chain /\ r.busy = res[t].busy
  BY <1>2 DEF LookupType
<1>5. store.seq \in Nat
  BY <1>2, SequenceType
<1>6. LookupOK(r) /\ r.first = NoRecord
  BY <1>1, <1>4, <1>5 DEF LookupOK
<1> HIDE DEF r
<1>. QED
  BY <1>1, <1>2, <1>3, <1>5, <1>6, LookupKeeps

\* What a lookup that is neither begun nor ended by a step must keep.
LEMMA AskKeeps ==
  ASSUME RecordsInv, NEW t \in Tabs, NEW r \in LookupType, Set(t, r), UNCHANGED <<kind, store, hint>>,
         res[t].pc # "done", r.pc = res[t].pc, r.best = res[t].best, r.first = res[t].first,
         r.observed.seq >= res[t].observed.seq,
         r.pc # "ask" => r.chain = res[t].chain /\ r.busy = res[t].busy,
         r.busy => r.chain # <<>>
  PROVE  RecordsInv'
<1>1. TypeOK /\ LookupOK(res[t]) /\ DurableInv
  BY DEF RecordsInv, LookupInv
<1>2. res[t].best \in MaybeRecord /\ res[t].observed \in MaybeRecord /\ store \in MaybeRecord
  BY <1>1, Fields
<1>3. r.observed \in MaybeRecord
  BY DEF LookupType
<1>4. res[t].best.seq \in Nat /\ res[t].observed.seq \in Nat /\ store.seq \in Nat /\ r.observed.seq \in Nat
  BY <1>2, <1>3, SequenceType
<1>5. LookupOK(r)
  BY <1>1, <1>4 DEF LookupOK
<1>6. kind = "names" /\ r.first # NoRecord => r.first.seq <= store.seq
  BY <1>1 DEF DurableInv
<1>. QED
  BY <1>2, <1>4, <1>5, <1>6, LookupKeeps

\* A source that does not answer changes only its status.
LEMMA NoAnswerKeeps ==
  ASSUME RecordsInv, NEW t \in Tabs, NEW a \in Apis, NoAnswer(t, a)
  PROVE  RecordsInv'
<1> DEFINE r == [res[t] EXCEPT !.status[a] = "failed"]
<1>1. TypeOK /\ LookupOK(res[t]) /\ res[t].pc = "ask" /\ Set(t, r) /\ UNCHANGED <<kind, store, hint>>
  BY DEF RecordsInv, LookupInv, NoAnswer
<1>2. res[t] \in LookupType /\ res[t].observed \in MaybeRecord
  BY <1>1, Fields
<1>3. r \in LookupType
  BY <1>2 DEF LookupType
<1>4. /\ r.pc = res[t].pc /\ r.best = res[t].best /\ r.first = res[t].first
      /\ r.chain = res[t].chain /\ r.busy = res[t].busy /\ r.observed = res[t].observed
  BY <1>2 DEF LookupType
<1> HIDE DEF r
<1>5. (r.busy => r.chain # <<>>) /\ r.observed.seq >= res[t].observed.seq
  BY <1>1, <1>2, <1>4, SequenceType DEF LookupOK
<1>. QED
  BY <1>1, <1>3, <1>4, <1>5, AskKeeps

\* An answer is chained behind the earlier ones.
LEMMA AnswerKeeps ==
  ASSUME RecordsInv, NEW t \in Tabs, NEW a \in Apis, Answer(t, a)
  PROVE  RecordsInv'
<1>0. PICK v \in Records :
        Set(t, [res[t] EXCEPT !.status[a] = "chained", !.rec[a] = v, !.chain = Append(@, a)])
  BY DEF Answer
<1> DEFINE r == [res[t] EXCEPT !.status[a] = "chained", !.rec[a] = v, !.chain = Append(@, a)]
<1>1. TypeOK /\ LookupOK(res[t]) /\ res[t].pc = "ask" /\ Set(t, r) /\ UNCHANGED <<kind, store, hint>>
  BY <1>0 DEF RecordsInv, LookupInv, Answer
<1>2. res[t] \in LookupType /\ res[t].observed \in MaybeRecord /\ res[t].chain \in Seq(Apis)
  BY <1>1, Fields
<1>3. v \in MaybeRecord
  BY DEF MaybeRecord
<1>4. Append(res[t].chain, a) \in Seq(Apis) /\ Append(res[t].chain, a) # <<>>
  BY <1>2
<1>5. r \in LookupType
  BY <1>2, <1>3, <1>4 DEF LookupType
<1>6. /\ r.pc = res[t].pc /\ r.best = res[t].best /\ r.first = res[t].first
      /\ r.chain = Append(res[t].chain, a) /\ r.observed = res[t].observed
  BY <1>2 DEF LookupType
<1> HIDE DEF r
<1>7. r.chain # <<>> /\ r.observed.seq >= res[t].observed.seq
  BY <1>2, <1>4, <1>6, SequenceType
<1>. QED
  BY <1>1, <1>5, <1>6, <1>7, AskKeeps

\* What is observed only rises.
LEMMA ObserveKeeps ==
  ASSUME RecordsInv, NEW t \in Tabs, Observe(t)
  PROVE  RecordsInv'
<1> DEFINE o == res[t]
           a == Head(o.chain)
           v == o.rec[a]
           over == [o EXCEPT !.chain = Tail(@), !.status[a] = "got"]
           noted == [over EXCEPT !.streamed = @ \cup {v}]
           busy == [o EXCEPT !.busy = TRUE, !.streamed = @ \cup {v},
                             !.observed = Newer(Newer(@, v), store)]
<1>1. TypeOK /\ LookupOK(o) /\ o.chain # <<>> /\ ~o.busy /\ UNCHANGED <<kind, store, hint>>
  BY DEF RecordsInv, LookupInv, Observe
<1>2. /\ o \in LookupType /\ o.observed \in MaybeRecord /\ o.chain \in Seq(Apis) /\ store \in MaybeRecord
      /\ o.rec \in [Apis -> MaybeRecord] /\ o.streamed \subseteq MaybeRecord
  BY <1>1, Fields
<1>3. a \in Apis /\ Tail(o.chain) \in Seq(Apis)
  BY <1>1, <1>2
<1>4. v \in MaybeRecord
  BY <1>2, <1>3
<1>5. PICK r \in {over, [over EXCEPT !.conflict = TRUE], noted, busy} : Set(t, r)
  BY DEF Observe
<1>6. Newer(Newer(o.observed, v), store) \in MaybeRecord
  BY <1>2, <1>4, NewerIs
<1>7. o.pc = "ask"
  BY <1>1 DEF LookupOK
<1>8. CASE r = busy
  <2>1. r \in LookupType
    BY <1>2, <1>4, <1>6, <1>8 DEF LookupType
  <2>2. /\ r.pc = o.pc /\ r.best = o.best /\ r.first = o.first /\ r.chain = o.chain
        /\ r.observed = Newer(Newer(o.observed, v), store)
    BY <1>2, <1>8 DEF LookupType
  <2>3. r.observed.seq >= o.observed.seq
    <3>1. Newer(o.observed, v) \in MaybeRecord
      BY <1>2, <1>4, NewerIs
    <3> DEFINE p == Newer(o.observed, v)
               q == Newer(p, store)
    <3>2. o.observed.seq <= p.seq /\ p.seq <= q.seq
      BY <1>2, <1>4, <3>1, NewerIs
    <3>3. o.observed.seq \in Nat /\ p.seq \in Nat /\ q.seq \in Nat
      BY <1>2, <1>6, <3>1, SequenceType
    <3> HIDE DEF p
    <3>4. r.observed = q
      BY <2>2 DEF p
    <3> HIDE DEF q
    <3>. QED
      BY <3>2, <3>3, <3>4
  <2> HIDE DEF busy
  <2>. QED
    BY <1>1, <1>5, <1>7, <2>1, <2>2, <2>3, AskKeeps
<1>9. CASE r # busy
  <2>1. over \in LookupType /\ noted \in LookupType /\ [over EXCEPT !.conflict = TRUE] \in LookupType
    BY <1>2, <1>3, <1>4 DEF LookupType
  <2>2. /\ r \in LookupType /\ r.pc = o.pc /\ r.best = o.best /\ r.first = o.first
        /\ r.observed = o.observed /\ ~r.busy
    <3> DEFINE Same(x) == /\ x.pc = o.pc /\ x.best = o.best /\ x.first = o.first
                          /\ x.observed = o.observed /\ ~x.busy
    <3>1. Same(over)
      BY <1>1, <1>2 DEF LookupType
    <3>2. Same([over EXCEPT !.conflict = TRUE]) /\ Same(noted)
      BY <1>1, <1>2 DEF LookupType
    <3> HIDE DEF Same, over, noted, busy
    <3>3. r \in LookupType /\ Same(r)
      BY <1>5, <1>9, <2>1, <3>1, <3>2
    <3>. QED
      BY <3>3 DEF Same
  <2>3. r.observed.seq >= o.observed.seq
    BY <1>2, <2>2, SequenceType
  <2> HIDE DEF busy, over, noted
  <2>. QED
    BY <1>1, <1>5, <1>7, <2>2, <2>3, AskKeeps
<1>. QED
  BY <1>8, <1>9

\* A publication is exposed only by the transaction that makes it durable.
LEMMA ObservedKeeps ==
  ASSUME RecordsInv, NEW t \in Tabs, Observed(t)
  PROVE  RecordsInv'
<1> DEFINE o == res[t]
           a == Head(o.chain)
           over(s) == [o EXCEPT !.chain = Tail(@), !.busy = FALSE, !.status[a] = s]
           shown == [over("got") EXCEPT !.first = Exposed(o)]
<1>1. TypeOK /\ LookupOK(o) /\ o.busy /\ UNCHANGED <<kind, hint>>
  BY DEF RecordsInv, LookupInv, Observed
<1>2. /\ o \in LookupType /\ o.observed \in MaybeRecord /\ o.chain \in Seq(Apis) /\ store \in MaybeRecord
      /\ o.first \in MaybeRecord /\ o.best \in MaybeRecord
  BY <1>1, Fields
<1>3. o.chain # <<>> /\ o.pc = "ask"
  BY <1>1 DEF LookupOK
<1>4. a \in Apis /\ Tail(o.chain) \in Seq(Apis)
  BY <1>2, <1>3
<1>5. \/ (kind = "locations" /\ Set(t, shown) /\ UNCHANGED store)
      \/ (kind = "names" /\ ObserveRecord(o, o.observed) /\ Set(t, shown))
      \/ (Set(t, over("failed")) /\ UNCHANGED store)
  BY DEF Observed
<1>6. CASE Set(t, over("failed")) /\ UNCHANGED store
  <2> DEFINE r == over("failed")
  <2>1. r \in LookupType
    BY <1>2, <1>4 DEF LookupType
  <2>2. /\ r.pc = o.pc /\ r.best = o.best /\ r.first = o.first
        /\ r.observed = o.observed /\ ~r.busy
    BY <1>2 DEF LookupType
  <2> HIDE DEF r
  <2>3. r.observed.seq >= o.observed.seq
    BY <1>2, <2>2, SequenceType
  <2>4. Set(t, r) /\ UNCHANGED <<kind, store, hint>>
    BY <1>1, <1>6 DEF r
  <2>. QED
    BY <1>3, <2>1, <2>2, <2>3, <2>4, AskKeeps
<1>7. CASE Set(t, shown) /\ ((UNCHANGED store /\ kind = "locations") \/ ObserveRecord(o, o.observed))
  <2>1. over("got") \in LookupType /\ Exposed(o) \in MaybeRecord
    BY <1>2, <1>4 DEF LookupType, Exposed
  <2>2. /\ over("got").pc = o.pc /\ over("got").best = o.best /\ over("got").observed = o.observed
        /\ ~over("got").busy
    BY <1>2 DEF LookupType
  <2> HIDE DEF over
  <2>3. /\ shown \in LookupType /\ shown.pc = o.pc /\ shown.best = o.best /\ shown.observed = o.observed
        /\ ~shown.busy /\ shown.first = Exposed(o)
    BY <2>1, <2>2 DEF LookupType
  <2> HIDE DEF shown
  <2>4. o.best.seq \in Nat /\ o.observed.seq \in Nat /\ o.first.seq \in Nat /\ store.seq \in Nat
    BY <1>2, SequenceType
  <2>5. LookupOK(shown)
    BY <1>1, <1>3, <2>3, <2>4 DEF LookupOK, Exposed
  <2>6. /\ store' \in MaybeRecord /\ store.seq <= store'.seq
        /\ kind = "names" => o.observed.seq <= store'.seq
    BY <1>2, <1>7, <2>4, ObserveRecordIs
  <2>7. store'.seq \in Nat
    BY <2>6, SequenceType
  <2>8. kind = "names" /\ shown.first # NoRecord => shown.first.seq <= store'.seq
    <3>1. kind = "names" /\ o.first # NoRecord => o.first.seq <= store.seq
      BY DEF RecordsInv, DurableInv
    <3>. QED
      BY <2>3, <2>4, <2>6, <2>7, <3>1 DEF Exposed
  <2>. QED
    BY <1>1, <1>3, <1>7, <2>3, <2>5, <2>6, <2>8, LookupKeeps
<1> HIDE DEF over, shown
<1>. QED
  BY <1>5, <1>6, <1>7

\* The timer or the signal.
LEMMA AbortKeeps ==
  ASSUME RecordsInv, NEW t \in Tabs, Abort(t)
  PROVE  RecordsInv'
<1>0. PICK why \in {"timeout", "signal"} : Set(t, [res[t] EXCEPT !.aborted = why])
  BY DEF Abort
<1> DEFINE r == [res[t] EXCEPT !.aborted = why]
<1>1. TypeOK /\ LookupOK(res[t]) /\ res[t].pc # "done" /\ Set(t, r) /\ UNCHANGED <<kind, store, hint>>
  BY <1>0 DEF RecordsInv, LookupInv, Abort
<1>2. res[t] \in LookupType /\ res[t].observed \in MaybeRecord
  BY <1>1, Fields
<1>3. r \in LookupType
  BY <1>2 DEF LookupType
<1>4. /\ r.pc = res[t].pc /\ r.best = res[t].best /\ r.first = res[t].first
      /\ r.chain = res[t].chain /\ r.busy = res[t].busy /\ r.observed = res[t].observed
  BY <1>2 DEF LookupType
<1> HIDE DEF r
<1>5. (r.busy => r.chain # <<>>) /\ r.observed.seq >= res[t].observed.seq
  BY <1>1, <1>2, <1>4, SequenceType DEF LookupOK
<1>. QED
  BY <1>1, <1>3, <1>4, <1>5, AskKeeps

\* The end of a lookup: a record that is found is not older than the cached one,
\* and is durable if nothing was exposed before.
LEMMA EndKeeps ==
  ASSUME RecordsInv, NEW t \in Tabs, res[t].pc # "done", NEW value \in MaybeRecord,
         NEW outcome \in {"found", "nothing", "conflict", "storage", "cancelled"},
         End(t, outcome, value), outcome # "found" => value = NoRecord,
         value # NoRecord => res[t].best.seq <= value.seq /\ value.seq <= store'.seq,
         UNCHANGED <<kind, hint>>, store' \in MaybeRecord, store.seq <= store'.seq
  PROVE  RecordsInv'
<1> DEFINE o == res[t]
           f == IF o.first = NoRecord THEN value ELSE o.first
           r == [Fresh EXCEPT !.pc = "done", !.outcome = outcome, !.final = value,
                              !.best = o.best, !.aborted = o.aborted, !.first = f]
<1>1. TypeOK /\ LookupOK(o) /\ DurableInv
  BY DEF RecordsInv, LookupInv
<1>2. /\ o.best \in MaybeRecord /\ o.first \in MaybeRecord /\ store \in MaybeRecord
      /\ o.aborted \in {"no", "timeout", "signal"}
  BY <1>1, Fields
<1>3. f \in MaybeRecord
  BY <1>2
<1>4. Set(t, r)
  BY DEF End
<1>5. /\ f # NoRecord => o.best.seq <= f.seq
      /\ kind = "names" /\ f # NoRecord => f.seq <= store'.seq
  <2>1. o.first.seq \in Nat /\ store.seq \in Nat /\ store'.seq \in Nat
    BY <1>2, SequenceType
  <2>. QED
    BY <1>1, <2>1 DEF LookupOK, DurableInv
<1> HIDE DEF f
<1>6. r \in LookupType
  BY <1>2, <1>3, FreshIs DEF LookupType
<1>7. /\ r.pc = "done" /\ r.best = o.best /\ r.first = f /\ r.outcome = outcome /\ r.final = value
      /\ r.chain = <<>> /\ ~r.busy
  <2>1. Fresh.chain = <<>> /\ ~Fresh.busy
    BY DEF Fresh
  <2>. QED
    BY <2>1, FreshIs DEF LookupType
<1>8. LookupOK(r) /\ r.first = f
  <2> HIDE DEF r
  <2>. QED
    BY <1>5, <1>7 DEF LookupOK
<1> HIDE DEF r
<1>. QED
  BY <1>4, <1>5, <1>6, <1>8, LookupKeeps

\* The strict comparison of all answers and the last transaction.
LEMMA FinishKeeps ==
  ASSUME RecordsInv, NEW t \in Tabs, Resolved(t)
  PROVE  RecordsInv'
<1> DEFINE o == res[t]
           all == Answered(o)
           best == CHOOSE v \in all : \A w \in all : w.seq <= v.seq
<1>1. TypeOK /\ o.pc # "done" /\ UNCHANGED <<kind, hint>>
  BY DEF RecordsInv, Resolved
<1>2. o.best \in MaybeRecord /\ o.rec \in [Apis -> MaybeRecord] /\ store \in MaybeRecord
  BY <1>1, Fields
<1>3. NoRecord \in MaybeRecord
  BY DEF MaybeRecord
<1>4. \/ \E outcome \in {"nothing", "conflict", "storage", "cancelled"} :
           End(t, outcome, NoRecord) /\ UNCHANGED store
      \/ all # {} /\ ObserveRecord(o, best) /\ End(t, "found", best)
  BY DEF Resolved
<1>5. CASE \E outcome \in {"nothing", "conflict", "storage", "cancelled"} :
             End(t, outcome, NoRecord) /\ UNCHANGED store
  <2>1. store.seq \in Nat
    BY <1>2, SequenceType
  <2>. QED
    BY <1>1, <1>2, <1>3, <1>5, <2>1, EndKeeps
<1>6. CASE all # {} /\ ObserveRecord(o, best) /\ End(t, "found", best)
  <2>1. all \subseteq MaybeRecord
    BY <1>2 DEF Answered
  <2>2. best \in all /\ \A w \in all : w.seq <= best.seq
    BY <1>6, <2>1, HighestExists
  <2>3. best \in MaybeRecord
    BY <2>1, <2>2
  <2>4. o.best.seq <= best.seq
    <3>1. CASE o.best = NoRecord
      BY <1>2, <2>3, <3>1, SequenceType
    <3>2. CASE o.best # NoRecord
      BY <2>2, <3>2 DEF Answered
    <3>. QED
      BY <3>1, <3>2
  <2> HIDE DEF best, all
  <2>5. store' \in MaybeRecord /\ store.seq <= store'.seq /\ best.seq <= store'.seq
    BY <1>2, <1>6, <2>3, ObserveRecordIs
  <2>. QED
    BY <1>1, <1>6, <2>3, <2>4, <2>5, EndKeeps
<1>. QED
  BY <1>4, <1>5, <1>6

\* The signal was aborted, or the store could not be read.
LEMMA StillbornKeeps ==
  ASSUME RecordsInv, NEW t \in Tabs, Stillborn(t)
  PROVE  RecordsInv'
<1>1. TypeOK /\ res[t].pc # "done" /\ UNCHANGED <<kind, store, hint>>
  BY DEF RecordsInv, Stillborn
<1>2. \E outcome \in {"storage", "cancelled"} : End(t, outcome, NoRecord)
  BY DEF Stillborn
<1>3. NoRecord \in MaybeRecord /\ store \in MaybeRecord
  BY <1>1, Fields DEF MaybeRecord
<1>4. store.seq \in Nat
  BY <1>3, SequenceType
<1>. QED
  BY <1>1, <1>2, <1>3, <1>4, EndKeeps

-----------------------------------------------------------------------------
(* The steps of the hints.                                                 *)

\* A step of one tab's hints keeps the invariant if its final hint stays last.
LEMMA HintKeeps ==
  ASSUME RecordsInv, NEW t \in Tabs, NEW h \in HintType, hint' = [hint EXCEPT ![t] = h],
         UNCHANGED <<kind, store, res>>,
         h.final = "done" => /\ h.first = "done" /\ res[t].pc = "done"
                             /\ h.sources = Origins(t, res[t].final)
  PROVE  RecordsInv'
<1>1. TypeOK' /\ LookupInv' /\ DurableInv'
  BY DEF RecordsInv, TypeOK, LookupInv, DurableInv
<1>2. HintInv'
  <2> SUFFICES ASSUME NEW u \in Tabs, hint'[u].final = "done"
               PROVE  /\ hint'[u].first = "done" /\ res[u].pc = "done"
                      /\ hint'[u].sources = Origins(u, res[u].final)
    BY DEF HintInv, Origins
  <2>1. hint'[u] = IF u = t THEN h ELSE hint[u]
    BY DEF RecordsInv, TypeOK
  <2>. QED
    BY <2>1 DEF RecordsInv, HintInv
<1>. QED
  BY <1>1, <1>2 DEF RecordsInv

\* What is told to the window is a record or none.
LEMMA OriginsType ==
  ASSUME NEW t \in Tabs, NEW value \in MaybeRecord
  PROVE  Origins(t, value) \in MaybeRecord
BY DEF Origins, MaybeRecord

\* The first locations are sent before the final ones.
LEMMA FirstHintKeeps ==
  ASSUME RecordsInv, NEW t \in Tabs, FirstHint(t)
  PROVE  RecordsInv'
<1> DEFINE h == [hint[t] EXCEPT !.first = "sent", !.value = Origins(t, res[t].first)]
<1>1. TypeOK /\ HintInv /\ hint[t].first = "no" /\ UNCHANGED <<kind, store, res>>
  BY DEF RecordsInv, FirstHint
<1>2. hint[t] \in HintType /\ Origins(t, res[t].first) \in MaybeRecord
  BY <1>1, Fields, OriginsType
<1>3. hint' = [hint EXCEPT ![t] = h]
  BY <1>1 DEF FirstHint, TypeOK
<1>4. h \in HintType /\ h.final = hint[t].final
  BY <1>2 DEF HintType
<1>5. h.final # "done"
  BY <1>1, <1>4 DEF HintInv
<1> HIDE DEF h
<1>. QED
  BY <1>1, <1>3, <1>4, <1>5, HintKeeps

\* The first locations are applied before the final ones are sent.
LEMMA FirstHintAppliedKeeps ==
  ASSUME RecordsInv, NEW t \in Tabs, FirstHintApplied(t)
  PROVE  RecordsInv'
<1> DEFINE h == [hint[t] EXCEPT !.first = "done", !.sources = hint[t].value]
<1>1. TypeOK /\ HintInv /\ hint[t].first = "sent" /\ UNCHANGED <<kind, store, res>>
  BY DEF RecordsInv, FirstHintApplied
<1>2. hint[t] \in HintType
  BY <1>1, Fields
<1>3. hint' = [hint EXCEPT ![t] = h]
  BY <1>1 DEF FirstHintApplied, TypeOK
<1>4. h \in HintType /\ h.final = hint[t].final
  BY <1>2 DEF HintType
<1>5. h.final # "done"
  BY <1>1, <1>4 DEF HintInv
<1> HIDE DEF h
<1>. QED
  BY <1>1, <1>3, <1>4, <1>5, HintKeeps

\* The final locations are those of a lookup that is over.
LEMMA FinalHintKeeps ==
  ASSUME RecordsInv, NEW t \in Tabs, FinalHint(t)
  PROVE  RecordsInv'
<1> DEFINE h == [hint[t] EXCEPT !.final = "done", !.sources = Origins(t, res[t].final)]
<1>1. TypeOK /\ res[t].pc = "done" /\ hint[t].first = "done" /\ UNCHANGED <<kind, store, res>>
  BY DEF RecordsInv, FinalHint
<1>2. hint[t] \in HintType /\ Origins(t, res[t].final) \in MaybeRecord
  BY <1>1, Fields, OriginsType
<1>3. hint' = [hint EXCEPT ![t] = h]
  BY <1>1 DEF FinalHint, TypeOK
<1>4. h \in HintType /\ h.first = hint[t].first /\ h.sources = Origins(t, res[t].final)
  BY <1>2 DEF HintType
<1> HIDE DEF h
<1>. QED
  BY <1>1, <1>3, <1>4, HintKeeps

-----------------------------------------------------------------------------
(* The theorems.                                                           *)

\* Every step of every tab keeps the invariant.
LEMMA NextKeeps == RecordsInv /\ [Next]_vars => RecordsInv'
<1> SUFFICES ASSUME RecordsInv, [Next]_vars PROVE RecordsInv'
  OBVIOUS
<1>1. CASE Next
  <2>1. PICK t \in Tabs :
          \/ Start(t) \/ Observe(t) \/ Observed(t) \/ Abort(t) \/ Resolved(t) \/ Stillborn(t)
          \/ (\E a \in Apis : NoAnswer(t, a) \/ Answer(t, a))
          \/ FirstHint(t) \/ FirstHintApplied(t) \/ FinalHint(t)
    BY <1>1 DEF Next
  <2>2. CASE Start(t) \/ Observe(t) \/ Observed(t) \/ Abort(t) \/ Resolved(t) \/ Stillborn(t)
    BY <2>2, StartKeeps, ObserveKeeps, ObservedKeeps, AbortKeeps, FinishKeeps, StillbornKeeps
  <2>3. CASE \E a \in Apis : NoAnswer(t, a) \/ Answer(t, a)
    BY <2>3, NoAnswerKeeps, AnswerKeeps
  <2>4. CASE FirstHint(t) \/ FirstHintApplied(t) \/ FinalHint(t)
    BY <2>4, FirstHintKeeps, FirstHintAppliedKeeps, FinalHintKeeps
  <2>. QED
    BY <2>1, <2>2, <2>3, <2>4
<1>2. CASE UNCHANGED vars
  BY <1>2 DEF vars, RecordsInv, TypeOK, LookupInv, DurableInv, HintInv, Origins
<1>. QED
  BY <1>1, <1>2

\* The inductive invariant of resolveRecord, observeRecord and open() holds always.
THEOREM Inductive == Spec => []RecordsInv
BY InitKeeps, NextKeeps, PTL DEF Spec

\* resolveRecord never exposes a record older than the one it had cached, and a
\* publication only after observeRecord has made it durable for every tab.
THEOREM NoRollbackHolds == Spec => []NoRollback
<1>1. RecordsInv => NoRollback
  <2> SUFFICES ASSUME RecordsInv, NEW t \in Tabs, res[t].first # NoRecord
               PROVE  /\ res[t].first.seq >= res[t].best.seq
                      /\ kind = "names" => store.seq >= res[t].first.seq
    BY DEF NoRollback
  <2>1. /\ res[t].best.seq <= res[t].first.seq
        /\ kind = "names" => res[t].first.seq <= store.seq
    BY DEF RecordsInv, LookupInv, LookupOK, DurableInv
  <2>2. res[t].best \in MaybeRecord /\ res[t].first \in MaybeRecord /\ store \in MaybeRecord
    BY Fields DEF RecordsInv
  <2>. QED
    BY <2>1, <2>2, SequenceType
<1>. QED
  BY <1>1, Inductive, PTL

\* open() leaves the window with the final locations, or with none if their
\* lookup failed: the first ones never come after them.
THEOREM FinalHintsWinHolds == Spec => []FinalHintsWin
<1>1. RecordsInv => FinalHintsWin
  BY DEF RecordsInv, LookupInv, LookupOK, HintInv, FinalHintsWin, Origins
<1>. QED
  BY <1>1, Inductive, PTL

\* No transaction of any tab takes the durable mark of observeRecord back, or
\* replaces a record by another one of its sequence.
THEOREM HighWaterHolds == Spec => HighWater
<1>1. RecordsInv /\ [Next]_vars => [Newer(store, store') = store' /\ ~Clash(store, store')]_store
  <2> SUFFICES ASSUME RecordsInv, [Next]_vars, store' # store
               PROVE  Newer(store, store') = store' /\ ~Clash(store, store')
    OBVIOUS
  <2>1. PICK t \in Tabs : Observed(t) \/ Resolved(t)
    BY DEF Next, vars, Start, NoAnswer, Answer, Observe, Abort, Stillborn, FirstHint,
           FirstHintApplied, FinalHint
  <2>2. TypeOK
    BY DEF RecordsInv
  <2>3. store \in MaybeRecord /\ res[t].observed \in MaybeRecord
    BY <2>2, Fields
  <2>4. CASE Observed(t)
    <3>1. ObserveRecord(res[t], res[t].observed)
      BY <2>4 DEF Observed
    <3>. QED
      BY <2>3, <3>1, ObserveRecordIs
  <2>5. CASE Resolved(t)
    <3> DEFINE all == Answered(res[t])
               best == CHOOSE v \in all : \A w \in all : w.seq <= v.seq
    <3>1. ObserveRecord(res[t], best) /\ all # {}
      BY <2>5 DEF Resolved
    <3>2. all \subseteq MaybeRecord
      BY <2>2, Fields DEF Answered
    <3>3. best \in MaybeRecord
      BY <3>1, <3>2, HighestExists
    <3> HIDE DEF best
    <3>. QED
      BY <2>3, <3>1, <3>3, ObserveRecordIs
  <2>. QED
    BY <2>1, <2>4, <2>5
<1>. QED
  BY <1>1, Inductive, PTL DEF Spec, HighWater

-----------------------------------------------------------------------------
(* The download that goes with a publication's state: StartupPrefetch, the *)
(* other half of torrent-remote.js.                                        *)

JobType ==
  [pc : {"none", "prepare", "attempt", "recover", "profile", "disk", "downloaded", "done"},
   attempts : Nat, failed : {"none", "profile", "disk"}, validated : BOOLEAN, loaded : BOOLEAN,
   downloaded : BOOLEAN, committed : BOOLEAN, outcome : {"none", "fallback", "complete"}]
EntryType ==
  [live : BOOLEAN, background : BOOLEAN, paused : BOOLEAN, prefetch : BOOLEAN, rescanned : BOOLEAN,
   selected : SUBSET Pieces]
AttemptType ==
  [pc : {"none", "checking", "pumping", "answered"}, todo : SUBSET Targets, owned : SUBSET Nat,
   next : Nat, how : {"none", "ok", "error"}]
ScanType == [Pieces -> {"todo", "good", "bad", "stale", "done"}]

PrefetchType ==
  /\ profile \in {"none", "same", "other"} /\ job \in JobType
  /\ command \in {"idle", "decode", "wait", "load"} /\ entry \in EntryType
  /\ scope \in {"none", "profile", "disk", "auto"}
  /\ scan \in ScanType /\ have \in SUBSET Pieces /\ stored \in SUBSET Pieces
  /\ attempt \in AttemptType

\* What is verified is in the store, and a scan that is older than a bit is known to be.
ScanInv ==
  /\ have \subseteq stored
  /\ \A p \in Pieces : (scan[p] = "good" => p \in stored) /\ (p \in have => scan[p] # "bad")

\* An attempt and the selections it has made.
Selects(a, s) ==
  /\ a \in AttemptType /\ s = a.owned /\ IsFiniteSet(a.owned) /\ Cardinality(a.owned) <= WindowPieces
  /\ a.pc # "pumping" => a.owned = {}
  /\ a.how = "ok" => a.pc = "answered"

\* An attempt is of the job that waits for it and of a torrent that lives, and the
\* scan will not take back a target.
AttemptInv ==
  /\ Selects(attempt, streams)
  /\ attempt # NoAttempt => Current /\ job.pc = "disk"
  /\ Attempting => entry.live /\ (scan = ScanOver \/ Targets \subseteq guarded)
  /\ attempt.how = "ok" => Targets \subseteq stored

\* A job under way owns the scope, and has what it says it has.
JobInv ==
  /\ Current => scope = "none" /\ command # "load"
  /\ Current /\ job.downloaded => Targets \subseteq stored /\ job.pc = "downloaded"
  /\ command = "load" => scope \in {"profile", "disk", "auto"}

\* The disk downloads in the background only without a job.
BackInv ==
  entry.live /\ entry.background => scope \in {"disk", "auto"} /\ ~Current /\ command # "load"

PrefetchInv == PrefetchType /\ ScanInv /\ AttemptInv /\ JobInv /\ BackInv

HIDE RecordsAssumption

\* A set of numbers has a least one.
LEMMA LeastExists ==
  ASSUME NEW S \in SUBSET Nat, S # {}
  PROVE  \E m \in S : \A n \in S : m <= n
<1>1. PICK m \in S : \A n \in S : ~(<<n, m>> \in OpToRel(<, Nat))
  BY NatLessThanWellFounded, WFMin
<1>2. \A n \in S : ~(n < m)
  BY <1>1 DEF OpToRel
<1> QED BY <1>2

\* A bounded set of numbers has a greatest one.
LEMMA GreatestExists ==
  ASSUME NEW S \in SUBSET Nat, S # {}, NEW b \in Nat, \A n \in S : n <= b
  PROVE  Max(S) \in S
<1> DEFINE G == {k \in Nat : b - k \in S}
<1>1. G # {}
  <2>1. PICK n \in S : TRUE
    OBVIOUS
  <2>2. b - n \in Nat /\ b - (b - n) = n
    BY <2>1
  <2> QED BY <2>1, <2>2
<1>2. PICK k \in G : \A j \in G : k <= j
  BY <1>1, LeastExists
<1>3. \A n \in S : b - k >= n
  <2> TAKE n \in S
  <2>1. b - n \in Nat /\ b - (b - n) = n
    OBVIOUS
  <2>2. b - n \in G
    BY <2>1
  <2> QED BY <1>2, <2>2
<1> QED BY <1>2, <1>3 DEF Max

\* What the assumption says in these terms.
LEMMA PrefetchConstants ==
  /\ Pieces \subseteq Nat /\ IsFiniteSet(Pieces) /\ Targets \subseteq Pieces /\ Targets # {}
  /\ \A p \in Targets : 1..p \subseteq Targets
  /\ WindowPieces \in Nat /\ WindowPieces >= 1 /\ MaxAttempts \in Nat
BY PrefetchAssumption

\* There is a last target.
LEMMA LastExists == Last \in Nat
<1>1. IsFiniteSet(Targets) /\ Cardinality(Targets) \in Nat
  BY PrefetchConstants, FS_Subset, FS_CardinalityType
<1>2. \A p \in Targets : p <= Cardinality(Targets)
  <2> TAKE p \in Targets
  <2>1. p \in Nat /\ 1..p \subseteq Targets
    BY PrefetchConstants
  <2>2. Cardinality(1..p) <= Cardinality(Targets)
    BY <1>1, <2>1, FS_Subset
  <2>3. Cardinality(1..p) = p
    BY <2>1, FS_Interval
  <2> QED BY <2>2, <2>3
<1>3. Max(Targets) \in Targets
  BY <1>1, <1>2, PrefetchConstants, GreatestExists
<1> QED BY <1>3, PrefetchConstants DEF Last

\* Of a finite set, the smallest members are as many as one wants.
LEMMA SmallestExist ==
  ASSUME NEW S \in SUBSET Nat, IsFiniteSet(S), NEW k \in 0..Cardinality(S)
  PROVE  \E t \in SUBSET S : Cardinality(t) = k /\ \A p \in t, q \in S \ t : p < q
<1> DEFINE Has(j) == \E t \in SUBSET S : Cardinality(t) = j /\ \A p \in t, q \in S \ t : p < q
           Bad == {j \in Nat : j <= Cardinality(S) /\ ~Has(j)}
<1>0. Cardinality(S) \in Nat
  BY FS_CardinalityType
<1> SUFFICES ASSUME Bad # {} PROVE FALSE
  BY <1>0
<1>1. PICK j \in Bad : \A i \in Bad : j <= i
  BY LeastExists
<1>2. j # 0
  <2>1. Cardinality({}) = 0
    BY FS_EmptySet
  <2>2. Has(0)
    BY <2>1
  <2> QED BY <1>1, <2>2
<1>3. j - 1 \in Nat /\ j - 1 < j /\ j - 1 <= Cardinality(S) /\ j - 1 < Cardinality(S)
  BY <1>0, <1>1, <1>2
<1>4. Has(j - 1)
  BY <1>1, <1>3
<1>5. PICK t \in SUBSET S : Cardinality(t) = j - 1 /\ \A p \in t, q \in S \ t : p < q
  BY <1>4
<1>6. S \ t # {}
  <2>1. t # S
    BY <1>3, <1>5, <1>0
  <2> QED BY <2>1
<1>7. PICK m \in S \ t : \A q \in S \ t : m <= q
  BY <1>6, LeastExists
<1> DEFINE u == t \cup {m}
<1>8. Cardinality(u) = j
  <2>1. IsFiniteSet(t)
    BY FS_Subset
  <2>2. Cardinality(t \cup {m}) = Cardinality(t) + 1
    BY <1>7, <2>1, FS_AddElement
  <2> QED BY <1>1, <1>5, <2>2
<1>9. \A p \in u, q \in S \ u : p < q
  <2> TAKE p \in u, q \in S \ u
  <2>1. q \in S \ t /\ q # m /\ q \in Nat /\ m \in Nat
    BY <1>7
  <2>2. CASE p \in t
    BY <1>5, <2>1, <2>2
  <2>3. CASE p = m
    BY <1>7, <2>1, <2>3
  <2> QED BY <2>2, <2>3
<1>10. Has(j)
  BY <1>7, <1>8, <1>9
<1> QED BY <1>1, <1>10

\* What pump takes of the pieces that are missing.
LEMMA SmallestIs ==
  ASSUME NEW S \in SUBSET Nat, IsFiniteSet(S), NEW n \in Nat
  PROVE  /\ Smallest(S, n) \in SUBSET S
         /\ Cardinality(Smallest(S, n)) = IF Cardinality(S) < n THEN Cardinality(S) ELSE n
<1> DEFINE k == IF Cardinality(S) < n THEN Cardinality(S) ELSE n
<1>1. Cardinality(S) \in Nat
  BY FS_CardinalityType
<1>2. k \in 0..Cardinality(S)
  BY <1>1
<1>3. PICK t \in SUBSET S : Cardinality(t) = k /\ \A p \in t, q \in S \ t : p < q
  BY <1>2, SmallestExist
<1>4. /\ Cardinality(t) = IF Cardinality(S) < n THEN Cardinality(S) ELSE n
      /\ \A p \in t, q \in S \ t : p < q
  BY <1>3
<1>5. /\ Smallest(S, n) \in SUBSET S
      /\ Cardinality(Smallest(S, n)) = IF Cardinality(S) < n THEN Cardinality(S) ELSE n
  BY <1>4 DEF Smallest
<1> QED BY <1>5

\* A pump: as many pieces as the window holds, and none that is verified.
LEMMA PumpedIs ==
  ASSUME NEW a \in AttemptType, NEW v \in SUBSET Pieces,
         IsFiniteSet(a.owned), Cardinality(a.owned) <= WindowPieces
  PROVE  /\ Pumped(a, v) \in AttemptType
         /\ Pumped(a, v).pc = "pumping" /\ Pumped(a, v).how = a.how
         /\ IsFiniteSet(Pumped(a, v).owned) /\ Cardinality(Pumped(a, v).owned) <= WindowPieces
<1> DEFINE kept == a.owned \ v
           room == WindowPieces - Cardinality(kept)
           missing == {p \in a.next..Last : p \notin v}
           taken == Smallest(missing, room)
           next == IF room = 0 THEN a.next
                   ELSE IF Cardinality(missing) < room THEN Last + 1 ELSE Max(taken) + 1
<1>1. a.owned \in SUBSET Nat /\ a.next \in Nat /\ Last \in Nat /\ WindowPieces \in Nat
  BY LastExists, PrefetchConstants DEF AttemptType
<1>2. IsFiniteSet(kept) /\ Cardinality(kept) <= Cardinality(a.owned)
  BY FS_Subset
<1>3. room \in Nat
  <2>1. Cardinality(kept) \in Nat /\ Cardinality(a.owned) \in Nat
    BY <1>2, FS_CardinalityType
  <2> QED BY <1>1, <1>2, <2>1
<1>4. missing \in SUBSET Nat /\ IsFiniteSet(missing) /\ \A p \in missing : p <= Last
  <2>0. a.next \in Int /\ Last \in Int
    BY <1>1
  <2>1. IsFiniteSet(a.next..Last)
    BY <2>0, FS_Interval
  <2>2. missing \subseteq a.next..Last
    OBVIOUS
  <2> QED BY <1>1, <2>1, <2>2, FS_Subset
<1>5. /\ taken \in SUBSET missing
      /\ Cardinality(taken) = IF Cardinality(missing) < room THEN Cardinality(missing) ELSE room
  BY <1>3, <1>4, SmallestIs
<1>6. IsFiniteSet(taken) /\ Cardinality(taken) \in Nat /\ Cardinality(missing) \in Nat
  BY <1>4, <1>5, FS_Subset, FS_CardinalityType
<1>7. IsFiniteSet(kept \cup taken) /\ Cardinality(kept \cup taken) <= WindowPieces
  <2>1. /\ IsFiniteSet(kept \cup taken)
        /\ Cardinality(kept \cup taken) = Cardinality(kept) + Cardinality(taken) - Cardinality(kept \cap taken)
    BY <1>2, <1>6, FS_Union
  <2>2. Cardinality(kept \cap taken) \in Nat /\ Cardinality(kept) \in Nat
    <3>1. IsFiniteSet(kept \cap taken)
      BY <1>2, FS_Subset
    <3> QED BY <3>1, <1>2, FS_CardinalityType
  <2> HIDE DEF kept, taken, missing
  <2>3. Cardinality(taken) <= WindowPieces - Cardinality(kept)
    BY <1>5, <1>6, <1>3
  <2> QED BY <1>1, <1>6, <2>1, <2>2, <2>3
<1>8. next \in Nat
  <2>1. CASE room = 0 \/ Cardinality(missing) < room
    BY <1>1, <2>1
  <2>2. CASE room # 0 /\ ~(Cardinality(missing) < room)
    <3>1. taken # {}
      BY <1>3, <1>5, <2>2, FS_EmptySet
    <3>2. taken \in SUBSET Nat /\ \A n \in taken : n <= Last
      BY <1>4, <1>5
    <3>3. Max(taken) \in taken
      BY <1>1, <3>1, <3>2, GreatestExists
    <3>4. Max(taken) \in Nat
      BY <3>2, <3>3
    <3> HIDE DEF taken, room, missing
    <3>5. Max(taken) + 1 \in Nat
      BY <3>4
    <3> QED BY <2>2, <3>5
  <2> QED BY <2>1, <2>2
<1>9. Pumped(a, v) = [a EXCEPT !.pc = "pumping", !.owned = kept \cup taken, !.next = next]
  BY DEF Pumped
<1>10. kept \cup taken \in SUBSET Nat
  BY <1>1, <1>4, <1>5
<1> HIDE DEF kept, room, missing, taken, next
<1> DEFINE o == kept \cup taken
<1> HIDE DEF o
<1>11. o \in SUBSET Nat /\ IsFiniteSet(o) /\ Cardinality(o) <= WindowPieces
  BY <1>7, <1>10 DEF o
<1>12. Pumped(a, v) = [a EXCEPT !.pc = "pumping", !.owned = o, !.next = next]
  BY <1>9 DEF o
<1> QED BY <1>8, <1>11, <1>12 DEF AttemptType

\* No selection is within the window.
LEMMA NothingFits == IsFiniteSet({}) /\ Cardinality({}) <= WindowPieces
<1>1. IsFiniteSet({}) /\ Cardinality({}) = 0
  BY FS_EmptySet
<1>2. 0 <= WindowPieces
  BY PrefetchConstants
<1> QED BY <1>1, <1>2

\* The end of an attempt takes back its selections.
LEMMA EndsIs ==
  ASSUME Selects(attempt, streams), NEW how \in {"ok", "error"}, AttemptEnds(how)
  PROVE  Selects(attempt', streams') /\ attempt'.pc = "answered" /\ attempt'.how = how
<1>1. attempt' = [pc |-> "answered", todo |-> {}, owned |-> {}, next |-> 1, how |-> how]
  BY DEF AttemptEnds, NoAttempt
<1>2. streams' = {}
  BY DEF AttemptEnds, Release, Selects
<1>3. attempt' \in AttemptType
  BY <1>1 DEF AttemptType
<1> QED BY <1>1, <1>2, <1>3, NothingFits DEF Selects

\* An attempt that is not there has selected nothing.
LEMMA NoneSelects ==
  /\ Selects(NoAttempt, {}) /\ NoAttempt.how = "none" /\ NoAttempt.pc = "none"
<1>1. NoAttempt \in AttemptType
  BY DEF AttemptType, NoAttempt
<1> QED BY <1>1, NothingFits DEF Selects, NoAttempt

\* So does one that is aborted.
LEMMA AbortedIs ==
  ASSUME Selects(attempt, streams), AttemptAborted
  PROVE  Selects(attempt', streams') /\ attempt' = NoAttempt
<1>1. streams' = {} /\ attempt' = NoAttempt
  BY DEF AttemptAborted, Release, Selects
<1> QED BY <1>1, NoneSelects

\* A pump answers only when every target is verified.
LEMMA PumpIs ==
  ASSUME Selects(attempt, streams), Attempting, NEW v \in SUBSET Pieces, Pump(v)
  PROVE  /\ Selects(attempt', streams') /\ attempt'.pc \in {"pumping", "answered"}
         /\ attempt'.how = "ok" => Targets \subseteq v
<1>1. CASE Targets \subseteq v
  <2>1. AttemptEnds("ok")
    BY <1>1 DEF Pump, AllVerified
  <2> QED BY <1>1, <2>1, EndsIs
<1>2. CASE ~(Targets \subseteq v)
  <2> DEFINE a == Pumped(attempt, v)
  <2>1. attempt' = a /\ streams' = Release(streams, attempt.owned \ a.owned) \cup a.owned
    BY <1>2 DEF Pump, AllVerified
  <2>2. /\ a \in AttemptType /\ a.pc = "pumping" /\ a.how = attempt.how
        /\ IsFiniteSet(a.owned) /\ Cardinality(a.owned) <= WindowPieces
    BY PumpedIs DEF Selects
  <2> HIDE DEF a
  <2>3. streams' = a.owned
    BY <2>1 DEF Release, Selects
  <2>4. attempt.how # "ok"
    BY DEF Selects, Attempting
  <2> QED BY <2>1, <2>2, <2>3, <2>4 DEF Selects
<1> QED BY <1>1, <1>2

\* A verified piece makes the attempt pump.
LEMMA MarkIs ==
  ASSUME Selects(attempt, streams), have \in SUBSET Pieces, NEW p \in Pieces,
         MarkVerified(p)
  PROVE  /\ have' = have \cup {p} /\ have' \in SUBSET Pieces
         /\ \/ attempt' = attempt /\ streams' = streams
            \/ /\ Attempting /\ Selects(attempt', streams') /\ attempt'.pc \in {"pumping", "answered"}
               /\ attempt'.how = "ok" => Targets \subseteq have'
<1>1. have' = have \cup {p} /\ have' \in SUBSET Pieces
  BY DEF MarkVerified
<1>2. CASE attempt.pc = "pumping" /\ p \in Targets
  <2>1. Pump(have') /\ Attempting
    BY <1>2 DEF MarkVerified, Attempting
  <2> QED BY <1>1, <2>1, PumpIs
<1>3. CASE ~(attempt.pc = "pumping" /\ p \in Targets)
  BY <1>1, <1>3 DEF MarkVerified
<1> QED BY <1>2, <1>3

\* backgroundSelection changes what is selected, and nothing else.
LEMMA BackgroundIs ==
  ASSUME NEW e \in EntryType, NEW on \in BOOLEAN
  PROVE  /\ BackgroundSelection(e, on) \in EntryType
         /\ BackgroundSelection(e, on).live = e.live
         /\ BackgroundSelection(e, on).background = e.background
BY DEF BackgroundSelection, EntryType

\* After background(false) a torrent that lives does not download in the background.
LEMMA BackgroundOffIs ==
  ASSUME NEW e \in EntryType
  PROVE  /\ BackgroundOff(e) \in EntryType /\ BackgroundOff(e).live = e.live
         /\ e.live => ~BackgroundOff(e).background
<1> DEFINE f == [e EXCEPT !.background = FALSE]
<1>1. f \in EntryType /\ f.live = e.live /\ ~f.background
  BY DEF EntryType
<1>2. BackgroundOff(e) = IF e.live THEN BackgroundSelection(f, FALSE) ELSE e
  BY DEF BackgroundOff
<1> HIDE DEF f
<1>3. /\ BackgroundSelection(f, FALSE) \in EntryType /\ BackgroundSelection(f, FALSE).live = f.live
      /\ BackgroundSelection(f, FALSE).background = f.background
  BY <1>1, BackgroundIs
<1> QED BY <1>1, <1>2, <1>3

\* Nor after stopPrefetch.
LEMMA QuietIs ==
  ASSUME NEW e \in EntryType
  PROVE  /\ Quiet(e) \in EntryType /\ Quiet(e).live = e.live
         /\ e.live => ~Quiet(e).background
BY DEF Quiet, EntryType

\* A verification makes a negative that is under way stale, and changes no other piece.
LEMMA StaleIs ==
  ASSUME NEW s \in ScanType, NEW p \in Pieces
  PROVE  /\ Outdated(s, p) \in ScanType
         /\ \A q \in Pieces : Outdated(s, p)[q] = IF q = p /\ s[p] = "bad" THEN "stale" ELSE s[q]
         /\ s = ScanOver => Outdated(s, p) = ScanOver
<1>1. Outdated(s, p) = [s EXCEPT ![p] = IF s[p] = "bad" THEN "stale" ELSE s[p]]
  BY DEF Outdated
<1>2. Outdated(s, p) \in ScanType
  BY <1>1 DEF ScanType
<1>3. \A q \in Pieces : Outdated(s, p)[q] = IF q = p /\ s[p] = "bad" THEN "stale" ELSE s[q]
  BY <1>1 DEF ScanType
<1>4. s = ScanOver => Outdated(s, p) = ScanOver
  BY <1>1 DEF ScanType, ScanOver
<1> QED BY <1>2, <1>3, <1>4

\* finish settles the job.
LEMMA FinishIs ==
  ASSUME NEW j \in JobType, NEW o \in {"fallback", "complete"}, Finish(j, o)
  PROVE  /\ job' \in JobType /\ job'.outcome = o /\ job'.validated = j.validated /\ ~Current'
         /\ scope' = IF o = "complete" THEN "profile" ELSE "none"
BY DEF Finish, JobType, Current

\* A job goes on, or it is complete.
LEMMA ProceedIs ==
  ASSUME NEW j \in JobType, Proceed(j)
  PROVE  \/ job' = j /\ scope' = scope
         \/ /\ Completes(j) /\ job' \in JobType /\ ~Current' /\ scope' = "profile"
            /\ job'.validated = j.validated
<1>1. CASE Completes(j)
  <2>1. Finish(j, "complete")
    BY <1>1 DEF Proceed
  <2> QED BY <1>1, <2>1, FinishIs
<1>2. CASE ~Completes(j)
  BY <1>2 DEF Proceed
<1> QED BY <1>1, <1>2

\* A failed attempt is followed by another, or by the end of the job.
LEMMA FailedIs ==
  ASSUME job \in JobType, Current, NEW stage \in {"none", "profile", "disk"}, NEW permanent \in BOOLEAN,
         Failed(stage, permanent)
  PROVE  /\ job' \in JobType /\ job'.outcome # "complete"
         /\ \/ ~Current' /\ scope' = "none"
            \/ Current' /\ job'.pc = "attempt" /\ job'.downloaded = job.downloaded /\ scope' = scope
<1>1. CASE permanent \/ job.attempts = MaxAttempts
  <2>1. Finish(job, "fallback")
    BY <1>1 DEF Failed
  <2> QED BY <2>1, FinishIs
<1>2. CASE ~(permanent \/ job.attempts = MaxAttempts)
  <2>1. job' = [job EXCEPT !.pc = "attempt", !.failed = stage] /\ scope' = scope
    BY <1>2 DEF Failed
  <2> QED BY <2>1 DEF JobType, Current
<1> QED BY <1>1, <1>2

\* cancel leaves no job, and no attempt; a scope that was set before stays.
LEMMA CancelIs ==
  ASSUME PrefetchInv, CancelJob
  PROVE  /\ job' \in JobType /\ ~Current' /\ Selects(attempt', streams') /\ attempt' = NoAttempt
         /\ scope' = IF Current THEN "none" ELSE scope
         /\ job'.outcome = "complete" => job.outcome = "complete"
<1>1. CASE Current
  <2>1. Finish(job, "fallback") /\ AttemptAborted
    BY <1>1 DEF CancelJob
  <2> QED BY <1>1, <2>1, FinishIs, AbortedIs DEF PrefetchInv, PrefetchType, AttemptInv
<1>2. CASE ~Current
  <2>1. job' = job /\ scope' = scope /\ attempt' = attempt /\ streams' = streams
    BY <1>2 DEF CancelJob
  <2>2. Current' = Current
    BY <2>1 DEF Current
  <2> QED BY <1>2, <2>1, <2>2 DEF PrefetchInv, PrefetchType, AttemptInv
<1> QED BY <1>1, <1>2

\* Without an attempt, AttemptInv is about nothing.
LEMMA AttemptOver ==
  ASSUME Selects(attempt', streams'), attempt' = NoAttempt
  PROVE  AttemptInv'
<1>1. attempt'.how = "none" /\ attempt'.pc = "none"
  BY NoneSelects
<1> QED BY <1>1 DEF AttemptInv, Attempting, Selects

\* A settled job, and a window that only turns its background download off.
LEMMA SettledKeeps ==
  ASSUME PrefetchInv, job' \in JobType, ~Current',
         Selects(attempt', streams'), attempt' = NoAttempt,
         profile' = profile, scan' = scan, have' = have, stored' = stored,
         entry' \in EntryType, entry'.live /\ entry'.background => entry.live /\ entry.background,
         command' \in {"idle", "decode", "wait", "load"}, command' = "load" => command = "load",
         scope' = IF Current THEN "none" ELSE scope
  PROVE  PrefetchInv'
<1>1. PrefetchType'
  BY DEF PrefetchInv, PrefetchType, Selects
<1>2. ScanInv'
  BY DEF PrefetchInv, ScanInv
<1>3. AttemptInv'
  BY AttemptOver
<1>4. JobInv'
  BY DEF PrefetchInv, JobInv
<1>5. BackInv'
  BY DEF PrefetchInv, BackInv
<1> QED BY <1>1, <1>2, <1>3, <1>4, <1>5 DEF PrefetchInv

\* A step of the window alone keeps what the Worker's commands and the job rely on.
LEMMA WindowKeeps ==
  ASSUME PrefetchInv, profile' = profile, job' = job, command' = command, scope' = scope,
         entry' \in EntryType, entry'.live /\ entry'.background => entry.live /\ entry.background,
         scan' \in ScanType, have' \in SUBSET Pieces, stored' \in SUBSET Pieces, attempt' \in AttemptType,
         stored \subseteq stored', ScanInv', AttemptInv'
  PROVE  PrefetchInv'
<1>1. Current' = Current
  BY DEF Current
<1>2. PrefetchType'
  BY DEF PrefetchInv, PrefetchType
<1>3. JobInv'
  BY <1>1 DEF PrefetchInv, JobInv
<1>4. BackInv'
  BY <1>1 DEF PrefetchInv, BackInv
<1> QED BY <1>2, <1>3, <1>4 DEF PrefetchInv

\* The attempt goes on as it is, or pumps.
LEMMA MarkKeeps ==
  ASSUME PrefetchInv, NEW p \in Pieces, MarkVerified(p), job' = job,
         entry'.live = entry.live, have' \subseteq stored', stored \subseteq stored',
         scan' = ScanOver \/ (scan # ScanOver /\ guarded' = guarded)
  PROVE  AttemptInv' /\ attempt' \in AttemptType
<1>1. Current' = Current
  BY DEF Current
<1>2. Selects(attempt, streams) /\ have \in SUBSET Pieces /\ attempt \in AttemptType
  BY DEF PrefetchInv, PrefetchType, AttemptInv
<1>3. CASE attempt' = attempt /\ streams' = streams
  <2>1. Attempting' = Attempting
    BY <1>3 DEF Attempting
  <2>2. attempt'.how = "ok" => Targets \subseteq stored'
    BY <1>3 DEF PrefetchInv, AttemptInv
  <2>3. Attempting' => entry'.live /\ (scan' = ScanOver \/ Targets \subseteq guarded')
    BY <2>1 DEF PrefetchInv, AttemptInv
  <2>4. attempt' # NoAttempt => Current' /\ job'.pc = "disk"
    BY <1>1, <1>3 DEF PrefetchInv, AttemptInv
  <2> QED BY <1>2, <1>3, <2>2, <2>3, <2>4 DEF AttemptInv
<1>4. CASE /\ Attempting /\ Selects(attempt', streams') /\ attempt'.pc \in {"pumping", "answered"}
           /\ attempt'.how = "ok" => Targets \subseteq have'
  <2>1. attempt # NoAttempt
    BY <1>4 DEF Attempting, NoAttempt
  <2>2. Current' /\ job'.pc = "disk"
    BY <1>1, <2>1 DEF PrefetchInv, AttemptInv
  <2>3. entry'.live /\ (scan' = ScanOver \/ Targets \subseteq guarded')
    BY <1>4 DEF PrefetchInv, AttemptInv
  <2>4. attempt'.how = "ok" => Targets \subseteq stored'
    BY <1>4
  <2>5. attempt' \in AttemptType
    BY <1>4 DEF Selects
  <2> QED BY <1>4, <2>2, <2>3, <2>4, <2>5 DEF AttemptInv
<1> QED BY <1>2, <1>3, <1>4, MarkIs

\* A piece that arrives.
LEMMA PieceArrivesKeeps ==
  ASSUME PrefetchInv, NEW p \in Pieces, PieceArrives(p)
  PROVE  PrefetchInv'
<1>1. /\ MarkVerified(p) /\ stored' = stored \cup {p} /\ scan' = Outdated(scan, p)
      /\ profile' = profile /\ job' = job /\ command' = command /\ scope' = scope
      /\ entry' = entry /\ guarded' = guarded
  BY DEF PieceArrives
<1>2. have' = have \cup {p} /\ have' \in SUBSET Pieces
  BY <1>1, MarkIs DEF PrefetchInv, PrefetchType, AttemptInv
<1>3. scan \in ScanType /\ stored \in SUBSET Pieces /\ entry \in EntryType /\ ScanInv
  BY DEF PrefetchInv, PrefetchType
<1>4. /\ scan' \in ScanType
      /\ \A q \in Pieces : scan'[q] = IF q = p /\ scan[p] = "bad" THEN "stale" ELSE scan[q]
      /\ scan = ScanOver => scan' = ScanOver
  BY <1>1, <1>3, StaleIs
<1>5. ScanInv'
  BY <1>1, <1>2, <1>3, <1>4 DEF ScanInv
<1>6. AttemptInv' /\ attempt' \in AttemptType
  <2>1. have' \subseteq stored' /\ stored \subseteq stored'
    BY <1>1, <1>2, <1>3 DEF ScanInv
  <2> QED BY <1>1, <1>4, <2>1, MarkKeeps
<1> QED BY <1>1, <1>2, <1>3, <1>4, <1>5, <1>6, WindowKeeps

\* A read of the scan.
LEMMA ScanReadsKeeps ==
  ASSUME PrefetchInv, NEW p \in Pieces, ScanReads(p)
  PROVE  PrefetchInv'
<1>1. /\ scan[p] = "todo" /\ scan' = [scan EXCEPT ![p] = IF p \in stored THEN "good" ELSE "bad"]
      /\ profile' = profile /\ job' = job /\ command' = command /\ scope' = scope
      /\ entry' = entry /\ guarded' = guarded /\ have' = have /\ stored' = stored
      /\ attempt' = attempt /\ streams' = streams
  BY DEF ScanReads
<1>2. /\ scan \in ScanType /\ stored \in SUBSET Pieces /\ have \in SUBSET Pieces
      /\ entry \in EntryType /\ attempt \in AttemptType /\ ScanInv /\ AttemptInv
  BY DEF PrefetchInv, PrefetchType
<1>3. scan' \in ScanType /\ scan'[p] = IF p \in stored THEN "good" ELSE "bad"
  BY <1>1, <1>2 DEF ScanType
<1>4. \A q \in Pieces : q # p => scan'[q] = scan[q]
  BY <1>1, <1>2 DEF ScanType
<1>5. ScanInv'
  BY <1>1, <1>2, <1>3, <1>4 DEF ScanInv
<1>6. scan # ScanOver
  BY <1>1 DEF ScanOver
<1>7. AttemptInv'
  BY <1>1, <1>2, <1>6 DEF AttemptInv, Attempting, Current
<1> QED BY <1>1, <1>2, <1>3, <1>5, <1>7, WindowKeeps

\* The end of a scan, or its going on.
LEMMA ScanEntryIs ==
  ASSUME PrefetchInv, NEW p \in Pieces, ScanAnswers(p)
  PROVE  /\ entry' \in EntryType /\ entry'.live = entry.live /\ entry'.background = entry.background
         /\ scan' = ScanOver \/ guarded' = guarded
<1>1. entry \in EntryType
  BY DEF PrefetchInv, PrefetchType
<1>2. CASE scan' = ScanOver
  <2> DEFINE e == [entry EXCEPT !.rescanned = TRUE]
             on == attempt'.pc \in {"checking", "pumping"}
  <2>1. e \in EntryType /\ e.live = entry.live /\ e.background = entry.background
    BY <1>1 DEF EntryType
  <2>2. entry' = BackgroundSelection(e, on) /\ on \in BOOLEAN
    BY <1>2 DEF ScanAnswers
  <2> HIDE DEF e, on
  <2> QED BY <1>2, <2>1, <2>2, BackgroundIs
<1>3. CASE scan' # ScanOver
  BY <1>1, <1>3 DEF ScanAnswers
<1> QED BY <1>2, <1>3

\* An answer of the scan never takes back a target of the attempt that runs.
LEMMA ScanKeepsTargets ==
  ASSUME PrefetchInv, NEW p \in Pieces, ScanAnswers(p), Attempting, p \in Targets, p \in have
  PROVE  ScanValid(p)
<1>1. scan[p] \in {"good", "bad", "stale"}
  BY DEF ScanAnswers
<1>2. scan # ScanOver
  BY <1>1 DEF ScanOver
<1>3. p \in guarded
  BY <1>2 DEF PrefetchInv, AttemptInv
<1>4. scan[p] # "bad"
  BY DEF PrefetchInv, ScanInv
<1> QED BY <1>1, <1>3, <1>4 DEF ScanValid

\* An answer of the scan.
LEMMA ScanAnswersKeeps ==
  ASSUME PrefetchInv, NEW p \in Pieces, ScanAnswers(p)
  PROVE  PrefetchInv'
<1>1. /\ scan[p] \in {"good", "bad", "stale"} /\ scan' = [scan EXCEPT ![p] = "done"]
      /\ profile' = profile /\ job' = job /\ command' = command /\ scope' = scope /\ stored' = stored
  BY DEF ScanAnswers
<1>2. /\ scan \in ScanType /\ stored \in SUBSET Pieces /\ have \in SUBSET Pieces
      /\ attempt \in AttemptType /\ ScanInv /\ AttemptInv
  BY DEF PrefetchInv, PrefetchType
<1>3. scan' \in ScanType /\ scan'[p] = "done"
  BY <1>1, <1>2 DEF ScanType
<1>4. \A q \in Pieces : q # p => scan'[q] = scan[q]
  BY <1>1, <1>2 DEF ScanType
<1>5. scan # ScanOver
  BY <1>1 DEF ScanOver
<1>6. /\ entry' \in EntryType /\ entry'.live = entry.live /\ entry'.background = entry.background
      /\ scan' = ScanOver \/ guarded' = guarded
  BY ScanEntryIs
<1>7. CASE ScanValid(p)
  <2>1. MarkVerified(p)
    BY <1>7 DEF ScanAnswers
  <2>2. have' = have \cup {p} /\ have' \in SUBSET Pieces
    BY <1>2, <2>1, MarkIs DEF AttemptInv
  <2>3. p \in stored
    BY <1>2, <1>7 DEF ScanInv, ScanValid
  <2>4. ScanInv'
    BY <1>1, <1>2, <1>3, <1>4, <2>2, <2>3 DEF ScanInv
  <2>5. have' \subseteq stored'
    BY <2>4 DEF ScanInv
  <2>6. AttemptInv' /\ attempt' \in AttemptType
    BY <1>1, <1>5, <1>6, <2>1, <2>5, MarkKeeps
  <2> QED BY <1>1, <1>2, <1>3, <1>6, <2>2, <2>4, <2>6, WindowKeeps
<1>8. CASE ~ScanValid(p)
  <2>1. have' = have \ {p} /\ attempt' = attempt /\ streams' = streams
    BY <1>8 DEF ScanAnswers
  <2>2. ScanInv'
    BY <1>1, <1>2, <1>3, <1>4, <2>1 DEF ScanInv
  <2>3. AttemptInv'
    BY <1>1, <1>2, <1>5, <1>6, <2>1 DEF AttemptInv, Attempting, Current
  <2> QED BY <1>1, <1>2, <1>3, <1>6, <2>1, <2>2, <2>3, WindowKeeps
<1> QED BY <1>7, <1>8

\* An attempt looks for one target in the store.
LEMMA AttemptChecksKeeps ==
  ASSUME PrefetchInv, NEW p \in Pieces, AttemptChecks(p)
  PROVE  PrefetchInv'
<1>1. /\ attempt.pc = "checking" /\ have' = (IF p \in stored THEN have \cup {p} ELSE have)
      /\ scan' = (IF p \in have' \ have THEN Outdated(scan, p) ELSE scan)
      /\ attempt' = [attempt EXCEPT !.todo = attempt.todo \ {p}] /\ streams' = streams
      /\ profile' = profile /\ job' = job /\ command' = command /\ scope' = scope /\ stored' = stored
      /\ entry' = entry /\ guarded' = guarded
  BY DEF AttemptChecks
<1>2. /\ scan \in ScanType /\ stored \in SUBSET Pieces /\ have \in SUBSET Pieces
      /\ entry \in EntryType /\ attempt \in AttemptType /\ ScanInv /\ AttemptInv
  BY DEF PrefetchInv, PrefetchType
<1>3. /\ scan' \in ScanType
      /\ \A q \in Pieces : scan'[q] = IF q = p /\ p \in have' \ have /\ scan[p] = "bad" THEN "stale" ELSE scan[q]
      /\ scan = ScanOver => scan' = ScanOver
  BY <1>1, <1>2, StaleIs
<1>4. have' \in SUBSET Pieces /\ have' \subseteq stored
  BY <1>1, <1>2 DEF ScanInv
<1>5. ScanInv'
  <2>1. \A q \in Pieces : q \in have' => scan'[q] # "bad"
    BY <1>1, <1>2, <1>3 DEF ScanInv
  <2> QED BY <1>1, <1>2, <1>3, <1>4, <2>1 DEF ScanInv
<1>6. /\ attempt' \in AttemptType /\ attempt'.pc = "checking" /\ attempt'.how = attempt.how
      /\ attempt'.owned = attempt.owned
  BY <1>1, <1>2 DEF AttemptType
<1>7. AttemptInv'
  <2>1. Attempting /\ attempt # NoAttempt
    BY <1>1 DEF Attempting, NoAttempt
  <2>2. Selects(attempt', streams')
    BY <1>1, <1>2, <1>6 DEF AttemptInv, Selects
  <2>3. Current' = Current
    BY <1>1 DEF Current
  <2> QED BY <1>1, <1>2, <1>3, <1>6, <2>1, <2>2, <2>3 DEF AttemptInv
<1> QED BY <1>1, <1>2, <1>3, <1>4, <1>5, <1>6, <1>7, WindowKeeps

\* The first pump of an attempt.
LEMMA AttemptPumpsKeeps ==
  ASSUME PrefetchInv, AttemptPumps
  PROVE  PrefetchInv'
<1>1. /\ attempt.pc = "checking" /\ Pump(have) /\ entry' = [entry EXCEPT !.paused = FALSE]
      /\ profile' = profile /\ job' = job /\ command' = command /\ scope' = scope /\ stored' = stored
      /\ scan' = scan /\ guarded' = guarded /\ have' = have
  BY DEF AttemptPumps
<1>2. /\ scan \in ScanType /\ stored \in SUBSET Pieces /\ have \in SUBSET Pieces
      /\ entry \in EntryType /\ ScanInv /\ AttemptInv
  BY DEF PrefetchInv, PrefetchType
<1>3. Attempting /\ attempt # NoAttempt
  BY <1>1 DEF Attempting, NoAttempt
<1>4. /\ Selects(attempt', streams') /\ attempt'.pc \in {"pumping", "answered"}
      /\ attempt'.how = "ok" => Targets \subseteq have
  BY <1>1, <1>2, <1>3, PumpIs DEF AttemptInv
<1>5. entry' \in EntryType /\ entry'.live = entry.live /\ entry'.background = entry.background
  BY <1>1, <1>2 DEF EntryType
<1>6. ScanInv'
  BY <1>1, <1>2 DEF ScanInv
<1>7. AttemptInv' /\ attempt' \in AttemptType
  <2>1. Current' = Current
    BY <1>1 DEF Current
  <2>2. attempt'.how = "ok" => Targets \subseteq stored'
    BY <1>1, <1>2, <1>4 DEF ScanInv
  <2>3. attempt' \in AttemptType
    BY <1>4 DEF Selects
  <2> QED BY <1>1, <1>2, <1>3, <1>4, <1>5, <2>1, <2>2, <2>3 DEF AttemptInv
<1> QED BY <1>1, <1>2, <1>5, <1>6, <1>7, WindowKeeps

\* The time limit of an attempt.
LEMMA AttemptTimesOutKeeps ==
  ASSUME PrefetchInv, AttemptTimesOut
  PROVE  PrefetchInv'
<1>1. /\ Attempting /\ AttemptEnds("error") /\ entry' = entry
      /\ profile' = profile /\ job' = job /\ command' = command /\ scope' = scope /\ stored' = stored
      /\ scan' = scan /\ guarded' = guarded /\ have' = have
  BY DEF AttemptTimesOut
<1>2. /\ scan \in ScanType /\ stored \in SUBSET Pieces /\ have \in SUBSET Pieces
      /\ entry \in EntryType /\ ScanInv /\ AttemptInv
  BY DEF PrefetchInv, PrefetchType
<1>3. Selects(attempt', streams') /\ attempt'.pc = "answered" /\ attempt'.how = "error"
  BY <1>1, <1>2, EndsIs DEF AttemptInv
<1>4. ScanInv'
  BY <1>1, <1>2 DEF ScanInv
<1>5. AttemptInv' /\ attempt' \in AttemptType
  <2>1. Current' = Current
    BY <1>1 DEF Current
  <2>2. attempt # NoAttempt /\ ~Attempting'
    BY <1>1, <1>3 DEF Attempting, NoAttempt
  <2>3. attempt' \in AttemptType
    BY <1>3 DEF Selects
  <2> QED BY <1>1, <1>2, <1>3, <2>1, <2>2, <2>3 DEF AttemptInv
<1> QED BY <1>1, <1>2, <1>4, <1>5, WindowKeeps

\* A scan that is over is of the type of one.
LEMMA ScansAre ==
  /\ ScanOver \in ScanType /\ NewScan \in ScanType
  /\ \A p \in Pieces : ScanOver[p] = "done" /\ NewScan[p] = "todo"
BY DEF ScanType, ScanOver, NewScan

\* The torrent fails.
LEMMA TorrentFailsKeeps ==
  ASSUME PrefetchInv, TorrentFails
  PROVE  PrefetchInv'
<1>1. /\ entry' = [entry EXCEPT !.live = FALSE, !.prefetch = FALSE, !.selected = {}]
      /\ scan' = ScanOver
      /\ profile' = profile /\ job' = job /\ command' = command /\ scope' = scope /\ stored' = stored
      /\ have' = have
  BY DEF TorrentFails
<1>2. /\ stored \in SUBSET Pieces /\ have \in SUBSET Pieces /\ attempt \in AttemptType
      /\ entry \in EntryType /\ ScanInv /\ AttemptInv
  BY DEF PrefetchInv, PrefetchType
<1>3. entry' \in EntryType /\ ~entry'.live
  BY <1>1, <1>2 DEF EntryType
<1>4. scan' \in ScanType /\ ScanInv'
  BY <1>1, <1>2, ScansAre DEF ScanInv
<1>5. Current' = Current
  BY <1>1 DEF Current
<1>6. AttemptInv' /\ attempt' \in AttemptType
  <2>1. CASE Attempting
    <3>1. Selects(attempt', streams') /\ attempt'.pc = "answered" /\ attempt'.how = "error"
      BY <1>2, <2>1, EndsIs DEF AttemptInv, TorrentFails
    <3>2. attempt # NoAttempt /\ ~Attempting'
      BY <2>1, <3>1 DEF Attempting, NoAttempt
    <3>3. attempt' \in AttemptType
      BY <3>1 DEF Selects
    <3> QED BY <1>1, <1>2, <1>5, <3>1, <3>2, <3>3 DEF AttemptInv
  <2>2. CASE ~Attempting
    <3>1. attempt' = attempt /\ streams' = streams
      BY <2>2 DEF TorrentFails
    <3>2. ~Attempting'
      BY <2>2, <3>1 DEF Attempting
    <3> QED BY <1>1, <1>2, <1>5, <3>1, <3>2 DEF AttemptInv
  <2> QED BY <2>1, <2>2
<1> QED BY <1>1, <1>2, <1>3, <1>4, <1>6, WindowKeeps

\* Another torrent on the same store knows nothing yet.
LEMMA ReopenedIs ==
  ASSUME PrefetchInv, Reopened, ~Attempting, stored' = stored, attempt' = attempt
  PROVE  /\ entry' \in EntryType /\ ~entry'.background /\ scan' \in ScanType /\ have' \in SUBSET Pieces
         /\ ScanInv' /\ Selects(attempt', streams') /\ streams' = streams /\ ~Attempting'
<1>1. entry' = NewEntry /\ scan' = NewScan /\ have' = {} /\ streams' = {}
  BY DEF Reopened
<1>2. entry' \in EntryType /\ ~entry'.background
  BY <1>1 DEF NewEntry, EntryType
<1>3. ScanInv' /\ scan' \in ScanType /\ have' \in SUBSET Pieces
  BY <1>1, ScansAre DEF ScanInv
<1>4. attempt.owned = {} /\ streams = {}
  BY DEF PrefetchInv, AttemptInv, Selects, Attempting
<1>5. Selects(attempt', streams')
  BY <1>1, <1>4 DEF PrefetchInv, AttemptInv, Selects
<1> QED BY <1>1, <1>2, <1>3, <1>4, <1>5 DEF Attempting

\* A guest's read opens the torrent again.
LEMMA DemandRecoversKeeps ==
  ASSUME PrefetchInv, DemandRecovers
  PROVE  PrefetchInv'
<1>1. /\ ~entry.live /\ Reopened
      /\ profile' = profile /\ job' = job /\ command' = command /\ scope' = scope /\ stored' = stored
      /\ attempt' = attempt
  BY DEF DemandRecovers
<1>2. stored \in SUBSET Pieces /\ attempt \in AttemptType /\ AttemptInv
  BY DEF PrefetchInv, PrefetchType
<1>3. ~Attempting
  BY <1>1, <1>2 DEF AttemptInv
<1>4. /\ entry' \in EntryType /\ ~entry'.background /\ scan' \in ScanType /\ have' \in SUBSET Pieces
      /\ ScanInv' /\ Selects(attempt', streams') /\ streams' = streams /\ ~Attempting'
  BY <1>1, <1>3, ReopenedIs
<1>5. AttemptInv'
  <2>1. Current' = Current
    BY <1>1 DEF Current
  <2> QED BY <1>1, <1>2, <1>4, <2>1 DEF AttemptInv
<1> QED BY <1>1, <1>2, <1>4, <1>5, WindowKeeps

\* A step that changes only the entry, which lives on, and turns no download on.
LEMMA EntryKeeps ==
  ASSUME PrefetchInv, profile' = profile, job' = job, command' = command, scope' = scope,
         entry' \in EntryType, entry'.live = entry.live, entry'.background = entry.background,
         scan' = scan, guarded' = guarded, have' = have, stored' = stored,
         attempt' = attempt, streams' = streams
  PROVE  PrefetchInv'
<1>1. ScanInv'
  BY DEF PrefetchInv, ScanInv
<1>2. AttemptInv'
  BY DEF PrefetchInv, AttemptInv, Attempting, Current
<1> QED BY <1>1, <1>2, WindowKeeps DEF PrefetchInv, PrefetchType

\* A guest's read resumes the torrent.
LEMMA DemandReadsKeeps ==
  ASSUME PrefetchInv, DemandReads
  PROVE  PrefetchInv'
<1>1. entry \in EntryType /\ entry' = [entry EXCEPT !.paused = FALSE]
  BY DEF PrefetchInv, PrefetchType, DemandReads
<1>2. entry' \in EntryType /\ entry'.live = entry.live /\ entry'.background = entry.background
  BY <1>1 DEF EntryType
<1> QED BY <1>2, EntryKeeps DEF DemandReads

\* The prefetch of setLoadPrefetch ends.
LEMMA PrefetchEndsKeeps ==
  ASSUME PrefetchInv, PrefetchEnds
  PROVE  PrefetchInv'
<1> DEFINE e == [entry EXCEPT !.prefetch = FALSE, !.selected = {}]
<1>1. entry \in EntryType /\ entry' = BackgroundSelection(e, Attempting) /\ Attempting \in BOOLEAN
  BY DEF PrefetchInv, PrefetchType, PrefetchEnds, Attempting
<1>2. e \in EntryType /\ e.live = entry.live /\ e.background = entry.background
  BY <1>1 DEF EntryType
<1> HIDE DEF e
<1>3. entry' \in EntryType /\ entry'.live = entry.live /\ entry'.background = entry.background
  BY <1>1, <1>2, BackgroundIs
<1> QED BY <1>3, EntryKeeps DEF PrefetchEnds

\* A step of the job alone keeps what the window relies on.
LEMMA JobKeeps ==
  ASSUME PrefetchInv, profile' = profile, command' = command, scan' = scan, have' = have, stored' = stored,
         job' \in JobType, scope' \in {"none", "profile", "disk", "auto"}, attempt' \in AttemptType,
         entry' \in EntryType, entry'.live /\ entry'.background => entry.live /\ entry.background,
         Current, AttemptInv', Current' => scope' = "none",
         Current' /\ job'.downloaded => Targets \subseteq stored /\ job'.pc = "downloaded"
  PROVE  PrefetchInv'
<1>1. PrefetchType'
  BY DEF PrefetchInv, PrefetchType
<1>2. ScanInv'
  BY DEF PrefetchInv, ScanInv
<1>3. JobInv'
  BY DEF PrefetchInv, JobInv
<1>4. BackInv'
  BY DEF PrefetchInv, BackInv
<1> QED BY <1>1, <1>2, <1>3, <1>4 DEF PrefetchInv

\* The parts of the invariant a step of the job starts from.
LEMMA JobParts ==
  ASSUME PrefetchInv, Current
  PROVE  /\ job \in JobType /\ entry \in EntryType /\ attempt \in AttemptType /\ stored \in SUBSET Pieces
         /\ Selects(attempt, streams) /\ scope = "none" /\ command # "load"
         /\ job.downloaded => Targets \subseteq stored /\ job.pc = "downloaded"
         /\ job.pc # "disk" => attempt = NoAttempt
BY DEF PrefetchInv, PrefetchType, AttemptInv, JobInv

\* prepare.
LEMMA JobPreparesKeeps ==
  ASSUME PrefetchInv, JobPrepares
  PROVE  PrefetchInv'
<1>1. /\ Current /\ job.pc = "prepare" /\ entry' = Quiet(entry)
      /\ profile' = profile /\ command' = command /\ scan' = scan /\ have' = have /\ stored' = stored
      /\ attempt' = attempt /\ streams' = streams
  BY DEF JobPrepares
<1>2. /\ job \in JobType /\ entry \in EntryType /\ attempt \in AttemptType /\ Selects(attempt, streams)
      /\ scope = "none" /\ ~job.downloaded /\ attempt = NoAttempt
  BY <1>1, JobParts DEF JobType
<1>3. entry' \in EntryType /\ (entry'.live => ~entry'.background)
  BY <1>1, <1>2, QuietIs
<1>4. AttemptInv'
  BY <1>1, <1>2, AttemptOver
<1>5. /\ job' \in JobType /\ scope' = "none" /\ (Current' => ~job'.downloaded)
  <2>1. CASE Finish(job, "fallback")
    BY <1>2, <2>1, FinishIs
  <2>2. CASE job' = [job EXCEPT !.pc = "attempt"] /\ scope' = scope
    BY <1>2, <2>2 DEF JobType
  <2> QED BY <2>1, <2>2 DEF JobPrepares
<1> QED BY <1>1, <1>2, <1>3, <1>4, <1>5, JobKeeps

\* The next attempt.
LEMMA JobAttemptsKeeps ==
  ASSUME PrefetchInv, JobAttempts
  PROVE  PrefetchInv'
<1>1. /\ Current /\ job.pc = "attempt"
      /\ job' = [job EXCEPT !.attempts = job.attempts + 1, !.pc = IF job.failed = "none" THEN "profile" ELSE "recover"]
      /\ profile' = profile /\ command' = command /\ scan' = scan /\ have' = have /\ stored' = stored
      /\ attempt' = attempt /\ streams' = streams /\ scope' = scope /\ entry' = entry
  BY DEF JobAttempts, window
<1>2. /\ job \in JobType /\ entry \in EntryType /\ attempt \in AttemptType /\ Selects(attempt, streams)
      /\ scope = "none" /\ ~job.downloaded /\ attempt = NoAttempt
  BY <1>1, JobParts DEF JobType
<1>3. job' \in JobType /\ ~job'.downloaded
  <2> DEFINE n == job.attempts + 1
  <2>1. n \in Nat
    BY <1>2 DEF JobType
  <2>2. job' = [job EXCEPT !.attempts = n, !.pc = IF job.failed = "none" THEN "profile" ELSE "recover"]
    BY <1>1
  <2> HIDE DEF n
  <2> QED BY <1>2, <2>1, <2>2 DEF JobType
<1>4. AttemptInv'
  BY <1>1, <1>2, AttemptOver
<1> QED BY <1>1, <1>2, <1>3, <1>4, JobKeeps

\* The component that failed is recovered, or is not.
LEMMA JobRecoversKeeps ==
  ASSUME PrefetchInv, JobRecovers
  PROVE  PrefetchInv'
<1>1. /\ Current /\ job.pc = "recover"
      /\ profile' = profile /\ command' = command /\ stored' = stored /\ attempt' = attempt
  BY DEF JobRecovers
<1>2. /\ job \in JobType /\ entry \in EntryType /\ attempt \in AttemptType /\ Selects(attempt, streams)
      /\ scope = "none" /\ command # "load" /\ ~job.downloaded /\ attempt = NoAttempt
  BY <1>1, JobParts DEF JobType
<1>3. /\ job' \in JobType /\ scope' = "none" /\ (Current' => ~job'.downloaded)
  <2>1. CASE Failed(job.failed, FALSE)
    <3>1. job.failed \in {"none", "profile", "disk"} /\ FALSE \in BOOLEAN
      BY <1>2 DEF JobType
    <3> QED BY <1>1, <1>2, <2>1, <3>1, FailedIs
  <2>2. CASE job' = [job EXCEPT !.pc = "profile"] /\ scope' = scope
    BY <1>2, <2>2 DEF JobType
  <2> QED BY <2>1, <2>2 DEF JobRecovers
<1>4. CASE Reopened
  <2>1. ~Attempting
    BY <1>2, NoneSelects DEF Attempting
  <2>2. /\ entry' \in EntryType /\ ~entry'.background /\ scan' \in ScanType /\ have' \in SUBSET Pieces
        /\ ScanInv' /\ Selects(attempt', streams')
    BY <1>1, <1>4, <2>1, ReopenedIs
  <2>3. AttemptInv'
    BY <1>1, <1>2, <2>2, AttemptOver
  <2>4. PrefetchType'
    BY <1>1, <1>3, <2>2 DEF PrefetchInv, PrefetchType
  <2>5. JobInv' /\ BackInv'
    BY <1>1, <1>2, <1>3, <2>2 DEF JobInv, BackInv
  <2> QED BY <2>2, <2>3, <2>4, <2>5 DEF PrefetchInv
<1>5. CASE entry' = entry /\ scan' = scan /\ have' = have /\ streams' = streams
  <2>1. AttemptInv'
    BY <1>1, <1>2, <1>5, AttemptOver
  <2> QED BY <1>1, <1>2, <1>3, <1>5, <2>1, JobKeeps
<1> QED BY <1>4, <1>5 DEF JobRecovers

\* prefetchStartup is called.
LEMMA JobLoadsKeeps ==
  ASSUME PrefetchInv, JobLoads
  PROVE  PrefetchInv'
<1>1. /\ Current /\ job.pc = "profile"
      /\ profile' = profile /\ command' = command /\ scan' = scan /\ have' = have /\ stored' = stored
      /\ streams' = streams /\ entry' = entry
  BY DEF JobLoads
<1>2. /\ job \in JobType /\ entry \in EntryType /\ attempt \in AttemptType /\ Selects(attempt, streams)
      /\ scope = "none" /\ ~job.downloaded /\ attempt = NoAttempt
  BY <1>1, JobParts DEF JobType
<1>3. CASE Mismatch
  <2>1. Finish(job, "fallback") /\ attempt' = attempt
    BY <1>3 DEF JobLoads
  <2>2. job' \in JobType /\ scope' = "none" /\ ~Current'
    BY <1>2, <2>1, FinishIs
  <2>3. AttemptInv'
    BY <1>1, <1>2, <2>1, AttemptOver
  <2> QED BY <1>1, <1>2, <2>1, <2>2, <2>3, JobKeeps
<1>4. CASE ~Mismatch
  <2>1. job' = [job EXCEPT !.pc = "disk", !.loaded = TRUE] /\ scope' = scope
    BY <1>4 DEF JobLoads
  <2>2. job' \in JobType /\ job'.pc = "disk" /\ ~job'.downloaded /\ Current'
    BY <1>1, <1>2, <2>1 DEF JobType, Current
  <2>3. streams = {} /\ IsFiniteSet({}) /\ Cardinality({}) <= WindowPieces
    BY <1>2, NothingFits DEF Selects, NoAttempt
  <2>4. CASE entry.live
    <3>1. /\ attempt' = [pc |-> "checking", todo |-> Targets \ have, owned |-> {}, next |-> 1, how |-> "none"]
          /\ guarded' = IF scan = ScanOver THEN {} ELSE guarded \cup Targets
      BY <1>4, <2>4 DEF JobLoads, NoAttempt
    <3>2. attempt' \in AttemptType
      BY <3>1 DEF AttemptType
    <3>3. Selects(attempt', streams')
      BY <1>1, <2>3, <3>1, <3>2 DEF Selects
    <3>4. scan' = ScanOver \/ Targets \subseteq guarded'
      BY <1>1, <3>1
    <3>5. attempt'.how # "ok"
      BY <3>1
    <3>6. AttemptInv'
      BY <1>1, <2>2, <2>4, <3>3, <3>4, <3>5 DEF AttemptInv
    <3> QED BY <1>1, <1>2, <2>1, <2>2, <3>2, <3>6, JobKeeps
  <2>5. CASE ~entry.live
    <3>1. attempt' = [pc |-> "answered", todo |-> {}, owned |-> {}, next |-> 1, how |-> "error"]
      BY <1>4, <2>5 DEF JobLoads, NoAttempt
    <3>2. attempt' \in AttemptType
      BY <3>1 DEF AttemptType
    <3>3. Selects(attempt', streams')
      BY <1>1, <2>3, <3>1, <3>2 DEF Selects
    <3>4. attempt'.how # "ok" /\ ~Attempting'
      BY <3>1 DEF Attempting
    <3>5. AttemptInv'
      BY <2>2, <3>3, <3>4 DEF AttemptInv
    <3> QED BY <1>1, <1>2, <2>1, <2>2, <3>2, <3>5, JobKeeps
  <2> QED BY <2>4, <2>5
<1> QED BY <1>3, <1>4

\* The profiles cannot be read.
LEMMA JobLoadFailsKeeps ==
  ASSUME PrefetchInv, JobLoadFails
  PROVE  PrefetchInv'
<1>1. /\ Current /\ job.pc = "profile"
      /\ profile' = profile /\ command' = command /\ scan' = scan /\ have' = have /\ stored' = stored
      /\ attempt' = attempt /\ streams' = streams /\ entry' = entry
  BY DEF JobLoadFails, window
<1>2. /\ job \in JobType /\ entry \in EntryType /\ attempt \in AttemptType /\ Selects(attempt, streams)
      /\ scope = "none" /\ ~job.downloaded /\ attempt = NoAttempt
  BY <1>1, JobParts DEF JobType
<1>3. PICK permanent \in BOOLEAN : Failed("profile", permanent)
  BY DEF JobLoadFails
<1>4. job' \in JobType /\ scope' = "none" /\ (Current' => ~job'.downloaded)
  BY <1>1, <1>2, <1>3, FailedIs
<1>5. AttemptInv'
  BY <1>1, <1>2, AttemptOver
<1> QED BY <1>1, <1>2, <1>4, <1>5, JobKeeps

\* The answer of prefetchStartup.
LEMMA JobAnsweredKeeps ==
  ASSUME PrefetchInv, JobAnswered
  PROVE  PrefetchInv'
<1>1. /\ Current /\ attempt.pc = "answered" /\ attempt' = NoAttempt
      /\ profile' = profile /\ command' = command /\ scan' = scan /\ have' = have /\ stored' = stored
      /\ streams' = streams /\ entry' = entry
  BY DEF JobAnswered
<1>2. /\ job \in JobType /\ entry \in EntryType /\ Selects(attempt, streams)
      /\ scope = "none" /\ job.pc = "disk" /\ ~job.downloaded
  <2>1. attempt # NoAttempt
    BY <1>1, NoneSelects
  <2> QED BY <1>1, <2>1, JobParts DEF JobType
<1>3. Selects(attempt', streams') /\ attempt' \in AttemptType
  <2>1. streams' = {}
    BY <1>1, <1>2 DEF Selects
  <2> QED BY <1>1, <2>1, NoneSelects DEF Selects
<1>4. AttemptInv'
  BY <1>1, <1>3, AttemptOver
<1>5. CASE attempt.how = "ok"
  <2> DEFINE j == [job EXCEPT !.pc = "downloaded", !.downloaded = TRUE]
  <2>1. j \in JobType /\ j.pc = "downloaded"
    BY <1>2 DEF JobType
  <2>2. Proceed(j) /\ Targets \subseteq stored
    BY <1>5 DEF JobAnswered, PrefetchInv, AttemptInv
  <2> HIDE DEF j
  <2>3. /\ job' \in JobType /\ scope' \in {"none", "profile"} /\ (Current' => scope' = "none")
        /\ Current' => job'.pc = "downloaded"
    BY <1>2, <2>1, <2>2, ProceedIs
  <2> QED BY <1>1, <1>2, <1>3, <1>4, <2>2, <2>3, JobKeeps
<1>6. CASE attempt.how # "ok"
  <2>1. Failed("disk", FALSE)
    BY <1>6 DEF JobAnswered
  <2>2. job' \in JobType /\ scope' = "none" /\ (Current' => ~job'.downloaded)
    BY <1>1, <1>2, <2>1, FailedIs
  <2> QED BY <1>1, <1>2, <1>3, <1>4, <2>2, JobKeeps
<1> QED BY <1>5, <1>6

\* The budget of the job is over.
LEMMA BudgetExpiresKeeps ==
  ASSUME PrefetchInv, BudgetExpires
  PROVE  PrefetchInv'
<1>1. /\ CancelJob /\ profile' = profile /\ command' = command /\ scan' = scan /\ have' = have
      /\ stored' = stored /\ entry' = entry
  BY DEF BudgetExpires
<1>2. command \in {"idle", "decode", "wait", "load"} /\ entry \in EntryType
  BY DEF PrefetchInv, PrefetchType
<1>3. /\ job' \in JobType /\ ~Current' /\ Selects(attempt', streams') /\ attempt' = NoAttempt
      /\ scope' = IF Current THEN "none" ELSE scope
  BY <1>1, CancelIs
<1> QED BY <1>1, <1>2, <1>3, SettledKeeps

\* prepareState with a startup prefetch.
LEMMA PrepareStartupKeeps ==
  ASSUME PrefetchInv, PrepareStartup
  PROVE  PrefetchInv'
<1>1. /\ command' = "decode" /\ scope' = "none" /\ AttemptAborted /\ entry' = BackgroundOff(entry)
      /\ profile' = profile /\ scan' = scan /\ have' = have /\ stored' = stored
      /\ job' = [NoJob EXCEPT !.pc = "prepare"]
  BY DEF PrepareStartup
<1>2. entry \in EntryType /\ Selects(attempt, streams)
  BY DEF PrefetchInv, PrefetchType, AttemptInv
<1>3. job' \in JobType /\ ~job'.downloaded
  BY <1>1 DEF JobType, NoJob
<1>4. entry' \in EntryType /\ (entry'.live => ~entry'.background)
  BY <1>1, <1>2, BackgroundOffIs
<1>5. Selects(attempt', streams') /\ attempt' = NoAttempt
  BY <1>1, <1>2, AbortedIs
<1>6. AttemptInv' /\ attempt' \in AttemptType
  BY <1>5, AttemptOver DEF Selects
<1>7. PrefetchType'
  BY <1>1, <1>3, <1>4, <1>6 DEF PrefetchInv, PrefetchType
<1>8. ScanInv'
  BY <1>1 DEF PrefetchInv, ScanInv
<1>9. JobInv' /\ BackInv'
  BY <1>1, <1>3, <1>4 DEF JobInv, BackInv
<1> QED BY <1>6, <1>7, <1>8, <1>9 DEF PrefetchInv

\* A command that cancels the job, and leaves the window as it is.
LEMMA CancelKeeps ==
  ASSUME PrefetchInv, CancelJob, profile' = profile,
         command' \in {"idle", "decode", "wait", "load"}, command' = "load" => command = "load",
         entry' = entry, scan' = scan, have' = have, stored' = stored
  PROVE  PrefetchInv'
<1>1. /\ job' \in JobType /\ ~Current' /\ Selects(attempt', streams') /\ attempt' = NoAttempt
      /\ scope' = IF Current THEN "none" ELSE scope
  BY CancelIs
<1>2. entry' \in EntryType
  BY DEF PrefetchInv, PrefetchType
<1> QED BY <1>1, <1>2, SettledKeeps

\* prepareState without a startup prefetch.
LEMMA PreparePlainKeeps ==
  ASSUME PrefetchInv, PreparePlain
  PROVE  PrefetchInv'
BY CancelKeeps DEF PreparePlain, Begin

\* A state that cannot be decoded.
LEMMA DecodeFailsKeeps ==
  ASSUME PrefetchInv, DecodeFails
  PROVE  PrefetchInv'
BY CancelKeeps DEF DecodeFails

\* A step that changes neither the job nor the window, and starts no load.
LEMMA CommandKeeps ==
  ASSUME PrefetchInv, profile' = profile, job' = job, scope' = scope,
         command' \in {"idle", "decode", "wait", "load"}, command' = "load" => command = "load",
         entry' = entry, scan' = scan, guarded' = guarded, have' = have, stored' = stored,
         attempt' = attempt, streams' = streams
  PROVE  PrefetchInv'
<1>1. Current' = Current
  BY DEF Current
<1>2. PrefetchType'
  BY DEF PrefetchInv, PrefetchType
<1>3. ScanInv'
  BY DEF PrefetchInv, ScanInv
<1>4. AttemptInv'
  BY <1>1 DEF PrefetchInv, AttemptInv, Attempting
<1>5. JobInv' /\ BackInv'
  BY <1>1 DEF PrefetchInv, JobInv, BackInv
<1> QED BY <1>2, <1>3, <1>4, <1>5 DEF PrefetchInv

\* discardState.
LEMMA DiscardStateKeeps ==
  ASSUME PrefetchInv, DiscardState
  PROVE  PrefetchInv'
<1>1. /\ profile' = profile /\ command' = command /\ command = "idle" /\ entry' = entry /\ scan' = scan
      /\ guarded' = guarded /\ have' = have /\ stored' = stored
  BY DEF DiscardState, Begin
<1>2. CASE CancelJob
  BY <1>1, <1>2, CancelKeeps
<1>3. CASE job' = job /\ scope' = scope /\ attempt' = attempt /\ streams' = streams
  BY <1>1, <1>3, CommandKeeps
<1> QED BY <1>2, <1>3 DEF DiscardState

\* The job learns something, and goes on or completes.
LEMMA LearnsKeeps ==
  ASSUME PrefetchInv, Current, NEW j \in JobType, Proceed(j),
         j.pc = job.pc, j.outcome = job.outcome, j.downloaded = job.downloaded,
         profile' = profile, command' \in {"idle", "decode", "wait"},
         entry' = entry, scan' = scan, guarded' = guarded, have' = have, stored' = stored,
         attempt' = attempt, streams' = streams
  PROVE  PrefetchInv'
<1>1. /\ job \in JobType /\ entry \in EntryType /\ attempt \in AttemptType /\ stored \in SUBSET Pieces
      /\ Selects(attempt, streams) /\ scope = "none" /\ command # "load"
      /\ job.downloaded => Targets \subseteq stored /\ job.pc = "downloaded"
      /\ job.pc # "disk" => attempt = NoAttempt
  BY JobParts
<1>2. CASE job' = j /\ scope' = scope
  <2>1. Current' /\ job'.pc = job.pc /\ job'.downloaded = job.downloaded /\ job' \in JobType
    BY <1>2 DEF Current
  <2>2. PrefetchType'
    BY <1>2, <2>1 DEF PrefetchInv, PrefetchType
  <2>3. ScanInv'
    BY DEF PrefetchInv, ScanInv
  <2>4. AttemptInv'
    BY <2>1 DEF PrefetchInv, AttemptInv, Attempting
  <2>5. JobInv' /\ BackInv'
    BY <1>1, <1>2, <2>1 DEF PrefetchInv, JobInv, BackInv
  <2> QED BY <2>2, <2>3, <2>4, <2>5 DEF PrefetchInv
<1>3. CASE Completes(j) /\ job' \in JobType /\ ~Current' /\ scope' = "profile"
  <2>1. attempt' = NoAttempt
    BY <1>1, <1>3 DEF Completes
  <2>2. AttemptInv'
    BY <1>1, <2>1, AttemptOver
  <2>3. PrefetchType'
    BY <1>3 DEF PrefetchInv, PrefetchType
  <2>4. ScanInv'
    BY DEF PrefetchInv, ScanInv
  <2>5. JobInv' /\ BackInv'
    BY <1>1, <1>3 DEF PrefetchInv, JobInv, BackInv
  <2> QED BY <2>2, <2>3, <2>4, <2>5 DEF PrefetchInv
<1> QED BY <1>2, <1>3, ProceedIs

\* The state is authenticated.
LEMMA DecodedKeeps ==
  ASSUME PrefetchInv, Decoded
  PROVE  PrefetchInv'
<1>1. /\ Validated /\ command = "decode" /\ command' = "idle" /\ profile' = profile /\ entry' = entry
      /\ scan' = scan /\ guarded' = guarded /\ have' = have /\ stored' = stored
  BY DEF Decoded
<1> DEFINE j == [job EXCEPT !.validated = TRUE]
<1>2. job \in JobType /\ Selects(attempt, streams) /\ entry \in EntryType
  BY DEF PrefetchInv, PrefetchType, AttemptInv
<1>3. j \in JobType /\ j.pc = job.pc /\ j.outcome = job.outcome /\ j.downloaded = job.downloaded
  BY <1>2 DEF JobType
<1>4. CASE ~Current
  <2>1. job' = job /\ scope' = scope /\ attempt' = attempt /\ streams' = streams
    BY <1>1, <1>4 DEF Validated
  <2> QED BY <1>1, <2>1, CommandKeeps
<1>5. CASE Current /\ job.loaded /\ profile = "other"
  <2>1. Finish(j, "fallback") /\ AttemptAborted
    BY <1>1, <1>5 DEF Validated
  <2> HIDE DEF j
  <2>2. job' \in JobType /\ ~Current' /\ scope' = "none"
    BY <1>3, <2>1, FinishIs
  <2>3. Selects(attempt', streams') /\ attempt' = NoAttempt
    BY <1>2, <2>1, AbortedIs
  <2> QED BY <1>1, <1>2, <1>5, <2>2, <2>3, SettledKeeps
<1>6. CASE Current /\ ~(job.loaded /\ profile = "other")
  <2>1. Proceed(j) /\ attempt' = attempt /\ streams' = streams
    BY <1>1, <1>6 DEF Validated
  <2> HIDE DEF j
  <2> QED BY <1>1, <1>3, <1>6, <2>1, LearnsKeeps
<1> QED BY <1>4, <1>5, <1>6

\* commitState of a state with its startup prefetch.
LEMMA CommitStartupKeeps ==
  ASSUME PrefetchInv, CommitStartup
  PROVE  PrefetchInv'
<1>1. /\ command = "idle" /\ command' = command /\ profile' = profile /\ entry' = entry
      /\ scan' = scan /\ guarded' = guarded /\ have' = have /\ stored' = stored
      /\ attempt' = attempt /\ streams' = streams
  BY DEF CommitStartup, Begin, window
<1> DEFINE j == [job EXCEPT !.committed = TRUE]
<1>2. j \in JobType /\ j.pc = job.pc /\ j.outcome = job.outcome /\ j.downloaded = job.downloaded
  BY DEF PrefetchInv, PrefetchType, JobType
<1>3. CASE Current
  <2>1. Proceed(j)
    BY <1>3 DEF CommitStartup
  <2> HIDE DEF j
  <2> QED BY <1>1, <1>2, <1>3, <2>1, LearnsKeeps
<1>4. CASE ~Current
  <2>1. job' = job /\ scope' = scope
    BY <1>4 DEF CommitStartup
  <2> QED BY <1>1, <2>1, CommandKeeps
<1> QED BY <1>3, <1>4

\* waitLoadPrefetch.
LEMMA WaitLoadKeeps ==
  ASSUME PrefetchInv, WaitLoad
  PROVE  PrefetchInv'
BY CommandKeeps DEF WaitLoad, window

\* Its return.
LEMMA WaitReturnsKeeps ==
  ASSUME PrefetchInv, WaitReturns
  PROVE  PrefetchInv'
BY CommandKeeps DEF WaitReturns, window

\* setLoadPrefetch leaves no job and no attempt.
LEMMA SetLoadStartsIs ==
  ASSUME PrefetchInv, NEW s \in {"none", "profile", "disk", "auto"}, SetLoadStarts(s)
  PROVE  /\ job' \in JobType /\ ~Current' /\ Selects(attempt', streams') /\ attempt' = NoAttempt
         /\ scope' = s /\ (job'.outcome = "complete" => job.outcome = "complete")
<1>1. job \in JobType /\ Selects(attempt, streams)
  BY DEF PrefetchInv, PrefetchType, AttemptInv
<1>2. CASE Current
  <2>1. job' = [job EXCEPT !.pc = "done", !.outcome = "fallback"] /\ AttemptAborted /\ scope' = s
    BY <1>2 DEF SetLoadStarts
  <2>2. job' \in JobType /\ job'.outcome = "fallback" /\ ~Current'
    BY <1>1, <2>1 DEF JobType, Current
  <2> QED BY <1>1, <2>1, <2>2, AbortedIs
<1>3. CASE ~Current
  <2>1. job' = job /\ attempt' = attempt /\ streams' = streams /\ scope' = s
    BY <1>3 DEF SetLoadStarts
  <2>2. ~Current'
    BY <1>3, <2>1 DEF Current
  <2>3. attempt = NoAttempt
    BY <1>3 DEF PrefetchInv, AttemptInv
  <2> QED BY <1>1, <2>1, <2>2, <2>3
<1> QED BY <1>2, <1>3

\* Once it has begun, only a scope that downloads is still loading.
LEMMA LoadKeeps ==
  ASSUME PrefetchInv, NEW s \in {"none", "profile", "disk", "auto"}, SetLoadStarts(s),
         entry' = Quiet(entry), command' \in {"idle", "load"}, command' = "load" => s # "none",
         profile' = profile, scan' = scan, have' = have, stored' = stored
  PROVE  PrefetchInv'
<1>1. /\ job' \in JobType /\ ~Current' /\ Selects(attempt', streams') /\ attempt' = NoAttempt /\ scope' = s
  BY SetLoadStartsIs
<1>2. entry \in EntryType
  BY DEF PrefetchInv, PrefetchType
<1>3. entry' \in EntryType /\ (entry'.live => ~entry'.background)
  BY <1>2, QuietIs
<1>4. AttemptInv' /\ attempt' \in AttemptType
  BY <1>1, AttemptOver DEF Selects
<1>5. PrefetchType'
  BY <1>1, <1>3, <1>4 DEF PrefetchInv, PrefetchType
<1>6. ScanInv'
  BY DEF PrefetchInv, ScanInv
<1>7. JobInv' /\ BackInv'
  BY <1>1, <1>3 DEF JobInv, BackInv
<1> QED BY <1>4, <1>5, <1>6, <1>7 DEF PrefetchInv

\* setLoadPrefetch.
LEMMA SetLoadKeeps ==
  ASSUME PrefetchInv, SetLoad
  PROVE  PrefetchInv'
<1>1. PICK s \in {"none", "profile", "disk", "auto"} :
        /\ SetLoadStarts(s) /\ entry' = Quiet(entry)
        /\ command' = IF entry.live /\ s # "none" THEN "load" ELSE "idle"
  BY DEF SetLoad
<1>2. profile' = profile /\ scan' = scan /\ have' = have /\ stored' = stored
  BY DEF SetLoad
<1>3. command' \in {"idle", "load"} /\ (command' = "load" => s # "none")
  BY <1>1
<1> QED BY <1>1, <1>2, <1>3, LoadKeeps

\* commitState of a plain state.
LEMMA CommitPlainKeeps ==
  ASSUME PrefetchInv, CommitPlain
  PROVE  PrefetchInv'
BY LoadKeeps DEF CommitPlain, Begin

\* The rest of setLoadPrefetch.
LEMMA SetLoadEndsKeeps ==
  ASSUME PrefetchInv, SetLoadEnds
  PROVE  PrefetchInv'
<1>1. /\ command = "load" /\ command' = "idle" /\ profile' = profile /\ job' = job /\ scan' = scan
      /\ have' = have /\ stored' = stored /\ attempt' = attempt /\ streams' = streams
  BY DEF SetLoadEnds
<1>2. /\ entry \in EntryType /\ Selects(attempt, streams) /\ scope \in {"profile", "disk", "auto"}
      /\ ~Current /\ attempt = NoAttempt
  BY <1>1 DEF PrefetchInv, PrefetchType, AttemptInv, JobInv
<1>3. PICK s \in {"profile", "disk"} :
        /\ scope' = s
        /\ entry' = IF ~entry.live THEN entry
                    ELSE IF s = "profile" THEN [entry EXCEPT !.paused = FALSE, !.prefetch = TRUE, !.selected = Targets]
                    ELSE BackgroundSelection([entry EXCEPT !.paused = FALSE, !.background = TRUE], Attempting)
  BY <1>2 DEF SetLoadEnds
<1>4. ~(entry.live /\ entry.background)
  BY <1>1 DEF PrefetchInv, BackInv
<1>5. entry' \in EntryType /\ (entry'.live /\ entry'.background => scope' = "disk")
  <2>1. CASE ~entry.live
    BY <1>2, <1>3, <1>4, <2>1
  <2>2. CASE entry.live /\ s = "profile"
    <3>1. Targets \subseteq Pieces
      BY PrefetchConstants
    <3>2. entry' = [entry EXCEPT !.paused = FALSE, !.prefetch = TRUE, !.selected = Targets]
      BY <1>3, <2>2
    <3> QED BY <1>2, <1>4, <2>2, <3>1, <3>2 DEF EntryType
  <2>3. CASE entry.live /\ s = "disk"
    <3> DEFINE e == [entry EXCEPT !.paused = FALSE, !.background = TRUE]
    <3>1. e \in EntryType
      BY <1>2 DEF EntryType
    <3>2. entry' = BackgroundSelection(e, Attempting) /\ Attempting \in BOOLEAN
      BY <1>3, <2>3 DEF Attempting
    <3> HIDE DEF e
    <3> QED BY <1>3, <2>3, <3>1, <3>2, BackgroundIs
  <2> QED BY <2>1, <2>2, <2>3
<1>6. AttemptInv' /\ attempt' \in AttemptType
  BY <1>1, <1>2, AttemptOver DEF Selects
<1>7. PrefetchType'
  BY <1>1, <1>3, <1>5, <1>6 DEF PrefetchInv, PrefetchType
<1>8. ScanInv'
  BY <1>1 DEF PrefetchInv, ScanInv
<1>9. JobInv' /\ BackInv'
  <2>1. ~Current'
    BY <1>1, <1>2 DEF Current
  <2> QED BY <1>1, <1>5, <2>1 DEF JobInv, BackInv
<1> QED BY <1>6, <1>7, <1>8, <1>9 DEF PrefetchInv

\* A profile that does not load.
LEMMA SetLoadFailsKeeps ==
  ASSUME PrefetchInv, SetLoadFails
  PROVE  PrefetchInv'
BY CommandKeeps DEF SetLoadFails, window

\* resumePrefetch.
LEMMA ResumePrefetchKeeps ==
  ASSUME PrefetchInv, ResumePrefetch
  PROVE  PrefetchInv'
<1> DEFINE on == scope # "none"
           e == [entry EXCEPT !.background = on, !.paused = entry.paused /\ ~on]
<1>1. /\ command = "idle" /\ scope # "profile" /\ entry' = BackgroundSelection(e, Attempting)
      /\ profile' = profile /\ job' = job /\ command' = command /\ scope' = scope /\ scan' = scan
      /\ guarded' = guarded /\ have' = have /\ stored' = stored /\ attempt' = attempt /\ streams' = streams
  BY DEF ResumePrefetch, Begin
<1>2. entry \in EntryType /\ scope \in {"none", "profile", "disk", "auto"} /\ Attempting \in BOOLEAN
  BY DEF PrefetchInv, PrefetchType, Attempting
<1>3. e \in EntryType /\ e.live = entry.live /\ e.background = on
  BY <1>2 DEF EntryType
<1> HIDE DEF e
<1>4. entry' \in EntryType /\ entry'.live = entry.live /\ entry'.background = on
  BY <1>1, <1>2, <1>3, BackgroundIs
<1>5. Current' = Current /\ Attempting' = Attempting
  BY <1>1 DEF Current, Attempting
<1>6. PrefetchType'
  BY <1>1, <1>4 DEF PrefetchInv, PrefetchType
<1>7. ScanInv'
  BY <1>1 DEF PrefetchInv, ScanInv
<1>8. AttemptInv'
  BY <1>1, <1>4, <1>5 DEF PrefetchInv, AttemptInv
<1>9. JobInv'
  BY <1>1, <1>5 DEF PrefetchInv, JobInv
<1>10. BackInv'
  BY <1>1, <1>2, <1>4, <1>5 DEF PrefetchInv, JobInv, BackInv
<1> QED BY <1>6, <1>7, <1>8, <1>9, <1>10 DEF PrefetchInv

\* clearCaches.
LEMMA ClearCacheKeeps ==
  ASSUME PrefetchInv, ClearCache
  PROVE  PrefetchInv'
<1>1. /\ command = "idle" /\ command' = command /\ profile' = profile /\ have' = {} /\ stored' = {}
      /\ streams' = {} /\ attempt' = NoAttempt
  BY DEF ClearCache, Begin
<1>2. PICK ok \in BOOLEAN :
        /\ entry' = [NewEntry EXCEPT !.live = ok]
        /\ scan' = IF ok THEN NewScan ELSE ScanOver
        /\ scope' = IF ok \/ Current THEN "none" ELSE scope
  BY DEF ClearCache
<1>3. job \in JobType /\ scope \in {"none", "profile", "disk", "auto"}
  BY DEF PrefetchInv, PrefetchType
<1>4. job' \in JobType /\ ~Current'
  <2>1. CASE Current
    <3>1. job' = [job EXCEPT !.pc = "done", !.outcome = "fallback"]
      BY <2>1 DEF ClearCache
    <3> QED BY <1>3, <3>1 DEF JobType, Current
  <2>2. CASE ~Current
    BY <1>3, <2>2 DEF ClearCache, Current
  <2> QED BY <2>1, <2>2
<1>5. entry' \in EntryType /\ ~entry'.background
  BY <1>2 DEF NewEntry, EntryType
<1>6. scan' \in ScanType /\ ScanInv'
  BY <1>1, <1>2, ScansAre DEF ScanInv
<1>7. AttemptInv' /\ attempt' \in AttemptType
  BY <1>1, NoneSelects, AttemptOver DEF Selects
<1>8. PrefetchType'
  BY <1>1, <1>2, <1>3, <1>4, <1>5, <1>6, <1>7 DEF PrefetchInv, PrefetchType
<1>9. JobInv' /\ BackInv'
  BY <1>1, <1>4, <1>5 DEF JobInv, BackInv
<1> QED BY <1>6, <1>7, <1>8, <1>9 DEF PrefetchInv

\* cancel.
LEMMA CancelsKeeps ==
  ASSUME PrefetchInv, Cancel
  PROVE  PrefetchInv'
<1>1. /\ CancelJob /\ command' = "idle" /\ profile' = profile /\ scan' = scan /\ have' = have /\ stored' = stored
      /\ entry' = IF entry.live THEN [entry EXCEPT !.paused = TRUE, !.prefetch = FALSE, !.selected = {}] ELSE entry
  BY DEF Cancel
<1>2. /\ job' \in JobType /\ ~Current' /\ Selects(attempt', streams') /\ attempt' = NoAttempt
      /\ scope' = IF Current THEN "none" ELSE scope
  BY <1>1, CancelIs
<1>3. entry \in EntryType
  BY DEF PrefetchInv, PrefetchType
<1>4. entry' \in EntryType /\ (entry'.live /\ entry'.background => entry.live /\ entry.background)
  BY <1>1, <1>3 DEF EntryType
<1> QED BY <1>1, <1>2, <1>4, SettledKeeps

\* A publication that was opened has no job and no attempt.
LEMMA PrefetchInitially ==
  ASSUME PrefetchInit
  PROVE  PrefetchInv
<1>1. /\ profile \in {"none", "same", "other"} /\ job = NoJob /\ command = "idle"
      /\ scope \in {"none", "disk"} /\ entry = [NewEntry EXCEPT !.background = (scope = "disk")]
      /\ scan = NewScan /\ have = {} /\ stored \in SUBSET Pieces /\ attempt = NoAttempt /\ streams = {}
  BY DEF PrefetchInit
<1>2. job \in JobType /\ ~Current
  BY <1>1 DEF NoJob, JobType, Current
<1>3. entry \in EntryType /\ entry.background = (scope = "disk")
  BY <1>1 DEF NewEntry, EntryType
<1>4. Selects(attempt, streams) /\ attempt \in AttemptType /\ attempt.how = "none" /\ attempt.pc = "none"
  BY <1>1, NoneSelects DEF Selects
<1>5. PrefetchType
  BY <1>1, <1>2, <1>3, <1>4, ScansAre DEF PrefetchType
<1>6. ScanInv
  BY <1>1, ScansAre DEF ScanInv
<1>7. AttemptInv
  BY <1>1, <1>4 DEF AttemptInv, Attempting
<1>8. JobInv /\ BackInv
  BY <1>1, <1>2, <1>3 DEF JobInv, BackInv
<1> QED BY <1>5, <1>6, <1>7, <1>8 DEF PrefetchInv

\* Every step keeps the invariant.
LEMMA PrefetchStep ==
  ASSUME PrefetchInv, [PrefetchNext]_prefetchVars
  PROVE  PrefetchInv'
<1>1. CASE UNCHANGED prefetchVars
  BY <1>1, CommandKeeps DEF prefetchVars, window, PrefetchInv, PrefetchType
<1>2. CASE PrefetchNext
  BY <1>2, PieceArrivesKeeps, ScanReadsKeeps, ScanAnswersKeeps, AttemptChecksKeeps, AttemptPumpsKeeps,
     AttemptTimesOutKeeps, TorrentFailsKeeps, DemandRecoversKeeps, DemandReadsKeeps, PrefetchEndsKeeps,
     JobPreparesKeeps, JobAttemptsKeeps, JobRecoversKeeps, JobLoadsKeeps, JobLoadFailsKeeps,
     JobAnsweredKeeps, BudgetExpiresKeeps, PrepareStartupKeeps, PreparePlainKeeps, DecodedKeeps,
     DecodeFailsKeeps, DiscardStateKeeps, CommitStartupKeeps, CommitPlainKeeps, WaitLoadKeeps,
     WaitReturnsKeeps, SetLoadKeeps, SetLoadEndsKeeps, SetLoadFailsKeeps, ResumePrefetchKeeps,
     ClearCacheKeeps, CancelsKeeps
     DEF PrefetchNext
<1> QED BY <1>1, <1>2

\* PrefetchInv is an inductive invariant of the startup prefetch.
THEOREM PrefetchInductive == PrefetchSpec => []PrefetchInv
<1>1. PrefetchInit => PrefetchInv
  BY PrefetchInitially
<1>2. PrefetchInv /\ [PrefetchNext]_prefetchVars => PrefetchInv'
  BY PrefetchStep
<1> QED BY <1>1, <1>2, PTL DEF PrefetchSpec

\* The torrent never keeps a selection of a startup prefetch that is over, and the
\* disk downloads in the background only if the publication's scope says so: for
\* any number of pieces, targets, attempts and commands.
THEOREM NoOrphanSelectionHolds == PrefetchSpec => []NoOrphanSelection
<1>1. PrefetchInv => NoOrphanSelection
  BY DEF PrefetchInv, AttemptInv, BackInv, Selects, NoOrphanSelection
<1> QED BY <1>1, PrefetchInductive, PTL

\* A job that goes on as j completes only with what j has.
LEMMA ProceedCompletes ==
  ASSUME PrefetchInv, NEW j \in JobType, Proceed(j), j.outcome # "complete", job'.outcome = "complete"
  PROVE  j.downloaded /\ job'.validated /\ profile = "same"
<1>1. job' # j
  OBVIOUS
<1> QED BY <1>1, ProceedIs DEF Completes

\* Which steps complete a job, and what is then in the store.
LEMMA CompleteStep ==
  ASSUME PrefetchInv, PrefetchNext, job'.outcome = "complete", job.outcome # "complete"
  PROVE  Targets \subseteq stored' /\ job'.validated /\ profile = "same"
<1>0. job \in JobType /\ job' # job
  BY DEF PrefetchInv, PrefetchType
<1>1. CASE JobAnswered
  <2>1. Current /\ stored' = stored
    BY <1>1 DEF JobAnswered
  <2>2. CASE attempt.how = "ok"
    <3> DEFINE j == [job EXCEPT !.pc = "downloaded", !.downloaded = TRUE]
    <3>1. j \in JobType /\ j.outcome # "complete"
      BY <1>0 DEF JobType
    <3>2. Proceed(j) /\ Targets \subseteq stored
      BY <1>1, <2>2 DEF JobAnswered, PrefetchInv, AttemptInv
    <3> HIDE DEF j
    <3> QED BY <2>1, <3>1, <3>2, ProceedCompletes
  <2>3. CASE attempt.how # "ok"
    <3>1. Failed("disk", FALSE)
      BY <1>1, <2>3 DEF JobAnswered
    <3> QED BY <1>0, <2>1, <3>1, FailedIs
  <2> QED BY <2>2, <2>3
<1>2. CASE Decoded
  <2> DEFINE j == [job EXCEPT !.validated = TRUE]
  <2>1. j \in JobType /\ j.outcome = job.outcome /\ j.downloaded = job.downloaded
    BY <1>0 DEF JobType
  <2>2. Validated /\ stored' = stored
    BY <1>2 DEF Decoded
  <2>3. Current
    BY <1>0, <2>2 DEF Validated
  <2>4. Proceed(j) \/ Finish(j, "fallback")
    BY <2>2, <2>3 DEF Validated
  <2> HIDE DEF j
  <2>5. Proceed(j)
    BY <2>1, <2>4, FinishIs
  <2>6. j.downloaded /\ job'.validated /\ profile = "same"
    BY <2>1, <2>5, ProceedCompletes
  <2> QED BY <2>1, <2>2, <2>3, <2>6, JobParts
<1>3. CASE CommitStartup
  <2> DEFINE j == [job EXCEPT !.committed = TRUE]
  <2>1. j \in JobType /\ j.outcome = job.outcome /\ j.downloaded = job.downloaded
    BY <1>0 DEF JobType
  <2>2. Current /\ Proceed(j) /\ stored' = stored
    BY <1>0, <1>3 DEF CommitStartup, window
  <2> HIDE DEF j
  <2>3. j.downloaded /\ job'.validated /\ profile = "same"
    BY <2>1, <2>2, ProceedCompletes
  <2> QED BY <2>1, <2>2, <2>3, JobParts
<1>4. CASE CancelJob \/ \E s \in {"none", "profile", "disk", "auto"} : SetLoadStarts(s)
  BY <1>4, CancelIs, SetLoadStartsIs
<1>5. CASE JobPrepares
  BY <1>0, <1>5, FinishIs DEF JobPrepares, JobType
<1>6. CASE JobLoads
  BY <1>0, <1>6, FinishIs DEF JobLoads, JobType
<1>7. CASE JobRecovers
  <2>1. Failed(job.failed, FALSE)
    BY <1>0, <1>7 DEF JobRecovers, JobType
  <2>2. job.failed \in {"none", "profile", "disk"} /\ Current
    BY <1>0, <1>7 DEF JobRecovers, JobType
  <2> QED BY <1>0, <2>1, <2>2, FailedIs
<1>8. CASE JobLoadFails
  BY <1>0, <1>8, FailedIs DEF JobLoadFails
<1>9. CASE JobAttempts
  BY <1>0, <1>9 DEF JobAttempts, JobType
<1>10. CASE PrepareStartup
  BY <1>10 DEF PrepareStartup, NoJob
<1>11. CASE ClearCache
  BY <1>0, <1>11 DEF ClearCache, JobType
<1>12. CASE \E p \in Pieces : PieceArrives(p) \/ ScanReads(p) \/ ScanAnswers(p) \/ AttemptChecks(p)
  BY <1>0, <1>12 DEF PieceArrives, ScanReads, ScanAnswers, AttemptChecks
<1>13. CASE \/ AttemptPumps \/ AttemptTimesOut \/ TorrentFails \/ DemandRecovers \/ DemandReads
            \/ PrefetchEnds \/ WaitLoad \/ WaitReturns \/ SetLoadEnds \/ SetLoadFails
            \/ ResumePrefetch
  BY <1>0, <1>13 DEF AttemptPumps, AttemptTimesOut, TorrentFails, DemandRecovers, DemandReads,
     PrefetchEnds, WaitLoad, WaitReturns, SetLoadEnds, SetLoadFails, ResumePrefetch
<1>14. CASE \/ BudgetExpires \/ PreparePlain \/ DecodeFails \/ DiscardState \/ Cancel
            \/ SetLoad \/ CommitPlain
  BY <1>0, <1>4, <1>14 DEF BudgetExpires, PreparePlain, DecodeFails, DiscardState, Cancel,
     SetLoad, CommitPlain
<1> QED BY <1>1, <1>2, <1>3, <1>5, <1>6, <1>7, <1>8, <1>9, <1>10, <1>11, <1>12, <1>13, <1>14 DEF PrefetchNext

\* A job completes only with every target in the store and a profile of the very
\* state that was authenticated, whichever of the two came first.
THEOREM CompleteIsRealHolds == PrefetchSpec => CompleteIsReal
<1>1. PrefetchInv /\ [PrefetchNext]_prefetchVars =>
        [job'.outcome = "complete" /\ job.outcome # "complete" =>
           Targets \subseteq stored' /\ job'.validated /\ profile = "same"]_prefetchVars
  BY CompleteStep
<1> QED BY <1>1, PrefetchInductive, PTL DEF PrefetchSpec, CompleteIsReal

\* Which steps take back a verified bit, and why none of them does so to a target.
LEMMA TargetsStep ==
  ASSUME PrefetchInv, PrefetchNext, Attempting,
         attempt'.pc \in {"checking", "pumping", "answered"}
  PROVE  have \cap Targets \subseteq have'
<1>0. attempt # NoAttempt /\ Current /\ job.pc = "disk" /\ entry.live
  <2>1. attempt # NoAttempt
    BY DEF Attempting, NoAttempt
  <2> QED BY <2>1 DEF PrefetchInv, AttemptInv
<1>1. CASE \E p \in Pieces : ScanAnswers(p)
  <2>1. PICK p \in Pieces : ScanAnswers(p)
    BY <1>1
  <2>2. CASE ScanValid(p)
    BY <2>1, <2>2 DEF ScanAnswers, MarkVerified
  <2>3. CASE ~ScanValid(p)
    <3>1. p \notin have \cap Targets
      BY <2>1, <2>3, ScanKeepsTargets
    <3> QED BY <2>1, <2>3, <3>1 DEF ScanAnswers
  <2> QED BY <2>2, <2>3
<1>2. CASE \E p \in Pieces : PieceArrives(p) \/ ScanReads(p) \/ AttemptChecks(p)
  BY <1>2 DEF PieceArrives, MarkVerified, ScanReads, AttemptChecks
<1>3. CASE ClearCache
  BY <1>3, NoneSelects DEF ClearCache
<1>4. CASE DemandRecovers \/ JobRecovers
  BY <1>0, <1>4 DEF DemandRecovers, JobRecovers
<1>5. CASE \/ AttemptPumps \/ AttemptTimesOut \/ TorrentFails \/ DemandReads \/ PrefetchEnds
           \/ JobPrepares \/ JobAttempts \/ JobLoads \/ JobLoadFails \/ JobAnswered \/ BudgetExpires
  BY <1>5 DEF AttemptPumps, AttemptTimesOut, TorrentFails, DemandReads, PrefetchEnds,
     JobPrepares, JobAttempts, JobLoads, JobLoadFails, JobAnswered, BudgetExpires, window
<1>6. CASE \/ PrepareStartup \/ PreparePlain \/ Decoded \/ DecodeFails \/ DiscardState
           \/ CommitStartup \/ CommitPlain \/ WaitLoad \/ WaitReturns
           \/ SetLoad \/ SetLoadEnds \/ SetLoadFails \/ ResumePrefetch \/ Cancel
  BY <1>6 DEF PrepareStartup, PreparePlain, Decoded, DecodeFails, DiscardState,
     CommitStartup, CommitPlain, WaitLoad, WaitReturns, SetLoad, SetLoadEnds, SetLoadFails,
     ResumePrefetch, Cancel, window
<1> QED BY <1>1, <1>2, <1>3, <1>4, <1>5, <1>6 DEF PrefetchNext

\* While an attempt runs no target loses its verified bit, however old the reads of
\* the scan are that are answered meanwhile.
THEOREM TargetsStayHolds == PrefetchSpec => TargetsStay
<1>1. PrefetchInv /\ [PrefetchNext]_prefetchVars =>
        [Attempting /\ attempt'.pc \in {"checking", "pumping", "answered"} =>
           have \cap Targets \subseteq have']_prefetchVars
  BY TargetsStep
<1> QED BY <1>1, PrefetchInductive, PTL DEF PrefetchSpec, TargetsStay
=============================================================================
