------------------------- MODULE PublicationRecords -------------------------
(***************************************************************************)
(* Finding the signed record of an identity from several sources, in       *)
(* several tabs that share one durable high-water mark: cachedRecord,      *)
(* observeRecord and resolveRecord of src/src/disk/web/torrent-records.js, *)
(* compareRecords of torrent-protocol.js, and what RemotePublication.open  *)
(* of torrent-remote.js does with the first and with the final answer.     *)
(*                                                                         *)
(* The record of a publication and the record of its locations are found   *)
(* by the same code in two object stores; kind says which of them a        *)
(* behaviour is about.  Sources answer with any record the identity signed, *)
(* and an identity may have signed two for one sequence.                   *)
(***************************************************************************)
EXTENDS Naturals, Sequences, FiniteSets, TLC

CONSTANTS
  Tabs,     \* tabs, one resolution each
  Apis,     \* the sources asked
  Values,   \* what a record names: an infohash, or the origins
  MaxSeq,   \* bound: sequences
  Failures  \* whether the browser's storage may fail

ASSUME RecordsAssumption == MaxSeq \in Nat /\ Failures \in BOOLEAN

VARIABLES
  kind,     \* "names" or "locations": the object store of this behaviour
  store,    \* the record kept there
  res,      \* the resolution of each tab
  hint      \* what each tab told its window of the locations

vars == <<kind, store, res, hint>>

\* What verifyRecord, parseRecord, verifyLocations and parseLocations admit.
Records == [seq : 1..MaxSeq, val : Values]
NoRecord == [seq |-> 0, val |-> "none"]

Clash(r, s) == r.seq = s.seq /\ r.val # s.val
Newer(r, s) == IF s.seq > r.seq THEN s ELSE r
\* compareRecords: an older record or another one of this sequence is refused.
Refused(previous, candidate) == candidate.seq < previous.seq \/ Clash(previous, candidate)

Fresh == [pc |-> "new", best |-> NoRecord, status |-> [a \in Apis |-> "asked"],
          rec |-> [a \in Apis |-> NoRecord], chain |-> <<>>, busy |-> FALSE,
          observed |-> NoRecord, streamed |-> {}, conflict |-> FALSE,
          aborted |-> "no", first |-> NoRecord, outcome |-> "none", final |-> NoRecord]
NoHint == [first |-> "no", final |-> "no", value |-> NoRecord, sources |-> NoRecord]

Init ==
  /\ kind \in {"names", "locations"}
  /\ store \in Records \cup {NoRecord}
  /\ res = [t \in Tabs |-> Fresh]
  /\ hint = [t \in Tabs |-> NoHint]

Set(t, r) == res' = [res EXCEPT ![t] = r]

\* A fault: the comparison of a transaction is with what was read before it.
ObserveRecordStale(r, value) ==
  /\ ~Refused(r.best, value)
  /\ store' = value
\* observeRecord: read, compare and put in one transaction.
ObserveRecord(r, value) ==
  /\ ~Refused(store, value)
  /\ store' = Newer(store, value)

-----------------------------------------------------------------------------
(* resolveRecord.                                                          *)

\* The cached record, and a request to every source.
Start(t) ==
  /\ res[t].pc = "new" /\ res[t].aborted = "no"
  /\ Set(t, [res[t] EXCEPT !.pc = "ask", !.best = store, !.observed = store,
                           !.streamed = {store} \ {NoRecord}])
  /\ UNCHANGED <<kind, store, hint>>

\* 404, an error, an invalid answer, or an answer that came too late.
NoAnswer(t, a) ==
  /\ res[t].pc = "ask" /\ res[t].status[a] = "asked"
  /\ Set(t, [res[t] EXCEPT !.status[a] = "failed"])
  /\ UNCHANGED <<kind, store, hint>>

\* A verified record; its observation is chained behind the earlier ones.
Answer(t, a) ==
  /\ res[t].pc = "ask" /\ res[t].status[a] = "asked" /\ res[t].aborted = "no"
  /\ \E v \in Records :
       Set(t, [res[t] EXCEPT !.status[a] = "chained", !.rec[a] = v, !.chain = Append(@, a)])
  /\ UNCHANGED <<kind, store, hint>>

\* The observation up to the read of the store, or to an early return.
Observe(t) ==
  LET r == res[t]
      a == Head(r.chain)
      v == r.rec[a]
      over == [r EXCEPT !.chain = Tail(@), !.status[a] = "got"]
      clash == \E s \in r.streamed : Clash(s, v)
      noted == [over EXCEPT !.streamed = @ \cup {v}]
  IN /\ r.chain # <<>> /\ ~r.busy
     /\ Set(t, IF r.aborted # "no" THEN over
               ELSE IF clash THEN [over EXCEPT !.conflict = TRUE]
               ELSE IF r.conflict THEN noted
               ELSE [r EXCEPT !.busy = TRUE, !.streamed = @ \cup {v},
                              !.observed = Newer(Newer(@, v), store)])
     /\ UNCHANGED <<kind, store, hint>>

\* A fault: the source's record is exposed, not the highest one known.
ExposedOwn(r) == r.rec[Head(r.chain)]
\* onRecord(observed): discoverRecord takes the first call.
Exposed(r) == IF r.first = NoRecord THEN r.observed ELSE r.first

\* A publication is kept before it is exposed, locations are only exposed.
Observed(t) ==
  LET r == res[t]
      a == Head(r.chain)
      over(s) == [r EXCEPT !.chain = Tail(@), !.busy = FALSE, !.status[a] = s]
      shown == [over("got") EXCEPT !.first = Exposed(r)]
  IN /\ r.busy
     /\ \/ /\ kind = "locations"
           /\ Set(t, shown) /\ UNCHANGED store
        \/ /\ kind = "names"
           /\ ObserveRecord(r, r.observed)
           /\ Set(t, shown)
        \/ /\ Failures \/ (kind = "names" /\ Refused(store, r.observed))
           /\ Set(t, over("failed")) /\ UNCHANGED store
     /\ UNCHANGED <<kind, hint>>

\* The lookup's timer, or the signal of the caller.
Abort(t) ==
  /\ res[t].pc \in {"new", "ask"} /\ res[t].aborted = "no"
  /\ \E why \in {"timeout", "signal"} :
       /\ why = "timeout" => res[t].pc = "ask"
       /\ Set(t, [res[t] EXCEPT !.aborted = why])
  /\ UNCHANGED <<kind, store, hint>>

\* The answers that the final comparison goes through, and what was cached.
Answered(r) == {r.rec[a] : a \in {b \in Apis : r.status[b] = "got"}} \cup ({r.best} \ {NoRecord})

\* The lookup settles; discoverRecord takes the answer if nothing was exposed.
End(t, outcome, value) ==
  Set(t, [Fresh EXCEPT !.pc = "done", !.outcome = outcome, !.final = value,
                       !.best = res[t].best, !.aborted = res[t].aborted,
                       !.first = IF res[t].first = NoRecord THEN value ELSE res[t].first])

\* The strict comparison of all answers and the last transaction.  Nothing: all
\* sources answered 404, or failed; open() refuses both.
Resolved(t) ==
  LET r == res[t]
      all == Answered(r)
      best == CHOOSE v \in all : \A w \in all : w.seq <= v.seq
  IN /\ r.pc = "ask"
     /\ \A a \in Apis : r.status[a] \in {"got", "failed"}
     /\ IF r.aborted = "signal" THEN End(t, "cancelled", NoRecord) /\ UNCHANGED store
        ELSE IF r.conflict \/ \E v, w \in all : Clash(v, w)
        THEN End(t, "conflict", NoRecord) /\ UNCHANGED store
        ELSE IF all # {}
        THEN \/ ObserveRecord(r, best) /\ End(t, "found", best)
             \/ Refused(store, best) /\ End(t, "conflict", NoRecord) /\ UNCHANGED store
             \/ Failures /\ End(t, "storage", NoRecord) /\ UNCHANGED store
        ELSE End(t, "nothing", NoRecord) /\ UNCHANGED store
     /\ UNCHANGED <<kind, hint>>

\* The signal was aborted or the store could not be read before anything was asked.
Stillborn(t) ==
  /\ res[t].pc = "new" /\ (res[t].aborted = "signal" \/ Failures)
  /\ End(t, IF res[t].aborted = "signal" THEN "cancelled" ELSE "storage", NoRecord)
  /\ UNCHANGED <<kind, store, hint>>

-----------------------------------------------------------------------------
(* RemotePublication.open: the locations go to the window when the first   *)
(* answer is there, and again when all are.                                *)

Origins(t, value) == IF res[t].aborted = "signal" THEN NoRecord ELSE value

FirstHint(t) ==
  /\ kind = "locations" /\ hint[t].first = "no"
  /\ res[t].first # NoRecord \/ res[t].pc = "done"
  /\ hint' = [hint EXCEPT ![t].first = "sent", ![t].value = Origins(t, res[t].first)]
  /\ UNCHANGED <<kind, store, res>>

FirstHintApplied(t) ==
  /\ hint[t].first = "sent"
  /\ hint' = [hint EXCEPT ![t].first = "done", ![t].sources = hint[t].value]
  /\ UNCHANGED <<kind, store, res>>

\* A fault: the final locations are sent without waiting for the first ones.
FinalHintEarly(t) ==
  /\ kind = "locations" /\ res[t].pc = "done" /\ hint[t].final = "no"
  /\ hint' = [hint EXCEPT ![t].final = "done", ![t].sources = Origins(t, res[t].final)]
  /\ UNCHANGED <<kind, store, res>>
FinalHint(t) ==
  /\ kind = "locations" /\ res[t].pc = "done"
  /\ hint[t].first = "done" /\ hint[t].final = "no"
  /\ hint' = [hint EXCEPT ![t].final = "done", ![t].sources = Origins(t, res[t].final)]
  /\ UNCHANGED <<kind, store, res>>

Next ==
  \E t \in Tabs :
    \/ Start(t) \/ Observe(t) \/ Observed(t) \/ Abort(t) \/ Resolved(t) \/ Stillborn(t)
    \/ \E a \in Apis : NoAnswer(t, a) \/ Answer(t, a)
    \/ FirstHint(t) \/ FirstHintApplied(t) \/ FinalHint(t)

Spec == Init /\ [][Next]_vars

-----------------------------------------------------------------------------
(* Properties.                                                             *)

\* No order of the transactions of several tabs takes the durable mark back or
\* changes what it says of one sequence.
HighWater == [][Newer(store, store') = store' /\ ~Clash(store, store')]_store

\* What a tab starts to read is at least as new as what it knew when it began,
\* and for a publication it is already durable, so that no other tab can be led
\* back behind it.
NoRollback ==
  \A t \in Tabs :
    LET v == res[t].first IN
    v # NoRecord => /\ v.seq >= res[t].best.seq
                    /\ kind = "names" => store.seq >= v.seq

\* In the end the window has the final locations, or none if the lookup failed:
\* a late conflict revokes the hints that were applied early.
FinalHintsWin ==
  \A t \in Tabs :
    hint[t].first = "done" /\ hint[t].final = "done" =>
      hint[t].sources = IF res[t].outcome = "found" /\ res[t].aborted # "signal"
                        THEN res[t].final ELSE NoRecord

Alike == Permutations(Tabs) \cup Permutations(Apis) \cup Permutations(Values)
=============================================================================
