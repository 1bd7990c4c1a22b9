---------------------------- MODULE RecordStore ----------------------------
(* The durable tables of signed records (src/torrent/my98_torrent/store.py)  *)
(* that publishers and seedbox nodes both keep, for one identity, and the    *)
(* order on records of protocol.py. A record is a sequence number and a      *)
(* value; the signature is a function of both, so two records are the same   *)
(* exactly when these agree. Each operator is one transaction: where the     *)
(* code raises and rolls back, the guard of the same name is false.          *)
EXTENDS Naturals, FiniteSets

CONSTANTS
  NONE,      \* the value of the record that stands for None
  Clock,     \* what the clock of a publishing machine may read
  MaxSeq     \* MAX_SEQUENCE

ASSUME StoreAssumption == MaxSeq \in Nat /\ Clock \subseteq 0 .. MaxSeq

Record(n, v) == [seq |-> n, val |-> v]
NoRecord == Record(0, NONE)

\* compare() raises: the record is older, or another one of the same sequence.
Conflicts(previous, record) ==
  \/ record.seq < previous.seq
  \/ record.seq = previous.seq /\ record # previous

Latest(records) ==
  CHOOSE r \in records \cup {NoRecord} : \A s \in records : s.seq <= r.seq

\* Two sources name different records with one sequence.
Disagree(records) == \E r, s \in records : r.seq = s.seq /\ r # s

\* next_sequence: the sequences a clock in Clock may give.
NextSequences(maximum) ==
  {IF now > maximum THEN now ELSE maximum + 1 : now \in Clock} \cap (1 .. MaxSeq)

EmptyStore ==
  [observed |-> NoRecord, public |-> NoRecord, adopted |-> NoRecord, candidates |-> {}]

ObserveRecord(st, record) == [st EXCEPT !.observed = Latest({@, record})]

\* The highest of the observed record and the candidates; the observed one
\* when their sequences are equal.
Highest(st) ==
  LET pending == Latest(st.candidates)
  IN  IF pending.seq > st.observed.seq THEN pending ELSE st.observed

CanAccept(st, record) == ~Conflicts(Highest(st), record)

\* As AcceptCandidate, with the candidate taken for an observed record.
AcceptCandidateObserved(st, record) ==
  [st EXCEPT !.candidates = @ \cup {record}, !.observed = record]

\* As AcceptCandidate, without keeping the candidate.
AcceptCandidateUnkept(st, record) == st

\* INSERT OR IGNORE: the candidates have one row for each sequence.
AcceptCandidate(st, record) ==
  IF st.adopted = record \/ \E c \in st.candidates : c.seq = record.seq
  THEN st
  ELSE [st EXCEPT !.candidates = @ \cup {record}]

CanSetPublic(st, record) ==
  ~Conflicts(st.public, record) /\ ~Conflicts(st.observed, record)

SetPublic(st, record) == [ObserveRecord(st, record) EXCEPT !.public = record]

CanAdopt(st, record) == st.public = record /\ ~Conflicts(st.adopted, record)

AdoptRecord(st, record) ==
  [st EXCEPT !.adopted = record,
             !.candidates = {c \in @ : c.seq > record.seq}]

\* The highest sequence known: observed, or given to a candidate.
Maximum(st) == Highest(st).seq

=============================================================================
