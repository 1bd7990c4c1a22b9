---------------------------- MODULE Publication ----------------------------
(* Publishing one identity: the command line publisher (publisher.py and     *)
(* scripts/my98-torrent.py), possibly on several machines with caches of     *)
(* their own, the seedbox nodes it copies to (service.py), and the DHT they  *)
(* share. A publication is prepared, copied to one node and committed, with  *)
(* a durable journal between the steps; a node admits candidates, replicates *)
(* them, follows the public name and collects what nothing refers to.        *)
(* A publication's files are one object here: it is named by the value of    *)
(* its record. The DHT (external) keeps what it stores, for each salt the    *)
(* record with the highest sequence; a publisher's completed lookup finds    *)
(* that one, a node's may find one stored before it.                         *)
EXTENDS RecordStore

CONSTANTS
  Publishers,    \* caches of the publisher, one machine each
  Nodes,         \* seedboxes
  Contents,      \* publications: infohashes of their descriptors
  Timeouts,      \* whether a publisher's lookup may end without an answer
  MaxCommands,   \* commands a publisher runs
  MaxRestarts    \* restarts of nodes

ASSUME PublicationAssumption ==
  /\ NONE \notin Contents \cup Publishers /\ Publishers \cap Nodes = {}
  /\ Timeouts \in BOOLEAN /\ MaxCommands \in Nat /\ MaxRestarts \in Nat

VARIABLES
  stored,    \* DHT: the record with the highest sequence, for each salt
  past,      \* DHT: every publication record it has stored
  store,     \* durable tables of publishers and nodes
  origins,   \* durable locations record of each publisher
  journal,   \* durable journal of each publisher
  work,      \* where each publisher's command is, and what it holds in memory
  files,     \* publications complete on each node's disk
  seeding,   \* those its torrent session seeds
  exposed,   \* those its webseed directory links to
  verified,  \* records it has validated since it started, one for a sequence
  jobs,      \* records each node is replicating
  gc,        \* files each node has a task to retire
  removing,  \* those of them it is taking out of the session
  commands, restarts,
  sent       \* records a publisher has shown to anyone

dhtVars == <<stored, past>>
nodeVars == <<files, seeding, exposed, verified, jobs, gc, removing, restarts>>
pubVars == <<origins, journal, work, commands, sent>>
vars == <<dhtVars, store, nodeVars, pubVars>>

Salts == {"publication", "locations"}

Idle == [pc |-> "idle", base |-> NoRecord, rec |-> NoRecord, loc |-> NoRecord,
         asked |-> {}, only |-> FALSE, salt |-> "locations"]
NoJournal == [phase |-> "none", rec |-> NoRecord, base |-> NoRecord,
              loc |-> NoRecord, notified |-> {}]

Records == [seq : 1 .. MaxSeq, val : Contents] \cup {NoRecord}

Init ==
  /\ stored = [s \in Salts |-> NoRecord] /\ past = {}
  /\ store = [a \in Publishers \cup Nodes |-> EmptyStore]
  /\ origins = [p \in Publishers |-> NoRecord]
  /\ journal = [p \in Publishers |-> NoJournal]
  /\ work = [p \in Publishers |-> Idle]
  /\ files = [n \in Nodes |-> {}] /\ seeding = files /\ exposed = files
  /\ verified = files /\ jobs = files /\ gc = files /\ removing = files
  /\ commands = [p \in Publishers |-> 0] /\ restarts = 0
  /\ sent = [p \in Publishers |-> {}]

-----------------------------------------------------------------------------
(* The publisher *)

At(p, pc) == work[p].pc = pc
Goto(p, pc) == work' = [work EXCEPT ![p].pc = pc]
Quit(p) == work' = [work EXCEPT ![p] = Idle]
Phase(p, phase) == journal' = [journal EXCEPT ![p].phase = phase]
Count(p) ==
  /\ commands[p] < MaxCommands
  /\ commands' = [commands EXCEPT ![p] = @ + 1]

\* As Answers, of records that are new to the node.
AnswersNew(n) == {r \in past : r.seq > store[n].public.seq}

\* What a node answers for the name: its public record, or one that its
\* resolver has found since.
Answers(n) == {r \in past \cup {store[n].public} : r.seq >= store[n].public.seq}

\* Engine.resolve for a publisher: the completed lookup, or None when it times
\* out and nothing has arrived.
Resolved(salt) == {stored[salt]} \cup (IF Timeouts THEN {NoRecord} ELSE {})

\* The highest answer that current() gets from the DHT and the nodes. Its own
\* highest record is always among what it compares.
Heard ==
  IF Timeouts
  THEN Resolved("publication") \cup UNION {Answers(n) : n \in Nodes}
  ELSE Resolved("publication")

\* prepare, up to the answer of current().
Prepare(p) ==
  /\ At(p, "idle") /\ Count(p)
  /\ journal[p].phase \in {"none", "complete", "conflict"}
  /\ \E r \in Heard :
       /\ ~Disagree({r, store[p].observed})
       /\ store' = [store EXCEPT ![p] = ObserveRecord(@, r)]
       /\ work' = [work EXCEPT ![p] = [Idle EXCEPT !.pc = "looked",
                                       !.base = Latest({r, store[p].observed})]]
  /\ UNCHANGED <<dhtVars, nodeVars, origins, journal, sent>>

\* The descriptor is made and the candidate signed and kept.
Sign(p) ==
  /\ At(p, "looked")
  /\ \E c \in Contents, n \in NextSequences(Maximum(store[p])) :
       /\ CanAccept(store[p], Record(n, c))
       /\ store' = [store EXCEPT ![p] = AcceptCandidate(@, Record(n, c))]
       /\ work' = [work EXCEPT ![p].pc = "signed", ![p].rec = Record(n, c)]
  /\ UNCHANGED <<dhtVars, nodeVars, origins, journal, commands, sent>>

\* prepare_locations: a lookup that may find nothing, and a signature.
PreparedLocations(p) ==
  {Record(n, p) : n \in UNION {NextSequences(Latest({heard, origins[p]}).seq) :
                                 heard \in Resolved("locations")}}

\* The end of prepare: the journal is saved.
SaveJournal(p) ==
  /\ At(p, "signed")
  /\ \E loc \in PreparedLocations(p) :
       journal' = [journal EXCEPT ![p] =
         [phase |-> "prepared", rec |-> work[p].rec, base |-> work[p].base,
          loc |-> loc, notified |-> {}]]
  /\ work' = [work EXCEPT ![p] = [Idle EXCEPT !.pc = "prepared"]]
  /\ UNCHANGED <<dhtVars, store, nodeVars, origins, commands, sent>>

\* The command `resume` takes the journal in whatever phase it is.
Resume(p) ==
  /\ At(p, "idle") /\ Count(p) /\ journal[p].phase # "none"
  /\ Goto(p, "prepared")
  /\ UNCHANGED <<dhtVars, store, nodeVars, origins, journal, sent>>

\* The command `locations`.
PrepareLocations(p) ==
  /\ At(p, "idle") /\ Count(p)
  /\ \E loc \in PreparedLocations(p) :
       work' = [work EXCEPT ![p] =
         [Idle EXCEPT !.pc = "put", !.loc = loc, !.only = TRUE]]
  /\ UNCHANGED <<dhtVars, store, nodeVars, origins, journal, sent>>

\* transfer seeds the files and starts to ask the nodes.
StartTransfer(p) ==
  /\ At(p, "prepared")
  /\ Phase(p, "transferring") /\ Goto(p, "asking")
  /\ UNCHANGED <<dhtVars, store, nodeVars, origins, commands, sent>>

-----------------------------------------------------------------------------
(* The node's bookkeeping, used by its handlers below *)

\* references(): what must be kept for the tables st and the running jobs. The
\* files of a record whose descriptor has not arrived are unknown; then nothing
\* is collected. A job that is not complete may have its descriptor or not.
Roots(st) == ({st.adopted, st.public} \cup st.candidates) \ {NoRecord}
References(st, running) == {r.val : r \in Roots(st) \cup running}
Undescribed(n, st) == {r \in Roots(st) \ {st.adopted} : r.val \notin files[n]}

\* collect(): forget what was validated for records that are gone, and start a
\* task for every file that nothing refers to.
Collect(n, st, running, valid) ==
  \/ /\ verified' = [verified EXCEPT ![n] =
          {v \in valid : \E r \in Roots(st) \cup running : r.seq = v.seq}]
     /\ gc' = [gc EXCEPT ![n] = @ \cup (files[n] \ References(st, running))]
  \/ /\ Undescribed(n, st) # {}
     /\ verified' = [verified EXCEPT ![n] = valid] /\ UNCHANGED gc

\* The record becomes the adopted one, if it is the public one.
Settle(n, st, record, running, valid) ==
  \/ /\ CanAdopt(st, record)
     /\ store' = [store EXCEPT ![n] = AdoptRecord(st, record)]
     /\ Collect(n, AdoptRecord(st, record), running, valid)
  \/ /\ st.public # record
     /\ store' = [store EXCEPT ![n] = st]
     /\ verified' = [verified EXCEPT ![n] = valid] /\ UNCHANGED gc

\* What a node has validated, and what it replicates, is found by its sequence.
Validated(n, record) ==
  /\ record.val \in seeding[n]
  /\ \E v \in verified[n] : v.seq = record.seq /\ v.val \in seeding[n]
StartJob(running, record) ==
  IF \E r \in running : r.seq = record.seq THEN running ELSE running \cup {record}

\* schedule(): adopt what is validated, or start a job unless one is running.
Schedule(n, st, record) ==
  \/ /\ Validated(n, record)
     /\ Settle(n, st, record, jobs[n], verified[n]) /\ UNCHANGED jobs
  \/ /\ ~Validated(n, record)
     /\ jobs' = [jobs EXCEPT ![n] = StartJob(@, record)]
     /\ store' = [store EXCEPT ![n] = st] /\ UNCHANGED <<verified, gc>>

-----------------------------------------------------------------------------
(* Copying *)

\* POST /v2/candidates to one node. The node may be out of reach, or its
\* answer may be lost; 409 ends the transfer.
Ask(p, n) ==
  /\ At(p, "asking") /\ n \notin work[p].asked
  /\ \/ /\ CanAccept(store[n], journal[p].rec)
        /\ Schedule(n, AcceptCandidate(store[n], journal[p].rec), journal[p].rec)
        /\ work' = [work EXCEPT ![p].asked = @ \cup {n}]
        /\ \/ journal' = [journal EXCEPT ![p].notified = @ \cup {n}]
           \/ UNCHANGED journal
        /\ sent' = [sent EXCEPT ![p] = @ \cup {journal[p].rec}]
     \/ /\ ~CanAccept(store[n], journal[p].rec)
        /\ Phase(p, "conflict") /\ Quit(p)
        /\ UNCHANGED <<store, verified, jobs, gc, sent>>
     \/ /\ work' = [work EXCEPT ![p].asked = @ \cup {n}]
        /\ UNCHANGED <<store, verified, jobs, gc, journal, sent>>
  /\ UNCHANGED <<dhtVars, files, seeding, exposed, removing, restarts, origins, commands>>

\* As CopyComplete, of any node that has admitted the candidate.
CopyCompleteAdmitted(p) == journal[p].notified # {}

\* complete_node: one node has every piece of the candidate.
CopyComplete(p) == \E n \in Nodes : journal[p].rec.val \in seeding[n]

\* A complete node is seen; commit() looks again at once.
CopyObserved(p) ==
  /\ At(p, "asking") /\ work[p].asked = Nodes /\ journal[p].notified # {}
  /\ CopyComplete(p)
  /\ Phase(p, "copied") /\ Goto(p, "copied")
  /\ UNCHANGED <<dhtVars, store, nodeVars, origins, commands, sent>>

-----------------------------------------------------------------------------
(* Committing *)

\* The name must still be what the candidate was prepared from.
CheckCurrent(p) ==
  /\ At(p, "copied")
  /\ \E r \in Heard :
       /\ ~Disagree({r, store[p].observed})
       /\ store' = [store EXCEPT ![p] = ObserveRecord(@, r)]
       /\ IF Latest({r, store[p].observed}) \in {journal[p].base, journal[p].rec}
          THEN /\ Phase(p, "committing")
               /\ work' = [work EXCEPT ![p].pc = "put", ![p].loc = journal[p].loc]
          ELSE Phase(p, "conflict") /\ Quit(p)
  /\ UNCHANGED <<dhtVars, nodeVars, origins, commands, sent>>

Candidate(p) == IF work[p].salt = "locations" THEN work[p].loc ELSE journal[p].rec

\* Conflict: the journal says so, unless the command has none.
Reject(p) ==
  /\ Quit(p)
  /\ \/ work[p].only /\ UNCHANGED journal
     \/ ~work[p].only /\ Phase(p, "conflict")

\* put_signed: a lookup, after which the record is offered or not.
PutFound(p) ==
  /\ At(p, "put")
  /\ \/ /\ Conflicts(stored[work[p].salt], Candidate(p))
        /\ Reject(p)
     \/ /\ ~Conflicts(stored[work[p].salt], Candidate(p))
        /\ Goto(p, "store") /\ UNCHANGED journal
  /\ UNCHANGED <<dhtVars, store, nodeVars, origins, commands, sent>>

\* The DHT takes the record if it has none as high.
PutStored(p) ==
  /\ At(p, "store") /\ Goto(p, "read")
  /\ \/ /\ Candidate(p).seq > stored[work[p].salt].seq
        /\ stored' = [stored EXCEPT ![work[p].salt] = Candidate(p)]
        /\ past' = IF work[p].salt = "publication" THEN past \cup {Candidate(p)} ELSE past
     \/ /\ Candidate(p).seq <= stored[work[p].salt].seq
        /\ UNCHANGED dhtVars
  /\ sent' = IF work[p].salt = "publication"
             THEN [sent EXCEPT ![p] = @ \cup {Candidate(p)}] ELSE sent
  /\ UNCHANGED <<store, nodeVars, origins, journal, commands>>

\* The end of commit_locations: a lookup that finds nothing is a conflict too.
LocationsReadback(p) ==
  /\ At(p, "read") /\ work[p].salt = "locations"
  /\ \E found \in Resolved("locations") :
       \/ /\ found # work[p].loc \/ Conflicts(origins[p], work[p].loc)
          /\ Reject(p) /\ UNCHANGED origins
       \/ /\ found = work[p].loc /\ ~Conflicts(origins[p], work[p].loc)
          /\ origins' = [origins EXCEPT ![p] = work[p].loc]
          /\ work' = [work EXCEPT ![p] =
               IF @.only THEN Idle ELSE [Idle EXCEPT !.pc = "put", !.salt = "publication"]]
          /\ UNCHANGED journal
  /\ UNCHANGED <<dhtVars, store, nodeVars, commands, sent>>

ReadbackMatches(p) == stored["publication"] = journal[p].rec

\* The publication is read back; one that cannot be read is left to `resume`.
Readback(p) ==
  /\ At(p, "read") /\ work[p].salt = "publication"
  /\ \/ /\ ~ReadbackMatches(p)
        /\ Reject(p) /\ UNCHANGED store
     \/ /\ ReadbackMatches(p)
        /\ CanSetPublic(store[p], journal[p].rec)
        /\ store' = [store EXCEPT ![p] =
             AdoptRecord(SetPublic(@, journal[p].rec), journal[p].rec)]
        /\ Goto(p, "confirmed") /\ UNCHANGED journal
  /\ UNCHANGED <<dhtVars, nodeVars, origins, commands, sent>>

Finish(p) ==
  /\ At(p, "confirmed") /\ Phase(p, "complete") /\ Quit(p)
  /\ UNCHANGED <<dhtVars, store, nodeVars, origins, commands, sent>>

\* The command ends where it is: an error, a timeout, or the process dies. The
\* journal and the tables stay as they were last saved.
Fail(p) ==
  /\ ~At(p, "idle") /\ Quit(p)
  /\ UNCHANGED <<dhtVars, store, nodeVars, origins, journal, commands, sent>>

-----------------------------------------------------------------------------
(* The seedbox node *)

\* poll_once: the newest of the public record and what the lookup has found.
Poll(n) ==
  /\ \E r \in Answers(n) \ {NoRecord} :
       /\ CanSetPublic(store[n], r)
       /\ Schedule(n, SetPublic(store[n], r), r)
  /\ UNCHANGED <<dhtVars, files, seeding, exposed, removing, restarts, pubVars>>

\* Who has the files of a publication: the node itself, another one, or a
\* publisher that is transferring it.
Available(n, c) ==
  \/ c \in files[n]
  \/ \E m \in Nodes : c \in seeding[m]
  \/ \E p \in Publishers : journal[p].rec.val = c
       /\ work[p].pc \in {"asking", "copied", "put", "store", "read", "confirmed"}

\* download: waits for a removal of the same files to end.
Download(n, r) ==
  /\ r \in jobs[n] /\ r.val \notin removing[n] /\ Available(n, r.val)
  /\ r.val \notin seeding[n]
  /\ files' = [files EXCEPT ![n] = @ \cup {r.val}]
  /\ seeding' = [seeding EXCEPT ![n] = @ \cup {r.val}]
  /\ UNCHANGED <<dhtVars, store, exposed, verified, jobs, gc, removing, restarts, pubVars>>

\* The end of replicate: the files are validated, exposed and perhaps adopted.
Replicated(n, r) ==
  /\ r \in jobs[n] /\ r.val \in seeding[n]
  /\ exposed' = [exposed EXCEPT ![n] = @ \cup {r.val}]
  /\ jobs' = [jobs EXCEPT ![n] = @ \ {r}]
  /\ Settle(n, store[n], r, jobs[n] \ {r}, {v \in verified[n] : v.seq # r.seq} \cup {r})
  /\ UNCHANGED <<dhtVars, files, seeding, removing, restarts, pubVars>>

\* A job fails: no space, no source, or what it got is not valid.
JobFails(n, r) ==
  /\ r \in jobs[n]
  /\ jobs' = [jobs EXCEPT ![n] = @ \ {r}]
  /\ UNCHANGED <<dhtVars, store, files, seeding, exposed, verified, gc, removing, restarts,
                 pubVars>>

\* What a retire task checks again, before and after the removal.
Unreferenced(n, c) == c \notin References(store[n], jobs[n])

\* retire, up to the removal from the session.
Retire(n, c) ==
  /\ c \in gc[n] /\ c \notin removing[n]
  /\ \/ /\ Unreferenced(n, c)
        /\ seeding' = [seeding EXCEPT ![n] = @ \ {c}]
        /\ removing' = [removing EXCEPT ![n] = @ \cup {c}]
        /\ UNCHANGED gc
     \/ /\ ~Unreferenced(n, c) \/ Undescribed(n, store[n]) # {}
        /\ gc' = [gc EXCEPT ![n] = @ \ {c}]
        /\ UNCHANGED <<seeding, removing>>
  /\ UNCHANGED <<dhtVars, store, files, exposed, verified, jobs, restarts, pubVars>>

\* The rest of it: the files go unless something refers to them by now.
RetireRemoved(n, c) ==
  /\ c \in removing[n]
  /\ removing' = [removing EXCEPT ![n] = @ \ {c}]
  /\ gc' = [gc EXCEPT ![n] = @ \ {c}]
  /\ \/ /\ Unreferenced(n, c)
        /\ files' = [files EXCEPT ![n] = @ \ {c}]
        /\ exposed' = [exposed EXCEPT ![n] = @ \ {c}]
     \/ /\ ~Unreferenced(n, c) \/ Undescribed(n, store[n]) # {}
        /\ UNCHANGED <<files, exposed>>
  /\ UNCHANGED <<dhtVars, store, seeding, verified, jobs, restarts, pubVars>>

\* The node dies and starts again: what is exposed is built anew.
Restart(n) ==
  /\ restarts < MaxRestarts /\ restarts' = restarts + 1
  /\ jobs' = [jobs EXCEPT ![n] = StartJob(store[n].candidates, store[n].public) \ {NoRecord}]
  /\ seeding' = [seeding EXCEPT ![n] = {}] /\ exposed' = [exposed EXCEPT ![n] = {}]
  /\ verified' = [verified EXCEPT ![n] = {}]
  /\ gc' = [gc EXCEPT ![n] = {}] /\ removing' = [removing EXCEPT ![n] = {}]
  /\ UNCHANGED <<dhtVars, store, files, pubVars>>

-----------------------------------------------------------------------------
PublisherStep(p) ==
  \/ Prepare(p) \/ Sign(p) \/ SaveJournal(p) \/ Resume(p) \/ PrepareLocations(p)
  \/ StartTransfer(p) \/ (\E n \in Nodes : Ask(p, n)) \/ CopyObserved(p)
  \/ CheckCurrent(p) \/ PutFound(p) \/ PutStored(p) \/ LocationsReadback(p)
  \/ Readback(p) \/ Finish(p) \/ Fail(p)

NodeStep(n) ==
  \/ Poll(n) \/ Restart(n)
  \/ \E r \in jobs[n] : Download(n, r) \/ Replicated(n, r) \/ JobFails(n, r)
  \/ \E c \in gc[n] : Retire(n, c) \/ RetireRemoved(n, c)

Next == (\E p \in Publishers : PublisherStep(p)) \/ (\E n \in Nodes : NodeStep(n))

Spec == Init /\ [][Next]_vars

\* The poll loop goes on, and its lookups sometimes complete; the job for the
\* public record, started again by each poll, sometimes ends well when it has a
\* source; tasks run.
PollCompletes(n) == Poll(n) /\ store'[n].public = stored["publication"]

FairSpec ==
  /\ Spec
  /\ \A n \in Nodes :
       /\ WF_vars(PollCompletes(n))
       /\ SF_vars(Download(n, stored["publication"]))
       /\ SF_vars(Replicated(n, stored["publication"]))
       /\ \A c \in Contents : WF_vars(RetireRemoved(n, c))

-----------------------------------------------------------------------------
(* Properties *)

\* One cache never shows two publications under one sequence, whatever fails
\* between signing, saving the journal and resuming (Store.maximum,
\* next_sequence).
NeverEquivocates ==
  \A p \in Publishers : ~Disagree(sent[p])

\* The public name of a node is one that was published, never a candidate that
\* it only admitted; and what is adopted does not run ahead of it.
PublicWasPublished ==
  \A n \in Nodes : /\ store[n].public \in past \cup {NoRecord}
                    /\ store[n].observed = store[n].public
                    /\ store[n].adopted.seq <= store[n].public.seq

\* complete_node: with one seedbox, the public record has a complete copy on it.
PublicIsCopied ==
  stored["publication"] # NoRecord => \E n \in Nodes : stored["publication"].val \in files[n]

\* A publication that appeared after the candidate was prepared blocks it: a
\* record only ever replaces the one it was prepared from.
ConcurrentCommitBlocks ==
  [][stored'["publication"] # stored["publication"] =>
       \E p \in Publishers :
         stored'["publication"] = journal[p].rec /\ stored["publication"] = journal[p].base]_vars

\* Every node comes to adopt the public record, or the name moves on.
NodesFollow ==
  \A n \in Nodes, r \in Records \ {NoRecord} :
    stored["publication"] = r ~> store[n].adopted = r \/ stored["publication"] # r

=============================================================================
