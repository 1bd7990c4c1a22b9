-------------------------- MODULE DiskSessionProofs --------------------------
(***************************************************************************)
(* The properties of DiskSession for any number of sources and adapters,   *)
(* from one inductive invariant.                                           *)
(***************************************************************************)
EXTENDS DiskSession, TLAPS

Names == {"idle", "login", "boot", "restore", "save", "download", "discard"}
StepsOfBoot == {"analysis", "reads", "machine"}
StepsOfRestore == {"prepare", "commit", "exchange", "record", "prefetch"}
Steps == {"none", "openRemote", "save", "download", "discard"} \cup StepsOfBoot \cup StepsOfRestore

AdapterStates == {"none", "ok", "failed", "stalled", "disposed"}

Pages ==
  [client : {"none", "rw", "ro"}, open : BOOLEAN, remote : BOOLEAN, dirty : BOOLEAN,
   active : BOOLEAN, analyzing : BOOLEAN, prepared : BOOLEAN, adapter : Adapters \cup {None}]
PageType == page \in Pages
OpType ==
  op \in [name : Names, analyze : BOOLEAN, step : Steps, next : Adapters \cup {None}, running : BOOLEAN]
MachineType ==
  /\ machine \in [on : BOOLEAN, adapter : Adapters \cup {None}, running : BOOLEAN, blocked : BOOLEAN]
  /\ adapter \in [Adapters -> AdapterStates]
WorkerType ==
  /\ vault \in {"none", "rw", "ro"} /\ dirty \in BOOLEAN
  /\ image \in Sources \cup {None} /\ current \in Sources \cup {None} /\ prepared \in Sources \cup {None}
  /\ sources \subseteq Sources /\ remote \subseteq Sources
  /\ analysis \in {"none", "on", "over"} /\ lost \in BOOLEAN /\ fresh \in BOOLEAN /\ candidate \in BOOLEAN
  /\ overflow \in BOOLEAN /\ mishap \subseteq {"commit", "exchange"}
TypeOK == PageType /\ OpType /\ MachineType /\ WorkerType

\* Which step belongs to which operation, and what an operation relies on.
OpInv ==
  /\ op.step = "none" <=> op.name = "idle"
  /\ op.step = "openRemote" <=> op.name = "login"
  /\ op.step \in StepsOfBoot <=> op.name = "boot"
  /\ op.step \in StepsOfRestore <=> op.name = "restore"
  /\ op.name \in {"save", "download", "discard"} => op.step = op.name
  /\ op.name = "idle" => op = Idle
  /\ op.step = "record" => op.analyze
  /\ page.remote \/ op.name \notin {"idle", "login"} => page.open
  /\ op.name = "restore" => ~machine.running

\* The adapter a restore made for its machine is nobody else's until the exchange.
NextInv ==
  /\ machine.on => machine.adapter # None
  /\ IF op.step \in {"commit", "exchange"}
     THEN /\ op.next \in Adapters /\ op.next # page.adapter /\ op.next # machine.adapter
          /\ adapter[op.next] = "ok"
     ELSE op.next = None

\* A page without a disk has no source either, so a login starts from nothing.
SourceInv ==
  /\ SourcesAgree
  /\ page.client = "none" \/ op.name = "login" => ~page.open /\ sources = {}
  /\ op.name = "login" => page.client # "none"

\* The page forgets a download only when a restore ends, some steps after the Worker did.
PreparedInv ==
  /\ prepared \in {None, current}
  /\ page.prepared => page.open
  /\ op.step \notin {"exchange", "record", "prefetch"} /\ "commit" \notin mishap /\ page.prepared =>
       prepared # None

\* The page starts recording some steps after the Worker when a restore is recorded; an
\* analysis it gave up in vain is nobody's until a later request ends it.
AnalysisInv ==
  /\ lost => ~page.analyzing
  /\ overflow => analysis # "on"
  /\ op.name = "restore" => ~page.analyzing
  /\ IF op.step = "prefetch" /\ op.analyze
     THEN analysis = "on" /\ ~overflow /\ ~lost
     ELSE analysis # "none" <=> page.analyzing \/ lost

\* Between the exchange and the end of a restore the machine has the new adapter,
\* and the session still the old one.  A machine that its disk stopped has an adapter
\* that failed, until a retry.
OwnInv ==
  /\ machine.on /\ machine.blocked => adapter[machine.adapter] \in {"failed", "stalled"}
  /\ IF op.step \in {"record", "prefetch"}
     THEN machine.on /\ adapter[machine.adapter] # "disposed"
     ELSE machine.on /\ "exchange" \notin mishap =>
            page.active /\ page.adapter = machine.adapter /\ adapter[machine.adapter] # "disposed"

IInv == TypeOK /\ OpInv /\ NextInv /\ SourceInv /\ PreparedInv /\ AnalysisInv /\ OwnInv

-----------------------------------------------------------------------------
(* What the helpers make of a page.                                        *)

\* describe() leaves a page.
LEMMA DescribedType == ASSUME NEW p \in Pages, dirty' \in BOOLEAN PROVE Described(p) \in Pages
<1> DEFINE r == current' \in remote'
<1>1. r \in BOOLEAN
  OBVIOUS
<1> HIDE DEF r
<1>2. Described(p) = [p EXCEPT !.open = TRUE, !.remote = r, !.dirty = dirty']
  BY DEF Described, r
<1>3. QED BY <1>1, <1>2 DEF Pages

\* It changes nothing of the session but what it says of the disk.
LEMMA DescribedFields ==
  ASSUME NEW p \in Pages
  PROVE  /\ Described(p).open /\ Described(p).client = p.client /\ Described(p).active = p.active
         /\ Described(p).adapter = p.adapter /\ Described(p).analyzing = p.analyzing
         /\ Described(p).prepared = p.prepared
  BY DEF Described, Pages

\* An offered download is the only change.
LEMMA OfferedFields ==
  ASSUME NEW p \in Pages
  PROVE  /\ Offered(p) \in Pages /\ Offered(p).client = p.client /\ Offered(p).active = p.active
         /\ Offered(p).adapter = p.adapter /\ Offered(p).analyzing = p.analyzing
  BY DEF Offered, Pages

\* An error leaves a page too, and ends the recording of the operation that failed.
LEMMA NotRecordingType ==
  ASSUME NEW p \in Pages
  PROVE  /\ NotRecording(p) \in Pages /\ NotRecording(p).open = p.open
         /\ NotRecording(p).remote = p.remote /\ NotRecording(p).client = p.client
         /\ NotRecording(p).active = p.active /\ NotRecording(p).adapter = p.adapter
         /\ NotRecording(p).prepared = p.prepared
         /\ NotRecording(p).analyzing <=> p.analyzing /\ ~op.analyze
<1> DEFINE r == p.analyzing /\ ~op.analyze
<1>1. r \in BOOLEAN
  OBVIOUS
<1> HIDE DEF r
<1>2. LET q == [p EXCEPT !.analyzing = r] IN
      /\ q \in Pages /\ q.open = p.open /\ q.remote = p.remote /\ q.client = p.client
      /\ q.active = p.active /\ q.adapter = p.adapter /\ q.prepared = p.prepared
      /\ q.analyzing = r
  BY <1>1 DEF Pages
<1>3. NotRecording(p) = [p EXCEPT !.analyzing = r]
  BY DEF NotRecording, r
<1>4. QED BY <1>2, <1>3 DEF r

\* So does the description that may follow it.
LEMMA AfterErrorType ==
  ASSUME NEW p \in Pages, p.open, dirty' \in BOOLEAN, NEW q, q \in AfterError(p)
  PROVE  /\ q \in Pages /\ q.open /\ q.client = p.client /\ q.active = p.active
         /\ q.adapter = p.adapter /\ q.prepared = p.prepared
         /\ q.analyzing <=> p.analyzing /\ ~op.analyze
<1> DEFINE n == NotRecording(p)
<1>1. /\ n \in Pages /\ n.open /\ n.client = p.client
      /\ n.active = p.active /\ n.adapter = p.adapter /\ n.prepared = p.prepared
      /\ n.analyzing <=> p.analyzing /\ ~op.analyze
  BY NotRecordingType
<1>2. q = n \/ q = Described(n)
  BY DEF AfterError
<1> HIDE DEF n
<1>3. CASE q = n
  BY <1>1, <1>3
<1>4. CASE q = Described(n)
  BY <1>1, <1>4, DescribedType, DescribedFields
<1>5. QED BY <1>2, <1>3, <1>4

\* What a catch block leaves of the analysis: nothing, or a lost one.
LoadsAfterError ==
  /\ analysis' \in {"none", analysis} /\ lost' \in BOOLEAN
  /\ op.analyze => (analysis' # "none" <=> lost')
  /\ ~op.analyze => analysis' = analysis /\ lost' = lost
LEMMA CancelEnds ==
  ASSUME lost \in BOOLEAN, IF op.analyze THEN cancelLoadAnalysis ELSE UNCHANGED loads
  PROVE  LoadsAfterError
<1> DEFINE b == analysis # "none"
<1>1. b \in BOOLEAN
  OBVIOUS
<1>2. CASE ~op.analyze
  BY <1>2 DEF LoadsAfterError, loads
<1>3. CASE op.analyze /\ Cleared
  BY <1>3 DEF LoadsAfterError, Cleared
<1>4. CASE op.analyze /\ analysis' = analysis /\ lost' = b
  <2>1. lost' \in BOOLEAN
    BY <1>1, <1>4
  <2>2. lost' <=> analysis' # "none"
    BY <1>4
  <2>3. QED BY <1>4, <2>1, <2>2 DEF LoadsAfterError
<1>5. QED BY <1>2, <1>3, <1>4 DEF cancelLoadAnalysis

\* Disposing of an adapter leaves adapters.
LEMMA DisposedType ==
  ASSUME NEW f \in [Adapters -> AdapterStates], NEW a \in Adapters \cup {None}
  PROVE  Disposed(f, a) \in [Adapters -> AdapterStates]
  BY DEF Disposed, AdapterStates

-----------------------------------------------------------------------------
(* One lemma for each action: it preserves the invariant.                  *)

USE SessionAssumption
USE DEF IInv, TypeOK, PageType, OpType, MachineType, WorkerType, AdapterStates, engine, files, loads, recording

\* A login starts without a disk and without sources.
LEMMA LoginKeeps == ASSUME IInv, Login PROVE IInv'
<1> USE DEF Login, Free, Unlocked, Idle, Pages
<1>1. PageType'
  OBVIOUS
<1>2. OpType'
  BY DEF Names, Steps, StepsOfRestore, StepsOfBoot
<1>3. MachineType'
  OBVIOUS
<1>4. WorkerType'
  OBVIOUS
<1>5. (OpInv /\ NextInv /\ SourceInv /\ PreparedInv /\ AnalysisInv /\ OwnInv)'
  BY DEF OpInv, Names, StepsOfRestore, StepsOfBoot, NextInv, SourceInv, SourcesAgree,
     PreparedInv, AnalysisInv, OwnInv
<1> QED BY <1>1, <1>2, <1>3, <1>4, <1>5

\* Nothing was opened.
LEMMA OpenRemoteFailsKeeps == ASSUME IInv, OpenRemoteFails PROVE IInv'
<1> USE DEF OpenRemoteFails, Ends, Idle, Pages
<1>1. TypeOK'
  BY DEF Names, Steps, StepsOfRestore, StepsOfBoot
<1>2. (OpInv /\ NextInv /\ SourceInv /\ PreparedInv /\ AnalysisInv /\ OwnInv)'
  BY DEF OpInv, Names, StepsOfRestore, StepsOfBoot, NextInv, SourceInv, SourcesAgree,
     PreparedInv, AnalysisInv, OwnInv
<1> QED BY <1>1, <1>2

\* The image is left behind, the map stays empty and the page shows no disk.
LEMMA OpenRemoteFailsLateKeeps == ASSUME IInv, OpenRemoteFailsLate PROVE IInv'
<1> USE DEF OpenRemoteFailsLate, Ends, Idle, NewSource, Pages
<1>1. PageType'
  OBVIOUS
<1>2. OpType'
  BY DEF Names, Steps, StepsOfRestore, StepsOfBoot
<1>3. MachineType'
  OBVIOUS
<1>4. WorkerType'
  <2>1. PICK id \in Sources : image' = id /\ dirty' = FALSE /\ current' \in {current, id}
                           /\ prepared' \in {None, prepared}
    BY DEF NewSource
  <2>2. UNCHANGED <<vault, sources, remote, analysis, lost, fresh, candidate, overflow, mishap>>
    OBVIOUS
  <2> HIDE DEF OpenRemoteFailsLate
  <2>3. /\ image' \in Sources \cup {None} /\ current' \in Sources \cup {None}
        /\ prepared' \in Sources \cup {None}
    BY <2>1, <2>2
  <2>4. sources' \subseteq Sources /\ remote' \subseteq Sources
    BY <2>1, <2>2
  <2>5. vault' \in {"none", "rw", "ro"} /\ dirty' \in BOOLEAN
    BY <2>1, <2>2
  <2>6. QED BY <2>2, <2>3, <2>4, <2>5
<1>5. (OpInv /\ NextInv /\ SourceInv /\ PreparedInv /\ AnalysisInv /\ OwnInv)'
  BY DEF OpInv, Names, StepsOfRestore, StepsOfBoot, NextInv, SourceInv, SourcesAgree,
     PreparedInv, AnalysisInv, OwnInv
<1> QED BY <1>1, <1>2, <1>3, <1>4, <1>5

\* The new source is the only one, as a login starts with none.
LEMMA OpenRemoteKeeps == ASSUME IInv, OpenRemote PROVE IInv'
<1> USE DEF OpenRemote, Ends, Idle, NewSource, Described, Pages
<1>1. PageType'
  OBVIOUS
<1>2. OpType'
  BY DEF Names, Steps, StepsOfRestore, StepsOfBoot
<1>3. MachineType'
  OBVIOUS
<1>4. WorkerType'
  <2>1. PICK id \in Sources : image' = id /\ current' = id /\ dirty' = FALSE /\ prepared' = None
                           /\ sources' = (sources \cup {id}) \ {current} /\ remote' = {id}
    BY DEF NewSource
  <2>2. UNCHANGED <<vault, analysis, lost, fresh, candidate, overflow, mishap>>
    OBVIOUS
  <2> HIDE DEF OpenRemote
  <2>3. /\ image' \in Sources \cup {None} /\ current' \in Sources \cup {None}
        /\ prepared' \in Sources \cup {None}
    BY <2>1, <2>2
  <2>4. sources' \subseteq Sources /\ remote' \subseteq Sources
    BY <2>1, <2>2
  <2>5. vault' \in {"none", "rw", "ro"} /\ dirty' \in BOOLEAN
    BY <2>1, <2>2
  <2>6. QED BY <2>2, <2>3, <2>4, <2>5
<1>5. (OpInv /\ NextInv /\ PreparedInv /\ AnalysisInv /\ OwnInv)'
  BY DEF OpInv, Names, StepsOfRestore, StepsOfBoot, NextInv, PreparedInv, SourceInv,
     SourcesAgree, AnalysisInv, OwnInv
<1>6. SourceInv'
  <2>1. PICK id \in NewSource : image' = id /\ current' = id /\ sources' = (sources \cup {id}) \ {current}
    OBVIOUS
  <2>2. sources' = {id}
    BY <2>1 DEF SourceInv, OpInv
  <2>3. page'.client # "none"
    BY DEF TypeOK, PageType, Pages, SourceInv, OpInv
  <2>4. QED BY <2>1, <2>2, <2>3 DEF SourceInv, SourcesAgree
<1> QED BY <1>1, <1>2, <1>3, <1>4, <1>5, <1>6

\* A read key opens one source in a Worker that had none.
LEMMA ReaderKeeps == ASSUME IInv, Reader PROVE IInv'
<1> USE DEF Reader, Free, Idle, NewSource, OpenedReadOnly, Described, Pages
<1>1. PageType'
  OBVIOUS
<1>2. OpType'
  BY DEF Names, Steps, StepsOfRestore, StepsOfBoot
<1>3. MachineType'
  OBVIOUS
<1>4. WorkerType'
  <2>1. PICK id \in Sources : vault' = "ro" /\ image' = id /\ current' = id /\ dirty' = FALSE /\ prepared' = None
                           /\ sources' = {id} /\ remote' = {id}
    BY DEF NewSource
  <2>2. UNCHANGED <<analysis, lost, fresh, candidate, overflow, mishap>>
    OBVIOUS
  <2> HIDE DEF Reader, OpenedReadOnly
  <2>3. /\ image' \in Sources \cup {None} /\ current' \in Sources \cup {None}
        /\ prepared' \in Sources \cup {None}
    BY <2>1, <2>2
  <2>4. sources' \subseteq Sources /\ remote' \subseteq Sources
    BY <2>1, <2>2
  <2>5. vault' \in {"none", "rw", "ro"} /\ dirty' \in BOOLEAN
    BY <2>1, <2>2
  <2>6. QED BY <2>2, <2>3, <2>4, <2>5
<1>5. (OpInv /\ NextInv /\ SourceInv /\ PreparedInv /\ AnalysisInv /\ OwnInv)'
  BY DEF OpInv, Names, StepsOfRestore, StepsOfBoot, NextInv, SourceInv, SourcesAgree,
     PreparedInv, AnalysisInv, OwnInv
<1> QED BY <1>1, <1>2, <1>3, <1>4, <1>5

\* The new file is the current source and its own prepared download.
LEMMA CreateKeeps == ASSUME IInv, Create PROVE IInv'
<1> USE DEF Create, Free, Idle, diskControls, NewSource, Accepted
<1>1. PageType'
  <2>1. dirty' \in BOOLEAN
    BY DEF TypeOK, WorkerType
  <2>2. Offered(page) \in Pages
    BY DEF TypeOK, PageType, Pages, Offered
  <2>3. QED BY <2>1, <2>2, DescribedType DEF PageType
<1>2. OpType'
  BY DEF Names, Steps, StepsOfRestore, StepsOfBoot
<1>3. MachineType'
  OBVIOUS
<1>4. WorkerType'
  OBVIOUS
<1>5. (OpInv /\ NextInv /\ SourceInv /\ PreparedInv /\ AnalysisInv /\ OwnInv)'
  BY DEF OpInv, Names, StepsOfRestore, StepsOfBoot, NextInv, SourceInv, SourcesAgree,
     PreparedInv, AnalysisInv, OwnInv, Offered, Described, Pages
<1> QED BY <1>1, <1>2, <1>3, <1>4, <1>5

\* A local file replaces the source before it and has no prepared download.
LEMMA OpenKeeps == ASSUME IInv, Open PROVE IInv'
<1> USE DEF Open, Free, Idle, diskControls, NewSource
<1>1. PageType'
  <2>1. dirty' \in BOOLEAN
    BY DEF TypeOK, WorkerType
  <2>2. [page EXCEPT !.prepared = FALSE] \in Pages
    BY DEF TypeOK, PageType, Pages
  <2>3. QED BY <2>1, <2>2, DescribedType DEF PageType
<1>2. OpType'
  BY DEF Names, Steps, StepsOfRestore, StepsOfBoot
<1>3. MachineType'
  OBVIOUS
<1>4. WorkerType'
  OBVIOUS
<1>5. (OpInv /\ NextInv /\ SourceInv /\ PreparedInv /\ AnalysisInv /\ OwnInv)'
  BY DEF OpInv, Names, StepsOfRestore, StepsOfBoot, NextInv, SourceInv, SourcesAgree,
     PreparedInv, AnalysisInv, OwnInv, Described, Pages
<1> QED BY <1>1, <1>2, <1>3, <1>4, <1>5

\* Only a page with a disk offers a boot.
LEMMA BootKeeps == ASSUME IInv, NEW analyze \in BOOLEAN, Boot(analyze) PROVE IInv'
<1> USE DEF Boot, Free, Idle, diskControls, Pages
<1>1. PageType'
  OBVIOUS
<1>2. OpType'
  BY DEF Names, Steps, StepsOfRestore, StepsOfBoot
<1>3. MachineType'
  OBVIOUS
<1>4. WorkerType'
  OBVIOUS
<1>5. (OpInv /\ NextInv /\ SourceInv /\ PreparedInv /\ AnalysisInv /\ OwnInv)'
  BY DEF OpInv, Names, StepsOfRestore, StepsOfBoot, NextInv, SourceInv, SourcesAgree,
     PreparedInv, AnalysisInv, OwnInv
<1> QED BY <1>1, <1>2, <1>3, <1>4, <1>5

\* Page and Worker start recording together.
LEMMA BootAnalyzesKeeps == ASSUME IInv, BootAnalyzes PROVE IInv'
<1> USE DEF BootAnalyzes, Pages
<1>1. PageType'
  OBVIOUS
<1>2. OpType'
  BY DEF Names, Steps, StepsOfRestore, StepsOfBoot
<1>3. MachineType'
  OBVIOUS
<1>4. WorkerType'
  OBVIOUS
<1>5. (OpInv /\ NextInv /\ SourceInv /\ PreparedInv /\ AnalysisInv /\ OwnInv)'
  BY DEF OpInv, Names, StepsOfRestore, StepsOfBoot, NextInv, SourceInv, SourcesAgree,
     PreparedInv, AnalysisInv, OwnInv
<1> QED BY <1>1, <1>2, <1>3, <1>4, <1>5

\* The reads of a boot leave what the page knows alone.
LEMMA BootReadsKeeps == ASSUME IInv, BootReads PROVE IInv'
<1> USE DEF BootReads, Pages
<1>1. PageType'
  OBVIOUS
<1>2. OpType'
  BY DEF Names, Steps, StepsOfRestore, StepsOfBoot
<1>3. MachineType'
  OBVIOUS
<1>4. WorkerType'
  OBVIOUS
<1>5. (OpInv /\ NextInv /\ SourceInv /\ PreparedInv /\ AnalysisInv /\ OwnInv)'
  BY DEF OpInv, Names, StepsOfRestore, StepsOfBoot, NextInv, SourceInv, SourcesAgree,
     PreparedInv, AnalysisInv, OwnInv
<1> QED BY <1>1, <1>2, <1>3, <1>4, <1>5

\* The new machine has the new adapter of the session, so the exchange of before no longer matters.
LEMMA BootMachineKeeps == ASSUME IInv, BootMachine PROVE IInv'
<1> USE DEF BootMachine, Ends, Idle, NewAdapter, Disposed
<1>1. PageType'
  <2>1. PICK a \in Adapters : page' = [page EXCEPT !.adapter = a, !.active = TRUE]
    BY DEF NewAdapter
  <2>2. QED BY <2>1 DEF Pages
<1>2. OpType'
  BY DEF Names, Steps, StepsOfRestore, StepsOfBoot
<1>3. MachineType'
  OBVIOUS
<1>4. WorkerType'
  OBVIOUS
<1>5. (OpInv /\ NextInv /\ SourceInv /\ PreparedInv /\ AnalysisInv /\ OwnInv)'
  BY DEF OpInv, Names, StepsOfRestore, StepsOfBoot, NextInv, SourceInv, SourcesAgree,
     PreparedInv, AnalysisInv, OwnInv, Pages
<1> QED BY <1>1, <1>2, <1>3, <1>4, <1>5

\* The recording ends on both sides, and a machine that is gone owns nothing.
LEMMA BootFailsKeeps == ASSUME IInv, BootFails PROVE IInv'
<1> DEFINE p == NotRecording(page)
<1>1. /\ op.name = "boot" /\ op' = Idle
      /\ UNCHANGED <<vault, image, dirty, current, sources, remote, prepared>>
      /\ UNCHANGED <<fresh, candidate, overflow, mishap>>
  BY DEF BootFails, Ends
<1>10. LoadsAfterError
  BY CancelEnds DEF BootFails, BootEndsAnalysis
<1>2. \/ page' = p /\ UNCHANGED <<machine, adapter>>
      \/ \E a \in NewAdapter :
           /\ adapter' = [Disposed(adapter, page.adapter) EXCEPT ![a] = "ok"]
           /\ machine' = [NoMachine EXCEPT !.adapter = a]
           /\ page' = [p EXCEPT !.adapter = a]
  BY DEF BootFails
<1>3. /\ p \in Pages /\ p.open = page.open /\ p.remote = page.remote /\ p.client = page.client
      /\ p.active = page.active /\ p.adapter = page.adapter /\ p.prepared = page.prepared
      /\ p.analyzing <=> page.analyzing /\ ~op.analyze
  BY NotRecordingType
<1> HIDE DEF p
<1>4. /\ page' \in Pages /\ page'.open = page.open /\ page'.remote = page.remote
      /\ page'.client = page.client /\ page'.prepared = page.prepared
      /\ page'.analyzing <=> page.analyzing /\ ~op.analyze
  <2>1. CASE page' = p
    BY <1>3, <2>1
  <2>2. CASE \E a \in NewAdapter : page' = [p EXCEPT !.adapter = a]
    BY <1>3, <2>2 DEF NewAdapter, Pages
  <2>3. QED BY <1>2, <2>1, <2>2
<1>5. \/ UNCHANGED <<machine, adapter>> /\ page'.active = page.active /\ page'.adapter = page.adapter
      \/ MachineType' /\ ~machine'.on
  <2>1. CASE page' = p /\ UNCHANGED <<machine, adapter>>
    BY <1>3, <2>1
  <2>2. CASE \E a \in NewAdapter : /\ adapter' = [Disposed(adapter, page.adapter) EXCEPT ![a] = "ok"]
                                   /\ machine' = [NoMachine EXCEPT !.adapter = a]
    <3>1. Disposed(adapter, page.adapter) \in [Adapters -> AdapterStates]
      BY DisposedType DEF Pages
    <3>2. PICK a \in Adapters : /\ adapter' = [Disposed(adapter, page.adapter) EXCEPT ![a] = "ok"]
                                /\ machine' = [NoMachine EXCEPT !.adapter = a]
      BY <2>2 DEF NewAdapter
    <3>3. adapter' \in [Adapters -> AdapterStates]
      BY <3>1, <3>2
    <3>4. QED BY <3>2, <3>3 DEF NoMachine
  <2>3. QED BY <1>2, <2>1, <2>2
<1>6. TypeOK'
  <2>1. PageType' /\ MachineType'
    BY <1>4, <1>5
  <2>2. OpType'
    BY <1>1 DEF Idle, Names, Steps
  <2>3. WorkerType'
    BY <1>1, <1>10 DEF LoadsAfterError
  <2>4. QED BY <2>1, <2>2, <2>3
<1>7. (OpInv /\ NextInv)'
  BY <1>1, <1>4, <1>5 DEF OpInv, NextInv, Idle, StepsOfBoot, StepsOfRestore
<1>8. (SourceInv /\ PreparedInv)'
  BY <1>1, <1>4 DEF OpInv, SourceInv, SourcesAgree, PreparedInv, Idle, StepsOfBoot
<1>9. (AnalysisInv /\ OwnInv)'
  BY <1>1, <1>10, <1>4, <1>5 DEF LoadsAfterError, OpInv, AnalysisInv, OwnInv, Idle, StepsOfBoot
<1> QED BY <1>6, <1>7, <1>8, <1>9

\* A restore starts on a stopped machine and while nothing is recorded.
LEMMA RestoreKeeps ==
  ASSUME IInv, NEW published \in BOOLEAN, NEW analyze \in BOOLEAN, Restore(published, analyze)
  PROVE  IInv'
<1> USE DEF Restore, Free, Idle, diskControls, Stopped, Pages
<1>1. PageType'
  OBVIOUS
<1>2. OpType'
  BY DEF Names, Steps, StepsOfRestore, StepsOfBoot
<1>3. MachineType'
  OBVIOUS
<1>4. WorkerType'
  OBVIOUS
<1>5. (OpInv /\ NextInv /\ SourceInv /\ PreparedInv /\ AnalysisInv /\ OwnInv)'
  BY DEF OpInv, Names, StepsOfRestore, StepsOfBoot, NextInv, SourceInv, SourcesAgree,
     PreparedInv, AnalysisInv, OwnInv
<1> QED BY <1>1, <1>2, <1>3, <1>4, <1>5

\* The adapter of the candidate machine is a new one.
LEMMA RestorePreparesKeeps == ASSUME IInv, RestorePrepares PROVE IInv'
<1> USE DEF RestorePrepares, NewAdapter, Pages
<1>1. PageType'
  OBVIOUS
<1>2. OpType'
  <2>1. PICK a \in Adapters : op' = [op EXCEPT !.step = "commit", !.next = a]
    BY DEF NewAdapter
  <2>2. QED BY <2>1 DEF Names, Steps, StepsOfRestore
<1>3. MachineType'
  OBVIOUS
<1>4. WorkerType'
  OBVIOUS
<1>5. (OpInv /\ NextInv /\ SourceInv /\ PreparedInv /\ AnalysisInv /\ OwnInv)'
  BY DEF OpInv, Names, StepsOfRestore, StepsOfBoot, NextInv, SourceInv, SourcesAgree,
     PreparedInv, AnalysisInv, OwnInv
<1> QED BY <1>1, <1>2, <1>3, <1>4, <1>5

\* The prepared download is gone; the page forgets it when the restore ends.
LEMMA RestoreCommitsKeeps == ASSUME IInv, RestoreCommits PROVE IInv'
<1> USE DEF RestoreCommits, Swapped, Pages
<1>1. PageType'
  OBVIOUS
<1>2. OpType'
  BY DEF Names, Steps, StepsOfRestore, StepsOfBoot
<1>3. MachineType'
  OBVIOUS
<1>4. WorkerType'
  OBVIOUS
<1>5. (OpInv /\ NextInv /\ SourceInv /\ PreparedInv /\ AnalysisInv /\ OwnInv)'
  BY DEF OpInv, Names, StepsOfRestore, StepsOfBoot, NextInv, SourceInv, SourcesAgree,
     PreparedInv, AnalysisInv, OwnInv
<1> QED BY <1>1, <1>2, <1>3, <1>4, <1>5

\* The adapter disposed of is that of the candidate machine only.
LEMMA RestoreFailsKeeps == ASSUME IInv, RestoreFails PROVE IInv'
<1>1. /\ op.name = "restore" /\ op.step \in {"prepare", "commit"} /\ op' = Idle /\ candidate' = FALSE
      /\ UNCHANGED <<vault, image, dirty, current, sources, remote, prepared, fresh, overflow, mishap>>
  BY DEF RestoreFails, Ends
<1>2. op.name = "restore" /\ page.open /\ page.client # "none" /\ page \in Pages
  BY <1>1 DEF OpInv, SourceInv, StepsOfRestore
<1>3. LoadsAfterError
  BY CancelEnds DEF RestoreFails, EndsAnalysis
<1>4. WorkerType'
  BY <1>1, <1>3 DEF LoadsAfterError
<1>5. /\ page' \in Pages /\ page'.open /\ page'.client = page.client /\ page'.active = page.active
      /\ page'.adapter = page.adapter /\ page'.prepared = page.prepared
      /\ page'.analyzing <=> page.analyzing /\ ~op.analyze
  BY <1>2, <1>4, AfterErrorType DEF RestoreFails
<1>6. /\ MachineType' /\ machine'.on = machine.on /\ machine'.adapter = machine.adapter
      /\ machine'.blocked = machine.blocked
      /\ machine.on => adapter'[machine.adapter] = adapter[machine.adapter]
  <2>1. machine' = GoesOn /\ adapter' = Disposed(adapter, op.next)
    BY DEF RestoreFails
  <2>2. /\ op.next \in Adapters \cup {None} /\ machine.on => machine.adapter \in Adapters
        /\ op.next # machine.adapter \/ ~machine.on
    BY DEF NextInv
  <2>3. adapter' \in [Adapters -> AdapterStates]
    BY <2>1, <2>2, DisposedType
  <2>4. machine.on => adapter'[machine.adapter] = adapter[machine.adapter]
    BY <2>1, <2>2 DEF Disposed
  <2> DEFINE b == op.running /\ adapter[machine.adapter] = "ok"
  <2>5. b \in BOOLEAN /\ machine' = [machine EXCEPT !.running = b]
    BY <2>1 DEF GoesOn
  <2> HIDE DEF b
  <2>6. QED BY <2>3, <2>4, <2>5
<1>7. TypeOK'
  <2>1. OpType'
    BY <1>1 DEF Idle, Names, Steps
  <2>2. QED BY <1>4, <1>5, <1>6, <2>1
<1>8. (OpInv /\ NextInv)'
  BY <1>1, <1>2, <1>5, <1>6 DEF OpInv, NextInv, Idle, StepsOfBoot, StepsOfRestore
<1>9. (SourceInv /\ PreparedInv)'
  BY <1>1, <1>2, <1>5 DEF OpInv, SourceInv, SourcesAgree, PreparedInv, Idle, StepsOfRestore
<1>10. AnalysisInv'
  BY <1>1, <1>2, <1>3, <1>5 DEF LoadsAfterError, OpInv, AnalysisInv, Idle
<1>11. OwnInv'
  BY <1>1, <1>2, <1>5, <1>6 DEF OpInv, NextInv, OwnInv, Idle
<1> QED BY <1>7, <1>8, <1>9, <1>10, <1>11

\* As a failure before the commit, with the prepared download lost.
LEMMA RestoreFailsCommittedKeeps == ASSUME IInv, RestoreFailsCommitted PROVE IInv'
<1>1. /\ op.step = "commit" /\ op' = Idle /\ candidate' = FALSE
      /\ dirty' \in BOOLEAN /\ fresh' = TRUE /\ prepared' = None /\ mishap' = mishap \cup {"commit"}
      /\ UNCHANGED <<vault, image, current, sources, remote, overflow>>
  BY DEF RestoreFailsCommitted, Ends
<1>2. op.name = "restore" /\ page.open /\ page.client # "none" /\ page \in Pages
  BY <1>1 DEF OpInv, SourceInv, StepsOfRestore
<1>3. LoadsAfterError
  BY CancelEnds DEF RestoreFailsCommitted, EndsAnalysis
<1>4. WorkerType'
  BY <1>1, <1>3 DEF LoadsAfterError
<1>5. /\ page' \in Pages /\ page'.open /\ page'.client = page.client /\ page'.active = page.active
      /\ page'.adapter = page.adapter /\ page'.prepared = page.prepared
      /\ page'.analyzing <=> page.analyzing /\ ~op.analyze
  BY <1>2, <1>4, AfterErrorType DEF RestoreFailsCommitted
<1>6. /\ MachineType' /\ machine'.on = machine.on /\ machine'.adapter = machine.adapter
      /\ machine'.blocked = machine.blocked
      /\ machine.on => adapter'[machine.adapter] = adapter[machine.adapter]
  <2>1. machine' = GoesOn /\ adapter' = Disposed(adapter, op.next)
    BY DEF RestoreFailsCommitted
  <2>2. /\ op.next \in Adapters \cup {None} /\ machine.on => machine.adapter \in Adapters
        /\ op.next # machine.adapter \/ ~machine.on
    BY DEF NextInv
  <2>3. adapter' \in [Adapters -> AdapterStates]
    BY <2>1, <2>2, DisposedType
  <2>4. machine.on => adapter'[machine.adapter] = adapter[machine.adapter]
    BY <2>1, <2>2 DEF Disposed
  <2> DEFINE b == op.running /\ adapter[machine.adapter] = "ok"
  <2>5. b \in BOOLEAN /\ machine' = [machine EXCEPT !.running = b]
    BY <2>1 DEF GoesOn
  <2> HIDE DEF b
  <2>6. QED BY <2>3, <2>4, <2>5
<1>7. TypeOK'
  <2>1. OpType'
    BY <1>1 DEF Idle, Names, Steps
  <2>2. QED BY <1>4, <1>5, <1>6, <2>1
<1>8. (OpInv /\ NextInv)'
  BY <1>1, <1>2, <1>5, <1>6 DEF OpInv, NextInv, Idle, StepsOfBoot, StepsOfRestore
<1>9. (SourceInv /\ PreparedInv)'
  BY <1>1, <1>2, <1>5 DEF OpInv, SourceInv, SourcesAgree, PreparedInv, Idle, StepsOfRestore
<1>10. AnalysisInv'
  BY <1>1, <1>2, <1>3, <1>5 DEF LoadsAfterError, OpInv, AnalysisInv, Idle
<1>11. OwnInv'
  BY <1>1, <1>2, <1>5, <1>6 DEF OpInv, NextInv, OwnInv, Idle
<1> QED BY <1>7, <1>8, <1>9, <1>10, <1>11

\* The machine has the new adapter, which disposing of the old one leaves alone.
LEMMA RestoreExchangesKeeps == ASSUME IInv, RestoreExchanges PROVE IInv'
<1> USE DEF RestoreExchanges, Disposed, Pages
<1>1. PageType'
  OBVIOUS
<1>2. OpType'
  BY DEF Names, Steps, StepsOfRestore, StepsOfBoot
<1>3. MachineType'
  OBVIOUS
<1>4. WorkerType'
  OBVIOUS
<1>5. (OpInv /\ NextInv /\ SourceInv /\ PreparedInv /\ AnalysisInv /\ OwnInv)'
  BY DEF OpInv, Names, StepsOfRestore, StepsOfBoot, NextInv, SourceInv, SourcesAgree,
     PreparedInv, AnalysisInv, OwnInv
<1> QED BY <1>1, <1>2, <1>3, <1>4, <1>5

\* The Worker records; the page follows when the restore ends.
LEMMA RestoreRecordsKeeps == ASSUME IInv, RestoreRecords PROVE IInv'
<1> USE DEF RestoreRecords, Pages
<1>1. PageType'
  OBVIOUS
<1>2. OpType'
  BY DEF Names, Steps, StepsOfRestore, StepsOfBoot
<1>3. MachineType'
  OBVIOUS
<1>4. WorkerType'
  OBVIOUS
<1>5. (OpInv /\ NextInv /\ SourceInv /\ PreparedInv /\ AnalysisInv /\ OwnInv)'
  BY DEF OpInv, Names, StepsOfRestore, StepsOfBoot, NextInv, SourceInv, SourcesAgree,
     PreparedInv, AnalysisInv, OwnInv
<1> QED BY <1>1, <1>2, <1>3, <1>4, <1>5

\* The session takes the adapter of the machine, and everything agrees again.
LEMMA RestoreDoneKeeps == ASSUME IInv, RestoreDone PROVE IInv'
<1>1. /\ op.step = "prefetch" /\ op' = Idle /\ mishap' = {}
      /\ UNCHANGED <<adapter, vault, image, dirty, current, sources, remote, prepared>>
      /\ UNCHANGED <<fresh, candidate, overflow>>
  BY DEF RestoreDone, Ends
<1>2. op.name = "restore" /\ page.open /\ page.client # "none" /\ machine.on /\ machine.adapter # None
  BY <1>1 DEF OpInv, SourceInv, NextInv, OwnInv, StepsOfRestore
<1> DEFINE p == Restored(page)
           n == NotRecording(p)
<1>3. /\ p \in Pages /\ p.client = page.client /\ p.active /\ p.adapter = machine.adapter
      /\ p.analyzing = op.analyze /\ ~p.prepared
  BY DEF Restored, RestoredKeeps, Pages
<1>4. \/ analysis' = analysis /\ lost' = lost /\ page' = Described(p)
      \/ LoadsAfterError /\ page' = Described(n)
  BY CancelEnds DEF RestoreDone, EndsAnalysis
<1> HIDE DEF p
<1>5. /\ n \in Pages /\ n.client = page.client /\ n.active /\ n.adapter = machine.adapter
      /\ ~n.analyzing /\ ~n.prepared
  BY <1>3, NotRecordingType
<1> HIDE DEF n
<1>6. /\ page' \in Pages /\ page'.open /\ page'.client = page.client /\ page'.active
      /\ page'.adapter = machine.adapter /\ ~page'.prepared
  <2>1. dirty' \in BOOLEAN
    BY <1>1
  <2>2. CASE page' = Described(p)
    BY <1>3, <2>1, <2>2, DescribedType, DescribedFields
  <2>3. CASE page' = Described(n)
    BY <1>5, <2>1, <2>3, DescribedType, DescribedFields
  <2>4. QED BY <1>4, <2>2, <2>3
<1>7. /\ MachineType' /\ machine'.on /\ machine'.adapter = machine.adapter
      /\ machine'.blocked = machine.blocked
  <2>1. PICK running \in BOOLEAN : machine' = [machine EXCEPT !.running = running \/ op.analyze]
    BY DEF RestoreDone
  <2> DEFINE b == running \/ op.analyze
  <2>2. b \in BOOLEAN /\ machine' = [machine EXCEPT !.running = b]
    BY <2>1
  <2> HIDE DEF b
  <2>3. QED BY <1>1, <1>2, <2>2
<1>8. WorkerType'
  BY <1>1, <1>4 DEF LoadsAfterError
<1>9. TypeOK'
  <2>1. OpType'
    BY <1>1 DEF Idle, Names, Steps
  <2>2. QED BY <1>6, <1>7, <1>8, <2>1
<1>10. (OpInv /\ NextInv)'
  BY <1>1, <1>2, <1>6, <1>7 DEF OpInv, NextInv, Idle, StepsOfBoot, StepsOfRestore
<1>11. (SourceInv /\ PreparedInv)'
  BY <1>1, <1>2, <1>6 DEF SourceInv, SourcesAgree, PreparedInv, Idle
<1>12. AnalysisInv'
  <2>1. /\ overflow => analysis # "on"
        /\ op.analyze => analysis = "on" /\ ~overflow /\ ~lost
        /\ ~op.analyze => ~page.analyzing /\ (analysis # "none" <=> lost)
    BY <1>1, <1>2 DEF AnalysisInv
  <2>2. CASE analysis' = analysis /\ lost' = lost /\ page' = Described(p)
    <3>1. page'.analyzing = op.analyze
      BY <1>3, <2>2, DescribedFields
    <3>2. QED BY <1>1, <2>1, <2>2, <3>1 DEF AnalysisInv, Idle
  <2>3. CASE LoadsAfterError /\ page' = Described(n)
    <3>1. ~page'.analyzing
      BY <1>5, <2>3, DescribedFields
    <3>2. QED BY <1>1, <2>1, <2>3, <3>1 DEF LoadsAfterError, AnalysisInv, Idle
  <2>4. QED BY <1>4, <2>2, <2>3
<1>13. OwnInv'
  BY <1>1, <1>2, <1>6, <1>7 DEF OwnInv, Idle
<1> QED BY <1>9, <1>10, <1>11, <1>12, <1>13

\* Only the recording is repaired; mishap remembers the rest.
LEMMA RestoreFailsExchangedKeeps == ASSUME IInv, RestoreFailsExchanged PROVE IInv'
<1>1. /\ op.step \in {"record", "prefetch"} /\ op' = Idle /\ mishap' = {"commit", "exchange"}
      /\ UNCHANGED <<machine, adapter, vault, image, dirty, current, sources, remote, prepared>>
      /\ UNCHANGED <<fresh, candidate, overflow>>
  BY DEF RestoreFailsExchanged, Ends
<1>2. op.name = "restore" /\ page.open /\ page.client # "none" /\ page \in Pages
  BY <1>1 DEF OpInv, SourceInv, StepsOfRestore
<1>3. LoadsAfterError
  BY CancelEnds DEF RestoreFailsExchanged, EndsAnalysis
<1>4. WorkerType'
  BY <1>1, <1>3 DEF LoadsAfterError
<1>5. /\ page' \in Pages /\ page'.open /\ page'.client = page.client /\ page'.active = page.active
      /\ page'.adapter = page.adapter /\ page'.prepared = page.prepared
      /\ page'.analyzing <=> page.analyzing /\ ~op.analyze
  BY <1>2, <1>4, AfterErrorType DEF RestoreFailsExchanged
<1>6. MachineType' /\ machine' = machine /\ adapter' = adapter
  BY <1>1
<1>7. TypeOK'
  <2>1. OpType'
    BY <1>1 DEF Idle, Names, Steps
  <2>2. QED BY <1>4, <1>5, <1>6, <2>1
<1>8. (OpInv /\ NextInv)'
  BY <1>1, <1>2, <1>5, <1>6 DEF OpInv, NextInv, Idle, StepsOfBoot, StepsOfRestore
<1>9. (SourceInv /\ PreparedInv)'
  BY <1>1, <1>2, <1>5 DEF OpInv, SourceInv, SourcesAgree, PreparedInv, Idle, StepsOfRestore
<1>10. AnalysisInv'
  BY <1>1, <1>2, <1>3, <1>5 DEF LoadsAfterError, OpInv, AnalysisInv, Idle
<1>11. OwnInv'
  BY <1>1, <1>2, <1>5, <1>6 DEF OpInv, NextInv, OwnInv, Idle
<1> QED BY <1>7, <1>8, <1>9, <1>10, <1>11

\* Only what the page knows of the disk changes.
LEMMA SaveStateKeeps == ASSUME IInv, SaveState PROVE IInv'
<1>1. /\ op = Idle /\ page.open /\ page' \in {page, Described(page)}
      /\ UNCHANGED <<op, machine, adapter, vault, image, dirty, current, sources, remote, prepared>>
      /\ UNCHANGED <<analysis, lost, fresh, candidate, overflow, mishap>>
  BY DEF SaveState, Free, diskControls
<1>2. /\ page' \in Pages /\ page'.open /\ page'.client = page.client /\ page'.active = page.active
      /\ page'.adapter = page.adapter /\ page'.analyzing = page.analyzing
      /\ page'.prepared = page.prepared
  <2>1. page \in Pages /\ dirty' \in BOOLEAN
    BY <1>1
  <2>2. QED BY <1>1, <2>1, DescribedType, DescribedFields
<1>3. TypeOK'
  BY <1>1, <1>2
<1>4. (OpInv /\ NextInv)'
  BY <1>1, <1>2 DEF OpInv, NextInv, Idle
<1>5. (SourceInv /\ PreparedInv)'
  BY <1>1, <1>2 DEF SourceInv, SourcesAgree, PreparedInv, Idle
<1>6. (AnalysisInv /\ OwnInv)'
  BY <1>1, <1>2 DEF AnalysisInv, OwnInv, Idle
<1> QED BY <1>3, <1>4, <1>5, <1>6

\* A save only stops the machine.
LEMMA SaveKeeps == ASSUME IInv, Save PROVE IInv'
<1> USE DEF Save, Free, Idle, diskControls, Stopped, Pages
<1>1. PageType'
  OBVIOUS
<1>2. OpType'
  BY DEF Names, Steps, StepsOfRestore, StepsOfBoot
<1>3. MachineType'
  OBVIOUS
<1>4. WorkerType'
  OBVIOUS
<1>5. (OpInv /\ NextInv /\ SourceInv /\ PreparedInv /\ AnalysisInv /\ OwnInv)'
  BY DEF OpInv, Names, StepsOfRestore, StepsOfBoot, NextInv, SourceInv, SourcesAgree,
     PreparedInv, AnalysisInv, OwnInv
<1> QED BY <1>1, <1>2, <1>3, <1>4, <1>5

\* The disk is unchanged, or the new file is the only source and the prepared download.
LEMMA SaveDoneKeeps == ASSUME IInv, SaveDone PROVE IInv'
<1> USE DEF Ends, Idle
<1>1. /\ op.step = "save" /\ op' = Idle
      /\ UNCHANGED <<machine, adapter, vault, analysis, lost, candidate, overflow, mishap>>
  BY DEF SaveDone
<1>2. \/ AcceptUnchanged /\ page' = Described(page)
      \/ (\E id \in NewSource : SaveAccepted(id)) /\ page' = Described(Offered(page))
  BY DEF SaveDone
<1>3. WorkerType'
  <2>1. CASE AcceptUnchanged
    BY <1>1, <2>1 DEF AcceptUnchanged
  <2>2. CASE \E id \in NewSource : SaveAccepted(id)
    BY <1>1, <2>2 DEF NewSource, SaveAccepted, Accepted
  <2>3. QED BY <1>2, <2>1, <2>2
<1>4. /\ page' \in Pages /\ page'.open /\ page'.client = page.client /\ page'.active = page.active
      /\ page'.adapter = page.adapter /\ page'.analyzing = page.analyzing
  <2>1. page \in Pages /\ dirty' \in BOOLEAN
    BY <1>3
  <2>2. CASE page' = Described(page)
    BY <2>1, <2>2, DescribedType, DescribedFields
  <2>3. CASE page' = Described(Offered(page))
    BY <2>1, <2>3, DescribedType, DescribedFields, OfferedFields
  <2>4. QED BY <1>2, <2>2, <2>3
<1>5. TypeOK'
  BY <1>1, <1>3, <1>4 DEF Names, Steps
<1>6. (OpInv /\ NextInv)'
  BY <1>1, <1>4 DEF OpInv, NextInv, StepsOfBoot, StepsOfRestore
<1>7. (AnalysisInv /\ OwnInv)'
  BY <1>1, <1>4 DEF OpInv, AnalysisInv, OwnInv, StepsOfRestore
<1>8. page.open /\ page.client # "none"
  BY <1>1 DEF OpInv, SourceInv
<1>9. SourceInv'
  <2>1. CASE AcceptUnchanged
    BY <1>1, <1>4, <1>8, <2>1 DEF OpInv, SourceInv, SourcesAgree, AcceptUnchanged, files
  <2>2. CASE \E id \in NewSource : SaveAccepted(id)
    BY <1>1, <1>4, <1>8, <2>2 DEF SourceInv, SourcesAgree, NewSource, SaveAccepted, Accepted
  <2>3. QED BY <1>2, <2>1, <2>2
<1>10. PreparedInv'
  <2>1. CASE AcceptUnchanged /\ page' = Described(page)
    <3>1. page'.prepared = page.prepared
      BY <2>1, DescribedFields
    <3>2. QED BY <1>1, <1>4, <2>1, <3>1 DEF OpInv, PreparedInv, AcceptUnchanged, files
  <2>2. CASE \E id \in NewSource : SaveAccepted(id)
    BY <1>4, <2>2 DEF PreparedInv, NewSource, SaveAccepted, Accepted
  <2>3. QED BY <1>2, <2>1, <2>2
<1> QED BY <1>5, <1>6, <1>7, <1>9, <1>10

\* A new file may have been accepted all the same.
LEMMA SaveFailsKeeps == ASSUME IInv, SaveFails PROVE IInv'
<1> USE DEF SaveFails, Ends, Idle, NewSource, SaveAccepted, Accepted, Pages
<1>1. PageType'
  OBVIOUS
<1>2. OpType'
  BY DEF Names, Steps, StepsOfRestore, StepsOfBoot
<1>3. MachineType'
  OBVIOUS
<1>4. WorkerType'
  <2>1. UNCHANGED <<vault, analysis, lost, candidate, overflow, mishap>>
    OBVIOUS
  <2>2. \/ UNCHANGED <<image, dirty, current, sources, remote, prepared, fresh>>
        \/ \E id \in NewSource : SaveAccepted(id)
    OBVIOUS
  <2>3. CASE \E id \in NewSource : SaveAccepted(id)
    <3>1. PICK id \in Sources : Accepted(id)
      BY <2>3
    <3> HIDE DEF SaveFails, NewSource
    <3>2. /\ image' \in Sources \cup {None} /\ current' \in Sources \cup {None}
          /\ prepared' \in Sources \cup {None}
      BY <3>1
    <3>3. sources' \subseteq Sources /\ remote' \subseteq Sources
      BY <3>1
    <3>4. dirty' \in BOOLEAN /\ fresh' \in BOOLEAN
      BY <3>1
    <3> HIDE DEF Accepted
    <3>5. QED BY <2>1, <3>2, <3>3, <3>4
  <2> HIDE DEF SaveFails, NewSource, SaveAccepted
  <2>4. QED BY <2>1, <2>2, <2>3
<1>5. (OpInv /\ NextInv /\ SourceInv /\ PreparedInv /\ AnalysisInv /\ OwnInv)'
  BY DEF OpInv, Names, StepsOfRestore, StepsOfBoot, NextInv, SourceInv, SourcesAgree,
     PreparedInv, AnalysisInv, OwnInv
<1> QED BY <1>1, <1>2, <1>3, <1>4, <1>5

\* A download only stops the machine.
LEMMA DownloadKeeps == ASSUME IInv, Download PROVE IInv'
<1> USE DEF Download, Free, Idle, diskControls, Stopped, Pages
<1>1. PageType'
  OBVIOUS
<1>2. OpType'
  BY DEF Names, Steps, StepsOfRestore, StepsOfBoot
<1>3. MachineType'
  OBVIOUS
<1>4. WorkerType'
  OBVIOUS
<1>5. (OpInv /\ NextInv /\ SourceInv /\ PreparedInv /\ AnalysisInv /\ OwnInv)'
  BY DEF OpInv, Names, StepsOfRestore, StepsOfBoot, NextInv, SourceInv, SourcesAgree,
     PreparedInv, AnalysisInv, OwnInv
<1> QED BY <1>1, <1>2, <1>3, <1>4, <1>5

\* What is offered is prepared from the current source.
LEMMA DownloadDoneKeeps == ASSUME IInv, DownloadDone PROVE IInv'
<1> USE DEF DownloadDone, Ends, Idle
<1>1. PageType'
  <2>1. Offered(page) \in Pages
    BY DEF TypeOK, PageType, Pages, Offered
  <2>2. page' \in {page, Offered(page)}
    OBVIOUS
  <2>3. QED BY <2>1, <2>2 DEF TypeOK, PageType
<1>2. OpType'
  BY DEF Names, Steps, StepsOfRestore, StepsOfBoot
<1>3. MachineType'
  OBVIOUS
<1>4. WorkerType'
  OBVIOUS
<1>5. (OpInv /\ NextInv /\ SourceInv /\ PreparedInv /\ AnalysisInv /\ OwnInv)'
  BY DEF OpInv, Names, StepsOfRestore, StepsOfBoot, NextInv, SourceInv, SourcesAgree,
     PreparedInv, AnalysisInv, OwnInv, Offered, Pages
<1> QED BY <1>1, <1>2, <1>3, <1>4, <1>5

\* The machine stops.
LEMMA VerifyOrClearKeeps == ASSUME IInv, VerifyOrClear PROVE IInv'
<1> USE DEF VerifyOrClear, Free, Idle, diskControls, Stopped, Pages
<1>1. PageType'
  OBVIOUS
<1>2. OpType'
  BY DEF Names, Steps, StepsOfRestore, StepsOfBoot
<1>3. MachineType'
  OBVIOUS
<1>4. WorkerType'
  OBVIOUS
<1>5. (OpInv /\ NextInv /\ SourceInv /\ PreparedInv /\ AnalysisInv /\ OwnInv)'
  BY DEF OpInv, Names, StepsOfRestore, StepsOfBoot, NextInv, SourceInv, SourcesAgree,
     PreparedInv, AnalysisInv, OwnInv
<1> QED BY <1>1, <1>2, <1>3, <1>4, <1>5

\* The machine on the screen goes with its adapter.
LEMMA DiscardKeeps == ASSUME IInv, Discard PROVE IInv'
<1> USE DEF Pages
<1>1. /\ op = Idle /\ page.open /\ op' = [Idle EXCEPT !.name = "discard", !.step = "discard"]
      /\ UNCHANGED <<vault, image, dirty, current, sources, remote, prepared>>
      /\ UNCHANGED <<analysis, lost, fresh, candidate, overflow, mishap>>
  BY DEF Discard, Free, diskControls
<1>2. /\ PageType' /\ page'.open = page.open /\ page'.remote = page.remote /\ page'.client = page.client
      /\ page'.prepared = page.prepared /\ page'.analyzing = page.analyzing
  <2>1. page' = page \/ page' = [page EXCEPT !.active = FALSE, !.adapter = None]
    BY DEF Discard, DiscardCloses
  <2>2. CASE page' = page
    BY <2>2
  <2>3. CASE page' = [page EXCEPT !.active = FALSE, !.adapter = None]
    BY <2>3
  <2>4. QED BY <2>1, <2>2, <2>3
<1>3. \/ UNCHANGED <<page, machine, adapter>>
      \/ MachineType' /\ ~machine'.on
  <2>1. CASE page.active
    <3>1. Disposed(adapter, page.adapter) \in [Adapters -> AdapterStates]
      BY DisposedType
    <3>2. machine' = Closed /\ adapter' = Disposed(adapter, page.adapter)
      BY <2>1 DEF Discard, DiscardCloses
    <3>3. QED BY <3>1, <3>2 DEF Closed, NoMachine
  <2>2. CASE ~page.active
    BY <2>2 DEF Discard, DiscardCloses
  <2>3. QED BY <2>1, <2>2
<1>4. TypeOK'
  <2>1. PageType' /\ MachineType'
    BY <1>2, <1>3
  <2>2. OpType'
    BY <1>1 DEF Idle, Names, Steps
  <2>3. WorkerType'
    BY <1>1
  <2>4. QED BY <2>1, <2>2, <2>3
<1>5. (OpInv /\ NextInv)'
  BY <1>1, <1>2, <1>3 DEF OpInv, NextInv, Idle, StepsOfBoot, StepsOfRestore
<1>6. (SourceInv /\ PreparedInv)'
  BY <1>1, <1>2 DEF SourceInv, SourcesAgree, PreparedInv, Idle
<1>7. (AnalysisInv /\ OwnInv)'
  BY <1>1, <1>2, <1>3 DEF AnalysisInv, OwnInv, Idle
<1> QED BY <1>4, <1>5, <1>6, <1>7

\* The writes are gone or the request is refused; the sources stay.
LEMMA DiscardDoneKeeps == ASSUME IInv, DiscardDone PROVE IInv'
<1>1. /\ op.step = "discard" /\ op' = Idle /\ dirty' \in BOOLEAN /\ fresh' \in BOOLEAN
      /\ UNCHANGED <<machine, adapter, vault, image, current, sources, remote, prepared>>
      /\ UNCHANGED <<analysis, lost, candidate, overflow, mishap>>
      /\ page' \in {page, Described(page)}
  BY DEF DiscardDone, Ends
<1>2. op.name = "discard" /\ page.open /\ page.client # "none"
  BY <1>1 DEF OpInv, SourceInv, Names, StepsOfBoot, StepsOfRestore
<1>3. /\ page' \in Pages /\ page'.open /\ page'.client = page.client /\ page'.active = page.active
      /\ page'.adapter = page.adapter /\ page'.analyzing = page.analyzing
      /\ page'.prepared = page.prepared
  <2>1. page \in Pages /\ dirty' \in BOOLEAN
    BY <1>1
  <2>2. CASE page' = page
    BY <1>2, <2>1, <2>2
  <2>3. CASE page' = Described(page)
    BY <2>1, <2>3, DescribedType, DescribedFields
  <2>4. QED BY <1>1, <2>2, <2>3
<1>4. TypeOK'
  <2>1. OpType'
    BY <1>1 DEF Idle, Names, Steps
  <2>2. PageType' /\ MachineType'
    BY <1>1, <1>3
  <2>3. WorkerType'
    BY <1>1
  <2>4. QED BY <2>1, <2>2, <2>3
<1>5. (OpInv /\ NextInv)'
  BY <1>1, <1>2, <1>3 DEF OpInv, NextInv, Idle, StepsOfBoot, StepsOfRestore
<1>6. (SourceInv /\ PreparedInv)'
  BY <1>1, <1>2, <1>3 DEF SourceInv, SourcesAgree, PreparedInv, Idle
<1>7. (AnalysisInv /\ OwnInv)'
  BY <1>1, <1>2, <1>3 DEF AnalysisInv, OwnInv, Idle
<1> QED BY <1>4, <1>5, <1>6, <1>7

\* Page and Worker start anew.
LEMMA CloseKeeps == ASSUME IInv, Close PROVE IInv'
<1> USE DEF Close, Cleared, Free, Idle, NoPage, NoMachine, Disposed, Pages
<1>1. TypeOK'
  BY DEF Names, Steps, StepsOfRestore, StepsOfBoot
<1>2. (OpInv /\ NextInv /\ SourceInv /\ PreparedInv /\ AnalysisInv /\ OwnInv)'
  BY DEF OpInv, Names, StepsOfRestore, StepsOfBoot, NextInv, SourceInv, SourcesAgree,
     PreparedInv, AnalysisInv, OwnInv
<1> QED BY <1>1, <1>2

\* Both sides stop recording, or neither.
LEMMA FinishAnalysisKeeps == ASSUME IInv, FinishAnalysis PROVE IInv'
<1> USE DEF FinishAnalysis, Cleared, Free, Idle, HasProfile, NotAnalyzing, Pages
<1>1. PageType'
  <2>1. NotAnalyzing \in Pages
    OBVIOUS
  <2>2. QED BY <2>1
<1>2. OpType'
  BY DEF Names, Steps, StepsOfRestore, StepsOfBoot
<1>3. MachineType'
  OBVIOUS
<1>4. WorkerType'
  OBVIOUS
<1>5. (OpInv /\ NextInv /\ SourceInv /\ PreparedInv /\ AnalysisInv /\ OwnInv)'
  BY DEF OpInv, Names, StepsOfRestore, StepsOfBoot, NextInv, SourceInv, SourcesAgree,
     PreparedInv, AnalysisInv, OwnInv
<1> QED BY <1>1, <1>2, <1>3, <1>4, <1>5

\* Both sides stop recording, or neither; a restore that records cannot overflow before
\* it ends.
LEMMA OverflowCancelsKeeps == ASSUME IInv, OverflowCancels PROVE IInv'
<1> USE DEF OverflowCancels, Cleared, NotAnalyzing, Pages
<1>1. PageType'
  <2>1. page' = page \/ page' = NotAnalyzing
    OBVIOUS
  <2>2. NotAnalyzing \in Pages
    OBVIOUS
  <2> HIDE DEF OverflowCancels, NotAnalyzing
  <2>3. QED BY <2>1, <2>2
<1>2. OpType'
  BY DEF Names, Steps, StepsOfRestore, StepsOfBoot
<1>3. MachineType'
  OBVIOUS
<1>4. WorkerType'
  OBVIOUS
<1>5. (OpInv /\ NextInv /\ SourceInv /\ PreparedInv /\ AnalysisInv /\ OwnInv)'
  BY DEF OpInv, Names, StepsOfRestore, StepsOfBoot, NextInv, SourceInv, SourcesAgree,
     PreparedInv, AnalysisInv, OwnInv
<1> QED BY <1>1, <1>2, <1>3, <1>4, <1>5

\* An overflow of which the page is told suspends the agreement until the cancel.
LEMMA GuestReadsKeeps == ASSUME IInv, GuestReads PROVE IInv'
<1> USE DEF GuestReads, Reaches, Overflows, Pages
<1>1. PageType'
  OBVIOUS
<1>2. OpType'
  BY DEF Names, Steps, StepsOfRestore, StepsOfBoot
<1>3. MachineType'
  OBVIOUS
<1>4. WorkerType'
  OBVIOUS
<1>5. (OpInv /\ NextInv /\ SourceInv /\ PreparedInv /\ AnalysisInv /\ OwnInv)'
  BY DEF OpInv, Names, StepsOfRestore, StepsOfBoot, NextInv, SourceInv, SourcesAgree,
     PreparedInv, AnalysisInv, OwnInv
<1> QED BY <1>1, <1>2, <1>3, <1>4, <1>5

\* Writes concern no identity of a source.
LEMMA GuestWritesKeeps == ASSUME IInv, GuestWrites PROVE IInv'
<1> USE DEF GuestWrites, Reaches, Pages
<1>1. PageType'
  OBVIOUS
<1>2. OpType'
  BY DEF Names, Steps, StepsOfRestore, StepsOfBoot
<1>3. MachineType'
  OBVIOUS
<1>4. WorkerType'
  OBVIOUS
<1>5. (OpInv /\ NextInv /\ SourceInv /\ PreparedInv /\ AnalysisInv /\ OwnInv)'
  BY DEF OpInv, Names, StepsOfRestore, StepsOfBoot, NextInv, SourceInv, SourcesAgree,
     PreparedInv, AnalysisInv, OwnInv
<1> QED BY <1>1, <1>2, <1>3, <1>4, <1>5

\* The adapter of the candidate machine is another one.
LEMMA DiskFailsKeeps == ASSUME IInv, DiskFails PROVE IInv'
<1> USE DEF DiskFails, Blocked, Pages
<1>1. PageType'
  OBVIOUS
<1>2. OpType'
  BY DEF Names, Steps, StepsOfRestore, StepsOfBoot
<1>3. MachineType'
  OBVIOUS
<1>4. WorkerType'
  OBVIOUS
<1>5. (OpInv /\ NextInv /\ SourceInv /\ PreparedInv /\ AnalysisInv /\ OwnInv)'
  BY DEF OpInv, Names, StepsOfRestore, StepsOfBoot, NextInv, SourceInv, SourcesAgree,
     PreparedInv, AnalysisInv, OwnInv
<1> QED BY <1>1, <1>2, <1>3, <1>4, <1>5

\* Retry reaches the adapter of the session.
LEMMA RetryAdapterKeeps == ASSUME IInv, RetryAdapter PROVE IInv'
<1> USE DEF RetryAdapter, Free, Idle, diskControls, Failing, Resumed, Pages
<1>1. PageType'
  OBVIOUS
<1>2. OpType'
  BY DEF Names, Steps, StepsOfRestore, StepsOfBoot
<1>3. MachineType'
  OBVIOUS
<1>4. WorkerType'
  OBVIOUS
<1>5. (OpInv /\ NextInv /\ SourceInv /\ PreparedInv /\ AnalysisInv /\ OwnInv)'
  BY DEF OpInv, Names, StepsOfRestore, StepsOfBoot, NextInv, SourceInv, SourcesAgree,
     PreparedInv, AnalysisInv, OwnInv
<1> QED BY <1>1, <1>2, <1>3, <1>4, <1>5

\* A rejected retry leaves the machine where it was, on the same adapter.
LEMMA RetryRejectedKeeps == ASSUME IInv, RetryRejected PROVE IInv'
<1> USE DEF RetryRejected, Free, Idle, diskControls, Failing, Pages
<1>1. PageType'
  OBVIOUS
<1>2. OpType'
  BY DEF Names, Steps, StepsOfRestore, StepsOfBoot
<1>3. MachineType'
  OBVIOUS
<1>4. WorkerType'
  OBVIOUS
<1>5. (OpInv /\ NextInv /\ SourceInv /\ PreparedInv /\ AnalysisInv /\ OwnInv)'
  BY DEF OpInv, Names, StepsOfRestore, StepsOfBoot, NextInv, SourceInv, SourcesAgree,
     PreparedInv, AnalysisInv, OwnInv
<1> QED BY <1>1, <1>2, <1>3, <1>4, <1>5

\* The pause button only starts and stops the machine.
LEMMA PauseKeeps == ASSUME IInv, Pause PROVE IInv'
<1> USE DEF Pause, Free, Idle, Pages
<1>1. TypeOK'
  BY DEF Names, Steps, StepsOfRestore, StepsOfBoot
<1>2. (OpInv /\ NextInv /\ SourceInv /\ PreparedInv /\ AnalysisInv /\ OwnInv)'
  BY DEF OpInv, Names, StepsOfRestore, StepsOfBoot, NextInv, SourceInv, SourcesAgree,
     PreparedInv, AnalysisInv, OwnInv
<1> QED BY <1>1, <1>2

-----------------------------------------------------------------------------
(* The theorems.                                                           *)

\* A page without an identity satisfies the invariant.
LEMMA InitInv == ASSUME Init PROVE IInv
<1> USE DEF Init, NoPage, NoMachine, Idle
<1>1. TypeOK
  BY DEF Pages, Names, Steps, StepsOfBoot, StepsOfRestore
<1>2. OpInv /\ NextInv /\ SourceInv
  BY DEF OpInv, StepsOfBoot, StepsOfRestore, NextInv, SourceInv, SourcesAgree
<1>3. PreparedInv /\ AnalysisInv /\ OwnInv
  BY DEF PreparedInv, AnalysisInv, OwnInv
<1> QED BY <1>1, <1>2, <1>3

\* A stuttering step changes nothing.
LEMMA StutterKeeps == ASSUME IInv, UNCHANGED vars PROVE IInv'
  BY DEF vars, OpInv, NextInv, SourceInv, SourcesAgree, PreparedInv, AnalysisInv, OwnInv

\* Every step preserves it.
LEMMA NextKeeps == ASSUME IInv, [Next]_vars PROVE IInv'
<1>1. CASE UNCHANGED vars
  BY <1>1, StutterKeeps
<1>2. CASE \E analyze \in BOOLEAN :
             Boot(analyze) \/ \E published \in BOOLEAN : Restore(published, analyze)
  BY <1>2, BootKeeps, RestoreKeeps
<1>3. CASE Login
  BY <1>3, LoginKeeps
<1>4. CASE OpenRemoteFails
  BY <1>4, OpenRemoteFailsKeeps
<1>5. CASE OpenRemoteFailsLate
  BY <1>5, OpenRemoteFailsLateKeeps
<1>6. CASE OpenRemote
  BY <1>6, OpenRemoteKeeps
<1>7. CASE Reader
  BY <1>7, ReaderKeeps
<1>8. CASE Create
  BY <1>8, CreateKeeps
<1>9. CASE Open
  BY <1>9, OpenKeeps
<1>10. CASE BootAnalyzes
  BY <1>10, BootAnalyzesKeeps
<1>11. CASE BootReads
  BY <1>11, BootReadsKeeps
<1>12. CASE BootMachine
  BY <1>12, BootMachineKeeps
<1>13. CASE BootFails
  BY <1>13, BootFailsKeeps
<1>14. CASE RestorePrepares
  BY <1>14, RestorePreparesKeeps
<1>15. CASE RestoreCommits
  BY <1>15, RestoreCommitsKeeps
<1>16. CASE RestoreFails
  BY <1>16, RestoreFailsKeeps
<1>17. CASE RestoreFailsCommitted
  BY <1>17, RestoreFailsCommittedKeeps
<1>18. CASE RestoreExchanges
  BY <1>18, RestoreExchangesKeeps
<1>19. CASE RestoreRecords
  BY <1>19, RestoreRecordsKeeps
<1>20. CASE RestoreDone
  BY <1>20, RestoreDoneKeeps
<1>21. CASE RestoreFailsExchanged
  BY <1>21, RestoreFailsExchangedKeeps
<1>22. CASE SaveState
  BY <1>22, SaveStateKeeps
<1>23. CASE Save
  BY <1>23, SaveKeeps
<1>24. CASE SaveDone
  BY <1>24, SaveDoneKeeps
<1>25. CASE SaveFails
  BY <1>25, SaveFailsKeeps
<1>26. CASE Download
  BY <1>26, DownloadKeeps
<1>27. CASE DownloadDone
  BY <1>27, DownloadDoneKeeps
<1>28. CASE VerifyOrClear
  BY <1>28, VerifyOrClearKeeps
<1>29. CASE Discard
  BY <1>29, DiscardKeeps
<1>30. CASE DiscardDone
  BY <1>30, DiscardDoneKeeps
<1>31. CASE Close
  BY <1>31, CloseKeeps
<1>32. CASE FinishAnalysis
  BY <1>32, FinishAnalysisKeeps
<1>33. CASE OverflowCancels
  BY <1>33, OverflowCancelsKeeps
<1>34. CASE GuestReads
  BY <1>34, GuestReadsKeeps
<1>35. CASE GuestWrites
  BY <1>35, GuestWritesKeeps
<1>36. CASE DiskFails
  BY <1>36, DiskFailsKeeps
<1>37. CASE RetryAdapter
  BY <1>37, RetryAdapterKeeps
<1>38. CASE Pause
  BY <1>38, PauseKeeps
<1>39. CASE RetryRejected
  BY <1>39, RetryRejectedKeeps
<1> QED BY <1>1, <1>2, <1>3, <1>4, <1>5, <1>6, <1>7, <1>8, <1>9, <1>10, <1>11, <1>12, <1>13, <1>14,
     <1>15, <1>16, <1>17, <1>18, <1>19, <1>20, <1>21, <1>22, <1>23, <1>24, <1>25, <1>26, <1>27,
     <1>28, <1>29, <1>30, <1>31, <1>32, <1>33, <1>34, <1>35, <1>36, <1>37, <1>38, <1>39 DEF Next

\* The invariant holds in every reachable state, for any sources and adapters.
THEOREM SessionInductive == Spec => []IInv
  BY InitInv, NextKeeps, PTL DEF Spec

\* Retry, Discard and Close reach the machine on the screen, whatever boots, restores,
\* failures and errors of the disk came before (disk-ui.js and win98.js).
THEOREM OwnsMachine == Spec => []SessionOwnsMachine
<1>1. IInv => SessionOwnsMachine
  BY DEF SessionOwnsMachine, OwnInv, OpInv, NextInv, Free, Idle, diskControls, Failing
<1>2. QED BY <1>1, SessionInductive, PTL

\* The engine's image, the current source and the sources map of the Worker agree while
\* the page shows a disk, through every failed request (worker.js).
THEOREM SourcesStayConsistent == Spec => []SourcesAgree
<1>1. IInv => SourcesAgree
  BY DEF SourcesAgree, SourceInv
<1>2. QED BY <1>1, SessionInductive, PTL

\* The page and the Worker agree on whether a load is being recorded, but for an analysis
\* the page gave up with a request that was rejected (disk-ui.js, disk-session.js, worker.js).
THEOREM AnalysisStaysConsistent == Spec => []AnalysisAgrees
<1>1. IInv => AnalysisAgrees
  BY DEF AnalysisAgrees, AnalysisInv, OpInv, Free, Idle
<1>2. QED BY <1>1, SessionInductive, PTL

\* A download that is offered is of the current disk, and the Worker has it.
THEOREM PreparedStaysCurrent == Spec => []PreparedIsCurrent
<1>1. IInv => PreparedIsCurrent
  BY DEF PreparedIsCurrent, PreparedInv, Free, Idle
<1>2. QED BY <1>1, SessionInductive, PTL
=============================================================================
