---------------------------- MODULE RelayProofs ----------------------------
(***************************************************************************)
(* The relay's safety for any number of keys, connections and permits.     *)
(***************************************************************************)
EXTENDS Relay, FiniteSetTheorems, TLAPS

ConnType == [pc : Phases, key : Keys, cancel : BOOLEAN, late : Nat,
             session : BOOLEAN, pending : BOOLEAN]
AdminType == [pc : {"idle", "locked", "renamed", "saved", "replaced"},
              cmd : {"allow", "revoke"}, key : Keys, next : SUBSET Keys]

\* A slot and a task at rest.
LEMMA RestTypes ==
  /\ AnyKey \in Keys
  /\ NoConn(AnyKey) \in ConnType
  /\ NoConn(AnyKey).cancel = FALSE /\ NoConn(AnyKey).late = 0 /\ NoConn(AnyKey).pc = "free"
  /\ NoConn(AnyKey).session = FALSE /\ NoConn(AnyKey).pending = FALSE
  /\ NoCommand(AnyKey) \in AdminType /\ NoCommand(AnyKey).pc = "idle"
<1>1. AnyKey \in Keys
  BY RelayAssumption DEF AnyKey
<1>. QED
  BY <1>1 DEF NoConn, NoCommand, ConnType, AdminType, Phases

\* Giving out or taking back one permit changes the number of holders by one.
LEMMA HolderCount ==
  ASSUME NEW S \in SUBSET Conns, NEW c \in Conns
  PROVE  /\ IsFiniteSet(S) /\ Cardinality(S) \in Nat
         /\ c \notin S => Cardinality(S \cup {c}) = Cardinality(S) + 1
         /\ c \in S => Cardinality(S \ {c}) = Cardinality(S) - 1
<1>1. IsFiniteSet(S)
  BY RelayAssumption, FS_Subset
<1>. QED
  BY <1>1, FS_CardinalityType, FS_AddElement, FS_RemoveElement

\* What a step of one connection must show: it gives that connection new
\* locals and leaves the others, the mutex and the allow set alone.
LEMMA OneConnection ==
  ASSUME RelayInv, NEW c \in Conns, NEW r \in ConnType,
         conn' = [conn EXCEPT ![c] = r],
         UNCHANGED <<adminVars, crashes>>,
         sessions' \in Nat, handshakes' \in Nat,
         active' \in {active, active \ {c}, active \cup {c}},
         sessions' = sessions + (IF conn[c].session THEN 1 ELSE 0) - (IF r.session THEN 1 ELSE 0),
         handshakes' = handshakes + (IF conn[c].pending THEN 1 ELSE 0)
                                  - (IF r.pending THEN 1 ELSE 0),
         c \in active' => /\ r.pc \in {"registered", "ready", "serving", "frame", "forward"}
                          /\ r.key \in allow \/ (c \in active /\ r.key = conn[c].key
                                                 /\ (conn[c].cancel => r.cancel)),
         PermitsOf(r), r.late <= 1,
         r.late # 0 => r.cancel /\ r.pc \notin {"frame", "forward"}
  PROVE  RelayInv'
<1>1. /\ TypeOK /\ conn \in [Conns -> ConnType] /\ conn' \in [Conns -> ConnType] /\ conn'[c] = r
      /\ \A d \in Conns \ {c} : conn'[d] = conn[d]
  BY DEF RelayInv, TypeOK, ConnType
<1>2. TypeOK'
  BY <1>1 DEF TypeOK, ConnType, adminVars, diskVars
<1>3. LockInv'
  BY DEF RelayInv, LockInv, adminVars, diskVars
<1>4. RevokedInv'
  BY <1>1 DEF RelayInv, RevokedInv, adminVars, diskVars
<1>5. SessionInv'
  BY <1>1 DEF RelayInv, SessionInv
<1>6. AckDurable'
  BY DEF RelayInv, AckDurable, adminVars, diskVars
<1>7. PermitsAccounted'
  <2>0. Cardinality(SessionHolders) \in Nat /\ Cardinality(PendingHolders) \in Nat
    BY HolderCount DEF SessionHolders, PendingHolders
  <2>1. /\ SessionHolders' = (SessionHolders \ {c}) \cup (IF r.session THEN {c} ELSE {})
        /\ PendingHolders' = (PendingHolders \ {c}) \cup (IF r.pending THEN {c} ELSE {})
        /\ c \in SessionHolders <=> conn[c].session
        /\ c \in PendingHolders <=> conn[c].pending
        /\ SessionHolders \in SUBSET Conns /\ PendingHolders \in SUBSET Conns
    BY <1>1 DEF SessionHolders, PendingHolders
  <2>2. /\ conn[c].session \in BOOLEAN /\ conn[c].pending \in BOOLEAN
        /\ r.session \in BOOLEAN /\ r.pending \in BOOLEAN
    BY <1>1 DEF ConnType
  <2>3. Cardinality(SessionHolders') = Cardinality(SessionHolders)
          - (IF conn[c].session THEN 1 ELSE 0) + (IF r.session THEN 1 ELSE 0)
    <3>1. CASE conn[c].session /\ r.session
      <4>1. SessionHolders' = SessionHolders
        BY <2>1, <3>1
      <4>. QED
        BY <2>0, <3>1, <4>1
    <3>2. CASE conn[c].session /\ ~r.session
      <4>1. SessionHolders' = SessionHolders \ {c}
        BY <2>1, <3>2
      <4>. QED
        BY <2>1, <3>2, <4>1, HolderCount
    <3>3. CASE ~conn[c].session /\ r.session
      <4>1. SessionHolders' = SessionHolders \cup {c}
        BY <2>1, <3>3
      <4>. QED
        BY <2>1, <3>3, <4>1, HolderCount
    <3>4. CASE ~conn[c].session /\ ~r.session
      <4>1. SessionHolders' = SessionHolders
        BY <2>1, <3>4
      <4>. QED
        BY <2>0, <3>4, <4>1
    <3>. QED
      BY <3>1, <3>2, <3>3, <3>4
  <2>4. Cardinality(PendingHolders') = Cardinality(PendingHolders)
          - (IF conn[c].pending THEN 1 ELSE 0) + (IF r.pending THEN 1 ELSE 0)
    <3>1. CASE conn[c].pending /\ r.pending
      <4>1. PendingHolders' = PendingHolders
        BY <2>1, <3>1
      <4>. QED
        BY <2>0, <3>1, <4>1
    <3>2. CASE conn[c].pending /\ ~r.pending
      <4>1. PendingHolders' = PendingHolders \ {c}
        BY <2>1, <3>2
      <4>. QED
        BY <2>1, <3>2, <4>1, HolderCount
    <3>3. CASE ~conn[c].pending /\ r.pending
      <4>1. PendingHolders' = PendingHolders \cup {c}
        BY <2>1, <3>3
      <4>. QED
        BY <2>1, <3>3, <4>1, HolderCount
    <3>4. CASE ~conn[c].pending /\ ~r.pending
      <4>1. PendingHolders' = PendingHolders
        BY <2>1, <3>4
      <4>. QED
        BY <2>0, <3>4, <4>1
    <3>. QED
      BY <3>1, <3>2, <3>3, <3>4
  <2>5. /\ sessions \in Nat /\ handshakes \in Nat
        /\ MaxSessions \in Nat /\ MaxHandshakes \in Nat
    BY <1>1, RelayAssumption DEF TypeOK
  <2>. QED
    BY <2>0, <2>2, <2>3, <2>4, <2>5 DEF RelayInv, PermitsAccounted
<1>. QED
  BY <1>2, <1>3, <1>4, <1>5, <1>6, <1>7 DEF RelayInv

\* Leaving keeps the permits until they are released.
LEMMA LeavePreserves ==
  ASSUME RelayInv, NEW c \in Conns, Leave(c)
  PROVE  RelayInv'
<1> DEFINE r == [conn[c] EXCEPT !.pc = "leaving"]
<1>1. conn \in [Conns -> ConnType] /\ sessions \in Nat /\ handshakes \in Nat
  BY DEF RelayInv, TypeOK, ConnType
<1>2. /\ r \in ConnType /\ r.session = conn[c].session /\ r.pending = conn[c].pending
      /\ r.late = conn[c].late /\ r.cancel = conn[c].cancel /\ r.pc = "leaving"
  BY <1>1 DEF ConnType, Phases
<1>3. /\ conn' = [conn EXCEPT ![c] = r] /\ active' = active \ {c}
      /\ UNCHANGED <<adminVars, crashes>>
      /\ sessions' = sessions /\ handshakes' = handshakes
  BY <1>1 DEF Leave, permitVars
<1>4. PermitsOf(r) /\ r.late <= 1 /\ (r.late # 0 => r.cancel)
  BY <1>2 DEF RelayInv, SessionInv, PermitsOf
<1>5. /\ sessions' = sessions + (IF conn[c].session THEN 1 ELSE 0) - (IF r.session THEN 1 ELSE 0)
      /\ handshakes' = handshakes + (IF conn[c].pending THEN 1 ELSE 0)
                                  - (IF r.pending THEN 1 ELSE 0)
  BY <1>1, <1>2, <1>3
<1> HIDE DEF r
<1>. QED
  BY <1>1, <1>2, <1>3, <1>4, <1>5, OneConnection

\* Moving on keeps the permits, and picks a frame only when nothing was cancelled.
LEMMA GotoPreserves ==
  ASSUME RelayInv, NEW c \in Conns, NEW p \in Phases, Goto(c, p),
         conn[c].pc \in {"registered", "ready", "serving", "frame", "forward"} =>
           /\ p \in {"registered", "ready", "serving", "frame", "forward"}
           /\ p \in {"frame", "forward"} => ~conn[c].cancel \/ conn[c].pc = "frame",
         conn[c].pc \notin {"registered", "ready", "serving", "frame", "forward"} =>
           p \notin {"frame", "forward"},
         PermitsOf([conn[c] EXCEPT !.pc = p])
  PROVE  RelayInv'
<1> DEFINE r == [conn[c] EXCEPT !.pc = p]
<1>1. conn \in [Conns -> ConnType] /\ sessions \in Nat /\ handshakes \in Nat
  BY DEF RelayInv, TypeOK, ConnType
<1>2. /\ r \in ConnType /\ r.session = conn[c].session /\ r.pending = conn[c].pending
      /\ r.late = conn[c].late /\ r.cancel = conn[c].cancel /\ r.pc = p /\ r.key = conn[c].key
  BY <1>1 DEF ConnType
<1>3. /\ conn' = [conn EXCEPT ![c] = r] /\ active' = active
      /\ UNCHANGED <<adminVars, crashes>>
      /\ sessions' = sessions /\ handshakes' = handshakes
  BY <1>1 DEF Goto, permitVars
<1>4. r.late <= 1 /\ (r.late # 0 => r.cancel /\ r.pc \notin {"frame", "forward"})
  BY <1>2 DEF RelayInv, SessionInv
<1>5. c \in active => r.pc \in {"registered", "ready", "serving", "frame", "forward"}
  BY <1>2 DEF RelayInv, SessionInv
<1>6. /\ sessions' = sessions + (IF conn[c].session THEN 1 ELSE 0) - (IF r.session THEN 1 ELSE 0)
      /\ handshakes' = handshakes + (IF conn[c].pending THEN 1 ELSE 0)
                                  - (IF r.pending THEN 1 ELSE 0)
  BY <1>1, <1>2, <1>3
<1>7. PermitsOf(r)
  OBVIOUS
<1> HIDE DEF r
<1>. QED
  BY <1>1, <1>2, <1>3, <1>4, <1>5, <1>6, <1>7, OneConnection

\* Accepting takes a handshake permit for an idle slot.
LEMMA AcceptPreserves ==
  ASSUME RelayInv, NEW c \in Conns, Accept(c)
  PROVE  RelayInv'
<1> DEFINE r == [NoConn(AnyKey) EXCEPT !.pc = "upgrade", !.pending = TRUE]
<1>1. /\ conn \in [Conns -> ConnType] /\ conn[c] \in ConnType
      /\ sessions \in Nat /\ handshakes \in Nat
  BY DEF RelayInv, TypeOK, ConnType
<1>2. /\ r \in ConnType
      /\ r.session = FALSE /\ r.pending = TRUE /\ r.late = 0 /\ r.pc = "upgrade"
  BY <1>1, RestTypes DEF ConnType, Phases, NoConn
<1>3. /\ conn' = [conn EXCEPT ![c] = r] /\ UNCHANGED <<adminVars, crashes>>
      /\ active' = active /\ sessions' = sessions /\ handshakes' = handshakes - 1
      /\ handshakes > 0
  BY <1>1 DEF Accept
<1>4. /\ sessions' \in Nat /\ handshakes' \in Nat
      /\ sessions' = sessions + (IF conn[c].session THEN 1 ELSE 0) - (IF r.session THEN 1 ELSE 0)
      /\ handshakes' = handshakes + (IF conn[c].pending THEN 1 ELSE 0)
                                  - (IF r.pending THEN 1 ELSE 0)
  BY <1>1, <1>2, <1>3 DEF RelayInv, SessionInv, PermitsOf, Accept
<1>5. PermitsOf(r) /\ r.late <= 1 /\ (r.late # 0 => r.cancel /\ r.pc \notin {"frame", "forward"})
  BY <1>1, <1>2 DEF RelayInv, SessionInv, PermitsOf, ConnType
<1>6. c \in active' => /\ r.pc \in {"registered", "ready", "serving", "frame", "forward"}
                       /\ r.key \in allow \/ (c \in active /\ r.key = conn[c].key
                                              /\ (conn[c].cancel => r.cancel))
  BY <1>2, <1>3 DEF RelayInv, SessionInv, Accept
<1> HIDE DEF r
<1>. QED
  BY <1>1, <1>2, <1>3, <1>4, <1>5, <1>6, OneConnection

\* hello records the key it was allowed with.
LEMMA HelloPreserves ==
  ASSUME RelayInv, NEW c \in Conns, NEW k \in Keys, Hello(c, k)
  PROVE  RelayInv'
<1> DEFINE r == [conn[c] EXCEPT !.pc = "challenged", !.key = k]
<1>1. /\ conn \in [Conns -> ConnType] /\ conn[c] \in ConnType
      /\ sessions \in Nat /\ handshakes \in Nat
  BY DEF RelayInv, TypeOK, ConnType
<1>2. /\ r \in ConnType
      /\ r.session = conn[c].session /\ r.pending = conn[c].pending
      /\ r.late = conn[c].late /\ r.cancel = conn[c].cancel /\ r.pc = "challenged"
  BY <1>1, RestTypes DEF ConnType, Phases
<1>3. /\ conn' = [conn EXCEPT ![c] = r] /\ UNCHANGED <<adminVars, crashes>>
      /\ active' = active /\ sessions' = sessions /\ handshakes' = handshakes
  BY <1>1 DEF Hello, permitVars
<1>4. /\ sessions' \in Nat /\ handshakes' \in Nat
      /\ sessions' = sessions + (IF conn[c].session THEN 1 ELSE 0) - (IF r.session THEN 1 ELSE 0)
      /\ handshakes' = handshakes + (IF conn[c].pending THEN 1 ELSE 0)
                                  - (IF r.pending THEN 1 ELSE 0)
  BY <1>1, <1>2, <1>3 DEF Hello
<1>5. PermitsOf(r) /\ r.late <= 1 /\ (r.late # 0 => r.cancel /\ r.pc \notin {"frame", "forward"})
  BY <1>1, <1>2 DEF RelayInv, SessionInv, PermitsOf, ConnType, Hello
<1>6. c \in active' => /\ r.pc \in {"registered", "ready", "serving", "frame", "forward"}
                       /\ r.key \in allow \/ (c \in active /\ r.key = conn[c].key
                                              /\ (conn[c].cancel => r.cancel))
  BY <1>2, <1>3 DEF RelayInv, SessionInv, Hello
<1> HIDE DEF r
<1>. QED
  BY <1>1, <1>2, <1>3, <1>4, <1>5, <1>6, OneConnection

\* A session permit is taken, or the connection leaves.
LEMMA AcquirePreserves ==
  ASSUME RelayInv, NEW c \in Conns, conn[c].pc = "authenticated", sessions > 0,
         conn' = [conn EXCEPT ![c].pc = "permitted", ![c].session = TRUE],
         sessions' = sessions - 1, UNCHANGED <<adminVars, active, handshakes, crashes>>
  PROVE  RelayInv'
<1> DEFINE r == [conn[c] EXCEPT !.pc = "permitted", !.session = TRUE]
<1>1. /\ conn \in [Conns -> ConnType] /\ conn[c] \in ConnType
      /\ sessions \in Nat /\ handshakes \in Nat
  BY DEF RelayInv, TypeOK, ConnType
<1>2. /\ r \in ConnType
      /\ r.session = TRUE /\ r.pending = conn[c].pending
      /\ r.late = conn[c].late /\ r.cancel = conn[c].cancel /\ r.pc = "permitted"
  BY <1>1, RestTypes DEF ConnType, Phases
<1>3. /\ conn' = [conn EXCEPT ![c] = r] /\ UNCHANGED <<adminVars, crashes>>
      /\ active' = active /\ sessions' = sessions - 1 /\ handshakes' = handshakes
  BY <1>1 DEF ConnType
<1>4. /\ sessions' \in Nat /\ handshakes' \in Nat
      /\ sessions' = sessions + (IF conn[c].session THEN 1 ELSE 0) - (IF r.session THEN 1 ELSE 0)
      /\ handshakes' = handshakes + (IF conn[c].pending THEN 1 ELSE 0)
                                  - (IF r.pending THEN 1 ELSE 0)
  BY <1>1, <1>2, <1>3 DEF RelayInv, SessionInv, PermitsOf, ConnType
<1>5. PermitsOf(r) /\ r.late <= 1 /\ (r.late # 0 => r.cancel /\ r.pc \notin {"frame", "forward"})
  BY <1>1, <1>2 DEF RelayInv, SessionInv, PermitsOf, ConnType
<1>6. c \in active' => /\ r.pc \in {"registered", "ready", "serving", "frame", "forward"}
                       /\ r.key \in allow \/ (c \in active /\ r.key = conn[c].key
                                              /\ (conn[c].cancel => r.cancel))
  BY <1>2, <1>3 DEF RelayInv, SessionInv
<1> HIDE DEF r
<1>. QED
  BY <1>1, <1>2, <1>3, <1>4, <1>5, <1>6, OneConnection

\* A registered connection's key is in the allow set at that moment.
LEMMA RegisterPreserves ==
  ASSUME RelayInv, NEW c \in Conns, Register(c), StillAllowed(c)
  PROVE  RelayInv'
<1> DEFINE r == [conn[c] EXCEPT !.pc = "registered"]
<1>1. /\ conn \in [Conns -> ConnType] /\ conn[c] \in ConnType
      /\ sessions \in Nat /\ handshakes \in Nat
  BY DEF RelayInv, TypeOK, ConnType
<1>2. /\ r \in ConnType
      /\ r.session = conn[c].session /\ r.pending = conn[c].pending
      /\ r.late = conn[c].late /\ r.cancel = conn[c].cancel /\ r.pc = "registered"
      /\ r.key = conn[c].key
  BY <1>1, RestTypes DEF ConnType, Phases
<1>3. /\ conn' = [conn EXCEPT ![c] = r] /\ UNCHANGED <<adminVars, crashes>>
      /\ active' = active \cup {c} /\ sessions' = sessions /\ handshakes' = handshakes
  BY <1>1 DEF Register, permitVars
<1>4. /\ sessions' \in Nat /\ handshakes' \in Nat
      /\ sessions' = sessions + (IF conn[c].session THEN 1 ELSE 0) - (IF r.session THEN 1 ELSE 0)
      /\ handshakes' = handshakes + (IF conn[c].pending THEN 1 ELSE 0)
                                  - (IF r.pending THEN 1 ELSE 0)
  BY <1>1, <1>2, <1>3 DEF Register
<1>5. PermitsOf(r) /\ r.late <= 1 /\ (r.late # 0 => r.cancel /\ r.pc \notin {"frame", "forward"})
  BY <1>1, <1>2 DEF RelayInv, SessionInv, PermitsOf, ConnType, Register
<1>6. c \in active' => /\ r.pc \in {"registered", "ready", "serving", "frame", "forward"}
                       /\ r.key \in allow \/ (c \in active /\ r.key = conn[c].key
                                              /\ (conn[c].cancel => r.cancel))
  BY <1>2, <1>3 DEF RelayInv, SessionInv, Register, StillAllowed
<1> HIDE DEF r
<1>. QED
  BY <1>1, <1>2, <1>3, <1>4, <1>5, <1>6, OneConnection

\* The session gives its handshake permit back when it is ready.
LEMMA ReadyPreserves ==
  ASSUME RelayInv, NEW c \in Conns, conn[c].pc = "ready",
         conn' = [conn EXCEPT ![c].pc = "serving", ![c].pending = FALSE],
         handshakes' = handshakes + 1, UNCHANGED <<adminVars, active, sessions, crashes>>
  PROVE  RelayInv'
<1> DEFINE r == [conn[c] EXCEPT !.pc = "serving", !.pending = FALSE]
<1>1. /\ conn \in [Conns -> ConnType] /\ conn[c] \in ConnType
      /\ sessions \in Nat /\ handshakes \in Nat
  BY DEF RelayInv, TypeOK, ConnType
<1>2. /\ r \in ConnType
      /\ r.session = conn[c].session /\ r.pending = FALSE
      /\ r.late = conn[c].late /\ r.cancel = conn[c].cancel /\ r.pc = "serving"
      /\ r.key = conn[c].key
  BY <1>1, RestTypes DEF ConnType, Phases
<1>3. /\ conn' = [conn EXCEPT ![c] = r] /\ UNCHANGED <<adminVars, crashes>>
      /\ active' = active /\ sessions' = sessions /\ handshakes' = handshakes + 1
  BY <1>1 DEF ConnType
<1>4. /\ sessions' \in Nat /\ handshakes' \in Nat
      /\ sessions' = sessions + (IF conn[c].session THEN 1 ELSE 0) - (IF r.session THEN 1 ELSE 0)
      /\ handshakes' = handshakes + (IF conn[c].pending THEN 1 ELSE 0)
                                  - (IF r.pending THEN 1 ELSE 0)
  BY <1>1, <1>2, <1>3 DEF RelayInv, SessionInv, PermitsOf, ConnType
<1>5. PermitsOf(r) /\ r.late <= 1 /\ (r.late # 0 => r.cancel /\ r.pc \notin {"frame", "forward"})
  BY <1>1, <1>2 DEF RelayInv, SessionInv, PermitsOf, ConnType
<1>6. c \in active' => /\ r.pc \in {"registered", "ready", "serving", "frame", "forward"}
                       /\ r.key \in allow \/ (c \in active /\ r.key = conn[c].key
                                              /\ (conn[c].cancel => r.cancel))
  BY <1>2, <1>3 DEF RelayInv, SessionInv
<1> HIDE DEF r
<1>. QED
  BY <1>1, <1>2, <1>3, <1>4, <1>5, <1>6, OneConnection

\* A forwarded frame is late at most once.
LEMMA ForwardedPreserves ==
  ASSUME RelayInv, NEW c \in Conns, FrameForwarded(c)
  PROVE  RelayInv'
<1> DEFINE r == [conn[c] EXCEPT !.pc = "serving", !.late = IF conn[c].cancel THEN @ + 1 ELSE @]
<1>1. /\ conn \in [Conns -> ConnType] /\ conn[c] \in ConnType
      /\ sessions \in Nat /\ handshakes \in Nat
  BY DEF RelayInv, TypeOK, ConnType
<1>0. (IF conn[c].cancel THEN conn[c].late + 1 ELSE conn[c].late) \in Nat
  BY <1>1 DEF ConnType
<1>2. /\ r \in ConnType
      /\ r.session = conn[c].session /\ r.pending = conn[c].pending
      /\ r.late = (IF conn[c].cancel THEN conn[c].late + 1 ELSE conn[c].late)
      /\ r.cancel = conn[c].cancel /\ r.pc = "serving" /\ r.key = conn[c].key
  BY <1>1, <1>0, RestTypes DEF ConnType, Phases
<1>3. /\ conn' = [conn EXCEPT ![c] = r] /\ UNCHANGED <<adminVars, crashes>>
      /\ active' = active /\ sessions' = sessions /\ handshakes' = handshakes
  BY <1>1 DEF FrameForwarded, permitVars
<1>4. /\ sessions' \in Nat /\ handshakes' \in Nat
      /\ sessions' = sessions + (IF conn[c].session THEN 1 ELSE 0) - (IF r.session THEN 1 ELSE 0)
      /\ handshakes' = handshakes + (IF conn[c].pending THEN 1 ELSE 0)
                                  - (IF r.pending THEN 1 ELSE 0)
  BY <1>1, <1>2, <1>3 DEF FrameForwarded
<1>5. PermitsOf(r) /\ r.late <= 1 /\ (r.late # 0 => r.cancel /\ r.pc \notin {"frame", "forward"})
  BY <1>1, <1>2 DEF RelayInv, SessionInv, PermitsOf, ConnType, FrameForwarded
<1>6. c \in active' => /\ r.pc \in {"registered", "ready", "serving", "frame", "forward"}
                       /\ r.key \in allow \/ (c \in active /\ r.key = conn[c].key
                                              /\ (conn[c].cancel => r.cancel))
  BY <1>2, <1>3 DEF RelayInv, SessionInv, FrameForwarded
<1> HIDE DEF r
<1>. QED
  BY <1>1, <1>2, <1>3, <1>4, <1>5, <1>6, OneConnection

\* A connection that left gives back every permit it holds.
LEMMA ReleasedPreserves ==
  ASSUME RelayInv, NEW c \in Conns, Released(c)
  PROVE  RelayInv'
<1> DEFINE r == NoConn(AnyKey)
<1>1. /\ conn \in [Conns -> ConnType] /\ conn[c] \in ConnType
      /\ sessions \in Nat /\ handshakes \in Nat
  BY DEF RelayInv, TypeOK, ConnType
<1>2. /\ r \in ConnType
      /\ r.session = FALSE /\ r.pending = FALSE /\ r.late = 0 /\ r.pc = "free"
  BY <1>1, RestTypes DEF ConnType, Phases
<1>3. /\ conn' = [conn EXCEPT ![c] = r] /\ UNCHANGED <<adminVars, crashes>>
      /\ active' = active
  BY <1>1 DEF Released
<1>4. /\ sessions' \in Nat /\ handshakes' \in Nat
      /\ sessions' = sessions + (IF conn[c].session THEN 1 ELSE 0) - (IF r.session THEN 1 ELSE 0)
      /\ handshakes' = handshakes + (IF conn[c].pending THEN 1 ELSE 0)
                                  - (IF r.pending THEN 1 ELSE 0)
  BY <1>1, <1>2, <1>3 DEF Released, PendingBack, ConnType
<1>5. PermitsOf(r) /\ r.late <= 1 /\ (r.late # 0 => r.cancel /\ r.pc \notin {"frame", "forward"})
  BY <1>1, <1>2 DEF RelayInv, SessionInv, PermitsOf, ConnType
<1>6. c \in active' => /\ r.pc \in {"registered", "ready", "serving", "frame", "forward"}
                       /\ r.key \in allow \/ (c \in active /\ r.key = conn[c].key
                                              /\ (conn[c].cancel => r.cancel))
  BY <1>2, <1>3 DEF RelayInv, SessionInv, Released
<1> HIDE DEF r
<1>. QED
  BY <1>1, <1>2, <1>3, <1>4, <1>5, <1>6, OneConnection

-----------------------------------------------------------------------------
(* The administrators, and a restart.                                      *)

\* A step inside the mutex: what it must leave alone, whatever it changes.
LEMMA SameConnections ==
  ASSUME RelayInv, UNCHANGED <<active, permitVars, conn>>
  PROVE  SessionInv' /\ PermitsAccounted'
BY DEF RelayInv, SessionInv, PermitsAccounted, SessionHolders, PendingHolders, permitVars

\* The administrator that is not idle is the one inside the mutex.
LEMMA OnlyOneInside ==
  ASSUME RelayInv, NEW a \in Admins, admin[a].pc # "idle"
  PROVE  /\ lock = a
         /\ \A b \in Admins \ {a} : admin[b].pc = "idle"
BY DEF RelayInv, LockInv

\* A new command countermands the opposite one.
LEMMA CommandPreserves ==
  ASSUME RelayInv, NEW a \in Admins, NEW cmd \in {"allow", "revoke"}, NEW k \in Keys,
         Command(a, cmd, k)
  PROVE  RelayInv'
<1> DEFINE w == [pc |-> "locked", cmd |-> cmd, key |-> k,
                 next |-> IF cmd = "allow" THEN allow \cup {k} ELSE allow \ {k}]
<1>1. /\ admin' = [admin EXCEPT ![a] = w] /\ lock = NoAdmin /\ lock' = a
      /\ acked' = acked \ {<<Opposite(cmd), k>>}
      /\ UNCHANGED <<allow, diskVars, active, permitVars, conn, crashes>>
      /\ commands' = commands + 1
  BY DEF Command, Unlocked
<1>2. /\ w \in AdminType /\ w.pc = "locked" /\ w.cmd = cmd /\ w.key = k
      /\ w.next = (IF cmd = "allow" THEN allow \cup {k} ELSE allow \ {k})
  BY DEF RelayInv, TypeOK, AdminType
<1>3. \A b \in Admins : admin[b].pc = "idle"
  BY <1>1, RelayAssumption DEF RelayInv, LockInv
<1> HIDE DEF w
<1>4. /\ admin' \in [Admins -> AdminType] /\ admin'[a] = w
      /\ \A b \in Admins \ {a} : admin'[b] = admin[b]
  BY <1>1, <1>2 DEF RelayInv, TypeOK, AdminType
<1>5. TypeOK'
  BY <1>1, <1>4 DEF RelayInv, TypeOK, AdminType, diskVars, permitVars
<1>6. LockInv'
  <2>1. \A b \in Admins : admin'[b].pc # "idle" <=> lock' = b
    BY <1>1, <1>2, <1>3, <1>4
  <2>2. <<Opposite(w.cmd), w.key>> \notin acked'
    BY <1>1, <1>2
  <2>. QED
    BY <2>1, <2>2, <1>1, <1>2, <1>3, <1>4 DEF LockInv
<1>7. RevokedInv'
  BY <1>1, <1>3 DEF RelayInv, RevokedInv
<1>8. AckDurable'
  BY <1>1 DEF RelayInv, AckDurable, diskVars
<1>. QED
  BY <1>1, <1>5, <1>6, <1>7, <1>8, SameConnections DEF RelayInv

\* The rename puts the new set in place; nothing acknowledged contradicts it.
LEMMA RenamePreserves ==
  ASSUME RelayInv, NEW a \in Admins, SaveRename(a)
  PROVE  RelayInv'
<1> DEFINE w == [admin[a] EXCEPT !.pc = "renamed"]
<1>1. /\ admin' = [admin EXCEPT ![a] = w] /\ file' = admin[a].next
      /\ UNCHANGED <<allow, lock, durable, acked, commands, active, permitVars, conn, crashes>>
      /\ admin[a].pc = "locked"
  BY DEF RelayInv, TypeOK, SaveRename, AdminGoto
<1>2. /\ admin[a] \in AdminType /\ w \in AdminType /\ w.pc = "renamed" /\ w.cmd = admin[a].cmd
      /\ w.key = admin[a].key /\ w.next = admin[a].next
  BY DEF RelayInv, TypeOK, AdminType
<1>3. lock = a /\ \A b \in Admins \ {a} : admin[b].pc = "idle"
  BY <1>1, OnlyOneInside
<1> HIDE DEF w
<1>4. /\ admin' \in [Admins -> AdminType] /\ admin'[a] = w
      /\ \A b \in Admins \ {a} : admin'[b] = admin[b]
  BY <1>1, <1>2 DEF RelayInv, TypeOK, AdminType
<1>5. TypeOK'
  BY <1>1, <1>2, <1>4 DEF RelayInv, TypeOK, AdminType, permitVars
<1>6. LockInv'
  <2>1. \A b \in Admins : admin'[b].pc # "idle" <=> lock' = b
    BY <1>1, <1>2, <1>3, <1>4
  <2>. QED
    BY <2>1, <1>1, <1>2, <1>3, <1>4 DEF RelayInv, LockInv
<1>7. RevokedInv'
  BY <1>1, <1>2, <1>3, <1>4 DEF RelayInv, RevokedInv
<1>8. AckDurable'
  <2>1. /\ <<Opposite(admin[a].cmd), admin[a].key>> \notin acked
        /\ admin[a].cmd = "allow" => admin[a].key \in admin[a].next
        /\ admin[a].cmd = "revoke" => admin[a].key \notin admin[a].next
        /\ \A k \in Keys \ {admin[a].key} : k \in admin[a].next <=> k \in allow
    BY <1>1 DEF RelayInv, LockInv
  <2>2. admin[a].cmd \in {"allow", "revoke"}
    BY <1>2 DEF AdminType
  <2>3. \A k \in Keys : /\ <<"revoke", k>> \in acked => k \notin admin[a].next
                        /\ <<"allow", k>> \in acked => k \in admin[a].next
    <3>1. TAKE k \in Keys
    <3>2. CASE k = admin[a].key
      BY <2>1, <2>2, <3>2 DEF Opposite
    <3>3. CASE k # admin[a].key
      BY <2>1, <3>3 DEF RelayInv, AckDurable
    <3>. QED
      BY <3>2, <3>3
  <2>. QED
    BY <2>3, <1>1 DEF RelayInv, AckDurable
<1>. QED
  BY <1>1, <1>5, <1>6, <1>7, <1>8, SameConnections DEF RelayInv

\* The synced directory makes the file durable.
LEMMA SyncPreserves ==
  ASSUME RelayInv, NEW a \in Admins, SaveSync(a)
  PROVE  RelayInv'
<1> DEFINE w == [admin[a] EXCEPT !.pc = "saved"]
<1>1. /\ admin' = [admin EXCEPT ![a] = w] /\ durable' = file
      /\ UNCHANGED <<allow, lock, file, acked, commands, active, permitVars, conn, crashes>>
      /\ admin[a].pc = "renamed"
  BY DEF RelayInv, TypeOK, SaveSync, SyncParent, AdminGoto
<1>2. /\ admin[a] \in AdminType /\ w \in AdminType /\ w.pc = "saved" /\ w.cmd = admin[a].cmd
      /\ w.key = admin[a].key /\ w.next = admin[a].next
  BY DEF RelayInv, TypeOK, AdminType
<1>3. lock = a /\ \A b \in Admins \ {a} : admin[b].pc = "idle"
  BY <1>1, OnlyOneInside
<1> HIDE DEF w
<1>4. /\ admin' \in [Admins -> AdminType] /\ admin'[a] = w
      /\ \A b \in Admins \ {a} : admin'[b] = admin[b]
  BY <1>1, <1>2 DEF RelayInv, TypeOK, AdminType
<1>5. TypeOK'
  BY <1>1, <1>2, <1>4 DEF RelayInv, TypeOK, AdminType, permitVars
<1>6. LockInv'
  <2>1. \A b \in Admins : admin'[b].pc # "idle" <=> lock' = b
    BY <1>1, <1>2, <1>3, <1>4
  <2>. QED
    BY <2>1, <1>1, <1>2, <1>3, <1>4 DEF RelayInv, LockInv
<1>7. RevokedInv'
  BY <1>1, <1>2, <1>3, <1>4 DEF RelayInv, RevokedInv
<1>8. AckDurable'
  BY <1>1 DEF RelayInv, AckDurable
<1>. QED
  BY <1>1, <1>5, <1>6, <1>7, <1>8, SameConnections DEF RelayInv

\* A failed save answers no command and leaves the set in memory.
LEMMA FailsPreserves ==
  ASSUME RelayInv, NEW a \in Admins, SaveFails(a)
  PROVE  RelayInv'
<1> DEFINE w == [admin[a] EXCEPT !.pc = "idle"]
<1>1. /\ admin' = [admin EXCEPT ![a] = w] /\ lock' = NoAdmin
      /\ UNCHANGED <<allow, diskVars, acked, commands, active, permitVars, conn, crashes>>
      /\ admin[a].pc \in {"locked", "renamed"}
  BY DEF RelayInv, TypeOK, SaveFails, AdminGoto
<1>2. w \in AdminType /\ w.pc = "idle"
  BY DEF RelayInv, TypeOK, AdminType
<1>3. \A b \in Admins \ {a} : admin[b].pc = "idle"
  BY <1>1, OnlyOneInside
<1> HIDE DEF w
<1>4. /\ admin' \in [Admins -> AdminType] /\ admin'[a] = w
      /\ \A b \in Admins \ {a} : admin'[b] = admin[b]
  BY <1>1, <1>2 DEF RelayInv, TypeOK, AdminType
<1>5. TypeOK'
  BY <1>1, <1>2, <1>4 DEF RelayInv, TypeOK, AdminType, diskVars, permitVars
<1>6. LockInv'
  BY <1>1, <1>2, <1>3, <1>4, RelayAssumption DEF LockInv
<1>7. RevokedInv'
  BY <1>1, <1>3 DEF RelayInv, RevokedInv
<1>8. AckDurable'
  BY <1>1 DEF RelayInv, AckDurable, diskVars
<1>. QED
  BY <1>1, <1>5, <1>6, <1>7, <1>8, SameConnections DEF RelayInv

\* The saved set becomes the one in force; sessions it leaves out are still to
\* be told, by the administrator that holds the mutex.
LEMMA ReplacePreserves ==
  ASSUME RelayInv, NEW a \in Admins, ReplaceAllow(a)
  PROVE  RelayInv'
<1> DEFINE w == [admin[a] EXCEPT !.pc = "replaced"]
<1>1. /\ admin' = [admin EXCEPT ![a] = w] /\ allow' = admin[a].next
      /\ UNCHANGED <<lock, diskVars, acked, commands, active, permitVars, conn, crashes>>
      /\ admin[a].pc = "saved"
  BY DEF RelayInv, TypeOK, ReplaceAllow, AdminGoto
<1>2. /\ admin[a] \in AdminType /\ w \in AdminType /\ w.pc = "replaced" /\ w.cmd = admin[a].cmd
      /\ w.key = admin[a].key /\ w.next = admin[a].next
  BY DEF RelayInv, TypeOK, AdminType
<1>3. lock = a /\ \A b \in Admins \ {a} : admin[b].pc = "idle"
  BY <1>1, OnlyOneInside
<1> HIDE DEF w
<1>4. /\ admin' \in [Admins -> AdminType] /\ admin'[a] = w
      /\ \A b \in Admins \ {a} : admin'[b] = admin[b]
  BY <1>1, <1>2 DEF RelayInv, TypeOK, AdminType
<1>5. TypeOK'
  BY <1>1, <1>2, <1>4 DEF RelayInv, TypeOK, AdminType, diskVars, permitVars
<1>6. LockInv'
  <2>1. \A b \in Admins : admin'[b].pc # "idle" <=> lock' = b
    BY <1>1, <1>2, <1>3, <1>4
  <2>. QED
    BY <2>1, <1>1, <1>2, <1>3, <1>4 DEF RelayInv, LockInv, diskVars
<1>7. RevokedInv'
  <2>1. \A c \in active : conn[c].key \in Keys
    BY DEF RelayInv, TypeOK
  <2>2. \A k \in Keys : k \notin admin[a].next =>
          k \notin allow \/ (admin[a].cmd = "revoke" /\ k = admin[a].key)
    BY <1>1, <1>2 DEF RelayInv, LockInv, AdminType
  <2>3. \A c \in active : conn[c].key \notin allow => conn[c].cancel
    BY <1>1, <1>3 DEF RelayInv, RevokedInv
  <2>. QED
    BY <2>1, <2>2, <2>3, <1>1, <1>2, <1>4 DEF RevokedInv
<1>8. AckDurable'
  <2>1. \A k \in Keys : /\ <<"revoke", k>> \in acked => k \notin admin[a].next
                        /\ <<"allow", k>> \in acked => k \in admin[a].next
    BY <1>1, <1>2 DEF RelayInv, LockInv, AckDurable, AdminType, Opposite
  <2>. QED
    BY <2>1, <1>1 DEF RelayInv, AckDurable, diskVars
<1>. QED
  BY <1>1, <1>5, <1>6, <1>7, <1>8, SameConnections DEF RelayInv

\* Every registered session of the revoked key is told before the mutex opens.
LEMMA CancelPreserves ==
  ASSUME RelayInv, NEW a \in Admins, CancelSessions(a)
  PROVE  RelayInv'
<1> DEFINE w == [admin[a] EXCEPT !.pc = "idle"]
<1>1. /\ admin' = [admin EXCEPT ![a] = w] /\ lock' = NoAdmin
      /\ acked' = acked \cup {<<admin[a].cmd, admin[a].key>>}
      /\ UNCHANGED <<allow, diskVars, commands, active, permitVars, crashes>>
      /\ admin[a].pc = "replaced"
  BY DEF RelayInv, TypeOK, CancelSessions, AdminGoto
<1>2. /\ admin[a] \in AdminType /\ w \in AdminType /\ w.pc = "idle"
  BY DEF RelayInv, TypeOK, AdminType
<1>3. \A b \in Admins \ {a} : admin[b].pc = "idle"
  BY <1>1, OnlyOneInside
<1> HIDE DEF w
<1>4. /\ admin' \in [Admins -> AdminType] /\ admin'[a] = w
      /\ \A b \in Admins \ {a} : admin'[b] = admin[b]
  BY <1>1, <1>2 DEF RelayInv, TypeOK, AdminType
<1>5. \A c \in Conns :
        /\ conn[c] \in ConnType /\ conn'[c] \in ConnType
        /\ conn'[c].pc = conn[c].pc /\ conn'[c].key = conn[c].key
        /\ conn'[c].late = conn[c].late
        /\ conn'[c].session = conn[c].session /\ conn'[c].pending = conn[c].pending
        /\ conn[c].cancel => conn'[c].cancel
        /\ (admin[a].cmd = "revoke" /\ c \in Told(a)) => conn'[c].cancel
  BY DEF RelayInv, TypeOK, ConnType, CancelSessions
<1>6. TypeOK'
  <2>1. conn' \in [Conns -> ConnType]
    BY <1>5 DEF CancelSessions
  <2>. QED
    BY <2>1, <1>1, <1>2, <1>4 DEF RelayInv, TypeOK, AdminType, ConnType, diskVars, permitVars
<1>7. LockInv'
  BY <1>1, <1>2, <1>3, <1>4, RelayAssumption DEF LockInv
<1>8. RevokedInv'
  BY <1>1, <1>3, <1>5 DEF RelayInv, TypeOK, RevokedInv, Told
<1>9. SessionInv'
  BY <1>1, <1>5 DEF RelayInv, TypeOK, SessionInv, PermitsOf
<1>10. AckDurable'
  <2>1. /\ allow = admin[a].next /\ file = admin[a].next /\ durable = admin[a].next
        /\ admin[a].cmd = "allow" => admin[a].key \in admin[a].next
        /\ admin[a].cmd = "revoke" => admin[a].key \notin admin[a].next
    BY <1>1 DEF RelayInv, LockInv
  <2>2. \A cmd \in {"allow", "revoke"}, k \in Keys :
          <<cmd, k>> \in acked' =>
            <<cmd, k>> \in acked \/ (cmd = admin[a].cmd /\ k = admin[a].key)
    BY <1>1
  <2>3. \A k \in Keys : /\ <<"revoke", k>> \in acked' => k \notin allow \cup file \cup durable
                        /\ <<"allow", k>> \in acked' => k \in allow \cap file \cap durable
    BY <2>1, <2>2 DEF RelayInv, AckDurable
  <2>. QED
    BY <2>3, <1>1 DEF AckDurable, diskVars
<1>11. PermitsAccounted'
  BY <1>1, <1>5 DEF RelayInv, PermitsAccounted, SessionHolders, PendingHolders, permitVars
<1>. QED
  BY <1>6, <1>7, <1>8, <1>9, <1>10, <1>11 DEF RelayInv

\* A restart trusts only the file.
LEMMA RestartPreserves ==
  ASSUME RelayInv, CrashAndRestart
  PROVE  RelayInv'
<1>1. PICK keys \in {file, durable} : Started(keys)
  BY DEF CrashAndRestart
<1>2. acked' = acked /\ commands' = commands /\ crashes' = crashes + 1
  BY DEF CrashAndRestart
<1>3. TypeOK'
  BY <1>1, <1>2, RestTypes, RelayAssumption DEF RelayInv, TypeOK, Started, ConnType, AdminType
<1>4. LockInv' /\ RevokedInv' /\ SessionInv'
  <2>1. /\ \A a \in Admins : admin'[a].pc = "idle"
        /\ \A c \in Conns : conn'[c] = NoConn(AnyKey)
        /\ lock' = NoAdmin /\ active' = {}
    BY <1>1, RestTypes DEF Started
  <2>2. LockInv' /\ RevokedInv'
    BY <2>1, RelayAssumption DEF LockInv, RevokedInv
  <2>3. SessionInv'
    BY <2>1, RestTypes DEF SessionInv, PermitsOf
  <2>. QED
    BY <2>2, <2>3
<1>5. AckDurable'
  BY <1>1, <1>2 DEF RelayInv, AckDurable, Started
<1>6. PermitsAccounted'
  <2>1. SessionHolders' = {} /\ PendingHolders' = {}
    BY <1>1, RestTypes DEF SessionHolders, PendingHolders, Started
  <2>. QED
    BY <1>1, <2>1, FS_EmptySet, RelayAssumption DEF PermitsAccounted, Started
<1>. QED
  BY <1>3, <1>4, <1>5, <1>6 DEF RelayInv

-----------------------------------------------------------------------------
(* The theorems.                                                           *)

\* The daemon starts with every permit free and nothing registered.
LEMMA InitRelayInv == Init => RelayInv
<1> SUFFICES ASSUME Init PROVE RelayInv
  OBVIOUS
<1>1. TypeOK
  BY RestTypes, RelayAssumption DEF Init, TypeOK, ConnType, AdminType
<1>2. LockInv /\ RevokedInv
  BY RestTypes, RelayAssumption DEF Init, LockInv, RevokedInv
<1>3. SessionInv
  BY RestTypes DEF Init, SessionInv, PermitsOf
<1>4. AckDurable
  BY DEF Init, AckDurable
<1>5. PermitsAccounted
  <2>1. SessionHolders = {} /\ PendingHolders = {}
    BY RestTypes DEF SessionHolders, PendingHolders, Init
  <2>. QED
    BY <2>1, FS_EmptySet, RelayAssumption DEF PermitsAccounted, Init
<1>. QED
  BY <1>1, <1>2, <1>3, <1>4, <1>5 DEF RelayInv

\* Every step of a connection keeps the invariant.
LEMMA ConnectionPreserves ==
  ASSUME RelayInv, NEW c \in Conns, ConnStep(c) \/ ClientStep(c)
  PROVE  RelayInv'
<1>1. conn[c] \in ConnType /\ sessions \in Nat
  BY DEF RelayInv, TypeOK, ConnType
<1>2. CASE Leave(c)
  BY <1>2, LeavePreserves
<1>3. CASE Upgraded(c)
  BY <1>1, <1>3, GotoPreserves DEF Upgraded, Phases, PermitsOf, ConnType, RelayInv, SessionInv
<1>4. CASE Authenticated(c)
  BY <1>1, <1>4, GotoPreserves DEF Authenticated, Phases, PermitsOf, ConnType, RelayInv, SessionInv
<1>5. CASE conn[c].pc = "registered" /\ ~conn[c].cancel /\ Goto(c, "ready")
  BY <1>1, <1>5, GotoPreserves DEF Phases, PermitsOf, ConnType, RelayInv, SessionInv
<1>6. CASE FrameSelected(c)
  BY <1>1, <1>6, GotoPreserves
  DEF FrameSelected, FrameTurn, Phases, PermitsOf, ConnType, RelayInv, SessionInv
<1>7. CASE conn[c].pc = "frame" /\ Goto(c, "forward")
  BY <1>1, <1>7, GotoPreserves DEF Phases, PermitsOf, ConnType, RelayInv, SessionInv
<1>8. CASE \/ Accept(c) \/ FrameForwarded(c) \/ Released(c)
           \/ \E k \in Keys : Hello(c, k)
  BY <1>8, AcceptPreserves, ForwardedPreserves, ReleasedPreserves, HelloPreserves
<1>9. CASE AcquireSession(c) /\ ~Leave(c)
  BY <1>9, AcquirePreserves DEF AcquireSession
<1>10. CASE Register(c) /\ ~Leave(c)
  BY <1>10, RegisterPreserves DEF Register
<1>11. CASE SendReady(c) /\ ~Leave(c)
  BY <1>11, ReadyPreserves DEF SendReady
<1>. QED
  BY <1>2, <1>3, <1>4, <1>5, <1>6, <1>7, <1>8, <1>9, <1>10, <1>11
  DEF ConnStep, ClientStep, HandshakeEnds, NetworkStarted, Cancelled, Disconnected, FrameChecked,
      FrameUnsent

\* Every step of the daemon keeps the invariant.
LEMMA NextRelayInv == RelayInv /\ [Next]_vars => RelayInv'
<1> SUFFICES ASSUME RelayInv, [Next]_vars PROVE RelayInv'
  OBVIOUS
<1>1. CASE \E c \in Conns : ConnStep(c) \/ ClientStep(c)
  BY <1>1, ConnectionPreserves
<1>2. CASE \E a \in Admins : AdminStep(a)
  BY <1>2, RenamePreserves, SyncPreserves, FailsPreserves, ReplacePreserves, CancelPreserves
  DEF AdminStep
<1>3. CASE \E a \in Admins, cmd \in {"allow", "revoke"}, k \in Keys : Command(a, cmd, k)
  BY <1>3, CommandPreserves
<1>4. CASE CrashAndRestart
  BY <1>4, RestartPreserves
<1>5. CASE UNCHANGED vars
  BY <1>5 DEF vars, adminVars, diskVars, permitVars, RelayInv, TypeOK, LockInv, RevokedInv,
     SessionInv, AckDurable, PermitsAccounted, SessionHolders, PendingHolders
<1>. QED
  BY <1>1, <1>2, <1>3, <1>4, <1>5 DEF Next

\* The relay's inductive invariant, for every number of keys, connections,
\* administrators and permits.
THEOREM RelayInvariant == Spec => []RelayInv
<1>. QED
  BY InitRelayInv, NextRelayInv, PTL DEF Spec

\* A revocation reaches every registered session of its key.
THEOREM RevocationReaches == Spec => []RevokedCancelled
<1>1. RelayInv => RevokedCancelled
  <2> SUFFICES ASSUME RelayInv, Unlocked, NEW c \in active, conn[c].key \notin allow
               PROVE  conn[c].cancel
    BY DEF RevokedCancelled
  <2>1. \A a \in Admins : admin[a].pc = "idle"
    BY RelayAssumption DEF RelayInv, LockInv, Unlocked
  <2>. QED
    BY <2>1 DEF RelayInv, RevokedInv
<1>. QED
  BY <1>1, RelayInvariant, PTL

\* A command that was answered ok survives restarts and power losses.
THEOREM AnsweredIsDurable == Spec => []AckDurable
<1>1. RelayInv => AckDurable
  BY DEF RelayInv
<1>. QED
  BY <1>1, RelayInvariant, PTL

\* A revoked session lets at most one frame through.
THEOREM RevokedIsSilent == Spec => []AtMostOneLateFrame
<1>1. RelayInv => AtMostOneLateFrame
  BY DEF RelayInv, SessionInv, AtMostOneLateFrame
<1>. QED
  BY <1>1, RelayInvariant, PTL

\* Both semaphores account for every connection.
THEOREM PermitsAreAccounted == Spec => []PermitsAccounted
<1>1. RelayInv => PermitsAccounted
  BY DEF RelayInv
<1>. QED
  BY <1>1, RelayInvariant, PTL

=============================================================================
