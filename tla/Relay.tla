------------------------------- MODULE Relay -------------------------------
(***************************************************************************)
(* The relay daemon of src/src/relay/src/main.rs: connections that         *)
(* authenticate against the allow set, the sessions they become, and the   *)
(* administrators that grant and revoke keys while they run.               *)
(*                                                                         *)
(* The allow mutex is held across blocking file operations, so it is a     *)
(* variable; the active mutex is only ever held inside one step.  Signature *)
(* verification, WebSocket framing and the network stack are external: a   *)
(* step that depends on them may go either way.  Every wait for the peer   *)
(* has a timeout, which is the failing alternative of its step.            *)
(***************************************************************************)
EXTENDS Integers, FiniteSets

CONSTANTS
  Keys,           \* relay public keys
  Conns,          \* connection tasks
  Admins,         \* administration tasks
  NoAdmin,        \* nobody holds the allow mutex
  MaxSessions,    \* State.sessions, 4 in main
  MaxHandshakes,  \* State.handshakes, 32 in main
  MaxCommands,    \* bound: allow and revoke commands ever given
  MaxCrashes      \* bound: crashes of the daemon or its host

ASSUME RelayAssumption ==
  /\ Keys # {} /\ IsFiniteSet(Conns) /\ NoAdmin \notin Admins
  /\ MaxSessions \in Nat /\ MaxHandshakes \in Nat
  /\ MaxCommands \in Nat /\ MaxCrashes \in Nat

VARIABLES
  allow,       \* State.allow
  lock,        \* the administrator inside the allow mutex, or NoAdmin
  file,        \* what the allow file's name leads to
  durable,     \* what the allow file holds after a power loss
  active,      \* State.active: the connections registered there
  sessions,    \* permits left in State.sessions
  handshakes,  \* permits left in State.handshakes
  conn,        \* the locals of each connection
  admin,       \* the locals of each administration task
  acked,       \* commands answered ok and not countermanded since
  commands, crashes

diskVars == <<file, durable>>
permitVars == <<sessions, handshakes>>
adminVars == <<allow, lock, diskVars, admin, acked, commands>>
vars == <<adminVars, active, permitVars, conn, crashes>>

NoConn(k) == [pc |-> "free", key |-> k, cancel |-> FALSE, late |-> 0,
              session |-> FALSE, pending |-> FALSE]
NoCommand(k) == [pc |-> "idle", cmd |-> "allow", key |-> k, next |-> {}]
AnyKey == CHOOSE k \in Keys : TRUE

Unlocked == lock = NoAdmin

-----------------------------------------------------------------------------
(* connection: up to the registration.                                     *)

\* The caller drops every local: the registration first, the permits after.
Leave(c) ==
  /\ active' = active \ {c}
  /\ conn' = [conn EXCEPT ![c].pc = "leaving"]
  /\ UNCHANGED <<adminVars, permitVars, crashes>>

Goto(c, pc) ==
  /\ conn' = [conn EXCEPT ![c].pc = pc]
  /\ UNCHANGED <<adminVars, active, permitVars, crashes>>

\* With no handshake permit left the stream is dropped.
Accept(c) ==
  /\ conn[c].pc = "free" /\ handshakes > 0
  /\ handshakes' = handshakes - 1
  /\ conn' = [conn EXCEPT ![c] = [NoConn(AnyKey) EXCEPT !.pc = "upgrade", !.pending = TRUE]]
  /\ UNCHANGED <<adminVars, active, sessions, crashes>>

\* Faulty: a client that never answers its challenge is waited for.
WithDeadlineForgotten == {"upgrade", "hello"}
WithDeadline == {"upgrade", "hello", "challenged"}

\* A capability request is answered, a request refused, a deadline missed, a
\* message or a signature not accepted.
HandshakeEnds(c) ==
  /\ conn[c].pc \in WithDeadline
  /\ Leave(c)

Upgraded(c) == conn[c].pc = "upgrade" /\ Goto(c, "hello")

\* Unknown keys are refused before any challenge.
Hello(c, k) ==
  /\ conn[c].pc = "hello" /\ Unlocked
  /\ k \in allow
  /\ conn' = [conn EXCEPT ![c].pc = "challenged", ![c].key = k]
  /\ UNCHANGED <<adminVars, active, permitVars, crashes>>

Authenticated(c) == conn[c].pc = "challenged" /\ Goto(c, "authenticated")

AcquireSession(c) ==
  /\ conn[c].pc = "authenticated"
  /\ \/ /\ sessions > 0
        /\ sessions' = sessions - 1
        /\ conn' = [conn EXCEPT ![c].pc = "permitted", ![c].session = TRUE]
        /\ UNCHANGED <<adminVars, active, handshakes, crashes>>
     \/ sessions = 0 /\ Leave(c)

\* Faulty: the key is not looked up again after the authentication.
StillAllowedAssumed(c) == TRUE
StillAllowed(c) == conn[c].key \in allow

\* The second look at the allow set and the insertion are one critical section.
Register(c) ==
  /\ conn[c].pc = "permitted" /\ Unlocked
  /\ \/ /\ StillAllowed(c)
        /\ active' = active \cup {c}
        /\ conn' = [conn EXCEPT ![c].pc = "registered"]
        /\ UNCHANGED <<adminVars, permitVars, crashes>>
     \/ ~StillAllowed(c) /\ Leave(c)

-----------------------------------------------------------------------------
(* connection: the session.                                                *)

NetworkStarted(c) ==
  /\ conn[c].pc = "registered"
  /\ \/ ~conn[c].cancel /\ Goto(c, "ready")
     \/ Leave(c)   \* initialization failed, or revoked by now

SendReady(c) ==
  /\ conn[c].pc = "ready"
  /\ \/ /\ conn' = [conn EXCEPT ![c].pc = "serving", ![c].pending = FALSE]
        /\ handshakes' = handshakes + 1
        /\ UNCHANGED <<adminVars, active, sessions, crashes>>
     \/ Leave(c)

\* Faulty: a session whose key was granted again goes on.
CancelledUnlessAllowed(c) ==
  conn[c].pc = "serving" /\ conn[c].cancel /\ conn[c].key \notin allow /\ Leave(c)
Cancelled(c) == conn[c].pc = "serving" /\ conn[c].cancel /\ Leave(c)

\* The peer, the heartbeat or the network stack ends the session.
Disconnected(c) == conn[c].pc = "serving" /\ Leave(c)

\* Faulty: select! polls its branches in any order.
FrameTurnUnbiased(c) == TRUE
\* select! is biased: a frame gets its turn only when nothing was cancelled.
FrameTurn(c) == ~conn[c].cancel

\* A frame of either direction.
FrameSelected(c) == conn[c].pc = "serving" /\ FrameTurn(c) /\ Goto(c, "frame")

FrameChecked(c) ==
  /\ conn[c].pc = "frame" /\ Unlocked
  /\ \/ conn[c].key \in allow /\ Goto(c, "forward")
     \/ conn[c].key \notin allow /\ Leave(c)

\* The check's lock is gone by now; late counts the frames of a revoked session.
FrameForwarded(c) ==
  /\ conn[c].pc = "forward"
  /\ conn' = [conn EXCEPT ![c].pc = "serving",
                          ![c].late = IF conn[c].cancel THEN @ + 1 ELSE @]
  /\ UNCHANGED <<adminVars, active, permitVars, crashes>>

\* The client did not take the frame in time.
FrameUnsent(c) == conn[c].pc = "forward" /\ Leave(c)

\* Faulty: only a session gives its handshake permit back.
PendingBackIfReady(c) == IF conn[c].session /\ conn[c].pending THEN 1 ELSE 0
PendingBack(c) == IF conn[c].pending THEN 1 ELSE 0

Released(c) ==
  /\ conn[c].pc = "leaving"
  /\ sessions' = sessions + (IF conn[c].session THEN 1 ELSE 0)
  /\ handshakes' = handshakes + PendingBack(c)
  /\ conn' = [conn EXCEPT ![c] = NoConn(AnyKey)]
  /\ UNCHANGED <<adminVars, active, crashes>>

-----------------------------------------------------------------------------
(* admin: allow and revoke, with save_allow in steps.                      *)

Opposite(cmd) == IF cmd = "allow" THEN "revoke" ELSE "allow"

Command(a, cmd, k) ==
  /\ admin[a].pc = "idle" /\ Unlocked
  /\ commands < MaxCommands
  /\ commands' = commands + 1
  /\ lock' = a
  /\ admin' = [admin EXCEPT ![a] =
                 [pc |-> "locked", cmd |-> cmd, key |-> k,
                  next |-> IF cmd = "allow" THEN allow \cup {k} ELSE allow \ {k}]]
  /\ acked' = acked \ {<<Opposite(cmd), k>>}
  /\ UNCHANGED <<allow, diskVars, active, permitVars, conn, crashes>>

AdminGoto(a, pc) == admin' = [admin EXCEPT ![a].pc = pc]

\* The temporary file is written, synced and renamed over the allow file.
SaveRename(a) ==
  /\ admin[a].pc = "locked"
  /\ file' = admin[a].next
  /\ AdminGoto(a, "renamed")
  /\ UNCHANGED <<allow, lock, durable, acked, commands, active, permitVars, conn, crashes>>

\* Faulty: the directory is not synced.
SyncNothing(a) == durable' = durable
SyncParent(a) == durable' = file

SaveSync(a) ==
  /\ admin[a].pc = "renamed"
  /\ SyncParent(a)
  /\ AdminGoto(a, "saved")
  /\ UNCHANGED <<allow, lock, file, acked, commands, active, permitVars, conn, crashes>>

\* Either half of save_allow failed: the set in memory is kept.
SaveFails(a) ==
  /\ admin[a].pc \in {"locked", "renamed"}
  /\ lock' = NoAdmin
  /\ AdminGoto(a, "idle")
  /\ UNCHANGED <<allow, diskVars, acked, commands, active, permitVars, conn, crashes>>

ReplaceAllow(a) ==
  /\ admin[a].pc = "saved"
  /\ allow' = admin[a].next
  /\ AdminGoto(a, "replaced")
  /\ UNCHANGED <<lock, diskVars, acked, commands, active, permitVars, conn, crashes>>

Told(a) == {c \in active : conn[c].key = admin[a].key}

\* Sessions of the revoked key are told; the mutex is released, success answered.
CancelSessions(a) ==
  /\ admin[a].pc = "replaced"
  /\ conn' = [c \in Conns |->
                IF admin[a].cmd = "revoke" /\ c \in Told(a)
                THEN [conn[c] EXCEPT !.cancel = TRUE] ELSE conn[c]]
  /\ lock' = NoAdmin
  /\ acked' = acked \cup {<<admin[a].cmd, admin[a].key>>}
  /\ AdminGoto(a, "idle")
  /\ UNCHANGED <<allow, diskVars, commands, active, permitVars, crashes>>

-----------------------------------------------------------------------------
(* main: start, and restart after a crash.                                 *)

Started(keys) ==
  /\ allow' = keys /\ file' = keys /\ durable' \in {keys, durable}
  /\ lock' = NoAdmin /\ active' = {}
  /\ sessions' = MaxSessions /\ handshakes' = MaxHandshakes
  /\ conn' = [c \in Conns |-> NoConn(AnyKey)]
  /\ admin' = [a \in Admins |-> NoCommand(AnyKey)]

\* Without the directory's sync a power loss may undo the rename; a restart of
\* the daemon alone leaves the rename as it is.
CrashAndRestart ==
  /\ crashes < MaxCrashes /\ crashes' = crashes + 1
  /\ \E keys \in {file, durable} : Started(keys)
  /\ UNCHANGED <<acked, commands>>

Init ==
  /\ allow = {} /\ file = {} /\ durable = {} /\ lock = NoAdmin /\ active = {}
  /\ sessions = MaxSessions /\ handshakes = MaxHandshakes
  /\ conn = [c \in Conns |-> NoConn(AnyKey)]
  /\ admin = [a \in Admins |-> NoCommand(AnyKey)]
  /\ acked = {} /\ commands = 0 /\ crashes = 0

\* Steps the daemon takes by itself once they are possible.
ConnStep(c) ==
  \/ HandshakeEnds(c) \/ AcquireSession(c) \/ Register(c)
  \/ NetworkStarted(c) \/ SendReady(c) \/ Cancelled(c)
  \/ FrameChecked(c) \/ FrameForwarded(c) \/ FrameUnsent(c) \/ Released(c)

\* Steps that wait for the client.
ClientStep(c) ==
  \/ Accept(c) \/ Upgraded(c) \/ (\E k \in Keys : Hello(c, k)) \/ Authenticated(c)
  \/ FrameSelected(c) \/ Disconnected(c)

AdminStep(a) ==
  SaveRename(a) \/ SaveSync(a) \/ SaveFails(a) \/ ReplaceAllow(a) \/ CancelSessions(a)

Next ==
  \/ \E c \in Conns : ConnStep(c) \/ ClientStep(c)
  \/ \E a \in Admins : AdminStep(a)
  \/ \E a \in Admins, cmd \in {"allow", "revoke"}, k \in Keys : Command(a, cmd, k)
  \/ CrashAndRestart

\* Spawned tasks are polled, and every wait for a peer has a deadline.
Fairness ==
  /\ \A c \in Conns : WF_vars(ConnStep(c))
  /\ \A a \in Admins : WF_vars(AdminStep(a))

Spec == Init /\ [][Next]_vars /\ Fairness

-----------------------------------------------------------------------------
(* Properties.                                                             *)

Phases == {"free", "upgrade", "hello", "challenged", "authenticated", "permitted",
           "registered", "ready", "serving", "frame", "forward", "leaving"}

\* Types of the daemon's state and of each task's locals.
TypeOK ==
  /\ allow \subseteq Keys /\ file \subseteq Keys /\ durable \subseteq Keys
  /\ lock \in Admins \cup {NoAdmin} /\ active \subseteq Conns
  /\ sessions \in Nat /\ handshakes \in Nat
  /\ conn \in [Conns -> [pc : Phases, key : Keys, cancel : BOOLEAN, late : Nat,
                         session : BOOLEAN, pending : BOOLEAN]]
  /\ admin \in [Admins -> [pc : {"idle", "locked", "renamed", "saved", "replaced"},
                           cmd : {"allow", "revoke"}, key : Keys, next : SUBSET Keys]]
  /\ acked \subseteq {"allow", "revoke"} \X Keys
  /\ commands \in Nat /\ crashes \in Nat

\* admin, connection: while nobody is inside a change of the allow set, every
\* registered session of a key that is not in it has been told to stop, however
\* the revocation and the registration interleaved.
RevokedCancelled ==
  Unlocked => \A c \in active : conn[c].key \notin allow => conn[c].cancel

\* save_allow, admin: a command answered ok holds in memory, in the file and
\* after a power loss, until the opposite command is given.
AckDurable ==
  \A k \in Keys :
    /\ <<"revoke", k>> \in acked => k \notin allow \cup file \cup durable
    /\ <<"allow", k>> \in acked => k \in allow \cap file \cap durable

\* select! in connection: once its key was revoked, even if it is granted again,
\* a session lets at most the one frame through that it had already checked.
AtMostOneLateFrame == \A c \in Conns : conn[c].late <= 1

SessionHolders == {c \in Conns : conn[c].session}
PendingHolders == {c \in Conns : conn[c].pending}

\* No path out of connection loses or doubles a permit of either semaphore.
PermitsAccounted ==
  /\ sessions = MaxSessions - Cardinality(SessionHolders)
  /\ handshakes = MaxHandshakes - Cardinality(PendingHolders)

\* Who is inside the mutex, and how far its change has come.
LockInv ==
  /\ \A a \in Admins : admin[a].pc # "idle" <=> lock = a
  /\ \A a \in Admins :
       LET w == admin[a] IN
       w.pc # "idle" =>
         /\ <<Opposite(w.cmd), w.key>> \notin acked
         /\ w.cmd = "allow" => w.key \in w.next
         /\ w.cmd = "revoke" => w.key \notin w.next
         /\ \A k \in Keys \ {w.key} : k \in w.next <=> k \in allow
         /\ w.pc \in {"renamed", "saved", "replaced"} => file = w.next
         /\ w.pc \in {"saved", "replaced"} => durable = w.next
         /\ w.pc = "replaced" => allow = w.next

\* A registered session of a key not allowed is told, or is about to be.
RevokedInv ==
  \A c \in active :
    conn[c].key \notin allow =>
      \/ conn[c].cancel
      \/ \E a \in Admins : admin[a].pc = "replaced" /\ admin[a].cmd = "revoke"
                         /\ admin[a].key = conn[c].key

\* The permits a connection holds in each phase.
PermitsOf(l) ==
  /\ l.session => l.pc \notin {"free", "upgrade", "hello", "challenged", "authenticated"}
  /\ l.pending => l.pc # "free"
  /\ l.pc \in {"upgrade", "hello", "challenged", "authenticated", "permitted", "registered",
              "ready"} => l.pending

\* Registered connections are sessions, and a frame in hand is the first late one.
SessionInv ==
  /\ \A c \in active : conn[c].pc \in {"registered", "ready", "serving", "frame", "forward"}
  /\ \A c \in Conns :
       /\ PermitsOf(conn[c]) /\ conn[c].late <= 1
       /\ conn[c].late # 0 => conn[c].cancel /\ conn[c].pc \notin {"frame", "forward"}

\* The inductive invariant.
RelayInv ==
  TypeOK /\ LockInv /\ RevokedInv /\ SessionInv /\ AckDurable /\ PermitsAccounted

\* A revoked session ends.
RevokedEnds == \A c \in Conns : conn[c].cancel ~> c \notin active

\* A connection that never becomes a session gives its handshake permit back.
HandshakesEnd == \A c \in Conns : conn[c].pending ~> ~conn[c].pending

=============================================================================
