---------------------------- MODULE RelayClient ----------------------------
(***************************************************************************)
(* The page's end of the relay: RelayNetworkAdapter of                     *)
(* src/src/browser/relay-network.js and discoverRelay of                   *)
(* src/src/disk/web/relay-discovery.js.                                    *)
(*                                                                         *)
(* A run of connect() is an attempt.  The generation counter of the code   *)
(* tells the latest attempt from the older ones; here cur names the latest *)
(* (None after destroy) and an attempt is used again once nothing of it is *)
(* left: no pending await, no socket and no signature on its way.  The     *)
(* relay and the network are arbitrary: they may send any message, refuse, *)
(* stay silent or close at any time.  Delays between retries are not       *)
(* modelled, a timer may fire at any moment after it was set.              *)
(***************************************************************************)
EXTENDS Naturals, FiniteSets

CONSTANTS
  Attempts,   \* bound: runs of connect() that have something left at one time
  Origins,    \* servers asked for a relay; the url of a relay is of its origin
  None,
  MaxRetries  \* bound: calls of retry() by the user

ASSUME ClientAssumption ==
  /\ Attempts # {} /\ None \notin Attempts /\ None \notin Origins
  /\ MaxRetries \in Nat

VARIABLES
  att,        \* what each attempt holds: its await, its socket and phase
  cur,        \* the attempt of this.generation
  socket,     \* this.socket
  url,        \* this.url
  ready,      \* this.ready
  closed,     \* this.closed
  status,     \* this.status, as told to onState
  retryTimer, \* whether retryTimer is set
  authTimer,  \* the attempt whose authTimer is set
  retries     \* calls of retry() so far

vars == <<att, cur, socket, url, ready, closed, status, retryTimer, authTimer, retries>>

Unused == [pc |-> "idle", rs |-> "none", phase |-> "hello", url |-> None,
           signing |-> None, auth |-> None, carried |-> FALSE]

\* discoverRelay asks all origins at once.  The first valid announcement wins;
\* None: all of them failed, the time was over, or the signal was aborted.
Discovered == Origins \cup {None}

Live(a) == att[a].rs \in {"connecting", "open"}
Current(a) == cur = a /\ ~closed
\* What is left of an attempt when its connect() returned without a socket.
Left(f, a) == [f EXCEPT ![a] = Unused]
\* socket.close(): the close event comes later.
Shut(f, s) ==
  IF s # None /\ f[s].rs \in {"connecting", "open"}
  THEN [f EXCEPT ![s].rs = "closing"] ELSE f

Init ==
  \E a \in Attempts :
    /\ att = [b \in Attempts |-> IF b = a THEN [Unused EXCEPT !.pc = "key"] ELSE Unused]
    /\ cur = a /\ socket = None /\ url = None
    /\ ready = FALSE /\ closed = FALSE /\ status = "connecting"
    /\ retryTimer = FALSE /\ authTimer = None /\ retries = 0

\* connect() up to its first await.
Connect ==
  \E a \in Attempts :
    /\ att[a].pc = "idle"
    /\ att' = [Shut(att, socket) EXCEPT ![a] = [Unused EXCEPT !.pc = "key"]]
    /\ cur' = a /\ ready' = FALSE /\ status' = "connecting"
    /\ retryTimer' = FALSE /\ authTimer' = None
    /\ UNCHANGED <<socket, url, closed>>

\* destroy(): f is what the caller made of the attempts, s the last status told.
Destroy(f, s) ==
  /\ closed' = TRUE /\ ready' = FALSE /\ cur' = None /\ status' = s
  /\ att' = Shut(f, socket)
  /\ retryTimer' = FALSE /\ authTimer' = None
  /\ UNCHANGED <<socket, url, retries>>

\* reconnect(generation) of attempt a.
Reconnect(a) ==
  /\ IF Current(a)
     THEN ready' = FALSE /\ status' = "offline" /\ retryTimer' = TRUE
     ELSE UNCHANGED <<ready, status, retryTimer>>

-----------------------------------------------------------------------------
(* The awaits of connect().                                                *)

KeyArrives(a) ==
  /\ att[a].pc = "key"
  /\ att' = IF Current(a) THEN [att EXCEPT ![a].pc = "url"] ELSE Left(att, a)
  /\ UNCHANGED <<cur, socket, url, ready, closed, status, retryTimer, authTimer, retries>>

\* A fault: the generation is not compared.
KeyFailsLate(a) ==
  /\ att[a].pc = "key"
  /\ Destroy(Left(att, a), "identity-closed")

\* relayPublicKey rejects: the identity is not unlocked.
KeyFails(a) ==
  /\ att[a].pc = "key"
  /\ IF cur = a THEN Destroy(Left(att, a), "identity-closed")
     ELSE /\ att' = Left(att, a)
          /\ UNCHANGED <<cur, socket, url, ready, closed, status, retryTimer, authTimer, retries>>

\* discoverRelay found None, or the WebSocket constructor throws.
UrlFails(a) ==
  /\ att[a].pc = "url"
  /\ att' = Left(att, a)
  /\ Reconnect(a)
  /\ UNCHANGED <<cur, socket, url, closed, authTimer, retries>>

\* A fault: the generation is not compared after the discovery.
UrlArrivesLate(a) ==
  /\ att[a].pc = "url"
  /\ \E u \in Discovered \ {None} :
       /\ att' = [att EXCEPT ![a] = [Unused EXCEPT !.pc = "socket", !.rs = "connecting", !.url = u]]
       /\ url' = u /\ socket' = a /\ authTimer' = a
  /\ UNCHANGED <<cur, ready, closed, status, retryTimer, retries>>

\* The url is known and the socket is made.
UrlArrives(a) ==
  /\ att[a].pc = "url"
  /\ \E u \in Discovered \ {None} :
       IF Current(a)
       THEN /\ att' = [att EXCEPT ![a] = [Unused EXCEPT !.pc = "socket", !.rs = "connecting", !.url = u]]
            /\ url' = u /\ socket' = a /\ authTimer' = a
       ELSE att' = Left(att, a) /\ UNCHANGED <<url, socket, authTimer>>
  /\ UNCHANGED <<cur, ready, closed, status, retryTimer, retries>>

-----------------------------------------------------------------------------
(* The handlers of the socket.                                             *)

Reject(a) ==
  /\ att' = Shut([att EXCEPT ![a].phase = "rejected"], a)
  /\ status' = "rejected"

\* A fault: the time of the handshake ends with the connection.
OpenedUntimed(a) ==
  /\ att[a].rs = "connecting"
  /\ att' = [att EXCEPT ![a].rs = "open"]
  /\ authTimer' = None
  /\ UNCHANGED <<cur, socket, url, ready, closed, status, retryTimer, retries>>

\* onopen: the hello is sent, unless the subprotocol is another one.
Opened(a) ==
  /\ att[a].rs = "connecting"
  /\ \/ /\ att' = [att EXCEPT ![a].rs = "open"]
        /\ UNCHANGED status
     \/ /\ Current(a)
        /\ Reject(a)
  /\ UNCHANGED <<cur, socket, url, ready, closed, retryTimer, authTimer, retries>>

\* A challenge for this url and origin that has not expired: it is signed.
Challenged(a) ==
  /\ att[a].rs = "open" /\ Current(a) /\ att[a].phase = "hello"
  /\ att' = [att EXCEPT ![a].phase = "signing", ![a].signing = url]
  /\ UNCHANGED <<cur, socket, url, ready, closed, status, retryTimer, authTimer, retries>>

\* A fault: the signature is sent on this.socket.
SignatureStrays(a) ==
  /\ att[a].signing # None /\ socket # None /\ ~closed
  /\ att' = [att EXCEPT ![a].signing = None, ![socket].auth = att[a].signing]
  /\ UNCHANGED <<cur, socket, url, ready, closed, status, retryTimer, authTimer, retries>>

SignatureArrives(a) ==
  /\ att[a].signing # None
  /\ LET signed == [att EXCEPT ![a].signing = None] IN
     att' = IF Current(a) /\ att[a].rs = "open"
            THEN [signed EXCEPT ![a].phase = "authenticated", ![a].auth = att[a].signing]
            ELSE IF att[a].rs = "closed" THEN Left(att, a) ELSE signed
  /\ UNCHANGED <<cur, socket, url, ready, closed, status, retryTimer, authTimer, retries>>

SignatureFails(a) ==
  /\ att[a].signing # None
  /\ LET failed == [att EXCEPT ![a].signing = None, ![a].phase = "rejected"] IN
     att' = IF att[a].rs = "closed" THEN Left(att, a)
            ELSE IF Current(a) THEN Shut(failed, a) ELSE failed
  /\ status' = IF Current(a) THEN "rejected" ELSE status
  /\ UNCHANGED <<cur, socket, url, ready, closed, retryTimer, authTimer, retries>>

ReadyArrives(a) ==
  /\ att[a].rs = "open" /\ Current(a) /\ att[a].phase = "authenticated"
  /\ att' = [att EXCEPT ![a].phase = "ready"]
  /\ ready' = TRUE /\ authTimer' = None /\ status' = "online"
  /\ UNCHANGED <<cur, socket, url, closed, retryTimer, retries>>

\* A frame of a legal length goes to the machine.
FrameArrives(a) ==
  /\ att[a].rs = "open" /\ Current(a) /\ ready
  /\ att' = [att EXCEPT ![a].carried = TRUE]
  /\ UNCHANGED <<cur, socket, url, ready, closed, status, retryTimer, authTimer, retries>>

\* Any other message: out of phase, malformed, for another url or expired.
BadMessage(a) ==
  /\ att[a].rs = "open" /\ Current(a)
  /\ Reject(a)
  /\ UNCHANGED <<cur, socket, url, ready, closed, retryTimer, authTimer, retries>>

\* onclose, with the code 1008 or another one.
Closed(a) ==
  /\ att[a].rs \in {"connecting", "open", "closing"}
  /\ att' = IF att[a].signing = None THEN Left(att, a) ELSE [att EXCEPT ![a].rs = "closed"]
  /\ IF ~Current(a) THEN UNCHANGED <<ready, status, retryTimer, authTimer>>
     ELSE /\ authTimer' = None
          /\ \/ ready' = FALSE /\ status' = "rejected" /\ UNCHANGED retryTimer
             \/ att[a].phase # "rejected" /\ Reconnect(a)
  /\ UNCHANGED <<cur, socket, url, closed, retries>>

AuthTimeout(a) ==
  /\ authTimer = a
  /\ authTimer' = None
  /\ att' = IF Current(a) /\ ~ready THEN Shut(att, a) ELSE att
  /\ UNCHANGED <<cur, socket, url, ready, closed, status, retryTimer, retries>>

-----------------------------------------------------------------------------
(* The machine and the page.                                               *)

\* The machine sends a frame that is not too long to a socket with room.
Send ==
  /\ ready /\ socket # None /\ att[socket].rs = "open"
  /\ att' = [att EXCEPT ![socket].carried = TRUE]
  /\ UNCHANGED <<cur, socket, url, ready, closed, status, retryTimer, authTimer, retries>>

RetryTimer ==
  /\ retryTimer
  /\ Connect
  /\ UNCHANGED retries

Retry ==
  /\ ~closed /\ retries < MaxRetries
  /\ retries' = retries + 1
  /\ Connect

\* The signer closed: onClosed was registered until destroy.
SignerClosed == ~closed /\ Destroy(att, "identity-closed")

PageDestroys == ~closed /\ Destroy(att, "closed")

Next ==
  \/ \E a \in Attempts :
       \/ KeyArrives(a) \/ KeyFails(a) \/ UrlFails(a) \/ UrlArrives(a)
       \/ Opened(a) \/ Challenged(a) \/ SignatureArrives(a) \/ SignatureFails(a)
       \/ ReadyArrives(a) \/ FrameArrives(a) \/ BadMessage(a) \/ Closed(a) \/ AuthTimeout(a)
  \/ Send \/ RetryTimer \/ Retry \/ SignerClosed \/ PageDestroys

\* Calls to the Worker and discovery end, timers fire, a closing socket closes.
Fairness ==
  /\ WF_vars(RetryTimer)
  /\ \A a \in Attempts :
       /\ WF_vars(KeyArrives(a) \/ KeyFails(a))
       /\ WF_vars(UrlArrives(a) \/ UrlFails(a))
       /\ WF_vars(SignatureArrives(a) \/ SignatureFails(a))
       /\ WF_vars(AuthTimeout(a))
       /\ WF_vars(att[a].rs = "closing" /\ Closed(a))

Spec == Init /\ [][Next]_vars /\ Fairness

-----------------------------------------------------------------------------
(* Properties.                                                             *)

\* A socket that is open or opening is the one of the latest attempt, the
\* adapter holds it and is not destroyed, and no retry is on its way that would
\* close it: connect() checks its generation after each await.
OneConnection ==
  \A a \in Attempts :
    Live(a) => a = cur /\ a = socket /\ ~closed /\ ~retryTimer

\* A signature goes only to the relay it was made for, on the socket that
\* brought the challenge, however often the adapter reconnected meanwhile; and no
\* Ethernet frame passes on a socket before its own handshake, although ready
\* belongs to the adapter and not to the socket.
SignatureStaysHome ==
  \A a \in Attempts :
    /\ att[a].auth # None => att[a].auth = att[a].url
    /\ att[a].carried => att[a].auth # None

\* After destroy() nothing is told to the page and nothing is sent any more,
\* whatever awaits, timers and events were still pending.
DestroyIsFinal ==
  [][closed => /\ UNCHANGED <<status, socket>> /\ ~ready'
               /\ \A a \in Attempts : att'[a].auth \in {att[a].auth, None}]_vars

\* The adapter does not get stuck: an attempt ends, by its timer if the relay is
\* silent, and after a disconnection another one begins.
KeepsTrying ==
  /\ status = "connecting" ~> status # "connecting"
  /\ status = "offline" ~> status # "offline"

=============================================================================
