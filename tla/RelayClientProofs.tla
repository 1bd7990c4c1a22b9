------------------------- MODULE RelayClientProofs -------------------------
(***************************************************************************)
(* The safety of the page's end of the relay for any number of attempts,   *)
(* origins and retries, from one inductive invariant.                      *)
(***************************************************************************)
EXTENDS RelayClient, TLAPS

AttemptType ==
  [pc : {"idle", "key", "url", "socket"},
   rs : {"none", "connecting", "open", "closing", "closed"},
   phase : {"hello", "signing", "authenticated", "ready", "rejected"},
   url : Origins \cup {None}, signing : Origins \cup {None}, auth : Origins \cup {None},
   carried : BOOLEAN]

TypeOK ==
  /\ att \in [Attempts -> AttemptType]
  /\ cur \in Attempts \cup {None} /\ socket \in Attempts \cup {None}
  /\ authTimer \in Attempts \cup {None} /\ url \in Origins \cup {None}
  /\ ready \in BOOLEAN /\ closed \in BOOLEAN /\ retryTimer \in BOOLEAN
  /\ status \in {"connecting", "offline", "rejected", "online", "closed", "identity-closed"}
  /\ retries \in Nat

\* An attempt r alone: before its socket it holds nothing, and what it signs and
\* sends is for the url its socket was made with.
Holds(r) ==
  /\ r.pc = "socket" <=> r.rs # "none"
  /\ r.pc # "socket" => r.signing = None /\ r.auth = None /\ ~r.carried
  /\ r.signing # None => r.signing = r.url
  /\ r.auth # None => r.auth = r.url
  /\ r.carried => r.auth # None
  /\ r.phase \in {"authenticated", "ready"} => r.auth # None

AttemptInv == \A a \in Attempts : Holds(att[a])

\* A socket that may still be used is the adapter's, and this.url is its url.
LiveInv ==
  \A a \in Attempts :
    Live(a) => a = cur /\ a = socket /\ ~closed /\ ~retryTimer /\ url = att[a].url /\ url # None

\* ready outlives the socket that earned it only until its close event, and no
\* other attempt begins to listen meanwhile.
ReadyInv ==
  ready => cur # None /\ ~closed /\ att[cur].auth # None /\ att[cur].rs # "closed"

\* A retry waits only when the latest attempt has ended.
RetryInv ==
  retryTimer => cur # None /\ ~closed /\ (att[cur].pc = "idle" \/ att[cur].rs = "closed")

ClosedInv == closed => cur = None /\ authTimer = None

ClientInv == TypeOK /\ AttemptInv /\ LiveInv /\ ReadyInv /\ RetryInv /\ ClosedInv

USE ClientAssumption
USE DEF ClientInv, TypeOK, AttemptType, AttemptInv, Holds, LiveInv, ReadyInv, RetryInv, ClosedInv,
        Live, Current, Left, Shut, Unused, vars

\* What an attempt is at its two beginnings.
LEMMA Beginnings ==
  /\ Unused \in AttemptType /\ Holds(Unused)
  /\ [Unused EXCEPT !.pc = "key"] \in AttemptType /\ Holds([Unused EXCEPT !.pc = "key"])
OBVIOUS

\* Closing a socket changes at most the state of that socket.
LEMMA ShutType ==
  ASSUME NEW f \in [Attempts -> AttemptType], NEW s \in Attempts \cup {None}
  PROVE  Shut(f, s) \in [Attempts -> AttemptType]
<1>1. CASE s # None /\ f[s].rs \in {"connecting", "open"}
  <2>1. s \in Attempts /\ [f[s] EXCEPT !.rs = "closing"] \in AttemptType
    BY <1>1
  <2>. QED
    BY <1>1, <2>1
<1>2. CASE ~(s # None /\ f[s].rs \in {"connecting", "open"})
  BY <1>2
<1>. QED
  BY <1>1, <1>2

\* An attempt that is not the latest one any more ends at its first await.
LEMMA KeyArrivesKeeps ==
  ASSUME ClientInv, NEW a \in Attempts, KeyArrives(a)
  PROVE  ClientInv'
<1> USE DEF KeyArrives
<1>1. att' \in [Attempts -> AttemptType]
  OBVIOUS
<1>2. TypeOK'
  BY <1>1
<1>3. AttemptInv'
  BY <1>1
<1>4. LiveInv'
  BY <1>1
<1>5. ReadyInv'
  BY <1>1
<1>6. RetryInv'
  BY <1>1
<1>7. ClosedInv'
  BY <1>1
<1>. QED
  BY <1>1, <1>2, <1>3, <1>4, <1>5, <1>6, <1>7

\* A lost identity destroys the adapter only from the latest attempt.
LEMMA KeyFailsKeeps ==
  ASSUME ClientInv, NEW a \in Attempts, KeyFails(a)
  PROVE  ClientInv'
<1> USE DEF KeyFails, Destroy
<1>1. att' \in [Attempts -> AttemptType]
  <2>1. Left(att, a) \in [Attempts -> AttemptType]
    <3> HIDE DEF AttemptType, Unused
    <3>. QED
      BY Beginnings
  <2>2. att' = Left(att, a) \/ att' = Shut(Left(att, a), socket)
    OBVIOUS
  <2> HIDE DEF AttemptType, Unused, Left, Shut, KeyFails
  <2>. QED
    BY <2>1, <2>2, ShutType
<1>2. TypeOK'
  BY <1>1
<1>3. AttemptInv'
  BY <1>1
<1>4. LiveInv'
  BY <1>1
<1>5. ReadyInv'
  <2>1. CASE cur = a
    BY <2>1
  <2>2. CASE cur # a
    <3>1. UNCHANGED <<cur, ready, closed, retryTimer>> /\ (cur # None => att'[cur] = att[cur])
      BY <2>2
    <3> HIDE DEF KeyFails, AttemptType
    <3>. QED
      BY <3>1
  <2>. QED
    BY <2>1, <2>2
<1>6. RetryInv'
  <2>1. CASE cur = a
    BY <2>1
  <2>2. CASE cur # a
    <3>1. UNCHANGED <<cur, ready, closed, retryTimer>> /\ (cur # None => att'[cur] = att[cur])
      BY <2>2
    <3> HIDE DEF KeyFails, AttemptType
    <3>. QED
      BY <3>1
  <2>. QED
    BY <2>1, <2>2
<1>7. ClosedInv'
  BY <1>1
<1>. QED
  BY <1>1, <1>2, <1>3, <1>4, <1>5, <1>6, <1>7

\* An attempt without a relay leaves nothing, and lets the latest one retry.
LEMMA UrlFailsKeeps ==
  ASSUME ClientInv, NEW a \in Attempts, UrlFails(a)
  PROVE  ClientInv'
<1> USE DEF UrlFails, Reconnect
<1>1. att' \in [Attempts -> AttemptType]
  OBVIOUS
<1>2. TypeOK'
  BY <1>1
<1>3. AttemptInv'
  BY <1>1
<1>4. LiveInv'
  BY <1>1
<1>5. ReadyInv'
  BY <1>1
<1>6. RetryInv'
  <2>1. CASE Current(a)
    <3>1. cur' = a /\ ~closed' /\ att'[a] = Unused
      BY <2>1
    <3> HIDE DEF UrlFails, AttemptType
    <3>. QED
      BY <3>1
  <2>2. CASE ~Current(a)
    <3>1. UNCHANGED <<cur, closed, retryTimer>> /\ (cur # None /\ cur # a => att'[cur] = att[cur])
      BY <2>2
    <3> HIDE DEF UrlFails, AttemptType
    <3>. QED
      BY <2>2, <3>1
  <2>. QED
    BY <2>1, <2>2
<1>7. ClosedInv'
  BY <1>1
<1>. QED
  BY <1>1, <1>2, <1>3, <1>4, <1>5, <1>6, <1>7

\* Only the latest attempt makes a socket, and none is in use then.
LEMMA UrlArrivesKeeps ==
  ASSUME ClientInv, NEW a \in Attempts, UrlArrives(a)
  PROVE  ClientInv'
<1> USE DEF UrlArrives, Discovered
<1>1. att' \in [Attempts -> AttemptType]
  <2>1. PICK u \in Discovered \ {None} :
          IF Current(a)
          THEN /\ att' = [att EXCEPT ![a] = [Unused EXCEPT !.pc = "socket", !.rs = "connecting", !.url = u]]
               /\ url' = u /\ socket' = a /\ authTimer' = a
          ELSE att' = Left(att, a) /\ UNCHANGED <<url, socket, authTimer>>
    OBVIOUS
  <2>2. u \in Origins /\ [Unused EXCEPT !.pc = "socket", !.rs = "connecting", !.url = u] \in AttemptType
    OBVIOUS
  <2> HIDE DEF AttemptType, Unused
  <2>. QED
    BY <2>1, <2>2, Beginnings
<1>2. TypeOK'
  BY <1>1
<1>3. AttemptInv'
  <2>1. PICK u \in Discovered \ {None} :
          IF Current(a)
          THEN /\ att' = [att EXCEPT ![a] = [Unused EXCEPT !.pc = "socket", !.rs = "connecting", !.url = u]]
               /\ url' = u /\ socket' = a /\ authTimer' = a
          ELSE att' = Left(att, a) /\ UNCHANGED <<url, socket, authTimer>>
    OBVIOUS
  <2>2. u # None /\ Holds([Unused EXCEPT !.pc = "socket", !.rs = "connecting", !.url = u])
    OBVIOUS
  <2>3. /\ \A b \in Attempts \ {a} : att'[b] = att[b]
        /\ att'[a] \in {Unused, [Unused EXCEPT !.pc = "socket", !.rs = "connecting", !.url = u]}
    BY <2>1
  <2> HIDE DEF AttemptType, Unused, UrlArrives, Holds
  <2>. QED
    BY <2>2, <2>3, Beginnings
<1>4. LiveInv'
  <2>1. PICK u \in Discovered \ {None} :
          IF Current(a)
          THEN /\ att' = [att EXCEPT ![a] = [Unused EXCEPT !.pc = "socket", !.rs = "connecting", !.url = u]]
               /\ url' = u /\ socket' = a /\ authTimer' = a
          ELSE att' = Left(att, a) /\ UNCHANGED <<url, socket, authTimer>>
    OBVIOUS
  <2>2. \A b \in Attempts \ {a} : att'[b] = att[b]
    BY <2>1
  <2>3. CASE Current(a)
    <3>1. \A b \in Attempts : ~Live(b)
      BY <2>3
    <3>2. ~retryTimer
      BY <2>3
    <3>3. /\ att'[a].url = u /\ url' = u /\ u # None /\ socket' = a
          /\ UNCHANGED <<cur, closed, retryTimer>>
      <4>1. /\ att' = [att EXCEPT ![a] = [Unused EXCEPT !.pc = "socket", !.rs = "connecting", !.url = u]]
            /\ url' = u /\ socket' = a /\ u # None /\ UNCHANGED <<cur, closed, retryTimer>>
        BY <2>1, <2>3
      <4>2. att \in [Attempts -> AttemptType]
        OBVIOUS
      <4> HIDE DEF UrlArrives, ClientInv, AttemptType
      <4>. QED
        BY <4>1, <4>2
    <3> HIDE DEF UrlArrives, AttemptType
    <3>. QED
      BY <2>2, <2>3, <3>1, <3>2, <3>3
  <2>4. CASE ~Current(a)
    <3>1. att'[a] = Unused /\ UNCHANGED <<url, socket, cur, closed, retryTimer>>
      BY <2>1, <2>4
    <3> HIDE DEF UrlArrives, AttemptType
    <3>. QED
      BY <2>2, <3>1
  <2>. QED
    BY <2>3, <2>4
<1>5. ReadyInv'
  BY <1>1
<1>6. RetryInv'
  BY <1>1
<1>7. ClosedInv'
  BY <1>1
<1>. QED
  BY <1>1, <1>2, <1>3, <1>4, <1>5, <1>6, <1>7

\* Opening keeps the socket or closes it.
LEMMA OpenedKeeps ==
  ASSUME ClientInv, NEW a \in Attempts, Opened(a)
  PROVE  ClientInv'
<1> USE DEF Opened, Reject
<1>1. att' \in [Attempts -> AttemptType]
  OBVIOUS
<1>2. TypeOK'
  BY <1>1
<1>3. AttemptInv'
  BY <1>1
<1>4. LiveInv'
  BY <1>1
<1>5. ReadyInv'
  BY <1>1
<1>6. RetryInv'
  BY <1>1
<1>7. ClosedInv'
  BY <1>1
<1>. QED
  BY <1>1, <1>2, <1>3, <1>4, <1>5, <1>6, <1>7

\* What is signed is the url of the socket that was challenged.
LEMMA ChallengedKeeps ==
  ASSUME ClientInv, NEW a \in Attempts, Challenged(a)
  PROVE  ClientInv'
<1> USE DEF Challenged
<1>1. att' \in [Attempts -> AttemptType]
  <2>1. [att[a] EXCEPT !.phase = "signing", !.signing = url] \in AttemptType
    <3>1. att[a] \in AttemptType /\ url \in Origins \cup {None}
      OBVIOUS
    <3> HIDE DEF ClientInv
    <3>. QED
      BY <3>1
  <2>2. att' = [att EXCEPT ![a] = [att[a] EXCEPT !.phase = "signing", !.signing = url]]
    OBVIOUS
  <2> HIDE DEF AttemptType, Challenged
  <2>. QED
    BY <2>1, <2>2
<1>2. TypeOK'
  BY <1>1
<1>3. AttemptInv'
  BY <1>1
<1>4. LiveInv'
  BY <1>1
<1>5. ReadyInv'
  BY <1>1
<1>6. RetryInv'
  BY <1>1
<1>7. ClosedInv'
  BY <1>1
<1>. QED
  BY <1>1, <1>2, <1>3, <1>4, <1>5, <1>6, <1>7

\* A signature is sent on the socket of its own attempt, or not at all.
LEMMA SignatureArrivesKeeps ==
  ASSUME ClientInv, NEW a \in Attempts, SignatureArrives(a)
  PROVE  ClientInv'
<1> USE DEF SignatureArrives
<1>1. att' \in [Attempts -> AttemptType]
  <2>0. att[a] \in AttemptType /\ att[a].signing \in Origins \cup {None}
    OBVIOUS
  <2>1. [att[a] EXCEPT !.signing = None] \in AttemptType
    BY <2>0
  <2>2. [att[a] EXCEPT !.signing = None, !.phase = "authenticated", !.auth = att[a].signing]
          \in AttemptType
    <3> DEFINE s == att[a].signing
               r == [att[a] EXCEPT !.signing = None]
    <3>1. s \in Origins \cup {None} /\ r \in AttemptType
      BY <2>0, <2>1
    <3>2. [att[a] EXCEPT !.signing = None, !.phase = "authenticated", !.auth = s]
            = [r EXCEPT !.phase = "authenticated", !.auth = s]
      BY <2>0
    <3> HIDE DEF s, r
    <3>3. [r EXCEPT !.phase = "authenticated", !.auth = s] \in AttemptType
      BY <3>1
    <3>. QED
      BY <3>2, <3>3 DEF s
  <2>3. \E r \in {Unused, [att[a] EXCEPT !.signing = None],
                  [att[a] EXCEPT !.signing = None, !.phase = "authenticated", !.auth = att[a].signing]} :
           att' = [att EXCEPT ![a] = r]
    OBVIOUS
  <2> HIDE DEF AttemptType, Unused, SignatureArrives
  <2>. QED
    BY <2>1, <2>2, <2>3, Beginnings
<1>2. TypeOK'
  BY <1>1
<1>3. AttemptInv'
  BY <1>1
<1>4. LiveInv'
  BY <1>1
<1>5. ReadyInv'
  BY <1>1
<1>6. RetryInv'
  BY <1>1
<1>7. ClosedInv'
  BY <1>1
<1>. QED
  BY <1>1, <1>2, <1>3, <1>4, <1>5, <1>6, <1>7

\* A failed signature closes the socket of the latest attempt.
LEMMA SignatureFailsKeeps ==
  ASSUME ClientInv, NEW a \in Attempts, SignatureFails(a)
  PROVE  ClientInv'
<1> USE DEF SignatureFails
<1>1. att' \in [Attempts -> AttemptType]
  OBVIOUS
<1>2. TypeOK'
  BY <1>1
<1>3. AttemptInv'
  BY <1>1
<1>4. LiveInv'
  BY <1>1
<1>5. ReadyInv'
  BY <1>1
<1>6. RetryInv'
  BY <1>1
<1>7. ClosedInv'
  BY <1>1
<1>. QED
  BY <1>1, <1>2, <1>3, <1>4, <1>5, <1>6, <1>7

\* The adapter is ready after the handshake of its own socket.
LEMMA ReadyArrivesKeeps ==
  ASSUME ClientInv, NEW a \in Attempts, ReadyArrives(a)
  PROVE  ClientInv'
<1> USE DEF ReadyArrives
<1>1. att' \in [Attempts -> AttemptType]
  OBVIOUS
<1>2. TypeOK'
  BY <1>1
<1>3. AttemptInv'
  BY <1>1
<1>4. LiveInv'
  BY <1>1
<1>5. ReadyInv'
  BY <1>1
<1>6. RetryInv'
  BY <1>1
<1>7. ClosedInv'
  BY <1>1
<1>. QED
  BY <1>1, <1>2, <1>3, <1>4, <1>5, <1>6, <1>7

\* A frame is taken on the socket whose handshake made the adapter ready.
LEMMA FrameArrivesKeeps ==
  ASSUME ClientInv, NEW a \in Attempts, FrameArrives(a)
  PROVE  ClientInv'
<1> USE DEF FrameArrives
<1>1. att' \in [Attempts -> AttemptType]
  <2>1. [att[a] EXCEPT !.carried = TRUE] \in AttemptType
    <3>1. att[a] \in AttemptType
      OBVIOUS
    <3> HIDE DEF ClientInv
    <3>. QED
      BY <3>1
  <2>2. att' = [att EXCEPT ![a] = [att[a] EXCEPT !.carried = TRUE]]
    OBVIOUS
  <2> HIDE DEF AttemptType, FrameArrives
  <2>. QED
    BY <2>1, <2>2
<1>2. TypeOK'
  BY <1>1
<1>3. AttemptInv'
  BY <1>1
<1>4. LiveInv'
  BY <1>1
<1>5. ReadyInv'
  BY <1>1
<1>6. RetryInv'
  BY <1>1
<1>7. ClosedInv'
  BY <1>1
<1>. QED
  BY <1>1, <1>2, <1>3, <1>4, <1>5, <1>6, <1>7

\* A message that is not expected closes the socket.
LEMMA BadMessageKeeps ==
  ASSUME ClientInv, NEW a \in Attempts, BadMessage(a)
  PROVE  ClientInv'
<1> USE DEF BadMessage, Reject
<1>1. att' \in [Attempts -> AttemptType]
  OBVIOUS
<1>2. TypeOK'
  BY <1>1
<1>3. AttemptInv'
  BY <1>1
<1>4. LiveInv'
  BY <1>1
<1>5. ReadyInv'
  BY <1>1
<1>6. RetryInv'
  BY <1>1
<1>7. ClosedInv'
  BY <1>1
<1>. QED
  BY <1>1, <1>2, <1>3, <1>4, <1>5, <1>6, <1>7

\* The close event takes back what the socket had earned.
LEMMA ClosedKeeps ==
  ASSUME ClientInv, NEW a \in Attempts, Closed(a)
  PROVE  ClientInv'
<1> USE DEF Closed, Reconnect
<1>1. att' \in [Attempts -> AttemptType]
  OBVIOUS
<1>2. TypeOK'
  BY <1>1
<1>3. AttemptInv'
  BY <1>1
<1>4. LiveInv'
  BY <1>1
<1>5. ReadyInv'
  BY <1>1
<1>6. RetryInv'
  <2>1. att'[a] = Unused \/ att'[a].rs = "closed"
    OBVIOUS
  <2>2. UNCHANGED <<cur, closed>> /\ \A b \in Attempts \ {a} : att'[b] = att[b]
    OBVIOUS
  <2>3. ~Current(a) => retryTimer' = retryTimer
    OBVIOUS
  <2> HIDE DEF Closed, AttemptType
  <2>4. CASE Current(a)
    BY <2>1, <2>2, <2>4
  <2>5. CASE ~Current(a)
    BY <2>2, <2>3, <2>5
  <2>. QED
    BY <2>4, <2>5
<1>7. ClosedInv'
  BY <1>1
<1>. QED
  BY <1>1, <1>2, <1>3, <1>4, <1>5, <1>6, <1>7

\* The timer of the handshake closes at most its own socket.
LEMMA AuthTimeoutKeeps ==
  ASSUME ClientInv, NEW a \in Attempts, AuthTimeout(a)
  PROVE  ClientInv'
<1> USE DEF AuthTimeout
<1>1. att' \in [Attempts -> AttemptType]
  OBVIOUS
<1>2. TypeOK'
  BY <1>1
<1>3. AttemptInv'
  BY <1>1
<1>4. LiveInv'
  BY <1>1
<1>5. ReadyInv'
  BY <1>1
<1>6. RetryInv'
  BY <1>1
<1>7. ClosedInv'
  BY <1>1
<1>. QED
  BY <1>1, <1>2, <1>3, <1>4, <1>5, <1>6, <1>7

\* A frame is sent on the socket whose handshake made the adapter ready.
LEMMA SendKeeps ==
  ASSUME ClientInv, Send
  PROVE  ClientInv'
<1> USE DEF Send
<1>1. att' \in [Attempts -> AttemptType]
  <2>0. socket \in Attempts
    OBVIOUS
  <2>1. [att[socket] EXCEPT !.carried = TRUE] \in AttemptType
    <3>1. att[socket] \in AttemptType
      OBVIOUS
    <3> HIDE DEF ClientInv
    <3>. QED
      BY <3>1
  <2>2. att' = [att EXCEPT ![socket] = [att[socket] EXCEPT !.carried = TRUE]]
    OBVIOUS
  <2> HIDE DEF AttemptType, Send
  <2>. QED
    BY <2>0, <2>1, <2>2
<1>2. TypeOK'
  BY <1>1
<1>3. AttemptInv'
  BY <1>1
<1>4. LiveInv'
  BY <1>1
<1>5. ReadyInv'
  BY <1>1
<1>6. RetryInv'
  BY <1>1
<1>7. ClosedInv'
  BY <1>1
<1>. QED
  BY <1>1, <1>2, <1>3, <1>4, <1>5, <1>6, <1>7

\* A retry closes the socket in use before it begins.
LEMMA RetryTimerKeeps ==
  ASSUME ClientInv, RetryTimer
  PROVE  ClientInv'
<1> USE DEF RetryTimer, Connect
<1>1. att' \in [Attempts -> AttemptType]
  <2>1. PICK a \in Attempts : att' = [Shut(att, socket) EXCEPT ![a] = [Unused EXCEPT !.pc = "key"]]
    OBVIOUS
  <2>2. Shut(att, socket) \in [Attempts -> AttemptType]
    BY ShutType
  <2> HIDE DEF AttemptType, Unused, Shut, RetryTimer
  <2>. QED
    BY <2>1, <2>2, Beginnings
<1>2. TypeOK'
  BY <1>1
<1>3. AttemptInv'
  BY <1>1
<1>4. LiveInv'
  BY <1>1
<1>5. ReadyInv'
  BY <1>1
<1>6. RetryInv'
  BY <1>1
<1>7. ClosedInv'
  BY <1>1
<1>. QED
  BY <1>1, <1>2, <1>3, <1>4, <1>5, <1>6, <1>7

\* So does a retry of the user.
LEMMA RetryKeeps ==
  ASSUME ClientInv, Retry
  PROVE  ClientInv'
<1> USE DEF Retry, Connect
<1>1. att' \in [Attempts -> AttemptType]
  <2>1. PICK a \in Attempts : att' = [Shut(att, socket) EXCEPT ![a] = [Unused EXCEPT !.pc = "key"]]
    OBVIOUS
  <2>2. Shut(att, socket) \in [Attempts -> AttemptType]
    BY ShutType
  <2> HIDE DEF AttemptType, Unused, Shut, Retry
  <2>. QED
    BY <2>1, <2>2, Beginnings
<1>2. TypeOK'
  <2>1. /\ cur' \in Attempts
        /\ ready' = FALSE /\ status' = "connecting" /\ retryTimer' = FALSE /\ authTimer' = None
        /\ UNCHANGED <<socket, url, closed>>
    OBVIOUS
  <2>2. retries' \in Nat
    <3>1. retries \in Nat /\ retries' = retries + 1
      OBVIOUS
    <3> HIDE DEF Retry, ClientInv
    <3>. QED
      BY <3>1
  <2> HIDE DEF Retry, AttemptType
  <2>. QED
    BY <1>1, <2>1, <2>2
<1>3. AttemptInv'
  BY <1>1
<1>4. LiveInv'
  BY <1>1
<1>5. ReadyInv'
  BY <1>1
<1>6. RetryInv'
  BY <1>1
<1>7. ClosedInv'
  BY <1>1
<1>. QED
  BY <1>1, <1>2, <1>3, <1>4, <1>5, <1>6, <1>7

\* The adapter is destroyed when its signer closes.
LEMMA SignerClosedKeeps ==
  ASSUME ClientInv, SignerClosed
  PROVE  ClientInv'
<1> USE DEF SignerClosed, Destroy
<1>1. att' \in [Attempts -> AttemptType]
  OBVIOUS
<1>2. TypeOK'
  BY <1>1
<1>3. AttemptInv'
  BY <1>1
<1>4. LiveInv'
  BY <1>1
<1>5. ReadyInv'
  BY <1>1
<1>6. RetryInv'
  BY <1>1
<1>7. ClosedInv'
  BY <1>1
<1>. QED
  BY <1>1, <1>2, <1>3, <1>4, <1>5, <1>6, <1>7

\* The page destroys the adapter.
LEMMA PageDestroysKeeps ==
  ASSUME ClientInv, PageDestroys
  PROVE  ClientInv'
<1> USE DEF PageDestroys, Destroy
<1>1. att' \in [Attempts -> AttemptType]
  OBVIOUS
<1>2. TypeOK'
  BY <1>1
<1>3. AttemptInv'
  BY <1>1
<1>4. LiveInv'
  BY <1>1
<1>5. ReadyInv'
  BY <1>1
<1>6. RetryInv'
  BY <1>1
<1>7. ClosedInv'
  BY <1>1
<1>. QED
  BY <1>1, <1>2, <1>3, <1>4, <1>5, <1>6, <1>7

\* One attempt, waiting for the identity.
LEMMA InitKeeps == Init => ClientInv
<1> SUFFICES ASSUME Init
             PROVE  ClientInv
  OBVIOUS
<1>1. PICK a \in Attempts :
        /\ att = [b \in Attempts |-> IF b = a THEN [Unused EXCEPT !.pc = "key"] ELSE Unused]
        /\ cur = a /\ socket = None /\ url = None
        /\ ready = FALSE /\ closed = FALSE /\ status = "connecting"
        /\ retryTimer = FALSE /\ authTimer = None /\ retries = 0
  BY DEF Init
<1>2. \A b \in Attempts : att[b] \in {Unused, [Unused EXCEPT !.pc = "key"]}
  BY <1>1
<1>3. TypeOK /\ AttemptInv
  <2>1. att \in [Attempts -> AttemptType] /\ AttemptInv
    <3> HIDE DEF AttemptType, Unused, Holds
    <3>. QED
      BY <1>1, <1>2, Beginnings
  <2>. QED
    BY <1>1, <2>1
<1>4. \A b \in Attempts : ~Live(b)
  BY <1>2
<1>. QED
  BY <1>1, <1>3, <1>4

\* The invariant survives every step.
LEMMA NextKeeps == ClientInv /\ [Next]_vars => ClientInv'
<1> SUFFICES ASSUME ClientInv, [Next]_vars
             PROVE  ClientInv'
  OBVIOUS
<1>1. CASE UNCHANGED vars
  BY <1>1
<1> HIDE DEF ClientInv
<1>2. ASSUME NEW a \in Attempts, KeyArrives(a)
      PROVE  ClientInv'
  BY <1>2, KeyArrivesKeeps
<1>3. ASSUME NEW a \in Attempts, KeyFails(a)
      PROVE  ClientInv'
  BY <1>3, KeyFailsKeeps
<1>4. ASSUME NEW a \in Attempts, UrlFails(a)
      PROVE  ClientInv'
  BY <1>4, UrlFailsKeeps
<1>5. ASSUME NEW a \in Attempts, UrlArrives(a)
      PROVE  ClientInv'
  BY <1>5, UrlArrivesKeeps
<1>6. ASSUME NEW a \in Attempts, Opened(a)
      PROVE  ClientInv'
  BY <1>6, OpenedKeeps
<1>7. ASSUME NEW a \in Attempts, Challenged(a)
      PROVE  ClientInv'
  BY <1>7, ChallengedKeeps
<1>8. ASSUME NEW a \in Attempts, SignatureArrives(a)
      PROVE  ClientInv'
  BY <1>8, SignatureArrivesKeeps
<1>9. ASSUME NEW a \in Attempts, SignatureFails(a)
      PROVE  ClientInv'
  BY <1>9, SignatureFailsKeeps
<1>10. ASSUME NEW a \in Attempts, ReadyArrives(a)
      PROVE  ClientInv'
  BY <1>10, ReadyArrivesKeeps
<1>11. ASSUME NEW a \in Attempts, FrameArrives(a)
      PROVE  ClientInv'
  BY <1>11, FrameArrivesKeeps
<1>12. ASSUME NEW a \in Attempts, BadMessage(a)
      PROVE  ClientInv'
  BY <1>12, BadMessageKeeps
<1>13. ASSUME NEW a \in Attempts, Closed(a)
      PROVE  ClientInv'
  BY <1>13, ClosedKeeps
<1>14. ASSUME NEW a \in Attempts, AuthTimeout(a)
      PROVE  ClientInv'
  BY <1>14, AuthTimeoutKeeps
<1>15. CASE Send
  BY <1>15, SendKeeps
<1>16. CASE RetryTimer
  BY <1>16, RetryTimerKeeps
<1>17. CASE Retry
  BY <1>17, RetryKeeps
<1>18. CASE SignerClosed
  BY <1>18, SignerClosedKeeps
<1>19. CASE PageDestroys
  BY <1>19, PageDestroysKeeps
<1>. QED
  BY <1>1, <1>2, <1>3, <1>4, <1>5, <1>6, <1>7, <1>8, <1>9, <1>10, <1>11, <1>12, <1>13, <1>14, <1>15, <1>16, <1>17, <1>18, <1>19 DEF Next

\* The inductive invariant holds throughout.
THEOREM Inductive == Spec => []ClientInv
<1> HIDE DEF ClientInv, vars
<1>. QED
  BY InitKeeps, NextKeeps, PTL DEF Spec

\* At most one socket is in use, the one of the latest attempt, and no retry
\* waits to close it: connect() compares its generation after each await.
THEOREM OneConnectionHolds == Spec => []OneConnection
<1>1. ClientInv => OneConnection
  BY DEF OneConnection
<1>. QED
  BY <1>1, Inductive, PTL

\* A signature leaves only on the socket that brought its challenge, for the url of
\* that socket, and frames pass only after that socket's own handshake.
THEOREM SignatureStaysHomeHolds == Spec => []SignatureStaysHome
<1>1. ClientInv => SignatureStaysHome
  BY DEF SignatureStaysHome
<1>. QED
  BY <1>1, Inductive, PTL

\* Once destroyed, no pending await, timer or event tells the page anything, takes a
\* socket or sends a signature.
LEMMA DestroyedStays ==
  ClientInv /\ [Next]_vars =>
    (closed => /\ UNCHANGED <<status, socket>> /\ ~ready'
               /\ \A a \in Attempts : att'[a].auth \in {att[a].auth, None})
<1> SUFFICES ASSUME ClientInv, [Next]_vars, closed
             PROVE  /\ UNCHANGED <<status, socket>> /\ ~ready'
                    /\ \A a \in Attempts : att'[a].auth \in {att[a].auth, None}
  OBVIOUS
<1>0. cur = None /\ ~ready /\ ~retryTimer /\ authTimer = None /\ \A a \in Attempts : ~Live(a)
  OBVIOUS
<1>1. CASE UNCHANGED vars
  BY <1>0, <1>1
<1>2. ASSUME NEW a \in Attempts, KeyArrives(a)
      PROVE  /\ UNCHANGED <<status, socket>> /\ ~ready'
             /\ \A b \in Attempts : att'[b].auth \in {att[b].auth, None}
  BY <1>0, <1>2 DEF KeyArrives
<1>3. ASSUME NEW a \in Attempts, KeyFails(a)
      PROVE  /\ UNCHANGED <<status, socket>> /\ ~ready'
             /\ \A b \in Attempts : att'[b].auth \in {att[b].auth, None}
  <2>1. cur # a
    BY <1>0
  <2>2. att' = Left(att, a) /\ UNCHANGED <<status, socket, ready>>
    BY <1>3, <2>1 DEF KeyFails
  <2>. QED
    BY <1>0, <2>2
<1>4. ASSUME NEW a \in Attempts, UrlFails(a)
      PROVE  /\ UNCHANGED <<status, socket>> /\ ~ready'
             /\ \A b \in Attempts : att'[b].auth \in {att[b].auth, None}
  BY <1>0, <1>4 DEF UrlFails, Reconnect
<1>5. ASSUME NEW a \in Attempts, UrlArrives(a)
      PROVE  /\ UNCHANGED <<status, socket>> /\ ~ready'
             /\ \A b \in Attempts : att'[b].auth \in {att[b].auth, None}
  BY <1>0, <1>5 DEF UrlArrives, Discovered
<1>6. ASSUME NEW a \in Attempts, Opened(a)
      PROVE  /\ UNCHANGED <<status, socket>> /\ ~ready'
             /\ \A b \in Attempts : att'[b].auth \in {att[b].auth, None}
  BY <1>0, <1>6 DEF Opened, Reject
<1>7. ASSUME NEW a \in Attempts, Challenged(a)
      PROVE  /\ UNCHANGED <<status, socket>> /\ ~ready'
             /\ \A b \in Attempts : att'[b].auth \in {att[b].auth, None}
  BY <1>0, <1>7 DEF Challenged
<1>8. ASSUME NEW a \in Attempts, SignatureArrives(a)
      PROVE  /\ UNCHANGED <<status, socket>> /\ ~ready'
             /\ \A b \in Attempts : att'[b].auth \in {att[b].auth, None}
  BY <1>0, <1>8 DEF SignatureArrives
<1>9. ASSUME NEW a \in Attempts, SignatureFails(a)
      PROVE  /\ UNCHANGED <<status, socket>> /\ ~ready'
             /\ \A b \in Attempts : att'[b].auth \in {att[b].auth, None}
  BY <1>0, <1>9 DEF SignatureFails
<1>10. ASSUME NEW a \in Attempts, ReadyArrives(a)
      PROVE  /\ UNCHANGED <<status, socket>> /\ ~ready'
             /\ \A b \in Attempts : att'[b].auth \in {att[b].auth, None}
  BY <1>0, <1>10 DEF ReadyArrives
<1>11. ASSUME NEW a \in Attempts, FrameArrives(a)
      PROVE  /\ UNCHANGED <<status, socket>> /\ ~ready'
             /\ \A b \in Attempts : att'[b].auth \in {att[b].auth, None}
  BY <1>0, <1>11 DEF FrameArrives
<1>12. ASSUME NEW a \in Attempts, BadMessage(a)
      PROVE  /\ UNCHANGED <<status, socket>> /\ ~ready'
             /\ \A b \in Attempts : att'[b].auth \in {att[b].auth, None}
  BY <1>0, <1>12 DEF BadMessage, Reject
<1>13. ASSUME NEW a \in Attempts, Closed(a)
      PROVE  /\ UNCHANGED <<status, socket>> /\ ~ready'
             /\ \A b \in Attempts : att'[b].auth \in {att[b].auth, None}
  BY <1>0, <1>13 DEF Closed, Reconnect
<1>14. ASSUME NEW a \in Attempts, AuthTimeout(a)
      PROVE  /\ UNCHANGED <<status, socket>> /\ ~ready'
             /\ \A b \in Attempts : att'[b].auth \in {att[b].auth, None}
  BY <1>0, <1>14 DEF AuthTimeout
<1>15. CASE Send
  BY <1>0, <1>15 DEF Send
<1>16. CASE RetryTimer
  BY <1>0, <1>16 DEF RetryTimer, Connect
<1>17. CASE Retry
  BY <1>0, <1>17 DEF Retry, Connect
<1>18. CASE SignerClosed
  BY <1>0, <1>18 DEF SignerClosed, Destroy
<1>19. CASE PageDestroys
  BY <1>0, <1>19 DEF PageDestroys, Destroy
<1> HIDE DEF ClientInv
<1>. QED
  BY <1>1, <1>2, <1>3, <1>4, <1>5, <1>6, <1>7, <1>8, <1>9, <1>10, <1>11, <1>12, <1>13, <1>14, <1>15, <1>16, <1>17, <1>18, <1>19 DEF Next

\* Destroying the adapter is final.
THEOREM DestroyIsFinalHolds == Spec => DestroyIsFinal
<1>1. ClientInv /\ [Next]_vars =>
        [closed => /\ UNCHANGED <<status, socket>> /\ ~ready'
                   /\ \A a \in Attempts : att'[a].auth \in {att[a].auth, None}]_vars
  <2> HIDE DEF ClientInv, vars
  <2>. QED
    BY DestroyedStays
<1> HIDE DEF ClientInv, vars
<1>. QED
  BY <1>1, Inductive, PTL DEF Spec, DestroyIsFinal

=============================================================================
