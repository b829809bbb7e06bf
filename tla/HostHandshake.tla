--------------------------- MODULE HostHandshake ---------------------------
(***************************************************************************)
(* What src/src/auth/ServerHost/ServerHost.ts and                          *)
(* src/src/auth/ClientHost/ClientHost.ts do alike in _onConnection: accept *)
(* or refuse a socket, ask the peer for its password and its id, run the   *)
(* application's hook, and give up on the handshake when anything fails.   *)
(* ServerHost and ClientHost extend this module with what a host does once *)
(* the peer has told its id: wait for an older socket of the same id, hand *)
(* the socket to the persistent router, stop.                              *)
(*                                                                         *)
(* Every "await" of _onConnection is a stage, and the code between two     *)
(* awaits is one action.                                                   *)
(***************************************************************************)
EXTENDS Integers, SequencesExt

CONSTANTS
  Sockets,         \* connections the WebSocket server hands over, once each
  Keys, KeyOf,     \* KeyOf[s]: rateLimitKey of the peer behind s
  Ids, IdOf,       \* IdOf[s]: the clientId or serverId the peer will give
  MaxConnections,  \* options.maxConnections
  MaxAttempts,     \* options.passwordRateLimit.maxAttempts
  MaxTrackedKeys,  \* _maxTrackedKeys of the limiter
  Orderly,         \* ids of peers that make one attempt at a time
  None             \* not a socket

ASSUME HostHandshakeAssumption ==
  /\ KeyOf \in [Sockets -> Keys]
  /\ IdOf \in [Sockets -> Ids]
  /\ {MaxConnections, MaxAttempts} \subseteq Nat
  /\ MaxTrackedKeys \in Nat \ {0}
  /\ Orderly \subseteq Ids
  /\ None \notin Sockets

VARIABLES
  stage,           \* where the _onConnection of each socket is
  link,            \* readyState of each socket; "closed" once close is dispatched
  waitsFor,        \* the older socket whose close event a handshake awaits
  connectionCount, \* _connectionCount
  pendingSockets,  \* _pendingSockets
  tracked,         \* the keys in _passwordLimiter._attempts, oldest first
  attempts,        \* their failures in the current window; 0 when it is over
  stopped          \* has stop() been called?

handshakeVars ==
  <<stage, link, waitsFor, connectionCount, pendingSockets, tracked, attempts, stopped>>
limiter == <<tracked, attempts>>

\* Stages in which the temporary router has a request out to the peer.
Asking == {"password", "identity", "finalize"}

\* Stages of a handshake that is under way.
Handshaking == Asking \cup {"validating", "waiting", "resumed", "hook"}

Stages == Handshaking \cup {"new", "refused", "attached", "over"}

HandshakeTypeOK ==
  /\ stage \in [Sockets -> Stages]
  /\ link \in [Sockets -> {"none", "open", "closing", "closed"}]
  /\ waitsFor \in [Sockets -> Sockets \cup {None}]
  /\ connectionCount \in 0 .. MaxConnections
  /\ pendingSockets \subseteq Sockets
  /\ tracked \in SeqOf(Keys, MaxTrackedKeys) /\ IsInjective(tracked)
  /\ attempts \in [Keys -> Nat]
  /\ stopped \in BOOLEAN

HandshakeInit ==
  /\ stage = [s \in Sockets |-> "new"]
  /\ link = [s \in Sockets |-> "none"]
  /\ waitsFor = [s \in Sockets |-> None]
  /\ connectionCount = 0
  /\ pendingSockets = {}
  /\ tracked = <<>>
  /\ attempts = [k \in Keys |-> 0]
  /\ stopped = FALSE

-----------------------------------------------------------------------------
(* The limiter.                                                            *)

\* Mutant of Blocked: one attempt too many.
BlockedLate(k) == attempts[k] > 0 /\ attempts[k] > MaxAttempts

\* isBlocked: a key without an entry is not.
Blocked(k) == attempts[k] > 0 /\ attempts[k] >= MaxAttempts

\* The entry of a key is deleted.
Untrack(k) ==
  /\ tracked' = SelectSeq(tracked, LAMBDA j : j # k)
  /\ attempts' = [attempts EXCEPT ![k] = 0]

\* recordFailure: a new key takes the place of the oldest when too many are
\* tracked, be that one blocked or not.
RecordFailure(k) ==
  /\ tracked' = IF k \in ToSet(tracked) THEN tracked
                ELSE Append(IF Len(tracked) < MaxTrackedKeys THEN tracked ELSE Tail(tracked), k)
  /\ attempts' = [j \in Keys |-> IF j = k THEN attempts[k] + 1
                                 ELSE IF j \in ToSet(tracked') THEN attempts[j] ELSE 0]

-----------------------------------------------------------------------------
(* Closing.                                                                *)

\* Sockets that were accepted and whose close event is still to come.
Alive == {s \in Sockets : link[s] \in {"open", "closing"}}

\* Mutant of StageAfterClose: nobody waits for the close event of S.
StageAfterCloseAlone(S) ==
  [s \in Sockets |->
     IF s \in S /\ stage[s] \in Asking \cup {"attached"} THEN "over" ELSE stage[s]]

\* The close listeners of the sockets in S: the counter and the pending set are
\* settled and the temporary router of a handshake is unregistered, which
\* rejects its request.  A waiter for a socket in S resumes.
StageAfterClose(S) ==
  [s \in Sockets |->
     IF s \in S /\ stage[s] \in Asking \cup {"attached"} THEN "over"
     ELSE IF stage[s] = "waiting" /\ waitsFor[s] \in S THEN "resumed"
     ELSE stage[s]]

\* Mutant of Dispatch: a socket that is closed again is counted again.
DispatchAgain(S) ==
  /\ link' = [s \in Sockets |-> IF s \in S THEN "closed" ELSE link[s]]
  /\ connectionCount' = connectionCount - Cardinality(S)
  /\ pendingSockets' = pendingSockets \ S

\* Dispatch of the close events of S; the close of a socket is dispatched once.
Dispatch(S) ==
  /\ link' = [s \in Sockets |-> IF s \in S \cap Alive THEN "closed" ELSE link[s]]
  /\ connectionCount' = connectionCount - Cardinality(S \cap Alive)
  /\ pendingSockets' = pendingSockets \ S

\* A password request that is rejected by the close counts as a failed attempt.
CloseSocket(s) ==
  /\ Dispatch({s})
  /\ stage' = StageAfterClose({s})
  /\ IF stage[s] = "password" THEN RecordFailure(KeyOf[s]) ELSE UNCHANGED limiter
  /\ UNCHANGED <<waitsFor, stopped>>

\* An early return: close(), then unregister() in the finally block, which
\* forces the socket closed.
GiveUp(s) ==
  /\ Dispatch({s})
  /\ stage' = [stage EXCEPT ![s] = "over"]
  /\ UNCHANGED <<waitsFor, stopped>>

GoTo(s, next) ==
  /\ stage' = [stage EXCEPT ![s] = next]
  /\ UNCHANGED <<link, waitsFor, connectionCount, pendingSockets, limiter, stopped>>

-----------------------------------------------------------------------------
(* The handshake.                                                          *)

\* The WebSocket server hands over no socket once it is closed.
Arrives(s) ==
  /\ stage[s] = "new"
  /\ ~stopped
  /\ IdOf[s] \in Orderly =>
       \A t \in Sockets : stage[t] \in Handshaking => IdOf[t] # IdOf[s]

Full == connectionCount >= MaxConnections

Connect(s) ==
  /\ Arrives(s)
  /\ ~Full
  /\ ~Blocked(KeyOf[s])
  /\ stage' = [stage EXCEPT ![s] = "password"]
  /\ link' = [link EXCEPT ![s] = "open"]
  /\ connectionCount' = connectionCount + 1
  /\ pendingSockets' = pendingSockets \cup {s}
  /\ IF attempts[KeyOf[s]] = 0 THEN Untrack(KeyOf[s]) ELSE UNCHANGED limiter
  /\ UNCHANGED <<waitsFor, stopped>>

\* At capacity: the raw socket is closed and never counted.
Refuse(s) ==
  /\ Arrives(s)
  /\ Full
  /\ GoTo(s, "refused")

\* The key is blocked: the socket is counted and force-closed in the same turn.
Block(s) ==
  /\ Arrives(s)
  /\ ~Full
  /\ Blocked(KeyOf[s])
  /\ stage' = [stage EXCEPT ![s] = "over"]
  /\ link' = [link EXCEPT ![s] = "closed"]
  /\ UNCHANGED <<waitsFor, connectionCount, pendingSockets, limiter, stopped>>

\* The peer's answer arrives, be the socket closing or not, and
\* validatePassword starts.
PasswordAnswered(s) ==
  /\ stage[s] = "password"
  /\ GoTo(s, "validating")

\* The request for the id goes out only on an open socket and fails otherwise.
PasswordAccepted(s) ==
  /\ stage[s] = "validating"
  /\ IF link[s] = "open"
     THEN /\ stage' = [stage EXCEPT ![s] = "identity"]
          /\ UNCHANGED <<link, waitsFor, connectionCount, pendingSockets, stopped>>
     ELSE GiveUp(s)
  /\ Untrack(KeyOf[s])

PasswordRejected(s) ==
  /\ stage[s] = "validating"
  /\ GiveUp(s)
  /\ RecordFailure(KeyOf[s])

\* A request of the handshake times out or the peer answers with an error.
RequestFails(s) ==
  /\ stage[s] \in Asking
  /\ CloseSocket(s)

HookFails(s) ==
  /\ stage[s] = "hook"
  /\ GiveUp(s)
  /\ UNCHANGED limiter

\* initializeClient or initializeServer is done; the readyState is checked.
HookReturns(s) ==
  /\ stage[s] = "hook"
  /\ \/ link[s] = "open" /\ GoTo(s, "finalize")
     \/ link[s] # "open" /\ GiveUp(s) /\ UNCHANGED limiter

\* The closing handshake of a socket begins, as any peer's close() makes it.
BeginClose(s) ==
  /\ link[s] = "open"
  /\ link' = [link EXCEPT ![s] = "closing"]
  /\ UNCHANGED <<stage, waitsFor, connectionCount, pendingSockets, limiter, stopped>>

\* The window of a key is over.  Its entry is deleted by the next sweep, or when
\* it is looked up.
WindowEnds(k) ==
  /\ attempts[k] > 0
  /\ \/ Untrack(k)
     \/ attempts' = [attempts EXCEPT ![k] = 0] /\ UNCHANGED tracked
  /\ UNCHANGED <<stage, link, waitsFor, connectionCount, pendingSockets, stopped>>

\* stop(): the persistent router forces the sockets S closed; a handshake's
\* socket only begins to close, and is forgotten.
StopHost(S) ==
  /\ ~stopped
  /\ stopped' = TRUE
  /\ stage' = StageAfterClose(S)
  /\ link' = [s \in Sockets |->
                IF s \in S \cap Alive THEN "closed"
                ELSE IF s \in pendingSockets /\ link[s] = "open" THEN "closing"
                ELSE link[s]]
  /\ connectionCount' = connectionCount - Cardinality(S \cap Alive)
  /\ pendingSockets' = {}
  /\ tracked' = <<>>
  /\ attempts' = [k \in Keys |-> 0]
  /\ UNCHANGED waitsFor

\* Steps of a handshake that do not depend on the kind of the host.
Handshake(s) ==
  \/ PasswordAnswered(s)
  \/ PasswordAccepted(s)
  \/ PasswordRejected(s)
  \/ RequestFails(s)
  \/ HookFails(s)
  \/ HookReturns(s)

CommonNext ==
  \/ \E s \in Sockets :
       Connect(s) \/ Refuse(s) \/ Block(s) \/ Handshake(s) \/ BeginClose(s)
  \/ \E k \in Keys : WindowEnds(k)

-----------------------------------------------------------------------------

\* The counter that admits connections is the number of sockets accepted and
\* not yet closed, however a handshake ends and however often its socket is
\* closed, forced closed or unregistered; so capacity neither leaks nor grows.
CountIsExact ==
  /\ connectionCount = Cardinality(Alive)
  /\ Cardinality(Alive) <= MaxConnections

\* stop() leaves no socket open: every accepted socket is reachable from the
\* pending set or from the persistent router at any time, a handshake that is
\* between two awaits included, and none is handed over afterwards.
StopReachesEverySocket == stopped => \A s \in Sockets : link[s] # "open"

\* Each attempt counts one failure at most, whether the password is wrong, the
\* request fails or the socket closes meanwhile, and none is let in once the key
\* is blocked: a peer that makes one attempt at a time, from an address of its
\* own, fails MaxAttempts times in a window, or once when that is 0.  (Attempts
\* that overlap are all let in before the first of them fails.)
GuessesAreBounded ==
  \A k \in Keys :
    (\E i \in Orderly : \A s \in Sockets : KeyOf[s] = k => IdOf[s] = i)
    => attempts[k] <= MaxAttempts \/ attempts[k] = 1

\* A handshake ends or waits for an older socket that is still open: no
\* handshake hangs on a socket that is gone.
HandshakesEnd ==
  \A s \in Sockets :
    []<>(stage[s] \in Handshaking => stage[s] = "waiting" /\ link[waitsFor[s]] = "open")

=============================================================================
