---------------------------- MODULE RemoteClient ----------------------------
(***************************************************************************)
(* src/src/auth/ServerHost/RemoteClient.ts: the end that dials a           *)
(* ServerHost and calls it.  start() runs a loop of attempts               *)
(* (_connectionLoop).  An attempt opens a socket and answers the host's    *)
(* handshake with a temporary router.  The handler of the last request     *)
(* listens for the host's AUTH_READY before it answers, gives the socket   *)
(* up when the answer was sent, waits for AUTH_READY, and only then gives  *)
(* the socket to the persistent router, which synchronises on it.          *)
(*                                                                         *)
(* Macrotasks and continuations are as in module RemoteServer: Quiet.      *)
(***************************************************************************)
EXTENDS Naturals, Sequences

CONSTANTS
  MaxTries,    \* bound: attempts of the loop
  Reconnects,  \* autoReconnect, and a URL was given
  SameTurn     \* are several messages of a chunk dispatched in one turn?

ASSUME RemoteClientAssumption ==
  /\ MaxTries \in Nat \ {0}
  /\ {Reconnects, SameTurn} \subseteq BOOLEAN

VARIABLES
  stopped,  \* has stop() been called?
  loop,     \* where _connectionLoop is
  try,      \* its attemptCount
  link,     \* state of the attempt's socket
  router,   \* who reads it
  handler,  \* where the handler of ___sh_initialized is
  ready,    \* its hostReady: not listened for, listened for, or resolved
  host,     \* how far the host at the other end is
  inbox,    \* messages of the host in flight
  server    \* the attempt whose socket _client.setServer was given, or 0

vars == <<stopped, loop, try, link, router, handler, ready, host, inbox, server>>

TypeOK ==
  /\ stopped \in BOOLEAN
  /\ loop \in {"new", "open", "sleeping", "done"}
  /\ try \in 0 .. MaxTries
  /\ link \in {"none", "open", "closed"}
  /\ router \in {"none", "temporary", "persistent"}
  /\ handler \in {"none", "sending", "returning", "awaiting", "failed"}
  /\ ready \in {"off", "listening", "yes", "no"}
  /\ host \in {"asking", "finalizing", "attached"}
  /\ inbox \in Seq({"initialized", "ack", "ready"})
  /\ server \in 0 .. MaxTries

Init ==
  /\ stopped = FALSE
  /\ loop = "new"
  /\ try = 0
  /\ link = "none"
  /\ router = "none"
  /\ handler = "none"
  /\ ready = "off"
  /\ host = "asking"
  /\ inbox = <<>>
  /\ server = 0

\* No continuation is due.
Quiet == handler # "returning" /\ ~(handler = "awaiting" /\ ready \in {"yes", "no"})

-----------------------------------------------------------------------------
(* The loop.                                                               *)

\* start(), or the delay before the next attempt is over: a new socket with a
\* temporary router on it.
Open ==
  /\ Quiet /\ ~stopped
  /\ loop \in {"new", "sleeping"}
  /\ try < MaxTries
  /\ try' = try + 1
  /\ loop' = "open"
  /\ link' = "open"
  /\ router' = "temporary"
  /\ handler' = "none"
  /\ ready' = "off"
  /\ host' = "asking"
  /\ inbox' = <<>>
  /\ UNCHANGED <<stopped, server>>

\* The close listeners of the socket, up being _on: nobody reads it, hostReady
\* resolves to false, the send of the last answer is given up (the temporary
\* router is unregistered), and the loop sleeps or ends.
Closed(up) ==
  /\ link' = "closed"
  /\ router' = "none"
  /\ inbox' = <<>>
  /\ handler' = IF handler = "sending" THEN "returning" ELSE handler
  /\ ready' = IF ready = "listening" THEN "no" ELSE ready
  /\ loop' = IF Reconnects /\ up THEN "sleeping" ELSE "done"

\* The network, the host or a password rejection closes the socket.
Lose ==
  /\ Quiet
  /\ link = "open"
  /\ Closed(TRUE)
  /\ UNCHANGED <<stopped, try, host, server>>

\* Mutant of Stop: only a socket that was handed over is closed.
StopServed ==
  /\ Quiet /\ ~stopped /\ loop # "new"
  /\ stopped' = TRUE
  /\ IF router = "persistent" THEN Closed(FALSE)
     ELSE UNCHANGED <<link, router, inbox, handler, ready, loop>>
  /\ server' = 0
  /\ UNCHANGED <<try, host>>

\* stop() closes the socket of the attempt that is under way, handed over or
\* not, and unregisters the persistent router.
Stop ==
  /\ Quiet /\ ~stopped /\ loop # "new"
  /\ stopped' = TRUE
  /\ \/ link = "open" /\ Closed(FALSE)
     \/ link # "open" /\ loop' = "done" /\ UNCHANGED <<link, router, inbox, handler, ready>>
  /\ server' = 0
  /\ UNCHANGED <<try, host>>

-----------------------------------------------------------------------------
(* The host at the other end: ServerHost as far as a RemoteClient sees it. *)

\* Password and id are exchanged and the hooks have run.
HostFinalizes ==
  /\ Quiet
  /\ link = "open" /\ host = "asking"
  /\ host' = "finalizing"
  /\ inbox' = Append(inbox, "initialized")
  /\ UNCHANGED <<stopped, loop, try, link, router, handler, ready, server>>

\* The host reads the last answer: it acknowledges it, attaches the socket to
\* its persistent router and says so.
HostAttaches ==
  /\ Quiet
  /\ link = "open" /\ host = "finalizing" /\ handler = "sending"
  /\ host' = "attached"
  /\ inbox' = inbox \o <<"ack", "ready">>
  /\ UNCHANGED <<stopped, loop, try, link, router, handler, ready, server>>

-----------------------------------------------------------------------------
(* Messages of the host.                                                   *)

Reads(m) ==
  /\ Quiet \/ SameTurn
  /\ inbox # <<>> /\ Head(inbox) = m
  /\ inbox' = Tail(inbox)

\* Mutant of ReadInitialized: AUTH_READY is listened for when the answer was
\* acknowledged.
ListenLate ==
  /\ Reads("initialized")
  /\ handler' = "sending"
  /\ UNCHANGED <<stopped, loop, try, link, router, ready, host, server>>

\* The handler listens for AUTH_READY, sends its answer and awaits the ACK.
ReadInitialized ==
  /\ Reads("initialized")
  /\ handler' = "sending"
  /\ ready' = "listening"
  /\ UNCHANGED <<stopped, loop, try, link, router, host, server>>

ReadAck ==
  /\ Reads("ack")
  /\ handler' = "returning"
  /\ UNCHANGED <<stopped, loop, try, link, router, ready, host, server>>

ReadReady ==
  /\ Reads("ready")
  /\ ready' = IF ready = "listening" THEN "yes" ELSE ready
  /\ UNCHANGED <<stopped, loop, try, link, router, handler, host, server>>

\* The await of the answer is over, because it was acknowledged or because it
\* was given up: the temporary router leaves the socket, and hostReady is
\* awaited.
HandlerReturns ==
  /\ handler = "returning"
  /\ handler' = "awaiting"
  /\ router' = "none"
  /\ UNCHANGED <<stopped, loop, try, link, ready, host, inbox, server>>

\* Mutant of HandOver: the answer of hostReady is not looked at.
HandOverAnyway == ready \in {"yes", "no"}

\* hostReady is true: the socket goes to the persistent router.
HandOver == ready = "yes"

\* The handler goes on when hostReady is resolved.  setServer throws once the
\* persistent router is unregistered.
HostIsReady ==
  /\ handler = "awaiting" /\ ready \in {"yes", "no"}
  /\ ready' = "off"
  /\ IF HandOver /\ ~stopped
     THEN server' = try /\ router' = "persistent" /\ handler' = "none"
     ELSE UNCHANGED <<server, router>> /\ handler' = "failed"
  /\ UNCHANGED <<stopped, loop, try, link, host, inbox>>

-----------------------------------------------------------------------------

Step == ReadInitialized \/ ReadAck \/ ReadReady \/ HandlerReturns \/ HostIsReady

HostStep == HostFinalizes \/ HostAttaches

Next == Open \/ Lose \/ Stop \/ HostStep \/ Step

Spec == Init /\ [][Next]_vars

\* Timers run out, messages arrive, and the host goes on with its handshake.
Fairness == WF_vars(loop = "sleeping" /\ Open) /\ WF_vars(HostStep) /\ WF_vars(Step)

FairSpec == Spec /\ Fairness

-----------------------------------------------------------------------------
(* Properties.                                                             *)

\* The persistent router only takes over a socket on which the host's
\* persistent router is there to answer its first request, and which was not
\* lost while the handler waited.  stop() ends every connection and attempt, in
\* whichever stage of the handshake it comes, and none is made or handed over
\* after it.
HandedOverIsServed ==
  /\ router = "persistent" => host = "attached" /\ link = "open" /\ server = try
  /\ stopped => link # "open" /\ server = 0 /\ loop = "done"

\* The client keeps trying, and AUTH_READY is never missed: with attempts left
\* the client is connected in the end, stopped, or loses its sockets.
ClientIsServed ==
  loop = "open" ~> router = "persistent" \/ stopped \/ (try = MaxTries /\ link = "closed")

=============================================================================
