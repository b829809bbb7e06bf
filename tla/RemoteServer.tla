---------------------------- MODULE RemoteServer ----------------------------
(***************************************************************************)
(* src/src/auth/ClientHost/RemoteServer.ts: the end that dials ClientHosts *)
(* and serves them.  Each call of attachClient runs a loop of attempts     *)
(* (reconnectionLoop).  An attempt opens a socket, answers the host's      *)
(* handshake with a temporary router, and hands the socket to the one      *)
(* persistent router when the last answer was sent (registerClient).  The  *)
(* handler that hands over and the loop that waits for the close go on     *)
(* separately.                                                             *)
(*                                                                         *)
(* What runs between two macrotasks (the continuation of an await) is not  *)
(* interleaved with timers, closes and calls of the application: "Quiet".  *)
(* With SameTurn the messages of one chunk are dispatched without running  *)
(* continuations between them, which is what ws does by default; without   *)
(* it each message has a turn of its own, as in a browser.                 *)
(***************************************************************************)
EXTENDS Naturals, Sequences

CONSTANTS
  Attachments,   \* calls of attachClient
  Hosts, HostOf, \* HostOf[a]: the id of the ClientHost that a reaches
  MaxTries,      \* bound: attempts of one attachment
  Reconnects,    \* autoReconnect, and a URL was given
  SameTurn,      \* are several messages of a chunk dispatched in one turn?
  None           \* not a socket

Sockets == Attachments \X (1 .. MaxTries)

ASSUME RemoteServerAssumption ==
  /\ HostOf \in [Attachments -> Hosts]
  /\ MaxTries \in Nat \ {0}
  /\ {Reconnects, SameTurn} \subseteq BOOLEAN
  /\ None \notin Sockets

VARIABLES
  running,   \* is _server registered (and _on true)?
  on,        \* attachOn of each attachment
  loop,      \* where its reconnectionLoop is
  try,       \* its attemptCount
  link,      \* state of its current socket
  router,    \* who reads the current socket
  handler,   \* where the handler of ___ch_initialized is
  host,      \* how far the host at the other end is
  inbox,     \* messages of the host in flight
  clients,   \* the map "clients": host id -> socket or None
  last,      \* the socket an attachment handed over last: its thisClientId and
             \* unregisterClient are set for it
  served,    \* sockets in the persistent router's unregisterFunctions
  misread    \* history: what temporary routers read of the host's persistent
             \* router, with the socket it came on

vars == <<running, on, loop, try, link, router, handler, host, inbox, clients, last,
          served, misread>>

Socket(a) == <<a, try[a]>>

TypeOK ==
  /\ running \in BOOLEAN
  /\ on \subseteq Attachments
  /\ loop \in [Attachments -> {"new", "open", "sleeping", "done"}]
  /\ try \in [Attachments -> 0 .. MaxTries]
  /\ link \in [Attachments -> {"none", "open", "closed"}]
  /\ router \in [Attachments -> {"none", "temporary", "persistent"}]
  /\ handler \in [Attachments -> {"none", "sending", "returning"}]
  /\ host \in [Attachments -> {"asking", "finalizing", "admitted", "synced", "ready"}]
  /\ inbox \in [Attachments -> Seq({"initialized", "ack", "sync", "call"})]
  /\ clients \in [Hosts -> Sockets \cup {None}]
  /\ last \in [Attachments -> Sockets \cup {None}]
  /\ served \subseteq Sockets
  /\ misread \subseteq Sockets \X {"sync", "call"}

Init ==
  /\ running = TRUE
  /\ on = {}
  /\ loop = [a \in Attachments |-> "new"]
  /\ try = [a \in Attachments |-> 0]
  /\ link = [a \in Attachments |-> "none"]
  /\ router = [a \in Attachments |-> "none"]
  /\ handler = [a \in Attachments |-> "none"]
  /\ host = [a \in Attachments |-> "asking"]
  /\ inbox = [a \in Attachments |-> <<>>]
  /\ clients = [h \in Hosts |-> None]
  /\ last = [a \in Attachments |-> None]
  /\ served = {}
  /\ misread = {}

\* No continuation is due.
Quiet == \A a \in Attachments : handler[a] # "returning"

-----------------------------------------------------------------------------
(* The loop.                                                               *)

\* An attempt: a new socket with a temporary router on it.  One that cannot be
\* made at all is one that is lost at once.
Open(a) ==
  /\ try[a] < MaxTries
  /\ try' = [try EXCEPT ![a] = @ + 1]
  /\ loop' = [loop EXCEPT ![a] = "open"]
  /\ link' = [link EXCEPT ![a] = "open"]
  /\ router' = [router EXCEPT ![a] = "temporary"]
  /\ host' = [host EXCEPT ![a] = "asking"]
  /\ inbox' = [inbox EXCEPT ![a] = <<>>]
  /\ UNCHANGED <<running, handler, clients, last, served, misread>>

AttachClient(a) ==
  /\ Quiet /\ running
  /\ loop[a] = "new"
  /\ on' = on \cup {a}
  /\ Open(a)

\* The delay before the next attempt is over.
Retry(a) ==
  /\ Quiet
  /\ loop[a] = "sleeping"
  /\ Open(a)
  /\ UNCHANGED on

\* Mutant of GoesOn: only the first attempt is made.
NeverGoesOn(a, attached, up) == FALSE

\* The condition of the loop, attached being attachOn and up _on.
GoesOn(a, attached, up) == Reconnects /\ up /\ a \in attached

\* Mutant of Forgotten: every entry is deleted.
ForgottenAll(S) == [h \in Hosts |-> IF S = {} THEN clients[h] ELSE None]

\* "clients" after the close listeners of the attachments in S, which delete
\* what is stored under thisClientId.
Forgotten(S) ==
  [h \in Hosts |-> IF \E a \in S : last[a] # None /\ HostOf[a] = h THEN None ELSE clients[h]]

\* What the persistent router drops when attachment a loses its socket.
Attached(a) == {Socket(a), last[a]}

\* The close listeners of the sockets of the attachments S, with attachOn and
\* _on as given: nobody reads the socket, the persistent router drops the
\* sockets "gone", a handler that waits for its ACK gives up (the temporary
\* router is unregistered), and the loop sleeps or ends.
Closed(S, gone, attached, up) ==
  /\ link' = [a \in Attachments |-> IF a \in S THEN "closed" ELSE link[a]]
  /\ router' = [a \in Attachments |-> IF a \in S THEN "none" ELSE router[a]]
  /\ inbox' = [a \in Attachments |-> IF a \in S THEN <<>> ELSE inbox[a]]
  /\ handler' = [a \in Attachments |->
                   IF a \in S /\ handler[a] = "sending" THEN "returning" ELSE handler[a]]
  /\ served' = served \ gone
  /\ loop' = [a \in Attachments |->
                IF a \in S \/ loop[a] = "sleeping"
                THEN IF GoesOn(a, attached, up) THEN "sleeping" ELSE "done"
                ELSE loop[a]]

\* The network, the host or a password rejection closes the socket.
Lose(a) ==
  /\ Quiet
  /\ link[a] = "open"
  /\ Closed({a}, Attached(a), on, running)
  /\ clients' = Forgotten({a})
  /\ UNCHANGED <<running, on, try, host, last, misread>>

OpenOnes == {a \in Attachments : link[a] = "open"}

\* Mutant of Unregister: an attempt in the middle of its handshake goes on.
UnregisterServed(a) ==
  /\ Quiet
  /\ a \in on
  /\ on' = on \ {a}
  /\ LET S == {b \in {a} \cap OpenOnes : router[b] = "persistent"}
     IN Closed(S, Attached(a), on', running) /\ clients' = Forgotten(S)
  /\ UNCHANGED <<running, try, host, last, misread>>

\* The function that attachClient returns.
Unregister(a) ==
  /\ Quiet
  /\ a \in on
  /\ on' = on \ {a}
  /\ Closed({a}, Attached(a), on', running)
  /\ clients' = Forgotten({a} \cap OpenOnes)
  /\ UNCHANGED <<running, try, host, last, misread>>

Stop ==
  /\ Quiet
  /\ running
  /\ running' = FALSE
  /\ on' = {}
  /\ Closed(OpenOnes, served, {}, FALSE)
  /\ clients' = [h \in Hosts |-> None]
  /\ UNCHANGED <<try, host, last, misread>>

-----------------------------------------------------------------------------
(* The host at the other end: ClientHost as far as a RemoteServer sees it. *)

\* Password and id are exchanged and the hooks have run.
HostFinalizes(a) ==
  /\ Quiet
  /\ link[a] = "open" /\ host[a] = "asking"
  /\ host' = [host EXCEPT ![a] = "finalizing"]
  /\ inbox' = [inbox EXCEPT ![a] = Append(@, "initialized")]
  /\ UNCHANGED <<running, on, loop, try, link, router, handler, clients, last, served, misread>>

\* The host reads the last answer: it acknowledges it, and its persistent
\* router synchronises on the socket in the same turn.
HostAdmits(a) ==
  /\ Quiet
  /\ link[a] = "open" /\ host[a] = "finalizing" /\ handler[a] = "sending"
  /\ host' = [host EXCEPT ![a] = "admitted"]
  /\ inbox' = [inbox EXCEPT ![a] = @ \o <<"ack", "sync">>]
  /\ UNCHANGED <<running, on, loop, try, link, router, handler, clients, last, served, misread>>

\* The answer to the synchronisation arrives: the host's router is ready, and
\* replays what is unknown here or sends what waited for a connection.
HostCalls(a) ==
  /\ Quiet
  /\ link[a] = "open" /\ host[a] = "synced"
  /\ host' = [host EXCEPT ![a] = "ready"]
  /\ inbox' = [inbox EXCEPT ![a] = Append(@, "call")]
  /\ UNCHANGED <<running, on, loop, try, link, router, handler, clients, last, served, misread>>

-----------------------------------------------------------------------------
(* Messages of the host.                                                   *)

\* Read the first message of a, which is m; continuations have run, unless the
\* message is of the same chunk as the one before.
Reads(a, m) ==
  /\ \A b \in Attachments : handler[b] = "returning" => b = a /\ SameTurn
  /\ inbox[a] # <<>> /\ Head(inbox[a]) = m
  /\ inbox' = [inbox EXCEPT ![a] = Tail(@)]

\* The handler of ___ch_initialized sends its answer and awaits the ACK.
ReadInitialized(a) ==
  /\ Reads(a, "initialized")
  /\ handler' = [handler EXCEPT ![a] = "sending"]
  /\ UNCHANGED <<running, on, loop, try, link, router, host, clients, last, served, misread>>

ReadAck(a) ==
  /\ Reads(a, "ack")
  /\ handler' = [handler EXCEPT ![a] = "returning"]
  /\ UNCHANGED <<running, on, loop, try, link, router, host, clients, last, served, misread>>

\* A request of the host's persistent router is read by whoever listens.
ReadByListener(a, m) ==
  /\ Reads(a, m)
  /\ misread' = IF router[a] = "persistent" THEN misread ELSE misread \cup {<<Socket(a), m>>}
  /\ UNCHANGED <<running, on, loop, try, link, router, handler, clients, last, served>>

\* ___syncRequests is answered in the same turn, whoever reads it; a temporary
\* router, which has no responses, answers that it knows none of the requests.
ReadSync(a) ==
  /\ ReadByListener(a, "sync")
  /\ host' = [host EXCEPT ![a] = "synced"]

ReadCall(a) ==
  /\ ReadByListener(a, "call")
  /\ UNCHANGED host

\* Mutant of HandOver: the temporary router is kept.
HandOverLate(a) == router[a]

\* Who reads the socket of a once registerClient has run.
HandOver(a) == IF link[a] = "open" THEN "persistent" ELSE "none"

\* The await of the answer is over, because it was acknowledged or because it
\* was given up when the socket closed; either way registerClient is called.
\* It throws when the persistent router is unregistered.
HandlerReturns(a) ==
  /\ handler[a] = "returning"
  /\ handler' = [handler EXCEPT ![a] = "none"]
  /\ IF running
     THEN /\ router' = [router EXCEPT ![a] = HandOver(a)]
          /\ served' = served \cup {Socket(a)}
          /\ last' = [last EXCEPT ![a] = Socket(a)]
          /\ clients' = [clients EXCEPT ![HostOf[a]] = Socket(a)]
     ELSE UNCHANGED <<router, served, last, clients>>
  /\ UNCHANGED <<running, on, loop, try, link, host, inbox, misread>>

-----------------------------------------------------------------------------

Step(a) ==
  \/ ReadInitialized(a)
  \/ ReadAck(a)
  \/ ReadSync(a)
  \/ ReadCall(a)
  \/ HandlerReturns(a)

HostStep(a) == HostFinalizes(a) \/ HostAdmits(a) \/ HostCalls(a)

Next ==
  \/ \E a \in Attachments :
       AttachClient(a) \/ Retry(a) \/ Lose(a) \/ Unregister(a) \/ HostStep(a) \/ Step(a)
  \/ Stop

Spec == Init /\ [][Next]_vars

\* Timers run out, messages arrive, and the host goes on with its handshake.
Fairness == \A a \in Attachments : WF_vars(Retry(a)) /\ WF_vars(HostStep(a)) /\ WF_vars(Step(a))

FairSpec == Spec /\ Fairness

-----------------------------------------------------------------------------
(* Properties.                                                             *)

\* A connection that the persistent router serves is in "clients" and will be
\* closed by stop(): however attempts fail before and after the hand-over, no
\* close of an earlier socket removes the entry of a later one.  (Attachments
\* that reach different hosts.)
ServedIsListed ==
  \A a \in Attachments :
    router[a] = "persistent" => clients[HostOf[a]] = Socket(a) /\ Socket(a) \in served

\* No message falls between the two routers.  The host's synchronisation may
\* share a turn with the ACK that ends the handshake, and only then the temporary
\* router answers it; the hand-over ends that turn, and whatever the host sends on
\* the strength of the answer is read by the persistent router.
CallsReachServer ==
  /\ misread \subseteq (IF SameTurn THEN Sockets \X {"sync"} ELSE {})
  /\ \A a \in Attachments :
       Quiet /\ link[a] = "open" /\ host[a] \in {"synced", "ready"} => router[a] = "persistent"

\* After its unregister function was called an attachment has no open socket,
\* whether it was in the middle of a handshake or served, and makes no other.
UnregisteredIsClosed ==
  \A a \in Attachments : loop[a] # "new" /\ a \notin on => link[a] # "open" /\ loop[a] = "done"

\* An attachment keeps trying: with attempts left it is served in the end,
\* closed for good, or loses its sockets again and again.
AttachmentIsServed ==
  \A a \in Attachments :
    a \in on /\ running ~> \/ router[a] = "persistent"
                           \/ a \notin on
                           \/ try[a] = MaxTries /\ link[a] = "closed"

=============================================================================
