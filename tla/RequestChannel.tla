--------------------------- MODULE RequestChannel ---------------------------
(***************************************************************************)
(* One request of src/src/PerfectWS.ts from the call to its release at     *)
(* both ends: request() and _setServer on the calling router, _onRequest   *)
(* on the serving one, over connections that drop and are replaced.        *)
(*                                                                         *)
(* The caller has several asynchronous threads at work for one request:    *)
(* the first send loop, the replay of each synchronisation, the resend of  *)
(* retryOnClose (all three send the same packet) and the durable send of   *)
(* the abort event.  The server has the handler, which streams chunks and  *)
(* awaits each, and the final response after it.  Sockets are numbered in  *)
(* the order of setServer; a message queue leads each way on each.         *)
(* _sendWithAck is taken as what module PacketDelivery shows of it: one    *)
(* copy per send, true with an ACK, false when the socket closes (running  *)
(* out of attempts closes it).                                             *)
(***************************************************************************)
EXTENDS Naturals, Sequences, FiniteSets

CONSTANTS
  MaxSocket,         \* bound: how many sockets there are
  Fallible,          \* sockets that may be closed or replaced while they work
  LateDelivery,      \* may an old socket deliver once the next one's sync is served?
  CallerAborts,      \* may the caller's abortSignal fire?
  Deadlines,         \* the ends, "caller" and "server", whose request timeout may pass
  ReconnectTimeouts, \* may reconnectTimeout and syncRequestsTimeout pass?
  MaxRestarts,       \* bound: how often the serving process is replaced
  SendAttempts,      \* config.sendRequestRetries
  MaxChunks          \* bound: how many chunks the handler streams

Sockets == 1 .. MaxSocket

ASSUME RequestChannelAssumption ==
  /\ MaxSocket \in Nat \ {0}
  /\ Fallible \subseteq Sockets
  /\ {LateDelivery, CallerAborts, ReconnectTimeouts} \subseteq BOOLEAN
  /\ Deadlines \subseteq {"caller", "server"}
  /\ MaxRestarts \in Nat
  /\ SendAttempts \in Nat \ {0}
  /\ MaxChunks \in Nat

\* The caller's threads: calls of sendRequestRetry.
Main      == <<"main", 0>>
Resend    == <<"resend", 0>>
Abort     == <<"abort", 0>>
Replay(s) == <<"replay", s>>
RequestThreads == {Main, Resend} \cup {Replay(s) : s \in Sockets}
Threads        == RequestThreads \cup {Abort}

VARIABLES
  \* the calling router
  cur,        \* _server: the newest socket, 0 before the first setServer
  up,         \* isServerConnected: is cur OPEN at the caller?
  ready,      \* _serverReady
  sync,       \* the ___syncRequests call made on cur
  pc,         \* where each thread stands
  server,     \* activeRequest.server, which all threads share
  hasSent, confirmed,   \* activeRequest.hasSent and .deliveryConfirmed
  outcome,    \* how the promise of request() is settled
  armed,      \* is retryOnClose listening to cur?
  retry,      \* where retryOnClose stands
  seen,       \* packets accepted: _processedPackets
  got,        \* history: the chunks given to options.callback
  \* the network
  toServer, toClient,   \* messages in flight on each socket
  \* the serving router
  attached,   \* sockets the server reads
  processed,  \* packets in _processedPacketsByClient
  response,   \* the entry of _activeResponses
  ref,        \* its clientRef.ref, 0 for null
  payload,    \* what sendJSON is delivering: a chunk or a final response
  packet,     \* its packet; ids are numbered
  sending, sendOn, tries,  \* where its loop stands, the socket and the attempt
  pendingAbort,   \* does _pendingAborts name the request?
  \* history
  stream,     \* the chunks of the latest run of the handler
  runs, completed, restarts

received    == <<seen, got>>
callerVars  == <<cur, up, ready, sync, pc, server, hasSent, confirmed, outcome, armed, retry,
                 received>>
sendVars    == <<payload, packet, sending, sendOn, tries>>
handlerVars == <<processed, response, ref, sendVars, pendingAbort>>
history     == <<stream, runs, completed, restarts>>
serverVars  == <<attached, handlerVars, history>>
vars == <<callerVars, toServer, toClient, serverVars>>

Failures == {"abort", "timeout", "sendFailed", "unknownRequest", "reconnectFailed", "remoteError"}
Kinds    == {"ok", "timeout", "aborted"}
Requests == {"req", "abort", "unknown", "syncWith", "syncWithout", "has", "ack"}
Replies  == {"reqAck", "abortAck", "syncKnown", "syncUnknown", "hasYes", "hasNo", "chunk"} \cup Kinds

TypeOK ==
  /\ cur \in 0 .. MaxSocket
  /\ up \in BOOLEAN
  /\ ready \in BOOLEAN
  /\ sync \in {"none", "sent", "answered", "done"}
  /\ pc \in [Threads -> {"off", "initial", "acking", "acked", "waiting", "woken", "done"}]
  /\ server \in 0 .. MaxSocket
  /\ hasSent \in BOOLEAN
  /\ confirmed \in BOOLEAN
  /\ outcome \in {"none", "ok"} \cup Failures
  /\ armed \in BOOLEAN
  /\ retry \in {"off", "waiting", "querying", "failed", "resending"}
  /\ seen \subseteq 1 .. packet
  /\ got \in Seq(Nat)
  /\ toServer \in [Sockets -> Seq([type : Requests, n : Nat])]
  /\ toClient \in [Sockets -> Seq([type : Replies, n : Nat])]
  /\ attached \subseteq Sockets
  /\ processed \subseteq {"req", "abort"}
  /\ response \in {"none", "handling", "finishing"}
  /\ ref \in 0 .. MaxSocket
  /\ payload \in Kinds \cup {"chunk"}
  /\ packet \in Nat
  /\ sending \in {"off", "acking", "waiting", "resume"}
  /\ sendOn \in 0 .. MaxSocket
  /\ tries \in 0 .. SendAttempts
  /\ pendingAbort \in BOOLEAN
  /\ stream \in Seq(Nat)
  /\ runs \in Nat
  /\ completed \in BOOLEAN
  /\ restarts \in 0 .. MaxRestarts

Init ==
  /\ cur = 0 /\ up = FALSE /\ ready = FALSE /\ sync = "none"
  /\ pc = [t \in Threads |-> "off"]
  /\ server = 0
  /\ hasSent = FALSE /\ confirmed = FALSE
  /\ outcome = "none"
  /\ armed = FALSE
  /\ retry = "off"
  /\ seen = {} /\ got = <<>>
  /\ toServer = [s \in Sockets |-> <<>>]
  /\ toClient = [s \in Sockets |-> <<>>]
  /\ attached = {}
  /\ processed = {}
  /\ response = "none" /\ ref = 0
  /\ payload = "ok" /\ packet = 0
  /\ sending = "off" /\ sendOn = 0 /\ tries = 0
  /\ pendingAbort = FALSE
  /\ stream = <<>> /\ runs = 0 /\ completed = FALSE /\ restarts = 0

-----------------------------------------------------------------------------
(* The caller.                                                             *)

Msg(type) == [type |-> type, n |-> 0]
Numbered(type, n) == [type |-> type, n |-> n]

Settled == outcome # "none"

\* pendingDurableSends > 0: the abort event is not acknowledged yet.
AbortPending == pc[Abort] \in {"acking", "waiting", "woken"}

\* releaseRequest has run to its end.
Released == Settled /\ ~AbortPending

\* Put message m on socket s towards the server.
Put(s, m) == toServer' = [toServer EXCEPT ![s] = IF s \in attached THEN Append(@, m) ELSE @]

Content(t) == IF t = Abort THEN Msg("abort") ELSE Msg("req")

\* Thread t, the phases of the others being p, sends on the current socket if
\* it is open and otherwise waits for the next one (waitForServer).
SendOrWait(t, p) ==
  IF up
  THEN /\ pc' = [p EXCEPT ![t] = "acking"]
       /\ Put(cur, Content(t))
       /\ hasSent' = TRUE
  ELSE /\ pc' = [p EXCEPT ![t] = "waiting"]
       /\ UNCHANGED <<toServer, hasSent>>

\* Every thread of the released request returns.
AllDone == [t \in Threads |-> IF pc[t] = "off" THEN "off" ELSE "done"]

\* activeRequest.callback(null or data, ..., down = true) with no abort event
\* on its way: the promise is settled and the request released.
Settle(result) ==
  /\ outcome' = result
  /\ confirmed' = TRUE
  /\ pc' = AllDone
  /\ retry' = "off"
  /\ armed' = FALSE
  /\ server' = 0

\* request(): the socket may be missing or closed, then it waits for one; it
\* may also be open and still synchronising, then it is used.
Start ==
  /\ pc[Main] = "off"
  /\ server' = cur
  /\ IF up THEN SendOrWait(Main, pc)
           ELSE pc' = [pc EXCEPT ![Main] = "initial"] /\ UNCHANGED <<toServer, hasSent>>
  /\ UNCHANGED <<cur, up, ready, sync, confirmed, outcome, armed, retry, received, toClient, serverVars>>

\* A thread goes on after waitForServer: with the current socket, whatever it
\* is by now.
Woken(t) ==
  /\ pc[t] = "woken"
  /\ server' = cur
  /\ SendOrWait(t, pc)
  /\ UNCHANGED <<cur, up, ready, sync, confirmed, outcome, armed, retry, received, toClient, serverVars>>

\* reconnectTimeout passes for a thread that is not durable: failSend.  The
\* first wait, before anything was sent, has no such timer.
ReconnectTimeout(t) ==
  /\ ReconnectTimeouts
  /\ t # Abort
  /\ pc[t] = "waiting"
  /\ IF Settled
     THEN /\ pc' = [pc EXCEPT ![t] = "done"]
          /\ UNCHANGED <<outcome, confirmed, retry, armed, server>>
     ELSE Settle("sendFailed")
  /\ UNCHANGED <<cur, up, ready, sync, hasSent, received, toServer, toClient, serverVars>>

\* The durable send of the abort event begins, the other phases being p: on
\* the request's socket, or on a ready replacement, or later.
BeginAbort(p) ==
  IF server = cur \/ ready
  THEN SendOrWait(Abort, p)
  ELSE pc' = [p EXCEPT ![Abort] = "waiting"] /\ UNCHANGED <<toServer, hasSent>>

\* The caller's abortSignal fires.
UserAbort ==
  /\ CallerAborts
  /\ pc[Main] # "off" /\ ~Settled
  /\ IF hasSent
     THEN /\ BeginAbort(AllDone)
          /\ outcome' = "abort"
          /\ confirmed' = TRUE
          /\ retry' = "off"
          /\ armed' = FALSE
          /\ server' = IF up /\ ready THEN cur ELSE server
     ELSE Settle("abort") /\ UNCHANGED <<toServer, hasSent>>
  /\ UNCHANGED <<cur, up, ready, sync, received, toClient, serverVars>>

\* The request timeout passes at the caller.  Until the abort event has been
\* acknowledged the request is not released: its other threads go on, and the
\* "finished" event wakes those that wait.
RequestTimeout ==
  /\ "caller" \in Deadlines
  /\ pc[Main] # "off" /\ ~Settled
  /\ IF hasSent
     THEN /\ BeginAbort([t \in Threads |-> IF pc[t] = "waiting" THEN "woken" ELSE pc[t]])
          /\ outcome' = "timeout"
          /\ confirmed' = TRUE
          /\ retry' = "off"
          /\ armed' = FALSE
          /\ server' = IF up /\ ready THEN cur ELSE server
     ELSE Settle("timeout") /\ UNCHANGED <<toServer, hasSent>>
  /\ UNCHANGED <<cur, up, ready, sync, received, toClient, serverVars>>

-----------------------------------------------------------------------------
(* Connections of the caller.                                              *)

\* Mutant of PcAfterClose: the durable send goes on waiting for its ACK.
PcAfterCloseButAbort ==
  [t \in Threads |-> IF pc[t] = "acking" /\ t # Abort THEN "waiting" ELSE pc[t]]

\* What the close listeners of the current socket do to the threads: a send
\* that waits for its ACK fails and waits for the next server; retryOnClose
\* starts to wait too; a ___hasRequest call on the socket is rejected.
PcAfterClose == [t \in Threads |-> IF pc[t] = "acking" THEN "waiting" ELSE pc[t]]
RetryAfterClose ==
  IF retry = "querying" THEN "failed"
  ELSE IF armed THEN "waiting" ELSE retry

\* Mutant of Named: a request whose delivery is not confirmed is left out.
ConfirmedIsNamed == hasSent /\ confirmed /\ ~Released

\* ___syncRequests names the active requests that were sent.
Named == hasSent /\ ~Released

\* setServer with a new socket: the old one is closed and no longer read, and
\* ___syncRequests is called with the request, if it is active and was sent.
\* Calling it while the old one works is the application's choice.
SetServer ==
  /\ cur < MaxSocket
  /\ cur \in Fallible \/ ~up
  /\ cur' = cur + 1
  /\ up' = TRUE
  /\ ready' = FALSE
  /\ sync' = "sent"
  /\ pc' = PcAfterClose
  /\ retry' = RetryAfterClose
  /\ armed' = FALSE
  /\ attached' = attached \cup {cur'}
  /\ toServer' = [toServer EXCEPT ![cur'] =
                    <<Msg(IF Named THEN "syncWith" ELSE "syncWithout")>>]
  /\ toClient' = [s \in Sockets |-> <<>>]
  /\ UNCHANGED <<server, hasSent, confirmed, outcome, received, handlerVars, history>>

\* The socket closes at the caller: a failed ping or synchronisation, ACK
\* attempts used up, an error; or the server's close is heard of.
CloseAtCaller ==
  /\ up
  /\ cur \in Fallible \/ cur \notin attached
  /\ up' = FALSE
  /\ ready' = FALSE
  /\ pc' = PcAfterClose
  /\ retry' = RetryAfterClose
  /\ armed' = FALSE
  /\ UNCHANGED <<cur, sync, server, hasSent, confirmed, outcome, received, toServer, toClient, serverVars>>

\* onOpen goes on when the synchronisation and its replay are over: the server
\* is ready, every thread in waitForServer wakes, and retryOnClose asks the
\* server whether it knows the request (hasRequest).
BecomeReady ==
  /\ sync = "answered"
  /\ pc[Replay(cur)] \in {"off", "done"}
  /\ up
  /\ sync' = "done"
  /\ ready' = TRUE
  /\ pc' = [t \in Threads |-> IF pc[t] \in {"initial", "waiting"} THEN "woken" ELSE pc[t]]
  /\ IF retry = "waiting" THEN retry' = "querying" /\ Put(cur, Msg("has"))
                          ELSE UNCHANGED <<retry, toServer>>
  /\ UNCHANGED <<cur, up, server, hasSent, confirmed, outcome, armed, received, toClient, serverVars>>

\* retryOnClose gives up: its query was rejected, or a timer ran out.
RetryFails ==
  /\ \/ retry = "failed"
     \/ ReconnectTimeouts /\ retry \in {"waiting", "querying"}
  /\ Settle("reconnectFailed")
  /\ UNCHANGED <<cur, up, ready, sync, hasSent, received, toServer, toClient, serverVars>>

\* Mutant of StartsRetry: a socket that closed meanwhile is not looked at.
StartsNever(t) == FALSE

\* The first loop looks again at the socket it is about to watch.
StartsRetry(t) == t = Main /\ ~(up /\ server = cur)

\* Continuations after its ACK, in which the socket may close or be replaced,
\* thread t confirms the delivery.  The first loop and the resend then let
\* retryOnClose watch the socket; the first loop starts it at once when that
\* socket is not open any more, and it asks at once on a ready replacement.
Confirm(t) ==
  /\ pc[t] = "acked"
  /\ pc' = [pc EXCEPT ![t] = "done"]
  /\ confirmed' = TRUE
  /\ \/ /\ Settled \/ t \notin {Main, Resend}
        /\ UNCHANGED <<armed, retry, toServer>>
     \/ /\ ~Settled /\ t \in {Main, Resend} /\ ~StartsRetry(t)
        /\ armed' = (up /\ server = cur)
        /\ retry' = "off"
        /\ UNCHANGED toServer
     \/ /\ ~Settled /\ StartsRetry(t) /\ ready
        /\ retry' = "querying"
        /\ Put(cur, Msg("has"))
        /\ UNCHANGED armed
     \/ /\ ~Settled /\ StartsRetry(t) /\ ~ready
        /\ retry' = "waiting"
        /\ UNCHANGED <<armed, toServer>>
  /\ UNCHANGED <<cur, up, ready, sync, server, hasSent, outcome, received, toClient, serverVars>>

-----------------------------------------------------------------------------
(* Messages to the caller.                                                 *)

\* The first message on the current socket has the given type.  The listener
\* stays until the next setServer, also on a socket closed at the caller.
Gets(types) ==
  /\ cur > 0
  /\ toClient[cur] # <<>>
  /\ Head(toClient[cur]).type \in types
  /\ toClient' = [toClient EXCEPT ![cur] = Tail(@)]

\* Mutant of Delivered: what was sent counts as delivered.
SentIsDelivered == hasSent

\* deliveryConfirmed: the request may not be sent again.
Delivered == confirmed

\* Mutant of FirstTime: no packet is recognised.
AnyTime(n) == TRUE

\* _acceptPacket at the caller: packet n was not accepted before.
FirstTime(n) == n \notin seen

ResultOf(m) == IF m.type = "ok" THEN "ok" ELSE "remoteError"

\* The ACK of the request's packet ends one of the sends that wait for it.
GetRequestAck ==
  /\ Gets({"reqAck"})
  /\ \/ /\ \A t \in RequestThreads : pc[t] # "acking"
        /\ UNCHANGED pc
     \/ \E t \in RequestThreads :
          /\ pc[t] = "acking"
          /\ pc' = [pc EXCEPT ![t] = "acked"]
  /\ UNCHANGED <<cur, up, ready, sync, server, hasSent, confirmed, outcome, armed, retry, received,
                 toServer, serverVars>>

\* The ACK of the abort event completes the deferred release.
GetAbortAck ==
  /\ Gets({"abortAck"})
  /\ IF pc[Abort] = "acking" THEN pc' = AllDone /\ server' = 0 ELSE UNCHANGED <<pc, server>>
  /\ UNCHANGED <<cur, up, ready, sync, hasSent, confirmed, outcome, armed, retry, received,
                 toServer, serverVars>>

\* The answer of ___syncRequests on an open socket: a request the server does
\* not know is replayed unless its delivery was confirmed; then it fails.
GetSyncReply ==
  /\ Gets({"syncKnown", "syncUnknown"})
  /\ sync = "sent"
  /\ sync' = IF up THEN "answered" ELSE sync
  /\ IF up /\ Head(toClient[cur]).type = "syncUnknown" /\ ~Settled
     THEN IF Delivered
          THEN Settle("unknownRequest") /\ UNCHANGED <<hasSent, toServer>>
          ELSE /\ server' = cur
               /\ SendOrWait(Replay(cur), pc)
               /\ UNCHANGED <<confirmed, outcome, armed, retry>>
     ELSE UNCHANGED <<pc, server, hasSent, confirmed, outcome, armed, retry, toServer>>
  /\ UNCHANGED <<cur, up, ready, received, serverVars>>

\* The answer of hasRequest in retryOnClose.
GetHasReply ==
  /\ Gets({"hasYes", "hasNo"})
  /\ IF retry # "querying"
     THEN UNCHANGED <<pc, server, hasSent, confirmed, outcome, armed, retry, toServer>>
     ELSE \/ /\ Head(toClient[cur]).type = "hasYes"
             /\ server' = cur
             /\ armed' = TRUE
             /\ retry' = "off"
             /\ UNCHANGED <<pc, hasSent, confirmed, outcome, toServer>>
          \/ /\ Head(toClient[cur]).type = "hasNo"
             /\ ~Delivered
             /\ server' = cur
             /\ SendOrWait(Resend, pc)
             /\ retry' = "resending"
             /\ UNCHANGED <<confirmed, outcome, armed>>
          \/ /\ Head(toClient[cur]).type = "hasNo"
             /\ Delivered
             /\ Settle("unknownRequest")
             /\ UNCHANGED <<hasSent, toServer>>
  /\ UNCHANGED <<cur, up, ready, sync, received, serverVars>>

\* A final response: acknowledged if the socket is open, accepted once, and
\* the settlement of a request that is not settled yet.
GetFinal ==
  /\ Gets(Kinds)
  /\ LET m == Head(toClient[cur])
     IN /\ IF up THEN Put(cur, Numbered("ack", m.n)) ELSE UNCHANGED toServer
        /\ seen' = seen \cup {m.n}
        /\ IF FirstTime(m.n) /\ ~Settled
           THEN Settle(ResultOf(m))
           ELSE UNCHANGED <<pc, server, confirmed, outcome, armed, retry>>
  /\ UNCHANGED <<cur, up, ready, sync, hasSent, got, serverVars>>

\* A chunk: acknowledged if the socket is open, accepted once, and given to the
\* callback of a request that is not settled.  For a request that is released
\* the server is told so (abortUnknownResponses).
GetChunk ==
  /\ Gets({"chunk"})
  /\ LET n == Head(toClient[cur]).n
         ack == <<Numbered("ack", n)>>
         told == IF Released /\ FirstTime(n) THEN <<Msg("unknown")>> ELSE <<>>
     IN /\ toServer' = [toServer EXCEPT ![cur] = IF up /\ cur \in attached THEN @ \o ack \o told ELSE @]
        /\ seen' = seen \cup {n}
        /\ got' = IF FirstTime(n) /\ ~Settled THEN Append(got, n) ELSE got
  /\ UNCHANGED <<cur, up, ready, sync, pc, server, hasSent, confirmed, outcome, armed, retry, serverVars>>

GetMessage == GetChunk \/ GetRequestAck \/ GetAbortAck \/ GetSyncReply \/ GetHasReply \/ GetFinal

-----------------------------------------------------------------------------
(* The server.                                                             *)

\* Messages ms go to the caller on socket s, whose listener is gone when the
\* caller has a newer one.
Answer(s, ms) == toClient' = [toClient EXCEPT ![s] = IF s = cur THEN @ \o ms ELSE @]

\* The first message on attached socket s is of the given type.
Holds(s, type) == s \in attached /\ toServer[s] # <<>> /\ Head(toServer[s]).type = type

Reads(s, type) == Holds(s, type) /\ toServer' = [toServer EXCEPT ![s] = Tail(@)]

\* releaseResponse: the response leaves _activeResponses, and what it sends is
\* given up.
ReleaseResponse ==
  /\ response' = "none"
  /\ ref' = 0
  /\ sending' = "off"
  /\ sendOn' = 0
  /\ tries' = 0
  /\ UNCHANGED <<payload, packet>>

\* Mutant of Known: no packet is recognised.
KnownNever(p) == FALSE

\* _acceptPacket at the server: packet p was accepted before.
Known(p) == p \in processed

\* A duplicate of the request is acknowledged and ignored: in particular it
\* does not move the response to the socket it came on.
ServeDuplicate(s) ==
  /\ \/ /\ Reads(s, "req") /\ Known("req")
        /\ Answer(s, <<Msg("reqAck")>>)
     \/ /\ Reads(s, "abort") /\ Known("abort")
        /\ Answer(s, <<Msg("abortAck")>>)
  /\ UNCHANGED <<callerVars, serverVars>>

\* The request: a response is made for the socket it came on, and the handler
\* is called, unless the abort event has come before.
ServeRequest(s) ==
  /\ Reads(s, "req")
  /\ ~Known("req")
  /\ processed' = processed \cup {"req"}
  /\ ref' = s
  /\ \/ /\ ~pendingAbort
        /\ response' = "handling"
        /\ runs' = runs + 1
        /\ stream' = <<>>
        /\ Answer(s, <<Msg("reqAck")>>)
        /\ UNCHANGED <<sendVars, pendingAbort>>
     \/ /\ pendingAbort
        /\ pendingAbort' = FALSE
        /\ response' = "finishing"
        /\ payload' = "aborted" /\ packet' = packet + 1
        /\ sending' = "acking" /\ sendOn' = s /\ tries' = 1
        /\ Answer(s, <<Msg("reqAck"), Numbered("aborted", packet')>>)
        /\ UNCHANGED <<runs, stream>>
  /\ UNCHANGED <<callerVars, attached, completed, restarts>>

\* onRequestAbort: the response is released, whether its handler runs or its
\* final response is on its way.  Without one the abort is remembered.
AbortResponse ==
  IF response = "none"
  THEN pendingAbort' = TRUE /\ UNCHANGED <<response, ref, sendVars>>
  ELSE ReleaseResponse /\ UNCHANGED pendingAbort

\* The abort event, and the one a caller sends for a request it does not know,
\* which has no packet id.
ServeAbort(s) ==
  /\ \/ /\ Reads(s, "abort") /\ ~Known("abort")
        /\ processed' = processed \cup {"abort"}
        /\ Answer(s, <<Msg("abortAck")>>)
     \/ /\ Reads(s, "unknown")
        /\ UNCHANGED <<processed, toClient>>
  /\ AbortResponse
  /\ UNCHANGED <<callerVars, attached, history>>

\* Mutant of Resumed: a send that waits for a socket is not told.
NotResumed == sending

\* The event ___request.connected wakes a send that waits for a socket.
Resumed == IF sending = "waiting" THEN "resume" ELSE sending

\* Socket s is read; without LateDelivery the older ones, which may be open
\* still, lose what they carry.
Overtake(s) ==
  toServer' = [o \in Sockets |-> IF o = s THEN Tail(toServer[s])
                                ELSE IF o < s /\ ~LateDelivery THEN <<>> ELSE toServer[o]]

\* ___syncRequests: a response the caller does not name is aborted; one it
\* names is moved to this socket, which wakes a send that waits.
ServeSync(s) ==
  /\ \/ /\ Holds(s, "syncWithout")
        /\ Answer(s, <<Msg("syncKnown")>>)
        /\ IF response = "none" THEN UNCHANGED <<response, ref, sendVars>> ELSE ReleaseResponse
     \/ /\ Holds(s, "syncWith")
        /\ Answer(s, <<Msg(IF response = "none" THEN "syncUnknown" ELSE "syncKnown")>>)
        /\ ref' = IF response = "none" THEN ref ELSE s
        /\ sending' = Resumed
        /\ UNCHANGED <<response, payload, packet, sendOn, tries>>
  /\ Overtake(s)
  /\ UNCHANGED <<callerVars, attached, processed, pendingAbort, history>>

ServeHas(s) ==
  /\ Reads(s, "has")
  /\ Answer(s, <<Msg(IF response = "none" THEN "hasNo" ELSE "hasYes")>>)
  /\ UNCHANGED <<callerVars, serverVars>>

\* The ACK of the packet that is being sent: a chunk's lets the handler go on,
\* the final response's ends the response.
ServeAck(s) ==
  /\ Reads(s, "ack")
  /\ \/ /\ sending = "acking" /\ Head(toServer[s]).n = packet /\ response = "finishing"
        /\ ReleaseResponse
     \/ /\ sending = "acking" /\ Head(toServer[s]).n = packet /\ response = "handling"
        /\ sending' = "off" /\ sendOn' = 0 /\ tries' = 0
        /\ UNCHANGED <<response, ref, payload, packet>>
     \/ /\ sending # "acking" \/ Head(toServer[s]).n # packet
        /\ UNCHANGED <<response, ref, sendVars>>
  /\ UNCHANGED <<callerVars, toClient, attached, processed, pendingAbort, history>>

Serve(s) == ServeDuplicate(s) \/ ServeRequest(s) \/ ServeAbort(s) \/ ServeSync(s)
            \/ ServeHas(s) \/ ServeAck(s)

\* One attempt of sendJSON on the response's socket.
Attempt(what, n, attempt) ==
  /\ sending' = "acking"
  /\ sendOn' = ref
  /\ tries' = attempt
  /\ Answer(ref, <<Numbered(what, n)>>)

\* sendJSON with a new packet; a send that was under way is aborted.
SendJSON(what) ==
  /\ payload' = what
  /\ packet' = packet + 1
  /\ IF ref # 0 THEN Attempt(what, packet', 1)
                ELSE sending' = "waiting" /\ sendOn' = 0 /\ tries' = 0 /\ UNCHANGED toClient

\* The handler awaits send(data, false).
HandlerStreams ==
  /\ response = "handling" /\ sending = "off"
  /\ Len(stream) < MaxChunks
  /\ SendJSON("chunk")
  /\ stream' = Append(stream, packet')
  /\ UNCHANGED <<callerVars, toServer, attached, processed, response, ref, pendingAbort,
                 runs, completed, restarts>>

\* beginResponseFinish, then sendJSON with mustDeliver.
Finish(what) ==
  /\ response = "handling"
  /\ response' = "finishing"
  /\ SendJSON(what)
  /\ UNCHANGED <<callerVars, toServer, attached, processed, ref, pendingAbort, stream, runs, restarts>>

HandlerReturns  == sending = "off" /\ Finish("ok") /\ completed' = TRUE
ResponseTimeout == "server" \in Deadlines /\ Finish("timeout") /\ UNCHANGED completed

\* The loop of sendJSON goes on after a wait or a failed attempt.
ResumeSend ==
  /\ sending = "resume"
  /\ IF ref # 0 THEN Attempt(payload, packet, tries + 1)
                ELSE sending' = "waiting" /\ tries' = 0 /\ UNCHANGED <<sendOn, toClient>>
  /\ UNCHANGED <<callerVars, toServer, attached, processed, response, payload, packet, ref,
                 pendingAbort, history>>

\* reconnectTimeout passes for a chunk: the handler's signal is aborted.
ChunkTimeout ==
  /\ ReconnectTimeouts
  /\ response = "handling" /\ sending = "waiting"
  /\ ReleaseResponse
  /\ UNCHANGED <<callerVars, toServer, toClient, attached, processed, pendingAbort, history>>

\* Mutant of OutOfTries: the last attempt is not made.
OutOfTriesEarly(s) ==
  sending = "acking" /\ sendOn = s /\ ref \notin {0, s} /\ tries + 1 >= SendAttempts

\* A send that waits for its ACK on s has used its attempts, and the response
\* has meanwhile been moved to another socket.
OutOfTries(s) == sending = "acking" /\ sendOn = s /\ ref \notin {0, s} /\ tries >= SendAttempts

\* The server reads the sockets in S no longer.
Detach(S) ==
  /\ attached' = attached \ S
  /\ toServer' = [q \in Sockets |-> IF q \in S THEN <<>> ELSE toServer[q]]

\* Socket s closes at the server and the response on it loses it.  A send that
\* waits for its ACK there fails: without another socket it waits for one, on
\* another one it tries again.  With all attempts used a final response closes
\* the other socket too and waits; a chunk gives up, which aborts the handler.
CloseAtServer(s) ==
  /\ s \in attached
  /\ s \in Fallible \/ s # cur \/ ~up
  /\ \/ /\ ~OutOfTries(s)
        /\ Detach({s})
        /\ ref' = IF ref = s THEN 0 ELSE ref
        /\ IF sending = "acking" /\ sendOn = s
           THEN /\ sending' = IF ref' = 0 THEN "waiting" ELSE "resume"
                /\ tries' = IF ref' = 0 THEN 0 ELSE tries
           ELSE UNCHANGED <<sending, tries>>
        /\ UNCHANGED <<response, sendOn, payload, packet>>
     \/ /\ OutOfTries(s) /\ response = "finishing"
        /\ Detach({s, ref})
        /\ ref' = 0
        /\ sending' = "waiting" /\ tries' = 0
        /\ UNCHANGED <<response, sendOn, payload, packet>>
     \/ /\ OutOfTries(s) /\ response = "handling"
        /\ Detach({s})
        /\ ReleaseResponse
  /\ UNCHANGED <<callerVars, toClient, processed, pendingAbort, history>>

\* _clearOldRequests forgets an abort whose request never came.
ForgetAbort ==
  /\ pendingAbort
  /\ pendingAbort' = FALSE
  /\ UNCHANGED <<callerVars, toServer, toClient, attached, processed, response, ref, sendVars, history>>

\* The serving process is replaced by a new one.
Restart ==
  /\ restarts < MaxRestarts
  /\ attached \subseteq Fallible
  /\ restarts' = restarts + 1
  /\ Detach(attached)
  /\ processed' = {}
  /\ ReleaseResponse
  /\ pendingAbort' = FALSE
  /\ UNCHANGED <<callerVars, toClient, stream, runs, completed>>

-----------------------------------------------------------------------------

Next ==
  \/ Start \/ UserAbort \/ RequestTimeout
  \/ \E t \in Threads : Woken(t) \/ ReconnectTimeout(t)
  \/ \E t \in RequestThreads : Confirm(t)
  \/ SetServer \/ CloseAtCaller \/ BecomeReady \/ RetryFails
  \/ GetMessage
  \/ \E s \in Sockets : Serve(s) \/ CloseAtServer(s)
  \/ HandlerStreams \/ HandlerReturns \/ ResponseTimeout \/ ResumeSend \/ ChunkTimeout
  \/ ForgetAbort \/ Restart

Spec == Init /\ [][Next]_vars

\* The reconnect loop makes a new socket when there is none that works;
\* messages on working sockets arrive; a close is heard of; handlers return;
\* code between two awaits runs.
Fairness ==
  /\ WF_vars(~up /\ SetServer)
  /\ WF_vars(cur \notin attached /\ CloseAtCaller)
  /\ \A s \in Sockets : WF_vars((s # cur \/ ~up) /\ CloseAtServer(s))
  /\ WF_vars(GetMessage)
  /\ \A s \in Sockets : WF_vars(Serve(s))
  /\ \A t \in Threads : WF_vars(Woken(t))
  /\ WF_vars(\E t \in RequestThreads : Confirm(t))
  /\ WF_vars(BecomeReady) /\ WF_vars(retry = "failed" /\ RetryFails)
  /\ WF_vars(HandlerStreams \/ HandlerReturns) /\ WF_vars(ResumeSend)

FairSpec == Spec /\ Fairness

-----------------------------------------------------------------------------
(* Properties.                                                             *)

\* The handler is called at most once in the life of a serving process, though
\* up to three threads send the request on every socket.
HandledOnce == runs <= 1 + restarts

\* Once the first loop is over, a request that is not settled is watched: the
\* loss of its socket, at any moment from the ACK on, starts retryOnClose, whose
\* timer bounds the outage.
RetryIsKept == pc[Main] = "done" /\ ~Settled => armed \/ retry # "off"

\* A result comes from a handler that returned, and the callback is given the
\* chunks of the handler's run in order, each once, over any number of sockets,
\* and all of them before the result, as long as the server is not replaced.
StreamIsIntact ==
  /\ outcome = "ok" => completed
  /\ restarts = 0 => /\ Len(got) <= Len(stream)
                     /\ \A i \in 1 .. Len(got) : got[i] = stream[i]
                     /\ outcome = "ok" => got = stream

\* A connection that drops does not fail a request by itself: while the second
\* one holds, a request fails by an abort or a deadline of one of the two ends
\* only, unless the serving process was replaced.
OneLossIsInvisible ==
  up /\ cur <= 2 /\ restarts = 0 => outcome \notin {"sendFailed", "unknownRequest", "reconnectFailed"}

\* With the connection up again, every request that was started is settled.
EveryRequestSettles == pc[Main] # "off" ~> Settled

\* No channel stays behind: neither that of the response at the server, nor, once
\* the request is settled, the caller's, whose release durable sends may defer.
ChannelsAreReleased ==
  /\ response # "none" ~> response = "none"
  /\ Settled ~> Released

\* The server closes the caller's working socket only after the message it sends
\* was lost on as many other sockets as it has attempts, half-open ones included.
WorkingSocketIsKept ==
  [][up /\ cur \notin Fallible /\ cur \in attached \ attached' /\ restarts' = restarts
      => Cardinality((1 .. cur - 1) \ attached') >= SendAttempts]_vars

=============================================================================
