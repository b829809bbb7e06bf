---------------------------- MODULE RouterSockets ----------------------------
(***************************************************************************)
(* The sockets of a serving router (PerfectWS.server in                    *)
(* src/src/PerfectWS.ts): attachClient with its heartbeat, autoReconnect,  *)
(* unregister, and the responses that are bound to a socket until it       *)
(* closes.  It runs on WebSocketForce and keeps the table ActiveResponses. *)
(*                                                                         *)
(* Everything here runs to completion: a close tells its listeners one     *)
(* after the other, each listener may call into the router, and what it    *)
(* calls may close other sockets.  calls is that call stack, its head the  *)
(* innermost call; no other step is taken until it is empty.               *)
(***************************************************************************)
EXTENDS ActiveResponses, WebSocketForce

ASSUME RouterSocketsAssumption == None \notin Sockets

VARIABLES
  attached,      \* sockets with an attachment that is not cleaned up
  heartbeat,     \* socket -> where its checkPingInterval is
  undo,          \* unregisterFunctions
  unregistered,  \* _unregistered
  ref,           \* response -> its clientRef.ref
  loop,          \* where connectionLoop of autoReconnect is
  latest,        \* its socketAsWSForce
  stopped,       \* its stopReconnecting
  calls,         \* the call stack
  silent,        \* no ping came on the socket for pingReceiveTimeout
  gone,          \* the peer vanished: nothing comes from it any more
  left           \* history: responses cut off by a close that said goodbye

routerVars == <<attached, heartbeat, undo, unregistered, ref>>
loopVars == <<loop, latest, stopped>>
vars == <<tableVars, socketVars, routerVars, loopVars, calls, silent, gone, left>>

\* The listeners of a socket: of an attachment, of autoReconnect, of a caller of
\* once('close'), and of each response that is connected to it.
Cleanup == <<"cleanup">>
Settle == <<"settle">>
Watch == <<"once">>
CloseListener(p) == <<"response", p>>

\* A call of the stack; None where a call is not about a socket.
Call(what, s) == [do |-> what, socket |-> s]
Frame == [do : {"dispatch", "cleanup", "force", "unregister", "application"},
          socket : Sockets \cup {None}]

UndoAttach(s) == <<"attachment", s>>
UndoLoop == <<"loop">>

\* unregisterFunctions without an unregister function that was called.
Forgotten(f) == Subsequence(undo, {i \in DOMAIN undo : undo[i] # f})

TypeOK ==
  /\ TableTypeOK
  /\ readyState \in [Sockets -> ReadyStates]
  /\ told \subseteq Sockets
  /\ attached \subseteq Sockets
  /\ heartbeat \in [Sockets -> {"off", "opening", "watching"}]
  /\ ToSet(undo) \subseteq {UndoAttach(s) : s \in Sockets} \cup {UndoLoop}
  /\ ref \in [Responses -> Sockets \cup {None}]
  /\ loop \in {"none", "waiting", "settled", "sleeping", "ended"}
  /\ latest \in Sockets \cup {None}
  /\ ToSet(calls) \subseteq Frame
  /\ {silent, gone} \subseteq SUBSET Sockets
  /\ left \subseteq Responses

Init ==
  /\ TableInit /\ SocketInit
  /\ attached = {}
  /\ heartbeat = [s \in Sockets |-> "off"]
  /\ undo = <<>>
  /\ unregistered = FALSE
  /\ ref = [p \in Responses |-> None]
  /\ loop = "none" /\ latest = None /\ stopped = FALSE
  /\ calls = <<>>
  /\ silent = {} /\ gone = {}
  /\ left = {}

\* Nothing refers to the socket any more, a call that is under way neither; the
\* name may stand for a new one.
Disposable(s) ==
  /\ s \notin attached
  /\ listeners[s] = <<>>
  /\ readyState[s] = "closed"
  /\ \A p \in Responses : ref[p] # s
  /\ \A call \in ToSet(calls) : call.socket # s

-----------------------------------------------------------------------------
(* What the router's functions do; rest is what is left to do after them.  *)

\* forceClose: the close event is dispatched unless it was before.
ForceClose(s, why, rest) ==
  /\ readyState' = [readyState EXCEPT ![s] = "closed"]
  /\ IF s \in told
     THEN calls' = rest /\ UNCHANGED <<told, reason, turn>>
     ELSE StartDispatch(s, why) /\ calls' = <<Call("dispatch", s)>> \o rest
  /\ UNCHANGED <<listeners, spent>>

\* releaseResponse of the responses of R: each detaches its close listener.
ReleaseResponses(R) ==
  /\ Release(R)
  /\ ref' = [p \in Responses |-> IF p \in R THEN None ELSE ref[p]]
  /\ left' = left \ R

Detached(R) ==
  [s \in Sockets |-> removeEventListeners(listeners[s], {CloseListener(p) : p \in R})]

\* _connectWSToOnRequestResponse: the response moves to socket s.
ConnectResponse(p, s) ==
  /\ listeners' = [Detached({p}) EXCEPT ![s] = addEventListener(s, @, CloseListener(p), FALSE)]
  /\ ref' = [ref EXCEPT ![p] = s]
  /\ left' = left \ {p}

\* Mutant of BoundTo: a client that says goodbye is left to reconnect.
BoundToNone(s, why) == {}

\* A client that says goodbye takes the responses of its socket with it.
BoundTo(s, why) ==
  IF why = "goodbye" THEN {p \in live : ref[p] = s} ELSE {}

\* cleanup of an attachment.
CleanupAttachment(s, why) ==
  IF s \in attached
  THEN /\ ReleaseResponses(BoundTo(s, why))
       /\ attached' = attached \ {s}
       /\ heartbeat' = [heartbeat EXCEPT ![s] = "off"]
       /\ listeners' = [Detached(BoundTo(s, why)) EXCEPT ![s] = removeEventListeners(@, {Cleanup})]
       /\ undo' = Forgotten(UndoAttach(s))
       /\ UNCHANGED unregistered
  ELSE UNCHANGED <<tableVars, routerVars, listeners, left>>

\* _releaseAllChannels, as far as it is about the sockets and the table.
ReleaseAllChannels ==
  /\ unregistered' = TRUE
  /\ ReleaseResponses(live)
  /\ listeners' = Detached(live)
  /\ UNCHANGED <<readyState, told, turn, spent, reason, attached, heartbeat, undo, loopVars,
                 silent, gone>>

FirstEntry(l) == [listener |-> l, once |-> FALSE, late |-> FALSE]

\* attachClient of a socket nobody listens to yet, with more listeners after it.
Attach(s, n, more) ==
  /\ NewSocket(s, n)
  /\ listeners' = [listeners EXCEPT ![s] = <<FirstEntry(Cleanup)>> \o more]
  /\ attached' = attached \cup {s}
  /\ heartbeat' = [heartbeat EXCEPT ![s] = IF n = "open" THEN "watching" ELSE "opening"]
  /\ silent' = silent \ {s}
  /\ gone' = gone \ {s}

-----------------------------------------------------------------------------
(* The peers, and the application.                                         *)

Quiet == calls = <<>>

\* The application runs when nothing else does, and in the handlers of
\* ___request.disconnected; there it makes at most one call at a time.
InApplication == ~Quiet => Head(calls).do = "application"
Rest == IF Quiet THEN <<>> ELSE Tail(calls)

\* A peer connects, and the application waits for the close with once('close');
\* the socket may be closed by the time it is attached.
AttachClient(s, n) ==
  /\ InApplication /\ ~unregistered /\ Disposable(s) /\ s # latest
  /\ Attach(s, n, IF n = "closed" THEN <<>> ELSE <<[FirstEntry(Watch) EXCEPT !.once = TRUE]>>)
  /\ undo' = Append(undo, UndoAttach(s))
  /\ calls' = Rest
  /\ UNCHANGED <<tableVars, unregistered, ref, loopVars, left>>

\* The function attachClient returned; autoReconnect keeps that of its socket.
DetachClient(s) ==
  /\ InApplication /\ s \in attached /\ s # latest
  /\ CleanupAttachment(s, "other")
  /\ calls' = Rest
  /\ UNCHANGED <<readyState, told, turn, spent, reason, loopVars, silent, gone>>

\* forceClose of a socket, by the application or by the delivery of a packet.
ForceCloseByApplication(s) ==
  /\ InApplication /\ readyState[s] # "closed"
  /\ ForceClose(s, "other", Rest)
  /\ UNCHANGED <<tableVars, routerVars, loopVars, silent, gone, left>>

\* Messages still come while the socket is closing.
Speaking(s) == readyState[s] \in {"open", "closing"}

\* onMessage with a request of client c: a known response moves to the socket
\* it came on, for an unknown one a response is made.
OnRequest(s, c, r) ==
  /\ Quiet /\ s \in attached \ gone /\ Speaking(s)
  /\ IF Found(c, r) THEN ref[<<c, r>>] # s /\ UNCHANGED tableVars ELSE Open(c, r)
  /\ ConnectResponse(<<c, r>>, s)
  /\ UNCHANGED <<readyState, told, turn, spent, reason, attached, heartbeat, undo,
                 unregistered, loopVars, calls, silent, gone>>

\* The request has its final answer, or its client sent ___session.release.
EndResponses(R) ==
  /\ Quiet /\ R # {}
  /\ ReleaseResponses(R)
  /\ listeners' = Detached(R)
  /\ UNCHANGED <<readyState, told, turn, spent, reason, attached, heartbeat, undo,
                 unregistered, loopVars, calls, silent, gone>>

EndResponse(p) == p \in live /\ EndResponses({p})

SessionRelease(s, c) ==
  /\ s \in attached \ gone /\ Speaking(s)
  /\ EndResponses({p \in live : p[1] = c})

\* ___ping of the client.
Ping(s) ==
  /\ Quiet /\ s \in attached \ gone /\ Speaking(s)
  /\ s \in silent
  /\ silent' = silent \ {s}
  /\ UNCHANGED <<tableVars, socketVars, routerVars, loopVars, calls, gone, left>>

\* Time passes without a ping, and a peer may vanish without a word.
FallSilent(s) ==
  /\ Quiet /\ s \in attached \ silent /\ readyState[s] = "open"
  /\ silent' = silent \cup {s}
  /\ UNCHANGED <<tableVars, socketVars, routerVars, loopVars, calls, gone, left>>

Vanish(s) ==
  /\ Quiet /\ s \in attached \ gone /\ readyState[s] # "closed"
  /\ gone' = gone \cup {s}
  /\ UNCHANGED <<tableVars, socketVars, routerVars, loopVars, calls, silent, left>>

\* The socket opens; checkPingInterval goes on to watch it.
NativeOpen(s) ==
  /\ Quiet /\ readyState[s] = "connecting" /\ s \notin gone
  /\ readyState' = [readyState EXCEPT ![s] = "open"]
  /\ heartbeat' = [heartbeat EXCEPT ![s] = IF @ = "opening" THEN "watching" ELSE @]
  /\ silent' = silent \ {s}
  /\ UNCHANGED <<tableVars, told, listeners, turn, spent, reason, attached, undo,
                 unregistered, ref, loopVars, calls, gone, left>>

\* close() of the socket, by the application.
CloseByApplication(s) ==
  /\ Quiet /\ readyState[s] = "open"
  /\ readyState' = [readyState EXCEPT ![s] = "closing"]
  /\ UNCHANGED <<tableVars, told, listeners, turn, spent, reason, routerVars,
                 loopVars, calls, silent, gone, left>>

\* The native close event: of the peer, or of the socket that gave up closing.
NativeClose(s, why) ==
  /\ Quiet /\ readyState[s] # "closed"
  /\ s \in gone => readyState[s] = "closing" /\ why = "other"
  /\ readyState' = [readyState EXCEPT ![s] = "closed"]
  /\ IF NativeCloseHandler(s) /\ s \notin told
     THEN StartDispatch(s, why) /\ calls' = <<Call("dispatch", s)>>
     ELSE UNCHANGED <<told, reason, turn, calls>>
  /\ UNCHANGED <<tableVars, listeners, spent, routerVars, loopVars, silent, gone, left>>

CallUnregister ==
  /\ InApplication /\ ~unregistered
  /\ calls' = <<Call("unregister", None)>> \o Rest
  /\ UNCHANGED <<tableVars, socketVars, routerVars, loopVars, silent, gone, left>>

-----------------------------------------------------------------------------
(* checkPingInterval.                                                      *)

OpenTimeout(s) ==
  /\ Quiet /\ heartbeat[s] = "opening"
  /\ heartbeat' = [heartbeat EXCEPT ![s] = "off"]
  /\ ForceClose(s, "other", <<>>)
  /\ UNCHANGED <<tableVars, attached, undo, unregistered, ref, loopVars, silent, gone, left>>

\* Mutant of PingIsLate: a socket that never sent a ping is not closed.
PingIsNeverLate(s) == FALSE

\* More than pingReceiveTimeout since the last ping; when the peer is gone it
\* comes to that.
PingIsLate(s) == s \in silent \cup gone

CheckPing(s) ==
  /\ Quiet /\ heartbeat[s] = "watching"
  /\ \/ readyState[s] # "open" /\ calls' = calls /\ UNCHANGED socketVars
     \/ readyState[s] = "open" /\ PingIsLate(s) /\ ForceClose(s, "other", <<>>)
  /\ heartbeat' = [heartbeat EXCEPT ![s] = "off"]
  /\ UNCHANGED <<tableVars, attached, undo, unregistered, ref, loopVars, silent, gone, left>>

-----------------------------------------------------------------------------
(* autoReconnect.                                                          *)

\* Mutant of AttemptThrows: the error ends the loop.
ThrowEndsLoop(more) ==
  /\ loop' = "ended"
  /\ undo' = undo \o more
  /\ UNCHANGED <<socketVars, attached, heartbeat, latest, silent, gone>>

\* One turn of connectionLoop up to its await; more is what autoReconnect adds
\* to unregisterFunctions after the first turn.  The constructor throws, ...
AttemptThrows(more) ==
  /\ loop' = "sleeping"
  /\ undo' = undo \o more
  /\ UNCHANGED <<socketVars, attached, heartbeat, latest, silent, gone>>

\* Mutant of AttachRefused: a socket is attached to an unregistered router.
NeverRefused == FALSE

\* attachClient throws on a router that was unregistered.
AttachRefused == unregistered

\* ... or it makes socket s, which is attached and waited for; one that cannot
\* be attached is closed, and one that is closed already is not waited for.
AttemptConnects(s, n, more) ==
  /\ Disposable(s)
  /\ latest' = s
  /\ \/ /\ AttachRefused
        /\ NewSocket(s, "closed")
        /\ loop' = "sleeping"
        /\ undo' = undo \o more
        /\ silent' = silent \ {s} /\ gone' = gone \ {s}
        /\ UNCHANGED <<listeners, attached, heartbeat>>
     \/ /\ ~AttachRefused
        /\ Attach(s, n, IF n = "closed" THEN <<>> ELSE <<FirstEntry(Settle)>>)
        /\ loop' = IF n = "closed" THEN "settled" ELSE "waiting"
        /\ undo' = undo \o <<UndoAttach(s)>> \o more

Attempt(more) ==
  /\ \/ AttemptThrows(more)
     \/ \E s \in Sockets, n \in {"connecting", "closed"} : AttemptConnects(s, n, more)
  /\ UNCHANGED <<tableVars, unregistered, ref, left>>

AutoReconnect ==
  /\ InApplication /\ loop = "none"
  /\ Attempt(<<UndoLoop>>)
  /\ calls' = Rest
  /\ UNCHANGED stopped

Reconnect ==
  /\ Quiet /\ loop = "sleeping" /\ ~stopped
  /\ Attempt(<<>>)
  /\ UNCHANGED <<stopped, calls>>

\* The error event of the socket it waits for.
ErrorSettles(s) == loop = "waiting" /\ latest = s

NativeError(s) ==
  /\ Quiet /\ readyState[s] # "closed" /\ ErrorSettles(s)
  /\ loop' = "settled"
  /\ listeners' = [listeners EXCEPT ![s] = removeEventListeners(@, {Settle})]
  /\ UNCHANGED <<tableVars, readyState, told, turn, spent, reason, routerVars, latest,
                 stopped, calls, silent, gone, left>>

\* The finally of a turn: the attachment is cleaned up, the socket is closed.
FinishAttempt ==
  /\ Quiet /\ loop = "settled"
  /\ calls' = <<Call("cleanup", latest)>> \o
       (IF readyState[latest] = "closed" THEN <<>> ELSE <<Call("force", latest)>>)
  /\ loop' = "sleeping"
  /\ UNCHANGED <<tableVars, socketVars, routerVars, latest, stopped, silent, gone, left>>

\* The loop sees that it was stopped; the abort ends its sleep.
EndLoop ==
  /\ Quiet /\ loop = "sleeping" /\ stopped
  /\ loop' = "ended"
  /\ UNCHANGED <<tableVars, socketVars, routerVars, latest, stopped, calls, silent, gone, left>>

\* stopReconnectingFn.
StopReconnecting(rest) ==
  /\ stopped' = TRUE
  /\ IF stopped \/ latest = None
     THEN calls' = rest /\ UNCHANGED socketVars
     ELSE ForceClose(latest, "other", rest)

\* The function autoReconnect returned.
StopByApplication ==
  /\ InApplication /\ loop # "none" /\ ~stopped
  /\ StopReconnecting(Rest)
  /\ undo' = Forgotten(UndoLoop)
  /\ UNCHANGED <<tableVars, attached, heartbeat, unregistered, ref, loop, latest, silent, gone, left>>

-----------------------------------------------------------------------------
(* The innermost call goes on.                                             *)

\* A response was connected to the socket that closed: it is disconnected, and
\* the handlers of ___request.disconnected run.  left notes a goodbye, unless
\* the attachment was removed before it.
Disconnect(s, p) ==
  /\ ref' = [ref EXCEPT ![p] = IF @ = s THEN None ELSE @]
  /\ left' = IF reason[s] = "goodbye" /\ (s \in attached \/ Cleanup \in {e.listener : e \in spent[s]})
            THEN left \cup {p} ELSE left
  /\ listeners' = [listeners EXCEPT ![s] = removeEventListeners(@, {CloseListener(p)})]
  /\ calls' = <<Call("application", None)>> \o calls
  /\ UNCHANGED <<tableVars, attached, heartbeat, undo, unregistered, loop>>

ResolveOnce(s) ==
  /\ listeners' = [listeners EXCEPT ![s] = removeEventListeners(@, {Watch})]
  /\ UNCHANGED <<tableVars, routerVars, loop, calls, left>>

SettleLoop(s) ==
  /\ loop' = IF loop = "waiting" /\ latest = s THEN "settled" ELSE loop
  /\ listeners' = [listeners EXCEPT ![s] = removeEventListeners(@, {Settle})]
  /\ UNCHANGED <<tableVars, routerVars, calls, left>>

\* The next listener of a dispatch is told, or passed over.
TellNext(s) ==
  /\ turn' = [turn EXCEPT ![s] = Tail(@)]
  /\ LET e == Head(turn[s]) IN
       IF StillListed(s, e)
       THEN /\ spent' = [spent EXCEPT ![s] = @ \cup {e}]
            /\ \/ /\ e.listener = Cleanup
                  /\ CleanupAttachment(s, reason[s])
                  /\ UNCHANGED <<loop, calls>>
               \/ e.listener = Settle /\ SettleLoop(s)
               \/ e.listener = Watch /\ ResolveOnce(s)
               \/ \E p \in Responses : e.listener = CloseListener(p) /\ Disconnect(s, p)
       ELSE UNCHANGED <<tableVars, routerVars, listeners, spent, loop, calls, left>>
  /\ UNCHANGED <<readyState, told, reason, latest, stopped, silent, gone>>

Dispatch(s) ==
  \/ turn[s] # <<>> /\ TellNext(s)
  \/ /\ turn[s] = <<>>
     /\ EndDispatch(s)
     /\ calls' = Tail(calls)
     /\ UNCHANGED <<tableVars, readyState, told, turn, routerVars, loopVars, silent, gone, left>>

RunCleanup(s) ==
  /\ CleanupAttachment(s, "other")
  /\ calls' = Tail(calls)
  /\ UNCHANGED <<readyState, told, turn, spent, reason, loopVars, silent, gone>>

RunForce(s) ==
  /\ ForceClose(s, "other", Tail(calls))
  /\ UNCHANGED <<tableVars, routerVars, loopVars, silent, gone, left>>

\* unregister: the last of unregisterFunctions is taken until none is left,
\* those that are listed meanwhile too; then everything is released.
RunUnregister ==
  \/ /\ undo # <<>>
     /\ undo' = Front(undo)
     /\ \/ /\ Last(undo) = UndoLoop
           /\ StopReconnecting(calls)
        \/ \E s \in Sockets :
             /\ Last(undo) = UndoAttach(s)
             /\ ForceClose(s, "goodbye", <<Call("cleanup", s)>> \o calls)
             /\ UNCHANGED stopped
     /\ UNCHANGED <<tableVars, attached, heartbeat, unregistered, ref, loop, latest, silent, gone, left>>
  \/ /\ undo = <<>>
     /\ ReleaseAllChannels
     /\ calls' = Tail(calls)

ReturnToRouter ==
  /\ ~Quiet /\ Head(calls).do = "application"
  /\ calls' = Tail(calls)
  /\ UNCHANGED <<tableVars, socketVars, routerVars, loopVars, silent, gone, left>>

RunCall ==
  /\ ~Quiet
  /\ LET call == Head(calls) IN
       \/ call.do = "dispatch" /\ Dispatch(call.socket)
       \/ call.do = "cleanup" /\ RunCleanup(call.socket)
       \/ call.do = "force" /\ RunForce(call.socket)
       \/ call.do = "unregister" /\ RunUnregister

-----------------------------------------------------------------------------

Application(s) ==
  \/ \E n \in {"open", "closed"} : AttachClient(s, n)
  \/ DetachClient(s) \/ ForceCloseByApplication(s) \/ CloseByApplication(s)

Peer(s) ==
  \/ \E c \in Clients, r \in RequestIds : OnRequest(s, c, r)
  \/ \E c \in Clients : SessionRelease(s, c)
  \/ Ping(s) \/ FallSilent(s) \/ Vanish(s) \/ NativeOpen(s) \/ NativeError(s)
  \/ \E why \in Reasons : NativeClose(s, why)

Next ==
  \/ \E s \in Sockets : Application(s) \/ Peer(s) \/ OpenTimeout(s) \/ CheckPing(s)
  \/ \E p \in Responses : EndResponse(p)
  \/ CallUnregister \/ AutoReconnect \/ StopByApplication
  \/ Reconnect \/ FinishAttempt \/ EndLoop
  \/ RunCall \/ ReturnToRouter

\* Calls return, timers fire, a socket that closes gets closed; whether a peer
\* or the application does anything is up to them.  Fairness is strong because a
\* timer that is due stays due while other calls run to completion.
Fairness ==
  /\ WF_vars(RunCall) /\ WF_vars(ReturnToRouter)
  /\ SF_vars(Reconnect) /\ SF_vars(FinishAttempt)
  /\ \A s \in Sockets :
       /\ SF_vars(OpenTimeout(s)) /\ SF_vars(CheckPing(s))
       /\ SF_vars(readyState[s] = "closing" /\ NativeClose(s, "other"))

Spec == Init /\ [][Next]_vars /\ Fairness

-----------------------------------------------------------------------------

\* However the listeners of sockets remove and add listeners and close sockets
\* while they are told, each close is heard as CloseNotice says: once, by all
\* that are listed when their turn comes, and by nobody else.
Notice == INSTANCE CloseNotice WITH
  closed <- told,
  registered <- [s \in Sockets |-> Names(listeners[s])],
  owed <- [s \in Sockets |-> {e.listener : e \in {x \in ToSet(turn[s]) : StillListed(s, x)}}],
  heard <- [s \in Sockets |-> {e.listener : e \in spent[s]}]

CloseNotices == Notice!Spec

\* A response outlives the close of its socket, to go on when its client comes
\* back, but not the close of an attached socket that says the client is gone
\* for good; that depends on the order in which the close listeners are told.
GoodbyeReleases == live \cap left = {}

\* When unregister has returned, nothing of what was attached is left, though
\* closing a socket may run code that attaches, stops or unregisters meanwhile:
\* no attachment, no response, no open socket of autoReconnect.
UnregisteredHoldsNothing ==
  unregistered /\ Call("unregister", None) \notin ToSet(calls) =>
    /\ attached = {} /\ live = {}
    /\ \A s \in Sockets : heartbeat[s] = "off" /\ Cleanup \notin Names(listeners[s])
    /\ latest # None => readyState[latest] = "closed"

\* A peer that vanishes without a word, before or after the socket opened, does
\* not keep its attachment.
VanishedPeerIsDropped == \A s \in Sockets : s \in gone /\ s \in attached ~> s \notin attached

\* autoReconnect gets another socket after one whose peer vanished, also when
\* attempts fail in between, until it is stopped.
ReconnectGoesOn == loop # "none" /\ latest \in gone ~> latest \notin gone \/ stopped

=============================================================================
