# Verification of perfect-ws

perfect-ws (TypeScript, `src/src/`) is request/response, streaming and live-value RPC
over WebSockets that drop and come back. This directory holds TLA+ modules of its
protocol core, the TLC instances that check them, and proofs checked by TLAPS.

1. [Inventory of the system](#1-inventory-of-the-system)
2. [Modules and plan](#2-modules-and-plan)
3. [How the modules correspond to the code](#3-how-the-modules-correspond-to-the-code)
4. [What each run checks](#4-what-each-run-checks)
5. [What is proved](#5-what-is-proved)
6. [What is only model-checked](#6-what-is-only-model-checked)
7. [Findings and observations](#7-findings-and-observations)
8. [What is not modelled](#8-what-is-not-modelled)

To check one instance: `tlc -config RequestChannel_faults.cfg RequestChannel.tla`
(the configurations of `PacketDelivery`, `RouterSockets`, `ServerHost`, `ClientHost` and
`RemoteServer` go with the `MC` module of that name). To check the proofs of a module:
`tlapm RequestChannelProofs.tla`.
`PROJECT.json` lists, for every definition, the lines it translates; for every property,
a plausible bug that violates it; and every hazard with the properties aimed at it.

## 1. Inventory of the system

| Component | State | Operations | Interacts with | Correct when |
|---|---|---|---|---|
| Packet delivery (`PerfectWS._sendWithAck`, `_acceptPacket`) | `_pendingAcks` by packet id, remembered packet ids by client | send with ACK and retries, accept or drop a packet, expire ids, give a socket up | every message that needs an ACK; the sockets' close events | a packet is accepted once per retention; a call that reports delivery tells the truth; no entry or timer outlives its attempt; a call that fails gives its socket up |
| Request channel (`request`, `_onRequest`, `_setServer`, internal methods) | `_activeRequests`, `_activeResponses`, `_pendingAborts`, `_server`, waiters | start, replay, retry on close, abort, deadline; serve, stream, finish, release; synchronise | packet delivery, sockets, the application's handlers | the handler runs once; its result and its chunks reach the caller whole; the request is settled and released at both ends whatever is lost |
| Table of responses (`_setActiveResponse`, ...) | `_activeResponses` by request id or by client and request id | open, look up, release | request channel | a lookup finds the response of that client and no other |
| Sockets of a router (`attachClient`, `setServer`, `autoReconnect`, ping loops) | unregister functions, last ping times | attach, detach, reconnect, heartbeat | everything above | a dead socket is given up, a working one is kept, the loop goes on |
| `WebSocketForce` | virtual close listeners, `_forceClosed` | forced close, one dispatch of close | everything above | every listener hears of the close exactly once |
| `ServerHost`, `ClientHost` | connection counter, pending sockets, registered sockets, rate limiter | handshake, wait for an older socket, hand over, stop | temporary and persistent routers | the counter is exact; `stop()` reaches every socket; an id is served once; the registry is true |
| `RemoteClient`, `RemoteServer` | attempt loop, hand-over state, `clients` | start/attach, retry, hand over, stop/unregister | a host at the other end | no message falls between the two routers; what is served is listed; stopping is final |
| `PasswordRateLimiter` | failures by key and window | check, record, reset, sweep | hosts | a key over its limit is refused for the window |
| Callbacks (`TransformCallbacks`) | registered functions and their leases, wrappers, results kept until acknowledged | transfer, call, release, commit or roll back a send | request channel events | what the peer can reach is registered, what it cannot is released; a call runs once; the channel lives as long as it is used |
| PureRPC handles (`TransformPureRPC`, `PureRPCRegistry`, `createPureRPCProxy`) | registry, provisional handles, leases, proxies, writes under way, results kept until acknowledged | transfer, read, write, call, dispose, release, commit or roll back a send | request channel events | an object is exposed exactly as long as it is reachable; writes come before later reads; every operation settles |
| `TransformAbortSignal` | a controller for each signal received | transfer, abort, release | request channel events | a signal follows the one it was made from |
| Conversions (`TransformNativeTypes`, ..., `changeType`) | none | encode, decode | every payload | decode undoes encode |

Components talk in three ways. A router **calls** its sockets and hears of them through
listeners (`message`, `close`, the forced close of `WebSocketForce`). The two ends of a
connection exchange **messages**, each with a packet id that the receiver acknowledges
and remembers. Components of one process **share state**: the threads of one request
share `activeRequest.server`, all calls share `_pendingAcks`, all handshakes of a host
share its counter and its registry.

What is hard here is not one component but what happens between two `await`s of several:
a socket closes between a send and the listener that would notice it, a retry crosses a
late ACK, a synchronisation over a new socket meets packets of the old one, two
handshakes wait for the same socket, a release crosses another transfer of the same
function. `PROJECT.json` lists these places as hazards, each with its line and the
properties that would catch it.

## 2. Modules and plan

| Module | Models | Depends on |
|---|---|---|
| `AckedDelivery` | the promise of packet delivery (abstract specification) | - |
| `PacketDelivery` | `_sendWithAck`, `_acceptPacket`, the ACK branch, retention, limits | implements `AckedDelivery` |
| `PacketDeliveryProofs` | type correctness, the safety theorems and the refinement | `PacketDelivery` |
| `RequestChannel` | one request, from the call to its release at both ends | takes a send as `PacketDelivery` shows it |
| `RequestChannelProofs` | the handler runs once, a request under way is watched, streams arrive whole, working sockets are kept, one loss stays hidden | `RequestChannel` |
| `ActiveResponses` | the table of responses when clients choose the same ids; `TableSpec` is its abstract specification | - |
| `CloseNotice` | what a listener may expect of the close of a socket (abstract specification) | - |
| `WebSocketForce` | the list of close listeners and its dispatch, forced and native close | - |
| `RouterSockets` | attachments, heartbeat, `autoReconnect`, `unregister`, responses bound to sockets | extends `ActiveResponses` and `WebSocketForce`, implements `CloseNotice` and `TableSpec` |
| `RouterSocketsProofs` | the table of responses, the invariant of the sockets, both refinements | `RouterSockets` |
| `HostHandshake` | what the handshakes of both hosts share, the password limiter | - |
| `ServerHost`, `ClientHost` | the two hosts | extend `HostHandshake` |
| `HostProofs` | counter, `stop()`, registry, limiter, places, for both hosts | `ServerHost` and `ClientHost` |
| `RemoteServer`, `RemoteClient` | the hosts' counterparts, with the router hand-over | - |
| `RemoteServerProofs`, `RemoteClientProofs` | every safety property of the two | the module of that name |
| `CallbackLeases` | a function's registration, leases, transfer, wrapper, finalizer | - |
| `LiveCallbacks` | calls, deduplication, limits and the life of the channel | extends `CallbackLeases` |
| `LiveCallbacksProofs` | every safety property of callbacks | `LiveCallbacks` |
| `HandleLeases` | an object's registration, provisional handle, leases, transfer, proxy | - |
| `LiveHandles` | operations on a handle: order, deduplication, limits, end of the channel | extends `HandleLeases` |
| `LiveHandlesProofs` | every safety property of handles | `LiveHandles` |
| `MC*` | instances | the module of that name |

The order was: packet delivery first, since everything rests on it; the request channel;
what opens and closes sockets (router, hosts, remotes); live values. Modules are written
to be proved about: parameters are constants with named assumptions, one action per
operation, no recursive operators.

What could follow, most valuable first:

1. `TransformAbortSignal` over the leases of callbacks; a live value that is sent back to
   its owner (section 7 has an observation about that).
2. Two attachments of a `RemoteServer` to one host.

## 3. How the modules correspond to the code

### PacketDelivery and AckedDelivery

One call of `_sendWithAck` is an operation `o`: `phase[o]` is where it stands, `sock[o]`
the socket of its current attempt, `attempt[o]` its counter. `Begin` is the head of the
function, `TryClosed`, `Try`, `TrySocketFull`, `TryTotalFull`, `FailTotalFull` are one turn
of its loop by the outcome of the checks at `PerfectWS.ts:1018-1050` (the last two by
whether closing the fullest socket made room, 1046), `Timeout`, `Abort` and `ReceiveAck`
end an attempt, `GiveUp` closes the socket after the last one. `pendingAcks` is
`_pendingAcks`: it maps a packet to the closure that made the entry, so that a later call
with the same packet id overwrites an earlier one (replay against retry), and `ghosts` are
closures whose entry is gone or not theirs while their timer still runs. `processed` and
`buckets` are the remembered ids; `Accept`, `ReceiveDuplicate` and `Refuse` are
`_acceptPacket`; `Expire` and `DropBucket` the clean-up. Each socket has a queue of
packets and one of ACKs, and the two ends close it independently (`senderOpen`,
`receiverOpen`); `Lose` drops what a broken socket still holds. `Abortable` are the calls
that were given an abort signal.

`AckedDelivery` keeps only how often each packet was accepted, whether its id is
remembered, and each call's report: a report of "delivered" is allowed only for an
accepted packet, and an acceptance only while the id is not remembered. The refinement
mapping (`Abstract` in `PacketDelivery`) forgets sockets, queues, entries and timers.

### RequestChannel

One request of one client. The caller has several threads for it - the first send
(`Main`), the replay of each synchronisation (`Replay(s)`), the resend of `retryOnClose`
(`Resend`) and the durable send of the abort event (`Abort`) - which share
`activeRequest.server`, `hasSent` and `deliveryConfirmed`. `GetRequestAck` resolves a send
and `Confirm` is what its continuations do later (894-901), with closes and other messages
in between. Sockets are numbered in the order of `setServer`; one that was replaced may
stay attached at the server, half-open, for as long as it likes. `SetServer`, `CloseAtCaller`, `BecomeReady`, `GetSyncReply`,
`GetHasReply`, `RetryFails` are the reconnect path; `ServeRequest`, `ServeDuplicate`,
`ServeAbort`, `ServeSync`, `ServeHas`, `ServeAck` the serving router's handlers;
`HandlerStreams`, `HandlerReturns`, `ResumeSend`, `ChunkTimeout`, `OutOfTries`,
`ResponseTimeout` its `_onRequest`; `Restart` replaces the serving process, tables and all.

A send is what `PacketDelivery` shows of it: one copy, true with the ACK, false when the
socket closes (running out of attempts closes it). Sends that throw on an open socket and
the expiry of remembered ids are therefore left to `PacketDelivery`. So a send of the server returns false only when its socket closes, and the timers of a
half-open socket close it at any time. The handler awaits each send, and what it does after its response was released changes nothing here. The
retries of `___syncRequests` and `___hasRequest` are one message each.

### ActiveResponses

`SetActiveResponse`, `DeleteActiveResponse` and `Found` (`_getActiveResponse`) over the
table that is keyed by request id as long as one client uses the id, and by client and
request id for those that come second. JSON-composed keys never equal a request id. `live`
is the history of what was opened and not released; `Open` and `Release` are the
operations, of one response or, when a client says goodbye or the router is unregistered,
of many at once. `TableSpec` lets them happen in any order.

### WebSocketForce, CloseNotice, RouterSockets

`listeners[s]` is the list `_virtualCloseListeners` of a socket, `told` its
`_closeEventDispatched`. A dispatch takes a copy of the list (`turn[s]`) and tells one
entry after the other, each only if it is still listed (`StillListed`); listeners added
meanwhile are marked `late`. `CloseNotice` says the same without copies and lists: who
listens when the close comes is owed one notice, until he stops listening.

`RouterSockets` is a serving router and, with `autoReconnect`, one that dials. A close
tells its listeners synchronously, a listener calls into the router, and what it calls may
close other sockets; so `calls` is the call stack, `RunCall` makes its innermost call go
on, and no other action is taken until it is empty (`Quiet`). The listeners are those of
an attachment (`Cleanup`), of the loop (`Settle`), of the application (`Watch`, a
`once('close')`) and of each response bound to the socket (`CloseListener(p)`), whose
handlers of `___request.disconnected` are the application's and may attach, detach, close,
stop or unregister (`InApplication`). `AttachClient`, `CleanupAttachment`, `CheckPing`,
`OpenTimeout`, `OnRequest`, `SessionRelease`, `RunUnregister`, `Reconnect`,
`FinishAttempt`, `StopReconnecting` are the functions of those names or the callbacks of
their timers. `silent` and `gone` say what a peer does: no ping for a while, and nothing
ever again. A close carries its reason, since a client that says goodbye takes its
responses with it. A socket name is used again when nothing refers to it, no call under way either
(`Disposable`); a socket is attached once in its life. What is removed from a list by a
test (`Subsequence`) is said without the recursion of `SelectSeq`, which the provers
cannot see into.

### HostHandshake, ServerHost, ClientHost

One socket per handshake. `stage[s]` is the `await` at which `_onConnection` stands
(password, id, waiting for an older socket, hook, done), `link[s]` the state of the
connection. `HostHandshake` has what both hosts do in the same words: the connection
limit, the blocked key, the password, the failing request, the hook, closing, `stop()`.
Definitions of one host begin with `Server` or `Client`, since `HostProofs` extends both.
`ServerHost` adds the registry (`clients`, `_clientSockets`), `ClientHost` the single
`_lastSocket`. A forced close runs every close listener in the same step (`Dispatch`).
The limiter keeps its tracked keys in the order of insertion (`tracked`) and their
failures (`attempts`): `Blocked`, `RecordFailure` with the eviction of the oldest key at
`MaxTrackedKeys`, `Untrack` for a success, the end of a window (which may come at any
time, with or without a sweep) and `dispose`. A password request that fails or is cut
counts as a failure, as in the code. `Orderly` are peers that open a connection only after
the close of the last one began, as `RemoteClient`/`RemoteServer` do; their close may be a
closing handshake (`BeginClose`), in which the host sees their socket CLOSING for a while.
`beside` is a history: the ids for which the host met such a socket and did not wait.

### RemoteServer, RemoteClient

Each connection attempt hands a socket from a temporary router (the handshake) to the
persistent one. The state is the attempt's socket, its queue, who reads it (`reader`),
which `await` the handshake stands at, and the host's side of the handshake, from the code
of the host and of the router it sets (`HostStep`). `SameTurn` says whether messages that
came in one chunk are dispatched in one turn, before any continuation runs: `ws` does so by
default, a browser does not. The runs take the first, the proofs both. An attempt whose constructor throws is an `Open` followed
by a `Lose`. For `RemoteServer` the attachments go to different hosts (`OwnHosts`).

### CallbackLeases, LiveCallbacks

One function of the *owner*, sent to the *holder* in several messages (`Sends`). The owner
numbers its leases (`id`, `sequence`); a send is prepared (`Prepare`: register or renew,
take a lease), then put on the wire or rolled back (`PutOnWire`, `Rollback`), received
(`Receive`: a wrapper, or a higher lease for the wrapper there is), or lost for good. The
holder's wrapper may be collected at any time (`Collect`), and its finalizer sends a
release for the lease it last knew (`Finalize`), which the owner obeys only if no later
lease exists (`ReleaseEntry`). `LiveCallbacks` adds the calls of the wrapper (`Invoke`,
`Send`, copies of the request, `HandleRequest` with its table of pending results and its
capacity, `Return`, `Acknowledge`) and the life of the channel (`AskRelease`,
`ReleaseChannel`, `PeerReleased`), which either end makes once nothing keeps it. A
release that is due is made before anything else happens (`Due`, `Acts`), because the code
makes it in the same turn.

A send is received at most once (`PacketDelivery`), in any order, and may be lost for good
(an event that is not durable, whose attempts are used up; or a replay that serialises the
same packet again, of which one copy is dropped). A request of a call may be accepted
again, after its packet id was forgotten.

### HandleLeases, LiveHandles

One object of the *owner*. Its id is in up to three tables: `registry`
(`PureRPCRegistry`), `provisional` (the transactions that share a handle nobody has
confirmed) and `leases` (`HandleLeaseState`: current, committed and pending leases and a
release that waits). `Prepare` is `_serializePureRPC`, `Commit` and `Undo` are the pairs
of commit and rollback registrations in the order the transaction runs them,
`ReleaseHandle` the release operation. The holder's proxy (`proxies[g]`) has a lease that
rises with each send; it ends by `Dispose` or by `Collect` and `Finalize`.

In `LiveHandles` an operation is a write (`Write`, sent at once and remembered in
`pendingSets`) or a read or call (`Ask`), which waits for the writes it found
(`waitsFor`, `Proceed`). `Send`, `ReceiveRequest` with `HandleRequest` (stored results,
capacity), `Return`, `ReceiveResponse`, `Acknowledge` are as for callbacks. `through[g]` is
what holds the `leaseAnchor` of a proxy: operations made through it until they settle.
`ReleaseAll(e)` ends the channel at one end, and `PeerReleased` at the other. What is on
the wire when an end releases the channel is dropped: at the other end it would change
nothing that the properties speak of. When the channel is released is not repeated here
(`Stop` may come at any time); `LiveCallbacks` has it.

## 4. What each run checks

| Run | Instance | States | Shows |
|---|---|---|---|
| `PacketDelivery_faults` | 4 calls, 2 of each of 2 packets; 2 sockets, 1 client, 1 attempt per call, limits of 2 entries and 1 remembered id, closes, throws, aborts of 2 calls | 1.05 M | `NoOrphanEntry`, `FailureClosesSocket`, `ImplementsAckedDelivery` |
| `PacketDelivery_prompt` | 3 calls of one packet, up to 3 attempts, a network that answers in time, one expiry | 1.8 k | `AcceptedOncePerRetention`, `PromptNetworkKeepsSockets` (overwritten entries do not cost a healthy socket), `EveryCallReturns` |
| `RequestChannel_faults` | 3 sockets of which 2 may fail, half-open sockets that deliver late, abort, the server's deadline, timeouts, one restart, 1 chunk, 2 attempts | 619 k | `HandledOnce`, `RetryIsKept`, `StreamIsIntact`, `WorkingSocketIsKept` |
| `RequestChannel_progress` | 3 sockets of which 2 may fail or stay half-open, the caller's deadline, one restart, 1 chunk, 3 attempts, fair | 337 k | `EveryRequestSettles`, `ChannelsAreReleased`, `OneLossIsInvisible` |
| `RouterSockets_sockets` | 2 sockets, whose names are used again for any number of connections, 2 clients that use one request id | 840 k | `LookupIsExact`, `CloseNotices` (the refinement), `GoodbyeReleases`, `UnregisteredHoldsNothing` |
| `RouterSockets_progress` | 1 socket at a time, fair | 22 k | `VanishedPeerIsDropped`, `ReconnectGoesOn` |
| `ServerHost` | 4 sockets of 2 clients at 2 addresses, 3 connections, 2 failures, 1 tracked key, closing handshakes, `stop()` | 41 k | `CountIsExact`, `StopReachesEverySocket`, `RegistryIsExact`, `GuessesAreBounded`, `HandshakesEnd` |
| `ClientHost` | 4 sockets of 2 servers, one of which is orderly | 46 k | `StopReachesEverySocket`, `LiveServerKeepsItsPlace` |
| `RemoteServer` | 2 attachments, 3 attempts each, one turn per chunk | 213 k | `ServedIsListed`, `CallsReachServer`, `UnregisteredIsClosed`, `AttachmentIsServed` |
| `RemoteClient` | 3 attempts, one turn per chunk | 130 | `HandedOverIsServed`, `ClientIsServed` |
| `LiveCallbacks` | 2 sends, 2 registrations, 1 call of up to 2 copies, room for 1 operation beside 1 other, the holder made the request | 318 k | `FunctionFollowsWrappers`, `CallRunsOnce`, `ReleaseCutsNothing`, `ChannelIsReleased` |
| `LiveHandles` | 2 sends, 2 registrations, 1 write and 1 call, either of which is sent up to twice, room for 1 handle and 2 operations, each shared with 1 other | 806 k | `ObjectFollowsProxies`, `OperationFindsItsObject`, `WritesComeFirst`, `OperationsSettle` |

**Why the bounds are enough.** Two calls of each of two packets are the smallest
instance in which an entry is overwritten while a limit is reached, and in which a late
send fills the table after its socket was closed; two sockets let a call outlive one. (The limit on clients with remembered ids does not bind with one client; the
proofs cover it for every number.) Three sockets of which two fail let a request be lost,
replayed, lost again during the replay, and end on a socket that works; with two attempts
they also let a message be lost on as many sockets as it has attempts; a second chunk
adds no new crossing, since chunks and the final response already cross (and section 5
proves the stream for any number). Two sockets of a router are the fewest that let a
listener of one close the other, or a response move from one to the other; since a name is
used again, one socket is enough for any number of reconnections. Four sockets at three
connections reach the connection limit, an older and two newer sockets of one id, and a
socket of another id beside them; with one tracked key each failure of the other
address evicts. Three attempts let a late event of the first meet the second and a third
follow. Two sends of a function or an object let one overtake the other and both a
release; the safety properties of `LiveCallbacks` were also checked with three sends
(8.3 M states) and, with two, with the owner as the requester (335 k states). In
`LiveHandles` one of the two operations, either one (`MaxRepeated`), may be put on the wire
twice: the crossing that could break the order is a late copy of the write and the call,
which needs no more.

The progress run of `RequestChannel` leaves out the caller's abort and the server's deadline,
which the faults run has, to stay small. It has more attempts (3) than sockets are lost under
one send: with 2 a chunk may give up without its caller being told, and a final response may
close the last socket there is; either leaves the request unsettled (section 7). And what a
half-open socket still carries is lost once the next synchronisation is served
(`LateDelivery = FALSE`), for a late `___syncRequests` may abort the newer request. The
faults run delivers all of it; with the caller's deadline as well, which the progress run has,
it was checked at 3.6 M states.

Bounds that are not parameters of the code: `MaxExpiries`, `MaxSocket`, `MaxRestarts`,
`MaxChunks`, `MaxTries`, `MaxId`, `MaxCopies`, `MaxRepeated`, and `MaxOthers`,
`OtherHandles`, `OtherOperations`, which stand for everything else that uses a table of
limited size: each check of the limit may find any number of others up to that bound.

**Symmetry** is used only in `PacketDelivery_faults` and `RouterSockets_sockets`, which
have no liveness property. **Deadlock** is not checked where the system may rest for good:
all calls returned, the host stopped, the request released, the router unregistered.

**Fairness and why the code justifies it.** `PacketDelivery`: timers fire, code between
two `await`s runs, open sockets move their messages (`Prompt` additionally says that an
ACK of an open socket comes before its timer: it is the premise of
`PromptNetworkKeepsSockets`, not of the safety properties). `RequestChannel`: the
reconnect loop (`autoReconnect`) calls `setServer` again when no socket works, a close is
heard of at both ends (the ping loop sees to it), messages on working sockets arrive, the
application's handler returns. Sockets may fail only `MaxSocket - 1` times, so that
"eventually" has a socket to happen on. Nothing makes timeouts, aborts or restarts
happen. `RouterSockets`: calls return, timers fire (the check of pings, the connection
timeout, the sleep of `autoReconnect`), a socket that is closing gets closed (the
library's close timeout). Fairness of the timers is strong: the event loop runs other
code to completion in between, during which `Quiet` disables them, but it keeps a timer
that is due. Nothing is assumed of peers or of the application. Hosts: the peer answers or
the request times out, hooks return, a socket that began to close ends. Remotes: the retry
delay passes, messages arrive, the host goes on. `LiveCallbacks` and `LiveHandles`: retries
and durable sends go on, functions return, a collected wrapper is finalised, a due release
is made - but nothing forces the application to drop a wrapper or a proxy.

## 5. What is proved

| Theorem | Module | States |
|---|---|---|
| `TypeCorrect` | `PacketDeliveryProofs` | `TypeOK`, and a call that waits is within its attempts |
| `AcceptsOnce` | | `AcceptedOncePerRetention` |
| `EntriesBelongToAttempts` | | `NoOrphanEntry` |
| `DeliveryIsTrue` | | `DeliveredWasAccepted` |
| `FailuresCloseSockets` | | `FailureClosesSocket` (an action property) |
| `ImplementsAbstract` | | `PacketDelivery` implements `AckedDelivery` |
| `PromptNetworksKeepSockets` | | `PromptNetworkKeepsSockets`, from `RoomForAll`, `Prompt`, `~Faulty`, `Abortable = {}` and `OneSocketEach` |
| `RequestRunsOnce` | `RequestChannelProofs` | `HandledOnce` |
| `RequestInvHolds` | | the invariant of queues, stream and response |
| `RetriesAreKept` | | `RetryIsKept` |
| `StreamsArriveWhole` | | `StreamIsIntact` |
| `WorkingSocketsAreKept` | | `WorkingSocketIsKept` (an action property) |
| `OneLossIsHidden` | | `OneLossIsInvisible`, if `LateDelivery` and `ReconnectTimeouts` are `FALSE` and `SendAttempts >= 2` |
| `TableIsExact` | `RouterSocketsProofs` | `TableSpec` keeps `LookupIsExact` |
| `RouterKeepsTable` | | `RouterSockets` implements `TableSpec` |
| `RouterLookupIsExact` | | `RouterSockets` keeps `LookupIsExact` |
| `RouterInvHolds`, `RouterTyped` | | the invariant of the sockets and the call stack; `TypeOK` |
| `GoodbyesRelease` | | `GoodbyeReleases` |
| `UnregisteredHoldNothing` | | `UnregisteredHoldsNothing` |
| `ImplementsCloseNotice` | | `RouterSockets` implements `CloseNotice` (`CloseNotices`) |
| `ServerCountIsExact` | `HostProofs` | `CountIsExact` of `ServerHost` |
| `ServerStopReachesAll`, `ClientStopReachesAll` | | `StopReachesEverySocket` of either host |
| `ServerGuessesAreBounded`, `ClientGuessesAreBounded` | | `GuessesAreBounded` of either host |
| `RegistryIsTrue` | | `RegistryIsExact` |
| `PlacesAreKept` | | `LiveServerKeepsItsPlace` (an action property) |
| `ServedAreListed` | `RemoteServerProofs` | `ServedIsListed`, if each attachment has a host of its own |
| `CallsReachTheServer` | | `CallsReachServer`, for either value of `SameTurn` |
| `UnregisteredAreClosed` | | `UnregisteredIsClosed` |
| `HandOversAreServed` | `RemoteClientProofs` | `HandedOverIsServed` |
| `CallbackInvHolds` | `LiveCallbacksProofs` | the invariant of leases, calls and channel |
| `FunctionsFollowWrappers` | | `FunctionFollowsWrappers` |
| `CallsRunOnce` | | `CallRunsOnce` |
| `ReleasesCutNothing` | | `ReleaseCutsNothing` (an action property) |
| `ExposureInvHolds` | `LiveHandlesProofs` | the invariant of leases, proxies and operations |
| `ObjectsFollowProxies` | | `ObjectFollowsProxies` |
| `OperationsFindTheirObject` | | `OperationFindsItsObject` |
| `WritesAreFirst` | | `WritesComeFirst` (an action property) |

They hold for every value of the constants that satisfies the `ASSUME`s of the modules,
which TLC evaluates in the runs: any number of packets, calls, sockets, clients, ids,
sends, operations and keys, every limit. No assumption is made but those (every call has a
packet, every packet and socket a client; limits are positive numbers; `None` is no socket
and no client; every connection of a host has an id and a limiter key) and these premises,
each named by its theorem and each true of the runs that check the property:

- `LateDelivery = FALSE` (`OneLossIsHidden` only): when a synchronisation is served, what
  older sockets still carry is lost. They may stay open at the server, half-open, and the
  response's send may wait on one; but the network has broken what the caller gave up. A
  late `___syncRequests` of a replaced socket would abort a newer request (section 7).
- `SendAttempts >= 2` (the same): with one attempt the loss of one socket under a chunk
  aborts the handler at once (section 7).
- `ReconnectTimeouts = FALSE`: the timers of the reconnect path, which are there to fail a
  request whose server does not answer, do not run out.
- `RoomForAll`, `Prompt`, `~Faulty`, `Abortable = {}`: the case `PromptNetworkKeepsSockets` is about. There is
  room for every packet in the tables of both ends, and an attempt of a call for each call
  of its packet; every ACK of an open socket comes before the timer; nothing is closed,
  lost or aborted from outside.
- `OneSocketEach`: the calls of one packet use one socket. `setServer` closes the older
  socket, so the calls that replay, resync and resend one request share the one that is
  open. Without it the property fails (section 7).
- `OwnHost`: no two attachments of a `RemoteServer` reach the same host. Two that do share
  one entry of `clients`.

**Packet delivery** goes in layers.

1. *Types* need one more fact to be inductive: a call that waits for an ACK has not used
   more than `MaxAttempts` (`WaitingInRange`), or the next attempt would leave the range.
2. *Acceptance* depends only on the memory of the receiver. `MemoryChanges` shows that of
   all steps only `Accept` and `Expire` touch it in a way that counts.
3. *Entries*. `NoOrphanEntry` is inductive with 1. The lemmas `CloseKeepsOwned`,
   `SetKeepsOwned`, `DropKeepsOwned`, `PhaseKeepsOwned` say what each kind of change does
   to the ownership of an entry; each action is then one or two of these changes. The
   action at the router-wide limit (`TryTotalFull`), which closes the fullest socket and
   then may go on with its own send, is the reason why they are lemmas and not steps.
   `FailureClosesSocket` adds that an attempt waits on an open socket (`WaitsAreOpen`) and
   that the limit is kept (`EntriesFit`): closing an open socket with the most entries
   always makes room, so what can keep the table full is an entry of a closed one
   (`NoRoomMeansLateGhost`), which the property names as its exception (`LateGhost`).
4. *Truth of reports* needs that every ACK under way is for a packet that was accepted
   (`AcksAreTrue`), and 3, since an ACK settles the call that owns the entry - which may
   be another than the one that sent the copy, but is one of the same packet.
5. *Refinement* from 1, 3 and 4: acceptances and expiries map to those of the abstract
   specification, the end of a call to a report - true by 4 -, everything else to a
   stutter.
6. *Prompt networks*. Calls of one packet overwrite each other's entry, so a call may wait
   in vain for an ACK that settled another. `PromptInv` bounds how often. While a packet
   has an entry, a copy or an ACK of it is under way on the socket of its call
   (`EntryIsAnswered`); so a timer that runs out, with nothing under way, finds no entry -
   an ACK took it, and a call was delivered. An attempt is therefore at most one more than
   the calls of the packet that were delivered (`AttemptsAreCounted`), which do not include
   the call itself, and `MaxAttempts` suffices (`AttemptsSuffice`).

**The request channel.** `StreamIsIntact` alone is not inductive: that the caller got the
chunks in order follows from what is on its way and from what the server waits for.
`RequestInv` adds that queues hold only *true* messages (`Channels`: a chunk under way is
one of the stream, a result is one of a handler that returned, an ACK is for an accepted
packet), that the server sends nothing else (`SendIsTrue`), and the heart of it,
`ChunksAreSeen`: the caller has accepted every chunk but perhaps the last, and that one
too when the handler goes on, because the handler awaits the ACK. So a chunk that comes
for the first time is the next one (`ChunkStep`), and a result finds all of them accepted
(`FinalStep`). Where sockets fail, threads replay and responses move, nothing of this
changes (`Calm`); those steps are one lemma for each side.

`RetryIsKept` is inductive with what the threads and the watch know of each other
(`WatchInv`): a send has a socket, and what is watched was confirmed. That the first loop
looks again at its socket (`StartsRetry`) is what the step from the ACK to the watch needs,
since the socket may close, or be replaced and be ready, in between.

`WorkingSocketIsKept` counts. An attempt of the server is over when its socket is closed,
so there are no more attempts than sockets the server has lost (`TriesInv`), wherever late
messages move the response meanwhile. `OutOfTries`, whose branch closes the response's
other socket, is therefore only reached with as many sockets lost as a send has attempts.

`OneLossIsInvisible` relates what lies in the queues of two sockets to every thread of the
caller. `LossInv` says what each message tells of its sender (`LossQueues`: a denial or
an abort is about a request that is settled or was never there, a confirmation about one
that was accepted); that a synchronisation and its answer are the first on their socket,
that one that does not name the request is older than it, and that a socket whose newer
one is synchronised has nothing more to say (`SyncOrder`); where the
threads can be (`CallerFacts`) and that an accepted request has its response until it is
settled (`ServerFacts`). Together they give `ConfirmedIsKnown`: a request whose delivery is
confirmed is known to the server until the caller settles it, so without a restart, and
with attempts left (`Unbroken`), it is never answered `unknownRequest`. The other two failures need a socket that closes under the
reconnect path, which is the second loss (`LossesAreTwo`).

**The table.** Its invariant adds to `LookupIsExact` that no response is stored under two
keys (`StoredOnce`): without it, a release would leave a second entry behind that a later
lookup finds. The router needs no invariant for that: every step of it, however deep in a
call stack, opens one response, releases a set of them, or leaves the table alone.

**The sockets of a router.** `RouterInv` has five parts beside each other, since a step
that runs in the middle of a dispatch may disturb any of them.

1. `RouterTypes`, with the lists of listeners free of repetitions.
2. `TurnInv`: what a dispatch still has to tell belongs to a dispatch on the call stack.
3. `ListInv`: the clean-up of an attachment is the first listener of its socket, and a
   response listens to the socket it is bound to, and only while it is open.
4. `OrderInv`: while a socket's listeners are told, the clean-up is next as long as the
   socket is attached. That is why, on a goodbye, it finds every response still bound, and
   why `GoodbyeReleases` holds whatever listeners came and went before.
5. `UndoInv`: everything attached is known to the list of `unregister`, or to an
   `unregister` that has begun and has its clean-up further up on the stack (`CleansUp`).

Every action is one of a few kinds of change - listeners only removed, a dispatch begun,
continued or ended, a socket attached - and each kind is a lemma about each part.
`ImplementsCloseNotice` maps the same kinds: a removal is a `Change`, the begin of a
dispatch a `Close`, one listener told a `Tell`, its end a `Done`, a name used for a new
socket a `Renew`.

**The hosts.** `HandshakeInv` is what both hosts share. The counter is exact (`Counted`);
a socket that is open after `stop()` would have to be neither pending nor with the router,
so every open socket is listed in the pending set or attached (`OpenIsListed` in
`Reached`); an orderly peer has one open socket and one handshake that asks
(`OneAttempt`), so that one key has at most one guess under way, which is what bounds the
failures (`Guarded`). Each kind of step is a lemma about these facts (`GoesOn`, `GivesUp`,
`SocketCloses`, `StopStep`). `ServerHost` adds what the registry and the waiting
handshakes know of each other, as long as no handshake of the id went on beside a socket
that was closing (`beside`), `ClientHost` that the only attached socket that is alive
is the last one (`OneServer`) and that a handshake of the server it belongs to waits for
it (`PlaceIsKept`).

**The remotes.** A handshake on an open socket is at one of six points, message by message
(`Progress` of either module): who has sent what, what lies in the inbox, and which router
listens. `RemoteInv` adds where an attachment is when its socket is not open, and that a
socket the persistent router serves is its attachment's (`Listed`). `CallsReachServer` is
then a matter of one point, at which the ACK was read and the temporary router still
listens: what can follow the ACK in its turn is the synchronisation only, because the host
calls on the strength of the answer, and the hand-over runs before that. With one message
per turn it runs before the synchronisation, too. `ClientInv` of `RemoteClient` is simpler,
because the hand-over waits for the host's ready message.

**Callbacks and handles.** The two have the same core. `FunctionFollowsWrappers` is not
inductive, for it says nothing of leases. `LeaseInv` (`HandleInv` for objects) does: what
sends carry tells them apart (`MarkersDiffer`); the entry's lease is the highest that is
committed or pending (`LeaseIsHighest`), and the entry knows the leases of the sends that
carry its id (`EntryKnowsSends`, `LeasesKnowSends`); releases carry leases that were
received (`LeasesAreReceived`); a wrapper or proxy has the latest of its id, above those of
all releases (`WrapperIsLatest`, `ProxyIsLatest`), so that no release can end it; and an
entry that is gone is only carried by sends that were overtaken (`GoneIsOvertaken`), which
is the exemption of the property. `CommittedIsKnown` and `KeptForSomebody` are the
converse: a function nobody can reach does not stay. They hold while both ends hold the
channel, `LeaseInv` as long as the owner does. For handles `ProvisionalIsPending` says
that the provisional table is a function of the leases.

Calls run once because the owner keeps a result until no copy of the request can come any
more (`ResultIsKept`), which rests on the ACK being sent by a settled caller only
(`CallsAreMade`). `ReleaseCutsNothing` needs the two together: a release that is due finds
nothing under way at either end. Operations on handles hold their proxy until they settle
(`OperationHoldsProxy`), so that the object of an operation under way is registered by the
lease invariant, and a call waits for the writes made before it (`EarlierIsWaitedFor`),
whose settled results cannot be applied again (`ResultIsKept` once more).

## 6. What is only model-checked

Liveness (`EveryCallReturns`, `EveryRequestSettles`, `ChannelsAreReleased`,
`VanishedPeerIsDropped`, `ReconnectGoesOn`, `HandshakesEnd`, `AttachmentIsServed`,
`ClientIsServed`, `ChannelIsReleased`, `OperationsSettle`), which needs `ENABLED` and is
out of the prover's reach, as induction over data would be. Every safety property of the
runs is proved, under the premises of section 5. `TypeOK` is proved for `PacketDelivery` and
`RouterSockets`; that of the other modules was checked with the instances, and the parts
of it the proofs need are among their invariants.

## 7. Findings and observations

No run ends with a violation. Met while modelling, and reproducible by changing a constant
or dropping a premise; each is the reason for an exemption or a premise of a property, or
for something left out.

Against something the repository says:

- A host does not wait for an older socket that is CLOSING (`ServerHost.ts:184-188`), as
  that of a client is which has just closed it and comes back. Both are then served side
  by side for a while (docs/authentication.md:189 says not), and the close of the older
  deletes the registry's entry of the newer (235), which no later handshake then waits
  for. `RegistryIsExact` exempts the ids this happened to (`beside`), from the moment the
  host did not wait.
- When the deadline passes at the owner while its caller is gone, the timeout error
  becomes a final response that waits for the caller to come back, so a disconnected
  caller does leave its channel behind until then (`PerfectWS.ts:1746`, against
  docs/production-resilience.md:49). `ChannelsAreReleased` is about connections that come
  back.
- Two handshakes of one id that wait for the same socket both go on when it closes, and
  both are admitted (`ServerHost.ts:182`, against docs/authentication.md:188).
  `RegistryIsExact` speaks of orderly clients.

Packets and requests:

- A second connection loss while `retryOnClose` asks for the state of the request fails
  the request with `reconnectFailed` (`PerfectWS.ts:886`): `OneLossIsInvisible` is about
  one loss.
- A call that meets the router-wide limit closes the socket with the most entries, and
  when that frees nothing it fails with its own socket open (`PerfectWS.ts:1046-1049`).
  That is so when the limit is 0, and when an entry was made by a send on a socket that
  was closed between the checks and the send: nothing listens any more, so it stays until
  its timer ends. `FailureClosesSocket` says that there is no other case.
- With `LateDelivery` a duplicate `req` on the new socket does not move the response to
  it (1353-1358); the result then waits for another reconnect. A late `___syncRequests`
  of a replaced socket may abort a newer request (309-319).
- The budget of a server's send counts attempts of all sockets together, half-open ones
  included. When it ends as an older socket closes, a final response closes the newer
  socket, though it works (1586-1587); a chunk gives up and aborts the handler with
  `failedToSendMessage` (1602), of which the caller is told nothing on the socket that
  works. It takes as many lost sockets as the send has attempts
  (`sendRequestRetries`), which is what `WorkingSocketIsKept` says; `EveryRequestSettles`
  is about sends with more attempts than that.
- The resend branch of `retryOnClose` (`PerfectWS.ts:876`) is never taken:
  `retryOnClose` listens only when the delivery is confirmed or the request is over
  (751, 896), so a server that does not know the request always ends in `unknownRequest`.
  The proof of `RetriesAreKept` shows it (`WatchInv`). If it were taken, the socket it used
  could close unnoticed, since it does not look again as the first loop does (899).
- The clean-up of an attempt deletes the entry of its packet whoever made it
  (`PerfectWS.ts:1060`). With calls of one packet on two open sockets, an attempt that runs
  out on one socket may so delete the entry that waits on the other, until all attempts are
  used up and a healthy socket is closed: `PromptNetworkKeepsSockets` fails without
  `OneSocketEach` (3 calls, 3 attempts, 2 sockets).

Sockets of a router:

- `autoReconnect` on a router that is already unregistered, or with
  `delayBeforeReconnect = 0` and a constructor that throws, loops without end
  (2230-2263). The fairness of `RouterSockets` lets other code run in between.
- A socket that is natively closed when it is attached is dropped only when
  `connectionTimeout` passes (2143). One that was force-closed before is not cleaned up
  until `unregister`: its close was dispatched already.
- Detaching a socket and attaching it again puts the clean-up behind the close listeners
  of its responses, and a goodbye then finds them unbound and does not release them
  (2199): `GoodbyeReleases` holds because a socket is attached once.

Hosts and remotes:

- Two handshakes that wait in `ClientHost` (175): the second closes the live connection of
  the first. `LiveServerKeepsItsPlace` therefore speaks of orderly servers.
- The limiter checks when a handshake begins and records when it fails: attempts that
  overlap are all let in before the first is recorded. With an asynchronous validator a
  closed socket gives its connection slot back while its validation goes on, so the
  overlap is not bounded by `maxConnections` either. At `maxTrackedKeys` the oldest key is
  evicted, blocked or not. `GuessesAreBounded` is about orderly peers with an address of
  their own. With `maxAttempts` 0 one attempt is still let in, as a key without failures
  is never blocked (`PasswordRateLimiter.ts:35`).
- `ws` dispatches messages of one chunk in one turn. When the ACK of the last handshake
  answer and the host's `___syncRequests` come together, the temporary router of
  `RemoteServer` answers the latter (277): it knows no request, so the host replays those
  it has not confirmed and fails the confirmed ones with `unknownRequest`
  (`PerfectWS.ts:269-279`), although the persistent router may be serving them.
  `CallsReachServer` says that nothing else is read by the wrong router.
- A socket of `RemoteServer` that is lost before the ACK of its last answer is registered
  after its close and stays in `clients`: `ServedIsListed` says that the served are
  listed, not the converse.

Live values:

- A send of a function that is retried after a later send was received, collected and
  released makes a wrapper of a function that is gone (`TransformCallbacks.ts:134`); so
  does a send of an object make a proxy. `FunctionFollowsWrappers` and
  `ObjectFollowsProxies` exempt a send that was overtaken. An overtaken send may also
  replace the entry of a collected wrapper by one of a lower lease, and a send that is
  lost for good leaves its function or object registered as long as the channel.
- Once a release waits for durable sends (`PerfectWS.ts:829`), a callback that arrives
  meanwhile is cut with the channel; `ReleaseCutsNothing` is about a channel that is not
  closing yet.
- An operation that was refused because too many were under way may still be done, by a
  late copy of its request that finds a place (`TransformPureRPC.ts:127`).
  `WritesComeFirst` and `OperationFindsItsObject` exempt it.
- Writes do not wait for each other (`createPureRPCProxy.ts`): of two writes made one after
  the other the earlier may be applied last, when a copy of its request is sent again.
  `WritesComeFirst` speaks of the reads and calls made after a write.
- A proxy that is sent back to its owner while its release is on the way, and is overtaken
  by it, arrives as an id the owner does not know; the owner then makes a proxy of its
  own object. Sending a live value back is not modelled.

## 8. What is not modelled

- `PerfectWSSubRoute`, `PerfectWSError`, entry points, small auth helpers, utilities and
  middleware: no state of their own beyond a table, or pure functions of a line or two.
- `TransformAbortSignal`: one event each way, over what the models of callbacks and handles
  show of events and releases.
- The conversions of values (`TransformNativeTypes`, binary data, symbols, escaped
  markers, descriptors, circular objects): pure functions on trees of JavaScript values
  without state between two messages; what can go wrong in them is about the
  representation of each type, which a test reaches and a model would only transcribe.
- In `RequestChannel`: attempts of a server's send that time out on a socket that works
  (one that runs out of them closes its socket at any time), other requests beside the one, subroutes, validation of messages,
  `unregister` in the middle of a request (`RouterSockets` has it for the serving side).
- In `RouterSockets`: a socket that is attached again after it was detached, the ping loop
  of the calling side and its synchronisation (`RequestChannel` takes its closes as given).
- In `WebSocketForce`: the forwarding of other events and of `send`.
- In `LiveCallbacks`, `Send` is the client's way of sending (721-727), which its
  `operationController` cuts; the server's `sendJSON` (1502-1609) resends until the ACK, and
  its release after an event (1392-1394) belongs to the exemption of `ReleaseCutsNothing`. In
  `LiveHandles`, a failed send without the name of an event (`TransformPureRPC.ts:189-196`),
  which rejects all operations.
- In `LiveCallbacks` and `LiveHandles`: live values that are sent back to their owner, the
  explicit releases of abort signals and PureRPC, the conversion of arguments, the same
  value twice in one message; paths into objects, forwarders of functions, automatic
  wrapping and pure clones.
- In `RemoteServer`: two attachments to one host, which share its entry in `clients`
  (`RemoteServer.ts:166`). In `RemoteClient`: `start()` after `stop()`, which the code does
  not support.
- Payloads, formatting, logging and the text of errors.
