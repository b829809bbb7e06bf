--------------------------- MODULE LiveCallbacks ----------------------------
(***************************************************************************)
(* The calls of a callback, and the channel that lives as long as it:      *)
(* TransformCallbacks (src/src/PerfectWSAdvanced/transform/) over          *)
(* CallbackLeases, with the releases of a request (PerfectWS.ts).          *)
(*                                                                         *)
(* The holder calls its wrapper: the request goes to the owner, which runs *)
(* the function and answers.  Both messages are durable: they are sent     *)
(* again until acknowledged.  A copy of a request can be accepted twice    *)
(* only when the first one is so old that its packet id was forgotten; so  *)
(* the owner keeps the result until its response was acknowledged.         *)
(*                                                                         *)
(* Due(e): end e has finished, and nothing keeps its side of the channel.  *)
(* The code releases it within the same turn; here the release is a step   *)
(* of its own that comes before any other of that end.                     *)
(***************************************************************************)
EXTENDS CallbackLeases

CONSTANTS
  Requester,       \* the end that made the request of the channel
  Calls,           \* calls of the wrapper
  MaxCopies,       \* bound: times a request is put on the wire
  MaxOperations,   \* maxOperations
  MaxOthers        \* bound: operations of other callbacks of the same channel

Ends == {"owner", "holder"}

ASSUME LiveCallbacksAssumption ==
  /\ Requester \in Ends
  /\ {MaxCopies, MaxOperations} \subseteq Nat \ {0}
  /\ MaxOthers \in Nat

VARIABLES
  open,      \* ends that have not released the channel
  finished,  \* ends at which the request has its final response
  closing,   \* ends with releaseRequested
  asking,    \* was ___request.release emitted?
  stopped,   \* history: was a router stopped?
  caller,    \* what became of each call
  target,    \* the id it was made on
  copies,    \* times its request was put on the wire
  flight,    \* calls with a request on the wire
  stored,    \* the owner's _incomingRequestResults
  promise,   \* the promise stored for a call
  waiting,   \* runs of _onCallbackRequest that await it
  responses, \* ___callback.response events not received yet
  answered,  \* received ones whose ACK was not
  runs       \* history: times the function ran for a call

callVars == <<caller, target, copies, flight, stored, promise, waiting, responses,
              answered, runs>>
channelVars == <<open, finished, closing, asking, stopped>>
vars == <<leaseVars, callVars, channelVars>>

Other(e) == IF e = "owner" THEN "holder" ELSE "owner"

\* A response event: the n-th of a call.
Response == [call : Calls, kind : {"value", "missing", "busy"}, n : 1 .. MaxCopies]

\* Every variable has a value of its kind.
TypeOK ==
  /\ LeaseTypeOK
  /\ open \subseteq Ends /\ finished \subseteq Ends /\ closing \subseteq Ends
  /\ {asking, stopped} \subseteq BOOLEAN
  /\ caller \in [Calls -> {"new", "pending", "resolved", "rejected", "released", "refused"}]
  /\ target \in [Calls -> 0 .. MaxId]
  /\ copies \in [Calls -> 0 .. MaxCopies]
  /\ flight \subseteq Calls /\ stored \subseteq Calls
  /\ promise \in [Calls -> {"none", "running", "value", "missing"}]
  /\ waiting \in [Calls -> 0 .. MaxCopies]
  /\ responses \subseteq Response /\ answered \subseteq Response
  /\ runs \in [Calls -> 0 .. MaxCopies]

Init ==
  /\ LeaseInit
  /\ open = Ends
  /\ finished = {} /\ closing = {} /\ asking = FALSE /\ stopped = FALSE
  /\ caller = [c \in Calls |-> "new"]
  /\ target = [c \in Calls |-> 0]
  /\ copies = [c \in Calls |-> 0]
  /\ flight = {} /\ stored = {}
  /\ promise = [c \in Calls |-> "none"]
  /\ waiting = [c \in Calls |-> 0]
  /\ responses = {} /\ answered = {}
  /\ runs = [c \in Calls |-> 0]

Pending == {c \in Calls : caller[c] = "pending"}
Running == {c \in Calls : promise[c] = "running"}

\* Operations that count against the limit while the set ops is under way.
Counts(ops) == {Cardinality(ops) + n : n \in 0 .. MaxOthers}

-----------------------------------------------------------------------------
(* The channel.                                                            *)

\* Mutant of Alive: runs of a function that was released are not counted.
AliveWithoutRuns(e) ==
  IF e = "owner" THEN entry.id # 0
  ELSE Pending # {} \/ \E g \in Ids : received[g].state # "none"

\* hasLiveState
Alive(e) ==
  IF e = "owner" THEN entry.id # 0 \/ Running # {}
  ELSE Pending # {} \/ \E g \in Ids : received[g].state # "none"

\* The request of call c was not accepted yet.
Unacknowledged(c) ==
  promise[c] = "none" /\ \A x \in responses \cup answered : x.call # c

\* pendingDurableSends > 0
Durable(e) ==
  \/ e = Requester /\ asking /\ Other(e) \in open
  \/ e = "owner" /\ responses \cup answered # {}
  \/ e = "holder" /\ (releases # {} \/ \E c \in Pending : Unacknowledged(c))

Due(e) == /\ e \in open \cap finished
          /\ ~Durable(e)
          /\ e \in closing \/ ~Alive(e)

\* Nothing of end e comes before a release that is due.
Acts(e) == e \in open /\ ~Due(e)

\* releaseAll
ReleaseAll(e) ==
  /\ open' = open \ {e}
  /\ IF e = "owner"
     THEN /\ entry' = NoEntry
          /\ stored' = {}
          /\ UNCHANGED <<received, caller>>
     ELSE /\ received' = [g \in Ids |-> NoWrapper]
          /\ caller' = [c \in Calls |-> IF c \in Pending THEN "released" ELSE caller[c]]
          /\ UNCHANGED <<entry, stored>>
  /\ UNCHANGED <<ids, stage, marker, releases, overtaken, lost, finished, closing,
                 asking, target, copies, flight, promise, waiting, responses, answered, runs>>

\* The final response was sent, or received.  The release is requested when
\* nothing keeps the channel, or the requester got an error.
Finish(e) ==
  /\ e \in open \ finished
  /\ finished' = finished \cup {e}
  /\ \/ /\ Alive(e)
        /\ UNCHANGED <<closing, asking>>
     \/ /\ ~Alive(e) \/ e = Requester
        /\ closing' = closing \cup {e}
        /\ asking' = (asking \/ Alive(e))
  /\ UNCHANGED <<leaseVars, callVars, open, stopped>>

\* The requester tells its peer before it releases a channel that was kept alive.
AskRelease(e) ==
  /\ Due(e) /\ e = Requester /\ e \notin closing
  /\ closing' = closing \cup {e}
  /\ asking' = TRUE
  /\ UNCHANGED <<leaseVars, callVars, open, finished, stopped>>

ReleaseChannel(e) ==
  /\ Due(e) /\ (e = Requester => e \in closing)
  /\ ReleaseAll(e)
  /\ UNCHANGED stopped

\* The peer's release event arrives, or a synchronisation tells that the peer
\* does not know the request any more.
PeerReleased(e) ==
  /\ Acts(e)
  /\ Other(e) \notin open \/ (asking /\ Other(e) = Requester)
  /\ ReleaseAll(e)
  /\ UNCHANGED stopped

\* The router of one end is stopped.
Stop(e) == Acts(e) /\ ReleaseAll(e) /\ stopped' = TRUE

-----------------------------------------------------------------------------
(* The holder's calls.                                                     *)

\* _invokeReceived.  The response frees the place of the operation.
Invoke(c, g) ==
  /\ Acts("holder")
  /\ caller[c] = "new" /\ Reachable(g)
  /\ target' = [target EXCEPT ![c] = g]
  /\ \E n \in Counts(Pending) :
       caller' = [caller EXCEPT ![c] =
         IF n < MaxOperations THEN "pending" ELSE "refused"]
  /\ UNCHANGED <<leaseVars, channelVars, copies, flight, stored, promise, waiting,
                 responses, answered, runs>>

\* The arguments cannot be serialized: _onTransportSendFailed, or a response
\* emitted in the peer's name.
SendFails(c) ==
  /\ Acts("holder")
  /\ caller[c] = "pending" /\ copies[c] = 0
  /\ caller' = [caller EXCEPT ![c] = "rejected"]
  /\ UNCHANGED <<leaseVars, channelVars, target, copies, flight, stored, promise,
                 waiting, responses, answered, runs>>

\* The request is put on the wire, at first or again, until it is settled.
Send(c) ==
  /\ Acts("holder")
  /\ caller[c] = "pending" /\ c \notin flight /\ copies[c] < MaxCopies
  /\ copies' = [copies EXCEPT ![c] = @ + 1]
  /\ flight' = flight \cup {c}
  /\ UNCHANGED <<leaseVars, channelVars, caller, target, stored, promise, waiting,
                 responses, answered, runs>>

\* A copy is lost with its socket, or dropped as a duplicate.
LoseCopy(c) ==
  /\ c \in flight
  /\ copies[c] < MaxCopies \/ c \in stored \/ caller[c] # "pending"
  /\ flight' = flight \ {c}
  /\ UNCHANGED <<leaseVars, channelVars, caller, target, copies, stored, promise,
                 waiting, responses, answered, runs>>

\* _onCallbackResponse
ReceiveResponse(x) ==
  /\ Acts("holder")
  /\ x \in responses
  /\ responses' = responses \ {x}
  /\ answered' = answered \cup {x}
  /\ caller' = [caller EXCEPT ![x.call] =
       IF @ # "pending" THEN @ ELSE IF x.kind = "value" THEN "resolved" ELSE "rejected"]
  /\ UNCHANGED <<leaseVars, channelVars, target, copies, flight, stored, promise,
                 waiting, runs>>

-----------------------------------------------------------------------------
(* The owner's answers.                                                    *)

Answer(c, kind, numbers) ==
  responses' = responses \cup {[call |-> c, kind |-> kind, n |-> n] : n \in numbers}

\* Start the function, or find that it is not registered.
StartCall(c) ==
  /\ stored' = stored \cup {c}
  /\ IF Registered(target[c])
     THEN /\ promise' = [promise EXCEPT ![c] = "running"]
          /\ runs' = [runs EXCEPT ![c] = @ + 1]
          /\ waiting' = [waiting EXCEPT ![c] = @ + 1]
          /\ UNCHANGED responses
     ELSE /\ promise' = [promise EXCEPT ![c] = "missing"]
          /\ Answer(c, "missing", {copies[c]})
          /\ UNCHANGED <<runs, waiting>>

\* A call whose result is stored waits for it or is answered with it.
AnswerStored(c) ==
  /\ IF promise[c] = "running"
     THEN waiting' = [waiting EXCEPT ![c] = @ + 1] /\ UNCHANGED responses
     ELSE Answer(c, promise[c], {copies[c]}) /\ UNCHANGED waiting
  /\ UNCHANGED <<stored, promise, runs>>

\* Mutant of HandleRequest: the stored results are not looked up.
HandleRequestAgain(c) == StartCall(c)

\* A request whose result is stored is not run again.
HandleRequest(c) ==
  \/ c \in stored /\ AnswerStored(c)
  \/ /\ c \notin stored
     /\ \E n \in Counts(stored) : n >= MaxOperations
     /\ Answer(c, "busy", {copies[c]})
     /\ UNCHANGED <<stored, promise, waiting, runs>>
  \/ /\ c \notin stored
     /\ \E n \in Counts(stored) : n < MaxOperations
     /\ StartCall(c)

\* _onCallbackRequest
ReceiveRequest(c) ==
  /\ Acts("owner")
  /\ c \in flight
  /\ flight' = flight \ {c}
  /\ HandleRequest(c)
  /\ UNCHANGED <<leaseVars, channelVars, caller, target, copies, answered>>

\* The function returns or throws: every run that awaits it emits a response.
Return(c) ==
  /\ Acts("owner")
  /\ promise[c] = "running"
  /\ promise' = [promise EXCEPT ![c] = "value"]
  /\ Answer(c, "value", copies[c] - waiting[c] + 1 .. copies[c])
  /\ waiting' = [waiting EXCEPT ![c] = 0]
  /\ UNCHANGED <<leaseVars, channelVars, caller, target, copies, flight, stored,
                 answered, runs>>

\* The ACK of a response; it comes after the copies on the same socket.
\* _onEventDelivered
Acknowledge(x) ==
  /\ Acts("owner")
  /\ x \in answered /\ x.call \notin flight
  /\ answered' = answered \ {x}
  /\ stored' = stored \ {x.call}
  /\ UNCHANGED <<leaseVars, channelVars, caller, target, copies, flight, promise,
                 waiting, responses, runs>>

-----------------------------------------------------------------------------
LeaseStep ==
  /\ \/ Acts("owner") /\ (OwnerSends \/ OwnerHears)
     \/ Acts("holder") /\ (HolderHears \/ HolderCollects)
     \/ NetworkLoses
  /\ UNCHANGED <<callVars, channelVars>>

Channel ==
  \E e \in Ends :
    Finish(e) \/ AskRelease(e) \/ ReleaseChannel(e) \/ PeerReleased(e) \/ Stop(e)

Call(c) ==
  \/ \E g \in Ids : Invoke(c, g)
  \/ SendFails(c) \/ Send(c) \/ LoseCopy(c) \/ ReceiveRequest(c) \/ Return(c)

Next ==
  \/ LeaseStep
  \/ Channel
  \/ \E c \in Calls : Call(c)
  \/ \E x \in responses : ReceiveResponse(x)
  \/ \E x \in answered : Acknowledge(x)

Spec == Init /\ [][Next]_vars

(* Retries and durable sends go on, functions return, collected wrappers   *)
(* are finalized, and a release that is due is made.  Nothing makes the    *)
(* application drop a wrapper, or finish its request.                      *)
Fairness ==
  /\ \A e \in Ends : WF_vars(AskRelease(e) \/ ReleaseChannel(e) \/ PeerReleased(e))
  /\ \A s \in Sends : WF_vars(LeaseStep /\ (Receive(s) \/ Lose(s)))
  /\ \A g \in Ids : WF_vars(LeaseStep /\ Finalize(g))
  /\ WF_vars(LeaseStep /\ OwnerHears)
  /\ \A c \in Calls : /\ WF_vars(Send(c))
                      /\ WF_vars(LoseCopy(c) \/ ReceiveRequest(c))
                      /\ WF_vars(Return(c))
  /\ WF_vars(\E x \in responses : ReceiveResponse(x))
  /\ WF_vars(\E x \in answered : Acknowledge(x))

FairSpec == Spec /\ Fairness

-----------------------------------------------------------------------------
BothOpen == open = Ends

\* As long as a wrapper is reachable the owner knows its function, whatever is
\* prepared, rolled back, released and sent again meanwhile: releases of older
\* leases never take it away (_onCallbackRelease, the leases of rollback).  A send
\* that a later one has overtaken is the exception.
\* And a function stays registered only while somebody may still reach it: a send
\* of it is prepared or on the wire, or there is a wrapper, or its release is under
\* way.  A send that was lost on the wire, or overtaken, keeps it for good.
FunctionFollowsWrappers ==
  BothOpen =>
  /\ \A g \in Ids \ overtaken : Reachable(g) => Registered(g)
  /\ \A g \in Ids \ (overtaken \cup lost) :
       Registered(g) =>
         \/ \E s \in Sends : marker[s].id = g /\ stage[s] \in {"prepared", "wire"}
         \/ received[g].state # "none"
         \/ \E r \in releases : r.id = g

\* The function runs once for a call, however often its request is accepted, and
\* though the result is forgotten when the response was acknowledged.
CallRunsOnce == \A c \in Calls : runs[c] <= 1

\* The release that a channel makes by itself, at either end, takes no wrapper
\* that is reachable, and no answer from a call whose function ran
\* (shouldKeepResponseAlive and pendingDurableSends).  An end that once asked for
\* the release makes it when its durable sends are done, whatever came since.
ReleaseCutsNothing ==
  [][ ~stopped' /\ closing = {} =>
      /\ \A g \in Ids \ overtaken :
           Reachable(g) => received'[g].state # "none"
      /\ \A c \in Calls :
           caller[c] = "pending" /\ runs[c] > 0 => caller'[c] # "released" ]_vars

\* Nothing of the channel is in use: its request has finished, no wrapper is
\* reachable, no call is pending, and no send waits to be put on the wire.
Unused == /\ finished = Ends
          /\ overtaken \cup lost = {}
          /\ \A g \in Ids : ~Reachable(g)
          /\ \A s \in Sends : stage[s] # "prepared"
          /\ Pending = {}

\* A channel that is not used any more is released at both ends, after the
\* collection of its wrappers and without help of the application.
ChannelIsReleased == <>[]Unused => <>(open = {})

=============================================================================
