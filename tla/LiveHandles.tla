---------------------------- MODULE LiveHandles -----------------------------
(***************************************************************************)
(* The operations on a handle: TransformPureRPC and createPureRPCProxy     *)
(* (src/src/PerfectWSAdvanced/transform/) over HandleLeases.               *)
(*                                                                         *)
(* A write is sent at once; a read or a call first waits for the writes    *)
(* that were made before it through the same proxy.  The request goes to   *)
(* the owner, which works on its object and answers.  Both messages are    *)
(* sent again until acknowledged, so an operation is stored at the owner   *)
(* until its response was: a second copy of a request is answered with the *)
(* stored result.  A release at one end ends the channel at the other.     *)
(***************************************************************************)
EXTENDS HandleLeases

CONSTANTS
  Writes,           \* writes of properties
  Calls,            \* reads of properties, which may be promises, and calls of methods
  MaxCopies,        \* bound: times a request is put on the wire
  MaxRepeated,      \* bound: operations that are put on the wire more than once
  MaxOperations,    \* maxRPCOperations
  OtherOperations   \* bound: operations on other handles of the channel

Ends == {"owner", "holder"}
Operations == Writes \cup Calls

ASSUME LiveHandlesAssumption ==
  /\ {MaxCopies, MaxOperations} \subseteq Nat \ {0}
  /\ {MaxRepeated, OtherOperations} \subseteq Nat
  /\ Writes \cap Calls = {}

VARIABLES
  open,       \* ends that have not released the channel
  caller,     \* what became of each operation
  target,     \* the id it was made on
  through,    \* for each id, the operations made through its proxy
  waitsFor,   \* the pendingSets an operation found
  earlier,    \* history: the writes made before it through its proxy
  cut,        \* history: unsettled operations of proxies that were disposed
  repeated,   \* bound: the operations that may be put on the wire again
  copies,     \* times its request was put on the wire
  flight,     \* operations with a request on the wire
  stored,     \* _incomingCallResults
  result,     \* the result of an operation
  awaiting,   \* runs of _onPureRPCRequest that await it
  responses,  \* ___pureRPC.response events not received yet
  answered,   \* received ones whose ACK was not
  runs        \* history: times the object was worked on for an operation

madeVars == <<target, through, waitsFor, earlier, cut>>
holderVars == <<caller, madeVars>>
wireVars == <<repeated, copies, flight, responses, answered>>
ownerVars == <<stored, result, awaiting, runs>>
vars == <<handleVars, open, holderVars, wireVars, ownerVars>>

Other(e) == IF e = "owner" THEN "holder" ELSE "owner"

\* A response event: the n-th of an operation.
Response == [op : Operations, kind : {"value", "missing", "busy"}, n : 1 .. MaxCopies]

\* Every variable has a value of its kind.
TypeOK ==
  /\ HandleTypeOK
  /\ open \subseteq Ends
  /\ caller \in [Operations ->
                  {"new", "waiting", "pending", "resolved", "rejected", "busy"}]
  /\ target \in [Operations -> 0 .. MaxId]
  /\ through \in [Ids -> SUBSET Operations]
  /\ {waitsFor, earlier} \subseteq [Operations -> SUBSET Writes]
  /\ cut \cup repeated \cup flight \cup stored \subseteq Operations
  /\ {copies, awaiting, runs} \subseteq [Operations -> 0 .. MaxCopies]
  /\ result \in [Operations -> {"none", "running", "value", "missing"}]
  /\ responses \cup answered \subseteq Response

Init ==
  /\ HandleInit
  /\ open = Ends
  /\ caller = [o \in Operations |-> "new"]
  /\ target = [o \in Operations |-> 0]
  /\ through = [g \in Ids |-> {}]
  /\ waitsFor = [o \in Operations |-> {}] /\ earlier = waitsFor
  /\ cut = {} /\ flight = {} /\ stored = {}
  /\ repeated \in {R \in SUBSET Operations : Cardinality(R) = MaxRepeated}
  /\ copies = [o \in Operations |-> 0] /\ awaiting = copies /\ runs = copies
  /\ result = [o \in Operations |-> "none"]
  /\ responses = {} /\ answered = {}

BothOpen == open = Ends
Pending == {o \in Operations : caller[o] = "pending"}
Unsettled == {o \in Operations : caller[o] \in {"waiting", "pending"}}

\* Bound: times the request of operation o may be put on the wire.
Limit(o) == IF o \in repeated THEN MaxCopies ELSE 1

\* Operations that count against the limit while the set ops is under way.
Counts(ops) == {Cardinality(ops) + n : n \in 0 .. OtherOperations}

-----------------------------------------------------------------------------
(* The channel.                                                            *)

\* releaseAll.  What is still on the wire is dropped: where it is heard, at the
\* other end, it changes nothing of what is said below.
ReleaseAll(e) ==
  /\ open' = open \ {e}
  /\ IF e = "owner"
     THEN /\ Forget
          /\ stored' = {}
          /\ UNCHANGED <<proxies, through, caller>>
     ELSE /\ proxies' = [g \in Ids |-> NoProxy]
          /\ through' = [g \in Ids |-> {}]
          /\ caller' = [o \in Operations |->
                         IF o \in Pending THEN "rejected" ELSE caller[o]]
          /\ UNCHANGED <<tables, stored>>
  /\ flight' = {} /\ responses' = {} /\ answered' = {}
  /\ UNCHANGED <<ids, stage, marker, releases, overtaken, lost, target, waitsFor,
                 earlier, cut, repeated, copies, result, awaiting, runs>>

\* A router is stopped, or the channel is not kept any more.
Stop(e) == BothOpen /\ ReleaseAll(e)

\* The other end is told.
PeerReleased(e) == e \in open /\ Other(e) \notin open /\ ReleaseAll(e)

-----------------------------------------------------------------------------
(* The holder.                                                             *)

\* _call: the request is made when there is a place for it.
Make(o) ==
  \E n \in Counts(Pending) :
    caller' = [caller EXCEPT ![o] =
      IF "holder" \in open /\ n < MaxOperations THEN "pending" ELSE "rejected"]

\* The unsettled writes that were made through the proxy.
PendingSets(g) == {w \in through[g] \cap Writes : caller[w] = "pending"}

Through(o, g) ==
  /\ "holder" \in open
  /\ caller[o] = "new" /\ Reachable(g)
  /\ target' = [target EXCEPT ![o] = g]
  /\ through' = [through EXCEPT ![g] = @ \cup {o}]
  /\ earlier' = [earlier EXCEPT ![o] = through[g] \cap Writes]
  /\ UNCHANGED <<handleVars, open, cut, wireVars, ownerVars>>

\* The set trap.
Write(o, g) ==
  /\ o \in Writes
  /\ Through(o, g)
  /\ Make(o)
  /\ UNCHANGED waitsFor

\* A call, or the then of a path: it takes the writes to wait for.
Ask(o, g) ==
  /\ o \in Calls
  /\ Through(o, g)
  /\ caller' = [caller EXCEPT ![o] = "waiting"]
  /\ waitsFor' = [waitsFor EXCEPT ![o] = PendingSets(g)]

\* Mutant of Proceed: it does not wait for the writes.
ProceedAtOnce(o) ==
  /\ caller[o] = "waiting"
  /\ Make(o)
  /\ UNCHANGED <<handleVars, open, madeVars, wireVars, ownerVars>>

\* waitForPendingSets is done, whatever became of them.
Proceed(o) ==
  /\ caller[o] = "waiting"
  /\ waitsFor[o] \cap Pending = {}
  /\ Make(o)
  /\ UNCHANGED <<handleVars, open, madeVars, wireVars, ownerVars>>

\* The value or the arguments cannot be serialized.
SendFails(o) ==
  /\ caller[o] = "pending" /\ copies[o] = 0
  /\ caller' = [caller EXCEPT ![o] = "rejected"]
  /\ UNCHANGED <<handleVars, open, madeVars, wireVars, ownerVars>>

\* The request is put on the wire, at first or again, until it is settled.
Send(o) ==
  /\ BothOpen
  /\ caller[o] = "pending" /\ o \notin flight
  /\ copies[o] < Limit(o)
  /\ copies' = [copies EXCEPT ![o] = @ + 1]
  /\ flight' = flight \cup {o}
  /\ UNCHANGED <<handleVars, open, holderVars, repeated, responses, answered, ownerVars>>

\* A copy is lost with its socket, or dropped as a duplicate.
LoseCopy(o) ==
  /\ o \in flight
  /\ copies[o] < Limit(o) \/ o \in stored \/ caller[o] # "pending"
  /\ flight' = flight \ {o}
  /\ UNCHANGED <<handleVars, open, holderVars, repeated, copies, responses, answered, ownerVars>>

Outcome(kind) ==
  CASE kind = "value" -> "resolved"
    [] kind = "missing" -> "rejected"
    [] kind = "busy" -> "busy"

\* Mutant of ReceiveResponse: an error response settles nothing.
ReceiveResponseOk(x) ==
  /\ "holder" \in open
  /\ x \in responses
  /\ responses' = responses \ {x}
  /\ answered' = answered \cup {x}
  /\ caller' = [caller EXCEPT ![x.op] =
       IF @ # "pending" \/ x.kind # "value" THEN @ ELSE "resolved"]
  /\ UNCHANGED <<handleVars, open, madeVars, repeated, copies, flight, ownerVars>>

\* _onPureRPCResponse
ReceiveResponse(x) ==
  /\ "holder" \in open
  /\ x \in responses
  /\ responses' = responses \ {x}
  /\ answered' = answered \cup {x}
  /\ caller' = [caller EXCEPT ![x.op] =
       IF @ # "pending" THEN @ ELSE Outcome(x.kind)]
  /\ UNCHANGED <<handleVars, open, madeVars, repeated, copies, flight, ownerVars>>

\* Mutant of CollectProxy: operations under way do not hold the leaseAnchor.
CollectAnyProxy(g) ==
  /\ Collect(g)
  /\ through' = [through EXCEPT ![g] = {}]
  /\ UNCHANGED <<open, caller, target, waitsFor, earlier, cut, wireVars, ownerVars>>

\* The leaseAnchor is held by every operation until it settles.
CollectProxy(g) ==
  /\ through[g] \cap Unsettled = {}
  /\ Collect(g)
  /\ through' = [through EXCEPT ![g] = {}]
  /\ UNCHANGED <<open, caller, target, waitsFor, earlier, cut, wireVars, ownerVars>>

DisposeProxy(g) ==
  /\ Dispose(g)
  /\ cut' = cut \cup (through[g] \cap Unsettled)
  /\ through' = [through EXCEPT ![g] = {}]
  /\ UNCHANGED <<open, caller, target, waitsFor, earlier, wireVars, ownerVars>>

-----------------------------------------------------------------------------
(* The owner.                                                              *)

Answer(o, kind, numbers) ==
  responses' = responses \cup {[op |-> o, kind |-> kind, n |-> n] : n \in numbers}

\* The operations of _handle: a call may take its time, a write is done at once.
Work(o) ==
  /\ stored' = stored \cup {o}
  /\ IF ~Registered(target[o])
     THEN /\ result' = [result EXCEPT ![o] = "missing"]
          /\ Answer(o, "missing", {copies[o]})
          /\ UNCHANGED <<runs, awaiting>>
     ELSE /\ runs' = [runs EXCEPT ![o] = @ + 1]
          /\ IF o \in Calls
             THEN /\ result' = [result EXCEPT ![o] = "running"]
                  /\ awaiting' = [awaiting EXCEPT ![o] = @ + 1]
                  /\ UNCHANGED responses
             ELSE /\ result' = [result EXCEPT ![o] = "value"]
                  /\ Answer(o, "value", {copies[o]})
                  /\ UNCHANGED awaiting

\* An operation whose result is stored waits for it or is answered with it.
AnswerStored(o) ==
  /\ IF result[o] = "running"
     THEN awaiting' = [awaiting EXCEPT ![o] = @ + 1] /\ UNCHANGED responses
     ELSE Answer(o, result[o], {copies[o]}) /\ UNCHANGED awaiting
  /\ UNCHANGED <<stored, result, runs>>

\* An operation whose result is stored is not done again.
HandleRequest(o) ==
  \/ o \in stored /\ AnswerStored(o)
  \/ /\ o \notin stored
     /\ \E n \in Counts(stored) : n >= MaxOperations
     /\ Answer(o, "busy", {copies[o]})
     /\ UNCHANGED <<stored, result, awaiting, runs>>
  \/ /\ o \notin stored
     /\ \E n \in Counts(stored) : n < MaxOperations
     /\ Work(o)

\* _onPureRPCRequest
ReceiveRequest(o) ==
  /\ "owner" \in open
  /\ o \in flight
  /\ flight' = flight \ {o}
  /\ HandleRequest(o)
  /\ UNCHANGED <<handleVars, open, holderVars, repeated, copies, answered>>

\* The method returns or throws: every run that awaits it emits a response.
Return(o) ==
  /\ "owner" \in open
  /\ result[o] = "running"
  /\ result' = [result EXCEPT ![o] = "value"]
  /\ Answer(o, "value", copies[o] - awaiting[o] + 1 .. copies[o])
  /\ awaiting' = [awaiting EXCEPT ![o] = 0]
  /\ UNCHANGED <<handleVars, open, holderVars, repeated, copies, flight, answered, stored, runs>>

\* The ACK of a response; it comes after the copies on the same socket.
\* _onEventDelivered
Acknowledge(x) ==
  /\ "owner" \in open
  /\ x \in answered /\ x.op \notin flight
  /\ answered' = answered \ {x}
  /\ stored' = stored \ {x.op}
  /\ UNCHANGED <<handleVars, open, holderVars, repeated, copies, flight, responses, result,
                 awaiting, runs>>

-----------------------------------------------------------------------------
LeaseStep ==
  /\ \/ "owner" \in open /\ (OwnerSends \/ OwnerHears)
     \/ "holder" \in open /\ (HolderHears \/ \E g \in Ids : Finalize(g))
     \/ BothOpen /\ NetworkLoses
  /\ UNCHANGED <<open, holderVars, wireVars, ownerVars>>

Proxy(g) ==
  CollectProxy(g) \/ DisposeProxy(g) \/ \E o \in Operations : Write(o, g) \/ Ask(o, g)

Operation(o) ==
  Proceed(o) \/ SendFails(o) \/ Send(o) \/ LoseCopy(o) \/ ReceiveRequest(o) \/ Return(o)

Next ==
  \/ LeaseStep
  \/ \E e \in Ends : Stop(e) \/ PeerReleased(e)
  \/ \E g \in Ids : Proxy(g)
  \/ \E o \in Operations : Operation(o)
  \/ \E x \in responses : ReceiveResponse(x)
  \/ \E x \in answered : Acknowledge(x)

Spec == Init /\ [][Next]_vars

(* Retries go on, methods return, and an operation that waits goes on when *)
(* it can.  Nothing makes the application use or drop a proxy.             *)
Fairness ==
  /\ \A e \in Ends : WF_vars(PeerReleased(e))
  /\ \A o \in Operations : /\ WF_vars(Proceed(o))
                           /\ WF_vars(Send(o))
                           /\ WF_vars(LoseCopy(o) \/ ReceiveRequest(o))
                           /\ WF_vars(Return(o))
  /\ WF_vars(\E x \in responses : ReceiveResponse(x))

FairSpec == Spec /\ Fairness

-----------------------------------------------------------------------------
\* As long as its proxy is reachable the object is registered, whatever is
\* prepared, rolled back, disposed and sent again meanwhile (the leases of
\* _serializePureRPC and _handle).  A send that a later one has overtaken is the
\* exception.  And the registry keeps the object only while somebody may still
\* reach it: a send of it is prepared or on the wire, or there is a proxy, or its
\* release is under way; a message that fails leaves nothing behind
\* (SerializationTransaction.rollback).
ObjectFollowsProxies ==
  BothOpen =>
  /\ \A g \in Ids \ overtaken : Reachable(g) => Registered(g)
  /\ \A g \in Ids \ (overtaken \cup lost) :
       Registered(g) =>
         \/ \E s \in Sends : marker[s].id = g /\ stage[s] \in {"prepared", "wire"}
         \/ proxies[g].state # "none"
         \/ \E r \in releases : r.id = g

\* The collection of a proxy takes the object from no operation: one that finds it
\* missing was under way when its proxy was disposed (leaseAnchor).  A late copy
\* of an operation that was refused for want of a place may find anything.
OperationFindsItsObject ==
  \A o \in Operations :
    result[o] = "missing" =>
      o \in cut \/ target[o] \in overtaken \/ caller[o] = "busy"

\* A read or a call never runs before, or among, the writes made before it through
\* its proxy: once it ran, none of them is applied any more, not even by a copy
\* that comes late (waitForPendingSets, _incomingCallResults).  Only a late copy
\* of a write that was refused for want of a place is.
WritesComeFirst ==
  [][ \A o \in Calls : \A w \in earlier[o] :
        runs[o] > 0 /\ caller[w] # "busy" => runs'[w] = runs[w] ]_vars

\* Every operation settles: with a result, an error or the end of the channel; so
\* a read is not held up by a write for ever.
OperationsSettle == \A o \in Operations : o \in Unsettled ~> o \notin Unsettled

=============================================================================
