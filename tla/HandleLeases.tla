---------------------------- MODULE HandleLeases ----------------------------
(***************************************************************************)
(* How an object stays exposed as long as the peer holds a handle of it:   *)
(* TransformPureRPC, PureRPCRegistry and createPureRPCProxy                *)
(* (src/src/PerfectWSAdvanced/transform/).  One object of one owner, and   *)
(* the holder at the other end of the channel.                             *)
(*                                                                         *)
(* The owner keeps three tables under the id of the object: the registry,  *)
(* the handles that no send has confirmed yet, and the leases; each send   *)
(* takes a lease.  A send is prepared, which serializes it, and committed  *)
(* when it is first put on the wire, or rolled back when it never is.  The *)
(* holder has one proxy of an id, with the highest lease it received.  The *)
(* proxy ends when the application disposes it, or when it was collected;  *)
(* a release with its lease goes back.  Registrations are numbered: the    *)
(* n-th id is n, and 0 is no id.                                           *)
(*                                                                         *)
(* A send is received at most once, in any order, or lost on the wire;     *)
(* a release is sent until it is acknowledged.                             *)
(***************************************************************************)
EXTENDS Naturals, FiniteSetsExt

CONSTANTS
  Sends,       \* messages that carry the object
  MaxId,       \* bound: times the object is registered
  MaxHandles,  \* maxPureRPCHandles
  OtherHandles \* bound: other objects of the registry

ASSUME HandleLeasesAssumption ==
  /\ {MaxId, MaxHandles} \subseteq Nat \ {0}
  /\ OtherHandles \in Nat
  /\ IsFiniteSet(Sends)

VARIABLES
  ids,          \* ids used so far
  registry,     \* the id of the object in the registry
  provisional,  \* pendingTransactions of its provisional handle; {}: confirmed
  leases,       \* its HandleLeaseState
  stage,        \* where each send is
  marker,       \* the id and lease each send carries
  proxies,      \* the holder's ReceivedProxyEntry of each id
  releases,     \* release requests that were not received yet
  overtaken,    \* history: ids with a send received after a later one
  lost          \* history: ids with a send that was lost on the wire

tables == <<registry, provisional, leases>>
handleVars == <<ids, tables, stage, marker, proxies, releases, overtaken, lost>>

Ids == 1 .. MaxId
Leases == 0 .. Cardinality(Sends)

LeaseStates == [current : Leases, committed : Leases, pending : [Sends -> Leases],
                pendingRelease : Leases]
NoLeases == [current |-> 0, committed |-> 0, pending |-> [s \in Sends |-> 0],
             pendingRelease |-> 0]

Marks == [id : 0 .. MaxId, lease : Leases]
NoProxy == [state |-> "none", lease |-> 0]

HandleTypeOK ==
  /\ {ids, registry} \subseteq 0 .. MaxId
  /\ provisional \subseteq Sends
  /\ leases \in LeaseStates
  /\ stage \in [Sends -> {"new", "prepared", "wire", "received", "over"}]
  /\ marker \in [Sends -> Marks]
  /\ proxies \in [Ids -> [state : {"none", "live", "collected"}, lease : Leases]]
  /\ releases \subseteq Marks
  /\ overtaken \cup lost \subseteq Ids

HandleInit ==
  /\ ids = 0 /\ registry = 0 /\ provisional = {} /\ leases = NoLeases
  /\ stage = [s \in Sends |-> "new"]
  /\ marker = [s \in Sends |-> [id |-> 0, lease |-> 0]]
  /\ proxies = [g \in Ids |-> NoProxy]
  /\ releases = {} /\ overtaken = {} /\ lost = {}

Registered(g) == registry = g
Reachable(g) == proxies[g].state = "live"

-----------------------------------------------------------------------------
(* The owner.                                                              *)

\* The object leaves all three tables.
Forget == registry' = 0 /\ provisional' = {} /\ leases' = NoLeases

\* PureRPCRegistry.register: a new object needs a place among the others.
HasPlace == registry # 0 \/ \E n \in 0 .. OtherHandles : n < MaxHandles
MayBeFull == registry = 0 /\ \E n \in 0 .. OtherHandles : n >= MaxHandles

\* _serializePureRPC.  An object that is new is provisional until one of the
\* sends that carry it is committed.
Prepare(s) ==
  /\ stage[s] = "new"
  /\ HasPlace /\ (registry = 0 => ids < MaxId)
  /\ ids' = IF registry = 0 THEN ids + 1 ELSE ids
  /\ registry' = IF registry = 0 THEN ids + 1 ELSE registry
  /\ provisional' = IF registry = 0 \/ provisional # {} THEN provisional \cup {s} ELSE {}
  /\ leases' = [leases EXCEPT !.current = @ + 1, !.pending[s] = leases.current + 1]
  /\ marker' = [marker EXCEPT ![s] = [id |-> registry', lease |-> leases.current + 1]]
  /\ stage' = [stage EXCEPT ![s] = "prepared"]
  /\ UNCHANGED <<proxies, releases, overtaken, lost>>

\* The registry is full: the message is not sent.
PrepareFails(s) ==
  /\ stage[s] = "new"
  /\ MayBeFull
  /\ stage' = [stage EXCEPT ![s] = "over"]
  /\ UNCHANGED <<ids, tables, marker, proxies, releases, overtaken, lost>>

\* Both commit registrations of the send.
Commit(s) ==
  /\ IF marker[s].id # registry THEN UNCHANGED <<provisional, leases>>
     ELSE /\ provisional' = IF s \in provisional THEN {} ELSE provisional
          /\ leases' = [leases EXCEPT !.pending[s] = 0,
                                      !.committed = Max({@, marker[s].lease})]
  /\ UNCHANGED registry

\* onSent of the first attempt.
PutOnWire(s) ==
  /\ stage[s] = "prepared"
  /\ Commit(s)
  /\ stage' = [stage EXCEPT ![s] = "wire"]
  /\ UNCHANGED <<ids, marker, proxies, releases, overtaken, lost>>

\* The lease that is current when send s gives its own back.
CurrentWithout(s) ==
  Max({leases.committed} \cup {leases.pending[t] : t \in Sends \ {s}})

\* A release that came while newer leases were out takes effect without them.
ReleaseWaited(s) == CurrentWithout(s) > 0 /\ leases.pendingRelease >= CurrentWithout(s)

\* Mutant of Undo: the handle goes with any send it is provisional for.
UndoForgetsOthers(s) ==
  IF marker[s].id # registry THEN UNCHANGED tables
  ELSE IF ReleaseWaited(s) \/ s \in provisional
  THEN Forget
  ELSE /\ leases' = [leases EXCEPT !.pending[s] = 0, !.current = CurrentWithout(s)]
       /\ UNCHANGED <<registry, provisional>>

\* Both rollback registrations, the one of the lease first.
Undo(s) ==
  IF marker[s].id # registry THEN UNCHANGED tables
  ELSE IF ReleaseWaited(s) \/ provisional = {s}
  THEN Forget
  ELSE /\ leases' = [leases EXCEPT !.pending[s] = 0, !.current = CurrentWithout(s)]
       /\ provisional' = provisional \ {s}
       /\ UNCHANGED registry

\* A later part of the message cannot be serialized, or its send ends and was
\* never put on the wire.
Rollback(s) ==
  /\ stage[s] = "prepared"
  /\ Undo(s)
  /\ stage' = [stage EXCEPT ![s] = "over"]
  /\ UNCHANGED <<ids, marker, proxies, releases, overtaken, lost>>

\* The release operation of _handle; older leases wait for a rollback.
ReleaseHandle(r) ==
  IF r.id # registry \/ r.lease > leases.current THEN UNCHANGED tables
  ELSE IF r.lease = leases.current THEN Forget
  ELSE /\ leases' = [leases EXCEPT !.pendingRelease = Max({@, r.lease})]
       /\ UNCHANGED <<registry, provisional>>

\* _onPureRPCRequest with a release.
ReceiveRelease(r) ==
  /\ r \in releases
  /\ releases' = releases \ {r}
  /\ ReleaseHandle(r)
  /\ UNCHANGED <<ids, stage, marker, proxies, overtaken, lost>>

-----------------------------------------------------------------------------
(* The network, and the holder.                                            *)

Lose(s) ==
  /\ stage[s] = "wire"
  /\ stage' = [stage EXCEPT ![s] = "over"]
  /\ lost' = lost \cup {marker[s].id}
  /\ UNCHANGED <<ids, tables, marker, proxies, releases, overtaken>>

Later(s, t) == marker[s].id = marker[t].id /\ marker[s].lease < marker[t].lease

\* Mutant of Receive: a live proxy keeps the lease it was made with.
ReceiveKeepsLease(s) ==
  LET g == marker[s].id IN
  /\ stage[s] = "wire"
  /\ stage' = [stage EXCEPT ![s] = "received"]
  /\ proxies' = IF Reachable(g) THEN proxies
                ELSE [proxies EXCEPT ![g] = [state |-> "live", lease |-> marker[s].lease]]
  /\ overtaken' = IF \E t \in Sends : stage[t] = "received" /\ Later(s, t)
                  THEN overtaken \cup {g} ELSE overtaken
  /\ UNCHANGED <<ids, tables, marker, releases, lost>>

\* deserialize: a live proxy takes the higher lease.  Otherwise there is a new
\* proxy, whose token the finalizer of a collected one does not have.
Receive(s) ==
  LET g == marker[s].id
      l == marker[s].lease IN
  /\ stage[s] = "wire"
  /\ stage' = [stage EXCEPT ![s] = "received"]
  /\ proxies' = [proxies EXCEPT ![g] =
       [state |-> "live",
        lease |-> IF @.state = "live" THEN Max({@.lease, l}) ELSE l]]
  /\ overtaken' = IF \E t \in Sends : stage[t] = "received" /\ Later(s, t)
                  THEN overtaken \cup {g} ELSE overtaken
  /\ UNCHANGED <<ids, tables, marker, releases, lost>>

\* release of the transport, with the token of the entry.
EndProxy(g) ==
  /\ proxies' = [proxies EXCEPT ![g] = NoProxy]
  /\ releases' = releases \cup {[id |-> g, lease |-> proxies[g].lease]}
  /\ UNCHANGED <<ids, tables, stage, marker, overtaken, lost>>

\* Symbol.dispose: operations made from now on throw.
Dispose(g) == Reachable(g) /\ EndProxy(g)

\* The proxy and all that was derived from it were collected.
Collect(g) ==
  /\ Reachable(g)
  /\ proxies' = [proxies EXCEPT ![g].state = "collected"]
  /\ UNCHANGED <<ids, tables, stage, marker, releases, overtaken, lost>>

\* finalizationRegistry calls state.release.
Finalize(g) == proxies[g].state = "collected" /\ EndProxy(g)

-----------------------------------------------------------------------------
OwnerSends ==
  \E s \in Sends : Prepare(s) \/ PrepareFails(s) \/ PutOnWire(s) \/ Rollback(s)
OwnerHears == \E r \in releases : ReceiveRelease(r)
HolderHears == \E s \in Sends : Receive(s)
NetworkLoses == \E s \in Sends : Lose(s)

=============================================================================
