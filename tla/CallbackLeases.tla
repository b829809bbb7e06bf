--------------------------- MODULE CallbackLeases ---------------------------
(***************************************************************************)
(* How a function sent to the peer stays registered as long as the peer    *)
(* can reach it: TransformCallbacks with SerializationTransaction          *)
(* (src/src/PerfectWSAdvanced/transform/).  One function of one owner, and *)
(* the holder at the other end, over one channel.                          *)
(*                                                                         *)
(* The owner registers the function under an id and counts the sends that  *)
(* carry it (its lease).  Each send is a transaction: it is prepared,      *)
(* which serializes it, and committed when it is first put on the wire, or *)
(* rolled back when it never is.  The holder keeps one wrapper of an id,   *)
(* with the highest lease it was received with; when the wrapper was       *)
(* collected, a release with that lease goes back.  Registrations are      *)
(* numbered: the n-th id is n, and 0 is no id.                             *)
(*                                                                         *)
(* A send is received at most once (module PacketDelivery), in any order:  *)
(* a retry may come after later sends.  It may also be lost for good: its  *)
(* attempts are used up, or it shares its packet id with a send that       *)
(* replays the same request and was received first.  Releases are durable. *)
(***************************************************************************)
EXTENDS Naturals, FiniteSetsExt

CONSTANTS
  Sends,    \* messages that carry the function
  MaxId     \* bound: times the function is registered

ASSUME CallbackLeasesAssumption == MaxId \in Nat \ {0} /\ IsFiniteSet(Sends)

VARIABLES
  ids,        \* ids used so far
  entry,      \* the owner's OwnedCallbackEntry of the function
  stage,      \* where each send is
  marker,     \* the id and lease each send carries
  received,   \* the holder's ReceivedCallbackEntry of each id
  releases,   \* ___callback.release events that were not received yet
  overtaken,  \* history: ids with a send received after a later one
  lost        \* history: ids with a send that was lost on the wire

leaseVars == <<ids, entry, stage, marker, received, releases, overtaken, lost>>

Ids == 1 .. MaxId
Leases == 0 .. Cardinality(Sends)

(* pending is pendingLeases, 0 where a send has none; releaseLease is      *)
(* pendingReleaseLease.  The set pendingTransactions is the sends with a   *)
(* pending lease as long as nothing was committed, and not used after.     *)
Entries == [id : 0 .. MaxId, lease : Leases, committedLease : Leases,
            committed : BOOLEAN, pending : [Sends -> Leases], releaseLease : Leases]

NewEntry(id) == [id |-> id, lease |-> 0, committedLease |-> 0, committed |-> FALSE,
                 pending |-> [s \in Sends |-> 0], releaseLease |-> 0]
NoEntry == NewEntry(0)

Marks == [id : 0 .. MaxId, lease : Leases]
NoWrapper == [state |-> "none", lease |-> 0]

LeaseTypeOK ==
  /\ ids \in 0 .. MaxId
  /\ entry \in Entries
  /\ stage \in [Sends -> {"new", "prepared", "wire", "received", "over"}]
  /\ marker \in [Sends -> Marks]
  /\ received \in [Ids -> [state : {"none", "live", "collected"}, lease : Leases]]
  /\ releases \subseteq Marks
  /\ overtaken \subseteq Ids
  /\ lost \subseteq Ids

LeaseInit ==
  /\ ids = 0
  /\ entry = NoEntry
  /\ stage = [s \in Sends |-> "new"]
  /\ marker = [s \in Sends |-> [id |-> 0, lease |-> 0]]
  /\ received = [g \in Ids |-> NoWrapper]
  /\ releases = {}
  /\ overtaken = {}
  /\ lost = {}

-----------------------------------------------------------------------------
(* The owner.                                                              *)

\* _serializeFunction: register the function if it is not, and take a lease.
Prepare(s) ==
  /\ stage[s] = "new"
  /\ entry.id = 0 => ids < MaxId
  /\ LET e == IF entry.id = 0 THEN NewEntry(ids + 1) ELSE entry IN
     /\ entry' = [e EXCEPT !.lease = @ + 1, !.pending[s] = e.lease + 1]
     /\ ids' = IF entry.id = 0 THEN ids + 1 ELSE ids
     /\ marker' = [marker EXCEPT ![s] = [id |-> e.id, lease |-> e.lease + 1]]
  /\ stage' = [stage EXCEPT ![s] = "prepared"]
  /\ UNCHANGED <<received, releases, overtaken, lost>>

\* Both commit registrations of a send; later registrations are not touched.
Commit(s) ==
  entry' = IF entry.id # marker[s].id THEN entry
           ELSE [entry EXCEPT !.committed = TRUE, !.pending[s] = 0,
                              !.committedLease = Max({@, entry.pending[s]})]

\* onSent of the first attempt.
PutOnWire(s) ==
  /\ stage[s] = "prepared"
  /\ Commit(s)
  /\ stage' = [stage EXCEPT ![s] = "wire"]
  /\ UNCHANGED <<ids, marker, received, releases, overtaken, lost>>

\* The highest lease that is left when send s gives its own back.
LeaseWithout(s) ==
  Max({entry.committedLease} \cup {entry.pending[t] : t \in Sends \ {s}})

OnlyPending(s) == \A t \in Sends \ {s} : entry.pending[t] = 0

\* Mutant of Undo: a release that came in the meantime is forgotten.
UndoForgetsRelease(s) ==
  entry' = IF entry.id # marker[s].id THEN entry
           ELSE IF ~entry.committed /\ OnlyPending(s) THEN NoEntry
           ELSE [entry EXCEPT !.pending[s] = 0, !.lease = LeaseWithout(s)]

\* Both rollback registrations, the later one first.
Undo(s) ==
  entry' =
    IF entry.id # marker[s].id THEN entry
    ELSE IF \/ ~entry.committed /\ OnlyPending(s)
            \/ LeaseWithout(s) > 0 /\ entry.releaseLease >= LeaseWithout(s)
    THEN NoEntry
    ELSE [entry EXCEPT !.pending[s] = 0, !.lease = LeaseWithout(s)]

\* The send ends and was never put on the wire: rollbackPrepared.
Rollback(s) ==
  /\ stage[s] = "prepared"
  /\ Undo(s)
  /\ stage' = [stage EXCEPT ![s] = "over"]
  /\ UNCHANGED <<ids, marker, received, releases, overtaken, lost>>

\* Mutant of ReleaseEntry: the lease of the release is not compared.
ReleaseAnyLease(r) == entry' = IF r.id = entry.id THEN NoEntry ELSE entry

\* A release of an older lease is kept for a rollback of the newer ones.
ReleaseEntry(r) ==
  entry' = IF r.id # entry.id \/ r.lease > entry.lease THEN entry
           ELSE IF r.lease = entry.lease THEN NoEntry
           ELSE [entry EXCEPT !.releaseLease = Max({@, r.lease})]

\* _onCallbackRelease
ReceiveRelease(r) ==
  /\ r \in releases
  /\ releases' = releases \ {r}
  /\ ReleaseEntry(r)
  /\ UNCHANGED <<ids, stage, marker, received, overtaken, lost>>

-----------------------------------------------------------------------------
(* The network, and the holder.                                            *)

\* A send that was put on the wire is never received.
Lose(s) ==
  /\ stage[s] = "wire"
  /\ stage' = [stage EXCEPT ![s] = "over"]
  /\ lost' = lost \cup {marker[s].id}
  /\ UNCHANGED <<ids, entry, marker, received, releases, overtaken>>

Later(s, t) == marker[s].id = marker[t].id /\ marker[s].lease < marker[t].lease

\* deserialize: the live wrapper takes the higher lease; otherwise there is a
\* new one, and the finalizer of a collected one will not be heard any more.
Receive(s) ==
  LET g == marker[s].id
      l == marker[s].lease IN
  /\ stage[s] = "wire"
  /\ stage' = [stage EXCEPT ![s] = "received"]
  /\ received' = [received EXCEPT ![g] =
       [state |-> "live",
        lease |-> IF @.state = "live" THEN Max({@.lease, l}) ELSE l]]
  /\ overtaken' = IF \E t \in Sends : stage[t] = "received" /\ Later(s, t)
                  THEN overtaken \cup {g} ELSE overtaken
  /\ UNCHANGED <<ids, entry, marker, releases, lost>>

\* The application lost its last reference and the wrapper was collected.
Collect(g) ==
  /\ received[g].state = "live"
  /\ received' = [received EXCEPT ![g].state = "collected"]
  /\ UNCHANGED <<ids, entry, stage, marker, releases, overtaken, lost>>

\* Mutant of Finalize: the entry is kept.
FinalizeKeepsEntry(g) ==
  /\ received[g].state = "collected"
  /\ releases' = releases \cup {[id |-> g, lease |-> received[g].lease]}
  /\ UNCHANGED <<ids, entry, stage, marker, received, overtaken, lost>>

\* finalizeReceivedFunction with the token of the entry.
Finalize(g) ==
  /\ received[g].state = "collected"
  /\ received' = [received EXCEPT ![g] = NoWrapper]
  /\ releases' = releases \cup {[id |-> g, lease |-> received[g].lease]}
  /\ UNCHANGED <<ids, entry, stage, marker, overtaken, lost>>

-----------------------------------------------------------------------------
OwnerSends == \E s \in Sends : Prepare(s) \/ PutOnWire(s) \/ Rollback(s)
OwnerHears == \E r \in releases : ReceiveRelease(r)
HolderHears == \E s \in Sends : Receive(s)
HolderCollects == \E g \in Ids : Collect(g) \/ Finalize(g)
NetworkLoses == \E s \in Sends : Lose(s)

Registered(g) == entry.id = g
Reachable(g) == received[g].state = "live"

=============================================================================
