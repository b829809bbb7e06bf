------------------------- MODULE LiveCallbacksProofs -------------------------
(* A function that was sent stays registered as long as its wrappers can be *)
(* reached and no longer, a call runs it once, and the channel is not       *)
(* released while it is used: for any number of sends, registrations, calls *)
(* and copies.                                                              *)
EXTENDS LiveCallbacks, TLAPS, WellFoundedInduction

(***************************************************************************)
(* The leases.                                                             *)
(***************************************************************************)
Mark == [id : 0 .. MaxId, lease : Nat]

Entry == [id : 0 .. MaxId, lease : Nat, committedLease : Nat,
          committed : BOOLEAN, pending : [Sends -> Nat], releaseLease : Nat]

\* The types of the leases; that no lease exceeds the number of sends is not
\* needed.
LeaseTypes ==
  /\ ids \in 0 .. MaxId
  /\ entry \in Entry
  /\ stage \in [Sends -> {"new", "prepared", "wire", "received", "over"}]
  /\ marker \in [Sends -> Mark]
  /\ received \in [Ids -> [state : {"none", "live", "collected"}, lease : Nat]]
  /\ releases \subseteq Mark
  /\ overtaken \subseteq 0 .. MaxId /\ lost \subseteq 0 .. MaxId

\* What the sends of one id carry tells them apart.
Carries(s) == stage[s] \in {"prepared", "wire", "received"}

MarkersDiffer ==
  /\ \A s \in Sends : Carries(s) => marker[s].id \in 1 .. ids /\ marker[s].lease > 0
  /\ \A s, t \in Sends :
       Carries(s) /\ Carries(t) /\ marker[s].id = marker[t].id
       /\ marker[s].lease = marker[t].lease => s = t

\* The entry's lease is the highest that is committed or pending.
LeaseIsHighest ==
  /\ entry.id <= ids
  /\ entry.id = 0 => entry = NoEntry
  /\ entry.id # 0 => entry.lease > 0
  /\ entry.committed <=> entry.committedLease > 0
  /\ entry.committedLease <= entry.lease
  /\ \A s \in Sends : entry.pending[s] <= entry.lease
  /\ entry.lease = entry.committedLease \/ \E s \in Sends : entry.pending[s] = entry.lease

\* It knows the leases of the sends that carry its id.
EntryKnowsSends ==
  \A s \in Sends :
    /\ entry.pending[s] = IF stage[s] = "prepared" /\ marker[s].id = entry.id
                          THEN marker[s].lease ELSE 0
    /\ stage[s] \in {"wire", "received"} /\ marker[s].id = entry.id
       => marker[s].lease <= entry.committedLease

\* A send was received with this id and lease.
WasReceived(g, l) ==
  \E s \in Sends : stage[s] = "received" /\ marker[s].id = g /\ marker[s].lease = l

\* What the holder knows of leases it was sent.
LeasesAreReceived ==
  /\ \A g \in Ids : received[g].state # "none" => WasReceived(g, received[g].lease)
  /\ \A r \in releases : WasReceived(r.id, r.lease)
  /\ entry.releaseLease > 0 => WasReceived(entry.id, entry.releaseLease)

\* A wrapper is of a lease that no release was sent for, and the latest.
WrapperIsLatest ==
  \A g \in Ids \ overtaken :
    received[g].state # "none" =>
      /\ entry.id = g /\ entry.releaseLease < received[g].lease
      /\ \A r \in releases : r.id = g => r.lease < received[g].lease
      /\ \A s \in Sends : stage[s] = "received" /\ marker[s].id = g
                          => marker[s].lease <= received[g].lease

\* A function that is gone is only carried by sends that were overtaken.
GoneIsOvertaken ==
  \A s \in Sends :
    stage[s] \in {"prepared", "wire"} /\ marker[s].id # entry.id
    => \E t \in Sends : stage[t] = "received" /\ Later(s, t)

LeaseInv ==
  /\ MarkersDiffer /\ LeaseIsHighest /\ EntryKnowsSends
  /\ LeasesAreReceived /\ WrapperIsLatest /\ GoneIsOvertaken

\* Why a function of which no send is prepared is still registered.
OnWire(g, l) ==
  \E s \in Sends : stage[s] = "wire" /\ marker[s].id = g /\ marker[s].lease = l

CommittedIsKnown ==
  entry.committedLease > 0 /\ entry.id \notin lost =>
    OnWire(entry.id, entry.committedLease) \/ WasReceived(entry.id, entry.committedLease)

KeptForSomebody ==
  entry.id \notin overtaken \cup lost /\ WasReceived(entry.id, entry.committedLease) =>
    \/ received[entry.id].state # "none"
    \/ \E r \in releases : r.id = entry.id /\ r.lease = entry.committedLease
    \/ entry.releaseLease >= entry.committedLease /\ entry.lease > entry.committedLease

(***************************************************************************)
(* The calls.                                                              *)
(***************************************************************************)
CallTypes ==
  /\ open \subseteq Ends /\ finished \subseteq Ends /\ closing \subseteq Ends
  /\ asking \in BOOLEAN /\ stopped \in BOOLEAN
  /\ caller \in [Calls -> {"new", "pending", "resolved", "rejected", "released", "refused"}]
  /\ target \in [Calls -> 0 .. MaxId]
  /\ copies \in [Calls -> 0 .. MaxCopies]
  /\ flight \subseteq Calls /\ stored \subseteq Calls
  /\ promise \in [Calls -> {"none", "running", "value", "missing"}]
  /\ waiting \in [Calls -> Nat]
  /\ responses \subseteq Response /\ answered \subseteq Response
  /\ runs \in [Calls -> Nat]

\* A call that was not made has left no trace; one that was answered is settled.
CallsAreMade ==
  /\ \A c \in Calls : caller[c] = "new" =>
                        c \notin flight /\ runs[c] = 0 /\ promise[c] = "none"
  /\ \A x \in responses : caller[x.call] # "new"
  /\ \A x \in answered : caller[x.call] \notin {"new", "pending"}

\* Runs that wait for the function are of copies that were received.
WaitingIsCounted ==
  \A c \in Calls :
    /\ waiting[c] <= copies[c]
    /\ c \in flight => waiting[c] < copies[c]
    /\ promise[c] = "running" => waiting[c] > 0
    /\ c \in stored => promise[c] # "none"

\* The owner forgets the result of a call that ran when no copy can come any more.
ResultIsKept ==
  "owner" \in open =>
    \A c \in Calls : runs[c] > 0 => c \in stored \/ (c \notin flight /\ caller[c] # "pending")

\* A call that ran and is not settled will be answered.
RunIsAnswered ==
  \A c \in Calls :
    caller[c] = "pending" /\ runs[c] > 0 =>
      promise[c] = "running" \/ \E x \in responses : x.call = c

CallInv == CallsAreMade /\ WaitingIsCounted /\ ResultIsKept /\ CallRunsOnce /\ RunIsAnswered

(***************************************************************************)
(* The channel.                                                            *)
(***************************************************************************)
AskedIsClosing == asking => closing # {}

\* The first end to leave, and it left by itself.
OwnerLeft == "owner" \notin open /\ "holder" \in open /\ closing = {} /\ ~stopped

Channels ==
  /\ AskedIsClosing
  /\ "owner" \in open \/ OwnerLeft => LeaseInv
  /\ BothOpen => CommittedIsKnown /\ KeptForSomebody
  /\ OwnerLeft => entry.id = 0 /\ Running = {} /\ responses = {}

CallbackInv == LeaseTypes /\ CallTypes /\ CallInv /\ Channels

-----------------------------------------------------------------------------
(* Lease numbers.                                                          *)

LEMMA LargestExists ==
  ASSUME NEW S, S \subseteq Nat, S # {}, NEW b \in Nat, \A x \in S : x <= b
  PROVE  \E x \in S : \A y \in S : x >= y
<1> DEFINE T == {n \in Nat : \E x \in S : n = b - x}
<1>1. T # {} /\ T \subseteq Nat
  <2>1. PICK x \in S : TRUE
    OBVIOUS
  <2>2. b - x \in T
    BY <2>1
  <2>3. QED
    BY <2>2
<1>2. PICK m \in T : \A n \in T : ~(<<n, m>> \in OpToRel(<, Nat))
  BY <1>1, NatLessThanWellFounded, WFMin
<1>3. \A n \in T : ~(n < m)
  BY <1>1, <1>2, Zenon DEF OpToRel
<1>4. PICK x \in S : m = b - x
  OBVIOUS
<1>5. ASSUME NEW y \in S PROVE x >= y
  <2>1. b - y \in T
    BY <1>5
  <2>2. ~(b - y < b - x)
    BY <1>3, <1>4, <2>1
  <2>3. QED
    BY <2>2
<1>6. QED
  BY <1>5

\* Max of a bounded set of numbers.
LEMMA MaxIsLargest ==
  ASSUME NEW S, S \subseteq Nat, S # {}, NEW b \in Nat, \A x \in S : x <= b
  PROVE  Max(S) \in S /\ \A x \in S : x <= Max(S)
BY LargestExists DEF Max

LEMMA MaxOfTwo ==
  ASSUME NEW a \in Nat, NEW b \in Nat
  PROVE  Max({a, b}) = IF a >= b THEN a ELSE b
<1>1. CASE a >= b
  BY <1>1, MaxIsLargest
<1>2. CASE ~(a >= b)
  BY <1>2, MaxIsLargest
<1>3. QED
  BY <1>1, <1>2

\* What is left when a send gives its lease back.
LEMMA LeaseWithoutIsHighest ==
  ASSUME LeaseTypes, LeaseIsHighest, NEW s \in Sends
  PROVE  /\ LeaseWithout(s) \in Nat /\ LeaseWithout(s) <= entry.lease
         /\ entry.committedLease <= LeaseWithout(s)
         /\ \A t \in Sends \ {s} : entry.pending[t] <= LeaseWithout(s)
         /\ \/ LeaseWithout(s) = entry.committedLease
            \/ \E t \in Sends \ {s} : entry.pending[t] = LeaseWithout(s)
<1> DEFINE S == {entry.committedLease} \cup {entry.pending[t] : t \in Sends \ {s}}
<1>1. S \subseteq Nat /\ entry.lease \in Nat /\ \A x \in S : x <= entry.lease
  BY DEF LeaseTypes, LeaseIsHighest, Entry
<1>2. Max(S) \in S /\ \A x \in S : x <= Max(S)
  BY <1>1, MaxIsLargest
<1>3. QED
  BY <1>1, <1>2 DEF LeaseWithout

-----------------------------------------------------------------------------
(* What a step of the owner does to the leases.                            *)

Kept == CommittedIsKnown /\ KeptForSomebody

\* No send carries a lease of the entry's id that is higher than the entry's.
LEMMA CarriedIsKnown ==
  ASSUME LeaseTypes, LeaseInv, NEW s \in Sends, Carries(s), marker[s].id = entry.id
  PROVE  marker[s].lease <= entry.lease
<1>1. /\ marker[s].lease \in Nat /\ entry.committedLease \in Nat /\ entry.lease \in Nat
  BY DEF LeaseTypes, Mark, Entry
<1>2. CASE stage[s] = "prepared"
  BY <1>2 DEF LeaseInv, LeaseIsHighest, EntryKnowsSends
<1>3. CASE stage[s] # "prepared"
  BY <1>1, <1>3 DEF LeaseInv, LeaseIsHighest, EntryKnowsSends, Carries
<1>4. QED
  BY <1>2, <1>3

LEMMA PrepareFields ==
  ASSUME LeaseTypes, LeaseInv, NEW s \in Sends, Prepare(s)
  PROVE  /\ LeaseTypes'
         /\ entry'.id = IF entry.id = 0 THEN ids + 1 ELSE entry.id
         /\ ids' = IF entry.id = 0 THEN ids + 1 ELSE ids
         /\ entry'.lease = entry.lease + 1
         /\ entry'.committedLease = entry.committedLease
         /\ entry'.committed = entry.committed
         /\ entry'.releaseLease = entry.releaseLease
         /\ \A t \in Sends : entry'.pending[t] = IF t = s THEN entry.lease + 1 ELSE entry.pending[t]
         /\ marker'[s].id = entry'.id /\ marker'[s].lease = entry'.lease
<1> DEFINE e == IF entry.id = 0 THEN NewEntry(ids + 1) ELSE entry
<1>1. /\ e \in Entry
      /\ e.id = IF entry.id = 0 THEN ids + 1 ELSE entry.id
      /\ e.lease = entry.lease /\ e.committedLease = entry.committedLease
      /\ e.committed = entry.committed /\ e.releaseLease = entry.releaseLease
      /\ \A t \in Sends : e.pending[t] = entry.pending[t]
  <2>1. CASE entry.id # 0
    BY <2>1 DEF LeaseTypes
  <2>2. CASE entry.id = 0
    <3>1. entry = NoEntry /\ ids + 1 \in 0 .. MaxId
      BY <2>2, CallbackLeasesAssumption DEF LeaseInv, LeaseIsHighest, LeaseTypes, Prepare
    <3>2. QED
      BY <2>2, <3>1 DEF NoEntry, NewEntry, Entry
  <2>3. QED
    BY <2>1, <2>2
<1>2. /\ entry' = [e EXCEPT !.lease = @ + 1, !.pending[s] = e.lease + 1]
      /\ ids' = IF entry.id = 0 THEN ids + 1 ELSE ids
      /\ marker' = [marker EXCEPT ![s] = [id |-> e.id, lease |-> e.lease + 1]]
      /\ stage' = [stage EXCEPT ![s] = "prepared"]
      /\ UNCHANGED <<received, releases, overtaken, lost>>
      /\ entry.id = 0 => ids < MaxId
  BY DEF Prepare
<1> HIDE DEF e
<1>3. e.lease \in Nat /\ e.pending \in [Sends -> Nat] /\ e.id \in 0 .. MaxId
  BY <1>1 DEF Entry
<1>4. /\ entry' \in Entry
      /\ entry'.id = e.id /\ entry'.lease = e.lease + 1
      /\ entry'.committedLease = e.committedLease /\ entry'.committed = e.committed
      /\ entry'.releaseLease = e.releaseLease
      /\ entry'.pending = [e.pending EXCEPT ![s] = e.lease + 1]
  <2>1. e.lease + 1 \in Nat /\ [e.pending EXCEPT ![s] = e.lease + 1] \in [Sends -> Nat]
    BY <1>3
  <2>2. entry' = [[e EXCEPT !.lease = e.lease + 1]
                    EXCEPT !.pending = [e.pending EXCEPT ![s] = e.lease + 1]]
    BY <1>1, <1>2 DEF Entry
  <2>3. QED
    BY <1>1, <2>1, <2>2 DEF Entry
<1>5. marker'[s] = [id |-> e.id, lease |-> e.lease + 1]
  BY <1>2 DEF LeaseTypes
<1>6. LeaseTypes'
  <2>1. ids' \in 0 .. MaxId
    BY <1>2, CallbackLeasesAssumption DEF LeaseTypes
  <2>2. marker' \in [Sends -> Mark]
    BY <1>2, <1>3 DEF LeaseTypes, Mark
  <2>3. QED
    BY <1>2, <1>4, <2>1, <2>2 DEF LeaseTypes
<1>7. QED
  BY <1>1, <1>2, <1>3, <1>4, <1>5, <1>6

LEMMA PrepareStep ==
  ASSUME LeaseTypes, LeaseInv, NEW s \in Sends, Prepare(s)
  PROVE  LeaseTypes' /\ LeaseInv' /\ (Kept => Kept')
<1>1. /\ LeaseTypes'
      /\ entry'.id = IF entry.id = 0 THEN ids + 1 ELSE entry.id
      /\ ids' = IF entry.id = 0 THEN ids + 1 ELSE ids
      /\ entry'.lease = entry.lease + 1
      /\ entry'.committedLease = entry.committedLease
      /\ entry'.committed = entry.committed
      /\ entry'.releaseLease = entry.releaseLease
      /\ \A t \in Sends : entry'.pending[t] = IF t = s THEN entry.lease + 1 ELSE entry.pending[t]
      /\ marker'[s].id = entry'.id /\ marker'[s].lease = entry'.lease
  BY PrepareFields
<1>2. /\ stage[s] = "new" /\ stage'[s] = "prepared"
      /\ \A t \in Sends \ {s} : stage'[t] = stage[t] /\ marker'[t] = marker[t]
      /\ UNCHANGED <<received, releases, overtaken, lost>>
  BY DEF Prepare, LeaseTypes
<1>3. /\ ids \in Nat /\ entry.id \in Nat /\ entry.lease \in Nat /\ entry.committedLease \in Nat
      /\ \A t \in Sends : entry.pending[t] \in Nat /\ marker[t].lease \in Nat /\ marker[t].id \in Nat
  BY DEF LeaseTypes, Entry, Mark
<1>4. /\ \A t \in Sends : Carries(t) => marker[t].id \in 1 .. ids /\ marker[t].lease > 0
      /\ entry.id <= ids
      /\ entry.id = 0 => entry.lease = 0 /\ entry.committedLease = 0 /\ entry.releaseLease = 0
  BY DEF LeaseInv, MarkersDiffer, LeaseIsHighest, NoEntry, NewEntry
<1>5. \A t \in Sends : Carries(t) /\ marker[t].id = entry'.id => marker[t].lease <= entry.lease
  BY <1>1, <1>3, <1>4, CarriedIsKnown
<1>6. MarkersDiffer'
  <2>1. \A t \in Sends : Carries(t)' => t = s \/ Carries(t)
    BY <1>2 DEF Carries
  <2>2. entry'.id \in 1 .. ids' /\ ids <= ids'
    BY <1>1, <1>3, <1>4
  <2>3. \A t \in Sends : Carries(t)' => marker'[t].id \in 1 .. ids' /\ marker'[t].lease > 0
    BY <1>1, <1>2, <1>3, <1>4, <2>1, <2>2
  <2>4. ASSUME NEW t \in Sends, NEW u \in Sends, Carries(t)', Carries(u)', t # u,
               marker'[t].id = marker'[u].id
        PROVE  marker'[t].lease # marker'[u].lease
    BY <1>1, <1>2, <1>3, <1>5, <2>1, <2>4 DEF LeaseInv, MarkersDiffer
  <2>5. QED
    BY <2>3, <2>4 DEF MarkersDiffer
<1>7. LeaseIsHighest'
  BY <1>1, <1>3, <1>4 DEF LeaseInv, LeaseIsHighest
<1>8. EntryKnowsSends'
  BY <1>1, <1>2, <1>3, <1>4 DEF LeaseInv, EntryKnowsSends, Carries
<1>9. \A g, l : WasReceived(g, l)' <=> WasReceived(g, l)
  BY <1>2 DEF WasReceived
<1>10. LeasesAreReceived'
  BY <1>1, <1>2, <1>3, <1>4, <1>9 DEF LeaseInv, LeasesAreReceived
<1>11. WrapperIsLatest'
  BY <1>1, <1>2, <1>3, <1>4 DEF LeaseInv, WrapperIsLatest, Ids
<1>12. GoneIsOvertaken'
  <2> SUFFICES ASSUME NEW t \in Sends, stage'[t] \in {"prepared", "wire"}, marker'[t].id # entry'.id
               PROVE  \E u \in Sends : stage'[u] = "received" /\ Later(t, u)'
    BY DEF GoneIsOvertaken
  <2>1. t # s /\ stage[t] \in {"prepared", "wire"} /\ marker[t].id # entry.id
    BY <1>1, <1>2, <1>4 DEF Carries
  <2>2. PICK u \in Sends : stage[u] = "received" /\ Later(t, u)
    BY <2>1 DEF LeaseInv, GoneIsOvertaken
  <2>3. QED
    BY <1>2, <2>1, <2>2 DEF Later
<1>13. Kept => Kept'
  <2> SUFFICES ASSUME Kept PROVE Kept'
    OBVIOUS
  <2>1. CASE entry.id = 0
    <3>1. ~WasReceived(entry'.id, entry'.committedLease)
      BY <1>1, <1>3, <1>4, <2>1 DEF WasReceived, Carries
    <3>2. entry'.committedLease = 0
      BY <1>1, <1>4, <2>1
    <3>3. QED
      BY <1>9, <3>1, <3>2 DEF Kept, CommittedIsKnown, KeptForSomebody
  <2>2. CASE entry.id # 0
    <3>1. OnWire(entry.id, entry.committedLease) => OnWire(entry.id, entry.committedLease)'
      BY <1>1, <1>2, <2>2 DEF OnWire
    <3>2. CommittedIsKnown'
      BY <1>1, <1>2, <1>9, <2>2, <3>1 DEF Kept, CommittedIsKnown
    <3>3. KeptForSomebody'
      BY <1>1, <1>2, <1>3, <1>9, <2>2 DEF Kept, KeptForSomebody
    <3>4. QED
      BY <3>2, <3>3 DEF Kept
  <2>3. QED
    BY <2>1, <2>2
<1>14. QED
  BY <1>1, <1>6, <1>7, <1>8, <1>10, <1>11, <1>12, <1>13 DEF LeaseInv

\* A wrapper is of a committed lease.
LEMMA WrapperIsCommitted ==
  ASSUME LeaseTypes, LeaseInv, NEW g \in Ids \ overtaken, received[g].state # "none"
  PROVE  /\ entry.id = g /\ entry.id # 0 /\ entry.committed
         /\ received[g].lease \in Nat /\ received[g].lease <= entry.committedLease
<1>1. PICK s \in Sends : /\ stage[s] = "received" /\ marker[s].id = g
                         /\ marker[s].lease = received[g].lease
  BY DEF LeaseInv, LeasesAreReceived, WasReceived
<1>2. entry.id = g /\ received[g].lease > 0
  BY <1>1 DEF LeaseInv, WrapperIsLatest, MarkersDiffer, Carries
<1>3. received[g].lease <= entry.committedLease
  BY <1>1, <1>2 DEF LeaseInv, EntryKnowsSends
<1>4. received[g].lease \in Nat /\ g # 0
  BY DEF LeaseTypes, Ids
<1>5. entry.committedLease \in Nat
  BY DEF LeaseTypes, Entry
<1>6. QED
  BY <1>2, <1>3, <1>4, <1>5 DEF LeaseInv, LeaseIsHighest

\* The function is not registered any more; nobody can reach it, and a send of it
\* that comes yet is overtaken.
LEMMA RemovedStep ==
  ASSUME LeaseTypes, LeaseInv,
         entry' = NoEntry, releases' \subseteq releases,
         UNCHANGED <<ids, marker, received, overtaken, lost>>,
         stage' \in [Sends -> {"new", "prepared", "wire", "received", "over"}],
         \A t \in Sends : stage'[t] # stage[t] => stage[t] = "prepared" /\ stage'[t] = "over",
         \A g \in Ids \ overtaken : received[g].state # "none" => entry.id # g,
         \A t \in Sends : stage'[t] \in {"prepared", "wire"} /\ marker[t].id = entry.id =>
           \E u \in Sends : stage[u] = "received" /\ Later(t, u)
  PROVE  LeaseTypes' /\ LeaseInv' /\ Kept'
<1>1. /\ NoEntry \in Entry /\ NoEntry.id = 0 /\ NoEntry.lease = 0 /\ NoEntry.committedLease = 0
      /\ NoEntry.committed = FALSE /\ NoEntry.releaseLease = 0
      /\ \A t \in Sends : NoEntry.pending[t] = 0
  BY CallbackLeasesAssumption DEF NoEntry, NewEntry, Entry
<1>2. LeaseTypes'
  BY <1>1 DEF LeaseTypes
<1>3. \A t \in Sends : Carries(t)' => Carries(t) /\ stage'[t] = stage[t]
  BY DEF Carries
<1>4. \A t \in Sends : Carries(t) => marker[t].id \in Nat \ {0}
  BY DEF LeaseInv, MarkersDiffer, LeaseTypes
<1>5. MarkersDiffer'
  BY <1>3 DEF LeaseInv, MarkersDiffer
<1>6. LeaseIsHighest'
  BY <1>1 DEF LeaseIsHighest, LeaseTypes
<1>7. EntryKnowsSends'
  BY <1>1, <1>3, <1>4 DEF EntryKnowsSends, Carries
<1>8. \A g, l : WasReceived(g, l)' <=> WasReceived(g, l)
  BY DEF WasReceived
<1>9. LeasesAreReceived'
  BY <1>1, <1>8 DEF LeaseInv, LeasesAreReceived
<1>10. WrapperIsLatest'
  BY DEF LeaseInv, WrapperIsLatest
<1>11. GoneIsOvertaken'
  <2> SUFFICES ASSUME NEW t \in Sends, stage'[t] \in {"prepared", "wire"}
               PROVE  \E u \in Sends : stage'[u] = "received" /\ Later(t, u)'
    BY DEF GoneIsOvertaken
  <2>1. PICK u \in Sends : stage[u] = "received" /\ Later(t, u)
    BY DEF LeaseInv, GoneIsOvertaken
  <2>2. QED
    BY <2>1 DEF Later
<1>12. Kept'
  <2>1. ~WasReceived(0, 0)
    BY <1>4 DEF WasReceived, Carries
  <2>2. QED
    BY <1>1, <1>8, <2>1 DEF Kept, CommittedIsKnown, KeptForSomebody
<1>13. QED
  BY <1>2, <1>5, <1>6, <1>7, <1>9, <1>10, <1>11, <1>12 DEF LeaseInv

\* A send is committed.
LEMMA PutOnWireStep ==
  ASSUME LeaseTypes, LeaseInv, NEW s \in Sends, PutOnWire(s)
  PROVE  LeaseTypes' /\ LeaseInv' /\ (Kept => Kept')
<1> DEFINE p == entry.pending[s]
           mine == entry.id = marker[s].id
<1>1. /\ stage[s] = "prepared" /\ stage'[s] = "wire" /\ Commit(s)
      /\ stage' \in [Sends -> {"new", "prepared", "wire", "received", "over"}]
      /\ \A t \in Sends \ {s} : stage'[t] = stage[t]
      /\ UNCHANGED <<ids, marker, received, releases, overtaken, lost>>
  BY DEF PutOnWire, LeaseTypes
<1>2. /\ ids \in Nat /\ entry.id \in Nat /\ entry.lease \in Nat /\ entry.committedLease \in Nat
      /\ \A t \in Sends : entry.pending[t] \in Nat /\ marker[t].lease \in Nat /\ marker[t].id \in Nat
  BY DEF LeaseTypes, Entry, Mark
<1>3. mine => p = marker[s].lease /\ p > 0 /\ p <= entry.lease
  BY <1>1, <1>2 DEF LeaseInv, EntryKnowsSends, MarkersDiffer, Carries, LeaseIsHighest
<1>4. /\ entry' \in Entry /\ entry'.id = entry.id /\ entry'.lease = entry.lease
      /\ entry'.releaseLease = entry.releaseLease
      /\ entry'.committed = IF mine THEN TRUE ELSE entry.committed
      /\ entry'.committedLease = IF mine /\ p > entry.committedLease THEN p ELSE entry.committedLease
      /\ \A t \in Sends : entry'.pending[t] = IF mine /\ t = s THEN 0 ELSE entry.pending[t]
  <2>1. CASE mine
    <3>1. entry' = [entry EXCEPT !.committed = TRUE, !.pending[s] = 0,
                                 !.committedLease = Max({entry.committedLease, p})]
      BY <1>1, <2>1 DEF Commit
    <3>2. Max({entry.committedLease, p}) = IF p > entry.committedLease THEN p ELSE entry.committedLease
      BY <1>2, MaxOfTwo
    <3>3. [entry.pending EXCEPT ![s] = 0] \in [Sends -> Nat] /\ entry \in Entry
      BY DEF LeaseTypes, Entry
    <3>4. QED
      BY <1>2, <2>1, <3>1, <3>2, <3>3 DEF Entry
  <2>2. CASE ~mine
    BY <1>1, <2>2 DEF Commit, LeaseTypes
  <2>3. QED
    BY <2>1, <2>2
<1> HIDE DEF p, mine
<1>5. LeaseTypes'
  BY <1>1, <1>4 DEF LeaseTypes
<1>6. \A t \in Sends : Carries(t)' <=> Carries(t)
  BY <1>1 DEF Carries
<1>7. MarkersDiffer'
  BY <1>1, <1>6 DEF LeaseInv, MarkersDiffer
<1>8. LeaseIsHighest'
  <2>1. CASE mine
    <3>1. \/ entry.lease = entry.committedLease \/ entry.lease = p
          \/ \E t \in Sends \ {s} : entry.pending[t] = entry.lease
      BY DEF LeaseInv, LeaseIsHighest, p
    <3>2. entry.id # 0
      BY <1>1, <2>1 DEF LeaseInv, MarkersDiffer, Carries, mine
    <3>3. QED
      BY <1>1, <1>2, <1>3, <1>4, <2>1, <3>1, <3>2 DEF LeaseInv, LeaseIsHighest
  <2>2. CASE ~mine
    <3>1. entry' = entry
      BY <1>1, <2>2 DEF Commit, mine
    <3>2. QED
      BY <1>1, <3>1 DEF LeaseInv, LeaseIsHighest
  <2>3. QED
    BY <2>1, <2>2
<1>9. EntryKnowsSends'
  BY <1>1, <1>2, <1>3, <1>4 DEF LeaseInv, EntryKnowsSends, mine
<1>10. \A g, l : WasReceived(g, l)' <=> WasReceived(g, l)
  BY <1>1 DEF WasReceived
<1>11. LeasesAreReceived' /\ WrapperIsLatest'
  BY <1>1, <1>4, <1>10 DEF LeaseInv, LeasesAreReceived, WrapperIsLatest
<1>12. GoneIsOvertaken'
  <2> SUFFICES ASSUME NEW t \in Sends, stage'[t] \in {"prepared", "wire"}, marker[t].id # entry.id
               PROVE  \E u \in Sends : stage'[u] = "received" /\ Later(t, u)'
    BY <1>1, <1>4 DEF GoneIsOvertaken
  <2>1. PICK u \in Sends : stage[u] = "received" /\ Later(t, u)
    BY <1>1 DEF LeaseInv, GoneIsOvertaken
  <2>2. QED
    BY <1>1, <2>1 DEF Later
<1>13. ASSUME Kept PROVE Kept'
  <2>1. CASE mine /\ p >= entry.committedLease
    <3>1. entry'.committedLease = marker[s].lease /\ entry'.id = marker[s].id
      BY <1>2, <1>3, <1>4, <2>1 DEF mine, p
    <3>2. OnWire(entry.id, entry.committedLease)'
      BY <1>1, <3>1 DEF OnWire
    <3>3. ~WasReceived(entry'.id, entry'.committedLease)
      BY <1>1, <3>1 DEF WasReceived, LeaseInv, MarkersDiffer, Carries
    <3>4. QED
      BY <1>10, <3>2, <3>3 DEF Kept, CommittedIsKnown, KeptForSomebody
  <2>2. CASE ~(mine /\ p >= entry.committedLease)
    <3>1. entry'.committedLease = entry.committedLease
      BY <1>2, <1>3, <1>4, <2>2 DEF p
    <3>2. OnWire(entry.id, entry.committedLease) => OnWire(entry.id, entry.committedLease)'
      BY <1>1, <1>4, <3>1 DEF OnWire
    <3>3. QED
      BY <1>1, <1>4, <1>10, <1>13, <3>1, <3>2 DEF Kept, CommittedIsKnown, KeptForSomebody
  <2>3. QED
    BY <2>1, <2>2
<1>14. QED
  BY <1>5, <1>7, <1>8, <1>9, <1>11, <1>12, <1>13 DEF LeaseInv

\* A send that was never put on the wire gives its lease back.
LEMMA RollbackStep ==
  ASSUME LeaseTypes, LeaseInv, NEW s \in Sends, Rollback(s)
  PROVE  LeaseTypes' /\ LeaseInv' /\ (Kept => Kept')
<1> DEFINE w == LeaseWithout(s)
           last == ~entry.committed /\ OnlyPending(s)
           waited == w > 0 /\ entry.releaseLease >= w
<1>1. /\ stage[s] = "prepared" /\ stage'[s] = "over" /\ Undo(s)
      /\ stage' \in [Sends -> {"new", "prepared", "wire", "received", "over"}]
      /\ \A t \in Sends \ {s} : stage'[t] = stage[t]
      /\ UNCHANGED <<ids, marker, received, releases, overtaken, lost>>
  BY DEF Rollback, LeaseTypes
<1>2. /\ ids \in Nat /\ entry.id \in Nat /\ entry.lease \in Nat /\ entry.committedLease \in Nat
      /\ entry.releaseLease \in Nat
      /\ \A t \in Sends : entry.pending[t] \in Nat /\ marker[t].lease \in Nat /\ marker[t].id \in Nat
  BY DEF LeaseTypes, Entry, Mark
<1>3. /\ w \in Nat /\ w <= entry.lease /\ entry.committedLease <= w
      /\ \A t \in Sends \ {s} : entry.pending[t] <= w
      /\ w = entry.committedLease \/ \E t \in Sends \ {s} : entry.pending[t] = w
  BY LeaseWithoutIsHighest DEF LeaseInv
<1>4. marker[s].id # 0
  BY <1>1, <1>2 DEF LeaseInv, MarkersDiffer, Carries
<1>5. CASE entry.id = marker[s].id /\ (last \/ waited)
  <2>1. entry' = NoEntry
    BY <1>1, <1>5 DEF Undo
  <2>2. ASSUME NEW g \in Ids \ overtaken, received[g].state # "none"
        PROVE  entry.id # g
    <3> SUFFICES ASSUME entry.id = g PROVE FALSE
      OBVIOUS
    <3>1. /\ entry.committed /\ received[g].lease \in Nat
          /\ received[g].lease <= entry.committedLease /\ entry.releaseLease < received[g].lease
      BY <2>2, WrapperIsCommitted DEF LeaseInv, WrapperIsLatest
    <3>2. entry.releaseLease < w
      BY <1>2, <1>3, <3>1
    <3>3. QED
      BY <1>2, <1>3, <1>5, <3>1, <3>2
  <2>3. ASSUME NEW t \in Sends, stage'[t] \in {"prepared", "wire"}, marker[t].id = entry.id
        PROVE  \E u \in Sends : stage[u] = "received" /\ Later(t, u)
    <3>1. t # s /\ stage[t] \in {"prepared", "wire"} /\ Carries(t) /\ marker[t].lease > 0
      BY <1>1, <2>3 DEF Carries, LeaseInv, MarkersDiffer
    <3>2. \/ stage[t] = "prepared" /\ entry.pending[t] = marker[t].lease
          \/ marker[t].lease <= entry.committedLease
      BY <2>3, <3>1 DEF LeaseInv, EntryKnowsSends
    <3>3. marker[t].lease <= w
      BY <1>2, <1>3, <3>1, <3>2
    <3>4. ~last
      BY <1>2, <3>1, <3>2 DEF OnlyPending, LeaseInv, LeaseIsHighest
    <3>5. marker[t].lease <= entry.releaseLease /\ entry.releaseLease > 0
      BY <1>2, <1>3, <1>5, <3>1, <3>3, <3>4
    <3>6. PICK u \in Sends : /\ stage[u] = "received" /\ marker[u].id = entry.id
                             /\ marker[u].lease = entry.releaseLease
      BY <3>5 DEF LeaseInv, LeasesAreReceived, WasReceived
    <3>7. marker[t].lease # marker[u].lease
      BY <2>3, <3>1, <3>6 DEF LeaseInv, MarkersDiffer, Carries
    <3>8. QED
      BY <1>2, <2>3, <3>5, <3>6, <3>7 DEF Later
  <2>4. QED
    BY <1>1, <2>1, <2>2, <2>3, RemovedStep
<1>6. CASE ~(entry.id = marker[s].id /\ (last \/ waited))
  <2> DEFINE mine == entry.id = marker[s].id
  <2>1. /\ entry' \in Entry /\ entry'.id = entry.id
        /\ entry'.lease = IF mine THEN w ELSE entry.lease
        /\ entry'.releaseLease = entry.releaseLease
        /\ entry'.committed = entry.committed /\ entry'.committedLease = entry.committedLease
        /\ \A t \in Sends : entry'.pending[t] = IF mine /\ t = s THEN 0 ELSE entry.pending[t]
    <3>1. CASE mine
      <4>1. entry' = [entry EXCEPT !.pending[s] = 0, !.lease = w]
        BY <1>1, <1>6, <3>1 DEF Undo
      <4>2. [entry.pending EXCEPT ![s] = 0] \in [Sends -> Nat] /\ entry \in Entry
        BY DEF LeaseTypes, Entry
      <4> HIDE DEF w
      <4>3. QED
        BY <1>3, <3>1, <4>1, <4>2 DEF Entry
    <3>2. CASE ~mine
      BY <1>1, <3>2 DEF Undo, LeaseTypes
    <3>3. QED
      BY <3>1, <3>2
  <2>2. LeaseTypes'
    BY <1>1, <2>1 DEF LeaseTypes
  <2>3. \A t \in Sends : Carries(t)' <=> Carries(t) /\ t # s
    BY <1>1 DEF Carries
  <2>4. MarkersDiffer'
    BY <1>1, <2>3 DEF LeaseInv, MarkersDiffer
  <2>5. mine => w > 0
    BY <1>2, <1>3, <1>6 DEF OnlyPending, LeaseInv, LeaseIsHighest
  <2>6. LeaseIsHighest'
    <3>1. CASE mine
      BY <1>1, <1>2, <1>3, <1>4, <2>1, <2>5, <3>1 DEF LeaseInv, LeaseIsHighest
    <3>2. CASE ~mine
      <4>1. entry' = entry
        BY <1>1, <3>2 DEF Undo
      <4>2. QED
        BY <1>1, <4>1 DEF LeaseInv, LeaseIsHighest
    <3>3. QED
      BY <3>1, <3>2
  <2>7. EntryKnowsSends'
    BY <1>1, <1>2, <2>1 DEF LeaseInv, EntryKnowsSends
  <2>8. \A g, l : WasReceived(g, l)' <=> WasReceived(g, l)
    BY <1>1 DEF WasReceived
  <2>9. LeasesAreReceived' /\ WrapperIsLatest'
    BY <1>1, <2>1, <2>8 DEF LeaseInv, LeasesAreReceived, WrapperIsLatest
  <2>10. GoneIsOvertaken'
    <3> SUFFICES ASSUME NEW t \in Sends, stage'[t] \in {"prepared", "wire"}, marker[t].id # entry.id
                 PROVE  \E u \in Sends : stage'[u] = "received" /\ Later(t, u)'
      BY <1>1, <2>1 DEF GoneIsOvertaken
    <3>1. PICK u \in Sends : stage[u] = "received" /\ Later(t, u)
      BY <1>1 DEF LeaseInv, GoneIsOvertaken
    <3>2. QED
      BY <1>1, <3>1 DEF Later
  <2>11. ASSUME Kept PROVE Kept'
    <3>1. OnWire(entry.id, entry.committedLease) => OnWire(entry.id, entry.committedLease)'
      BY <1>1, <2>1 DEF OnWire
    <3>2. CommittedIsKnown'
      BY <1>1, <2>1, <2>8, <2>11, <3>1 DEF Kept, CommittedIsKnown
    <3>3. WasReceived(entry.id, entry.committedLease) => entry.committedLease > 0
      BY DEF WasReceived, LeaseInv, MarkersDiffer, Carries
    <3>4. mine /\ entry.releaseLease >= entry.committedLease /\ entry.committedLease > 0 =>
            w > entry.committedLease
      BY <1>2, <1>3, <1>6
    <3>5. KeptForSomebody'
      BY <1>1, <2>1, <2>8, <2>11, <3>3, <3>4 DEF Kept, KeptForSomebody
    <3>6. QED
      BY <3>2, <3>5 DEF Kept
  <2>12. QED
    BY <2>2, <2>4, <2>6, <2>7, <2>9, <2>10, <2>11 DEF LeaseInv
<1>7. QED
  BY <1>5, <1>6

\* A release takes the function away, or waits for the newer leases.
LEMMA ReceiveReleaseStep ==
  ASSUME LeaseTypes, LeaseInv, NEW r \in releases, ReceiveRelease(r)
  PROVE  LeaseTypes' /\ LeaseInv' /\ (Kept => Kept')
<1>1. /\ releases' = releases \ {r} /\ ReleaseEntry(r)
      /\ UNCHANGED <<ids, stage, marker, received, overtaken, lost>>
  BY DEF ReceiveRelease
<1>2. /\ entry.id \in Nat /\ entry.lease \in Nat /\ entry.committedLease \in Nat
      /\ entry.releaseLease \in Nat /\ r.lease \in Nat /\ r.id \in Nat
      /\ \A t \in Sends : marker[t].lease \in Nat /\ marker[t].id \in Nat
  BY DEF LeaseTypes, Entry, Mark
<1>3. PICK u \in Sends : stage[u] = "received" /\ marker[u].id = r.id /\ marker[u].lease = r.lease
  BY DEF LeaseInv, LeasesAreReceived, WasReceived
<1>4. CASE r.id = entry.id /\ r.lease = entry.lease
  <2>1. entry' = NoEntry
    BY <1>1, <1>2, <1>4 DEF ReleaseEntry
  <2>2. ASSUME NEW g \in Ids \ overtaken, received[g].state # "none"
        PROVE  entry.id # g
    BY <1>2, <1>4, <2>2, WrapperIsCommitted DEF LeaseInv, WrapperIsLatest, LeaseIsHighest
  <2>3. ASSUME NEW t \in Sends, stage[t] \in {"prepared", "wire"}, marker[t].id = entry.id
        PROVE  Later(t, u)
    <3>1. Carries(t) /\ Carries(u) /\ marker[t].lease <= r.lease
      BY <1>3, <1>4, <2>3, CarriedIsKnown DEF Carries
    <3>2. marker[t].lease # marker[u].lease
      BY <1>3, <1>4, <2>3, <3>1 DEF LeaseInv, MarkersDiffer
    <3>3. QED
      BY <1>2, <1>3, <1>4, <2>3, <3>1, <3>2 DEF Later
  <2>4. stage' \in [Sends -> {"new", "prepared", "wire", "received", "over"}]
    BY <1>1 DEF LeaseTypes
  <2>5. QED
    BY <1>1, <1>3, <2>1, <2>2, <2>3, <2>4, RemovedStep
<1>5. CASE ~(r.id = entry.id /\ r.lease = entry.lease)
  <2> DEFINE waits == r.id = entry.id /\ r.lease < entry.lease
  <2>1. /\ entry' \in Entry /\ entry'.id = entry.id /\ entry'.lease = entry.lease
        /\ entry'.committed = entry.committed /\ entry'.committedLease = entry.committedLease
        /\ entry'.pending = entry.pending
        /\ entry'.releaseLease = IF waits /\ r.lease > entry.releaseLease
                                 THEN r.lease ELSE entry.releaseLease
    <3>1. CASE waits
      <4> DEFINE m == Max({entry.releaseLease, r.lease})
      <4>1. entry' = [entry EXCEPT !.releaseLease = m]
        BY <1>1, <1>2, <3>1 DEF ReleaseEntry
      <4>2. m = IF r.lease > entry.releaseLease THEN r.lease ELSE entry.releaseLease
        BY <1>2, MaxOfTwo
      <4>3. entry \in Entry
        BY DEF LeaseTypes
      <4> HIDE DEF m
      <4>4. m \in Nat /\ (waits => m = IF waits /\ r.lease > entry.releaseLease
                                       THEN r.lease ELSE entry.releaseLease)
        BY <1>2, <4>2
      <4> HIDE DEF waits
      <4>5. QED
        BY <3>1, <4>1, <4>3, <4>4 DEF Entry
    <3>2. CASE ~waits
      <4>1. entry' = entry
        BY <1>1, <1>2, <1>5, <3>2 DEF ReleaseEntry
      <4>2. QED
        BY <3>2, <4>1 DEF LeaseTypes
    <3>3. QED
      BY <3>1, <3>2
  <2>2. LeaseTypes'
    BY <1>1, <2>1 DEF LeaseTypes
  <2>3. MarkersDiffer' /\ EntryKnowsSends' /\ GoneIsOvertaken'
    BY <1>1, <2>1 DEF LeaseInv, MarkersDiffer, EntryKnowsSends, GoneIsOvertaken, Carries, Later
  <2>4. LeaseIsHighest'
    <3>1. CASE entry.id = 0
      <4>1. r.id # 0
        BY <1>2, <1>3 DEF LeaseInv, MarkersDiffer, Carries
      <4>2. entry' = entry
        BY <1>1, <3>1, <4>1 DEF ReleaseEntry
      <4>3. QED
        BY <1>1, <4>2 DEF LeaseInv, LeaseIsHighest
    <3>2. CASE entry.id # 0
      BY <1>1, <2>1, <3>2 DEF LeaseInv, LeaseIsHighest
    <3>3. QED
      BY <3>1, <3>2
  <2>5. \A g, l : WasReceived(g, l)' <=> WasReceived(g, l)
    BY <1>1 DEF WasReceived
  <2>6. LeasesAreReceived'
    <3>1. WasReceived(r.id, r.lease)
      BY <1>3 DEF WasReceived
    <3>2. QED
      BY <1>1, <2>1, <2>5, <3>1 DEF LeaseInv, LeasesAreReceived
  <2>7. WrapperIsLatest'
    BY <1>1, <1>2, <2>1 DEF LeaseInv, WrapperIsLatest
  <2>8. ASSUME Kept PROVE Kept'
    <3>1. OnWire(entry.id, entry.committedLease) => OnWire(entry.id, entry.committedLease)'
      BY <1>1, <2>1 DEF OnWire
    <3>2. CommittedIsKnown'
      BY <1>1, <2>1, <2>5, <2>8, <3>1 DEF Kept, CommittedIsKnown
    <3>3. r.id = entry.id /\ r.lease = entry.committedLease => waits
      BY <1>2, <1>5 DEF LeaseInv, LeaseIsHighest
    <3>4. KeptForSomebody'
      BY <1>1, <1>2, <2>1, <2>5, <2>8, <3>3 DEF Kept, KeptForSomebody
    <3>5. QED
      BY <3>2, <3>4 DEF Kept
  <2>9. QED
    BY <2>2, <2>3, <2>4, <2>6, <2>7, <2>8 DEF LeaseInv
<1>6. QED
  BY <1>4, <1>5

-----------------------------------------------------------------------------
(* What a step of the network, or of the holder, does to the leases.       *)

LEMMA HolderTypes ==
  ASSUME LeaseTypes, HolderHears \/ HolderCollects \/ NetworkLoses
  PROVE  LeaseTypes'
<1>1. ASSUME NEW s \in Sends, Lose(s) PROVE LeaseTypes'
  BY <1>1 DEF LeaseTypes, Lose, Mark
<1>2. ASSUME NEW s \in Sends, Receive(s) PROVE LeaseTypes'
  <2> DEFINE g == marker[s].id
             l == IF received[g].state = "live" THEN Max({received[g].lease, marker[s].lease})
                  ELSE marker[s].lease
  <2>1. g \in 0 .. MaxId /\ marker[s].lease \in Nat
    BY DEF LeaseTypes, Mark
  <2>2. /\ received' = [received EXCEPT ![g] = [state |-> "live", lease |-> l]]
        /\ overtaken' \subseteq overtaken \cup {g}
        /\ stage' = [stage EXCEPT ![s] = "received"]
        /\ UNCHANGED <<ids, entry, marker, releases, lost>>
    BY <1>2 DEF Receive
  <2>3. CASE g \in Ids
    <3>1. received[g].lease \in Nat
      BY <2>3 DEF LeaseTypes
    <3>2. l \in Nat
      BY <2>1, <3>1, MaxOfTwo
    <3> HIDE DEF l
    <3>3. received' \in [Ids -> [state : {"none", "live", "collected"}, lease : Nat]]
      BY <2>2, <3>2 DEF LeaseTypes
    <3> HIDE DEF g
    <3>4. QED
      BY <2>1, <2>2, <3>3 DEF LeaseTypes
  <2>4. CASE g \notin Ids
    <3>1. received' = received
      BY <2>2, <2>4 DEF LeaseTypes
    <3> HIDE DEF g, l
    <3>2. QED
      BY <2>1, <2>2, <3>1 DEF LeaseTypes
  <2>5. QED
    BY <2>3, <2>4
<1>3. ASSUME NEW g \in Ids, Collect(g) PROVE LeaseTypes'
  BY <1>3 DEF LeaseTypes, Collect
<1>4. ASSUME NEW g \in Ids, Finalize(g) PROVE LeaseTypes'
  <2>1. [id |-> g, lease |-> received[g].lease] \in Mark
    <3>1. g \in 0 .. MaxId
      BY CallbackLeasesAssumption DEF Ids
    <3>2. received[g].lease \in Nat
      BY DEF LeaseTypes
    <3>3. QED
      BY <3>1, <3>2 DEF Mark
  <2>2. received' \in [Ids -> [state : {"none", "live", "collected"}, lease : Nat]]
    BY <1>4 DEF LeaseTypes, Finalize, NoWrapper
  <2>3. QED
    BY <1>4, <2>1, <2>2 DEF LeaseTypes, Finalize
<1>5. QED
  BY <1>1, <1>2, <1>3, <1>4 DEF HolderHears, HolderCollects, NetworkLoses

LEMMA LoseStep ==
  ASSUME LeaseTypes, LeaseInv, NEW s \in Sends, Lose(s)
  PROVE  LeaseInv' /\ (Kept => Kept')
<1>1. /\ stage[s] = "wire" /\ stage'[s] = "over" /\ lost' = lost \cup {marker[s].id}
      /\ \A t \in Sends \ {s} : stage'[t] = stage[t]
      /\ UNCHANGED <<ids, entry, marker, received, releases, overtaken>>
  BY DEF Lose, LeaseTypes
<1>2. \A g, l : WasReceived(g, l)' <=> WasReceived(g, l)
  BY <1>1 DEF WasReceived
<1>3. MarkersDiffer' /\ LeaseIsHighest' /\ EntryKnowsSends'
  BY <1>1 DEF LeaseInv, MarkersDiffer, LeaseIsHighest, EntryKnowsSends, Carries
<1>4. LeasesAreReceived' /\ WrapperIsLatest'
  BY <1>1, <1>2 DEF LeaseInv, LeasesAreReceived, WrapperIsLatest
<1>5. GoneIsOvertaken'
  <2> SUFFICES ASSUME NEW t \in Sends, stage'[t] \in {"prepared", "wire"}, marker[t].id # entry.id
               PROVE  \E u \in Sends : stage'[u] = "received" /\ Later(t, u)'
    BY <1>1 DEF GoneIsOvertaken
  <2>1. PICK u \in Sends : stage[u] = "received" /\ Later(t, u)
    BY <1>1 DEF LeaseInv, GoneIsOvertaken
  <2>2. QED
    BY <1>1, <2>1 DEF Later
<1>6. ASSUME Kept PROVE Kept'
  <2>1. marker[s].id # entry.id /\ OnWire(entry.id, entry.committedLease)
          => OnWire(entry.id, entry.committedLease)'
    BY <1>1 DEF OnWire
  <2>2. QED
    BY <1>1, <1>2, <1>6, <2>1 DEF Kept, CommittedIsKnown, KeptForSomebody
<1>7. QED
  BY <1>3, <1>4, <1>5, <1>6 DEF LeaseInv

\* A send is received: if no later one was, its lease is the latest.
LEMMA ReceiveStep ==
  ASSUME LeaseTypes, LeaseInv, NEW s \in Sends, Receive(s)
  PROVE  LeaseInv' /\ (Kept => Kept')
<1> DEFINE g == marker[s].id
           l == marker[s].lease
<1>1. /\ stage[s] = "wire" /\ stage'[s] = "received"
      /\ \A t \in Sends \ {s} : stage'[t] = stage[t]
      /\ UNCHANGED <<ids, entry, marker, releases, lost>>
  BY DEF Receive, LeaseTypes
<1>2. /\ g \in Ids /\ l \in Nat /\ l > 0
      /\ entry.releaseLease \in Nat /\ received[g].lease \in Nat
      /\ \A t \in Sends : marker[t].lease \in Nat
  <2>1. g \in 1 .. ids /\ l > 0
    BY <1>1 DEF LeaseInv, MarkersDiffer, Carries
  <2>2. ids \in 0 .. MaxId /\ entry.releaseLease \in Nat /\ \A t \in Sends : marker[t].lease \in Nat
    BY DEF LeaseTypes, Mark, Entry
  <2>3. g \in Ids
    BY <2>1, <2>2, CallbackLeasesAssumption DEF Ids
  <2>4. QED
    BY <2>1, <2>2, <2>3 DEF LeaseTypes
<1>3. /\ \A h \in Ids \ {g} : received'[h] = received[h]
      /\ received'[g].state = "live"
      /\ received'[g].lease = IF received[g].state = "live" /\ received[g].lease >= l
                              THEN received[g].lease ELSE l
      /\ overtaken \subseteq overtaken'
      /\ overtaken' \subseteq overtaken \cup {g}
      /\ g \notin overtaken' => \A t \in Sends : stage[t] = "received" => ~Later(s, t)
  <2>1. Max({received[g].lease, l}) = IF received[g].lease >= l THEN received[g].lease ELSE l
    BY <1>2, MaxOfTwo
  <2>2. received' = [received EXCEPT ![g] =
          [state |-> "live",
           lease |-> IF received[g].state = "live" THEN Max({received[g].lease, l}) ELSE l]]
    BY DEF Receive
  <2>3. received'[g] = [state |-> "live",
           lease |-> IF received[g].state = "live" THEN Max({received[g].lease, l}) ELSE l]
    BY <1>2, <2>2 DEF LeaseTypes
  <2>4. \A h \in Ids \ {g} : received'[h] = received[h]
    BY <2>2 DEF LeaseTypes
  <2>5. /\ overtaken \subseteq overtaken' /\ overtaken' \subseteq overtaken \cup {g}
        /\ g \notin overtaken' => \A t \in Sends : stage[t] = "received" => ~Later(s, t)
    BY DEF Receive
  <2>6. QED
    BY <2>1, <2>3, <2>4, <2>5
<1>4. Carries(s) /\ \A t \in Sends : stage[t] = "received" => Carries(t)
  BY <1>1 DEF Carries
<1> HIDE DEF g, l
<1>5. /\ \A h, m : WasReceived(h, m) => WasReceived(h, m)'
      /\ WasReceived(g, l)'
  BY <1>1 DEF WasReceived, g, l
<1>6. g \notin overtaken' => \A m \in Nat : WasReceived(g, m) => m < l
  <2> SUFFICES ASSUME g \notin overtaken', NEW m \in Nat, WasReceived(g, m) PROVE m < l
    OBVIOUS
  <2>1. PICK t \in Sends : stage[t] = "received" /\ marker[t].id = g /\ marker[t].lease = m
    BY DEF WasReceived
  <2>2. t # s /\ ~Later(s, t)
    BY <1>1, <1>3, <2>1
  <2>3. m # l
    BY <1>4, <2>1, <2>2 DEF LeaseInv, MarkersDiffer, g, l
  <2>4. QED
    BY <1>2, <2>1, <2>2, <2>3 DEF Later, g, l
<1>7. MarkersDiffer' /\ LeaseIsHighest' /\ EntryKnowsSends'
  BY <1>1 DEF LeaseInv, MarkersDiffer, LeaseIsHighest, EntryKnowsSends, Carries
<1>8. LeasesAreReceived'
  <2>1. ASSUME NEW h \in Ids, received'[h].state # "none"
        PROVE  WasReceived(h, received[h].lease)'
    <3>1. CASE received'[h].lease = received[h].lease /\ received[h].state # "none"
      <4>1. PICK t \in Sends : /\ stage[t] = "received" /\ marker[t].id = h
                               /\ marker[t].lease = received[h].lease
        BY <3>1 DEF LeaseInv, LeasesAreReceived, WasReceived
      <4>2. QED
        BY <1>1, <3>1, <4>1 DEF WasReceived
    <3>2. CASE h = g /\ received'[h].lease = l
      BY <1>1, <3>2 DEF WasReceived, g, l
    <3>3. QED
      BY <1>3, <2>1, <3>1, <3>2
  <2>2. ASSUME NEW r \in releases PROVE WasReceived(r.id, r.lease)'
    BY <1>5 DEF LeaseInv, LeasesAreReceived
  <2>3. entry.releaseLease > 0 => WasReceived(entry.id, entry.releaseLease)'
    BY <1>1 DEF LeaseInv, LeasesAreReceived, WasReceived
  <2>4. QED
    BY <1>1, <2>1, <2>2, <2>3 DEF LeasesAreReceived
<1>9. WrapperIsLatest'
  <2> SUFFICES ASSUME NEW h \in Ids \ overtaken', received'[h].state # "none"
               PROVE  /\ entry.id = h /\ entry.releaseLease < received'[h].lease
                      /\ \A r \in releases : r.id = h => r.lease < received'[h].lease
                      /\ \A t \in Sends : stage'[t] = "received" /\ marker[t].id = h
                                          => marker[t].lease <= received'[h].lease
    BY <1>1 DEF WrapperIsLatest
  <2>1. CASE h # g
    <3>1. h \in Ids \ overtaken /\ received'[h] = received[h]
      BY <1>3, <2>1
    <3>2. QED
      BY <1>1, <2>1, <3>1 DEF LeaseInv, WrapperIsLatest, g
  <2>2. CASE h = g
    <3>1. received'[g].lease = l
      BY <1>2, <1>3, <1>6, <2>2 DEF LeaseInv, LeasesAreReceived
    <3>2. entry.id = g
      BY <1>1, <1>3, <2>2 DEF LeaseInv, GoneIsOvertaken, g
    <3>3. entry.releaseLease < l
      BY <1>2, <1>6, <2>2, <3>2 DEF LeaseInv, LeasesAreReceived
    <3>4. \A r \in releases : r.id = g => r.lease < l
      BY <1>6, <2>2 DEF LeaseInv, LeasesAreReceived, LeaseTypes, Mark
    <3>5. \A t \in Sends : stage'[t] = "received" /\ marker[t].id = g => marker[t].lease <= l
      <4> SUFFICES ASSUME NEW t \in Sends, stage'[t] = "received", marker[t].id = g, t # s
                   PROVE  marker[t].lease <= l
        BY <1>2 DEF l
      <4>1. WasReceived(g, marker[t].lease)
        BY <1>1 DEF WasReceived
      <4>2. QED
        BY <1>2, <1>6, <2>2, <4>1
    <3>6. QED
      BY <2>2, <3>1, <3>2, <3>3, <3>4, <3>5
  <2>3. QED
    BY <2>1, <2>2
<1>10. GoneIsOvertaken'
  <2> SUFFICES ASSUME NEW t \in Sends, stage'[t] \in {"prepared", "wire"}, marker[t].id # entry.id
               PROVE  \E u \in Sends : stage'[u] = "received" /\ Later(t, u)'
    BY <1>1 DEF GoneIsOvertaken
  <2>1. PICK u \in Sends : stage[u] = "received" /\ Later(t, u)
    BY <1>1 DEF LeaseInv, GoneIsOvertaken
  <2>2. QED
    BY <1>1, <2>1 DEF Later
<1>11. ASSUME Kept PROVE Kept'
  <2>1. OnWire(entry.id, entry.committedLease) \/ WasReceived(entry.id, entry.committedLease)
          => OnWire(entry.id, entry.committedLease)' \/ WasReceived(entry.id, entry.committedLease)'
    BY <1>1 DEF OnWire, WasReceived
  <2>2. CommittedIsKnown'
    BY <1>1, <1>11, <2>1 DEF Kept, CommittedIsKnown
  <2>3. KeptForSomebody'
    <3>1. CASE entry.id = g
      <4>1. received'[entry'.id].state # "none"
        BY <1>1, <1>3, <3>1
      <4>2. QED
        BY <4>1 DEF KeptForSomebody
    <3>2. CASE entry.id # g
      <4>1. WasReceived(entry.id, entry.committedLease)' => WasReceived(entry.id, entry.committedLease)
        BY <1>1, <3>2 DEF WasReceived, g
      <4>2. WasReceived(entry.id, entry.committedLease)' => entry.id \in Ids \ {g}
        <5>1. \A t \in Sends : stage[t] = "received" => marker[t].id \in Ids
          BY CallbackLeasesAssumption DEF LeaseInv, MarkersDiffer, Carries, LeaseTypes, Ids
        <5>2. QED
          BY <3>2, <4>1, <5>1 DEF WasReceived
      <4>3. entry'.id \notin overtaken' \cup lost' => entry.id \notin overtaken \cup lost
        BY <1>1, <1>3
      <4>4. entry.id \in Ids \ {g} => received'[entry'.id] = received[entry.id]
        BY <1>1, <1>3
      <4>5. QED
        BY <1>1, <1>11, <4>1, <4>2, <4>3, <4>4 DEF Kept, KeptForSomebody
    <3>3. QED
      BY <3>1, <3>2
  <2>4. QED
    BY <2>2, <2>3 DEF Kept
<1>12. QED
  BY <1>7, <1>8, <1>9, <1>10, <1>11 DEF LeaseInv

LEMMA CollectStep ==
  ASSUME LeaseTypes, LeaseInv, NEW g \in Ids, Collect(g)
  PROVE  LeaseInv' /\ (Kept => Kept')
<1>1. /\ UNCHANGED <<ids, entry, stage, marker, releases, overtaken, lost>>
      /\ \A h \in Ids : received'[h].lease = received[h].lease
      /\ \A h \in Ids : received'[h].state # "none" <=> received[h].state # "none"
  BY DEF Collect, LeaseTypes
<1>2. \A h, l : WasReceived(h, l)' <=> WasReceived(h, l)
  BY <1>1 DEF WasReceived
<1>3. MarkersDiffer' /\ LeaseIsHighest' /\ EntryKnowsSends' /\ GoneIsOvertaken'
  BY <1>1 DEF LeaseInv, MarkersDiffer, LeaseIsHighest, EntryKnowsSends, GoneIsOvertaken,
              Carries, Later
<1>4. LeasesAreReceived'
  BY <1>1 DEF LeaseInv, LeasesAreReceived, WasReceived
<1>5. WrapperIsLatest'
  BY <1>1 DEF LeaseInv, WrapperIsLatest
<1>6. ASSUME Kept PROVE Kept'
  <2>1. CommittedIsKnown'
    BY <1>1, <1>6 DEF Kept, CommittedIsKnown, OnWire, WasReceived
  <2>2. received[entry.id].state # "none" => received'[entry.id].state # "none"
    BY DEF Collect, LeaseTypes
  <2>3. KeptForSomebody'
    BY <1>1, <1>2, <1>6, <2>2 DEF Kept, KeptForSomebody
  <2>4. QED
    BY <2>1, <2>3 DEF Kept
<1>7. QED
  BY <1>3, <1>4, <1>5, <1>6 DEF LeaseInv

\* The release of a wrapper is of the committed lease.
LEMMA FinalizeStep ==
  ASSUME LeaseTypes, LeaseInv, NEW g \in Ids, Finalize(g)
  PROVE  LeaseInv' /\ (Kept => Kept')
<1> DEFINE r == [id |-> g, lease |-> received[g].lease]
<1>1. /\ UNCHANGED <<ids, entry, stage, marker, overtaken, lost>>
      /\ received[g].state = "collected" /\ received'[g].state = "none"
      /\ \A h \in Ids \ {g} : received'[h] = received[h]
      /\ releases' = releases \cup {r}
  BY DEF Finalize, LeaseTypes, NoWrapper
<1>2. \A h, l : WasReceived(h, l)' <=> WasReceived(h, l)
  BY <1>1 DEF WasReceived
<1>3. MarkersDiffer' /\ LeaseIsHighest' /\ EntryKnowsSends' /\ GoneIsOvertaken'
  BY <1>1 DEF LeaseInv, MarkersDiffer, LeaseIsHighest, EntryKnowsSends, GoneIsOvertaken,
              Carries, Later
<1>4. LeasesAreReceived'
  <2>1. WasReceived(r.id, r.lease)
    BY <1>1 DEF LeaseInv, LeasesAreReceived
  <2>2. \A h \in Ids : received'[h].state # "none" => h # g
    BY <1>1
  <2>3. ASSUME NEW h \in Ids, received'[h].state # "none" PROVE WasReceived(h, received[h].lease)'
    BY <1>1, <2>2, <2>3 DEF LeaseInv, LeasesAreReceived, WasReceived
  <2>4. ASSUME NEW q \in releases' PROVE WasReceived(q.id, q.lease)'
    BY <1>1, <1>2, <2>1 DEF LeaseInv, LeasesAreReceived
  <2>5. entry.releaseLease > 0 => WasReceived(entry.id, entry.releaseLease)'
    BY <1>1 DEF LeaseInv, LeasesAreReceived, WasReceived
  <2>6. QED
    BY <1>1, <2>3, <2>4, <2>5 DEF LeasesAreReceived
<1>5. WrapperIsLatest'
  BY <1>1 DEF LeaseInv, WrapperIsLatest
<1>6. ASSUME Kept PROVE Kept'
  <2>1. CommittedIsKnown'
    BY <1>1, <1>6 DEF Kept, CommittedIsKnown, OnWire, WasReceived
  <2>2. CASE entry.id = g /\ g \notin overtaken /\ WasReceived(entry.id, entry.committedLease)
    <3>1. entry.committedLease <= received[g].lease
      BY <1>1, <2>2 DEF LeaseInv, WrapperIsLatest, WasReceived
    <3>2. received[g].lease \in Nat /\ received[g].lease <= entry.committedLease
      BY <1>1, <2>2, WrapperIsCommitted
    <3>3. entry.committedLease \in Nat
      BY DEF LeaseTypes, Entry
    <3>4. r.lease = entry.committedLease /\ r.id = entry.id
      BY <2>2, <3>1, <3>2, <3>3
    <3> HIDE DEF r
    <3>5. KeptForSomebody'
      BY <1>1, <3>4 DEF KeptForSomebody
    <3>6. QED
      BY <2>1, <3>5 DEF Kept
  <2>3. CASE ~(entry.id = g /\ g \notin overtaken /\ WasReceived(entry.id, entry.committedLease))
    <3>1. entry.id # g => received'[entry.id] = received[entry.id]
      BY DEF Finalize, LeaseTypes
    <3>2. KeptForSomebody'
      BY <1>1, <1>2, <1>6, <2>3, <3>1 DEF Kept, KeptForSomebody
    <3>3. QED
      BY <2>1, <3>2 DEF Kept
  <2>4. QED
    BY <2>2, <2>3
<1>7. QED
  BY <1>3, <1>4, <1>5, <1>6 DEF LeaseInv

LEMMA LeasesBegin ==
  ASSUME LeaseInit
  PROVE  LeaseTypes /\ LeaseInv /\ Kept
<1>1. LeaseTypes
  BY CallbackLeasesAssumption DEF LeaseInit, LeaseTypes, Entry, Mark, NoEntry, NewEntry, NoWrapper
<1>2. /\ \A s \in Sends : stage[s] = "new"
      /\ \A g \in Ids : received[g].state = "none"
      /\ releases = {} /\ ids = 0 /\ entry = NoEntry
  BY DEF LeaseInit, NoWrapper
<1>3. ~WasReceived(0, 0)
  BY <1>2 DEF WasReceived
<1>4. QED
  BY <1>1, <1>2, <1>3 DEF LeaseInv, MarkersDiffer, LeaseIsHighest, EntryKnowsSends,
    LeasesAreReceived, WrapperIsLatest, GoneIsOvertaken, Kept, CommittedIsKnown,
    KeptForSomebody, Carries, NoEntry, NewEntry

LEMMA LeasesStay ==
  ASSUME UNCHANGED leaseVars
  PROVE  /\ LeaseTypes => LeaseTypes'
         /\ LeaseInv => LeaseInv'
         /\ Kept => Kept'
<1>1. UNCHANGED <<ids, entry, stage, marker, received, releases, overtaken, lost>>
  BY DEF leaseVars
<1>2. QED
  BY <1>1 DEF LeaseTypes, LeaseInv, MarkersDiffer, LeaseIsHighest, EntryKnowsSends,
    LeasesAreReceived, WrapperIsLatest, GoneIsOvertaken, Kept, CommittedIsKnown,
    KeptForSomebody, Carries, WasReceived, OnWire, Later

-----------------------------------------------------------------------------
(* The calls.                                                              *)

LEMMA CallsBegin ==
  ASSUME Init
  PROVE  CallTypes /\ CallInv
<1>1. 0 \in 0 .. MaxId /\ 0 \in 0 .. MaxCopies
  BY LiveCallbacksAssumption, CallbackLeasesAssumption
<1>2. CallTypes
  BY <1>1 DEF Init, CallTypes
<1>3. CallInv
  BY DEF Init, CallInv, CallsAreMade, WaitingIsCounted, ResultIsKept, CallRunsOnce,
         RunIsAnswered
<1>4. QED
  BY <1>2, <1>3

\* The numbers of a call, as the provers need them.
LEMMA CallNumbers ==
  ASSUME CallTypes, NEW c \in Calls
  PROVE  /\ copies[c] \in 0 .. MaxCopies /\ copies[c] \in Nat /\ waiting[c] \in Nat
         /\ runs[c] \in Nat /\ MaxCopies \in Nat
         /\ promise[c] \in {"none", "running", "value", "missing"}
BY LiveCallbacksAssumption DEF CallTypes

LEMMA InvokeStep ==
  ASSUME CallTypes, CallInv, NEW c \in Calls, NEW g \in Ids, Invoke(c, g)
  PROVE  CallTypes' /\ CallInv'
<1>1. /\ caller[c] = "new" /\ caller'[c] \in {"pending", "refused"}
      /\ caller' = [caller EXCEPT ![c] = caller'[c]]
      /\ \A d \in Calls \ {c} : caller'[d] = caller[d]
      /\ target' = [target EXCEPT ![c] = g]
      /\ UNCHANGED <<copies, flight, stored, promise, waiting, responses, answered, runs>>
      /\ UNCHANGED <<open, finished, closing, asking, stopped>>
  BY DEF Invoke, channelVars, CallTypes
<1>2. CallTypes'
  BY <1>1, CallbackLeasesAssumption DEF CallTypes, Ids
<1>3. \A x \in answered \cup responses : x.call # c
  BY <1>1 DEF CallInv, CallsAreMade
<1>4. \A x \in answered \cup responses : x.call \in Calls
  BY DEF CallTypes, Response
<1>5. CallsAreMade'
  BY <1>1, <1>3, <1>4 DEF CallInv, CallsAreMade
<1>6. ResultIsKept' /\ RunIsAnswered'
  BY <1>1 DEF CallInv, CallsAreMade, ResultIsKept, RunIsAnswered, CallTypes
<1>7. QED
  BY <1>1, <1>2, <1>5, <1>6 DEF CallInv, WaitingIsCounted, CallRunsOnce

LEMMA SendFailsStep ==
  ASSUME CallTypes, CallInv, NEW c \in Calls, SendFails(c)
  PROVE  CallTypes' /\ CallInv'
<1>1. /\ caller[c] = "pending" /\ caller' = [caller EXCEPT ![c] = "rejected"]
      /\ UNCHANGED <<target, copies, flight, stored, promise, waiting, responses, answered, runs>>
      /\ UNCHANGED <<open, finished, closing, asking, stopped>>
  BY DEF SendFails, channelVars
<1>2. /\ caller'[c] = "rejected"
      /\ \A d \in Calls \ {c} : caller'[d] = caller[d]
      /\ \A x \in answered \cup responses : x.call \in Calls
  BY <1>1 DEF CallTypes, Response
<1>3. CallTypes'
  BY <1>1 DEF CallTypes
<1>4. CallsAreMade'
  BY <1>1, <1>2 DEF CallInv, CallsAreMade
<1>5. ResultIsKept' /\ RunIsAnswered'
  BY <1>1, <1>2 DEF CallInv, ResultIsKept, RunIsAnswered
<1>6. QED
  BY <1>1, <1>3, <1>4, <1>5 DEF CallInv, WaitingIsCounted, CallRunsOnce

LEMMA SendStep ==
  ASSUME CallTypes, CallInv, NEW c \in Calls, Send(c)
  PROVE  CallTypes' /\ CallInv'
<1>1. /\ caller[c] = "pending" /\ copies[c] < MaxCopies
      /\ copies' = [copies EXCEPT ![c] = copies[c] + 1] /\ flight' = flight \cup {c}
      /\ UNCHANGED <<caller, target, stored, promise, waiting, responses, answered, runs>>
      /\ UNCHANGED <<open, finished, closing, asking, stopped>>
  BY DEF Send, channelVars
<1>2. /\ copies'[c] = copies[c] + 1
      /\ \A d \in Calls \ {c} : copies'[d] = copies[d]
  BY <1>1 DEF CallTypes
<1>3. CallTypes'
  <2>1. copies[c] + 1 \in 0 .. MaxCopies
    BY <1>1, CallNumbers
  <2>2. QED
    BY <1>1, <2>1 DEF CallTypes, Response
<1>4. WaitingIsCounted'
  <2> SUFFICES ASSUME NEW d \in Calls
               PROVE  /\ waiting[d] <= copies'[d]
                      /\ d \in flight' => waiting[d] < copies'[d]
                      /\ promise[d] = "running" => waiting[d] > 0
                      /\ d \in stored => promise[d] # "none"
    BY <1>1 DEF WaitingIsCounted
  <2>1. copies[d] \in Nat /\ waiting[d] \in Nat /\ waiting[d] <= copies[d]
    BY CallNumbers DEF CallInv, WaitingIsCounted
  <2>2. QED
    BY <1>1, <1>2, <2>1 DEF CallInv, WaitingIsCounted
<1>5. CallsAreMade' /\ ResultIsKept' /\ RunIsAnswered'
  BY <1>1 DEF CallInv, CallsAreMade, ResultIsKept, RunIsAnswered
<1>6. QED
  BY <1>1, <1>3, <1>4, <1>5 DEF CallInv, CallRunsOnce

LEMMA LoseCopyStep ==
  ASSUME CallTypes, CallInv, NEW c \in Calls, LoseCopy(c)
  PROVE  CallTypes' /\ CallInv'
<1>1. /\ flight' = flight \ {c}
      /\ UNCHANGED <<caller, target, copies, stored, promise, waiting, responses, answered, runs>>
      /\ UNCHANGED <<open, finished, closing, asking, stopped>>
  BY DEF LoseCopy, channelVars
<1>2. CallTypes'
  BY <1>1 DEF CallTypes, Response
<1>3. QED
  BY <1>1, <1>2 DEF CallInv, CallsAreMade, WaitingIsCounted, ResultIsKept, CallRunsOnce,
                    RunIsAnswered

\* A response settles its call.
LEMMA ReceiveResponseStep ==
  ASSUME CallTypes, CallInv, NEW x \in responses, ReceiveResponse(x)
  PROVE  CallTypes' /\ CallInv'
<1> DEFINE c == x.call
<1>1. c \in Calls /\ x \in Response /\ caller[c] # "new"
  BY DEF CallTypes, Response, CallInv, CallsAreMade
<1>2. /\ responses' = responses \ {x} /\ answered' = answered \cup {x}
      /\ caller' = [caller EXCEPT ![c] = caller'[c]]
      /\ caller'[c] = IF caller[c] # "pending" THEN caller[c]
                      ELSE IF x.kind = "value" THEN "resolved" ELSE "rejected"
      /\ \A d \in Calls \ {c} : caller'[d] = caller[d]
      /\ UNCHANGED <<target, copies, flight, stored, promise, waiting, runs>>
      /\ UNCHANGED <<open, finished, closing, asking, stopped>>
  BY <1>1 DEF ReceiveResponse, channelVars, CallTypes
<1>3. \A y \in answered \cup responses : y.call \in Calls
  BY DEF CallTypes, Response
<1> HIDE DEF c
<1>4. CallTypes'
  <2>1. caller'[c] \in {"pending", "resolved", "rejected", "released", "refused"}
    BY <1>1, <1>2 DEF CallTypes
  <2>2. caller' \in [Calls -> {"new", "pending", "resolved", "rejected", "released", "refused"}]
    BY <1>2, <2>1 DEF CallTypes
  <2>3. QED
    BY <1>1, <1>2, <2>2 DEF CallTypes, Response
<1>5. CallsAreMade'
  <2>1. caller'[c] \notin {"new", "pending"}
    BY <1>1, <1>2
  <2>2. \A d \in Calls : caller'[d] = "new" => caller[d] = "new"
    BY <1>2, <2>1
  <2>3. \A y \in responses \cup answered \cup {x} : y.call = c \/ caller'[y.call] = caller[y.call]
    BY <1>2, <1>3 DEF c
  <2>4. QED
    BY <1>2, <2>1, <2>2, <2>3 DEF CallInv, CallsAreMade, c
<1>6. \A d \in Calls : caller'[d] = "pending" => caller[d] = "pending" /\ d # c
  BY <1>1, <1>2
<1>7. ResultIsKept' /\ RunIsAnswered'
  BY <1>2, <1>6 DEF CallInv, ResultIsKept, RunIsAnswered, c
<1>8. QED
  BY <1>2, <1>4, <1>5, <1>7 DEF CallInv, WaitingIsCounted, CallRunsOnce

LEMMA AcknowledgeStep ==
  ASSUME CallTypes, CallInv, NEW x \in answered, Acknowledge(x)
  PROVE  CallTypes' /\ CallInv'
<1>1. /\ answered' = answered \ {x} /\ stored' = stored \ {x.call} /\ x.call \notin flight
      /\ UNCHANGED <<caller, target, copies, flight, promise, waiting, responses, runs>>
      /\ UNCHANGED <<open, finished, closing, asking, stopped>>
  BY DEF Acknowledge, channelVars
<1>2. CallTypes'
  BY <1>1 DEF CallTypes, Response
<1>3. caller[x.call] # "pending"
  BY DEF CallInv, CallsAreMade
<1>4. ResultIsKept'
  BY <1>1, <1>3 DEF CallInv, ResultIsKept
<1>5. QED
  BY <1>1, <1>2, <1>4 DEF CallInv, CallsAreMade, WaitingIsCounted, CallRunsOnce, RunIsAnswered

\* A copy of a request is received: it starts the call, waits for it, or is
\* answered at once.
LEMMA ReceiveRequestStep ==
  ASSUME CallTypes, CallInv, NEW c \in Calls, ReceiveRequest(c)
  PROVE  CallTypes' /\ CallInv'
<1>1. /\ "owner" \in open /\ c \in flight /\ flight' = flight \ {c} /\ HandleRequest(c)
      /\ UNCHANGED <<caller, target, copies, answered>>
      /\ UNCHANGED <<open, finished, closing, asking, stopped>>
  BY DEF ReceiveRequest, channelVars, Acts
<1>2. /\ copies[c] \in 1 .. MaxCopies /\ waiting[c] \in Nat /\ waiting[c] < copies[c]
      /\ copies[c] \in Nat /\ waiting[c] + 1 \in Nat /\ runs[c] \in Nat
  <2>1. waiting[c] < copies[c]
    BY <1>1 DEF CallInv, WaitingIsCounted
  <2>2. QED
    BY <2>1, CallNumbers
<1>3. caller[c] # "new" /\ (c \in stored => promise[c] \in {"running", "value", "missing"})
  BY <1>1, CallNumbers DEF CallInv, CallsAreMade, WaitingIsCounted
<1>4. ResultIsKept => (c \notin stored => runs[c] = 0)
  BY <1>1, <1>2 DEF ResultIsKept
<1>5. c \notin stored => runs[c] = 0
  BY <1>4 DEF CallInv
\* What each case does.
<1>6. /\ stored' \subseteq stored \cup {c} /\ stored \subseteq stored'
      /\ responses \subseteq responses'
      /\ \A x \in responses' : x \in responses \/ (x \in Response /\ x.call = c)
      /\ \A d \in Calls \ {c} : /\ promise'[d] = promise[d] /\ waiting'[d] = waiting[d]
                                /\ runs'[d] = runs[d]
      /\ promise' \in [Calls -> {"none", "running", "value", "missing"}]
      /\ waiting' \in [Calls -> Nat] /\ runs' \in [Calls -> Nat]
      /\ \/ /\ promise'[c] = "running" /\ waiting'[c] = waiting[c] + 1
         \/ /\ \E x \in responses' : x.call = c
            /\ waiting'[c] = waiting[c] /\ promise'[c] = promise[c] /\ promise[c] # "running"
         \/ /\ \E x \in responses' : x.call = c
            /\ waiting'[c] = waiting[c] /\ c \notin stored /\ promise'[c] = "missing"
         \/ /\ \E x \in responses' : x.call = c
            /\ waiting'[c] = waiting[c] /\ c \notin stored /\ c \notin stored'
            /\ promise'[c] = promise[c]
      /\ \/ runs'[c] = runs[c]
         \/ runs[c] = 0 /\ runs'[c] = 1 /\ c \in stored'
      /\ c \in stored' => promise'[c] # "none"
  <2>1. \A k \in {"value", "missing", "busy"} :
          Answer(c, k, {copies[c]}) =>
            /\ responses \subseteq responses' /\ \E x \in responses' : x.call = c
            /\ \A x \in responses' : x \in responses \/ (x \in Response /\ x.call = c)
    <3> TAKE k \in {"value", "missing", "busy"}
    <3> DEFINE x == [call |-> c, kind |-> k, n |-> copies[c]]
    <3>1. Answer(c, k, {copies[c]}) => responses' = responses \cup {x}
      BY DEF Answer
    <3>2. x \in Response /\ x.call = c
      BY <1>2 DEF Response
    <3> HIDE DEF x
    <3>3. QED
      BY <3>1, <3>2
  <2>2. CASE c \in stored /\ AnswerStored(c) /\ promise[c] = "running"
    BY <1>2, <2>2 DEF AnswerStored, CallTypes
  <2>3. CASE c \in stored /\ AnswerStored(c) /\ promise[c] # "running"
    <3>1. /\ Answer(c, promise[c], {copies[c]}) /\ promise[c] \in {"value", "missing"}
          /\ UNCHANGED <<waiting, stored, promise, runs>>
      BY <1>3, <2>3 DEF AnswerStored
    <3>2. QED
      BY <2>1, <2>3, <3>1 DEF CallTypes
  <2>4. CASE /\ c \notin stored /\ Answer(c, "busy", {copies[c]})
             /\ UNCHANGED <<stored, promise, waiting, runs>>
    BY <2>1, <2>4 DEF CallTypes
  <2>5. CASE c \notin stored /\ StartCall(c) /\ Registered(target[c])
    BY <1>2, <1>5, <2>5 DEF StartCall, CallTypes
  <2>6. CASE c \notin stored /\ StartCall(c) /\ ~Registered(target[c])
    <3>1. /\ Answer(c, "missing", {copies[c]}) /\ stored' = stored \cup {c}
          /\ promise' = [promise EXCEPT ![c] = "missing"]
          /\ UNCHANGED <<runs, waiting>>
      BY <2>6 DEF StartCall
    <3>2. QED
      BY <2>1, <2>6, <3>1 DEF CallTypes
  <2>7. QED
    BY <1>1, <2>2, <2>3, <2>4, <2>5, <2>6 DEF HandleRequest
<1>7. CallTypes'
  BY <1>1, <1>6 DEF CallTypes, Response
<1>8. CallsAreMade'
  BY <1>1, <1>3, <1>6 DEF CallInv, CallsAreMade
<1>9. WaitingIsCounted'
  <2> SUFFICES ASSUME NEW d \in Calls
               PROVE  /\ waiting'[d] <= copies[d]
                      /\ d \in flight' => waiting'[d] < copies[d]
                      /\ promise'[d] = "running" => waiting'[d] > 0
                      /\ d \in stored' => promise'[d] # "none"
    BY <1>1 DEF WaitingIsCounted
  <2>1. CASE d # c
    BY <1>1, <1>6, <2>1 DEF CallInv, WaitingIsCounted
  <2>2. CASE d = c
    <3>1. promise[c] = "running" => waiting[c] > 0
      BY DEF CallInv, WaitingIsCounted
    <3>2. waiting'[c] <= copies[c] /\ (promise'[c] = "running" => waiting'[c] > 0)
      BY <1>2, <1>6, <3>1
    <3>3. QED
      BY <1>1, <1>6, <2>2, <3>2
  <2>3. QED
    BY <2>1, <2>2
<1>10. ResultIsKept'
  <2> SUFFICES ASSUME NEW d \in Calls, runs'[d] > 0
               PROVE  d \in stored' \/ (d \notin flight' /\ caller[d] # "pending")
    BY <1>1 DEF ResultIsKept
  <2>1. runs[d] > 0 => d \in stored \/ (d \notin flight /\ caller[d] # "pending")
    BY <1>1 DEF CallInv, ResultIsKept
  <2>2. QED
    BY <1>1, <1>6, <2>1
<1>11. CallRunsOnce' /\ RunIsAnswered'
  BY <1>1, <1>6 DEF CallInv, CallRunsOnce, RunIsAnswered
<1>12. QED
  BY <1>7, <1>8, <1>9, <1>10, <1>11 DEF CallInv

\* Every copy that waits for the function is answered.
LEMMA ReturnStep ==
  ASSUME CallTypes, CallInv, NEW c \in Calls, Return(c)
  PROVE  CallTypes' /\ CallInv'
<1> DEFINE numbers == copies[c] - waiting[c] + 1 .. copies[c]
<1>1. /\ promise[c] = "running"
      /\ promise' = [promise EXCEPT ![c] = "value"] /\ waiting' = [waiting EXCEPT ![c] = 0]
      /\ responses' = responses \cup {[call |-> c, kind |-> "value", n |-> n] : n \in numbers}
      /\ UNCHANGED <<caller, target, copies, flight, stored, answered, runs>>
      /\ UNCHANGED <<open, finished, closing, asking, stopped>>
  BY DEF Return, Answer, channelVars
<1>2. /\ copies[c] \in 0 .. MaxCopies /\ MaxCopies \in Nat /\ waiting[c] \in Nat
      /\ waiting[c] > 0 /\ waiting[c] <= copies[c]
  BY <1>1, CallNumbers DEF CallInv, WaitingIsCounted
<1>3. copies[c] \in numbers /\ numbers \subseteq 1 .. MaxCopies
  BY <1>2
<1> HIDE DEF numbers
<1>4. /\ responses \subseteq responses'
      /\ \A x \in responses' : x \in responses \/ (x \in Response /\ x.call = c)
      /\ \E x \in responses' : x.call = c
  <2>1. [call |-> c, kind |-> "value", n |-> copies[c]] \in responses'
    BY <1>1, <1>3
  <2>2. ASSUME NEW x \in responses', x \notin responses PROVE x \in Response /\ x.call = c
    <3>1. PICK n \in numbers : x = [call |-> c, kind |-> "value", n |-> n]
      BY <1>1, <2>2
    <3>2. n \in 1 .. MaxCopies
      BY <1>3
    <3>3. QED
      BY <3>1, <3>2 DEF Response
  <2>3. QED
    BY <1>1, <2>1, <2>2
<1>5. /\ promise'[c] = "value" /\ waiting'[c] = 0
      /\ \A d \in Calls \ {c} : promise'[d] = promise[d] /\ waiting'[d] = waiting[d]
  BY <1>1 DEF CallTypes
<1>6. CallTypes'
  BY <1>1, <1>4 DEF CallTypes, Response
<1>7. CallsAreMade'
  BY <1>1, <1>4, <1>5 DEF CallInv, CallsAreMade
<1>8. WaitingIsCounted'
  <2> SUFFICES ASSUME NEW d \in Calls
               PROVE  /\ waiting'[d] <= copies[d]
                      /\ d \in flight => waiting'[d] < copies[d]
                      /\ promise'[d] = "running" => waiting'[d] > 0
                      /\ d \in stored => promise'[d] # "none"
    BY <1>1 DEF WaitingIsCounted
  <2>1. CASE d # c
    BY <1>1, <1>5, <2>1 DEF CallInv, WaitingIsCounted
  <2>2. CASE d = c
    <3>1. c \in flight => 0 < copies[c]
      BY <1>2 DEF CallInv, WaitingIsCounted
    <3>2. 0 <= copies[c]
      BY <1>2
    <3>3. QED
      BY <1>1, <1>5, <2>2, <3>1, <3>2
  <2>3. QED
    BY <2>1, <2>2
<1>9. ResultIsKept'
  BY <1>1 DEF CallInv, ResultIsKept
<1>10. CallRunsOnce' /\ RunIsAnswered'
  BY <1>1, <1>4, <1>5 DEF CallInv, CallRunsOnce, RunIsAnswered
<1>11. QED
  BY <1>6, <1>7, <1>8, <1>9, <1>10 DEF CallInv

-----------------------------------------------------------------------------
(* The release of the channel.                                             *)

LEMMA ReleaseAllStep ==
  ASSUME LeaseTypes, CallTypes, CallInv, NEW e \in Ends, ReleaseAll(e), stopped' \in BOOLEAN
  PROVE  /\ LeaseTypes' /\ CallTypes' /\ CallInv'
         /\ open' = open \ {e} /\ UNCHANGED <<closing, asking, promise, responses>>
         /\ e = "holder" /\ LeaseInv => LeaseInv'
         /\ e = "owner" => entry' = NoEntry
         /\ entry = NoEntry /\ LeaseInv => LeaseInv'
<1>1. /\ open' = open \ {e}
      /\ UNCHANGED <<ids, stage, marker, releases, overtaken, lost, finished, closing,
                     asking, target, copies, flight, promise, waiting, responses, answered, runs>>
  BY DEF ReleaseAll
<1>2. CASE e = "owner"
  <2>1. entry' = NoEntry /\ stored' = {} /\ UNCHANGED <<received, caller>>
    BY <1>2 DEF ReleaseAll
  <2>2. NoEntry \in Entry
    BY CallbackLeasesAssumption DEF NoEntry, NewEntry, Entry
  <2>3. LeaseTypes' /\ CallTypes'
    BY <1>1, <2>1, <2>2 DEF LeaseTypes, CallTypes, Response
  <2>4. CallInv'
    BY <1>1, <1>2, <2>1 DEF CallInv, CallsAreMade, WaitingIsCounted, ResultIsKept, CallRunsOnce,
                       RunIsAnswered
  <2>5. ASSUME entry = NoEntry, LeaseInv PROVE LeaseInv'
    <3>1. UNCHANGED leaseVars
      BY <1>1, <2>1, <2>5 DEF leaseVars
    <3>2. QED
      BY <2>5, <3>1, LeasesStay
  <2>6. QED
    BY <1>1, <1>2, <2>1, <2>3, <2>4, <2>5
<1>3. CASE e = "holder"
  <2>1. /\ received' = [g \in Ids |-> NoWrapper]
        /\ caller' = [c \in Calls |-> IF c \in Pending THEN "released" ELSE caller[c]]
        /\ UNCHANGED <<entry, stored>>
    BY <1>3 DEF ReleaseAll
  <2>2. /\ \A g \in Ids : received'[g].state = "none"
        /\ \A c \in Calls : caller'[c] = IF caller[c] = "pending" THEN "released" ELSE caller[c]
    BY <2>1 DEF NoWrapper, Pending
  <2>3. LeaseTypes'
    BY <1>1, <2>1 DEF LeaseTypes, NoWrapper
  <2>4. CallTypes'
    <3>1. caller' \in [Calls -> {"new", "pending", "resolved", "rejected", "released", "refused"}]
      BY <2>1 DEF CallTypes
    <3>2. QED
      BY <1>1, <2>1, <3>1 DEF CallTypes, Response
  <2>5. \A x \in responses \cup answered : x.call \in Calls
    BY DEF CallTypes, Response
  <2>6. CallInv'
    BY <1>1, <2>1, <2>2, <2>5 DEF CallInv, CallsAreMade, WaitingIsCounted, ResultIsKept,
                                  CallRunsOnce, RunIsAnswered
  <2>7. ASSUME LeaseInv PROVE LeaseInv'
    <3>1. MarkersDiffer' /\ LeaseIsHighest' /\ EntryKnowsSends' /\ GoneIsOvertaken'
      BY <1>1, <2>1, <2>7 DEF LeaseInv, MarkersDiffer, LeaseIsHighest, EntryKnowsSends,
                              GoneIsOvertaken, Carries, Later
    <3>2. LeasesAreReceived' /\ WrapperIsLatest'
      BY <1>1, <2>1, <2>2, <2>7 DEF LeaseInv, LeasesAreReceived, WrapperIsLatest, WasReceived
    <3>3. QED
      BY <3>1, <3>2 DEF LeaseInv
  <2>8. QED
    BY <1>1, <1>3, <2>3, <2>4, <2>6, <2>7
<1>4. QED
  BY <1>2, <1>3 DEF Ends

\* The first end to leave the channel by itself leaves when nothing is alive.
LEMMA NothingIsCut ==
  ASSUME CallbackInv, NEW e \in Ends, closing = {}, ~stopped',
         ReleaseChannel(e) \/ PeerReleased(e) \/ Stop(e)
  PROVE  \/ e = "owner" /\ "holder" \notin open
         \/ e = "owner" /\ entry.id = 0 /\ Running = {} /\ responses = {}
         \/ /\ e = "holder"
            /\ \A g \in Ids \ overtaken : ~Reachable(g)
            /\ \A c \in Calls : caller[c] = "pending" => runs[c] = 0
<1>1. e \in open /\ ~asking
  BY DEF ReleaseChannel, PeerReleased, Stop, Acts, Due, CallbackInv, Channels, AskedIsClosing
<1>2. CASE ReleaseChannel(e)
  <2>1. ~Durable(e) /\ ~Alive(e)
    BY <1>2 DEF ReleaseChannel, Due
  <2>2. CASE e = "owner"
    BY <2>1, <2>2 DEF Durable, Alive
  <2>3. CASE e = "holder"
    BY <2>1, <2>3 DEF Alive, Pending, Reachable
  <2>4. QED
    BY <2>2, <2>3 DEF Ends
<1>3. CASE PeerReleased(e)
  <2>1. Other(e) \notin open
    BY <1>1, <1>3 DEF PeerReleased
  <2>2. CASE e = "holder"
    <3>1. OwnerLeft
      BY <1>1, <1>3, <2>1, <2>2 DEF Other, OwnerLeft, PeerReleased
    <3>2. LeaseInv /\ entry.id = 0 /\ Running = {} /\ responses = {}
      BY <3>1 DEF CallbackInv, Channels
    <3>3. \A g \in Ids \ overtaken : ~Reachable(g)
      BY <3>2 DEF LeaseInv, WrapperIsLatest, Reachable, Ids
    <3>4. ASSUME NEW c \in Calls, caller[c] = "pending" PROVE runs[c] = 0
      <4>1. runs[c] \in Nat
        BY DEF CallbackInv, CallTypes
      <4>2. ~(runs[c] > 0)
        BY <3>2, <3>4 DEF CallbackInv, CallInv, RunIsAnswered, Running
      <4>3. QED
        BY <4>1, <4>2
    <3>5. QED
      BY <2>2, <3>3, <3>4
  <2>3. QED
    BY <2>1, <2>2 DEF Other, Ends
<1>4. CASE Stop(e)
  BY <1>4 DEF Stop
<1>5. QED
  BY <1>2, <1>3, <1>4

-----------------------------------------------------------------------------
(* The invariant.                                                          *)

\* A step by which no end leaves, and no request of a release is taken back.
LEMMA ChannelsStay ==
  ASSUME LeaseTypes, Channels,
         open' = open, closing \subseteq closing', stopped' = stopped,
         AskedIsClosing',
         LeaseInv => LeaseInv',
         LeaseInv /\ Kept => Kept',
         "owner" \notin open =>
           entry' = entry /\ Running' \subseteq Running /\ responses' \subseteq responses
  PROVE  Channels'
<1>1. OwnerLeft' => OwnerLeft
  BY DEF OwnerLeft
<1>2. BothOpen' => BothOpen /\ "owner" \in open
  BY DEF BothOpen, Ends
<1>3. OwnerLeft' => "owner" \notin open
  BY DEF OwnerLeft
<1>4. QED
  BY <1>1, <1>2, <1>3 DEF Channels, Kept

LEMMA LeaseStepKeeps ==
  ASSUME CallbackInv, LeaseStep
  PROVE  CallbackInv'
<1>1. UNCHANGED callVars /\ UNCHANGED channelVars
  BY DEF LeaseStep
<1>2. CallTypes' /\ CallInv' /\ AskedIsClosing'
  BY <1>1 DEF callVars, channelVars, CallbackInv, CallTypes, CallInv, CallsAreMade,
    WaitingIsCounted, ResultIsKept, CallRunsOnce, RunIsAnswered, Response, Channels, AskedIsClosing
<1>3. /\ LeaseTypes' /\ (LeaseInv => LeaseInv') /\ (LeaseInv /\ Kept => Kept')
      /\ "owner" \notin open => entry' = entry
  <2>1. CASE Acts("owner") /\ (OwnerSends \/ OwnerHears)
    <3>1. LeaseTypes /\ LeaseInv /\ "owner" \in open
      BY <2>1 DEF CallbackInv, Channels, Acts
    <3>2. QED
      BY <2>1, <3>1, PrepareStep, PutOnWireStep, RollbackStep, ReceiveReleaseStep
      DEF OwnerSends, OwnerHears
  <2>2. CASE HolderHears \/ HolderCollects \/ NetworkLoses
    <3>1. LeaseTypes
      BY DEF CallbackInv
    <3>2. LeaseTypes'
      BY <2>2, <3>1, HolderTypes
    <3>3. ASSUME LeaseInv PROVE LeaseInv' /\ (Kept => Kept')
      BY <2>2, <3>1, <3>3, ReceiveStep, CollectStep, FinalizeStep, LoseStep
      DEF HolderHears, HolderCollects, NetworkLoses
    <3>4. entry' = entry
      BY <2>2 DEF HolderHears, HolderCollects, NetworkLoses, Receive, Collect, Finalize, Lose
    <3>5. QED
      BY <3>2, <3>3, <3>4
  <2>3. QED
    BY <2>1, <2>2 DEF LeaseStep
<1>4. open' = open /\ closing' = closing /\ stopped' = stopped
      /\ promise' = promise /\ responses' = responses
  BY <1>1 DEF callVars, channelVars
<1>5. Running' = Running
  BY <1>4 DEF Running
<1>6. Channels'
  BY <1>2, <1>3, <1>4, <1>5, ChannelsStay DEF CallbackInv
<1>7. QED
  BY <1>2, <1>3, <1>6 DEF CallbackInv

LEMMA ChannelKeeps ==
  ASSUME CallbackInv, NEW e \in Ends,
         Finish(e) \/ AskRelease(e) \/ ReleaseChannel(e) \/ PeerReleased(e) \/ Stop(e)
  PROVE  CallbackInv'
<1>1. CASE Finish(e) \/ AskRelease(e)
  <2>1. /\ UNCHANGED leaseVars /\ UNCHANGED callVars /\ UNCHANGED <<open, stopped>>
        /\ finished' \subseteq Ends /\ asking' \in BOOLEAN
        /\ closing \subseteq closing' /\ closing' \subseteq Ends
        /\ asking' => asking \/ closing' # {}
    <3>1. finished \subseteq Ends /\ closing \subseteq Ends /\ asking \in BOOLEAN
      BY DEF CallbackInv, CallTypes
    <3>2. /\ UNCHANGED leaseVars /\ UNCHANGED callVars /\ UNCHANGED <<open, stopped>>
          /\ finished' \subseteq finished \cup {e}
          /\ (closing' = closing /\ asking' = asking) \/ closing' = closing \cup {e}
      BY <1>1 DEF Finish, AskRelease
    <3>3. asking' = asking \/ asking' = TRUE \/ asking' = (asking \/ Alive(e))
      BY <1>1, Zenon DEF Finish, AskRelease
    <3>4. asking' \in BOOLEAN
      BY <3>1, <3>3, Zenon
    <3>5. QED
      BY <3>1, <3>2, <3>4
  <2>2. /\ UNCHANGED <<caller, target, copies, flight, stored, promise, waiting, responses,
                       answered, runs>>
        /\ UNCHANGED entry
    BY <2>1 DEF callVars, leaseVars
  <2>3. CallTypes' /\ CallInv'
    BY <2>1, <2>2 DEF CallbackInv, CallTypes, CallInv, CallsAreMade,
      WaitingIsCounted, ResultIsKept, CallRunsOnce, RunIsAnswered, Response
  <2>4. LeaseTypes' /\ (LeaseInv => LeaseInv') /\ (Kept => Kept')
    BY <2>1, LeasesStay DEF CallbackInv
  <2>5. AskedIsClosing'
    BY <2>1 DEF CallbackInv, Channels, AskedIsClosing
  <2>6. Running' = Running
    BY <2>2 DEF Running
  <2>7. Channels'
    BY <2>1, <2>2, <2>4, <2>5, <2>6, ChannelsStay DEF CallbackInv
  <2>8. QED
    BY <2>3, <2>4, <2>7 DEF CallbackInv
<1>2. CASE ReleaseChannel(e) \/ PeerReleased(e) \/ Stop(e)
  <2>1. ReleaseAll(e) /\ e \in open /\ stopped' \in BOOLEAN /\ (stopped => stopped')
    BY <1>2 DEF ReleaseChannel, PeerReleased, Stop, Acts, Due, CallbackInv, CallTypes
  <2>2. /\ LeaseTypes' /\ CallTypes' /\ CallInv'
        /\ open' = open \ {e} /\ UNCHANGED <<closing, asking, promise, responses>>
        /\ e = "holder" /\ LeaseInv => LeaseInv'
        /\ e = "owner" => entry' = NoEntry
        /\ entry = NoEntry /\ LeaseInv => LeaseInv'
    BY <2>1, ReleaseAllStep DEF CallbackInv
  <2>3. AskedIsClosing' /\ ~BothOpen'
    BY <2>2 DEF CallbackInv, Channels, AskedIsClosing, BothOpen
  <2>4. CASE e = "owner"
    <3>1. OwnerLeft' => "holder" \in open /\ closing = {} /\ ~stopped'
      BY <2>2, <2>4 DEF OwnerLeft
    <3>2. OwnerLeft' => entry.id = 0 /\ Running = {} /\ responses = {}
      BY <1>2, <2>4, <3>1, NothingIsCut
    <3>3. OwnerLeft' => LeaseInv /\ entry = NoEntry
      BY <2>1, <2>4, <3>2 DEF CallbackInv, Channels, LeaseInv, LeaseIsHighest
    <3>4. entry'.id = 0 /\ Running' = Running
      BY <2>2, <2>4 DEF NoEntry, NewEntry, Running
    <3>5. "owner" \notin open'
      BY <2>2, <2>4
    <3>6. Channels'
      BY <2>2, <2>3, <3>2, <3>3, <3>4, <3>5 DEF Channels
    <3>7. QED
      BY <2>2, <3>6 DEF CallbackInv
  <2>5. CASE e = "holder"
    <3>1. ~OwnerLeft' /\ ("owner" \in open' => "owner" \in open)
      BY <2>2, <2>5 DEF OwnerLeft
    <3>2. Channels'
      BY <2>2, <2>3, <2>5, <3>1 DEF Channels, CallbackInv
    <3>3. QED
      BY <2>2, <3>2 DEF CallbackInv
  <2>6. QED
    BY <2>4, <2>5 DEF Ends
<1>3. QED
  BY <1>1, <1>2

\* Calls do not change the leases, and a channel that was left has no answers.
LEMMA CallKeeps ==
  ASSUME CallbackInv,
         \/ \E c \in Calls : Call(c)
         \/ \E x \in responses : ReceiveResponse(x)
         \/ \E x \in answered : Acknowledge(x)
  PROVE  CallbackInv'
<1>1. CallTypes' /\ CallInv'
  <2>1. CallTypes /\ CallInv
    BY DEF CallbackInv
  <2>2. CASE \E c \in Calls : Call(c)
    <3>1. PICK c \in Calls : Call(c)
      BY <2>2
    <3>2. QED
      BY <2>1, <3>1, InvokeStep, SendFailsStep, SendStep, LoseCopyStep, ReceiveRequestStep,
         ReturnStep DEF Call
  <2>3. QED
    BY <2>1, <2>2, ReceiveResponseStep, AcknowledgeStep
<1>2. UNCHANGED leaseVars /\ UNCHANGED channelVars
  BY DEF Call, Invoke, SendFails, Send, LoseCopy, ReceiveRequest, Return, ReceiveResponse,
         Acknowledge
<1>3. "owner" \notin open => Running' = Running /\ responses' \subseteq responses
  BY DEF Call, Invoke, SendFails, Send, LoseCopy, ReceiveRequest, Return, ReceiveResponse,
         Acknowledge, Acts, Running
<1>4. LeaseTypes' /\ (LeaseInv => LeaseInv') /\ (Kept => Kept')
  BY <1>2, LeasesStay DEF CallbackInv
<1>5. /\ open' = open /\ closing' = closing /\ stopped' = stopped /\ entry' = entry
      /\ asking' = asking
  BY <1>2 DEF leaseVars, channelVars
<1>6. AskedIsClosing'
  BY <1>5 DEF CallbackInv, Channels, AskedIsClosing
<1>7. Channels'
  BY <1>3, <1>4, <1>5, <1>6, ChannelsStay DEF CallbackInv
<1>8. QED
  BY <1>1, <1>4, <1>7 DEF CallbackInv

LEMMA CallbackInvBegins == Init => CallbackInv
<1> SUFFICES ASSUME Init PROVE CallbackInv
  OBVIOUS
<1>1. LeaseTypes /\ LeaseInv /\ Kept /\ CallTypes /\ CallInv
  BY LeasesBegin, CallsBegin DEF Init
<1>2. Channels
  BY <1>1 DEF Init, Channels, Kept, AskedIsClosing, OwnerLeft, Ends
<1>3. QED
  BY <1>1, <1>2 DEF CallbackInv

LEMMA CallbackInvStays == CallbackInv /\ [Next]_vars => CallbackInv'
<1> SUFFICES ASSUME CallbackInv, [Next]_vars PROVE CallbackInv'
  OBVIOUS
<1>1. CASE LeaseStep
  BY <1>1, LeaseStepKeeps
<1>2. CASE Channel
  BY <1>2, ChannelKeeps DEF Channel
<1>3. CASE \/ \E c \in Calls : Call(c)
           \/ \E x \in responses : ReceiveResponse(x)
           \/ \E x \in answered : Acknowledge(x)
  BY <1>3, CallKeeps
<1>4. CASE UNCHANGED vars
  <2>1. UNCHANGED leaseVars /\ UNCHANGED callVars /\ UNCHANGED channelVars
    BY <1>4 DEF vars
  <2>2. LeaseTypes' /\ (LeaseInv => LeaseInv') /\ (Kept => Kept')
    BY <2>1, LeasesStay DEF CallbackInv
  <2>3. CallTypes' /\ CallInv'
    BY <2>1 DEF callVars, channelVars, CallbackInv, CallTypes, CallInv, CallsAreMade,
      WaitingIsCounted, ResultIsKept, CallRunsOnce, RunIsAnswered, Response
  <2>4. AskedIsClosing' /\ Running' = Running
    BY <2>1 DEF channelVars, callVars, CallbackInv, Channels, AskedIsClosing, Running
  <2>5. /\ open' = open /\ closing' = closing /\ stopped' = stopped
        /\ responses' = responses /\ entry' = entry
    BY <2>1 DEF leaseVars, channelVars, callVars
  <2>6. Channels'
    BY <2>2, <2>4, <2>5, ChannelsStay DEF CallbackInv
  <2>7. QED
    BY <2>2, <2>3, <2>6 DEF CallbackInv
<1>5. QED
  BY <1>1, <1>2, <1>3, <1>4 DEF Next

\* The inductive invariant: the leases as long as the owner holds the channel, and
\* when it left it first; the calls always.
THEOREM CallbackInvHolds == Spec => []CallbackInv
<1>1. QED
  BY CallbackInvBegins, CallbackInvStays, PTL DEF Spec

-----------------------------------------------------------------------------
(* The results.                                                            *)

\* A function is registered as long as a wrapper of it is reachable
\* (_onCallbackRelease, rollback), and only as long as somebody may reach it: the
\* entry's lease is pending, on the wire, held by a wrapper, or in a release.
THEOREM FunctionsFollowWrappers == Spec => []FunctionFollowsWrappers
<1>1. CallbackInv => FunctionFollowsWrappers
  <2> SUFFICES ASSUME CallbackInv, BothOpen
               PROVE  /\ \A g \in Ids \ overtaken : Reachable(g) => Registered(g)
                      /\ \A g \in Ids \ (overtaken \cup lost) :
                           Registered(g) =>
                             \/ \E s \in Sends :
                                  marker[s].id = g /\ stage[s] \in {"prepared", "wire"}
                             \/ received[g].state # "none"
                             \/ \E r \in releases : r.id = g
    BY DEF FunctionFollowsWrappers
  <2>1. LeaseInv /\ LeaseTypes /\ CommittedIsKnown /\ KeptForSomebody
    BY DEF CallbackInv, Channels, BothOpen, Ends
  <2>2. \A g \in Ids \ overtaken : Reachable(g) => Registered(g)
    BY <2>1 DEF LeaseInv, WrapperIsLatest, Reachable, Registered
  <2>3. ASSUME NEW g \in Ids \ (overtaken \cup lost), Registered(g)
        PROVE  \/ \E s \in Sends : marker[s].id = g /\ stage[s] \in {"prepared", "wire"}
               \/ received[g].state # "none"
               \/ \E r \in releases : r.id = g
    <3>1. entry.id = g /\ entry.lease > 0 /\ entry.lease \in Nat /\ entry.committedLease \in Nat
      BY <2>1, <2>3 DEF LeaseInv, LeaseIsHighest, LeaseTypes, Entry, Registered, Ids
    <3>2. CASE entry.lease # entry.committedLease
      <4>1. PICK s \in Sends : entry.pending[s] = entry.lease
        BY <2>1, <3>2 DEF LeaseInv, LeaseIsHighest
      <4>2. stage[s] = "prepared" /\ marker[s].id = g
        BY <2>1, <3>1, <4>1 DEF LeaseInv, EntryKnowsSends
      <4>3. QED
        BY <4>2
    <3>3. CASE entry.lease = entry.committedLease
      <4>1. OnWire(g, entry.committedLease) \/ WasReceived(g, entry.committedLease)
        BY <2>1, <2>3, <3>1, <3>3 DEF CommittedIsKnown
      <4>2. QED
        BY <2>1, <2>3, <3>1, <3>3, <4>1 DEF KeptForSomebody, OnWire
    <3>4. QED
      BY <3>2, <3>3
  <2>4. QED
    BY <2>2, <2>3
<1>2. QED
  BY <1>1, CallbackInvHolds, PTL

\* The function runs at most once for a call, however many copies of its request
\* are accepted (_incomingRequestResults and _onEventDelivered).
THEOREM CallsRunOnce == Spec => []CallRunsOnce
<1>1. CallbackInv => CallRunsOnce
  BY DEF CallbackInv, CallInv
<1>2. QED
  BY <1>1, CallbackInvHolds, PTL

\* What an end does by itself never takes a reachable wrapper, nor an answer from
\* a call whose function ran (shouldKeepResponseAlive, pendingDurableSends).
THEOREM ReleasesCutNothing == Spec => ReleaseCutsNothing
<1> DEFINE Uncut ==
      ~stopped' /\ closing = {} =>
        /\ \A g \in Ids \ overtaken : Reachable(g) => received'[g].state # "none"
        /\ \A c \in Calls : caller[c] = "pending" /\ runs[c] > 0 => caller'[c] # "released"
<1>1. ASSUME CallbackInv, [Next]_vars PROVE Uncut
  <2> SUFFICES ASSUME ~stopped', closing = {}
               PROVE  /\ \A g \in Ids \ overtaken : Reachable(g) => received'[g].state # "none"
                      /\ \A c \in Calls : caller[c] = "pending" /\ runs[c] > 0
                                          => caller'[c] # "released"
    OBVIOUS
  <2>1. received \in [Ids -> [state : {"none", "live", "collected"}, lease : Nat]]
        /\ caller \in [Calls -> {"new", "pending", "resolved", "rejected", "released", "refused"}]
    BY <1>1 DEF CallbackInv, LeaseTypes, CallTypes
  <2>2. CASE UNCHANGED <<received, caller>>
    BY <2>2 DEF Reachable
  <2>3. CASE LeaseStep
    <3>1. caller' = caller
      BY <2>3 DEF LeaseStep, callVars
    <3>2. ASSUME NEW g \in Ids, Reachable(g) PROVE received'[g].state # "none"
      <4>1. CASE UNCHANGED received
        BY <3>2, <4>1 DEF Reachable
      <4>2. CASE HolderHears
        BY <2>1, <3>2, <4>2 DEF HolderHears, Receive, Reachable
      <4>3. CASE HolderCollects
        BY <2>1, <3>2, <4>3 DEF HolderCollects, Collect, Finalize, Reachable
      <4>4. QED
        BY <2>3, <4>1, <4>2, <4>3 DEF LeaseStep, OwnerSends, OwnerHears, NetworkLoses,
          Prepare, PutOnWire, Rollback, ReceiveRelease, Lose
    <3>3. QED
      BY <3>1, <3>2
  <2>4. ASSUME NEW e \in Ends, ReleaseChannel(e) \/ PeerReleased(e) \/ Stop(e)
        PROVE  /\ \A g \in Ids \ overtaken : Reachable(g) => received'[g].state # "none"
               /\ \A c \in Calls : caller[c] = "pending" /\ runs[c] > 0
                                   => caller'[c] # "released"
    <3>1. ReleaseAll(e)
      BY <2>4 DEF ReleaseChannel, PeerReleased, Stop
    <3>2. CASE e = "owner"
      BY <3>1, <3>2 DEF ReleaseAll, Reachable
    <3>3. CASE e = "holder"
      <4>1. /\ \A g \in Ids \ overtaken : ~Reachable(g)
            /\ \A c \in Calls : caller[c] = "pending" => runs[c] = 0
        BY <1>1, <2>4, <3>3, NothingIsCut
      <4>2. QED
        BY <4>1
    <3>4. QED
      BY <3>2, <3>3 DEF Ends
  <2>5. CASE \E c \in Calls : Call(c)
    BY <2>1, <2>5 DEF Call, Invoke, SendFails, Send, LoseCopy, ReceiveRequest, Return, leaseVars,
       Reachable
  <2>6. CASE \/ \E x \in responses : ReceiveResponse(x)
             \/ \E x \in answered : Acknowledge(x)
    BY <2>1, <2>6 DEF ReceiveResponse, Acknowledge, leaseVars, Reachable
  <2>7. ASSUME NEW e \in Ends, Finish(e) \/ AskRelease(e) PROVE UNCHANGED <<received, caller>>
    BY <2>7 DEF Finish, AskRelease, leaseVars, callVars
  <2>8. UNCHANGED vars => UNCHANGED <<received, caller>>
    BY DEF vars, leaseVars, callVars
  <2>9. QED
    BY <1>1, <2>2, <2>3, <2>4, <2>5, <2>6, <2>7, <2>8 DEF Next, Channel
<1>2. CallbackInv /\ [Next]_vars => [Uncut]_vars
  BY <1>1
<1>3. QED
  BY <1>2, CallbackInvHolds, PTL DEF Spec, ReleaseCutsNothing

=============================================================================
