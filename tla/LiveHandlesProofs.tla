-------------------------- MODULE LiveHandlesProofs --------------------------
(* An object stays exposed as long as its proxies can be reached and no     *)
(* longer, no operation loses its object to a collection, and no write is   *)
(* applied under a read that was made after it: for any number of sends,    *)
(* registrations, operations and copies.                                    *)
EXTENDS LiveHandles, TLAPS, WellFoundedInduction

(***************************************************************************)
(* The leases.                                                             *)
(***************************************************************************)
Mark == [id : 0 .. MaxId, lease : Nat]

LeaseState == [current : Nat, committed : Nat, pending : [Sends -> Nat], pendingRelease : Nat]

\* The types of the leases; that no lease exceeds the number of sends is not
\* needed.
HandleTypes ==
  /\ ids \in 0 .. MaxId /\ registry \in 0 .. MaxId
  /\ leases \in LeaseState
  /\ stage \in [Sends -> {"new", "prepared", "wire", "received", "over"}]
  /\ marker \in [Sends -> Mark]
  /\ proxies \in [Ids -> [state : {"none", "live", "collected"}, lease : Nat]]
  /\ releases \subseteq Mark

\* What the sends of one id carry tells them apart.
Carries(s) == stage[s] \in {"prepared", "wire", "received"}

MarkersDiffer ==
  /\ \A s \in Sends : Carries(s) => marker[s].id \in 1 .. ids /\ marker[s].lease > 0
  /\ \A s, t \in Sends :
       Carries(s) /\ Carries(t) /\ marker[s].id = marker[t].id
       /\ marker[s].lease = marker[t].lease => s = t

\* The current lease is the highest that is committed or pending.
LeaseIsHighest ==
  /\ registry <= ids
  /\ registry = 0 => leases = NoLeases
  /\ registry # 0 => leases.current > 0
  /\ leases.committed <= leases.current
  /\ \A s \in Sends : leases.pending[s] <= leases.current
  /\ leases.current = leases.committed \/ \E s \in Sends : leases.pending[s] = leases.current

\* A handle is provisional for the sends with a lease until one is committed.
ProvisionalIsPending ==
  provisional = IF leases.committed > 0 THEN {} ELSE {s \in Sends : leases.pending[s] > 0}

\* The owner knows the leases of the sends that carry the registered id.
LeasesKnowSends ==
  \A s \in Sends :
    /\ leases.pending[s] = IF stage[s] = "prepared" /\ marker[s].id = registry
                           THEN marker[s].lease ELSE 0
    /\ stage[s] \in {"wire", "received"} /\ marker[s].id = registry
       => marker[s].lease <= leases.committed

\* A send was received with this id and lease.
WasReceived(g, l) ==
  \E s \in Sends : stage[s] = "received" /\ marker[s].id = g /\ marker[s].lease = l

\* What the holder knows of leases it was sent.
LeasesAreReceived ==
  /\ \A g \in Ids : proxies[g].state # "none" => WasReceived(g, proxies[g].lease)
  /\ \A r \in releases : WasReceived(r.id, r.lease)
  /\ leases.pendingRelease > 0 => WasReceived(registry, leases.pendingRelease)

\* A proxy is of a lease that no release was sent for, and the latest.
ProxyIsLatest ==
  \A g \in Ids \ overtaken :
    proxies[g].state # "none" =>
      /\ registry = g /\ leases.pendingRelease < proxies[g].lease
      /\ \A r \in releases : r.id = g => r.lease < proxies[g].lease
      /\ \A s \in Sends : stage[s] = "received" /\ marker[s].id = g
                          => marker[s].lease <= proxies[g].lease

\* An object that is gone is only carried by sends that were overtaken.
GoneIsOvertaken ==
  \A s \in Sends :
    stage[s] \in {"prepared", "wire"} /\ marker[s].id # registry
    => \E t \in Sends : stage[t] = "received" /\ Later(s, t)

HandleInv ==
  /\ MarkersDiffer /\ LeaseIsHighest /\ ProvisionalIsPending /\ LeasesKnowSends
  /\ LeasesAreReceived /\ ProxyIsLatest /\ GoneIsOvertaken

\* Why an object of which no send is prepared is still registered.
OnWire(g, l) ==
  \E s \in Sends : stage[s] = "wire" /\ marker[s].id = g /\ marker[s].lease = l

CommittedIsKnown ==
  leases.committed > 0 /\ registry \notin lost =>
    OnWire(registry, leases.committed) \/ WasReceived(registry, leases.committed)

KeptForSomebody ==
  registry \notin overtaken \cup lost /\ WasReceived(registry, leases.committed) =>
    \/ proxies[registry].state # "none"
    \/ \E r \in releases : r.id = registry /\ r.lease = leases.committed
    \/ leases.pendingRelease >= leases.committed /\ leases.current > leases.committed

Kept == CommittedIsKnown /\ KeptForSomebody

(***************************************************************************)
(* The operations.                                                         *)
(***************************************************************************)
OperationTypes ==
  /\ open \subseteq Ends
  /\ caller \in [Operations ->
                  {"new", "waiting", "pending", "resolved", "rejected", "busy"}]
  /\ target \in [Operations -> 0 .. MaxId]
  /\ through \in [Ids -> SUBSET Operations]
  /\ waitsFor \in [Operations -> SUBSET Writes] /\ earlier \in [Operations -> SUBSET Writes]
  /\ cut \subseteq Operations /\ flight \subseteq Operations /\ stored \subseteq Operations
  /\ copies \in [Operations -> Nat] /\ runs \in [Operations -> Nat]
  /\ DOMAIN awaiting = Operations
  /\ result \in [Operations -> {"none", "running", "value", "missing"}]
  /\ \A x \in responses \cup answered :
       x.op \in Operations /\ x.kind \in {"value", "missing", "busy"}

\* An operation that was not put on the wire has left no trace; an answered one is
\* settled, and without the holder none is pending.
OperationsAreMade ==
  /\ \A o \in Operations :
       caller[o] \in {"new", "waiting"} \/ copies[o] = 0 =>
         o \notin flight /\ o \notin stored /\ runs[o] = 0 /\ result[o] = "none"
  /\ \A o \in Writes : caller[o] # "waiting"
  /\ \A x \in responses : caller[x.op] \notin {"new", "waiting"}
  /\ \A x \in answered : caller[x.op] \notin {"new", "waiting", "pending"}
  /\ "holder" \notin open => Pending = {}

\* The owner forgets a result only when no copy of the request can come any more.
ResultIsKept ==
  /\ \A o \in Operations : runs[o] > 0 => result[o] # "none"
  /\ \A o \in stored : result[o] # "none"
  /\ \A x \in responses : x.kind # "busy" => result[x.op] # "none"
  /\ "owner" \in open =>
       \A o \in Operations :
         result[o] # "none" => o \in stored \/ (o \notin flight /\ caller[o] # "pending")

\* A request that may be worked on is pending, or was refused.
FlightIsPending ==
  "owner" \in open => \A o \in flight \ stored : caller[o] \in {"pending", "busy"}

\* An operation that is under way holds its proxy.
OperationHoldsProxy ==
  "holder" \in open =>
    \A o \in Unsettled \ cut : /\ target[o] \in Ids /\ Reachable(target[o])
                               /\ o \in through[target[o]]

\* The writes made before an operation: it waits for those that are pending, and
\* when it is made none is.
EarlierIsWaitedFor ==
  /\ \A g \in Ids : \A o \in through[g] : caller[o] # "new"
  /\ \A o \in Operations : \A w \in earlier[o] : caller[w] # "new"
  /\ \A o \in Calls : \A w \in earlier[o] :
       caller[w] = "pending" => caller[o] = "waiting" /\ w \in waitsFor[o]

OperationInv == OperationsAreMade /\ ResultIsKept /\ FlightIsPending /\ EarlierIsWaitedFor

OperationFacts ==
  OperationTypes /\ OperationInv /\ OperationHoldsProxy /\ OperationFindsItsObject

\* The leases as long as the owner holds the channel, the operations always.
ExposureInv ==
  /\ HandleTypes /\ OperationFacts
  /\ "owner" \in open => HandleInv
  /\ BothOpen => Kept

-----------------------------------------------------------------------------
(* Lease numbers.                                                          *)

LEMMA LargestExists ==
  ASSUME NEW S, S \subseteq Nat, S # {}, NEW b \in Nat, \A x \in S : x <= b
  PROVE  \E x \in S : \A y \in S : x >= y
<1> DEFINE T == {n \in Nat : \E x \in S : n = b - x}
<1>1. T # {} /\ T \subseteq Nat
  <2>1. PICK x \in S : TRUE
    OBVIOUS
  <2>2. b - x \in T
    BY <2>1
  <2>3. QED
    BY <2>2
<1>2. PICK m \in T : \A n \in T : ~(<<n, m>> \in OpToRel(<, Nat))
  BY <1>1, NatLessThanWellFounded, WFMin
<1>3. \A n \in T : ~(n < m)
  BY <1>1, <1>2, Zenon DEF OpToRel
<1>4. PICK x \in S : m = b - x
  OBVIOUS
<1>5. ASSUME NEW y \in S PROVE x >= y
  <2>1. b - y \in T
    BY <1>5
  <2>2. ~(b - y < b - x)
    BY <1>3, <1>4, <2>1
  <2>3. QED
    BY <2>2
<1>6. QED
  BY <1>5

\* Max of a bounded set of numbers.
LEMMA MaxIsLargest ==
  ASSUME NEW S, S \subseteq Nat, S # {}, NEW b \in Nat, \A x \in S : x <= b
  PROVE  Max(S) \in S /\ \A x \in S : x <= Max(S)
BY LargestExists DEF Max

LEMMA MaxOfTwo ==
  ASSUME NEW a \in Nat, NEW b \in Nat
  PROVE  Max({a, b}) = IF a >= b THEN a ELSE b
<1>1. CASE a >= b
  BY <1>1, MaxIsLargest
<1>2. CASE ~(a >= b)
  BY <1>2, MaxIsLargest
<1>3. QED
  BY <1>1, <1>2

\* What is left when a send gives its lease back.
LEMMA CurrentWithoutIsHighest ==
  ASSUME HandleTypes, LeaseIsHighest, NEW s \in Sends
  PROVE  /\ CurrentWithout(s) \in Nat /\ CurrentWithout(s) <= leases.current
         /\ leases.committed <= CurrentWithout(s)
         /\ \A t \in Sends \ {s} : leases.pending[t] <= CurrentWithout(s)
         /\ \/ CurrentWithout(s) = leases.committed
            \/ \E t \in Sends \ {s} : leases.pending[t] = CurrentWithout(s)
<1> DEFINE S == {leases.committed} \cup {leases.pending[t] : t \in Sends \ {s}}
<1>1. S \subseteq Nat /\ leases.current \in Nat /\ \A x \in S : x <= leases.current
  BY DEF HandleTypes, LeaseIsHighest, LeaseState
<1>2. Max(S) \in S /\ \A x \in S : x <= Max(S)
  BY <1>1, MaxIsLargest
<1>3. QED
  BY <1>1, <1>2 DEF CurrentWithout

-----------------------------------------------------------------------------
(* What a step of the owner does to the leases.                            *)

\* No send carries a lease of the registered id that is higher than the current one.
LEMMA CarriedIsKnown ==
  ASSUME HandleTypes, HandleInv, NEW s \in Sends, Carries(s), marker[s].id = registry
  PROVE  marker[s].lease <= leases.current
<1>1. /\ marker[s].lease \in Nat /\ leases.committed \in Nat /\ leases.current \in Nat
  BY DEF HandleTypes, Mark, LeaseState
<1>2. CASE stage[s] = "prepared"
  BY <1>2 DEF HandleInv, LeaseIsHighest, LeasesKnowSends
<1>3. CASE stage[s] # "prepared"
  BY <1>1, <1>3 DEF HandleInv, LeaseIsHighest, LeasesKnowSends, Carries
<1>4. QED
  BY <1>2, <1>3

LEMMA PrepareFields ==
  ASSUME HandleTypes, HandleInv, NEW s \in Sends, Prepare(s)
  PROVE  /\ HandleTypes'
         /\ registry' = IF registry = 0 THEN ids + 1 ELSE registry
         /\ ids' = IF registry = 0 THEN ids + 1 ELSE ids
         /\ leases'.current = leases.current + 1
         /\ leases'.committed = leases.committed
         /\ leases'.pendingRelease = leases.pendingRelease
         /\ \A t \in Sends : leases'.pending[t] = IF t = s THEN leases.current + 1
                                                  ELSE leases.pending[t]
         /\ marker'[s].id = registry' /\ marker'[s].lease = leases'.current
<1>1. /\ registry' = IF registry = 0 THEN ids + 1 ELSE registry
      /\ ids' = IF registry = 0 THEN ids + 1 ELSE ids
      /\ leases' = [leases EXCEPT !.current = @ + 1, !.pending[s] = leases.current + 1]
      /\ marker' = [marker EXCEPT ![s] = [id |-> registry', lease |-> leases.current + 1]]
      /\ stage' = [stage EXCEPT ![s] = "prepared"]
      /\ UNCHANGED <<proxies, releases, overtaken, lost>>
      /\ registry = 0 => ids < MaxId
  BY DEF Prepare
<1>2. leases \in LeaseState /\ leases.current + 1 \in Nat /\ leases.pending \in [Sends -> Nat]
  BY DEF HandleTypes, LeaseState
<1>3. /\ leases' \in LeaseState
      /\ leases'.current = leases.current + 1 /\ leases'.committed = leases.committed
      /\ leases'.pendingRelease = leases.pendingRelease
      /\ leases'.pending = [leases.pending EXCEPT ![s] = leases.current + 1]
  <2>1. [leases.pending EXCEPT ![s] = leases.current + 1] \in [Sends -> Nat]
    BY <1>2
  <2>2. leases' = [[leases EXCEPT !.current = leases.current + 1]
                     EXCEPT !.pending = [leases.pending EXCEPT ![s] = leases.current + 1]]
    BY <1>1, <1>2 DEF LeaseState
  <2>3. QED
    BY <1>2, <2>1, <2>2 DEF LeaseState
<1>4. ids' \in 0 .. MaxId /\ registry' \in 0 .. MaxId
  BY <1>1, HandleLeasesAssumption DEF HandleTypes
<1>5. marker'[s] = [id |-> registry', lease |-> leases.current + 1]
  BY <1>1 DEF HandleTypes
<1>6. marker' \in [Sends -> Mark]
  BY <1>1, <1>2, <1>4 DEF HandleTypes, Mark
<1>7. HandleTypes'
  BY <1>1, <1>3, <1>4, <1>6 DEF HandleTypes
<1>8. QED
  BY <1>1, <1>2, <1>3, <1>5, <1>7

LEMMA PrepareStep ==
  ASSUME HandleTypes, HandleInv, NEW s \in Sends, Prepare(s)
  PROVE  HandleTypes' /\ HandleInv' /\ (Kept => Kept')
<1>1. /\ HandleTypes'
      /\ registry' = IF registry = 0 THEN ids + 1 ELSE registry
      /\ ids' = IF registry = 0 THEN ids + 1 ELSE ids
      /\ leases'.current = leases.current + 1
      /\ leases'.committed = leases.committed
      /\ leases'.pendingRelease = leases.pendingRelease
      /\ \A t \in Sends : leases'.pending[t] = IF t = s THEN leases.current + 1 ELSE leases.pending[t]
      /\ marker'[s].id = registry' /\ marker'[s].lease = leases'.current
  BY PrepareFields
<1>2. /\ stage[s] = "new" /\ stage'[s] = "prepared"
      /\ \A t \in Sends \ {s} : stage'[t] = stage[t] /\ marker'[t] = marker[t]
      /\ UNCHANGED <<proxies, releases, overtaken, lost>>
  BY DEF Prepare, HandleTypes
<1>3. /\ ids \in Nat /\ registry \in Nat /\ leases.current \in Nat /\ leases.committed \in Nat
      /\ \A t \in Sends : leases.pending[t] \in Nat /\ marker[t].lease \in Nat /\ marker[t].id \in Nat
  BY DEF HandleTypes, LeaseState, Mark
<1>4. /\ \A t \in Sends : Carries(t) => marker[t].id \in 1 .. ids /\ marker[t].lease > 0
      /\ registry <= ids
      /\ registry = 0 => leases.current = 0 /\ leases.committed = 0 /\ leases.pendingRelease = 0
  BY DEF HandleInv, MarkersDiffer, LeaseIsHighest, NoLeases
<1>5. \A t \in Sends : Carries(t) /\ marker[t].id = registry' => marker[t].lease <= leases.current
  BY <1>1, <1>3, <1>4, CarriedIsKnown
<1>6. MarkersDiffer'
  <2>1. \A t \in Sends : Carries(t)' => t = s \/ Carries(t)
    BY <1>2 DEF Carries
  <2>2. registry' \in 1 .. ids' /\ ids <= ids'
    BY <1>1, <1>3, <1>4
  <2>3. \A t \in Sends : Carries(t)' => marker'[t].id \in 1 .. ids' /\ marker'[t].lease > 0
    BY <1>1, <1>2, <1>3, <1>4, <2>1, <2>2
  <2>4. ASSUME NEW t \in Sends, NEW u \in Sends, Carries(t)', Carries(u)', t # u,
               marker'[t].id = marker'[u].id
        PROVE  marker'[t].lease # marker'[u].lease
    BY <1>1, <1>2, <1>3, <1>5, <2>1, <2>4 DEF HandleInv, MarkersDiffer
  <2>5. QED
    BY <2>3, <2>4 DEF MarkersDiffer
<1>7. LeaseIsHighest'
  BY <1>1, <1>3, <1>4 DEF HandleInv, LeaseIsHighest
<1>8. ProvisionalIsPending' /\ LeasesKnowSends'
  <2>1. LeasesKnowSends'
    BY <1>1, <1>2, <1>3, <1>4 DEF HandleInv, LeasesKnowSends, Carries
  <2>2. provisional' = IF registry = 0 \/ provisional # {} THEN provisional \cup {s} ELSE {}
    BY DEF Prepare
  <2>3. registry # 0 => leases.committed > 0 \/ \E t \in Sends : leases.pending[t] > 0
    BY DEF HandleInv, LeaseIsHighest
  <2>4. provisional = IF leases.committed > 0 THEN {} ELSE {t \in Sends : leases.pending[t] > 0}
    BY DEF HandleInv, ProvisionalIsPending
  <2>5. CASE leases.committed > 0
    <3>1. provisional' = {} /\ leases'.committed > 0
      BY <1>1, <1>3, <1>4, <2>2, <2>4, <2>5
    <3>2. QED
      BY <2>1, <3>1 DEF ProvisionalIsPending
  <2>6. CASE ~(leases.committed > 0)
    <3>1. provisional' = provisional \cup {s} /\ ~(leases'.committed > 0)
      BY <1>1, <1>3, <1>4, <2>2, <2>3, <2>4, <2>6
    <3>2. \A t \in Sends : leases'.pending[t] > 0 <=> t = s \/ leases.pending[t] > 0
      BY <1>1, <1>3
    <3>3. provisional' = {t \in Sends : leases'.pending[t] > 0}
      BY <2>4, <2>6, <3>1, <3>2
    <3>4. QED
      BY <2>1, <3>1, <3>3 DEF ProvisionalIsPending
  <2>7. QED
    BY <2>5, <2>6
<1>9. \A g, l : WasReceived(g, l)' <=> WasReceived(g, l)
  BY <1>2 DEF WasReceived
<1>10. LeasesAreReceived'
  BY <1>1, <1>2, <1>3, <1>4, <1>9 DEF HandleInv, LeasesAreReceived
<1>11. ProxyIsLatest'
  BY <1>1, <1>2, <1>3, <1>4 DEF HandleInv, ProxyIsLatest, Ids
<1>12. GoneIsOvertaken'
  <2> SUFFICES ASSUME NEW t \in Sends, stage'[t] \in {"prepared", "wire"}, marker'[t].id # registry'
               PROVE  \E u \in Sends : stage'[u] = "received" /\ Later(t, u)'
    BY DEF GoneIsOvertaken
  <2>1. t # s /\ stage[t] \in {"prepared", "wire"} /\ marker[t].id # registry
    BY <1>1, <1>2, <1>4 DEF Carries
  <2>2. PICK u \in Sends : stage[u] = "received" /\ Later(t, u)
    BY <2>1 DEF HandleInv, GoneIsOvertaken
  <2>3. QED
    BY <1>2, <2>1, <2>2 DEF Later
<1>13. Kept => Kept'
  <2> SUFFICES ASSUME Kept PROVE Kept'
    OBVIOUS
  <2>1. CASE registry = 0
    <3>1. ~WasReceived(registry', leases'.committed)
      BY <1>1, <1>3, <1>4, <2>1 DEF WasReceived, Carries
    <3>2. leases'.committed = 0
      BY <1>1, <1>4, <2>1
    <3>3. QED
      BY <1>9, <3>1, <3>2 DEF Kept, CommittedIsKnown, KeptForSomebody
  <2>2. CASE registry # 0
    <3>1. OnWire(registry, leases.committed) => OnWire(registry, leases.committed)'
      BY <1>1, <1>2, <2>2 DEF OnWire
    <3>2. CommittedIsKnown'
      BY <1>1, <1>2, <1>9, <2>2, <3>1 DEF Kept, CommittedIsKnown
    <3>3. KeptForSomebody'
      BY <1>1, <1>2, <1>3, <1>9, <2>2 DEF Kept, KeptForSomebody
    <3>4. QED
      BY <3>2, <3>3 DEF Kept
  <2>3. QED
    BY <2>1, <2>2
<1>14. QED
  BY <1>1, <1>6, <1>7, <1>8, <1>10, <1>11, <1>12, <1>13 DEF HandleInv

\* A proxy is of a committed lease.
LEMMA ProxyIsCommitted ==
  ASSUME HandleTypes, HandleInv, NEW g \in Ids \ overtaken, proxies[g].state # "none"
  PROVE  /\ registry = g /\ registry # 0 /\ leases.committed > 0
         /\ proxies[g].lease \in Nat /\ proxies[g].lease <= leases.committed
<1>1. PICK s \in Sends : /\ stage[s] = "received" /\ marker[s].id = g
                         /\ marker[s].lease = proxies[g].lease
  BY DEF HandleInv, LeasesAreReceived, WasReceived
<1>2. registry = g /\ proxies[g].lease > 0
  BY <1>1 DEF HandleInv, ProxyIsLatest, MarkersDiffer, Carries
<1>3. proxies[g].lease <= leases.committed
  BY <1>1, <1>2 DEF HandleInv, LeasesKnowSends
<1>4. proxies[g].lease \in Nat /\ g # 0
  BY DEF HandleTypes, Ids
<1>5. leases.committed \in Nat
  BY DEF HandleTypes, LeaseState
<1>6. QED
  BY <1>2, <1>3, <1>4, <1>5 DEF HandleInv, LeaseIsHighest

\* The object is not registered any more; nobody can reach it, and a send of it
\* that comes yet is overtaken.
LEMMA RemovedStep ==
  ASSUME HandleTypes, HandleInv,
         Forget, releases' \subseteq releases,
         UNCHANGED <<ids, marker, proxies, overtaken, lost>>,
         stage' \in [Sends -> {"new", "prepared", "wire", "received", "over"}],
         \A t \in Sends : stage'[t] # stage[t] => stage[t] = "prepared" /\ stage'[t] = "over",
         \A g \in Ids \ overtaken : proxies[g].state # "none" => registry # g,
         \A t \in Sends : stage'[t] \in {"prepared", "wire"} /\ marker[t].id = registry =>
           \E u \in Sends : stage[u] = "received" /\ Later(t, u)
  PROVE  HandleTypes' /\ HandleInv' /\ Kept'
<1>1. /\ registry' = 0 /\ provisional' = {} /\ leases' = NoLeases /\ NoLeases \in LeaseState
      /\ NoLeases.current = 0 /\ NoLeases.committed = 0 /\ NoLeases.pendingRelease = 0
      /\ \A t \in Sends : NoLeases.pending[t] = 0
  BY DEF Forget, NoLeases, LeaseState
<1>2. HandleTypes'
  BY <1>1, HandleLeasesAssumption DEF HandleTypes
<1>3. \A t \in Sends : Carries(t)' => Carries(t) /\ stage'[t] = stage[t]
  BY DEF Carries
<1>4. \A t \in Sends : Carries(t) => marker[t].id \in Nat \ {0}
  BY DEF HandleInv, MarkersDiffer, HandleTypes
<1>5. MarkersDiffer'
  BY <1>3 DEF HandleInv, MarkersDiffer
<1>6. LeaseIsHighest'
  BY <1>1 DEF LeaseIsHighest, HandleTypes
<1>7. ProvisionalIsPending' /\ LeasesKnowSends'
  BY <1>1, <1>3, <1>4 DEF ProvisionalIsPending, LeasesKnowSends, Carries
<1>8. \A g, l : WasReceived(g, l)' <=> WasReceived(g, l)
  BY DEF WasReceived
<1>9. LeasesAreReceived'
  BY <1>1, <1>8 DEF HandleInv, LeasesAreReceived
<1>10. ProxyIsLatest'
  BY DEF HandleInv, ProxyIsLatest
<1>11. GoneIsOvertaken'
  <2> SUFFICES ASSUME NEW t \in Sends, stage'[t] \in {"prepared", "wire"}
               PROVE  \E u \in Sends : stage'[u] = "received" /\ Later(t, u)'
    BY DEF GoneIsOvertaken
  <2>1. PICK u \in Sends : stage[u] = "received" /\ Later(t, u)
    BY DEF HandleInv, GoneIsOvertaken
  <2>2. QED
    BY <2>1 DEF Later
<1>12. Kept'
  <2>1. ~WasReceived(0, 0)
    BY <1>4 DEF WasReceived, Carries
  <2>2. QED
    BY <1>1, <1>8, <2>1 DEF Kept, CommittedIsKnown, KeptForSomebody
<1>13. QED
  BY <1>2, <1>5, <1>6, <1>7, <1>9, <1>10, <1>11, <1>12 DEF HandleInv

\* A send is committed.
LEMMA PutOnWireStep ==
  ASSUME HandleTypes, HandleInv, NEW s \in Sends, PutOnWire(s)
  PROVE  HandleTypes' /\ HandleInv' /\ (Kept => Kept')
<1> DEFINE p == leases.pending[s]
           mine == registry = marker[s].id
<1>1. /\ stage[s] = "prepared" /\ stage'[s] = "wire" /\ Commit(s)
      /\ stage' \in [Sends -> {"new", "prepared", "wire", "received", "over"}]
      /\ \A t \in Sends \ {s} : stage'[t] = stage[t]
      /\ UNCHANGED <<ids, marker, proxies, releases, overtaken, lost>>
  BY DEF PutOnWire, HandleTypes
<1>2. /\ ids \in Nat /\ registry \in Nat /\ leases.current \in Nat /\ leases.committed \in Nat
      /\ \A t \in Sends : leases.pending[t] \in Nat /\ marker[t].lease \in Nat /\ marker[t].id \in Nat
  BY DEF HandleTypes, LeaseState, Mark
<1>3. mine => p = marker[s].lease /\ p > 0 /\ p <= leases.current
  BY <1>1, <1>2 DEF HandleInv, LeasesKnowSends, MarkersDiffer, Carries, LeaseIsHighest
<1>4. /\ leases' \in LeaseState /\ registry' = registry /\ leases'.current = leases.current
      /\ leases'.pendingRelease = leases.pendingRelease
      /\ provisional' = IF mine /\ s \in provisional THEN {} ELSE provisional
      /\ leases'.committed = IF mine /\ p > leases.committed THEN p ELSE leases.committed
      /\ \A t \in Sends : leases'.pending[t] = IF mine /\ t = s THEN 0 ELSE leases.pending[t]
  <2>1. CASE mine
    <3>1. leases' = [leases EXCEPT !.pending[s] = 0, !.committed = Max({leases.committed, p})]
      BY <1>1, <1>3, <2>1 DEF Commit
    <3>2. Max({leases.committed, p}) = IF p > leases.committed THEN p ELSE leases.committed
      BY <1>2, MaxOfTwo
    <3>3. [leases.pending EXCEPT ![s] = 0] \in [Sends -> Nat] /\ leases \in LeaseState
      BY DEF HandleTypes, LeaseState
    <3>4. QED
      BY <1>1, <1>2, <2>1, <3>1, <3>2, <3>3 DEF LeaseState, Commit
  <2>2. CASE ~mine
    BY <1>1, <2>2 DEF Commit, HandleTypes
  <2>3. QED
    BY <2>1, <2>2
<1> HIDE DEF p, mine
<1>5. HandleTypes'
  BY <1>1, <1>4 DEF HandleTypes
<1>6. \A t \in Sends : Carries(t)' <=> Carries(t)
  BY <1>1 DEF Carries
<1>7. MarkersDiffer'
  BY <1>1, <1>6 DEF HandleInv, MarkersDiffer
<1>8. LeaseIsHighest'
  <2>1. CASE mine
    <3>1. \/ leases.current = leases.committed \/ leases.current = p
          \/ \E t \in Sends \ {s} : leases.pending[t] = leases.current
      BY DEF HandleInv, LeaseIsHighest, p
    <3>2. registry # 0
      BY <1>1, <2>1 DEF HandleInv, MarkersDiffer, Carries, mine
    <3>3. QED
      BY <1>1, <1>2, <1>3, <1>4, <2>1, <3>1, <3>2 DEF HandleInv, LeaseIsHighest
  <2>2. CASE ~mine
    <3>1. registry' = registry /\ leases' = leases
      BY <1>1, <2>2 DEF Commit, mine
    <3>2. QED
      BY <1>1, <3>1 DEF HandleInv, LeaseIsHighest
  <2>3. QED
    BY <2>1, <2>2
<1>9. ProvisionalIsPending' /\ LeasesKnowSends'
  <2>1. LeasesKnowSends'
    BY <1>1, <1>2, <1>3, <1>4 DEF HandleInv, LeasesKnowSends, mine
  <2>2. provisional = IF leases.committed > 0 THEN {} ELSE {t \in Sends : leases.pending[t] > 0}
    BY DEF HandleInv, ProvisionalIsPending
  <2>3. mine => leases'.committed > 0 /\ (s \in provisional \/ leases.committed > 0)
    BY <1>2, <1>3, <1>4, <2>2 DEF p
  <2>4. ProvisionalIsPending'
    BY <1>2, <1>4, <2>2, <2>3 DEF ProvisionalIsPending
  <2>5. QED
    BY <2>1, <2>4
<1>10. \A g, l : WasReceived(g, l)' <=> WasReceived(g, l)
  BY <1>1 DEF WasReceived
<1>11. LeasesAreReceived' /\ ProxyIsLatest'
  BY <1>1, <1>4, <1>10 DEF HandleInv, LeasesAreReceived, ProxyIsLatest
<1>12. GoneIsOvertaken'
  <2> SUFFICES ASSUME NEW t \in Sends, stage'[t] \in {"prepared", "wire"}, marker[t].id # registry
               PROVE  \E u \in Sends : stage'[u] = "received" /\ Later(t, u)'
    BY <1>1, <1>4 DEF GoneIsOvertaken
  <2>1. PICK u \in Sends : stage[u] = "received" /\ Later(t, u)
    BY <1>1 DEF HandleInv, GoneIsOvertaken
  <2>2. QED
    BY <1>1, <2>1 DEF Later
<1>13. ASSUME Kept PROVE Kept'
  <2>1. CASE mine /\ p >= leases.committed
    <3>1. leases'.committed = marker[s].lease /\ registry' = marker[s].id
      BY <1>2, <1>3, <1>4, <2>1 DEF mine, p
    <3>2. OnWire(registry, leases.committed)'
      BY <1>1, <3>1 DEF OnWire
    <3>3. ~WasReceived(registry', leases'.committed)
      BY <1>1, <3>1 DEF WasReceived, HandleInv, MarkersDiffer, Carries
    <3>4. QED
      BY <1>10, <3>2, <3>3 DEF Kept, CommittedIsKnown, KeptForSomebody
  <2>2. CASE ~(mine /\ p >= leases.committed)
    <3>1. leases'.committed = leases.committed
      BY <1>2, <1>3, <1>4, <2>2 DEF p
    <3>2. OnWire(registry, leases.committed) => OnWire(registry, leases.committed)'
      BY <1>1, <1>4, <3>1 DEF OnWire
    <3>3. QED
      BY <1>1, <1>4, <1>10, <1>13, <3>1, <3>2 DEF Kept, CommittedIsKnown, KeptForSomebody
  <2>3. QED
    BY <2>1, <2>2
<1>14. QED
  BY <1>5, <1>7, <1>8, <1>9, <1>11, <1>12, <1>13 DEF HandleInv

\* A send that was never put on the wire gives its lease back.
LEMMA RollbackStep ==
  ASSUME HandleTypes, HandleInv, NEW s \in Sends, Rollback(s)
  PROVE  HandleTypes' /\ HandleInv' /\ (Kept => Kept')
<1> DEFINE w == CurrentWithout(s)
           last == provisional = {s}
           waited == w > 0 /\ leases.pendingRelease >= w
<1>1. /\ stage[s] = "prepared" /\ stage'[s] = "over" /\ Undo(s)
      /\ stage' \in [Sends -> {"new", "prepared", "wire", "received", "over"}]
      /\ \A t \in Sends \ {s} : stage'[t] = stage[t]
      /\ UNCHANGED <<ids, marker, proxies, releases, overtaken, lost>>
  BY DEF Rollback, HandleTypes
<1>2. /\ ids \in Nat /\ registry \in Nat /\ leases.current \in Nat /\ leases.committed \in Nat
      /\ leases.pendingRelease \in Nat
      /\ \A t \in Sends : leases.pending[t] \in Nat /\ marker[t].lease \in Nat /\ marker[t].id \in Nat
  BY DEF HandleTypes, LeaseState, Mark
<1>3. /\ w \in Nat /\ w <= leases.current /\ leases.committed <= w
      /\ \A t \in Sends \ {s} : leases.pending[t] <= w
      /\ w = leases.committed \/ \E t \in Sends \ {s} : leases.pending[t] = w
  BY CurrentWithoutIsHighest DEF HandleInv
<1>4. marker[s].id # 0
  BY <1>1, <1>2 DEF HandleInv, MarkersDiffer, Carries
<1>5. CASE registry = marker[s].id /\ (last \/ waited)
  <2>1. Forget
    BY <1>1, <1>5 DEF Undo, ReleaseWaited
  <2>2. ASSUME NEW g \in Ids \ overtaken, proxies[g].state # "none"
        PROVE  registry # g
    <3> SUFFICES ASSUME registry = g PROVE FALSE
      OBVIOUS
    <3>1. /\ leases.committed > 0 /\ proxies[g].lease \in Nat
          /\ proxies[g].lease <= leases.committed /\ leases.pendingRelease < proxies[g].lease
      BY <2>2, ProxyIsCommitted DEF HandleInv, ProxyIsLatest
    <3>2. ~last
      BY <1>2, <3>1 DEF HandleInv, ProvisionalIsPending
    <3>3. leases.pendingRelease < w
      BY <1>2, <1>3, <3>1
    <3>4. QED
      BY <1>2, <1>3, <1>5, <3>1, <3>2, <3>3
  <2>3. ASSUME NEW t \in Sends, stage'[t] \in {"prepared", "wire"}, marker[t].id = registry
        PROVE  \E u \in Sends : stage[u] = "received" /\ Later(t, u)
    <3>1. t # s /\ stage[t] \in {"prepared", "wire"} /\ Carries(t) /\ marker[t].lease > 0
      BY <1>1, <2>3 DEF Carries, HandleInv, MarkersDiffer
    <3>2. \/ stage[t] = "prepared" /\ leases.pending[t] = marker[t].lease
          \/ marker[t].lease <= leases.committed
      BY <2>3, <3>1 DEF HandleInv, LeasesKnowSends
    <3>3. marker[t].lease <= w
      BY <1>2, <1>3, <3>1, <3>2
    <3>4. ~last
      BY <1>2, <3>1, <3>2 DEF HandleInv, ProvisionalIsPending
    <3>5. marker[t].lease <= leases.pendingRelease /\ leases.pendingRelease > 0
      BY <1>2, <1>3, <1>5, <3>1, <3>3, <3>4
    <3>6. PICK u \in Sends : /\ stage[u] = "received" /\ marker[u].id = registry
                             /\ marker[u].lease = leases.pendingRelease
      BY <3>5 DEF HandleInv, LeasesAreReceived, WasReceived
    <3>7. marker[t].lease # marker[u].lease
      BY <2>3, <3>1, <3>6 DEF HandleInv, MarkersDiffer, Carries
    <3>8. QED
      BY <1>2, <2>3, <3>5, <3>6, <3>7 DEF Later
  <2>4. QED
    BY <1>1, <2>1, <2>2, <2>3, RemovedStep
<1>6. CASE ~(registry = marker[s].id /\ (last \/ waited))
  <2> DEFINE mine == registry = marker[s].id
  <2>1. /\ leases' \in LeaseState /\ registry' = registry
        /\ provisional' = (IF mine THEN provisional \ {s} ELSE provisional)
        /\ leases'.current = IF mine THEN w ELSE leases.current
        /\ leases'.pendingRelease = leases.pendingRelease
        /\ leases'.committed = leases.committed
        /\ \A t \in Sends : leases'.pending[t] = IF mine /\ t = s THEN 0 ELSE leases.pending[t]
    <3>1. CASE mine
      <4>1. /\ leases' = [leases EXCEPT !.pending[s] = 0, !.current = w]
            /\ provisional' = provisional \ {s} /\ registry' = registry
        BY <1>1, <1>6, <3>1 DEF Undo, ReleaseWaited
      <4>2. [leases.pending EXCEPT ![s] = 0] \in [Sends -> Nat] /\ leases \in LeaseState
        BY DEF HandleTypes, LeaseState
      <4> HIDE DEF w
      <4>3. QED
        BY <1>3, <3>1, <4>1, <4>2 DEF LeaseState
    <3>2. CASE ~mine
      BY <1>1, <3>2 DEF Undo, HandleTypes, tables
    <3>3. QED
      BY <3>1, <3>2
  <2>2. HandleTypes'
    BY <1>1, <2>1 DEF HandleTypes
  <2>3. \A t \in Sends : Carries(t)' <=> Carries(t) /\ t # s
    BY <1>1 DEF Carries
  <2>4. MarkersDiffer'
    BY <1>1, <2>3 DEF HandleInv, MarkersDiffer
  <2>5. mine => w > 0
    <3> SUFFICES ASSUME mine, w = 0 PROVE last
      BY <1>3, <1>6
    <3>1. leases.committed = 0 /\ \A t \in Sends \ {s} : leases.pending[t] = 0
      BY <1>2, <1>3
    <3>2. leases.pending[s] > 0
      BY <1>1, <1>2 DEF HandleInv, LeasesKnowSends, MarkersDiffer, Carries
    <3>3. QED
      BY <3>1, <3>2 DEF HandleInv, ProvisionalIsPending
  <2>6. LeaseIsHighest'
    <3>1. CASE mine
      BY <1>1, <1>2, <1>3, <1>4, <2>1, <2>5, <3>1 DEF HandleInv, LeaseIsHighest
    <3>2. CASE ~mine
      <4>1. registry' = registry /\ leases' = leases
        BY <1>1, <3>2 DEF Undo, tables
      <4>2. QED
        BY <1>1, <4>1 DEF HandleInv, LeaseIsHighest
    <3>3. QED
      BY <3>1, <3>2
  <2>7. ProvisionalIsPending' /\ LeasesKnowSends'
    <3>1. LeasesKnowSends'
      BY <1>1, <1>2, <2>1 DEF HandleInv, LeasesKnowSends
    <3>2. provisional = IF leases.committed > 0 THEN {}
                        ELSE {t \in Sends : leases.pending[t] > 0}
      BY DEF HandleInv, ProvisionalIsPending
    <3>3. leases'.committed = leases.committed
      BY <2>1
    <3>4. CASE ~mine
      <4>1. provisional' = provisional /\ \A t \in Sends : leases'.pending[t] = leases.pending[t]
        BY <2>1, <3>4
      <4>2. {t \in Sends : leases'.pending[t] > 0} = {t \in Sends : leases.pending[t] > 0}
        BY <4>1
      <4>3. ProvisionalIsPending'
        BY <3>2, <3>3, <4>1, <4>2 DEF ProvisionalIsPending
      <4>4. QED
        BY <3>1, <4>3
    <3>5. CASE mine
      <4>1. provisional' = provisional \ {s}
        BY <2>1, <3>5
      <4>2. \A t \in Sends : leases'.pending[t] > 0 <=> t # s /\ leases.pending[t] > 0
        BY <1>2, <2>1, <3>5
      <4>3. {t \in Sends : leases'.pending[t] > 0} = {t \in Sends : leases.pending[t] > 0} \ {s}
        BY <4>2
      <4>4. ProvisionalIsPending'
        BY <3>2, <3>3, <4>1, <4>3 DEF ProvisionalIsPending
      <4>5. QED
        BY <3>1, <4>4
    <3>6. QED
      BY <3>4, <3>5
  <2>8. \A g, l : WasReceived(g, l)' <=> WasReceived(g, l)
    BY <1>1 DEF WasReceived
  <2>9. LeasesAreReceived' /\ ProxyIsLatest'
    BY <1>1, <2>1, <2>8 DEF HandleInv, LeasesAreReceived, ProxyIsLatest
  <2>10. GoneIsOvertaken'
    <3> SUFFICES ASSUME NEW t \in Sends, stage'[t] \in {"prepared", "wire"}, marker[t].id # registry
                 PROVE  \E u \in Sends : stage'[u] = "received" /\ Later(t, u)'
      BY <1>1, <2>1 DEF GoneIsOvertaken
    <3>1. PICK u \in Sends : stage[u] = "received" /\ Later(t, u)
      BY <1>1 DEF HandleInv, GoneIsOvertaken
    <3>2. QED
      BY <1>1, <3>1 DEF Later
  <2>11. ASSUME Kept PROVE Kept'
    <3>1. OnWire(registry, leases.committed) => OnWire(registry, leases.committed)'
      BY <1>1, <2>1 DEF OnWire
    <3>2. CommittedIsKnown'
      BY <1>1, <2>1, <2>8, <2>11, <3>1 DEF Kept, CommittedIsKnown
    <3>3. WasReceived(registry, leases.committed) => leases.committed > 0
      BY DEF WasReceived, HandleInv, MarkersDiffer, Carries
    <3>4. mine /\ leases.pendingRelease >= leases.committed /\ leases.committed > 0 =>
            w > leases.committed
      BY <1>2, <1>3, <1>6
    <3>5. KeptForSomebody'
      BY <1>1, <2>1, <2>8, <2>11, <3>3, <3>4 DEF Kept, KeptForSomebody
    <3>6. QED
      BY <3>2, <3>5 DEF Kept
  <2>12. QED
    BY <2>2, <2>4, <2>6, <2>7, <2>9, <2>10, <2>11 DEF HandleInv
<1>7. QED
  BY <1>5, <1>6

\* A release takes the object away, or waits for the newer leases.
LEMMA ReceiveReleaseStep ==
  ASSUME HandleTypes, HandleInv, NEW r \in releases, ReceiveRelease(r)
  PROVE  HandleTypes' /\ HandleInv' /\ (Kept => Kept')
<1>1. /\ releases' = releases \ {r} /\ ReleaseHandle(r)
      /\ UNCHANGED <<ids, stage, marker, proxies, overtaken, lost>>
  BY DEF ReceiveRelease
<1>2. /\ registry \in Nat /\ leases.current \in Nat /\ leases.committed \in Nat
      /\ leases.pendingRelease \in Nat /\ r.lease \in Nat /\ r.id \in Nat
      /\ \A t \in Sends : marker[t].lease \in Nat /\ marker[t].id \in Nat
  BY DEF HandleTypes, LeaseState, Mark
<1>3. PICK u \in Sends : stage[u] = "received" /\ marker[u].id = r.id /\ marker[u].lease = r.lease
  BY DEF HandleInv, LeasesAreReceived, WasReceived
<1>4. CASE r.id = registry /\ r.lease = leases.current
  <2>1. Forget
    BY <1>1, <1>2, <1>4 DEF ReleaseHandle
  <2>2. ASSUME NEW g \in Ids \ overtaken, proxies[g].state # "none"
        PROVE  registry # g
    BY <1>2, <1>4, <2>2, ProxyIsCommitted DEF HandleInv, ProxyIsLatest, LeaseIsHighest
  <2>3. ASSUME NEW t \in Sends, stage[t] \in {"prepared", "wire"}, marker[t].id = registry
        PROVE  Later(t, u)
    <3>1. Carries(t) /\ Carries(u) /\ marker[t].lease <= r.lease
      BY <1>3, <1>4, <2>3, CarriedIsKnown DEF Carries
    <3>2. marker[t].lease # marker[u].lease
      BY <1>3, <1>4, <2>3, <3>1 DEF HandleInv, MarkersDiffer
    <3>3. QED
      BY <1>2, <1>3, <1>4, <2>3, <3>1, <3>2 DEF Later
  <2>4. stage' \in [Sends -> {"new", "prepared", "wire", "received", "over"}]
    BY <1>1 DEF HandleTypes
  <2>5. QED
    BY <1>1, <1>3, <2>1, <2>2, <2>3, <2>4, RemovedStep
<1>5. CASE ~(r.id = registry /\ r.lease = leases.current)
  <2> DEFINE waits == r.id = registry /\ r.lease < leases.current
  <2>1. /\ leases' \in LeaseState /\ registry' = registry /\ provisional' = provisional
        /\ leases'.current = leases.current
        /\ leases'.committed = leases.committed
        /\ leases'.pending = leases.pending
        /\ leases'.pendingRelease = IF waits /\ r.lease > leases.pendingRelease
                                 THEN r.lease ELSE leases.pendingRelease
    <3>1. CASE waits
      <4> DEFINE m == Max({leases.pendingRelease, r.lease})
      <4>1. /\ leases' = [leases EXCEPT !.pendingRelease = m]
            /\ registry' = registry /\ provisional' = provisional
        BY <1>1, <1>2, <3>1 DEF ReleaseHandle
      <4>2. m = IF r.lease > leases.pendingRelease THEN r.lease ELSE leases.pendingRelease
        BY <1>2, MaxOfTwo
      <4>3. leases \in LeaseState
        BY DEF HandleTypes
      <4> HIDE DEF m
      <4>4. m \in Nat /\ (waits => m = IF waits /\ r.lease > leases.pendingRelease
                                       THEN r.lease ELSE leases.pendingRelease)
        BY <1>2, <4>2
      <4> HIDE DEF waits
      <4>5. QED
        BY <3>1, <4>1, <4>3, <4>4 DEF LeaseState
    <3>2. CASE ~waits
      <4>1. registry' = registry /\ provisional' = provisional /\ leases' = leases
        BY <1>1, <1>2, <1>5, <3>2 DEF ReleaseHandle, tables
      <4>2. QED
        BY <3>2, <4>1 DEF HandleTypes
    <3>3. QED
      BY <3>1, <3>2
  <2>2. HandleTypes'
    BY <1>1, <2>1 DEF HandleTypes
  <2>3. MarkersDiffer' /\ ProvisionalIsPending' /\ LeasesKnowSends' /\ GoneIsOvertaken'
    BY <1>1, <2>1 DEF HandleInv, MarkersDiffer, ProvisionalIsPending, LeasesKnowSends,
                      GoneIsOvertaken, Carries, Later
  <2>4. LeaseIsHighest'
    <3>1. CASE registry = 0
      <4>1. r.id # 0
        BY <1>2, <1>3 DEF HandleInv, MarkersDiffer, Carries
      <4>2. registry' = registry /\ leases' = leases
        BY <1>1, <3>1, <4>1 DEF ReleaseHandle, tables
      <4>3. QED
        BY <1>1, <4>2 DEF HandleInv, LeaseIsHighest
    <3>2. CASE registry # 0
      BY <1>1, <2>1, <3>2 DEF HandleInv, LeaseIsHighest
    <3>3. QED
      BY <3>1, <3>2
  <2>5. \A g, l : WasReceived(g, l)' <=> WasReceived(g, l)
    BY <1>1 DEF WasReceived
  <2>6. LeasesAreReceived'
    <3>1. WasReceived(r.id, r.lease)
      BY <1>3 DEF WasReceived
    <3>2. QED
      BY <1>1, <2>1, <2>5, <3>1 DEF HandleInv, LeasesAreReceived
  <2>7. ProxyIsLatest'
    BY <1>1, <1>2, <2>1 DEF HandleInv, ProxyIsLatest
  <2>8. ASSUME Kept PROVE Kept'
    <3>1. OnWire(registry, leases.committed) => OnWire(registry, leases.committed)'
      BY <1>1, <2>1 DEF OnWire
    <3>2. CommittedIsKnown'
      BY <1>1, <2>1, <2>5, <2>8, <3>1 DEF Kept, CommittedIsKnown
    <3>3. r.id = registry /\ r.lease = leases.committed => waits
      BY <1>2, <1>5 DEF HandleInv, LeaseIsHighest
    <3>4. KeptForSomebody'
      BY <1>1, <1>2, <2>1, <2>5, <2>8, <3>3 DEF Kept, KeptForSomebody
    <3>5. QED
      BY <3>2, <3>4 DEF Kept
  <2>9. QED
    BY <2>2, <2>3, <2>4, <2>6, <2>7, <2>8 DEF HandleInv
<1>6. QED
  BY <1>4, <1>5

-----------------------------------------------------------------------------
(* What a step of the network, or of the holder, does to the leases.       *)

LEMMA HolderTypes ==
  ASSUME HandleTypes,
         \/ HolderHears \/ NetworkLoses
         \/ \E g \in Ids : Collect(g) \/ EndProxy(g)
  PROVE  HandleTypes'
<1>1. ASSUME NEW s \in Sends, Lose(s) PROVE HandleTypes'
  BY <1>1 DEF HandleTypes, Lose, Mark, tables
<1>2. ASSUME NEW s \in Sends, Receive(s) PROVE HandleTypes'
  <2> DEFINE g == marker[s].id
             l == IF proxies[g].state = "live" THEN Max({proxies[g].lease, marker[s].lease})
                  ELSE marker[s].lease
  <2>1. g \in 0 .. MaxId /\ marker[s].lease \in Nat
    BY DEF HandleTypes, Mark
  <2>2. /\ proxies' = [proxies EXCEPT ![g] = [state |-> "live", lease |-> l]]
        /\ overtaken' \subseteq overtaken \cup {g}
        /\ stage' = [stage EXCEPT ![s] = "received"]
        /\ UNCHANGED <<ids, registry, provisional, leases, marker, releases, lost>>
    BY <1>2 DEF Receive, tables
  <2>3. CASE g \in Ids
    <3>1. proxies[g].lease \in Nat
      BY <2>3 DEF HandleTypes
    <3>2. l \in Nat
      BY <2>1, <3>1, MaxOfTwo
    <3> HIDE DEF l
    <3>3. proxies' \in [Ids -> [state : {"none", "live", "collected"}, lease : Nat]]
      BY <2>2, <3>2 DEF HandleTypes
    <3> HIDE DEF g
    <3>4. QED
      BY <2>1, <2>2, <3>3 DEF HandleTypes
  <2>4. CASE g \notin Ids
    <3>1. proxies' = proxies
      BY <2>2, <2>4 DEF HandleTypes
    <3> HIDE DEF g, l
    <3>2. QED
      BY <2>1, <2>2, <3>1 DEF HandleTypes
  <2>5. QED
    BY <2>3, <2>4
<1>3. ASSUME NEW g \in Ids, Collect(g) PROVE HandleTypes'
  BY <1>3 DEF HandleTypes, Collect, tables
<1>4. ASSUME NEW g \in Ids, EndProxy(g) PROVE HandleTypes'
  <2>1. [id |-> g, lease |-> proxies[g].lease] \in Mark
    <3>1. g \in 0 .. MaxId
      BY HandleLeasesAssumption DEF Ids
    <3>2. proxies[g].lease \in Nat
      BY DEF HandleTypes
    <3>3. QED
      BY <3>1, <3>2 DEF Mark
  <2>2. proxies' \in [Ids -> [state : {"none", "live", "collected"}, lease : Nat]]
    BY <1>4 DEF HandleTypes, EndProxy, NoProxy
  <2>3. QED
    BY <1>4, <2>1, <2>2 DEF HandleTypes, EndProxy, tables
<1>5. QED
  BY <1>1, <1>2, <1>3, <1>4 DEF HolderHears, NetworkLoses

LEMMA LoseStep ==
  ASSUME HandleTypes, HandleInv, NEW s \in Sends, Lose(s)
  PROVE  HandleInv' /\ (Kept => Kept')
<1>1. /\ stage[s] = "wire" /\ stage'[s] = "over" /\ lost' = lost \cup {marker[s].id}
      /\ \A t \in Sends \ {s} : stage'[t] = stage[t]
      /\ UNCHANGED <<ids, registry, provisional, leases, marker, proxies, releases, overtaken>>
  BY DEF Lose, HandleTypes, tables
<1>2. \A g, l : WasReceived(g, l)' <=> WasReceived(g, l)
  BY <1>1 DEF WasReceived
<1>3. MarkersDiffer' /\ LeaseIsHighest' /\ ProvisionalIsPending' /\ LeasesKnowSends'
  BY <1>1 DEF HandleInv, MarkersDiffer, LeaseIsHighest, ProvisionalIsPending, LeasesKnowSends, Carries
<1>4. LeasesAreReceived' /\ ProxyIsLatest'
  BY <1>1, <1>2 DEF HandleInv, LeasesAreReceived, ProxyIsLatest
<1>5. GoneIsOvertaken'
  <2> SUFFICES ASSUME NEW t \in Sends, stage'[t] \in {"prepared", "wire"}, marker[t].id # registry
               PROVE  \E u \in Sends : stage'[u] = "received" /\ Later(t, u)'
    BY <1>1 DEF GoneIsOvertaken
  <2>1. PICK u \in Sends : stage[u] = "received" /\ Later(t, u)
    BY <1>1 DEF HandleInv, GoneIsOvertaken
  <2>2. QED
    BY <1>1, <2>1 DEF Later
<1>6. ASSUME Kept PROVE Kept'
  <2>1. marker[s].id # registry /\ OnWire(registry, leases.committed)
          => OnWire(registry, leases.committed)'
    BY <1>1 DEF OnWire
  <2>2. QED
    BY <1>1, <1>2, <1>6, <2>1 DEF Kept, CommittedIsKnown, KeptForSomebody
<1>7. QED
  BY <1>3, <1>4, <1>5, <1>6 DEF HandleInv

\* A send is received: if no later one was, its lease is the latest.
LEMMA ReceiveStep ==
  ASSUME HandleTypes, HandleInv, NEW s \in Sends, Receive(s)
  PROVE  HandleInv' /\ (Kept => Kept')
<1> DEFINE g == marker[s].id
           l == marker[s].lease
<1>1. /\ stage[s] = "wire" /\ stage'[s] = "received"
      /\ \A t \in Sends \ {s} : stage'[t] = stage[t]
      /\ UNCHANGED <<ids, registry, provisional, leases, marker, releases, lost>>
  BY DEF Receive, HandleTypes, tables
<1>2. /\ g \in Ids /\ l \in Nat /\ l > 0
      /\ leases.pendingRelease \in Nat /\ proxies[g].lease \in Nat
      /\ \A t \in Sends : marker[t].lease \in Nat
  <2>1. g \in 1 .. ids /\ l > 0
    BY <1>1 DEF HandleInv, MarkersDiffer, Carries
  <2>2. ids \in 0 .. MaxId /\ leases.pendingRelease \in Nat /\ \A t \in Sends : marker[t].lease \in Nat
    BY DEF HandleTypes, Mark, LeaseState
  <2>3. g \in Ids
    BY <2>1, <2>2, HandleLeasesAssumption DEF Ids
  <2>4. QED
    BY <2>1, <2>2, <2>3 DEF HandleTypes
<1>3. /\ \A h \in Ids \ {g} : proxies'[h] = proxies[h]
      /\ proxies'[g].state = "live"
      /\ proxies'[g].lease = IF proxies[g].state = "live" /\ proxies[g].lease >= l
                              THEN proxies[g].lease ELSE l
      /\ overtaken \subseteq overtaken'
      /\ overtaken' \subseteq overtaken \cup {g}
      /\ g \notin overtaken' => \A t \in Sends : stage[t] = "received" => ~Later(s, t)
  <2>1. Max({proxies[g].lease, l}) = IF proxies[g].lease >= l THEN proxies[g].lease ELSE l
    BY <1>2, MaxOfTwo
  <2>2. proxies' = [proxies EXCEPT ![g] =
          [state |-> "live",
           lease |-> IF proxies[g].state = "live" THEN Max({proxies[g].lease, l}) ELSE l]]
    BY DEF Receive
  <2>3. proxies'[g] = [state |-> "live",
           lease |-> IF proxies[g].state = "live" THEN Max({proxies[g].lease, l}) ELSE l]
    BY <1>2, <2>2 DEF HandleTypes
  <2>4. \A h \in Ids \ {g} : proxies'[h] = proxies[h]
    BY <2>2 DEF HandleTypes
  <2>5. /\ overtaken \subseteq overtaken' /\ overtaken' \subseteq overtaken \cup {g}
        /\ g \notin overtaken' => \A t \in Sends : stage[t] = "received" => ~Later(s, t)
    BY DEF Receive
  <2>6. QED
    BY <2>1, <2>3, <2>4, <2>5
<1>4. Carries(s) /\ \A t \in Sends : stage[t] = "received" => Carries(t)
  BY <1>1 DEF Carries
<1> HIDE DEF g, l
<1>5. /\ \A h, m : WasReceived(h, m) => WasReceived(h, m)'
      /\ WasReceived(g, l)'
  BY <1>1 DEF WasReceived, g, l
<1>6. g \notin overtaken' => \A m \in Nat : WasReceived(g, m) => m < l
  <2> SUFFICES ASSUME g \notin overtaken', NEW m \in Nat, WasReceived(g, m) PROVE m < l
    OBVIOUS
  <2>1. PICK t \in Sends : stage[t] = "received" /\ marker[t].id = g /\ marker[t].lease = m
    BY DEF WasReceived
  <2>2. t # s /\ ~Later(s, t)
    BY <1>1, <1>3, <2>1
  <2>3. m # l
    BY <1>4, <2>1, <2>2 DEF HandleInv, MarkersDiffer, g, l
  <2>4. QED
    BY <1>2, <2>1, <2>2, <2>3 DEF Later, g, l
<1>7. MarkersDiffer' /\ LeaseIsHighest' /\ ProvisionalIsPending' /\ LeasesKnowSends'
  BY <1>1 DEF HandleInv, MarkersDiffer, LeaseIsHighest, ProvisionalIsPending, LeasesKnowSends, Carries
<1>8. LeasesAreReceived'
  <2>1. ASSUME NEW h \in Ids, proxies'[h].state # "none"
        PROVE  WasReceived(h, proxies[h].lease)'
    <3>1. CASE proxies'[h].lease = proxies[h].lease /\ proxies[h].state # "none"
      <4>1. PICK t \in Sends : /\ stage[t] = "received" /\ marker[t].id = h
                               /\ marker[t].lease = proxies[h].lease
        BY <3>1 DEF HandleInv, LeasesAreReceived, WasReceived
      <4>2. QED
        BY <1>1, <3>1, <4>1 DEF WasReceived
    <3>2. CASE h = g /\ proxies'[h].lease = l
      BY <1>1, <3>2 DEF WasReceived, g, l
    <3>3. QED
      BY <1>3, <2>1, <3>1, <3>2
  <2>2. ASSUME NEW r \in releases PROVE WasReceived(r.id, r.lease)'
    BY <1>5 DEF HandleInv, LeasesAreReceived
  <2>3. leases.pendingRelease > 0 => WasReceived(registry, leases.pendingRelease)'
    BY <1>1 DEF HandleInv, LeasesAreReceived, WasReceived
  <2>4. QED
    BY <1>1, <2>1, <2>2, <2>3 DEF LeasesAreReceived
<1>9. ProxyIsLatest'
  <2> SUFFICES ASSUME NEW h \in Ids \ overtaken', proxies'[h].state # "none"
               PROVE  /\ registry = h /\ leases.pendingRelease < proxies'[h].lease
                      /\ \A r \in releases : r.id = h => r.lease < proxies'[h].lease
                      /\ \A t \in Sends : stage'[t] = "received" /\ marker[t].id = h
                                          => marker[t].lease <= proxies'[h].lease
    BY <1>1 DEF ProxyIsLatest
  <2>1. CASE h # g
    <3>1. h \in Ids \ overtaken /\ proxies'[h] = proxies[h]
      BY <1>3, <2>1
    <3>2. QED
      BY <1>1, <2>1, <3>1 DEF HandleInv, ProxyIsLatest, g
  <2>2. CASE h = g
    <3>1. proxies'[g].lease = l
      BY <1>2, <1>3, <1>6, <2>2 DEF HandleInv, LeasesAreReceived
    <3>2. registry = g
      BY <1>1, <1>3, <2>2 DEF HandleInv, GoneIsOvertaken, g
    <3>3. leases.pendingRelease < l
      BY <1>2, <1>6, <2>2, <3>2 DEF HandleInv, LeasesAreReceived
    <3>4. \A r \in releases : r.id = g => r.lease < l
      BY <1>6, <2>2 DEF HandleInv, LeasesAreReceived, HandleTypes, Mark
    <3>5. \A t \in Sends : stage'[t] = "received" /\ marker[t].id = g => marker[t].lease <= l
      <4> SUFFICES ASSUME NEW t \in Sends, stage'[t] = "received", marker[t].id = g, t # s
                   PROVE  marker[t].lease <= l
        BY <1>2 DEF l
      <4>1. WasReceived(g, marker[t].lease)
        BY <1>1 DEF WasReceived
      <4>2. QED
        BY <1>2, <1>6, <2>2, <4>1
    <3>6. QED
      BY <2>2, <3>1, <3>2, <3>3, <3>4, <3>5
  <2>3. QED
    BY <2>1, <2>2
<1>10. GoneIsOvertaken'
  <2> SUFFICES ASSUME NEW t \in Sends, stage'[t] \in {"prepared", "wire"}, marker[t].id # registry
               PROVE  \E u \in Sends : stage'[u] = "received" /\ Later(t, u)'
    BY <1>1 DEF GoneIsOvertaken
  <2>1. PICK u \in Sends : stage[u] = "received" /\ Later(t, u)
    BY <1>1 DEF HandleInv, GoneIsOvertaken
  <2>2. QED
    BY <1>1, <2>1 DEF Later
<1>11. ASSUME Kept PROVE Kept'
  <2>1. OnWire(registry, leases.committed) \/ WasReceived(registry, leases.committed)
          => OnWire(registry, leases.committed)' \/ WasReceived(registry, leases.committed)'
    BY <1>1 DEF OnWire, WasReceived
  <2>2. CommittedIsKnown'
    BY <1>1, <1>11, <2>1 DEF Kept, CommittedIsKnown
  <2>3. KeptForSomebody'
    <3>1. CASE registry = g
      <4>1. proxies'[registry'].state # "none"
        BY <1>1, <1>3, <3>1
      <4>2. QED
        BY <4>1 DEF KeptForSomebody
    <3>2. CASE registry # g
      <4>1. WasReceived(registry, leases.committed)' => WasReceived(registry, leases.committed)
        BY <1>1, <3>2 DEF WasReceived, g
      <4>2. WasReceived(registry, leases.committed)' => registry \in Ids \ {g}
        <5>1. \A t \in Sends : stage[t] = "received" => marker[t].id \in Ids
          BY HandleLeasesAssumption DEF HandleInv, MarkersDiffer, Carries, HandleTypes, Ids
        <5>2. QED
          BY <3>2, <4>1, <5>1 DEF WasReceived
      <4>3. registry' \notin overtaken' \cup lost' => registry \notin overtaken \cup lost
        BY <1>1, <1>3
      <4>4. registry \in Ids \ {g} => proxies'[registry'] = proxies[registry]
        BY <1>1, <1>3
      <4>5. QED
        BY <1>1, <1>11, <4>1, <4>2, <4>3, <4>4 DEF Kept, KeptForSomebody
    <3>3. QED
      BY <3>1, <3>2
  <2>4. QED
    BY <2>2, <2>3 DEF Kept
<1>12. QED
  BY <1>7, <1>8, <1>9, <1>10, <1>11 DEF HandleInv

LEMMA CollectStep ==
  ASSUME HandleTypes, HandleInv, NEW g \in Ids, Collect(g)
  PROVE  HandleInv' /\ (Kept => Kept')
<1>1. /\ UNCHANGED <<ids, registry, provisional, leases, stage, marker, releases, overtaken, lost>>
      /\ \A h \in Ids : proxies'[h].lease = proxies[h].lease
      /\ \A h \in Ids : proxies'[h].state # "none" <=> proxies[h].state # "none"
  BY DEF Collect, Reachable, HandleTypes, tables
<1>2. \A h, l : WasReceived(h, l)' <=> WasReceived(h, l)
  BY <1>1 DEF WasReceived
<1>3. /\ MarkersDiffer' /\ LeaseIsHighest' /\ ProvisionalIsPending' /\ LeasesKnowSends'
      /\ GoneIsOvertaken'
  BY <1>1 DEF HandleInv, MarkersDiffer, LeaseIsHighest, ProvisionalIsPending, LeasesKnowSends, GoneIsOvertaken,
              Carries, Later
<1>4. LeasesAreReceived'
  BY <1>1 DEF HandleInv, LeasesAreReceived, WasReceived
<1>5. ProxyIsLatest'
  BY <1>1 DEF HandleInv, ProxyIsLatest
<1>6. ASSUME Kept PROVE Kept'
  <2>1. CommittedIsKnown'
    BY <1>1, <1>6 DEF Kept, CommittedIsKnown, OnWire, WasReceived
  <2>2. proxies[registry].state # "none" => proxies'[registry].state # "none"
    BY DEF Collect, HandleTypes, tables
  <2>3. KeptForSomebody'
    BY <1>1, <1>2, <1>6, <2>2 DEF Kept, KeptForSomebody
  <2>4. QED
    BY <2>1, <2>3 DEF Kept
<1>7. QED
  BY <1>3, <1>4, <1>5, <1>6 DEF HandleInv

\* The release of a proxy is of the committed lease.
LEMMA EndProxyStep ==
  ASSUME HandleTypes, HandleInv, NEW g \in Ids, proxies[g].state # "none", EndProxy(g)
  PROVE  HandleInv' /\ (Kept => Kept')
<1> DEFINE r == [id |-> g, lease |-> proxies[g].lease]
<1>1. /\ UNCHANGED <<ids, registry, provisional, leases, stage, marker, overtaken, lost>>
      /\ proxies[g].state # "none" /\ proxies'[g].state = "none"
      /\ \A h \in Ids \ {g} : proxies'[h] = proxies[h]
      /\ releases' = releases \cup {r}
  BY DEF EndProxy, HandleTypes, NoProxy, tables
<1>2. \A h, l : WasReceived(h, l)' <=> WasReceived(h, l)
  BY <1>1 DEF WasReceived
<1>3. /\ MarkersDiffer' /\ LeaseIsHighest' /\ ProvisionalIsPending' /\ LeasesKnowSends'
      /\ GoneIsOvertaken'
  BY <1>1 DEF HandleInv, MarkersDiffer, LeaseIsHighest, ProvisionalIsPending, LeasesKnowSends, GoneIsOvertaken,
              Carries, Later
<1>4. LeasesAreReceived'
  <2>1. WasReceived(r.id, r.lease)
    BY <1>1 DEF HandleInv, LeasesAreReceived
  <2>2. \A h \in Ids : proxies'[h].state # "none" => h # g
    BY <1>1
  <2>3. ASSUME NEW h \in Ids, proxies'[h].state # "none" PROVE WasReceived(h, proxies[h].lease)'
    BY <1>1, <2>2, <2>3 DEF HandleInv, LeasesAreReceived, WasReceived
  <2>4. ASSUME NEW q \in releases' PROVE WasReceived(q.id, q.lease)'
    BY <1>1, <1>2, <2>1 DEF HandleInv, LeasesAreReceived
  <2>5. leases.pendingRelease > 0 => WasReceived(registry, leases.pendingRelease)'
    BY <1>1 DEF HandleInv, LeasesAreReceived, WasReceived
  <2>6. QED
    BY <1>1, <2>3, <2>4, <2>5 DEF LeasesAreReceived
<1>5. ProxyIsLatest'
  BY <1>1 DEF HandleInv, ProxyIsLatest
<1>6. ASSUME Kept PROVE Kept'
  <2>1. CommittedIsKnown'
    BY <1>1, <1>6 DEF Kept, CommittedIsKnown, OnWire, WasReceived
  <2>2. CASE registry = g /\ g \notin overtaken /\ WasReceived(registry, leases.committed)
    <3>1. leases.committed <= proxies[g].lease
      BY <1>1, <2>2 DEF HandleInv, ProxyIsLatest, WasReceived
    <3>2. proxies[g].lease \in Nat /\ proxies[g].lease <= leases.committed
      BY <1>1, <2>2, ProxyIsCommitted
    <3>3. leases.committed \in Nat
      BY DEF HandleTypes, LeaseState
    <3>4. r.lease = leases.committed /\ r.id = registry
      BY <2>2, <3>1, <3>2, <3>3
    <3> HIDE DEF r
    <3>5. KeptForSomebody'
      BY <1>1, <3>4 DEF KeptForSomebody
    <3>6. QED
      BY <2>1, <3>5 DEF Kept
  <2>3. CASE ~(registry = g /\ g \notin overtaken /\ WasReceived(registry, leases.committed))
    <3>1. registry # g => proxies'[registry] = proxies[registry]
      BY DEF EndProxy, HandleTypes
    <3>2. KeptForSomebody'
      BY <1>1, <1>2, <1>6, <2>3, <3>1 DEF Kept, KeptForSomebody
    <3>3. QED
      BY <2>1, <3>2 DEF Kept
  <2>4. QED
    BY <2>2, <2>3
<1>7. QED
  BY <1>3, <1>4, <1>5, <1>6 DEF HandleInv

LEMMA LeasesBegin ==
  ASSUME HandleInit
  PROVE  HandleTypes /\ HandleInv /\ Kept
<1>1. HandleTypes
  BY HandleLeasesAssumption DEF HandleInit, HandleTypes, LeaseState, Mark, NoLeases, NoProxy
<1>2. /\ \A s \in Sends : stage[s] = "new"
      /\ \A g \in Ids : proxies[g].state = "none"
      /\ releases = {} /\ ids = 0 /\ registry = 0
      /\ provisional = {} /\ leases = NoLeases
  BY DEF HandleInit, NoProxy
<1>3. ~WasReceived(0, 0)
  BY <1>2 DEF WasReceived
<1>4. QED
  BY <1>1, <1>2, <1>3 DEF HandleInv, MarkersDiffer, LeaseIsHighest, ProvisionalIsPending,
    LeasesKnowSends,
    LeasesAreReceived, ProxyIsLatest, GoneIsOvertaken, Kept, CommittedIsKnown,
    KeptForSomebody, Carries, NoLeases

LEMMA LeasesStay ==
  ASSUME UNCHANGED handleVars
  PROVE  /\ HandleTypes => HandleTypes'
         /\ HandleInv => HandleInv'
         /\ Kept => Kept'
<1>1. UNCHANGED <<ids, registry, provisional, leases, stage, marker, proxies, releases, overtaken, lost>>
  BY DEF handleVars, tables
<1>2. QED
  BY <1>1 DEF HandleTypes, HandleInv, MarkersDiffer, LeaseIsHighest, ProvisionalIsPending, LeasesKnowSends,
    LeasesAreReceived, ProxyIsLatest, GoneIsOvertaken, Kept, CommittedIsKnown,
    KeptForSomebody, Carries, WasReceived, OnWire, Later

-----------------------------------------------------------------------------
(* The operations.                                                         *)

LEMMA OperationsBegin ==
  ASSUME Init
  PROVE  OperationFacts
<1>1. /\ \A o \in Operations : caller[o] = "new" /\ result[o] = "none" /\ runs[o] = 0
                               /\ earlier[o] = {}
      /\ \A g \in Ids : through[g] = {}
      /\ flight = {} /\ stored = {} /\ responses = {} /\ answered = {}
  BY DEF Init
<1>2. OperationTypes
  BY HandleLeasesAssumption DEF Init, OperationTypes, Ends
<1>3. OperationInv
  BY <1>1 DEF OperationInv, OperationsAreMade, ResultIsKept, FlightIsPending,
              EarlierIsWaitedFor, Pending, Operations
<1>4. OperationHoldsProxy /\ OperationFindsItsObject
  BY <1>1 DEF OperationHoldsProxy, OperationFindsItsObject, Unsettled
<1>5. QED
  BY <1>2, <1>3, <1>4 DEF OperationFacts

\* The operations as they are, whatever a step does to the leases that keeps the
\* proxies in use.
LEMMA OperationsStay ==
  ASSUME OperationFacts, UNCHANGED <<open, holderVars, wireVars, ownerVars>>,
         \A g \in Ids : Reachable(g) => Reachable(g)', overtaken \subseteq overtaken'
  PROVE  OperationFacts'
<1>1. UNCHANGED <<open, caller, target, through, waitsFor, earlier, cut, copies, flight,
                  responses, answered, stored, result, runs, awaiting>>
  BY DEF holderVars, madeVars, wireVars, ownerVars
<1>2. OperationTypes' /\ OperationInv'
  BY <1>1 DEF OperationFacts, OperationTypes, OperationInv, OperationsAreMade, ResultIsKept,
              FlightIsPending, EarlierIsWaitedFor, Pending
<1>3. OperationHoldsProxy' /\ OperationFindsItsObject'
  BY <1>1 DEF OperationFacts, OperationHoldsProxy, OperationFindsItsObject, Unsettled
<1>4. QED
  BY <1>2, <1>3 DEF OperationFacts

\* What Make may do with an operation.
LEMMA MakeDoes ==
  ASSUME OperationTypes, NEW o \in Operations, Make(o)
  PROVE  /\ caller' \in [Operations ->
                          {"new", "waiting", "pending", "resolved", "rejected", "busy"}]
         /\ caller'[o] \in {"pending", "rejected"}
         /\ caller'[o] = "pending" => "holder" \in open
         /\ \A p \in Operations \ {o} : caller'[p] = caller[p]
BY DEF Make, OperationTypes

LEMMA ThroughStep ==
  ASSUME OperationFacts, NEW o \in Operations, NEW g \in Ids, Write(o, g) \/ Ask(o, g)
  PROVE  OperationFacts'
<1>1. /\ "holder" \in open /\ caller[o] = "new" /\ Reachable(g)
      /\ target' = [target EXCEPT ![o] = g]
      /\ through' = [through EXCEPT ![g] = through[g] \cup {o}]
      /\ earlier' = [earlier EXCEPT ![o] = through[g] \cap Writes]
      /\ UNCHANGED <<handleVars, open, cut, wireVars, ownerVars>>
  BY DEF Write, Ask, Through
<1>2. UNCHANGED <<proxies, overtaken, open, cut, copies, flight, responses, answered, stored,
                  result, runs, awaiting>>
  BY <1>1 DEF handleVars, wireVars, ownerVars
<1>3. /\ caller' \in [Operations ->
                        {"new", "waiting", "pending", "resolved", "rejected", "busy"}]
      /\ \A p \in Operations \ {o} : caller'[p] = caller[p]
      /\ caller'[o] \in {"waiting", "pending", "rejected"}
      /\ o \in Writes => caller'[o] # "waiting"
      /\ o \in Calls => caller'[o] = "waiting" /\ waitsFor' = [waitsFor EXCEPT ![o] = PendingSets(g)]
      /\ o \in Writes => waitsFor' = waitsFor
  <2>1. OperationTypes /\ Writes \cap Calls = {}
    BY LiveHandlesAssumption DEF OperationFacts
  <2>2. CASE Write(o, g)
    BY <2>1, <2>2, MakeDoes DEF Write
  <2>3. CASE Ask(o, g)
    BY <2>1, <2>3 DEF Ask, OperationTypes
  <2>4. QED
    BY <2>2, <2>3
<1>4. /\ target'[o] = g /\ o \in through'[g]
      /\ \A h \in Ids : through[h] \subseteq through'[h] /\ through'[h] \subseteq through[h] \cup {o}
      /\ earlier'[o] = through[g] \cap Writes
      /\ \A p \in Operations \ {o} : target'[p] = target[p] /\ earlier'[p] = earlier[p]
      /\ o \in Calls => waitsFor'[o] = PendingSets(g)
      /\ \A p \in Operations \ {o} : waitsFor'[p] = waitsFor[p]
  <2>1. o \in Calls \/ o \in Writes
    BY DEF Operations
  <2>2. QED
    BY <1>1, <1>3, <2>1 DEF OperationFacts, OperationTypes
<1>5. OperationTypes'
  <2>1. g \in 0 .. MaxId
    BY HandleLeasesAssumption DEF Ids
  <2>2. PendingSets(g) \in SUBSET Writes
    BY DEF PendingSets
  <2>3. waitsFor' \in [Operations -> SUBSET Writes]
    BY <1>3, <2>2 DEF OperationFacts, OperationTypes, Operations
  <2>4. QED
    BY <1>1, <1>2, <1>3, <2>1, <2>3 DEF OperationFacts, OperationTypes
<1>6. /\ o \notin flight /\ o \notin stored /\ runs[o] = 0 /\ result[o] = "none"
      /\ \A x \in responses : x.op # o
      /\ \A x \in answered : x.op # o
      /\ \A h \in Ids : o \notin through[h]
      /\ \A p \in Operations : o \notin earlier[p]
  BY <1>1 DEF OperationFacts, OperationTypes, OperationInv, OperationsAreMade, EarlierIsWaitedFor
<1>7. OperationsAreMade'
  <2>1. Pending' = {} \/ "holder" \in open'
    BY <1>1, <1>2
  <2>2. QED
    BY <1>2, <1>3, <1>6, <2>1 DEF OperationFacts, OperationTypes, OperationInv, OperationsAreMade,
       Operations
<1>8. ResultIsKept' /\ FlightIsPending'
  BY <1>2, <1>3, <1>6 DEF OperationFacts, OperationTypes, OperationInv, ResultIsKept, FlightIsPending
<1>9. EarlierIsWaitedFor'
  <2>1. \A h \in Ids : \A p \in through'[h] : caller'[p] # "new"
    BY <1>3, <1>4 DEF OperationFacts, OperationTypes, OperationInv, EarlierIsWaitedFor
  <2>2. \A p \in Operations : \A w \in earlier'[p] : w # o /\ w \in Operations /\ caller[w] # "new"
    BY <1>4, <1>6 DEF OperationFacts, OperationTypes, OperationInv, EarlierIsWaitedFor, Operations
  <2>3. ASSUME NEW p \in Calls, NEW w \in earlier'[p], caller'[w] = "pending"
        PROVE  caller'[p] = "waiting" /\ w \in waitsFor'[p]
    <3>1. p \in Operations /\ w # o /\ caller[w] = "pending"
      BY <1>3, <2>2, <2>3 DEF Operations
    <3>2. CASE p = o
      BY <1>3, <1>4, <2>3, <3>1, <3>2 DEF PendingSets
    <3>3. CASE p # o
      BY <1>3, <1>4, <2>3, <3>1, <3>3 DEF OperationFacts, OperationInv, EarlierIsWaitedFor
    <3>4. QED
      BY <3>2, <3>3
  <2>4. QED
    BY <1>3, <2>1, <2>2, <2>3 DEF EarlierIsWaitedFor
<1>10. OperationHoldsProxy'
  <2> SUFFICES ASSUME NEW p \in Operations, p \notin cut, caller'[p] \in {"waiting", "pending"}
               PROVE  /\ target'[p] \in Ids /\ proxies'[target'[p]].state = "live"
                      /\ p \in through'[target'[p]]
    BY <1>2 DEF OperationHoldsProxy, Unsettled, Reachable
  <2>1. CASE p = o
    BY <1>1, <1>2, <1>4, <2>1 DEF Reachable
  <2>2. CASE p # o
    BY <1>1, <1>2, <1>3, <1>4, <2>2 DEF OperationFacts, OperationHoldsProxy, Unsettled, Reachable
  <2>3. QED
    BY <2>1, <2>2
<1>11. OperationFindsItsObject'
  BY <1>2, <1>3, <1>4, <1>6 DEF OperationFacts, OperationFindsItsObject
<1>12. QED
  BY <1>5, <1>7, <1>8, <1>9, <1>10, <1>11 DEF OperationFacts, OperationInv

\* An operation that waited is made, or a request that was never sent ends: nothing
\* but the state of the operation changes, and not back.
LEMMA CallerMoves ==
  ASSUME OperationFacts, NEW o \in Operations,
         UNCHANGED <<handleVars, open, madeVars, flight, copies, stored, result, runs, awaiting>>,
         caller' \in [Operations ->
                       {"new", "waiting", "pending", "resolved", "rejected", "busy"}],
         \A p \in Operations \ {o} : caller'[p] = caller[p],
         caller[o] \in {"waiting", "pending"}, caller'[o] \notin {"new", "waiting"},
         caller[o] = "waiting" => waitsFor[o] \cap Pending = {},
         caller'[o] = "pending" => caller[o] = "waiting" /\ "holder" \in open,
         OperationTypes',
         \A x \in responses' : x \in responses,
         \A x \in answered' : x \in answered \/ caller'[x.op] \notin {"new", "waiting", "pending"},
         caller[o] = "pending" /\ o \in flight \ stored /\ "owner" \in open => caller'[o] = "busy"
  PROVE  OperationFacts'
<1>1. UNCHANGED <<proxies, overtaken, open, target, through, waitsFor, earlier, cut, flight, copies,
                  stored, result, runs, awaiting>>
  BY DEF handleVars, madeVars
<1>2. OperationsAreMade'
  <2>1. \A p \in Operations : caller'[p] \in {"new", "waiting"} => caller[p] \in {"new", "waiting"}
    BY DEF OperationFacts, OperationTypes
  <2>2. \A p \in Operations : caller'[p] = "pending" => p = o \/ caller[p] = "pending"
    OBVIOUS
  <2>3. \A x \in answered : x.op \in Operations /\ caller'[x.op] \notin {"new", "waiting", "pending"}
    BY <2>1, <2>2 DEF OperationFacts, OperationTypes, OperationInv, OperationsAreMade
  <2>4. \A x \in responses : caller'[x.op] \notin {"new", "waiting"}
    BY <2>1 DEF OperationFacts, OperationTypes, OperationInv, OperationsAreMade
  <2>5. "holder" \notin open => Pending' = {}
    BY <2>2 DEF OperationFacts, OperationInv, OperationsAreMade, Pending
  <2>6. \A p \in Writes : caller'[p] # "waiting"
    BY <2>1 DEF OperationFacts, OperationInv, OperationsAreMade, Operations
  <2>7. QED
    BY <1>1, <2>1, <2>3, <2>4, <2>5, <2>6 DEF OperationFacts, OperationInv, OperationsAreMade
<1>3. ResultIsKept'
  <2>1. \A p \in Operations : caller'[p] = "pending" => caller[p] = "pending" \/ result[p] = "none"
    BY DEF OperationFacts, OperationInv, OperationsAreMade
  <2>2. QED
    BY <1>1, <2>1 DEF OperationFacts, OperationTypes, OperationInv, ResultIsKept
<1>4. FlightIsPending'
  BY <1>1 DEF OperationFacts, OperationTypes, OperationInv, FlightIsPending, OperationsAreMade
<1>5. EarlierIsWaitedFor'
  <2>1. \A p \in Operations : caller'[p] = "new" <=> caller[p] = "new"
    OBVIOUS
  <2>2. ASSUME NEW p \in Calls, NEW w \in earlier[p], caller'[w] = "pending"
        PROVE  caller'[p] = "waiting" /\ w \in waitsFor[p]
    <3>1. p \in Operations /\ w \in Operations /\ w \in Writes
      BY DEF OperationFacts, OperationTypes, Operations
    <3>2. caller[w] = "pending"
      BY <2>2, <3>1 DEF OperationFacts, OperationInv, OperationsAreMade
    <3>3. caller[p] = "waiting" /\ w \in waitsFor[p] /\ w \in Pending
      BY <2>2, <3>1, <3>2 DEF OperationFacts, OperationInv, EarlierIsWaitedFor, Pending
    <3>4. p # o
      BY <3>3
    <3>5. QED
      BY <3>1, <3>3, <3>4
  <2>3. QED
    BY <1>1, <2>1, <2>2 DEF OperationFacts, OperationTypes, OperationInv, EarlierIsWaitedFor, Operations
<1>6. OperationHoldsProxy' /\ OperationFindsItsObject'
  BY <1>1 DEF OperationFacts, OperationTypes, OperationHoldsProxy, OperationFindsItsObject, Unsettled,
              Reachable
<1>7. QED
  BY <1>2, <1>3, <1>4, <1>5, <1>6 DEF OperationFacts, OperationInv

LEMMA ProceedStep ==
  ASSUME OperationFacts, NEW o \in Operations, Proceed(o)
  PROVE  OperationFacts'
<1>1. /\ caller[o] = "waiting" /\ waitsFor[o] \cap Pending = {} /\ Make(o)
      /\ UNCHANGED <<handleVars, open, madeVars, wireVars, ownerVars>>
  BY DEF Proceed
<1>2. UNCHANGED <<open, target, through, waitsFor, earlier, cut, flight, copies, stored, result,
                  runs, awaiting, responses, answered>>
  BY <1>1 DEF madeVars, wireVars, ownerVars
<1>3. /\ caller' \in [Operations ->
                        {"new", "waiting", "pending", "resolved", "rejected", "busy"}]
      /\ caller'[o] \in {"pending", "rejected"}
      /\ caller'[o] = "pending" => "holder" \in open
      /\ \A p \in Operations \ {o} : caller'[p] = caller[p]
  BY <1>1, MakeDoes DEF OperationFacts
<1>4. OperationTypes'
  BY <1>2, <1>3 DEF OperationFacts, OperationTypes
<1>5. QED
  BY <1>1, <1>2, <1>3, <1>4, CallerMoves

LEMMA SendFailsStep ==
  ASSUME OperationFacts, NEW o \in Operations, SendFails(o)
  PROVE  OperationFacts'
<1>1. /\ caller[o] = "pending" /\ copies[o] = 0
      /\ caller' = [caller EXCEPT ![o] = "rejected"]
      /\ UNCHANGED <<handleVars, open, madeVars, wireVars, ownerVars>>
  BY DEF SendFails
<1>2. UNCHANGED <<open, target, through, waitsFor, earlier, cut, flight, copies, stored, result,
                  runs, awaiting, responses, answered>>
  BY <1>1 DEF madeVars, wireVars, ownerVars
<1>3. /\ caller' \in [Operations ->
                        {"new", "waiting", "pending", "resolved", "rejected", "busy"}]
      /\ caller'[o] = "rejected" /\ \A p \in Operations \ {o} : caller'[p] = caller[p]
  BY <1>1 DEF OperationFacts, OperationTypes
<1>4. OperationTypes'
  BY <1>2, <1>3 DEF OperationFacts, OperationTypes
<1>5. o \notin flight
  BY <1>1 DEF OperationFacts, OperationInv, OperationsAreMade
<1>6. QED
  BY <1>1, <1>2, <1>3, <1>4, <1>5, CallerMoves

\* A response settles its operation, unless it is settled.
LEMMA ReceiveResponseStep ==
  ASSUME OperationFacts, NEW x \in responses, ReceiveResponse(x)
  PROVE  OperationFacts'
<1>1. /\ "holder" \in open /\ responses' = responses \ {x} /\ answered' = answered \cup {x}
      /\ caller' = [caller EXCEPT ![x.op] = IF caller[x.op] # "pending" THEN caller[x.op]
                                            ELSE Outcome(x.kind)]
      /\ UNCHANGED <<handleVars, open, madeVars, repeated, copies, flight, ownerVars>>
  BY DEF ReceiveResponse
<1>2. /\ x.op \in Operations /\ x.kind \in {"value", "missing", "busy"}
      /\ caller[x.op] \notin {"new", "waiting"}
  BY DEF OperationFacts, OperationTypes, OperationInv, OperationsAreMade
<1>3. UNCHANGED <<handleVars, open, madeVars, target, through, waitsFor, earlier, cut, flight, copies,
                  stored, result, runs, awaiting>>
  BY <1>1 DEF madeVars, ownerVars
<1>4. /\ Outcome(x.kind) \in {"resolved", "rejected", "busy"}
      /\ Outcome(x.kind) = "busy" <=> x.kind = "busy"
  BY <1>2 DEF Outcome
<1>5. /\ caller' \in [Operations ->
                        {"new", "waiting", "pending", "resolved", "rejected", "busy"}]
      /\ caller'[x.op] = IF caller[x.op] # "pending" THEN caller[x.op] ELSE Outcome(x.kind)
      /\ \A p \in Operations \ {x.op} : caller'[p] = caller[p]
  BY <1>1, <1>2, <1>4 DEF OperationFacts, OperationTypes
<1>6. OperationTypes'
  BY <1>1, <1>2, <1>3, <1>5 DEF OperationFacts, OperationTypes
<1>7. CASE caller[x.op] = "pending"
  <2>1. x.op \in flight \ stored /\ "owner" \in open => x.kind = "busy"
    BY <1>2 DEF OperationFacts, OperationInv, ResultIsKept
  <2>2. \A y \in answered' : y \in answered \/ caller'[y.op] \notin {"new", "waiting", "pending"}
    BY <1>1, <1>4, <1>5, <1>7
  <2>3. QED
    BY <1>1, <1>2, <1>3, <1>4, <1>5, <1>6, <1>7, <2>1, <2>2, CallerMoves
<1>8. CASE caller[x.op] # "pending"
  <2>1. caller' = caller
    BY <1>1, <1>8 DEF OperationFacts, OperationTypes
  <2>2. UNCHANGED <<proxies, overtaken>>
    BY <1>1 DEF handleVars
  <2>3. OperationInv'
    BY <1>1, <1>2, <1>3, <1>8, <2>1 DEF OperationFacts, OperationTypes, OperationInv,
       OperationsAreMade, ResultIsKept, FlightIsPending, EarlierIsWaitedFor, Pending
  <2>4. OperationHoldsProxy' /\ OperationFindsItsObject'
    BY <1>3, <2>1, <2>2 DEF OperationFacts, OperationHoldsProxy, OperationFindsItsObject, Unsettled,
       Reachable
  <2>5. QED
    BY <1>6, <2>3, <2>4 DEF OperationFacts
<1>9. QED
  BY <1>7, <1>8

LEMMA SendStep ==
  ASSUME OperationFacts, NEW o \in Operations, Send(o) \/ LoseCopy(o)
  PROVE  OperationFacts'
<1>1. /\ UNCHANGED <<proxies, overtaken, open, caller, target, through, waitsFor, earlier, cut,
                     responses, answered, stored, result, runs, awaiting>>
      /\ copies' \in [Operations -> Nat]
      /\ \A p \in Operations : copies'[p] = 0 => copies[p] = 0
      /\ flight' \subseteq flight \cup {o}
      /\ o \in flight' => o \in flight \/ (caller[o] = "pending" /\ copies'[o] # 0)
      /\ o \in flight' \ flight => "owner" \in open
  BY DEF Send, LoseCopy, handleVars, holderVars, madeVars, ownerVars, OperationFacts,
         OperationTypes, BothOpen, Ends
<1>2. OperationTypes'
  BY <1>1 DEF OperationFacts, OperationTypes
<1>3. OperationsAreMade'
  BY <1>1 DEF OperationFacts, OperationInv, OperationsAreMade, Pending
<1>4. ResultIsKept' /\ FlightIsPending' /\ EarlierIsWaitedFor'
  BY <1>1 DEF OperationFacts, OperationTypes, OperationInv, ResultIsKept, FlightIsPending,
              EarlierIsWaitedFor
<1>5. OperationHoldsProxy' /\ OperationFindsItsObject'
  BY <1>1 DEF OperationFacts, OperationHoldsProxy, OperationFindsItsObject, Unsettled, Reachable
<1>6. QED
  BY <1>2, <1>3, <1>4, <1>5 DEF OperationFacts, OperationInv

\* What the work on an operation leaves: a result that is stored, and an answer, or
\* the way to it.
LEMMA AnswersAreReal ==
  ASSUME OperationFacts, NEW o \in Operations,
         caller[o] \notin {"new", "waiting"}, copies[o] # 0, "owner" \in open,
         UNCHANGED <<handleVars, open, holderVars, copies, answered>>,
         flight' \subseteq flight, stored \subseteq stored', stored' \subseteq stored \cup {o},
         result' \in [Operations -> {"none", "running", "value", "missing"}],
         runs' \in [Operations -> Nat], DOMAIN awaiting' = Operations,
         \A p \in Operations \ {o} : result'[p] = result[p] /\ runs'[p] = runs[p],
         result'[o] = "none" => result[o] = "none" /\ runs'[o] = 0 /\ o \notin stored',
         result[o] = "none" /\ result'[o] # "none" => o \in stored',
         \A x \in responses' : \/ x \in responses
                               \/ /\ x.op = o /\ x.kind \in {"value", "missing", "busy"}
                                  /\ x.kind # "busy" => result'[o] # "none",
         result'[o] = "missing" /\ result[o] # "missing" =>
           o \in cut \/ target[o] \in overtaken \/ caller[o] = "busy"
  PROVE  OperationFacts'
<1>1. UNCHANGED <<proxies, overtaken, open, caller, target, through, waitsFor, earlier, cut>>
  BY DEF handleVars, holderVars, madeVars
<1>2. OperationTypes'
  BY <1>1 DEF OperationFacts, OperationTypes
<1>3. OperationsAreMade'
  BY <1>1 DEF OperationFacts, OperationInv, OperationsAreMade, Pending
<1>4. ResultIsKept'
  BY <1>1 DEF OperationFacts, OperationTypes, OperationInv, ResultIsKept
<1>5. FlightIsPending' /\ EarlierIsWaitedFor'
  BY <1>1 DEF OperationFacts, OperationTypes, OperationInv, FlightIsPending, EarlierIsWaitedFor
<1>6. OperationHoldsProxy' /\ OperationFindsItsObject'
  BY <1>1 DEF OperationFacts, OperationHoldsProxy, OperationFindsItsObject, Unsettled, Reachable
<1>7. QED
  BY <1>2, <1>3, <1>4, <1>5, <1>6 DEF OperationFacts, OperationInv

\* An operation that is under way finds its object.
LEMMA ObjectIsThere ==
  ASSUME OperationFacts, HandleInv, NEW o \in Operations, caller[o] = "pending", o \notin cut,
         target[o] \notin overtaken
  PROVE  Registered(target[o])
<1>1. "holder" \in open
  BY DEF OperationFacts, OperationInv, OperationsAreMade, Pending
<1>2. target[o] \in Ids \ overtaken /\ proxies[target[o]].state = "live"
  BY <1>1 DEF OperationFacts, OperationHoldsProxy, Unsettled, Reachable
<1>3. QED
  BY <1>2 DEF HandleInv, ProxyIsLatest, Registered

LEMMA ReceiveRequestStep ==
  ASSUME OperationFacts, HandleInv, NEW o \in Operations, ReceiveRequest(o)
  PROVE  OperationFacts'
<1>1. /\ "owner" \in open /\ o \in flight /\ flight' = flight \ {o} /\ HandleRequest(o)
      /\ UNCHANGED <<handleVars, open, holderVars, copies, answered>>
  BY DEF ReceiveRequest
<1>2. /\ caller[o] \notin {"new", "waiting"} /\ copies[o] # 0
      /\ result \in [Operations -> {"none", "running", "value", "missing"}]
      /\ runs \in [Operations -> Nat] /\ DOMAIN awaiting = Operations
      /\ result[o] = "none" => runs[o] = 0
  BY <1>1 DEF OperationFacts, OperationTypes, OperationInv, OperationsAreMade, ResultIsKept
<1>3. CASE o \in stored /\ AnswerStored(o)
  <2>1. /\ UNCHANGED <<stored, result, runs>> /\ DOMAIN awaiting' = Operations
        /\ \A x \in responses' : x \in responses \/ (x.op = o /\ x.kind = result[o] /\ x.kind # "running")
    BY <1>2, <1>3 DEF AnswerStored, Answer
  <2>2. result[o] # "none"
    BY <1>3 DEF OperationFacts, OperationInv, ResultIsKept
  <2>3. \A x \in responses' : \/ x \in responses
                              \/ /\ x.op = o /\ x.kind \in {"value", "missing", "busy"}
                                 /\ x.kind # "busy" => result'[o] # "none"
    BY <1>2, <2>1, <2>2
  <2>4. QED
    BY <1>1, <1>2, <2>1, <2>2, <2>3, AnswersAreReal
<1>4. CASE Answer(o, "busy", {copies[o]}) /\ UNCHANGED <<stored, result, awaiting, runs>>
  <2>1. \A x \in responses' : x \in responses \/ (x.op = o /\ x.kind = "busy")
    BY <1>4 DEF Answer
  <2>2. result[o] = "none" => o \notin stored
    BY DEF OperationFacts, OperationInv, ResultIsKept
  <2>3. QED
    BY <1>1, <1>2, <1>4, <2>1, <2>2, AnswersAreReal
<1>5. CASE o \notin stored /\ Work(o)
  <2>1. caller[o] \in {"pending", "busy"}
    BY <1>1, <1>5 DEF OperationFacts, OperationInv, FlightIsPending
  <2>2. CASE ~Registered(target[o])
    <3>1. /\ stored' = stored \cup {o} /\ result' = [result EXCEPT ![o] = "missing"]
          /\ UNCHANGED <<runs, awaiting>>
          /\ \A x \in responses' : x \in responses \/ (x.op = o /\ x.kind = "missing")
      BY <1>5, <2>2 DEF Work, Answer
    <3>2. o \in cut \/ target[o] \in overtaken \/ caller[o] = "busy"
      BY <2>1, <2>2, ObjectIsThere
    <3>3. /\ result' \in [Operations -> {"none", "running", "value", "missing"}]
          /\ result'[o] = "missing" /\ \A p \in Operations \ {o} : result'[p] = result[p]
      BY <1>2, <3>1
    <3>4. QED
      BY <1>1, <1>2, <3>1, <3>2, <3>3, AnswersAreReal
  <2>3. CASE Registered(target[o])
    <3>1. /\ stored' = stored \cup {o} /\ runs' = [runs EXCEPT ![o] = runs[o] + 1]
          /\ DOMAIN awaiting' = Operations
          /\ \E v \in {"running", "value"} : result' = [result EXCEPT ![o] = v]
          /\ \A x \in responses' : x \in responses \/ (x.op = o /\ x.kind = "value")
      BY <1>2, <1>5, <2>3 DEF Work, Answer
    <3>2. /\ result' \in [Operations -> {"none", "running", "value", "missing"}]
          /\ result'[o] \in {"running", "value"}
          /\ \A p \in Operations \ {o} : result'[p] = result[p] /\ runs'[p] = runs[p]
          /\ runs' \in [Operations -> Nat]
      BY <1>2, <3>1
    <3>3. QED
      BY <1>1, <1>2, <3>1, <3>2, AnswersAreReal
  <2>4. QED
    BY <2>2, <2>3
<1>6. QED
  BY <1>1, <1>3, <1>4, <1>5 DEF HandleRequest

LEMMA ReturnStep ==
  ASSUME OperationFacts, NEW o \in Operations, Return(o)
  PROVE  OperationFacts'
<1>1. /\ "owner" \in open /\ result[o] = "running" /\ result' = [result EXCEPT ![o] = "value"]
      /\ DOMAIN awaiting' = DOMAIN awaiting
      /\ UNCHANGED <<handleVars, open, holderVars, copies, flight, answered, stored, runs>>
      /\ \A x \in responses' : x \in responses \/ (x.op = o /\ x.kind = "value")
  BY DEF Return, Answer
<1>2. /\ caller[o] \notin {"new", "waiting"} /\ copies[o] # 0
      /\ result' \in [Operations -> {"none", "running", "value", "missing"}]
      /\ result'[o] = "value" /\ \A p \in Operations \ {o} : result'[p] = result[p]
      /\ runs \in [Operations -> Nat] /\ DOMAIN awaiting = Operations
  BY <1>1 DEF OperationFacts, OperationTypes, OperationInv, OperationsAreMade
<1>3. QED
  BY <1>1, <1>2, AnswersAreReal

\* A result is forgotten when its operation is settled and no copy is on the wire.
LEMMA AcknowledgeStep ==
  ASSUME OperationFacts, NEW x \in answered, Acknowledge(x)
  PROVE  OperationFacts'
<1>1. /\ x.op \notin flight /\ answered' = answered \ {x} /\ stored' = stored \ {x.op}
      /\ UNCHANGED <<handleVars, open, holderVars, copies, flight, responses, result, awaiting, runs>>
  BY DEF Acknowledge
<1>2. UNCHANGED <<proxies, overtaken, open, caller, target, through, waitsFor, earlier, cut>>
  BY <1>1 DEF handleVars, holderVars, madeVars
<1>3. caller[x.op] # "pending"
  BY DEF OperationFacts, OperationInv, OperationsAreMade
<1>4. OperationTypes' /\ OperationInv'
  BY <1>1, <1>2, <1>3 DEF OperationFacts, OperationTypes, OperationInv, OperationsAreMade, Pending,
     ResultIsKept, FlightIsPending, EarlierIsWaitedFor
<1>5. OperationHoldsProxy' /\ OperationFindsItsObject'
  BY <1>1, <1>2 DEF OperationFacts, OperationHoldsProxy, OperationFindsItsObject, Unsettled, Reachable
<1>6. QED
  BY <1>4, <1>5 DEF OperationFacts

-----------------------------------------------------------------------------
(* The proxies, the channel, and all steps.                                *)

\* A proxy ends: no operation that is under way is left without it, except those
\* that are cut.
LEMMA ProxyStep ==
  ASSUME ExposureInv, NEW g \in Ids, CollectProxy(g) \/ DisposeProxy(g)
  PROVE  ExposureInv'
<1>1. /\ proxies[g].state = "live" /\ \A h \in Ids \ {g} : proxies'[h] = proxies[h]
      /\ through' = [through EXCEPT ![g] = {}]
      /\ cut' \subseteq cut \cup Unsettled
      /\ cut \subseteq cut' /\ through[g] \cap Unsettled \subseteq cut'
      /\ UNCHANGED <<open, caller, target, waitsFor, earlier, wireVars, ownerVars, overtaken>>
      /\ Collect(g) \/ EndProxy(g)
  BY DEF CollectProxy, DisposeProxy, Collect, Dispose, EndProxy, Reachable, ExposureInv, HandleTypes
<1>2. UNCHANGED <<copies, flight, responses, answered, stored, result, runs, awaiting>>
  BY <1>1 DEF wireVars, ownerVars
<1>3. HandleTypes' /\ (HandleInv => HandleInv') /\ (HandleInv /\ Kept => Kept')
  <2>1. proxies[g].state # "none"
    BY <1>1
  <2>2. QED
    BY <1>1, <2>1, HolderTypes, CollectStep, EndProxyStep DEF ExposureInv
<1>4. \A h \in Ids : through'[h] = IF h = g THEN {} ELSE through[h]
  BY <1>1 DEF ExposureInv, OperationFacts, OperationTypes
<1>5. OperationTypes'
  <2>1. Unsettled \subseteq Operations
    BY DEF Unsettled
  <2>2. through' \in [Ids -> SUBSET Operations]
    BY <1>1 DEF ExposureInv, OperationFacts, OperationTypes
  <2>3. QED
    BY <1>1, <1>2, <2>1, <2>2 DEF ExposureInv, OperationFacts, OperationTypes
<1>6. OperationInv'
  BY <1>1, <1>2, <1>4 DEF ExposureInv, OperationFacts, OperationInv, OperationsAreMade, Pending,
     ResultIsKept, FlightIsPending, EarlierIsWaitedFor
<1>7. OperationHoldsProxy'
  <2> SUFFICES ASSUME "holder" \in open, NEW o \in Unsettled, o \notin cut'
               PROVE  /\ target[o] \in Ids /\ proxies'[target[o]].state = "live"
                      /\ o \in through'[target[o]]
    BY <1>1 DEF OperationHoldsProxy, Unsettled, Reachable
  <2>1. /\ target[o] \in Ids /\ proxies[target[o]].state = "live" /\ o \in through[target[o]]
    BY <1>1 DEF ExposureInv, OperationFacts, OperationHoldsProxy, Reachable
  <2>2. target[o] # g
    BY <1>1, <2>1
  <2>3. QED
    BY <1>1, <1>4, <2>1, <2>2
<1>8. OperationFindsItsObject'
  BY <1>1, <1>2 DEF ExposureInv, OperationFacts, OperationFindsItsObject
<1>9. QED
  BY <1>1, <1>3, <1>5, <1>6, <1>7, <1>8 DEF ExposureInv, OperationFacts, BothOpen, Ends

LEMMA ReleaseStep ==
  ASSUME ExposureInv, NEW e \in open, ReleaseAll(e)
  PROVE  ExposureInv'
<1>1. /\ open' = open \ {e} /\ flight' = {} /\ responses' = {} /\ answered' = {}
      /\ UNCHANGED <<ids, stage, marker, releases, overtaken, lost, target, waitsFor,
                     earlier, cut, copies, result, awaiting, runs>>
  BY DEF ReleaseAll
<1>2. e \in Ends /\ ~BothOpen'
  BY <1>1 DEF ExposureInv, OperationFacts, OperationTypes, BothOpen
<1>3. CASE e = "owner"
  <2>1. /\ registry' = 0 /\ leases' = NoLeases /\ stored' = {}
        /\ UNCHANGED <<proxies, through, caller>>
    BY <1>3 DEF ReleaseAll, Forget
  <2>2. HandleTypes'
    <3>1. NoLeases \in LeaseState /\ 0 \in 0 .. MaxId
      BY HandleLeasesAssumption DEF NoLeases, LeaseState
    <3>2. QED
      BY <1>1, <2>1, <3>1 DEF ExposureInv, HandleTypes
  <2>3. "owner" \notin open' /\ open' \subseteq Ends
    BY <1>1, <1>3 DEF ExposureInv, OperationFacts, OperationTypes
  <2>4. OperationTypes'
    BY <1>1, <2>1, <2>3 DEF ExposureInv, OperationFacts, OperationTypes
  <2>5. OperationInv'
    BY <1>1, <1>3, <2>1, <2>3 DEF ExposureInv, OperationFacts, OperationInv, OperationsAreMade,
       Pending, ResultIsKept, FlightIsPending, EarlierIsWaitedFor
  <2>6. OperationHoldsProxy' /\ OperationFindsItsObject'
    BY <1>1, <2>1 DEF ExposureInv, OperationFacts, OperationHoldsProxy, OperationFindsItsObject,
       Unsettled, Reachable
  <2>7. QED
    BY <1>2, <2>2, <2>3, <2>4, <2>5, <2>6 DEF ExposureInv, OperationFacts
<1>4. CASE e = "holder"
  <2>1. /\ proxies' = [g \in Ids |-> NoProxy] /\ through' = [g \in Ids |-> {}]
        /\ caller' = [o \in Operations |-> IF o \in Pending THEN "rejected" ELSE caller[o]]
        /\ UNCHANGED <<registry, provisional, leases, stored>>
    BY <1>4 DEF ReleaseAll, tables
  <2>2. /\ "holder" \notin open' /\ open' \subseteq Ends /\ ("owner" \in open' => "owner" \in open)
    BY <1>1, <1>4 DEF ExposureInv, OperationFacts, OperationTypes
  <2>3. HandleTypes'
    BY <1>1, <2>1 DEF ExposureInv, HandleTypes, NoProxy
  <2>4. HandleInv => HandleInv'
    <3>1. \A g \in Ids : proxies'[g].state = "none"
      BY <2>1 DEF NoProxy
    <3>2. \A g, l : WasReceived(g, l)' <=> WasReceived(g, l)
      BY <1>1 DEF WasReceived
    <3>3. QED
      BY <1>1, <2>1, <3>1, <3>2 DEF HandleInv, MarkersDiffer, LeaseIsHighest, ProvisionalIsPending,
         LeasesKnowSends, LeasesAreReceived, ProxyIsLatest, GoneIsOvertaken, Carries, Later
  <2>5. \A o \in Operations : caller'[o] = IF caller[o] = "pending" THEN "rejected" ELSE caller[o]
    BY <2>1 DEF Pending
  <2>6. OperationTypes'
    <3>1. caller' \in [Operations ->
                        {"new", "waiting", "pending", "resolved", "rejected", "busy"}]
      BY <2>1 DEF ExposureInv, OperationFacts, OperationTypes
    <3>2. through' \in [Ids -> SUBSET Operations]
      BY <2>1
    <3>3. QED
      BY <1>1, <2>1, <2>2, <3>1, <3>2 DEF ExposureInv, OperationFacts, OperationTypes
  <2>7. OperationInv'
    <3>1. OperationsAreMade'
      BY <1>1, <2>1, <2>5 DEF ExposureInv, OperationFacts, OperationTypes, OperationInv,
         OperationsAreMade, Pending, Operations
    <3>2. ResultIsKept' /\ FlightIsPending'
      BY <1>1, <2>1, <2>2, <2>5 DEF ExposureInv, OperationFacts, OperationInv, ResultIsKept,
         FlightIsPending
    <3>3. EarlierIsWaitedFor'
      <4>1. \A g \in Ids : through'[g] = {}
        BY <2>1
      <4>2. \A o \in Operations : \A w \in earlier[o] : caller'[w] \notin {"new", "pending"}
        BY <2>5 DEF ExposureInv, OperationFacts, OperationTypes, OperationInv, EarlierIsWaitedFor,
           Operations
      <4>3. QED
        BY <1>1, <4>1, <4>2 DEF EarlierIsWaitedFor, Operations
    <3>4. QED
      BY <3>1, <3>2, <3>3 DEF OperationInv
  <2>8. OperationHoldsProxy' /\ OperationFindsItsObject'
    BY <1>1, <2>2, <2>5 DEF ExposureInv, OperationFacts, OperationHoldsProxy,
       OperationFindsItsObject
  <2>9. QED
    BY <1>2, <2>2, <2>3, <2>4, <2>6, <2>7, <2>8 DEF ExposureInv, OperationFacts
<1>5. QED
  BY <1>2, <1>3, <1>4 DEF Ends

\* A message that cannot be serialized leaves the tables alone.
LEMMA PrepareFailsStep ==
  ASSUME HandleTypes, HandleInv, NEW s \in Sends, PrepareFails(s)
  PROVE  HandleTypes' /\ HandleInv' /\ (Kept => Kept')
<1>1. /\ stage[s] = "new" /\ stage' = [stage EXCEPT ![s] = "over"]
      /\ UNCHANGED <<ids, registry, provisional, leases, marker, proxies, releases, overtaken, lost>>
  BY DEF PrepareFails, tables
<1>2. \A t \in Sends : stage'[t] = IF t = s THEN "over" ELSE stage[t]
  BY <1>1 DEF HandleTypes
<1>3. HandleTypes'
  BY <1>1 DEF HandleTypes
<1>4. /\ \A g, l : WasReceived(g, l)' <=> WasReceived(g, l)
      /\ \A g, l : OnWire(g, l)' <=> OnWire(g, l)
  BY <1>1, <1>2 DEF WasReceived, OnWire
<1>5. MarkersDiffer' /\ LeaseIsHighest' /\ ProvisionalIsPending' /\ LeasesKnowSends'
  BY <1>1, <1>2 DEF HandleInv, MarkersDiffer, LeaseIsHighest, ProvisionalIsPending,
                    LeasesKnowSends, Carries
<1>6. LeasesAreReceived' /\ ProxyIsLatest'
  BY <1>1, <1>2, <1>4 DEF HandleInv, LeasesAreReceived, ProxyIsLatest
<1>7. GoneIsOvertaken'
  <2> SUFFICES ASSUME NEW t \in Sends, stage'[t] \in {"prepared", "wire"}, marker[t].id # registry
               PROVE  \E u \in Sends : stage'[u] = "received" /\ Later(t, u)'
    BY <1>1 DEF GoneIsOvertaken
  <2>1. PICK u \in Sends : stage[u] = "received" /\ Later(t, u)
    BY <1>2 DEF HandleInv, GoneIsOvertaken
  <2>2. QED
    BY <1>1, <1>2, <2>1 DEF Later
<1>8. Kept => Kept'
  BY <1>1, <1>4 DEF Kept, CommittedIsKnown, KeptForSomebody
<1>9. QED
  BY <1>3, <1>5, <1>6, <1>7, <1>8 DEF HandleInv

LEMMA LeaseStepKeeps ==
  ASSUME ExposureInv, LeaseStep
  PROVE  ExposureInv'
<1>1. UNCHANGED <<open, holderVars, wireVars, ownerVars>>
  BY DEF LeaseStep
<1>2. open' = open
  BY <1>1
<1>3. ASSUME HandleTypes', "owner" \in open => HandleInv', BothOpen => Kept',
             \A g \in Ids : Reachable(g) => Reachable(g)', overtaken \subseteq overtaken'
      PROVE  ExposureInv'
  <2>1. OperationFacts'
    BY <1>1, <1>3, OperationsStay DEF ExposureInv
  <2>2. QED
    BY <1>2, <1>3, <2>1 DEF ExposureInv, BothOpen
<1>4. BothOpen => "owner" \in open /\ Kept
  BY DEF ExposureInv, BothOpen, Ends
<1>5. CASE "owner" \in open /\ OwnerSends
  <2>1. PICK s \in Sends : Prepare(s) \/ PrepareFails(s) \/ PutOnWire(s) \/ Rollback(s)
    BY <1>5 DEF OwnerSends
  <2>2. HandleTypes' /\ HandleInv' /\ (Kept => Kept')
    BY <1>5, <2>1, PrepareStep, PrepareFailsStep, PutOnWireStep, RollbackStep DEF ExposureInv
  <2>3. UNCHANGED <<proxies, overtaken>>
    BY <2>1 DEF Prepare, PrepareFails, PutOnWire, Rollback
  <2>4. QED
    BY <1>3, <1>4, <2>2, <2>3 DEF Reachable
<1>6. CASE "owner" \in open /\ OwnerHears
  <2>1. PICK r \in releases : ReceiveRelease(r)
    BY <1>6 DEF OwnerHears
  <2>2. HandleTypes' /\ HandleInv' /\ (Kept => Kept')
    BY <1>6, <2>1, ReceiveReleaseStep DEF ExposureInv
  <2>3. UNCHANGED <<proxies, overtaken>>
    BY <2>1 DEF ReceiveRelease
  <2>4. QED
    BY <1>3, <1>4, <2>2, <2>3 DEF Reachable
<1>7. CASE HolderHears
  <2>1. PICK s \in Sends : Receive(s)
    BY <1>7 DEF HolderHears
  <2>2. HandleTypes' /\ (HandleInv => HandleInv' /\ (Kept => Kept'))
    BY <1>7, <2>1, HolderTypes, ReceiveStep DEF ExposureInv
  <2>3. overtaken \subseteq overtaken' /\ \A g \in Ids : Reachable(g) => Reachable(g)'
    BY <2>1 DEF Receive, Reachable, ExposureInv, HandleTypes
  <2>4. QED
    BY <1>3, <1>4, <2>2, <2>3 DEF ExposureInv
<1>8. CASE \E g \in Ids : Finalize(g)
  <2>1. PICK g \in Ids : Finalize(g)
    BY <1>8
  <2>2. EndProxy(g) /\ proxies[g].state = "collected"
    BY <2>1 DEF Finalize
  <2>3. HandleTypes' /\ (HandleInv => HandleInv' /\ (Kept => Kept'))
    BY <2>2, HolderTypes, EndProxyStep DEF ExposureInv
  <2>4. overtaken' = overtaken /\ \A h \in Ids : Reachable(h) => Reachable(h)'
    BY <2>2 DEF EndProxy, Reachable, ExposureInv, HandleTypes
  <2>5. QED
    BY <1>3, <1>4, <2>3, <2>4 DEF ExposureInv
<1>9. CASE NetworkLoses
  <2>1. PICK s \in Sends : Lose(s)
    BY <1>9 DEF NetworkLoses
  <2>2. HandleTypes' /\ (HandleInv => HandleInv' /\ (Kept => Kept'))
    BY <1>9, <2>1, HolderTypes, LoseStep DEF ExposureInv
  <2>3. UNCHANGED <<proxies, overtaken>>
    BY <2>1 DEF Lose
  <2>4. QED
    BY <1>3, <1>4, <2>2, <2>3 DEF ExposureInv, Reachable
<1>10. QED
  BY <1>5, <1>6, <1>7, <1>8, <1>9 DEF LeaseStep

LEMMA OperationStepKeeps ==
  ASSUME ExposureInv,
         \/ \E o \in Operations : Operation(o) \/ \E g \in Ids : Write(o, g) \/ Ask(o, g)
         \/ \E x \in responses : ReceiveResponse(x)
         \/ \E x \in answered : Acknowledge(x)
  PROVE  ExposureInv'
<1>1. UNCHANGED handleVars /\ open' = open
  BY DEF Operation, Proceed, SendFails, Send, LoseCopy, ReceiveRequest, Return, Write, Ask, Through,
         ReceiveResponse, Acknowledge
<1>2. HandleTypes' /\ (HandleInv => HandleInv') /\ (Kept => Kept')
  BY <1>1, LeasesStay DEF ExposureInv
<1>3. ASSUME NEW o \in Operations, ReceiveRequest(o) PROVE OperationFacts'
  BY <1>3, ReceiveRequestStep DEF ExposureInv, ReceiveRequest
<1>4. OperationFacts'
  BY <1>3, ThroughStep, ProceedStep, SendFailsStep, SendStep, ReturnStep, ReceiveResponseStep,
     AcknowledgeStep DEF ExposureInv, Operation
<1>5. QED
  BY <1>1, <1>2, <1>4 DEF ExposureInv, BothOpen

LEMMA ExposureBegins == Init => ExposureInv
BY LeasesBegin, OperationsBegin DEF Init, ExposureInv

LEMMA ExposureStays == ExposureInv /\ [Next]_vars => ExposureInv'
<1> SUFFICES ASSUME ExposureInv, [Next]_vars PROVE ExposureInv'
  OBVIOUS
<1>1. CASE LeaseStep
  BY <1>1, LeaseStepKeeps
<1>2. ASSUME NEW e \in Ends, Stop(e) \/ PeerReleased(e) PROVE ExposureInv'
  <2>1. e \in open /\ ReleaseAll(e)
    BY <1>2 DEF Stop, PeerReleased, BothOpen
  <2>2. QED
    BY <2>1, ReleaseStep
<1>3. ASSUME NEW g \in Ids, Proxy(g) PROVE ExposureInv'
  BY <1>3, ProxyStep, OperationStepKeeps DEF Proxy
<1>4. ASSUME \/ \E o \in Operations : Operation(o)
             \/ \E x \in responses : ReceiveResponse(x)
             \/ \E x \in answered : Acknowledge(x)
      PROVE  ExposureInv'
  BY <1>4, OperationStepKeeps
<1>5. CASE UNCHANGED vars
  <2>1. UNCHANGED handleVars /\ UNCHANGED <<open, holderVars, wireVars, ownerVars>>
    BY <1>5 DEF vars
  <2>2. HandleTypes' /\ (HandleInv => HandleInv') /\ (Kept => Kept')
    BY <2>1, LeasesStay DEF ExposureInv
  <2>3. UNCHANGED <<proxies, overtaken, open>>
    BY <2>1 DEF handleVars
  <2>4. OperationFacts'
    BY <2>1, <2>3, OperationsStay DEF ExposureInv, Reachable
  <2>5. QED
    BY <2>2, <2>3, <2>4 DEF ExposureInv, BothOpen
<1>6. QED
  BY <1>1, <1>2, <1>3, <1>4, <1>5 DEF Next

\* The inductive invariant.
THEOREM ExposureInvHolds == Spec => []ExposureInv
BY ExposureBegins, ExposureStays, PTL DEF Spec

-----------------------------------------------------------------------------
(* The results.                                                            *)

\* An object is registered as long as a proxy of it is reachable (_serializePureRPC,
\* _handle), and only as long as somebody may reach it: the current lease is pending,
\* on the wire, held by a proxy, or in a release.
THEOREM ObjectsFollowProxies == Spec => []ObjectFollowsProxies
<1>1. ExposureInv => ObjectFollowsProxies
  <2> SUFFICES ASSUME ExposureInv, BothOpen
               PROVE  /\ \A g \in Ids \ overtaken : Reachable(g) => Registered(g)
                      /\ \A g \in Ids \ (overtaken \cup lost) :
                           Registered(g) =>
                             \/ \E s \in Sends :
                                  marker[s].id = g /\ stage[s] \in {"prepared", "wire"}
                             \/ proxies[g].state # "none"
                             \/ \E r \in releases : r.id = g
    BY DEF ObjectFollowsProxies
  <2>1. HandleInv /\ HandleTypes /\ CommittedIsKnown /\ KeptForSomebody
    BY DEF ExposureInv, Kept, BothOpen, Ends
  <2>2. \A g \in Ids \ overtaken : Reachable(g) => Registered(g)
    BY <2>1 DEF HandleInv, ProxyIsLatest, Reachable, Registered
  <2>3. ASSUME NEW g \in Ids \ (overtaken \cup lost), Registered(g)
        PROVE  \/ \E s \in Sends : marker[s].id = g /\ stage[s] \in {"prepared", "wire"}
               \/ proxies[g].state # "none"
               \/ \E r \in releases : r.id = g
    <3>1. registry = g /\ leases.current > 0 /\ leases.current \in Nat /\ leases.committed \in Nat
      BY <2>1, <2>3 DEF HandleInv, LeaseIsHighest, HandleTypes, LeaseState, Registered, Ids
    <3>2. CASE leases.current # leases.committed
      <4>1. PICK s \in Sends : leases.pending[s] = leases.current
        BY <2>1, <3>2 DEF HandleInv, LeaseIsHighest
      <4>2. stage[s] = "prepared" /\ marker[s].id = g
        BY <2>1, <3>1, <4>1 DEF HandleInv, LeasesKnowSends
      <4>3. QED
        BY <4>2
    <3>3. CASE leases.current = leases.committed
      <4>1. OnWire(g, leases.committed) \/ WasReceived(g, leases.committed)
        BY <2>1, <2>3, <3>1, <3>3 DEF CommittedIsKnown
      <4>2. QED
        BY <2>1, <2>3, <3>1, <3>3, <4>1 DEF KeptForSomebody, OnWire
    <3>4. QED
      BY <3>2, <3>3
  <2>4. QED
    BY <2>2, <2>3
<1>2. QED
  BY <1>1, ExposureInvHolds, PTL

\* No collection takes the object from an operation, for the operation holds its
\* proxy and the proxy's lease is known (leaseAnchor).
THEOREM OperationsFindTheirObject == Spec => []OperationFindsItsObject
<1>1. ExposureInv => OperationFindsItsObject
  BY DEF ExposureInv, OperationFacts
<1>2. QED
  BY <1>1, ExposureInvHolds, PTL

\* A read or a call that ran has no write before it that can still be applied: it
\* waited until the write was settled, and a settled write is stored at the owner as
\* long as a copy of it is on the wire.
THEOREM WritesAreFirst == Spec => WritesComeFirst
<1> DEFINE First == \A o \in Calls : \A w \in earlier[o] :
                      runs[o] > 0 /\ caller[w] # "busy" => runs'[w] = runs[w]
<1>1. ASSUME ExposureInv, [Next]_vars PROVE First
  <2> SUFFICES ASSUME NEW o \in Calls, NEW w \in earlier[o], runs[o] > 0, caller[w] # "busy"
               PROVE  runs'[w] = runs[w]
    OBVIOUS
  <2>1. o \in Operations /\ w \in Operations /\ runs \in [Operations -> Nat]
    BY <1>1 DEF ExposureInv, OperationFacts, OperationTypes, Operations
  <2>2. caller[o] # "waiting"
    BY <2>1, <1>1 DEF ExposureInv, OperationFacts, OperationInv, OperationsAreMade
  <2>3. caller[w] # "pending"
    BY <2>2, <1>1 DEF ExposureInv, OperationFacts, OperationInv, EarlierIsWaitedFor
  <2>4. ASSUME NEW p \in Operations, ReceiveRequest(p) PROVE runs'[w] = runs[w]
    <3>1. "owner" \in open /\ p \in flight /\ HandleRequest(p)
      BY <2>4 DEF ReceiveRequest
    <3>2. CASE p \in stored \/ p # w
      BY <2>1, <3>1, <3>2 DEF HandleRequest, AnswerStored, Work
    <3>3. CASE p \notin stored /\ p = w
      BY <1>1, <2>3, <3>1, <3>3 DEF ExposureInv, OperationFacts, OperationInv, FlightIsPending
    <3>4. QED
      BY <3>2, <3>3
  <2>5. CASE UNCHANGED runs
    BY <2>5
  <2>6. \/ UNCHANGED runs \/ \E p \in Operations : ReceiveRequest(p)
    BY <1>1 DEF Next, vars, ownerVars, LeaseStep, Stop, PeerReleased, ReleaseAll, Proxy, CollectProxy,
       DisposeProxy, Write, Ask, Through, Operation, Proceed, SendFails, Send, LoseCopy, Return,
       ReceiveResponse, Acknowledge
  <2>7. QED
    BY <2>4, <2>5, <2>6
<1>2. ExposureInv /\ [Next]_vars => [First]_vars
  BY <1>1
<1>3. QED
  BY <1>2, ExposureInvHolds, PTL DEF Spec, WritesComeFirst

=============================================================================
